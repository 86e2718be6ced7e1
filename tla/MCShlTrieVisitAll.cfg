\* The same instance; only the visit without a prefix is asked for.
CONSTANTS
    a = a
    b = b
    c = c
    d = d
    e = e
    f = f
    twin = twin
    odd = odd
    Width = 2
    Node = {m, n, o, p, q}
    Object = {a, b, c, d, e, f, twin, odd}
    Misaligned = {odd}
    KeyOf <- KeyOfDef
    Key <- KeyDef
    Trie = Trie
    None = None

SPECIFICATION Spec

INVARIANT
    VisitsWholeTrie
