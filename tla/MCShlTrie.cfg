\* Six keys, an object with a key that another one has, and one that is
\* not aligned.
CONSTANTS
    a = a
    b = b
    c = c
    d = d
    e = e
    f = f
    twin = twin
    odd = odd
    Width = 2
    Node = {m, n, o, p, q}
    Object = {a, b, c, d, e, f, twin, odd}
    Misaligned = {odd}
    KeyOf <- KeyOfDef
    Key <- KeyDef
    Trie = Trie
    None = None

SPECIFICATION FairSpec

INVARIANTS
    TrieExact
    VisitExact
    TraversalSafe

PROPERTY
    TraversalEnds
