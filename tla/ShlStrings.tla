----------------------------- MODULE ShlStrings -----------------------------
(***************************************************************************)
(* Splitting, joining and quoting of strings in src/shl_util.c.            *)
(*                                                                         *)
(* A string is a sequence of characters without the terminating zero; the  *)
(* state is a text that grows by one character with every step, and the    *)
(* functions are operators on it.  Vectors of strings are grown by         *)
(* shl_greedy_realloc0() and lines by shl_greedy_realloc_t(): whether the  *)
(* memory suffices for what is written is part of their results.  The      *)
(* functions that make a vector take the number of the allocation that     *)
(* fails, counted from the start of the call, or 0 if none does.           *)
(***************************************************************************)
EXTENDS Integers, Sequences, FiniteSets, SequencesExt

CONSTANTS
    Char,        \* the characters of the text
    MinSlots,    \* entries of the smallest vector: 64 bytes
    MinLine,     \* bytes of the smallest line: 64
    MaxText      \* length of the text (bound of the model)

VARIABLE text

vars == <<text>>

Blank     == " "
Tab       == "tab"
Comma     == ","
Backslash == "\\"
Double    == "\""
Single    == "'"

ENOMEM == 12

Pow2Above(n) == CHOOSE p \in {2^i : i \in 0..(n + 1)} : p >= n /\ p < 2 * n

\* shl_greedy_realloc_t() and its relatives, where realloc() succeeds.
Greedy(size, min, need) == IF size >= need THEN size ELSE Pow2Above(Max({min, need}))

\* The vector of a call before its first entry.  held are the blocks the call
\* has allocated: 0 is the vector, and every entry is a block of its own.
EmptyVector(oom) ==
    [end |-> IF oom = 1 THEN "error" ELSE "ok", held |-> IF oom = 1 THEN {} ELSE {0},
     strv |-> << >>, slots |-> 1, made |-> 1]

\* shl__split_push() and shl__qstr_push(): an entry, and room for the NULL
\* behind it.  The vector is only allocated again if it has to grow, and that
\* is checked; the malloc() of the entry is not, and memcpy() writes to NULL.
Push(v, token, oom) ==
    LET num   == Len(v.strv) + 1
        grow  == IF v.slots < num + 1 THEN v.made + 1 ELSE v.made
        entry == grow + 1
    IN  CASE v.end # "ok" -> v
          [] v.end = "ok" /\ oom = grow  -> [v EXCEPT !.end = "error"]
          [] v.end = "ok" /\ oom = entry -> [v EXCEPT !.end = "crash"]
          [] OTHER -> [v EXCEPT !.strv = Append(@, token), !.held = @ \cup {num}, !.made = entry,
                                !.slots = Greedy(@, MinSlots, num + 1)]

\* How the call ends.  out is what it stores for the caller, at most one
\* vector, and held what stays allocated: the NULL at the end of a vector is
\* in bounds, and an error frees the vector and its entries.
Finish(v) ==
    CASE v.end = "ok"    -> [r |-> Len(v.strv), out |-> <<v.strv>>, held |-> v.held,
                             fits |-> Len(v.strv) < v.slots]
      [] v.end = "error" -> [r |-> -ENOMEM, out |-> << >>, held |-> v.held \ (0..Len(v.strv)),
                             fits |-> TRUE]
      [] v.end = "crash" -> [crash |-> "memcpy"]

(***************************************************************************)
(* shl_strsplit_n()                                                        *)
(***************************************************************************)

\* Mutant of SplitChar: a separator right behind another one makes an empty
\* token.
SplitCharAt(acc, str, sep, i, oom) ==
    IF str[i] \in sep
    THEN [v |-> Push(acc.v, SubSeq(str, acc.pos, i - 1), oom), pos |-> i + 1]
    ELSE acc

\* A token ends at a separator, unless it is empty.
SplitChar(acc, str, sep, i, oom) ==
    IF str[i] \in sep
    THEN [v |-> IF acc.pos # i THEN Push(acc.v, SubSeq(str, acc.pos, i - 1), oom) ELSE acc.v,
          pos |-> i + 1]
    ELSE acc

shl_strsplit_n(str, sep, oom) ==
    LET n   == Len(str)
        acc == FoldLeft(LAMBDA a, i : SplitChar(a, str, sep, i, oom),
                        [v |-> EmptyVector(oom), pos |-> 1], [i \in 1..n |-> i])
    IN  Finish(IF n > 0 /\ acc.pos # n + 1 THEN Push(acc.v, SubSeq(str, acc.pos, n), oom) ELSE acc.v)

(***************************************************************************)
(* Quoted strings                                                          *)
(***************************************************************************)

\* Among the letters only those of the escapes are special: they stand for
\* control characters.
shl_qstr_unescape_char(c) ==
    CASE c \in {Double, Single, Backslash} -> c
      [] c = "t" -> Tab
      [] OTHER -> "none"

\* Writes into the memory that is still being read.
Write(d, c) == [d EXCEPT !.mem[d.pos] = c, !.pos = @ + 1]

\* One character of shl_qstr_decode_n(), which decodes in place.
DecodeChar(d, i) ==
    LET c == d.mem[i]
        u == shl_qstr_unescape_char(c)
    IN  CASE d.escaped /\ u # "none" -> Write([d EXCEPT !.escaped = FALSE], u)
          [] d.escaped /\ u = "none" -> Write(Write([d EXCEPT !.escaped = FALSE], Backslash), c)
          [] ~d.escaped /\ c = Backslash -> [d EXCEPT !.escaped = TRUE]
          [] ~d.escaped /\ d.quoted # "none" /\ c = d.quoted -> [d EXCEPT !.quoted = "none"]
          [] ~d.escaped /\ d.quoted = "none" /\ c \in {Double, Single} -> [d EXCEPT !.quoted = c]
          [] OTHER -> Write(d, c)

shl_qstr_decode_n(str) ==
    LET n == Len(str)
        d == FoldLeft(DecodeChar, [mem |-> str, pos |-> 1, escaped |-> FALSE, quoted |-> "none"],
                      [i \in 1..n |-> i])
        e == IF d.escaped THEN Write(d, Backslash) ELSE d
    IN  SubSeq(e.mem, 1, e.pos - 1)

\* One character of shl_qstr_tokenize_n().  No quote is ever open: the tests
\* that would open one ask for an open quote of the same kind.
TokenizeChar(acc, str, i, oom) ==
    CASE acc.escaped -> [acc EXCEPT !.escaped = FALSE]
      [] ~acc.escaped /\ str[i] = Backslash -> [acc EXCEPT !.escaped = TRUE]
      [] ~acc.escaped /\ str[i] = Blank ->
           [acc EXCEPT !.v = IF acc.pos # i
                             THEN Push(@, shl_qstr_decode_n(SubSeq(str, acc.pos, i - 1)), oom) ELSE @,
                       !.pos = i + 1]
      [] OTHER -> acc

shl_qstr_tokenize_n(str, oom) ==
    LET n   == Len(str)
        acc == FoldLeft(LAMBDA a, i : TokenizeChar(a, str, i, oom),
                        [v |-> EmptyVector(oom), pos |-> 1, escaped |-> FALSE], [i \in 1..n |-> i])
    IN  Finish(IF n > 0 /\ acc.pos # n + 1
               THEN Push(acc.v, shl_qstr_decode_n(SubSeq(str, acc.pos, n)), oom) ELSE acc.v)

\* The flag that shl__qstr_length() sets.
NeedQuote(str) == Blank \in ToSet(str) \/ Tab \in ToSet(str)

\* Mutant of EscapeOf: a backslash is not escaped.
EscapeQuotes(c) == IF c = Double THEN <<Backslash, c>> ELSE <<c>>

EscapeOf(c) == IF c \in {Backslash, Double} THEN <<Backslash, c>> ELSE <<c>>

shl__qstr_encode(str) ==
    LET body == FlattenSeq([i \in 1..Len(str) |-> EscapeOf(str[i])])
    IN  IF NeedQuote(str) THEN <<Double>> \o body \o <<Double>> ELSE body

\* One string of shl_qstr_join(), with the memory that is made for it.
JoinString(acc, str) ==
    LET line == (IF acc.line # << >> THEN Append(acc.line, Blank) ELSE acc.line)
                    \o shl__qstr_encode(str)
        size == Greedy(acc.size, MinLine, 2 * Len(str) + Len(acc.line) + 4)
    IN  [line |-> line, size |-> size, fits |-> acc.fits /\ Len(line) < size]

shl_qstr_join(strv) ==
    FoldLeft(JoinString, [line |-> << >>, size |-> Greedy(0, MinLine, 1), fits |-> TRUE], strv)

(***************************************************************************)
(* The inputs                                                              *)
(***************************************************************************)

Init == text = << >>

AppendToText(c) == Len(text) < MaxText /\ text' = Append(text, c)

Next == \E c \in Char : AppendToText(c)

(***************************************************************************)
(* Properties                                                              *)
(***************************************************************************)

\* The maximal pieces of a text without separators, in their order.
Pieces(str, sep) ==
    LET inside(i, j) == \A k \in i..j : str[k] \notin sep
        spans == {s \in (1..Len(str)) \X (1..Len(str)) :
                    /\ s[1] <= s[2] /\ inside(s[1], s[2])
                    /\ s[1] = 1 \/ str[s[1] - 1] \in sep
                    /\ s[2] = Len(str) \/ str[s[2] + 1] \in sep}
        order == SetToSortSeq(spans, LAMBDA a, b : a[1] < b[1])
    IN  [i \in 1..Len(order) |-> SubSeq(str, order[i][1], order[i][2])]

Vector(strv) ==
    [r |-> Len(strv), out |-> <<strv>>, held |-> 0..Len(strv), fits |-> TRUE]

Failure == [r |-> -ENOMEM, out |-> << >>, held |-> {}, fits |-> TRUE]

\* The entries in 1..n that find the vector full.
GrowsAt(n) == {k \in 1..n : k = 1 \/ \E i \in 0..k : k = MinSlots * 2^i}

\* The allocations of a vector of n entries: the vector, and for each entry a
\* larger vector if it is full, and then the entry.
VectorAllocations(n) == {1} \cup {k + Cardinality(GrowsAt(k)) : k \in GrowsAt(n)}

\* Whichever allocation of the vector fails, there is an error, nothing for
\* the caller and nothing left allocated.  The entries are not promised
\* anything: their malloc() is not checked.
FailsWhole(result(_), n) == \A oom \in VectorAllocations(n) : result(oom) = Failure

\* Splitting returns the pieces between separators, wherever they are and
\* however often the vector grows; if the vector cannot be allocated or grown
\* it returns an error, stores nothing and keeps no entry it made before.
\* What splits at blanks only agrees with the tokeniser of quoted strings on
\* texts without quotes and escapes, in its failures too.
SplitExact ==
    LET strv   == Pieces(text, {Comma, Blank})
        tokens == Pieces(text, {Blank})
    IN  /\ shl_strsplit_n(text, {Comma, Blank}, 0) = Vector(strv)
        /\ FailsWhole(LAMBDA oom : shl_strsplit_n(text, {Comma, Blank}, oom), Len(strv))
        /\ ToSet(text) \cap {Backslash, Single, Double} = {} =>
             /\ shl_qstr_tokenize_n(text, 0) = Vector(tokens)
             /\ FailsWhole(LAMBDA oom : shl_qstr_tokenize_n(text, oom), Len(tokens))

\* The strings that survive quoting: not empty, without blanks, which the
\* tokeniser splits at even inside of quotes, and without single quotes,
\* which are not escaped.
Quotable(str) == str # << >> /\ {Blank, Single} \cap ToSet(str) = {}

\* A vector of such strings that is joined to a line and tokenised again is
\* the same vector, whatever escapes it needs, and the line never outgrows
\* the memory that was made for it.
QuotingExact ==
    LET strv == shl_strsplit_n(text, {Comma}, 0).out[1]
        line == shl_qstr_join(strv)
    IN  /\ line.fits
        /\ (\A i \in 1..Len(strv) : Quotable(strv[i])) =>
             shl_qstr_tokenize_n(line.line, 0) = Vector(strv)
=============================================================================
