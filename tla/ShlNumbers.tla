----------------------------- MODULE ShlNumbers -----------------------------
(***************************************************************************)
(* The strict number parser of src/shl_util.c: shl_ctoi(), the detection   *)
(* of the base, shl_atoi_ulln() with its accumulator that moves from a     *)
(* 32-bit to a 64-bit word, and the wrappers that clamp its result.        *)
(*                                                                         *)
(* The state is the input: a base, and a string that grows by one          *)
(* character with every step.  A character is its class and its offset in  *)
(* the class, so <<"lower", 23>> is an x.                                  *)
(***************************************************************************)
EXTENDS Integers, Sequences, SequencesExt

CONSTANTS
    Char,      \* the characters of the input
    Base,      \* the bases that are asked for
    U32Max,    \* UINT32_MAX and UINT_MAX
    ULLMax,    \* ULLONG_MAX, ULONG_MAX and SIZE_MAX
    MaxChars   \* length of the input (bound of the model)

VARIABLES str, base

vars == <<str, base>>

\* -EINVAL and -ERANGE: all that matters of them is that they are negative.
EINVAL == 22
ERANGE == 34

\* The value of a digit, or an error.
shl_ctoi(ch, b) ==
    LET v == IF ch[1] = "digit" THEN ch[2] ELSE ch[2] + 10
    IN  IF ch[1] = "other" \/ v >= b THEN -EINVAL ELSE v

Zero == <<"digit", 0>>
X    == <<"lower", 23>>

\* The base that a string asks for itself, and the characters it takes to
\* say so.
shl__skip_base(s) ==
    IF Len(s) > 1 /\ s[1] = Zero /\ shl_ctoi(s[2], 8) >= 0 THEN [base |-> 8, skip |-> 1]
    ELSE IF Len(s) > 2 /\ s[1] = Zero /\ s[2] = X /\ shl_ctoi(s[3], 16) >= 0
    THEN [base |-> 16, skip |-> 2]
    ELSE [base |-> 10, skip |-> 0]

BaseOf(s, b) == IF b = 0 THEN shl__skip_base(s) ELSE [base |-> b, skip |-> 0]

\* Mutant of Mult: only a product that is smaller than its factor overflows.
MultWrapped(val, factor, max) ==
    IF (val * factor) % (max + 1) >= val
    THEN [r |-> 0, val |-> (val * factor) % (max + 1)] ELSE [r |-> -ERANGE, val |-> val]

\* shl_mult_u32() and shl_mult_ull().
Mult(val, factor, max) ==
    IF val * factor <= max THEN [r |-> 0, val |-> val * factor] ELSE [r |-> -ERANGE, val |-> val]

\* val + c, where it does not wrap around.
NoWrap(val, c, max) == (val + c) % (max + 1) >= val

\* One round of the loop of shl_atoi_ulln().
Digit(acc, ch, b) ==
    LET c     == shl_ctoi(ch, b)
        m1    == Mult(acc.val1, b, U32Max)
        small == m1.r >= 0 /\ NoWrap(m1.val, c, U32Max)
        m2    == Mult(IF acc.huge THEN acc.val2 ELSE acc.val1, b, ULLMax)
        val2  == IF m2.r >= 0 /\ NoWrap(m2.val, c, ULLMax) THEN m2.val + c ELSE m2.val
    IN  CASE acc.stop \/ c < 0 -> [acc EXCEPT !.stop = TRUE]
          [] ~acc.stop /\ c >= 0 /\ acc.r < 0 -> [acc EXCEPT !.pos = @ + 1]
          [] ~acc.stop /\ c >= 0 /\ acc.r >= 0 /\ ~acc.huge /\ small ->
               [acc EXCEPT !.pos = @ + 1, !.val1 = m1.val + c, !.val2 = acc.val1]
          [] ~acc.stop /\ c >= 0 /\ acc.r >= 0 /\ (acc.huge \/ ~small) ->
               [acc EXCEPT !.pos = @ + 1, !.huge = TRUE, !.val2 = val2, !.r = m2.r]

\* The return value, the number, and the characters that were parsed.
shl_atoi_ulln(s, b) ==
    LET used == BaseOf(s, b)
        acc  == FoldLeft(LAMBDA a, ch : Digit(a, ch, used.base),
                         [huge |-> FALSE, val1 |-> 0, val2 |-> 0, r |-> 0, pos |-> 0, stop |-> FALSE],
                         SubSeq(s, used.skip + 1, Len(s)))
    IN  IF b > 36 THEN [r |-> -EINVAL, out |-> 0, next |-> 0]
        ELSE [r    |-> acc.r,
              out  |-> IF acc.r < 0 THEN ULLMax ELSE IF acc.huge THEN acc.val2 ELSE acc.val1,
              next |-> used.skip + acc.pos]

\* shl_atoi_uln(), shl_atoi_un() and shl_atoi_zn(): the same for a type that
\* ends at max.
shl_atoi_limited(s, b, max) ==
    LET res == shl_atoi_ulln(s, b)
    IN  [res EXCEPT !.r = IF res.r >= 0 /\ res.out > max THEN -ERANGE ELSE res.r,
                    !.out = Min({res.out, max})]

(***************************************************************************)
(* The inputs                                                              *)
(***************************************************************************)

Init == str = << >> /\ base \in Base

AppendChar(ch) ==
    /\ Len(str) < MaxChars
    /\ str' = Append(str, ch)
    /\ UNCHANGED base

Next == \E ch \in Char : AppendChar(ch)

(***************************************************************************)
(* What is parsed                                                          *)
(***************************************************************************)

\* The digits at the beginning of a string, as numbers.
Digits(s, b) ==
    LET bad == {i \in 1..Len(s) : shl_ctoi(s[i], b) < 0}
        len == IF bad = {} THEN Len(s) ELSE Min(bad) - 1
    IN  [i \in 1..len |-> shl_ctoi(s[i], b)]

\* The number that a sequence of digits denotes.
Denotes(d, b) == MapThenSumSet(LAMBDA i : d[i] * b^(Len(d) - i), DOMAIN d)

\* What a parser for a type that ends at max should return.
Expected(s, b, max) ==
    LET used == BaseOf(s, b)
        d    == Digits(SubSeq(s, used.skip + 1, Len(s)), used.base)
        v    == Denotes(d, used.base)
    IN  [r |-> IF v > max THEN -ERANGE ELSE 0, out |-> Min({v, max}), next |-> used.skip + Len(d)]

PowersOf2 == {2, 4, 8, 16, 32}

\* Every string is parsed as far as its digits go, and to the number they
\* denote: by the 64-bit parser whenever the number fits or the base is a
\* power of two, and by the 32-bit one always; there what is too large is
\* reported and clamped.
AtoiExact ==
    IF base > 36
    THEN shl_atoi_ulln(str, base) = [r |-> -EINVAL, out |-> 0, next |-> 0]
    ELSE LET exact == Expected(str, base, ULLMax)
         IN  /\ shl_atoi_ulln(str, base).next = exact.next
             /\ exact.r = 0 \/ BaseOf(str, base).base \in PowersOf2
                  => shl_atoi_ulln(str, base) = exact
             /\ shl_atoi_ulln(str, base).r < 0 => exact.r < 0
             /\ shl_atoi_limited(str, base, U32Max) = Expected(str, base, U32Max)

\* "We also always check for overflows and return errors" (shl_util.c:36).
OverflowReported ==
    base <= 36 /\ Expected(str, base, ULLMax).r < 0 => shl_atoi_ulln(str, base).r < 0
=============================================================================
