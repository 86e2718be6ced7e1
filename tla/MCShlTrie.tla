----------------------------- MODULE MCShlTrie ------------------------------
(***************************************************************************)
(* A small instance of ShlTrie for TLC: bytes of two bits, keys of up to   *)
(* two bytes.                                                              *)
(***************************************************************************)
EXTENDS ShlTrie

CONSTANTS a, b, c, d, e, f, twin, odd    \* the objects

KeyDef == BoundedSeq({{0}, {1}, {0, 1}}, 2)

\* The keys differ in either bit of either byte and in their length; two
\* objects have the same one.
KeyOfDef ==
    a :> << >> @@ b :> <<{0}>> @@ c :> <<{1}>> @@ d :> <<{0}, {0, 1}>>
      @@ e :> <<{0}, {1}>> @@ f :> <<{1}, {0}>> 
      @@ twin :> <<{1}>> @@ odd :> <<{0, 1}>>
=============================================================================
