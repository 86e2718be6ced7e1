---------------------------- MODULE MCShlHtable ----------------------------
(***************************************************************************)
(* Small instances of ShlHtable for TLC.                                   *)
(***************************************************************************)
EXTENDS ShlHtable

\* Addresses with their highest bit in common, as those of the objects of a
\* program usually are.  One of them is odd, so that the perfect bit is lost.
NearPtr == {{3, 1}, {3, 2}, {3, 2, 1}, {3, 0}}

\* Two objects have the same key.
NearKey == [p \in NearPtr |-> IF p = {3, 2, 1} THEN {3, 1} ELSE p]

\* Three different keys: two in one bucket of a table of four slots, and one
\* in the bucket behind it, so that probes wrap around.
NearHash == [k \in {{3, 1}, {3, 2}, {3, 0}} |->
                IF k = {3, 1} THEN {1} ELSE IF k = {3, 2} THEN {2, 1} ELSE {1, 0}]

\* The key of two objects.
NearKept == {{3, 1}}

\* Two addresses that differ in the highest bit of one of them and in nothing
\* else; the keys have the hash 0.
FarPtr == {{3, 1}, {1}}
FarKey == [p \in FarPtr |-> p]
FarHash == [k \in FarPtr |-> {}]
=============================================================================
