----------------------------- MODULE ShlHelpers -----------------------------
(***************************************************************************)
(* The small helpers of libshl side by side: the list of src/shl_dlist.h,  *)
(* the buffer of src/shl_buf.h, and the parts of src/shl_util.c.  They     *)
(* share no state and never call back, so a behaviour runs one of them and *)
(* leaves the others as they start.                                        *)
(***************************************************************************)
EXTENDS Integers, Sequences, FiniteSets, TLC

CONSTANT Helper     \* the helpers that are run

CONSTANTS ListHead, Elem, NULL
VARIABLES next, prev, order, loop
Dlist == INSTANCE ShlDlist

CONSTANTS Numeral, Base, U32Max, ULLMax, MaxChars
VARIABLES str, base
Numbers == INSTANCE ShlNumbers WITH Char <- Numeral

CONSTANTS Char, MinSlots, MinLine, MaxText
VARIABLE text
Strings == INSTANCE ShlStrings

CONSTANTS Byte, Undef, SizeMax, DefaultSize, MaxAlloc, MaxPush, MaxNeed, AlignOverflow
VARIABLES buf, size, used, arr, cnt, content, elems
Buf == INSTANCE ShlBuf

CONSTANTS Interval, Burst, MaxTime
VARIABLES now, begin, num, granted
Ratelimit == INSTANCE ShlRatelimit

CONSTANTS Process, Path, Prefix, Existing
VARIABLES tree, pc, depth, ret, made, had, removed
Directories == INSTANCE ShlMkdir

VARIABLE helper     \* the one that runs

ASSUME HelpersAssumption ==
    /\ ListHead \cap Elem = {} /\ NULL \notin ListHead \cup Elem
    /\ 36 <= U32Max /\ U32Max < ULLMax
    /\ Interval \in Nat \ {0} /\ Burst \in Nat \ {0}
    /\ 0 \in Byte /\ Undef \notin Byte

\* Sizes are size_t values, and there is a power of two that is enough for the
\* longest array, and for the largest buffer and the data of a push together.
\* SHL_ALIGN_POWER2() of a larger size shifts by the width of the word, which
\* is undefined.
ASSUME SizesAssumption ==
    /\ SizeMax \in Nat /\ DefaultSize \in Buf!Pow2 /\ AlignOverflow \in {0, 1}
    /\ MaxAlloc \in Nat /\ MaxPush \in Nat /\ MaxNeed \in Nat
    /\ \E p \in Buf!Pow2 : DefaultSize <= p /\ MaxNeed <= p /\ MaxAlloc + MaxPush <= p

\* Paths have components, and what exists at first is a tree.
ASSUME PathsAssumption ==
    /\ \A p \in Process : /\ Path[p] \in Seq(Directories!Name) \ {<< >>}
                          /\ Prefix[p] \in Seq(Directories!Name)
    /\ \A dirs \in Existing : \A q \in dirs : \A n \in 1..(Len(q) - 1) :
           SubSeq(q, 1, n) \in dirs

dlistVars  == <<next, prev, order, loop>>
numberVars == <<str, base>>
stringVars == <<text>>
bufVars    == <<buf, size, used, content, arr, cnt, elems>>
rateVars   == <<now, begin, num, granted>>
mkdirVars  == <<tree, pc, depth, ret, made, had, removed>>

vars == <<dlistVars, numberVars, stringVars, bufVars, rateVars, mkdirVars, helper>>

\* Every helper starts as it does alone; what one that does not run would be
\* given makes no difference.
Init ==
    /\ helper \in Helper
    /\ Dlist!Init /\ Strings!Init /\ Buf!Init /\ Ratelimit!Init
    /\ IF helper = "numbers" THEN Numbers!Init
       ELSE str = << >> /\ base = CHOOSE b \in Base : TRUE
    /\ Directories!Init
    /\ helper # "mkdir" => tree = [q \in Directories!Place |-> "none"]

RunDlist ==
    /\ helper = "dlist" /\ Dlist!Next
    /\ UNCHANGED <<numberVars, stringVars, bufVars, rateVars, mkdirVars, helper>>

RunNumbers ==
    /\ helper = "numbers" /\ Numbers!Next
    /\ UNCHANGED <<dlistVars, stringVars, bufVars, rateVars, mkdirVars, helper>>

RunStrings ==
    /\ helper = "strings" /\ Strings!Next
    /\ UNCHANGED <<dlistVars, numberVars, bufVars, rateVars, mkdirVars, helper>>

RunBuf ==
    /\ helper = "buf" /\ Buf!Next
    /\ UNCHANGED <<dlistVars, numberVars, stringVars, rateVars, mkdirVars, helper>>

RunRatelimit ==
    /\ helper = "ratelimit" /\ Ratelimit!Next
    /\ UNCHANGED <<dlistVars, numberVars, stringVars, bufVars, mkdirVars, helper>>

RunDirectories ==
    /\ helper = "mkdir" /\ Directories!Next
    /\ UNCHANGED <<dlistVars, numberVars, stringVars, bufVars, rateVars, helper>>

Next == RunDlist \/ RunNumbers \/ RunStrings \/ RunBuf \/ RunRatelimit \/ RunDirectories

Spec == Init /\ [][Next]_vars

\* A loop over a list goes on when its body returns.
FairSpec == Spec /\ WF_vars(RunDlist /\ Dlist!Advance) /\ WF_vars(RunDlist /\ Dlist!EndLoop)

(***************************************************************************)
(* Properties                                                              *)
(***************************************************************************)

\* shl_dlist_link() and its relatives: the pointers of every list run through
\* exactly what was linked, in both directions.
ListsExact == Dlist!TypeOK /\ Dlist!ListsExact

\* The loops of shl_dlist.h stay in their list and visit every element that
\* stays in it once, whatever their bodies link and unlink.
LoopExact == Dlist!LoopStaysInList /\ Dlist!LoopVisitsAll

\* They end, unless their bodies keep on linking elements.
LoopEnds == Dlist!LoopEnds

\* shl_atoi_ulln() and its wrappers parse every string to the number it
\* denotes.
AtoiExact == Numbers!AtoiExact

\* "We also always check for overflows and return errors" (shl_util.c:36).
OverflowReported == Numbers!OverflowReported

\* shl_strsplit_n() returns the pieces between separators.
SplitExact == Strings!SplitExact

\* shl_qstr_tokenize_n() undoes shl_qstr_join() for strings without blanks
\* and single quotes, and the line of the latter never outgrows its memory.
QuotingExact == Strings!QuotingExact

\* shl_buf_push(), pop, pull and the zeroing reallocation keep and add exactly
\* what they should.
BufExact == Buf!BufExact

\* shl_ratelimit_test() grants at most two bursts in any interval, and refuses
\* only after one.
RateLimited == Ratelimit!RateLimited

\* shl_mkdir_p() does what it reports, also when several processes create the
\* same directories at once.
MkdirDone == Directories!MkdirDone
=============================================================================
