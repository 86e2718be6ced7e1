---------------------------- MODULE MCShlHelpers ----------------------------
(***************************************************************************)
(* Small instances of ShlHelpers for TLC.                                  *)
(***************************************************************************)
EXTENDS ShlHelpers

CONSTANTS one, two, three            \* processes
CONSTANTS home, user, docs, music    \* names of directories

\* 0, 1, 4, 7, 9, a, F, x and a character that is no digit.
NumeralDef == {<<"digit", 0>>, <<"digit", 1>>, <<"digit", 4>>, <<"digit", 7>>, <<"digit", 9>>,
             <<"lower", 0>>, <<"upper", 5>>, <<"lower", 23>>, <<"other", 0>>}

CharDef == {"x", "t", ",", " ", "tab", "\\", "\"", "'"}

\* Two processes meet in one directory, one of them below a prefix that may
\* exist; the prefix of the third one does not fit.
PathDef     == one :> <<home, user, docs>> @@ two :> <<home, user, music>> @@ three :> <<home>>
PrefixDef   == one :> << >> @@ two :> <<home>> @@ three :> <<user>>
ExistingDef == {{}, {<<home>>}, {<<home>>, <<home, user>>}}
=============================================================================
