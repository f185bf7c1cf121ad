------------------------------- MODULE MCPiiMask -------------------------------
(***************************************************************************)
(* PiiMask for TLC: two messages, so that values come back in another one; *)
(* two detectors, so that one yields to the other; two letters, so that    *)
(* texts repeat and differ (which is which does not matter).               *)
(***************************************************************************)
EXTENDS PiiMask, TLC

MCPriority == <<"email", "card">>
MCLengths == <<3, 2>>
LetterSymmetry == Permutations(Letters)
=============================================================================
