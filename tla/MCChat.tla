------------------------------- MODULE MCChat -------------------------------
(***************************************************************************)
(* The instance TLC checks: two messages, pages of one, two requests in    *)
(* flight and an app that reads the pages.                                 *)
(***************************************************************************)
EXTENDS Chat, TLC
Symmetries == Permutations(Messages) \cup Permutations(Handlers)
=============================================================================
