------------------------------- MODULE MCPush -------------------------------
(***************************************************************************)
(* The instance TLC checks: two notices at once, two devices, batches of    *)
(* one.                                                                    *)
(***************************************************************************)
EXTENDS Push, TLC

Symmetries ==
  Permutations(Users) \cup Permutations(Devices) \cup Permutations(Notices)
=============================================================================
