----------------------------- MODULE MCAccounts -----------------------------
(***************************************************************************)
(* The instance TLC checks: one account, two requests in flight, three     *)
(* tokens.                                                                 *)
(***************************************************************************)
EXTENDS AccountsSerial, TLC

CONSTANTS u1, p1, p2, t1, t2, t3, h1, h2

Symmetries ==
  Permutations(Handlers) \cup Permutations(Passwords) \cup Permutations(Tokens)
=============================================================================
