----------------------------- MODULE RateLimit -----------------------------
(***************************************************************************)
(* The limit on requests of a client: middleware/rateLimit.ts.             *)
(*                                                                         *)
(* A bucket in the memory of the server counts the requests of a client in *)
(* a window of time that begins with the request that finds none open.     *)
(* The middleware runs without a pause, so that every request is one step. *)
(*                                                                         *)
(* Time is a clock that never goes back (Date.now on a server whose clock  *)
(* is not set back).  passed is a history: the requests let in since the   *)
(* server was started, each with the position of the request that opened   *)
(* its window.                                                             *)
(*                                                                         *)
(* One server: each instance counts for itself, so that a deployment of n  *)
(* of them, or one that starts an instance for a burst, lets in n times    *)
(* what is said here.                                                      *)
(***************************************************************************)
EXTENDS Integers, Sequences

CONSTANTS
  Clients,
  Max,       \* options.max
  Window,    \* options.windowMs
  Patience,  \* how often a client asks in vain in one window (a bound of the model)
  Horizon    \* the clock stops here (a bound of the model)

ASSUME LimitAssumption ==
  Max \in Nat \ {0} /\ Window \in Nat \ {0} /\ Patience \in Nat /\ Horizon \in Nat

VARIABLES now, bucket, passed

vars == <<now, bucket, passed>>

Bucket == [count : Nat \ {0}, windowStart : Nat]

\* No bucket yet.
Unseen == [count |-> 0, windowStart |-> 0]

Pass == [at : Nat, opener : Nat]

TypeOK ==
  /\ now \in Nat
  /\ bucket \in [Clients -> Bucket \cup {Unseen}]
  /\ passed \in [Clients -> Seq(Pass)]

Init ==
  /\ now = 0
  /\ bucket = [c \in Clients |-> Unseen]
  /\ passed = [c \in Clients |-> << >>]

Tick ==
  /\ now < Horizon
  /\ now' = now + 1
  /\ UNCHANGED <<bucket, passed>>

-----------------------------------------------------------------------------
\* Mutant: the window is reckoned from the clock, not from the request.
ExpiredByClock(b) == b = Unseen \/ now \div Window # b.windowStart \div Window

Expired(b) == b = Unseen \/ now - b.windowStart >= Window

LetIn(c, opener) ==
  passed' = [passed EXCEPT ![c] = Append(@, [at |-> now, opener |-> opener])]

OpenWindow(c) ==
  /\ Expired(bucket[c])
  /\ bucket' = [bucket EXCEPT ![c] = [count |-> 1, windowStart |-> now]]
  /\ LetIn(c, Len(passed[c]) + 1)
  /\ UNCHANGED now

\* Mutant: the count is compared before it is incremented.
FullBefore(b) == b.count > Max

Full(b) == b.count + 1 > Max

CountIn(c) ==
  /\ ~Expired(bucket[c]) /\ ~Full(bucket[c])
  /\ bucket' = [bucket EXCEPT ![c].count = @ + 1]
  /\ LetIn(c, passed[c][Len(passed[c])].opener)
  /\ UNCHANGED now

\* Mutant: a refused request starts the window anew.
RefuseAndRestart(c) ==
  /\ ~Expired(bucket[c]) /\ Full(bucket[c]) /\ bucket[c].count < Max + Patience
  /\ bucket' = [bucket EXCEPT ![c] = [count |-> @.count + 1, windowStart |-> now]]
  /\ UNCHANGED <<now, passed>>

\* 429, and the request is counted all the same.
Refuse(c) ==
  /\ ~Expired(bucket[c]) /\ Full(bucket[c]) /\ bucket[c].count < Max + Patience
  /\ bucket' = [bucket EXCEPT ![c].count = @ + 1]
  /\ UNCHANGED <<now, passed>>

\* The buckets are lost.
Restart ==
  /\ bucket' = [c \in Clients |-> Unseen]
  /\ passed' = [c \in Clients |-> << >>]
  /\ UNCHANGED now

Next ==
  \/ Tick \/ Restart
  \/ \E c \in Clients : OpenWindow(c) \/ CountIn(c) \/ Refuse(c)

Spec == Init /\ [][Next]_vars

-----------------------------------------------------------------------------
\* What the limit is worth around the end of a window: of any 2 * Max requests of
\* a client that are let in one after another, the first and the last are Window
\* or more apart.  (Not of Max + 1: a full window can follow a full one.)
BurstBound ==
  \A c \in Clients : \A i, j \in DOMAIN passed[c] :
    j - i >= 2 * Max - 1 => passed[c][j].at - passed[c][i].at >= Window

\* Nobody is refused for requests that were refused or are out of date: who is,
\* for the first time in a window or again and again while the count goes on, has
\* been let in Max times within the last Window.
RefusedForCause ==
  [][\A c \in Clients :
       Refuse(c) => /\ Len(passed[c]) >= Max
                    /\ now - passed[c][Len(passed[c]) - Max + 1].at < Window]_vars
=============================================================================
