--------------------------- MODULE AccountsSerial ---------------------------
(***************************************************************************)
(* What sessions and reset codes owe their users as long as no two         *)
(* requests overlap.  Two history variables watch the accounts: what is    *)
(* said here is said of the behaviours in which overlapped stays FALSE.    *)
(***************************************************************************)
EXTENDS Accounts

VARIABLES
  overlapped,   \* two requests were once in flight together
  spent         \* accounts whose present reset code has reset a password

watched == <<vars, overlapped, spent>>

WatchedInit == Init /\ overlapped = FALSE /\ spent = {}

NewResetCode(h, u) ==
  SendOtp(h, u, "reset") \/ (RenewOtp(h) /\ req[h].u = u /\ req[h].p = "reset")

WatchedStep(h) ==
  /\ HandlerStep(h)
  /\ overlapped' = (overlapped \/ \E g \in Handlers \ {h} : req[g] # Idle)
  /\ spent' = {u \in Users :
       \/ CommitResetPassword(h) /\ req[h].u = u
       \/ u \in spent /\ ~NewResetCode(h, u)}

WatchedNext ==
  \/ TimeStep /\ UNCHANGED <<overlapped, spent>>
  \/ \E h \in Handlers : WatchedStep(h)

WatchedSpec == WatchedInit /\ [][WatchedNext]_watched

\* The tokens nothing has replaced.
Ends == {t \in Tokens : token[t].status # "none" /\ token[t].next = NoToken}

\* Every sign-in has one token to go on with: a refresh hands it over to its
\* replacement, and no two tokens of a session can be refreshed side by side.
\* (Two refreshes of a token that overlap both read it live: the second one's
\* replacement takes the first one's place in the row, and both stay live.)
OneTokenPerSession == overlapped \/ Cardinality(Ends) = Cardinality(opened)

\* README, POST /auth/logout: the token cannot be used again.  No later request,
\* a refresh above all, has any effect on a token that was revoked.  (A refresh
\* that read the token before the logout still succeeds.)
RevokedIsFinal ==
  [][overlapped' \/
     \A t \in Tokens : token[t].status = "revoked" => token'[t] = token[t]]_vars

\* A code resets one password: a reset never commits on a code that has reset
\* one before.  (Two resets that overlap both read the code before either has
\* cleared it.)
OneResetPerCode ==
  [][overlapped' \/
     \A h \in Handlers : CommitResetPassword(h) => req[h].u \notin spent]_vars
=============================================================================
