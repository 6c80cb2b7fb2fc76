------------------------------ MODULE Accounts ------------------------------
(***************************************************************************)
(* Accounts and sessions of the HelpRide API: auth.controller.ts and the   *)
(* password change of user.controller.ts.                                  *)
(*                                                                         *)
(* A user row carries a password or none (an account made by OAuth), the   *)
(* mark emailVerified, and two one-time codes: one that verifies the       *)
(* e-mail, one that resets the password.  Signing in inserts a refresh     *)
(* token; a refresh replaces it by another, a logout revokes it.           *)
(*                                                                         *)
(* As in Bookings, a handler in flight is an element of Handlers and       *)
(* req[h] is what it remembers; a request that is one statement is one     *)
(* action of its slot.  Whether the code a caller types is the one on the  *)
(* row the handler has read is the caller's choice.                        *)
(*                                                                         *)
(* Out of the model: names, avatars and roles, the OAuthAccount row (which *)
(* nothing reads back), access tokens (signed, never stored), e-mail (sent *)
(* after the write; its failure changes no row).  An account is the row of *)
(* an e-mail address, which is unique.                                     *)
(***************************************************************************)
EXTENDS Integers, FiniteSets

CONSTANTS
  Users,        \* e-mail addresses
  Passwords,    \* passwords, that is their hashes
  NoPassword,   \* passwordHash = null
  Tokens,       \* ids of RefreshToken rows
  NoToken,      \* replacedByTokenId = null
  OtpLimit,     \* wrong guesses a code survives
  Handlers      \* slots for requests in flight

ASSUME ParamsAssumption ==
  /\ NoPassword \notin Passwords
  /\ NoToken \notin Tokens
  /\ OtpLimit \in Nat \ {0}
  /\ IsFiniteSet(Handlers)

VARIABLES
  account,   \* User rows: created?, passwordHash, emailVerified
  otp,       \* their codes, by purpose: on the row or not, and the attempts
  token,     \* RefreshToken rows
  opened,    \* the tokens that a sign-in, not a refresh, has issued
  req        \* the handler running in each slot

vars == <<account, otp, token, opened, req>>

-----------------------------------------------------------------------------
Purposes == {"verify", "reset"}

AccountRow ==
  [exists : BOOLEAN, password : Passwords \cup {NoPassword}, verified : BOOLEAN]

\* "stale": past its ExpiresAt.
Code == [state : {"none", "fresh", "stale"}, attempts : Nat]

NoCode    == [state |-> "none", attempts |-> 0]
FreshCode == [state |-> "fresh", attempts |-> 0]

\* An expired token that is revoked counts as revoked.
TokenRow ==
  [status : {"none", "live", "expired", "revoked"}, next : Tokens \cup {NoToken}]

Idle == [pc |-> "idle"]

SignInRequest   == [pc : {"issue", "verified"}, u : Users]
PasswordRequest ==
  [pc : {"createUser", "setPassword", "changePassword", "reset"}, u : Users,
   password : Passwords]
OtpRequest      == [pc : {"renew", "wrong"}, u : Users, p : Purposes]
RefreshRequest  == [pc : {"rotate"}, t : Tokens]

Requests ==
  {Idle} \cup SignInRequest \cup PasswordRequest \cup OtpRequest \cup RefreshRequest

At(h, pc)    == req[h].pc = pc
Begin(h, q)  == req[h] = Idle /\ req' = [req EXCEPT ![h] = q]
Become(h, q) == req' = [req EXCEPT ![h] = q]
Return(h)    == Become(h, Idle)

TypeOK ==
  /\ account \in [Users -> AccountRow]
  /\ otp \in [Users -> [Purposes -> Code]]
  /\ token \in [Tokens -> TokenRow]
  /\ opened \subseteq Tokens
  /\ req \in [Handlers -> Requests]

Init ==
  /\ account = [u \in Users |->
                  [exists |-> FALSE, password |-> NoPassword, verified |-> FALSE]]
  /\ otp = [u \in Users |-> [p \in Purposes |-> NoCode]]
  /\ token = [t \in Tokens |-> [status |-> "none", next |-> NoToken]]
  /\ opened = {}
  /\ req = [h \in Handlers |-> Idle]

-----------------------------------------------------------------------------
(* Signing in.  Every way ends in buildAuthResponse, which inserts a       *)
(* refresh token.                                                          *)

IssueToken(h, t) ==
  /\ At(h, "issue") /\ token[t].status = "none"
  /\ token' = [token EXCEPT ![t].status = "live"]
  /\ opened' = opened \cup {t}
  /\ Return(h)
  /\ UNCHANGED <<account, otp>>

\* POST /auth/oauth: an upsert by e-mail, atomic on its unique key; an account
\* that exists keeps its mark emailVerified.
OAuthLogin(h, u) ==
  /\ account' = IF account[u].exists THEN account
                ELSE [account EXCEPT ![u] = [exists |-> TRUE, password |-> NoPassword,
                                             verified |-> TRUE]]
  /\ Begin(h, [pc |-> "issue", u |-> u])
  /\ UNCHANGED <<otp, token, opened>>

\* POST /auth/register: no account yet; or one made by OAuth, which gets its
\* first password; an account with a password is answered 409.
RegisterStage(row) ==
  CASE ~row.exists               -> "createUser"
    [] row.password = NoPassword -> "setPassword"
    [] OTHER                     -> "conflict"

\* Mutant: the 409 is answered without returning.
RegisterAnyway(h, u, password) ==
  /\ Begin(h, [pc |-> RegisterStage(account[u]), u |-> u, password |-> password])
  /\ UNCHANGED <<account, otp, token, opened>>

RegisterWithEmail(h, u, password) ==
  /\ RegisterStage(account[u]) # "conflict"
  /\ Begin(h, [pc |-> RegisterStage(account[u]), u |-> u, password |-> password])
  /\ UNCHANGED <<account, otp, token, opened>>

\* The e-mail is unique: the insert fails when the account exists by now.
CommitCreateUser(h) ==
  LET u == req[h].u IN
  /\ At(h, "createUser") /\ ~account[u].exists
  /\ account' = [account EXCEPT ![u] =
                   [exists |-> TRUE, password |-> req[h].password, verified |-> FALSE]]
  /\ Become(h, [pc |-> "issue", u |-> u])
  /\ UNCHANGED <<otp, token, opened>>

CommitSetPassword(h) ==
  LET u == req[h].u IN
  /\ At(h, "setPassword")
  /\ account' = [account EXCEPT ![u].password = req[h].password]
  /\ Become(h, [pc |-> "issue", u |-> u])
  /\ UNCHANGED <<otp, token, opened>>

\* POST /auth/login with the password on the row.
LoginWithEmail(h, u) ==
  /\ account[u].password # NoPassword
  /\ Begin(h, [pc |-> "issue", u |-> u])
  /\ UNCHANGED <<account, otp, token, opened>>

\* PUT /users/me/password
ChangePassword(h, u, password) ==
  /\ account[u].password # NoPassword
  /\ Begin(h, [pc |-> "changePassword", u |-> u, password |-> password])
  /\ UNCHANGED <<account, otp, token, opened>>

CommitChangePassword(h) ==
  /\ At(h, "changePassword")
  /\ account' = [account EXCEPT ![req[h].u].password = req[h].password]
  /\ Return(h)
  /\ UNCHANGED <<otp, token, opened>>

-----------------------------------------------------------------------------
(* Refresh tokens.                                                         *)

\* Mutant: a revoked token is refreshed until it expires.
RefreshableRevoked(t) == token[t].status \in {"live", "revoked"}

Refreshable(t) == token[t].status = "live"

RefreshTokens(h, t) ==
  /\ Refreshable(t)
  /\ Begin(h, [pc |-> "rotate", t |-> t])
  /\ UNCHANGED <<account, otp, token, opened>>

\* Mutant: the replacement is inserted, the old token stays.
RotatedAlongside(t, new) == [token EXCEPT ![new].status = "live"]

\* The old token is revoked by its id, whatever it has become.
Rotated(t, new) ==
  [token EXCEPT ![new].status = "live",
                ![t] = [status |-> "revoked", next |-> new]]

CommitRefresh(h, new) ==
  /\ At(h, "rotate") /\ token[new].status = "none"
  /\ token' = Rotated(req[h].t, new)
  /\ Return(h)
  /\ UNCHANGED <<account, otp, opened>>

\* POST /auth/logout: one conditional update.
Logout(h, t) ==
  /\ req[h] = Idle
  /\ token[t].status \in {"live", "expired"}
  /\ token' = [token EXCEPT ![t].status = "revoked"]
  /\ UNCHANGED <<account, otp, opened, req>>

-----------------------------------------------------------------------------
(* One-time codes.  Verifying the e-mail and resetting the password have   *)
(* the same checks and differ in what a right code does.                   *)

\* POST .../send-otp: users are never deleted, so reading the row first has no
\* influence on the update.
SendOtp(h, u, p) ==
  /\ req[h] = Idle /\ account[u].exists
  /\ otp' = [otp EXCEPT ![u][p] = FreshCode]
  /\ UNCHANGED <<account, token, opened, req>>

\* Mutant: attempts are counted but not looked at.
HasAttemptsLeftAlways(code) == TRUE

HasAttemptsLeft(code) == code.attempts < OtpLimit

\* POST .../verify-otp with no code to compare: a new one will be sent.
CheckNoOtp(h, u, p) ==
  /\ account[u].exists /\ otp[u][p].state # "fresh"
  /\ Begin(h, [pc |-> "renew", u |-> u, p |-> p])
  /\ UNCHANGED <<account, otp, token, opened>>

RenewOtp(h) ==
  /\ At(h, "renew")
  /\ otp' = [otp EXCEPT ![req[h].u][req[h].p] = FreshCode]
  /\ Return(h)
  /\ UNCHANGED <<account, token, opened>>

CanGuess(u, p) == otp[u][p].state = "fresh" /\ HasAttemptsLeft(otp[u][p])

CheckWrongOtp(h, u, p) ==
  /\ CanGuess(u, p)
  /\ Begin(h, [pc |-> "wrong", u |-> u, p |-> p])
  /\ UNCHANGED <<account, otp, token, opened>>

\* An increment of the database, of whatever count it finds.
CountAttempt(h) ==
  /\ At(h, "wrong")
  /\ otp' = [otp EXCEPT ![req[h].u][req[h].p].attempts = @ + 1]
  /\ Return(h)
  /\ UNCHANGED <<account, token, opened>>

VerifyEmail(h, u) ==
  /\ CanGuess(u, "verify")
  /\ Begin(h, [pc |-> "verified", u |-> u])
  /\ UNCHANGED <<account, otp, token, opened>>

\* The code stays on the row, good until it expires.
CommitVerifyEmail(h) ==
  LET u == req[h].u IN
  /\ At(h, "verified")
  /\ account' = [account EXCEPT ![u].verified = TRUE]
  /\ otp' = [otp EXCEPT ![u]["verify"].attempts = 0]
  /\ Become(h, [pc |-> "issue", u |-> u])
  /\ UNCHANGED <<token, opened>>

ResetPassword(h, u, password) ==
  /\ CanGuess(u, "reset")
  /\ Begin(h, [pc |-> "reset", u |-> u, password |-> password])
  /\ UNCHANGED <<account, otp, token, opened>>

\* Mutant: the code is left on the row, as verifying the e-mail does.
CodeAfterResetKept(code) == [code EXCEPT !.attempts = 0]

CodeAfterReset(code) == NoCode

CommitResetPassword(h) ==
  LET u == req[h].u IN
  /\ At(h, "reset")
  /\ account' = [account EXCEPT ![u].password = req[h].password]
  /\ otp' = [otp EXCEPT ![u]["reset"] = CodeAfterReset(@)]
  /\ Return(h)
  /\ UNCHANGED <<token, opened>>

-----------------------------------------------------------------------------
\* A handler may stop anywhere; an account stays that got no token.
Fail(h) ==
  /\ req[h] # Idle
  /\ Return(h)
  /\ UNCHANGED <<account, otp, token, opened>>

SignInStep(h) ==
  \/ \E t \in Tokens : IssueToken(h, t)
  \/ \E u \in Users : OAuthLogin(h, u) \/ LoginWithEmail(h, u)
  \/ \E u \in Users, pw \in Passwords : RegisterWithEmail(h, u, pw)
  \/ \E u \in Users, pw \in Passwords : ChangePassword(h, u, pw)
  \/ CommitCreateUser(h) \/ CommitSetPassword(h) \/ CommitChangePassword(h)

TokenStep(h) ==
  \/ \E t \in Tokens : RefreshTokens(h, t) \/ Logout(h, t)
  \/ \E new \in Tokens : CommitRefresh(h, new)

OtpStep(h) ==
  \/ \E u \in Users, p \in Purposes : SendOtp(h, u, p)
  \/ \E u \in Users, p \in Purposes : CheckNoOtp(h, u, p) \/ CheckWrongOtp(h, u, p)
  \/ \E u \in Users : VerifyEmail(h, u)
  \/ \E u \in Users, pw \in Passwords : ResetPassword(h, u, pw)
  \/ RenewOtp(h) \/ CountAttempt(h) \/ CommitVerifyEmail(h) \/ CommitResetPassword(h)

HandlerStep(h) == SignInStep(h) \/ TokenStep(h) \/ OtpStep(h) \/ Fail(h)

\* Time: ten minutes for a code, seven days for a token.
ExpireOtp(u, p) ==
  /\ otp[u][p].state = "fresh"
  /\ otp' = [otp EXCEPT ![u][p].state = "stale"]
  /\ UNCHANGED <<account, token, opened, req>>

ExpireToken(t) ==
  /\ token[t].status = "live"
  /\ token' = [token EXCEPT ![t].status = "expired"]
  /\ UNCHANGED <<account, otp, opened, req>>

TimeStep ==
  \/ \E u \in Users, p \in Purposes : ExpireOtp(u, p)
  \/ \E t \in Tokens : ExpireToken(t)

Next == TimeStep \/ \E h \in Handlers : HandlerStep(h)

Spec == Init /\ [][Next]_vars

-----------------------------------------------------------------------------
\* Guessing stays limited however guesses overlap: the attempts are read,
\* compared and later incremented, so that each guess in flight may be one too
\* many, but no more than that.  A new code resets the count, and so does a
\* right one, in the middle of other guesses too.
AttemptsBounded ==
  \A u \in Users, p \in Purposes :
    otp[u][p].attempts < OtpLimit + Cardinality(Handlers)
=============================================================================
