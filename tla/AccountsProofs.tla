--------------------------- MODULE AccountsProofs ---------------------------
(***************************************************************************)
(* Proofs, for any number of accounts, tokens and overlapping requests, of *)
(* type correctness and of the bound on guesses of a one-time code         *)
(* (Accounts.tla); and, of requests one at a time, of what sessions and    *)
(* reset codes owe their users (AccountsSerial.tla).                       *)
(***************************************************************************)
EXTENDS AccountsSerial, FiniteSetTheorems, TLAPS

-----------------------------------------------------------------------------
(* Type correctness.                                                       *)

LEMMA RequestKinds ==
  ASSUME NEW q \in Requests
  PROVE  /\ q.pc \in {"issue", "verified"} => q \in SignInRequest
         /\ q.pc \in {"createUser", "setPassword", "changePassword", "reset"}
              => q \in PasswordRequest
         /\ q.pc \in {"renew", "wrong"} => q \in OtpRequest
         /\ q.pc = "rotate" => q \in RefreshRequest
BY DEF Requests, Idle, SignInRequest, PasswordRequest, OtpRequest, RefreshRequest

\* A handler that moves to a well-typed task keeps the type of req.
LEMMA BecomeTyped ==
  ASSUME TypeOK, NEW h \in Handlers, NEW q \in Requests, Begin(h, q) \/ Become(h, q)
  PROVE  req' \in [Handlers -> Requests]
BY DEF TypeOK, Begin, Become

LEMMA IdleTyped ==
  ASSUME TypeOK, NEW h \in Handlers, Return(h)
  PROVE  req' \in [Handlers -> Requests]
<1>1. Idle \in Requests
  BY DEF Requests
<1> QED BY <1>1, BecomeTyped DEF Return

LEMMA IssueTyped ==
  ASSUME TypeOK, NEW h \in Handlers, NEW u \in Users, NEW pc \in {"issue", "verified"},
         Begin(h, [pc |-> pc, u |-> u]) \/ Become(h, [pc |-> pc, u |-> u])
  PROVE  req' \in [Handlers -> Requests]
<1>1. [pc |-> pc, u |-> u] \in Requests
  BY DEF Requests, SignInRequest
<1> QED BY <1>1, BecomeTyped

LEMMA SignInTyped ==
  ASSUME TypeOK, NEW h \in Handlers, SignInStep(h)
  PROVE  TypeOK'
<1>q. req[h] \in Requests
  BY DEF TypeOK
<1>1. ASSUME NEW t \in Tokens, IssueToken(h, t)
      PROVE  TypeOK'
  <2>1. req' \in [Handlers -> Requests]
    BY <1>1, IdleTyped DEF IssueToken
  <2> QED BY <1>1, <2>1 DEF IssueToken, TypeOK, TokenRow
<1>2. ASSUME NEW u \in Users, OAuthLogin(h, u) \/ LoginWithEmail(h, u)
      PROVE  TypeOK'
  <2>1. req' \in [Handlers -> Requests]
    BY <1>2, IssueTyped DEF OAuthLogin, LoginWithEmail
  <2>2. /\ UNCHANGED <<otp, token, opened>>
        /\ \/ account' = account
           \/ account' = [account EXCEPT ![u] =
                [exists |-> TRUE, password |-> NoPassword, verified |-> TRUE]]
    BY <1>2 DEF OAuthLogin, LoginWithEmail
  <2>a. [exists |-> TRUE, password |-> NoPassword, verified |-> TRUE] \in AccountRow
    BY DEF AccountRow
  <2>3. account' \in [Users -> AccountRow]
    BY <2>2, <2>a DEF TypeOK
  <2> QED BY <2>1, <2>2, <2>3 DEF TypeOK
<1>3. ASSUME NEW u \in Users, NEW pw \in Passwords, RegisterWithEmail(h, u, pw)
      PROVE  TypeOK'
  <2>1. RegisterStage(account[u]) \in {"createUser", "setPassword"}
    BY <1>3 DEF RegisterWithEmail, RegisterStage
  <2>2. [pc |-> RegisterStage(account[u]), u |-> u, password |-> pw] \in Requests
    BY <2>1 DEF Requests, PasswordRequest
  <2>3. req' \in [Handlers -> Requests]
    BY <1>3, <2>2, BecomeTyped DEF RegisterWithEmail
  <2> QED BY <1>3, <2>3 DEF RegisterWithEmail, TypeOK
<1>4. ASSUME NEW u \in Users, NEW pw \in Passwords, ChangePassword(h, u, pw)
      PROVE  TypeOK'
  <2>1. [pc |-> "changePassword", u |-> u, password |-> pw] \in Requests
    BY DEF Requests, PasswordRequest
  <2>2. req' \in [Handlers -> Requests]
    BY <1>4, <2>1, BecomeTyped DEF ChangePassword
  <2> QED BY <1>4, <2>2 DEF ChangePassword, TypeOK
<1>5. CASE CommitCreateUser(h) \/ CommitSetPassword(h) \/ CommitChangePassword(h)
  <2>1. req[h].u \in Users /\ req[h].password \in Passwords
    BY <1>5, <1>q, RequestKinds DEF CommitCreateUser, CommitSetPassword,
       CommitChangePassword, At, PasswordRequest
  <2>2. req' \in [Handlers -> Requests]
    BY <1>5, <2>1, IssueTyped, IdleTyped DEF CommitCreateUser, CommitSetPassword,
       CommitChangePassword
  <2>3. account' \in [Users -> AccountRow]
    <3>1. CASE CommitCreateUser(h)
      BY <2>1, <3>1 DEF CommitCreateUser, TypeOK, AccountRow
    <3>2. CASE CommitSetPassword(h) \/ CommitChangePassword(h)
      BY <2>1, <3>2 DEF CommitSetPassword, CommitChangePassword, TypeOK, AccountRow
    <3> QED BY <1>5, <3>1, <3>2
  <2> QED BY <1>5, <2>2, <2>3 DEF CommitCreateUser, CommitSetPassword,
          CommitChangePassword, TypeOK
<1> QED BY <1>1, <1>2, <1>3, <1>4, <1>5 DEF SignInStep

LEMMA TokenTyped ==
  ASSUME TypeOK, NEW h \in Handlers, TokenStep(h)
  PROVE  TypeOK'
<1>q. req[h] \in Requests
  BY DEF TypeOK
<1>1. ASSUME NEW t \in Tokens, RefreshTokens(h, t)
      PROVE  TypeOK'
  <2>1. [pc |-> "rotate", t |-> t] \in Requests
    BY DEF Requests, RefreshRequest
  <2>2. req' \in [Handlers -> Requests]
    BY <1>1, <2>1, BecomeTyped DEF RefreshTokens
  <2> QED BY <1>1, <2>2 DEF RefreshTokens, TypeOK
<1>2. ASSUME NEW t \in Tokens, Logout(h, t)
      PROVE  TypeOK'
  BY <1>2 DEF Logout, TypeOK, TokenRow
<1>3. ASSUME NEW new \in Tokens, CommitRefresh(h, new)
      PROVE  TypeOK'
  <2>1. req[h].t \in Tokens
    BY <1>3, <1>q, RequestKinds DEF CommitRefresh, At, RefreshRequest
  <2>2. req' \in [Handlers -> Requests]
    BY <1>3, IdleTyped DEF CommitRefresh
  <2>3. token' \in [Tokens -> TokenRow]
    BY <1>3, <2>1 DEF CommitRefresh, Rotated, TypeOK, TokenRow
  <2> QED BY <1>3, <2>2, <2>3 DEF CommitRefresh, TypeOK
<1> QED BY <1>1, <1>2, <1>3 DEF TokenStep

LEMMA CodesTyped ==
  /\ NoCode \in Code /\ FreshCode \in Code
  /\ \A c \in Code : CodeAfterReset(c) \in Code
BY DEF NoCode, FreshCode, Code, CodeAfterReset

\* Writing one code leaves all of them well typed.
LEMMA OtpTyped ==
  ASSUME TypeOK, NEW u \in Users, NEW p \in Purposes, NEW c \in Code,
         otp' = [otp EXCEPT ![u][p] = c]
  PROVE  otp' \in [Users -> [Purposes -> Code]]
BY DEF TypeOK

LEMMA OtpStepTyped ==
  ASSUME TypeOK, NEW h \in Handlers, OtpStep(h)
  PROVE  TypeOK'
<1>q. req[h] \in Requests
  BY DEF TypeOK
<1>1. ASSUME NEW u \in Users, NEW p \in Purposes, SendOtp(h, u, p)
      PROVE  TypeOK'
  BY <1>1, CodesTyped, OtpTyped DEF SendOtp, TypeOK
<1>2. ASSUME NEW u \in Users, NEW p \in Purposes,
             CheckNoOtp(h, u, p) \/ CheckWrongOtp(h, u, p)
      PROVE  TypeOK'
  <2>1. \A pc \in {"renew", "wrong"} : [pc |-> pc, u |-> u, p |-> p] \in Requests
    BY DEF Requests, OtpRequest
  <2>2. req' \in [Handlers -> Requests]
    BY <1>2, <2>1, BecomeTyped DEF CheckNoOtp, CheckWrongOtp
  <2> QED BY <1>2, <2>2 DEF CheckNoOtp, CheckWrongOtp, TypeOK
<1>3. ASSUME NEW u \in Users, VerifyEmail(h, u)
      PROVE  TypeOK'
  <2>1. req' \in [Handlers -> Requests]
    BY <1>3, IssueTyped DEF VerifyEmail
  <2> QED BY <1>3, <2>1 DEF VerifyEmail, TypeOK
<1>4. ASSUME NEW u \in Users, NEW pw \in Passwords, ResetPassword(h, u, pw)
      PROVE  TypeOK'
  <2>1. [pc |-> "reset", u |-> u, password |-> pw] \in Requests
    BY DEF Requests, PasswordRequest
  <2>2. req' \in [Handlers -> Requests]
    BY <1>4, <2>1, BecomeTyped DEF ResetPassword
  <2> QED BY <1>4, <2>2 DEF ResetPassword, TypeOK
<1>5. CASE RenewOtp(h) \/ CountAttempt(h)
  <2>1. req[h].u \in Users /\ req[h].p \in Purposes
    BY <1>5, <1>q, RequestKinds DEF RenewOtp, CountAttempt, At, OtpRequest
  <2>2. otp[req[h].u][req[h].p] \in Code
    BY <2>1 DEF TypeOK
  <2>3. [otp[req[h].u][req[h].p] EXCEPT !.attempts = @ + 1] \in Code
    BY <2>2 DEF Code
  <2>4. otp' \in [Users -> [Purposes -> Code]]
    BY <1>5, <2>1, <2>3, CodesTyped, OtpTyped DEF RenewOtp, CountAttempt
  <2>5. req' \in [Handlers -> Requests]
    BY <1>5, IdleTyped DEF RenewOtp, CountAttempt
  <2> QED BY <1>5, <2>4, <2>5 DEF RenewOtp, CountAttempt, TypeOK
<1>6. CASE CommitVerifyEmail(h)
  <2>1. req[h].u \in Users
    BY <1>6, <1>q, RequestKinds DEF CommitVerifyEmail, At, SignInRequest
  <2>2. otp[req[h].u]["verify"] \in Code
    BY <2>1 DEF TypeOK, Purposes
  <2>3. [otp[req[h].u]["verify"] EXCEPT !.attempts = 0] \in Code
    BY <2>2 DEF Code
  <2>4. otp' \in [Users -> [Purposes -> Code]]
    BY <1>6, <2>1, <2>3, OtpTyped DEF CommitVerifyEmail, Purposes
  <2>5. account' \in [Users -> AccountRow]
    BY <1>6, <2>1 DEF CommitVerifyEmail, TypeOK, AccountRow
  <2>6. req' \in [Handlers -> Requests]
    BY <1>6, <2>1, IssueTyped DEF CommitVerifyEmail
  <2> QED BY <1>6, <2>4, <2>5, <2>6 DEF CommitVerifyEmail, TypeOK
<1>7. CASE CommitResetPassword(h)
  <2>1. req[h].u \in Users /\ req[h].password \in Passwords
    BY <1>7, <1>q, RequestKinds DEF CommitResetPassword, At, PasswordRequest
  <2>2. CodeAfterReset(otp[req[h].u]["reset"]) \in Code
    BY CodesTyped DEF CodeAfterReset
  <2>3. otp' \in [Users -> [Purposes -> Code]]
    BY <1>7, <2>1, <2>2, OtpTyped DEF CommitResetPassword, Purposes
  <2>4. account' \in [Users -> AccountRow]
    BY <1>7, <2>1 DEF CommitResetPassword, TypeOK, AccountRow
  <2>5. req' \in [Handlers -> Requests]
    BY <1>7, IdleTyped DEF CommitResetPassword
  <2> QED BY <1>7, <2>3, <2>4, <2>5 DEF CommitResetPassword, TypeOK
<1> QED BY <1>1, <1>2, <1>3, <1>4, <1>5, <1>6, <1>7 DEF OtpStep

LEMMA TypeStep ==
  ASSUME TypeOK, [Next]_vars
  PROVE  TypeOK'
<1>1. ASSUME NEW h \in Handlers, Fail(h)
      PROVE  TypeOK'
  BY <1>1, IdleTyped DEF Fail, TypeOK
<1>2. ASSUME NEW u \in Users, NEW p \in Purposes, ExpireOtp(u, p)
      PROVE  TypeOK'
  <2>1. [otp[u][p] EXCEPT !.state = "stale"] \in Code
    BY DEF TypeOK, Code
  <2>2. otp' = [otp EXCEPT ![u][p] = [otp[u][p] EXCEPT !.state = "stale"]]
    BY <1>2 DEF ExpireOtp
  <2>3. otp' \in [Users -> [Purposes -> Code]]
    BY <2>1, <2>2, OtpTyped
  <2> QED BY <1>2, <2>3 DEF ExpireOtp, TypeOK
<1>3. ASSUME NEW t \in Tokens, ExpireToken(t)
      PROVE  TypeOK'
  BY <1>3 DEF ExpireToken, TypeOK, TokenRow
<1>4. CASE UNCHANGED vars
  BY <1>4 DEF vars, TypeOK
<1> QED BY <1>1, <1>2, <1>3, <1>4, SignInTyped, TokenTyped, OtpStepTyped
        DEF Next, TimeStep, HandlerStep

LEMMA TypeInit == Init => TypeOK
BY DEF Init, TypeOK, AccountRow, NoCode, Code, TokenRow, Requests

\* Accounts, codes, tokens and handlers keep their types whatever overlaps.
THEOREM TypeCorrect == Spec => []TypeOK
BY TypeInit, TypeStep, PTL DEF Spec

-----------------------------------------------------------------------------
(* The bound on guesses.  A handler that has read a count below the limit, *)
(* and a wrong code, will add one.  So the count alone is no measure: what *)
(* stays bounded is the count and the guesses in flight together, and both *)
(* are known when a guess passes the check, because the handlers are       *)
(* finitely many.                                                          *)

Guessing(u, p) == {h \in Handlers : At(h, "wrong") /\ req[h].u = u /\ req[h].p = p}

GuessInv ==
  \A u \in Users, p \in Purposes :
    otp[u][p].attempts + Cardinality(Guessing(u, p)) < OtpLimit + Cardinality(Handlers)

LEMMA GuessingFinite ==
  ASSUME NEW u, NEW p
  PROVE  /\ IsFiniteSet(Guessing(u, p)) /\ Cardinality(Guessing(u, p)) \in Nat
         /\ Cardinality(Guessing(u, p)) <= Cardinality(Handlers)
         /\ Cardinality(Handlers) \in Nat
<1>1. Guessing(u, p) \subseteq Handlers
  BY DEF Guessing
<1> QED BY <1>1, ParamsAssumption, FS_Subset, FS_CardinalityType

\* The same of the next state.
LEMMA GuessingNextFinite ==
  ASSUME NEW u, NEW p
  PROVE  /\ IsFiniteSet(Guessing(u, p)') /\ Cardinality(Guessing(u, p)') \in Nat
         /\ Cardinality(Guessing(u, p)') <= Cardinality(Handlers)
<1>1. Guessing(u, p)' \subseteq Handlers
  BY DEF Guessing
<1> QED BY <1>1, ParamsAssumption, FS_Subset, FS_CardinalityType

\* The three ways in which a step may touch one code and the guesses at it.
Bounds(u, p) ==
  \/ otp'[u][p].attempts < OtpLimit
  \/ /\ otp'[u][p].attempts <= otp[u][p].attempts
     /\ Guessing(u, p)' \subseteq Guessing(u, p)
  \/ /\ otp'[u][p].attempts = otp[u][p].attempts + 1
     /\ \E h \in Guessing(u, p) : Guessing(u, p)' = Guessing(u, p) \ {h}

LEMMA BoundsKept ==
  ASSUME TypeOK, TypeOK', GuessInv, \A u \in Users, p \in Purposes : Bounds(u, p)
  PROVE  GuessInv'
<1> SUFFICES ASSUME NEW u \in Users, NEW p \in Purposes
             PROVE  otp'[u][p].attempts + Cardinality(Guessing(u, p)')
                      < OtpLimit + Cardinality(Handlers)
  BY DEF GuessInv
<1> DEFINE G == Guessing(u, p)
           H == Guessing(u, p)'
           m == Cardinality(G)
           n == Cardinality(H)
           k == Cardinality(Handlers)
<1>1. /\ otp[u][p].attempts \in Nat /\ otp'[u][p].attempts \in Nat /\ OtpLimit \in Nat
  BY ParamsAssumption DEF TypeOK, Code
<1>2. /\ IsFiniteSet(G) /\ m \in Nat /\ n \in Nat /\ k \in Nat /\ m <= k /\ n <= k
  BY GuessingFinite, GuessingNextFinite
<1>3. otp[u][p].attempts + m < OtpLimit + k
  BY DEF GuessInv
<1>4. CASE otp'[u][p].attempts < OtpLimit
  <2> HIDE DEF m, n, k
  <2> QED BY <1>1, <1>2, <1>4 DEF n, k
<1>5. CASE otp'[u][p].attempts <= otp[u][p].attempts /\ H \subseteq G
  <2>1. n <= m
    BY <1>2, <1>5, FS_Subset
  <2> HIDE DEF m, n, k
  <2> QED BY <1>1, <1>2, <1>3, <1>5, <2>1 DEF n, k
<1>6. ASSUME otp'[u][p].attempts = otp[u][p].attempts + 1,
             NEW h \in G, H = G \ {h}
      PROVE  otp'[u][p].attempts + n < OtpLimit + k
  <2>1. n = m - 1
    BY <1>2, <1>6, FS_RemoveElement
  <2> HIDE DEF m, n, k
  <2> QED BY <1>1, <1>2, <1>3, <1>6, <2>1
<1> QED BY <1>4, <1>5, <1>6 DEF Bounds

\* A handler that moves on to anything but a wrong guess adds none.
LEMMA FewerGuesses ==
  ASSUME TypeOK, NEW h \in Handlers, NEW q, q.pc # "wrong", req' = [req EXCEPT ![h] = q]
  PROVE  \A u \in Users, p \in Purposes : Guessing(u, p)' \subseteq Guessing(u, p)
<1>1. \A g \in Handlers : req'[g] = IF g = h THEN q ELSE req[g]
  BY DEF TypeOK
<1> QED BY <1>1 DEF Guessing, At

\* A step that writes no code, and adds no wrong guess.
LEMMA QuietStep ==
  ASSUME TypeOK, UNCHANGED otp,
         \/ UNCHANGED req
         \/ \E h \in Handlers : \E q : q.pc # "wrong" /\ req' = [req EXCEPT ![h] = q]
  PROVE  \A u \in Users, p \in Purposes : Bounds(u, p)
<1>1. \A u \in Users, p \in Purposes : Guessing(u, p)' \subseteq Guessing(u, p)
  BY FewerGuesses DEF Guessing, At
<1> QED BY <1>1 DEF Bounds, TypeOK, Code

\* A step that writes one code, below the limit, and adds no wrong guess.
LEMMA CodeStep ==
  ASSUME TypeOK, NEW u \in Users, NEW p \in Purposes, NEW c \in Code, c.attempts = 0,
         otp' = [otp EXCEPT ![u][p] = c],
         \/ UNCHANGED req
         \/ \E h \in Handlers : \E q : q.pc # "wrong" /\ req' = [req EXCEPT ![h] = q]
  PROVE  \A v \in Users, r \in Purposes : Bounds(v, r)
<1> SUFFICES ASSUME NEW v \in Users, NEW r \in Purposes PROVE Bounds(v, r)
  OBVIOUS
<1>1. Guessing(v, r)' \subseteq Guessing(v, r)
  BY FewerGuesses DEF Guessing, At
<1>2. otp'[v][r] = IF v = u /\ r = p THEN c ELSE otp[v][r]
  BY DEF TypeOK
<1>3. otp[v][r].attempts \in Nat
  BY DEF TypeOK, Code
<1> QED BY <1>1, <1>2, <1>3, ParamsAssumption DEF Bounds

LEMMA GuessStep ==
  ASSUME TypeOK, [Next]_vars
  PROVE  \A u \in Users, p \in Purposes : Bounds(u, p)
<1> DEFINE Good == \A u \in Users, p \in Purposes : Bounds(u, p)
<1>0. CASE UNCHANGED vars
  BY <1>0, QuietStep DEF vars
<1>1. ASSUME NEW h \in Handlers, SignInStep(h) \/ TokenStep(h) \/ Fail(h)
      PROVE  Good
  <2>1. UNCHANGED otp
    BY <1>1 DEF SignInStep, IssueToken, OAuthLogin, LoginWithEmail, RegisterWithEmail,
       ChangePassword, CommitCreateUser, CommitSetPassword, CommitChangePassword, TokenStep,
       RefreshTokens, Logout, CommitRefresh, Fail
  <2>2. UNCHANGED req \/ \E q : q.pc # "wrong" /\ req' = [req EXCEPT ![h] = q]
    <3>1. \A q : Begin(h, q) \/ Become(h, q) => req' = [req EXCEPT ![h] = q]
      BY DEF Begin, Become
    <3>2. Return(h) => Become(h, Idle) /\ Idle.pc # "wrong"
      BY DEF Return, Idle
    <3>3. ASSUME NEW u \in Users, NEW pw \in Passwords, RegisterWithEmail(h, u, pw)
          PROVE  \E q : q.pc # "wrong" /\ req' = [req EXCEPT ![h] = q]
      BY <3>1, <3>3 DEF RegisterWithEmail, RegisterStage
    <3>4. CASE SignInStep(h)
      <4>1. ASSUME NEW u \in Users, OAuthLogin(h, u) \/ LoginWithEmail(h, u)
            PROVE  \E q : q.pc # "wrong" /\ req' = [req EXCEPT ![h] = q]
        BY <3>1, <4>1 DEF OAuthLogin, LoginWithEmail
      <4>2. ASSUME NEW u \in Users, NEW pw \in Passwords, ChangePassword(h, u, pw)
            PROVE  \E q : q.pc # "wrong" /\ req' = [req EXCEPT ![h] = q]
        BY <3>1, <4>2 DEF ChangePassword
      <4>3. CASE CommitCreateUser(h) \/ CommitSetPassword(h)
        BY <3>1, <4>3 DEF CommitCreateUser, CommitSetPassword
      <4>4. CASE CommitChangePassword(h) \/ \E t \in Tokens : IssueToken(h, t)
        BY <3>1, <3>2, <4>4 DEF CommitChangePassword, IssueToken
      <4> QED BY <3>3, <3>4, <4>1, <4>2, <4>3, <4>4 DEF SignInStep
    <3>5. CASE TokenStep(h) \/ Fail(h)
      BY <3>1, <3>2, <3>5 DEF TokenStep, RefreshTokens, Logout, CommitRefresh, Fail
    <3> QED BY <1>1, <3>4, <3>5
  <2> QED BY <2>1, <2>2, QuietStep
<1>2. ASSUME NEW h \in Handlers, NEW u \in Users, NEW p \in Purposes, SendOtp(h, u, p)
      PROVE  Good
  BY <1>2, CodesTyped, CodeStep DEF SendOtp, FreshCode
<1>3. ASSUME NEW h \in Handlers, NEW u \in Users, NEW p \in Purposes, CheckNoOtp(h, u, p)
      PROVE  Good
  BY <1>3, QuietStep DEF CheckNoOtp, Begin
<1>4. ASSUME NEW h \in Handlers, NEW u \in Users, VerifyEmail(h, u)
      PROVE  Good
  BY <1>4, QuietStep DEF VerifyEmail, Begin
<1>5. ASSUME NEW h \in Handlers, NEW u \in Users, NEW pw \in Passwords,
             ResetPassword(h, u, pw)
      PROVE  Good
  BY <1>5, QuietStep DEF ResetPassword, Begin
<1>6. ASSUME NEW h \in Handlers, NEW u \in Users, NEW p \in Purposes,
             CheckWrongOtp(h, u, p)
      PROVE  Good
  <2> SUFFICES ASSUME NEW v \in Users, NEW r \in Purposes PROVE Bounds(v, r)
    OBVIOUS
  <2>1. otp' = otp /\ otp[u][p].attempts < OtpLimit
    BY <1>6 DEF CheckWrongOtp, CanGuess, HasAttemptsLeft
  <2>2. \A g \in Handlers :
          req'[g] = IF g = h THEN [pc |-> "wrong", u |-> u, p |-> p] ELSE req[g]
    BY <1>6 DEF CheckWrongOtp, Begin, TypeOK
  <2>3. CASE v = u /\ r = p
    BY <2>1, <2>3 DEF Bounds
  <2>4. CASE ~(v = u /\ r = p)
    BY <2>1, <2>2, <2>4 DEF Bounds, Guessing, At, TypeOK, Code
  <2> QED BY <2>3, <2>4
<1>7. ASSUME NEW h \in Handlers, CountAttempt(h)
      PROVE  Good
  <2> SUFFICES ASSUME NEW v \in Users, NEW r \in Purposes PROVE Bounds(v, r)
    OBVIOUS
  <2>1. req[h].u \in Users /\ req[h].p \in Purposes /\ At(h, "wrong")
    BY <1>7, RequestKinds DEF CountAttempt, At, OtpRequest, TypeOK
  <2>2. \A g \in Handlers : req'[g] = IF g = h THEN Idle ELSE req[g]
    BY <1>7 DEF CountAttempt, Return, Become, TypeOK
  <2>3. otp[v][r] \in Code /\ otp[v][r].attempts \in Nat
    BY DEF TypeOK, Code
  <2>4. CASE v = req[h].u /\ r = req[h].p
    <3>1. otp'[v][r].attempts = otp[v][r].attempts + 1
      <4>1. otp'[v][r] = [otp[v][r] EXCEPT !.attempts = @ + 1]
        BY <1>7, <2>1, <2>4 DEF CountAttempt, TypeOK
      <4> QED BY <2>3, <4>1 DEF Code
    <3>2. h \in Guessing(v, r) /\ Guessing(v, r)' = Guessing(v, r) \ {h}
      BY <2>1, <2>2, <2>4 DEF Guessing, At, Idle
    <3> QED BY <3>1, <3>2 DEF Bounds
  <2>5. CASE ~(v = req[h].u /\ r = req[h].p)
    <3>1. otp'[v][r] = otp[v][r]
      BY <1>7, <2>1, <2>5 DEF CountAttempt, TypeOK
    <3>2. Guessing(v, r)' \subseteq Guessing(v, r)
      BY <2>2 DEF Guessing, At, Idle
    <3> QED BY <2>3, <3>1, <3>2 DEF Bounds
  <2> QED BY <2>4, <2>5
<1>8. ASSUME NEW h \in Handlers, RenewOtp(h)
      PROVE  Good
  <2>1. req[h].u \in Users /\ req[h].p \in Purposes
    BY <1>8, RequestKinds DEF RenewOtp, At, OtpRequest, TypeOK
  <2>2. Idle.pc # "wrong" /\ req' = [req EXCEPT ![h] = Idle]
    BY <1>8 DEF RenewOtp, Return, Become, Idle
  <2> QED BY <1>8, <2>1, <2>2, CodesTyped, CodeStep DEF RenewOtp, FreshCode
<1>9. ASSUME NEW h \in Handlers, CommitVerifyEmail(h)
      PROVE  Good
  <2>1. req[h].u \in Users
    BY <1>9, RequestKinds DEF CommitVerifyEmail, At, SignInRequest, TypeOK
  <2> DEFINE c == [otp[req[h].u]["verify"] EXCEPT !.attempts = 0]
  <2>a. otp[req[h].u]["verify"] \in Code
    BY <2>1 DEF TypeOK, Purposes
  <2>2. c \in Code /\ c.attempts = 0
    BY <2>a DEF Code
  <2>3. otp' = [otp EXCEPT ![req[h].u]["verify"] = c]
    BY <1>9 DEF CommitVerifyEmail
  <2>4. \E q : q.pc # "wrong" /\ req' = [req EXCEPT ![h] = q]
    BY <1>9 DEF CommitVerifyEmail, Become
  <2> QED BY <2>1, <2>2, <2>3, <2>4, CodeStep DEF Purposes
<1>10. ASSUME NEW h \in Handlers, CommitResetPassword(h)
       PROVE  Good
  <2>1. req[h].u \in Users
    BY <1>10, RequestKinds DEF CommitResetPassword, At, PasswordRequest, TypeOK
  <2>2. otp' = [otp EXCEPT ![req[h].u]["reset"] = NoCode] /\ NoCode.attempts = 0
    BY <1>10 DEF CommitResetPassword, CodeAfterReset, NoCode
  <2>3. Idle.pc # "wrong" /\ req' = [req EXCEPT ![h] = Idle]
    BY <1>10 DEF CommitResetPassword, Return, Become, Idle
  <2> QED BY <2>1, <2>2, <2>3, CodesTyped, CodeStep DEF Purposes
<1>11. ASSUME NEW u \in Users, NEW p \in Purposes, ExpireOtp(u, p)
       PROVE  Good
  <2> SUFFICES ASSUME NEW v \in Users, NEW r \in Purposes PROVE Bounds(v, r)
    OBVIOUS
  <2>1. otp[v][r] \in Code /\ otp'[v][r].attempts = otp[v][r].attempts
    BY <1>11 DEF ExpireOtp, TypeOK, Code
  <2>2. Guessing(v, r)' = Guessing(v, r)
    BY <1>11 DEF ExpireOtp, Guessing, At
  <2> QED BY <2>1, <2>2 DEF Bounds, Code
<1>12. ASSUME NEW t \in Tokens, ExpireToken(t)
       PROVE  Good
  BY <1>12, QuietStep DEF ExpireToken
<1>13. ASSUME NEW h \in Handlers, OtpStep(h)
       PROVE  Good
  BY <1>2, <1>3, <1>4, <1>5, <1>6, <1>7, <1>8, <1>9, <1>10, <1>13 DEF OtpStep
<1> QED BY <1>0, <1>1, <1>11, <1>12, <1>13 DEF Next, TimeStep, HandlerStep

\* However many requests overlap, the wrong guesses counted on a code stay below
\* the limit plus the number of requests that can be in flight.
THEOREM AttemptsCorrect == Spec => []AttemptsBounded
<1>1. Init => GuessInv
  <2> SUFFICES ASSUME Init, NEW u \in Users, NEW p \in Purposes
               PROVE  otp[u][p].attempts + Cardinality(Guessing(u, p))
                        < OtpLimit + Cardinality(Handlers)
    BY DEF GuessInv
  <2>1. Guessing(u, p) = {} /\ otp[u][p].attempts = 0
    BY DEF Init, Guessing, At, Idle, NoCode
  <2> QED BY <2>1, GuessingFinite, FS_EmptySet, ParamsAssumption
<1>2. TypeOK /\ TypeOK' /\ GuessInv /\ [Next]_vars => GuessInv'
  BY GuessStep, BoundsKept
<1>3. TypeOK /\ GuessInv => AttemptsBounded
  <2> SUFFICES ASSUME TypeOK, GuessInv, NEW u \in Users, NEW p \in Purposes
               PROVE  otp[u][p].attempts < OtpLimit + Cardinality(Handlers)
    BY DEF AttemptsBounded
  <2>1. otp[u][p].attempts \in Nat
    BY DEF TypeOK, Code
  <2>2. otp[u][p].attempts + Cardinality(Guessing(u, p)) < OtpLimit + Cardinality(Handlers)
    BY DEF GuessInv
  <2> QED BY <2>1, <2>2, GuessingFinite, ParamsAssumption
<1> QED BY <1>1, <1>2, <1>3, TypeCorrect, PTL DEF Spec

-----------------------------------------------------------------------------
(* What holds as long as no two requests overlap (AccountsSerial.tla).     *)
(* While a handler runs nobody else but time touches the rows: the token   *)
(* it read is still to be replaced, the code it read has reset nothing.    *)

Alone == \A g, h \in Handlers : req[g] # Idle /\ req[h] # Idle => g = h

\* What the handler of q still knows.
Holds(q) ==
  /\ q.pc = "rotate" => token[q.t].status \in {"live", "expired"} /\ token[q.t].next = NoToken
  /\ q.pc = "reset" => q.u \notin spent

HandlersHold == \A h \in Handlers : Holds(req[h])

TokensInv ==
  /\ \A t \in Tokens : token[t].next # NoToken => token[t].status = "revoked"
  /\ \A t \in opened : token[t].status # "none"
  /\ IsFiniteSet(Ends) /\ IsFiniteSet(opened)
  /\ Cardinality(Ends) = Cardinality(opened)

\* A code that has reset a password is not good for another.
CodesInv ==
  spent \subseteq Users /\ \A u \in spent : otp[u]["reset"].state # "fresh"

SerialInv == overlapped \/ (Alone /\ HandlersHold /\ TokensInv /\ CodesInv)

\* The steps of RevokedIsFinal and OneResetPerCode.
RevokedStep ==
  overlapped' \/ \A t \in Tokens : token[t].status = "revoked" => token'[t] = token[t]

ResetStep ==
  overlapped' \/ \A h \in Handlers : CommitResetPassword(h) => req[h].u \notin spent

-----------------------------------------------------------------------------
\* The tokens after a step that ends none and begins none.
LEMMA EndsKept ==
  ASSUME TokensInv, UNCHANGED opened,
         \A t \in Tokens : /\ token'[t].next = token[t].next
                           /\ token'[t].status = "none" <=> token[t].status = "none"
                           /\ token[t].status = "revoked" => token'[t].status = "revoked",
         opened \subseteq Tokens
  PROVE  TokensInv'
<1>1. Ends' = Ends
  BY DEF Ends
<1> QED BY <1>1 DEF TokensInv

\* A sign-in begins a token, and a session.
LEMMA EndsIssued ==
  ASSUME TypeOK, TokensInv, NEW h \in Handlers, NEW t \in Tokens, IssueToken(h, t)
  PROVE  TokensInv'
<1>1. /\ token[t].status = "none" /\ token[t].next = NoToken
      /\ token'[t].status = "live" /\ token'[t].next = NoToken
      /\ \A s \in Tokens \ {t} : token'[s] = token[s]
      /\ opened' = opened \cup {t}
  BY DEF IssueToken, TypeOK, TokenRow, TokensInv
<1>2. Ends' = Ends \cup {t} /\ t \notin Ends /\ t \notin opened
  BY <1>1 DEF Ends, TokensInv
<1>3. /\ IsFiniteSet(Ends') /\ IsFiniteSet(opened')
      /\ Cardinality(Ends') = Cardinality(opened')
  <2>1. IsFiniteSet(Ends) /\ IsFiniteSet(opened) /\ Cardinality(Ends) = Cardinality(opened)
    BY DEF TokensInv
  <2>2. IsFiniteSet(Ends \cup {t}) /\ Cardinality(Ends \cup {t}) = Cardinality(Ends) + 1
    BY <1>2, <2>1, FS_AddElement
  <2>3. IsFiniteSet(opened \cup {t}) /\ Cardinality(opened \cup {t}) = Cardinality(opened) + 1
    BY <1>2, <2>1, FS_AddElement
  <2> QED BY <1>1, <1>2, <2>1, <2>2, <2>3
<1>4. \A s \in Tokens : token'[s].next # NoToken => token'[s].status = "revoked"
  BY <1>1 DEF TokensInv
<1>5. \A s \in opened' : token'[s].status # "none"
  BY <1>1 DEF TokensInv, TypeOK
<1> QED BY <1>3, <1>4, <1>5 DEF TokensInv

\* A refresh ends a token and begins another.
LEMMA EndsRotated ==
  ASSUME TypeOK, TokensInv, NEW t \in Tokens, NEW new \in Tokens,
         token[t].status \in {"live", "expired"}, token[t].next = NoToken,
         token[new].status = "none", token' = Rotated(t, new), UNCHANGED opened
  PROVE  /\ TokensInv'
         /\ \A s \in Tokens : token[s].status = "revoked" => token'[s] = token[s]
<1>1. /\ t # new /\ token[new].next = NoToken
      /\ token'[new].status = "live" /\ token'[new].next = NoToken
      /\ token'[t] = [status |-> "revoked", next |-> new]
      /\ \A s \in Tokens \ {t, new} : token'[s] = token[s]
  BY DEF Rotated, TypeOK, TokenRow, TokensInv
<1>2. /\ Ends' = (Ends \ {t}) \cup {new} /\ t \in Ends /\ new \notin Ends
  BY <1>1, ParamsAssumption DEF Ends
<1>3. IsFiniteSet(Ends \ {t}) /\ Cardinality(Ends \ {t}) = Cardinality(Ends) - 1
  BY <1>2, FS_RemoveElement DEF TokensInv
<1>4. IsFiniteSet(Ends') /\ Cardinality(Ends') = Cardinality(Ends \ {t}) + 1
  BY <1>2, <1>3, FS_AddElement
<1>5. Cardinality(Ends') = Cardinality(Ends)
  BY <1>3, <1>4, FS_CardinalityType DEF TokensInv
<1>6. \A s \in Tokens : token'[s].next # NoToken => token'[s].status = "revoked"
  BY <1>1 DEF TokensInv
<1>7. \A s \in opened : token'[s].status # "none"
  BY <1>1 DEF TokensInv, TypeOK
<1>8. TokensInv'
  BY <1>4, <1>5, <1>6, <1>7 DEF TokensInv
<1>9. \A s \in Tokens : token[s].status = "revoked" => token'[s] = token[s]
  BY <1>1
<1> QED BY <1>8, <1>9

LEMMA TokenRowsStep ==
  ASSUME TypeOK, TokensInv, NEW h \in Handlers, Holds(req[h]), HandlerStep(h)
  PROVE  /\ TokensInv'
         /\ \A t \in Tokens : token[t].status = "revoked" => token'[t] = token[t]
<1>1. ASSUME NEW t \in Tokens, IssueToken(h, t)
      PROVE  /\ TokensInv'
             /\ \A s \in Tokens : token[s].status = "revoked" => token'[s] = token[s]
  <2>1. \A s \in Tokens : token[s].status = "revoked" => token'[s] = token[s]
    BY <1>1 DEF IssueToken, TypeOK
  <2> QED BY <1>1, <2>1, EndsIssued
<1>2. ASSUME NEW new \in Tokens, CommitRefresh(h, new)
      PROVE  /\ TokensInv'
             /\ \A s \in Tokens : token[s].status = "revoked" => token'[s] = token[s]
  <2>1. PICK t \in Tokens : t = req[h].t
    BY <1>2, RequestKinds DEF CommitRefresh, At, TypeOK, RefreshRequest
  <2>2. token[t].status \in {"live", "expired"} /\ token[t].next = NoToken
    BY <1>2, <2>1 DEF CommitRefresh, At, Holds
  <2>3. token[new].status = "none" /\ token' = Rotated(t, new) /\ UNCHANGED opened
    BY <1>2, <2>1 DEF CommitRefresh
  <2> QED BY <2>2, <2>3, EndsRotated
<1>3. ASSUME NEW t \in Tokens, Logout(h, t)
      PROVE  /\ TokensInv'
             /\ \A s \in Tokens : token[s].status = "revoked" => token'[s] = token[s]
  <2>1. /\ token'[t].status = "revoked" /\ token'[t].next = token[t].next
        /\ token[t].status \in {"live", "expired"}
        /\ \A s \in Tokens \ {t} : token'[s] = token[s]
        /\ UNCHANGED opened
    BY <1>3 DEF Logout, TypeOK, TokenRow
  <2>2. TokensInv'
    BY <2>1, EndsKept DEF TypeOK
  <2> QED BY <2>1, <2>2
<1>4. CASE UNCHANGED <<token, opened>>
  BY <1>4 DEF TokensInv, Ends
<1>5. \/ UNCHANGED <<token, opened>>
      \/ \E t \in Tokens : IssueToken(h, t) \/ Logout(h, t) \/ CommitRefresh(h, t)
  BY DEF HandlerStep, SignInStep, TokenStep, OtpStep, OAuthLogin, LoginWithEmail,
     RegisterWithEmail, ChangePassword, CommitCreateUser, CommitSetPassword,
     CommitChangePassword, RefreshTokens, SendOtp, CheckNoOtp, CheckWrongOtp, VerifyEmail,
     ResetPassword, RenewOtp, CountAttempt, CommitVerifyEmail, CommitResetPassword, Fail
<1> QED BY <1>1, <1>2, <1>3, <1>4, <1>5

-----------------------------------------------------------------------------
\* A reset clears its code; a code that is good again is a new one.
LEMMA CodeRowsStep ==
  ASSUME TypeOK, CodesInv, NEW h \in Handlers, WatchedStep(h)
  PROVE  CodesInv'
<1> SUFFICES ASSUME NEW u \in spent' PROVE otp'[u]["reset"].state # "fresh"
  BY DEF CodesInv, WatchedStep
<1>1. /\ u \in Users
      /\ \/ CommitResetPassword(h) /\ req[h].u = u
         \/ u \in spent /\ ~NewResetCode(h, u)
  BY DEF WatchedStep
<1>2. CASE CommitResetPassword(h) /\ req[h].u = u
  <2>1. otp'[u]["reset"] = NoCode
    BY <1>1, <1>2 DEF CommitResetPassword, CodeAfterReset, TypeOK, Purposes
  <2> QED BY <2>1 DEF NoCode
<1>3. CASE u \in spent /\ ~NewResetCode(h, u)
  <2>0. otp[u]["reset"].state # "fresh" /\ otp[u]["reset"] \in Code
    BY <1>1, <1>3 DEF CodesInv, TypeOK, Purposes
  <2>1. CASE UNCHANGED otp
    BY <2>0, <2>1
  <2>2. ASSUME NEW v \in Users, NEW p \in Purposes, SendOtp(h, v, p)
        PROVE  otp'[u]["reset"].state # "fresh"
    <3>1. v # u \/ p # "reset"
      BY <1>3, <2>2 DEF NewResetCode
    <3>2. otp'[u]["reset"] = otp[u]["reset"]
      BY <1>1, <2>2, <3>1 DEF SendOtp, TypeOK, Purposes
    <3> QED BY <2>0, <3>2
  <2>3. CASE RenewOtp(h)
    <3>1. req[h].u # u \/ req[h].p # "reset"
      BY <1>3, <2>3 DEF NewResetCode
    <3>2. otp'[u]["reset"] = otp[u]["reset"]
      BY <1>1, <2>3, <3>1 DEF RenewOtp, TypeOK, Purposes
    <3> QED BY <2>0, <3>2
  <2>4. CASE CountAttempt(h)
    <3>1. otp'[u]["reset"] = otp[u]["reset"]
          \/ \E n : otp'[u]["reset"] = [otp[u]["reset"] EXCEPT !.attempts = n]
      BY <1>1, <2>4 DEF CountAttempt, TypeOK, Purposes
    <3> QED BY <2>0, <3>1 DEF Code
  <2>5. CASE CommitVerifyEmail(h)
    <3>1. otp'[u]["reset"] = otp[u]["reset"]
      BY <1>1, <2>5 DEF CommitVerifyEmail, TypeOK, Purposes
    <3> QED BY <2>0, <3>1
  <2>6. CASE CommitResetPassword(h)
    <3>1. otp'[u]["reset"] = otp[u]["reset"] \/ otp'[u]["reset"] = NoCode
      BY <1>1, <2>6 DEF CommitResetPassword, CodeAfterReset, TypeOK, Purposes
    <3> QED BY <2>0, <3>1 DEF NoCode
  <2>7. \/ UNCHANGED otp
        \/ \E v \in Users, p \in Purposes : SendOtp(h, v, p)
        \/ RenewOtp(h) \/ CountAttempt(h) \/ CommitVerifyEmail(h) \/ CommitResetPassword(h)
    BY DEF WatchedStep, HandlerStep, SignInStep, TokenStep, OtpStep, IssueToken, OAuthLogin,
       LoginWithEmail, RegisterWithEmail, ChangePassword, CommitCreateUser,
       CommitSetPassword, CommitChangePassword, RefreshTokens, Logout, CommitRefresh,
       CheckNoOtp, CheckWrongOtp, VerifyEmail, ResetPassword, Fail
  <2> QED BY <2>1, <2>2, <2>3, <2>4, <2>5, <2>6, <2>7
<1> QED BY <1>1, <1>2, <1>3

\* A handler's step changes its own slot; what it then remembers of a token or of a
\* reset code it has just read.
LEMMA SlotStep ==
  ASSUME TypeOK, TokensInv, CodesInv, NEW h \in Handlers, WatchedStep(h)
  PROVE  /\ \A g \in Handlers \ {h} : req'[g] = req[g]
         /\ Holds(req[h])'
<1>0. HandlerStep(h)
  BY DEF WatchedStep
<1>1. \E q : req' = [req EXCEPT ![h] = q]
  <2>1. (\E q : Begin(h, q) \/ Become(h, q)) \/ UNCHANGED req
    BY <1>0 DEF HandlerStep, SignInStep, TokenStep, OtpStep, IssueToken, OAuthLogin,
       LoginWithEmail, RegisterWithEmail, ChangePassword, CommitCreateUser,
       CommitSetPassword, CommitChangePassword, RefreshTokens, Logout, CommitRefresh,
       SendOtp, CheckNoOtp, CheckWrongOtp, VerifyEmail, ResetPassword, RenewOtp,
       CountAttempt, CommitVerifyEmail, CommitResetPassword, Fail, Return
  <2>2. req = [req EXCEPT ![h] = req[h]]
    BY DEF TypeOK
  <2> QED BY <2>1, <2>2 DEF Begin, Become
<1>2. \A g \in Handlers \ {h} : req'[g] = req[g]
  BY <1>1 DEF TypeOK
<1>3. CASE req[h] = Idle /\ UNCHANGED req
  BY <1>3 DEF Holds, Idle
<1>4. ASSUME NEW q, Begin(h, q) \/ Become(h, q), q.pc \notin {"rotate", "reset"}
      PROVE  Holds(req[h])'
  <2>1. req'[h] = q
    BY <1>4 DEF Begin, Become, TypeOK
  <2> QED BY <1>4, <2>1 DEF Holds
<1>5. ASSUME NEW t \in Tokens, RefreshTokens(h, t)
      PROVE  Holds(req[h])'
  <2>1. req'[h] = [pc |-> "rotate", t |-> t] /\ UNCHANGED token /\ token[t].status = "live"
    BY <1>5 DEF RefreshTokens, Refreshable, Begin, TypeOK
  <2>2. token[t].next = NoToken
    BY <2>1 DEF TokensInv
  <2> QED BY <2>1, <2>2 DEF Holds
<1>6. ASSUME NEW u \in Users, NEW pw \in Passwords, ResetPassword(h, u, pw)
      PROVE  Holds(req[h])'
  <2>1. /\ req'[h] = [pc |-> "reset", u |-> u, password |-> pw] /\ req[h] = Idle
        /\ otp[u]["reset"].state = "fresh"
    BY <1>6 DEF ResetPassword, CanGuess, Begin, TypeOK
  <2>2. u \notin spent
    BY <2>1 DEF CodesInv
  <2>3. ~CommitResetPassword(h)
    BY <2>1 DEF CommitResetPassword, At, Idle
  <2>4. u \notin spent'
    BY <2>2, <2>3 DEF WatchedStep
  <2> QED BY <2>1, <2>4 DEF Holds
<1>7. \/ req[h] = Idle /\ UNCHANGED req
      \/ \E q : (Begin(h, q) \/ Become(h, q)) /\ q.pc \notin {"rotate", "reset"}
      \/ \E t \in Tokens : RefreshTokens(h, t)
      \/ \E u \in Users, pw \in Passwords : ResetPassword(h, u, pw)
  <2> DEFINE Other(q) == q.pc \notin {"rotate", "reset"}
             Moves == \E q : (Begin(h, q) \/ Become(h, q)) /\ Other(q)
  <2>1. CASE Return(h)
    <3>1. Other(Idle)
      BY DEF Idle
    <3> QED BY <2>1, <3>1 DEF Return
  <2>2. ASSUME NEW u, NEW pc \in {"issue", "verified"},
               Begin(h, [pc |-> pc, u |-> u]) \/ Become(h, [pc |-> pc, u |-> u])
        PROVE  Moves
    <3>1. Other([pc |-> pc, u |-> u])
      OBVIOUS
    <3> QED BY <2>2, <3>1
  <2>3. ASSUME NEW u, NEW pw, NEW pc \in {"createUser", "setPassword", "changePassword"},
               Begin(h, [pc |-> pc, u |-> u, password |-> pw])
        PROVE  Moves
    <3>1. Other([pc |-> pc, u |-> u, password |-> pw])
      OBVIOUS
    <3> QED BY <2>3, <3>1
  <2>4. ASSUME NEW u, NEW p, NEW pc \in {"renew", "wrong"},
               Begin(h, [pc |-> pc, u |-> u, p |-> p])
        PROVE  Moves
    <3>1. Other([pc |-> pc, u |-> u, p |-> p])
      OBVIOUS
    <3> QED BY <2>4, <3>1
  <2>5. CASE SignInStep(h)
    <3>1. ASSUME NEW u \in Users, NEW pw \in Passwords, RegisterWithEmail(h, u, pw)
          PROVE  \E pc \in {"createUser", "setPassword", "changePassword"} :
                   Begin(h, [pc |-> pc, u |-> u, password |-> pw])
      BY <3>1 DEF RegisterWithEmail, RegisterStage
    <3>2. ASSUME NEW u \in Users, OAuthLogin(h, u) \/ LoginWithEmail(h, u)
          PROVE  Begin(h, [pc |-> "issue", u |-> u])
      BY <3>2 DEF OAuthLogin, LoginWithEmail
    <3>3. ASSUME NEW u \in Users, NEW pw \in Passwords, ChangePassword(h, u, pw)
          PROVE  Begin(h, [pc |-> "changePassword", u |-> u, password |-> pw])
      BY <3>3 DEF ChangePassword
    <3>4. CASE CommitCreateUser(h) \/ CommitSetPassword(h)
      BY <2>2, <3>4 DEF CommitCreateUser, CommitSetPassword
    <3>5. (\E t \in Tokens : IssueToken(h, t)) \/ CommitChangePassword(h) => Return(h)
      BY DEF IssueToken, CommitChangePassword
    <3> QED BY <2>1, <2>2, <2>3, <2>5, <3>1, <3>2, <3>3, <3>4, <3>5 DEF SignInStep
  <2>6. CASE TokenStep(h)
    BY <2>1, <2>6 DEF TokenStep, Logout, CommitRefresh
  <2>7. CASE OtpStep(h)
    <3>1. ASSUME NEW u \in Users, NEW p \in Purposes,
                 CheckNoOtp(h, u, p) \/ CheckWrongOtp(h, u, p)
          PROVE  Moves
      BY <2>4, <3>1 DEF CheckNoOtp, CheckWrongOtp
    <3>2. ASSUME NEW u \in Users, VerifyEmail(h, u)
          PROVE  Moves
      BY <2>2, <3>2 DEF VerifyEmail
    <3>3. CASE CommitVerifyEmail(h)
      BY <2>2, <3>3 DEF CommitVerifyEmail
    <3>4. RenewOtp(h) \/ CountAttempt(h) \/ CommitResetPassword(h) => Return(h)
      BY DEF RenewOtp, CountAttempt, CommitResetPassword
    <3>5. (\E u \in Users, p \in Purposes : SendOtp(h, u, p)) => req[h] = Idle /\ UNCHANGED req
      BY DEF SendOtp
    <3> QED BY <2>1, <2>7, <3>1, <3>2, <3>3, <3>4, <3>5 DEF OtpStep
  <2>8. CASE Fail(h)
    BY <2>1, <2>8 DEF Fail
  <2> QED BY <1>0, <2>5, <2>6, <2>7, <2>8 DEF HandlerStep
<1> QED BY <1>2, <1>3, <1>4, <1>5, <1>6, <1>7

LEMMA SerialHandlerStep ==
  ASSUME TypeOK, SerialInv, NEW h \in Handlers, WatchedStep(h)
  PROVE  SerialInv' /\ RevokedStep /\ ResetStep
<1> SUFFICES ASSUME ~overlapped'
             PROVE  SerialInv' /\ RevokedStep /\ ResetStep
  BY DEF SerialInv, RevokedStep, ResetStep
<1>1. /\ ~overlapped /\ \A g \in Handlers \ {h} : req[g] = Idle
      /\ HandlerStep(h)
  BY DEF WatchedStep
<1>2. Alone /\ HandlersHold /\ TokensInv /\ CodesInv
  BY <1>1 DEF SerialInv
<1>3. /\ TokensInv'
      /\ \A t \in Tokens : token[t].status = "revoked" => token'[t] = token[t]
  BY <1>1, <1>2, TokenRowsStep DEF HandlersHold
<1>4. CodesInv'
  BY <1>2, CodeRowsStep
<1>5. (\A g \in Handlers \ {h} : req'[g] = Idle) /\ Holds(req[h])'
  BY <1>1, <1>2, SlotStep
<1>6. Alone'
  BY <1>5 DEF Alone
<1>7. ASSUME NEW g \in Handlers PROVE Holds(req[g])'
  BY <1>5 DEF Holds, Idle
<1>8. ASSUME NEW g \in Handlers, CommitResetPassword(g) PROVE req[g].u \notin spent
  BY <1>2, <1>8 DEF HandlersHold, Holds, CommitResetPassword, At
<1> QED BY <1>3, <1>4, <1>6, <1>7, <1>8
        DEF SerialInv, HandlersHold, RevokedStep, ResetStep

\* Time passes: a code or a token expires.
LEMMA SerialTimeStep ==
  ASSUME TypeOK, SerialInv, TimeStep, UNCHANGED <<overlapped, spent>>
  PROVE  SerialInv' /\ RevokedStep /\ ResetStep
<1> SUFFICES ASSUME ~overlapped, Alone, HandlersHold, TokensInv, CodesInv
             PROVE  SerialInv' /\ RevokedStep /\ ResetStep
  BY DEF SerialInv, RevokedStep, ResetStep
<1>1. UNCHANGED <<req, opened>>
  BY DEF TimeStep, ExpireOtp, ExpireToken
<1>2. /\ \A t \in Tokens : \/ token'[t] = token[t]
                          \/ /\ token[t].status = "live" /\ token'[t].status = "expired"
                             /\ token'[t].next = token[t].next
  BY DEF TimeStep, ExpireOtp, ExpireToken, TypeOK, TokenRow
<1>3. TokensInv'
  BY <1>1, <1>2, EndsKept DEF TypeOK
<1>4. \A u \in Users : otp[u]["reset"].state # "fresh" => otp'[u]["reset"].state # "fresh"
  <2>1. ASSUME NEW v \in Users, NEW p \in Purposes, ExpireOtp(v, p), NEW u \in Users
        PROVE  otp'[u]["reset"] = otp[u]["reset"] \/ otp'[u]["reset"].state = "stale"
    BY <2>1 DEF ExpireOtp, TypeOK, Purposes, Code
  <2> QED BY <2>1 DEF TimeStep, ExpireToken
<1>5. CodesInv'
  BY <1>4 DEF CodesInv
<1>6. ASSUME NEW h \in Handlers PROVE Holds(req[h])'
  <2>1. Holds(req[h]) /\ req[h] \in Requests
    BY DEF HandlersHold, TypeOK
  <2>2. req[h].pc = "rotate" => req[h].t \in Tokens
    BY <2>1, RequestKinds DEF RefreshRequest
  <2> QED BY <1>1, <1>2, <2>1, <2>2 DEF Holds
<1>7. ASSUME NEW g \in Handlers, CommitResetPassword(g) PROVE req[g].u \notin spent
  BY <1>7 DEF HandlersHold, Holds, CommitResetPassword, At
<1>8. RevokedStep
  BY <1>2 DEF RevokedStep
<1> QED BY <1>1, <1>3, <1>5, <1>6, <1>7, <1>8
        DEF SerialInv, Alone, HandlersHold, ResetStep

LEMMA SerialStutter ==
  ASSUME SerialInv, UNCHANGED watched
  PROVE  SerialInv'
<1> QED BY DEF watched, vars, SerialInv, Alone, HandlersHold, Holds, TokensInv, Ends, CodesInv

LEMMA SerialInit == WatchedInit => SerialInv
<1> SUFFICES ASSUME WatchedInit PROVE SerialInv
  OBVIOUS
<1>1. Ends = {} /\ opened = {}
  BY DEF WatchedInit, Init, Ends
<1>2. TokensInv
  BY <1>1, FS_EmptySet DEF TokensInv, WatchedInit, Init
<1>3. Alone /\ HandlersHold /\ CodesInv
  BY DEF WatchedInit, Init, Alone, HandlersHold, Holds, Idle, CodesInv
<1> QED BY <1>2, <1>3 DEF SerialInv

LEMMA SerialStep ==
  ASSUME TypeOK, SerialInv, [WatchedNext]_watched
  PROVE  SerialInv' /\ [RevokedStep /\ ResetStep]_vars
<1>1. CASE UNCHANGED watched
  BY <1>1, SerialStutter DEF watched
<1>2. CASE WatchedNext
  BY <1>2, SerialHandlerStep, SerialTimeStep DEF WatchedNext
<1> QED BY <1>1, <1>2

LEMMA WatchedIsAccounts ==
  /\ WatchedInit => Init
  /\ [WatchedNext]_watched => [Next]_vars
<1> QED BY DEF WatchedInit, WatchedNext, WatchedStep, watched, Next

LEMMA SerialInvCorrect == WatchedSpec => [](TypeOK /\ SerialInv)
<1>1. WatchedInit => TypeOK /\ SerialInv
  BY TypeInit, SerialInit, WatchedIsAccounts
<1>2. TypeOK /\ SerialInv /\ [WatchedNext]_watched => TypeOK' /\ SerialInv'
  BY TypeStep, SerialStep, WatchedIsAccounts
<1> QED BY <1>1, <1>2, PTL DEF WatchedSpec

\* As long as no two requests overlap, every session has one token to go on with:
\* each sign-in begins one, a refresh hands it over, a logout leaves it in place.
THEOREM OneTokenPerSessionCorrect == WatchedSpec => []OneTokenPerSession
<1>1. SerialInv => OneTokenPerSession
  BY DEF SerialInv, TokensInv, OneTokenPerSession
<1> QED BY <1>1, SerialInvCorrect, PTL

\* POST /auth/logout and /auth/refresh: as long as no two requests overlap, nothing
\* has an effect on a token that was revoked.
THEOREM RevokedIsFinalCorrect == WatchedSpec => RevokedIsFinal
<1>1. TypeOK /\ SerialInv /\ [WatchedNext]_watched => [RevokedStep]_vars
  BY SerialStep
<1> QED BY <1>1, SerialInvCorrect, PTL DEF WatchedSpec, RevokedIsFinal, RevokedStep

\* POST /auth/reset-password: as long as no two requests overlap, a code resets one
\* password.
THEOREM OneResetPerCodeCorrect == WatchedSpec => OneResetPerCode
<1>1. TypeOK /\ SerialInv /\ [WatchedNext]_watched => [ResetStep]_vars
  BY SerialStep
<1> QED BY <1>1, SerialInvCorrect, PTL DEF WatchedSpec, OneResetPerCode, ResetStep
=============================================================================
