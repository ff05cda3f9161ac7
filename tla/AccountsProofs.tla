--------------------------- MODULE AccountsProofs ----------------------------
(***************************************************************************)
(* Theorems about Accounts, for any number of concurrent requests, live    *)
(* sessions, mailed links, login attempts, passwords and enrolments.       *)
(***************************************************************************)
EXTENDS Accounts, FiniteSetTheorems, TLAPS

(***************************************************************************)
(* Types.                                                                  *)
(***************************************************************************)
Holding == {"reset", "verify", "spend"}

OthersSame(r) == \A q \in Requests \ {r} : req'[q] = req[q]

\* A step that gives one request a new state, and forgets no token.
LEMMA TypeKept ==
  ASSUME TypeOK, NEW r \in Requests, NEW x \in Request, req' = [req EXCEPT ![r] = x],
         account' \in Account, sessions' \in [Sessions -> Session \cup {None}],
         tokens' \in [Tokens -> Token \cup {None}],
         \A t \in Tokens : tokens[t] # None => tokens'[t] # None,
         x.pc \in Holding => x.token \in Tokens /\ tokens[x.token] # None
  PROVE  TypeOK'
<1>1. req' \in [Requests -> Request] /\ req'[r] = x
  BY DEF TypeOK
<1>2. ASSUME NEW q \in Requests, req'[q].pc \in Holding
      PROVE  req'[q].token \in Tokens /\ tokens'[req'[q].token] # None
  <2>1. CASE q = r
    BY <1>1, <1>2, <2>1
  <2>2. CASE q # r
    <3>1. req'[q] = req[q]
      BY <2>2 DEF TypeOK
    <3>2. req[q].token \in Tokens /\ tokens[req[q].token] # None
      BY <1>2, <3>1 DEF TypeOK, Holding
    <3> QED  BY <3>1, <3>2
  <2> QED  BY <2>1, <2>2
<1> QED  BY <1>1, <1>2 DEF TypeOK, Holding

LEMMA TypedParts ==
  ASSUME TypeOK
  PROVE  /\ account \in Account /\ sessions \in [Sessions -> Session \cup {None}]
         /\ tokens \in [Tokens -> Token \cup {None}] /\ req \in [Requests -> Request]
         /\ \A r \in Requests : req[r].pc \in Holding =>
              req[r].token \in Tokens /\ tokens[req[r].token] # None
BY DEF TypeOK, Holding

LEMMA IdleTyped ==
  /\ NothingShown \in Shown /\ Idle \in Request /\ Idle.pc = "idle"
  /\ Idle.sess = None /\ Idle.shown = NothingShown /\ Idle.token = None
BY DEF NothingShown, Shown, Idle, Request

Pcs == {"idle", "user", "fail", "code", "admit", "welcome", "rotate", "change", "others",
        "enable", "disable", "mail", "reset", "verify", "spend", "all"}

\* A request that goes on keeps what it has read.
LEMMA GoToEffect ==
  ASSUME TypeOK, NEW r \in Requests, NEW pc \in Pcs, GoTo(r, pc)
  PROVE  \E x \in Request :
           /\ req' = [req EXCEPT ![r] = x] /\ req'[r] = x /\ OthersSame(r)
           /\ x.pc = pc /\ x.sess = req[r].sess /\ x.shown = req[r].shown /\ x.token = req[r].token
<1> DEFINE x == [req[r] EXCEPT !.pc = pc]
<1>1. req[r] \in Request /\ req \in [Requests -> Request]
  BY DEF TypeOK
<1>2. /\ x \in Request
      /\ x.pc = pc /\ x.sess = req[r].sess /\ x.shown = req[r].shown /\ x.token = req[r].token
  BY <1>1 DEF Request, Pcs
<1>3. req' = [req EXCEPT ![r] = x]
  BY DEF GoTo
<1> HIDE DEF x
<1>4. req'[r] = x /\ OthersSame(r)
  BY <1>1, <1>3 DEF OthersSame
<1> QED  BY <1>2, <1>3, <1>4

LEMMA DoneEffect ==
  ASSUME TypeOK, NEW r \in Requests, Done(r)
  PROVE  req' = [req EXCEPT ![r] = Idle] /\ req'[r] = Idle /\ OthersSame(r)
BY DEF TypeOK, Done, OthersSame

\* A step that only moves one request on, or ends it.
LEMMA MovesOnly ==
  ASSUME TypeOK, NEW r \in Requests,
         Done(r) \/ \E pc \in Pcs : (pc \in Holding => req[r].pc \in Holding) /\ GoTo(r, pc),
         account' \in Account, sessions' \in [Sessions -> Session \cup {None}],
         tokens' \in [Tokens -> Token \cup {None}],
         \A t \in Tokens : tokens[t] # None => tokens'[t] # None
  PROVE  TypeOK'
<1>1. CASE Done(r)
  <2>1. req' = [req EXCEPT ![r] = Idle] /\ Idle \in Request /\ Idle.pc \notin Holding
    BY <1>1, DoneEffect, IdleTyped DEF Holding
  <2> QED  BY <2>1, TypeKept
<1>2. ASSUME NEW pc \in Pcs, pc \in Holding => req[r].pc \in Holding, GoTo(r, pc)
      PROVE  TypeOK'
  <2>1. PICK x \in Request : /\ req' = [req EXCEPT ![r] = x]
                             /\ x.pc = pc /\ x.token = req[r].token
    BY <1>2, GoToEffect
  <2>2. x.pc \in Holding => x.token \in Tokens /\ tokens[x.token] # None
    BY <1>2, <2>1, TypedParts
  <2> QED  BY <2>1, <2>2, TypeKept
<1> QED  BY <1>1, <1>2

\* The token a new row, a mark or a use leaves.
LEMMA TokenStates ==
  ASSUME NEW u \in Token
  PROVE  /\ [u EXCEPT !.live = FALSE] \in Token /\ [u EXCEPT !.stuck = TRUE] \in Token
         /\ [u EXCEPT !.uses = IF @ > Cardinality(Requests) THEN @ ELSE @ + 1] \in Token
<1>1. Cardinality(Requests) \in Nat
  BY SetsAssumption, FS_CardinalityType
<1> DEFINE used == IF u.uses > Cardinality(Requests) THEN u.uses ELSE u.uses + 1
<1>2. used \in 0..(Cardinality(Requests) + 1)
  BY <1>1 DEF Token
<1> HIDE DEF used
<1>3. [u EXCEPT !.uses = used] \in Token
  BY <1>2 DEF Token
<1>4. [u EXCEPT !.live = FALSE] \in Token /\ [u EXCEPT !.stuck = TRUE] \in Token
  BY DEF Token
<1> QED  BY <1>3, <1>4 DEF used

LEMMA NewTokenTyped ==
  ASSUME NEW kind \in {"email_verification", "password_reset"}
  PROVE  NewToken(kind) \in Token
<1>1. Cardinality(Requests) \in Nat
  BY SetsAssumption, FS_CardinalityType
<1> QED  BY <1>1 DEF NewToken, Token

LEMMA MailTyped ==
  ASSUME TypeOK, NEW kind \in {"email_verification", "password_reset"}, CreateAuthToken(kind)
  PROVE  /\ tokens' \in [Tokens -> Token \cup {None}]
         /\ \A t \in Tokens : tokens[t] # None => tokens'[t] = tokens[t]
BY NewTokenTyped DEF TypeOK, CreateAuthToken

LEMMA CountTyped ==
  ASSUME TypeOK, NEW t \in Tokens, tokens[t] # None, Count(t)
  PROVE  /\ tokens' \in [Tokens -> Token \cup {None}]
         /\ \A u \in Tokens : tokens[u] # None => tokens'[u] # None
<1> DEFINE x == [tokens[t] EXCEPT !.uses = IF @ > Cardinality(Requests) THEN @ ELSE @ + 1]
<1>1. tokens[t] \in Token
  BY DEF TypeOK
<1>2. x \in Token
  BY <1>1, TokenStates
<1>3. tokens' = [tokens EXCEPT ![t] = x]
  BY DEF Count
<1> HIDE DEF x
<1> QED  BY <1>2, <1>3, NoneAssumption DEF TypeOK

LEMMA SpendTyped ==
  ASSUME TypeOK, NEW r \in Requests, UseAuthToken(r)
  PROVE  TypeOK'
<1> DEFINE t == req[r].token
<1>1. /\ t \in Tokens /\ tokens[t] # None /\ req[r].pc = "spend"
  BY TypedParts DEF UseAuthToken, Holding
<1>2. PICK u \in Token : tokens' = [tokens EXCEPT ![t] = u]
  <2>1. tokens[t] \in Token
    BY <1>1, TypedParts
  <2> QED  BY <2>1, TokenStates DEF UseAuthToken
<1>3. /\ tokens' \in [Tokens -> Token \cup {None}]
      /\ \A v \in Tokens : tokens[v] # None => tokens'[v] # None
  <2> HIDE DEF t
  <2> QED  BY <1>1, <1>2, NoneAssumption DEF TypeOK
<1>4. GoTo(r, "all") \/ Done(r)
  BY DEF UseAuthToken
<1> QED  BY <1>3, <1>4, MovesOnly, TypedParts DEF UseAuthToken, Pcs, Holding

\* The rows the steps write.
LEMMA AccountTyped ==
  ASSUME NEW a \in Account, NEW n \in Nat
  PROVE  /\ [a EXCEPT !.password = n] \in Account /\ [a EXCEPT !.revoked = n] \in Account
         /\ [a EXCEPT !.totp = n] \in Account
         /\ [a EXCEPT !.totp = n, !.enrolments = n] \in Account
         /\ [a EXCEPT !.locked = FALSE, !.guesses = 0] \in Account
         /\ [a EXCEPT !.failures = 0, !.locked = FALSE, !.guesses = 0] \in Account
<1>1. [a EXCEPT !.password = n] \in Account /\ [a EXCEPT !.revoked = n] \in Account
  BY DEF Account
<1>2. [a EXCEPT !.totp = n] \in Account /\ [a EXCEPT !.totp = n, !.enrolments = n] \in Account
  BY DEF Account
<1>3. [a EXCEPT !.locked = FALSE, !.guesses = 0] \in Account
  BY DEF Account
<1>4. 0 \in 0..MaxLoginAttempts
  BY AttemptsAssumption
<1>5. [a EXCEPT !.failures = 0, !.locked = FALSE, !.guesses = 0] \in Account
  BY <1>4 DEF Account
<1> QED  BY <1>1, <1>2, <1>3, <1>5

LEMMA FailureTyped ==
  ASSUME NEW a \in Account
  PROVE  [a EXCEPT !.failures = IF @ < MaxLoginAttempts THEN @ + 1 ELSE @,
                   !.locked = LockedAfter(a.failures) \/ @,
                   !.guesses = @ + 1] \in Account
<1> DEFINE failures == IF a.failures < MaxLoginAttempts THEN a.failures + 1 ELSE a.failures
           locked == LockedAfter(a.failures) \/ a.locked
<1>1. failures \in 0..MaxLoginAttempts
  BY AttemptsAssumption DEF Account
<1>2. locked \in BOOLEAN
  BY DEF Account, LockedAfter
<1>3. a.guesses + 1 \in Nat
  BY DEF Account
<1> HIDE DEF failures, locked
<1>4. [a EXCEPT !.failures = failures, !.locked = locked, !.guesses = @ + 1] \in Account
  BY <1>1, <1>2, <1>3 DEF Account
<1> QED  BY <1>4 DEF failures, locked

\* Sessions a step may leave.
LEMMA SessionStates ==
  ASSUME NEW u \in Session, NEW n \in Nat
  PROVE  [u EXCEPT !.shown.password = n] \in Session
<1> DEFINE x == [u.shown EXCEPT !.password = n]
<1>1. x \in Shown
  BY DEF Session, Shown
<1> HIDE DEF x
<1>2. [u EXCEPT !.shown = x] \in Session
  BY <1>1 DEF Session
<1> QED  BY <1>2 DEF x

\* What a request comes to know.
LEMMA ShownStates ==
  ASSUME NEW x \in Request, NEW n \in Nat, NEW m \in Nat, NEW pc \in Pcs
  PROVE  /\ [x EXCEPT !.pc = pc, !.shown.password = n] \in Request
         /\ [x EXCEPT !.pc = pc, !.shown.factor = n] \in Request
         /\ [x EXCEPT !.pc = pc, !.shown.factor = n, !.shown.enrolledThen = m] \in Request
<1> DEFINE p == [x.shown EXCEPT !.password = n]
           f == [x.shown EXCEPT !.factor = n]
           e == [x.shown EXCEPT !.factor = n, !.enrolledThen = m]
<1>1. p \in Shown /\ f \in Shown /\ e \in Shown
  BY DEF Request, Shown
<1> HIDE DEF p, f, e
<1>2. /\ [x EXCEPT !.pc = pc, !.shown = p] \in Request
      /\ [x EXCEPT !.pc = pc, !.shown = f] \in Request
      /\ [x EXCEPT !.pc = pc, !.shown = e] \in Request
  BY <1>1 DEF Request, Pcs
<1> QED  BY <1>2 DEF p, f, e

\* A request of the state x has been begun or moved on, and no row has changed but
\* the account's and sessions that stay typed.
LEMMA RowsTyped ==
  ASSUME TypeOK, NEW r \in Requests, NEW x \in Request, req' = [req EXCEPT ![r] = x],
         account' \in Account, sessions' \in [Sessions -> Session \cup {None}],
         UNCHANGED tokens, x.pc \notin Holding
  PROVE  TypeOK'
<1>1. tokens' \in [Tokens -> Token \cup {None}] /\ \A t \in Tokens : tokens[t] # None => tokens'[t] # None
  BY TypedParts
<1> QED  BY <1>1, TypeKept

LEMMA LoginTyped ==
  ASSUME TypeOK, NEW r \in Requests,
         register(r) \/ login(r) \/ loginCode(r) \/ RecordLoginFailure(r) \/ SetLastLogin(r)
  PROVE  TypeOK'
<1>t. /\ account \in Account /\ sessions \in [Sessions -> Session \cup {None}]
      /\ tokens \in [Tokens -> Token \cup {None}] /\ req \in [Requests -> Request]
  BY TypedParts
<1>p. {"welcome", "fail", "code", "admit", "rotate"} \subseteq Pcs \ Holding
  BY DEF Pcs, Holding
<1>f. [Idle EXCEPT !.pc = "fail"] \in Request
  BY IdleTyped DEF Request
<1>1. CASE register(r)
  <2> DEFINE x == [Idle EXCEPT !.pc = "welcome", !.shown.password = 1]
  <2>1. x \in Request /\ x.pc = "welcome"
    BY <1>p, IdleTyped, ShownStates DEF Idle
  <2>2. account' \in Account /\ sessions' \in [Sessions -> Session \cup {None}] /\ UNCHANGED tokens
    BY <1>1, <1>t, AccountTyped DEF register, CreateUser
  <2>3. req' = [req EXCEPT ![r] = x]
    BY <1>1 DEF register
  <2> HIDE DEF x
  <2> QED  BY <1>p, <2>1, <2>2, <2>3, RowsTyped
<1>2. CASE login(r)
  <2>u. account' \in Account /\ sessions' \in [Sessions -> Session \cup {None}] /\ UNCHANGED tokens
    BY <1>2, <1>t DEF login
  <2>1. CASE req' = [req EXCEPT ![r] = [Idle EXCEPT !.pc = "fail"]]
    <3> DEFINE x == [Idle EXCEPT !.pc = "fail"]
    <3>1. x \in Request /\ x.pc = "fail"
      BY <1>f DEF Idle
    <3> HIDE DEF x
    <3> QED  BY <1>p, <2>1, <2>u, <3>1, RowsTyped DEF x
  <2>2. ASSUME NEW s \in Live \cup {None},
               req' = [req EXCEPT ![r] =
                 [pc |-> IF NeedsCode(s) THEN "code" ELSE "admit", sess |-> s, token |-> None,
                  shown |-> [password |-> account.password, factor |-> 0,
                             revokedThen |-> account.revoked,
                             enrolledThen |-> account.enrolments]]]
        PROVE  TypeOK'
    <3> DEFINE pc == IF NeedsCode(s) THEN "code" ELSE "admit"
               k == [password |-> account.password, factor |-> 0,
                     revokedThen |-> account.revoked, enrolledThen |-> account.enrolments]
               x == [pc |-> pc, sess |-> s, token |-> None, shown |-> k]
    <3>1. pc \in {"code", "admit"} /\ k \in Shown /\ s \in Sessions \cup {None}
      BY <1>t DEF Live, Shown, Account
    <3> HIDE DEF pc, k
    <3>2. x \in Request /\ x.pc = pc
      BY <3>1 DEF Request
    <3>3. req' = [req EXCEPT ![r] = x]
      BY <2>2 DEF pc, k
    <3> HIDE DEF x
    <3> QED  BY <1>p, <2>u, <3>1, <3>2, <3>3, RowsTyped
  <2> QED  BY <1>2, <2>1, <2>2 DEF login
<1>3. CASE loginCode(r)
  <2>u. account' \in Account /\ sessions' \in [Sessions -> Session \cup {None}] /\ UNCHANGED tokens
    BY <1>3, <1>t DEF loginCode
  <2>1. CASE req' = [req EXCEPT ![r].pc = "admit", ![r].shown.factor = account.totp]
    <3> DEFINE x == [req[r] EXCEPT !.pc = "admit", !.shown.factor = account.totp]
    <3>0. account.totp \in Nat
      BY <1>t DEF Account
    <3>1. x \in Request
      BY <1>p, <1>t, <3>0, ShownStates
    <3>2. x.pc = "admit"
      BY <1>t DEF Request
    <3>3. req' = [req EXCEPT ![r] = x]
      BY <2>1
    <3> HIDE DEF x
    <3> QED  BY <1>p, <2>u, <3>1, <3>2, <3>3, RowsTyped
  <2>2. CASE req' = [req EXCEPT ![r] = [Idle EXCEPT !.pc = "fail"]]
    <3> DEFINE x == [Idle EXCEPT !.pc = "fail"]
    <3>1. x \in Request /\ x.pc = "fail"
      BY <1>f DEF Idle
    <3> HIDE DEF x
    <3> QED  BY <1>p, <2>2, <2>u, <3>1, RowsTyped DEF x
  <2> QED  BY <1>3, <2>1, <2>2 DEF loginCode
<1>4. CASE RecordLoginFailure(r)
  <2>1. account' \in Account
    BY <1>t, <1>4, FailureTyped DEF RecordLoginFailure
  <2> QED  BY <1>4, <2>1, <1>t, MovesOnly DEF RecordLoginFailure
<1>5. CASE SetLastLogin(r)
  <2>1. account' \in Account
    BY <1>t, <1>5, AccountTyped DEF SetLastLogin
  <2> QED  BY <1>p, <1>5, <2>1, <1>t, MovesOnly DEF SetLastLogin
<1> QED  BY <1>1, <1>2, <1>3, <1>4, <1>5

LEMMA SessionStepTyped ==
  ASSUME TypeOK, NEW r \in Requests,
         \/ RotateSession(r) \/ withSession(r) \/ requireAuth(r) \/ accountUpdate(r)
         \/ passwordUpdate(r) \/ RevokeUserSessions(r) \/ mfaEnable(r) \/ mfaDisable(r)
  PROVE  TypeOK'
<1>t. /\ account \in Account /\ sessions \in [Sessions -> Session \cup {None}]
      /\ tokens \in [Tokens -> Token \cup {None}] /\ req \in [Requests -> Request]
  BY TypedParts
<1>p. {"user", "change", "others", "enable", "disable", "mail", "rotate", "all"} \subseteq Pcs \ Holding
  BY DEF Pcs, Holding
<1>k. req[r] \in Request /\ req[r].shown \in Shown /\ req[r].shown.password \in Nat
  BY <1>t DEF Request, Shown
<1>a. account.password + 1 \in Nat /\ account.enrolments + 1 \in Nat /\ account.revoked \in Nat
  BY <1>t DEF Account
<1>1. CASE RotateSession(r)
  <2> DEFINE x == [shown |-> req[r].shown, issued |-> account.revoked]
  <2>1. x \in Session
    BY <1>k, <1>a DEF Session
  <2>2. PICK s \in Sessions :
          sessions' = [y \in Sessions |-> CASE y = s -> x [] y = req[r].sess -> None
                                            [] OTHER -> sessions[y]]
    BY <1>1 DEF RotateSession
  <2> HIDE DEF x
  <2>3. sessions' \in [Sessions -> Session \cup {None}]
    BY <1>t, <2>1, <2>2
  <2> QED  BY <1>1, <2>3, <1>t, MovesOnly DEF RotateSession
<1>2. CASE withSession(r)
  <2>1. PICK s \in Live :
          req' = [req EXCEPT ![r] = [pc |-> "user", sess |-> s, shown |-> sessions[s].shown, token |-> None]]
    BY <1>2 DEF withSession
  <2> DEFINE x == [pc |-> "user", sess |-> s, shown |-> sessions[s].shown, token |-> None]
  <2>2. s \in Sessions /\ sessions[s].shown \in Shown
    BY <1>t DEF Live, Session
  <2>3. x \in Request /\ x.pc = "user"
    BY <2>2 DEF Request
  <2>4. account' \in Account /\ sessions' \in [Sessions -> Session \cup {None}] /\ UNCHANGED tokens
    BY <1>2, <1>t DEF withSession
  <2> HIDE DEF x
  <2> QED  BY <1>p, <2>1, <2>3, <2>4, RowsTyped DEF x
<1>3. CASE requireAuth(r)
  <2>1. PICK pc \in {"change", "enable", "disable", "rotate"} : GoTo(r, pc)
    BY <1>3 DEF requireAuth
  <2>2. UNCHANGED <<account, sessions, tokens>>
    BY <1>3 DEF requireAuth
  <2> QED  BY <1>p, <1>t, <2>1, <2>2, MovesOnly
<1>4. CASE accountUpdate(r)
  <2> DEFINE x == [Idle EXCEPT !.pc = "mail"]
  <2>1. x \in Request /\ x.pc = "mail"
    BY IdleTyped DEF Request
  <2>2. req' = [req EXCEPT ![r] = x] /\ account' \in Account /\ sessions' \in [Sessions -> Session \cup {None}] /\ UNCHANGED tokens
    BY <1>4, <1>t DEF accountUpdate
  <2> HIDE DEF x
  <2> QED  BY <1>p, <2>1, <2>2, RowsTyped
<1>5. CASE passwordUpdate(r)
  <2> DEFINE new == account.password + 1
             x == [req[r] EXCEPT !.pc = "others", !.shown.password = new]
  <2>1. x \in Request
    BY <1>p, <1>k, <1>a, ShownStates
  <2>2. x.pc = "others" /\ req' = [req EXCEPT ![r] = x]
    BY <1>5, <1>k DEF passwordUpdate, Request
  <2>3. account' \in Account
    BY <1>5, <1>t, <1>a, AccountTyped DEF passwordUpdate
  <2>4. sessions' \in [Sessions -> Session \cup {None}]
    <3> DEFINE changed(u) == [sessions[u] EXCEPT !.shown.password = new]
    <3>1. \A u \in Sessions : sessions[u] # None => changed(u) \in Session
      BY <1>t, <1>a, SessionStates
    <3>2. sessions' = [u \in Sessions |-> IF u = req[r].sess /\ sessions[u] # None
                                         THEN changed(u) ELSE sessions[u]]
      BY <1>5 DEF passwordUpdate
    <3> HIDE DEF changed
    <3> QED  BY <1>t, <3>1, <3>2
  <2>5. UNCHANGED tokens
    BY <1>5 DEF passwordUpdate
  <2> HIDE DEF x
  <2> QED  BY <1>p, <2>1, <2>2, <2>3, <2>4, <2>5, RowsTyped
<1>6. CASE RevokeUserSessions(r)
  <2>1. account' \in Account
    <3> DEFINE n == IF account.revoked < req[r].shown.password THEN req[r].shown.password
                    ELSE account.revoked
    <3>1. n \in Nat
      BY <1>k, <1>a
    <3>2. account' = [account EXCEPT !.revoked = n] \/ account' = account
      BY <1>6 DEF RevokeUserSessions
    <3> HIDE DEF n
    <3> QED  BY <1>t, <3>1, <3>2, AccountTyped
  <2>2. sessions' \in [Sessions -> Session \cup {None}]
    BY <1>t, <1>6 DEF RevokeUserSessions
  <2> QED  BY <1>p, <1>6, <2>1, <2>2, <1>t, MovesOnly DEF RevokeUserSessions
<1>7. CASE mfaEnable(r)
  <2> DEFINE new == account.enrolments + 1
             x == [req[r] EXCEPT !.pc = "rotate", !.shown.factor = new, !.shown.enrolledThen = new]
  <2>1. x \in Request
    BY <1>p, <1>k, <1>a, ShownStates
  <2>2. x.pc = "rotate" /\ req' = [req EXCEPT ![r] = x]
    BY <1>7, <1>k DEF mfaEnable, Request
  <2>3. account' \in Account
    BY <1>7, <1>t, <1>a, AccountTyped DEF mfaEnable, SetTOTP
  <2>4. sessions' \in [Sessions -> Session \cup {None}] /\ UNCHANGED tokens
    BY <1>7, <1>t DEF mfaEnable
  <2> HIDE DEF x
  <2> QED  BY <1>p, <2>1, <2>2, <2>3, <2>4, RowsTyped
<1>8. CASE mfaDisable(r)
  <2>1. account' \in Account
    BY <1>t, <1>8, AccountTyped DEF mfaDisable, DisableTOTP
  <2> QED  BY <1>p, <1>8, <2>1, <1>t, MovesOnly DEF mfaDisable
<1> QED  BY <1>1, <1>2, <1>3, <1>4, <1>5, <1>6, <1>7, <1>8

LEMMA LinkStepTyped ==
  ASSUME TypeOK, NEW r \in Requests,
         \/ sendVerificationEmail(r) \/ resetPassword(r) \/ UpdatePassword(r)
         \/ verifyEmail(r) \/ SetEmailVerified(r) \/ RequestAborts(r)
  PROVE  TypeOK'
<1>t. /\ account \in Account /\ sessions \in [Sessions -> Session \cup {None}]
      /\ tokens \in [Tokens -> Token \cup {None}] /\ req \in [Requests -> Request]
  BY TypedParts
<1>p. {"reset", "verify", "spend", "rotate"} \subseteq Pcs
  BY DEF Pcs
<1>k. req[r] \in Request
  BY <1>t
<1>1. CASE sendVerificationEmail(r)
  <2>1. /\ tokens' \in [Tokens -> Token \cup {None}]
        /\ \A t \in Tokens : tokens[t] # None => tokens'[t] # None
    BY <1>t, <1>1, MailTyped DEF sendVerificationEmail
  <2>2. "rotate" \notin Holding /\ (GoTo(r, "rotate") \/ Done(r))
    BY <1>1 DEF sendVerificationEmail, Holding
  <2> QED  BY <1>p, <1>1, <2>1, <2>2, <1>t, MovesOnly DEF sendVerificationEmail
<1>2. ASSUME NEW t \in Tokens, tokens[t] # None, NEW pc \in {"reset", "verify"},
             req' = [req EXCEPT ![r] = [Idle EXCEPT !.pc = pc, !.token = t]],
             UNCHANGED <<account, sessions, tokens>>
      PROVE  TypeOK'
  <2> DEFINE x == [Idle EXCEPT !.pc = pc, !.token = t]
  <2>1. x \in Request /\ x.token = t
    BY IdleTyped DEF Request
  <2>2. /\ account' \in Account /\ sessions' \in [Sessions -> Session \cup {None}]
        /\ tokens' \in [Tokens -> Token \cup {None}]
        /\ \A u \in Tokens : tokens[u] # None => tokens'[u] # None
    BY <1>2, <1>t
  <2> HIDE DEF x
  <2> QED  BY <1>2, <2>1, <2>2, TypeKept DEF x
<1>3. CASE resetPassword(r)
  BY <1>2, <1>3 DEF resetPassword, Opens
<1>4. CASE verifyEmail(r)
  BY <1>2, <1>4 DEF verifyEmail, Opens
<1>5. CASE UpdatePassword(r)
  <2> DEFINE new == account.password + 1
             x == [req[r] EXCEPT !.pc = "spend", !.shown.password = new]
  <2>1. new \in Nat /\ req[r].token \in Tokens /\ tokens[req[r].token] # None
    BY <1>t, <1>5, TypedParts DEF Account, UpdatePassword, Holding
  <2>2. x \in Request
    BY <1>p, <1>k, <2>1, ShownStates
  <2>3. x.token = req[r].token /\ req' = [req EXCEPT ![r] = x]
    BY <1>5, <1>k DEF UpdatePassword, Request
  <2>4. account' \in Account
    BY <1>t, <1>5, <2>1, AccountTyped DEF UpdatePassword
  <2>5. /\ tokens' \in [Tokens -> Token \cup {None}]
        /\ \A t \in Tokens : tokens[t] # None => tokens'[t] # None
    BY <1>5, <2>1, CountTyped DEF UpdatePassword
  <2>6. sessions' \in [Sessions -> Session \cup {None}]
    BY <1>5, <1>t DEF UpdatePassword
  <2> HIDE DEF x
  <2> QED  BY <2>1, <2>2, <2>3, <2>4, <2>5, <2>6, TypeKept
<1>6. CASE SetEmailVerified(r)
  <2>1. req[r].token \in Tokens /\ tokens[req[r].token] # None /\ req[r].pc \in Holding
    BY <1>6, TypedParts DEF SetEmailVerified, Holding
  <2>2. /\ tokens' \in [Tokens -> Token \cup {None}]
        /\ \A t \in Tokens : tokens[t] # None => tokens'[t] # None
    BY <1>6, <2>1, CountTyped DEF SetEmailVerified
  <2> QED  BY <1>p, <1>6, <2>1, <2>2, <1>t, MovesOnly DEF SetEmailVerified
<1>7. CASE RequestAborts(r)
  <2>1. \A t \in Tokens : req[r].pc = "spend" /\ req[r].token = t => tokens[t] \in Token
    BY TypedParts DEF Holding
  <2>2. \A t \in Tokens : /\ tokens'[t] = tokens[t] \/ (tokens'[t] \in Token /\ tokens'[t] # None)
                          /\ tokens' = [u \in Tokens |-> tokens'[u]]
    <3>1. ASSUME NEW t \in Tokens
          PROVE  tokens'[t] = tokens[t] \/ (tokens'[t] \in Token /\ tokens'[t] # None)
      <4>1. CASE req[r].pc = "spend" /\ req[r].token = t
        BY <1>7, <2>1, <4>1, TokenStates, NoneAssumption DEF RequestAborts
      <4>2. CASE ~(req[r].pc = "spend" /\ req[r].token = t)
        BY <1>7, <4>2 DEF RequestAborts
      <4> QED  BY <4>1, <4>2
    <3>2. tokens' = [u \in Tokens |-> tokens'[u]]
      BY <1>7 DEF RequestAborts
    <3> QED  BY <3>1, <3>2
  <2>3. tokens' \in [Tokens -> Token \cup {None}]
    <3>1. tokens' = [u \in Tokens |-> tokens'[u]]
      BY <1>7 DEF RequestAborts
    <3>2. \A t \in Tokens : tokens'[t] \in Token \cup {None}
      BY <1>t, <2>2
    <3> QED  BY <3>1, <3>2
  <2>4. \A t \in Tokens : tokens[t] # None => tokens'[t] # None
    BY <2>2
  <2> QED  BY <1>7, <2>3, <2>4, <1>t, MovesOnly DEF RequestAborts
<1> QED  BY <1>1, <1>3, <1>4, <1>5, <1>6, <1>7

LEMMA StepTyped ==
  ASSUME TypeOK, [Next]_vars
  PROVE  TypeOK'
<1>t. /\ account \in Account /\ sessions \in [Sessions -> Session \cup {None}]
      /\ tokens \in [Tokens -> Token \cup {None}] /\ req \in [Requests -> Request]
      /\ \A r \in Requests : req[r].pc \in Holding =>
           req[r].token \in Tokens /\ tokens[req[r].token] # None
  BY TypedParts
\* Steps of no request.
<1>r. ASSUME UNCHANGED req, account' \in Account, sessions' \in [Sessions -> Session \cup {None}],
             tokens' \in [Tokens -> Token \cup {None}],
             \A t \in Tokens : (\E r \in Requests : req[r].token = t) /\ tokens[t] # None =>
                               tokens'[t] # None
      PROVE  TypeOK'
  BY <1>r, <1>t DEF TypeOK, Holding
<1>1. CASE forgotPassword
  <2>1. /\ tokens' \in [Tokens -> Token \cup {None}]
        /\ \A t \in Tokens : tokens[t] # None => tokens'[t] # None
    BY <1>1, MailTyped DEF forgotPassword, sendPasswordReset
  <2> QED  BY <1>1, <1>r, <1>t, <2>1 DEF forgotPassword
<1>2. CASE TokenExpires
  <2>1. PICK t \in Tokens : tokens[t] # None /\ tokens' = [tokens EXCEPT ![t].live = FALSE]
    BY <1>2 DEF TokenExpires
  <2>2. PICK u \in Token : tokens' = [tokens EXCEPT ![t] = u]
    BY <1>t, <2>1, TokenStates
  <2>3. /\ tokens' \in [Tokens -> Token \cup {None}]
        /\ \A v \in Tokens : tokens[v] # None => tokens'[v] # None
    BY <1>t, <2>2, NoneAssumption
  <2> QED  BY <1>2, <1>r, <1>t, <2>3 DEF TokenExpires
<1>3. CASE DeleteExpiredAuthTokens
  <2>1. /\ tokens' \in [Tokens -> Token \cup {None}]
        /\ \A t \in Tokens : (\E r \in Requests : req[r].token = t) => tokens'[t] = tokens[t]
    BY <1>3, <1>t DEF DeleteExpiredAuthTokens
  <2> QED  BY <1>3, <1>r, <1>t, <2>1 DEF DeleteExpiredAuthTokens
<1>4. CASE LockExpires
  <2>1. account' \in Account
    BY <1>4, <1>t, AccountTyped DEF LockExpires
  <2> QED  BY <1>4, <1>r, <1>t, <2>1 DEF LockExpires
<1>5. CASE logout
  <2>1. sessions' \in [Sessions -> Session \cup {None}]
    BY <1>5, <1>t DEF logout, RevokeSession
  <2> QED  BY <1>5, <1>r, <1>t, <2>1 DEF logout
<1>6. CASE UNCHANGED vars
  BY <1>6, <1>r, <1>t DEF vars
<1> QED  BY <1>1, <1>2, <1>3, <1>4, <1>5, <1>6, LoginTyped, SessionStepTyped, LinkStepTyped, SpendTyped
         DEF Next

LEMMA InitTyped == Init => TypeOK
<1> SUFFICES ASSUME Init PROVE TypeOK
  OBVIOUS
<1>1. account \in Account
  BY AttemptsAssumption DEF Init, Account
<1> QED  BY <1>1, IdleTyped DEF Init, TypeOK, Idle

\* Every row and every request has the shape the code gives it, and a request about
\* to use a link holds one that the table still has.
THEOREM TypeCorrect == Spec => []TypeOK
<1> QED  BY InitTyped, StepTyped, PTL DEF Spec

(***************************************************************************)
(* What each step makes of its request.                                    *)
(***************************************************************************)
Became(r, pc, s, x, t) ==
  /\ OthersSame(r)
  /\ req'[r].pc = pc /\ req'[r].sess = s /\ req'[r].shown = x /\ req'[r].token = t

Moved(r, pc) == Became(r, pc, req[r].sess, req[r].shown, req[r].token)
Began(r, pc, t) == Became(r, pc, None, NothingShown, t)

LEMMA MovedBy ==
  ASSUME TypeOK, NEW r \in Requests
  PROVE  (\A pc \in Pcs : GoTo(r, pc) => Moved(r, pc)) /\ (Done(r) => Began(r, "idle", None))
<1>1. \A pc \in Pcs : GoTo(r, pc) => Moved(r, pc)
  BY GoToEffect DEF Moved, Became
<1>2. Done(r) => Began(r, "idle", None)
  BY DoneEffect, IdleTyped DEF Began, Became
<1> QED  BY <1>1, <1>2

LEMMA BegunBy ==
  ASSUME TypeOK, NEW r \in Requests, NEW pc \in Pcs, NEW t
  PROVE  /\ req' = [req EXCEPT ![r] = [Idle EXCEPT !.pc = pc]] => Began(r, pc, None)
         /\ req' = [req EXCEPT ![r] = [Idle EXCEPT !.pc = pc, !.token = t]] => Began(r, pc, t)
<1> DEFINE x == [Idle EXCEPT !.pc = pc]
           y == [Idle EXCEPT !.pc = pc, !.token = t]
<1>1. /\ x.pc = pc /\ x.sess = None /\ x.shown = NothingShown /\ x.token = None
      /\ y.pc = pc /\ y.sess = None /\ y.shown = NothingShown /\ y.token = t
  BY DEF Idle
<1> HIDE DEF x, y
<1>2. req' = [req EXCEPT ![r] = x] => req'[r] = x /\ OthersSame(r)
  BY DEF TypeOK, OthersSame
<1>3. req' = [req EXCEPT ![r] = y] => req'[r] = y /\ OthersSame(r)
  BY DEF TypeOK, OthersSame
<1>4. (req' = [req EXCEPT ![r] = x] => Began(r, pc, None)) /\ (req' = [req EXCEPT ![r] = y] => Began(r, pc, t))
  BY <1>1, <1>2, <1>3 DEF Began, Became
<1> QED  BY <1>4 DEF x, y

\* Requests that come to know something.
LEMMA LearnedBy ==
  ASSUME TypeOK, NEW r \in Requests, NEW pc \in Pcs, NEW n, NEW m
  PROVE  /\ req' = [req EXCEPT ![r].pc = pc, ![r].shown.password = n] =>
              Became(r, pc, req[r].sess, [req[r].shown EXCEPT !.password = n], req[r].token)
         /\ req' = [req EXCEPT ![r].pc = pc, ![r].shown.factor = n] =>
              Became(r, pc, req[r].sess, [req[r].shown EXCEPT !.factor = n], req[r].token)
         /\ req' = [req EXCEPT ![r].pc = pc, ![r].shown.factor = n, ![r].shown.enrolledThen = m] =>
              Became(r, pc, req[r].sess,
                     [req[r].shown EXCEPT !.factor = n, !.enrolledThen = m], req[r].token)
<1> DEFINE known(x) == [req[r] EXCEPT !.pc = pc, !.shown = x]
<1>1. ASSUME NEW x, req' = [req EXCEPT ![r] = known(x)]
      PROVE  Became(r, pc, req[r].sess, x, req[r].token)
  <2>1. req[r] \in Request
    BY DEF TypeOK
  <2>2. /\ known(x).pc = pc /\ known(x).sess = req[r].sess
        /\ known(x).shown = x /\ known(x).token = req[r].token
    BY <2>1 DEF Request
  <2> HIDE DEF known
  <2>3. req'[r] = known(x) /\ OthersSame(r)
    BY <1>1 DEF TypeOK, OthersSame
  <2> QED  BY <2>2, <2>3 DEF Became
<1> DEFINE p == [req[r] EXCEPT !.pc = pc, !.shown.password = n]
           f == [req[r] EXCEPT !.pc = pc, !.shown.factor = n]
           e == [req[r] EXCEPT !.pc = pc, !.shown.factor = n, !.shown.enrolledThen = m]
<1>t. req[r] \in Request /\ req \in [Requests -> Request]
  BY DEF TypeOK
<1>2. p = known([req[r].shown EXCEPT !.password = n])
  BY <1>t DEF Request
<1>3. f = known([req[r].shown EXCEPT !.factor = n])
  BY <1>t DEF Request
<1>4. e = known([req[r].shown EXCEPT !.factor = n, !.enrolledThen = m])
  BY <1>t DEF Request
<1>5. /\ req' = [req EXCEPT ![r].pc = pc, ![r].shown.password = n] => req' = [req EXCEPT ![r] = p]
      /\ req' = [req EXCEPT ![r].pc = pc, ![r].shown.factor = n] => req' = [req EXCEPT ![r] = f]
      /\ req' = [req EXCEPT ![r].pc = pc, ![r].shown.factor = n, ![r].shown.enrolledThen = m] =>
           req' = [req EXCEPT ![r] = e]
  BY <1>t DEF Request
<1> HIDE DEF known, p, f, e
<1> QED  BY <1>1, <1>2, <1>3, <1>4, <1>5

\* What login reads.
ReadByLogin == [password |-> account.password, factor |-> 0,
                revokedThen |-> account.revoked, enrolledThen |-> account.enrolments]

LEMMA LoginEffects ==
  ASSUME TypeOK, NEW r \in Requests
  PROVE  /\ register(r) =>
              Became(r, "welcome", None, [NothingShown EXCEPT !.password = 1], None)
         /\ login(r) =>
              \/ Began(r, "fail", None)
              \/ \E s \in Live \cup {None}, pc \in {"code", "admit"} :
                   /\ Became(r, pc, s, ReadByLogin, None)
                   /\ account.totp # 0 => pc = "code"
         /\ loginCode(r) =>
              \/ Became(r, "admit", req[r].sess, [req[r].shown EXCEPT !.factor = account.totp],
                        req[r].token)
              \/ Began(r, "fail", None)
         /\ RecordLoginFailure(r) => Began(r, "idle", None)
         /\ SetLastLogin(r) => Moved(r, "rotate")
<1>p. {"welcome", "fail", "code", "admit", "rotate"} \subseteq Pcs
  BY DEF Pcs
<1>1. ASSUME register(r)
      PROVE  Became(r, "welcome", None, [NothingShown EXCEPT !.password = 1], None)
  <2> DEFINE x == [Idle EXCEPT !.pc = "welcome", !.shown.password = 1]
  <2>1. /\ x.pc = "welcome" /\ x.sess = None /\ x.token = None
        /\ x.shown = [NothingShown EXCEPT !.password = 1]
    BY DEF Idle
  <2>2. req' = [req EXCEPT ![r] = x]
    BY <1>1 DEF register
  <2> HIDE DEF x
  <2>3. req'[r] = x /\ OthersSame(r)
    BY <2>2 DEF TypeOK, OthersSame
  <2> QED  BY <2>1, <2>3 DEF Became
<1>2. ASSUME login(r)
      PROVE  \/ Began(r, "fail", None)
             \/ \E s \in Live \cup {None}, pc \in {"code", "admit"} :
                  Became(r, pc, s, ReadByLogin, None) /\ (account.totp # 0 => pc = "code")
  <2>1. CASE req' = [req EXCEPT ![r] = [Idle EXCEPT !.pc = "fail"]]
    BY <1>p, <2>1, BegunBy
  <2>2. ASSUME NEW s \in Live \cup {None}, NEW pc, pc = IF NeedsCode(s) THEN "code" ELSE "admit",
               req' = [req EXCEPT ![r] = [pc |-> pc, sess |-> s, token |-> None, shown |-> ReadByLogin]]
        PROVE  /\ Became(r, pc, s, ReadByLogin, None) /\ pc \in {"code", "admit"}
               /\ account.totp # 0 => pc = "code"
    <3>1. req'[r] = [pc |-> pc, sess |-> s, token |-> None, shown |-> ReadByLogin] /\ OthersSame(r)
      BY <2>2 DEF TypeOK, OthersSame
    <3>2. pc \in {"code", "admit"} /\ (account.totp # 0 => pc = "code")
      BY <2>2 DEF NeedsCode
    <3> QED  BY <3>1, <3>2 DEF Became
  <2>3. \/ req' = [req EXCEPT ![r] = [Idle EXCEPT !.pc = "fail"]]
        \/ \E s \in Live \cup {None} :
             req' = [req EXCEPT ![r] = [pc |-> IF NeedsCode(s) THEN "code" ELSE "admit", sess |-> s,
                                        token |-> None, shown |-> ReadByLogin]]
    BY <1>2 DEF login, ReadByLogin
  <2> QED  BY <2>1, <2>2, <2>3
<1>3. ASSUME loginCode(r)
      PROVE  \/ Became(r, "admit", req[r].sess, [req[r].shown EXCEPT !.factor = account.totp],
                       req[r].token)
             \/ Began(r, "fail", None)
  BY <1>p, <1>3, LearnedBy, BegunBy DEF loginCode
<1>4. RecordLoginFailure(r) => Began(r, "idle", None)
  BY MovedBy DEF RecordLoginFailure
<1>5. SetLastLogin(r) => Moved(r, "rotate")
  BY <1>p, MovedBy DEF SetLastLogin
<1> QED  BY <1>1, <1>2, <1>3, <1>4, <1>5

LEMMA SessionEffects ==
  ASSUME TypeOK, NEW r \in Requests
  PROVE  /\ RotateSession(r) => Began(r, "idle", None)
         /\ withSession(r) => \E s \in Live : Became(r, "user", s, sessions[s].shown, None)
         /\ requireAuth(r) => \E pc \in {"change", "enable", "disable", "rotate"} : Moved(r, pc)
         /\ accountUpdate(r) => Began(r, "mail", None)
         /\ passwordUpdate(r) =>
              Became(r, "others", req[r].sess,
                     [req[r].shown EXCEPT !.password = account.password + 1], req[r].token)
         /\ RevokeUserSessions(r) =>
              IF req[r].pc = "others" THEN Moved(r, "rotate") ELSE Began(r, "idle", None)
         /\ mfaEnable(r) =>
              Became(r, "rotate", req[r].sess,
                     [req[r].shown EXCEPT !.factor = account.enrolments + 1,
                                          !.enrolledThen = account.enrolments + 1], req[r].token)
         /\ mfaDisable(r) => Moved(r, "rotate")
<1>p. {"user", "change", "others", "enable", "disable", "mail", "rotate"} \subseteq Pcs
  BY DEF Pcs
<1>1. RotateSession(r) => Began(r, "idle", None)
  BY MovedBy DEF RotateSession
<1>2. ASSUME withSession(r)
      PROVE  \E s \in Live : Became(r, "user", s, sessions[s].shown, None)
  <2>1. PICK s \in Live :
          req' = [req EXCEPT ![r] = [pc |-> "user", sess |-> s, shown |-> sessions[s].shown, token |-> None]]
    BY <1>2 DEF withSession
  <2>2. /\ req'[r] = [pc |-> "user", sess |-> s, shown |-> sessions[s].shown, token |-> None]
        /\ OthersSame(r)
    BY <2>1 DEF TypeOK, OthersSame
  <2> QED  BY <2>2 DEF Became
<1>3. ASSUME requireAuth(r)
      PROVE  \E pc \in {"change", "enable", "disable", "rotate"} : Moved(r, pc)
  <2>1. PICK pc \in {"change", "enable", "disable", "rotate"} : GoTo(r, pc)
    BY <1>3 DEF requireAuth
  <2> QED  BY <1>p, <2>1, MovedBy
<1>4. accountUpdate(r) => Began(r, "mail", None)
  BY <1>p, BegunBy DEF accountUpdate
<1>5. passwordUpdate(r) =>
        Became(r, "others", req[r].sess,
               [req[r].shown EXCEPT !.password = account.password + 1], req[r].token)
  BY <1>p, LearnedBy DEF passwordUpdate
<1>6. RevokeUserSessions(r) =>
        IF req[r].pc = "others" THEN Moved(r, "rotate") ELSE Began(r, "idle", None)
  BY <1>p, MovedBy DEF RevokeUserSessions
<1>7. mfaEnable(r) =>
        Became(r, "rotate", req[r].sess,
               [req[r].shown EXCEPT !.factor = account.enrolments + 1,
                                    !.enrolledThen = account.enrolments + 1], req[r].token)
  BY <1>p, LearnedBy DEF mfaEnable
<1>8. mfaDisable(r) => Moved(r, "rotate")
  BY <1>p, MovedBy DEF mfaDisable
<1> QED  BY <1>1, <1>2, <1>3, <1>4, <1>5, <1>6, <1>7, <1>8

LEMMA LinkEffects ==
  ASSUME TypeOK, NEW r \in Requests
  PROVE  /\ sendVerificationEmail(r) =>
              IF req[r].pc = "welcome" THEN Moved(r, "rotate") ELSE Began(r, "idle", None)
         /\ resetPassword(r) =>
              \E t \in Tokens : Opens(t, "password_reset") /\ Began(r, "reset", t)
         /\ verifyEmail(r) =>
              \E t \in Tokens : Opens(t, "email_verification") /\ Began(r, "verify", t)
         /\ UpdatePassword(r) =>
              Became(r, "spend", req[r].sess,
                     [req[r].shown EXCEPT !.password = account.password + 1], req[r].token)
         /\ SetEmailVerified(r) => Moved(r, "spend")
         /\ UseAuthToken(r) => Moved(r, "all") \/ Began(r, "idle", None)
         /\ RequestAborts(r) => Began(r, "idle", None)
<1>p. {"reset", "verify", "spend", "rotate", "all"} \subseteq Pcs
  BY DEF Pcs
<1>1. sendVerificationEmail(r) =>
        IF req[r].pc = "welcome" THEN Moved(r, "rotate") ELSE Began(r, "idle", None)
  BY <1>p, MovedBy DEF sendVerificationEmail
<1>2. resetPassword(r) => \E t \in Tokens : Opens(t, "password_reset") /\ Began(r, "reset", t)
  BY <1>p, BegunBy DEF resetPassword
<1>3. verifyEmail(r) => \E t \in Tokens : Opens(t, "email_verification") /\ Began(r, "verify", t)
  BY <1>p, BegunBy DEF verifyEmail
<1>4. UpdatePassword(r) =>
        Became(r, "spend", req[r].sess,
               [req[r].shown EXCEPT !.password = account.password + 1], req[r].token)
  BY <1>p, LearnedBy DEF UpdatePassword
<1>5. SetEmailVerified(r) => Moved(r, "spend")
  BY <1>p, MovedBy DEF SetEmailVerified
<1>6. UseAuthToken(r) => Moved(r, "all") \/ Began(r, "idle", None)
  BY <1>p, MovedBy DEF UseAuthToken
<1>7. RequestAborts(r) => Began(r, "idle", None)
  BY MovedBy DEF RequestAborts
<1> QED  BY <1>1, <1>2, <1>3, <1>4, <1>5, <1>6, <1>7

(***************************************************************************)
(* What sessions and requests have shown.                                  *)
(***************************************************************************)
\* Nobody has shown a password or an enrolment the account has not had.
Within(a, x) ==
  x.revokedThen <= x.password /\ x.password <= a.password /\ x.enrolledThen <= a.enrolments

Proven(a, x) == a.totp # 0 /\ x.enrolledThen = a.enrolments => x.factor = a.totp

AccountOrder == account.revoked <= account.password /\ account.totp \in {0, account.enrolments}

\* Only the login that is still asked for its code has read an enrolment in force
\* without having shown its secret.
KnowInv ==
  /\ AccountOrder
  /\ \A s \in Live : Within(account, sessions[s].shown) /\ Proven(account, sessions[s].shown)
  /\ \A r \in Requests : /\ Within(account, req[r].shown)
                         /\ req[r].pc # "code" => Proven(account, req[r].shown)

\* The account only gains passwords and enrolments, and keeps its secret, loses it or
\* has a new one.
Grown ==
  /\ account.password <= account'.password /\ account.enrolments <= account'.enrolments
  /\ AccountOrder'
  /\ \/ account'.totp = account.totp /\ account'.enrolments = account.enrolments
     \/ account'.totp = 0
     \/ account.enrolments < account'.enrolments

Same(x, y) == x # None /\ y # None /\ y.shown = x.shown
Knows(x) == Within(account', x) /\ Proven(account', x)

SessionsKnow ==
  \A s \in Sessions :
    sessions'[s] # None => Same(sessions[s], sessions'[s]) \/ Knows(sessions'[s].shown)

LEMMA StillKnown ==
  ASSUME account \in Account, account' \in Account, Grown, NEW x \in Shown, Within(account, x)
  PROVE  Within(account', x) /\ (Proven(account, x) => Proven(account', x))
<1>1. Within(account', x)
  BY DEF Account, Shown, Grown, Within
<1>2. Proven(account, x) => Proven(account', x)
  BY DEF Account, Shown, Grown, Within, Proven
<1> QED  BY <1>1, <1>2

LEMMA NothingKnown ==
  ASSUME account' \in Account, AccountOrder'
  PROVE  Knows(NothingShown)
BY DEF Account, AccountOrder, Knows, Within, Proven, NothingShown

\* One request comes to know something, or nothing new, and every other keeps what
\* it knows.
LEMMA KnowKept ==
  ASSUME TypeOK, TypeOK', KnowInv, Grown, SessionsKnow, NEW r \in Requests, OthersSame(r),
         \/ /\ req'[r].shown = req[r].shown
            /\ req[r].pc = "code" => req'[r].pc = "code"
         \/ /\ Within(account', req'[r].shown)
            /\ req'[r].pc # "code" => Proven(account', req'[r].shown)
  PROVE  KnowInv'
<1>t. /\ account \in Account /\ account' \in Account
      /\ \A q \in Requests : req[q].shown \in Shown
      /\ \A s \in Live : sessions[s].shown \in Shown
  BY DEF TypeOK, Request, Session, Live
<1>1. AccountOrder'
  BY DEF Grown
<1>2. ASSUME NEW s \in Live'
      PROVE  Knows(sessions'[s].shown)
  <2>1. s \in Sessions /\ sessions'[s] # None
    BY DEF Live
  <2>2. CASE Same(sessions[s], sessions'[s])
    <3>1. /\ s \in Live /\ sessions'[s].shown = sessions[s].shown
          /\ Within(account, sessions[s].shown) /\ Proven(account, sessions[s].shown)
      BY <2>1, <2>2 DEF Same, Live, KnowInv
    <3> QED  BY <1>t, <3>1, StillKnown DEF Knows
  <2> QED  BY <2>1, <2>2 DEF SessionsKnow
<1>3. ASSUME NEW q \in Requests
      PROVE  /\ Within(account', req'[q].shown)
             /\ req'[q].pc # "code" => Proven(account', req'[q].shown)
  <2>1. CASE req'[q].shown = req[q].shown /\ (req[q].pc = "code" => req'[q].pc = "code")
    <3>1. Within(account, req[q].shown) /\ (req[q].pc # "code" => Proven(account, req[q].shown))
      BY DEF KnowInv
    <3> QED  BY <1>t, <2>1, <3>1, StillKnown
  <2>2. CASE q # r
    BY <2>1, <2>2 DEF OthersSame
  <2> QED  BY <2>1, <2>2
<1>4. KnowInv' = /\ AccountOrder'
                 /\ \A s \in Live' : Within(account', sessions'[s].shown) /\ Proven(account', sessions'[s].shown)
                 /\ \A q \in Requests :
                      /\ Within(account', req'[q].shown)
                      /\ req'[q].pc # "code" => Proven(account', req'[q].shown)
  BY DEF KnowInv, Within, Proven
<1> QED  BY <1>1, <1>2, <1>3, <1>4 DEF Knows

LEMMA AccountKept ==
  ASSUME TypeOK, AccountOrder, UNCHANGED account
  PROVE  Grown
<1>1. account \in Account
  BY DEF TypeOK
<1>2. account.password \in Nat /\ account.enrolments \in Nat
  BY <1>1 DEF Account
<1> QED  BY <1>2 DEF Grown, AccountOrder

LEMMA SessionsKept ==
  ASSUME \A s \in Sessions : sessions'[s] \in {sessions[s], None}
  PROVE  SessionsKnow
BY DEF SessionsKnow, Same

\* Requests that move on, begin or end, having shown nothing more.
LEMMA MoveKnows ==
  ASSUME TypeOK, TypeOK', KnowInv, Grown, SessionsKnow, NEW r \in Requests, NEW pc, NEW t,
         (Moved(r, pc) /\ req[r].pc # "code") \/ Began(r, pc, t)
  PROVE  KnowInv'
<1>1. OthersSame(r)
  BY DEF Moved, Began, Became
<1>2. CASE Moved(r, pc) /\ req[r].pc # "code"
  BY <1>1, <1>2, KnowKept DEF Moved, Became
<1>3. CASE Began(r, pc, t)
  <2>1. Knows(NothingShown)
    BY NothingKnown DEF Grown, TypeOK
  <2> QED  BY <1>1, <1>3, <2>1, KnowKept DEF Began, Became, Knows
<1> QED  BY <1>2, <1>3

LEMMA LoginKnows ==
  ASSUME TypeOK, TypeOK', KnowInv, NEW r \in Requests,
         register(r) \/ login(r) \/ loginCode(r) \/ RecordLoginFailure(r) \/ SetLastLogin(r)
  PROVE  KnowInv'
<1>t. account \in Account /\ account' \in Account /\ AccountOrder
  BY DEF TypeOK, KnowInv
<1>s. SessionsKnow
  BY SessionsKept DEF register, login, loginCode, RecordLoginFailure, SetLastLogin
<1>k. req[r].shown \in Shown /\ Within(account, req[r].shown)
  BY DEF TypeOK, Request, KnowInv
<1>1. CASE register(r)
  <2>1. account' = [account EXCEPT !.password = 1] /\ account.password = 0
    BY <1>1, <1>t DEF register, CreateUser, Registered, Account
  <2>2. Grown
    BY <1>t, <2>1 DEF Grown, AccountOrder, Account
  <2> DEFINE x == [NothingShown EXCEPT !.password = 1]
  <2>3. Became(r, "welcome", None, x, None)
    BY <1>1, LoginEffects
  <2>4. x.password = 1 /\ x.revokedThen = 0 /\ x.enrolledThen = 0
    BY DEF NothingShown
  <2> HIDE DEF x
  <2>5. Within(account', x) /\ Proven(account', x)
    BY <1>t, <2>1, <2>2, <2>4 DEF Within, Proven, Account, Grown, AccountOrder
  <2> QED  BY <1>s, <2>2, <2>3, <2>5, KnowKept DEF Became
<1>2. CASE login(r)
  <2>1. Grown /\ account' = account
    BY <1>2, <1>t, AccountKept DEF login
  <2>2. ASSUME NEW s \in Live \cup {None}, NEW pc \in {"code", "admit"},
               Became(r, pc, s, ReadByLogin, None), account.totp # 0 => pc = "code"
        PROVE  KnowInv'
    <3>1. /\ ReadByLogin.password = account.password /\ ReadByLogin.revokedThen = account.revoked
          /\ ReadByLogin.enrolledThen = account.enrolments
      BY DEF ReadByLogin
    <3>2. Within(account', ReadByLogin) /\ (pc # "code" => Proven(account', ReadByLogin))
      BY <1>t, <2>1, <2>2, <3>1 DEF Within, Proven, Account, AccountOrder
    <3> QED  BY <1>s, <2>1, <2>2, <3>2, KnowKept DEF Became
  <2> QED  BY <1>2, <1>s, <2>1, <2>2, LoginEffects, MoveKnows
<1>3. CASE loginCode(r)
  <2>1. Grown /\ account' = account
    BY <1>3, <1>t, AccountKept DEF loginCode
  <2> DEFINE x == [req[r].shown EXCEPT !.factor = account.totp]
  <2>2. x.password = req[r].shown.password /\ x.revokedThen = req[r].shown.revokedThen
        /\ x.enrolledThen = req[r].shown.enrolledThen /\ x.factor = account.totp
    BY <1>k DEF Shown
  <2> HIDE DEF x
  <2>3. CASE Became(r, "admit", req[r].sess, x, req[r].token)
    <3>1. Within(account', x) /\ Proven(account', x)
      BY <1>k, <2>1, <2>2 DEF Within, Proven
    <3> QED  BY <1>s, <2>1, <2>3, <3>1, KnowKept DEF Became
  <2> QED  BY <1>3, <1>s, <2>1, <2>3, LoginEffects, MoveKnows DEF x
<1>4. CASE RecordLoginFailure(r)
  <2>1. /\ account'.password = account.password /\ account'.enrolments = account.enrolments
        /\ account'.totp = account.totp /\ account'.revoked = account.revoked
    BY <1>4, <1>t DEF RecordLoginFailure, Account
  <2>2. Grown
    BY <1>t, <2>1 DEF Grown, AccountOrder, Account
  <2> QED  BY <1>4, <1>s, <2>2, LoginEffects, MoveKnows
<1>5. CASE SetLastLogin(r)
  <2>1. /\ account'.password = account.password /\ account'.enrolments = account.enrolments
        /\ account'.totp = account.totp /\ account'.revoked = account.revoked
        /\ req[r].pc = "admit"
    BY <1>5, <1>t DEF SetLastLogin, Account
  <2>2. Grown
    BY <1>t, <2>1 DEF Grown, AccountOrder, Account
  <2> QED  BY <1>5, <1>s, <2>1, <2>2, LoginEffects, MoveKnows
<1> QED  BY <1>1, <1>2, <1>3, <1>4, <1>5

LEMMA SessionKnows ==
  ASSUME TypeOK, TypeOK', KnowInv, NEW r \in Requests,
         \/ RotateSession(r) \/ withSession(r) \/ requireAuth(r) \/ accountUpdate(r)
         \/ passwordUpdate(r) \/ RevokeUserSessions(r) \/ mfaEnable(r) \/ mfaDisable(r)
  PROVE  KnowInv'
<1>t. /\ account \in Account /\ account' \in Account /\ AccountOrder
      /\ sessions \in [Sessions -> Session \cup {None}]
  BY DEF TypeOK, KnowInv
<1>k. req[r].shown \in Shown /\ Within(account, req[r].shown)
  BY DEF TypeOK, Request, KnowInv
<1>1. CASE RotateSession(r)
  <2>1. Grown /\ account' = account /\ req[r].pc = "rotate"
    BY <1>1, <1>t, AccountKept DEF RotateSession
  <2>2. Knows(req[r].shown)
    BY <1>t, <2>1 DEF KnowInv, Knows
  <2>3. PICK s \in Sessions :
          sessions' = [x \in Sessions |->
            CASE x = s -> [shown |-> req[r].shown, issued |-> account.revoked]
              [] x = req[r].sess -> None
              [] OTHER -> sessions[x]]
    BY <1>1 DEF RotateSession
  <2>4. SessionsKnow
    <3> SUFFICES ASSUME NEW x \in Sessions, sessions'[x] # None
                 PROVE  Same(sessions[x], sessions'[x]) \/ Knows(sessions'[x].shown)
      BY DEF SessionsKnow
    <3>1. CASE x = s
      <4>1. sessions'[x] = [shown |-> req[r].shown, issued |-> account.revoked]
        BY <2>3, <3>1
      <4> QED  BY <2>2, <4>1
    <3>2. CASE x # s
      <4>1. sessions'[x] = sessions[x]
        BY <2>3, <3>2
      <4> QED  BY <4>1 DEF Same
    <3> QED  BY <3>1, <3>2
  <2> QED  BY <1>1, <2>1, <2>4, SessionEffects, MoveKnows
<1>2. CASE withSession(r)
  <2>1. Grown /\ account' = account
    BY <1>2, <1>t, AccountKept DEF withSession
  <2>2. SessionsKnow
    BY <1>2, SessionsKept DEF withSession
  <2>3. PICK s \in Live : Became(r, "user", s, sessions[s].shown, None)
    BY <1>2, SessionEffects
  <2>4. Within(account', sessions[s].shown) /\ Proven(account', sessions[s].shown)
    BY <2>1 DEF KnowInv
  <2> QED  BY <2>1, <2>2, <2>3, <2>4, KnowKept DEF Became
<1>3. CASE requireAuth(r)
  <2>1. Grown /\ req[r].pc # "code"
    BY <1>3, <1>t, AccountKept DEF requireAuth
  <2>2. SessionsKnow
    BY <1>3, SessionsKept DEF requireAuth
  <2> QED  BY <1>3, <2>1, <2>2, SessionEffects, MoveKnows
<1>4. CASE accountUpdate(r)
  <2>1. Grown
    BY <1>4, <1>t, AccountKept DEF accountUpdate
  <2>2. SessionsKnow
    BY <1>4, SessionsKept DEF accountUpdate
  <2> QED  BY <1>4, <2>1, <2>2, SessionEffects, MoveKnows
<1>5. CASE passwordUpdate(r)
  <2> DEFINE new == account.password + 1
             x == [req[r].shown EXCEPT !.password = new]
             changed(u) == [sessions[u] EXCEPT !.shown.password = new]
  <2>1. /\ account' = [account EXCEPT !.password = new] /\ req[r].pc = "change"
        /\ sessions' = [u \in Sessions |-> IF u = req[r].sess /\ sessions[u] # None
                                           THEN changed(u) ELSE sessions[u]]
    BY <1>5 DEF passwordUpdate
  <2>2. Grown /\ account'.password = new /\ account'.totp = account.totp
        /\ account'.enrolments = account.enrolments
    BY <1>t, <2>1 DEF Grown, AccountOrder, Account
  <2>3. ASSUME NEW y \in Shown, Within(account, y), Proven(account, y)
        PROVE  Knows([y EXCEPT !.password = new])
    <3> DEFINE z == [y EXCEPT !.password = new]
    <3>1. /\ z.password = new /\ z.revokedThen = y.revokedThen /\ z.factor = y.factor
          /\ z.enrolledThen = y.enrolledThen
      BY DEF Shown
    <3> HIDE DEF z
    <3>2. Within(account', z)
      BY <1>t, <2>2, <2>3, <3>1 DEF Within, Account, Shown
    <3>3. Proven(account', z)
      BY <2>2, <2>3, <3>1 DEF Proven
    <3> QED  BY <3>2, <3>3 DEF Knows, z
  <2>4. SessionsKnow
    <3> SUFFICES ASSUME NEW u \in Sessions, sessions'[u] # None
                 PROVE  Same(sessions[u], sessions'[u]) \/ Knows(sessions'[u].shown)
      BY DEF SessionsKnow
    <3>1. CASE u = req[r].sess /\ sessions[u] # None
      <4>1. /\ u \in Live /\ sessions[u] \in Session /\ sessions[u].shown \in Shown
            /\ sessions'[u] = changed(u)
        BY <1>t, <2>1, <3>1 DEF Live, Session
      <4>2. changed(u).shown = [sessions[u].shown EXCEPT !.password = new]
        BY <4>1 DEF Session
      <4>3. Within(account, sessions[u].shown) /\ Proven(account, sessions[u].shown)
        BY <4>1 DEF KnowInv
      <4> HIDE DEF changed
      <4> QED  BY <2>3, <4>1, <4>2, <4>3
    <3>2. CASE ~(u = req[r].sess /\ sessions[u] # None)
      <4>1. sessions'[u] = sessions[u]
        BY <2>1, <3>2
      <4> QED  BY <4>1 DEF Same
    <3> QED  BY <3>1, <3>2
  <2>5. Became(r, "others", req[r].sess, x, req[r].token)
    BY <1>5, SessionEffects
  <2>6. Knows(x)
    <3>1. Proven(account, req[r].shown)
      BY <2>1 DEF KnowInv
    <3> QED  BY <1>k, <2>3, <3>1
  <2> HIDE DEF x
  <2> QED  BY <2>2, <2>4, <2>5, <2>6, KnowKept DEF Became, Knows
<1>6. CASE RevokeUserSessions(r)
  <2>1. /\ account'.password = account.password /\ account'.enrolments = account.enrolments
        /\ account'.totp = account.totp /\ req[r].pc # "code"
        /\ account'.revoked \in {account.revoked, req[r].shown.password}
    BY <1>6, <1>t DEF RevokeUserSessions, Account
  <2>2. Grown
    BY <1>t, <1>k, <2>1 DEF Grown, AccountOrder, Account, Within, Shown
  <2>3. SessionsKnow
    <3>1. \A s \in Sessions : sessions'[s] \in {sessions[s], None}
      BY <1>6 DEF RevokeUserSessions
    <3> QED  BY <3>1, SessionsKept
  <2> QED  BY <1>6, <2>1, <2>2, <2>3, SessionEffects, MoveKnows
<1>7. CASE mfaEnable(r)
  <2> DEFINE new == account.enrolments + 1
             x == [req[r].shown EXCEPT !.factor = new, !.enrolledThen = new]
  <2>1. /\ account'.password = account.password /\ account'.revoked = account.revoked
        /\ account'.totp = new /\ account'.enrolments = new
    BY <1>7, <1>t DEF mfaEnable, SetTOTP, Account
  <2>2. Grown
    BY <1>t, <2>1 DEF Grown, AccountOrder, Account
  <2>3. SessionsKnow
    BY <1>7, SessionsKept DEF mfaEnable
  <2>4. Became(r, "rotate", req[r].sess, x, req[r].token)
    BY <1>7, SessionEffects
  <2>5. /\ x.password = req[r].shown.password /\ x.revokedThen = req[r].shown.revokedThen
        /\ x.factor = new /\ x.enrolledThen = new
    BY <1>k DEF Shown
  <2> HIDE DEF x
  <2>6. Within(account', x) /\ Proven(account', x)
    BY <1>t, <1>k, <2>1, <2>5 DEF Within, Proven, Account
  <2> QED  BY <2>2, <2>3, <2>4, <2>6, KnowKept DEF Became
<1>8. CASE mfaDisable(r)
  <2>1. /\ account'.password = account.password /\ account'.revoked = account.revoked
        /\ account'.totp = 0 /\ account'.enrolments = account.enrolments /\ req[r].pc # "code"
    BY <1>8, <1>t DEF mfaDisable, DisableTOTP, Account
  <2>2. Grown
    BY <1>t, <2>1 DEF Grown, AccountOrder, Account
  <2>3. SessionsKnow
    BY <1>8, SessionsKept DEF mfaDisable
  <2> QED  BY <1>8, <2>1, <2>2, <2>3, SessionEffects, MoveKnows
<1> QED  BY <1>1, <1>2, <1>3, <1>4, <1>5, <1>6, <1>7, <1>8

LEMMA LinkKnows ==
  ASSUME TypeOK, TypeOK', KnowInv, NEW r \in Requests,
         \/ sendVerificationEmail(r) \/ resetPassword(r) \/ UpdatePassword(r)
         \/ verifyEmail(r) \/ SetEmailVerified(r) \/ UseAuthToken(r) \/ RequestAborts(r)
  PROVE  KnowInv'
<1>t. account \in Account /\ account' \in Account /\ AccountOrder
  BY DEF TypeOK, KnowInv
<1>k. req[r].shown \in Shown /\ Within(account, req[r].shown)
  BY DEF TypeOK, Request, KnowInv
<1>s. SessionsKnow
  BY SessionsKept DEF sendVerificationEmail, resetPassword, UpdatePassword, verifyEmail,
     SetEmailVerified, UseAuthToken, RequestAborts
<1>1. CASE UpdatePassword(r)
  <2> DEFINE new == account.password + 1
             x == [req[r].shown EXCEPT !.password = new]
  <2>1. /\ account'.password = new /\ account'.revoked = account.revoked
        /\ account'.totp = account.totp /\ account'.enrolments = account.enrolments
        /\ req[r].pc = "reset"
    BY <1>1, <1>t DEF UpdatePassword, Account
  <2>2. Grown
    BY <1>t, <2>1 DEF Grown, AccountOrder, Account
  <2>3. Became(r, "spend", req[r].sess, x, req[r].token)
    BY <1>1, LinkEffects
  <2>4. /\ x.password = new /\ x.revokedThen = req[r].shown.revokedThen
        /\ x.factor = req[r].shown.factor /\ x.enrolledThen = req[r].shown.enrolledThen
    BY <1>k DEF Shown
  <2> HIDE DEF x
  <2>5. Within(account', x)
    BY <1>t, <1>k, <2>1, <2>4 DEF Within, Account, Shown
  <2>6. Proven(account', x)
    <3>1. Proven(account, req[r].shown)
      BY <2>1 DEF KnowInv
    <3> QED  BY <2>1, <2>4, <3>1 DEF Proven
  <2> QED  BY <1>s, <2>2, <2>3, <2>5, <2>6, KnowKept DEF Became
<1>2. CASE sendVerificationEmail(r)
  <2>1. Grown /\ req[r].pc # "code"
    BY <1>2, <1>t, AccountKept DEF sendVerificationEmail
  <2> QED  BY <1>2, <1>s, <2>1, LinkEffects, MoveKnows
<1>3. CASE resetPassword(r)
  <2>1. Grown
    BY <1>3, <1>t, AccountKept DEF resetPassword
  <2> QED  BY <1>3, <1>s, <2>1, LinkEffects, MoveKnows
<1>4. CASE verifyEmail(r)
  <2>1. Grown
    BY <1>4, <1>t, AccountKept DEF verifyEmail
  <2> QED  BY <1>4, <1>s, <2>1, LinkEffects, MoveKnows
<1>5. CASE SetEmailVerified(r)
  <2>1. Grown /\ req[r].pc # "code"
    BY <1>5, <1>t, AccountKept DEF SetEmailVerified
  <2> QED  BY <1>5, <1>s, <2>1, LinkEffects, MoveKnows
<1>6. CASE UseAuthToken(r)
  <2>1. Grown /\ req[r].pc # "code"
    BY <1>6, <1>t, AccountKept DEF UseAuthToken
  <2> QED  BY <1>6, <1>s, <2>1, LinkEffects, MoveKnows
<1>7. CASE RequestAborts(r)
  <2>1. Grown
    BY <1>7, <1>t, AccountKept DEF RequestAborts
  <2> QED  BY <1>7, <1>s, <2>1, LinkEffects, MoveKnows
<1> QED  BY <1>1, <1>2, <1>3, <1>4, <1>5, <1>6, <1>7

LEMMA KnowInvStep ==
  ASSUME TypeOK, TypeOK', KnowInv, [Next]_vars
  PROVE  KnowInv'
<1>t. account \in Account /\ account' \in Account /\ AccountOrder
  BY DEF TypeOK, KnowInv
\* Steps of no request.
<1>r. ASSUME UNCHANGED req, Grown, SessionsKnow
      PROVE  KnowInv'
  <2>1. PICK r : r \in Requests
    BY SetsAssumption
  <2> QED  BY <1>r, <2>1, KnowKept DEF OthersSame
<1>1. CASE forgotPassword \/ TokenExpires \/ DeleteExpiredAuthTokens \/ UNCHANGED vars
  <2>1. UNCHANGED <<account, sessions, req>>
    BY <1>1 DEF forgotPassword, TokenExpires, DeleteExpiredAuthTokens, vars
  <2> QED  BY <1>r, <1>t, <2>1, AccountKept, SessionsKept
<1>2. CASE LockExpires
  <2>1. /\ account'.password = account.password /\ account'.enrolments = account.enrolments
        /\ account'.totp = account.totp /\ account'.revoked = account.revoked
    BY <1>2, <1>t DEF LockExpires, Account
  <2>2. Grown
    BY <1>t, <2>1 DEF Grown, AccountOrder, Account
  <2> QED  BY <1>2, <1>r, <2>2, SessionsKept DEF LockExpires
<1>3. CASE logout
  <2>1. \A s \in Sessions : sessions'[s] \in {sessions[s], None}
    BY <1>3 DEF logout, RevokeSession, TypeOK
  <2>2. Grown
    BY <1>3, <1>t, AccountKept DEF logout
  <2> QED  BY <1>3, <1>r, <2>1, <2>2, SessionsKept DEF logout
<1> QED  BY <1>1, <1>2, <1>3, LoginKnows, SessionKnows, LinkKnows DEF Next

(***************************************************************************)
(* Sessions that outlive a change of the password.                         *)
(***************************************************************************)
\* A request about to end sessions spares one that knows the password it has set, or
\* spares none.
RevokeInv ==
  /\ OldPasswordsInFlightOnly
  /\ \A r \in Requests : req[r].pc = "others" /\ req[r].sess \in Live =>
       req[r].shown.password <= sessions[req[r].sess].shown.password
  /\ \A r \in Requests : req[r].pc \in Holding \cup {"all"} => req[r].sess = None

\* The rows that are left answer to the latest password that has ended sessions.
RowsKept ==
  \A s \in Live' : sessions'[s].shown.password < account'.revoked =>
    sessions'[s].issued = account'.revoked

\* What a request that is not part of the step may spare.
Spares(q) ==
  req[q].sess \in Live' =>
    /\ req[q].sess \in Live
    /\ \/ sessions'[req[q].sess].shown = sessions[req[q].sess].shown
       \/ req[q].shown.password <= sessions'[req[q].sess].shown.password

LEMMA RevokeKept ==
  ASSUME TypeOK, TypeOK', KnowInv', RevokeInv, NEW r \in Requests, OthersSame(r), RowsKept,
         \A q \in Requests \ {r} : Spares(q),
         req'[r].pc = "others" /\ req'[r].sess \in Live' =>
           req'[r].shown.password <= sessions'[req'[r].sess].shown.password,
         req'[r].pc \in Holding \cup {"all"} => req'[r].sess = None
  PROVE  RevokeInv'
<1>1. OldPasswordsInFlightOnly'
  <2> SUFFICES ASSUME NEW s \in Live', sessions'[s].shown.password < account'.revoked
               PROVE  /\ sessions'[s].issued = account'.revoked
                      /\ sessions'[s].shown.revokedThen < account'.revoked
    BY DEF OldPasswordsInFlightOnly
  <2>1. sessions'[s].issued = account'.revoked
    BY DEF RowsKept
  <2>2. /\ sessions'[s].shown.revokedThen \in Nat /\ sessions'[s].shown.password \in Nat
        /\ account'.revoked \in Nat
    BY DEF TypeOK, Account, Session, Shown, Live
  <2>3. sessions'[s].shown.revokedThen <= sessions'[s].shown.password
    BY DEF KnowInv, Within
  <2> QED  BY <2>1, <2>2, <2>3
<1>2. ASSUME NEW q \in Requests, req'[q].pc = "others", req'[q].sess \in Live'
      PROVE  req'[q].shown.password <= sessions'[req'[q].sess].shown.password
  <2>1. CASE q # r
    <3>1. req'[q] = req[q] /\ Spares(q)
      BY <2>1 DEF OthersSame
    <3>2. req[q].sess \in Live => req[q].shown.password <= sessions[req[q].sess].shown.password
      BY <1>2, <3>1 DEF RevokeInv
    <3> QED  BY <1>2, <3>1, <3>2 DEF Spares
  <2> QED  BY <1>2, <2>1
<1>3. ASSUME NEW q \in Requests, req'[q].pc \in Holding \cup {"all"}
      PROVE  req'[q].sess = None
  <2>1. CASE q # r
    BY <1>3, <2>1 DEF OthersSame, RevokeInv
  <2> QED  BY <1>3, <2>1
<1> QED  BY <1>1, <1>2, <1>3 DEF RevokeInv

\* Steps that at most end sessions, and change no password that has ended them.
LEMMA RowsEndedOnly ==
  ASSUME TypeOK, RevokeInv, account'.revoked = account.revoked,
         \A s \in Sessions : sessions'[s] \in {sessions[s], None}
  PROVE  RowsKept /\ \A q \in Requests : Spares(q)
<1>1. \A s \in Live' : s \in Live /\ sessions'[s] = sessions[s]
  BY DEF Live
<1>2. RowsKept
  BY <1>1 DEF RowsKept, RevokeInv, OldPasswordsInFlightOnly
<1>3. \A q \in Requests : Spares(q)
  BY <1>1 DEF Spares
<1> QED  BY <1>2, <1>3

LEMMA EndedOnlyRevokes ==
  ASSUME TypeOK, TypeOK', KnowInv', RevokeInv, NEW r \in Requests, NEW pc, NEW s, NEW x, NEW t,
         Became(r, pc, s, x, t), pc # "others", pc \in Holding \cup {"all"} => s = None,
         account'.revoked = account.revoked,
         \A u \in Sessions : sessions'[u] \in {sessions[u], None}
  PROVE  RevokeInv'
<1>1. RowsKept /\ \A q \in Requests : Spares(q)
  BY RowsEndedOnly
<1> QED  BY <1>1, RevokeKept DEF Became

LEMMA LoginRevokes ==
  ASSUME TypeOK, TypeOK', KnowInv', RevokeInv, NEW r \in Requests,
         register(r) \/ login(r) \/ loginCode(r) \/ RecordLoginFailure(r) \/ SetLastLogin(r)
  PROVE  RevokeInv'
<1>p. {"welcome", "fail", "code", "admit", "idle", "rotate"} \cap (Holding \cup {"all", "others"}) = {}
  BY DEF Holding
<1>t. account \in Account
  BY DEF TypeOK
<1>1. account'.revoked = account.revoked
  BY <1>t DEF Account, register, CreateUser, login, loginCode, RecordLoginFailure, SetLastLogin
<1>2. \A u \in Sessions : sessions'[u] \in {sessions[u], None}
  BY DEF register, login, loginCode, RecordLoginFailure, SetLastLogin
<1>3. \E pc \in {"welcome", "fail", "code", "admit", "idle", "rotate"} :
        \E s, x, t : Became(r, pc, s, x, t)
  BY LoginEffects DEF Moved, Began
<1>4. PICK pc \in {"welcome", "fail", "code", "admit", "idle", "rotate"} :
        \E s, x, t : Became(r, pc, s, x, t)
  BY <1>3
<1> QED  BY <1>p, <1>1, <1>2, <1>4, EndedOnlyRevokes

LEMMA SessionRevokes ==
  ASSUME TypeOK, TypeOK', KnowInv, KnowInv', RevokeInv, NEW r \in Requests,
         \/ RotateSession(r) \/ withSession(r) \/ requireAuth(r) \/ accountUpdate(r)
         \/ passwordUpdate(r) \/ RevokeUserSessions(r) \/ mfaEnable(r) \/ mfaDisable(r)
  PROVE  RevokeInv'
<1>p. {"user", "change", "enable", "disable", "rotate", "mail", "idle"} \cap (Holding \cup {"all", "others"}) = {}
  BY DEF Holding
<1>t. /\ account \in Account /\ account.revoked \in Nat /\ account.password \in Nat
      /\ sessions \in [Sessions -> Session \cup {None}]
  BY DEF TypeOK, Account
<1>k. /\ \A q \in Requests : /\ req[q].shown \in Shown /\ req[q].shown.password \in Nat
                             /\ req[q].shown.password <= account.password
      /\ account.revoked <= account.password
  BY DEF TypeOK, Request, Shown, KnowInv, Within, AccountOrder
<1>1. CASE withSession(r) \/ requireAuth(r) \/ accountUpdate(r) \/ mfaEnable(r) \/ mfaDisable(r)
  <2>1. account'.revoked = account.revoked
    BY <1>1, <1>t DEF Account, withSession, requireAuth, accountUpdate, mfaEnable, SetTOTP,
       mfaDisable, DisableTOTP
  <2>2. \A u \in Sessions : sessions'[u] \in {sessions[u], None}
    BY <1>1 DEF withSession, requireAuth, accountUpdate, mfaEnable, mfaDisable
  <2>3. \E pc \in {"user", "change", "enable", "disable", "rotate", "mail"} :
          \E s, x, t : Became(r, pc, s, x, t)
    BY <1>1, SessionEffects DEF Moved, Began
  <2>4. PICK pc \in {"user", "change", "enable", "disable", "rotate", "mail"} :
          \E s, x, t : Became(r, pc, s, x, t)
    BY <2>3
  <2> QED  BY <1>p, <2>1, <2>2, <2>4, EndedOnlyRevokes
<1>2. CASE RotateSession(r)
  <2>1. PICK s \in Sessions :
          /\ \A q \in Requests : req[q].sess # s
          /\ sessions' = [x \in Sessions |->
               CASE x = s -> [shown |-> req[r].shown, issued |-> account.revoked]
                 [] x = req[r].sess -> None
                 [] OTHER -> sessions[x]]
    BY <1>2 DEF RotateSession
  <2>2. /\ sessions'[s].issued = account.revoked
        /\ \A u \in Sessions \ {s} : sessions'[u] \in {sessions[u], None}
    BY <2>1
  <2>3. account' = account
    BY <1>2 DEF RotateSession
  <2>4. \A u \in Live' \ {s} : u \in Live /\ sessions'[u] = sessions[u]
    BY <2>2 DEF Live
  <2>5. RowsKept
    BY <2>2, <2>3, <2>4 DEF RowsKept, RevokeInv, OldPasswordsInFlightOnly
  <2>6. \A q \in Requests : Spares(q)
    BY <2>1, <2>4 DEF Spares
  <2>7. Became(r, "idle", None, NothingShown, None)
    BY <1>2, SessionEffects DEF Began
  <2> QED  BY <1>p, <2>5, <2>6, <2>7, RevokeKept DEF Became
<1>3. CASE passwordUpdate(r)
  <2> DEFINE new == account.password + 1
             x == [req[r].shown EXCEPT !.password = new]
             changed(u) == [sessions[u] EXCEPT !.shown.password = new]
  <2>1. /\ account'.revoked = account.revoked
        /\ sessions' = [u \in Sessions |-> IF u = req[r].sess /\ sessions[u] # None
                                           THEN changed(u) ELSE sessions[u]]
    BY <1>3, <1>t DEF passwordUpdate, Account
  <2>2. ASSUME NEW u \in Live'
        PROVE  /\ u \in Live /\ (sessions'[u] = sessions[u] \/ sessions'[u].shown.password = new)
               /\ u = req[r].sess => sessions'[u].shown.password = new
    <3>1. u \in Sessions /\ sessions'[u] # None
      BY DEF Live
    <3>2. CASE u = req[r].sess /\ sessions[u] # None
      <4>1. sessions'[u] = changed(u) /\ sessions[u] \in Session /\ u \in Live
        BY <1>t, <2>1, <3>1, <3>2 DEF Live
      <4>2. changed(u).shown.password = new
        BY <4>1 DEF Session, Shown
      <4> HIDE DEF changed
      <4> QED  BY <4>1, <4>2
    <3>3. CASE ~(u = req[r].sess /\ sessions[u] # None)
      <4>1. sessions'[u] = sessions[u]
        BY <2>1, <3>1, <3>3
      <4> QED  BY <3>1, <3>3, <4>1 DEF Live
    <3> QED  BY <3>2, <3>3
  <2>3. RowsKept
    <3> SUFFICES ASSUME NEW u \in Live', sessions'[u].shown.password < account'.revoked
                 PROVE  sessions'[u].issued = account'.revoked
      BY DEF RowsKept
    <3>1. sessions'[u].shown.password # new
      BY <1>t, <1>k, <2>1
    <3> QED  BY <2>1, <2>2, <3>1 DEF RevokeInv, OldPasswordsInFlightOnly
  <2>4. \A q \in Requests : req[q].shown.password <= new
    BY <1>t, <1>k
  <2>5. \A q \in Requests : Spares(q)
    BY <2>2, <2>4 DEF Spares
  <2>6. Became(r, "others", req[r].sess, x, req[r].token)
    BY <1>3, SessionEffects
  <2>7. x.password = new /\ new <= new
    BY <1>t, <1>k DEF Shown
  <2> HIDE DEF x, new
  <2>8. "others" \notin Holding \cup {"all"}
    BY DEF Holding
  <2> QED  BY <2>2, <2>3, <2>5, <2>6, <2>7, <2>8, RevokeKept DEF Became
<1>4. CASE RevokeUserSessions(r)
  <2>1. \A s \in Sessions : sessions'[s] \in {sessions[s], None}
    BY <1>4 DEF RevokeUserSessions
  <2>2. \A s \in Live' : s \in Live /\ sessions'[s] = sessions[s]
    BY <2>1 DEF Live
  <2>3. RowsKept
    <3>1. CASE account'.revoked = account.revoked
      BY <2>1, <3>1, RowsEndedOnly
    <3>2. CASE account'.revoked # account.revoked
      <4>1. /\ account'.revoked = req[r].shown.password /\ req[r].pc \in {"others", "all"}
            /\ sessions' = [s \in Sessions |-> IF s \in Ended(r) THEN None ELSE sessions[s]]
        BY <1>4, <1>t, <3>2 DEF RevokeUserSessions, Account
      <4>2. \A s \in Live' : s \notin Ended(r)
        BY <4>1 DEF Live
      <4>3. \A s \in Live' : s = req[r].sess
        BY <4>2 DEF Live, Ended
      <4>4. ASSUME NEW s \in Live'
            PROVE  account'.revoked <= sessions'[s].shown.password
        <5>1. req[r].sess = s /\ s \in Live /\ sessions'[s] = sessions[s] /\ s # None
          BY <2>2, <4>3, SetsAssumption DEF Live
        <5>2. req[r].pc = "others"
          BY <4>1, <5>1 DEF RevokeInv
        <5> QED  BY <4>1, <5>1, <5>2 DEF RevokeInv
      <4>5. \A s \in Live' : sessions'[s].shown.password \in Nat
        BY DEF TypeOK, Live, Session, Shown
      <4>6. account'.revoked \in Nat
        BY <1>k, <4>1
      <4> QED  BY <4>4, <4>5, <4>6 DEF RowsKept
    <3> QED  BY <3>1, <3>2
  <2>4. \A q \in Requests : Spares(q)
    BY <2>2 DEF Spares
  <2>5. \E pc \in {"rotate", "idle"} :
          \E s, x, t : Became(r, pc, s, x, t)
    BY <1>4, SessionEffects DEF Moved, Began
  <2>6. PICK pc \in {"rotate", "idle"} :
          \E s, x, t : Became(r, pc, s, x, t)
    BY <2>5
  <2> QED  BY <1>p, <2>3, <2>4, <2>6, RevokeKept DEF Became
<1> QED  BY <1>1, <1>2, <1>3, <1>4

LEMMA LinkRevokes ==
  ASSUME TypeOK, TypeOK', KnowInv', RevokeInv, NEW r \in Requests,
         \/ sendVerificationEmail(r) \/ resetPassword(r) \/ UpdatePassword(r)
         \/ verifyEmail(r) \/ SetEmailVerified(r) \/ UseAuthToken(r) \/ RequestAborts(r)
  PROVE  RevokeInv'
<1>1. account'.revoked = account.revoked
  <2>1. account \in Account
    BY DEF TypeOK
  <2> QED  BY <2>1 DEF Account, sendVerificationEmail, resetPassword, UpdatePassword, verifyEmail,
              SetEmailVerified, UseAuthToken, RequestAborts
<1>2. \A u \in Sessions : sessions'[u] \in {sessions[u], None}
  BY DEF sendVerificationEmail, resetPassword, UpdatePassword, verifyEmail, SetEmailVerified,
     UseAuthToken, RequestAborts
<1>3. UpdatePassword(r) \/ SetEmailVerified(r) \/ UseAuthToken(r) => req[r].sess = None
  BY DEF UpdatePassword, SetEmailVerified, UseAuthToken, RevokeInv, Holding
<1>4. \E pc \in {"rotate", "idle", "reset", "verify", "spend", "all"} :
        \E s, x, t : Became(r, pc, s, x, t) /\ (pc \in {"rotate", "idle"} \/ s = None)
  BY <1>3, LinkEffects DEF Moved, Began
<1>5. PICK pc \in {"rotate", "idle", "reset", "verify", "spend", "all"} :
        \E s, x, t : Became(r, pc, s, x, t) /\ (pc \in {"rotate", "idle"} \/ s = None)
  BY <1>4
<1>6. PICK s, x, t : Became(r, pc, s, x, t) /\ (pc \in {"rotate", "idle"} \/ s = None)
  BY <1>5
<1>7. pc # "others" /\ (pc \in Holding \cup {"all"} => s = None)
  BY <1>6 DEF Holding
<1> QED  BY <1>1, <1>2, <1>6, <1>7, EndedOnlyRevokes

LEMMA RevokeInvStep ==
  ASSUME TypeOK, TypeOK', KnowInv, KnowInv', RevokeInv, [Next]_vars
  PROVE  RevokeInv'
\* Steps of no request.
<1>1. CASE forgotPassword \/ TokenExpires \/ DeleteExpiredAuthTokens \/ LockExpires \/ logout
           \/ UNCHANGED vars
  <2>1. account'.revoked = account.revoked
    <3>1. account \in Account
      BY DEF TypeOK
    <3> QED  BY <1>1, <3>1 DEF Account, forgotPassword, TokenExpires, DeleteExpiredAuthTokens,
                LockExpires, logout, vars
  <2>2. \A u \in Sessions : sessions'[u] \in {sessions[u], None}
    <3>1. sessions \in [Sessions -> Session \cup {None}]
      BY DEF TypeOK
    <3> QED  BY <1>1, <3>1 DEF forgotPassword, TokenExpires, DeleteExpiredAuthTokens, LockExpires,
                logout, RevokeSession, vars
  <2>3. RowsKept /\ \A q \in Requests : Spares(q)
    BY <2>1, <2>2, RowsEndedOnly
  <2>4. PICK r : r \in Requests
    BY SetsAssumption
  <2>5. req' = req
    BY <1>1 DEF forgotPassword, TokenExpires, DeleteExpiredAuthTokens, LockExpires, logout, vars
  <2>6. /\ OthersSame(r)
        /\ req'[r].pc = "others" /\ req'[r].sess \in Live' =>
             req'[r].shown.password <= sessions'[req'[r].sess].shown.password
        /\ req'[r].pc \in Holding \cup {"all"} => req'[r].sess = None
    BY <2>3, <2>4, <2>5 DEF OthersSame, RevokeInv, Spares
  <2> QED  BY <2>3, <2>4, <2>6, RevokeKept
<1> QED  BY <1>1, LoginRevokes, SessionRevokes, LinkRevokes DEF Next

LEMMA Counted ==
  ASSUME NEW S \in SUBSET Requests
  PROVE  /\ IsFiniteSet(S) /\ Cardinality(S) \in Nat /\ Cardinality(Requests) \in Nat
         /\ Cardinality(S) <= Cardinality(Requests)
BY SetsAssumption, FS_Subset, FS_CardinalityType

LEMMA CountStep ==
  ASSUME NEW S, NEW T, NEW x, IsFiniteSet(S), T \ {x} = S \ {x}
  PROVE  /\ IsFiniteSet(T) /\ Cardinality(S) \in Nat /\ Cardinality(T) \in Nat
         /\ (x \in S <=> x \in T) => Cardinality(T) = Cardinality(S)
         /\ x \in T /\ x \notin S => Cardinality(T) = Cardinality(S) + 1
         /\ x \in S /\ x \notin T => Cardinality(T) = Cardinality(S) - 1
<1>1. Cardinality(S) \in Nat
  BY FS_CardinalityType
<1>2. CASE x \in S <=> x \in T
  <2>1. T = S
    BY <1>2
  <2> QED  BY <1>1, <1>2, <2>1
<1>3. CASE x \in T /\ x \notin S
  <2>1. T = S \cup {x}
    BY <1>3
  <2>2. IsFiniteSet(T) /\ Cardinality(T) = Cardinality(S) + 1
    BY <1>3, <2>1, FS_AddElement
  <2> QED  BY <1>1, <1>3, <2>2
<1>4. CASE x \in S /\ x \notin T
  <2>1. T = S \ {x}
    BY <1>4
  <2>2. IsFiniteSet(T) /\ Cardinality(T) = Cardinality(S) - 1
    BY <1>4, <2>1, FS_RemoveElement
  <2>3. Cardinality(T) \in Nat
    BY <2>2, FS_CardinalityType
  <2> QED  BY <1>1, <1>4, <2>2, <2>3
<1> QED  BY <1>2, <1>3, <1>4

(***************************************************************************)
(* Requests counted.                                                       *)
(***************************************************************************)
Guessing == {r \in Requests : req[r].pc \in {"fail", "code"}}

\* While the account is not locked its guesses are within the failures counted; those
\* that had read it before the lock are still to come when it is.
GuessInv ==
  /\ account.locked =>
       account.guesses + Cardinality(Guessing) <= MaxLoginAttempts + Cardinality(Requests) - 1
  /\ ~account.locked =>
       /\ account.guesses <= account.failures
       /\ account.failures = MaxLoginAttempts => account.guesses = 0

LEMMA GuessingStep ==
  ASSUME NEW r \in Requests, OthersSame(r)
  PROVE  /\ Cardinality(Guessing) \in Nat /\ Cardinality(Guessing') \in Nat
         /\ Cardinality(Guessing') <= Cardinality(Requests)
         /\ (r \in Guessing' => r \in Guessing) => Cardinality(Guessing') <= Cardinality(Guessing)
         /\ r \in Guessing /\ r \notin Guessing' => Cardinality(Guessing') = Cardinality(Guessing) - 1
<1>1. Guessing \in SUBSET Requests /\ Guessing' \in SUBSET Requests
  BY DEF Guessing
<1>2. Guessing' \ {r} = Guessing \ {r}
  BY DEF Guessing, OthersSame
<1>3. /\ IsFiniteSet(Guessing) /\ Cardinality(Guessing) \in Nat /\ Cardinality(Guessing') \in Nat
      /\ Cardinality(Guessing') <= Cardinality(Requests)
  BY <1>1, Counted
<1> DEFINE S == Guessing
           T == Guessing'
<1> HIDE DEF S, T
<1>4. /\ (r \in S <=> r \in T) => Cardinality(T) = Cardinality(S)
      /\ r \in S /\ r \notin T => Cardinality(T) = Cardinality(S) - 1
  BY <1>2, <1>3, CountStep DEF S, T
<1>5. Cardinality(S) \in Nat /\ Cardinality(T) \in Nat
  BY <1>3 DEF S, T
<1>6. (r \in T => r \in S) => Cardinality(T) <= Cardinality(S)
  BY <1>4, <1>5
<1> QED  BY <1>3, <1>4, <1>6 DEF S, T

\* A step that records no failure, and lets nobody guess once the account is locked.
LEMMA GuessKept ==
  ASSUME TypeOK, GuessInv, NEW r \in Requests, OthersSame(r),
         account'.locked = account.locked, account'.guesses = account.guesses,
         account'.failures = account.failures,
         r \in Guessing' => r \in Guessing \/ ~account.locked
  PROVE  GuessInv'
<1>1. /\ account.guesses \in Nat /\ Cardinality(Requests) \in Nat /\ MaxLoginAttempts \in Nat
  BY SetsAssumption, FS_CardinalityType, AttemptsAssumption DEF TypeOK, Account
<1>2. /\ Cardinality(Guessing) \in Nat /\ Cardinality(Guessing') \in Nat
      /\ account.locked => Cardinality(Guessing') <= Cardinality(Guessing)
  BY GuessingStep
<1>3. \A g, n, m, p, q \in Int : q <= p /\ g + p <= m + n - 1 => g + q <= m + n - 1
  OBVIOUS
<1>4. account.locked =>
        account.guesses + Cardinality(Guessing') <= MaxLoginAttempts + Cardinality(Requests) - 1
  BY <1>1, <1>2, <1>3 DEF GuessInv
<1> QED  BY <1>4 DEF GuessInv

\* A failure is recorded: the request that tried is no longer counted as guessing.
LEMMA FailureCounted ==
  ASSUME TypeOK, GuessInv, NEW r \in Requests, RecordLoginFailure(r)
  PROVE  GuessInv'
<1> DEFINE f == account.failures
           g == account.guesses
           N == Cardinality(Requests)
           c == Cardinality(Guessing)
           d == Cardinality(Guessing')
<1>t. /\ account \in Account /\ f \in Nat /\ g \in Nat /\ N \in Nat /\ MaxLoginAttempts \in Nat
      /\ f <= MaxLoginAttempts /\ MaxLoginAttempts >= 1
  BY SetsAssumption, FS_CardinalityType, AttemptsAssumption DEF TypeOK, Account
<1>1. OthersSame(r) /\ r \in Guessing /\ r \notin Guessing'
  BY LoginEffects DEF Began, Became, RecordLoginFailure, Guessing
<1>2. c \in Nat /\ d = c - 1 /\ d <= N /\ c <= N
  <2>1. c <= N
    BY Counted DEF Guessing
  <2> QED  BY <1>1, <2>1, GuessingStep
<1>3. /\ account'.failures = IF f < MaxLoginAttempts THEN f + 1 ELSE f
      /\ account'.locked = (f + 1 >= MaxLoginAttempts \/ account.locked)
      /\ account'.guesses = g + 1
  BY <1>t DEF RecordLoginFailure, Account, LockedAfter
<1> HIDE DEF f, g, N, c, d
<1>4. CASE account.locked
  <2>1. account'.locked /\ g + c <= MaxLoginAttempts + N - 1
    BY <1>3, <1>4 DEF GuessInv, g, c, N
  <2>2. account'.guesses + d <= MaxLoginAttempts + N - 1
    BY <1>t, <1>2, <1>3, <2>1
  <2> QED  BY <2>1, <2>2 DEF GuessInv, d, N
<1>5. CASE ~account.locked
  <2>1. g <= f /\ (f = MaxLoginAttempts => g = 0)
    BY <1>5 DEF GuessInv, f, g
  <2>2. CASE f + 1 >= MaxLoginAttempts
    <3>1. account'.locked
      BY <1>3, <2>2
    <3>2. account'.guesses + d <= MaxLoginAttempts + N - 1
      BY <1>t, <1>2, <1>3, <2>1, <2>2
    <3> QED  BY <3>1, <3>2 DEF GuessInv, d, N
  <2>3. CASE f + 1 < MaxLoginAttempts
    <3>0. ~(f + 1 >= MaxLoginAttempts)
      BY <1>t, <2>3
    <3>1. ~account'.locked
      BY <1>3, <1>5, <3>0
    <3>2. account'.guesses <= account'.failures /\ account'.failures # MaxLoginAttempts
      BY <1>t, <1>3, <2>1, <2>3
    <3> QED  BY <3>1, <3>2 DEF GuessInv
  <2> QED  BY <1>t, <2>2, <2>3
<1> QED  BY <1>4, <1>5

\* The account is let in again with nothing held against it.
LEMMA GuessesForgotten ==
  ASSUME account'.locked = FALSE, account'.guesses = 0, account'.failures \in Nat
  PROVE  GuessInv'
BY DEF GuessInv

LEMMA GuessInvStep ==
  ASSUME TypeOK, TypeOK', GuessInv, [Next]_vars
  PROVE  GuessInv'
<1>t. account \in Account /\ account' \in Account /\ account'.failures \in Nat
  BY DEF TypeOK, Account
<1>1. ASSUME NEW r \in Requests, register(r) \/ login(r) \/ loginCode(r) \/ SetLastLogin(r)
      PROVE  GuessInv'
  <2>1. CASE account'.locked = FALSE /\ account'.guesses = 0
    BY <1>t, <2>1, GuessesForgotten
  <2>2. CASE register(r) \/ login(r) \/ loginCode(r) \/ (SetLastLogin(r) /\ UNCHANGED account)
    <3>1. /\ account'.locked = account.locked /\ account'.guesses = account.guesses
          /\ account'.failures = account.failures
      BY <1>t, <2>2 DEF register, CreateUser, login, loginCode, Account
    <3>2. OthersSame(r) /\ (r \in Guessing' => r \in Guessing \/ ~account.locked)
      <4>1. CASE register(r)
        BY <4>1, LoginEffects DEF Became, Guessing
      <4>2. CASE login(r)
        BY <4>2, LoginEffects DEF Became, Began, login
      <4>3. CASE loginCode(r)
        BY <4>3, LoginEffects DEF Became, Began, Guessing, loginCode
      <4>4. CASE SetLastLogin(r)
        BY <4>4, LoginEffects DEF Became, Moved, Guessing
      <4> QED  BY <2>2, <4>1, <4>2, <4>3, <4>4
    <3> QED  BY <3>1, <3>2, GuessKept
  <2>3. CASE SetLastLogin(r) /\ ~UNCHANGED account
    BY <1>t, <2>1, <2>3 DEF SetLastLogin, Account
  <2> QED  BY <1>1, <2>2, <2>3
<1>2. ASSUME NEW r \in Requests,
             \/ RotateSession(r) \/ withSession(r) \/ requireAuth(r) \/ accountUpdate(r)
             \/ passwordUpdate(r) \/ RevokeUserSessions(r) \/ mfaEnable(r) \/ mfaDisable(r)
      PROVE  GuessInv'
  <2>1. /\ account'.locked = account.locked /\ account'.guesses = account.guesses
        /\ account'.failures = account.failures
    BY <1>t, <1>2 DEF Account, RotateSession, withSession, requireAuth, accountUpdate, passwordUpdate,
       RevokeUserSessions, mfaEnable, SetTOTP, mfaDisable, DisableTOTP
  <2>2. \E pc \in {"idle", "user", "change", "enable", "disable", "rotate", "mail", "others"} :
          \E s, x, t : Became(r, pc, s, x, t)
    BY <1>2, SessionEffects DEF Moved, Began
  <2>3. OthersSame(r) /\ r \notin Guessing'
    BY <2>2 DEF Became, Guessing
  <2> QED  BY <2>1, <2>3, GuessKept
<1>3. ASSUME NEW r \in Requests,
             \/ sendVerificationEmail(r) \/ resetPassword(r) \/ UpdatePassword(r)
             \/ verifyEmail(r) \/ SetEmailVerified(r) \/ UseAuthToken(r) \/ RequestAborts(r)
      PROVE  GuessInv'
  <2>1. /\ account'.locked = account.locked /\ account'.guesses = account.guesses
        /\ account'.failures = account.failures
    BY <1>t, <1>3 DEF Account, sendVerificationEmail, resetPassword, UpdatePassword, verifyEmail,
       SetEmailVerified, UseAuthToken, RequestAborts
  <2>2. \E pc \in {"idle", "rotate", "reset", "verify", "spend", "all"} :
          \E s, x, t : Became(r, pc, s, x, t)
    BY <1>3, LinkEffects DEF Moved, Began
  <2>3. OthersSame(r) /\ r \notin Guessing'
    BY <2>2 DEF Became, Guessing
  <2> QED  BY <2>1, <2>3, GuessKept
<1>4. CASE LockExpires
  <2>1. account'.locked = FALSE /\ account'.guesses = 0
    BY <1>t, <1>4 DEF LockExpires, Account
  <2> QED  BY <1>t, <2>1, GuessesForgotten
<1>5. CASE forgotPassword \/ TokenExpires \/ DeleteExpiredAuthTokens \/ logout \/ UNCHANGED vars
  <2>1. account' = account /\ req' = req
    BY <1>5 DEF forgotPassword, TokenExpires, DeleteExpiredAuthTokens, logout, vars
  <2>2. Guessing' = Guessing
    BY <2>1 DEF Guessing
  <2> QED  BY <2>1, <2>2 DEF GuessInv
<1> QED  BY <1>1, <1>2, <1>3, <1>4, <1>5, FailureCounted DEF Next

(***************************************************************************)
(* Links used.                                                             *)
(***************************************************************************)
Opening(t) == {r \in Requests : req[r].pc \in {"reset", "verify"} /\ req[r].token = t}
Holders(t) == {r \in Requests : req[r].pc \in Holding /\ req[r].token = t}

\* While a token is live each change made with it has a request still to mark it, and
\* it has been opened no more often than there are requests.
UsesExplained(t) ==
  tokens[t] # None /\ ~tokens[t].stuck =>
    /\ tokens[t].uses + Cardinality(Opening(t)) <= Cardinality(Requests)
    /\ tokens[t].live => tokens[t].uses + Cardinality(Opening(t)) <= Cardinality(Holders(t))

TokenInv == \A t \in Tokens : UsesExplained(t)

LEMMA HoldersStep ==
  ASSUME NEW t, NEW r \in Requests, OthersSame(r)
  PROVE  /\ Cardinality(Opening(t)) \in Nat /\ Cardinality(Holders(t)) \in Nat
         /\ Cardinality(Opening(t)') \in Nat /\ Cardinality(Holders(t)') \in Nat
         /\ Opening(t)' \subseteq Holders(t)' /\ Opening(t) \subseteq Holders(t)
         /\ Cardinality(Opening(t)') <= Cardinality(Holders(t)')
         /\ Cardinality(Holders(t)') <= Cardinality(Requests)
         /\ (r \in Opening(t)' <=> r \in Opening(t)) => Cardinality(Opening(t)') = Cardinality(Opening(t))
         /\ (r \in Holders(t)' <=> r \in Holders(t)) => Cardinality(Holders(t)') = Cardinality(Holders(t))
         /\ r \in Opening(t) /\ r \notin Opening(t)' => Cardinality(Opening(t)') = Cardinality(Opening(t)) - 1
         /\ r \in Holders(t) /\ r \notin Holders(t)' => Cardinality(Holders(t)') = Cardinality(Holders(t)) - 1
         /\ r \notin Opening(t) /\ r \in Opening(t)' => Cardinality(Opening(t)') = Cardinality(Opening(t)) + 1
         /\ r \notin Holders(t) /\ r \in Holders(t)' => Cardinality(Holders(t)') = Cardinality(Holders(t)) + 1
<1> DEFINE O == Opening(t)
           P == Opening(t)'
           H == Holders(t)
           J == Holders(t)'
<1>1. /\ O \in SUBSET Requests /\ P \in SUBSET Requests /\ H \in SUBSET Requests
      /\ J \in SUBSET Requests /\ P \subseteq J /\ O \subseteq H
  BY DEF Opening, Holders, Holding
<1>2. P \ {r} = O \ {r} /\ J \ {r} = H \ {r}
  BY DEF Opening, Holders, OthersSame
<1> HIDE DEF O, P, H, J
<1>3. /\ IsFiniteSet(O) /\ IsFiniteSet(H) /\ IsFiniteSet(J)
      /\ Cardinality(O) \in Nat /\ Cardinality(P) \in Nat /\ Cardinality(H) \in Nat
      /\ Cardinality(J) \in Nat /\ Cardinality(J) <= Cardinality(Requests)
  BY <1>1, Counted
<1>4. Cardinality(P) <= Cardinality(J)
  BY <1>1, <1>3, FS_Subset
<1>5. /\ (r \in O <=> r \in P) => Cardinality(P) = Cardinality(O)
      /\ r \in P /\ r \notin O => Cardinality(P) = Cardinality(O) + 1
      /\ r \in O /\ r \notin P => Cardinality(P) = Cardinality(O) - 1
  BY <1>2, <1>3, CountStep
<1>6. /\ (r \in H <=> r \in J) => Cardinality(J) = Cardinality(H)
      /\ r \in J /\ r \notin H => Cardinality(J) = Cardinality(H) + 1
      /\ r \in H /\ r \notin J => Cardinality(J) = Cardinality(H) - 1
  BY <1>2, <1>3, CountStep
<1> QED  BY <1>1, <1>3, <1>4, <1>5, <1>6 DEF O, P, H, J

\* A row that is not used: its request goes on, gives up, or goes as it marks the row.
LEMMA UsesKept ==
  ASSUME TypeOK, NEW t \in Tokens, UsesExplained(t), NEW r \in Requests, OthersSame(r),
         tokens'[t] # None /\ ~tokens'[t].stuck =>
           /\ tokens[t] # None /\ ~tokens[t].stuck /\ tokens'[t].uses = tokens[t].uses
           /\ tokens'[t].live => tokens[t].live
           /\ r \in Opening(t)' => r \in Opening(t)
           /\ tokens'[t].live /\ r \in Holders(t) => r \in Opening(t) \/ r \in Holders(t)'
  PROVE  UsesExplained(t)'
<1> SUFFICES ASSUME tokens'[t] # None, ~tokens'[t].stuck
             PROVE  /\ tokens'[t].uses + Cardinality(Opening(t)') <= Cardinality(Requests)
                    /\ tokens'[t].live =>
                         tokens'[t].uses + Cardinality(Opening(t)') <= Cardinality(Holders(t)')
  BY DEF UsesExplained
<1> DEFINE u == tokens[t].uses
           O == Cardinality(Opening(t))
           P == Cardinality(Opening(t)')
           H == Cardinality(Holders(t))
           J == Cardinality(Holders(t)')
           N == Cardinality(Requests)
<1>1. u \in Nat /\ N \in Nat
  BY SetsAssumption, FS_CardinalityType DEF TypeOK, Token
<1>2. O \in Nat /\ P \in Nat /\ H \in Nat /\ J \in Nat /\ J <= N /\ P <= J
  BY <1>1, HoldersStep
<1>3. /\ P = O \/ (P = O - 1 /\ r \in Opening(t) /\ r \notin Opening(t)')
      /\ J = H \/ J = H + 1 \/ (J = H - 1 /\ r \in Holders(t) /\ r \notin Holders(t)')
  BY HoldersStep
<1>4. r \in Opening(t)' => r \in Holders(t)'
  BY HoldersStep
<1>5. u + O <= N /\ (tokens[t].live => u + O <= H) /\ tokens'[t].uses = u
  BY DEF UsesExplained
<1> HIDE DEF u, O, P, H, J, N
<1>6. tokens'[t].live => J >= H \/ (P = O - 1 /\ J = H - 1)
  BY <1>1, <1>2, <1>3, <1>4, HoldersStep DEF O, P
<1>7. u + P <= N
  BY <1>1, <1>2, <1>3, <1>5
<1>8. tokens'[t].live => u + P <= J
  <2> HAVE tokens'[t].live
  <2>1. u + O <= H /\ (J >= H \/ (P = O - 1 /\ J = H - 1)) /\ P <= O
    BY <1>2, <1>3, <1>5, <1>6
  <2> QED  BY <1>1, <1>2, <2>1
<1> QED  BY <1>5, <1>7, <1>8 DEF u, P, J, N

\* A link that is mailed has not been used.
LEMMA NewUses ==
  ASSUME NEW t \in Tokens, NEW r \in Requests, OthersSame(r), NEW kind,
         tokens'[t] = NewToken(kind)
  PROVE  UsesExplained(t)'
<1>1. tokens'[t].uses = 0
  BY DEF NewToken
<1>2. /\ Cardinality(Opening(t)') \in Nat /\ Cardinality(Holders(t)') \in Nat
      /\ Cardinality(Requests) \in Nat
      /\ Cardinality(Opening(t)') <= Cardinality(Holders(t)')
      /\ Cardinality(Holders(t)') <= Cardinality(Requests)
  BY HoldersStep, SetsAssumption, FS_CardinalityType
<1>3. \A u, p, h, n \in Int : u = 0 /\ p <= h /\ h <= n => u + p <= h /\ u + p <= n
  OBVIOUS
<1>4. /\ tokens'[t].uses + Cardinality(Opening(t)') <= Cardinality(Requests)
      /\ tokens'[t].uses + Cardinality(Opening(t)') <= Cardinality(Holders(t)')
  BY <1>1, <1>2, <1>3
<1> QED  BY <1>4 DEF UsesExplained

\* A request opens the link, and will mark it.
LEMMA OpenedUses ==
  ASSUME TypeOK, NEW t \in Tokens, UsesExplained(t), NEW r \in Requests, OthersSame(r),
         tokens'[t] = tokens[t], tokens[t] # None, tokens[t].live,
         r \notin Holders(t), r \in Opening(t)'
  PROVE  UsesExplained(t)'
<1>1. tokens[t].uses \in Nat /\ Cardinality(Requests) \in Nat
  BY SetsAssumption, FS_CardinalityType DEF TypeOK, Token
<1>2. /\ r \notin Opening(t) /\ r \in Holders(t)'
  BY HoldersStep
<1>3. /\ Cardinality(Opening(t)) \in Nat /\ Cardinality(Holders(t)) \in Nat
      /\ Cardinality(Opening(t)') = Cardinality(Opening(t)) + 1
      /\ Cardinality(Holders(t)') = Cardinality(Holders(t)) + 1
      /\ Cardinality(Holders(t)') <= Cardinality(Requests)
  BY <1>2, HoldersStep
<1>4. \A u, o, h, p, j, n \in Int :
        u + o <= h /\ p = o + 1 /\ j = h + 1 /\ j <= n => u + p <= j /\ u + p <= n
  OBVIOUS
<1>5. ~tokens[t].stuck => tokens[t].uses + Cardinality(Opening(t)) <= Cardinality(Holders(t))
  BY DEF UsesExplained
<1>6. ~tokens[t].stuck =>
        /\ tokens[t].uses + Cardinality(Opening(t)') <= Cardinality(Holders(t)')
        /\ tokens[t].uses + Cardinality(Opening(t)') <= Cardinality(Requests)
  BY <1>1, <1>3, <1>4, <1>5
<1> QED  BY <1>6 DEF UsesExplained

\* The change the link is for is made, and the request is to mark it next.
LEMMA CountedUses ==
  ASSUME TypeOK, NEW t \in Tokens, UsesExplained(t), NEW r \in Requests, OthersSame(r),
         tokens[t] # None, Count(t),
         r \in Opening(t), r \in Holders(t)', r \notin Opening(t)'
  PROVE  UsesExplained(t)'
<1>1. tokens[t] \in Token /\ tokens[t].uses \in Nat /\ Cardinality(Requests) \in Nat
  BY SetsAssumption, FS_CardinalityType DEF TypeOK, Token
<1>2. r \in Holders(t)
  BY HoldersStep
<1>3. /\ Cardinality(Opening(t)) \in Nat /\ Cardinality(Holders(t)) \in Nat
      /\ Cardinality(Opening(t)') = Cardinality(Opening(t)) - 1
      /\ Cardinality(Holders(t)') = Cardinality(Holders(t))
  BY <1>2, HoldersStep
<1>4. /\ tokens'[t].stuck = tokens[t].stuck /\ tokens'[t].live = tokens[t].live
      /\ tokens'[t].uses = IF tokens[t].uses > Cardinality(Requests) THEN tokens[t].uses
                           ELSE tokens[t].uses + 1
  BY <1>1 DEF Count, TypeOK, Token
<1>5. \A u, v, o, p, h \in Int : v <= u + 1 /\ p = o - 1 /\ u + o <= h => v + p <= h
  OBVIOUS
<1>6. tokens'[t].uses \in Int /\ tokens'[t].uses <= tokens[t].uses + 1
  BY <1>1, <1>4
<1>7. ASSUME ~tokens[t].stuck
      PROVE  /\ tokens'[t].uses + Cardinality(Opening(t)') <= Cardinality(Requests)
             /\ tokens[t].live => tokens'[t].uses + Cardinality(Opening(t)') <= Cardinality(Holders(t))
  <2>1. /\ tokens[t].uses + Cardinality(Opening(t)) <= Cardinality(Requests)
        /\ tokens[t].live => tokens[t].uses + Cardinality(Opening(t)) <= Cardinality(Holders(t))
    BY <1>7 DEF UsesExplained
  <2>2. tokens'[t].uses + Cardinality(Opening(t)') <= Cardinality(Requests)
    BY <1>1, <1>3, <1>5, <1>6, <2>1
  <2>3. tokens[t].live => tokens'[t].uses + Cardinality(Opening(t)') <= Cardinality(Holders(t))
    BY <1>1, <1>3, <1>5, <1>6, <2>1
  <2> QED  BY <2>2, <2>3
<1> QED  BY <1>3, <1>4, <1>7 DEF UsesExplained

\* Steps that use and mark no link, of requests that hold none.
LEMMA NoLinkUses ==
  ASSUME TypeOK, TokenInv, NEW r \in Requests, OthersSame(r),
         req[r].pc \notin Holding, req'[r].pc \notin Holding,
         \A t \in Tokens :
           \/ tokens'[t] \in {tokens[t], None}
           \/ \E kind : tokens'[t] = NewToken(kind)
           \/ tokens[t] # None /\ tokens'[t] = [tokens[t] EXCEPT !.live = FALSE]
  PROVE  TokenInv'
<1> SUFFICES ASSUME NEW t \in Tokens
             PROVE  UsesExplained(t)'
  BY DEF TokenInv
<1>1. r \notin Holders(t) /\ r \notin Opening(t)'
  BY DEF Holders, Opening, Holding
<1>2. UsesExplained(t)
  BY DEF TokenInv
<1>3. CASE tokens'[t] \in {tokens[t], None}
  BY <1>1, <1>2, <1>3, UsesKept
<1>4. CASE tokens[t] # None /\ tokens'[t] = [tokens[t] EXCEPT !.live = FALSE]
  <2>1. tokens[t] \in Token
    BY <1>4 DEF TypeOK
  <2>2. /\ tokens'[t].uses = tokens[t].uses /\ tokens'[t].stuck = tokens[t].stuck
        /\ tokens'[t].live = FALSE
    BY <1>4, <2>1 DEF Token
  <2> QED  BY <1>1, <1>2, <1>4, <2>2, UsesKept
<1>5. CASE \E kind : tokens'[t] = NewToken(kind)
  BY <1>5, NewUses
<1> QED  BY <1>3, <1>4, <1>5

LEMMA MailUses ==
  ASSUME TypeOK, NEW kind, CreateAuthToken(kind)
  PROVE  \A t \in Tokens : tokens'[t] = tokens[t] \/ tokens'[t] = NewToken(kind)
BY DEF TypeOK, CreateAuthToken

LEMMA OpenUses ==
  ASSUME TypeOK, TokenInv, NEW r \in Requests, NEW t \in Tokens, UNCHANGED tokens,
         tokens[t] # None, tokens[t].live, req[r].pc = "idle",
         NEW pc \in {"reset", "verify"}, Began(r, pc, t)
  PROVE  TokenInv'
<1> SUFFICES ASSUME NEW u \in Tokens
             PROVE  UsesExplained(u)'
  BY DEF TokenInv
<1>1. OthersSame(r) /\ r \notin Holders(u) /\ (r \in Opening(u)' <=> u = t)
  BY DEF Began, Became, Holders, Opening, Holding
<1>2. UsesExplained(u) /\ tokens'[u] = tokens[u]
  BY DEF TokenInv
<1>3. CASE u = t
  BY <1>1, <1>2, <1>3, OpenedUses
<1>4. CASE u # t
  BY <1>1, <1>2, <1>4, UsesKept
<1> QED  BY <1>3, <1>4

LEMMA ChangeUses ==
  ASSUME TypeOK, TokenInv, NEW r \in Requests, req[r].pc \in {"reset", "verify"},
         Count(req[r].token), NEW x, Became(r, "spend", req[r].sess, x, req[r].token)
  PROVE  TokenInv'
<1> DEFINE t == req[r].token
<1>0. t \in Tokens /\ tokens[t] # None
  BY TypedParts DEF Holding
<1> SUFFICES ASSUME NEW u \in Tokens
             PROVE  UsesExplained(u)'
  BY DEF TokenInv
<1>1. OthersSame(r)
  BY DEF Became
<1>2. UsesExplained(u)
  BY DEF TokenInv
<1>3. CASE u = t
  <2>1. r \in Opening(u) /\ r \in Holders(u)' /\ r \notin Opening(u)'
    BY <1>3 DEF Became, Opening, Holders, Holding
  <2>2. Count(u) /\ tokens[u] # None
    BY <1>0, <1>3
  <2> QED  BY <1>1, <1>2, <2>1, <2>2, CountedUses
<1>4. CASE u # t
  <2>1. r \notin Holders(u) /\ r \notin Opening(u)'
    BY <1>4 DEF Became, Opening, Holders
  <2>2. tokens'[u] = tokens[u]
    BY <1>0, <1>4 DEF Count, TypeOK
  <2> QED  BY <1>1, <1>2, <2>1, <2>2, UsesKept
<1> QED  BY <1>3, <1>4

\* The request that holds a link marks it, or leaves with the row stuck if it has used it.
LEMMA LeaveUses ==
  ASSUME TypeOK, TokenInv, NEW r \in Requests, OthersSame(r), req'[r].pc \notin Holding,
         \A t \in Tokens :
           \/ /\ tokens'[t] = tokens[t]
              /\ ~(req[r].pc = "spend" /\ req[r].token = t)
           \/ /\ tokens[t] \in Token
              /\ tokens'[t] \in {[tokens[t] EXCEPT !.live = FALSE], [tokens[t] EXCEPT !.stuck = TRUE]}
  PROVE  TokenInv'
<1> SUFFICES ASSUME NEW t \in Tokens
             PROVE  UsesExplained(t)'
  BY DEF TokenInv
<1>1. r \notin Opening(t)' /\ UsesExplained(t)
  BY DEF Opening, Holding, TokenInv
<1>2. CASE tokens'[t] = tokens[t] /\ ~(req[r].pc = "spend" /\ req[r].token = t)
  <2>1. r \in Holders(t) => r \in Opening(t)
    BY <1>2 DEF Holders, Opening, Holding
  <2> QED  BY <1>1, <1>2, <2>1, UsesKept
<1>3. CASE tokens[t] \in Token /\ tokens'[t] = [tokens[t] EXCEPT !.live = FALSE]
  <2>1. /\ tokens'[t].uses = tokens[t].uses /\ tokens'[t].stuck = tokens[t].stuck
        /\ tokens'[t].live = FALSE /\ tokens[t] # None
    BY <1>3, NoneAssumption DEF Token
  <2> QED  BY <1>1, <2>1, UsesKept
<1>4. CASE tokens[t] \in Token /\ tokens'[t] = [tokens[t] EXCEPT !.stuck = TRUE]
  <2>1. tokens'[t].stuck
    BY <1>4 DEF Token
  <2> QED  BY <2>1 DEF UsesExplained
<1> QED  BY <1>2, <1>3, <1>4

LEMMA TokenInvStep ==
  ASSUME TypeOK, TypeOK', TokenInv, [Next]_vars
  PROVE  TokenInv'
<1>1. ASSUME NEW r \in Requests,
             register(r) \/ login(r) \/ loginCode(r) \/ RecordLoginFailure(r) \/ SetLastLogin(r)
      PROVE  TokenInv'
  <2>1. UNCHANGED tokens /\ req[r].pc \notin Holding
    BY <1>1 DEF register, login, loginCode, RecordLoginFailure, SetLastLogin, Holding
  <2>2. \E pc \in {"welcome", "fail", "code", "admit", "idle", "rotate"} :
          \E s, x, t : Became(r, pc, s, x, t)
    BY <1>1, LoginEffects DEF Moved, Began
  <2>3. OthersSame(r) /\ req'[r].pc \notin Holding
    BY <2>2 DEF Became, Holding
  <2> QED  BY <2>1, <2>3, NoLinkUses
<1>2. ASSUME NEW r \in Requests,
             \/ RotateSession(r) \/ withSession(r) \/ requireAuth(r) \/ accountUpdate(r)
             \/ passwordUpdate(r) \/ RevokeUserSessions(r) \/ mfaEnable(r) \/ mfaDisable(r)
      PROVE  TokenInv'
  <2>1. UNCHANGED tokens /\ req[r].pc \notin Holding
    BY <1>2 DEF RotateSession, withSession, requireAuth, accountUpdate, passwordUpdate,
       RevokeUserSessions, mfaEnable, mfaDisable, Holding
  <2>2. \E pc \in {"idle", "user", "change", "enable", "disable", "rotate", "mail", "others"} :
          \E s, x, t : Became(r, pc, s, x, t)
    BY <1>2, SessionEffects DEF Moved, Began
  <2>3. OthersSame(r) /\ req'[r].pc \notin Holding
    BY <2>2 DEF Became, Holding
  <2> QED  BY <2>1, <2>3, NoLinkUses
<1>3. ASSUME NEW r \in Requests, sendVerificationEmail(r)
      PROVE  TokenInv'
  <2>1. \A t \in Tokens : tokens'[t] = tokens[t] \/ \E kind : tokens'[t] = NewToken(kind)
    BY <1>3, MailUses DEF sendVerificationEmail
  <2>2. req[r].pc \notin Holding /\ OthersSame(r) /\ req'[r].pc \notin Holding
    BY <1>3, LinkEffects DEF Moved, Began, Became, Holding, sendVerificationEmail
  <2> QED  BY <2>1, <2>2, NoLinkUses
<1>4. ASSUME NEW r \in Requests, resetPassword(r) \/ verifyEmail(r)
      PROVE  TokenInv'
  <2>1. UNCHANGED tokens /\ req[r].pc = "idle"
    BY <1>4 DEF resetPassword, verifyEmail
  <2>2. PICK t \in Tokens, pc \in {"reset", "verify"} :
          tokens[t] # None /\ tokens[t].live /\ Began(r, pc, t)
    BY <1>4, LinkEffects DEF Opens
  <2> QED  BY <2>1, <2>2, OpenUses
<1>5. ASSUME NEW r \in Requests, UpdatePassword(r)
      PROVE  TokenInv'
  BY <1>5, LinkEffects, ChangeUses DEF UpdatePassword
<1>6. ASSUME NEW r \in Requests, SetEmailVerified(r)
      PROVE  TokenInv'
  BY <1>6, LinkEffects, ChangeUses DEF SetEmailVerified, Moved
<1>7. ASSUME NEW r \in Requests, UseAuthToken(r)
      PROVE  TokenInv'
  <2> DEFINE t == req[r].token
  <2>1. t \in Tokens /\ tokens[t] # None /\ tokens[t] \in Token /\ req[r].pc = "spend"
    BY <1>7, TypedParts DEF UseAuthToken, Holding
  <2>2. \/ tokens' = [tokens EXCEPT ![t].live = FALSE]
        \/ tokens' = [tokens EXCEPT ![t].stuck = TRUE]
    BY <1>7 DEF UseAuthToken
  <2>3. OthersSame(r) /\ req'[r].pc \notin Holding
    BY <1>7, LinkEffects DEF Moved, Began, Became, Holding
  <2>4. \A u \in Tokens :
          \/ tokens'[u] = tokens[u] /\ u # t
          \/ /\ tokens[u] \in Token
             /\ tokens'[u] \in {[tokens[u] EXCEPT !.live = FALSE], [tokens[u] EXCEPT !.stuck = TRUE]}
    BY <2>1, <2>2, TypedParts
  <2> QED  BY <2>3, <2>4, LeaveUses
<1>8. ASSUME NEW r \in Requests, RequestAborts(r)
      PROVE  TokenInv'
  <2>1. OthersSame(r) /\ req'[r].pc \notin Holding
    BY <1>8, LinkEffects DEF Began, Became, Holding
  <2>2. \A t \in Tokens :
          \/ tokens'[t] = tokens[t] /\ ~(req[r].pc = "spend" /\ req[r].token = t)
          \/ tokens[t] \in Token /\ tokens'[t] = [tokens[t] EXCEPT !.stuck = TRUE]
    <3>1. req[r].pc = "spend" => tokens[req[r].token] # None
      BY TypedParts DEF Holding
    <3> QED  BY <1>8, <3>1, TypedParts DEF RequestAborts
  <2> QED  BY <2>1, <2>2, LeaveUses
\* Steps of no request; a request may leave the row it has read.
<1>9. ASSUME forgotPassword \/ TokenExpires \/ DeleteExpiredAuthTokens \/ LockExpires \/ logout
             \/ UNCHANGED vars
      PROVE  TokenInv'
  <2>1. req' = req
    BY <1>9 DEF forgotPassword, TokenExpires, DeleteExpiredAuthTokens, LockExpires, logout, vars
  <2>2. \A t \in Tokens :
          \/ tokens'[t] \in {tokens[t], None}
          \/ \E kind : tokens'[t] = NewToken(kind)
          \/ tokens[t] # None /\ tokens'[t] = [tokens[t] EXCEPT !.live = FALSE]
    <3>1. CASE forgotPassword
      BY <3>1, MailUses DEF forgotPassword, sendPasswordReset
    <3>2. CASE TokenExpires
      BY <3>2, TypedParts DEF TokenExpires
    <3>3. CASE DeleteExpiredAuthTokens
      BY <3>3 DEF DeleteExpiredAuthTokens
    <3> QED  BY <1>9, <3>1, <3>2, <3>3 DEF LockExpires, logout, vars
  <2>3. ASSUME NEW t \in Tokens
        PROVE  UsesExplained(t)'
    <3>1. PICK r : r \in Requests
      BY SetsAssumption
    <3>2. /\ OthersSame(r) /\ UsesExplained(t)
          /\ Opening(t)' = Opening(t) /\ Holders(t)' = Holders(t)
      BY <2>1 DEF OthersSame, TokenInv, Opening, Holders
    <3>3. CASE tokens'[t] \in {tokens[t], None}
      BY <3>1, <3>2, <3>3, UsesKept
    <3>4. CASE tokens[t] # None /\ tokens'[t] = [tokens[t] EXCEPT !.live = FALSE]
      <4>1. tokens[t] \in Token
        BY <3>4 DEF TypeOK
      <4>2. /\ tokens'[t].uses = tokens[t].uses /\ tokens'[t].stuck = tokens[t].stuck
            /\ tokens'[t].live = FALSE
        BY <3>4, <4>1 DEF Token
      <4> QED  BY <3>1, <3>2, <3>4, <4>2, UsesKept
    <3>5. CASE \E kind : tokens'[t] = NewToken(kind)
      BY <3>1, <3>2, <3>5, NewUses
    <3> QED  BY <2>2, <3>3, <3>4, <3>5
  <2> QED  BY <2>3 DEF TokenInv
<1> QED  BY <1>1, <1>2, <1>3, <1>4, <1>5, <1>6, <1>7, <1>8, <1>9 DEF Next

(***************************************************************************)
(* The theorems.                                                           *)
(***************************************************************************)
IInv == TypeOK /\ KnowInv /\ RevokeInv /\ GuessInv /\ TokenInv

LEMMA InitInv == Init => IInv
<1> SUFFICES ASSUME Init PROVE IInv
  OBVIOUS
<1>1. TypeOK
  BY InitTyped
<1>2. Live = {} /\ \A r \in Requests : req[r].shown = NothingShown /\ req[r].pc = "idle"
  BY IdleTyped DEF Init, Live
<1>3. KnowInv
  BY <1>2 DEF Init, KnowInv, AccountOrder, Within, Proven, NothingShown
<1>4. RevokeInv
  BY <1>2 DEF RevokeInv, OldPasswordsInFlightOnly, Holding
<1>5. GuessInv
  BY AttemptsAssumption DEF Init, GuessInv
<1>6. TokenInv
  BY DEF Init, TokenInv, UsesExplained
<1> QED  BY <1>1, <1>3, <1>4, <1>5, <1>6 DEF IInv

LEMMA StepInv == IInv /\ [Next]_vars => IInv'
BY StepTyped, KnowInvStep, RevokeInvStep, GuessInvStep, TokenInvStep DEF IInv

LEMMA Invariant == Spec => []IInv
<1> QED  BY InitInv, StepInv, PTL DEF Spec

\* Once the setting of a password has ended sessions, only a login that had read the
\* account before that is let in by an older one.
THEOREM OldPasswordsEnd == Spec => []OldPasswordsInFlightOnly
<1>1. IInv => OldPasswordsInFlightOnly
  BY DEF IInv, RevokeInv
<1> QED  BY <1>1, Invariant, PTL

\* Nobody holds a session under the second factor in force without its code.
THEOREM SecondFactorHolds == Spec => []SecondFactorShown
<1>1. IInv => SecondFactorShown
  BY DEF IInv, KnowInv, Proven, SecondFactorShown
<1> QED  BY <1>1, Invariant, PTL

\* However many passwords and codes are tried at once, the failures recorded before a
\* success or the end of a lock exceed the limit by those requests at most.
THEOREM GuessesLimited == Spec => []GuessesBounded
<1>1. ASSUME IInv PROVE GuessesBounded
  <2>1. /\ account.guesses \in Nat /\ account.failures \in 0..MaxLoginAttempts
        /\ MaxLoginAttempts \in Nat
    BY <1>1, AttemptsAssumption DEF IInv, TypeOK, Account
  <2>2. Cardinality(Guessing) \in Nat /\ Cardinality(Requests) \in Nat
    BY Counted DEF Guessing
  <2>3. Cardinality(Requests) # 0
    BY SetsAssumption, FS_EmptySet
  <2>4. CASE account.locked
    <3>1. account.guesses + Cardinality(Guessing) <= MaxLoginAttempts + Cardinality(Requests) - 1
      BY <1>1, <2>4 DEF IInv, GuessInv
    <3> QED  BY <2>1, <2>2, <3>1 DEF GuessesBounded
  <2>5. CASE ~account.locked
    <3>1. account.guesses <= account.failures
      BY <1>1, <2>5 DEF IInv, GuessInv
    <3> QED  BY <2>1, <2>2, <2>3, <3>1 DEF GuessesBounded
  <2> QED  BY <2>4, <2>5
<1> QED  BY <1>1, Invariant, PTL

\* A mailed link makes no more changes than requests can have it open at once.
THEOREM TokenUsesLimited == Spec => []TokenUsesBounded
<1>1. ASSUME IInv PROVE TokenUsesBounded
  <2> SUFFICES ASSUME NEW t \in Tokens, tokens[t] # None, ~tokens[t].stuck
               PROVE  tokens[t].uses <= Cardinality(Requests)
    BY DEF TokenUsesBounded
  <2>1. tokens[t].uses + Cardinality(Opening(t)) <= Cardinality(Requests)
    BY <1>1 DEF IInv, TokenInv, UsesExplained
  <2>2. Cardinality(Opening(t)) \in Nat /\ Cardinality(Requests) \in Nat
    BY Counted DEF Opening
  <2>3. tokens[t].uses \in Nat
    BY <1>1, <2>2 DEF IInv, TypeOK, Token
  <2> QED  BY <2>1, <2>2, <2>3
<1> QED  BY <1>1, Invariant, PTL

=============================================================================
