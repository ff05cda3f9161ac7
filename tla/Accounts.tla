------------------------------ MODULE Accounts ------------------------------
(***************************************************************************)
(* One account: its password, second factor, lockout and status, the       *)
(* sessions that carry it and the one-time links mailed for it             *)
(* (handlers/auth.go, handlers/account.go, handlers/middleware.go,         *)
(* store/users.go, store/sessions.go, store/auth_tokens.go).               *)
(*                                                                         *)
(* A request reads the session and the user once, works on that copy and   *)
(* writes with one statement at a time; others run between its statements, *)
(* and it may end after any of them.  A password, a secret and a row are   *)
(* known by a number, never by their content.  Anonymous sessions carry    *)
(* nothing of the account: None stands for one.                            *)
(*                                                                         *)
(* A definition X_fault just before X is X with a plausible bug in it.  No *)
(* action uses it; it is put in X's place to see a property fail.          *)
(***************************************************************************)
EXTENDS Integers, FiniteSets

CONSTANTS
  Requests,          \* requests handled at once
  Sessions,          \* bound: live sessions the account may have
  Tokens,            \* bound: one-time tokens kept at once
  MaxLoginAttempts,  \* MaxLoginAttempts of the configuration
  MaxPasswords,      \* bound: passwords the account ever has
  MaxEnrolments,     \* bound: times a second factor is enabled
  None

ASSUME SetsAssumption ==
  /\ IsFiniteSet(Requests) /\ Requests # {}
  /\ None \notin Sessions /\ None \notin Tokens
ASSUME AttemptsAssumption == MaxLoginAttempts \in Nat \ {0}
ASSUME BoundsAssumption == MaxPasswords \in Nat /\ MaxEnrolments \in Nat

VARIABLES
  account,   \* the users row
  sessions,  \* the live sessions rows of the account
  tokens,    \* the auth_tokens rows of the account
  req        \* what each request has read and is about to do

vars == <<account, sessions, tokens, req>>

\* password counts the passwords the account has had, 0 before it is registered;
\* totp is the number of the secret in force, 0 for none.  Not in the row: revoked,
\* the latest password whose setting has ended sessions; enrolments, the secrets
\* there have been; guesses, the failures recorded since the last success or the
\* last time a lock ran out.
Account == [password : Nat, totp : Nat, failures : 0..MaxLoginAttempts, locked : BOOLEAN,
            revoked : Nat, enrolments : Nat, guesses : Nat]

\* What the one who holds a session has shown: the password and the secret, and
\* (not in the row) what was revoked and enrolled when the login read the account.
Shown == [password : Nat, factor : Nat, revokedThen : Nat, enrolledThen : Nat]
NothingShown == [password |-> 0, factor |-> 0, revokedThen |-> 0, enrolledThen |-> 0]

\* issued is what was revoked when the row was inserted.
Session == [shown : Shown, issued : Nat]

\* live means neither used nor expired.  Not in the row: uses, the changes made on
\* the strength of the token; stuck, whether one went unmarked.
Token == [kind : {"email_verification", "password_reset"},
          live : BOOLEAN, stuck : BOOLEAN, uses : 0..(Cardinality(Requests) + 1)]

\* No row is no row.
ASSUME NoneAssumption == None \notin Session /\ None \notin Token

Idle == [pc |-> "idle", sess |-> None, shown |-> NothingShown, token |-> None]
Request == [pc : {"idle", "user", "fail", "code", "admit", "welcome", "rotate",
                  "change", "others", "enable", "disable", "mail",
                  "reset", "verify", "spend", "all"},
            sess : Sessions \cup {None}, shown : Shown, token : Tokens \cup {None}]

TypeOK ==
  /\ account \in Account
  /\ sessions \in [Sessions -> Session \cup {None}]
  /\ tokens \in [Tokens -> Token \cup {None}]
  /\ req \in [Requests -> Request]
  /\ \A r \in Requests : req[r].pc \in {"reset", "verify", "spend"} =>
       req[r].token \in Tokens /\ tokens[req[r].token] # None

Init ==
  /\ account = [password |-> 0, totp |-> 0, failures |-> 0, locked |-> FALSE,
                revoked |-> 0, enrolments |-> 0, guesses |-> 0]
  /\ sessions = [s \in Sessions |-> None]
  /\ tokens = [t \in Tokens |-> None]
  /\ req = [r \in Requests |-> Idle]

Live == {s \in Sessions : sessions[s] # None}
Registered == account.password > 0

\* A request that has nothing left to write.
Done(r) == req' = [req EXCEPT ![r] = Idle]
GoTo(r, pc) == req' = [req EXCEPT ![r].pc = pc]

-----------------------------------------------------------------------------
(* Statements several handlers end with.                                     *)

\* The old session is revoked in the same transaction, whether or not it still
\* was live, and a row no request knows of is inserted.
RotateSession(r) ==
  /\ req[r].pc = "rotate"
  /\ \E s \in Sessions :
       /\ \A q \in Requests : req[q].sess # s
       /\ sessions[s] = None
       /\ sessions' = [x \in Sessions |->
            CASE x = s -> [shown |-> req[r].shown, issued |-> account.revoked]
              [] x = req[r].sess -> None
              [] OTHER -> sessions[x]]
  /\ Done(r)
  /\ UNCHANGED <<account, tokens>>

NewToken_kindNotInTable(kind) ==
  [kind |-> "wallet_confirmation", live |-> TRUE, stuck |-> FALSE, uses |-> 0]
NewToken(kind) == [kind |-> kind, live |-> TRUE, stuck |-> FALSE, uses |-> 0]

CreateAuthToken(kind) ==
  \E t \in Tokens : tokens[t] = None /\ tokens' = [tokens EXCEPT ![t] = NewToken(kind)]

\* GetAuthToken.
Opens_anyToken(t, kind) == tokens[t] # None /\ tokens[t].kind = kind
Opens(t, kind) == tokens[t] # None /\ tokens[t].kind = kind /\ tokens[t].live

\* A change made on the strength of the request's token.
Count(t) ==
  tokens' = [tokens EXCEPT ![t].uses = IF @ > Cardinality(Requests) THEN @ ELSE @ + 1]

\* UseAuthToken; its failure is logged and the request goes on.
UseAuthToken(r) ==
  LET t == req[r].token IN
  /\ req[r].pc = "spend"
  /\ \/ tokens' = [tokens EXCEPT ![t].live = FALSE]
     \/ tokens' = [tokens EXCEPT ![t].stuck = TRUE]
  /\ IF tokens[t].kind = "password_reset" THEN GoTo(r, "all") ELSE Done(r)
  /\ UNCHANGED <<account, sessions>>

-----------------------------------------------------------------------------
(* register and login.                                                       *)

\* A second account of the address is refused by the table.  The role it grants in
\* a statement of its own is asked for by no handler.
CreateUser ==
  /\ ~Registered /\ MaxPasswords > 0
  /\ account' = [account EXCEPT !.password = 1]

register(r) ==
  /\ req[r].pc = "idle" /\ CreateUser
  /\ req' = [req EXCEPT ![r] = [Idle EXCEPT !.pc = "welcome", !.shown.password = 1]]
  /\ UNCHANGED <<sessions, tokens>>

\* The link to verify the address; the handler goes on without it.
sendVerificationEmail(r) ==
  /\ req[r].pc \in {"welcome", "mail"}
  /\ CreateAuthToken("email_verification") \/ UNCHANGED tokens
  /\ IF req[r].pc = "welcome" THEN GoTo(r, "rotate") ELSE Done(r)
  /\ UNCHANGED <<account, sessions>>

NeedsCode_notFromSession(s) == account.totp # 0 /\ s = None
NeedsCode(s) == account.totp # 0

\* The row login works on.  The password is right or wrong, and login may come
\* from a session of the account.  A login refused because the account is disabled
\* is one that does not take place: nothing else reads the status.
login(r) ==
  /\ req[r].pc = "idle" /\ Registered /\ ~account.locked
  /\ \/ req' = [req EXCEPT ![r] = [Idle EXCEPT !.pc = "fail"]]
     \/ \E s \in Live \cup {None} :
          req' = [req EXCEPT ![r] =
            [pc |-> IF NeedsCode(s) THEN "code" ELSE "admit", sess |-> s, token |-> None,
             shown |-> [password |-> account.password, factor |-> 0,
                        revokedThen |-> account.revoked,
                        enrolledThen |-> account.enrolments]]]
  /\ UNCHANGED <<account, sessions, tokens>>

\* GetTOTPSecret reads the secret again: gone, it is an error.
loginCode(r) ==
  /\ req[r].pc = "code" /\ account.totp # 0
  /\ \/ req' = [req EXCEPT ![r].pc = "admit", ![r].shown.factor = account.totp]
     \/ req' = [req EXCEPT ![r] = [Idle EXCEPT !.pc = "fail"]]
  /\ UNCHANGED <<account, sessions, tokens>>

\* One statement; the comparison counts this failure.
LockedAfter_countBefore(failures) == failures >= MaxLoginAttempts
LockedAfter(failures) == failures + 1 >= MaxLoginAttempts

RecordLoginFailure(r) ==
  /\ req[r].pc = "fail"
  /\ account' = [account EXCEPT
       !.failures = IF @ < MaxLoginAttempts THEN @ + 1 ELSE @,
       !.locked = LockedAfter(account.failures) \/ @,
       !.guesses = @ + 1]
  /\ Done(r)
  /\ UNCHANGED <<sessions, tokens>>

\* locked_until passes; the count stays.
LockExpires ==
  /\ account.locked
  /\ account' = [account EXCEPT !.locked = FALSE, !.guesses = 0]
  /\ UNCHANGED <<sessions, tokens, req>>

\* SetLastLogin clears the count and the lock; its failure is logged.
SetLastLogin(r) ==
  /\ req[r].pc = "admit"
  /\ \/ account' = [account EXCEPT !.failures = 0, !.locked = FALSE, !.guesses = 0]
     \/ UNCHANGED account
  /\ GoTo(r, "rotate")
  /\ UNCHANGED <<sessions, tokens>>

-----------------------------------------------------------------------------
(* Requests of a session.                                                    *)

\* The session is read first and its user in a query of its own.
withSession(r) ==
  /\ req[r].pc = "idle"
  /\ \E s \in Live :
       req' = [req EXCEPT ![r] =
                 [pc |-> "user", sess |-> s, shown |-> sessions[s].shown, token |-> None]]
  /\ UNCHANGED <<account, sessions, tokens>>

\* passwordUpdate, mfaEnable and mfaDisable check the user that was read: the
\* current password is right; the second factor is off and the code matches the new
\* secret; the second factor is on, or there is only the session to rotate.
requireAuth(r) ==
  /\ req[r].pc = "user"
  /\ \/ GoTo(r, "change")
     \/ account.totp = 0 /\ GoTo(r, "enable")
     \/ GoTo(r, IF account.totp # 0 THEN "disable" ELSE "rotate")
  /\ UNCHANGED <<account, sessions, tokens>>

\* UpdateEmail writes the new address and clears a date that is only shown.
accountUpdate(r) ==
  /\ req[r].pc = "user"
  /\ req' = [req EXCEPT ![r] = [Idle EXCEPT !.pc = "mail"]]
  /\ UNCHANGED <<account, sessions, tokens>>

\* UpdatePassword in passwordUpdate: the session's holder knows the new one.
passwordUpdate(r) ==
  LET new == account.password + 1
      s == req[r].sess IN
  /\ req[r].pc = "change" /\ new <= MaxPasswords
  /\ account' = [account EXCEPT !.password = new]
  /\ sessions' = [x \in Sessions |-> IF x = s /\ sessions[x] # None
                                     THEN [sessions[x] EXCEPT !.shown.password = new]
                                     ELSE sessions[x]]
  /\ req' = [req EXCEPT ![r].pc = "others", ![r].shown.password = new]
  /\ UNCHANGED tokens

\* RevokeUserSessions; only a statement that succeeds revokes.
Ended_comparedWithNull(r) == IF req[r].pc = "all" THEN {} ELSE Sessions \ {req[r].sess}
Ended(r) == Sessions \ {req[r].sess}

RevokeUserSessions(r) ==
  /\ req[r].pc \in {"others", "all"}
  /\ \/ /\ sessions' = [s \in Sessions |-> IF s \in Ended(r) THEN None ELSE sessions[s]]
        /\ account' = [account EXCEPT !.revoked = IF @ < req[r].shown.password
                                                  THEN req[r].shown.password ELSE @]
     \/ UNCHANGED <<sessions, account>>
  /\ IF req[r].pc = "others" THEN GoTo(r, "rotate") ELSE Done(r)
  /\ UNCHANGED tokens

\* Whatever is stored by now.
SetTOTP(secret) == account' = [account EXCEPT !.totp = secret, !.enrolments = secret]
DisableTOTP == account' = [account EXCEPT !.totp = 0]

\* The secret comes from the form.
mfaEnable(r) ==
  LET new == account.enrolments + 1 IN
  /\ req[r].pc = "enable" /\ new <= MaxEnrolments
  /\ SetTOTP(new)
  /\ req' = [req EXCEPT ![r].pc = "rotate",
                        ![r].shown.factor = new, ![r].shown.enrolledThen = new]
  /\ UNCHANGED <<sessions, tokens>>

\* No password and no code is asked for.
mfaDisable(r) ==
  /\ req[r].pc = "disable"
  /\ DisableTOTP
  /\ GoTo(r, "rotate")
  /\ UNCHANGED <<sessions, tokens>>

RevokeSession(s) == sessions' = [sessions EXCEPT ![s] = None]

\* logout; a session that expires is one that is logged out.
logout ==
  /\ \E s \in Live : RevokeSession(s)
  /\ UNCHANGED <<account, tokens, req>>

-----------------------------------------------------------------------------
(* Requests that open a mailed link.                                         *)

sendPasswordReset == CreateAuthToken("password_reset")

\* Any number of links may be asked for.
forgotPassword ==
  /\ Registered
  /\ sendPasswordReset
  /\ UNCHANGED <<account, sessions, req>>

resetPassword(r) ==
  /\ req[r].pc = "idle"
  /\ \E t \in Tokens :
       /\ Opens(t, "password_reset")
       /\ req' = [req EXCEPT ![r] = [Idle EXCEPT !.pc = "reset", !.token = t]]
  /\ UNCHANGED <<account, sessions, tokens>>

UpdatePassword(r) ==
  LET new == account.password + 1 IN
  /\ req[r].pc = "reset" /\ new <= MaxPasswords
  /\ account' = [account EXCEPT !.password = new]
  /\ Count(req[r].token)
  /\ req' = [req EXCEPT ![r].pc = "spend", ![r].shown.password = new]
  /\ UNCHANGED sessions

verifyEmail(r) ==
  /\ req[r].pc = "idle"
  /\ \E t \in Tokens :
       /\ Opens(t, "email_verification")
       /\ req' = [req EXCEPT ![r] = [Idle EXCEPT !.pc = "verify", !.token = t]]
  /\ UNCHANGED <<account, sessions, tokens>>

\* The date it sets is only shown.
SetEmailVerified(r) ==
  /\ req[r].pc = "verify"
  /\ Count(req[r].token)
  /\ GoTo(r, "spend")
  /\ UNCHANGED <<account, sessions>>

\* expires_at passes.
TokenExpires ==
  /\ \E t \in Tokens : /\ tokens[t] # None /\ tokens[t].live
                       /\ tokens' = [tokens EXCEPT ![t].live = FALSE]
  /\ UNCHANGED <<account, sessions, req>>

\* Maintenance; a request that holds the row's id finds nothing to mark.
DeleteExpiredAuthTokens ==
  /\ tokens' = [t \in Tokens |->
       IF tokens[t] # None /\ ~tokens[t].live /\ \A r \in Requests : req[r].token # t
       THEN None ELSE tokens[t]]
  /\ UNCHANGED <<account, sessions, req>>

-----------------------------------------------------------------------------

\* A statement fails, the context ends or the process stops.
RequestAborts(r) ==
  /\ req[r].pc # "idle"
  /\ Done(r)
  /\ tokens' = [t \in Tokens |-> IF req[r].pc = "spend" /\ req[r].token = t
                                 THEN [tokens[t] EXCEPT !.stuck = TRUE] ELSE tokens[t]]
  /\ UNCHANGED <<account, sessions>>

Next ==
  \/ \E r \in Requests :
       \/ register(r) \/ sendVerificationEmail(r)
       \/ login(r) \/ loginCode(r) \/ RecordLoginFailure(r) \/ SetLastLogin(r)
       \/ RotateSession(r) \/ withSession(r) \/ requireAuth(r)
       \/ passwordUpdate(r) \/ RevokeUserSessions(r)
       \/ accountUpdate(r) \/ mfaEnable(r) \/ mfaDisable(r)
       \/ resetPassword(r) \/ UpdatePassword(r)
       \/ verifyEmail(r) \/ SetEmailVerified(r) \/ UseAuthToken(r)
       \/ RequestAborts(r)
  \/ forgotPassword \/ TokenExpires \/ DeleteExpiredAuthTokens
  \/ LockExpires \/ logout

Spec == Init /\ [][Next]_vars

-----------------------------------------------------------------------------
(* Properties.                                                               *)

\* "Password change is a privilege change: kill every session." (auth.go:502) A
\* session that has shown only an older password, once the setting of a newer one
\* has ended sessions, was inserted after that, by a request of a login that had
\* read the account before it: no session that existed then is still live, and no
\* later login is let in by the old password.
OldPasswordsInFlightOnly ==
  \A s \in Live : sessions[s].shown.password < account.revoked =>
    /\ sessions[s].issued = account.revoked
    /\ sessions[s].shown.revokedThen < account.revoked

\* A login that read the account under the enrolment still in force has shown the
\* code of its secret, and so have the sessions it was rotated into.
SecondFactorShown ==
  \A s \in Live :
    account.totp # 0 /\ sessions[s].shown.enrolledThen = account.enrolments
      => sessions[s].shown.factor = account.totp

\* Wrong passwords and codes are limited however many are tried at once: those
\* that had read the account before the lock are recorded, and no more.
GuessesBounded ==
  account.guesses <= MaxLoginAttempts + Cardinality(Requests) - 1

\* A one-time token makes no more changes than there are requests at once, as
\* nothing marks it used before the change it is for: unless a change went unmarked.
TokenUsesBounded ==
  \A t \in Tokens : tokens[t] # None /\ ~tokens[t].stuck =>
    tokens[t].uses <= Cardinality(Requests)

=============================================================================
