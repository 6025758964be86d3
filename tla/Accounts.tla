------------------------------- MODULE Accounts -------------------------------
(***************************************************************************)
(* Accounts, logins and sessions of the dashboard: the tables users,       *)
(* sessions and mfa_pending and the setting self_signup_enabled, under     *)
(* requests that run at once.  A request is a handler of main.rs; each of  *)
(* its steps is one statement, nothing holds a transaction across two of   *)
(* them, and a request may end after any step (a statement fails, the      *)
(* client hangs up, the server dies).                                      *)
(*                                                                         *)
(* Passwords, codes and the directory's answers are not kept: a check of   *)
(* one either succeeds or ends the request.  A session or pending token is *)
(* fresh and is named by a number; so is a TOTP secret.                    *)
(***************************************************************************)
EXTENDS Integers, FiniteSets

CONSTANTS
  Requests,     \* requests the server handles at once
  Names,        \* usernames
  None,         \* no row, no value
  MaxUsers, MaxTokens, MaxSecrets,   \* bounds: ids and random values handed out
  MaxRequests   \* bound: requests made

ASSUME AccountsAssumption ==
  /\ None \notin Names /\ IsFiniteSet(Requests)
  /\ MaxUsers \in Nat \ {0} /\ MaxTokens \in Nat \ {0} /\ MaxSecrets \in Nat \ {0}
  /\ MaxRequests \in Nat

Ids == 1 .. MaxUsers
Tokens == 1 .. MaxTokens
Secrets == 1 .. MaxSecrets
Roles == {"admin", "user"}   \* an auditor is a user to all of this

(* A row of users.                                                         *)
UserRow == [name : Names, role : Roles, source : {"local", "ldap"},
            mustChange : BOOLEAN, secret : Secrets \cup {None}, mfa : BOOLEAN]
ASSUME NoneIsNoRow == None \notin UserRow /\ None \notin Int /\ None \notin STRING

(* The statement a request is at and its locals.                           *)
Statements == {
  "idle", "signup:count", "signup:create", "signup:insert", "signup:close",
  "login:directory", "login:provision", "login:grant",
  "verify:code", "verify:consume", "verify:grant",
  "setup:store", "confirm:code", "confirm:enable", "disable:clear",
  "change:update", "change:delete", "change:create",
  "create:insert", "delete:sessions", "delete:user", "settings:store"}
Request == [at : Statements, name : Names \cup {None}, user : Ids \cup {None},
            token : Int \cup {None}, secret : Secrets \cup {None},
            role : Roles \cup {None}, flag : BOOLEAN]

(* A row of sessions or mfa_pending.                                       *)
TokenRow == [token : Tokens, user : Ids, expired : BOOLEAN]

VARIABLES
  users,        \* users[i]: the row with id i, or None
  lastId,       \* the AUTO_INCREMENT counter of users
  selfSignup,   \* settings.self_signup_enabled
  sessions, pending,   \* the rows of sessions and of mfa_pending
  lastToken, lastSecret,
  req,          \* req[r]: the statement request r is at, and its locals
  begun,        \* requests made so far
  \* history, read by properties only
  granted,      \* granted[t]: sessions granted through the pending token t
  proven,       \* secrets that a code was accepted for while they were set up
  raced,        \* ids whose secret was stored or removed during a confirmation
  unread,       \* signups that could not read the setting
  wasOpen,      \* signups during which signup was open
  wasEmpty,     \* signups during which there was no user
  wasOff,       \* logins during which their account had MFA off
  overlapped    \* pending tokens that two requests have answered at once

tables == <<users, lastId, selfSignup, sessions, pending>>
supply == <<lastToken, lastSecret>>
proofs == <<granted, proven, raced>>
windows == <<unread, wasOpen, wasEmpty, wasOff, overlapped>>
vars == <<tables, supply, req, begun, proofs, windows>>

Idle == [at |-> "idle", name |-> None, user |-> None, token |-> None,
         secret |-> None, role |-> None, flag |-> FALSE]

Present == {i \in Ids : users[i] # None}
Taken(name) == \E i \in Present : users[i].name = name
NewRow(name, role, source, mustChange) ==
  [name |-> name, role |-> role, source |-> source, mustChange |-> mustChange,
   secret |-> None, mfa |-> FALSE]

(* A fresh installation, and one in use: an administrator who is logged in *)
(* and a second account whose owner has set up MFA and may be logged in.   *)
Established(a, b) ==
  [i \in Ids |-> CASE i = 1 -> NewRow(a, "admin", "local", FALSE)
                   [] i = 2 -> [NewRow(b, "user", "local", FALSE)
                                  EXCEPT !.secret = 1, !.mfa = TRUE]
                   [] OTHER -> None]

Fresh ==
  /\ users = [i \in Ids |-> None] /\ lastId = 0 /\ selfSignup = TRUE
  /\ sessions = {} /\ lastToken = 0 /\ lastSecret = 0 /\ proven = {}

InUse ==
  /\ MaxUsers >= 2 /\ MaxTokens >= 2
  /\ \E a, b \in Names : a # b /\ users = Established(a, b)
  /\ lastId = 2 /\ selfSignup = FALSE
  /\ lastToken \in 1 .. 2
  /\ sessions = {[token |-> i, user |-> i, expired |-> FALSE] : i \in 1 .. lastToken}
  /\ lastSecret = 1 /\ proven = {1}

Init ==
  /\ Fresh \/ InUse
  /\ pending = {} /\ raced = {}
  /\ granted = [t \in Tokens |-> 0]
  /\ req = [r \in Requests |-> Idle] /\ begun = 0
  /\ unread = {} /\ wasOpen = {} /\ wasEmpty = {} /\ wasOff = {}
  /\ overlapped = {}

-----------------------------------------------------------------------------
(* Requests.                                                               *)

Begins(r, state) ==
  /\ req[r] = Idle /\ begun < MaxRequests
  /\ req' = [req EXCEPT ![r] = state] /\ begun' = begun + 1

Reaches(r, at) == req' = [req EXCEPT ![r].at = at] /\ UNCHANGED begun
Ends(r) == req' = [req EXCEPT ![r] = Idle] /\ UNCHANGED begun

(* A statement fails, the client hangs up, or the server dies: the steps   *)
(* made so far stay.  Also every early return that changes nothing.        *)
Breaks(r) ==
  /\ req[r] # Idle
  /\ Ends(r) /\ UNCHANGED <<tables, supply, proofs>>

(* INSERT INTO sessions or mfa_pending: the foreign key wants the user.    *)
NewToken == lastToken + 1
Granted(i) == sessions \cup {[token |-> NewToken, user |-> i, expired |-> FALSE]}

CreateSession(i) ==
  /\ i \in Present /\ lastToken < MaxTokens
  /\ sessions' = Granted(i) /\ lastToken' = NewToken

-----------------------------------------------------------------------------
(* Signup: read the setting, count, then create_user.                      *)

SignupBegins(r, name) ==
  /\ Begins(r, [Idle EXCEPT !.at = "signup:count", !.name = name, !.flag = selfSignup])
  /\ unread' = unread \ {r}
  /\ UNCHANGED <<tables, supply, proofs>>

(* The setting cannot be read: unwrap_or(true).                            *)
SignupUnread(r, name) ==
  /\ Begins(r, [Idle EXCEPT !.at = "signup:count", !.name = name, !.flag = TRUE])
  /\ unread' = unread \cup {r}
  /\ UNCHANGED <<tables, supply, proofs>>

Refused(r) == Present # {} /\ ~req[r].flag

SignupCounts(r) ==
  /\ req[r].at = "signup:count" /\ ~Refused(r)
  /\ Reaches(r, "signup:create")
  /\ UNCHANGED <<tables, supply, proofs>>

(* create_user counts once more: the first account is the administrator.   *)
BugIsBootstrap == Cardinality(Present) <= 1
IsBootstrap == Present = {}

CreateUserCounts(r) ==
  /\ req[r].at = "signup:create"
  /\ req' = [req EXCEPT ![r].at = "signup:insert",
                        ![r].role = IF IsBootstrap THEN "admin" ELSE "user"]
  /\ UNCHANGED <<tables, supply, proofs, begun>>

(* INSERT INTO users: the UNIQUE name, the next id.                        *)
AddUser(row) ==
  /\ ~Taken(row.name) /\ lastId < MaxUsers
  /\ users' = [users EXCEPT ![lastId + 1] = row]
  /\ lastId' = lastId + 1

CreateUserInserts(r) ==
  /\ req[r].at = "signup:insert"
  /\ AddUser(NewRow(req[r].name, req[r].role, "local", FALSE))
  /\ IF req[r].role = "admin" THEN Reaches(r, "signup:close") ELSE Ends(r)
  /\ UNCHANGED <<selfSignup, sessions, pending, supply, proofs>>

CreateUserCloses(r) ==
  /\ req[r].at = "signup:close"
  /\ selfSignup' = FALSE /\ Ends(r)
  /\ UNCHANGED <<users, lastId, sessions, pending, supply, proofs>>

-----------------------------------------------------------------------------
(* Login.                                                                  *)

Unknown(name) == ~Taken(name)

BugMfaOf(i) == users[i].source = "local" /\ users[i].mfa
MfaOf(i) == users[i].mfa

(* get_user_for_login; a local account's password is checked against the   *)
(* row read here.                                                          *)
LoginBegins(r, name) ==
  /\ \/ \E i \in Present :
          /\ users[i].name = name
          /\ Begins(r, [Idle EXCEPT !.at = IF users[i].source = "local"
                                           THEN "login:grant" ELSE "login:directory",
                                    !.name = name, !.user = i, !.flag = MfaOf(i)])
     \/ /\ Unknown(name)
        /\ Begins(r, [Idle EXCEPT !.at = "login:provision", !.name = name])
  /\ UNCHANGED <<tables, supply, proofs>>

(* The directory has verified the password and says whether the user is an *)
(* administrator; update_ldap_user_role.                                   *)
Synced(i, role) == IF users[i].source = "ldap" THEN [users[i] EXCEPT !.role = role]
                                               ELSE users[i]
LoginSyncsRole(r, role) ==
  /\ req[r].at = "login:directory"
  /\ users' = IF req[r].user \in Present
                THEN [users EXCEPT ![req[r].user] = Synced(req[r].user, role)] ELSE users
  /\ Reaches(r, "login:grant")
  /\ UNCHANGED <<lastId, selfSignup, sessions, pending, supply, proofs>>

(* No such account: the directory has verified the password, and           *)
(* create_ldap_user is a plain INSERT that fails on a name taken meanwhile.*)
LoginProvisions(r, role) ==
  /\ req[r].at = "login:provision"
  /\ AddUser(NewRow(req[r].name, role, "ldap", FALSE))
  /\ req' = [req EXCEPT ![r].at = "login:grant", ![r].user = lastId + 1]
  /\ UNCHANGED <<selfSignup, sessions, pending, supply, proofs, begun>>

(* No MFA as read at the beginning: finish_login.                          *)
LoginGrants(r) ==
  /\ req[r].at = "login:grant" /\ ~req[r].flag
  /\ CreateSession(req[r].user) /\ Ends(r)
  /\ UNCHANGED <<users, lastId, selfSignup, pending, lastSecret, proofs>>

LoginAsksForCode(r) ==
  /\ req[r].at = "login:grant" /\ req[r].flag
  /\ req[r].user \in Present /\ lastToken < MaxTokens
  /\ pending' = pending \cup {[token |-> NewToken, user |-> req[r].user, expired |-> FALSE]}
  /\ lastToken' = NewToken /\ Ends(r)
  /\ UNCHANGED <<users, lastId, selfSignup, sessions, lastSecret, proofs>>

-----------------------------------------------------------------------------
(* The second factor: mfa_login_verify.                                    *)

VerifyBegins(r) ==
  /\ \E p \in pending :
       /\ ~p.expired
       /\ Begins(r, [Idle EXCEPT !.at = "verify:code", !.user = p.user, !.token = p.token])
  /\ UNCHANGED <<tables, supply, proofs>>

(* get_mfa_secret, and the code fits it; no secret refuses.                *)
VerifyChecksCode(r) ==
  /\ req[r].at = "verify:code"
  /\ req[r].user \in Present /\ users[req[r].user].secret # None
  /\ Reaches(r, "verify:consume")
  /\ UNCHANGED <<tables, supply, proofs>>

(* DELETE FROM mfa_pending; that it may find nothing is not looked at.     *)
BugWithoutToken(t) == {p \in pending : p.token # t \/ p.user # None}
WithoutToken(t) == {p \in pending : p.token # t}
VerifyConsumes(r) ==
  /\ req[r].at = "verify:consume"
  /\ pending' = WithoutToken(req[r].token)
  /\ Reaches(r, "verify:grant")
  /\ UNCHANGED <<users, lastId, selfSignup, sessions, supply, proofs>>

VerifyGrants(r) ==
  /\ req[r].at = "verify:grant"
  /\ CreateSession(req[r].user) /\ Ends(r)
  /\ granted' = [granted EXCEPT ![req[r].token] = @ + 1]
  /\ UNCHANGED <<users, lastId, selfSignup, pending, lastSecret, proven, raced>>

-----------------------------------------------------------------------------
(* Requests of a session.  AuthUser looks the session and its user up; a   *)
(* temporary password allows nothing but changing it.                      *)

Authenticated(s) == s \in sessions /\ ~s.expired /\ s.user \in Present
MayAct(s) == Authenticated(s) /\ ~users[s.user].mustChange
IsAdmin(s) == MayAct(s) /\ users[s.user].role = "admin"

Acts(r, s, at) ==
  /\ Begins(r, [Idle EXCEPT !.at = at, !.user = s.user, !.token = s.token])
  /\ UNCHANGED <<tables, supply, proofs>>

(* mfa_setup: a fresh secret, and MFA is off until it is confirmed.        *)
SetupBegins(r) == \E s \in sessions : MayAct(s) /\ Acts(r, s, "setup:store")

(* Another request, about to switch MFA on for the secret it has read, is  *)
(* still under way when that secret is replaced or removed.                *)
Confirming(i) ==
  i \in Present /\ \E q \in Requests : req[q].at = "confirm:enable" /\ req[q].user = i
Overtakes(i) == raced' = IF Confirming(i) THEN raced \cup {i} ELSE raced \ {i}

BugWithSecret(row, secret) == [row EXCEPT !.secret = secret]
WithSecret(row, secret) == [row EXCEPT !.secret = secret, !.mfa = FALSE]

SetupStores(r) ==
  /\ req[r].at = "setup:store" /\ lastSecret < MaxSecrets
  /\ lastSecret' = lastSecret + 1
  /\ users' = IF req[r].user \in Present
                THEN [users EXCEPT ![req[r].user] = WithSecret(@, lastSecret + 1)] ELSE users
  /\ Overtakes(req[r].user)
  /\ Ends(r)
  /\ UNCHANGED <<lastId, selfSignup, sessions, pending, lastToken, granted, proven>>

(* mfa_verify_setup: the secret is read and the code fits it ...           *)
ConfirmBegins(r) == \E s \in sessions : MayAct(s) /\ Acts(r, s, "confirm:code")

ConfirmChecksCode(r) ==
  /\ req[r].at = "confirm:code"
  /\ req[r].user \in Present /\ users[req[r].user].secret # None
  /\ req' = [req EXCEPT ![r].at = "confirm:enable", ![r].secret = users[req[r].user].secret]
  /\ proven' = proven \cup {users[req[r].user].secret}
  /\ UNCHANGED <<tables, supply, begun, granted, raced>>

(* ... and confirm_mfa_enabled switches MFA on by id, whatever the secret  *)
(* is by now.                                                              *)
ConfirmEnables(r) ==
  /\ req[r].at = "confirm:enable" /\ req[r].user \in Present
  /\ users' = [users EXCEPT ![req[r].user].mfa = TRUE]
  /\ Ends(r)
  /\ UNCHANGED <<lastId, selfSignup, sessions, pending, supply, proofs>>

(* mfa_disable: the password fits the hash.  That of a directory account   *)
(* is a sentinel nothing fits.                                             *)
HasPassword(i) == users[i].source = "local"
DisableBegins(r) ==
  \E s \in sessions : MayAct(s) /\ HasPassword(s.user) /\ Acts(r, s, "disable:clear")

DisableClears(r) ==
  /\ req[r].at = "disable:clear"
  /\ users' = IF req[r].user \in Present
                THEN [users EXCEPT ![req[r].user].secret = None, ![req[r].user].mfa = FALSE]
                ELSE users
  /\ Overtakes(req[r].user)
  /\ Ends(r)
  /\ UNCHANGED <<lastId, selfSignup, sessions, pending, supply, granted, proven>>

(* change_password: update the hash, delete the session of the request,    *)
(* create a new one.                                                       *)
ChangeBegins(r) ==
  \E s \in sessions :
    Authenticated(s) /\ HasPassword(s.user) /\ Acts(r, s, "change:update")

ChangeUpdates(r) ==
  /\ req[r].at = "change:update"
  /\ users' = IF req[r].user \in Present
                THEN [users EXCEPT ![req[r].user].mustChange = FALSE] ELSE users
  /\ Reaches(r, "change:delete")
  /\ UNCHANGED <<lastId, selfSignup, sessions, pending, supply, proofs>>

WithoutSession(t) == {s \in sessions : s.token # t}

ChangeDeletes(r) ==
  /\ req[r].at = "change:delete"
  /\ sessions' = WithoutSession(req[r].token)
  /\ Reaches(r, "change:create")
  /\ UNCHANGED <<users, lastId, selfSignup, pending, supply, proofs>>

ChangeCreates(r) ==
  /\ req[r].at = "change:create"
  /\ CreateSession(req[r].user) /\ Ends(r)
  /\ UNCHANGED <<users, lastId, selfSignup, pending, lastSecret, proofs>>

(* logout deletes the session; its other statement only reads, for the     *)
(* audit trail, so it takes one step.                                      *)
Logout ==
  /\ begun < MaxRequests /\ begun' = begun + 1
  /\ \E s \in sessions : sessions' = WithoutSession(s.token)
  /\ UNCHANGED <<users, lastId, selfSignup, pending, supply, req, proofs>>

-----------------------------------------------------------------------------
(* The administrator.                                                      *)

(* admin_create_user: a temporary password, which must be changed.         *)
AdminCreateBegins(r, name, role) ==
  /\ \E s \in sessions :
       /\ IsAdmin(s)
       /\ Begins(r, [Idle EXCEPT !.at = "create:insert", !.name = name, !.role = role])
  /\ UNCHANGED <<tables, supply, proofs>>

AdminCreateInserts(r) ==
  /\ req[r].at = "create:insert"
  /\ AddUser(NewRow(req[r].name, req[r].role, "local", TRUE)) /\ Ends(r)
  /\ UNCHANGED <<selfSignup, sessions, pending, supply, proofs>>

(* admin_delete_user: `user` is the account to delete, `token` who asked.  *)
BugDeletable(i, admin) == TRUE
Deletable(i, admin) == i # admin

AdminDeleteBegins(r, i) ==
  /\ \E s \in sessions :
       /\ IsAdmin(s) /\ Deletable(i, s.user)
       /\ Begins(r, [Idle EXCEPT !.at = "delete:sessions", !.user = i, !.token = s.user])
  /\ UNCHANGED <<tables, supply, proofs>>

DeleteUserSessions(r) ==
  /\ req[r].at = "delete:sessions"
  /\ sessions' = {s \in sessions : s.user # req[r].user}
  /\ Reaches(r, "delete:user")
  /\ UNCHANGED <<users, lastId, selfSignup, pending, supply, proofs>>

(* The foreign keys of sessions and mfa_pending refuse while a row of      *)
(* either is left, expired or not.                                         *)
BugReferenced(i) == \E s \in sessions : s.user = i
Referenced(i) == \E s \in sessions \cup pending : s.user = i

DeleteUserRow(r) ==
  /\ req[r].at = "delete:user" /\ ~Referenced(req[r].user)
  /\ users' = [users EXCEPT ![req[r].user] = None] /\ Ends(r)
  /\ raced' = raced \ {req[r].user}
  /\ UNCHANGED <<lastId, selfSignup, sessions, pending, supply, granted, proven>>

(* update_settings, the statement of it that matters here.                 *)
SettingsBegin(r, open) ==
  /\ \E s \in sessions :
       /\ IsAdmin(s)
       /\ Begins(r, [Idle EXCEPT !.at = "settings:store", !.flag = open])
  /\ UNCHANGED <<tables, supply, proofs>>

SettingsStore(r) ==
  /\ req[r].at = "settings:store"
  /\ selfSignup' = req[r].flag /\ Ends(r)
  /\ UNCHANGED <<users, lastId, sessions, pending, supply, proofs>>

-----------------------------------------------------------------------------
(* Time: a session lasts 24 hours and a pending login five minutes; the    *)
(* hourly loop purges what has expired.                                    *)

Expired(row) == [row EXCEPT !.expired = TRUE]

SessionExpires ==
  /\ \E s \in sessions : ~s.expired /\ sessions' = (sessions \ {s}) \cup {Expired(s)}
  /\ UNCHANGED <<users, lastId, selfSignup, pending, supply, req, begun, proofs>>

PendingExpires ==
  /\ \E p \in pending : ~p.expired /\ pending' = (pending \ {p}) \cup {Expired(p)}
  /\ UNCHANGED <<users, lastId, selfSignup, sessions, supply, req, begun, proofs>>

PurgeSessions ==
  /\ \E s \in sessions : s.expired
  /\ sessions' = {s \in sessions : ~s.expired}
  /\ UNCHANGED <<users, lastId, selfSignup, pending, supply, req, begun, proofs>>

PurgePending ==
  /\ \E p \in pending : p.expired
  /\ pending' = {p \in pending : ~p.expired}
  /\ UNCHANGED <<users, lastId, selfSignup, sessions, supply, req, begun, proofs>>

-----------------------------------------------------------------------------

SignupArrives(r) == \E name \in Names : SignupBegins(r, name) \/ SignupUnread(r, name)

Signup(r) ==
  \/ SignupCounts(r) \/ CreateUserCounts(r) \/ CreateUserInserts(r) \/ CreateUserCloses(r)

Login(r) ==
  \/ \E name \in Names : LoginBegins(r, name)
  \/ \E role \in Roles : LoginSyncsRole(r, role) \/ LoginProvisions(r, role)
  \/ LoginGrants(r) \/ LoginAsksForCode(r)

Verify(r) == VerifyBegins(r) \/ VerifyChecksCode(r) \/ VerifyConsumes(r) \/ VerifyGrants(r)

Mfa(r) ==
  \/ SetupBegins(r) \/ SetupStores(r)
  \/ ConfirmBegins(r) \/ ConfirmChecksCode(r) \/ ConfirmEnables(r)
  \/ DisableBegins(r) \/ DisableClears(r)

ChangePassword(r) ==
  \/ ChangeBegins(r) \/ ChangeUpdates(r) \/ ChangeDeletes(r) \/ ChangeCreates(r)

Admin(r) ==
  \/ \E name \in Names, role \in Roles : AdminCreateBegins(r, name, role)
  \/ AdminCreateInserts(r)
  \/ \E i \in Ids : AdminDeleteBegins(r, i)
  \/ DeleteUserSessions(r) \/ DeleteUserRow(r)
  \/ \E open \in BOOLEAN : SettingsBegin(r, open)
  \/ SettingsStore(r)

Time == SessionExpires \/ PendingExpires \/ PurgeSessions \/ PurgePending

(* The history of the requests in flight: what held at some moment since a *)
(* signup or a login began, and which pending logins two requests answer   *)
(* at once.                                                                *)
SignupSteps == {"signup:count", "signup:create", "signup:insert"}
LoginSteps == {"login:grant", "login:directory"}
VerifySteps == {"verify:code", "verify:consume", "verify:grant"}
At(steps) == {r \in Requests : req[r].at \in steps}

Observe ==
  /\ wasOpen' = {r \in At(SignupSteps)' : r \in wasOpen \/ selfSignup'}
  /\ wasEmpty' = {r \in At(SignupSteps)' : r \in wasEmpty \/ Present' = {}}
  /\ wasOff' = {r \in At(LoginSteps)' :
       LET i == req'[r].user IN
       r \in wasOff \/ (users'[i] # None /\ ~users'[i].mfa)}
  /\ overlapped' = {t \in Tokens :
       t \in overlapped \/ \E q, r \in At(VerifySteps)' : q # r /\ req'[q].token = t /\ req'[r].token = t}

Step ==
  \/ \E r \in Requests :
       Signup(r) \/ Login(r) \/ Verify(r) \/ Mfa(r) \/ ChangePassword(r) \/ Admin(r) \/ Breaks(r)
  \/ Logout \/ Time

Next ==
  /\ (Step /\ unread' = {r \in unread : req'[r] # Idle}) \/ \E r \in Requests : SignupArrives(r)
  /\ Observe

Spec == Init /\ [][Next]_vars

-----------------------------------------------------------------------------
(* Properties.                                                             *)

TypeOK ==
  /\ users \in [Ids -> UserRow \cup {None}] /\ lastId \in 0 .. MaxUsers
  /\ selfSignup \in BOOLEAN
  /\ sessions \subseteq TokenRow /\ pending \subseteq TokenRow
  /\ lastToken \in 0 .. MaxTokens /\ lastSecret \in 0 .. MaxSecrets
  /\ req \in [Requests -> Request]
  /\ begun \in 0 .. MaxRequests
  /\ granted \in [Tokens -> Nat] /\ proven \subseteq Secrets /\ raced \subseteq Ids
  /\ \A observed \in {unread, wasOpen, wasEmpty, wasOff} : observed \subseteq Requests
  /\ overlapped \subseteq Tokens

(* Whatever is deleted while a login, a code check or a password change is *)
(* under way, no session and no pending login outlives its account.        *)
NoOrphans == \A s \in sessions \cup pending : s.user \in Present

(* A pending login grants a second session only if two answers to it were  *)
(* under way at once: an answer that begins after another was accepted     *)
(* does not find the token.  The comment of delete_mfa_pending             *)
(* (db.rs:873-875) promises more, that the token "can't be reused for a    *)
(* second session" at all.  But nobody looks at whether the DELETE found   *)
(* the row, so two answers that overlap are both granted a session.        *)
SecondSessionOverlapped == \A t \in Tokens : granted[t] > 1 => t \in overlapped

(* An account with MFA on can be entered with its present secret, for a    *)
(* code of that secret was accepted once; unless that secret was stored,   *)
(* or the secret removed, while a confirmation of an earlier one was       *)
(* between its check of the code and its switch.  The comment of           *)
(* set_pending_mfa_secret (db.rs:780-783) makes no such exception: MFA     *)
(* "stays FALSE until" a code of the stored secret has matched, so that    *)
(* nobody is locked out.  The switch is by id alone, so it does.           *)
EnabledIsProven ==
  \A i \in Present : users[i].mfa => users[i].secret \in proven \/ i \in raced

(* Nobody signs up for an account while signup is closed and there are     *)
(* users, except one whose read of the setting failed; and whoever signs   *)
(* up as an administrator did so while there was no user at all.  So all   *)
(* that the statements of a signup can be overtaken by happens before the  *)
(* first of them has returned.                                             *)
SignupWasAllowed ==
  [][\A r \in Requests : CreateUserInserts(r) =>
       /\ r \in wasOpen \cup wasEmpty \cup unread
       /\ req[r].role = "admin" => r \in wasEmpty]_vars

(* A login that grants a session without a code is one during which the    *)
(* account had MFA off, whichever way the password was checked.            *)
SecondFactorAsked == [][\A r \in Requests : LoginGrants(r) => r \in wasOff]_vars

(* The last account is deleted only at the request of an administrator     *)
(* whose own account was deleted after the request was authenticated: one  *)
(* administrator at a time never locks everybody out.                      *)
LastAccountStays ==
  [][Present # {} /\ Present' = {} =>
       \E r \in Requests : req[r].at = "delete:user" /\ req[r].token \notin Present]_vars
=============================================================================
