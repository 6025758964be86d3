----------------------------- MODULE AccountsProofs -----------------------------
(***************************************************************************)
(* Proofs about Accounts, for any number of requests that run at once:     *)
(* type correctness, that no session and no pending login outlives its     *)
(* account, that a pending login that was answered is gone, that MFA is on *)
(* only for a secret that was proven, and what signup, login and deletion  *)
(* of accounts can do to each other.                                       *)
(***************************************************************************)
EXTENDS Accounts, TLAPS

-----------------------------------------------------------------------------
(* Type correctness.  What a request needs for its INSERT it has read.     *)

Ready(q) ==
  /\ q.at \in {"signup:count", "signup:create", "signup:insert", "create:insert", "login:provision"}
       => q.name \in Names
  /\ q.at \in {"signup:insert", "create:insert"} => q.role \in Roles

RequestsOK ==
  /\ req \in [Requests -> Request] /\ begun \in 0 .. MaxRequests
  /\ \A r \in Requests : Ready(req[r])

UsersOK == users \in [Ids -> UserRow \cup {None}] /\ lastId \in 0 .. MaxUsers /\ selfSignup \in BOOLEAN
TokensOK == sessions \subseteq TokenRow /\ pending \subseteq TokenRow /\ lastToken \in 0 .. MaxTokens
SecretsOK ==
  /\ lastSecret \in 0 .. MaxSecrets
  /\ granted \in [Tokens -> Nat] /\ proven \subseteq Secrets /\ raced \subseteq Ids
WindowsOK ==
  /\ unread \subseteq Requests /\ wasOpen \subseteq Requests /\ wasEmpty \subseteq Requests /\ wasOff \subseteq Requests
  /\ overlapped \subseteq Tokens

Typed == UsersOK /\ TokensOK /\ SecretsOK /\ RequestsOK

(* A request begins, goes on or ends: its locals stay in order.            *)
LEMMA RequestBegins ==
  ASSUME RequestsOK, NEW r \in Requests, NEW q \in Request, Ready(q), Begins(r, q)
  PROVE  RequestsOK'
  BY AccountsAssumption DEF RequestsOK, Begins

LEMMA RequestReaches ==
  ASSUME RequestsOK, NEW r \in Requests, NEW at \in Statements, Reaches(r, at),
         Ready([req[r] EXCEPT !.at = at])
  PROVE  RequestsOK'
<1>1. [req[r] EXCEPT !.at = at] \in Request
  BY DEF RequestsOK, Request
<1>2. req' = [req EXCEPT ![r] = [req[r] EXCEPT !.at = at]]
  BY DEF Reaches
<1> QED
  BY <1>1, <1>2 DEF RequestsOK, Reaches

LEMMA RequestEnds ==
  ASSUME RequestsOK, NEW r \in Requests, Ends(r)
  PROVE  RequestsOK'
<1>1. Idle \in Request
  BY DEF Idle, Request, Statements
<1>2. Ready(Idle)
  BY DEF Idle, Ready
<1> QED
  BY <1>1, <1>2 DEF RequestsOK, Ends

(* An account is added, or a row of one that is present changed.           *)
LEMMA UserAdded ==
  ASSUME UsersOK, NEW row \in UserRow, AddUser(row)
  PROVE  users' \in [Ids -> UserRow \cup {None}] /\ lastId' \in 0 .. MaxUsers
  BY AccountsAssumption DEF UsersOK, AddUser, Ids

LEMMA RowChanged ==
  ASSUME UsersOK, NEW i, NEW row, users' = [users EXCEPT ![i] = row],
         i \in Present => row \in UserRow \cup {None}, i \in Ids => row \in UserRow \cup {None}
  PROVE  users' \in [Ids -> UserRow \cup {None}]
  BY DEF UsersOK

LEMMA PresentRow == UsersOK => \A i \in Present : i \in Ids /\ users[i] \in UserRow
  BY DEF UsersOK, Present

LEMMA NewRowIsRow ==
  ASSUME NEW name \in Names, NEW role \in Roles, NEW source \in {"local", "ldap"}, NEW must \in BOOLEAN
  PROVE  NewRow(name, role, source, must) \in UserRow
  BY DEF NewRow, UserRow

(* A session is granted to an account that is there.                       *)
LEMMA SessionCreated ==
  ASSUME TokensOK, NEW i, CreateSession(i)
  PROVE  /\ i \in Present
         /\ sessions' = sessions \cup {[token |-> lastToken + 1, user |-> i, expired |-> FALSE]}
         /\ sessions' \subseteq TokenRow /\ lastToken' \in 0 .. MaxTokens /\ lastToken' = lastToken + 1
<1>1. lastToken + 1 \in Tokens /\ i \in Ids /\ i \in Present
  BY AccountsAssumption DEF CreateSession, TokensOK, Tokens, Present
<1>2. [token |-> lastToken + 1, user |-> i, expired |-> FALSE] \in TokenRow
  BY <1>1 DEF TokenRow
<1>3. /\ sessions' = sessions \cup {[token |-> lastToken + 1, user |-> i, expired |-> FALSE]}
      /\ lastToken' = lastToken + 1 /\ lastToken < MaxTokens
  BY DEF CreateSession, Granted, NewToken
<1>4. sessions' \subseteq TokenRow
  BY <1>2, <1>3 DEF TokensOK
<1> QED
  BY <1>1, <1>3, <1>4, AccountsAssumption DEF TokensOK

LEMMA GrantCounted ==
  ASSUME granted \in [Tokens -> Nat], NEW t, granted' = [granted EXCEPT ![t] = @ + 1]
  PROVE  granted' \in [Tokens -> Nat]
<1>1. CASE t \in Tokens
  <2>1. granted[t] + 1 \in Nat
    BY <1>1
  <2> QED
    BY <2>1
<1>2. CASE t \notin Tokens
  BY <1>2
<1> QED
  BY <1>1, <1>2

(* Whoever acts in a session is an account that is there.                  *)
LEMMA ActsTyped ==
  ASSUME Typed, NEW r \in Requests, NEW s \in sessions, NEW at \in Statements, Acts(r, s, at), ~(at \in {"signup:count", "signup:create", "signup:insert", "create:insert", "login:provision"})
  PROVE  Typed'
<1>1. s.token \in Int /\ s.user \in Ids
  BY DEF Typed, TokensOK, TokenRow, Tokens
<1>2. [Idle EXCEPT !.at = at, !.user = s.user, !.token = s.token] \in Request
  BY <1>1 DEF Idle, Request, Statements
<1>3. Ready([Idle EXCEPT !.at = at, !.user = s.user, !.token = s.token])
  BY DEF Idle, Ready
<1> QED
  BY <1>2, <1>3, RequestBegins DEF Acts, Typed, UsersOK, TokensOK, SecretsOK, tables, supply, proofs

(* What a request does at its next statement keeps the types: signup,      *)
LEMMA TypeSignup ==
  ASSUME Typed, NEW r \in Requests, SignupArrives(r) \/ Signup(r)
  PROVE  Typed'
<1> USE DEF Typed, UsersOK, TokensOK, SecretsOK, tables, supply, proofs
<1>r. RequestsOK /\ req[r] \in Request /\ Ready(req[r])
  BY DEF RequestsOK
<1>1. ASSUME NEW name \in Names, NEW flag \in BOOLEAN,
             Begins(r, [Idle EXCEPT !.at = "signup:count", !.name = name, !.flag = flag]),
             UNCHANGED <<tables, supply, proofs>>
      PROVE  Typed'
  <2>1. [Idle EXCEPT !.at = "signup:count", !.name = name, !.flag = flag] \in Request
    BY DEF Idle, Request, Statements
  <2>2. Ready([Idle EXCEPT !.at = "signup:count", !.name = name, !.flag = flag])
    BY DEF Idle, Ready
  <2> QED
    BY <1>1, <2>1, <2>2, RequestBegins
<1>2. ASSUME NEW name \in Names, SignupBegins(r, name) PROVE Typed'
  BY <1>1, <1>2 DEF SignupBegins
<1>3. ASSUME NEW name \in Names, SignupUnread(r, name) PROVE Typed'
  BY <1>1, <1>3 DEF SignupUnread
<1>4. CASE SignupCounts(r)
  <2>1. Ready([req[r] EXCEPT !.at = "signup:create"])
    BY <1>4, <1>r DEF SignupCounts, Ready, Request
  <2>2. RequestsOK'
    BY <1>4, <2>1, RequestReaches DEF SignupCounts, Statements
  <2> QED
    BY <1>4, <2>2 DEF SignupCounts
<1>5. CASE CreateUserCounts(r)
  <2> DEFINE q == [req[r] EXCEPT !.at = "signup:insert", !.role = IF IsBootstrap THEN "admin" ELSE "user"]
  <2>1. q \in Request
    BY <1>r DEF Request, Statements, Roles
  <2>2. Ready(q)
    BY <1>5, <1>r DEF CreateUserCounts, Ready, Request, Roles
  <2>3. req' = [req EXCEPT ![r] = q] /\ UNCHANGED begun
    BY <1>5 DEF CreateUserCounts
  <2>4. RequestsOK'
    BY <2>1, <2>2, <2>3 DEF RequestsOK
  <2> QED
    BY <1>5, <2>4 DEF CreateUserCounts
<1>6. CASE CreateUserInserts(r)
  <2>1. req[r].name \in Names /\ req[r].role \in Roles
    BY <1>6, <1>r DEF CreateUserInserts, Ready
  <2>2. users' \in [Ids -> UserRow \cup {None}] /\ lastId' \in 0 .. MaxUsers
    BY <1>6, <2>1, NewRowIsRow, UserAdded DEF CreateUserInserts
  <2>3. Ready([req[r] EXCEPT !.at = "signup:close"])
    BY <1>r DEF Ready, Request
  <2>4. RequestsOK'
    BY <1>6, <2>3, RequestReaches, RequestEnds DEF CreateUserInserts, Statements
  <2> QED
    BY <1>6, <2>2, <2>4 DEF CreateUserInserts
<1>7. CASE CreateUserCloses(r)
  <2>1. RequestsOK'
    BY <1>7, RequestEnds DEF CreateUserCloses
  <2> QED
    BY <1>7, <2>1 DEF CreateUserCloses
<1> QED
  BY <1>2, <1>3, <1>4, <1>5, <1>6, <1>7 DEF SignupArrives, Signup

(* login,                                                                  *)
LEMMA TypeLogin ==
  ASSUME Typed, NEW r \in Requests, Login(r)
  PROVE  Typed'
<1> USE DEF Typed, UsersOK, TokensOK, SecretsOK, tables, supply, proofs
<1>r. RequestsOK /\ req[r] \in Request /\ Ready(req[r])
  BY DEF RequestsOK
<1>1. ASSUME NEW name \in Names, LoginBegins(r, name) PROVE Typed'
  <2>1. CASE Unknown(name) /\ Begins(r, [Idle EXCEPT !.at = "login:provision", !.name = name])
    <3>1. [Idle EXCEPT !.at = "login:provision", !.name = name] \in Request
      BY DEF Idle, Request, Statements
    <3>2. Ready([Idle EXCEPT !.at = "login:provision", !.name = name])
      BY DEF Idle, Ready
    <3> QED
      BY <1>1, <2>1, <3>1, <3>2, RequestBegins DEF LoginBegins
  <2>2. ASSUME NEW i \in Present, NEW at \in {"login:grant", "login:directory"},
               Begins(r, [Idle EXCEPT !.at = at, !.name = name, !.user = i, !.flag = MfaOf(i)])
        PROVE  Typed'
    <3> DEFINE q == [Idle EXCEPT !.at = at, !.name = name, !.user = i, !.flag = MfaOf(i)]
    <3>1. i \in Ids /\ MfaOf(i) \in BOOLEAN /\ at \in Statements
      BY PresentRow DEF MfaOf, UserRow, Statements
    <3>2. q \in Request
      BY <3>1 DEF Idle, Request
    <3>3. Ready(q)
      BY <2>2 DEF Idle, Ready
    <3>4. RequestsOK'
      BY <2>2, <3>2, <3>3, RequestBegins
    <3> QED
      BY <1>1, <3>4 DEF LoginBegins
  <2> QED
    BY <1>1, <2>1, <2>2 DEF LoginBegins
<1>2. ASSUME NEW role \in Roles, LoginSyncsRole(r, role) PROVE Typed'
  <2>1. Ready([req[r] EXCEPT !.at = "login:grant"])
    BY <1>r DEF Ready, Request
  <2>2. RequestsOK'
    BY <1>2, <2>1, RequestReaches DEF LoginSyncsRole, Statements
  <2>3. users' \in [Ids -> UserRow \cup {None}]
    <3>1. req[r].user \in Present => Synced(req[r].user, role) \in UserRow
      BY PresentRow DEF Synced, UserRow
    <3> QED
      BY <1>2, <3>1 DEF LoginSyncsRole
  <2> QED
    BY <1>2, <2>2, <2>3 DEF LoginSyncsRole
<1>3. ASSUME NEW role \in Roles, LoginProvisions(r, role) PROVE Typed'
  <2>1. req[r].name \in Names
    BY <1>3, <1>r DEF LoginProvisions, Ready
  <2>2. users' \in [Ids -> UserRow \cup {None}] /\ lastId' \in 0 .. MaxUsers
    BY <1>3, <2>1, NewRowIsRow, UserAdded DEF LoginProvisions
  <2>3. lastId + 1 \in Ids
    BY <1>3, AccountsAssumption DEF LoginProvisions, AddUser, Ids
  <2> DEFINE q == [req[r] EXCEPT !.at = "login:grant", !.user = lastId + 1]
  <2>4. q \in Request
    BY <1>r, <2>3 DEF Request, Statements
  <2>5. Ready(q)
    BY <1>r DEF Ready, Request
  <2>6. RequestsOK'
    <3>1. req' = [req EXCEPT ![r] = q] /\ begun' = begun
      BY <1>3 DEF LoginProvisions
    <3> QED
      BY <3>1, <2>4, <2>5 DEF RequestsOK
  <2> QED
    BY <1>3, <2>2, <2>6 DEF LoginProvisions
<1>4. CASE LoginGrants(r)
  <2>1. RequestsOK'
    BY <1>4, RequestEnds DEF LoginGrants
  <2> QED
    BY <1>4, <2>1, SessionCreated DEF LoginGrants
<1>5. CASE LoginAsksForCode(r)
  <2>1. RequestsOK'
    BY <1>5, RequestEnds DEF LoginAsksForCode
  <2>2. lastToken + 1 \in Tokens /\ req[r].user \in Ids
    BY <1>5, AccountsAssumption DEF LoginAsksForCode, Tokens, Present
  <2>3. [token |-> NewToken, user |-> req[r].user, expired |-> FALSE] \in TokenRow
    BY <2>2 DEF TokenRow, NewToken
  <2>4. lastToken' \in 0 .. MaxTokens
    BY <1>5, AccountsAssumption DEF LoginAsksForCode, NewToken
  <2> QED
    BY <1>5, <2>1, <2>3, <2>4 DEF LoginAsksForCode
<1> QED
  BY <1>1, <1>2, <1>3, <1>4, <1>5 DEF Login

(* the second factor,                                                      *)
LEMMA TypeVerify ==
  ASSUME Typed, NEW r \in Requests, Verify(r)
  PROVE  Typed'
<1> USE DEF Typed, UsersOK, TokensOK, SecretsOK, tables, supply, proofs
<1>r. RequestsOK /\ req[r] \in Request /\ Ready(req[r])
  BY DEF RequestsOK
<1>1. CASE VerifyBegins(r)
  <2>1. PICK p \in pending :
          Begins(r, [Idle EXCEPT !.at = "verify:code", !.user = p.user, !.token = p.token])
    BY <1>1 DEF VerifyBegins
  <2>2. p.user \in Ids /\ p.token \in Int
    BY DEF TokenRow, Tokens
  <2>3. [Idle EXCEPT !.at = "verify:code", !.user = p.user, !.token = p.token] \in Request
    BY <2>2 DEF Idle, Request, Statements
  <2>4. Ready([Idle EXCEPT !.at = "verify:code", !.user = p.user, !.token = p.token])
    BY DEF Idle, Ready
  <2>5. RequestsOK'
    BY <2>1, <2>3, <2>4, RequestBegins
  <2> QED
    BY <1>1, <2>5 DEF VerifyBegins
<1>2. CASE VerifyChecksCode(r)
  <2>1. Ready([req[r] EXCEPT !.at = "verify:consume"])
    BY <1>r DEF Ready, Request
  <2>2. RequestsOK'
    BY <1>2, <2>1, RequestReaches DEF VerifyChecksCode, Statements
  <2> QED
    BY <1>2, <2>2 DEF VerifyChecksCode
<1>3. CASE VerifyConsumes(r)
  <2>1. Ready([req[r] EXCEPT !.at = "verify:grant"])
    BY <1>r DEF Ready, Request
  <2>2. RequestsOK'
    BY <1>3, <2>1, RequestReaches DEF VerifyConsumes, Statements
  <2> QED
    BY <1>3, <2>2 DEF VerifyConsumes, WithoutToken
<1>4. CASE VerifyGrants(r)
  <2>1. RequestsOK'
    BY <1>4, RequestEnds DEF VerifyGrants
  <2>2. sessions' \subseteq TokenRow /\ lastToken' \in 0 .. MaxTokens
    BY <1>4, SessionCreated DEF VerifyGrants
  <2>3. granted' \in [Tokens -> Nat]
    BY <1>4, GrantCounted DEF VerifyGrants
  <2> QED
    BY <1>4, <2>1, <2>2, <2>3 DEF VerifyGrants
<1> QED
  BY <1>1, <1>2, <1>3, <1>4 DEF Verify

(* setting MFA up and switching it off,                                    *)
LEMMA TypeMfa ==
  ASSUME Typed, NEW r \in Requests, Mfa(r)
  PROVE  Typed'
<1> USE DEF Typed, UsersOK, TokensOK, SecretsOK, tables, supply, proofs
<1>r. RequestsOK /\ req[r] \in Request /\ Ready(req[r])
  BY DEF RequestsOK
<1>1. CASE SetupBegins(r) \/ ConfirmBegins(r) \/ DisableBegins(r)
  BY <1>1, ActsTyped DEF SetupBegins, ConfirmBegins, DisableBegins, Statements
<1>2. CASE SetupStores(r)
  <2>1. RequestsOK'
    BY <1>2, RequestEnds DEF SetupStores
  <2>2. lastSecret + 1 \in Secrets /\ lastSecret' \in 0 .. MaxSecrets
    BY <1>2, AccountsAssumption DEF SetupStores, Secrets
  <2>3. \A i \in Present : WithSecret(users[i], lastSecret + 1) \in UserRow
    BY <2>2, PresentRow DEF WithSecret, UserRow
  <2>4. users' \in [Ids -> UserRow \cup {None}]
    <3> DEFINE i == req[r].user
               row == WithSecret(users[i], lastSecret + 1)
    <3>1. CASE i \in Present
      <4>1. users' = [users EXCEPT ![i] = row]
        BY <1>2, <3>1 DEF SetupStores
      <4>2. row \in UserRow
        BY <3>1, <2>3
      <4> HIDE DEF row
      <4> QED
        BY <4>1, <4>2
    <3>2. CASE i \notin Present
      BY <1>2, <3>2 DEF SetupStores
    <3> QED
      BY <3>1, <3>2
  <2>5. raced' \subseteq Ids
    BY <1>2, PresentRow DEF SetupStores, Overtakes, Confirming
  <2> QED
    BY <1>2, <2>1, <2>2, <2>4, <2>5 DEF SetupStores
<1>3. CASE ConfirmChecksCode(r)
  <2>1. users[req[r].user].secret \in Secrets
    BY <1>3, PresentRow DEF ConfirmChecksCode, UserRow
  <2> DEFINE q == [req[r] EXCEPT !.at = "confirm:enable", !.secret = users[req[r].user].secret]
  <2>2. q \in Request
    BY <1>r, <2>1 DEF Request, Statements
  <2>3. Ready(q)
    BY <1>r DEF Ready, Request
  <2>4. RequestsOK'
    <3>1. req' = [req EXCEPT ![r] = q] /\ begun' = begun
      BY <1>3 DEF ConfirmChecksCode
    <3> QED
      BY <3>1, <2>2, <2>3 DEF RequestsOK
  <2> QED
    BY <1>3, <2>1, <2>4 DEF ConfirmChecksCode
<1>4. CASE ConfirmEnables(r)
  <2>1. RequestsOK'
    BY <1>4, RequestEnds DEF ConfirmEnables
  <2>2. req[r].user \in Ids /\ users[req[r].user] \in UserRow
    BY <1>4, PresentRow DEF ConfirmEnables
  <2>3. [users[req[r].user] EXCEPT !.mfa = TRUE] \in UserRow
    BY <2>2 DEF UserRow
  <2>4. users' \in [Ids -> UserRow \cup {None}]
    BY <1>4, <2>3 DEF ConfirmEnables
  <2> QED
    BY <1>4, <2>1, <2>4 DEF ConfirmEnables
<1>5. CASE DisableClears(r)
  <2>1. RequestsOK'
    BY <1>5, RequestEnds DEF DisableClears
  <2>2. \A i \in Present : [users[i] EXCEPT !.secret = None, !.mfa = FALSE] \in UserRow
    BY PresentRow DEF UserRow
  <2>3. users' \in [Ids -> UserRow \cup {None}]
    BY <1>5, <2>2 DEF DisableClears
  <2>4. raced' \subseteq Ids
    BY <1>5, PresentRow DEF DisableClears, Overtakes, Confirming
  <2> QED
    BY <1>5, <2>1, <2>3, <2>4 DEF DisableClears
<1> QED
  BY <1>1, <1>2, <1>3, <1>4, <1>5 DEF Mfa

(* and a change of password.                                               *)
LEMMA TypeChange ==
  ASSUME Typed, NEW r \in Requests, ChangePassword(r)
  PROVE  Typed'
<1> USE DEF Typed, UsersOK, TokensOK, SecretsOK, tables, supply, proofs
<1>r. RequestsOK /\ req[r] \in Request /\ Ready(req[r])
  BY DEF RequestsOK
<1>1. CASE ChangeBegins(r)
  BY <1>1, ActsTyped DEF ChangeBegins, Statements
<1>2. CASE ChangeUpdates(r)
  <2>1. Ready([req[r] EXCEPT !.at = "change:delete"])
    BY <1>r DEF Ready, Request
  <2>2. RequestsOK'
    BY <1>2, <2>1, RequestReaches DEF ChangeUpdates, Statements
  <2>3. \A i \in Present : [users[i] EXCEPT !.mustChange = FALSE] \in UserRow
    BY PresentRow DEF UserRow
  <2>4. users' \in [Ids -> UserRow \cup {None}]
    BY <1>2, <2>3 DEF ChangeUpdates
  <2> QED
    BY <1>2, <2>2, <2>4 DEF ChangeUpdates
<1>3. CASE ChangeDeletes(r)
  <2>1. Ready([req[r] EXCEPT !.at = "change:create"])
    BY <1>r DEF Ready, Request
  <2>2. RequestsOK'
    BY <1>3, <2>1, RequestReaches DEF ChangeDeletes, Statements
  <2> QED
    BY <1>3, <2>2 DEF ChangeDeletes, WithoutSession
<1>4. CASE ChangeCreates(r)
  <2>1. RequestsOK'
    BY <1>4, RequestEnds DEF ChangeCreates
  <2> QED
    BY <1>4, <2>1, SessionCreated DEF ChangeCreates
<1> QED
  BY <1>1, <1>2, <1>3, <1>4 DEF ChangePassword

(* So does what an administrator does.                                     *)
LEMMA TypeAdmin ==
  ASSUME Typed, NEW r \in Requests, Admin(r)
  PROVE  Typed'
<1> USE DEF Typed, UsersOK, TokensOK, SecretsOK, tables, supply, proofs
<1>r. RequestsOK /\ req[r] \in Request /\ Ready(req[r])
  BY DEF RequestsOK
<1>1. ASSUME NEW name \in Names, NEW role \in Roles, AdminCreateBegins(r, name, role) PROVE Typed'
  <2> DEFINE q == [Idle EXCEPT !.at = "create:insert", !.name = name, !.role = role]
  <2>1. q \in Request
    BY DEF Idle, Request, Statements
  <2>2. Ready(q)
    BY DEF Idle, Ready
  <2>3. RequestsOK'
    BY <1>1, <2>1, <2>2, RequestBegins DEF AdminCreateBegins
  <2> QED
    BY <1>1, <2>3 DEF AdminCreateBegins
<1>2. CASE AdminCreateInserts(r)
  <2>1. req[r].name \in Names /\ req[r].role \in Roles
    BY <1>2, <1>r DEF AdminCreateInserts, Ready
  <2>2. users' \in [Ids -> UserRow \cup {None}] /\ lastId' \in 0 .. MaxUsers
    BY <1>2, <2>1, NewRowIsRow, UserAdded DEF AdminCreateInserts
  <2>3. RequestsOK'
    BY <1>2, RequestEnds DEF AdminCreateInserts
  <2> QED
    BY <1>2, <2>2, <2>3 DEF AdminCreateInserts
<1>3. ASSUME NEW i \in Ids, AdminDeleteBegins(r, i) PROVE Typed'
  <2>1. PICK s \in sessions :
          Begins(r, [Idle EXCEPT !.at = "delete:sessions", !.user = i, !.token = s.user])
    BY <1>3 DEF AdminDeleteBegins
  <2> DEFINE q == [Idle EXCEPT !.at = "delete:sessions", !.user = i, !.token = s.user]
  <2>2. s.user \in Int
    BY DEF TokenRow, Ids
  <2>3. q \in Request
    BY <2>2 DEF Idle, Request, Statements
  <2>4. Ready(q)
    BY DEF Idle, Ready
  <2>5. RequestsOK'
    BY <2>1, <2>3, <2>4, RequestBegins
  <2> QED
    BY <1>3, <2>5 DEF AdminDeleteBegins
<1>4. CASE DeleteUserSessions(r)
  <2>1. Ready([req[r] EXCEPT !.at = "delete:user"])
    BY <1>r DEF Ready, Request
  <2>2. RequestsOK'
    BY <1>4, <2>1, RequestReaches DEF DeleteUserSessions, Statements
  <2> QED
    BY <1>4, <2>2 DEF DeleteUserSessions
<1>5. CASE DeleteUserRow(r)
  <2>1. RequestsOK'
    BY <1>5, RequestEnds DEF DeleteUserRow
  <2> QED
    BY <1>5, <2>1 DEF DeleteUserRow
<1>6. ASSUME NEW open \in BOOLEAN, SettingsBegin(r, open) PROVE Typed'
  <2> DEFINE q == [Idle EXCEPT !.at = "settings:store", !.flag = open]
  <2>1. q \in Request
    BY DEF Idle, Request, Statements
  <2>2. Ready(q)
    BY DEF Idle, Ready
  <2>3. RequestsOK'
    BY <1>6, <2>1, <2>2, RequestBegins DEF SettingsBegin
  <2> QED
    BY <1>6, <2>3 DEF SettingsBegin
<1>7. CASE SettingsStore(r)
  <2>1. RequestsOK'
    BY <1>7, RequestEnds DEF SettingsStore
  <2>2. req[r].flag \in BOOLEAN
    BY <1>r DEF Request
  <2> QED
    BY <1>7, <2>1, <2>2 DEF SettingsStore
<1> QED
  BY <1>1, <1>2, <1>3, <1>4, <1>5, <1>6, <1>7 DEF Admin

(* So do broken requests, the end of a session and the passing of time.    *)
LEMMA TypeOther ==
  ASSUME Typed, Logout \/ Time \/ \E r \in Requests : Breaks(r)
  PROVE  Typed'
<1> USE DEF Typed, UsersOK, TokensOK, SecretsOK, tables, supply, proofs
<1>1. ASSUME NEW r \in Requests, Breaks(r) PROVE Typed'
  <2>1. RequestsOK'
    BY <1>1, RequestEnds DEF Breaks
  <2> QED
    BY <1>1, <2>1 DEF Breaks
<1>2. CASE Logout
  <2>1. RequestsOK'
    BY <1>2, AccountsAssumption DEF Logout, RequestsOK
  <2> QED
    BY <1>2, <2>1 DEF Logout, WithoutSession
<1>3. CASE Time
  <2>1. RequestsOK'
    BY <1>3 DEF Time, SessionExpires, PendingExpires, PurgeSessions, PurgePending, RequestsOK
  <2>2. \A row \in TokenRow : Expired(row) \in TokenRow
    BY DEF Expired, TokenRow
  <2> QED
    BY <1>3, <2>1, <2>2 DEF Time, SessionExpires, PendingExpires, PurgeSessions, PurgePending
<1> QED
  BY <1>1, <1>2, <1>3

LEMMA TypeInit == Init => Typed /\ WindowsOK
<1> SUFFICES ASSUME Init PROVE Typed /\ WindowsOK
  OBVIOUS
<1> USE AccountsAssumption
<1>0. /\ pending = {} /\ raced = {} /\ granted \in [Tokens -> Nat]
      /\ unread = {} /\ wasOpen = {} /\ wasEmpty = {} /\ wasOff = {}
      /\ overlapped = {}
  BY DEF Init
<1>1. RequestsOK
  <2>1. Idle \in Request
    BY DEF Idle, Request, Statements
  <2>2. Ready(Idle)
    BY DEF Idle, Ready
  <2> QED
    BY <2>1, <2>2 DEF Init, RequestsOK
<1>2. CASE Fresh
  BY <1>0, <1>1, <1>2 DEF Fresh, Typed, WindowsOK, UsersOK, TokensOK, SecretsOK
<1>3. CASE InUse
  <2>1. 1 \in Secrets /\ 1 \in Tokens /\ 2 \in Tokens /\ 1 \in Ids /\ 2 \in Ids
    BY <1>3 DEF InUse, Secrets, Tokens, Ids
  <2>2. ASSUME NEW a \in Names, NEW b \in Names PROVE Established(a, b) \in [Ids -> UserRow \cup {None}]
    <3>1. NewRow(a, "admin", "local", FALSE) \in UserRow
      BY DEF NewRow, UserRow, Roles
    <3>2. [NewRow(b, "user", "local", FALSE) EXCEPT !.secret = 1, !.mfa = TRUE] \in UserRow
      BY <2>1 DEF NewRow, UserRow, Roles
    <3> QED
      BY <3>1, <3>2 DEF Established
  <2>3. UsersOK
    <3>1. users \in [Ids -> UserRow \cup {None}]
      BY <1>3, <2>2 DEF InUse
    <3>2. lastId \in 0 .. MaxUsers
      BY <1>3 DEF InUse
    <3>3. selfSignup \in BOOLEAN
      BY <1>3, Zenon DEF InUse
    <3> QED
      BY <3>1, <3>2, <3>3, Zenon DEF UsersOK
  <2>4. TokensOK
    <3>1. [token |-> 1, user |-> 1, expired |-> FALSE] \in TokenRow
      BY <2>1 DEF TokenRow
    <3>2. [token |-> 2, user |-> 2, expired |-> FALSE] \in TokenRow
      BY <2>1 DEF TokenRow
    <3>3. \A s \in sessions : s = [token |-> 1, user |-> 1, expired |-> FALSE]
                              \/ s = [token |-> 2, user |-> 2, expired |-> FALSE]
      <4>1. lastToken \in 1 .. 2 /\ \A i \in 1 .. lastToken : i = 1 \/ i = 2
        BY <1>3 DEF InUse
      <4> QED
        BY <1>3, <4>1 DEF InUse
    <3>4. sessions \subseteq TokenRow
      BY <3>1, <3>2, <3>3
    <3>5. lastToken \in 1 .. 2 /\ MaxTokens >= 2
      BY <1>3 DEF InUse
    <3> QED
      BY <1>0, <3>4, <3>5 DEF TokensOK
  <2>5. SecretsOK
    BY <1>0, <1>3, <2>1 DEF InUse, SecretsOK
  <2> QED
    BY <1>0, <1>1, <2>3, <2>4, <2>5 DEF Typed, WindowsOK
<1> QED
  BY <1>2, <1>3 DEF Init

LEMMA TypeStep == Typed /\ WindowsOK /\ [Next]_vars => (Typed /\ WindowsOK)'
<1> SUFFICES ASSUME Typed, WindowsOK, [Next]_vars PROVE (Typed /\ WindowsOK)'
  OBVIOUS
<1>1. CASE Next
  <2>1. Typed'
    BY <1>1, TypeSignup, TypeLogin, TypeVerify, TypeMfa, TypeChange, TypeAdmin, TypeOther DEF Next, Step
  <2>2. wasOpen' \subseteq Requests /\ wasEmpty' \subseteq Requests /\ wasOff' \subseteq Requests
        /\ overlapped' \subseteq Tokens
    BY <1>1 DEF Next, Observe, At
  <2>3. unread' \subseteq Requests
    BY <1>1 DEF Next, SignupArrives, SignupBegins, SignupUnread, WindowsOK
  <2> QED
    BY <2>1, <2>2, <2>3 DEF WindowsOK
<1>2. CASE UNCHANGED vars
  BY <1>2 DEF vars, Typed, WindowsOK, UsersOK, TokensOK, SecretsOK, RequestsOK, Ready, tables, supply, proofs, windows
<1> QED
  BY <1>1, <1>2

LEMMA TypedIsTypeOK == Typed /\ WindowsOK <=> TypeOK /\ \A r \in Requests : Ready(req[r])
  BY DEF Typed, WindowsOK, TypeOK, UsersOK, TokensOK, SecretsOK, RequestsOK

(* Every variable has its type in every reachable state.                   *)
THEOREM TypeCorrect == Spec => []TypeOK
<1>1. Spec => [](Typed /\ WindowsOK)
  BY TypeInit, TypeStep, PTL DEF Spec
<1> QED
  BY <1>1, TypedIsTypeOK, PTL

-----------------------------------------------------------------------------
(* What a step does to the accounts and to the tokens.                     *)

LEMMA InvIsTyped == Spec => [](Typed /\ WindowsOK)
  BY TypeInit, TypeStep, PTL DEF Spec

(* No account changes, or one is added, or one that is there is rewritten, *)
(* or one is deleted.                                                      *)
LEMMA UsersStep ==
  ASSUME Typed, Next
  PROVE  \/ users' = users
         \/ \E row \in UserRow : AddUser(row)
         \/ \E i \in Present, row \in UserRow : users' = [users EXCEPT ![i] = row]
         \/ \E r \in Requests : DeleteUserRow(r)
<1> DEFINE Goal == \/ users' = users
                   \/ \E row \in UserRow : AddUser(row)
                   \/ \E i \in Present, row \in UserRow : users' = [users EXCEPT ![i] = row]
                   \/ \E r \in Requests : DeleteUserRow(r)
<1>p. \A i \in Present : i \in Ids /\ users[i] \in UserRow
  BY PresentRow DEF Typed
<1>q. \A r \in Requests : req[r] \in Request /\ Ready(req[r])
  BY DEF Typed, RequestsOK
<1>1. ASSUME NEW r \in Requests, SignupArrives(r) \/ Signup(r) PROVE Goal
  <2>1. CASE CreateUserInserts(r)
    <3>1. req[r].name \in Names /\ req[r].role \in Roles
      BY <2>1, <1>q DEF CreateUserInserts, Ready
    <3>2. NewRow(req[r].name, req[r].role, "local", FALSE) \in UserRow
      BY <3>1, NewRowIsRow
    <3> QED
      BY <2>1, <3>2 DEF CreateUserInserts
  <2> QED
    BY <1>1, <2>1 DEF SignupArrives, Signup, SignupBegins, SignupUnread, SignupCounts, CreateUserCounts,
                      CreateUserCloses, tables
<1>2. ASSUME NEW r \in Requests, Login(r) PROVE Goal
  <2>1. ASSUME NEW role \in Roles, LoginSyncsRole(r, role) PROVE Goal
    <3>1. req[r].user \in Present => Synced(req[r].user, role) \in UserRow
      BY <1>p DEF Synced, UserRow
    <3> QED
      BY <2>1, <3>1 DEF LoginSyncsRole
  <2>2. ASSUME NEW role \in Roles, LoginProvisions(r, role) PROVE Goal
    <3>1. req[r].name \in Names
      BY <2>2, <1>q DEF LoginProvisions, Ready
    <3>2. NewRow(req[r].name, role, "ldap", FALSE) \in UserRow
      BY <3>1, NewRowIsRow
    <3> QED
      BY <2>2, <3>2 DEF LoginProvisions
  <2> QED
    BY <1>2, <2>1, <2>2 DEF Login, LoginBegins, LoginGrants, LoginAsksForCode, tables
<1>3. ASSUME NEW r \in Requests, Verify(r) PROVE Goal
  BY <1>3 DEF Verify, VerifyBegins, VerifyChecksCode, VerifyConsumes, VerifyGrants, tables
<1>4. ASSUME NEW r \in Requests, Mfa(r) PROVE Goal
  <2>1. CASE SetupStores(r)
    <3>1. lastSecret + 1 \in Secrets
      BY <2>1, AccountsAssumption DEF SetupStores, Secrets, Typed, SecretsOK
    <3>2. \A i \in Present : WithSecret(users[i], lastSecret + 1) \in UserRow
      BY <3>1, <1>p DEF WithSecret, UserRow
    <3>3. req[r].user \in Present =>
            users' = [users EXCEPT ![req[r].user] = WithSecret(users[req[r].user], lastSecret + 1)]
      BY <2>1 DEF SetupStores
    <3> QED
      BY <2>1, <3>2, <3>3 DEF SetupStores
  <2>2. CASE ConfirmEnables(r)
    <3>1. [users[req[r].user] EXCEPT !.mfa = TRUE] \in UserRow
      BY <2>2, <1>p DEF ConfirmEnables, UserRow
    <3>2. users' = [users EXCEPT ![req[r].user] = [users[req[r].user] EXCEPT !.mfa = TRUE]]
      BY <2>2 DEF ConfirmEnables
    <3> QED
      BY <2>2, <3>1, <3>2 DEF ConfirmEnables
  <2>3. CASE DisableClears(r)
    <3>1. \A i \in Present : [users[i] EXCEPT !.secret = None, !.mfa = FALSE] \in UserRow
      BY <1>p DEF UserRow
    <3>2. req[r].user \in Present =>
            users' = [users EXCEPT ![req[r].user] = [users[req[r].user] EXCEPT !.secret = None, !.mfa = FALSE]]
      BY <2>3, <1>p DEF DisableClears, Typed, UsersOK
    <3> QED
      BY <2>3, <3>1, <3>2 DEF DisableClears
  <2> QED
    BY <1>4, <2>1, <2>2, <2>3
    DEF Mfa, SetupBegins, ConfirmBegins, DisableBegins, Acts, ConfirmChecksCode, tables
<1>5. ASSUME NEW r \in Requests, ChangePassword(r) PROVE Goal
  <2>1. CASE ChangeUpdates(r)
    <3>1. \A i \in Present : [users[i] EXCEPT !.mustChange = FALSE] \in UserRow
      BY <1>p DEF UserRow
    <3>2. req[r].user \in Present =>
            users' = [users EXCEPT ![req[r].user] = [users[req[r].user] EXCEPT !.mustChange = FALSE]]
      BY <2>1 DEF ChangeUpdates
    <3> QED
      BY <2>1, <3>1, <3>2 DEF ChangeUpdates
  <2> QED
    BY <1>5, <2>1 DEF ChangePassword, ChangeBegins, Acts, ChangeDeletes, ChangeCreates, tables
<1>6. ASSUME NEW r \in Requests, Admin(r) PROVE Goal
  <2>1. CASE AdminCreateInserts(r)
    <3>1. req[r].name \in Names /\ req[r].role \in Roles
      BY <2>1, <1>q DEF AdminCreateInserts, Ready
    <3>2. NewRow(req[r].name, req[r].role, "local", TRUE) \in UserRow
      BY <3>1, NewRowIsRow
    <3> QED
      BY <2>1, <3>2 DEF AdminCreateInserts
  <2>2. CASE DeleteUserRow(r)
    BY <2>2
  <2> QED
    BY <1>6, <2>1, <2>2
    DEF Admin, AdminCreateBegins, AdminDeleteBegins, DeleteUserSessions, SettingsBegin, SettingsStore, tables
<1>7. CASE Logout \/ Time \/ \E r \in Requests : Breaks(r)
  BY <1>7 DEF Logout, Time, SessionExpires, PendingExpires, PurgeSessions, PurgePending, Breaks, tables
<1> QED
  BY <1>1, <1>2, <1>3, <1>4, <1>5, <1>6, <1>7 DEF Next, Step

(* Only the deletion of its row makes an account go.                       *)
LEMMA AccountsStay ==
  ASSUME Typed, Next, NEW i \in Present
  PROVE  i \in Present' \/ \E r \in Requests : DeleteUserRow(r) /\ req[r].user = i
<1>1. i \in Ids /\ users[i] \in UserRow /\ users[i] # None
  BY PresentRow DEF Typed, Present
<1>2. CASE users' = users
  BY <1>1, <1>2 DEF Present
<1>3. ASSUME NEW row \in UserRow, AddUser(row) PROVE i \in Present'
  BY <1>1, <1>3, NoneIsNoRow DEF AddUser, Present, Typed, UsersOK
<1>4. ASSUME NEW j \in Present, NEW row \in UserRow, users' = [users EXCEPT ![j] = row]
      PROVE  i \in Present'
  BY <1>1, <1>4, NoneIsNoRow DEF Present, Typed, UsersOK
<1>5. ASSUME NEW r \in Requests, DeleteUserRow(r), req[r].user # i PROVE i \in Present'
  BY <1>1, <1>5 DEF DeleteUserRow, Present, Typed, UsersOK
<1> QED
  BY <1>2, <1>3, <1>4, <1>5, UsersStep

(* A token that is new is of an account that is there, and any other keeps *)
(* its account.                                                            *)
LEMMA TokensStep ==
  ASSUME Typed, Next, NEW row \in sessions' \cup pending'
  PROVE  row.user \in Present \/ \E old \in sessions \cup pending : old.user = row.user
<1> DEFINE Goal == row.user \in Present \/ \E old \in sessions \cup pending : old.user = row.user
<1>1. CASE row \in sessions \cup pending
  BY <1>1
<1>2. ASSUME NEW i, CreateSession(i), row \in sessions' PROVE Goal
  BY <1>2, SessionCreated DEF Typed
<1>3. ASSUME NEW r \in Requests, LoginAsksForCode(r), row \in pending' PROVE Goal
  BY <1>1, <1>3 DEF LoginAsksForCode
<1>4. CASE SessionExpires \/ PendingExpires
  BY <1>1, <1>4 DEF SessionExpires, PendingExpires, Expired, Typed, TokensOK, TokenRow
<1>5. ASSUME NEW r \in Requests, SignupArrives(r) \/ Signup(r) PROVE Goal
  BY <1>1, <1>5 DEF SignupArrives, Signup, SignupBegins, SignupUnread, SignupCounts, CreateUserCounts,
                    CreateUserInserts, CreateUserCloses, tables
<1>6. ASSUME NEW r \in Requests, Login(r) PROVE Goal
  BY <1>1, <1>2, <1>3, <1>6 DEF Login, LoginBegins, LoginSyncsRole, LoginProvisions, LoginGrants, LoginAsksForCode, tables
<1>7. ASSUME NEW r \in Requests, Verify(r) PROVE Goal
  BY <1>1, <1>2, <1>7 DEF Verify, VerifyBegins, VerifyChecksCode, VerifyConsumes, VerifyGrants, WithoutToken, tables
<1>8. ASSUME NEW r \in Requests, Mfa(r) PROVE Goal
  BY <1>1, <1>8 DEF Mfa, SetupBegins, SetupStores, ConfirmBegins, ConfirmChecksCode, ConfirmEnables,
                    DisableBegins, DisableClears, Acts, tables
<1>9. ASSUME NEW r \in Requests, ChangePassword(r) PROVE Goal
  BY <1>1, <1>2, <1>9 DEF ChangePassword, ChangeBegins, ChangeUpdates, ChangeDeletes, ChangeCreates,
                          WithoutSession, Acts, tables
<1>10. ASSUME NEW r \in Requests, Admin(r) PROVE Goal
  BY <1>1, <1>10 DEF Admin, AdminCreateBegins, AdminCreateInserts, AdminDeleteBegins, DeleteUserSessions,
                     DeleteUserRow, SettingsBegin, SettingsStore, tables
<1>11. CASE Logout \/ PurgeSessions \/ PurgePending \/ \E r \in Requests : Breaks(r)
  BY <1>1, <1>11 DEF Logout, PurgeSessions, PurgePending, Breaks, WithoutSession, tables
<1> QED
  BY <1>4, <1>5, <1>6, <1>7, <1>8, <1>9, <1>10, <1>11 DEF Next, Step, Time

-----------------------------------------------------------------------------
(* No session and no pending login outlives its account: deleting one is   *)
(* refused while a token of it is left, and a token is only handed out to  *)
(* an account that is there at that very statement.                        *)
THEOREM TokensHaveTheirAccount == Spec => []NoOrphans
<1>1. Init => NoOrphans
  <2>1. ASSUME Init, Fresh PROVE NoOrphans
    BY <2>1 DEF Init, Fresh, NoOrphans
  <2>2. ASSUME Init, InUse PROVE NoOrphans
    <3>1. 1 \in Ids /\ 2 \in Ids /\ pending = {}
      BY <2>2, AccountsAssumption DEF Init, InUse, Ids
    <3>2. users[1] # None /\ users[2] # None
      <4>1. \A a, b \in Names : NewRow(a, "admin", "local", FALSE) # None
                 /\ [NewRow(b, "user", "local", FALSE) EXCEPT !.secret = 1, !.mfa = TRUE] # None
        <5>1. 1 \in Secrets
          BY AccountsAssumption DEF Secrets
        <5>2. \A a \in Names : NewRow(a, "admin", "local", FALSE) \in UserRow
          BY DEF NewRow, UserRow, Roles
        <5>3. \A b \in Names : [NewRow(b, "user", "local", FALSE) EXCEPT !.secret = 1, !.mfa = TRUE] \in UserRow
          BY <5>1 DEF NewRow, UserRow, Roles
        <5> QED
          BY <5>2, <5>3, NoneIsNoRow
      <4> QED
        BY <2>2, <3>1, <4>1 DEF InUse, Established
    <3>3. \A s \in sessions : s.user \in {1, 2}
      <4>1. \A i \in 1 .. lastToken : i = 1 \/ i = 2
        BY <2>2 DEF InUse
      <4> QED
        BY <2>2, <4>1 DEF InUse
    <3> QED
      BY <3>1, <3>2, <3>3 DEF NoOrphans, Present
  <2> QED
    BY <2>1, <2>2 DEF Init
<1>2. Typed /\ NoOrphans /\ [Next]_vars => NoOrphans'
  <2> SUFFICES ASSUME Typed, NoOrphans, [Next]_vars PROVE NoOrphans'
    OBVIOUS
  <2>1. ASSUME Next, NEW row \in (sessions \cup pending)' PROVE row.user \in Present'
    <3>1. row.user \in Present
      BY <2>1, TokensStep DEF NoOrphans
    <3>2. ASSUME NEW r \in Requests, DeleteUserRow(r) PROVE req[r].user # row.user
      BY <2>1, <3>2 DEF DeleteUserRow, Referenced
    <3> QED
      BY <2>1, <3>1, <3>2, AccountsStay
  <2>2. CASE UNCHANGED vars
    BY <2>2 DEF vars, tables, NoOrphans, Present
  <2> QED
    BY <2>1, <2>2 DEF NoOrphans
<1> QED
  BY <1>1, <1>2, InvIsTyped, PTL DEF Spec

-----------------------------------------------------------------------------
(* A step is one request's, and the locals of the others stay.             *)

Acting(r) ==
  SignupArrives(r) \/ Signup(r) \/ Login(r) \/ Verify(r) \/ Mfa(r) \/ ChangePassword(r) \/ Admin(r)

LEMMA OthersWait ==
  ASSUME Typed, NEW r \in Requests, Acting(r) \/ Breaks(r)
  PROVE  \A q \in Requests \ {r} : req'[q] = req[q]
<1> DEFINE Goal == \A q \in Requests \ {r} : req'[q] = req[q]
<1> USE DEF Begins, Reaches, Ends
<1>r. req \in [Requests -> Request]
  BY DEF Typed, RequestsOK
<1>1. CASE SignupArrives(r) \/ Signup(r)
  BY <1>1, <1>r DEF SignupArrives, Signup, SignupBegins, SignupUnread, SignupCounts, CreateUserCounts,
                    CreateUserInserts, CreateUserCloses
<1>2. CASE Login(r)
  BY <1>2, <1>r DEF Login, LoginBegins, LoginSyncsRole, LoginProvisions, LoginGrants, LoginAsksForCode
<1>3. CASE Verify(r)
  BY <1>3, <1>r DEF Verify, VerifyBegins, VerifyChecksCode, VerifyConsumes, VerifyGrants
<1>4. CASE Mfa(r)
  BY <1>4, <1>r DEF Mfa, SetupBegins, SetupStores, ConfirmBegins, ConfirmChecksCode, ConfirmEnables,
                    DisableBegins, DisableClears, Acts
<1>5. CASE ChangePassword(r)
  BY <1>5, <1>r DEF ChangePassword, ChangeBegins, ChangeUpdates, ChangeDeletes, ChangeCreates, Acts
<1>6. CASE Admin(r)
  BY <1>6, <1>r DEF Admin, AdminCreateBegins, AdminCreateInserts, AdminDeleteBegins, DeleteUserSessions,
                    DeleteUserRow, SettingsBegin, SettingsStore
<1>7. CASE Breaks(r)
  BY <1>7, <1>r DEF Breaks
<1> QED
  BY <1>1, <1>2, <1>3, <1>4, <1>5, <1>6, <1>7 DEF Acting

(* The statement a step of each kind leads to.                             *)
LEMMA StatementReached ==
  ASSUME Typed, NEW r \in Requests
  PROVE  /\ SignupArrives(r) \/ Signup(r) =>
              req'[r].at \in {"idle", "signup:count", "signup:create", "signup:insert", "signup:close"}
         /\ Login(r) => req'[r].at \in {"idle", "login:directory", "login:provision", "login:grant"}
         /\ Verify(r) => req'[r].at \in {"idle", "verify:code", "verify:consume", "verify:grant"}
         /\ Mfa(r) => req'[r].at \in {"idle", "setup:store", "confirm:code", "confirm:enable", "disable:clear"}
         /\ ChangePassword(r) => req'[r].at \in {"idle", "change:update", "change:delete", "change:create"}
         /\ Admin(r) => req'[r].at \in {"idle", "create:insert", "delete:sessions", "delete:user", "settings:store"}
<1>0. req \in [Requests -> Request] /\ req[r] \in Request
  BY DEF Typed, RequestsOK
<1>1. Ends(r) => req'[r].at = "idle"
  BY <1>0 DEF Ends, Idle
<1>b. \A at \in Statements : Reaches(r, at) => req'[r].at = at
  BY <1>0 DEF Reaches, Request
<1>s. \A at \in {"signup:create", "signup:close", "login:grant", "verify:consume", "verify:grant",
               "change:delete", "change:create", "delete:user"} : at \in Statements
  BY DEF Statements
<1>2. ASSUME SignupArrives(r) \/ Signup(r)
      PROVE  req'[r].at \in {"idle", "signup:count", "signup:create", "signup:insert", "signup:close"}
  <2>1. CASE SignupArrives(r)
    BY <2>1, <1>0 DEF SignupArrives, SignupBegins, SignupUnread, Begins, Idle
  <2>2. CASE CreateUserCounts(r)
    BY <2>2, <1>0 DEF CreateUserCounts, Request
  <2> QED
    BY <1>1, <1>2, <2>1, <2>2, <1>b, <1>s DEF Signup, SignupCounts, CreateUserInserts, CreateUserCloses
<1>3. ASSUME Login(r) PROVE req'[r].at \in {"idle", "login:directory", "login:provision", "login:grant"}
  <2>1. ASSUME NEW name \in Names, LoginBegins(r, name) PROVE req'[r].at \in {"login:directory", "login:provision", "login:grant"}
    BY <2>1, <1>0 DEF LoginBegins, Begins, Idle
  <2>2. ASSUME NEW role \in Roles, LoginProvisions(r, role) PROVE req'[r].at = "login:grant"
    BY <2>2, <1>0 DEF LoginProvisions, Request
  <2> QED
    BY <1>1, <1>3, <2>1, <2>2, <1>b, <1>s DEF Login, LoginSyncsRole, LoginGrants, LoginAsksForCode
<1>4. ASSUME Verify(r) PROVE req'[r].at \in {"idle", "verify:code", "verify:consume", "verify:grant"}
  <2>1. CASE VerifyBegins(r)
    BY <2>1, <1>0 DEF VerifyBegins, Begins, Idle
  <2> QED
    BY <1>1, <1>4, <2>1, <1>b, <1>s DEF Verify, VerifyChecksCode, VerifyConsumes, VerifyGrants
<1>a. ASSUME NEW s, NEW at, Acts(r, s, at) PROVE req'[r].at = at
  BY <1>a, <1>0 DEF Acts, Begins, Idle
<1>5. ASSUME Mfa(r) PROVE req'[r].at \in {"idle", "setup:store", "confirm:code", "confirm:enable", "disable:clear"}
  <2>1. CASE ConfirmChecksCode(r)
    BY <2>1, <1>0 DEF ConfirmChecksCode, Request
  <2> QED
    BY <1>1, <1>a, <1>5, <2>1 DEF Mfa, SetupBegins, SetupStores, ConfirmBegins, ConfirmEnables, DisableBegins, DisableClears
<1>6. ASSUME ChangePassword(r) PROVE req'[r].at \in {"idle", "change:update", "change:delete", "change:create"}
  BY <1>1, <1>a, <1>6, <1>b, <1>s DEF ChangePassword, ChangeBegins, ChangeUpdates, ChangeDeletes, ChangeCreates
<1>7. ASSUME Admin(r)
      PROVE  req'[r].at \in {"idle", "create:insert", "delete:sessions", "delete:user", "settings:store"}
  <2>1. ASSUME NEW name \in Names, NEW role \in Roles, AdminCreateBegins(r, name, role)
        PROVE  req'[r].at = "create:insert"
    BY <2>1, <1>0 DEF AdminCreateBegins, Begins, Idle
  <2>2. ASSUME NEW i \in Ids, AdminDeleteBegins(r, i) PROVE req'[r].at = "delete:sessions"
    BY <2>2, <1>0 DEF AdminDeleteBegins, Begins, Idle
  <2>3. ASSUME NEW open \in BOOLEAN, SettingsBegin(r, open) PROVE req'[r].at = "settings:store"
    BY <2>3, <1>0 DEF SettingsBegin, Begins, Idle
  <2> QED
    BY <1>1, <1>7, <2>1, <2>2, <2>3, <1>b, <1>s
    DEF Admin, AdminCreateInserts, DeleteUserSessions, DeleteUserRow, SettingsStore
<1> QED
  BY <1>2, <1>3, <1>4, <1>5, <1>6, <1>7

LEMMA RequestStep ==
  ASSUME Typed, Next, NEW r \in Requests
  PROVE  req'[r] = req[r] \/ req'[r] = Idle \/ Acting(r)
<1> DEFINE Goal == req'[r] = req[r] \/ req'[r] = Idle \/ Acting(r)
<1>1. ASSUME NEW q \in Requests, Acting(q) PROVE Goal
  BY <1>1, OthersWait
<1>2. ASSUME NEW q \in Requests, Breaks(q) PROVE Goal
  BY <1>2, OthersWait DEF Breaks, Ends, Typed, RequestsOK
<1>3. CASE Logout \/ Time
  BY <1>3 DEF Logout, Time, SessionExpires, PendingExpires, PurgeSessions, PurgePending
<1> QED
  BY <1>1, <1>2, <1>3 DEF Next, Step, Acting

-----------------------------------------------------------------------------
(* Deletion.  Whoever asked for it is not the account that is deleted.     *)

NotOneself == \A r \in Requests :
  req[r].at \in {"delete:sessions", "delete:user"} => req[r].token # req[r].user

LEMMA NotOneselfStep == Typed /\ NotOneself /\ [Next]_vars => NotOneself'
<1> SUFFICES ASSUME Typed, NotOneself, [Next]_vars PROVE NotOneself'
  OBVIOUS
<1>1. ASSUME Next, NEW r \in Requests
      PROVE  req'[r].at \in {"delete:sessions", "delete:user"} => req'[r].token # req'[r].user
  <2> DEFINE Goal == req'[r].at \in {"delete:sessions", "delete:user"} => req'[r].token # req'[r].user
  <2> USE DEF Begins, Reaches, Ends
  <2>r. req \in [Requests -> Request] /\ req[r] \in Request
    BY DEF Typed, RequestsOK
  <2>0. CASE req'[r] = req[r] \/ req'[r] = Idle
    BY <2>0 DEF NotOneself, Idle
  <2>1. CASE SignupArrives(r) \/ Signup(r) \/ Login(r) \/ Verify(r) \/ Mfa(r) \/ ChangePassword(r)
    BY <2>1, StatementReached
  <2>2. CASE Admin(r)
    <3>1. ASSUME NEW i \in Ids, AdminDeleteBegins(r, i) PROVE Goal
      BY <3>1, <2>r DEF AdminDeleteBegins, Deletable, Idle
    <3>2. CASE DeleteUserSessions(r)
      BY <3>2, <2>r DEF DeleteUserSessions, NotOneself, Request
    <3>3. ASSUME NEW name \in Names, NEW role \in Roles, AdminCreateBegins(r, name, role) PROVE Goal
      BY <3>3, <2>r DEF AdminCreateBegins, Idle
    <3>4. ASSUME NEW open \in BOOLEAN, SettingsBegin(r, open) PROVE Goal
      BY <3>4, <2>r DEF SettingsBegin, Idle
    <3> QED
      BY <2>0, <2>2, <3>1, <3>2, <3>3, <3>4, <2>r
      DEF Admin, AdminCreateInserts, DeleteUserRow, SettingsStore
  <2> QED
    BY <1>1, RequestStep, <2>0, <2>1, <2>2 DEF Acting
<1>2. CASE UNCHANGED vars
  BY <1>2 DEF vars, NotOneself
<1> QED
  BY <1>1, <1>2 DEF NotOneself

(* The last account goes only at the request of somebody whose own account *)
(* was deleted after the request was authenticated.                        *)
THEOREM NobodyLocksEverybodyOut == Spec => LastAccountStays
<1> DEFINE Stays == Present # {} /\ Present' = {} =>
                      \E r \in Requests : req[r].at = "delete:user" /\ req[r].token \notin Present
<1>1. Init => NotOneself
  BY DEF Init, NotOneself, Idle
<1>2. Typed /\ NotOneself /\ [Next]_vars => [Stays]_vars
  <2> SUFFICES ASSUME Typed, NotOneself, Next, Present # {}, Present' = {} PROVE Stays
    OBVIOUS
  <2>1. PICK i \in Present : TRUE
    OBVIOUS
  <2>2. PICK r \in Requests : DeleteUserRow(r) /\ req[r].user = i
    BY AccountsStay
  <2>3. ASSUME req[r].token \in Present PROVE req[r].token = req[r].user
    <3>1. PICK q \in Requests : DeleteUserRow(q) /\ req[q].user = req[r].token
      BY <2>3, AccountsStay
    <3>2. req[r].user \in Ids /\ req[q].user \in Ids /\ users[req[r].user] # None /\ users[req[q].user] # None
      BY <2>2, <2>3, <3>1 DEF Present
    <3>3. users' = [users EXCEPT ![req[r].user] = None] /\ users' = [users EXCEPT ![req[q].user] = None]
      BY <2>2, <3>1 DEF DeleteUserRow
    <3> QED
      BY <3>1, <3>2, <3>3 DEF Typed, UsersOK
  <2>4. req[r].at = "delete:user" /\ req[r].token # req[r].user
    BY <2>2 DEF DeleteUserRow, NotOneself
  <2> QED
    BY <2>3, <2>4
<1> QED
  BY <1>1, <1>2, NotOneselfStep, InvIsTyped, PTL DEF Spec, LastAccountStays

-----------------------------------------------------------------------------
(* Pending logins.  Tokens are handed out in order, so one that is new was *)
(* never answered; a request that has consumed its token will grant a      *)
(* session for a token that is gone.                                       *)

(* A pending login through which a session was granted is gone.            *)
SpentIsGone == \A p \in pending : granted[p.token] = 0

Answered ==
  /\ \A p \in pending : p.token <= lastToken
  /\ \A t \in Tokens : t > lastToken => granted[t] = 0
  /\ SpentIsGone
  /\ \A r \in Requests : req[r].at \in VerifySteps => req[r].token \in 1 .. lastToken
  /\ \A r \in Requests : req[r].at = "verify:grant" => \A p \in pending : p.token # req[r].token

(* A step answers a login, adds a pending one, or does neither.            *)
LEMMA PendingStep ==
  ASSUME Typed, Next
  PROVE  /\ lastToken' \in Int /\ lastToken <= lastToken'
         /\ granted' = granted \/ \E r \in Requests : VerifyGrants(r)
         /\ \/ \A row \in pending' : \E old \in pending : old.token = row.token
            \/ \E r \in Requests : LoginAsksForCode(r)
<1> DEFINE Later == lastToken' \in Int /\ lastToken <= lastToken'
           Given == granted' = granted \/ \E r \in Requests : VerifyGrants(r)
           Old == \/ \A row \in pending' : \E old \in pending : old.token = row.token
                  \/ \E r \in Requests : LoginAsksForCode(r)
           Goal == Later /\ Given /\ Old
<1>0. lastToken \in Int
  BY AccountsAssumption DEF Typed, TokensOK
<1> DEFINE Same == pending' = pending /\ lastToken' = lastToken /\ granted' = granted
<1>1. CASE Same
  BY <1>0, <1>1
<1>2. ASSUME NEW r \in Requests, LoginGrants(r) \/ ChangeCreates(r) \/ VerifyGrants(r) PROVE Goal
  <2>1. pending' = pending /\ lastToken' = lastToken + 1
    BY <1>2 DEF LoginGrants, ChangeCreates, VerifyGrants, CreateSession, NewToken
  <2>2. Given
    BY <1>2 DEF LoginGrants, ChangeCreates, proofs
  <2> QED
    BY <1>0, <2>1, <2>2
<1>3. ASSUME NEW r \in Requests, LoginAsksForCode(r) PROVE Goal
  BY <1>0, <1>3 DEF LoginAsksForCode, NewToken, proofs
<1>4. CASE Time
  <2>1. Old
    <3>1. CASE PendingExpires
      BY <3>1 DEF PendingExpires, Expired, Typed, TokensOK, TokenRow
    <3> QED
      BY <1>4, <3>1 DEF Time, SessionExpires, PurgeSessions, PurgePending
  <2>2. Later /\ Given
    BY <1>0, <1>4 DEF Time, SessionExpires, PendingExpires, PurgeSessions, PurgePending, supply, proofs
  <2> QED
    BY <2>1, <2>2
<1>v. ASSUME NEW r \in Requests, VerifyConsumes(r) PROVE Goal
  BY <1>0, <1>v DEF VerifyConsumes, WithoutToken, supply, proofs
<1>5. ASSUME NEW r \in Requests, SignupArrives(r) \/ Signup(r) PROVE Same
  BY <1>5 DEF SignupArrives, Signup, SignupBegins, SignupUnread, SignupCounts, CreateUserCounts,
              CreateUserInserts, CreateUserCloses, tables, supply, proofs
<1>6. ASSUME NEW r \in Requests, Login(r) PROVE Same \/ LoginGrants(r) \/ LoginAsksForCode(r)
  BY <1>6 DEF Login, LoginBegins, LoginSyncsRole, LoginProvisions, tables, supply, proofs
<1>7. ASSUME NEW r \in Requests, Verify(r) PROVE Same \/ VerifyConsumes(r) \/ VerifyGrants(r)
  BY <1>7 DEF Verify, VerifyBegins, VerifyChecksCode, tables, supply, proofs
<1>8. ASSUME NEW r \in Requests, Mfa(r) PROVE Same
  BY <1>8 DEF Mfa, SetupBegins, SetupStores, ConfirmBegins, ConfirmChecksCode, ConfirmEnables,
              DisableBegins, DisableClears, Acts, tables, supply, proofs
<1>9. ASSUME NEW r \in Requests, ChangePassword(r) PROVE Same \/ ChangeCreates(r)
  BY <1>9 DEF ChangePassword, ChangeBegins, ChangeUpdates, ChangeDeletes, Acts, tables, supply, proofs
<1>10. ASSUME NEW r \in Requests, Admin(r) PROVE Same
  BY <1>10 DEF Admin, AdminCreateBegins, AdminCreateInserts, AdminDeleteBegins, DeleteUserSessions,
               DeleteUserRow, SettingsBegin, SettingsStore, tables, supply, proofs
<1>11. CASE Logout \/ \E r \in Requests : Breaks(r)
  BY <1>1, <1>11 DEF Logout, Breaks, tables, supply, proofs
<1>a. ASSUME NEW r \in Requests, Login(r) PROVE Goal
  BY <1>1, <1>2, <1>3, <1>6, <1>a
<1>b. ASSUME NEW r \in Requests, Verify(r) PROVE Goal
  BY <1>1, <1>2, <1>v, <1>7, <1>b
<1>c. ASSUME NEW r \in Requests, ChangePassword(r) PROVE Goal
  BY <1>1, <1>2, <1>9, <1>c
<1>d. ASSUME NEW r \in Requests, SignupArrives(r) \/ Signup(r) \/ Mfa(r) \/ Admin(r) PROVE Goal
  BY <1>1, <1>5, <1>8, <1>10, <1>d
<1>12. Goal
  BY <1>4, <1>a, <1>b, <1>c, <1>d, <1>11 DEF Next, Step
<1> QED
  BY <1>12

LEMMA AnsweredStep == Typed /\ Answered /\ [Next]_vars => Answered'
<1>s. Answered /\ UNCHANGED vars => Answered'
  BY DEF Answered, SpentIsGone, vars, tables, supply, proofs
<1> SUFFICES ASSUME Typed, Answered, Next PROVE Answered'
  BY <1>s
<1>0. /\ lastToken \in Nat /\ lastToken' \in Int /\ lastToken <= lastToken'
      /\ granted \in [Tokens -> Nat] /\ \A p \in pending : p.token \in Tokens
      /\ \A t \in Tokens : t \in Nat
  BY PendingStep, AccountsAssumption DEF Typed, TokensOK, SecretsOK, TokenRow, Tokens
<1>1. ASSUME NEW p \in pending'
      PROVE  /\ p.token <= lastToken'
             /\ \/ p.token <= lastToken /\ \E old \in pending : old.token = p.token
                \/ p.token = lastToken + 1 /\ granted' = granted /\ lastToken + 1 \in Tokens
  <2>1. CASE \E old \in pending : old.token = p.token
    BY <1>0, <2>1 DEF Answered
  <2>2. ASSUME NEW r \in Requests, LoginAsksForCode(r), p \notin pending
        PROVE  p.token = lastToken + 1 /\ granted' = granted /\ lastToken' = lastToken + 1 /\ lastToken + 1 \in Tokens
    BY <1>0, <2>2, AccountsAssumption DEF LoginAsksForCode, NewToken, proofs, Tokens
  <2> QED
    BY <1>0, <2>1, <2>2, PendingStep
<1>2. ASSUME NEW r \in Requests, VerifyGrants(r)
      PROVE  /\ req[r].token \in Tokens /\ req[r].token <= lastToken /\ req[r].at = "verify:grant"
             /\ granted' = [granted EXCEPT ![req[r].token] = @ + 1]
  <2>1. req[r].at = "verify:grant" /\ lastToken <= MaxTokens
    BY <1>2, AccountsAssumption DEF VerifyGrants, Typed, TokensOK
  <2>2. req[r].token \in 1 .. lastToken
    BY <2>1 DEF Answered, VerifySteps
  <2> QED
    BY <1>0, <1>2, <2>1, <2>2, AccountsAssumption DEF VerifyGrants, Tokens
<1>3. ASSUME NEW t \in Tokens, t > lastToken' PROVE granted'[t] = 0
  <2>1. granted[t] = 0 /\ t > lastToken
    BY <1>0, <1>3 DEF Answered
  <2>2. ASSUME NEW r \in Requests, VerifyGrants(r) PROVE granted'[t] = granted[t]
    BY <1>0, <1>2, <2>1, <2>2
  <2> QED
    BY <2>1, <2>2, PendingStep
<1>4. ASSUME NEW p \in pending' PROVE granted'[p.token] = 0
  <2>1. CASE p.token = lastToken + 1 /\ granted' = granted /\ lastToken + 1 \in Tokens
    BY <1>0, <2>1 DEF Answered
  <2>2. ASSUME NEW old \in pending, old.token = p.token PROVE granted'[p.token] = 0
    <3>1. granted[old.token] = 0 /\ old.token \in Tokens
      BY <1>0 DEF Answered, SpentIsGone
    <3>2. ASSUME NEW r \in Requests, VerifyGrants(r) PROVE granted'[old.token] = granted[old.token]
      BY <1>0, <1>2, <3>1, <3>2 DEF Answered
    <3> QED
      BY <2>2, <3>1, <3>2, PendingStep
  <2> QED
    BY <1>1, <1>4, <2>1, <2>2
<1>5. ASSUME NEW r \in Requests, req'[r].at \in VerifySteps
      PROVE  /\ req'[r].token \in 1 .. lastToken
             /\ req'[r].at = "verify:grant" => \A p \in pending' : p.token # req'[r].token
  <2> DEFINE Goal == /\ req'[r].token \in 1 .. lastToken
                     /\ req'[r].at = "verify:grant" => \A p \in pending' : p.token # req'[r].token
  <2>r. req \in [Requests -> Request] /\ req[r] \in Request
    BY DEF Typed, RequestsOK
  <2>1. CASE req'[r] = req[r]
    <3>1. req'[r].token \in 1 .. lastToken
      BY <1>5, <2>1 DEF Answered
    <3>2. ASSUME req'[r].at = "verify:grant", NEW p \in pending' PROVE p.token # req'[r].token
      <4>1. \A old \in pending : old.token # req'[r].token
        BY <2>1, <3>2 DEF Answered
      <4> QED
        BY <1>0, <1>1, <3>1, <3>2, <4>1
    <3> QED
      BY <3>1, <3>2
  <2>2. CASE VerifyBegins(r)
    <3>1. PICK p \in pending : req'[r] = [Idle EXCEPT !.at = "verify:code", !.user = p.user, !.token = p.token]
      BY <2>2, <2>r DEF VerifyBegins, Begins
    <3>2. p.token \in 1 .. lastToken
      BY <1>0 DEF Answered, Tokens
    <3> QED
      BY <3>1, <3>2 DEF Idle
  <2>3. CASE VerifyChecksCode(r)
    <3>1. req'[r].at = "verify:consume" /\ req'[r].token = req[r].token /\ req[r].at \in VerifySteps
      BY <2>3, <2>r DEF VerifyChecksCode, Reaches, Request, VerifySteps
    <3> QED
      BY <3>1 DEF Answered
  <2>4. CASE VerifyConsumes(r)
    <3>1. req'[r].token = req[r].token /\ req[r].at \in VerifySteps
      BY <2>4, <2>r DEF VerifyConsumes, Reaches, Request, VerifySteps
    <3>2. \A p \in pending' : p.token # req[r].token
      BY <2>4 DEF VerifyConsumes, WithoutToken
    <3> QED
      BY <3>1, <3>2 DEF Answered
  <2>5. CASE req'[r] = Idle \/ VerifyGrants(r)
    BY <1>5, <2>5, <2>r DEF VerifyGrants, Ends, Idle, VerifySteps
  <2> QED
    BY <1>5, <2>1, <2>2, <2>3, <2>4, <2>5, RequestStep, StatementReached DEF Acting, Verify, VerifySteps
<1>6. \A r \in Requests : req'[r].at \in VerifySteps => req'[r].token \in 1 .. lastToken'
  <2>1. \A t \in 1 .. lastToken : t \in 1 .. lastToken'
    BY <1>0
  <2> QED
    BY <1>5, <2>1
<1> QED
  BY <1>1, <1>3, <1>4, <1>5, <1>6 DEF Answered, SpentIsGone, VerifySteps

(* Two requests that answer the same login overlap, so does one that is    *)
(* still under way when the login has granted its session; and a login     *)
(* grants a second one only to such a request.                             *)
AnswersOverlap ==
  /\ \A q, r \in Requests :
       q # r /\ req[q].at \in VerifySteps /\ req[r].at \in VerifySteps /\ req[q].token = req[r].token
         => req[r].token \in overlapped
  /\ \A r \in Requests :
       req[r].at \in VerifySteps /\ granted[req[r].token] # 0 => req[r].token \in overlapped
  /\ SecondSessionOverlapped

(* A request that answers a login did so before the step, or has just      *)
(* found its row.                                                          *)
LEMMA AnswerBegins ==
  ASSUME Typed, Next, NEW r \in Requests, req'[r].at \in VerifySteps
  PROVE  \/ req[r].at \in VerifySteps /\ req'[r].token = req[r].token
         \/ VerifyBegins(r) /\ \E p \in pending : req'[r].token = p.token
<1> DEFINE Goal == \/ req[r].at \in VerifySteps /\ req'[r].token = req[r].token
                   \/ VerifyBegins(r) /\ \E p \in pending : req'[r].token = p.token
<1>r. req \in [Requests -> Request] /\ req[r] \in Request
  BY DEF Typed, RequestsOK
<1>1. CASE VerifyBegins(r)
  <2>1. PICK p \in pending : req'[r] = [Idle EXCEPT !.at = "verify:code", !.user = p.user, !.token = p.token]
    BY <1>1, <1>r DEF VerifyBegins, Begins
  <2> QED
    BY <1>1, <2>1 DEF Idle
<1>2. CASE VerifyChecksCode(r) \/ VerifyConsumes(r)
  BY <1>2, <1>r DEF VerifyChecksCode, VerifyConsumes, Reaches, Request, VerifySteps
<1>3. CASE req'[r] = Idle \/ VerifyGrants(r)
  BY <1>3, <1>r DEF VerifyGrants, Ends, Idle, VerifySteps
<1> QED
  BY <1>1, <1>2, <1>3, RequestStep, StatementReached DEF Acting, Verify, VerifySteps

LEMMA OverlapStep == Typed /\ WindowsOK /\ Answered /\ AnswersOverlap /\ [Next]_vars => AnswersOverlap'
<1>s. AnswersOverlap /\ UNCHANGED vars => AnswersOverlap'
  BY DEF AnswersOverlap, SecondSessionOverlapped, vars, tables, proofs, windows
<1> SUFFICES ASSUME Typed, WindowsOK, Answered, AnswersOverlap, Next PROVE AnswersOverlap'
  BY <1>s
<1>0. /\ req \in [Requests -> Request] /\ granted \in [Tokens -> Nat]
      /\ \A t \in overlapped : t \in overlapped'
      /\ \A r \in Requests : req[r].at \in VerifySteps => req[r].token \in Tokens
  <2>1. \A r \in Requests : req[r].at \in VerifySteps => req[r].token \in 1 .. lastToken
    BY DEF Answered
  <2>2. \A t \in 1 .. lastToken : t \in Tokens
    BY AccountsAssumption DEF Typed, TokensOK, Tokens
  <2>3. \A t \in overlapped : t \in overlapped'
    BY DEF Next, Observe, WindowsOK
  <2> QED
    BY <2>1, <2>2, <2>3 DEF Typed, RequestsOK, SecretsOK
<1>1. ASSUME NEW r \in Requests, req'[r].at \in VerifySteps PROVE req'[r].token \in Tokens
  BY <1>0, <1>1, AnswerBegins DEF Typed, TokensOK, TokenRow
<1>2. ASSUME NEW q \in Requests, NEW r \in Requests, q # r, req'[q].at \in VerifySteps,
             req'[r].at \in VerifySteps, req'[q].token = req'[r].token
      PROVE  req'[r].token \in overlapped'
  <2>1. q \in At(VerifySteps)' /\ r \in At(VerifySteps)'
    BY <1>2 DEF At
  <2> QED
    BY <1>1, <1>2, <2>1 DEF Next, Observe
<1>3. ASSUME NEW g \in Requests, VerifyGrants(g)
      PROVE  /\ req[g].at \in VerifySteps /\ req[g].token \in Tokens
             /\ granted' = [granted EXCEPT ![req[g].token] = @ + 1] /\ pending' = pending
  <2>1. req[g].at \in VerifySteps
    BY <1>3 DEF VerifyGrants, VerifySteps
  <2> QED
    BY <1>0, <1>3, <2>1 DEF VerifyGrants
<1>4. ASSUME NEW r \in Requests, req'[r].at \in VerifySteps, granted'[req'[r].token] # 0
      PROVE  req'[r].token \in overlapped'
  <2> DEFINE t == req'[r].token
  <2>1. CASE granted[t] # 0
    <3>1. ASSUME NEW p \in pending, t = p.token PROVE FALSE
      BY <2>1, <3>1 DEF Answered, SpentIsGone
    <3>2. req[r].at \in VerifySteps /\ t = req[r].token
      BY <1>4, <3>1, AnswerBegins
    <3>3. t \in overlapped
      BY <2>1, <3>2 DEF AnswersOverlap
    <3> QED
      BY <1>0, <3>3
  <2>2. CASE granted[t] = 0
    <3>1. PICK g \in Requests : VerifyGrants(g)
      BY <1>4, <2>2, PendingStep
    <3>2. req[g].token = t
      BY <1>0, <1>1, <1>3, <1>4, <2>2, <3>1
    <3>3. g # r
      BY <1>0, <1>4, <3>1 DEF VerifyGrants, Ends, Idle, VerifySteps
    <3>4. ~VerifyBegins(r)
      <4>1. ASSUME VerifyBegins(r) PROVE req'[g] = req[g] /\ req'[g] = Idle
        <5>1. req'[g] = req[g]
          BY <3>3, <4>1, OthersWait DEF Acting, Verify
        <5>2. req'[g] = Idle
          BY <1>0, <3>1 DEF VerifyGrants, Ends
        <5> QED
          BY <5>1, <5>2
      <4> QED
        BY <1>3, <3>1, <4>1 DEF Idle, VerifySteps
    <3>5. req[r].at \in VerifySteps /\ req[r].token = t
      BY <1>4, <3>4, AnswerBegins
    <3>6. t \in overlapped
      BY <1>3, <3>1, <3>2, <3>3, <3>5 DEF AnswersOverlap
    <3> QED
      BY <1>0, <3>6
  <2> QED
    BY <2>1, <2>2
<1>5. ASSUME NEW t \in Tokens, granted'[t] > 1 PROVE t \in overlapped'
  <2>1. CASE granted[t] > 1
    BY <1>0, <2>1 DEF AnswersOverlap, SecondSessionOverlapped
  <2>2. CASE ~(granted[t] > 1)
    <3>1. PICK g \in Requests : VerifyGrants(g)
      BY <1>5, <2>2, PendingStep
    <3>2. req[g].token = t /\ granted[t] # 0
      BY <1>0, <1>3, <1>5, <2>2, <3>1
    <3>3. t \in overlapped
      BY <1>3, <3>1, <3>2 DEF AnswersOverlap
    <3> QED
      BY <1>0, <3>3
  <2> QED
    BY <2>1, <2>2
<1> QED
  BY <1>2, <1>4, <1>5 DEF AnswersOverlap, SecondSessionOverlapped

(* A pending login grants a second session only if two answers to it were  *)
(* under way at once.                                                      *)
THEOREM SecondSessionsOverlap == Spec => []SecondSessionOverlapped
<1>1. Init => Answered
  BY DEF Init, Answered, SpentIsGone, Idle, VerifySteps
<1>2. Init => AnswersOverlap
  BY DEF Init, AnswersOverlap, SecondSessionOverlapped, Idle, VerifySteps
<1>3. AnswersOverlap => SecondSessionOverlapped
  BY DEF AnswersOverlap
<1> QED
  BY <1>1, <1>2, <1>3, AnsweredStep, OverlapStep, InvIsTyped, PTL DEF Spec

-----------------------------------------------------------------------------
(* MFA.                                                                    *)

(* The secret a confirmation has read is proven, and still that of the     *)
(* account unless the history says that it was overtaken.                  *)
ProvenFirst ==
  /\ EnabledIsProven
  /\ \A i \in Present : i <= lastId
  /\ \A r \in Requests : req[r].at = "confirm:enable" =>
       /\ req[r].secret \in proven
       /\ req[r].user \in 1 .. lastId
       /\ req[r].user \in Present =>
            users[req[r].user].secret = req[r].secret \/ req[r].user \in raced

(* A step leaves an account its secret and its MFA, has MFA off after it,  *)
(* or switches it on.  One that has it off tells whom it has overtaken.    *)
LEMMA FactorStep ==
  ASSUME Typed, Next, NEW i \in Present', \A j \in Present : j <= lastId
  PROVE  \/ /\ i \in Present /\ users'[i].mfa = users[i].mfa /\ users'[i].secret = users[i].secret
            /\ i \in raced => i \in raced'
         \/ ~users'[i].mfa /\ (Confirming(i) => i \in raced')
         \/ \E r \in Requests : ConfirmEnables(r) /\ req[r].user = i
<1> DEFINE Kept == /\ i \in Present /\ users'[i].mfa = users[i].mfa /\ users'[i].secret = users[i].secret
                   /\ i \in raced => i \in raced'
           Off == ~users'[i].mfa /\ (Confirming(i) => i \in raced')
           Goal == Kept \/ Off \/ \E r \in Requests : ConfirmEnables(r) /\ req[r].user = i
           Same == users' = users /\ raced' = raced
<1>0. /\ i \in Ids /\ users \in [Ids -> UserRow \cup {None}] /\ lastId + 1 \in Int
      /\ \A j \in Present : j \in Ids /\ users[j] \in UserRow
  BY PresentRow DEF Present, Typed, UsersOK
<1>o. lastId + 1 \notin Present
  <2>1. lastId \in Int
    BY DEF Typed, UsersOK
  <2> QED
    BY <2>1
<1>1. CASE Same
  BY <1>0, <1>1 DEF Present
<1>2. ASSUME NEW name, NEW role, NEW source, NEW must, AddUser(NewRow(name, role, source, must)), raced' = raced
      PROVE  Goal
  <2>1. ~NewRow(name, role, source, must).mfa
    BY DEF NewRow
  <2>2. i = lastId + 1 => users'[i] = NewRow(name, role, source, must)
    BY <1>0, <1>2 DEF AddUser
  <2>3. i # lastId + 1 => users'[i] = users[i]
    BY <1>0, <1>2 DEF AddUser
  <2>4. CASE i \in Present
    <3>1. CASE i # lastId + 1
      BY <1>2, <2>3, <2>4, <3>1
    <3>2. CASE i = lastId + 1
      BY <1>o, <2>4, <3>2
    <3> QED
      BY <3>1, <3>2
  <2>5. CASE i \notin Present
    <3>1. ~Confirming(i)
      BY <2>5 DEF Confirming
    <3>2. i = lastId + 1
      BY <1>0, <2>3, <2>5 DEF Present
    <3> QED
      BY <2>1, <2>2, <3>1, <3>2
  <2> QED
    BY <2>4, <2>5
<1>3. ASSUME NEW r \in Requests, Signup(r) \/ SignupArrives(r)
      PROVE  Same \/ CreateUserInserts(r)
  BY <1>3 DEF SignupArrives, Signup, SignupBegins, SignupUnread, SignupCounts, CreateUserCounts,
              CreateUserCloses, tables, supply, proofs
<1>4. ASSUME NEW r \in Requests, CreateUserInserts(r) PROVE Goal
  BY <1>2, <1>4 DEF CreateUserInserts, proofs
<1>5. ASSUME NEW r \in Requests, Login(r)
      PROVE  Same \/ \E role \in Roles : LoginSyncsRole(r, role) \/ LoginProvisions(r, role)
  BY <1>5 DEF Login, LoginBegins, LoginGrants, LoginAsksForCode, tables, proofs
<1>6. ASSUME NEW r \in Requests, NEW role \in Roles, LoginSyncsRole(r, role) PROVE Goal
  <2>1. raced' = raced
    BY <1>6 DEF LoginSyncsRole, proofs
  <2>2. CASE req[r].user \in Present /\ i = req[r].user
    <3>1. users'[i] = Synced(i, role)
      BY <1>0, <1>6, <2>2 DEF LoginSyncsRole
    <3>2. Synced(i, role).mfa = users[i].mfa /\ Synced(i, role).secret = users[i].secret
      BY <1>0, <2>2 DEF Synced, UserRow
    <3> QED
      BY <2>1, <2>2, <3>1, <3>2
  <2>3. CASE ~(req[r].user \in Present /\ i = req[r].user)
    <3>1. users'[i] = users[i]
      BY <1>0, <1>6, <2>3 DEF LoginSyncsRole
    <3> QED
      BY <1>0, <2>1, <3>1 DEF Present
  <2> QED
    BY <2>2, <2>3
<1>7. ASSUME NEW r \in Requests, NEW role \in Roles, LoginProvisions(r, role) PROVE Goal
  BY <1>2, <1>7 DEF LoginProvisions, proofs
<1>8. ASSUME NEW r \in Requests, Verify(r) PROVE Same
  BY <1>8 DEF Verify, VerifyBegins, VerifyChecksCode, VerifyConsumes, VerifyGrants, tables, proofs
<1>9. ASSUME NEW r \in Requests, Mfa(r)
      PROVE  Same \/ SetupStores(r) \/ ConfirmEnables(r) \/ DisableClears(r)
  BY <1>9 DEF Mfa, SetupBegins, ConfirmBegins, ConfirmChecksCode, DisableBegins, Acts, tables, proofs
<1>10. ASSUME NEW r \in Requests, SetupStores(r) \/ DisableClears(r) PROVE Goal
  <2>1. raced' = IF Confirming(req[r].user) THEN raced \cup {req[r].user} ELSE raced \ {req[r].user}
    BY <1>10 DEF SetupStores, DisableClears, Overtakes
  <2>2. CASE i = req[r].user /\ i \in Present
    <3>0. Confirming(i) => i \in raced'
      BY <2>1, <2>2
    <3>1. CASE SetupStores(r)
      <4>1. users'[i] = WithSecret(users[i], lastSecret + 1)
        BY <1>0, <2>2, <3>1 DEF SetupStores
      <4> QED
        BY <1>0, <2>2, <3>0, <4>1 DEF WithSecret, UserRow
    <3>2. CASE DisableClears(r)
      BY <1>0, <2>2, <3>0, <3>2 DEF DisableClears, UserRow
    <3> QED
      BY <1>10, <3>1, <3>2
  <2>3. CASE i = req[r].user /\ i \notin Present
    <3>1. users' = users
      BY <1>10, <2>3 DEF SetupStores, DisableClears
    <3> QED
      BY <2>3, <3>1 DEF Present
  <2>4. CASE i # req[r].user
    <3>1. users'[i] = users[i]
      BY <1>0, <1>10, <2>4 DEF SetupStores, DisableClears
    <3> QED
      BY <1>0, <2>1, <2>4, <3>1 DEF Present
  <2> QED
    BY <2>2, <2>3, <2>4
<1>11. ASSUME NEW r \in Requests, ConfirmEnables(r) PROVE Goal
  <2>1. CASE i # req[r].user
    <3>1. users'[i] = users[i] /\ (i \in raced => i \in raced')
      BY <1>0, <1>11, <2>1 DEF ConfirmEnables, proofs
    <3> QED
      BY <1>0, <3>1 DEF Present
  <2> QED
    BY <1>11, <2>1
<1>12. ASSUME NEW r \in Requests, ChangePassword(r) PROVE Same \/ ChangeUpdates(r)
  BY <1>12 DEF ChangePassword, ChangeBegins, ChangeDeletes, ChangeCreates, Acts, tables, proofs
<1>13. ASSUME NEW r \in Requests, ChangeUpdates(r) PROVE Goal
  <2>1. raced' = raced
    BY <1>13 DEF ChangeUpdates, proofs
  <2>2. CASE i = req[r].user /\ i \in Present
    <3>1. users'[i] = [users[i] EXCEPT !.mustChange = FALSE]
      BY <1>0, <1>13, <2>2 DEF ChangeUpdates
    <3> QED
      BY <1>0, <2>1, <2>2, <3>1 DEF UserRow
  <2>3. CASE ~(i = req[r].user /\ i \in Present)
    <3>1. users'[i] = users[i]
      BY <1>0, <1>13, <2>3 DEF ChangeUpdates
    <3> QED
      BY <1>0, <2>1, <3>1 DEF Present
  <2> QED
    BY <2>2, <2>3
<1>14. ASSUME NEW r \in Requests, Admin(r) PROVE Same \/ AdminCreateInserts(r) \/ DeleteUserRow(r)
  BY <1>14 DEF Admin, AdminCreateBegins, AdminDeleteBegins, DeleteUserSessions,
               SettingsBegin, SettingsStore, tables, proofs
<1>15. ASSUME NEW r \in Requests, AdminCreateInserts(r) PROVE Goal
  BY <1>2, <1>15 DEF AdminCreateInserts, proofs
<1>16. ASSUME NEW r \in Requests, DeleteUserRow(r) PROVE Goal
  <2>1. i # req[r].user /\ users'[i] = users[i]
    BY <1>0, <1>16 DEF DeleteUserRow, Present
  <2> QED
    BY <1>0, <1>16, <2>1 DEF DeleteUserRow, Present
<1>17. CASE Logout \/ Time \/ \E r \in Requests : Breaks(r)
  <2>1. Same
    BY <1>17 DEF Logout, Time, SessionExpires, PendingExpires, PurgeSessions, PurgePending, Breaks, tables, proofs
  <2> QED
    BY <1>1, <2>1
<1>a. ASSUME NEW r \in Requests, Signup(r) \/ SignupArrives(r) \/ Verify(r) PROVE Goal
  BY <1>1, <1>3, <1>4, <1>8, <1>a
<1>b. ASSUME NEW r \in Requests, Login(r) PROVE Goal
  BY <1>1, <1>5, <1>6, <1>7, <1>b
<1>c. ASSUME NEW r \in Requests, Mfa(r) PROVE Goal
  BY <1>1, <1>9, <1>10, <1>11, <1>c
<1>d. ASSUME NEW r \in Requests, ChangePassword(r) \/ Admin(r) PROVE Goal
  BY <1>1, <1>12, <1>13, <1>14, <1>15, <1>16, <1>d
<1> QED
  BY <1>17, <1>a, <1>b, <1>c, <1>d DEF Next, Step

(* What was proven stays so.                                               *)
LEMMA ProvenStays ==
  ASSUME Next
  PROVE  \A secret \in proven : secret \in proven'
<1> DEFINE Goal == \A secret \in proven : secret \in proven'
<1>1. ASSUME NEW r \in Requests, Acting(r) \/ Breaks(r) PROVE Goal
  BY <1>1 DEF Acting, Breaks, SignupArrives, Signup, SignupBegins, SignupUnread, SignupCounts, CreateUserCounts,
    CreateUserInserts, CreateUserCloses, Login, LoginBegins, LoginSyncsRole, LoginProvisions, LoginGrants,
    LoginAsksForCode, Verify, VerifyBegins, VerifyChecksCode, VerifyConsumes, VerifyGrants, Mfa, SetupBegins,
    SetupStores, ConfirmBegins, ConfirmChecksCode, ConfirmEnables, DisableBegins, DisableClears, Acts,
    ChangePassword, ChangeBegins, ChangeUpdates, ChangeDeletes, ChangeCreates, Admin, AdminCreateBegins,
    AdminCreateInserts, AdminDeleteBegins, DeleteUserSessions, DeleteUserRow, SettingsBegin, SettingsStore, proofs
<1>2. CASE Logout \/ Time
  BY <1>2 DEF Logout, Time, SessionExpires, PendingExpires, PurgeSessions, PurgePending, proofs
<1> QED
  BY <1>1, <1>2 DEF Next, Step, Acting

(* An id that is handed out is a new one.                                  *)
LEMMA IdsGrow ==
  ASSUME Typed, Next, \A i \in Present : i <= lastId
  PROVE  /\ lastId \in Int /\ lastId' \in Int /\ lastId <= lastId'
         /\ \A i \in Present' : i <= lastId' /\ (i \in Present \/ i = lastId + 1)
<1>0. lastId \in 0 .. MaxUsers /\ \A i \in Present : i \in Ids /\ users[i] # None
  BY PresentRow DEF Typed, UsersOK, Present
<1>1. lastId' = lastId \/ lastId' = lastId + 1
  <2> DEFINE Goal == lastId' = lastId \/ lastId' = lastId + 1
  <2>1. ASSUME NEW r \in Requests, Acting(r) \/ Breaks(r) PROVE Goal
    BY <2>1 DEF Acting, Breaks, SignupArrives, Signup, SignupBegins, SignupUnread, SignupCounts, CreateUserCounts,
      CreateUserInserts, CreateUserCloses, Login, LoginBegins, LoginSyncsRole, LoginProvisions, LoginGrants,
      LoginAsksForCode, Verify, VerifyBegins, VerifyChecksCode, VerifyConsumes, VerifyGrants, Mfa, SetupBegins,
      SetupStores, ConfirmBegins, ConfirmChecksCode, ConfirmEnables, DisableBegins, DisableClears, Acts,
      ChangePassword, ChangeBegins, ChangeUpdates, ChangeDeletes, ChangeCreates, Admin, AdminCreateBegins,
      AdminCreateInserts, AdminDeleteBegins, DeleteUserSessions, DeleteUserRow, SettingsBegin, SettingsStore,
      AddUser, tables
  <2>2. CASE Logout \/ Time
    BY <2>2 DEF Logout, Time, SessionExpires, PendingExpires, PurgeSessions, PurgePending
  <2> QED
    BY <2>1, <2>2 DEF Next, Step, Acting
<1>2. ASSUME NEW i \in Present' PROVE i \in Present \/ (i = lastId + 1 /\ lastId' = lastId + 1)
  <2>0. i \in Ids /\ users'[i] # None /\ users \in [Ids -> UserRow \cup {None}]
    BY <1>2 DEF Present, Typed, UsersOK
  <2>1. CASE users' = users
    BY <1>2, <2>1 DEF Present
  <2>2. ASSUME NEW row \in UserRow, AddUser(row) PROVE i \in Present \/ (i = lastId + 1 /\ lastId' = lastId + 1)
    BY <2>0, <2>2 DEF AddUser, Present
  <2>3. ASSUME NEW j \in Present, NEW row \in UserRow, users' = [users EXCEPT ![j] = row] PROVE i \in Present
    BY <2>0, <2>3 DEF Present
  <2>4. ASSUME NEW r \in Requests, DeleteUserRow(r) PROVE i \in Present
    BY <2>0, <2>4 DEF DeleteUserRow, Present
  <2> QED
    BY <2>1, <2>2, <2>3, <2>4, UsersStep
<1>3. ASSUME NEW i \in Present' PROVE i <= lastId'
  <2>1. CASE i \in Present
    <3>1. i \in Int /\ i <= lastId
      BY <1>0, <2>1 DEF Ids
    <3> QED
      BY <1>0, <1>1, <3>1
  <2> QED
    BY <1>0, <1>2, <2>1
<1> QED
  BY <1>0, <1>1, <1>2, <1>3

LEMMA ProvenStep == Typed /\ ProvenFirst /\ [Next]_vars => ProvenFirst'
<1>s. ProvenFirst /\ UNCHANGED vars => ProvenFirst'
  BY DEF ProvenFirst, EnabledIsProven, Present, vars, tables, supply, proofs
<1> SUFFICES ASSUME Typed, ProvenFirst, Next PROVE ProvenFirst'
  BY <1>s
<1>i. \A i \in Present : i <= lastId
  BY DEF ProvenFirst
<1>1. ASSUME NEW i \in Present', users'[i].mfa PROVE users'[i].secret \in proven' \/ i \in raced'
  <2>1. ASSUME NEW r \in Requests, ConfirmEnables(r), req[r].user = i
        PROVE  users'[i].secret \in proven' \/ i \in raced'
    <3>1. req[r].secret \in proven /\ (users[i].secret = req[r].secret \/ i \in raced)
      BY <2>1 DEF ConfirmEnables, ProvenFirst
    <3>2. i \in Ids /\ users[i] \in UserRow
      BY <2>1, PresentRow DEF ConfirmEnables, Typed
    <3>3. users'[i].secret = users[i].secret
      BY <2>1, <3>2 DEF ConfirmEnables, Typed, UsersOK, UserRow
    <3>4. raced' = raced
      BY <2>1 DEF ConfirmEnables, proofs
    <3> QED
      BY <3>1, <3>3, <3>4, ProvenStays
  <2> QED
    BY <1>1, <1>i, <2>1, FactorStep, ProvenStays DEF ProvenFirst, EnabledIsProven
<1>3. ASSUME NEW r \in Requests, req'[r] = req[r], req[r].at = "confirm:enable", req[r].user \in Present'
      PROVE  users'[req[r].user].secret = req[r].secret \/ req[r].user \in raced'
  <2> DEFINE i == req[r].user
  <2>1. i \in Present /\ (users[i].secret = req[r].secret \/ i \in raced)
    <3>1. i <= lastId
      BY <1>3 DEF ProvenFirst
    <3>2. i \in Present
      BY <1>3, <1>i, <3>1, IdsGrow
    <3> QED
      BY <1>3, <3>2 DEF ProvenFirst
  <2>2. Confirming(i)
    BY <1>3, <2>1 DEF Confirming
  <2>3. ASSUME NEW q \in Requests, ConfirmEnables(q), req[q].user = i
        PROVE  users'[i].secret = users[i].secret /\ raced' = raced
    <3>1. i \in Ids /\ users[i] \in UserRow
      BY <2>1, PresentRow DEF Typed
    <3> QED
      BY <2>3, <3>1 DEF ConfirmEnables, Typed, UsersOK, UserRow, proofs
  <2> QED
    BY <1>3, <1>i, <2>1, <2>2, <2>3, FactorStep
<1>2. ASSUME NEW r \in Requests, req'[r].at = "confirm:enable"
      PROVE  /\ req'[r].secret \in proven' /\ req'[r].user \in 1 .. lastId'
             /\ req'[r].user \in Present' =>
                  users'[req'[r].user].secret = req'[r].secret \/ req'[r].user \in raced'
  <2>r. req \in [Requests -> Request] /\ req[r] \in Request
    BY DEF Typed, RequestsOK
  <2>1. CASE req'[r] = req[r]
    <3>1. req[r].secret \in proven /\ req[r].user \in 1 .. lastId
      BY <1>2, <2>1 DEF ProvenFirst
    <3>2. req[r].user \in Ids \cup {None}
      BY <2>r DEF Request
    <3>3. req[r].user \in Int => req[r].user \in 1 .. lastId'
      BY <1>i, <3>1, IdsGrow
    <3> QED
      BY <1>2, <1>3, <2>1, <3>1, <3>2, <3>3, ProvenStays DEF Ids
  <2>2. CASE ConfirmChecksCode(r)
    <3>1. req'[r] = [req[r] EXCEPT !.at = "confirm:enable", !.secret = users[req[r].user].secret]
      BY <2>2, <2>r DEF ConfirmChecksCode
    <3>2. req'[r].secret = users[req[r].user].secret /\ req'[r].user = req[r].user
      BY <2>r, <3>1 DEF Request
    <3>3. req[r].user \in Present /\ users' = users /\ lastId' = lastId /\ req'[r].secret \in proven'
      BY <2>2, <3>2 DEF ConfirmChecksCode, tables
    <3>4. req[r].user \in 1 .. lastId'
      BY <1>i, <3>3, PresentRow DEF Typed, UsersOK, Ids
    <3> QED
      BY <3>2, <3>3, <3>4
  <2>3. ASSUME Mfa(r), ~ConfirmChecksCode(r) PROVE req'[r].at # "confirm:enable"
    <3>1. ASSUME NEW s, NEW at, Acts(r, s, at) PROVE req'[r].at = at
      BY <3>1, <2>r DEF Acts, Begins, Idle
    <3>2. CASE SetupBegins(r) \/ ConfirmBegins(r) \/ DisableBegins(r)
      BY <3>1, <3>2 DEF SetupBegins, ConfirmBegins, DisableBegins
    <3>3. CASE SetupStores(r) \/ ConfirmEnables(r) \/ DisableClears(r)
      BY <3>3, <2>r DEF SetupStores, ConfirmEnables, DisableClears, Ends, Idle
    <3> QED
      BY <2>3, <3>2, <3>3 DEF Mfa
  <2> QED
    BY <1>2, <2>1, <2>2, <2>3, RequestStep, StatementReached DEF Acting, Idle
<1>4. \A i \in Present' : i <= lastId'
  BY <1>i, IdsGrow
<1> QED
  BY <1>1, <1>2, <1>4 DEF ProvenFirst, EnabledIsProven

(* Nobody is locked out by a second factor that was never shown to work,   *)
(* but for a secret stored or removed while a confirmation was under way.  *)
THEOREM EnabledFactorsWork == Spec => []EnabledIsProven
<1>1. Init => ProvenFirst
  <2>1. ASSUME Init, NEW i \in Present, users[i].mfa PROVE users[i].secret \in proven
    <3>1. CASE Fresh
      BY <2>1, <3>1 DEF Fresh, Present
    <3>2. CASE InUse
      <4>1. ASSUME NEW a \in Names, NEW b \in Names, users = Established(a, b) PROVE users[i].secret = 1
        <5>1. i \in Ids /\ (i # 1 => i = 2)
          BY <2>1, <4>1 DEF Present, Established
        <5>2. ~NewRow(a, "admin", "local", FALSE).mfa
          BY DEF NewRow
        <5>3. [NewRow(b, "user", "local", FALSE) EXCEPT !.secret = 1, !.mfa = TRUE].secret = 1
          BY DEF NewRow
        <5>4. i = 1 => users[i] = NewRow(a, "admin", "local", FALSE)
          BY <4>1, <5>1 DEF Established
        <5>5. i = 2 => users[i] = [NewRow(b, "user", "local", FALSE) EXCEPT !.secret = 1, !.mfa = TRUE]
          BY <4>1, <5>1 DEF Established
        <5> QED
          BY <2>1, <5>1, <5>2, <5>3, <5>4, <5>5
      <4> QED
        BY <3>2, <4>1 DEF InUse
    <3> QED
      BY <2>1, <3>1, <3>2 DEF Init
  <2>2. ASSUME Init PROVE \A i \in Present : i <= lastId
    <3>1. CASE Fresh
      BY <3>1 DEF Fresh, Present
    <3>2. CASE InUse
      <4>1. lastId = 2 /\ \A i \in Present : i \in Ids /\ (i # 1 => i = 2)
        BY <3>2 DEF InUse, Present, Established
      <4> QED
        BY <4>1
    <3> QED
      BY <2>2, <3>1, <3>2 DEF Init
  <2> QED
    BY <2>1, <2>2 DEF Init, ProvenFirst, EnabledIsProven, Idle
<1>2. ProvenFirst => EnabledIsProven
  BY DEF ProvenFirst
<1> QED
  BY <1>1, <1>2, ProvenStep, InvIsTyped, PTL DEF Spec

-----------------------------------------------------------------------------
(* Windows.  What a signup or a login has read held while it was under way.*)

Warranted(r) ==
  /\ req[r].at = "signup:count" /\ req[r].flag => r \in wasOpen \cup unread
  /\ req[r].at \in {"signup:create", "signup:insert"} => r \in wasOpen \cup wasEmpty \cup unread
  /\ req[r].at = "signup:insert" /\ req[r].role = "admin" => r \in wasEmpty
  /\ req[r].at \in LoginSteps /\ ~req[r].flag => r \in wasOff
  /\ req[r].at = "login:provision" => ~req[r].flag

(* The windows of a request that goes on stay open.                        *)
LEMMA WindowsStay ==
  ASSUME Typed, Next, NEW r \in Requests
  PROVE  /\ req'[r].at \in SignupSteps =>
              /\ r \in wasOpen => r \in wasOpen'
              /\ r \in wasEmpty => r \in wasEmpty'
              /\ selfSignup' => r \in wasOpen'
              /\ Present' = {} => r \in wasEmpty'
         /\ req'[r].at \in LoginSteps =>
              /\ r \in wasOff => r \in wasOff'
              /\ users'[req'[r].user] # None /\ ~users'[req'[r].user].mfa => r \in wasOff'
<1>1. Observe
  BY DEF Next
<1>2. req'[r].at \in SignupSteps => r \in At(SignupSteps)'
  BY DEF At
<1>3. req'[r].at \in LoginSteps => r \in At(LoginSteps)'
  BY DEF At
<1> QED
  BY <1>1, <1>2, <1>3 DEF Observe

LEMMA UnreadStays ==
  ASSUME Typed, Next, NEW r \in Requests, r \in unread, req'[r].at # "idle", ~SignupArrives(r)
  PROVE  r \in unread'
<1>1. ASSUME NEW q \in Requests, SignupArrives(q) PROVE r \in unread'
  BY <1>1 DEF SignupArrives, SignupBegins, SignupUnread
<1>2. ASSUME unread' = {q \in unread : req'[q] # Idle} PROVE r \in unread'
  BY <1>2 DEF Idle
<1> QED
  BY <1>1, <1>2 DEF Next

LEMMA WarrantedStep ==
  ASSUME Typed, Next, NEW r \in Requests, Warranted(r)
  PROVE  Warranted(r)'
<1>r. req \in [Requests -> Request] /\ req[r] \in Request /\ \A i \in Present : i \in Ids /\ users[i] \in UserRow
  BY PresentRow DEF Typed, RequestsOK
<1>s. /\ "signup:count" \in SignupSteps /\ "signup:create" \in SignupSteps /\ "signup:insert" \in SignupSteps
      /\ "login:grant" \in LoginSteps /\ "login:directory" \in LoginSteps
  BY DEF SignupSteps, LoginSteps
<1>0. CASE req'[r] = Idle
  BY <1>0 DEF Warranted, Idle, LoginSteps
<1>1. CASE req'[r] = req[r]
  <2>1. ASSUME SignupArrives(r) PROVE req'[r].at # "idle" /\ req[r].at = "idle"
    <3>1. ASSUME NEW name, NEW flag, Begins(r, [Idle EXCEPT !.at = "signup:count", !.name = name, !.flag = flag])
          PROVE  req'[r].at # "idle" /\ req[r].at = "idle"
      BY <3>1, <1>r DEF Begins, Idle
    <3> QED
      BY <2>1, <3>1 DEF SignupArrives, SignupBegins, SignupUnread
  <2>2. req[r].at # "idle" /\ r \in unread => r \in unread'
    BY <1>1, <2>1, UnreadStays
  <2>3. req[r].at = "signup:count" /\ req[r].flag => r \in (wasOpen \cup unread)'
    BY <1>1, <1>s, <2>2, WindowsStay DEF Warranted
  <2>4. req[r].at \in {"signup:create", "signup:insert"} => r \in (wasOpen \cup wasEmpty \cup unread)'
    BY <1>1, <1>s, <2>2, WindowsStay DEF Warranted
  <2>5. req[r].at = "signup:insert" /\ req[r].role = "admin" => r \in wasEmpty'
    BY <1>1, <1>s, WindowsStay DEF Warranted
  <2>6. req[r].at \in LoginSteps /\ ~req[r].flag => r \in wasOff'
    BY <1>1, WindowsStay DEF Warranted
  <2> QED
    BY <1>1, <2>3, <2>4, <2>5, <2>6 DEF Warranted
<1>2. CASE SignupArrives(r)
  <2>1. ASSUME NEW name \in Names, SignupBegins(r, name) PROVE Warranted(r)'
    <3>1. req'[r] = [Idle EXCEPT !.at = "signup:count", !.name = name, !.flag = selfSignup] /\ selfSignup' = selfSignup
      BY <1>r, <2>1 DEF SignupBegins, Begins, tables
    <3>2. req'[r].at = "signup:count" /\ req'[r].flag = selfSignup
      BY <3>1 DEF Idle
    <3> QED
      BY <3>1, <3>2, <1>s, WindowsStay DEF Warranted, LoginSteps
  <2>2. ASSUME NEW name \in Names, SignupUnread(r, name) PROVE Warranted(r)'
    <3>1. req'[r].at = "signup:count" /\ r \in unread'
      BY <1>r, <2>2 DEF SignupUnread, Begins, Idle
    <3> QED
      BY <3>1 DEF Warranted, LoginSteps
  <2> QED
    BY <1>2, <2>1, <2>2 DEF SignupArrives
<1>3. ASSUME Signup(r), ~SignupArrives(r) PROVE Warranted(r)'
  <2>1. CASE SignupCounts(r)
    <3>1. req[r].at = "signup:count" /\ req'[r].at = "signup:create" /\ (Present = {} \/ req[r].flag)
      BY <1>r, <2>1 DEF SignupCounts, Reaches, Refused, Request
    <3>2. Present' = Present
      BY <2>1 DEF SignupCounts, tables, Present
    <3>3. req[r].flag => r \in (wasOpen \cup unread)'
      BY <1>3, <3>1, <1>s, WindowsStay, UnreadStays DEF Warranted
    <3>4. Present = {} => r \in wasEmpty'
      BY <3>1, <3>2, <1>s, WindowsStay
    <3> QED
      BY <3>1, <3>3, <3>4 DEF Warranted, LoginSteps
  <2>2. CASE CreateUserCounts(r)
    <3>1. req[r].at = "signup:create" /\ req'[r].at = "signup:insert"
      BY <1>r, <2>2 DEF CreateUserCounts, Request
    <3>2. req'[r].role = "admin" => Present = {}
      BY <1>r, <2>2 DEF CreateUserCounts, Request, IsBootstrap
    <3>3. Present' = Present
      BY <2>2 DEF CreateUserCounts, tables, Present
    <3>4. r \in (wasOpen \cup wasEmpty \cup unread)'
      BY <1>3, <3>1, <1>s, WindowsStay, UnreadStays DEF Warranted
    <3>5. Present = {} => r \in wasEmpty'
      BY <3>1, <3>3, <1>s, WindowsStay
    <3> QED
      BY <3>1, <3>2, <3>4, <3>5 DEF Warranted, LoginSteps
  <2>3. CASE CreateUserInserts(r) \/ CreateUserCloses(r)
    <3>1. req'[r].at \in {"idle", "signup:close"}
      <4>1. Ends(r) => req'[r].at = "idle"
        BY <1>r DEF Ends, Idle
      <4>2. Reaches(r, "signup:close") => req'[r].at = "signup:close"
        BY <1>r DEF Reaches, Request
      <4> QED
        BY <2>3, <4>1, <4>2 DEF CreateUserInserts, CreateUserCloses
    <3> QED
      BY <3>1 DEF Warranted, LoginSteps
  <2> QED
    BY <1>3, <2>1, <2>2, <2>3 DEF Signup
<1>4. CASE Login(r)
  <2>1. ASSUME NEW name \in Names, LoginBegins(r, name) PROVE Warranted(r)'
    <3>1. ASSUME NEW i \in Present, NEW at \in LoginSteps,
                 Begins(r, [Idle EXCEPT !.at = at, !.name = name, !.user = i, !.flag = MfaOf(i)])
          PROVE  Warranted(r)'
      <4>1. req'[r].at = at /\ req'[r].user = i /\ (req'[r].flag = MfaOf(i))
        BY <1>r, <3>1 DEF Begins, Idle
      <4>2. users' = users /\ users[i] # None
        BY <2>1 DEF LoginBegins, tables, Present
      <4>3. ~req'[r].flag => r \in wasOff'
        BY <4>1, <4>2, WindowsStay DEF MfaOf
      <4> QED
        BY <4>1, <4>3 DEF Warranted, LoginSteps
    <3>2. ASSUME Begins(r, [Idle EXCEPT !.at = "login:provision", !.name = name]) PROVE Warranted(r)'
      <4>1. req'[r].at = "login:provision" /\ ~req'[r].flag
        BY <1>r, <3>2 DEF Begins, Idle
      <4> QED
        BY <4>1 DEF Warranted, LoginSteps
    <3> QED
      BY <2>1, <3>1, <3>2 DEF LoginBegins, LoginSteps
  <2>2. ASSUME NEW role \in Roles, LoginSyncsRole(r, role) PROVE Warranted(r)'
    <3>1. req'[r].at = "login:grant" /\ req'[r].flag = req[r].flag /\ req[r].at \in LoginSteps
      BY <1>r, <1>s, <2>2 DEF LoginSyncsRole, Reaches, Request
    <3>2. ~req'[r].flag => r \in wasOff'
      BY <3>1, <1>s, WindowsStay DEF Warranted
    <3> QED
      BY <3>1, <3>2 DEF Warranted
  <2>3. ASSUME NEW role \in Roles, LoginProvisions(r, role) PROVE Warranted(r)'
    <3>1. req'[r].at = "login:grant" /\ req'[r].user = lastId + 1
      BY <1>r, <2>3 DEF LoginProvisions, Request
    <3>2. users'[lastId + 1] = NewRow(req[r].name, role, "ldap", FALSE)
      <4>1. lastId + 1 \in Ids
        BY <2>3, AccountsAssumption DEF LoginProvisions, AddUser, Typed, UsersOK, Ids
      <4> QED
        BY <2>3, <4>1 DEF LoginProvisions, AddUser, Typed, UsersOK
    <3>3. NewRow(req[r].name, role, "ldap", FALSE) \in UserRow
      BY <2>3, NewRowIsRow DEF LoginProvisions, Typed, RequestsOK, Ready
    <3>4. ~NewRow(req[r].name, role, "ldap", FALSE).mfa
      BY DEF NewRow
    <3>5. r \in wasOff'
      BY <1>s, <3>1, <3>2, <3>3, <3>4, NoneIsNoRow, WindowsStay
    <3> QED
      BY <3>1, <3>5 DEF Warranted
  <2>4. CASE LoginGrants(r) \/ LoginAsksForCode(r)
    BY <1>0, <1>r, <2>4 DEF LoginGrants, LoginAsksForCode, Ends
  <2> QED
    BY <1>4, <2>1, <2>2, <2>3, <2>4 DEF Login
<1>5. CASE Verify(r) \/ Mfa(r) \/ ChangePassword(r) \/ Admin(r)
  BY <1>5, StatementReached DEF Warranted, LoginSteps
<1> QED
  BY <1>0, <1>1, <1>2, <1>3, <1>4, <1>5, RequestStep DEF Acting

AllWarranted == \A r \in Requests : Warranted(r)

LEMMA WindowsInvariant == Spec => [](Typed /\ AllWarranted)
<1>1. Init => AllWarranted
  BY DEF Init, AllWarranted, Warranted, Idle, LoginSteps
<1>2. Typed /\ AllWarranted /\ [Next]_vars => AllWarranted'
  <2>1. AllWarranted /\ UNCHANGED vars => AllWarranted'
    BY DEF AllWarranted, Warranted, vars, windows
  <2> QED
    BY <2>1, WarrantedStep DEF AllWarranted
<1> QED
  BY <1>1, <1>2, InvIsTyped, PTL DEF Spec

(* Whatever overtakes a signup, it makes an account only if signup was     *)
(* open, or nobody had one, at some moment while it was under way, and an  *)
(* administrator only in the second case; or the setting could not be read.*)
THEOREM SignupsWereAllowed == Spec => SignupWasAllowed
<1> DEFINE Allowed == \A r \in Requests : CreateUserInserts(r) =>
                        /\ r \in wasOpen \cup wasEmpty \cup unread
                        /\ req[r].role = "admin" => r \in wasEmpty
<1>1. Typed /\ AllWarranted => Allowed
  BY DEF AllWarranted, Warranted, CreateUserInserts
<1> QED
  BY <1>1, WindowsInvariant, PTL DEF SignupWasAllowed

(* No session without a code for an account whose MFA was on all the while.*)
THEOREM SecondFactorIsAsked == Spec => SecondFactorAsked
<1> DEFINE Asked == \A r \in Requests : LoginGrants(r) => r \in wasOff
<1>1. Typed /\ AllWarranted => Asked
  BY DEF AllWarranted, Warranted, LoginGrants, LoginSteps
<1> QED
  BY <1>1, WindowsInvariant, PTL DEF SecondFactorAsked
=============================================================================
