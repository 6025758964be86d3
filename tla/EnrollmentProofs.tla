--------------------------- MODULE EnrollmentProofs ---------------------------
(***************************************************************************)
(* Proofs about Enrollment: type correctness, that the uses counted on a   *)
(* token are the registrations that spent one and never exceed its limit,  *)
(* that a token is of no use after its end, that the limiter keeps nothing *)
(* but refusals, and that an agent's key is with its shipper or was lost   *)
(* to a fault, for any number of shippers that present tokens at once and  *)
(* any number of faults.                                                   *)
(***************************************************************************)
EXTENDS Enrollment, FiniteSetTheorems, TLAPS

(* There are finitely many registrations.                                  *)
LEMMA RegistrationsAreFinite == IsFiniteSet(Registrations)
<1>1. IsFiniteSet(1 .. MaxRuns)
  BY EnrollmentAssumption, FS_Interval
<1> QED
  BY <1>1, EnrollmentAssumption, FS_Product DEF Registrations

-----------------------------------------------------------------------------
(* Type correctness.                                                       *)

(* Initially nothing has been issued or asked for.                         *)
LEMMA TypeInit == Init => TypeOK
  BY EnrollmentAssumption DEF Init, TypeOK, Registrations, Times, Expiries, Forever, Keys, Saving

(* The steps of the clock and the administrator keep the types.            *)
LEMMA TypeAdmin == TypeOK /\ (Tick \/ Admin) => TypeOK'
<1> SUFFICES ASSUME TypeOK, Tick \/ Admin PROVE TypeOK'
  OBVIOUS
<1> USE EnrollmentAssumption DEF Saving, Current
<1>f. Forever \in Nat /\ Expiries = 0 .. Forever /\ Times = 0 .. MaxTime /\ Forever = MaxTime + 1
  BY DEF Forever, Expiries, Times
<1>1. CASE Tick
  BY <1>1, <1>f DEF Tick, TypeOK, serverVars, shipperVars, tokenVars
<1>2. ASSUME NEW t \in Tokens, NEW n \in Nat, NEW end \in Expiries, Issue(t, n, end)
      PROVE  TypeOK'
  BY <1>2 DEF Issue, TypeOK, shipperVars
<1>3. ASSUME NEW t \in Tokens, GenerateToken(t) PROVE TypeOK'
  BY <1>2, <1>3, <1>f DEF GenerateToken
<1>4. ASSUME NEW t \in Tokens, CreatePackage(t) PROVE TypeOK'
  <2>1. PICK p \in Packages : Issue(t, p.uses, Earlier(now + p.days, Forever))
    BY <1>4 DEF CreatePackage
  <2>2. p.uses \in Nat /\ Earlier(now + p.days, Forever) \in Expiries
    BY <1>f DEF Earlier, TypeOK
  <2> QED
    BY <1>2, <2>1, <2>2
<1>5. ASSUME NEW t \in Tokens, Revoke(t) PROVE TypeOK'
  <2>1. RevokedAt(t) \in Expiries /\ Earlier(deadline[t], now) \in Expiries
    BY <1>f DEF RevokedAt, Earlier, TypeOK
  <2> QED
    BY <1>5, <2>1 DEF Revoke, TypeOK, shipperVars
<1> QED
  BY <1>1, <1>3, <1>4, <1>5 DEF Admin

(* The steps of the server keep the types: agents are the registrations    *)
(* granted.                                                                *)
LEMMA TypeServer ==
  ASSUME TypeOK, NEW r \in Registrations, Serve(r) \/ StatementFails(r) \/ Dropped(r)
  PROVE  TypeOK'
<1> USE EnrollmentAssumption DEF Saving, Current
<1>0. stage[r] \in {"sent", "checked", "consumed"} /\ AddressFor(r) \in Addresses /\ TokenFor(r) \in Tokens
  BY DEF Serve, StatementFails, Dropped, CheckLimit, Consume, CreateAgent, Open,
     AddressFor, TokenFor, Registrations
<1>1. CASE CheckLimit(r)
  <2>1. DOMAIN failures' \subseteq Addresses /\ \A a \in DOMAIN failures' : failures'[a] \subseteq [reg : Registrations, at : Times]
    BY <1>1, <1>0 DEF CheckLimit, Pruned, LiveFailures, Recorded, TypeOK
  <2> QED
    BY <1>1, <1>0, <2>1 DEF CheckLimit, Reached, TypeOK, tokenVars, shipperVars
<1>2. CASE Consume(r)
  <2>1. DOMAIN failures' \subseteq Addresses /\ \A a \in DOMAIN failures' : failures'[a] \subseteq [reg : Registrations, at : Times]
    <3>1. CASE failures' = failures
      BY <3>1 DEF TypeOK
    <3>2. CASE failures' = RecordFailure(AddressFor(r), r)
      <4>1. [reg |-> r, at |-> now] \in [reg : Registrations, at : Times]
        BY DEF TypeOK
      <4> QED
        BY <3>2, <4>1, <1>0 DEF RecordFailure, Recorded, TypeOK
    <3> QED
      BY <1>2, <3>1, <3>2 DEF Consume
  <2>2. CASE Usable(TokenFor(r))
    BY <1>2, <1>0, <2>1, <2>2 DEF Consume, Reached, TypeOK, shipperVars
  <2>3. CASE ~ Usable(TokenFor(r))
    BY <1>2, <1>0, <2>1, <2>3 DEF Consume, Reached, TypeOK, shipperVars
  <2> QED
    BY <2>2, <2>3
<1>3. CASE CreateAgent(r)
  BY <1>3 DEF CreateAgent, Reached, TypeOK, tokenVars, shipperVars
<1>4. CASE StatementFails(r) \/ Dropped(r)
  BY <1>4, <1>0 DEF StatementFails, Dropped, Ended, Reached, Fault, TypeOK, tokenVars, shipperVars
<1> QED
  BY <1>1, <1>2, <1>3, <1>4 DEF Serve

(* So does its death, which ends every open request.                       *)
LEMMA TypeCrash == TypeOK /\ ServerCrash => TypeOK'
  BY EnrollmentAssumption DEF ServerCrash, Ended, Open, Fault, TypeOK, Saving, Current, tokenVars, shipperVars

(* And so do the steps of a shipper.                                       *)
LEMMA TypeShipper ==
  ASSUME TypeOK, NEW h \in Shippers, Shipper(h) \/ TimeOut(h) \/ Kill(h) \/ SaveFails(h)
  PROVE  TypeOK'
<1> USE EnrollmentAssumption DEF Saving, Current
<1>1. CASE Start(h)
  <2>1. CASE Loaded(h) # NoKey
    BY <1>1, <2>1 DEF Start, Loaded, TypeOK, tokenVars
  <2>2. CASE Loaded(h) = NoKey
    <3>1. run[h] < MaxRuns /\ run' = [run EXCEPT ![h] = @ + 1] /\ stage' = [stage EXCEPT ![<<h, run[h] + 1>>] = "sent"]
          /\ pc' = [pc EXCEPT ![h] = "asking"]
          /\ UNCHANGED <<now, tokenVars, agents, failures, key, keyFile, lost, faults>>
      BY <1>1, <2>2 DEF Start, Reached
    <3>2. <<h, run[h] + 1>> \in Registrations /\ run'[h] = run[h] + 1 /\ run[h] \in Nat
          /\ \A g \in Shippers : g # h => run'[g] = run[g]
      BY <3>1 DEF Registrations, TypeOK
    <3>3. stage[<<h, run[h] + 1>>] = "none"
      BY <3>2 DEF TypeOK
    <3>4. \A r \in Registrations : stage'[r] = "none" <=> r[2] > run'[r[1]]
      <4> SUFFICES ASSUME NEW r \in Registrations PROVE stage'[r] = "none" <=> r[2] > run'[r[1]]
        OBVIOUS
      <4>1. r[1] \in Shippers /\ r[2] \in Nat /\ r = <<r[1], r[2]>>
        BY DEF Registrations
      <4>2. stage[r] = "none" <=> r[2] > run[r[1]]
        BY DEF TypeOK
      <4>3. CASE r = <<h, run[h] + 1>>
        BY <3>1, <3>2, <4>3 DEF TypeOK
      <4>4. CASE r # <<h, run[h] + 1>>
        <5>1. stage'[r] = stage[r]
          BY <3>1, <4>4 DEF TypeOK
        <5>2. r[1] = h => r[2] # run[h] + 1
          BY <4>1, <4>4
        <5> QED
          BY <3>2, <4>1, <4>2, <5>1, <5>2
      <4> QED
        BY <4>3, <4>4
    <3>5. run' \in [Shippers -> 0 .. MaxRuns] /\ pc' \in [Shippers -> {"off", "asking", "saving", "writing", "running"}]
      BY <3>1 DEF TypeOK
    <3>6. agents' = {r \in Registrations : stage'[r] = "granted"}
      BY <3>1, <3>2, <3>3 DEF TypeOK
    <3>7. stage' \in [Registrations -> {"none", "sent", "checked", "consumed", "granted", "burned", "refused"}]
      BY <3>1 DEF TypeOK
    <3> QED
      BY <3>1, <3>4, <3>5, <3>6, <3>7 DEF TypeOK, tokenVars
  <2> QED
    BY <2>1, <2>2
<1>2. CASE Denied(h) \/ TimeOut(h) \/ Kill(h)
  <2>1. /\ pc[h] # "off" /\ pc' = [pc EXCEPT ![h] = "off"] /\ key' = [key EXCEPT ![h] = NoKey]
        /\ UNCHANGED <<now, serverVars, run, keyFile>>
    BY <1>2 DEF Denied, TimeOut, Kill, Ends, Saving
  <2>2. lost' \subseteq Registrations /\ faults' \in 0 .. MaxFaults
    BY <1>2 DEF Denied, TimeOut, Kill, Ends, Fault, Saving, TypeOK
  <2>3. pc' \in [Shippers -> {"off", "asking", "saving", "writing", "running"}] /\ key' \in [Shippers -> Keys]
    BY <2>1 DEF TypeOK, Keys
  <2>4. \A g \in Shippers : /\ pc'[g] \in {"asking", "saving", "writing"} => Current(g)' \in Registrations
                           /\ Saving(g)' => key'[g] = Current(g)'
    BY <2>1 DEF TypeOK, Saving, Current
  <2> QED
    BY <2>1, <2>2, <2>3, <2>4 DEF TypeOK, serverVars, tokenVars
<1>3. CASE Receive(h)
  BY <1>3 DEF Receive, TypeOK, Saving, Current, Keys, serverVars, tokenVars
<1>4. CASE SaveTruncates(h) \/ SaveWrites(h)
  BY <1>4 DEF SaveTruncates, SaveWrites, TypeOK, Saving, Current, Keys, serverVars, tokenVars
<1>5. CASE SaveFails(h)
  <2>1. key[h] \in Registrations
    BY <1>5 DEF SaveFails, TypeOK
  <2>2. lost' \subseteq Registrations /\ faults' \in 0 .. MaxFaults
    BY <1>5, <2>1 DEF SaveFails, Fault, TypeOK
  <2> QED
    BY <1>5, <2>2 DEF SaveFails, TypeOK, serverVars, tokenVars
<1> QED
  BY <1>1, <1>2, <1>3, <1>4, <1>5 DEF Shipper

(* Every step keeps the types.                                             *)
LEMMA TypeStep == TypeOK /\ [Next]_vars => TypeOK'
<1>1. TypeOK /\ UNCHANGED vars => TypeOK'
  BY DEF vars, TypeOK, Saving, Current
<1> QED
  BY <1>1, TypeAdmin, TypeServer, TypeCrash, TypeShipper DEF Next, Failing

(* Every variable keeps its type, whatever the shippers and faults.        *)
THEOREM TypeCorrect == Spec => []TypeOK
  BY TypeInit, TypeStep, PTL DEF Spec

-----------------------------------------------------------------------------
(* Uses and deadlines.                                                     *)

Spent(t) == {r \in Registrations : TokenFor(r) = t /\ stage[r] \in {"consumed", "granted", "burned"}}

(* A token that was not issued allows no use; a token ends at its deadline *)
(* or before.                                                              *)
IInv ==
  /\ TypeOK /\ UsesAccounted
  /\ \A t \in Tokens : (t \notin issued => maxUses[t] = 0) /\ expires[t] <= deadline[t]

(* Initially no use is allowed and none was made.                          *)
LEMMA InvariantInit == Init => IInv
<1> SUFFICES ASSUME Init PROVE IInv
  OBVIOUS
<1>1. \A t \in Tokens : {r \in Registrations : TokenFor(r) = t /\ stage[r] \in {"consumed", "granted", "burned"}} = {}
  BY DEF Init
<1>2. UsesAccounted
  BY <1>1, FS_EmptySet DEF Init, UsesAccounted
<1> QED
  BY <1>2, TypeInit DEF Init, IInv

(* A step that makes no registration spend a use.                          *)
LEMMA NoUseSpent ==
  ASSUME IInv, TypeOK', UNCHANGED <<issued, maxUses, uses, expires, deadline>>,
         \A t \in Tokens : Spent(t)' = Spent(t)
  PROVE  IInv'
  BY DEF IInv, UsesAccounted, Spent

(* The steps of the administrator.                                         *)
LEMMA AdminKeeps == IInv /\ Admin /\ TypeOK' => IInv'
<1> SUFFICES ASSUME IInv, Admin, TypeOK' PROVE IInv'
  OBVIOUS
<1> USE EnrollmentAssumption
<1>f. Forever \in Nat /\ \A t \in Tokens : uses[t] \in Nat /\ maxUses[t] \in Nat
  BY DEF Forever, IInv, TypeOK
<1>u. \A t \in Tokens : uses[t] <= maxUses[t] /\ uses[t] = Cardinality(Spent(t))
  BY DEF IInv, UsesAccounted, Spent
<1>1. ASSUME NEW t \in Tokens, NEW n \in Nat, NEW end \in Int, Issue(t, n, end) PROVE IInv'
  <2>1. /\ uses' = uses /\ stage' = stage /\ uses[t] = 0
        /\ maxUses' = [maxUses EXCEPT ![t] = n] /\ maxUses \in [Tokens -> Nat]
    BY <1>1, <1>f, <1>u DEF Issue, IInv, TypeOK
  <2>2. \A s \in Tokens : uses'[s] <= maxUses'[s] /\ uses'[s] = Cardinality(Spent(s)')
    <3>1. \A s \in Tokens : Spent(s)' = Spent(s)
      BY <2>1 DEF Spent
    <3> QED
      BY <1>f, <1>u, <2>1, <3>1
  <2>3. UsesAccounted'
    BY <2>2 DEF UsesAccounted, Spent
  <2>4. \A s \in Tokens : (s \notin issued' => maxUses'[s] = 0) /\ expires'[s] <= deadline'[s]
    BY <1>1 DEF Issue, IInv, TypeOK
  <2> QED
    BY <2>4, <2>3 DEF IInv
<1>2. ASSUME NEW t \in Tokens, GenerateToken(t) \/ CreatePackage(t) PROVE IInv'
  <2>1. now \in Int /\ \A p \in Packages : p.uses \in Nat /\ Earlier(now + p.days, Forever) \in Int
    BY <1>f DEF Earlier, IInv, TypeOK, Times
  <2> QED
    BY <1>1, <1>2, <1>f, <2>1 DEF GenerateToken, CreatePackage
<1>3. ASSUME NEW t \in Tokens, Revoke(t) PROVE IInv'
  <2>1. UsesAccounted'
    BY <1>3 DEF Revoke, IInv, UsesAccounted
  <2>2. \A s \in Tokens : expires[s] \in Int /\ deadline[s] \in Int /\ now \in Int
    BY <1>f DEF IInv, TypeOK, Expiries, Times
  <2>3. \A s \in Tokens : (s \notin issued' => maxUses'[s] = 0) /\ expires'[s] <= deadline'[s]
    BY <1>3, <2>2 DEF Revoke, RevokedAt, Earlier, IInv, TypeOK
  <2> QED
    BY <2>1, <2>3 DEF IInv
<1> QED
  BY <1>2, <1>3 DEF Admin

(* consume_enrollment_token counts the one registration that goes on.      *)
LEMMA ConsumeKeeps ==
  ASSUME IInv, TypeOK', NEW r \in Registrations, Consume(r)
  PROVE  IInv'
<1> USE EnrollmentAssumption
<1>0. TokenFor(r) \in Tokens /\ stage[r] = "checked"
  BY DEF Consume, TokenFor, Registrations
<1>1. CASE Usable(TokenFor(r))
  <2> DEFINE u == TokenFor(r)
  <2>1. /\ uses' = [uses EXCEPT ![u] = @ + 1] /\ stage' = [stage EXCEPT ![r] = "consumed"]
        /\ UNCHANGED <<issued, maxUses, expires, deadline>> /\ uses[u] < maxUses[u]
    BY <1>1 DEF Consume, Reached, Usable
  <2>2. stage'[r] = "consumed" /\ \A q \in Registrations : q # r => stage'[q] = stage[q]
    BY <2>1 DEF IInv, TypeOK
  <2>3. Spent(u)' = Spent(u) \cup {r} /\ r \notin Spent(u)
    BY <1>0, <2>2 DEF Spent
  <2>4. \A t \in Tokens : t # u => Spent(t)' = Spent(t)
    BY <1>0, <2>2 DEF Spent
  <2>5. IsFiniteSet(Spent(u))
    BY RegistrationsAreFinite, FS_Subset DEF Spent
  <2>6. Cardinality(Spent(u)') = Cardinality(Spent(u)) + 1
    BY <2>3, <2>5, FS_AddElement
  <2>7. \A t \in Tokens : uses[t] = Cardinality(Spent(t)) /\ uses[t] <= maxUses[t] /\ uses[t] \in Nat /\ maxUses[t] \in Nat
    BY DEF IInv, UsesAccounted, Spent, TypeOK
  <2>8. \A t \in Tokens : uses'[t] = Cardinality(Spent(t)') /\ uses'[t] <= maxUses'[t]
    <3>1. uses'[u] = uses[u] + 1 /\ \A t \in Tokens : t # u => uses'[t] = uses[t]
      BY <1>0, <2>1 DEF IInv, TypeOK
    <3> HIDE DEF u
    <3> QED
      BY <2>1, <2>4, <2>6, <2>7, <3>1
  <2> QED
    BY <2>1, <2>8 DEF IInv, UsesAccounted, Spent
<1>2. CASE ~ Usable(TokenFor(r))
  <2>1. stage' = [stage EXCEPT ![r] = "refused"] /\ UNCHANGED tokenVars
    BY <1>2 DEF Consume, Reached, tokenVars
  <2>2. \A t \in Tokens : Spent(t)' = Spent(t)
    BY <1>0, <2>1 DEF Spent, IInv, TypeOK
  <2> QED
    BY <2>1, <2>2, NoUseSpent DEF tokenVars
<1> QED
  BY <1>1, <1>2

(* Every step keeps the invariant: only Consume spends a use, and what     *)
(* follows it never gives one back.                                        *)
LEMMA InvariantStep == IInv /\ [Next]_vars => IInv'
<1> SUFFICES ASSUME IInv, [Next]_vars PROVE IInv'
  OBVIOUS
<1>t. TypeOK /\ TypeOK'
  BY TypeStep DEF IInv
<1>1. CASE Tick \/ UNCHANGED vars
  <2>1. UNCHANGED <<tokenVars, stage>>
    BY <1>1 DEF Tick, vars, serverVars, tokenVars
  <2> QED
    BY <1>t, <2>1, NoUseSpent DEF Spent, tokenVars
<1>2. CASE Admin
  BY <1>t, <1>2, AdminKeeps
<1>3. ASSUME NEW r \in Registrations, Serve(r) \/ StatementFails(r) \/ Dropped(r) PROVE IInv'
  <2>1. CASE Consume(r)
    BY <1>t, <2>1, ConsumeKeeps
  <2>2. CASE CheckLimit(r) \/ CreateAgent(r) \/ StatementFails(r) \/ Dropped(r)
    <3>1. /\ UNCHANGED tokenVars /\ \A q \in Registrations : q # r => stage'[q] = stage[q]
          /\ stage[r] \in {"consumed", "granted", "burned"} <=> stage'[r] \in {"consumed", "granted", "burned"}
      BY <1>t, <2>2 DEF CheckLimit, CreateAgent, StatementFails, Dropped, Open, Ended, Reached, TypeOK
    <3>2. \A t \in Tokens : Spent(t)' = Spent(t)
      BY <3>1 DEF Spent
    <3> QED
      BY <1>t, <3>1, <3>2, NoUseSpent DEF tokenVars
  <2> QED
    BY <1>3, <2>1, <2>2 DEF Serve
<1>4. CASE ServerCrash
  <2>1. UNCHANGED tokenVars /\ \A r \in Registrations :
          stage[r] \in {"consumed", "granted", "burned"} <=> stage'[r] \in {"consumed", "granted", "burned"}
    BY <1>4 DEF ServerCrash, Open, Ended
  <2>2. \A t \in Tokens : Spent(t)' = Spent(t)
    BY <2>1 DEF Spent
  <2> QED
    BY <1>t, <2>1, <2>2, NoUseSpent DEF tokenVars
<1>5. ASSUME NEW h \in Shippers, Shipper(h) \/ TimeOut(h) \/ Kill(h) \/ SaveFails(h) PROVE IInv'
  <2>1. CASE Start(h)
    <3>1. UNCHANGED tokenVars /\ \A r \in Registrations : stage'[r] = stage[r] \/ (stage[r] = "none" /\ stage'[r] = "sent")
      <4>1. \A r \in Registrations : r = <<h, run[h] + 1>> => stage[r] = "none"
        BY <1>t DEF TypeOK, Registrations
      <4> QED
        BY <1>t, <2>1, <4>1 DEF Start, Reached, TypeOK
    <3>2. \A t \in Tokens : Spent(t)' = Spent(t)
      BY <3>1 DEF Spent
    <3> QED
      BY <1>t, <3>1, <3>2, NoUseSpent DEF tokenVars
  <2>2. CASE UNCHANGED serverVars
    BY <1>t, <2>2, NoUseSpent DEF Spent, serverVars, tokenVars
  <2> QED
    BY <1>5, <2>1, <2>2 DEF Shipper, Denied, TimeOut, Kill, Ends, Receive, SaveTruncates, SaveWrites, SaveFails
<1> QED
  BY <1>1, <1>2, <1>3, <1>4, <1>5 DEF Next, Failing

-----------------------------------------------------------------------------
(* The theorems.                                                           *)

(* The uses counted on a token are exactly the registrations that spent    *)
(* one, and no more than it was issued for, however many shippers present  *)
(* it at once and whatever fails in between.                               *)
THEOREM UsesAreAccounted == Spec => []UsesAccounted
<1>1. IInv => UsesAccounted
  BY DEF IInv
<1> QED
  BY <1>1, InvariantInit, InvariantStep, PTL DEF Spec

(* No registration spends a use of a token past its expiry or revocation.  *)
THEOREM NothingEnrollsLate == Spec => NoLateEnrollment
<1> DEFINE InTime == \A t \in Tokens : uses'[t] # uses[t] => now < deadline[t]
<1>1. IInv /\ [Next]_vars => [InTime]_vars
  <2> SUFFICES ASSUME IInv, Next, NEW t \in Tokens, uses'[t] # uses[t] PROVE now < deadline[t]
    OBVIOUS
  <2>1. ASSUME NEW r \in Registrations, Consume(r) PROVE now < deadline[t]
    <3>1. t = TokenFor(r) /\ now < expires[t]
      BY <2>1 DEF Consume, Usable, IInv, TypeOK
    <3>2. now \in Int /\ expires[t] \in Int /\ deadline[t] \in Int /\ expires[t] <= deadline[t]
      BY EnrollmentAssumption DEF IInv, TypeOK, Times, Expiries, Forever
    <3> QED
      BY <3>1, <3>2
  <2>2. CASE uses' = uses
    BY <2>2
  <2>3. uses' = uses \/ \E r \in Registrations : Consume(r)
    BY DEF Next, Tick, Admin, GenerateToken, CreatePackage, Issue, Revoke, Failing, ServerCrash,
       StatementFails, Dropped, TimeOut, Kill, SaveFails, Ends, Serve, CheckLimit, CreateAgent,
       Shipper, Start, Denied, Receive, SaveTruncates, SaveWrites, serverVars, tokenVars
  <2> QED
    BY <2>1, <2>2, <2>3
<1> HIDE DEF InTime
<1>2. Spec => [][InTime]_vars
  BY <1>1, InvariantInit, InvariantStep, PTL DEF Spec
<1> QED
  BY <1>2 DEF NoLateEnrollment, InTime
-----------------------------------------------------------------------------
(* The rate limiter.                                                       *)

(* What a step of the server leaves in the limiter's map is a refusal.     *)
LEMMA LimiterServes ==
  ASSUME TypeOK, LimiterStaysSmall, NEW r \in Registrations,
         Serve(r) \/ StatementFails(r) \/ Dropped(r)
  PROVE  LimiterStaysSmall'
<1>0. AddressFor(r) \in Addresses /\ now' = now /\ now \in Int
      /\ \A q \in Registrations : stage[q] = "refused" => stage'[q] = "refused"
  BY EnrollmentAssumption DEF Serve, CheckLimit, Consume, CreateAgent, StatementFails, Dropped, Open, Reached,
     AddressFor, Registrations, TypeOK, Times
<1>m. \A a \in DOMAIN failures : \A f \in failures[a] :
        f.reg \in Registrations /\ AddressFor(f.reg) = a /\ stage'[f.reg] = "refused" /\ f.at <= now'
  BY <1>0 DEF LimiterStaysSmall, TypeOK
<1>1. CASE CheckLimit(r)
  BY <1>0, <1>1, <1>m DEF CheckLimit, Pruned, LiveFailures, Recorded, LimiterStaysSmall
<1>2. CASE Consume(r) /\ failures' # failures
  <2> DEFINE f0 == [reg |-> r, at |-> now]
             a0 == AddressFor(r)
  <2>1. failures' = RecordFailure(a0, r) /\ stage'[r] = "refused"
    BY <1>2 DEF Consume, Reached, TypeOK
  <2>2. DOMAIN failures' = DOMAIN failures \cup {a0}
        /\ \A b \in DOMAIN failures' : failures'[b] = IF b = a0 THEN Recorded(a0) \cup {f0} ELSE failures[b]
    BY <2>1 DEF RecordFailure
  <2>3. f0.reg = r /\ f0.at = now /\ ((Recorded(a0) = failures[a0] /\ a0 \in DOMAIN failures) \/ Recorded(a0) = {})
    BY DEF Recorded
  <2> HIDE DEF f0
  <2>4. ASSUME NEW b \in DOMAIN failures'
        PROVE  /\ failures'[b] # {}
               /\ \A f \in failures'[b] : AddressFor(f.reg) = b /\ stage'[f.reg] = "refused" /\ f.at <= now'
    <3>1. CASE b = a0
      BY <1>0, <1>m, <2>1, <2>2, <2>3, <3>1
    <3>2. CASE b # a0
      BY <1>m, <2>2, <3>2 DEF LimiterStaysSmall
    <3> QED
      BY <3>1, <3>2
  <2> QED
    BY <2>4 DEF LimiterStaysSmall, AddressFor
<1>3. CASE failures' = failures
  BY <1>m, <1>3 DEF LimiterStaysSmall, AddressFor
<1> QED
  BY <1>1, <1>2, <1>3 DEF Serve, CreateAgent, StatementFails, Dropped

(* Every step keeps it: time goes on, and a refusal stays one.             *)
LEMMA LimiterStep == TypeOK /\ LimiterStaysSmall /\ [Next]_vars => LimiterStaysSmall'
<1> SUFFICES ASSUME TypeOK, LimiterStaysSmall, [Next]_vars PROVE LimiterStaysSmall'
  OBVIOUS
<1>1. ASSUME failures' = failures, now' = now \/ now' = now + 1,
             \A q \in Registrations : stage[q] = "refused" => stage'[q] = "refused"
      PROVE  LimiterStaysSmall'
  <2>1. now \in Int /\ \A a \in DOMAIN failures : \A f \in failures[a] : f.reg \in Registrations /\ f.at \in Int
    BY EnrollmentAssumption DEF TypeOK, Times
  <2> QED
    BY <1>1, <2>1 DEF LimiterStaysSmall, AddressFor
<1>2. CASE Tick \/ Admin \/ UNCHANGED vars
  BY <1>1, <1>2 DEF Tick, Admin, GenerateToken, CreatePackage, Issue, Revoke, vars, serverVars
<1>3. CASE ServerCrash
  BY <1>3 DEF ServerCrash, LimiterStaysSmall
<1>4. ASSUME NEW h \in Shippers, Shipper(h) \/ TimeOut(h) \/ Kill(h) \/ SaveFails(h) PROVE LimiterStaysSmall'
  <2>1. CASE Start(h)
    <3>1. \A q \in Registrations : q = <<h, run[h] + 1>> => stage[q] = "none"
      BY DEF TypeOK, Registrations
    <3>2. \A q \in Registrations : stage[q] = "refused" => stage'[q] = "refused"
      BY <2>1, <3>1 DEF Start, Reached, TypeOK
    <3> QED
      BY <1>1, <2>1, <3>2 DEF Start
  <2>2. CASE UNCHANGED <<now, serverVars>>
    BY <1>1, <2>2 DEF serverVars
  <2> QED
    BY <1>4, <2>1, <2>2 DEF Shipper, Denied, TimeOut, Kill, Ends, Receive, SaveTruncates, SaveWrites, SaveFails
<1> QED
  BY <1>2, <1>3, <1>4, LimiterServes DEF Next, Failing

(* The limiter keeps no entry without a failure, and no failure that was   *)
(* not refused at that address.                                            *)
THEOREM LimiterIsBounded == Spec => []LimiterStaysSmall
<1>1. Init => LimiterStaysSmall
  BY DEF Init, LimiterStaysSmall
<1> QED
  BY <1>1, TypeInit, TypeStep, LimiterStep, PTL DEF Spec
-----------------------------------------------------------------------------
(* Agents and the keys of the shippers.                                    *)

HasGone(r) ==
  \/ r \in {key[r[1]], keyFile[r[1]]} \cup lost
  \/ pc[r[1]] = "asking" /\ r = Current(r[1])

(* What a shipper has in memory and in its file, at each point of main.    *)
KeysOf(h) ==
  /\ pc[h] = "off" => key[h] = NoKey
  /\ pc[h] = "asking" => key[h] = NoKey /\ keyFile[h] = NoKey
  /\ pc[h] = "saving" => key[h] \in agents /\ keyFile[h] = NoKey
  /\ pc[h] = "writing" => key[h] \in agents /\ keyFile[h] = EmptyKey
  /\ pc[h] = "running" =>
       \/ key[h] \in agents /\ (keyFile[h] = key[h] \/ key[h] \in lost)
       \/ key[h] = EmptyKey /\ keyFile[h] = EmptyKey
  /\ keyFile[h] \in agents \cup {NoKey, EmptyKey}
  /\ keyFile[h] = EmptyKey => pc[h] = "writing" \/ \E r \in lost : r[1] = h

(* A registration that may still make an agent, or has, is where its key   *)
(* will be looked for; and each one lost has its fault.                    *)
KInv ==
  /\ TypeOK
  /\ \A r \in Registrations :
       stage[r] \in {"sent", "checked", "consumed", "granted"} => HasGone(r)
  /\ \A h \in Shippers : KeysOf(h)
  /\ IsFiniteSet(lost) /\ Cardinality(lost) <= faults

(* Initially no shipper has a key and none has asked for one.              *)
LEMMA KeysInit == Init => KInv
<1>1. IsFiniteSet({}) /\ Cardinality({}) = 0
  BY FS_EmptySet
<1> SUFFICES ASSUME Init PROVE KInv
  OBVIOUS
<1>2. \A h \in Shippers : pc[h] = "off" /\ key[h] = NoKey /\ keyFile[h] = NoKey
  BY DEF Init
<1>3. NoKey # EmptyKey
  BY DEF NoKey, EmptyKey
<1>4. \A h \in Shippers : KeysOf(h)
  BY <1>2, <1>3 DEF KeysOf
<1>5. \A r \in Registrations : stage[r] = "none"
  BY DEF Init
<1>6. lost = {} /\ faults = 0
  BY DEF Init
<1> QED
  BY <1>1, <1>4, <1>5, <1>6, TypeInit DEF KInv

(* A registration is neither the absence of a key nor an empty file.       *)
LEMMA RegistrationsAreKeys ==
  /\ \A r \in Registrations : r # NoKey /\ r # EmptyKey /\ r[1] \in Shippers
  /\ NoKey # EmptyKey
  BY DEF Registrations, NoKey, EmptyKey

(* The invariant implies the property.                                     *)
LEMMA KeysSuffice == KInv => KeysMatchAgents
<1> SUFFICES ASSUME KInv PROVE KeysMatchAgents
  OBVIOUS
<1>1. \A r \in agents : HasGone(r)
  BY DEF KInv, TypeOK
<1>2. \A h \in Shippers : pc[h] = "running" =>
        key[h] \in agents \/ (key[h] = EmptyKey /\ \E r \in lost : r[1] = h)
  BY DEF KInv, KeysOf
<1> QED
  BY <1>1, <1>2 DEF KInv, KeysMatchAgents, HasGone

(* A step that leaves the shippers alone, and lets none but the requests   *)
(* under way become agents.                                                *)
LEMMA KeysStay ==
  ASSUME KInv, TypeOK', UNCHANGED shipperVars, faults <= faults', agents \subseteq agents',
         \A r \in Registrations : stage'[r] \in {"sent", "checked", "consumed", "granted"}
                                  => stage[r] \in {"sent", "checked", "consumed", "granted"}
  PROVE  KInv'
<1>1. \A r \in Registrations : HasGone(r)' = HasGone(r)
  BY DEF HasGone, Current, shipperVars
<1>2. \A h \in Shippers : KeysOf(h)'
  BY DEF KInv, KeysOf, shipperVars
<1>3. IsFiniteSet(lost) /\ Cardinality(lost) <= faults /\ faults \in Int /\ faults' \in Int /\ Cardinality(lost) \in Nat
  BY FS_CardinalityType DEF KInv, TypeOK
<1>4. IsFiniteSet(lost') /\ Cardinality(lost') <= faults'
  <2>1. lost' = lost
    BY DEF shipperVars
  <2> QED
    BY <1>3, <2>1
<1> QED
  BY <1>1, <1>2, <1>4 DEF KInv

(* The steps of the clock, the administrator and the server.               *)
LEMMA KeysServed ==
  ASSUME KInv, TypeOK', Tick \/ Admin \/ ServerCrash \/ UNCHANGED vars
                        \/ \E r \in Registrations : Serve(r) \/ StatementFails(r) \/ Dropped(r)
  PROVE  KInv'
<1>t. TypeOK /\ faults \in Int
  BY EnrollmentAssumption DEF KInv, TypeOK
<1>1. CASE Tick \/ Admin \/ UNCHANGED vars
  <2>1. UNCHANGED <<stage, agents, shipperVars, faults>>
    BY <1>1 DEF Tick, Admin, GenerateToken, CreatePackage, Issue, Revoke, vars, serverVars, shipperVars
  <2> QED
    BY <1>t, <2>1, KeysStay
<1>2. CASE ServerCrash
  BY <1>t, <1>2, KeysStay DEF ServerCrash, Ended, Open, Fault
<1>3. ASSUME NEW r \in Registrations, Serve(r) \/ StatementFails(r) \/ Dropped(r) PROVE KInv'
  <2>1. /\ UNCHANGED shipperVars /\ faults <= faults' /\ agents \subseteq agents'
        /\ stage' = [stage EXCEPT ![r] = stage'[r]]
        /\ stage[r] \in {"sent", "checked", "consumed"}
    BY <1>3, <1>t DEF Serve, CheckLimit, Consume, CreateAgent, StatementFails, Dropped, Open, Reached, Fault, TypeOK
  <2> QED
    BY <1>t, <2>1, KeysStay DEF TypeOK
<1> QED
  BY <1>1, <1>2, <1>3

(* What a step of h does not touch: the registrations and keys of others.  *)
LEMMA OthersKeep ==
  ASSUME KInv, NEW h \in Shippers, lost \subseteq lost', agents \subseteq agents',
         \A g \in Shippers \ {h} :
           pc'[g] = pc[g] /\ run'[g] = run[g] /\ key'[g] = key[g] /\ keyFile'[g] = keyFile[g],
         \A r \in Registrations : r[1] # h => stage'[r] = stage[r]
  PROVE  /\ \A r \in Registrations :
              r[1] # h /\ stage'[r] \in {"sent", "checked", "consumed", "granted"} => HasGone(r)'
         /\ \A g \in Shippers \ {h} : KeysOf(g)'
<1>1. \A r \in Registrations : r[1] # h /\ HasGone(r) => HasGone(r)'
  BY RegistrationsAreKeys DEF HasGone, Current
<1>2. \A g \in Shippers \ {h} : KeysOf(g) => KeysOf(g)'
  BY DEF KeysOf
<1> QED
  BY <1>1, <1>2 DEF KInv

(* A fault loses one key at most.                                          *)
LEMMA OneFaultOneKey ==
  ASSUME KInv, TypeOK', NEW r, lost' = lost \/ (lost' = lost \cup {r} /\ Fault), faults <= faults'
  PROVE  IsFiniteSet(lost') /\ Cardinality(lost') <= faults'
<1>1. IsFiniteSet(lost) /\ Cardinality(lost) <= faults /\ faults \in Int /\ faults' \in Int /\ Cardinality(lost) \in Nat
  BY FS_CardinalityType DEF KInv, TypeOK
<1>2. CASE lost' = lost
  BY <1>1, <1>2
<1>3. CASE lost' = lost \cup {r} /\ Fault
  <2>1. IsFiniteSet(lost') /\ Cardinality(lost') <= Cardinality(lost) + 1
    BY <1>1, <1>3, FS_AddElement
  <2>2. faults' = faults + 1 /\ Cardinality(lost') \in Nat
    BY <1>3, <2>1, FS_CardinalityType DEF Fault
  <2> QED
    BY <1>1, <2>1, <2>2
<1> QED
  BY <1>2, <1>3

(* The steps of a shipper: a key passes from its request to its memory and *)
(* its file, or is lost to a fault.                                        *)
LEMMA KeysShipped ==
  ASSUME KInv, TypeOK', NEW h \in Shippers, Shipper(h) \/ TimeOut(h) \/ Kill(h) \/ SaveFails(h)
  PROVE  KInv'
<1> DEFINE Going(r) == stage[r] \in {"sent", "checked", "consumed", "granted"}
           Mine == {r \in Registrations : r[1] = h}
<1>t. TypeOK /\ faults \in Int /\ faults' \in Int
  BY EnrollmentAssumption DEF KInv, TypeOK
<1>k. KeysOf(h) /\ \A r \in Mine : Going(r) => HasGone(r)
  BY DEF KInv
<1>r. \A r \in Registrations : r # NoKey /\ r # EmptyKey
  BY RegistrationsAreKeys
<1>c. pc[h] \in {"asking", "saving", "writing"} => Current(h) \in Registrations /\ Current(h)[1] = h
  BY <1>t DEF TypeOK, Current
<1>s. Saving(h) => key[h] = Current(h)
  BY <1>t DEF TypeOK
<1>1. /\ lost \subseteq lost' /\ agents \subseteq agents' /\ faults <= faults'
      /\ \A g \in Shippers \ {h} :
           pc'[g] = pc[g] /\ run'[g] = run[g] /\ key'[g] = key[g] /\ keyFile'[g] = keyFile[g]
      /\ \A r \in Registrations : r[1] # h => stage'[r] = stage[r]
      /\ \/ lost' = lost
         \/ lost' = lost \cup {Current(h)} /\ Fault
         \/ lost' = lost \cup {key[h]} /\ Fault
  <2>1. CASE Start(h)
    <3>1. \A r \in Registrations : r[1] # h => r # <<h, run[h] + 1>>
      OBVIOUS
    <3> QED
      BY <1>t, <2>1, <3>1 DEF Start, Reached, TypeOK
  <2>2. CASE Denied(h) \/ TimeOut(h) \/ Kill(h)
    <3>1. UNCHANGED serverVars /\ pc' = [pc EXCEPT ![h] = "off"] /\ key' = [key EXCEPT ![h] = NoKey] /\ UNCHANGED <<run, keyFile>>
      BY <2>2 DEF Denied, TimeOut, Kill, Ends
    <3>2. \/ lost' = lost /\ (Fault \/ faults' = faults)
          \/ lost' = lost \cup {Current(h)} /\ Fault
          \/ lost' = lost \cup {key[h]} /\ Fault
      BY <2>2 DEF Denied, TimeOut, Kill
    <3> QED
      BY <1>t, <3>1, <3>2 DEF Fault, TypeOK, serverVars
  <2>3. CASE Receive(h) \/ SaveTruncates(h) \/ SaveWrites(h) \/ SaveFails(h)
    <3>1. UNCHANGED <<serverVars, run>> /\ \A g \in Shippers \ {h} : pc'[g] = pc[g] /\ key'[g] = key[g] /\ keyFile'[g] = keyFile[g]
      BY <1>t, <2>3 DEF Receive, SaveTruncates, SaveWrites, SaveFails, TypeOK
    <3>2. \/ lost' = lost /\ faults' = faults
          \/ lost' = lost \cup {key[h]} /\ Fault
      BY <2>3 DEF Receive, SaveTruncates, SaveWrites, SaveFails
    <3> QED
      BY <1>t, <3>1, <3>2 DEF Fault, serverVars
  <2> QED
    BY <2>1, <2>2, <2>3 DEF Shipper
<1>2. IsFiniteSet(lost') /\ Cardinality(lost') <= faults'
  BY <1>1, OneFaultOneKey
<1>3. /\ \A r \in Registrations :
           r[1] # h /\ stage'[r] \in {"sent", "checked", "consumed", "granted"} => HasGone(r)'
      /\ \A g \in Shippers \ {h} : KeysOf(g)'
  BY <1>1, OthersKeep
<1> SUFFICES KeysOf(h)' /\ \A r \in Mine : stage'[r] \in {"sent", "checked", "consumed", "granted"} => HasGone(r)'
  BY <1>2, <1>3 DEF KInv
<1> USE <1>k, <1>r, <1>c, <1>s, <1>t DEF KeysOf, HasGone
<1>4. CASE Start(h)
  <2>1. CASE Loaded(h) # NoKey
    <3>1. /\ pc[h] = "off" /\ key[h] = NoKey /\ keyFile[h] # NoKey /\ pc'[h] = "running" /\ key'[h] = keyFile[h]
          /\ UNCHANGED <<stage, run, agents, keyFile, lost>>
      BY <1>4, <2>1 DEF Start, Loaded, TypeOK
    <3> QED
      BY <3>1 DEF Current
  <2>2. CASE Loaded(h) = NoKey
    <3> DEFINE n == <<h, run[h] + 1>>
    <3>1. /\ pc[h] = "off" /\ key[h] = NoKey /\ keyFile[h] = NoKey /\ pc'[h] = "asking" /\ run'[h] = run[h] + 1
          /\ stage' = [stage EXCEPT ![n] = "sent"] /\ UNCHANGED <<agents, key, keyFile, lost>>
      BY <1>4, <2>2 DEF Start, Loaded, Reached, TypeOK
    <3>2. Current(h)' = n
      BY <3>1 DEF Current
    <3>3. \A r \in Mine : r # n => stage'[r] = stage[r]
      BY <3>1 DEF TypeOK
    <3>4. \A r \in Mine : r # n /\ Going(r) => r \in lost
      BY <3>1
    <3> HIDE DEF n
    <3> QED
      BY <3>1, <3>2, <3>3, <3>4
  <2> QED
    BY <2>1, <2>2
<1>5. CASE Denied(h)
  <2>1. /\ pc[h] = "asking" /\ ~ Going(Current(h)) /\ pc'[h] = "off" /\ key'[h] = NoKey
        /\ UNCHANGED <<stage, agents, keyFile, lost>>
    BY <1>5 DEF Denied, Ends, TypeOK, serverVars
  <2> QED
    BY <2>1
<1>6. CASE TimeOut(h)
  <2>1. /\ pc[h] = "asking" /\ lost' = lost \cup {Current(h)} /\ pc'[h] = "off" /\ key'[h] = NoKey
        /\ UNCHANGED <<stage, agents, keyFile>>
    BY <1>6 DEF TimeOut, Ends, TypeOK, serverVars
  <2> QED
    BY <2>1
<1>7. CASE Receive(h)
  <2>1. /\ pc[h] = "asking" /\ stage[Current(h)] = "granted" /\ pc'[h] = "saving" /\ key'[h] = Current(h)
        /\ UNCHANGED <<stage, agents, keyFile, lost>>
    BY <1>7 DEF Receive, TypeOK, serverVars
  <2>2. Current(h) \in agents
    BY <2>1 DEF TypeOK
  <2> QED
    BY <2>1, <2>2
<1>8. CASE SaveTruncates(h)
  <2>1. /\ pc[h] = "saving" /\ pc'[h] = "writing" /\ keyFile'[h] = EmptyKey
        /\ UNCHANGED <<stage, agents, key, lost>>
    BY <1>8 DEF SaveTruncates, TypeOK, serverVars
  <2> QED
    BY <2>1
<1>9. CASE SaveWrites(h)
  <2>1. /\ pc[h] = "writing" /\ pc'[h] = "running" /\ keyFile'[h] = key[h]
        /\ UNCHANGED <<stage, agents, key, lost>>
    BY <1>9 DEF SaveWrites, TypeOK, serverVars
  <2>2. key[h] \in Registrations
    BY <2>1 DEF Saving
  <2> QED
    BY <2>1, <2>2
<1>10. CASE SaveFails(h)
  <2>1. /\ Saving(h) /\ pc'[h] = "running" /\ lost' = lost \cup {key[h]}
        /\ UNCHANGED <<stage, agents, key, keyFile>>
    BY <1>10 DEF SaveFails, TypeOK, serverVars
  <2> QED
    BY <2>1 DEF Saving
<1>11. CASE Kill(h)
  <2>1. /\ Saving(h) \/ pc[h] = "running"
        /\ lost' = IF Saving(h) THEN lost \cup {key[h]} ELSE lost
        /\ pc'[h] = "off" /\ key'[h] = NoKey
        /\ UNCHANGED <<stage, agents, keyFile>>
    BY <1>11 DEF Kill, Ends, TypeOK, serverVars
  <2>2. CASE Saving(h)
    BY <2>1, <2>2 DEF Saving
  <2>3. CASE pc[h] = "running"
    BY <2>1, <2>3 DEF Saving
  <2> QED
    BY <2>1, <2>2, <2>3
<1> QED
  BY <1>4, <1>5, <1>6, <1>7, <1>8, <1>9, <1>10, <1>11 DEF Shipper

(* An agent's key is with its shipper or lost to a fault of its own, and a *)
(* shipper that runs has the key of an agent or the empty one that a fault *)
(* left.                                                                   *)
THEOREM AgentsHaveKeys == Spec => []KeysMatchAgents
<1>1. KInv /\ [Next]_vars => KInv'
  <2>1. KInv => TypeOK
    BY DEF KInv
  <2> QED
    BY <2>1, TypeStep, KeysServed, KeysShipped DEF Next, Failing
<1> QED
  BY <1>1, KeysInit, KeysSuffice, PTL DEF Spec

=============================================================================
