------------------------------ MODULE Enrollment ------------------------------
(***************************************************************************)
(* How a shipper becomes an agent: the administrator issues an enrollment  *)
(* token, a shipper on its first run presents it to /agents/self-register, *)
(* the server consumes a use of the token and then creates the agent, and  *)
(* the shipper saves the API key it gets.  systemd restarts a shipper that *)
(* ends, for whatever reason.                                              *)
(*                                                                         *)
(* A registration is the shipper and the number of its attempt; it names   *)
(* the request, the agents row made for it and that row's API key.         *)
(***************************************************************************)
EXTENDS Integers, FiniteSets

CONSTANTS
  Shippers, Tokens, Addresses,
  TokenOf,      \* TokenOf[h]: SECLOG_ENROLLMENT_TOKEN of shipper h
  AddressOf,    \* AddressOf[h]: the address the server sees h at
  Packages,     \* choices of [uses, days] for a deployment package
  MAX_ATTEMPTS, WINDOW,     \* of the rate limiter
  MaxTime,      \* bound: time that passes
  MaxRuns,      \* bound: registrations of one shipper
  MaxFaults     \* bound: timeouts, deaths and failing calls

(* create_deployment_package refuses fewer than one use or day.            *)
ASSUME EnrollmentAssumption ==
  /\ TokenOf \in [Shippers -> Tokens] /\ AddressOf \in [Shippers -> Addresses]
  /\ Packages \subseteq [uses : Nat \ {0}, days : Nat \ {0}]
  /\ MAX_ATTEMPTS \in Nat /\ WINDOW \in Nat \ {0}
  /\ MaxTime \in Nat /\ MaxRuns \in Nat /\ MaxFaults \in Nat
  /\ IsFiniteSet(Shippers)

Registrations == Shippers \X (1 .. MaxRuns)
TokenFor(r) == TokenOf[r[1]]
AddressFor(r) == AddressOf[r[1]]

Forever == MaxTime + 1     \* expires_at IS NULL
NoKey == <<>>              \* no key, or no key file
EmptyKey == <<"empty">>    \* a key file without content

VARIABLES
  now,
  issued, maxUses, uses, expires,  \* the rows of enrollment_tokens
  agents,      \* the rows of agents
  stage,       \* stage[r]: how far the server has got with registration r
  failures,    \* the limiter's map: failures[a] are the failures at address a
  pc,          \* pc[h]: "off", "asking", "saving", "writing" or "running"
  run,         \* run[h]: the number of registrations h has sent
  key, keyFile,
  \* history, read by properties only
  deadline,    \* deadline[t]: when the token was to expire, or was revoked
  lost,        \* registrations whose key did not get to the shipper's key file
  faults

tokenVars == <<issued, maxUses, uses, expires, deadline>>
serverVars == <<tokenVars, agents, stage, failures>>
shipperVars == <<pc, run, key, keyFile, lost>>
vars == <<now, issued, maxUses, uses, expires, agents, stage, failures,
          pc, run, key, keyFile, deadline, lost, faults>>

Init ==
  /\ now = 0 /\ faults = 0
  /\ issued = {} /\ agents = {} /\ lost = {} /\ failures = <<>>
  /\ maxUses = [t \in Tokens |-> 0] /\ uses = [t \in Tokens |-> 0]
  /\ expires = [t \in Tokens |-> 0] /\ deadline = [t \in Tokens |-> 0]
  /\ stage = [r \in Registrations |-> "none"]
  /\ pc = [h \in Shippers |-> "off"] /\ run = [h \in Shippers |-> 0]
  /\ key = [h \in Shippers |-> NoKey] /\ keyFile = [h \in Shippers |-> NoKey]

Fault == faults < MaxFaults /\ faults' = faults + 1

Tick ==
  /\ now < MaxTime /\ now' = now + 1
  /\ UNCHANGED <<serverVars, shipperVars, faults>>

-----------------------------------------------------------------------------
(* The administrator.                                                      *)

Earlier(a, b) == IF a < b THEN a ELSE b

Issue(t, n, end) ==
  /\ t \notin issued /\ issued' = issued \cup {t}
  /\ maxUses' = [maxUses EXCEPT ![t] = n]
  /\ expires' = [expires EXCEPT ![t] = end] /\ deadline' = [deadline EXCEPT ![t] = end]
  /\ UNCHANGED <<now, uses, agents, stage, failures, shipperVars, faults>>

GenerateToken(t) == Issue(t, 1, Forever)

CreatePackage(t) == \E p \in Packages : Issue(t, p.uses, Earlier(now + p.days, Forever))

BugRevokedAt(t) == IF expires[t] = Forever THEN Forever ELSE Earlier(expires[t], now)

(* LEAST(COALESCE(expires_at, NOW()), NOW()).                              *)
RevokedAt(t) == Earlier(expires[t], now)
Revoke(t) ==
  /\ t \in issued
  /\ expires' = [expires EXCEPT ![t] = RevokedAt(t)]
  /\ deadline' = [deadline EXCEPT ![t] = Earlier(@, now)]
  /\ UNCHANGED <<now, issued, maxUses, uses, agents, stage, failures,
                 shipperVars, faults>>

-----------------------------------------------------------------------------
(* The server: self_register_agent.                                        *)

Reached(r, at) == stage' = [stage EXCEPT ![r] = at]

(* Each attempt in the map is a registration and the time it failed.       *)
Recorded(a) == IF a \in DOMAIN failures THEN failures[a] ELSE {}

LiveFailures(a) == {f \in Recorded(a) : now - f.at < WINDOW}

BugPruned(a) ==
  [b \in DOMAIN failures |-> IF b = a THEN LiveFailures(a) ELSE failures[b]]

(* An address keeps an entry only while it has failures in the window.     *)
Pruned(a) ==
  [b \in {c \in DOMAIN failures : c # a \/ LiveFailures(a) # {}} |->
     IF b = a THEN LiveFailures(a) ELSE failures[b]]

(* LoginRateLimiter::check.  A shipper's host name is never blank.         *)
CheckLimit(r) ==
  /\ stage[r] = "sent"
  /\ Reached(r, IF Cardinality(LiveFailures(AddressFor(r))) < MAX_ATTEMPTS
                THEN "checked" ELSE "refused")
  /\ failures' = Pruned(AddressFor(r))
  /\ UNCHANGED <<now, tokenVars, agents, shipperVars, faults>>

BugUsable(t) == t \in issued /\ uses[t] <= maxUses[t] /\ now < expires[t]
Usable(t) == t \in issued /\ uses[t] < maxUses[t] /\ now < expires[t]

RecordFailure(a, r) ==
  [b \in DOMAIN failures \cup {a} |->
     IF b = a THEN Recorded(a) \cup {[reg |-> r, at |-> now]} ELSE failures[b]]

(* consume_enrollment_token: one UPDATE counts the use.                    *)
Consume(r) ==
  /\ stage[r] = "checked"
  /\ \/ /\ Usable(TokenFor(r))
        /\ uses' = [uses EXCEPT ![TokenFor(r)] = @ + 1]
        /\ Reached(r, "consumed") /\ UNCHANGED failures
     \/ /\ ~ Usable(TokenFor(r))
        /\ failures' = RecordFailure(AddressFor(r), r)
        /\ Reached(r, "refused") /\ UNCHANGED uses
  /\ UNCHANGED <<now, issued, maxUses, expires, deadline, agents, shipperVars, faults>>

CreateAgent(r) ==
  /\ stage[r] = "consumed" /\ Reached(r, "granted")
  /\ agents' = agents \cup {r}
  /\ UNCHANGED <<now, tokenVars, failures, shipperVars, faults>>

(* What is left of a registration that ends early: its use of the token is *)
(* spent.                                                                  *)
Ended(r) == IF stage[r] = "consumed" THEN "burned" ELSE "refused"

Current(h) == <<h, run[h]>>
Open(r) == stage[r] \in {"sent", "checked", "consumed"}

(* A statement fails; the answer is 500.                                   *)
StatementFails(r) ==
  /\ stage[r] \in {"checked", "consumed"} /\ Reached(r, Ended(r)) /\ Fault
  /\ UNCHANGED <<now, tokenVars, agents, failures, shipperVars>>

(* The shipper has gone and the handler is dropped where it waits.         *)
Dropped(r) ==
  /\ Open(r) /\ ~ (pc[r[1]] = "asking" /\ r = Current(r[1]))
  /\ Reached(r, Ended(r))
  /\ UNCHANGED <<now, tokenVars, agents, failures, shipperVars, faults>>

(* The server dies; the limiter's map is gone, and so are open requests.   *)
ServerCrash ==
  /\ failures # <<>> \/ \E r \in Registrations : Open(r)
  /\ stage' = [r \in Registrations |-> IF Open(r) THEN Ended(r) ELSE stage[r]]
  /\ failures' = <<>> /\ Fault
  /\ UNCHANGED <<now, tokenVars, agents, shipperVars>>

-----------------------------------------------------------------------------
(* The shipper: main up to the first config fetch, load_saved_key and      *)
(* save_key.                                                               *)

BugLoaded(h) == NoKey
Loaded(h) == keyFile[h]

Start(h) ==
  /\ pc[h] = "off"
  /\ \/ /\ Loaded(h) # NoKey
        /\ pc' = [pc EXCEPT ![h] = "running"] /\ key' = [key EXCEPT ![h] = Loaded(h)]
        /\ UNCHANGED <<stage, run>>
     \/ /\ Loaded(h) = NoKey /\ run[h] < MaxRuns
        /\ run' = [run EXCEPT ![h] = @ + 1] /\ Reached(<<h, run[h] + 1>>, "sent")
        /\ pc' = [pc EXCEPT ![h] = "asking"] /\ UNCHANGED key
  /\ UNCHANGED <<now, tokenVars, agents, failures, keyFile, lost, faults>>

(* The process ends.                                                       *)
Ends(h) ==
  /\ pc' = [pc EXCEPT ![h] = "off"] /\ key' = [key EXCEPT ![h] = NoKey]
  /\ UNCHANGED <<now, serverVars, run, keyFile>>

(* An answer that is not a success: main panics.                           *)
Denied(h) ==
  /\ pc[h] = "asking" /\ stage[Current(h)] \in {"refused", "burned"}
  /\ Ends(h) /\ UNCHANGED <<lost, faults>>

(* No answer in 15 seconds, or a lost connection; the server may go on.    *)
TimeOut(h) ==
  /\ pc[h] = "asking" /\ Ends(h) /\ Fault
  /\ lost' = lost \cup {Current(h)}

Receive(h) ==
  /\ pc[h] = "asking" /\ stage[Current(h)] = "granted"
  /\ pc' = [pc EXCEPT ![h] = "saving"] /\ key' = [key EXCEPT ![h] = Current(h)]
  /\ UNCHANGED <<now, serverVars, run, keyFile, lost, faults>>

(* save_key empties the file before it writes it.                          *)
SaveTruncates(h) ==
  /\ pc[h] = "saving" /\ pc' = [pc EXCEPT ![h] = "writing"]
  /\ keyFile' = [keyFile EXCEPT ![h] = EmptyKey]
  /\ UNCHANGED <<now, serverVars, run, key, lost, faults>>

SaveWrites(h) ==
  /\ pc[h] = "writing" /\ pc' = [pc EXCEPT ![h] = "running"]
  /\ keyFile' = [keyFile EXCEPT ![h] = key[h]]
  /\ UNCHANGED <<now, serverVars, run, key, lost, faults>>

Saving(h) == pc[h] \in {"saving", "writing"}

(* Either half of the save fails; a warning, and main goes on.             *)
SaveFails(h) ==
  /\ Saving(h) /\ pc' = [pc EXCEPT ![h] = "running"] /\ Fault
  /\ lost' = lost \cup {key[h]}
  /\ UNCHANGED <<now, serverVars, run, key, keyFile>>

Kill(h) ==
  /\ Saving(h) \/ pc[h] = "running"
  /\ Ends(h) /\ Fault
  /\ lost' = IF Saving(h) THEN lost \cup {key[h]} ELSE lost

-----------------------------------------------------------------------------
Admin == \E t \in Tokens : GenerateToken(t) \/ CreatePackage(t) \/ Revoke(t)

Serve(r) == CheckLimit(r) \/ Consume(r) \/ CreateAgent(r)

Shipper(h) == Start(h) \/ Denied(h) \/ Receive(h) \/ SaveTruncates(h) \/ SaveWrites(h)

Failing ==
  \/ ServerCrash
  \/ \E r \in Registrations : StatementFails(r) \/ Dropped(r)
  \/ \E h \in Shippers : TimeOut(h) \/ Kill(h) \/ SaveFails(h)

Next ==
  \/ Tick \/ Admin \/ Failing
  \/ \E r \in Registrations : Serve(r)
  \/ \E h \in Shippers : Shipper(h)

Spec == Init /\ [][Next]_vars

-----------------------------------------------------------------------------
(* Properties.                                                             *)

Times == 0 .. MaxTime
Expiries == 0 .. Forever
Keys == Registrations \cup {NoKey, EmptyKey}

(* Every variable has its type; a row in agents was granted, and what a    *)
(* shipper asks for, and saves the key of, is its latest registration.     *)
TypeOK ==
  /\ now \in Times /\ issued \subseteq Tokens
  /\ maxUses \in [Tokens -> Nat] /\ uses \in [Tokens -> Nat]
  /\ expires \in [Tokens -> Expiries] /\ deadline \in [Tokens -> Expiries]
  /\ stage \in [Registrations ->
       {"none", "sent", "checked", "consumed", "granted", "burned", "refused"}]
  /\ agents = {r \in Registrations : stage[r] = "granted"}
  /\ DOMAIN failures \subseteq Addresses
  /\ \A a \in DOMAIN failures : failures[a] \subseteq [reg : Registrations, at : Times]
  /\ pc \in [Shippers -> {"off", "asking", "saving", "writing", "running"}]
  /\ run \in [Shippers -> 0 .. MaxRuns]
  /\ \A r \in Registrations : stage[r] = "none" <=> r[2] > run[r[1]]
  /\ \A h \in Shippers :
       /\ pc[h] \in {"asking", "saving", "writing"} => Current(h) \in Registrations
       /\ Saving(h) => key[h] = Current(h)
  /\ key \in [Shippers -> Keys] /\ keyFile \in [Shippers -> Keys]
  /\ lost \subseteq Registrations /\ faults \in 0 .. MaxFaults

(* Every use counted on a token made an agent, or is about to, or was      *)
(* spent by a registration that broke off after it; and a token makes no   *)
(* more agents than it was issued for, however many shippers present it at *)
(* once.                                                                   *)
UsesAccounted ==
  \A t \in Tokens :
    /\ uses[t] <= maxUses[t]
    /\ uses[t] = Cardinality({r \in Registrations :
                    TokenFor(r) = t /\ stage[r] \in {"consumed", "granted", "burned"}})

(* No use is counted on a token after it expired or was revoked, and       *)
(* revoking never lets one live longer.                                    *)
NoLateEnrollment == [][\A t \in Tokens : uses'[t] # uses[t] => now < deadline[t]]_vars

(* An agent's key stays with its shipper, in its file or its memory,       *)
(* unless a fault kept it from the file: one fault loses one agent.  And   *)
(* a running shipper has the key of an agent, or the empty one that such a *)
(* fault left behind.                                                      *)
KeysMatchAgents ==
  /\ \A r \in agents : \/ r \in {key[r[1]], keyFile[r[1]]} \cup lost
                       \/ pc[r[1]] = "asking" /\ r = Current(r[1])
  /\ Cardinality(lost) <= faults
  /\ \A h \in Shippers : pc[h] = "running" =>
       key[h] \in agents \/ (key[h] = EmptyKey /\ \E r \in lost : r[1] = h)

(* The limiter holds no entry without a failure, and no failure without a  *)
(* refused registration from that address: an address that comes back      *)
(* after its failures have aged, or never failed, leaves no entry.         *)
LimiterStaysSmall ==
  \A a \in DOMAIN failures :
    /\ failures[a] # {}
    /\ \A f \in failures[a] :
         AddressFor(f.reg) = a /\ stage[f.reg] = "refused" /\ f.at <= now

=============================================================================
