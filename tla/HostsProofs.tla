------------------------------ MODULE HostsProofs ------------------------------
(***************************************************************************)
(* Proofs about the two ways in which the server hears of a host, through  *)
(* its agent's check-ins and through syslog.                               *)
(*                                                                         *)
(* Agents: type correctness, that a set stale_alert_sent always has a      *)
(* cause, and that no dark episode is alerted on twice unless the first    *)
(* alert could not be noted down, for any number of agents, thresholds,    *)
(* crashes and failing statements.                                         *)
(*                                                                         *)
(* Syslog: type correctness, that no line vanishes, that the allow list    *)
(* lets in what its prefixes cover and nothing else, for any lists, lines, *)
(* connections and widths of an address, and that the year of a time stamp *)
(* is guessed right for any clock of this century.                         *)
(***************************************************************************)
EXTENDS Agents, Syslog, FiniteSetTheorems, TLAPS

-----------------------------------------------------------------------------
(* Agents: the inductive invariant.  What the sweep holds in memory may be *)
(* stale, but only in one direction: an agent's last_seen only grows, and  *)
(* an agent that was touched since the query is marked as overtaken.       *)

Held == found \cup {target}

Waiting(row) == row \in found \/ (spc = "alert" /\ row = target)

(* Rows belong to agents registered before, last seen before now.          *)
RowsKnown == \A row \in Held : row.id < nextId /\ row.seen < now

RowsLagBehind ==
  \A row \in Held : row.id \in agents =>
    /\ row.seen <= lastSeen[row.id]
    /\ row.id \notin overtaken => row.seen = lastSeen[row.id]

(* Alerts are about episodes no later than the row in hand, the agent's    *)
(* last_seen, and the past.                                                *)
AlertsInOrder ==
  /\ \A row \in Held : row # NoRow => alerted[row.id] <= row.seen
  /\ \A a \in AgentIds :
       /\ lastSeen[a] <= now
       /\ alerted[a] # Never => alerted[a] < now /\ a < nextId
       /\ a \in agents => alerted[a] <= lastSeen[a]

TargetHandled == spc = "mark" => target.seen \in {alerted[target.id], muted[target.id]}

(* A row still to be alerted on has not been alerted on, unless the alert  *)
(* could not be noted.                                                     *)
RowsUnalerted ==
  \A row \in Held : Waiting(row) /\ row.seen = alerted[row.id] => row.seen = unmarked[row.id]

(* An episode that was alerted on is over, or flagged, or about to be, or  *)
(* could not be noted.                                                     *)
AlertsNoted ==
  \A a \in agents :
    \/ alertSent[a] \/ alerted[a] \in {Never, unmarked[a]}
    \/ alerted[a] # lastSeen[a] \/ (spc = "mark" /\ target.id = a)

IInv ==
  /\ TypeOK
  /\ RowsKnown /\ RowsLagBehind /\ AlertsInOrder /\ TargetHandled
  /\ RowsUnalerted /\ AlertsNoted /\ FlagHasCause

-----------------------------------------------------------------------------
(* Type correctness.                                                       *)

(* Initially nothing has been registered.                                  *)
LEMMA TypeInit == Init => TypeOK
  BY AgentsAssumption DEF Init, TypeOK, AgentIds, Never, NoRow, Times, Episode, Moments

(* The part of TypeOK about the sweep.                                     *)
SweepTyped ==
  /\ spc \in {"sleep", "find", "alert", "mark"} /\ limit \in Thresholds \cup {0}
  /\ found \subseteq Episode /\ target \in Episode \cup {NoRow}
  /\ spc \in {"alert", "mark"} <=> target # NoRow
  /\ \A row, other \in found \cup {target} : row.id = other.id => row = other
  /\ target \notin found

(* The sweep takes up one of a set of rows with different ids, or sleeps.  *)
LEMMA ProceedTypes ==
  ASSUME NEW stale, stale \subseteq Episode, Proceed(stale), limit \in Thresholds \cup {0},
         \A row, other \in stale : row.id = other.id => row = other
  PROVE  /\ spc' \in {"sleep", "alert"} /\ limit' \in Thresholds \cup {0}
         /\ found' \subseteq Episode /\ target' \in Episode \cup {NoRow}
         /\ spc' = "alert" <=> target' # NoRow
         /\ \A row, other \in found' \cup {target'} : row.id = other.id => row = other
         /\ target' \notin found'
         /\ found' \cup {target'} \subseteq stale \cup {NoRow}
<1>1. NoRow \notin Episode
  BY DEF NoRow, Episode, AgentIds
<1>2. CASE stale = {} /\ spc' = "sleep" /\ limit' = 0 /\ found' = {} /\ target' = NoRow
  BY <1>1, <1>2
<1>3. ASSUME NEW row \in stale,
             spc' = "alert", target' = row, found' = stale \ {row}, UNCHANGED limit
      PROVE  /\ spc' = "alert" /\ limit' \in Thresholds \cup {0}
             /\ found' \subseteq Episode /\ target' \in Episode /\ target' # NoRow
             /\ \A r, other \in found' \cup {target'} : r.id = other.id => r = other
             /\ target' \notin found'
             /\ found' \cup {target'} \subseteq stale
  BY <1>1, <1>3
<1> QED
  BY <1>2, <1>3 DEF Proceed

(* Every step keeps the types; those of the sweep keep its rows distinct.  *)
LEMMA TypeStep == TypeOK /\ [Next]_vars => TypeOK'
<1> SUFFICES ASSUME TypeOK, [Next]_vars PROVE TypeOK'
  OBVIOUS
<1> USE AgentsAssumption
<1>f. MaxFaults \in Nat /\ MaxTime \in Nat /\ MaxAgents \in Nat
  OBVIOUS
<1>1. CASE Tick
  BY <1>1 DEF Tick, TypeOK, Times, agentVars, sweepVars, alertVars
<1>2. CASE UpdateSettings
  BY <1>2 DEF UpdateSettings, TypeOK, agentVars, sweepVars, alertVars
<1>3. CASE CreateAgent
  BY <1>3 DEF CreateAgent, TypeOK, AgentIds, sweepVars, alertVars
<1>4. ASSUME NEW a \in AgentIds, Authenticate(a) PROVE TypeOK'
  BY <1>4 DEF Authenticate, TypeOK, agentVars, sweepVars, alertVars
<1>5. ASSUME NEW a \in AgentIds, Touch(a) PROVE TypeOK'
  <2>1. /\ UNCHANGED <<now, threshold, agents, nextId, sweepVars, alertVars, faults>>
        /\ checking' \subseteq checking
    BY <1>5 DEF Touch
  <2>2. CASE a \in agents
    <3>1. lastSeen' = [lastSeen EXCEPT ![a] = now] /\ alertSent' = [alertSent EXCEPT ![a] = FALSE]
      BY <1>5, <2>2 DEF Touch, ClearedBy
    <3>2. lastSeen' \in Moments /\ alertSent' \in [AgentIds -> BOOLEAN]
      BY <3>1 DEF TypeOK, Moments
    <3>3. \A b \in AgentIds \ agents : lastSeen'[b] = Never /\ ~ alertSent'[b]
      BY <2>2, <3>1 DEF TypeOK, Moments
    <3>4. overtaken' \subseteq agents
      BY <1>5, <2>2 DEF Touch, TypeOK
    <3> QED
      BY <2>1, <3>2, <3>3, <3>4 DEF TypeOK, sweepVars, alertVars
  <2>3. CASE a \notin agents
    BY <1>5, <2>1, <2>3 DEF Touch, TypeOK, sweepVars, alertVars
  <2> QED
    BY <2>2, <2>3
<1>6. ASSUME NEW a \in AgentIds, TouchFails(a) PROVE TypeOK'
  BY <1>6 DEF TouchFails, Fault, TypeOK, agentVars, sweepVars, alertVars
<1>7. ASSUME NEW a \in AgentIds, DeleteAgent(a) PROVE TypeOK'
  BY <1>7 DEF DeleteAgent, TypeOK, Moments, sweepVars, alertVars
<1>8. CASE SweepBegins
  BY <1>8 DEF SweepBegins, TypeOK, agentVars, alertVars
<1>9. CASE SweepFinds
  <2> DEFINE stale == {[id |-> a, seen |-> lastSeen[a]] : a \in {b \in agents : NewlyStale(b)}}
  <2>1. stale \subseteq Episode /\ \A row, other \in stale : row.id = other.id => row = other
    BY DEF TypeOK, NewlyStale, Dark, Episode, Moments, AgentIds
  <2>2. Proceed(stale) /\ limit \in Thresholds \cup {0}
    BY <1>9 DEF SweepFinds, TypeOK
  <2> HIDE DEF stale
  <2> QED
    BY <1>9, <2>1, <2>2, ProceedTypes DEF SweepFinds, TypeOK, agentVars, alertVars
<1>10. CASE SweepAlerts \/ AlertLost
  <2>1. target \in Episode /\ target.id \in AgentIds /\ target.seen \in Times
    BY <1>10 DEF SweepAlerts, AlertLost, TypeOK, Episode
  <2>2. CASE SweepAlerts
    BY <2>1, <2>2 DEF SweepAlerts, TypeOK, Moments, agentVars
  <2>3. CASE AlertLost
    BY <2>1, <2>3 DEF AlertLost, Fault, TypeOK, Moments, agentVars
  <2> QED
    BY <1>10, <2>2, <2>3
<1>11. CASE SweepMarks \/ MarkFails
  <2>1. target \in Episode /\ target.id \in AgentIds /\ target.seen \in Times
    BY <1>11 DEF SweepMarks, MarkFails, TypeOK, Episode
  <2>2. Proceed(found) /\ found \subseteq Episode /\ limit \in Thresholds \cup {0}
        /\ \A row, other \in found : row.id = other.id => row = other
    BY <1>11 DEF SweepMarks, MarkFails, TypeOK
  <2>3. SweepTyped'
    BY <2>2, ProceedTypes DEF SweepTyped
  <2>4. CASE SweepMarks
    <3>1. alertSent' \in [AgentIds -> BOOLEAN] /\ \A a \in AgentIds \ agents : ~ alertSent'[a]
      BY <2>1, <2>4 DEF SweepMarks, TypeOK
    <3> QED
      BY <2>3, <2>4, <3>1 DEF SweepMarks, TypeOK, SweepTyped, alertVars
  <2>5. CASE MarkFails
    <3>1. unmarked' \in Moments
      BY <2>1, <2>5 DEF MarkFails, TypeOK, Moments
    <3> QED
      BY <2>3, <2>5, <3>1 DEF MarkFails, Fault, TypeOK, SweepTyped, agentVars
  <2> QED
    BY <1>11, <2>4, <2>5
<1>12. CASE SweepFails \/ Crash
  <2>1. spc' = "sleep" /\ limit' = 0 /\ found' = {} /\ target' = NoRow
    BY <1>12 DEF SweepFails, Crash, Proceed
  <2>2. CASE SweepFails
    BY <2>1, <2>2 DEF SweepFails, Fault, TypeOK, agentVars, alertVars
  <2>3. CASE Crash
    <3>1. spc = "mark" => target.id \in AgentIds /\ target.seen \in Times
      BY DEF TypeOK, Episode
    <3>2. unmarked' \in Moments
      BY <2>3, <3>1 DEF Crash, TypeOK, Moments
    <3> QED
      BY <2>1, <2>3, <3>2 DEF Crash, Fault, TypeOK, agentVars
  <2> QED
    BY <1>12, <2>2, <2>3
<1>13. CASE UNCHANGED vars
  BY <1>13 DEF vars, TypeOK
<1> QED
  BY <1>1, <1>2, <1>3, <1>4, <1>5, <1>6, <1>7, <1>8, <1>9, <1>10, <1>11, <1>12, <1>13
  DEF Next, Request, Sweep

(* Every variable keeps its type, for any number of agents and faults, and *)
(* the sweep has each agent at most once in hand.                          *)
THEOREM TypeCorrect == Spec => []TypeOK
  BY TypeInit, TypeStep, PTL DEF Spec

-----------------------------------------------------------------------------
(* The invariant, step by step.                                            *)

(* Initially there is no row and no alert.                                 *)
LEMMA InvariantInit == Init => IInv
<1> SUFFICES ASSUME Init PROVE IInv
  OBVIOUS
<1>1. TypeOK
  BY TypeInit
<1> QED
  BY <1>1 DEF Init, IInv, RowsKnown, RowsLagBehind, AlertsInOrder, TargetHandled, Held,
     RowsUnalerted, Waiting, AlertsNoted, FlagHasCause, NoRow, Never, AgentIds

(* What types say about the rows in hand, in the terms the steps need.     *)
LEMMA HeldTypes ==
  ASSUME TypeOK
  PROVE  /\ \A row \in Held : row.id \in Nat /\ row.seen \in Int
         /\ \A row \in Held : row = NoRow \/ (row.id \in AgentIds /\ row.seen \in Nat)
         /\ NoRow.id = 0 /\ NoRow.seen = Never
         /\ spc \in {"alert", "mark"} => target # NoRow /\ target.id \in AgentIds /\ target.seen \in Nat
         /\ \A row, other \in Held : row.id = other.id => row = other
         /\ target \notin found
         /\ \A a \in AgentIds : /\ lastSeen[a] \in Int /\ alerted[a] \in Int
                               /\ unmarked[a] \in Int /\ muted[a] \in Int
         /\ agents \subseteq AgentIds /\ nextId \in Nat /\ now \in Nat /\ 0 \notin AgentIds
<1> USE AgentsAssumption
<1>1. agents \subseteq AgentIds
  BY DEF TypeOK, AgentIds
<1> QED
  BY <1>1 DEF TypeOK, Held, Episode, NoRow, Never, Times, Moments, AgentIds

(* A step that starts, stops or goes on with the sweep drops rows and adds *)
(* none.                                                                   *)
LEMMA ProceedDrops ==
  ASSUME NEW stale, Proceed(stale)
  PROVE  /\ found' \cup {target'} \subseteq stale \cup {NoRow}
         /\ spc' \in {"sleep", "alert"}
  BY DEF Proceed

(* The steps that leave the agents and their columns, the alerts and the   *)
(* sweep's rows alone.                                                     *)
LEMMA QuietStep ==
  ASSUME IInv, UNCHANGED <<agentVars, found, target, alertVars>>, TypeOK',
         now' \in {now, now + 1}, spc' = spc \/ (spc = "sleep" /\ spc' = "find")
  PROVE  IInv'
<1>t. TypeOK
  BY DEF IInv
<1>1. RowsKnown' /\ RowsLagBehind'
  BY <1>t, HeldTypes DEF IInv, RowsKnown, RowsLagBehind, Held, agentVars
<1>2. AlertsInOrder'
  BY <1>t, HeldTypes DEF IInv, AlertsInOrder, Held, agentVars, alertVars
<1>3. TargetHandled' /\ RowsUnalerted' /\ AlertsNoted' /\ FlagHasCause'
  BY DEF IInv, TargetHandled, RowsUnalerted, AlertsNoted, FlagHasCause, Held, Waiting,
     agentVars, alertVars
<1> QED
  BY <1>1, <1>2, <1>3 DEF IInv

(* A registration: no row of the sweep is about the new agent.             *)
LEMMA CreateStep == IInv /\ CreateAgent /\ TypeOK' => IInv'
<1> SUFFICES ASSUME IInv, CreateAgent, TypeOK' PROVE IInv'
  OBVIOUS
<1>t. TypeOK
  BY DEF IInv
<1>1. /\ agents' = agents \cup {nextId} /\ nextId' = nextId + 1 /\ nextId \notin agents
      /\ UNCHANGED <<now, lastSeen, alertSent, overtaken, spc, found, target, alerted, muted, unmarked>>
  BY <1>t DEF CreateAgent, sweepVars, alertVars, TypeOK
<1>2. ~ alertSent[nextId] /\ alerted[nextId] = Never /\ lastSeen[nextId] = Never /\ nextId \in AgentIds
  <2>1. nextId \in AgentIds
    BY DEF CreateAgent
  <2>2. ~ (alerted[nextId] # Never)
    BY <1>t, <2>1, HeldTypes DEF IInv, AlertsInOrder
  <2> QED
    BY <1>t, <1>1, <2>1, <2>2 DEF TypeOK
<1>3. RowsKnown' /\ RowsLagBehind'
  BY <1>t, <1>1, HeldTypes DEF IInv, RowsKnown, RowsLagBehind, Held
<1>4. AlertsInOrder'
  <2>1. \A row \in Held' : row # NoRow => alerted'[row.id] <= row.seen
    BY <1>1 DEF IInv, AlertsInOrder, Held
  <2>2. \A a \in AgentIds : lastSeen'[a] <= now' /\ (alerted'[a] # Never => alerted'[a] < now' /\ a < nextId')
    BY <1>t, <1>1, HeldTypes DEF IInv, AlertsInOrder, AgentIds
  <2>3. \A a \in AgentIds : a \in agents' => alerted'[a] <= lastSeen'[a]
    BY <1>t, <1>1, <1>2 DEF IInv, AlertsInOrder, Never
  <2> QED
    BY <2>1, <2>2, <2>3 DEF AlertsInOrder
<1>5. TargetHandled' /\ RowsUnalerted' /\ AlertsNoted' /\ FlagHasCause'
  BY <1>1, <1>2 DEF IInv, TargetHandled, RowsUnalerted, AlertsNoted, FlagHasCause, Held, Waiting
<1> QED
  BY <1>3, <1>4, <1>5 DEF IInv

(* A check-in: rows of the sweep about the agent now lag behind it.        *)
LEMMA TouchStep ==
  ASSUME NEW a \in AgentIds, IInv, Touch(a), TypeOK'
  PROVE  IInv'
<1>t. TypeOK
  BY DEF IInv
<1>1. CASE a \notin agents
  BY <1>1, QuietStep DEF Touch, agentVars, sweepVars, alertVars
<1>2. CASE a \in agents
  <2>1. /\ lastSeen' = [lastSeen EXCEPT ![a] = now] /\ alertSent' = [alertSent EXCEPT ![a] = FALSE]
        /\ overtaken' = IF InSweep(a) THEN overtaken \cup {a} ELSE overtaken \ {a}
        /\ UNCHANGED <<now, agents, nextId, spc, found, target, alerted, muted, unmarked>>
    BY <1>2 DEF Touch, ClearedBy, sweepVars, alertVars
  <2>2. \A row \in Held : row.id = a => a \in overtaken'
    BY <2>1 DEF InSweep, Held
  <2>3. \A b \in AgentIds : b # a =>
           /\ lastSeen'[b] = lastSeen[b] /\ alertSent'[b] = alertSent[b]
           /\ (b \in overtaken') = (b \in overtaken)
    BY <1>t, <2>1 DEF TypeOK, Moments
  <2>4. lastSeen'[a] = now /\ ~ alertSent'[a] /\ lastSeen[a] <= now
    BY <1>t, <2>1 DEF TypeOK, Moments, IInv, AlertsInOrder
  <2>5. RowsKnown'
    BY <2>1 DEF IInv, RowsKnown, Held
  <2>6. RowsLagBehind'
    BY <1>t, <2>1, <2>2, <2>3, <2>4, HeldTypes DEF IInv, RowsKnown, RowsLagBehind, Held
  <2>7. AlertsInOrder'
    BY <1>t, <1>2, <2>1, <2>3, <2>4, HeldTypes DEF IInv, AlertsInOrder, Held, Never
  <2>8. TargetHandled' /\ RowsUnalerted'
    BY <2>1 DEF IInv, TargetHandled, RowsUnalerted, Held, Waiting
  <2>9. AlertsNoted'
    BY <1>t, <2>1, <2>3, <2>4, HeldTypes DEF IInv, AlertsNoted, AlertsInOrder, Never
  <2>10. FlagHasCause'
    BY <1>t, <2>1, <2>3, <2>4, HeldTypes DEF IInv, FlagHasCause
  <2> QED
    BY <2>5, <2>6, <2>7, <2>8, <2>9, <2>10 DEF IInv
<1> QED
  BY <1>1, <1>2

(* A deletion: an id that is gone never comes back.                        *)
LEMMA DeleteStep ==
  ASSUME NEW a \in AgentIds, IInv, DeleteAgent(a), TypeOK'
  PROVE  IInv'
<1>t. TypeOK
  BY DEF IInv
<1>1. /\ agents' = agents \ {a}
      /\ UNCHANGED <<now, nextId, spc, found, target, alerted, muted, unmarked>>
  BY DEF DeleteAgent, sweepVars, alertVars
<1>2. \A b \in AgentIds : b # a =>
         /\ lastSeen'[b] = lastSeen[b] /\ alertSent'[b] = alertSent[b]
         /\ (b \in overtaken') = (b \in overtaken)
  BY <1>t DEF DeleteAgent, TypeOK, Moments
<1>3. lastSeen'[a] = Never
  BY <1>t DEF DeleteAgent, TypeOK, Moments
<1>4. RowsKnown' /\ RowsLagBehind'
  BY <1>t, <1>1, <1>2, HeldTypes DEF IInv, RowsKnown, RowsLagBehind, Held
<1>5. AlertsInOrder'
  BY <1>t, <1>1, <1>2, <1>3, HeldTypes DEF IInv, AlertsInOrder, Held, Never
<1>6. TargetHandled' /\ RowsUnalerted'
  BY <1>1 DEF IInv, TargetHandled, RowsUnalerted, Held, Waiting
<1>7. AlertsNoted' /\ FlagHasCause'
  BY <1>t, <1>1, <1>2, HeldTypes DEF IInv, AlertsNoted, FlagHasCause
<1> QED
  BY <1>4, <1>5, <1>6, <1>7 DEF IInv

(* The query: each row it returns is an agent as it is now.                *)
LEMMA FindsStep == IInv /\ SweepFinds /\ TypeOK' => IInv'
<1> SUFFICES ASSUME IInv, SweepFinds, TypeOK' PROVE IInv'
  OBVIOUS
<1> DEFINE stale == {[id |-> a, seen |-> lastSeen[a]] : a \in {b \in agents : NewlyStale(b)}}
<1>t. TypeOK
  BY DEF IInv
<1>1. /\ spc = "find" /\ Proceed(stale)
      /\ UNCHANGED <<now, agents, nextId, lastSeen, alertSent, overtaken, alerted, muted, unmarked>>
  BY DEF SweepFinds, agentVars, alertVars
<1>2. \A row \in stale : /\ row.id \in agents /\ row.id \in AgentIds
                       /\ row.seen = lastSeen[row.id] /\ NewlyStale(row.id)
  BY <1>t, HeldTypes
<1>3. \A row \in stale : /\ row.seen < now /\ row.seen # Never /\ ~ alertSent[row.id]
                       /\ row.id < nextId
  <2>1. limit \in Nat
    BY <1>t, AgentsAssumption DEF TypeOK
  <2> HIDE DEF stale
  <2>2. \A a \in agents : a < nextId
    BY <1>t DEF TypeOK
  <2> QED
    BY <1>t, <1>2, <2>1, <2>2, HeldTypes DEF NewlyStale, Dark
<1> HIDE DEF stale
<1>4. Held' \subseteq stale \cup {NoRow} /\ spc' \in {"sleep", "alert"}
  BY <1>1, ProceedDrops DEF Held
<1>5. \A row \in Held' : Waiting(row)' => row \in stale
  BY <1>4 DEF Waiting, Held, TypeOK, Episode, NoRow, AgentIds
<1>6. RowsKnown' /\ RowsLagBehind'
  BY <1>t, <1>1, <1>2, <1>3, <1>4, HeldTypes DEF RowsKnown, RowsLagBehind, Never, TypeOK
<1>7. AlertsInOrder'
  BY <1>t, <1>1, <1>2, <1>4, HeldTypes DEF IInv, AlertsInOrder
<1>8. RowsUnalerted'
  BY <1>1, <1>2, <1>3, <1>5 DEF IInv, RowsUnalerted, AlertsNoted
<1>9. TargetHandled' /\ AlertsNoted' /\ FlagHasCause'
  BY <1>1, <1>4 DEF IInv, TargetHandled, AlertsNoted, FlagHasCause
<1> QED
  BY <1>6, <1>7, <1>8, <1>9 DEF IInv

(* An alert, sent or lost: the episode in hand is the one the agent is in, *)
(* unless the agent overtook the sweep.                                    *)
LEMMA AlertStep == IInv /\ (SweepAlerts \/ AlertLost) /\ TypeOK' => IInv'
<1> SUFFICES ASSUME IInv, SweepAlerts \/ AlertLost, TypeOK' PROVE IInv'
  OBVIOUS
<1>t. TypeOK
  BY DEF IInv
<1>1. /\ spc = "alert" /\ spc' = "mark" /\ UNCHANGED <<found, target>>
      /\ UNCHANGED <<now, agents, nextId, lastSeen, alertSent, overtaken, unmarked>>
  BY DEF SweepAlerts, AlertLost, agentVars
<1>2. /\ target \in Held /\ target # NoRow /\ target.id \in AgentIds /\ target.seen \in Nat
      /\ \A row \in found : row.id # target.id
  BY <1>t, <1>1, HeldTypes DEF Held
<1>3. \A a \in AgentIds : a # target.id => alerted'[a] = alerted[a] /\ muted'[a] = muted[a]
  BY <1>t DEF SweepAlerts, AlertLost, TypeOK, Moments
<1>4. \/ alerted'[target.id] = target.seen /\ muted' = muted
      \/ muted'[target.id] = target.seen /\ alerted' = alerted
  BY <1>t, <1>2 DEF SweepAlerts, AlertLost, TypeOK, Moments
<1>5. RowsKnown' /\ RowsLagBehind'
  BY <1>1 DEF IInv, RowsKnown, RowsLagBehind, Held
<1>6. AlertsInOrder'
  <2>1. \A row \in Held' : row # NoRow => alerted'[row.id] <= row.seen
    BY <1>t, <1>1, <1>2, <1>3, <1>4, HeldTypes DEF IInv, AlertsInOrder, Held
  <2>2. \A a \in AgentIds : alerted'[a] # Never => alerted'[a] < now /\ a < nextId
    BY <1>2, <1>3, <1>4 DEF IInv, AlertsInOrder, RowsKnown
  <2>3. \A a \in AgentIds : a \in agents => alerted'[a] <= lastSeen[a]
    BY <1>2, <1>3, <1>4 DEF IInv, AlertsInOrder, RowsLagBehind
  <2> QED
    BY <1>1, <2>1, <2>2, <2>3 DEF IInv, AlertsInOrder
<1>7. TargetHandled'
  BY <1>1, <1>4 DEF TargetHandled
<1>8. RowsUnalerted'
  <2>1. \A row \in found : row.id \in AgentIds
    BY <1>t DEF TypeOK, Episode
  <2> QED
    BY <1>1, <1>2, <1>3, <2>1 DEF IInv, RowsUnalerted, Waiting, Held
<1>9. AlertsNoted'
  BY <1>t, <1>1, <1>3, HeldTypes DEF IInv, AlertsNoted
<1>10. FlagHasCause'
  <2>1. ASSUME NEW a \in agents, alertSent[a], a \notin overtaken
        PROVE  lastSeen[a] \in {alerted'[a], muted'[a]}
    <3>1. a \in AgentIds /\ lastSeen[a] \in {alerted[a], muted[a]}
      BY <1>t, <2>1, HeldTypes DEF IInv, FlagHasCause
    <3>2. CASE a = target.id
      BY <1>2, <1>4, <2>1, <3>1, <3>2 DEF IInv, RowsLagBehind
    <3> QED
      BY <1>3, <3>1, <3>2
  <2> QED
    BY <1>1, <2>1 DEF FlagHasCause
<1> QED
  BY <1>5, <1>6, <1>7, <1>8, <1>9, <1>10 DEF IInv

(* What holds when the sweep is done with its target, or gives up.         *)
LEMMA DropStep ==
  ASSUME IInv, TypeOK', Proceed(found) \/ Proceed({}),
         UNCHANGED <<now, agents, nextId, lastSeen, overtaken, alerted, muted>>,
         \A a \in AgentIds : unmarked'[a] = unmarked[a]
                           \/ (spc = "mark" /\ a = target.id /\ unmarked'[a] = target.seen)
  PROVE  RowsKnown' /\ RowsLagBehind' /\ AlertsInOrder' /\ TargetHandled' /\ RowsUnalerted'
<1>t. TypeOK
  BY DEF IInv
<1>1. Held' \subseteq found \cup {NoRow} /\ spc' \in {"sleep", "alert"}
  BY ProceedDrops DEF Held
<1>2. \A row \in Held' : Waiting(row)' => row \in found
  BY <1>1 DEF Waiting, Held, TypeOK, Episode, NoRow, AgentIds
<1>3. RowsKnown' /\ RowsLagBehind'
  BY <1>t, <1>1, HeldTypes DEF IInv, RowsKnown, RowsLagBehind, Held, Never, TypeOK
<1>4. AlertsInOrder'
  BY <1>1 DEF IInv, AlertsInOrder, Held
<1>5. TargetHandled'
  BY <1>1 DEF TargetHandled
<1>6. RowsUnalerted'
  <2>1. \A row \in found : row.id \in AgentIds /\ (spc = "mark" => row.id # target.id)
    BY <1>t, HeldTypes DEF Held, TypeOK, Episode
  <2> QED
    BY <1>2, <2>1 DEF IInv, RowsUnalerted, Waiting, Held
<1> QED
  BY <1>3, <1>4, <1>5, <1>6

(* The flag is set: for an agent that did not overtake the sweep, the row  *)
(* in hand is its present episode.                                         *)
LEMMA MarkStep == IInv /\ SweepMarks /\ TypeOK' => IInv'
<1> SUFFICES ASSUME IInv, SweepMarks, TypeOK' PROVE IInv'
  OBVIOUS
<1>t. TypeOK
  BY DEF IInv
<1>1. /\ spc = "mark" /\ Proceed(found)
      /\ UNCHANGED <<now, agents, nextId, lastSeen, overtaken, alerted, muted, unmarked>>
  BY DEF SweepMarks, alertVars
<1>2. \A a \in agents : IF a = target.id THEN alertSent'[a] ELSE alertSent'[a] = alertSent[a]
  BY <1>t, HeldTypes DEF SweepMarks, TypeOK
<1>3. RowsKnown' /\ RowsLagBehind' /\ AlertsInOrder' /\ TargetHandled' /\ RowsUnalerted'
  BY <1>1, DropStep
<1>4. AlertsNoted'
  BY <1>1, <1>2 DEF IInv, AlertsNoted
<1>5. FlagHasCause'
  <2>1. target.id \in agents /\ target.id \notin overtaken
        => lastSeen[target.id] \in {alerted[target.id], muted[target.id]}
    BY <1>1 DEF IInv, TargetHandled, RowsLagBehind, Held
  <2> QED
    BY <1>1, <1>2, <2>1 DEF IInv, FlagHasCause
<1> QED
  BY <1>3, <1>4, <1>5 DEF IInv

(* The flag could not be set: the episode in hand is noted as unmarked.    *)
LEMMA FailStep == IInv /\ (MarkFails \/ SweepFails \/ Crash) /\ TypeOK' => IInv'
<1> SUFFICES ASSUME IInv, MarkFails \/ SweepFails \/ Crash, TypeOK' PROVE IInv'
  OBVIOUS
<1>t. TypeOK
  BY DEF IInv
<1>1. /\ Proceed(found) \/ Proceed({})
      /\ UNCHANGED <<now, agents, nextId, lastSeen, alertSent, overtaken, alerted, muted>>
  BY DEF MarkFails, SweepFails, Crash, agentVars, alertVars
<1>2. \A a \in AgentIds : IF spc = "mark" /\ a = target.id THEN unmarked'[a] = target.seen
                         ELSE unmarked'[a] = unmarked[a]
  BY <1>t DEF MarkFails, SweepFails, Crash, alertVars, TypeOK, Moments
<1>3. RowsKnown' /\ RowsLagBehind' /\ AlertsInOrder' /\ TargetHandled' /\ RowsUnalerted'
  BY <1>1, <1>2, DropStep
<1>4. AlertsNoted'
  <2>1. ASSUME NEW a \in agents, spc = "mark", a = target.id
        PROVE  alerted[a] = target.seen \/ alerted[a] # lastSeen[a]
    <3>1. alerted[a] <= target.seen /\ target.seen <= lastSeen[a]
      BY <1>t, <2>1, HeldTypes DEF IInv, AlertsInOrder, RowsLagBehind, Held
    <3> QED
      BY <1>t, <2>1, <3>1, HeldTypes
  <2> QED
    BY <1>t, <1>1, <1>2, <2>1, HeldTypes DEF IInv, AlertsNoted
<1>5. FlagHasCause'
  BY <1>1 DEF IInv, FlagHasCause
<1> QED
  BY <1>3, <1>4, <1>5 DEF IInv

(* Every step keeps the invariant.                                         *)
LEMMA InvariantStep == IInv /\ [Next]_vars => IInv'
<1> SUFFICES ASSUME IInv, [Next]_vars PROVE IInv'
  OBVIOUS
<1>t. TypeOK /\ TypeOK'
  BY TypeStep DEF IInv
<1>n. now \in Nat
  BY <1>t, HeldTypes
<1>1. CASE Tick
  BY <1>t, <1>1, QuietStep DEF Tick, sweepVars
<1>2. CASE UpdateSettings \/ SweepBegins \/ UNCHANGED vars
  BY <1>t, <1>2, QuietStep DEF UpdateSettings, SweepBegins, vars, sweepVars, agentVars, alertVars
<1>3. CASE CreateAgent
  BY <1>t, <1>3, CreateStep
<1>4. ASSUME NEW a \in AgentIds, Authenticate(a) \/ TouchFails(a) PROVE IInv'
  BY <1>t, <1>4, QuietStep DEF Authenticate, TouchFails, sweepVars
<1>5. ASSUME NEW a \in AgentIds, Touch(a) PROVE IInv'
  BY <1>t, <1>5, TouchStep
<1>6. ASSUME NEW a \in AgentIds, DeleteAgent(a) PROVE IInv'
  BY <1>t, <1>6, DeleteStep
<1>7. CASE SweepFinds
  BY <1>t, <1>7, FindsStep
<1>8. CASE SweepAlerts \/ AlertLost
  BY <1>t, <1>8, AlertStep
<1>9. CASE SweepMarks
  BY <1>t, <1>9, MarkStep
<1>10. CASE MarkFails \/ SweepFails \/ Crash
  BY <1>t, <1>10, FailStep
<1> QED
  BY <1>1, <1>2, <1>3, <1>4, <1>5, <1>6, <1>7, <1>8, <1>9, <1>10 DEF Next, Request, Sweep

-----------------------------------------------------------------------------
(* The theorems.                                                           *)

(* Where the flag that silences the sweep is set, the agent's present dark *)
(* episode was alerted on, or its alert was lost, or the agent checked in  *)
(* while the sweep was at work: for any number of agents and whatever the  *)
(* check-ins, deletions and crashes in between.                            *)
THEOREM FlagExplained == Spec => []FlagHasCause
<1>1. IInv => FlagHasCause
  BY DEF IInv
<1> QED
  BY <1>1, InvariantInit, InvariantStep, PTL DEF Spec

(* The sweep alerts on a dark episode a second time only if it could not   *)
(* note the first alert down.                                              *)
THEOREM AlertsOnce == Spec => OneAlertPerEpisode
<1> DEFINE Once == spc = "alert" /\ spc' = "mark" /\ target.seen = alerted[target.id]
                   => target.seen = unmarked[target.id]
<1>1. IInv => Once
  BY DEF IInv, RowsUnalerted, Waiting, Held
<1> HIDE DEF Once
<1>2. IInv /\ [Next]_vars => [Once]_vars
  BY <1>1
<1>3. Spec => [][Once]_vars
  BY <1>2, InvariantInit, InvariantStep, PTL DEF Spec
<1> QED
  BY <1>3 DEF OneAlertPerEpisode, Once

-----------------------------------------------------------------------------
(* Syslog: what a prefix means.                                            *)

LEMMA EntryTypes ==
  ASSUME NEW entry \in Entry
  PROVE  /\ entry.parses \in BOOLEAN /\ entry.net \in Address
         /\ entry.net.family \in Families
         /\ Width(entry) \in Nat \ {0}
         /\ Prefix(entry) \in Nat
  <1>1. entry.parses \in BOOLEAN /\ entry.net \in Address /\ entry.prefix \in Nat \cup {NoPrefix}
    BY DEF Entry
  <1>2. entry.net.family \in Families
    BY <1>1 DEF Address
  <1>3. Width(entry) \in Nat \ {0}
    BY <1>2, CidrAssumption DEF Width
  <1>4. QED
    BY <1>1, <1>2, <1>3 DEF Prefix

LEMMA SmallDistance == ASSUME NEW w \in Nat \ {0}, NEW n \in 0 .. w - 1 PROVE n % w = n
  OBVIOUS

(* The mask of a prefix is its leading bits: the distance of the shift is  *)
(* below the width unless the prefix is 0.                                 *)
LEMMA MaskIsLeadingBits ==
  ASSUME NEW entry \in Entry, Prefix(entry) \in 1 .. Width(entry)
  PROVE  Mask(entry) = Width(entry) - Prefix(entry) .. Width(entry) - 1
  <1> DEFINE w == Width(entry)
             n == w - Prefix(entry)
  <1>1. w \in Nat \ {0} /\ n \in 0 .. w - 1
    BY EntryTypes
  <1>2. Mask(entry) = {bit + n : bit \in 0 .. w - 1} \cap (0 .. w - 1)
    BY <1>1, SmallDistance DEF Mask, ShiftLeft
  <1> HIDE DEF w, n
  <1>3. ASSUME NEW bit \in n .. w - 1 PROVE bit \in {b + n : b \in 0 .. w - 1} \cap (0 .. w - 1)
    <2>1. bit - n \in 0 .. w - 1 /\ bit = (bit - n) + n /\ bit \in 0 .. w - 1
      BY <1>1, <1>3
    <2>2. QED
      BY <2>1
  <1>4. ASSUME NEW b \in 0 .. w - 1, b + n \in 0 .. w - 1 PROVE b + n \in n .. w - 1
    BY <1>1, <1>4
  <1>5. {b + n : b \in 0 .. w - 1} \cap (0 .. w - 1) = n .. w - 1
    BY <1>3, <1>4
  <1>6. QED
    BY <1>2, <1>5 DEF w, n

(* ip_in_cidr lets in what the entry means, for every width and prefix.    *)
LEMMA MatchIsCover ==
  ASSUME NEW ip \in Address, NEW entry \in Entry
  PROVE  IpInCidr(ip, entry) <=> Covers(entry, ip)
  <1> DEFINE leading == Width(entry) - Prefix(entry) .. Width(entry) - 1
  <1>1. Width(entry) \in Nat \ {0} /\ Prefix(entry) \in Nat
    BY EntryTypes
  <1>2. CASE Prefix(entry) > Width(entry)
    BY <1>1, <1>2 DEF IpInCidr, Covers
  <1>3. CASE Prefix(entry) = 0
    <2>1. leading = {}
      BY <1>1, <1>3
    <2>2. QED
      BY <1>1, <1>3, <2>1 DEF IpInCidr, Covers, CoversAll
  <1>4. CASE Prefix(entry) \in 1 .. Width(entry)
    <2>1. Mask(entry) = leading
      BY <1>4, MaskIsLeadingBits
    <2>2. ip.bits \cap leading = entry.net.bits \cap leading
            <=> \A bit \in leading : bit \in ip.bits <=> bit \in entry.net.bits
      OBVIOUS
    <2>3. ~ CoversAll(entry) /\ Prefix(entry) <= Width(entry) /\ Prefix(entry) \in 0 .. Width(entry)
      BY <1>1, <1>4 DEF CoversAll
    <2>4. QED
      BY <2>1, <2>2, <2>3 DEF IpInCidr, Covers
  <1>5. QED
    BY <1>1, <1>2, <1>3, <1>4

LEMMA AllowedIsCovered ==
  ASSUME NEW ip \in Address, NEW list \in Lists
  PROVE  IpAllowed(ip, list) <=> Covered(ip, list)
  <1>1. \A entry \in list : entry \in Entry
    BY SyslogAssumption
  <1>2. QED
    BY <1>1, MatchIsCover DEF IpAllowed, Covered

-----------------------------------------------------------------------------
(* Syslog: the inductive invariant.                                        *)

syslogListVars == <<config, server, listening, memory, saves, failures, saved>>
syslogLineVars == <<conns, tasks, rows, alerts, made, opened, received, lost>>

SyslogListsTyped ==
  /\ config \in [enabled : SUBSET Protocols, list : Lists,
                 lastHost : Sources \cup {NoHost} \cup {line.host : line \in Lines}]
  /\ server \in {"down", "starting", "up"} /\ listening \subseteq Protocols
  /\ allow \in Lists /\ fetched \subseteq Lists /\ Cardinality(fetched) <= 1
  /\ saves \in 0 .. MaxSaves /\ failures \in 0 .. MaxFailures
  /\ saved \in Seq(Lists) /\ readAt \in 1 .. Len(saved) /\ allowAt \in 1 .. Len(saved)

SyslogLinesTyped ==
  /\ made \in 0 .. MaxMessages /\ opened \in 0 .. MaxConns
  /\ conns \subseteq [id : 1 .. opened, source : Sources]
  /\ \A c, d \in conns : c.id = d.id => c = d
  /\ tasks \subseteq Task /\ \A t, u \in tasks : t.of.id = u.of.id => t = u
  /\ \A t, u \in tasks : t.of.conn = u.of.conn /\ t.of.conn # 0 => t = u
  /\ alerts \subseteq rows /\ received \subseteq Message /\ lost \subseteq received

LEMMA SyslogTypeIsParts == SyslogTypeOK <=> SyslogListsTyped /\ SyslogLinesTyped
  BY DEF SyslogTypeOK, SyslogListsTyped, SyslogLinesTyped

(* The list in memory, and the one about to get there, are lists that were *)
(* stored: those after as many saves as the history says.                  *)
ListsFollow ==
  /\ saved[1] = {} /\ config.list = saved[Len(saved)]
  /\ allow = saved[allowAt] /\ fetched \subseteq {saved[readAt]}

(* A message is known by its number.                                       *)
MessagesKnown ==
  /\ \A m \in received : m.id \in 1 .. made
  /\ \A m, n \in received : m.id = n.id => m = n
  /\ \A t \in tasks : t.of \in received

AlertsHaveRows == \A t \in tasks : t.at = "alert" => Row(t.of) \in rows

(* A row was alerted on, or is about to be, or the line that inserted it   *)
(* is lost.                                                                *)
Answered(row) ==
  \/ row \in alerts
  \/ \E t \in tasks : t.at = "alert" /\ Row(t.of) = row
  \/ \E l \in lost : Row(l) = row

RowsAnswered == \A row \in rows : Answered(row)

SyslogListInv == SyslogListsTyped /\ ListsFollow
SyslogLineInv ==
  /\ SyslogLinesTyped /\ MessagesKnown
  /\ AlertsHaveRows /\ RowsAnswered /\ NothingVanishes

LEMMA SyslogInitInv == SyslogInit => SyslogListInv /\ SyslogLineInv
  <1> SUFFICES ASSUME SyslogInit PROVE SyslogListInv /\ SyslogLineInv
    OBVIOUS
  <1>1. Cardinality({}) = 0
    BY FS_EmptySet
  <1>2. saved = <<{}>> /\ Len(saved) = 1 /\ saved[1] = {} /\ saved \in Seq(Lists)
    BY SyslogAssumption DEF SyslogInit
  <1>3. SyslogListsTyped
    BY <1>1, <1>2, SyslogAssumption DEF SyslogInit, SyslogListsTyped, None
  <1>4. ListsFollow
    BY <1>2 DEF SyslogInit, ListsFollow, None
  <1>5. SyslogLineInv
    BY SyslogAssumption DEF SyslogInit, SyslogLineInv, SyslogLinesTyped, MessagesKnown,
       AlertsHaveRows, RowsAnswered, NothingVanishes
  <1>6. QED
    BY <1>3, <1>4, <1>5 DEF SyslogListInv

-----------------------------------------------------------------------------
(* Syslog: the lists.                                                      *)

LEMMA ListsRest == ASSUME SyslogListInv, UNCHANGED syslogListVars PROVE SyslogListInv'
  BY DEF SyslogListInv, SyslogListsTyped, ListsFollow, syslogListVars, memory

LEMMA SaveKeepsLists ==
  ASSUME SyslogListInv, NEW enabled \in SUBSET Protocols, NEW list \in Lists, Save(enabled, list)
  PROVE  SyslogListInv'
  <1> USE DEF SyslogListInv
  <1> DEFINE n == Len(saved)
  <1>1. saved \in Seq(Lists) /\ n \in Nat /\ readAt \in 1 .. n /\ allowAt \in 1 .. n
    BY DEF SyslogListsTyped
  <1>2. saved' = Append(saved, list) /\ UNCHANGED memory
    BY DEF Save
  <1>3. saved' \in Seq(Lists) /\ Len(saved') = n + 1 /\ saved'[n + 1] = list
    BY <1>1, <1>2
  <1>4. \A k \in 1 .. n : saved'[k] = saved[k]
    BY <1>1, <1>2
  <1>5. /\ config' \in [enabled : SUBSET Protocols, list : Lists,
                        lastHost : Sources \cup {NoHost} \cup {line.host : line \in Lines}]
        /\ config'.list = list
    BY DEF Save, SyslogListsTyped
  <1>6. saves' \in 0 .. MaxSaves
    BY SyslogAssumption DEF Save, SyslogListsTyped
  <1>7. SyslogListsTyped'
    BY <1>1, <1>2, <1>3, <1>5, <1>6 DEF Save, SyslogListsTyped, memory
  <1>8. ListsFollow'
    BY <1>1, <1>2, <1>3, <1>4, <1>5 DEF ListsFollow, memory
  <1>9. QED
    BY <1>7, <1>8

LEMMA RefreshKeepsLists ==
  ASSUME SyslogListInv, RefreshReads \/ RefreshWrites PROVE SyslogListInv'
  <1> USE DEF SyslogListInv
  <1>1. saved \in Seq(Lists) /\ Len(saved) \in 1 .. Len(saved)
    BY DEF SyslogListsTyped
  <1>2. Cardinality({}) = 0 /\ Cardinality({config.list}) = 1
    BY FS_EmptySet, FS_Singleton
  <1>3. CASE RefreshReads
    BY <1>1, <1>2, <1>3 DEF RefreshReads, SyslogListsTyped, ListsFollow, counters, history
  <1>4. CASE RefreshWrites
    <2>1. allow' = saved[readAt] /\ allowAt' = readAt /\ fetched' = {}
      BY <1>4 DEF RefreshWrites, Refreshed, ListsFollow, None
    <2>2. allow' \in Lists
      BY <1>4 DEF RefreshWrites, Refreshed, SyslogListsTyped
    <2>3. QED
      BY <1>2, <1>4, <2>1, <2>2 DEF RefreshWrites, SyslogListsTyped, ListsFollow, counters, history
  <1>5. QED
    BY <1>3, <1>4

LEMMA ServerKeepsLists ==
  ASSUME SyslogListInv, Start \/ Listen \/ ListenFails \/ ServerDies PROVE SyslogListInv'
  <1> USE DEF SyslogListInv
  <1>1. 1 \in 1 .. Len(saved)
    BY DEF SyslogListsTyped
  <1>2. Cardinality({}) = 0
    BY FS_EmptySet
  <1>3. CASE Start
    BY <1>1, <1>3, SyslogAssumption DEF Start, SyslogListsTyped, ListsFollow, counters, history
  <1>4. CASE Listen
    BY <1>4 DEF Listen, SyslogListsTyped, ListsFollow, memory, counters, history
  <1>5. CASE ListenFails
    BY <1>5 DEF ListenFails, SyslogListsTyped, ListsFollow, memory, counters, history
  <1>6. CASE ServerDies
    <2>1. failures' \in 0 .. MaxFailures
      BY <1>6, SyslogAssumption DEF ServerDies, Fails, SyslogListsTyped
    <2>2. QED
      BY <1>1, <1>2, <1>6, <2>1, SyslogAssumption
         DEF ServerDies, SyslogListsTyped, ListsFollow, None
  <1>7. QED
    BY <1>3, <1>4, <1>5, <1>6

(* A task changes the name of the last host, or counts a failure.          *)
LEMMA TaskKeepsLists ==
  ASSUME SyslogListInv, SyslogLinesTyped, NEW t \in tasks,
         Ingest(t) \/ InsertFails(t) \/ TouchLastMessageFails(t)
  PROVE  SyslogListInv'
  <1> USE DEF SyslogListInv
  <1>1. t.of.source \in Sources /\ t.of.line \in Lines
    BY DEF SyslogLinesTyped, Task, Message
  <1>2. Host(t.of) \in Sources \cup {NoHost} \cup {line.host : line \in Lines}
    BY <1>1 DEF Host
  <1>3. CASE Insert(t) \/ Alert(t)
    <2>1. UNCHANGED syslogListVars
      BY <1>3 DEF Insert, Alert, syslogListVars, counters, history
    <2>2. QED
      BY <2>1, ListsRest
  <1>4. CASE TouchLastMessage(t)
    BY <1>2, <1>4
       DEF TouchLastMessage, SyslogListsTyped, ListsFollow, memory, counters, history
  <1>5. CASE InsertFails(t) \/ TouchLastMessageFails(t)
    <2>1. failures' \in 0 .. MaxFailures
      BY <1>5, SyslogAssumption DEF InsertFails, TouchLastMessageFails, Fails, SyslogListsTyped
    <2>2. QED
      BY <1>5, <2>1
         DEF InsertFails, TouchLastMessageFails, SyslogListsTyped, ListsFollow, memory, history
  <1>6. QED
    BY <1>3, <1>4, <1>5 DEF Ingest

-----------------------------------------------------------------------------
(* Syslog: the lines.                                                      *)

LEMMA LinesRest == ASSUME SyslogLineInv, UNCHANGED syslogLineVars PROVE SyslogLineInv'
  BY DEF SyslogLineInv, SyslogLinesTyped, MessagesKnown, AlertsHaveRows, RowsAnswered,
     Answered, NothingVanishes, syslogLineVars

LEMMA TakesKeepsLines ==
  ASSUME SyslogLineInv, NEW source \in Sources, NEW conn \in 0 .. MaxConns, NEW line \in Lines,
         conn = 0 \/ (\A t \in tasks : t.of.conn # conn),
         Takes(source, conn, line)
  PROVE  SyslogLineInv'
  <1> USE DEF SyslogLineInv
  <1> DEFINE m == [id |-> made + 1, conn |-> conn, source |-> source, line |-> line]
             new == [of |-> m, at |-> "insert"]
  <1>1. made \in 0 .. MaxMessages /\ made' = made + 1 /\ made' \in 1 .. MaxMessages
    BY SyslogAssumption DEF Takes, SyslogLinesTyped
  <1>2. m \in Message /\ new \in Task /\ new.of = m /\ new.at = "insert" /\ m.id = made + 1
    BY <1>1 DEF Message, Task
  <1>3. tasks' = tasks \cup {new} /\ received' = received \cup {m}
    BY DEF Takes
  <1>4. UNCHANGED <<conns, rows, alerts, opened, lost>>
    BY DEF Takes
  <1>5. \A n \in received : n.id \in 1 .. made /\ n.id # m.id
    BY <1>1, <1>2 DEF MessagesKnown
  <1>6. \A t \in tasks : t.of \in received /\ t.of.id # m.id
    BY <1>5 DEF MessagesKnown
  <1> HIDE DEF m, new
  <1>7. MessagesKnown'
    <2>1. \A n \in received' : n.id \in 1 .. made'
      BY <1>1, <1>2, <1>3, <1>5
    <2>2. \A n, o \in received' : n.id = o.id => n = o
      BY <1>3, <1>5 DEF MessagesKnown
    <2>3. \A t \in tasks' : t.of \in received'
      BY <1>2, <1>3, <1>6
    <2>4. QED
      BY <2>1, <2>2, <2>3 DEF MessagesKnown
  <1>8. SyslogLinesTyped'
    <2>1. \A t, u \in tasks' : t.of.id = u.of.id => t = u
      BY <1>2, <1>3, <1>6 DEF SyslogLinesTyped
    <2>2. m.conn = conn
      BY DEF m
    <2>3. \A t, u \in tasks' : t.of.conn = u.of.conn /\ t.of.conn # 0 => t = u
      BY <1>2, <1>3, <2>2 DEF SyslogLinesTyped
    <2>4. QED
      BY <1>1, <1>2, <1>3, <1>4, <2>1, <2>3 DEF SyslogLinesTyped
  <1>9. AlertsHaveRows'
    BY <1>2, <1>3, <1>4 DEF AlertsHaveRows
  <1>10. \A row \in rows : Answered(row)'
    BY <1>3, <1>4 DEF RowsAnswered, Answered
  <1>11. NothingVanishes'
    <2>1. ASSUME NEW n \in received \ lost
          PROVE  \/ \E t \in tasks' : t.of.id = n.id /\ t.at # "touch"
                 \/ \E row \in rows : row.text = n.line.text /\ row.host = Host(n) /\ Answered(row)'
      BY <1>3, <1>10 DEF NothingVanishes
    <2>2. \E t \in tasks' : t.of.id = m.id /\ t.at # "touch"
      BY <1>2, <1>3
    <2>3. QED
      BY <1>3, <1>4, <2>1, <2>2 DEF NothingVanishes, Answered
  <1>12. QED
    BY <1>4, <1>7, <1>8, <1>9, <1>10, <1>11 DEF RowsAnswered

LEMMA NetworkKeepsLines == ASSUME SyslogLineInv, Network PROVE SyslogLineInv'
  <1> USE DEF SyslogLineInv
  <1>1. ASSUME NEW source \in Sources, NEW line \in Lines, Datagram(source, line)
        PROVE  SyslogLineInv'
    <2>1. 0 \in 0 .. MaxConns
      BY SyslogAssumption
    <2>2. QED
      BY <1>1, <2>1, TakesKeepsLines DEF Datagram
  <1>2. ASSUME NEW c \in conns, NEW line \in Lines, ReadLine(c, line) PROVE SyslogLineInv'
    <2>1. c.source \in Sources /\ c.id \in 0 .. MaxConns
      BY SyslogAssumption DEF SyslogLinesTyped
    <2>2. QED
      BY <1>2, <2>1, TakesKeepsLines DEF ReadLine, Reads
  <1>3. ASSUME NEW source \in Sources, Accept(source) PROVE SyslogLineInv'
    <2> DEFINE c == [id |-> opened + 1, source |-> source]
    <2>1. opened' = opened + 1 /\ opened' \in 0 .. MaxConns /\ opened \in Nat
      BY <1>3, SyslogAssumption DEF Accept, SyslogLinesTyped
    <2>2. conns' = conns \cup {c} /\ c \in [id : 1 .. opened', source : Sources] /\ c.id = opened + 1
      BY <1>3, <2>1 DEF Accept
    <2>3. \A d \in conns : d \in [id : 1 .. opened, source : Sources] /\ d.id # c.id
      BY <2>1, <2>2 DEF SyslogLinesTyped
    <2> HIDE DEF c
    <2>4. conns' \subseteq [id : 1 .. opened', source : Sources]
      BY <2>1, <2>2, <2>3
    <2>5. \A d, e \in conns' : d.id = e.id => d = e
      BY <2>2, <2>3 DEF SyslogLinesTyped
    <2>6. UNCHANGED <<tasks, rows, alerts, made, received, lost>>
      BY <1>3 DEF Accept, history
    <2>7. SyslogLinesTyped'
      BY <2>1, <2>4, <2>5, <2>6 DEF SyslogLinesTyped
    <2>8. QED
      BY <2>6, <2>7 DEF MessagesKnown, AlertsHaveRows, RowsAnswered, Answered, NothingVanishes
  <1>4. ASSUME NEW c \in conns, Closes(c) PROVE SyslogLineInv'
    <2>1. conns' \subseteq conns /\ UNCHANGED <<tasks, rows, alerts, made, opened, received, lost>>
      BY <1>4 DEF Closes, counters, history
    <2>2. SyslogLinesTyped'
      BY <2>1 DEF SyslogLinesTyped
    <2>3. QED
      BY <2>1, <2>2 DEF MessagesKnown, AlertsHaveRows, RowsAnswered, Answered, NothingVanishes
  <1>5. QED
    BY <1>1, <1>2, <1>3, <1>4 DEF Network

(* A task that goes on keeps its message.                                  *)
LEMMA BecomesTyped ==
  ASSUME SyslogLinesTyped, MessagesKnown, NEW t \in tasks,
         NEW at \in {"insert", "alert", "touch"}, Becomes(t, at)
  PROVE  \E u \in Task :
           /\ u.of = t.of /\ u.at = at /\ tasks' = (tasks \ {t}) \cup {u}
           /\ tasks' \subseteq Task
           /\ \A v, w \in tasks' : v.of.id = w.of.id => v = w
           /\ \A v, w \in tasks' : v.of.conn = w.of.conn /\ v.of.conn # 0 => v = w
           /\ \A v \in tasks' : v.of \in received
  <1> DEFINE u == [t EXCEPT !.at = at]
  <1>1. t \in Task
    BY DEF SyslogLinesTyped
  <1>2. u \in Task /\ u.of = t.of /\ u.at = at /\ tasks' = (tasks \ {t}) \cup {u}
    BY <1>1 DEF Task, Becomes
  <1> HIDE DEF u
  <1>3. QED
    BY <1>1, <1>2 DEF SyslogLinesTyped, MessagesKnown

LEMMA InsertKeepsLines == ASSUME SyslogLineInv, NEW t \in tasks, Insert(t) PROVE SyslogLineInv'
  <1> USE DEF SyslogLineInv
  <1>1. UNCHANGED <<conns, alerts, made, opened, received, lost>>
    BY DEF Insert, counters, history
  <1>2. t.at = "insert" /\ t.of \in received
    BY DEF Insert, MessagesKnown
  <1>3. CASE IsNew(t.of)
    <2>1. rows' = rows \cup {Row(t.of)} /\ Becomes(t, "alert")
      BY <1>3 DEF Insert
    <2>2. PICK u \in Task :
            /\ u.of = t.of /\ u.at = "alert" /\ tasks' = (tasks \ {t}) \cup {u}
            /\ tasks' \subseteq Task
            /\ \A v, w \in tasks' : v.of.id = w.of.id => v = w
            /\ \A v, w \in tasks' : v.of.conn = w.of.conn /\ v.of.conn # 0 => v = w
            /\ \A v \in tasks' : v.of \in received
      BY <2>1, BecomesTyped
    <2>3. SyslogLinesTyped'
      BY <1>1, <2>1, <2>2 DEF SyslogLinesTyped
    <2>4. MessagesKnown' /\ AlertsHaveRows'
      BY <1>1, <2>1, <2>2 DEF MessagesKnown, AlertsHaveRows
    <2>5. \A row \in rows : Answered(row)'
      BY <1>1, <1>2, <2>2 DEF RowsAnswered, Answered
    <2>6. Answered(Row(t.of))'
      BY <2>2 DEF Answered
    <2>7. RowsAnswered'
      BY <2>1, <2>5, <2>6 DEF RowsAnswered
    <2>8. NothingVanishes'
      BY <1>1, <2>1, <2>2, <2>5 DEF NothingVanishes, Answered
    <2>9. QED
      BY <2>3, <2>4, <2>7, <2>8
  <1>4. CASE ~ IsNew(t.of)
    <2>1. UNCHANGED rows /\ Becomes(t, "touch")
      BY <1>4 DEF Insert
    <2>2. PICK u \in Task :
            /\ u.of = t.of /\ u.at = "touch" /\ tasks' = (tasks \ {t}) \cup {u}
            /\ tasks' \subseteq Task
            /\ \A v, w \in tasks' : v.of.id = w.of.id => v = w
            /\ \A v, w \in tasks' : v.of.conn = w.of.conn /\ v.of.conn # 0 => v = w
            /\ \A v \in tasks' : v.of \in received
      BY <2>1, BecomesTyped
    <2>3. SyslogLinesTyped'
      BY <1>1, <2>1, <2>2 DEF SyslogLinesTyped
    <2>4. MessagesKnown' /\ AlertsHaveRows'
      BY <1>1, <2>1, <2>2 DEF MessagesKnown, AlertsHaveRows
    <2>5. \A row \in rows : Answered(row)'
      BY <1>1, <1>2, <2>2 DEF RowsAnswered, Answered
    <2>6. PICK row \in rows : row.text = t.of.line.text /\ row.host = Host(t.of)
      BY <1>4 DEF IsNew, Hash, Row
    <2>7. ASSUME NEW m \in received \ lost
          PROVE  \/ \E v \in tasks' : v.of.id = m.id /\ v.at # "touch"
                 \/ \E r \in rows : r.text = m.line.text /\ r.host = Host(m) /\ Answered(r)'
      <3>1. CASE m.id = t.of.id
        <4>1. m = t.of
          BY <1>2, <3>1 DEF MessagesKnown
        <4>2. QED
          BY <2>5, <2>6, <4>1
      <3>2. CASE m.id # t.of.id
        BY <2>2, <2>5, <3>2 DEF NothingVanishes, Answered
      <3>3. QED
        BY <3>1, <3>2
    <2>8. NothingVanishes'
      BY <1>1, <2>1, <2>7 DEF NothingVanishes, Answered
    <2>9. QED
      BY <2>1, <2>3, <2>4, <2>5, <2>8 DEF RowsAnswered
  <1>5. QED
    BY <1>3, <1>4

LEMMA InsertFailsKeepsLines ==
  ASSUME SyslogLineInv, NEW t \in tasks, InsertFails(t) PROVE SyslogLineInv'
  <1> USE DEF SyslogLineInv
  <1>1. UNCHANGED <<conns, rows, alerts, made, opened, received>> /\ lost' = lost \cup {t.of}
    BY DEF InsertFails
  <1>2. t.at = "insert" /\ t.of \in received /\ Becomes(t, "touch")
    BY DEF InsertFails, MessagesKnown
  <1>3. PICK u \in Task :
          /\ u.of = t.of /\ u.at = "touch" /\ tasks' = (tasks \ {t}) \cup {u}
          /\ tasks' \subseteq Task
          /\ \A v, w \in tasks' : v.of.id = w.of.id => v = w
          /\ \A v, w \in tasks' : v.of.conn = w.of.conn /\ v.of.conn # 0 => v = w
          /\ \A v \in tasks' : v.of \in received
    BY <1>2, BecomesTyped
  <1>4. SyslogLinesTyped'
    BY <1>1, <1>2, <1>3 DEF SyslogLinesTyped
  <1>5. MessagesKnown' /\ AlertsHaveRows'
    BY <1>1, <1>3 DEF MessagesKnown, AlertsHaveRows
  <1>6. \A row \in rows : Answered(row)'
    BY <1>1, <1>2, <1>3 DEF RowsAnswered, Answered
  <1>7. ASSUME NEW m \in received \ lost'
        PROVE  \/ \E v \in tasks' : v.of.id = m.id /\ v.at # "touch"
               \/ \E r \in rows : r.text = m.line.text /\ r.host = Host(m) /\ Answered(r)'
    <2>1. m \in received \ lost /\ m # t.of
      BY <1>1, <1>7
    <2>2. m.id # t.of.id
      BY <1>2, <2>1 DEF MessagesKnown
    <2>3. QED
      BY <1>3, <1>6, <2>1, <2>2 DEF NothingVanishes, Answered
  <1>8. NothingVanishes'
    BY <1>1, <1>7 DEF NothingVanishes, Answered
  <1>9. QED
    BY <1>1, <1>4, <1>5, <1>6, <1>8 DEF RowsAnswered

LEMMA AlertKeepsLines == ASSUME SyslogLineInv, NEW t \in tasks, Alert(t) PROVE SyslogLineInv'
  <1> USE DEF SyslogLineInv
  <1>1. UNCHANGED <<conns, rows, made, opened, received, lost>> /\ alerts' = alerts \cup {Row(t.of)}
    BY DEF Alert, counters, history
  <1>2. t.at = "alert" /\ t.of \in received /\ Row(t.of) \in rows /\ Becomes(t, "touch")
    BY DEF Alert, MessagesKnown, AlertsHaveRows
  <1>3. PICK u \in Task :
          /\ u.of = t.of /\ u.at = "touch" /\ tasks' = (tasks \ {t}) \cup {u}
          /\ tasks' \subseteq Task
          /\ \A v, w \in tasks' : v.of.id = w.of.id => v = w
          /\ \A v, w \in tasks' : v.of.conn = w.of.conn /\ v.of.conn # 0 => v = w
          /\ \A v \in tasks' : v.of \in received
    BY <1>2, BecomesTyped
  <1>4. SyslogLinesTyped'
    BY <1>1, <1>2, <1>3 DEF SyslogLinesTyped
  <1>5. MessagesKnown' /\ AlertsHaveRows'
    BY <1>1, <1>3 DEF MessagesKnown, AlertsHaveRows
  <1>6. \A row \in rows : Answered(row)'
    BY <1>1, <1>2, <1>3 DEF RowsAnswered, Answered
  <1>7. ASSUME NEW m \in received \ lost
        PROVE  \/ \E v \in tasks' : v.of.id = m.id /\ v.at # "touch"
               \/ \E r \in rows : r.text = m.line.text /\ r.host = Host(m) /\ Answered(r)'
    <2>1. CASE m.id = t.of.id
      <3>1. m = t.of
        BY <1>2, <2>1 DEF MessagesKnown
      <3>2. Row(m).text = m.line.text /\ Row(m).host = Host(m)
        BY DEF Row
      <3>3. QED
        BY <1>2, <1>6, <3>1, <3>2
    <2>2. CASE m.id # t.of.id
      BY <1>3, <1>6, <2>2 DEF NothingVanishes, Answered
    <2>3. QED
      BY <2>1, <2>2
  <1>8. NothingVanishes'
    BY <1>1, <1>7 DEF NothingVanishes, Answered
  <1>9. QED
    BY <1>1, <1>4, <1>5, <1>6, <1>8 DEF RowsAnswered

LEMMA TouchKeepsLines ==
  ASSUME SyslogLineInv, NEW t \in tasks, TouchLastMessage(t) \/ TouchLastMessageFails(t)
  PROVE  SyslogLineInv'
  <1> USE DEF SyslogLineInv
  <1>1. /\ UNCHANGED <<conns, rows, alerts, made, opened, received, lost>>
        /\ t.at = "touch" /\ tasks' = tasks \ {t}
    BY DEF TouchLastMessage, TouchLastMessageFails, counters, history
  <1>2. SyslogLinesTyped' /\ MessagesKnown' /\ AlertsHaveRows'
    BY <1>1 DEF SyslogLinesTyped, MessagesKnown, AlertsHaveRows
  <1>3. \A row \in rows : Answered(row)'
    BY <1>1 DEF RowsAnswered, Answered
  <1>4. NothingVanishes'
    BY <1>1, <1>3 DEF NothingVanishes, Answered
  <1>5. QED
    BY <1>1, <1>2, <1>3, <1>4 DEF RowsAnswered

(* A line whose task dies with the server is counted as lost.              *)
LEMMA DeathKeepsLines == ASSUME SyslogLineInv, ServerDies PROVE SyslogLineInv'
  <1> USE DEF SyslogLineInv
  <1>1. /\ UNCHANGED <<rows, alerts, made, opened, received>> /\ conns' = {} /\ tasks' = {}
        /\ lost' = lost \cup {t.of : t \in {u \in tasks : u.at # "touch"}}
    BY DEF ServerDies
  <1>2. \A t \in tasks : t.of \in received /\ (t.at # "touch" => t.of \in lost')
    BY <1>1 DEF MessagesKnown
  <1>3. SyslogLinesTyped'
    BY <1>1, <1>2 DEF SyslogLinesTyped
  <1>4. MessagesKnown' /\ AlertsHaveRows'
    BY <1>1 DEF MessagesKnown, AlertsHaveRows
  <1>5. \A row \in rows : Answered(row)'
    BY <1>1, <1>2 DEF RowsAnswered, Answered
  <1>6. ASSUME NEW m \in received \ lost'
        PROVE  \E r \in rows : r.text = m.line.text /\ r.host = Host(m) /\ Answered(r)'
    <2>1. m \in received \ lost
      BY <1>1, <1>6
    <2>2. ~ \E t \in tasks : t.of.id = m.id /\ t.at # "touch"
      BY <1>2, <1>6, <2>1 DEF MessagesKnown
    <2>3. QED
      BY <1>5, <2>1, <2>2 DEF NothingVanishes
  <1>7. NothingVanishes'
    BY <1>1, <1>6 DEF NothingVanishes, Answered
  <1>8. QED
    BY <1>1, <1>3, <1>4, <1>5, <1>7 DEF RowsAnswered

-----------------------------------------------------------------------------
(* Syslog: the theorems.                                                   *)

SyslogInv == SyslogListInv /\ SyslogLineInv

LEMMA SyslogStep == SyslogInv /\ [SyslogNext]_syslogVars => SyslogInv'
  <1> SUFFICES ASSUME SyslogInv, [SyslogNext]_syslogVars PROVE SyslogInv'
    OBVIOUS
  <1> USE DEF SyslogInv
  <1>1. ASSUME NEW enabled \in SUBSET Protocols, NEW list \in Lists, Save(enabled, list)
        PROVE  SyslogInv'
    <2>1. UNCHANGED syslogLineVars
      BY <1>1 DEF Save, syslogLineVars
    <2>2. QED
      BY <1>1, <2>1, SaveKeepsLists, LinesRest
  <1>2. CASE RefreshReads \/ RefreshWrites
    <2>1. UNCHANGED syslogLineVars
      BY <1>2 DEF RefreshReads, RefreshWrites, syslogLineVars, counters, history
    <2>2. QED
      BY <1>2, <2>1, RefreshKeepsLists, LinesRest
  <1>3. CASE Start \/ Listen \/ ListenFails
    <2>1. UNCHANGED syslogLineVars
      BY <1>3 DEF Start, Listen, ListenFails, syslogLineVars, counters, history
    <2>2. QED
      BY <1>3, <2>1, ServerKeepsLists, LinesRest
  <1>4. CASE ServerDies
    BY <1>4, ServerKeepsLists, DeathKeepsLines
  <1>5. CASE Network
    <2>1. UNCHANGED syslogListVars
      BY <1>5 DEF Network, Accept, Datagram, Closes, ReadLine, Takes, syslogListVars, counters, history
    <2>2. QED
      BY <1>5, <2>1, NetworkKeepsLines, ListsRest
  <1>6. ASSUME NEW t \in tasks, Ingest(t) \/ InsertFails(t) \/ TouchLastMessageFails(t)
        PROVE  SyslogInv'
    <2>1. SyslogListInv'
      BY <1>6, TaskKeepsLists DEF SyslogLineInv
    <2>2. SyslogLineInv'
      BY <1>6, InsertKeepsLines, InsertFailsKeepsLines, AlertKeepsLines, TouchKeepsLines DEF Ingest
    <2>3. QED
      BY <2>1, <2>2
  <1>7. CASE UNCHANGED syslogVars
    <2>1. UNCHANGED syslogListVars /\ UNCHANGED syslogLineVars
      BY <1>7 DEF syslogVars, syslogListVars, syslogLineVars, counters, history
    <2>2. QED
      BY <2>1, ListsRest, LinesRest
  <1>8. QED
    BY <1>1, <1>2, <1>3, <1>4, <1>5, <1>6, <1>7 DEF SyslogNext

LEMMA SyslogInvariant == SyslogSpec => []SyslogInv
  <1>1. SyslogInit => SyslogInv
    BY SyslogInitInv DEF SyslogInv
  <1>2. QED
    BY <1>1, SyslogStep, PTL DEF SyslogSpec

(* Every variable of the syslog receiver has its type, no message has two  *)
(* tasks, and a connection has one line under way at most.                 *)
THEOREM SyslogTypeCorrect == SyslogSpec => []SyslogTypeOK
  <1>1. SyslogInv => SyslogTypeOK
    BY SyslogTypeIsParts DEF SyslogInv, SyslogListInv, SyslogLineInv
  <1>2. QED
    BY <1>1, SyslogInvariant, PTL

(* ingest_syslog_message and the deduplication of insert_log, with any     *)
(* number of lines under way at once, failing statements and crashes: a    *)
(* line that was taken in is under way, or has an alerted row with its     *)
(* text and host, or was lost to a failure.                                *)
THEOREM NoLineVanishes == SyslogSpec => []NothingVanishes
  <1>1. SyslogInv => NothingVanishes
    BY DEF SyslogInv, SyslogLineInv
  <1>2. QED
    BY <1>1, SyslogInvariant, PTL

(* ip_allowed and the refresh of its list: for addresses of every width,   *)
(* the list lets in exactly what its prefixes cover, and no line and no    *)
(* connection is taken from a source that no list stored since the last    *)
(* refresh covers.                                                         *)
THEOREM OnlyListedSourcesAreHeard == SyslogSpec => ListIsObeyed
  <1> DEFINE Heard(source) ==
               (\E line \in Lines : Datagram(source, line)) \/ Accept(source)
             Obeyed ==
               /\ \A ip \in Address : IpAllowed(ip, allow') <=> Covered(ip, allow')
               /\ \A source \in Sources :
                    \/ \E line \in Lines : Datagram(source, line)
                    \/ Accept(source)
                    => \E k \in allowAt .. Len(saved) : Covered(source, saved[k])
  <1>1. SyslogInv /\ SyslogInv' => Obeyed
    <2> SUFFICES ASSUME SyslogInv, SyslogInv' PROVE Obeyed
      OBVIOUS
    <2>1. allow \in Lists /\ allow' \in Lists /\ allowAt \in allowAt .. Len(saved) /\ allow = saved[allowAt]
      BY DEF SyslogInv, SyslogListInv, SyslogListsTyped, ListsFollow
    <2>2. \A ip \in Address : IpAllowed(ip, allow') <=> Covered(ip, allow')
      BY <2>1, AllowedIsCovered
    <2>3. ASSUME NEW source \in Sources, Heard(source) PROVE Covered(source, saved[allowAt])
      <3>1. IpAllowed(source, allow)
        BY <2>3 DEF Datagram, Accept
      <3>2. QED
        BY <2>1, <3>1, SyslogAssumption, AllowedIsCovered
    <2>4. QED
      BY <2>1, <2>2, <2>3
  <1>2. SyslogInv /\ [SyslogNext]_syslogVars => [Obeyed]_syslogVars
    BY <1>1, SyslogStep
  <1>3. QED
    BY <1>2, SyslogInvariant, PTL DEF SyslogSpec, ListIsObeyed

-----------------------------------------------------------------------------
(* EventTime: the calendar.                                                *)

(* The day a year begins with, and the day of the year of a stamp.         *)
YearStart(year) == 365 * (year - 2000) + (year - 1997) \div 4
LeapDays(year) == IF IsLeap(year) THEN 1 ELSE 0
DayOfYear(year, stamp) ==
  DaysBefore[stamp.month] + (IF IsLeap(year) /\ stamp.month > 2 THEN 1 ELSE 0) + stamp.day - 1

LEMMA YearHasItsDays ==
  ASSUME NEW year \in Int PROVE YearStart(year + 1) = YearStart(year) + 365 + LeapDays(year)
  BY DEF YearStart, LeapDays, IsLeap

LEMMA YearsFollow ==
  ASSUME NEW y \in Int, NEW z \in Int, y < z PROVE YearStart(y + 1) <= YearStart(z)
  BY DEF YearStart

LEMMA MonthTable ==
  /\ DaysBefore[1] = 0 /\ DaysBefore[2] = 31 /\ DaysBefore[3] = 59 /\ DaysBefore[4] = 90
  /\ DaysBefore[5] = 120 /\ DaysBefore[6] = 151 /\ DaysBefore[7] = 181 /\ DaysBefore[8] = 212
  /\ DaysBefore[9] = 243 /\ DaysBefore[10] = 273 /\ DaysBefore[11] = 304
  /\ DaysBefore[12] = 334 /\ DaysBefore[13] = 365
  BY DEF DaysBefore

LEMMA DaysInAreNumbers ==
  ASSUME NEW year \in Int, NEW month \in 1 .. 12
  PROVE  /\ DaysIn(year, month) \in 28 .. 31 /\ DaysBefore[month] \in 0 .. 334
         /\ month = 2 => DaysIn(year, month) = 28 + LeapDays(year) /\ DaysBefore[month] = 31
         /\ month = 1 => DaysIn(year, month) = 31 /\ DaysBefore[month] = 0
         /\ month > 2 => DaysBefore[month] + DaysIn(year, month) <= 365
  <1> USE MonthTable DEF DaysIn, LeapDays
  <1>1. CASE month = 1
    BY <1>1
  <1>2. CASE month = 2
    BY <1>2
  <1>3. CASE month = 3
    BY <1>3
  <1>4. CASE month = 4
    BY <1>4
  <1>5. CASE month = 5
    BY <1>5
  <1>6. CASE month = 6
    BY <1>6
  <1>7. CASE month = 7
    BY <1>7
  <1>8. CASE month = 8
    BY <1>8
  <1>9. CASE month = 9
    BY <1>9
  <1>10. CASE month = 10
    BY <1>10
  <1>11. CASE month = 11
    BY <1>11
  <1>12. CASE month = 12
    BY <1>12
  <1>13. QED
    BY <1>1, <1>2, <1>3, <1>4, <1>5, <1>6, <1>7, <1>8, <1>9, <1>10, <1>11, <1>12

LEMMA DayInItsYear ==
  ASSUME NEW year \in Int, NEW stamp \in Stamp, stamp.day <= DaysIn(year, stamp.month)
  PROVE  DayOfYear(year, stamp) \in 0 .. 364 + LeapDays(year)
  <1>1. stamp.month \in 1 .. 12 /\ stamp.day \in 1 .. 31
    BY DEF Stamp
  <1>2. DaysBefore[stamp.month] \in 0 .. 334 /\ DaysIn(year, stamp.month) \in 28 .. 31
    BY <1>1, DaysInAreNumbers
  <1>3. CASE stamp.month = 1
    BY <1>1, <1>3, DaysInAreNumbers DEF DayOfYear, LeapDays
  <1>4. CASE stamp.month = 2
    BY <1>1, <1>4, DaysInAreNumbers DEF DayOfYear, LeapDays
  <1>5. CASE stamp.month > 2
    <2>1. DaysBefore[stamp.month] + DaysIn(year, stamp.month) <= 365
      BY <1>1, <1>5, DaysInAreNumbers
    <2>2. DayOfYear(year, stamp) = DaysBefore[stamp.month] + LeapDays(year) + stamp.day - 1
      BY <1>5 DEF DayOfYear, LeapDays
    <2> DEFINE leap == LeapDays(year)
               before == DaysBefore[stamp.month]
               days == DaysIn(year, stamp.month)
    <2>3. leap \in 0 .. 1
      BY DEF LeapDays
    <2>4. before \in 0 .. 334 /\ days \in 28 .. 31 /\ before + days <= 365 /\ stamp.day <= days
      BY <1>2, <2>1
    <2>5. DayOfYear(year, stamp) = before + leap + stamp.day - 1
      BY <2>2
    <2> HIDE DEF leap, before, days
    <2>6. DayOfYear(year, stamp) \in 0 .. 364 + leap
      BY <1>1, <2>3, <2>4, <2>5
    <2>7. QED
      BY <2>6 DEF leap
  <1>6. QED
    BY <1>1, <1>3, <1>4, <1>5

(* A day that only some years have is the 29th of February.                *)
LEMMA OnlyLeapDayVaries ==
  ASSUME NEW y \in Int, NEW z \in Int, NEW stamp \in Stamp,
         stamp.day > DaysIn(y, stamp.month), stamp.day <= DaysIn(z, stamp.month)
  PROVE  stamp.month = 2 /\ stamp.day = 29
  <1>1. stamp.month \in 1 .. 12 /\ stamp.day \in 1 .. 31
    BY DEF Stamp
  <1>2. CASE stamp.month = 2
    BY <1>1, <1>2, DaysInAreNumbers DEF LeapDays
  <1>3. CASE stamp.month # 2
    <2>1. DaysIn(y, stamp.month) = DaysIn(z, stamp.month) /\ DaysIn(y, stamp.month) \in Int
      BY <1>1, <1>3, DaysInAreNumbers DEF DaysIn
    <2>2. QED
      BY <1>1, <2>1
  <1>4. QED
    BY <1>2, <1>3

LEMMA DaysBeforeHours ==
  ASSUME NEW m \in Int, NEW n \in Int, m <= n PROVE m * TICKS <= n * TICKS
  BY EventTimeAssumption

LEMMA InstantOfDay ==
  ASSUME NEW year \in Int, NEW stamp \in Stamp
  PROVE  Instant(year, stamp) = (YearStart(year) + DayOfYear(year, stamp)) * TICKS + stamp.tick
  <1>1. stamp.month \in 1 .. 12 /\ stamp.day \in 1 .. 31
    BY DEF Stamp
  <1> DEFINE months == DaysBefore[stamp.month] + (IF IsLeap(year) /\ stamp.month > 2 THEN 1 ELSE 0)
  <1>2. months \in Int /\ YearStart(year) \in Int
    <2>1. DaysBefore[stamp.month] \in 0 .. 334
      BY <1>1, DaysInAreNumbers
    <2>2. (IF IsLeap(year) /\ stamp.month > 2 THEN 1 ELSE 0) \in 0 .. 1
      OBVIOUS
    <2>3. QED
      BY <2>1, <2>2 DEF YearStart
  <1>3. Instant(year, stamp) = (YearStart(year) + months + stamp.day - 1) * TICKS + stamp.tick
    BY DEF Instant, YearStart
  <1>4. DayOfYear(year, stamp) = months + stamp.day - 1
    BY DEF DayOfYear
  <1> HIDE DEF months
  <1>5. YearStart(year) + months + stamp.day - 1 = YearStart(year) + DayOfYear(year, stamp)
    BY <1>1, <1>2, <1>4
  <1>6. QED
    BY <1>3, <1>5

(* A stamp is within the year it is read in.                               *)
LEMMA BuildIsInYear ==
  ASSUME NEW year \in Int, NEW stamp \in Stamp, NEW t \in Build(year, stamp)
  PROVE  /\ t = Instant(year, stamp) /\ t \in Int
         /\ YearStart(year) * TICKS <= t /\ t < YearStart(year + 1) * TICKS
  <1> DEFINE day == YearStart(year) + DayOfYear(year, stamp)
             first == YearStart(year)
             next == YearStart(year + 1)
  <1>1. stamp.day <= DaysIn(year, stamp.month) /\ t = Instant(year, stamp)
    BY DEF Build
  <1>2. first \in Int /\ next \in Int
    BY DEF YearStart
  <1>3. first <= day /\ day + 1 <= next /\ day \in Int
    BY <1>1, <1>2, DayInItsYear, YearHasItsDays DEF LeapDays
  <1>4. t = day * TICKS + stamp.tick
    BY <1>1, InstantOfDay
  <1>5. stamp.tick \in 0 .. TICKS - 1 /\ TICKS \in Nat
    BY EventTimeAssumption DEF Stamp
  <1> HIDE DEF day, first, next
  <1>6. first * TICKS <= day * TICKS /\ (day + 1) * TICKS <= next * TICKS
    BY <1>2, <1>3, DaysBeforeHours
  <1>7. (day + 1) * TICKS = day * TICKS + TICKS /\ day * TICKS \in Int
        /\ first * TICKS \in Int /\ next * TICKS \in Int
    BY <1>2, <1>3, <1>5
  <1>8. t \in Int /\ first * TICKS <= t /\ t < next * TICKS
    BY <1>4, <1>5, <1>6, <1>7
  <1>9. QED
    BY <1>1, <1>8 DEF first, next

LEMMA BuildsAreOrdered ==
  ASSUME NEW y \in Int, NEW z \in Int, y < z, NEW r \in Stamp, NEW s \in Stamp,
         NEW t \in Build(y, r), NEW u \in Build(z, s)
  PROVE  t < u
  <1>1. YearStart(y + 1) \in Int /\ YearStart(z) \in Int
    BY DEF YearStart
  <1>2. YearStart(y + 1) * TICKS <= YearStart(z) * TICKS
    BY <1>1, YearsFollow, DaysBeforeHours
  <1>3. YearStart(y + 1) * TICKS \in Int /\ YearStart(z) * TICKS \in Int
    BY <1>1, EventTimeAssumption
  <1>4. t \in Int /\ u \in Int /\ t < YearStart(y + 1) * TICKS /\ YearStart(z) * TICKS <= u
    BY BuildIsInYear
  <1>5. QED
    BY <1>2, <1>3, <1>4

LEMMA BuildIsNotBefore2000 ==
  ASSUME NEW year \in Int, year >= 2000, NEW stamp \in Stamp, NEW t \in Build(year, stamp)
  PROVE  t >= 0
  <1>1. YearStart(year) \in Int /\ 0 <= YearStart(year)
    BY DEF YearStart
  <1>2. 0 * TICKS <= YearStart(year) * TICKS /\ YearStart(year) * TICKS \in Int
    BY <1>1, DaysBeforeHours, EventTimeAssumption
  <1>3. 0 * TICKS = 0
    BY EventTimeAssumption
  <1>4. QED
    BY <1>2, <1>3, BuildIsInYear

-----------------------------------------------------------------------------
(* EventTime: the year of a stamp.                                         *)

LEMMA YearOfStamp ==
  ASSUME NEW year \in 2001 .. 2098, NEW at \in Stamp, NEW stamp \in Stamp,
         NEW clock \in Build(year, at)
  PROVE  YearGuessed(stamp, year, clock)
  <1> DEFINE got == SanitizeEventTime(ExtractBsdSyslogTime(stamp, year, clock), clock)
             Exceptional(t) ==
               \/ got = {t}
               \/ got = {} /\ stamp.month = 2 /\ stamp.day = 29 /\ t \notin Build(year, stamp)
               \/ got = Build(year, stamp) /\ t \in Build(year + 1, stamp)
  <1>1. year \in Int /\ year - 1 \in Int /\ year + 1 \in Int /\ year - 1 >= 2000
    OBVIOUS
  <1>2. clock \in Int /\ TICKS \in Nat
    BY <1>1, BuildIsInYear, EventTimeAssumption
  <1>3. ASSUME NEW t \in Meant(stamp, year, clock),
               \A u \in Meant(stamp, year, clock) : u <= t
        PROVE  Exceptional(t)
    <2>1. PICK y \in year - 8 .. year + 1 : t \in Build(y, stamp)
      BY <1>3 DEF Meant
    <2>2. y \in Int /\ t \in Int /\ t <= clock + TICKS
      BY <1>1, <1>3, <2>1, BuildIsInYear DEF Meant
    <2>3. \A z \in year - 8 .. year + 1 : \A u \in Build(z, stamp) :
             u <= clock + TICKS => u <= t
      BY <1>3 DEF Meant
    <2>4. CASE \E u \in Build(year, stamp) : u <= clock + TICKS
      <3>1. PICK u \in Build(year, stamp) : u <= clock + TICKS
        BY <2>4
      <3>2. Build(year, stamp) = {u} /\ u \in Int /\ u >= 0
        BY <1>1, <3>1, BuildIsInYear, BuildIsNotBefore2000 DEF Build
      <3>3. got = {u}
        BY <1>2, <3>1, <3>2 DEF SanitizeEventTime, ExtractBsdSyslogTime, Limit
      <3>4. u <= t
        BY <1>1, <2>3, <3>1
      <3>5. CASE y < year
        BY <1>1, <2>1, <2>2, <3>1, <3>2, <3>4, <3>5, BuildsAreOrdered
      <3>6. CASE y = year
        BY <2>1, <3>2, <3>3, <3>6
      <3>7. CASE y = year + 1
        BY <2>1, <3>2, <3>3, <3>7
      <3>8. QED
        BY <2>2, <3>5, <3>6, <3>7, <2>1
    <2>5. CASE ~ (\E u \in Build(year, stamp) : u <= clock + TICKS) /\ Build(year, stamp) # {}
      <3>1. PICK u \in Build(year, stamp) : u > clock + TICKS
        <4>1. PICK u \in Build(year, stamp) : ~ u <= clock + TICKS
          BY <2>5
        <4>2. u \in Int
          BY <1>1, BuildIsInYear
        <4>3. QED
          BY <1>2, <4>1, <4>2
      <3>2. ExtractBsdSyslogTime(stamp, year, clock) = Build(year - 1, stamp)
        BY <3>1 DEF ExtractBsdSyslogTime, Limit
      <3>3. t \notin Build(year, stamp)
        BY <2>2, <2>5
      <3>4. y # year
        BY <2>1, <3>3
      <3>5. ~ y > year
        BY <1>1, <1>2, <2>1, <2>2, <3>1, BuildIsInYear, BuildsAreOrdered
      <3>6. y <= year - 1
        BY <1>1, <2>2, <3>4, <3>5
      <3>7. CASE Build(year - 1, stamp) = {}
        <4>1. stamp.day > DaysIn(year - 1, stamp.month) /\ stamp.day <= DaysIn(y, stamp.month)
          <5>1. stamp.day <= DaysIn(y, stamp.month)
            BY <2>1 DEF Build
          <5>2. ~ stamp.day <= DaysIn(year - 1, stamp.month)
            BY <3>7 DEF Build
          <5>3. stamp.day \in Int /\ stamp.month \in 1 .. 12
            BY DEF Stamp
          <5>4. DaysIn(year - 1, stamp.month) \in Int
            BY <1>1, <5>3, DaysInAreNumbers
          <5>5. QED
            BY <5>1, <5>2, <5>3, <5>4
        <4>2. stamp.month = 2 /\ stamp.day = 29
          BY <1>1, <2>2, <4>1, OnlyLeapDayVaries
        <4>3. got = {}
          BY <3>2, <3>7 DEF SanitizeEventTime
        <4>4. QED
          BY <3>3, <4>2, <4>3
      <3>8. CASE Build(year - 1, stamp) # {}
        <4>1. PICK v \in Build(year - 1, stamp) : TRUE
          BY <3>8
        <4>2. Build(year - 1, stamp) = {v} /\ v \in Int /\ v >= 0
          BY <1>1, <4>1, BuildIsInYear, BuildIsNotBefore2000 DEF Build
        <4>3. v < clock
          BY <1>1, <4>1, BuildsAreOrdered
        <4>4. v <= clock + TICKS
          BY <1>2, <4>2, <4>3
        <4>5. got = {v}
          BY <3>2, <4>2, <4>4 DEF SanitizeEventTime
        <4>6. v <= t
          BY <1>1, <2>3, <4>1, <4>4
        <4>7. ~ y < year - 1
          BY <1>1, <2>1, <2>2, <4>1, <4>2, <4>6, BuildsAreOrdered
        <4>8. y = year - 1
          BY <1>1, <2>2, <3>6, <4>7
        <4>9. QED
          BY <2>1, <4>2, <4>5, <4>8
      <3>9. QED
        BY <3>7, <3>8
    <2>6. CASE Build(year, stamp) = {}
      <3>1. got = {} /\ t \notin Build(year, stamp)
        BY <2>6 DEF SanitizeEventTime, ExtractBsdSyslogTime
      <3>2. stamp.day > DaysIn(year, stamp.month) /\ stamp.day <= DaysIn(y, stamp.month)
        <4>1. stamp.day <= DaysIn(y, stamp.month)
          BY <2>1 DEF Build
        <4>2. ~ stamp.day <= DaysIn(year, stamp.month)
          BY <2>6 DEF Build
        <4>3. stamp.day \in Int /\ stamp.month \in 1 .. 12
          BY DEF Stamp
        <4>4. DaysIn(year, stamp.month) \in Int
          BY <1>1, <4>3, DaysInAreNumbers
        <4>5. QED
          BY <4>1, <4>2, <4>3, <4>4
      <3>3. QED
        BY <1>1, <2>2, <3>1, <3>2, OnlyLeapDayVaries
    <2>7. QED
      BY <2>4, <2>5, <2>6
  <1>4. QED
    BY <1>3 DEF YearGuessed

LEMMA YearsGuessed == EveryYearGuessed
  BY EventTimeAssumption, YearOfStamp DEF EveryYearGuessed

(* extract_bsd_syslog_time and sanitize_event_time: the year of a stamp is *)
(* guessed right, with the exceptions YearGuessed names, for any length of *)
(* a tick and any clock between 2001 and 2098.                             *)
THEOREM YearsAreRight == SyslogSpec => []YearIsRight
  <1>1. YearIsRight
    BY YearsGuessed DEF YearIsRight
  <1>2. QED
    BY <1>1, PTL
=============================================================================
