-------------------------------- MODULE Agents --------------------------------
(***************************************************************************)
(* The life of an agent on the server: registration, the check-in that     *)
(* every authenticated request makes (AgentAuth), deletion, and the        *)
(* five-minute sweep that alerts on agents gone dark.                      *)
(*                                                                         *)
(* Every SQL statement is one step.  An agent is its id, which             *)
(* AUTO_INCREMENT never gives out twice.  Time is counted in a unit that   *)
(* all thresholds are multiples of.                                        *)
(***************************************************************************)
EXTENDS Integers

CONSTANTS
  Thresholds,  \* choices of stale_agent_minutes
  MaxAgents,   \* bound: agents ever registered
  MaxTime,     \* bound: time that passes
  MaxFaults    \* bound: crashes and failing statements

(* update_settings refuses a threshold below five minutes.                 *)
ASSUME AgentsAssumption ==
  /\ Thresholds \subseteq Nat \ {0} /\ Thresholds # {}
  /\ MaxAgents \in Nat /\ MaxTime \in Nat /\ MaxFaults \in Nat

AgentIds == 1 .. MaxAgents
Never == -1      \* last_seen IS NULL

VARIABLES
  now,
  threshold,   \* settings.stale_agent_minutes
  agents,      \* the rows of agents
  nextId,
  lastSeen, alertSent,   \* their columns last_seen and stale_alert_sent
  checking,    \* agents with a request between get_agent_by_key and the UPDATE
  \* the sweep
  spc,         \* "sleep", "find", "alert" or "mark"
  limit,       \* the threshold it read
  found,       \* the rows [id, seen] it still has to deal with
  target,      \* the row it is dealing with
  \* history, read by properties only: a dark episode is an agent and its last_seen
  alerted,     \* alerted[a]: the last episode of a that was alerted on
  muted,       \* the last one whose alert trigger_alert could not hand on
  unmarked,    \* the last one whose alert the sweep could not note down
  overtaken,   \* agents whose last check-in came while the sweep had them found
  faults

NoRow == [id |-> 0, seen |-> Never]

agentVars == <<agents, nextId, lastSeen, alertSent, overtaken>>
sweepVars == <<spc, limit, found, target>>
alertVars == <<alerted, unmarked, muted>>
vars == <<now, threshold, agents, nextId, lastSeen, alertSent, checking,
          spc, limit, found, target, alerted, muted, unmarked, overtaken, faults>>

Init ==
  /\ now = 0 /\ threshold \in Thresholds
  /\ agents = {} /\ nextId = 1 /\ checking = {} /\ overtaken = {}
  /\ lastSeen = [a \in AgentIds |-> Never]
  /\ alertSent = [a \in AgentIds |-> FALSE]
  /\ spc = "sleep" /\ limit = 0 /\ found = {} /\ target = NoRow
  /\ alerted = [a \in AgentIds |-> Never]
  /\ unmarked = [a \in AgentIds |-> Never] /\ muted = [a \in AgentIds |-> Never]
  /\ faults = 0

Fault == faults < MaxFaults /\ faults' = faults + 1

Tick ==
  /\ now < MaxTime /\ now' = now + 1
  /\ UNCHANGED <<threshold, agentVars, checking, sweepVars, alertVars, faults>>

UpdateSettings ==
  /\ threshold' \in Thresholds \ {threshold}
  /\ UNCHANGED <<now, agentVars, checking, sweepVars, alertVars, faults>>

(* create_agent, for register_agent and self_register_agent: a row that    *)
(* has never checked in.                                                   *)
CreateAgent ==
  /\ nextId \in AgentIds /\ nextId' = nextId + 1
  /\ agents' = agents \cup {nextId}
  /\ UNCHANGED <<now, threshold, lastSeen, alertSent, overtaken, checking,
                 sweepVars, alertVars, faults>>

-----------------------------------------------------------------------------
(* Check-in and deletion.                                                  *)

(* get_agent_by_key finds the row.                                         *)
Authenticate(a) ==
  /\ a \in agents \ checking
  /\ checking' = checking \cup {a}
  /\ UNCHANGED <<now, threshold, agentVars, sweepVars, alertVars, faults>>

BugClearedBy(a) == alertSent
ClearedBy(a) == [alertSent EXCEPT ![a] = FALSE]

(* The sweep is past its query and not yet done with the row of a.         *)
InSweep(a) == \E row \in found \cup {target} : row.id = a

(* touch_agent_last_seen: no row is updated when the agent is gone.        *)
Touch(a) ==
  /\ a \in checking /\ checking' = checking \ {a}
  /\ IF a \in agents
     THEN /\ lastSeen' = [lastSeen EXCEPT ![a] = now]
          /\ alertSent' = ClearedBy(a)
          /\ overtaken' = IF InSweep(a) THEN overtaken \cup {a} ELSE overtaken \ {a}
     ELSE UNCHANGED <<lastSeen, alertSent, overtaken>>
  /\ UNCHANGED <<now, threshold, agents, nextId, sweepVars, alertVars,
                 faults>>

(* The UPDATE fails, which AgentAuth ignores.                              *)
TouchFails(a) ==
  /\ a \in checking /\ checking' = checking \ {a} /\ Fault
  /\ UNCHANGED <<now, threshold, agentVars, sweepVars, alertVars>>

(* The row goes, after its watched paths.                                  *)
DeleteAgent(a) ==
  /\ a \in agents /\ agents' = agents \ {a}
  /\ lastSeen' = [lastSeen EXCEPT ![a] = Never]
  /\ alertSent' = [alertSent EXCEPT ![a] = FALSE]
  /\ overtaken' = overtaken \ {a}
  /\ UNCHANGED <<now, threshold, nextId, checking, sweepVars, alertVars, faults>>

-----------------------------------------------------------------------------
(* The sweep.                                                              *)

Dark(a, minutes) == lastSeen[a] # Never /\ lastSeen[a] < now - minutes

SweepBegins ==
  /\ spc = "sleep" /\ spc' = "find" /\ limit' = threshold
  /\ UNCHANGED <<now, threshold, agentVars, checking, found, target,
                 alertVars, faults>>

BugNewlyStale(a) == Dark(a, limit)
NewlyStale(a) == Dark(a, limit) /\ ~ alertSent[a]


(* The loop takes up the next of rows, or sleeps again.                    *)
Proceed(rows) ==
  \/ /\ rows = {} /\ spc' = "sleep" /\ limit' = 0
     /\ found' = {} /\ target' = NoRow
  \/ \E row \in rows :
       /\ spc' = "alert" /\ target' = row /\ found' = rows \ {row}
       /\ UNCHANGED limit

SweepFinds ==
  /\ spc = "find"
  /\ Proceed({[id |-> a, seen |-> lastSeen[a]] : a \in {b \in agents : NewlyStale(b)}})
  /\ UNCHANGED <<now, threshold, agentVars, checking, alertVars, faults>>

(* trigger_alert; it keeps a failure to itself.                            *)
SweepAlerts ==
  /\ spc = "alert" /\ spc' = "mark"
  /\ alerted' = [alerted EXCEPT ![target.id] = target.seen]
  /\ UNCHANGED <<now, threshold, agentVars, checking, limit, found,
                 target, unmarked, muted, faults>>

AlertLost ==
  /\ spc = "alert" /\ spc' = "mark" /\ Fault
  /\ muted' = [muted EXCEPT ![target.id] = target.seen]
  /\ UNCHANGED <<now, threshold, agentVars, checking, limit, found,
                 target, alerted, unmarked>>

(* mark_agent_stale_alerted, by id alone.                                  *)
SweepMarks ==
  /\ spc = "mark" /\ Proceed(found)
  /\ alertSent' = IF target.id \in agents
                  THEN [alertSent EXCEPT ![target.id] = TRUE] ELSE alertSent
  /\ UNCHANGED <<now, threshold, agents, nextId, lastSeen, overtaken, checking,
                 alertVars, faults>>

MarkFails ==
  /\ spc = "mark" /\ Proceed(found) /\ Fault
  /\ unmarked' = [unmarked EXCEPT ![target.id] = target.seen]
  /\ UNCHANGED <<now, threshold, agentVars, checking, alerted, muted>>

SweepFails ==
  /\ spc = "find" /\ Proceed({}) /\ Fault
  /\ UNCHANGED <<now, threshold, agentVars, checking, alertVars>>

(* The server dies and starts again.                                       *)
Crash ==
  /\ spc # "sleep" \/ checking # {}
  /\ Proceed({}) /\ Fault
  /\ checking' = {}
  /\ unmarked' = IF spc = "mark" THEN [unmarked EXCEPT ![target.id] = target.seen]
                 ELSE unmarked
  /\ UNCHANGED <<now, threshold, agentVars, alerted, muted>>

Sweep == SweepBegins \/ SweepFinds \/ SweepAlerts \/ SweepMarks

Request ==
  \/ CreateAgent \/ UpdateSettings
  \/ \E a \in AgentIds : Authenticate(a) \/ Touch(a) \/ TouchFails(a) \/ DeleteAgent(a)

Next == Tick \/ Request \/ Sweep \/ AlertLost \/ MarkFails \/ SweepFails \/ Crash

Spec == Init /\ [][Next]_vars

(* The sweep's task is polled as long as the server runs.                  *)
FairSpec == Spec /\ WF_vars(Sweep)

-----------------------------------------------------------------------------
(* Properties.                                                             *)

Times == 0 .. MaxTime
Episode == [id : AgentIds, seen : Times]
Moments == [AgentIds -> Times \cup {Never}]

(* Every variable has its type; the sweep deals with each row it found     *)
(* once.                                                                   *)
TypeOK ==
  /\ now \in Times /\ threshold \in Thresholds
  /\ nextId \in 1 .. MaxAgents + 1 /\ agents \subseteq 1 .. nextId - 1
  /\ lastSeen \in Moments /\ alertSent \in [AgentIds -> BOOLEAN]
  /\ \A a \in AgentIds \ agents : lastSeen[a] = Never /\ ~ alertSent[a]
  /\ checking \subseteq 1 .. nextId - 1
  /\ spc \in {"sleep", "find", "alert", "mark"} /\ limit \in Thresholds \cup {0}
  /\ found \subseteq Episode /\ target \in Episode \cup {NoRow}
  /\ spc \in {"alert", "mark"} <=> target # NoRow
  /\ \A row, other \in found \cup {target} : row.id = other.id => row = other
  /\ target \notin found
  /\ alerted \in Moments /\ unmarked \in Moments /\ muted \in Moments
  /\ overtaken \subseteq agents
  /\ faults \in 0 .. MaxFaults

(* Where stale_alert_sent is set, the present dark episode of the agent    *)
(* was alerted on, or its alert was lost to a failure, or the agent        *)
(* checked in between the sweep's query and its UPDATE.  (In the last case *)
(* the flag is wrong: see RelapsedAgentsAlert.)                            *)
FlagHasCause ==
  \A a \in agents :
    alertSent[a] => lastSeen[a] \in {alerted[a], muted[a]} \/ a \in overtaken

(* One alert per episode: what was alerted on is alerted on again only if  *)
(* the sweep could not note the first alert down.                          *)
OneAlertPerEpisode ==
  [][spc = "alert" /\ spc' = "mark" /\ target.seen = alerted[target.id]
     => target.seen = unmarked[target.id]]_vars

AlertedOn(a) == lastSeen[a] \in {alerted[a], muted[a]}

(* An agent that stays dark is alerted on in the end, through crashes and  *)
(* failing statements and whatever other agents do, unless its last        *)
(* check-in overtook the sweep, of which RelapsedAgentsAlert speaks.       *)
DarkAgentsAlert ==
  \A a \in AgentIds :
    (a \in agents /\ Dark(a, threshold)) ~>
      (a \notin agents \/ ~ Dark(a, threshold) \/ AlertedOn(a) \/ a \in overtaken)

(* db.rs:905-909, 983-985, ARCHITECTURE.md:172-176: stale_alert_sent is    *)
(* "cleared on the agent's next check-in, so a recovered-then-relapsed     *)
(* agent alerts again": every agent that stays dark is alerted on in the   *)
(* end, whenever its last check-in was.                                    *)
RelapsedAgentsAlert ==
  \A a \in AgentIds :
    (a \in agents /\ Dark(a, threshold)) ~>
      (a \notin agents \/ ~ Dark(a, threshold) \/ AlertedOn(a))
=============================================================================
