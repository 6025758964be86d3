-------------------------------- MODULE Shipper --------------------------------
(***************************************************************************)
(* The configuration of one agent and the shipper that follows it: the     *)
(* administrator changes watched_paths and agents.telemetry_enabled, the   *)
(* server answers GET /agents/config, and every 30 seconds the shipper     *)
(* starts and stops watch tasks and the telemetry sensor accordingly.      *)
(* What the sensor's kernel programs make of an event is in EventSlot.     *)
(***************************************************************************)
EXTENDS Telemetry, EventSlot

CONSTANTS
  Paths,
  MaxRows,      \* bound: rows of watched_paths
  MaxChanges    \* bound: changes the administrator makes

ASSUME ShipperAssumption == MaxRows \in Nat /\ MaxChanges \in Nat /\ Paths # {}

PathRow == [id : 1 .. MaxRows, path : Paths, enabled : BOOLEAN]

VARIABLES
  pathRows, lastRow,   \* watched_paths of the agent, and its AUTO_INCREMENT
  allowed,      \* agents.telemetry_enabled
  deleting,     \* delete_agent is between its two statements
  changes,
  pc,           \* the shipper's loop: "off", "idle", or where its request is:
                \* "asking", "paths", "flag" or "answered"
  booted,       \* it has its hostname and has entered the loop
  answer,       \* [paths, telemetry], the answer as far as it is read
  watched       \* the keys of the table of watch tasks

configVars == <<pathRows, lastRow, allowed, deleting, changes>>
loopVars == <<pc, booted, answer, watched>>
vars == <<agent, telemetryVars, faults, configVars, loopVars>>

NoAnswer == [paths |-> {}, telemetry |-> FALSE]

EnabledPaths == {row.path : row \in {w \in pathRows : w.enabled}}

Init ==
  /\ agent = TRUE /\ faults = 0 /\ TelemetryInit
  /\ pathRows = {} /\ lastRow = 0 /\ allowed = FALSE /\ deleting = FALSE /\ changes = 0
  /\ pc = "off" /\ booted = FALSE /\ answer = NoAnswer /\ watched = {}

-----------------------------------------------------------------------------
(* The administrator.                                                      *)

Changes ==
  /\ changes < MaxChanges /\ changes' = changes + 1
  /\ UNCHANGED <<telemetryVars, faults, loopVars>>

(* INSERT: the foreign key wants the agent; a path may be added twice.     *)
AddPath(path) ==
  /\ Changes /\ agent /\ lastRow < MaxRows
  /\ lastRow' = lastRow + 1
  /\ pathRows' = pathRows \cup {[id |-> lastRow + 1, path |-> path, enabled |-> TRUE]}
  /\ UNCHANGED <<agent, allowed, deleting>>

TogglePath(row) ==
  /\ Changes
  /\ pathRows' = (pathRows \ {row}) \cup {[row EXCEPT !.enabled = ~@]}
  /\ UNCHANGED <<agent, lastRow, allowed, deleting>>

RemovePath(row) ==
  /\ Changes
  /\ pathRows' = pathRows \ {row}
  /\ UNCHANGED <<agent, lastRow, allowed, deleting>>

SwitchTelemetry ==
  /\ Changes /\ agent /\ allowed' = ~allowed
  /\ UNCHANGED <<agent, pathRows, lastRow, deleting>>

(* delete_agent: the paths first, then the row, which the foreign key      *)
(* protects if a path was added in between.                                *)
DeletePaths ==
  /\ Changes /\ agent /\ ~deleting
  /\ pathRows' = {} /\ deleting' = TRUE
  /\ UNCHANGED <<agent, lastRow, allowed>>

Deletable == pathRows = {}
DeleteAgent ==
  /\ deleting /\ deleting' = FALSE
  /\ agent' = IF Deletable THEN FALSE ELSE agent
  /\ allowed' = IF Deletable THEN FALSE ELSE allowed
  /\ UNCHANGED <<pathRows, lastRow, changes, telemetryVars, faults, loopVars>>

-----------------------------------------------------------------------------
(* GET /agents/config.                                                     *)

Fetch ==
  /\ pc \in {"off", "idle"} /\ pc' = "asking" /\ answer' = NoAnswer
  /\ UNCHANGED <<agent, telemetryVars, faults, configVars, booted, watched>>

(* AgentAuth, then get_enabled_paths, then get_agent_telemetry_enabled:    *)
(* three statements, and the configuration may change between them.        *)
Authenticate ==
  /\ pc = "asking" /\ agent /\ pc' = "paths"
  /\ UNCHANGED <<agent, telemetryVars, faults, configVars, booted, answer, watched>>

PathsRead == EnabledPaths
ReadPaths ==
  /\ pc = "paths" /\ pc' = "flag"
  /\ answer' = [answer EXCEPT !.paths = PathsRead]
  /\ UNCHANGED <<agent, telemetryVars, faults, configVars, booted, watched>>

(* A row that is gone reads as false.                                      *)
FlagRead == IF agent THEN allowed ELSE FALSE
ReadFlag ==
  /\ pc = "flag" /\ pc' = "answered"
  /\ answer' = [answer EXCEPT !.telemetry = FlagRead]
  /\ UNCHANGED <<agent, telemetryVars, faults, configVars, booted, watched>>

Back == pc' = (IF booted THEN "idle" ELSE "off") /\ answer' = NoAnswer

(* 401, or no answer at all: nothing changes until the next fetch.         *)
Unauthorized ==
  /\ pc = "asking" /\ ~agent /\ Back
  /\ UNCHANGED <<agent, telemetryVars, faults, configVars, booted, watched>>

FetchFails ==
  /\ pc \in {"asking", "paths", "flag", "answered"} /\ Fault /\ Back
  /\ UNCHANGED <<agent, telemetryVars, configVars, booted, watched>>

(* The first answer only tells the hostname.                               *)
Boot ==
  /\ pc = "answered" /\ ~booted
  /\ booted' = TRUE /\ pc' = "idle" /\ answer' = NoAnswer
  /\ UNCHANGED <<agent, telemetryVars, faults, configVars, watched>>

(* Spawn on grant, abort on revoke; a task that has ended is still there.  *)
Reconciled(desired) == (watched \cap desired) \cup (desired \ watched)
Apply ==
  /\ pc = "answered" /\ booted
  /\ watched' = Reconciled(answer.paths)
  /\ CASE answer.telemetry /\ sensor = "none" -> SensorStarts
       [] ~answer.telemetry /\ sensor # "none" -> SensorStops
       [] OTHER -> UNCHANGED telemetryVars
  /\ Back
  /\ UNCHANGED <<agent, faults, configVars, booted>>

(* The shipper dies and is started again.                                  *)
Restart ==
  /\ Fault /\ pc # "off"
  /\ SensorStops /\ watched' = {} /\ booted' = FALSE
  /\ pc' = "off" /\ answer' = NoAnswer
  /\ UNCHANGED <<agent, configVars>>

-----------------------------------------------------------------------------

Admin ==
  \/ \E path \in Paths : AddPath(path)
  \/ \E row \in pathRows : TogglePath(row) \/ RemovePath(row)
  \/ SwitchTelemetry \/ DeletePaths \/ DeleteAgent

Loop == Authenticate \/ ReadPaths \/ ReadFlag \/ Unauthorized \/ Boot \/ Apply

Next ==
  \/ Admin \/ Fetch \/ Loop \/ FetchFails \/ Restart
  \/ TelemetryNext /\ UNCHANGED <<configVars, loopVars>>

Spec == Init /\ [][Next]_vars

(* The shipper keeps fetching, the server answers what it is asked, timers *)
(* fire and the kernel's buffer is polled.  Nothing is assumed of the      *)
(* administrator (a deletion that has begun ends or not), of events or of  *)
(* faults, of which there are finitely many.                               *)
Fairness ==
  /\ WF_vars(Fetch) /\ WF_vars(Loop)
  /\ WF_vars((Collect \/ FlushTimer \/ PauseEnds) /\ UNCHANGED <<configVars, loopVars>>)
  /\ WF_vars((\E p \in posts : p.id = sent /\ Serves(p)) /\ UNCHANGED <<configVars, loopVars>>)

FairSpec == Spec /\ Fairness

-----------------------------------------------------------------------------
(* Properties.                                                             *)

TypeOK ==
  /\ TelemetryTypeOK
  /\ pathRows \subseteq PathRow /\ lastRow \in 0 .. MaxRows
  /\ allowed \in BOOLEAN /\ deleting \in BOOLEAN /\ changes \in 0 .. MaxChanges
  /\ pc \in {"off", "idle", "asking", "paths", "flag", "answered"} /\ booted \in BOOLEAN
  /\ answer \in [paths : SUBSET Paths, telemetry : BOOLEAN] /\ watched \subseteq Paths

(* Once the administrator is done and no more faults occur, the shipper    *)
(* watches the enabled paths and keeps a sensor task exactly if telemetry  *)
(* is on.  (That the task has ended by itself it does not notice.)         *)
Converges ==
  <>[](agent => watched = EnabledPaths /\ (sensor # "none" <=> allowed))

(* ToldAsItWas of EventSlot speaks of no state, so TLC needs to evaluate   *)
(* it in one only: whatever a slot held, no event that is sent carries the *)
(* path, the arguments or the address of an earlier one.                   *)
NothingStale == Init => ToldAsItWas
=============================================================================
