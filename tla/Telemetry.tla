------------------------------- MODULE Telemetry -------------------------------
(***************************************************************************)
(* The telemetry of one host: the kernel's ring buffer, the sensor's batch *)
(* (ebpf_linux.rs, and etw_windows.rs with its channel in place of the     *)
(* ring), the attempts to send it, create_telemetry_batch on the server    *)
(* and the table telemetry_events with its retention.  Starting and        *)
(* stopping the sensor is the reconcile loop's, in Shipper.                *)
(*                                                                         *)
(* Events are numbered as they happen, and a batch is a set of them: it is *)
(* sent in the order of the numbers.  What the server tells two events     *)
(* apart by is their content: event_hash covers neither the event's time   *)
(* nor where one field ends and the next begins.                           *)
(***************************************************************************)
EXTENDS Integers, FiniteSets

CONSTANTS
  MaxEvents,    \* bound: events that happen
  Contents, ContentOf,   \* ContentOf[e]: what event_hash covers of event e
  Valid,        \* the events NewTelemetryEvent::is_valid accepts
  RING,         \* events the ring buffer holds
  MAX_BATCH, MAX_RETRIES,   \* of the sensor
  LIMIT,        \* events of a request that the server takes
  CHUNK,        \* rows of one INSERT
  MaxFaults     \* bound: failures

Events == 1 .. MaxEvents

ASSUME TelemetryAssumption ==
  /\ MaxEvents \in Nat /\ ContentOf \in [Events -> Contents] /\ Valid \subseteq Events
  /\ RING \in Nat \ {0} /\ MAX_BATCH \in Nat \ {0} /\ MAX_RETRIES \in Nat \ {0}
  /\ LIMIT \in Nat \ {0} /\ CHUNK \in Nat \ {0} /\ MaxFaults \in Nat

VARIABLES
  agent,        \* the host has its row in agents
  sensor,       \* "none", "running", or "ended": returned, its handle still kept
  made,         \* events so far
  ring, batch,  \* events in the ring buffer and in the sensor's batch
  payload, attempt,   \* what flush_batch is sending, and how often it has tried
  waits,        \* what flush_batch awaits: "nothing", "answer" or "pause"
  sent,         \* requests sent so far
  posts,        \* requests under way at the server
  stored,       \* stored[c]: rows of telemetry_events with content c
  aged,         \* contents whose row was created before the cut-off of retention
  faults,
  \* history, read by properties only
  taken,        \* events that an INSERT has covered
  acked,        \* events of batches that were answered with success
  lost          \* events the kernel or the sensor has dropped

sensorVars == <<made, ring, batch, payload, attempt, waits, sent, acked, lost>>
table == <<stored, aged, taken>>
serverVars == <<posts, table>>
telemetryVars == <<sensor, sensorVars, serverVars>>

Post == [id : Nat, size : Nat, rest : SUBSET Events, new : BOOLEAN]

TelemetryInit ==
  /\ sensor = "none" /\ made = 0 /\ sent = 0 /\ attempt = 0 /\ waits = "nothing"
  /\ ring = {} /\ batch = {} /\ payload = {} /\ posts = {} /\ acked = {} /\ lost = {}
  /\ stored = [c \in Contents |-> 0] /\ aged = {} /\ taken = {}

Fault == faults < MaxFaults /\ faults' = faults + 1

-----------------------------------------------------------------------------
(* The sensor.                                                             *)

InSensor == ring \cup batch \cup payload

(* write_event: a full ring buffer drops the event.                        *)
Happens ==
  /\ sensor = "running" /\ made < MaxEvents
  /\ made' = made + 1
  /\ IF Cardinality(ring) < RING
       THEN ring' = ring \cup {made + 1} /\ UNCHANGED lost
       ELSE lost' = lost \cup {made + 1} /\ UNCHANGED ring
  /\ UNCHANGED <<batch, payload, attempt, waits, sent, acked, serverVars, sensor, agent, faults>>

(* One POST of the payload p.                                              *)
Posts(p) ==
  /\ sent' = sent + 1 /\ waits' = "answer"
  /\ posts' = posts \cup {[id |-> sent + 1, size |-> Cardinality(p), rest |-> p \cap Valid, new |-> TRUE]}

(* flush_batch takes the batch, leaving nothing of it behind, and tries it *)
(* for the first time.                                                     *)
BugKept(b) == b
Kept(b) == {}
Flushes(b) == payload' = b /\ batch' = Kept(b) /\ attempt' = 1 /\ Posts(b)

(* The ring buffer is drained, then a batch that is large enough flushed.  *)
Collect ==
  /\ sensor = "running" /\ waits = "nothing" /\ ring # {}
  /\ ring' = {}
  /\ IF Cardinality(batch \cup ring) >= MAX_BATCH
       THEN Flushes(batch \cup ring)
       ELSE batch' = batch \cup ring /\ UNCHANGED <<payload, attempt, waits, sent, posts>>
  /\ UNCHANGED <<made, acked, lost, table, sensor, agent, faults>>

BugFlushable == Cardinality(batch) >= MAX_BATCH
Flushable == batch # {}
FlushTimer ==
  /\ sensor = "running" /\ waits = "nothing" /\ Flushable
  /\ Flushes(batch)
  /\ UNCHANGED <<made, ring, acked, lost, table, sensor, agent, faults>>

Settled == payload' = {} /\ attempt' = 0 /\ waits' = "nothing"

(* An attempt that failed: a pause of two seconds, or the batch is dropped.*)
MayRetry == attempt < MAX_RETRIES
AttemptFails ==
  /\ IF MayRetry
       THEN waits' = "pause" /\ UNCHANGED <<payload, attempt, lost>>
       ELSE Settled /\ lost' = lost \cup payload
  /\ UNCHANGED <<made, ring, batch, sent, acked>>

AttemptSucceeds ==
  /\ Settled /\ acked' = acked \cup payload
  /\ UNCHANGED <<made, ring, batch, sent, lost>>

PauseEnds ==
  /\ waits = "pause" /\ attempt' = attempt + 1 /\ Posts(payload)
  /\ UNCHANGED <<made, ring, batch, payload, acked, lost, table, sensor, agent, faults>>

(* No answer within 15 seconds; the request may still be at work.          *)
TimesOut ==
  /\ waits = "answer" /\ Fault /\ AttemptFails
  /\ UNCHANGED <<serverVars, sensor, agent>>

-----------------------------------------------------------------------------
(* The server: create_telemetry_batch and insert_telemetry_batch.          *)

(* The answer to request p reaches the sensor if it still waits for it.    *)
Answers(p, step) ==
  /\ posts' = posts \ {p}
  /\ IF waits = "answer" /\ p.id = sent THEN step ELSE UNCHANGED sensorVars

Acceptable(p) == agent /\ p.size <= LIMIT

Refuse(p) ==
  /\ p.new /\ ~Acceptable(p)
  /\ Answers(p, AttemptFails)
  /\ UNCHANGED <<table, sensor, agent, faults>>

Admit(p) ==
  /\ p.new /\ Acceptable(p)
  /\ posts' = (posts \ {p}) \cup {[p EXCEPT !.new = FALSE]}
  /\ UNCHANGED <<table, sensorVars, sensor, agent, faults>>

(* The next rows in order, CHUNK of them at most.                          *)
NextChunk(rest) == {e \in rest : Cardinality({f \in rest : f < e}) < CHUNK}

(* INSERT IGNORE against the unique event_hash: a row that is there stays  *)
(* as it is, its age included.                                             *)
BugStoredWith(chunk) ==
  [c \in Contents |-> stored[c] + Cardinality({e \in chunk : ContentOf[e] = c})]
StoredWith(chunk) ==
  [c \in Contents |-> IF \E e \in chunk : ContentOf[e] = c THEN 1 ELSE stored[c]]

InsertChunk(p) ==
  /\ ~p.new /\ p.rest # {}
  /\ stored' = StoredWith(NextChunk(p.rest)) /\ taken' = taken \cup NextChunk(p.rest)
  /\ posts' = (posts \ {p}) \cup {[p EXCEPT !.rest = @ \ NextChunk(@)]}
  /\ UNCHANGED <<aged, sensorVars, sensor, agent, faults>>

Complete(p) == p.rest = {}
Finish(p) ==
  /\ ~p.new /\ Complete(p)
  /\ Answers(p, AttemptSucceeds)
  /\ UNCHANGED <<table, sensor, agent, faults>>

(* A statement fails: 500, and the chunks before it stay.                  *)
InsertFails(p) ==
  /\ Fault /\ Answers(p, AttemptFails)
  /\ UNCHANGED <<table, sensor, agent>>

(* The sensor has hung up: the handler may be dropped at any await.        *)
PostDropped(p) ==
  /\ waits # "answer" \/ p.id # sent
  /\ posts' = posts \ {p}
  /\ UNCHANGED <<table, sensorVars, sensor, agent, faults>>

Serves(p) == Refuse(p) \/ Admit(p) \/ InsertChunk(p) \/ Finish(p)

-----------------------------------------------------------------------------
(* Retention: delete_telemetry_older_than, every 15 minutes if at all.     *)

Rows == {c \in Contents : stored[c] # 0}

(* Time passes, or log_retention_days is set to another value.             *)
CutoffMoves ==
  /\ aged' \in SUBSET Rows
  /\ UNCHANGED <<posts, stored, taken, sensor, sensorVars, agent, faults>>

Purged == [c \in Contents |-> IF c \in aged THEN 0 ELSE stored[c]]
DeleteTelemetryOlderThan ==
  /\ aged # {} /\ stored' = Purged /\ aged' = {}
  /\ UNCHANGED <<posts, taken, sensor, sensorVars, agent, faults>>

-----------------------------------------------------------------------------
(* What the reconcile loop does to the sensor.                             *)

SensorStarts == sensor' = "running" /\ UNCHANGED <<sensorVars, serverVars>>

(* The task is aborted or the shipper dies: what it held is gone, and the  *)
(* ring buffer goes with it.  A request on its way is not called back.     *)
BugHandle == "ended"
Handle == "none"
SensorStops ==
  /\ sensor' = Handle
  /\ lost' = lost \cup InSensor
  /\ ring' = {} /\ batch' = {} /\ Settled
  /\ UNCHANGED <<made, sent, acked, serverVars>>

(* run() returns: no BTF, the programs cannot be loaded or attached, or    *)
(* the channel of ETW is closed; the sensor holds nothing then.            *)
SensorReturns ==
  /\ sensor = "running" /\ InSensor = {} /\ waits = "nothing" /\ Fault
  /\ sensor' = "ended"
  /\ UNCHANGED <<sensorVars, serverVars, agent>>

TelemetryNext ==
  \/ Happens \/ Collect \/ FlushTimer \/ PauseEnds \/ TimesOut \/ SensorReturns
  \/ CutoffMoves \/ DeleteTelemetryOlderThan
  \/ \E p \in posts : Serves(p) \/ InsertFails(p) \/ PostDropped(p)

-----------------------------------------------------------------------------
(* Properties.                                                             *)

TelemetryTypeOK ==
  /\ agent \in BOOLEAN /\ sensor \in {"none", "running", "ended"}
  /\ made \in 0 .. MaxEvents /\ attempt \in 0 .. MAX_RETRIES
  /\ waits \in {"nothing", "answer", "pause"}
  /\ ring \subseteq Events /\ batch \subseteq Events /\ payload \subseteq Events
  /\ acked \subseteq Events /\ lost \subseteq Events /\ taken \subseteq Events
  /\ sent \in Nat /\ posts \subseteq Post
  /\ stored \in [Contents -> Nat] /\ aged \subseteq Rows /\ faults \in 0 .. MaxFaults

(* Every event is in one place: in the ring buffer, in the batch, in the   *)
(* request being sent, or settled, that is acknowledged or dropped.  No    *)
(* retry, abort or late answer leaves one in two places or in none.        *)
EventsAccounted ==
  /\ 1 .. made = InSensor \cup acked \cup lost
  /\ ring \cap batch = {} /\ ring \cap payload = {} /\ batch \cap payload = {}
  /\ InSensor \cap (acked \cup lost) = {} /\ acked \cap lost = {}

(* The pipeline keeps the promises of Delivery: retries of a batch whose   *)
(* answer was lost, and requests that are still at work after the sensor   *)
(* has given up, never make a second row, a batch is acknowledged only     *)
(* when the INSERTs, however many, have covered all of it that is valid,   *)
(* and a row stays until it is past the retention.                         *)
Promise == INSTANCE Delivery WITH
  happened <- 1 .. made, rows <- stored, expired <- aged, delivered <- acked
KeepsPromise == Promise!Spec

(* Nothing stays in a sensor for ever: what it holds is acknowledged or    *)
(* dropped, also when the batch never fills up.                            *)
NothingStaysInTheSensor == \A e \in Events : (e \in InSensor) ~> (e \notin InSensor)
=============================================================================
