----------------------------- MODULE ShipperProofs -----------------------------
(***************************************************************************)
(* Proofs about Shipper and the telemetry it extends: type correctness,    *)
(* that every event is in one place, that the pipeline implements          *)
(* Delivery, for any number of events, sizes of the ring buffer and of     *)
(* batches, retries, rows per INSERT, faults and changes, and that a       *)
(* kernel program's slot leaks nothing from one event into the next.       *)
(***************************************************************************)
EXTENDS Shipper, FiniteSetTheorems, TLAPS

-----------------------------------------------------------------------------
(* The inductive invariant.                                                *)

ConfigOK ==
  /\ pathRows \subseteq PathRow /\ lastRow \in 0 .. MaxRows
  /\ allowed \in BOOLEAN /\ deleting \in BOOLEAN /\ changes \in 0 .. MaxChanges
LoopOK ==
  /\ pc \in {"off", "idle", "asking", "paths", "flag", "answered"} /\ booted \in BOOLEAN
  /\ answer \in [paths : SUBSET Paths, telemetry : BOOLEAN] /\ watched \subseteq Paths

LEMMA TypeIsParts == TypeOK <=> TelemetryTypeOK /\ ConfigOK /\ LoopOK
  BY DEF TypeOK, ConfigOK, LoopOK

SensorOK ==
  /\ sensor \in {"none", "running", "ended"}
  /\ made \in 0 .. MaxEvents /\ attempt \in 0 .. MAX_RETRIES
  /\ waits \in {"nothing", "answer", "pause"}
  /\ ring \subseteq Events /\ batch \subseteq Events /\ payload \subseteq Events
  /\ acked \subseteq Events /\ lost \subseteq Events /\ sent \in Nat
ServerOK ==
  /\ posts \subseteq Post
  /\ stored \in [Contents -> Nat] /\ aged \subseteq Rows /\ taken \subseteq Events

LEMMA TelemetryTypeIsParts ==
  TelemetryTypeOK <=> SensorOK /\ ServerOK /\ agent \in BOOLEAN /\ faults \in 0 .. MaxFaults
  BY DEF TelemetryTypeOK, SensorOK, ServerOK

(* A sensor that sends nothing has no payload; one that sends has made an  *)
(* attempt, and one that pauses may make another.                          *)
Sending ==
  /\ waits = "nothing" => payload = {} /\ attempt = 0
  /\ waits # "nothing" => attempt >= 1
  /\ waits = "pause" => attempt < MAX_RETRIES

(* What a request has yet to insert is valid and has happened.  Of what    *)
(* the sensor awaits the answer for, each valid event is still to be       *)
(* inserted by that request or was taken in.                               *)
Requests ==
  /\ \A p \in posts : p.id <= sent /\ p.rest \subseteq Valid \cap (1 .. made)
  /\ \A p \in posts : waits = "answer" /\ p.id = sent =>
       \A e \in payload \cap Valid : e \in p.rest \/ e \in taken

TelemetryInv == SensorOK /\ ServerOK /\ EventsAccounted /\ Sending /\ Requests

-----------------------------------------------------------------------------
(* The initial state.                                                      *)

LEMMA ConfigInit == Init => ConfigOK /\ LoopOK
  <1> SUFFICES ASSUME Init PROVE ConfigOK /\ LoopOK
    OBVIOUS
  <1>1. ConfigOK
    <2>1. lastRow \in 0 .. MaxRows /\ changes \in 0 .. MaxChanges
      BY ShipperAssumption, SMT DEF Init
    <2>2. allowed \in BOOLEAN /\ deleting \in BOOLEAN /\ pathRows \subseteq PathRow
      BY Zenon DEF Init
    <2> QED
      BY <2>1, <2>2 DEF ConfigOK
  <1>2. LoopOK
    <2>1. NoAnswer \in [paths : SUBSET Paths, telemetry : BOOLEAN]
      BY DEF NoAnswer
    <2>2. pc = "off" /\ booted = FALSE /\ answer = NoAnswer /\ watched = {}
      BY DEF Init
    <2> QED
      BY <2>1, <2>2 DEF LoopOK
  <1> QED
    BY <1>1, <1>2

LEMMA TelemetryInvInit == TelemetryInit => TelemetryInv
  <1> SUFFICES ASSUME TelemetryInit PROVE TelemetryInv
    OBVIOUS
  <1> USE TelemetryAssumption
  <1>1. SensorOK
    BY DEF TelemetryInit, SensorOK, Events
  <1>2. ServerOK
    BY DEF TelemetryInit, ServerOK
  <1>3. EventsAccounted
    BY DEF TelemetryInit, EventsAccounted, InSensor
  <1>4. Sending
    BY DEF TelemetryInit, Sending
  <1>5. Requests
    BY DEF TelemetryInit, Requests
  <1> QED
    BY <1>1, <1>2, <1>3, <1>4, <1>5 DEF TelemetryInv

-----------------------------------------------------------------------------
(* What the steps have in common.                                          *)

LEMMA SizesAreNumbers == \A S \in SUBSET Events : Cardinality(S) \in Nat
  <1> TAKE S \in SUBSET Events
  <1>1. IsFiniteSet(Events)
    BY TelemetryAssumption, FS_Interval DEF Events
  <1> QED
    BY <1>1, FS_Subset, FS_CardinalityType

(* The sensor does nothing, and requests may end.                          *)
LEMMA SensorRests ==
  ASSUME TelemetryInv, UNCHANGED <<sensorVars, table>>, posts' \subseteq posts,
         sensor' \in {"none", "running", "ended"}
  PROVE  TelemetryInv'
  <1> USE DEF sensorVars, table
  <1>1. SensorOK'
    BY DEF TelemetryInv, SensorOK
  <1>2. ServerOK'
    BY DEF TelemetryInv, ServerOK, table, Rows
  <1>3. EventsAccounted'
    BY DEF TelemetryInv, EventsAccounted, InSensor
  <1>4. Sending'
    BY DEF TelemetryInv, Sending
  <1>5. Requests'
    BY DEF TelemetryInv, Requests, table
  <1> QED
    BY <1>1, <1>2, <1>3, <1>4, <1>5 DEF TelemetryInv

(* An attempt fails; whatever is left of its request goes on or ends.      *)
LEMMA AttemptFailsKeeps ==
  ASSUME TelemetryInv, AttemptFails, waits = "answer", UNCHANGED <<table, sensor>>,
         posts' \subseteq posts
  PROVE  TelemetryInv' /\ UNCHANGED <<made, acked>>
  <1> USE TelemetryAssumption
  <1>1. CASE MayRetry
    <2>1. waits' = "pause" /\ UNCHANGED <<made, ring, batch, payload, attempt, sent, acked, lost>>
      BY <1>1 DEF AttemptFails
    <2>2. SensorOK'
      BY <2>1 DEF TelemetryInv, SensorOK
    <2>3. ServerOK'
      BY DEF TelemetryInv, ServerOK, table, Rows
    <2>4. EventsAccounted'
      BY <2>1 DEF TelemetryInv, EventsAccounted, InSensor
    <2>5. Sending'
      BY <1>1, <2>1 DEF TelemetryInv, Sending, MayRetry
    <2>6. Requests'
      BY <2>1 DEF TelemetryInv, Requests, table
    <2> QED
      BY <2>1, <2>2, <2>3, <2>4, <2>5, <2>6 DEF TelemetryInv
  <1>2. CASE ~MayRetry
    <2>1. /\ payload' = {} /\ attempt' = 0 /\ waits' = "nothing" /\ lost' = lost \cup payload
          /\ UNCHANGED <<made, ring, batch, sent, acked>>
      BY <1>2 DEF AttemptFails, Settled
    <2>2. SensorOK'
      BY <2>1 DEF TelemetryInv, SensorOK
    <2>3. ServerOK'
      BY DEF TelemetryInv, ServerOK, table, Rows
    <2>4. EventsAccounted'
      BY <2>1 DEF TelemetryInv, EventsAccounted, InSensor
    <2>5. Sending'
      BY <2>1 DEF Sending
    <2>6. Requests'
      BY <2>1 DEF TelemetryInv, Requests, table
    <2> QED
      BY <2>1, <2>2, <2>3, <2>4, <2>5, <2>6 DEF TelemetryInv
  <1> QED
    BY <1>1, <1>2

(* A batch that has events only of the ring buffer and the batch is sent.  *)
LEMMA FlushKeeps ==
  ASSUME TelemetryInv, NEW b, Flushes(b), waits = "nothing",
         ring' \cap b = {}, ring' \cup b = ring \cup batch,
         UNCHANGED <<made, acked, lost, table, sensor>>
  PROVE  TelemetryInv'
  <1> DEFINE new == [id |-> sent + 1, size |-> Cardinality(b), rest |-> b \cap Valid, new |-> TRUE]
  <1> USE TelemetryAssumption
  <1>1. /\ payload' = b /\ batch' = {} /\ attempt' = 1 /\ sent' = sent + 1
        /\ waits' = "answer" /\ posts' = posts \cup {new}
    BY DEF Flushes, Kept, Posts
  <1>2. payload = {} /\ b \subseteq Events /\ b \subseteq 1 .. made
    BY DEF TelemetryInv, SensorOK, Sending, EventsAccounted, InSensor
  <1>3. SensorOK'
    <2>1. attempt' \in 0 .. MAX_RETRIES /\ sent' \in Nat
      BY <1>1 DEF TelemetryInv, SensorOK
    <2>2. ring' \subseteq Events /\ batch' \subseteq Events /\ payload' \subseteq Events
      BY <1>1, <1>2 DEF TelemetryInv, SensorOK
    <2> QED
      BY <1>1, <2>1, <2>2 DEF TelemetryInv, SensorOK
  <1>4. ServerOK'
    <2>1. sent + 1 \in Nat /\ Cardinality(b) \in Nat /\ b \cap Valid \subseteq Events
      BY <1>2, SizesAreNumbers DEF TelemetryInv, SensorOK
    <2>2. new \in Post
      BY <2>1, Zenon DEF Post
    <2> QED
      BY <1>1, <2>2 DEF TelemetryInv, ServerOK, table, Rows
  <1>5. EventsAccounted'
    BY <1>1, <1>2 DEF TelemetryInv, EventsAccounted, InSensor
  <1>6. Sending'
    BY <1>1 DEF TelemetryInv, Sending
  <1>7. Requests'
    <2>1. \A p \in posts : p.id <= sent /\ p.id \in Nat
      BY DEF TelemetryInv, Requests, ServerOK, Post
    <2>2. sent \in Nat
      BY DEF TelemetryInv, SensorOK
    <2>3. new.id = sent' /\ new.rest = b \cap Valid
      BY <1>1
    <2> HIDE DEF new
    <2>4. \A p \in posts' : p.id <= sent' /\ p.rest \subseteq Valid \cap (1 .. made')
      <3> TAKE p \in posts'
      <3>1. CASE p = new
        <4>1. p.id = sent' /\ p.rest = b \cap Valid
          BY <2>3, <3>1
        <4>2. p.id <= sent'
          BY <1>1, <2>2, <4>1
        <4>3. p.rest \subseteq Valid \cap (1 .. made')
          BY <1>1, <1>2, <4>1
        <4> QED
          BY <4>2, <4>3
      <3>2. CASE p \in posts
        <4>1. p.rest \subseteq Valid \cap (1 .. made)
          BY <3>2 DEF TelemetryInv, Requests, table
        <4>2. p.id <= sent /\ p.id \in Nat
          BY <2>1, <3>2
        <4>3. sent' = sent + 1 /\ made' = made
          BY <1>1
        <4>4. p.id <= sent'
          BY <4>2, <4>3, <2>2
        <4> QED
          BY <4>1, <4>3, <4>4
      <3> QED
        BY <1>1, <3>1, <3>2
    <2>5. \A p \in posts' : p.id = sent' => p = new
      BY <1>1, <2>1, <2>2
    <2> QED
      BY <1>1, <2>3, <2>4, <2>5 DEF TelemetryInv, Requests, table
  <1> QED
    BY <1>3, <1>4, <1>5, <1>6, <1>7 DEF TelemetryInv

-----------------------------------------------------------------------------
(* The sensor's steps.                                                     *)

LEMMA HappensKeeps == ASSUME TelemetryInv, Happens PROVE TelemetryInv'
  <1> USE TelemetryAssumption
  <1>1. /\ sensor = "running" /\ made < MaxEvents /\ made' = made + 1
        /\ UNCHANGED <<batch, payload, attempt, waits, sent, acked, posts, table, sensor>>
        /\ \/ ring' = ring \cup {made + 1} /\ lost' = lost
           \/ lost' = lost \cup {made + 1} /\ ring' = ring
    BY DEF Happens, serverVars
  <1>2. made \in Nat /\ made + 1 \in Events /\ made + 1 \notin 1 .. made
        /\ 1 .. made' = (1 .. made) \cup {made + 1}
    BY <1>1 DEF TelemetryInv, SensorOK, Events
  <1>3. SensorOK'
    <2>1. made' \in 0 .. MaxEvents
      BY <1>1 DEF TelemetryInv, SensorOK
    <2>2. ring' \subseteq Events /\ lost' \subseteq Events
      BY <1>1, <1>2 DEF TelemetryInv, SensorOK
    <2> QED
      BY <1>1, <2>1, <2>2 DEF TelemetryInv, SensorOK
  <1>4. ServerOK'
    BY <1>1 DEF TelemetryInv, ServerOK, table, Rows
  <1>5. EventsAccounted'
    BY <1>1, <1>2 DEF TelemetryInv, EventsAccounted, InSensor
  <1>6. Sending'
    BY <1>1 DEF TelemetryInv, Sending
  <1>7. Requests'
    BY <1>1, <1>2 DEF TelemetryInv, Requests, table
  <1> QED
    BY <1>3, <1>4, <1>5, <1>6, <1>7 DEF TelemetryInv

LEMMA CollectKeeps == ASSUME TelemetryInv, Collect PROVE TelemetryInv'
  <1>1. waits = "nothing" /\ ring' = {} /\ UNCHANGED <<made, acked, lost, table, sensor>>
    BY DEF Collect
  <1>2. CASE Flushes(batch \cup ring)
    BY <1>1, <1>2, FlushKeeps
  <1>3. CASE batch' = batch \cup ring /\ UNCHANGED <<payload, attempt, waits, sent, posts>>
    <2>1. SensorOK'
      BY <1>1, <1>3 DEF TelemetryInv, SensorOK
    <2>2. ServerOK'
      BY <1>1, <1>3 DEF TelemetryInv, ServerOK, table, Rows
    <2>3. EventsAccounted'
      BY <1>1, <1>3 DEF TelemetryInv, EventsAccounted, InSensor
    <2>4. Sending'
      BY <1>3 DEF TelemetryInv, Sending
    <2>5. Requests'
      BY <1>1, <1>3 DEF TelemetryInv, Requests, table
    <2> QED
      BY <2>1, <2>2, <2>3, <2>4, <2>5 DEF TelemetryInv
  <1> QED
    BY <1>2, <1>3 DEF Collect

LEMMA FlushTimerKeeps == ASSUME TelemetryInv, FlushTimer PROVE TelemetryInv'
  <1>1. /\ waits = "nothing" /\ Flushes(batch) /\ ring' = ring
        /\ UNCHANGED <<made, acked, lost, table, sensor>>
    BY DEF FlushTimer
  <1>2. ring \cap batch = {}
    BY DEF TelemetryInv, EventsAccounted
  <1> QED
    BY <1>1, <1>2, FlushKeeps

LEMMA PauseEndsKeeps == ASSUME TelemetryInv, PauseEnds PROVE TelemetryInv'
  <1> DEFINE new == [id |-> sent + 1, size |-> Cardinality(payload),
                     rest |-> payload \cap Valid, new |-> TRUE]
  <1> USE TelemetryAssumption
  <1>1. /\ waits = "pause" /\ attempt' = attempt + 1 /\ sent' = sent + 1
        /\ waits' = "answer" /\ posts' = posts \cup {new}
        /\ UNCHANGED <<made, ring, batch, payload, acked, lost, table, sensor>>
    BY DEF PauseEnds, Posts
  <1>2. attempt \in Nat /\ attempt < MAX_RETRIES /\ sent \in Nat
    BY <1>1 DEF TelemetryInv, SensorOK, Sending
  <1>3. payload \subseteq Events /\ payload \subseteq 1 .. made
    BY DEF TelemetryInv, SensorOK, EventsAccounted, InSensor
  <1>4. SensorOK'
    <2>1. attempt' \in 0 .. MAX_RETRIES /\ sent' \in Nat
      BY <1>1, <1>2
    <2> QED
      BY <1>1, <2>1 DEF TelemetryInv, SensorOK
  <1>5. ServerOK'
    <2>1. sent + 1 \in Nat /\ Cardinality(payload) \in Nat /\ payload \cap Valid \subseteq Events
      BY <1>2, <1>3, SizesAreNumbers
    <2>2. new \in Post
      BY <2>1, Zenon DEF Post
    <2> QED
      BY <1>1, <2>2 DEF TelemetryInv, ServerOK, table, Rows
  <1>6. EventsAccounted'
    BY <1>1 DEF TelemetryInv, EventsAccounted, InSensor
  <1>7. Sending'
    BY <1>1, <1>2 DEF Sending
  <1>8. Requests'
    <2>1. \A p \in posts : p.id <= sent /\ p.id \in Nat
      BY DEF TelemetryInv, Requests, ServerOK, Post
    <2>2. new.id = sent' /\ new.rest = payload \cap Valid
      BY <1>1
    <2> HIDE DEF new
    <2>3. \A p \in posts' : p.id <= sent' /\ p.rest \subseteq Valid \cap (1 .. made')
      <3> TAKE p \in posts'
      <3>1. CASE p = new
        <4>1. p.id = sent' /\ p.rest = payload \cap Valid
          BY <2>2, <3>1
        <4>2. p.id <= sent'
          BY <1>1, <1>2, <4>1
        <4>3. p.rest \subseteq Valid \cap (1 .. made')
          BY <1>1, <1>3, <4>1
        <4> QED
          BY <4>2, <4>3
      <3>2. CASE p \in posts
        <4>1. p.rest \subseteq Valid \cap (1 .. made)
          BY <3>2 DEF TelemetryInv, Requests, table
        <4>2. p.id <= sent /\ p.id \in Nat
          BY <2>1, <3>2
        <4>3. sent' = sent + 1 /\ made' = made
          BY <1>1
        <4>4. p.id <= sent'
          BY <4>2, <4>3, <1>2
        <4> QED
          BY <4>1, <4>3, <4>4
      <3> QED
        BY <1>1, <3>1, <3>2
    <2>4. \A p \in posts' : p.id = sent' => p = new
      BY <1>1, <1>2, <2>1
    <2> QED
      BY <1>1, <2>2, <2>3, <2>4 DEF TelemetryInv, Requests, table
  <1> QED
    BY <1>4, <1>5, <1>6, <1>7, <1>8 DEF TelemetryInv

LEMMA SensorStopsKeeps ==
  ASSUME TelemetryInv, SensorStops
  PROVE  TelemetryInv' /\ UNCHANGED <<made, table, acked>>
  <1> USE TelemetryAssumption
  <1>1. /\ sensor' = "none" /\ lost' = lost \cup InSensor /\ ring' = {} /\ batch' = {}
        /\ payload' = {} /\ attempt' = 0 /\ waits' = "nothing"
        /\ UNCHANGED <<made, sent, acked, posts, table>>
    BY DEF SensorStops, Settled, Handle, serverVars
  <1>2. SensorOK'
    BY <1>1 DEF TelemetryInv, SensorOK, InSensor
  <1>3. ServerOK'
    BY <1>1 DEF TelemetryInv, ServerOK, table, Rows
  <1>4. EventsAccounted'
    BY <1>1 DEF TelemetryInv, EventsAccounted, InSensor
  <1>5. Sending'
    BY <1>1 DEF Sending
  <1>6. Requests'
    BY <1>1 DEF TelemetryInv, Requests, table
  <1> QED
    BY <1>1, <1>2, <1>3, <1>4, <1>5, <1>6 DEF TelemetryInv

-----------------------------------------------------------------------------
(* The server's steps.                                                     *)

LEMMA SensorEndsInAStateOfIts == TelemetryInv => sensor \in {"none", "running", "ended"}
  BY DEF TelemetryInv, SensorOK

(* A request ends, answered or not: the sensor notices or it does not.     *)
LEMMA FailureAnswered ==
  ASSUME TelemetryInv, NEW p \in posts, Answers(p, AttemptFails), UNCHANGED <<table, sensor>>
  PROVE  TelemetryInv' /\ UNCHANGED <<made, table, acked>>
  <1>1. posts' \subseteq posts
    BY DEF Answers
  <1>2. CASE waits = "answer" /\ p.id = sent
    <2>1. AttemptFails
      BY <1>2 DEF Answers
    <2> QED
      BY <1>1, <1>2, <2>1, AttemptFailsKeeps
  <1>3. CASE ~(waits = "answer" /\ p.id = sent)
    <2>1. UNCHANGED sensorVars
      BY <1>3 DEF Answers
    <2>2. TelemetryInv'
      BY <1>1, <2>1, SensorRests, SensorEndsInAStateOfIts
    <2> QED
      BY <2>1, <2>2 DEF sensorVars
  <1> QED
    BY <1>2, <1>3

LEMMA AdmitKeeps == ASSUME TelemetryInv, NEW p \in posts, Admit(p) PROVE TelemetryInv'
  <1> DEFINE q == [p EXCEPT !.new = FALSE]
  <1>1. posts' = (posts \ {p}) \cup {q} /\ UNCHANGED <<table, sensorVars, sensor>>
    BY DEF Admit
  <1>2. p \in Post
    BY DEF TelemetryInv, ServerOK, table, Rows
  <1>3. q \in Post /\ q.id = p.id /\ q.rest = p.rest
    BY <1>2 DEF Post
  <1> HIDE DEF q
  <1> USE DEF sensorVars, table
  <1>4. SensorOK'
    BY <1>1 DEF TelemetryInv, SensorOK
  <1>5. ServerOK'
    BY <1>1, <1>3 DEF TelemetryInv, ServerOK, table, Rows
  <1>6. EventsAccounted'
    BY <1>1 DEF TelemetryInv, EventsAccounted, InSensor
  <1>7. Sending'
    BY <1>1 DEF TelemetryInv, Sending
  <1>8. Requests'
    BY <1>1, <1>3 DEF TelemetryInv, Requests, table
  <1> QED
    BY <1>4, <1>5, <1>6, <1>7, <1>8 DEF TelemetryInv

(* An INSERT gives rows to the events it leaves out of the rest.           *)
LEMMA InsertChunkKeeps ==
  ASSUME TelemetryInv, NEW p \in posts, InsertChunk(p)
  PROVE  TelemetryInv'
  <1> DEFINE chunk == NextChunk(p.rest)
             q == [p EXCEPT !.rest = @ \ NextChunk(@)]
  <1> USE TelemetryAssumption
  <1>1. /\ posts' = (posts \ {p}) \cup {q} /\ UNCHANGED <<sensorVars, sensor>>
        /\ stored' = StoredWith(chunk)
    BY DEF InsertChunk
  <1>2. p \in Post /\ chunk \subseteq p.rest
    BY DEF TelemetryInv, ServerOK, NextChunk
  <1>3. q \in Post /\ q.id = p.id /\ q.rest = p.rest \ chunk
    BY <1>2 DEF Post
  <1>4. p.rest \subseteq Events
    BY <1>2 DEF Post
  <1> HIDE DEF q, chunk
  <1>5. /\ stored' \in [Contents -> Nat] /\ aged' \subseteq Rows' /\ taken' = taken \cup chunk
        /\ taken' \subseteq Events
    <2>1. stored \in [Contents -> Nat] /\ aged \subseteq Rows /\ taken \subseteq Events
      BY DEF TelemetryInv, ServerOK
    <2>2. stored' \in [Contents -> Nat] /\ \A c \in Contents : stored[c] # 0 => stored'[c] # 0
      BY <1>1, <2>1 DEF StoredWith
    <2>3. aged' = aged /\ taken' = taken \cup chunk
      BY DEF InsertChunk, chunk
    <2> QED
      BY <1>2, <1>4, <2>1, <2>2, <2>3 DEF Rows
  <1> USE DEF sensorVars, table
  <1>6. SensorOK'
    BY <1>1 DEF TelemetryInv, SensorOK
  <1>7. ServerOK'
    BY <1>1, <1>3, <1>5 DEF TelemetryInv, ServerOK, table, Rows
  <1>8. EventsAccounted'
    BY <1>1 DEF TelemetryInv, EventsAccounted, InSensor
  <1>9. Sending'
    BY <1>1 DEF TelemetryInv, Sending
  <1>10. Requests'
    <2>1. payload \subseteq Events /\ acked \subseteq Events
      BY DEF TelemetryInv, SensorOK
    <2>2. UNCHANGED <<made, payload, waits, sent, acked>>
      BY <1>1
    <2>3. \A r \in posts' : r.id <= sent' /\ r.rest \subseteq Valid \cap (1 .. made')
      BY <1>1, <1>3, <2>2 DEF TelemetryInv, Requests, table
    <2>4. \A r \in posts' : waits' = "answer" /\ r.id = sent' =>
            \A e \in payload' \cap Valid : e \in r.rest \/ e \in taken'
      <3> SUFFICES ASSUME NEW r \in posts', waits' = "answer", r.id = sent',
                          NEW e \in payload' \cap Valid
                   PROVE  e \in r.rest \/ e \in taken'
        OBVIOUS
      <3>1. e \in payload \cap Valid /\ e \in Events /\ waits = "answer" /\ r.id = sent
        BY <2>1, <2>2
      <3>2. CASE r = q
        BY <1>3, <1>5, <3>1, <3>2 DEF TelemetryInv, Requests, table
      <3>3. CASE r \in posts
        BY <1>5, <3>1, <3>3 DEF TelemetryInv, Requests, table
      <3> QED
        BY <1>1, <3>2, <3>3
    <2> QED
      BY <2>3, <2>4 DEF Requests
  <1> QED
    BY <1>6, <1>7, <1>8, <1>9, <1>10 DEF TelemetryInv

LEMMA FinishKeeps == ASSUME TelemetryInv, NEW p \in posts, Finish(p) PROVE TelemetryInv'
  <1> USE TelemetryAssumption
  <1>1. /\ p.rest = {} /\ Answers(p, AttemptSucceeds) /\ UNCHANGED <<table, sensor>>
        /\ posts' \subseteq posts
    BY DEF Finish, Complete, Answers
  <1>2. CASE waits = "answer" /\ p.id = sent
    <2>1. /\ payload' = {} /\ attempt' = 0 /\ waits' = "nothing" /\ acked' = acked \cup payload
          /\ UNCHANGED <<made, ring, batch, sent, lost>>
      BY <1>1, <1>2 DEF Answers, AttemptSucceeds, Settled
    <2>2. payload \cap Valid \subseteq taken
      BY <1>1, <1>2 DEF TelemetryInv, Requests, table
    <2>3. SensorOK'
      BY <1>1, <2>1 DEF TelemetryInv, SensorOK
    <2>4. ServerOK'
      BY <1>1 DEF TelemetryInv, ServerOK, table, Rows
    <2>5. EventsAccounted'
      BY <2>1 DEF TelemetryInv, EventsAccounted, InSensor
    <2>6. Sending'
      BY <2>1 DEF Sending
    <2>7. Requests'
      BY <1>1, <2>1, <2>2 DEF TelemetryInv, Requests, table
    <2> QED
      BY <2>3, <2>4, <2>5, <2>6, <2>7 DEF TelemetryInv
  <1>3. CASE ~(waits = "answer" /\ p.id = sent)
    <2>1. UNCHANGED sensorVars
      BY <1>1, <1>3 DEF Answers
    <2> QED
      BY <1>1, <2>1, SensorRests, SensorEndsInAStateOfIts
  <1> QED
    BY <1>2, <1>3

(* Retention leaves what was taken in, and the ages only of rows.          *)
LEMMA RetentionKeeps ==
  ASSUME TelemetryInv, CutoffMoves \/ DeleteTelemetryOlderThan
  PROVE  TelemetryInv'
  <1>1. UNCHANGED <<posts, taken, sensor, sensorVars>>
    BY DEF CutoffMoves, DeleteTelemetryOlderThan
  <1>2. stored' \in [Contents -> Nat] /\ aged' \subseteq Rows'
    <2>1. CASE CutoffMoves
      BY <2>1 DEF CutoffMoves, Rows, TelemetryInv, ServerOK
    <2>2. CASE DeleteTelemetryOlderThan
      BY <2>2 DEF DeleteTelemetryOlderThan, Purged, TelemetryInv, ServerOK
    <2> QED
      BY <2>1, <2>2
  <1> USE <1>1 DEF sensorVars
  <1>3. SensorOK'
    BY DEF TelemetryInv, SensorOK
  <1>4. ServerOK'
    BY <1>2 DEF TelemetryInv, ServerOK
  <1>5. EventsAccounted'
    BY DEF TelemetryInv, EventsAccounted, InSensor
  <1>6. Sending'
    BY DEF TelemetryInv, Sending
  <1>7. Requests'
    BY DEF TelemetryInv, Requests
  <1> QED
    BY <1>3, <1>4, <1>5, <1>6, <1>7 DEF TelemetryInv

-----------------------------------------------------------------------------
(* Each step of the pipeline is a step of Delivery or changes nothing that *)
(* Delivery speaks of.                                                     *)

Stutters == UNCHANGED <<made, table, acked>>
PromiseStep == [Promise!Next]_(Promise!vars)

LEMMA StutteringIsAllowed == Stutters => PromiseStep
  BY DEF Stutters, PromiseStep, table, Promise!vars

LEMMA HappensIsPromised == ASSUME TelemetryInv, Happens PROVE PromiseStep
  <1>1. made < MaxEvents /\ made' = made + 1 /\ UNCHANGED <<stored, aged, taken, acked>>
    BY DEF Happens, serverVars, table
  <1>2. made + 1 \in Events /\ 1 .. made' = (1 .. made) \cup {made + 1}
    BY <1>1, TelemetryAssumption DEF TelemetryInv, SensorOK, Events
  <1>3. Promise!Happen(made + 1)
    BY <1>1, <1>2 DEF Promise!Happen
  <1> QED
    BY <1>2, <1>3 DEF PromiseStep, Promise!Next

LEMMA InsertChunkIsPromised ==
  ASSUME TelemetryInv, NEW p \in posts, InsertChunk(p)
  PROVE  PromiseStep
  <1> DEFINE chunk == NextChunk(p.rest)
  <1>1. stored' = StoredWith(chunk) /\ taken' = taken \cup chunk /\ UNCHANGED <<made, aged, acked>>
    BY DEF InsertChunk, sensorVars
  <1>2. chunk \subseteq (1 .. made) \cap Valid /\ chunk \subseteq Events
    BY TelemetryAssumption DEF TelemetryInv, Requests, NextChunk
  <1> HIDE DEF chunk
  <1>3. Promise!Store(chunk)
    BY <1>1, <1>2 DEF Promise!Store, StoredWith
  <1>4. chunk \in SUBSET Events
    BY <1>2
  <1> QED
    BY <1>3, <1>4 DEF PromiseStep, Promise!Next

LEMMA FinishIsPromised ==
  ASSUME TelemetryInv, NEW p \in posts, Finish(p)
  PROVE  PromiseStep
  <1>1. p.rest = {} /\ Answers(p, AttemptSucceeds) /\ UNCHANGED <<stored, aged, taken, table>>
    BY DEF Finish, Complete, table
  <1>2. CASE waits = "answer" /\ p.id = sent
    <2>1. acked' = acked \cup payload /\ UNCHANGED made
      BY <1>1, <1>2 DEF Answers, AttemptSucceeds
    <2>2. payload \cap Valid \subseteq taken
      BY <1>1, <1>2 DEF TelemetryInv, Requests, table
    <2>3. payload \in SUBSET Events /\ payload \subseteq 1 .. made
      BY DEF TelemetryInv, SensorOK, EventsAccounted, InSensor
    <2>4. Promise!Acknowledge(payload)
      BY <1>1, <2>1, <2>2, <2>3 DEF Promise!Acknowledge
    <2> QED
      BY <2>3, <2>4 DEF PromiseStep, Promise!Next
  <1>3. CASE ~(waits = "answer" /\ p.id = sent)
    <2>1. Stutters
      BY <1>1, <1>3 DEF Answers, sensorVars, Stutters
    <2> QED
      BY <2>1, StutteringIsAllowed
  <1> QED
    BY <1>2, <1>3

LEMMA RetentionIsPromised ==
  ASSUME TelemetryInv, CutoffMoves \/ DeleteTelemetryOlderThan
  PROVE  PromiseStep
  <1>1. UNCHANGED <<made, taken, acked>>
    BY DEF CutoffMoves, DeleteTelemetryOlderThan, sensorVars
  <1>2. CASE CutoffMoves
    <2>1. aged' \in SUBSET Contents /\ \A c \in aged' : stored[c] # 0
      BY <1>2 DEF CutoffMoves, Rows
    <2>2. Promise!Expire(aged')
      BY <1>1, <1>2, <2>1 DEF CutoffMoves, Promise!Expire
    <2> QED
      BY <2>1, <2>2 DEF PromiseStep, Promise!Next
  <1>3. CASE DeleteTelemetryOlderThan
    <2>1. Promise!Purge
      BY <1>1, <1>3 DEF DeleteTelemetryOlderThan, Purged, Promise!Purge
    <2> QED
      BY <2>1 DEF PromiseStep, Promise!Next
  <1> QED
    BY <1>2, <1>3

LEMMA TelemetryStep ==
  ASSUME TelemetryInv, TelemetryNext
  PROVE  TelemetryInv' /\ PromiseStep /\ UNCHANGED agent /\ (UNCHANGED faults \/ Fault)
  <1>1. CASE Happens
    <2>1. UNCHANGED <<agent, faults>>
      BY <1>1 DEF Happens
    <2> QED
      BY <1>1, <2>1, HappensKeeps, HappensIsPromised
  <1>2. CASE Collect
    <2>1. UNCHANGED <<agent, faults>> /\ Stutters
      BY <1>2 DEF Collect, Stutters
    <2> QED
      BY <1>2, <2>1, CollectKeeps, StutteringIsAllowed
  <1>3. CASE FlushTimer
    <2>1. UNCHANGED <<agent, faults>> /\ Stutters
      BY <1>3 DEF FlushTimer, Stutters
    <2> QED
      BY <1>3, <2>1, FlushTimerKeeps, StutteringIsAllowed
  <1>4. CASE PauseEnds
    <2>1. UNCHANGED <<agent, faults>> /\ Stutters
      BY <1>4 DEF PauseEnds, Stutters
    <2> QED
      BY <1>4, <2>1, PauseEndsKeeps, StutteringIsAllowed
  <1>5. CASE TimesOut
    <2>1. waits = "answer" /\ Fault /\ AttemptFails /\ UNCHANGED <<posts, table, sensor, agent>>
      BY <1>5 DEF TimesOut, serverVars
    <2>2. TelemetryInv' /\ Stutters
      BY <2>1, AttemptFailsKeeps DEF Stutters
    <2> QED
      BY <2>1, <2>2, StutteringIsAllowed
  <1>6. CASE SensorReturns
    <2>1. Fault /\ sensor' = "ended" /\ UNCHANGED <<sensorVars, posts, table, agent>>
      BY <1>6 DEF SensorReturns, serverVars
    <2>2. TelemetryInv' /\ Stutters
      BY <2>1, SensorRests DEF Stutters, sensorVars
    <2> QED
      BY <2>1, <2>2, StutteringIsAllowed
  <1>7. ASSUME NEW p \in posts, Refuse(p) \/ InsertFails(p)
        PROVE  TelemetryInv' /\ PromiseStep /\ UNCHANGED agent /\ (UNCHANGED faults \/ Fault)
    <2>1. /\ Answers(p, AttemptFails) /\ UNCHANGED <<table, sensor, agent>>
          /\ UNCHANGED faults \/ Fault
      BY <1>7 DEF Refuse, InsertFails
    <2>2. TelemetryInv' /\ Stutters
      BY <2>1, FailureAnswered DEF Stutters
    <2> QED
      BY <2>1, <2>2, StutteringIsAllowed
  <1>8. ASSUME NEW p \in posts, Admit(p)
        PROVE  TelemetryInv' /\ PromiseStep /\ UNCHANGED agent /\ (UNCHANGED faults \/ Fault)
    <2>1. UNCHANGED <<agent, faults>> /\ Stutters
      BY <1>8 DEF Admit, Stutters, sensorVars
    <2> QED
      BY <1>8, <2>1, AdmitKeeps, StutteringIsAllowed
  <1>9. ASSUME NEW p \in posts, InsertChunk(p)
        PROVE  TelemetryInv' /\ PromiseStep /\ UNCHANGED agent /\ (UNCHANGED faults \/ Fault)
    <2>1. UNCHANGED <<agent, faults>>
      BY <1>9 DEF InsertChunk
    <2> QED
      BY <1>9, <2>1, InsertChunkKeeps, InsertChunkIsPromised
  <1>10. ASSUME NEW p \in posts, Finish(p)
         PROVE  TelemetryInv' /\ PromiseStep /\ UNCHANGED agent /\ (UNCHANGED faults \/ Fault)
    <2>1. UNCHANGED <<agent, faults>>
      BY <1>10 DEF Finish
    <2> QED
      BY <1>10, <2>1, FinishKeeps, FinishIsPromised
  <1>11. ASSUME NEW p \in posts, PostDropped(p)
         PROVE  TelemetryInv' /\ PromiseStep /\ UNCHANGED agent /\ (UNCHANGED faults \/ Fault)
    <2>1. posts' \subseteq posts /\ UNCHANGED <<table, sensorVars, sensor, agent, faults>>
      BY <1>11 DEF PostDropped
    <2>2. TelemetryInv' /\ Stutters
      BY <2>1, SensorRests, SensorEndsInAStateOfIts DEF Stutters, sensorVars
    <2> QED
      BY <2>1, <2>2, StutteringIsAllowed
  <1>12. CASE CutoffMoves \/ DeleteTelemetryOlderThan
    <2>1. UNCHANGED <<agent, faults>>
      BY <1>12 DEF CutoffMoves, DeleteTelemetryOlderThan
    <2> QED
      BY <1>12, <2>1, RetentionKeeps, RetentionIsPromised
  <1> QED
    BY <1>1, <1>2, <1>3, <1>4, <1>5, <1>6, <1>7, <1>8, <1>9, <1>10, <1>11, <1>12
    DEF TelemetryNext, Serves

-----------------------------------------------------------------------------
(* The shipper's loop and the administrator.                               *)

LEMMA TelemetryRests ==
  ASSUME TelemetryInv, UNCHANGED telemetryVars
  PROVE  TelemetryInv' /\ Stutters
  <1>1. UNCHANGED <<sensorVars, table, sensor>> /\ posts' \subseteq posts
    BY DEF telemetryVars, serverVars
  <1>2. sensor' \in {"none", "running", "ended"}
    BY <1>1, SensorEndsInAStateOfIts
  <1> QED
    BY <1>1, <1>2, SensorRests DEF Stutters, sensorVars

LEMMA SensorStartsKeeps ==
  ASSUME TelemetryInv, SensorStarts
  PROVE  TelemetryInv' /\ Stutters
  <1>1. sensor' = "running" /\ UNCHANGED <<sensorVars, table>> /\ posts' \subseteq posts
    BY DEF SensorStarts, serverVars
  <1> QED
    BY <1>1, SensorRests DEF Stutters, sensorVars

LEMMA FaultsAreCounted ==
  ASSUME faults \in 0 .. MaxFaults, UNCHANGED faults \/ Fault
  PROVE  faults' \in 0 .. MaxFaults
  BY TelemetryAssumption DEF Fault

(* What any step does to the telemetry.                                    *)
LEMMA StepForTelemetry ==
  ASSUME TelemetryInv, [Next]_vars, agent \in BOOLEAN, faults \in 0 .. MaxFaults
  PROVE  TelemetryInv' /\ PromiseStep /\ agent' \in BOOLEAN /\ faults' \in 0 .. MaxFaults
  <1> USE TelemetryRests, StutteringIsAllowed
  <1>1. CASE UNCHANGED vars
    BY <1>1 DEF vars
  <1>2. CASE TelemetryNext
    BY <1>2, TelemetryStep, FaultsAreCounted
  <1>3. CASE Admin
    <2>1. UNCHANGED <<telemetryVars, faults>>
      BY <1>3 DEF Admin, Changes, AddPath, TogglePath, RemovePath, SwitchTelemetry,
                  DeletePaths, DeleteAgent
    <2>2. agent' = agent \/ agent' = FALSE
      BY <1>3, Zenon DEF Admin, AddPath, TogglePath, RemovePath, SwitchTelemetry,
                  DeletePaths, DeleteAgent, Changes
    <2>3. agent' \in BOOLEAN
      BY <2>2, Zenon
    <2> QED
      BY <2>1, <2>3
  <1>4. CASE Fetch \/ Authenticate \/ ReadPaths \/ ReadFlag \/ Unauthorized \/ Boot
    BY <1>4 DEF Fetch, Authenticate, ReadPaths, ReadFlag, Unauthorized, Boot
  <1>5. CASE FetchFails
    <2>1. UNCHANGED <<telemetryVars, agent>> /\ Fault
      BY <1>5 DEF FetchFails
    <2> QED
      BY <2>1, FaultsAreCounted
  <1>6. CASE Restart
    <2>1. SensorStops /\ Fault /\ UNCHANGED agent
      BY <1>6 DEF Restart
    <2>2. TelemetryInv' /\ Stutters
      BY <2>1, SensorStopsKeeps DEF Stutters
    <2> QED
      BY <2>1, <2>2, FaultsAreCounted
  <1>7. CASE Apply
    <2>1. /\ SensorStarts \/ SensorStops \/ UNCHANGED telemetryVars
          /\ UNCHANGED <<agent, faults>>
      BY <1>7 DEF Apply
    <2>2. TelemetryInv' /\ Stutters
      BY <2>1, SensorStartsKeeps, SensorStopsKeeps DEF Stutters
    <2> QED
      BY <2>1, <2>2
  <1> QED
    BY <1>1, <1>2, <1>3, <1>4, <1>5, <1>6, <1>7 DEF Next, Loop

LEMMA AdminKeepsConfig == ASSUME ConfigOK, Admin PROVE ConfigOK'
  <1> USE ShipperAssumption
  <1>1. CASE \E path \in Paths : AddPath(path)
    <2>1. PICK path \in Paths : AddPath(path)
      BY <1>1
    <2> DEFINE row == [id |-> lastRow + 1, path |-> path, enabled |-> TRUE]
    <2>2. /\ lastRow < MaxRows /\ lastRow' = lastRow + 1 /\ pathRows' = pathRows \cup {row}
          /\ changes < MaxChanges /\ changes' = changes + 1 /\ UNCHANGED <<allowed, deleting>>
      BY <2>1 DEF AddPath, Changes
    <2>3. lastRow + 1 \in 1 .. MaxRows
      BY <2>2 DEF ConfigOK
    <2>4. row \in PathRow
      BY <2>3, Zenon DEF PathRow
    <2>5. lastRow' \in 0 .. MaxRows /\ changes' \in 0 .. MaxChanges
      BY <2>2 DEF ConfigOK
    <2> HIDE DEF row
    <2> QED
      BY <2>2, <2>4, <2>5 DEF ConfigOK
  <1>2. ASSUME NEW row \in pathRows, TogglePath(row) PROVE ConfigOK'
    <2> DEFINE new == [row EXCEPT !.enabled = ~@]
    <2>1. /\ pathRows' = (pathRows \ {row}) \cup {new} /\ UNCHANGED <<lastRow, allowed, deleting>>
          /\ changes < MaxChanges /\ changes' = changes + 1
      BY <1>2 DEF TogglePath, Changes
    <2>2. row \in PathRow
      BY DEF ConfigOK
    <2>3. new \in PathRow
      BY <2>2 DEF PathRow
    <2> HIDE DEF new
    <2>4. changes' \in 0 .. MaxChanges
      BY <2>1 DEF ConfigOK
    <2> QED
      BY <2>1, <2>3, <2>4 DEF ConfigOK
  <1>3. ASSUME NEW row \in pathRows, RemovePath(row) PROVE ConfigOK'
    BY <1>3 DEF RemovePath, Changes, ConfigOK
  <1>4. CASE SwitchTelemetry
    <2>1. /\ allowed' = ~allowed /\ UNCHANGED <<pathRows, lastRow, deleting>>
          /\ changes < MaxChanges /\ changes' = changes + 1
      BY <1>4 DEF SwitchTelemetry, Changes
    <2>2. allowed' \in BOOLEAN
      BY <2>1, Zenon
    <2>3. changes' \in 0 .. MaxChanges
      BY <2>1 DEF ConfigOK
    <2> QED
      BY <2>1, <2>2, <2>3 DEF ConfigOK
  <1>5. CASE DeletePaths
    <2>1. /\ pathRows' = {} /\ deleting' = TRUE /\ UNCHANGED <<lastRow, allowed>>
          /\ changes < MaxChanges /\ changes' = changes + 1
      BY <1>5 DEF DeletePaths, Changes
    <2>2. deleting' \in BOOLEAN
      BY <2>1, Zenon
    <2>3. changes' \in 0 .. MaxChanges
      BY <2>1 DEF ConfigOK
    <2> QED
      BY <2>1, <2>2, <2>3 DEF ConfigOK
  <1>6. CASE DeleteAgent
    <2>1. deleting' = FALSE /\ UNCHANGED <<pathRows, lastRow, changes>>
          /\ (allowed' = allowed \/ allowed' = FALSE)
      BY <1>6, Zenon DEF DeleteAgent
    <2>2. deleting' \in BOOLEAN
      BY <2>1, Zenon
    <2>3. allowed \in BOOLEAN
      BY DEF ConfigOK
    <2>4. allowed' \in BOOLEAN
      BY <2>1, <2>3, Zenon
    <2> QED
      BY <2>1, <2>2, <2>4 DEF ConfigOK
  <1> QED
    BY <1>1, <1>2, <1>3, <1>4, <1>5, <1>6 DEF Admin

LEMMA AdminLeavesLoop == Admin => UNCHANGED loopVars
  BY DEF Admin, Changes, AddPath, TogglePath, RemovePath, SwitchTelemetry, DeletePaths, DeleteAgent

LEMMA LoopLeavesConfig == Fetch \/ Loop \/ FetchFails \/ Restart => UNCHANGED configVars
  BY DEF Fetch, Loop, Authenticate, ReadPaths, ReadFlag, Unauthorized, Boot, Apply,
         FetchFails, Restart

LEMMA LoopKeepsItsType == ASSUME ConfigOK, LoopOK, Fetch \/ Loop \/ FetchFails \/ Restart PROVE LoopOK'
  <1> DEFINE Pcs == {"off", "idle", "asking", "paths", "flag", "answered"}
             Answer == [paths : SUBSET Paths, telemetry : BOOLEAN]
  <1>1. NoAnswer \in Answer
    BY DEF NoAnswer
  <1>2. answer \in Answer /\ pc \in Pcs /\ booted \in BOOLEAN /\ watched \subseteq Paths
    BY DEF LoopOK
  <1>3. CASE Fetch
    <2>1. pc' = "asking" /\ answer' = NoAnswer /\ UNCHANGED <<booted, watched>>
      BY <1>3 DEF Fetch
    <2> QED
      BY <1>1, <1>2, <2>1 DEF LoopOK
  <1>4. CASE Authenticate
    BY <1>2, <1>4 DEF Authenticate, LoopOK
  <1>5. CASE ReadPaths
    <2>1. EnabledPaths \in SUBSET Paths
      BY DEF ConfigOK, PathRow, EnabledPaths
    <2>2. [answer EXCEPT !.paths = EnabledPaths] \in Answer
      BY <1>2, <2>1
    <2>3. answer' = [answer EXCEPT !.paths = EnabledPaths] /\ pc' = "flag"
          /\ UNCHANGED <<booted, watched>>
      BY <1>5 DEF ReadPaths, PathsRead
    <2> QED
      BY <1>2, <2>2, <2>3 DEF LoopOK
  <1>6. CASE ReadFlag
    <2>1. FlagRead \in BOOLEAN
      BY Zenon DEF ConfigOK, FlagRead
    <2>2. [answer EXCEPT !.telemetry = FlagRead] \in Answer
      BY <1>2, <2>1
    <2>3. answer' = [answer EXCEPT !.telemetry = FlagRead] /\ pc' = "answered"
          /\ UNCHANGED <<booted, watched>>
      BY <1>6 DEF ReadFlag
    <2> QED
      BY <1>2, <2>2, <2>3 DEF LoopOK
  <1>7. CASE Unauthorized \/ FetchFails
    <2>1. pc' \in Pcs /\ answer' = NoAnswer /\ UNCHANGED <<booted, watched>>
      BY <1>7 DEF Unauthorized, FetchFails, Back
    <2> QED
      BY <1>1, <1>2, <2>1 DEF LoopOK
  <1>8. CASE Boot
    <2>1. pc' = "idle" /\ answer' = NoAnswer /\ booted' = TRUE /\ UNCHANGED watched
      BY <1>8 DEF Boot
    <2>2. booted' \in BOOLEAN
      BY <2>1, Zenon
    <2> QED
      BY <1>1, <1>2, <2>1, <2>2 DEF LoopOK
  <1>9. CASE Apply
    <2>1. pc' \in Pcs /\ answer' = NoAnswer /\ UNCHANGED booted
          /\ watched' = Reconciled(answer.paths)
      BY <1>9 DEF Apply, Back
    <2>2. watched' \subseteq Paths
      BY <1>2, <2>1 DEF Reconciled
    <2> QED
      BY <1>1, <1>2, <2>1, <2>2 DEF LoopOK
  <1>10. CASE Restart
    <2>1. pc' = "off" /\ answer' = NoAnswer /\ booted' = FALSE /\ watched' = {}
      BY <1>10 DEF Restart
    <2>2. booted' \in BOOLEAN
      BY <2>1, Zenon
    <2> QED
      BY <1>1, <2>1, <2>2 DEF LoopOK
  <1> QED
    BY <1>3, <1>4, <1>5, <1>6, <1>7, <1>8, <1>9, <1>10 DEF Loop

LEMMA StepForShipper == ASSUME ConfigOK, LoopOK, [Next]_vars PROVE ConfigOK' /\ LoopOK'
  <1>1. UNCHANGED configVars => ConfigOK'
    BY DEF configVars, ConfigOK
  <1>2. UNCHANGED loopVars => LoopOK'
    BY DEF loopVars, LoopOK
  <1>3. CASE Admin
    BY <1>2, <1>3, AdminKeepsConfig, AdminLeavesLoop
  <1>4. CASE Fetch \/ Loop \/ FetchFails \/ Restart
    BY <1>1, <1>4, LoopKeepsItsType, LoopLeavesConfig
  <1>5. CASE UNCHANGED <<configVars, loopVars>>
    BY <1>1, <1>2, <1>5
  <1> QED
    BY <1>3, <1>4, <1>5 DEF Next, vars

-----------------------------------------------------------------------------
(* The theorems.                                                           *)

Inv ==
  /\ TelemetryInv /\ ConfigOK /\ LoopOK
  /\ agent \in BOOLEAN /\ faults \in 0 .. MaxFaults

LEMMA InvInit == Init => Inv
  <1> SUFFICES ASSUME Init PROVE Inv
    OBVIOUS
  <1>1. agent = TRUE /\ faults = 0 /\ TelemetryInit
    BY DEF Init
  <1>2. agent \in BOOLEAN
    BY <1>1, Zenon
  <1>3. faults \in 0 .. MaxFaults
    BY <1>1, TelemetryAssumption
  <1> QED
    BY <1>1, <1>2, <1>3, TelemetryInvInit, ConfigInit DEF Inv

LEMMA InvStep == Inv /\ [Next]_vars => Inv'
  BY StepForTelemetry, StepForShipper DEF Inv

LEMMA SpecInv == Spec => []Inv
  BY InvInit, InvStep, PTL DEF Spec

(* Every state of the shipper and of the telemetry is of its type: no      *)
(* retry goes beyond MAX_RETRIES, no request holds more than has happened. *)
THEOREM TypeCorrect == Spec => []TypeOK
  <1>1. Inv => TypeOK
    BY TypeIsParts, TelemetryTypeIsParts DEF Inv, TelemetryInv
  <1> QED
    BY <1>1, SpecInv, PTL

(* An event is in the ring buffer, in the batch, in the request or settled *)
(* as acknowledged or dropped, and never in two of these.                  *)
THEOREM EveryEventIsSomewhere == Spec => []EventsAccounted
  <1>1. Inv => EventsAccounted
    BY DEF Inv, TelemetryInv
  <1> QED
    BY <1>1, SpecInv, PTL

(* The pipeline of sensor, retries and chunked INSERTs implements          *)
(* Delivery: no second row for a content, no row that goes before it is    *)
(* past the retention, no acknowledgement of what was not taken in.        *)
THEOREM TelemetryDelivers == Spec => KeepsPromise
  <1>1. Init => Promise!Init
    BY DEF Init, TelemetryInit, Promise!Init
  <1>2. Inv /\ [Next]_vars => [Promise!Next]_(Promise!vars)
    BY StepForTelemetry DEF Inv, PromiseStep
  <1> QED
    BY <1>1, <1>2, SpecInv, PTL DEF Spec, KeepsPromise, Promise!Spec

-----------------------------------------------------------------------------
(* The slot of a kernel program: each program on its own.                  *)

LEMMA ExecTold ==
  ASSUME NEW slot \in Slot, NEW h \in Happening, h.kind = "exec"
  PROVE  ToWireEvent(ProcessExec(slot, h)) = Told(h)
  <1> USE EventSlotAssumption
  <1> DEFINE reset == [slot EXCEPT !.kind = "exec", !.exeLen = 0]
             read == ReadText(reset, h)
             after == ProcessExec(slot, h)
  <1>1. reset \in Slot /\ reset.kind = "exec" /\ reset.exeLen = 0
    BY DEF Slot, Kinds
  <1>2. after = ReadArgs(read, h)
    BY DEF ProcessExec, Reset
  <1>3. h.text \in Texts /\ h.args \in [1 .. MAX_ARGS -> Texts] /\ h.count \in 0 .. MAX_ARGS
        /\ h.readable \in BOOLEAN
    BY DEF Happening
  <1> HIDE DEF reset, after
  <1>4. /\ read \in Slot /\ read.kind = "exec"
        /\ h.readable => read.exe = h.text /\ read.exeLen = 1
        /\ ~ h.readable => read.exeLen = 0
    BY <1>1, <1>3 DEF ReadText, Slot, Buffer
  <1> HIDE DEF read
  <1>5. /\ after.kind = "exec" /\ after.exe = read.exe /\ after.exeLen = read.exeLen
        /\ after.argsLen = h.count
        /\ \A i \in 1 .. h.count : after.args[i] = h.args[i]
    BY <1>2, <1>3, <1>4 DEF ReadArgs, Slot
  <1>6. SplitArgs(after) = {<<i, h.args[i]>> : i \in 1 .. h.count}
    BY <1>5 DEF SplitArgs
  <1>7. ExeStr(after) = IF h.readable THEN {h.text} ELSE {}
    <2>1. CASE h.readable
      <3>1. after.exe = h.text /\ after.exeLen = 1
        BY <1>4, <1>5, <2>1
      <3>2. QED
        BY <2>1, <3>1 DEF ExeStr
    <2>2. CASE ~ h.readable
      <3>1. after.exeLen = 0
        BY <1>4, <1>5, <2>2
      <3>2. QED
        BY <2>2, <3>1 DEF ExeStr
    <2>3. QED
      BY <2>1, <2>2
  <1>8. ToWireEvent(after) =
          [kind |-> "exec", exe |-> ExeStr(after), argv |-> SplitArgs(after), address |-> <<>>]
    BY <1>5 DEF ToWireEvent, Nothing
  <1>9. Told(h) = [kind |-> "exec", exe |-> IF h.readable THEN {h.text} ELSE {},
                   argv |-> {<<i, h.args[i]>> : i \in 1 .. h.count}, address |-> <<>>]
    BY DEF Told
  <1>10. QED
    BY <1>6, <1>7, <1>8, <1>9 DEF after

LEMMA ConnectTold ==
  ASSUME NEW slot \in Slot, NEW h \in Happening, h.kind = "connect", h.family # "other"
  PROVE  ToWireEvent(NetworkConnect(slot, h)) = Told(h)
  <1> DEFINE after == NetworkConnect(slot, h)
  <1>1. h.family \in {"AF_INET", "AF_INET6"}
    BY DEF Happening, Families
  <1>2. /\ after.kind = "connect" /\ after.family = h.family /\ after.head = h.head
        /\ h.family = "AF_INET6" => after.tail = h.tail
    BY DEF NetworkConnect, Slot
  <1> HIDE DEF after
  <1>3. IpString(after) = IF h.family = "AF_INET" THEN <<h.head>> ELSE <<h.head, h.tail>>
    BY <1>1, <1>2 DEF IpString
  <1>4. ToWireEvent(after) = [kind |-> "connect", exe |-> {}, argv |-> {}, address |-> IpString(after)]
    BY <1>2 DEF ToWireEvent, Nothing
  <1>5. Told(h) =
          [kind |-> "connect", exe |-> {}, argv |-> {},
           address |-> IF h.family = "AF_INET" THEN <<h.head>> ELSE <<h.head, h.tail>>]
    BY DEF Told
  <1>6. QED
    BY <1>3, <1>4, <1>5 DEF after

LEMMA WriteTold ==
  ASSUME NEW slot \in Slot, NEW h \in Happening, h.kind = "write", h.readable
  PROVE  ToWireEvent(FileWrite(slot, h)) = Told(h)
  <1> DEFINE after == FileWrite(slot, h)
  <1>1. after.kind = "write" /\ after.exe = h.text /\ after.exeLen = 1
    BY DEF FileWrite, Slot
  <1> HIDE DEF after
  <1>2. ToWireEvent(after) = [kind |-> "write", exe |-> {h.text}, argv |-> {}, address |-> <<>>]
    <2>1. ExeStr(after) = {h.text}
      BY <1>1 DEF ExeStr
    <2>2. ToWireEvent(after) =
            [kind |-> "write", exe |-> ExeStr(after), argv |-> {}, address |-> <<>>]
      BY <1>1 DEF ToWireEvent, Nothing
    <2>3. QED
      BY <2>1, <2>2
  <1>3. Told(h) = [kind |-> "write", exe |-> {h.text}, argv |-> {}, address |-> <<>>]
    BY DEF Told
  <1>4. QED
    BY <1>2, <1>3 DEF after

LEMMA LoadTold ==
  ASSUME NEW slot \in Slot, NEW h \in Happening, h.kind = "load"
  PROVE  ToWireEvent(ModuleLoad(slot, h)) = Told(h)
  <1> DEFINE after == ModuleLoad(slot, h)
  <1>1. h.readable \in BOOLEAN
    BY DEF Happening
  <1>2. /\ after.kind = "load"
        /\ h.readable => after.exe = h.text /\ after.exeLen = 1
        /\ ~ h.readable => after.exeLen = 0
    BY <1>1 DEF ModuleLoad, ReadText, Slot
  <1> HIDE DEF after
  <1>3. ExeStr(after) = IF h.readable THEN {h.text} ELSE {}
    BY <1>1, <1>2 DEF ExeStr
  <1>4. ToWireEvent(after) = [kind |-> "load", exe |-> ExeStr(after), argv |-> {}, address |-> <<>>]
    BY <1>2 DEF ToWireEvent, Nothing
  <1>5. Told(h) = [kind |-> "load", exe |-> IF h.readable THEN {h.text} ELSE {},
                   argv |-> {}, address |-> <<>>]
    BY DEF Told
  <1>6. QED
    BY <1>3, <1>4, <1>5 DEF after

LEMMA EverythingTold == ToldAsItWas
  <1> SUFFICES ASSUME NEW slot \in Slot, NEW h \in Happening, Written(h)
               PROVE  ToWireEvent(Program(slot, h)) = Told(h)
    BY DEF ToldAsItWas
  <1>1. CASE h.kind = "exec"
    BY <1>1, ExecTold DEF Program
  <1>2. CASE h.kind = "connect"
    BY <1>2, ConnectTold DEF Program, Written
  <1>3. CASE h.kind = "write"
    BY <1>3, WriteTold DEF Program, Written
  <1>4. CASE h.kind = "load"
    BY <1>4, LoadTold DEF Program
  <1>5. h.kind \in Kinds
    BY DEF Happening
  <1>6. QED
    BY <1>1, <1>2, <1>3, <1>4, <1>5 DEF Kinds

(* The slot that all events of a CPU are built in: what is sent of an      *)
(* event is what could be read of it, for any content the slot had, any    *)
(* number of arguments and any texts.                                      *)
THEOREM NothingStaleIsSent == Spec => []NothingStale
  <1>1. NothingStale
    BY EverythingTold DEF NothingStale
  <1> QED
    BY <1>1, PTL
=============================================================================
