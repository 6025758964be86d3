------------------------------- MODULE Delivery -------------------------------
(***************************************************************************)
(* What delivery of telemetry promises, whatever is lost or sent twice on  *)
(* the way: a row is of something valid that happened, the same content    *)
(* never has two rows, a row goes only when it has expired, and what the   *)
(* sensor takes for delivered was taken in.  Not that everything is        *)
(* delivered, and not that an event has its row for the whole of its own   *)
(* retention: an event that found a row of its content shares the age of   *)
(* that row.                                                               *)
(***************************************************************************)
EXTENDS Integers

CONSTANTS
  Events,       \* what may happen on the host
  Contents,     \* what the server tells apart
  ContentOf,    \* ContentOf[e]: the content of event e
  Valid         \* the events the server does not filter out

VARIABLES
  happened,     \* the events so far
  rows,         \* rows[c]: how many rows have content c
  expired,      \* the contents whose row is past the retention
  taken,        \* the events for which there has been a row
  delivered     \* the events the sensor was told are stored

vars == <<happened, rows, expired, taken, delivered>>

Init ==
  /\ happened = {} /\ expired = {} /\ taken = {} /\ delivered = {}
  /\ rows = [c \in Contents |-> 0]

Happen(e) ==
  /\ happened' = happened \cup {e}
  /\ UNCHANGED <<rows, expired, taken, delivered>>

(* Some events get their row, those that do not have one yet.              *)
Store(S) ==
  /\ S \subseteq happened \cap Valid
  /\ rows' = [c \in Contents |-> IF \E e \in S : ContentOf[e] = c THEN 1 ELSE rows[c]]
  /\ taken' = taken \cup S
  /\ UNCHANGED <<happened, expired, delivered>>

(* The retention comes to an end for some rows.                            *)
Expire(C) ==
  /\ \A c \in C : rows[c] # 0
  /\ expired' = C
  /\ UNCHANGED <<happened, rows, taken, delivered>>

(* The rows that have expired go, and no other does.                       *)
Purge ==
  /\ rows' = [c \in Contents |-> IF c \in expired THEN 0 ELSE rows[c]]
  /\ expired' = {}
  /\ UNCHANGED <<happened, taken, delivered>>

Acknowledge(S) ==
  /\ S \subseteq happened /\ S \cap Valid \subseteq taken
  /\ delivered' = delivered \cup S
  /\ UNCHANGED <<happened, rows, expired, taken>>

Next ==
  \/ \E e \in Events : Happen(e)
  \/ \E S \in SUBSET Events : Store(S) \/ Acknowledge(S)
  \/ \E C \in SUBSET Contents : Expire(C)
  \/ Purge

Spec == Init /\ [][Next]_vars
=============================================================================
