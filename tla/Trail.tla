-------------------------------- MODULE Trail --------------------------------
(***************************************************************************)
(* What the audit log promises to those who read it: a trail that only     *)
(* grows, by one row at a time, each chained to the one before it, later   *)
(* in the order of the ids, and of an event that no earlier row is of.     *)
(* Not that every event gets a row, nor that the ids have no gaps.         *)
(***************************************************************************)
EXTENDS Integers, Sequences

CONSTANTS
  Start,       \* the prev_hash of the first row of all
  Unchained    \* the row_hash of rows from before the trail was chained

VARIABLE trail  \* the rows that a reader sees

Init == \A k \in 1 .. Len(trail) : trail[k].hash = Unchained

LastHash == IF trail = <<>> THEN Start ELSE trail[Len(trail)].hash

Follows(row) ==
  /\ row.prev = LastHash
  /\ row.hash = Append(row.prev, row.content)
  /\ \A k \in 1 .. Len(trail) :
       trail[k].id < row.id /\ trail[k].content.event # row.content.event

Record ==
  /\ Len(trail') > 0
  /\ LET row == trail'[Len(trail')]
     IN  trail' = Append(trail, row) /\ Follows(row)

Spec == Init /\ [][Record]_trail
=============================================================================
