---- MODULE MCLogStore ----
(* Constants for the TLC runs of LogStore.                                 *)
EXTENDS LogStore

OneDay == {[days |-> 1, rows |-> 1]}
TwoCaps == {[days |-> 1, rows |-> 1], [days |-> 1, rows |-> 2]}
====
