---- MODULE MCShipper ----
(* Constants for the TLC runs of Shipper.                                  *)
EXTENDS Shipper

CONSTANTS c1, c2, path1

(* The first and the last event differ only in their time.                 *)
SameContent == [e \in Events |-> IF e = 2 THEN c2 ELSE c1]
AllEvents == Events
====
