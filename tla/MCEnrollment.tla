---- MODULE MCEnrollment ----
(* Constants for the TLC runs of Enrollment.                               *)
EXTENDS Enrollment

CONSTANTS s1, s2, t1, nat

(* Both shippers stand behind one address; a package allows for both.      *)
OneToken == [h \in Shippers |-> t1]
OneAddress == [h \in Shippers |-> nat]
OnePackage == {[uses |-> 2, days |-> 1]}
====
