---- MODULE MCSyslog ----
(* Constants for the TLC run of Syslog, with the clocks of EventTime.      *)
EXTENDS Syslog

CONSTANTS blank, text, nohost, host

Widths == [f \in Families |-> IF f = "v4" THEN 2 ELSE 1]
V4(bits) == [family |-> "v4", bits |-> bits]
V6(bits) == [family |-> "v6", bits |-> bits]
Cidr(net, prefix) == [parses |-> TRUE, net |-> net, prefix |-> prefix]

TwoSources == {V4({0}), V4({1})}

(* Everybody; one of the two exactly, and a prefix that is too long; half  *)
(* of each family; nobody; and one the handler refuses.                    *)
SomeLists == {
  {Cidr(V4({0, 1}), 0)},
  {Cidr(V4({0}), NoPrefix), Cidr(V4({1}), 3)},
  {Cidr(V4({0, 1}), 1), Cidr(V6({0}), 1)},
  {},
  {[Cidr(V4({}), 2) EXCEPT !.parses = FALSE]}}

SomeLines == {
  [text |-> text, host |-> host, time |-> 1],
  [text |-> text, host |-> nohost, time |-> 2],
  [text |-> blank, host |-> nohost, time |-> 1]}

(* The turn of the years and of February.                                  *)
SomeClocks ==
  {[year |-> y, stamp |-> s] : y \in 2023 .. 2025,
     s \in [month : {1, 2, 3, 12}, day : {1, 28, 29, 31}, tick : 0 .. TICKS - 1]}
====
