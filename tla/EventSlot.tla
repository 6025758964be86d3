------------------------------- MODULE EventSlot -------------------------------
(***************************************************************************)
(* The four kernel programs of seclog-ebpf build every event in one slot   *)
(* per CPU, which keeps what earlier events left in it, also those that    *)
(* were given up half-way because a field could not be read.               *)
(* to_wire_event of ebpf_linux.rs turns the copy of the slot that the ring *)
(* buffer takes into what is sent.  These are operators, not a machine: a  *)
(* slot may hold anything when a program starts.                           *)
(*                                                                         *)
(* A buffer holds a text, and its length is 0 or that of the text.         *)
(***************************************************************************)
EXTENDS Integers

CONSTANTS
  Texts,        \* paths, names, arguments, addresses
  Zeros,        \* what a zeroed buffer holds
  MAX_ARGS      \* argument slots

ASSUME EventSlotAssumption == MAX_ARGS \in Nat /\ Zeros \notin Texts

Kinds == {"exec", "connect", "write", "load"}
Families == {"AF_INET", "AF_INET6", "other"}
Buffer == Texts \cup {Zeros}

(* args[i] is the i-th part of the buffer; args_len covers argsLen parts.  *)
(* An address is its first four bytes and the rest.                        *)
Slot == [kind : Kinds, exe : Buffer, exeLen : {0, 1},
         args : [1 .. MAX_ARGS -> Buffer], argsLen : 0 .. MAX_ARGS,
         family : Families, head : Buffer, tail : Buffer]

(* What a program is called for: its text can be read or not, `count`      *)
(* arguments can, and the record may end before its last field.            *)
Happening == [kind : Kinds, text : Texts, readable : BOOLEAN,
              args : [1 .. MAX_ARGS -> Texts], count : 0 .. MAX_ARGS,
              family : Families, head : Texts, tail : Texts, whole : BOOLEAN]

(* Every part that an argument is read into is overwritten in full.        *)
ReadArgs(slot, h) ==
  [slot EXCEPT !.args = [i \in 1 .. MAX_ARGS |-> IF i <= h.count THEN h.args[i] ELSE @[i]],
               !.argsLen = h.count]

(* exe_len is reset before the path is read.                               *)
BugReset(slot) == slot
Reset(slot) == [slot EXCEPT !.exeLen = 0]

ReadText(slot, h) ==
  IF h.readable THEN [slot EXCEPT !.exe = h.text, !.exeLen = 1] ELSE slot

ProcessExec(slot, h) == ReadArgs(ReadText(Reset([slot EXCEPT !.kind = "exec"]), h), h)

NetworkConnect(slot, h) ==
  [slot EXCEPT !.kind = "connect", !.family = h.family, !.head = h.head,
               !.tail = IF h.family = "AF_INET" THEN Zeros ELSE h.tail]

(* The watched path was read into a buffer of its own before.              *)
FileWrite(slot, h) == [slot EXCEPT !.kind = "write", !.exe = h.text, !.exeLen = 1]

ModuleLoad(slot, h) == ReadText([slot EXCEPT !.kind = "load", !.exe = Zeros, !.exeLen = 0], h)

Program(slot, h) ==
  CASE h.kind = "exec" -> ProcessExec(slot, h)
    [] h.kind = "connect" -> NetworkConnect(slot, h)
    [] h.kind = "write" -> FileWrite(slot, h)
    [] h.kind = "load" -> ModuleLoad(slot, h)

(* write_event is reached.                                                 *)
Written(h) ==
  CASE h.kind = "connect" -> h.whole /\ h.family # "other"
    [] h.kind = "write" -> h.whole /\ h.readable
    [] OTHER -> h.whole

-----------------------------------------------------------------------------
(* ebpf_linux.rs.                                                          *)

Nothing == [kind |-> "none", exe |-> {}, argv |-> {}, address |-> <<>>]

ExeStr(slot) == IF slot.exeLen = 0 THEN {} ELSE {slot.exe}
SplitArgs(slot) == {<<i, slot.args[i]>> : i \in 1 .. slot.argsLen}
IpString(slot) ==
  CASE slot.family = "AF_INET" -> <<slot.head>>
    [] slot.family = "AF_INET6" -> <<slot.head, slot.tail>>
    [] OTHER -> <<>>

ToWireEvent(slot) ==
  CASE slot.kind = "exec" ->
         [Nothing EXCEPT !.kind = "exec", !.exe = ExeStr(slot), !.argv = SplitArgs(slot)]
    [] slot.kind = "connect" -> [Nothing EXCEPT !.kind = "connect", !.address = IpString(slot)]
    [] OTHER -> [Nothing EXCEPT !.kind = slot.kind, !.exe = ExeStr(slot)]

-----------------------------------------------------------------------------
(* Properties.                                                             *)

(* What happened, as far as it could be read.                              *)
Told(h) ==
  [kind |-> h.kind,
   exe |-> IF h.kind # "connect" /\ h.readable THEN {h.text} ELSE {},
   argv |-> IF h.kind = "exec" THEN {<<i, h.args[i]>> : i \in 1 .. h.count} ELSE {},
   address |-> IF h.kind # "connect" THEN <<>>
               ELSE IF h.family = "AF_INET" THEN <<h.head>> ELSE <<h.head, h.tail>>]

(* Whatever the slot held, what is sent tells what happened: no event      *)
(* carries the path, the arguments or the address of an earlier one.       *)
ToldAsItWas ==
  \A slot \in Slot, h \in Happening : Written(h) => ToWireEvent(Program(slot, h)) = Told(h)
=============================================================================
