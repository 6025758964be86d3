----------------------------- MODULE FileWatcher -----------------------------
(***************************************************************************)
(* The shipper's watch loop for one log file: watch_file and ship_line of  *)
(* src/bin/shipper/main.rs, with the read position it persists, the HTTP   *)
(* requests it sends, and the part of POST /logs (create_log, insert_log)  *)
(* that decides whether a line is new.                                     *)
(*                                                                         *)
(* A file is a sequence of chunks; one chunk stands for the bytes of one   *)
(* write.  A line is written whole, or as a head (no newline yet) and then *)
(* a tail that ends in the newline, so "the watcher polled mid-write" is a *)
(* state.  Sizes and read positions count chunks the way the code counts   *)
(* bytes.  Of a line's text only what becomes of it is kept: see KindOf.   *)
(***************************************************************************)
EXTENDS Integers, Sequences

CONSTANTS
  Texts,           \* the line texts a logging process may write
  KindOf,          \* KindOf[t]: what the shipper and the server make of text t
  Fragment,        \* the text of a line read from its middle, or torn
  Rotations,       \* what else happens to the file: a subset of {"rename", "truncate"}
  MaxAttempts,     \* MAX_RETRIES of ship_line
  MaxChunks,       \* bound: length of a file
  MaxInodes,       \* bound: files that ever exist at the watched path
  MaxTruncations,  \* bound: truncations of one file
  MaxFaults        \* bound: stops of the task and I/O errors

AllTexts == Texts \cup {Fragment}

(* event: parsed and accepted; own: the shipper's own output; blank:       *)
(* parse_line returns None; rejected: answered 400 (over 5000 characters). *)
Kinds == {"event", "own", "blank", "rejected"}

Parts == {"whole", "head", "tail"}
Chunk == [text : Texts, part : Parts]
Inodes == 1 .. MaxInodes
NoPosition == -1   \* the state file is missing, empty or unparseable

ASSUME FileWatcherAssumption ==
  /\ KindOf \in [AllTexts -> Kinds]
  /\ Fragment \notin Texts
  /\ MaxAttempts \in Nat \ {0}
  /\ MaxInodes \in Nat \ {0}
  /\ MaxChunks \in Nat /\ MaxTruncations \in Nat /\ MaxFaults \in Nat

VARIABLES
  \* the file system
  files,      \* files[i]: content of inode i
  cur,        \* the inode the watched path names, 0 when it names none
  made,       \* inodes created so far
  saved,      \* the state file: load_position / save_position
  \* the watch task
  pc,         \* "down", "open", "poll", "read", "await", "save" or "write"
  fd,         \* the inode its handle refers to
  position,   \* bytes consumed
  batch,      \* what BufReader holds from position on
  attempt,    \* ship_line's loop counter
  \* the request in flight and the server
  request,    \* "none", "sent", "unanswered", "ok" or "failed"
  late,       \* requests the task no longer waits for, still under way
  store,      \* texts in the logs table (line_hash is unique)
  alerts,     \* alerts[t]: how often trigger_alert was spawned for t
  \* history, read by properties only
  gen,        \* gen[i]: truncations of inode i
  start,      \* start[i]: where the last seek to End of inode i landed, if any did
  posMark,    \* the content that position was measured on: <<inode, gen>>
  savedMark,  \* the content that saved was measured on
  faults

fileVars == <<files, cur, made, gen>>
taskVars == <<pc, fd, position, batch, attempt, posMark>>
serverVars == <<store, alerts>>
vars == <<files, cur, made, saved, pc, fd, position, batch, attempt, request,
          late, store, alerts, gen, start, posMark, savedMark, faults>>

Mark(i) == <<i, gen[i]>>
NoMark == <<0, 0>>

Init ==
  /\ files = [i \in Inodes |-> <<>>]
  /\ cur = 1 /\ made = 1
  /\ saved = NoPosition
  /\ pc = "open" /\ fd = 0 /\ position = 0 /\ batch = <<>> /\ attempt = 0
  /\ request = "none" /\ late = {} /\ store = {}
  /\ alerts = [t \in AllTexts |-> 0]
  /\ gen = [i \in Inodes |-> 0] /\ start = [i \in Inodes |-> NoPosition]
  /\ posMark = NoMark /\ savedMark = NoMark /\ faults = 0

-----------------------------------------------------------------------------
(* The logging process and log rotation.                                   *)

(* c may follow content f: a line begun by a head is finished by its tail. *)
Follows(f, c) ==
  IF Len(f) > 0 /\ f[Len(f)].part = "head"
  THEN c.part = "tail" /\ c.text = f[Len(f)].text
  ELSE c.part # "tail"

Write ==
  /\ cur # 0 /\ Len(files[cur]) < MaxChunks
  /\ \E c \in Chunk :
        /\ Follows(files[cur], c)
        /\ files' = [files EXCEPT ![cur] = Append(@, c)]
  /\ UNCHANGED <<cur, made, saved, taskVars, request, late, serverVars, gen,
                 start, savedMark, faults>>

(* copytruncate: the same inode is emptied.                                *)
Truncate ==
  /\ "truncate" \in Rotations
  /\ cur # 0 /\ gen[cur] < MaxTruncations /\ Len(files[cur]) > 0
  /\ files' = [files EXCEPT ![cur] = <<>>]
  /\ gen' = [gen EXCEPT ![cur] = @ + 1]
  /\ start' = [start EXCEPT ![cur] = 0]
  /\ UNCHANGED <<cur, made, saved, taskVars, request, late, serverVars,
                 savedMark, faults>>

(* rename rotation: the file is moved away, then a fresh one is created.   *)
MoveAway ==
  /\ "rename" \in Rotations
  /\ cur # 0 /\ made < MaxInodes
  /\ cur' = 0
  /\ UNCHANGED <<files, made, gen, saved, taskVars, request, late, serverVars,
                 start, savedMark, faults>>

CreateFresh ==
  /\ cur = 0 /\ made < MaxInodes
  /\ made' = made + 1 /\ cur' = made + 1
  /\ UNCHANGED <<files, gen, saved, taskVars, request, late, serverVars,
                 start, savedMark, faults>>

-----------------------------------------------------------------------------
(* Reading: one pass over what is new.                                     *)

(* A chunk without '\n' is a line still being written.                     *)
BugLineEnds(b) == 1 .. Len(b)
LineEnds(b) == {n \in 1 .. Len(b) : b[n].part # "head"}
HasLine(b) == LineEnds(b) # {}
LineLen(b) == CHOOSE n \in LineEnds(b) : \A m \in LineEnds(b) : n <= m

LineText(b) ==
  LET n == LineLen(b)
      intact == \/ n = 1 /\ b[1].part = "whole"
                \/ n = 2 /\ b[2].part = "tail" /\ b[1].text = b[2].text
  IN  IF intact THEN b[n].text ELSE Fragment

DropLine(b) == SubSeq(b, LineLen(b) + 1, Len(b))

(* read_until reads on from the handle's own offset, once, when the bytes  *)
(* it holds have no newline.                                               *)
Filled ==
  IF HasLine(batch) THEN batch
  ELSE batch \o SubSeq(files[fd], position + Len(batch) + 1, Len(files[fd]))

(* File::open, then the saved position or else the end of the file.        *)
Open ==
  /\ pc = "open" /\ cur # 0
  /\ pc' = "poll" /\ fd' = cur
  /\ \/ /\ saved # NoPosition
        /\ position' = saved /\ posMark' = savedMark
        /\ UNCHANGED start
     \/ /\ saved = NoPosition
        /\ position' = Len(files[cur]) /\ posMark' = Mark(cur)
        /\ start' = [start EXCEPT ![cur] = Len(files[cur])]
  /\ UNCHANGED <<fileVars, saved, batch, attempt, request, late, serverVars,
                 savedMark, faults>>

(* fs::metadata(&path) fails: back to the outer loop.                      *)
LoseAccess ==
  /\ pc = "poll" /\ cur = 0
  /\ pc' = "open"
  /\ UNCHANGED <<fileVars, saved, fd, position, batch, attempt, posMark,
                 request, late, serverVars, start, savedMark, faults>>

BugHasNew(size, pos) == size > pos + 1
HasNew(size, pos) == size > pos

BugRotated(size) == size <= position
Rotated(size) == size < position

(* One wake-up of the inner loop: stat the path, reset the position if it  *)
(* shrank, seek and start reading if there is more.  The one-second sleep  *)
(* is the step from "poll" to "poll".                                      *)
Poll ==
  /\ pc = "poll" /\ cur # 0
  /\ LET size == Len(files[cur])
         pos == IF Rotated(size) THEN 0 ELSE position
     IN  /\ position' = pos
         /\ posMark' = IF Rotated(size) THEN Mark(fd) ELSE posMark
         /\ pc' = IF HasNew(size, pos) THEN "read" ELSE "poll"
  /\ UNCHANGED <<fileVars, saved, fd, batch, attempt, request, late,
                 serverVars, start, savedMark, faults>>

(* Genuine end of file, or an incomplete line: leave the rest for the next *)
(* poll.                                                                   *)
EndOfPass ==
  /\ pc = "read" /\ ~ HasLine(Filled)
  /\ pc' = "poll" /\ batch' = <<>>
  /\ UNCHANGED <<fileVars, saved, fd, position, attempt, posMark, request,
                 late, serverVars, start, savedMark, faults>>

(* position += bytes_read; what remains of the buffer follows.             *)
Advance(b) ==
  /\ position' = position + LineLen(b)
  /\ batch' = DropLine(b)
  /\ posMark' = IF posMark = Mark(fd) THEN posMark ELSE NoMark
  /\ pc' = "save"

(* looks_like_own_output, or a line parse_line makes nothing of.           *)
SkipLine ==
  /\ pc = "read" /\ HasLine(Filled)
  /\ KindOf[LineText(Filled)] \in {"own", "blank"}
  /\ Advance(Filled)
  /\ UNCHANGED <<fileVars, saved, fd, attempt, request, late, serverVars,
                 start, savedMark, faults>>

(* The first POST of ship_line.                                            *)
ShipLine ==
  /\ pc = "read" /\ HasLine(Filled)
  /\ KindOf[LineText(Filled)] \in {"event", "rejected"}
  /\ pc' = "await" /\ batch' = Filled
  /\ attempt' = 1 /\ request' = "sent"
  /\ UNCHANGED <<fileVars, saved, fd, position, posMark, late, serverVars,
                 start, savedMark, faults>>

Delivered == request = "ok"

ShipSucceeds ==
  /\ pc = "await" /\ Delivered
  /\ Advance(batch)
  /\ request' = "none" /\ attempt' = 0
  /\ UNCHANGED <<fileVars, saved, fd, late, serverVars, start, savedMark,
                 faults>>

MayRetry == attempt < MaxAttempts

Retry ==
  /\ pc = "await" /\ request = "failed" /\ MayRetry
  /\ attempt' = attempt + 1 /\ request' = "sent"
  /\ UNCHANGED <<fileVars, saved, pc, fd, position, batch, posMark, late,
                 serverVars, start, savedMark, faults>>

GiveUp ==
  /\ pc = "await" /\ request = "failed" /\ ~ MayRetry
  /\ pc' = "poll" /\ batch' = <<>>
  /\ request' = "none" /\ attempt' = 0
  /\ UNCHANGED <<fileVars, saved, fd, position, posMark, late, serverVars,
                 start, savedMark, faults>>

(* fs::write empties the state file and then writes the new position: two  *)
(* steps, either of which may fail with a warning.                         *)
SaveTruncates ==
  /\ pc = "save" /\ pc' = "write"
  /\ saved' = NoPosition /\ savedMark' = NoMark
  /\ UNCHANGED <<fileVars, fd, position, batch, attempt, posMark, request,
                 late, serverVars, start, faults>>

SaveWrites ==
  /\ pc = "write" /\ pc' = "read"
  /\ saved' = position /\ savedMark' = posMark
  /\ UNCHANGED <<fileVars, fd, position, batch, attempt, posMark, request,
                 late, serverVars, start, faults>>

SaveFails ==
  /\ pc \in {"save", "write"} /\ pc' = "read"
  /\ faults < MaxFaults /\ faults' = faults + 1
  /\ UNCHANGED <<fileVars, saved, fd, position, batch, attempt, posMark,
                 request, late, serverVars, start, savedMark>>

(* A read error ends the pass; a metadata or seek error reopens the file.  *)
IoError ==
  /\ \/ pc = "read" /\ pc' = "poll"
     \/ pc = "poll" /\ pc' = "open"
  /\ batch' = <<>>
  /\ faults < MaxFaults /\ faults' = faults + 1
  /\ UNCHANGED <<fileVars, saved, fd, position, attempt, posMark, request,
                 late, serverVars, start, savedMark>>

(* The shipper dies, or its reconcile loop aborts the task: memory is      *)
(* lost, the state file and a request already on the wire are not.         *)
Stop ==
  /\ pc # "down" /\ pc' = "down"
  /\ faults < MaxFaults /\ faults' = faults + 1
  /\ fd' = 0 /\ position' = 0 /\ batch' = <<>> /\ attempt' = 0
  /\ posMark' = NoMark /\ request' = "none"
  /\ late' = IF request = "sent" THEN late \cup {LineText(batch)} ELSE late
  /\ UNCHANGED <<fileVars, saved, serverVars, start, savedMark>>

Restart ==
  /\ pc = "down" /\ pc' = "open"
  /\ UNCHANGED <<fileVars, saved, fd, position, batch, attempt, posMark,
                 request, late, serverVars, start, savedMark, faults>>

-----------------------------------------------------------------------------
(* The network and the server.                                             *)

(* rows_affected() > 0 of the INSERT IGNORE: only a new row raises an      *)
(* alert.                                                                  *)
BugNewlyInserted(t) == TRUE
NewlyInserted(t) == t \notin store

Ingest(t) ==
  /\ store' = store \cup {t}
  /\ alerts' = IF NewlyInserted(t) THEN [alerts EXCEPT ![t] = @ + 1] ELSE alerts

ServerAccepts ==
  /\ request = "sent" /\ KindOf[LineText(batch)] = "event"
  /\ Ingest(LineText(batch))
  /\ request' \in {"ok", "unanswered"}
  /\ UNCHANGED <<fileVars, saved, taskVars, late, start, savedMark, faults>>

(* 400, 401, 500, or no connection at all.                                 *)
ServerRefuses ==
  /\ request = "sent" /\ request' = "failed"
  /\ UNCHANGED <<fileVars, saved, taskVars, late, serverVars, start,
                 savedMark, faults>>

(* The client's 15 seconds pass; the request itself may still arrive.      *)
TimeOut ==
  /\ request \in {"sent", "unanswered"} /\ request' = "failed"
  /\ late' = IF request = "sent" THEN late \cup {LineText(batch)} ELSE late
  /\ UNCHANGED <<fileVars, saved, taskVars, serverVars, start, savedMark,
                 faults>>

LateArrives(t) ==
  /\ t \in late /\ late' = late \ {t}
  /\ IF KindOf[t] = "event" THEN Ingest(t) ELSE UNCHANGED serverVars
  /\ UNCHANGED <<fileVars, saved, taskVars, request, start, savedMark, faults>>

LateLost(t) ==
  /\ t \in late /\ late' = late \ {t}
  /\ UNCHANGED <<fileVars, saved, taskVars, request, serverVars, start,
                 savedMark, faults>>

Environment ==
  \/ Write \/ Truncate \/ MoveAway \/ CreateFresh
  \/ SaveFails \/ IoError \/ Stop
  \/ ServerRefuses \/ TimeOut
  \/ \E t \in AllTexts : LateArrives(t) \/ LateLost(t)

Watcher ==
  \/ Open \/ LoseAccess \/ Poll \/ EndOfPass \/ SkipLine \/ ShipLine
  \/ ShipSucceeds \/ Retry \/ GiveUp \/ SaveTruncates \/ SaveWrites

Next == Environment \/ Watcher \/ Restart \/ ServerAccepts

Spec == Init /\ [][Next]_vars

(* The task is polled by its runtime and the init system restarts the      *)
(* shipper; the 15-second client timeout fires; a server that is asked     *)
(* again and again answers in time at last.  Nothing is assumed of the     *)
(* logging process, of rotation or of faults.                              *)
Fairness ==
  /\ WF_vars(Watcher) /\ WF_vars(Restart) /\ WF_vars(TimeOut)
  /\ SF_vars(ServerAccepts /\ request' = "ok")

FairSpec == Spec /\ Fairness

-----------------------------------------------------------------------------
(* Properties.                                                             *)

(* Every variable has its type; in particular ship_line never goes beyond  *)
(* MAX_RETRIES attempts.                                                   *)
TypeOK ==
  /\ files \in [Inodes -> Seq(Chunk)]
  /\ cur \in 0 .. MaxInodes /\ made \in Inodes
  /\ saved \in Nat \cup {NoPosition}
  /\ pc \in {"down", "open", "poll", "read", "await", "save", "write"}
  /\ fd \in 0 .. MaxInodes
  /\ position \in Nat /\ batch \in Seq(Chunk) /\ attempt \in 0 .. MaxAttempts
  /\ request \in {"none", "sent", "unanswered", "ok", "failed"}
  /\ late \subseteq AllTexts /\ store \subseteq AllTexts
  /\ alerts \in [AllTexts -> Nat]
  /\ gen \in [Inodes -> Nat] /\ start \in [Inodes -> Nat \cup {NoPosition}]
  /\ posMark \in (0 .. MaxInodes) \X Nat
  /\ savedMark \in (0 .. MaxInodes) \X Nat
  /\ faults \in 0 .. MaxFaults

(* The text of the line that ends with chunk k of inode i, when the line   *)
(* begins behind the last seek to the end.                                 *)
WholeLineAt(i, k) ==
  /\ k > start[i]
  /\ \/ files[i][k].part = "whole"
     \/ files[i][k].part = "tail" /\ k - 1 > start[i]

Covers(i, n) ==
  \A k \in 1 .. n :
     /\ WholeLineAt(i, k)
     /\ KindOf[files[i][k].text] \in {"event", "rejected"}
     => files[i][k].text \in store

(* Whatever is retried, lost, answered late, interrupted or restarted, the *)
(* read position, in memory and in the state file, never has a line behind *)
(* it that the server did not store (and that the watcher should ship):    *)
(* it only moves over confirmed lines, and a line the server rejects is    *)
(* never passed.  It is claimed of the content the position was measured   *)
(* on: a position kept across a truncation means nothing to the new one.   *)
PositionCoversOnlyDelivered ==
  /\ fd # 0 /\ posMark = Mark(fd) => Covers(fd, position)
  /\ LET i == savedMark[1]
     IN  i # 0 /\ savedMark = Mark(i) /\ saved # NoPosition => Covers(i, saved)

(* Each distinct line raises its alert at most once, even when it is sent  *)
(* again after a lost answer, a restart or a rotation.                     *)
AlertedAtMostOnce == \A t \in AllTexts : alerts[t] <= 1

(* While the path still names the content the position was measured on,    *)
(* a poll never takes the file for rotated and starts over.                *)
NoFalseReset ==
  [][pc = "poll" /\ cur # 0 /\ fd = cur /\ posMark = Mark(cur) /\ pc' # "down"
     => position' >= position]_vars

(* Every event line appended behind the point where the watch began is     *)
(* stored in the end, through any bounded number of stops, refused         *)
(* requests and lost answers, as long as the file is not rotated: what is  *)
(* moved away or truncated before it was read is not read any more.        *)
NeverRotated == made = 1 /\ gen[1] = 0
EveryEventDelivered ==
  <>[](cur # 0 /\ NeverRotated =>
         \A k \in 1 .. Len(files[cur]) :
            WholeLineAt(cur, k) /\ KindOf[files[cur][k].text] = "event"
            => files[cur][k].text \in store)
=============================================================================
