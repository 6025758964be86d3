------------------------------ MODULE AuditChain ------------------------------
(***************************************************************************)
(* The hash chain of audit_log: record_audit_event and                     *)
(* verify_audit_log_chain of src/db.rs.                                    *)
(*                                                                         *)
(* Several handlers record at once, each in a transaction of its own:      *)
(* SELECT the tip FOR UPDATE, INSERT, COMMIT.  The locks are InnoDB's at   *)
(* its default isolation level.  The locking SELECT reads the index from   *)
(* its end: it locks the gap behind the last row, which any number of      *)
(* transactions may share, and then the last row itself, which one may     *)
(* hold.  An INSERT first takes the next AUTO_INCREMENT id, for good, and  *)
(* then waits until no other transaction has that gap locked.              *)
(*                                                                         *)
(* SHA-256 is taken to be injective: a row_hash is the sequence of the     *)
(* contents it was computed from, row by row.                              *)
(***************************************************************************)
EXTENDS Integers, Sequences, FiniteSets

CONSTANTS
  Writers,     \* requests that may be recording at the same time
  Events,      \* what is to be recorded, each once
  Instants,    \* readings of the server's clock, in tenths of a second
  MaxPreChain, \* bound: rows written before the hash columns existed
  NoEvent

ASSUME AuditChainAssumption ==
  /\ NoEvent \notin Events
  /\ Instants \subseteq Nat
  /\ MaxPreChain \in Nat
  /\ IsFiniteSet(Events)

(* trunc_subsecs(0), and what a TIMESTAMP column keeps.                    *)
BugWholeSeconds(t) == t
WholeSeconds(t) == t - (t % 10)
ColumnValue(t) == t - (t % 10)

Content == [event : Events \cup {NoEvent}, at : Nat]
Digest == Seq(Content)
Row == [id : Nat \ {0}, content : Content, prev : Digest, hash : Digest]

NoContent == [event |-> NoEvent, at |-> 0]
Genesis == <<>>
NoHash == <<NoContent>>   \* the column's default '': written before the chain

(* hash_line(audit_hash_input(prev_hash, ...)).                            *)
BugHash(prevHash, c) == Append(prevHash, [c EXCEPT !.event = NoEvent])
Hash(prevHash, c) == Append(prevHash, c)

VARIABLES
  chain,    \* the rows of audit_log by id, one still uncommitted at most
  nextId,   \* the table's AUTO_INCREMENT counter
  pc,       \* pc[w]: "idle", "select", "wait", "insert", "placing" or "commit"
  content,  \* content[w]: what w is recording
  prev,     \* prev[w]: the prev_hash that w read
  newId,    \* newId[w]: the id its INSERT took
  gap,      \* transactions that hold a lock on the gap behind the last row
  todo,     \* events not yet recorded
  alerted,  \* events whose failure raised a [SYSTEM] alert
  dropped   \* history: events in flight when the server died

vars == <<chain, nextId, pc, content, prev, newId, gap, todo, alerted, dropped>>

PreChainRow(i) == [id |-> i, content |-> NoContent, prev |-> NoHash, hash |-> NoHash]

Init ==
  /\ \E n \in 0 .. MaxPreChain :
        /\ chain = [i \in 1 .. n |-> PreChainRow(i)]
        /\ nextId = n + 1
  /\ pc = [w \in Writers |-> "idle"]
  /\ content = [w \in Writers |-> NoContent]
  /\ prev = [w \in Writers |-> Genesis]
  /\ newId = [w \in Writers |-> 0]
  /\ gap = {} /\ todo = Events /\ alerted = {} /\ dropped = {}

-----------------------------------------------------------------------------
(* record_audit_event.                                                     *)

(* occurred_at is read from the clock before the transaction begins.       *)
Begin(w) ==
  /\ pc[w] = "idle"
  /\ \E e \in todo, t \in Instants :
        /\ content' = [content EXCEPT ![w] = [event |-> e, at |-> WholeSeconds(t)]]
        /\ todo' = todo \ {e}
  /\ pc' = [pc EXCEPT ![w] = "select"]
  /\ UNCHANGED <<chain, nextId, prev, newId, gap, alerted, dropped>>

BugLocked(w) == gap
Locked(w) == gap \cup {w}

(* SELECT ... FOR UPDATE, its lock on the gap.                             *)
LockGap(w) ==
  /\ pc[w] = "select"
  /\ gap' = Locked(w)
  /\ pc' = [pc EXCEPT ![w] = "wait"]
  /\ UNCHANGED <<chain, nextId, content, prev, newId, todo, alerted, dropped>>

(* Transactions past the SELECT hold the last row, if there is one.        *)
HoldsTip(v) == pc[v] \in {"insert", "placing", "commit"} /\ chain # <<>>

TipFree(w) == \A v \in Writers \ {w} : ~ HoldsTip(v)

TipHash == IF chain = <<>> THEN Genesis ELSE chain[Len(chain)].hash

(* SELECT ... FOR UPDATE, its lock on the row, and the row_hash it reads.  *)
ReadTip(w) ==
  /\ pc[w] = "wait" /\ TipFree(w)
  /\ prev' = [prev EXCEPT ![w] = TipHash]
  /\ pc' = [pc EXCEPT ![w] = "insert"]
  /\ UNCHANGED <<chain, nextId, content, newId, gap, todo, alerted, dropped>>

TakeId(w) ==
  /\ pc[w] = "insert"
  /\ newId' = [newId EXCEPT ![w] = nextId]
  /\ nextId' = nextId + 1
  /\ pc' = [pc EXCEPT ![w] = "placing"]
  /\ UNCHANGED <<chain, content, prev, gap, todo, alerted, dropped>>

(* The columns keep occurred_at to the second; the hash is of the value    *)
(* that was bound.                                                         *)
NewRow(w) ==
  [id |-> newId[w],
   content |-> [content[w] EXCEPT !.at = ColumnValue(@)],
   prev |-> prev[w],
   hash |-> Hash(prev[w], content[w])]

MayInsert(w) == gap \subseteq {w}

PlaceRow(w) ==
  /\ pc[w] = "placing" /\ MayInsert(w)
  /\ chain' = Append(chain, NewRow(w))
  /\ pc' = [pc EXCEPT ![w] = "commit"]
  /\ UNCHANGED <<nextId, content, prev, newId, gap, todo, alerted, dropped>>

BugReleased(w) == IF pc[w] = "placing" THEN gap ELSE gap \ {w}
Released(w) == gap \ {w}

(* tx.commit().  The answer may be lost: then the row is in the table and  *)
(* the failure is reported all the same.                                   *)
Commit(w) ==
  /\ pc[w] = "commit"
  /\ pc' = [pc EXCEPT ![w] = "idle"]
  /\ gap' = Released(w)
  /\ alerted' \in {alerted, alerted \cup {content[w].event}}
  /\ UNCHANGED <<chain, nextId, content, prev, newId, todo, dropped>>

RolledBack(w) ==
  IF pc[w] = "commit" THEN SubSeq(chain, 1, Len(chain) - 1) ELSE chain

BugAlertedAfter(w) == alerted
AlertedAfter(w) == alerted \cup {content[w].event}

(* No connection, a lock wait timeout, a lost connection, or the victim of *)
(* a deadlock: the transaction is rolled back, except for the counter.     *)
Fail(w) ==
  /\ pc[w] # "idle"
  /\ chain' = RolledBack(w)
  /\ pc' = [pc EXCEPT ![w] = "idle"]
  /\ gap' = Released(w)
  /\ alerted' = AlertedAfter(w)
  /\ UNCHANGED <<nextId, content, prev, newId, todo, dropped>>

(* The server process dies; MariaDB rolls its transactions back.           *)
Crash ==
  /\ \E w \in Writers : pc[w] # "idle"
  /\ chain' = IF \E w \in Writers : pc[w] = "commit"
              THEN SubSeq(chain, 1, Len(chain) - 1) ELSE chain
  /\ dropped' = dropped \cup {content[w].event : w \in {v \in Writers : pc[v] # "idle"}}
  /\ pc' = [w \in Writers |-> "idle"]
  /\ gap' = {}
  /\ UNCHANGED <<nextId, content, prev, newId, todo, alerted>>

(* w cannot insert before v lets go of the gap, and v waits for w in turn: *)
(* for the last row, or, in an empty table, for the same gap.              *)
Deadlock(w, v) ==
  /\ pc[w] = "placing" /\ v \in gap \ {w}
  /\ \/ pc[v] = "wait" /\ HoldsTip(w)
     \/ pc[v] = "placing"

BreakDeadlock ==
  \E w, v \in Writers : Deadlock(w, v) /\ (Fail(w) \/ Fail(v))

Step(w) ==
  LockGap(w) \/ ReadTip(w) \/ TakeId(w) \/ PlaceRow(w) \/ Commit(w)

Next ==
  \/ \E w \in Writers : Begin(w) \/ Step(w) \/ Fail(w)
  \/ Crash

Spec == Init /\ [][Next]_vars

(* The runtime polls every handler, MariaDB executes what it is sent and   *)
(* breaks the deadlocks it detects.                                        *)
Fairness ==
  /\ \A w \in Writers : WF_vars(Step(w))
  /\ WF_vars(BreakDeadlock)

FairSpec == Spec /\ Fairness

-----------------------------------------------------------------------------
(* verify_audit_log_chain: one SELECT of committed rows, then a walk.      *)

Committed ==
  IF \E w \in Writers : pc[w] = "commit"
  THEN SubSeq(chain, 1, Len(chain) - 1) ELSE chain

(* WHERE id >= since AND row_hash != '' ORDER BY id LIMIT limit: the rows  *)
(* of the walk, as indexes of rows.                                        *)
Selected(rows, since) ==
  {k \in 1 .. Len(rows) : rows[k].id >= since /\ rows[k].hash # NoHash}
Window(rows, since, limit) ==
  {k \in Selected(rows, since) :
     Cardinality({j \in Selected(rows, since) : j < k}) < limit}

(* j is visited right before k: last_id and expected_prev are j's.         *)
Precedes(j, k, window) ==
  /\ j \in window /\ k \in window /\ j < k
  /\ \A i \in window : ~ (j < i /\ i < k)

IdGap(rows, j, k) == rows[k].id # rows[j].id + 1
WrongPrev(rows, j, k) == rows[k].prev # rows[j].hash
WrongContent(rows, k) == Hash(rows[k].prev, rows[k].content) # rows[k].hash

Intact(rows, since, limit) ==
  LET window == Window(rows, since, limit)
  IN  /\ \A k \in window : ~ WrongContent(rows, k)
      /\ \A j, k \in window :
            Precedes(j, k, window) => ~ IdGap(rows, j, k) /\ ~ WrongPrev(rows, j, k)

-----------------------------------------------------------------------------
(* Properties.                                                             *)

(* Every variable has its type; one row at most is uncommitted, the last,  *)
(* however many recordings run at once.                                    *)
TypeOK ==
  /\ chain \in Seq(Row) /\ nextId \in Nat \ {0}
  /\ pc \in [Writers -> {"idle", "select", "wait", "insert", "placing", "commit"}]
  /\ content \in [Writers -> Content]
  /\ prev \in [Writers -> Digest] /\ newId \in [Writers -> Nat]
  /\ gap \subseteq Writers
  /\ todo \subseteq Events
  /\ alerted \subseteq Events /\ dropped \subseteq Events
  /\ \A v, w \in Writers : pc[v] = "commit" /\ pc[w] = "commit" => v = w

(* However recordings interleave, wait for each other, deadlock, fail or   *)
(* are cut short by a crash, the chain never forks and never holds a row   *)
(* whose hash is not that of what the table kept: a walk from any id, of   *)
(* any length, finds neither a wrong prev_hash nor a wrong row_hash.       *)
ChainNeverForks ==
  \A since, limit \in 1 .. nextId :
    LET window == Window(Committed, since, limit)
    IN  /\ \A k \in window : ~ WrongContent(Committed, k)
        /\ \A j, k \in window :
              Precedes(j, k, window) => ~ WrongPrev(Committed, j, k)

(* An event is in the table, or on its way, or a [SYSTEM] alert says that  *)
(* it was not written; only the death of the server loses one silently.    *)
(* And a gap in the ids, for which the verifier says that the table is not *)
(* intact (see UntouchedIsIntact), has a recording that failed behind it.  *)
EveryEventAccounted ==
  /\ \A e \in Events :
       \/ e \in todo \cup alerted \cup dropped
       \/ \E w \in Writers : pc[w] # "idle" /\ content[w].event = e
       \/ \E k \in 1 .. Len(Committed) : Committed[k].content.event = e
  /\ nextId - 1 - Len(chain) - Cardinality({w \in Writers : pc[w] = "placing"})
       <= Cardinality(alerted \cup dropped)

WithoutRow(rows, k) == SubSeq(rows, 1, k - 1) \o SubSeq(rows, k + 1, Len(rows))

(* What the chain is for: if the content of one chained row were different *)
(* from what was recorded, or one row between two others were missing, the *)
(* full walk would report it.                                              *)
ChangesAreDetected ==
  LET rows == Committed
      chained == Selected(rows, 1)
  IN  /\ \A k \in chained, e \in Events :
            e # rows[k].content.event =>
              ~ Intact([rows EXCEPT ![k].content.event = e], 1, Len(rows))
      /\ \A k \in chained :
            k - 1 \in chained /\ k < Len(rows) =>
              ~ Intact(WithoutRow(rows, k), 1, Len(rows))

(* db.rs:1903-1905, ARCHITECTURE.md:135-137: id sequentiality is "valid to *)
(* assert strictly here [...] since nothing ever deletes from this table", *)
(* so the full walk over a table nobody touched finds it intact, whatever  *)
(* recordings have failed.                                                 *)
UntouchedIsIntact == Intact(Committed, 1, nextId)

(* Whoever reads the table sees a Trail: although recorders run at once,   *)
(* roll back and die halfway, what has been read once is there ever after, *)
(* and what comes after it was chained to it, once for each event.         *)
Read == INSTANCE Trail WITH trail <- Committed, Start <- Genesis, Unchained <- NoHash

OnlyGrows == Read!Spec

(* Every handler that records an event gets on with its answer in the end: *)
(* recorders that wait for each other's locks do not wait forever.         *)
RecordingEnds == \A w \in Writers : (pc[w] # "idle") ~> (pc[w] = "idle")
=============================================================================
