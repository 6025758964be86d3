------------------------------- MODULE LogStore -------------------------------
(***************************************************************************)
(* The logs table and the three parties that share it: concurrent inserts  *)
(* (insert_log), the hourly checkpoint loop (create_log_checkpoint, and    *)
(* the status list_log_checkpoints_with_status derives) and the            *)
(* 15-minute retention loop, with or without archiving (archive.rs).       *)
(*                                                                         *)
(* A row is its id: line_hash never changes once written and no two rows   *)
(* share one, so the hash of a range stands for the set of ids in it.      *)
(* Every SQL statement is one step; between two steps of a loop the others *)
(* take theirs.  Time is counted in days, the unit of log_retention_days.  *)
(***************************************************************************)
EXTENDS Integers, Sequences, FiniteSets

CONSTANTS
  Settings,    \* the (days, rows) pairs an administrator may choose
  MaxId,       \* bound: ids ever allocated
  MaxDay,      \* bound: days that pass
  MaxFaults    \* bound: crashes and failing statements

Ids == 1 .. MaxId
Setting == [days : Nat \ {0}, rows : Nat \ {0}]

(* update_settings refuses a retention below one day and a cap below 1000. *)
ASSUME LogStoreAssumption ==
  /\ Settings \subseteq Setting
  /\ Settings # {}
  /\ MaxId \in Nat /\ MaxDay \in Nat /\ MaxFaults \in Nat

VARIABLES
  rows,        \* ids of the committed rows of logs
  inflight,    \* ids taken by INSERTs that have not committed
  nextId,      \* AUTO_INCREMENT
  created,     \* created[r]: the day r's INSERT began (created_at)
  today,
  setting,     \* log_retention_days and max_log_rows
  enabled,     \* archiving is configured and enabled
  archived,    \* ids uploaded to the archive
  \* the checkpoint loop
  cpc,         \* "sleep", "max", "hashes" or "store"
  from, upto,  \* range_start, max_id
  hashed,      \* the ids whose line_hash it read
  pending,     \* history: ids of that range in flight when it read them
  checkpoints, \* log_checkpoints, oldest first
  \* the retention loop
  rpc,         \* "sleep", "age", "ageUpload", "ageDelete", "cap", "capUpload", "capDelete"
  days, cap,   \* the settings it read
  selected,    \* the rows it selected for the archive
  archiving,   \* whether this purge archives first
  since,       \* history: what changed since that selection
  faults

insertVars == <<rows, inflight, nextId, created>>
checkpointVars == <<cpc, from, upto, hashed, pending, checkpoints>>
configVars == <<setting, enabled>>
retentionVars == <<rpc, days, cap, selected, archiving, since>>
vars == <<rows, inflight, nextId, created, today, setting, enabled, archived,
          cpc, from, upto, hashed, pending, checkpoints,
          rpc, days, cap, selected, archiving, since, faults>>

Init ==
  /\ rows = {} /\ inflight = {} /\ nextId = 1
  /\ created = [r \in Ids |-> 0] /\ today = 0
  /\ setting \in Settings /\ enabled \in BOOLEAN /\ archived = {}
  /\ cpc = "sleep" /\ from = 0 /\ upto = 0 /\ hashed = {} /\ pending = {}
  /\ checkpoints = <<>>
  /\ rpc = "sleep" /\ days = 0 /\ cap = 0 /\ selected = {} /\ archiving = FALSE
  /\ since = {} /\ faults = 0

-----------------------------------------------------------------------------
(* insert_log: an id when the INSERT begins, a row when it commits.        *)

(* What happens between a selection and the deletion is noted.             *)
Note(what) ==
  /\ since' = IF rpc \in {"sleep", "age", "cap"} THEN {} ELSE since \cup {what}
  /\ UNCHANGED <<rpc, days, cap, selected, archiving>>

BeginInsert ==
  /\ nextId \in Ids
  /\ inflight' = inflight \cup {nextId}
  /\ created' = [created EXCEPT ![nextId] = today]
  /\ nextId' = nextId + 1
  /\ UNCHANGED <<rows, today, configVars, archived, checkpointVars,
                 retentionVars, faults>>

CommitInsert(r) ==
  /\ r \in inflight
  /\ inflight' = inflight \ {r}
  /\ rows' = rows \cup {r}
  /\ Note("insert")
  /\ UNCHANGED <<nextId, created, today, configVars, archived, checkpointVars,
                 faults>>

(* INSERT IGNORE met the line_hash of an older row, or failed.             *)
AbandonInsert(r) ==
  /\ r \in inflight
  /\ inflight' = inflight \ {r}
  /\ UNCHANGED <<rows, nextId, created, today, configVars, archived,
                 checkpointVars, retentionVars, faults>>

Midnight ==
  /\ today < MaxDay
  /\ today' = today + 1
  /\ Note("midnight")
  /\ UNCHANGED <<insertVars, configVars, archived, checkpointVars, faults>>

UpdateSettings ==
  /\ setting' \in Settings
  /\ enabled' \in BOOLEAN
  /\ configVars' # configVars
  /\ UNCHANGED <<insertVars, today, archived, checkpointVars, retentionVars,
                 faults>>

-----------------------------------------------------------------------------
(* create_log_checkpoint.                                                  *)

LastEnd ==
  IF checkpoints = <<>> THEN 0 ELSE checkpoints[Len(checkpoints)].upto

BugRangeStart == IF LastEnd = 0 THEN 1 ELSE LastEnd
RangeStart == LastEnd + 1

CheckpointBegins ==
  /\ cpc = "sleep" /\ cpc' = "max"
  /\ from' = RangeStart
  /\ UNCHANGED <<insertVars, today, configVars, archived, upto, hashed, pending,
                 checkpoints, retentionVars, faults>>

(* The hour's work is over: its locals go out of scope.                    *)
CheckpointEnds ==
  /\ cpc' = "sleep"
  /\ from' = 0 /\ upto' = 0 /\ hashed' = {} /\ pending' = {}
  /\ UNCHANGED <<insertVars, today, configVars, archived>>

(* max_id is absent, or below range_start.                                 *)
BugNothingNew == \A r \in rows : r <= from
NothingNew == \A r \in rows : r < from

CheckpointSkips ==
  /\ cpc = "max" /\ NothingNew
  /\ CheckpointEnds
  /\ UNCHANGED <<checkpoints, retentionVars, faults>>

MaxRow == CHOOSE m \in rows : \A r \in rows : r <= m

CheckpointReadsMax ==
  /\ cpc = "max" /\ ~ NothingNew
  /\ cpc' = "hashes" /\ upto' = MaxRow
  /\ UNCHANGED <<insertVars, today, configVars, archived, from, hashed, pending,
                 checkpoints, retentionVars, faults>>

BugInRange(r) == from <= r
InRange(r) == from <= r /\ r <= upto

CheckpointReadsHashes ==
  /\ cpc = "hashes" /\ cpc' = "store"
  /\ hashed' = {r \in rows : InRange(r)}
  /\ pending' = {r \in inflight : from <= r /\ r <= upto}
  /\ UNCHANGED <<insertVars, today, configVars, archived, from, upto,
                 checkpoints, retentionVars, faults>>

CheckpointStored ==
  /\ cpc = "store"
  /\ checkpoints' = Append(checkpoints,
       [from |-> from, upto |-> upto, count |-> Cardinality(hashed),
        hash |-> hashed, pending |-> pending])
  /\ CheckpointEnds
  /\ UNCHANGED <<retentionVars, faults>>

(* Any of its statements fails: the loop sleeps and starts over.           *)
CheckpointFails ==
  /\ cpc # "sleep" /\ CheckpointEnds
  /\ faults < MaxFaults /\ faults' = faults + 1
  /\ UNCHANGED <<checkpoints, retentionVars>>

(* The status the dashboard shows of a checkpoint.                         *)
Status(cp) ==
  LET now == {r \in rows : cp.from <= r /\ r <= cp.upto}
  IN  IF Cardinality(now) < cp.count THEN "unverifiable"
      ELSE IF Cardinality(now) = cp.count /\ now = cp.hash THEN "verified"
      ELSE "broken"

-----------------------------------------------------------------------------
(* The retention loop: by age, then by row count.                          *)

(* created_at < NOW() - INTERVAL days DAY.                                 *)
BugExpired == {r \in rows : created[r] < today - days - 1}
Expired == {r \in rows : created[r] < today - days}

(* id <= the id of the row behind the newest cap rows.                     *)
BugBeyondCap == {r \in rows : Cardinality({s \in rows : s > r}) >= cap - 1}
BeyondCap == {r \in rows : Cardinality({s \in rows : s > r}) >= cap}

RetentionBegins ==
  /\ rpc = "sleep" /\ rpc' = "age"
  /\ days' = setting.days /\ cap' = setting.rows
  /\ UNCHANGED <<insertVars, today, configVars, archived, checkpointVars,
                 selected, archiving, since, faults>>

(* A purge is over; after the second one the loop sleeps.                  *)
PurgeEnds ==
  /\ selected' = {} /\ archiving' = FALSE /\ since' = {}
  /\ \/ rpc \in {"age", "ageUpload", "ageDelete"} /\ rpc' = "cap"
        /\ UNCHANGED <<days, cap>>
     \/ rpc \in {"cap", "capUpload", "capDelete"} /\ rpc' = "sleep"
        /\ days' = 0 /\ cap' = 0

(* The archive configuration, and, with nothing in between that depends on *)
(* it, the rows to archive when archiving is on.                           *)
Select(doomed, upload, delete) ==
  /\ \/ /\ ~ enabled
        /\ rpc' = delete
        /\ UNCHANGED <<days, cap, selected, archiving, since>>
     \/ /\ enabled /\ doomed # {}
        /\ rpc' = upload /\ archiving' = TRUE /\ selected' = doomed
        /\ UNCHANGED <<days, cap, since>>
     \/ enabled /\ doomed = {} /\ PurgeEnds
  /\ UNCHANGED <<insertVars, today, configVars, archived, checkpointVars, faults>>

AgeSelects == rpc = "age" /\ Select(Expired, "ageUpload", "ageDelete")
CapSelects == rpc = "cap" /\ Select(BeyondCap, "capUpload", "capDelete")

(* upload_archive, then record_archive_result, whose failure is ignored.   *)
UploadSucceeds ==
  /\ \/ rpc = "ageUpload" /\ rpc' = "ageDelete"
     \/ rpc = "capUpload" /\ rpc' = "capDelete"
  /\ archived' = archived \cup selected
  /\ UNCHANGED <<insertVars, today, configVars, checkpointVars, days, cap,
                 selected, archiving, since, faults>>

BugAfterFailedUpload ==
  /\ rpc' = IF rpc = "ageUpload" THEN "ageDelete" ELSE "capDelete"
  /\ UNCHANGED <<days, cap, selected, archiving, since>>
AfterFailedUpload == PurgeEnds

UploadFails ==
  /\ rpc \in {"ageUpload", "capUpload"}
  /\ AfterFailedUpload
  /\ UNCHANGED <<insertVars, today, configVars, archived, checkpointVars, faults>>

(* delete_logs_older_than: the cutoff is computed anew.                    *)
AgeDeletes ==
  /\ rpc = "ageDelete" /\ PurgeEnds
  /\ rows' = rows \ Expired
  /\ UNCHANGED <<inflight, nextId, created, today, configVars, archived,
                 checkpointVars, faults>>

(* enforce_max_log_rows: the cutoff is computed anew.                      *)
CapDeletes ==
  /\ rpc = "capDelete" /\ PurgeEnds
  /\ rows' = rows \ BeyondCap
  /\ UNCHANGED <<inflight, nextId, created, today, configVars, archived,
                 checkpointVars, faults>>

(* A statement fails: that purge is over, the loop goes on.                *)
RetentionFails ==
  /\ rpc \in {"age", "ageDelete", "cap", "capDelete"} /\ PurgeEnds
  /\ faults < MaxFaults /\ faults' = faults + 1
  /\ UNCHANGED <<insertVars, today, configVars, archived, checkpointVars>>

(* The server dies and is started again; statements under way at MariaDB   *)
(* finish or not as they would have.                                       *)
Crash ==
  /\ cpc # "sleep" \/ rpc # "sleep"
  /\ CheckpointEnds
  /\ rpc' = "sleep" /\ days' = 0 /\ cap' = 0
  /\ selected' = {} /\ archiving' = FALSE /\ since' = {}
  /\ faults < MaxFaults /\ faults' = faults + 1
  /\ UNCHANGED checkpoints

Checkpointing ==
  \/ CheckpointBegins \/ CheckpointSkips \/ CheckpointReadsMax
  \/ CheckpointReadsHashes \/ CheckpointStored

(* The steps of the loop that end in bounded time: all but the upload.     *)
Statements ==
  \/ RetentionBegins \/ AgeSelects \/ CapSelects \/ AgeDeletes \/ CapDeletes

Retention == Statements \/ UploadSucceeds \/ UploadFails

Environment ==
  \/ BeginInsert \/ \E r \in Ids : CommitInsert(r) \/ AbandonInsert(r)
  \/ Midnight \/ UpdateSettings
  \/ CheckpointFails \/ RetentionFails \/ Crash

Next == Checkpointing \/ Retention \/ Environment

Spec == Init /\ [][Next]_vars

(* Both loops run as long as the server does, and a statement ends.  Of an *)
(* upload nothing is assumed: one to S3 ends after 60 seconds, but one     *)
(* over SFTP has no timeout and waits for as long as the other side does.  *)
Fairness == WF_vars(Checkpointing) /\ WF_vars(Statements)

FairSpec == Spec /\ Fairness

-----------------------------------------------------------------------------
(* Properties.                                                             *)

Checkpoint == [from : Nat, upto : Nat, count : Nat, hash : SUBSET Ids, pending : SUBSET Ids]

(* Every variable has its type; ids are handed out once, and the loop that *)
(* writes checkpoints keeps their ranges consecutive.                      *)
TypeOK ==
  /\ rows \subseteq Ids /\ inflight \subseteq Ids /\ rows \cap inflight = {}
  /\ nextId \in 1 .. MaxId + 1
  /\ \A r \in rows \cup inflight : r < nextId
  /\ created \in [Ids -> 0 .. MaxDay] /\ today \in 0 .. MaxDay
  /\ setting \in Settings /\ enabled \in BOOLEAN /\ archived \subseteq Ids
  /\ cpc \in {"sleep", "max", "hashes", "store"}
  /\ from \in Nat /\ upto \in Nat
  /\ hashed \subseteq Ids /\ pending \subseteq Ids
  /\ checkpoints \in Seq(Checkpoint)
  /\ \A i \in 1 .. Len(checkpoints) :
        checkpoints[i].from = IF i = 1 THEN 1 ELSE checkpoints[i - 1].upto + 1
  /\ rpc \in {"sleep", "age", "ageUpload", "ageDelete", "cap", "capUpload", "capDelete"}
  /\ days \in Nat /\ cap \in Nat /\ selected \subseteq Ids /\ archiving \in BOOLEAN
  /\ since \subseteq {"insert", "midnight"}
  /\ faults \in 0 .. MaxFaults

(* However inserts, purges and checkpoints interleave, a checkpoint whose  *)
(* status is not "verified" has a cause: "unverifiable" means that a row   *)
(* it hashed was deleted since, and "broken" that a row of its range was   *)
(* inserted while the checkpoint was computed.  The second contradicts     *)
(* db.rs:380-382 ("ids in a fixed range never grow after the fact"): an id *)
(* is taken before its row is committed, so the range can grow, and then   *)
(* "broken" is shown although nobody tampered with anything; if retention  *)
(* has taken another row of the range, against db.rs:336-340 as well.      *)
StatusHasCause ==
  \A i \in 1 .. Len(checkpoints) :
    LET cp == checkpoints[i]
    IN  /\ Status(cp) = "unverifiable" => ~ (cp.hash \subseteq rows)
        /\ Status(cp) = "broken" => cp.pending \cap rows # {}

(* A row that lies behind the last checkpoint is in the hash of exactly    *)
(* one, unless it was still being inserted when that one was computed.     *)
EveryRowInOneCheckpoint ==
  \A r \in rows : r <= LastEnd =>
    \E i \in 1 .. Len(checkpoints) :
      /\ r \in checkpoints[i].hash \cup checkpoints[i].pending
      /\ \A j \in 1 .. Len(checkpoints) : r \in checkpoints[j].hash => j = i

(* The row cap deletes the oldest rows and no more than needed: whatever   *)
(* is inserted or expires meanwhile, a purge that deletes anything leaves  *)
(* exactly the cap, all of it newer than what it deleted.                  *)
CapKeepsTheNewest ==
  [][rpc = "capDelete" /\ rows' # rows /\ inflight' = inflight =>
       /\ Cardinality(rows') = cap
       /\ \A r \in rows \ rows', s \in rows' : r < s]_vars

(* A row that a purge deletes while archiving is on is in the archive,     *)
(* unless a row arrived or the day turned between the selection and the    *)
(* deletion; in particular nothing is deleted behind a failed upload.      *)
OnlyTheWindowLosesRows ==
  [][archiving /\ since = {} => rows \ rows' \subseteq archived]_vars

(* One upload never ends, or uploads fail for ever.                        *)
UploadHangs == <>[](rpc \in {"ageUpload", "capUpload"})
UploadsKeepFailing == []<><<UploadFails>>_vars

(* A row older than the retention period goes in the end, wherever the     *)
(* server restarts, whatever statements fail and however archiving is      *)
(* switched; the only thing that can keep it for ever is the archive: an   *)
(* upload that hangs, which holds up the whole loop, or uploads that fail  *)
(* for ever.  archive.rs:24-29 gives the upload to S3 a timeout so that it *)
(* may not "hang forever"; the one to SFTP (archive.rs:96-153) has none.   *)
OldRowsGo ==
  \/ UploadHangs \/ UploadsKeepFailing
  \/ \A r \in Ids :
       (r \in rows /\ created[r] + setting.days < today) ~> (r \notin rows)

(* Every row is in some checkpoint in the end, unless it is deleted first  *)
(* or was still being inserted when the checkpoint of its range was made.  *)
EveryRowIsCheckpointed ==
  \A r \in Ids :
    (r \in rows) ~>
      \/ r \notin rows
      \/ \E i \in 1 .. Len(checkpoints) :
           r \in checkpoints[i].hash \cup checkpoints[i].pending

(* "the rows this returns are precisely the rows that call would delete":  *)
(* what a purge deletes while archiving is on is in the archive.           *)
DeletedIsArchived ==
  [][archiving => rows \ rows' \subseteq archived]_vars

=============================================================================
