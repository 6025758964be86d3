---------------------------- MODULE LogStoreProofs ----------------------------
(***************************************************************************)
(* Proofs about LogStore: type correctness, that the status of a           *)
(* checkpoint always has a cause, that no row is skipped or hashed twice,  *)
(* and what the purges may delete, for any number of rows, days, settings  *)
(* and faults.                                                             *)
(***************************************************************************)
EXTENDS LogStore, NaturalsInduction, WellFoundedInduction, FiniteSetTheorems,
        SequenceTheorems, TLAPS

(* A nonempty set of naturals has a least element.                         *)
LEMMA LeastElement ==
  ASSUME NEW S \in SUBSET Nat, S # {}
  PROVE  \E n \in S : \A m \in S : n <= m
<1>1. PICK n \in S : \A m \in S : <<m, n>> \notin OpToRel(<, Nat)
  BY NatLessThanWellFounded, WFMin, Zenon
<1>2. \A m \in S : ~ (m < n)
  BY <1>1 DEF OpToRel
<1> QED
  BY <1>2

(* MAX(id) is the id of a row, and no row has a larger one.                *)
LEMMA MaxRowIsGreatest ==
  ASSUME rows \subseteq Ids, rows # {}
  PROVE  MaxRow \in rows /\ \A r \in rows : r <= MaxRow
<1> DEFINE above == {n \in Nat : \A r \in rows : r <= n}
<1>1. MaxId \in above
  BY LogStoreAssumption DEF Ids
<1>2. PICK n \in above : \A m \in above : n <= m
  BY <1>1, LeastElement
<1>3. n \in rows
  <2> SUFFICES ASSUME n \notin rows PROVE FALSE
    OBVIOUS
  <2>1. \A r \in rows : r \in Nat /\ r >= 1 /\ r <= n - 1
    BY <1>2, LogStoreAssumption DEF Ids
  <2>2. n - 1 \in above
    BY <2>1, <1>2
  <2> QED
    BY <2>2, <1>2
<1>4. \E m \in rows : \A r \in rows : r <= m
  BY <1>2, <1>3
<1> QED
  BY <1>4, Zenon DEF MaxRow

(* Sets of ids are finite.                                                 *)
LEMMA IdSetsAreFinite ==
  ASSUME NEW S \in SUBSET Ids
  PROVE  IsFiniteSet(S) /\ Cardinality(S) \in Nat
<1>1. IsFiniteSet(Ids)
  BY LogStoreAssumption, FS_Interval DEF Ids
<1> QED
  BY <1>1, FS_Subset, FS_CardinalityType

-----------------------------------------------------------------------------
(* The inductive invariant.  Ids are handed out in order, so an id below   *)
(* upto that is neither a row nor in flight when the hashes are read never *)
(* becomes one: of a checkpointed range only the rows hashed and those     *)
(* pending then can be there later.                                        *)

Covered(f, u, h, p) ==
  /\ \A r \in rows : f <= r /\ r <= u => r \in h \cup p
  /\ \A r \in inflight : f <= r /\ r <= u => r \in p

Stored ==
  \A i \in 1 .. Len(checkpoints) :
    /\ checkpoints[i].from <= checkpoints[i].upto
    /\ checkpoints[i].upto < nextId
    /\ \A r \in checkpoints[i].hash : checkpoints[i].from <= r /\ r <= checkpoints[i].upto
    /\ checkpoints[i].count = Cardinality(checkpoints[i].hash)
    /\ Covered(checkpoints[i].from, checkpoints[i].upto,
               checkpoints[i].hash, checkpoints[i].pending)

Ordered ==
  \A i, j \in 1 .. Len(checkpoints) : i < j => checkpoints[i].upto < checkpoints[j].from

Working ==
  /\ cpc # "sleep" => from = LastEnd + 1
  /\ cpc \in {"hashes", "store"} => from <= upto /\ upto < nextId
  /\ cpc = "store" =>
       /\ \A r \in hashed : from <= r /\ r <= upto
       /\ Covered(from, upto, hashed, pending)

IInv == TypeOK /\ Stored /\ Ordered /\ Working

(* The invariant holds at the start.                                       *)
LEMMA IInvInit == Init => IInv
<1> SUFFICES ASSUME Init PROVE IInv
  OBVIOUS
<1>1. /\ checkpoints = <<>> /\ checkpoints \in Seq(Checkpoint)
      /\ Len(checkpoints) = 0
  BY EmptySeq DEF Init
<1>2. TypeOK
  <2>1. /\ nextId \in 1 .. MaxId + 1 /\ today \in 0 .. MaxDay /\ faults \in 0 .. MaxFaults
        /\ created \in [Ids -> 0 .. MaxDay]
    BY LogStoreAssumption DEF Init
  <2>2. \A i \in 1 .. Len(checkpoints) :
          checkpoints[i].from = IF i = 1 THEN 1 ELSE checkpoints[i - 1].upto + 1
    BY <1>1
  <2> QED
    BY <1>1, <2>1, <2>2 DEF Init, TypeOK
<1>3. Stored /\ Ordered /\ Working
  BY <1>1 DEF Init, Stored, Ordered, Working
<1> QED
  BY <1>2, <1>3 DEF IInv

(* Ids taken, rows committed, abandoned or deleted leave what is known of  *)
(* the checkpoints as it is.                                               *)
LEMMA RowsMove ==
  ASSUME IInv, UNCHANGED checkpoints,
         nextId' \in Nat, nextId <= nextId',
         rows' \subseteq rows \cup inflight,
         inflight' \subseteq inflight \cup {nextId}
  PROVE  Stored' /\ Ordered'
<1>1. \A i \in 1 .. Len(checkpoints) : checkpoints[i] \in Checkpoint
  BY ElementOfSeq DEF IInv, TypeOK
<1>2. nextId \in Nat /\ \A r \in Ids : r \in Nat
  BY LogStoreAssumption DEF IInv, TypeOK, Ids
<1>3. \A i \in 1 .. Len(checkpoints) :
        checkpoints[i].upto < nextId' /\ checkpoints[i].upto \in Nat
  BY <1>1, <1>2 DEF IInv, Stored, Checkpoint
<1>4. \A i \in 1 .. Len(checkpoints) :
        Covered(checkpoints[i].from, checkpoints[i].upto,
                checkpoints[i].hash, checkpoints[i].pending)'
  <2> SUFFICES ASSUME NEW i \in 1 .. Len(checkpoints)
               PROVE  Covered(checkpoints[i].from, checkpoints[i].upto,
                              checkpoints[i].hash, checkpoints[i].pending)'
    OBVIOUS
  <2>1. Covered(checkpoints[i].from, checkpoints[i].upto,
                checkpoints[i].hash, checkpoints[i].pending)
    BY DEF IInv, Stored
  <2>2. ~ (nextId <= checkpoints[i].upto)
    BY <1>2, <1>3 DEF IInv, Stored
  <2> QED
    BY <2>1, <2>2 DEF Covered
<1>5. Stored'
  BY <1>3, <1>4 DEF IInv, Stored
<1>6. Ordered'
  BY DEF IInv, Ordered
<1> QED
  BY <1>5, <1>6

(* The same for the checkpoint under way.                                  *)
LEMMA RowsMoveWhileWorking ==
  ASSUME IInv, UNCHANGED <<checkpoints, cpc, from, upto, hashed, pending>>,
         nextId' \in Nat, nextId <= nextId',
         rows' \subseteq rows \cup inflight,
         inflight' \subseteq inflight \cup {nextId}
  PROVE  Working'
<1>1. nextId \in Nat /\ upto \in Nat
  BY DEF IInv, TypeOK
<1>2. LastEnd' = LastEnd
  BY DEF LastEnd
<1>3. cpc = "store" => Covered(from, upto, hashed, pending)'
  BY <1>1 DEF IInv, Working, Covered
<1> QED
  BY <1>1, <1>2, <1>3 DEF IInv, Working

(* The last checkpoint ends behind every other and before the next id.     *)
LEMMA LastEndType ==
  ASSUME IInv
  PROVE  /\ LastEnd \in Nat /\ LastEnd < nextId
         /\ \A i \in 1 .. Len(checkpoints) : checkpoints[i].upto <= LastEnd
<1>1. checkpoints \in Seq(Checkpoint) /\ nextId \in Nat \ {0} /\ Len(checkpoints) \in Nat
  BY LogStoreAssumption, LenProperties DEF IInv, TypeOK
<1>2. \A i \in 1 .. Len(checkpoints) : checkpoints[i] \in Checkpoint
  BY <1>1, ElementOfSeq
<1>3. CASE checkpoints = <<>>
  BY <1>1, <1>3, EmptySeq DEF LastEnd
<1>4. CASE checkpoints # <<>>
  <2>1. Len(checkpoints) \in 1 .. Len(checkpoints) /\ LastEnd = checkpoints[Len(checkpoints)].upto
    BY <1>1, <1>4, EmptySeq DEF LastEnd
  <2>2. LastEnd \in Nat /\ LastEnd < nextId
    BY <1>2, <2>1 DEF IInv, Stored, Checkpoint
  <2>3. ASSUME NEW i \in 1 .. Len(checkpoints) PROVE checkpoints[i].upto <= LastEnd
    <3>1. CASE i = Len(checkpoints)
      BY <2>1, <2>2, <3>1
    <3>2. CASE i # Len(checkpoints)
      <4> DEFINE last == Len(checkpoints)
      <4>1. i < last /\ last \in 1 .. Len(checkpoints)
        BY <3>2, <2>1, <1>1
      <4>2. checkpoints[i].upto < checkpoints[last].from
        BY <4>1 DEF IInv, Ordered
      <4>3. checkpoints[last].from <= checkpoints[last].upto
        BY <4>1 DEF IInv, Stored
      <4>4. /\ checkpoints[i].upto \in Nat /\ checkpoints[last].from \in Nat
            /\ checkpoints[last].upto \in Nat
        BY <1>2, <4>1 DEF Checkpoint
      <4> QED
        BY <2>1, <4>2, <4>3, <4>4
    <3> QED
      BY <3>1, <3>2
  <2> QED
    BY <2>2, <2>3
<1> QED
  BY <1>3, <1>4

(* The conjuncts of TypeOK about the retention loop.                       *)
RetentionTyped ==
  /\ rpc \in {"sleep", "age", "ageUpload", "ageDelete", "cap", "capUpload", "capDelete"}
  /\ days \in Nat /\ cap \in Nat /\ selected \subseteq Ids /\ archiving \in BOOLEAN
  /\ since \subseteq {"insert", "midnight"}

(* The end of a purge keeps the retention loop's types.                    *)
LEMMA PurgeEndsTyped ==
  ASSUME TypeOK, PurgeEnds
  PROVE  RetentionTyped'
<1>1. CASE rpc' = "cap" /\ UNCHANGED <<days, cap>>
  BY <1>1 DEF TypeOK, PurgeEnds, RetentionTyped
<1>2. CASE rpc' = "sleep" /\ days' = 0 /\ cap' = 0
  BY <1>2 DEF TypeOK, PurgeEnds, RetentionTyped
<1> QED
  BY <1>1, <1>2 DEF PurgeEnds

(* A step of the inserts, the retention loop, the clock or the settings:   *)
(* the checkpoint loop's variables stay.                                   *)
LEMMA OthersStep ==
  ASSUME IInv,
         \/ BeginInsert \/ \E r \in Ids : CommitInsert(r) \/ AbandonInsert(r)
         \/ Midnight \/ UpdateSettings \/ Retention \/ RetentionFails
  PROVE  IInv'
<1> USE LogStoreAssumption
<1>t. TypeOK
  BY DEF IInv
<1>n. nextId \in Nat
  BY <1>t DEF TypeOK
<1>1. CASE BeginInsert
  <2>1. TypeOK'
    BY <1>1, <1>t DEF BeginInsert, TypeOK, Ids, configVars, checkpointVars, retentionVars
  <2>2. Stored' /\ Ordered' /\ Working'
    BY <1>1, <1>n, RowsMove, RowsMoveWhileWorking DEF BeginInsert, checkpointVars
  <2> QED
    BY <2>1, <2>2 DEF IInv
<1>2. ASSUME NEW r \in Ids, CommitInsert(r) PROVE IInv'
  <2>1. TypeOK'
    BY <1>2, <1>t DEF CommitInsert, Note, TypeOK, configVars, checkpointVars
  <2>2. Stored' /\ Ordered' /\ Working'
    BY <1>2, <1>n, RowsMove, RowsMoveWhileWorking DEF CommitInsert, checkpointVars
  <2> QED
    BY <2>1, <2>2 DEF IInv
<1>3. ASSUME NEW r \in Ids, AbandonInsert(r) PROVE IInv'
  <2>1. TypeOK'
    BY <1>3, <1>t DEF AbandonInsert, TypeOK, configVars, checkpointVars, retentionVars
  <2>2. Stored' /\ Ordered' /\ Working'
    BY <1>3, <1>n, RowsMove, RowsMoveWhileWorking DEF AbandonInsert, checkpointVars
  <2> QED
    BY <2>1, <2>2 DEF IInv
<1>4. CASE Midnight
  <2>a. since' \subseteq {"insert", "midnight"}
    <3>1. since' = {} \/ since' = since \cup {"midnight"}
      BY <1>4, Zenon DEF Midnight, Note
    <3> QED
      BY <3>1, <1>t DEF TypeOK
  <2>b. today' \in 0 .. MaxDay
    BY <1>4, <1>t DEF Midnight, TypeOK
  <2>3. TypeOK'
    BY <1>4, <1>t, <2>a, <2>b DEF Midnight, Note, TypeOK, insertVars, configVars, checkpointVars
  <2>2. Stored' /\ Ordered' /\ Working'
    BY <1>4, <1>n, RowsMove, RowsMoveWhileWorking DEF Midnight, insertVars, checkpointVars
  <2> QED
    BY <2>2, <2>3 DEF IInv
<1>5. CASE UpdateSettings
  <2>1. TypeOK'
    BY <1>5, <1>t DEF UpdateSettings, TypeOK, insertVars, checkpointVars, retentionVars
  <2>2. Stored' /\ Ordered' /\ Working'
    BY <1>5, <1>n, RowsMove, RowsMoveWhileWorking DEF UpdateSettings, insertVars, checkpointVars
  <2> QED
    BY <2>1, <2>2 DEF IInv
<1>6. CASE RetentionBegins
  <2>1. setting.days \in Nat /\ setting.rows \in Nat
    BY <1>t DEF TypeOK, Setting
  <2>2. TypeOK'
    BY <1>6, <1>t, <2>1 DEF RetentionBegins, TypeOK, insertVars, configVars, checkpointVars
  <2>3. Stored' /\ Ordered' /\ Working'
    BY <1>6, <1>n, RowsMove, RowsMoveWhileWorking DEF RetentionBegins, insertVars, checkpointVars
  <2> QED
    BY <2>2, <2>3 DEF IInv
<1>7. CASE AgeSelects \/ CapSelects
  <2>1. Expired \subseteq Ids /\ BeyondCap \subseteq Ids
    BY <1>t DEF TypeOK, Expired, BeyondCap
  <2>a. Select(Expired, "ageUpload", "ageDelete") \/ Select(BeyondCap, "capUpload", "capDelete")
    BY <1>7 DEF AgeSelects, CapSelects
  <2>b. RetentionTyped'
    BY <1>t, <2>a, <2>1, PurgeEndsTyped DEF Select, TypeOK, RetentionTyped
  <2>2. TypeOK'
    BY <1>t, <2>a, <2>b DEF Select, TypeOK, RetentionTyped, insertVars, configVars, checkpointVars
  <2>3. Stored' /\ Ordered' /\ Working'
    BY <1>7, <1>n, RowsMove, RowsMoveWhileWorking DEF AgeSelects, CapSelects, Select,
       insertVars, checkpointVars
  <2> QED
    BY <2>2, <2>3 DEF IInv
<1>8. CASE UploadSucceeds
  <2>1. TypeOK'
    BY <1>8, <1>t DEF UploadSucceeds, TypeOK, insertVars, configVars, checkpointVars
  <2>2. Stored' /\ Ordered' /\ Working'
    BY <1>8, <1>n, RowsMove, RowsMoveWhileWorking DEF UploadSucceeds, insertVars, checkpointVars
  <2> QED
    BY <2>1, <2>2 DEF IInv
<1>9. CASE UploadFails \/ RetentionFails
  <2>a. RetentionTyped' /\ faults' \in 0 .. MaxFaults
    BY <1>9, <1>t, PurgeEndsTyped DEF UploadFails, AfterFailedUpload, RetentionFails, TypeOK
  <2>1. TypeOK'
    BY <1>9, <1>t, <2>a DEF UploadFails, RetentionFails, RetentionTyped, TypeOK,
       insertVars, configVars, checkpointVars
  <2>2. Stored' /\ Ordered' /\ Working'
    BY <1>9, <1>n, RowsMove, RowsMoveWhileWorking DEF UploadFails, RetentionFails,
       insertVars, checkpointVars
  <2> QED
    BY <2>1, <2>2 DEF IInv
<1>10. CASE AgeDeletes \/ CapDeletes
  <2>a. RetentionTyped' /\ rows' \subseteq rows
    BY <1>10, <1>t, PurgeEndsTyped DEF AgeDeletes, CapDeletes
  <2>1. TypeOK'
    BY <1>10, <1>t, <2>a DEF AgeDeletes, CapDeletes, RetentionTyped, TypeOK,
       configVars, checkpointVars
  <2>2. Stored' /\ Ordered' /\ Working'
    BY <1>10, <1>n, RowsMove, RowsMoveWhileWorking DEF AgeDeletes, CapDeletes, checkpointVars
  <2> QED
    BY <2>1, <2>2 DEF IInv
<1> QED
  BY <1>1, <1>2, <1>3, <1>4, <1>5, <1>6, <1>7, <1>8, <1>9, <1>10 DEF Retention, Statements

(* A step of the checkpoint loop, or a crash.                              *)
LEMMA CheckpointStep ==
  ASSUME IInv, Checkpointing \/ CheckpointFails \/ Crash
  PROVE  IInv'
<1> USE LogStoreAssumption
<1>t. TypeOK
  BY DEF IInv
<1>n. nextId \in Nat
  BY <1>t DEF TypeOK
<1>e. LastEnd \in Nat /\ LastEnd < nextId
  BY LastEndType
<1>1. CASE CheckpointBegins
  <2>1. TypeOK'
    BY <1>1, <1>t, <1>e DEF CheckpointBegins, RangeStart, TypeOK, insertVars, configVars,
       retentionVars
  <2>2. Stored' /\ Ordered'
    BY <1>1, <1>n, RowsMove DEF CheckpointBegins, insertVars
  <2>3. Working'
    BY <1>1 DEF CheckpointBegins, RangeStart, LastEnd, Working
  <2> QED
    BY <2>1, <2>2, <2>3 DEF IInv
<1>2. CASE CheckpointSkips \/ CheckpointFails \/ Crash
  <2>a. /\ CheckpointEnds /\ UNCHANGED checkpoints
        /\ RetentionTyped' /\ faults' \in 0 .. MaxFaults
    <3>1. CASE CheckpointSkips
      BY <3>1, <1>t DEF CheckpointSkips, TypeOK, RetentionTyped, retentionVars
    <3>2. CASE CheckpointFails
      BY <3>2, <1>t DEF CheckpointFails, TypeOK, RetentionTyped, retentionVars
    <3>3. CASE Crash
      <4>1. rpc' = "sleep" /\ days' = 0 /\ cap' = 0 /\ archiving' = FALSE
        BY <3>3 DEF Crash
      <4>2. selected' = {} /\ since' = {}
        BY <3>3 DEF Crash
      <4>3. RetentionTyped'
        BY <4>1, <4>2 DEF RetentionTyped
      <4>4. faults' \in 0 .. MaxFaults
        BY <3>3, <1>t DEF Crash, TypeOK
      <4>5. CheckpointEnds /\ UNCHANGED checkpoints
        BY <3>3 DEF Crash
      <4> QED
        BY <4>3, <4>4, <4>5
    <3> QED
      BY <1>2, <3>1, <3>2, <3>3
  <2>1. TypeOK'
    BY <1>t, <2>a DEF CheckpointEnds, TypeOK, RetentionTyped, insertVars, configVars
  <2>2. Stored' /\ Ordered'
    BY <1>2, <1>n, RowsMove DEF CheckpointSkips, CheckpointFails, Crash, CheckpointEnds, insertVars
  <2>3. Working'
    BY <1>2 DEF CheckpointSkips, CheckpointFails, Crash, CheckpointEnds, Working
  <2> QED
    BY <2>1, <2>2, <2>3 DEF IInv
<1>3. CASE CheckpointReadsMax
  <2>1. rows \subseteq Ids /\ rows # {} /\ \E r \in rows : ~ (r < from)
    BY <1>3, <1>t DEF CheckpointReadsMax, NothingNew, TypeOK
  <2>2. MaxRow \in rows /\ \A r \in rows : r <= MaxRow
    BY <2>1, MaxRowIsGreatest
  <2>3. MaxRow \in Nat /\ MaxRow < nextId /\ from <= MaxRow
    <3>1. \A r \in rows : r \in Nat /\ r < nextId
      BY <1>t DEF TypeOK, Ids
    <3>2. PICK r \in rows : ~ (r < from)
      BY <2>1
    <3>3. from \in Nat
      BY <1>t DEF TypeOK
    <3> QED
      BY <2>2, <3>1, <3>2, <3>3
  <2>4. TypeOK'
    BY <1>3, <1>t, <2>3 DEF CheckpointReadsMax, TypeOK, insertVars, configVars, retentionVars
  <2>5. Stored' /\ Ordered'
    BY <1>3, <1>n, RowsMove DEF CheckpointReadsMax, insertVars
  <2>6. Working'
    BY <1>3, <2>3 DEF CheckpointReadsMax, IInv, Working, LastEnd, insertVars
  <2> QED
    BY <2>4, <2>5, <2>6 DEF IInv
<1>4. CASE CheckpointReadsHashes
  <2>1. TypeOK'
    BY <1>4, <1>t DEF CheckpointReadsHashes, InRange, TypeOK, insertVars, configVars, retentionVars
  <2>2. Stored' /\ Ordered'
    BY <1>4, <1>n, RowsMove DEF CheckpointReadsHashes, insertVars
  <2>3. Working'
    BY <1>4 DEF CheckpointReadsHashes, InRange, IInv, Working, LastEnd, Covered, insertVars
  <2> QED
    BY <2>1, <2>2, <2>3 DEF IInv
<1>5. CASE CheckpointStored
  <2> DEFINE cp == [from |-> from, upto |-> upto, count |-> Cardinality(hashed),
                    hash |-> hashed, pending |-> pending]
             n == Len(checkpoints)
  <2>1. /\ cpc = "store" /\ checkpoints' = Append(checkpoints, cp)
        /\ UNCHANGED <<rows, inflight, nextId, created>>
    BY <1>5 DEF CheckpointStored, CheckpointEnds, insertVars
  <2>2. /\ from = LastEnd + 1 /\ from <= upto /\ upto < nextId
        /\ \A r \in hashed : from <= r /\ r <= upto
        /\ Covered(from, upto, hashed, pending)
        /\ from \in Nat /\ upto \in Nat
    BY <2>1, <1>t DEF IInv, Working, TypeOK
  <2>3. cp \in Checkpoint
    BY <1>t, IdSetsAreFinite DEF TypeOK, Checkpoint
  <2>4. checkpoints \in Seq(Checkpoint) /\ n \in Nat
    BY <1>t, LenProperties DEF TypeOK
  <2>5. /\ checkpoints' \in Seq(Checkpoint) /\ Len(checkpoints') = n + 1
        /\ \A i \in 1 .. n : checkpoints'[i] = checkpoints[i]
        /\ checkpoints'[n + 1] = cp
    BY <2>1, <2>3, <2>4, AppendProperties
  <2>f. cp.from = from /\ cp.upto = upto /\ cp.hash = hashed /\ cp.pending = pending
        /\ cp.count = Cardinality(hashed)
    OBVIOUS
  <2> HIDE DEF cp
  <2>6. \A i \in 1 .. Len(checkpoints') :
          checkpoints'[i].from = IF i = 1 THEN 1 ELSE checkpoints'[i - 1].upto + 1
    <3> SUFFICES ASSUME NEW i \in 1 .. n + 1
                 PROVE  checkpoints'[i].from = IF i = 1 THEN 1 ELSE checkpoints'[i - 1].upto + 1
      BY <2>5
    <3>1. CASE i \in 1 .. n
      <4>1. i = 1 \/ i - 1 \in 1 .. n
        BY <3>1, <2>4
      <4>2. checkpoints[i].from = IF i = 1 THEN 1 ELSE checkpoints[i - 1].upto + 1
        BY <3>1, <1>t DEF TypeOK
      <4> QED
        BY <4>1, <4>2, <3>1, <2>5
    <3>2. CASE i = n + 1
      <4>1. checkpoints = <<>> <=> n = 0
        BY <2>4, EmptySeq
      <4>2. i = 1 \/ (n \in 1 .. n /\ i - 1 = n /\ LastEnd = checkpoints[n].upto)
        BY <4>1, <3>2, <2>4 DEF LastEnd
      <4>3. i = 1 => LastEnd = 0
        BY <4>1, <3>2, <2>4 DEF LastEnd
      <4>4. checkpoints'[i].from = from
        BY <3>2, <2>5, <2>f
      <4>5. CASE i = 1
        BY <4>3, <4>4, <4>5, <2>2
      <4>6. CASE i # 1
        BY <4>2, <4>4, <4>6, <2>2, <2>5
      <4> QED
        BY <4>5, <4>6
    <3> QED
      BY <3>1, <3>2, <2>4
  <2>7. TypeOK'
    BY <1>5, <1>t, <2>5, <2>6 DEF CheckpointStored, CheckpointEnds, TypeOK, insertVars,
       configVars, retentionVars
  <2>8. Stored'
    <3> SUFFICES ASSUME NEW i \in 1 .. n + 1
                 PROVE  /\ checkpoints'[i].from <= checkpoints'[i].upto
                        /\ checkpoints'[i].upto < nextId'
                        /\ \A r \in checkpoints'[i].hash :
                              checkpoints'[i].from <= r /\ r <= checkpoints'[i].upto
                        /\ checkpoints'[i].count = Cardinality(checkpoints'[i].hash)
                        /\ Covered(checkpoints[i].from, checkpoints[i].upto,
                                   checkpoints[i].hash, checkpoints[i].pending)'
      BY <2>5 DEF Stored
    <3>1. CASE i \in 1 .. n
      BY <3>1, <2>1, <2>5 DEF IInv, Stored, Covered
    <3>2. CASE i = n + 1
      BY <3>2, <2>1, <2>2, <2>5, <2>f DEF Covered
    <3> QED
      BY <3>1, <3>2, <2>4
  <2>9. Ordered'
    <3>1. \A i \in 1 .. n : checkpoints[i].upto <= LastEnd /\ checkpoints[i].upto \in Nat
      <4>1. \A i \in 1 .. n : checkpoints[i] \in Checkpoint
        BY <2>4, ElementOfSeq
      <4> QED
        BY <4>1, LastEndType DEF Checkpoint
    <3>2. \A i \in 1 .. n : checkpoints[i].upto < from
      BY <3>1, <2>2, <1>e
    <3> SUFFICES ASSUME NEW i \in 1 .. n + 1, NEW j \in 1 .. n + 1, i < j
                 PROVE  checkpoints'[i].upto < checkpoints'[j].from
      BY <2>5 DEF Ordered
    <3>3. i \in 1 .. n /\ (j \in 1 .. n \/ j = n + 1)
      BY <2>4
    <3> QED
      BY <3>2, <3>3, <2>5, <2>f DEF IInv, Ordered
  <2>10. Working'
    BY <1>5 DEF CheckpointStored, CheckpointEnds, Working
  <2> QED
    BY <2>7, <2>8, <2>9, <2>10 DEF IInv
<1> QED
  BY <1>1, <1>2, <1>3, <1>4, <1>5 DEF Checkpointing

(* Every step keeps the invariant.                                         *)
LEMMA IInvStep == IInv /\ [Next]_vars => IInv'
<1> SUFFICES ASSUME IInv, [Next]_vars PROVE IInv'
  OBVIOUS
<1>1. CASE Checkpointing \/ CheckpointFails \/ Crash
  BY <1>1, CheckpointStep
<1>2. CASE \/ BeginInsert \/ \E r \in Ids : CommitInsert(r) \/ AbandonInsert(r)
           \/ Midnight \/ UpdateSettings \/ Retention \/ RetentionFails
  BY <1>2, OthersStep
<1>3. CASE UNCHANGED vars
  <2>1. TypeOK'
    BY <1>3 DEF IInv, TypeOK, vars
  <2>2. Stored' /\ Ordered' /\ Working'
    BY <1>3 DEF IInv, Stored, Ordered, Working, Covered, LastEnd, vars
  <2> QED
    BY <2>1, <2>2 DEF IInv
<1> QED
  BY <1>1, <1>2, <1>3 DEF Next, Environment

(* The invariant holds throughout.                                         *)
LEMMA IInvHolds == Spec => []IInv
<1>1. Init => IInv
  BY IInvInit
<1>2. IInv /\ [Next]_vars => IInv'
  BY IInvStep
<1> QED
  BY <1>1, <1>2, PTL DEF Spec

(* Types, and that the ranges of the checkpoints follow one another.       *)
THEOREM TypeCorrect == Spec => []TypeOK
<1>1. IInv => TypeOK
  BY DEF IInv
<1> QED
  BY <1>1, IInvHolds, PTL

(* A checkpoint reported "unverifiable" has lost a row that it hashed, and *)
(* one reported "broken" has gained a row that was still being inserted    *)
(* when it was computed: neither purges nor failures explain "broken".     *)
THEOREM StatusExplained == Spec => []StatusHasCause
<1>1. IInv => StatusHasCause
  <2> SUFFICES ASSUME IInv, NEW i \in 1 .. Len(checkpoints)
               PROVE  /\ Status(checkpoints[i]) = "unverifiable" => ~ (checkpoints[i].hash \subseteq rows)
                      /\ Status(checkpoints[i]) = "broken" => checkpoints[i].pending \cap rows # {}
    BY DEF StatusHasCause
  <2> DEFINE cp == checkpoints[i]
             now == {r \in rows : cp.from <= r /\ r <= cp.upto}
  <2>1. cp \in Checkpoint
    BY ElementOfSeq DEF IInv, TypeOK
  <2>2. /\ \A r \in cp.hash : cp.from <= r /\ r <= cp.upto
        /\ cp.count = Cardinality(cp.hash)
        /\ \A r \in rows : cp.from <= r /\ r <= cp.upto => r \in cp.hash \cup cp.pending
    BY DEF IInv, Stored, Covered
  <2>3. now \subseteq Ids /\ cp.hash \subseteq Ids
    BY <2>1 DEF IInv, TypeOK, Checkpoint
  <2>4. /\ IsFiniteSet(now) /\ Cardinality(now) \in Nat
        /\ IsFiniteSet(cp.hash) /\ Cardinality(cp.hash) \in Nat
    BY <2>3, IdSetsAreFinite
  <2>5. ASSUME Status(cp) = "unverifiable", cp.hash \subseteq rows PROVE FALSE
    <3>1. Cardinality(now) < cp.count
      BY <2>5 DEF Status
    <3>2. cp.hash \subseteq now
      BY <2>2, <2>5
    <3>3. Cardinality(cp.hash) <= Cardinality(now)
      BY <3>2, <2>4, FS_Subset
    <3> QED
      BY <3>1, <3>3, <2>2, <2>4
  <2>6. ASSUME Status(cp) = "broken", cp.pending \cap rows = {} PROVE FALSE
    <3>1. /\ ~ (Cardinality(now) < cp.count)
          /\ ~ (Cardinality(now) = cp.count /\ now = cp.hash)
      BY <2>6 DEF Status
    <3>2. now \subseteq cp.hash
      BY <2>2, <2>6
    <3>3. Cardinality(now) <= Cardinality(cp.hash)
      BY <3>2, <2>4, FS_Subset
    <3>4. Cardinality(now) = Cardinality(cp.hash)
      BY <3>1, <3>3, <2>2, <2>4
    <3>5. now = cp.hash
      BY <3>2, <3>4, <2>4, FS_Subset
    <3> QED
      BY <3>1, <3>4, <3>5, <2>2
  <2> QED
    BY <2>5, <2>6
<1> QED
  BY <1>1, IInvHolds, PTL

(* No row behind the last checkpoint is left out of the hashes or in two   *)
(* of them, unless it was being inserted when its range was hashed.        *)
THEOREM NoRowSkipped == Spec => []EveryRowInOneCheckpoint
<1>1. IInv => EveryRowInOneCheckpoint
  <2> SUFFICES ASSUME IInv, NEW r \in rows, r <= LastEnd
               PROVE  \E i \in 1 .. Len(checkpoints) :
                        /\ r \in checkpoints[i].hash \cup checkpoints[i].pending
                        /\ \A j \in 1 .. Len(checkpoints) : r \in checkpoints[j].hash => j = i
    BY DEF EveryRowInOneCheckpoint
  <2> DEFINE n == Len(checkpoints)
             behind == {k \in 1 .. n : r <= checkpoints[k].upto}
  <2>1. /\ checkpoints \in Seq(Checkpoint) /\ n \in Nat
        /\ r \in Nat /\ r >= 1
    BY LenProperties, LogStoreAssumption DEF IInv, TypeOK, Ids
  <2>2. \A k \in 1 .. n : checkpoints[k].from \in Nat /\ checkpoints[k].upto \in Nat
    <3>1. \A k \in 1 .. n : checkpoints[k] \in Checkpoint
      BY <2>1, ElementOfSeq
    <3> QED
      BY <3>1 DEF Checkpoint
  <2>3. n \in behind
    <3>1. checkpoints # <<>>
      BY <2>1 DEF LastEnd
    <3>2. n \in 1 .. n
      BY <3>1, <2>1, EmptySeq
    <3> QED
      BY <3>1, <3>2 DEF LastEnd
  <2>4. PICK i \in behind : \A k \in behind : i <= k
    <3>1. behind \in SUBSET Nat /\ behind # {}
      BY <2>3
    <3> HIDE DEF behind
    <3> QED
      BY <3>1, LeastElement
  <2>5. checkpoints[i].from <= r
    <3>1. checkpoints[i].from = IF i = 1 THEN 1 ELSE checkpoints[i - 1].upto + 1
      BY <2>4 DEF IInv, TypeOK
    <3>2. CASE i = 1
      BY <3>1, <3>2, <2>1
    <3>3. CASE i # 1
      <4>1. i - 1 \in 1 .. n /\ i - 1 \notin behind
        BY <3>3, <2>4, <2>1
      <4>2. checkpoints[i - 1].upto < r
        BY <4>1, <2>1, <2>2
      <4> QED
        BY <3>1, <3>3, <4>1, <4>2, <2>1, <2>2
    <3> QED
      BY <3>2, <3>3
  <2>6. i \in 1 .. n /\ r <= checkpoints[i].upto
    BY <2>4
  <2>7. r \in checkpoints[i].hash \cup checkpoints[i].pending
    BY <2>5, <2>6 DEF IInv, Stored, Covered
  <2>8. ASSUME NEW j \in 1 .. n, r \in checkpoints[j].hash PROVE j = i
    <3>1. checkpoints[j].from <= r /\ r <= checkpoints[j].upto
      BY <2>8 DEF IInv, Stored
    <3>2. ~ (i < j)
      <4> SUFFICES ASSUME i < j PROVE FALSE
        OBVIOUS
      <4>1. checkpoints[i].upto < checkpoints[j].from
        BY <2>6 DEF IInv, Ordered
      <4> QED
        BY <4>1, <3>1, <2>6, <2>1, <2>2
    <3>3. ~ (j < i)
      <4> SUFFICES ASSUME j < i PROVE FALSE
        OBVIOUS
      <4>1. checkpoints[j].upto < checkpoints[i].from
        BY <2>6 DEF IInv, Ordered
      <4> QED
        BY <4>1, <3>1, <2>5, <2>6, <2>1, <2>2
    <3> QED
      BY <3>2, <3>3, <2>6, <2>1
  <2> QED
    BY <2>6, <2>7, <2>8
<1> QED
  BY <1>1, IInvHolds, PTL
-----------------------------------------------------------------------------
(* The purges.                                                             *)

Newer(r) == {s \in rows : s > r}

(* Fewer rows are newer than a newer row.                                  *)
LEMMA NewerShrinks ==
  ASSUME TypeOK, NEW r \in rows, NEW s \in rows, r < s
  PROVE  /\ Cardinality(Newer(r)) \in Nat /\ Cardinality(Newer(s)) \in Nat
         /\ Cardinality(Newer(s)) <= Cardinality(Newer(r))
<1>1. rows \subseteq Ids /\ \A x \in rows : x \in Int
  BY DEF TypeOK, Ids
<1>2. Newer(s) \subseteq Newer(r) /\ Newer(r) \subseteq Ids /\ Newer(s) \subseteq Ids
  BY <1>1 DEF Newer
<1>3. IsFiniteSet(Newer(r)) /\ Cardinality(Newer(r)) \in Nat /\ Cardinality(Newer(s)) \in Nat
  BY <1>2, IdSetsAreFinite
<1> QED
  BY <1>2, <1>3, FS_Subset

(* A nonempty set of ids has a greatest element.                           *)
LEMMA GreatestId ==
  ASSUME NEW S \in SUBSET Ids, S # {}
  PROVE  \E m \in S : \A n \in S : n <= m
<1> DEFINE below == {MaxId - n : n \in S}
<1>0. \A n \in S : n \in Int /\ n <= MaxId /\ MaxId - n \in Nat
  BY LogStoreAssumption DEF Ids
<1>1. below \in SUBSET Nat /\ below # {}
  BY <1>0
<1>2. PICK b \in below : \A c \in below : b <= c
  BY <1>1, LeastElement
<1>3. PICK m \in S : b = MaxId - m
  BY <1>2
<1>4. \A n \in S : b <= MaxId - n
  BY <1>2
<1> QED
  BY <1>0, <1>3, <1>4, LogStoreAssumption

(* Beyond the cap are the oldest rows, and a purge that finds any leaves   *)
(* as many as the cap allows: exactly those newer than the newest of them. *)
LEMMA CapLeavesTheNewest ==
  ASSUME TypeOK, BeyondCap # {}
  PROVE  /\ Cardinality(rows \ BeyondCap) = cap
         /\ \A r \in BeyondCap, s \in rows \ BeyondCap : r < s
<1> DEFINE kept == rows \ BeyondCap
<1>1. /\ rows \subseteq Ids /\ cap \in Nat /\ BeyondCap \subseteq rows
      /\ \A r \in rows : r \in Nat
      /\ \A r \in rows : r \in BeyondCap <=> Cardinality(Newer(r)) >= cap
  BY DEF TypeOK, BeyondCap, Newer, Ids
<1>2. \A r \in rows : Cardinality(Newer(r)) \in Nat
  <2>1. \A r \in rows : Newer(r) \in SUBSET Ids
    BY <1>1 DEF Newer
  <2> QED
    BY <2>1, IdSetsAreFinite
<1>3. \A r \in BeyondCap, s \in kept : r < s
  <2> SUFFICES ASSUME NEW r \in BeyondCap, NEW s \in kept, ~ (r < s) PROVE FALSE
    OBVIOUS
  <2>1. s < r
    BY <1>1
  <2>2. Cardinality(Newer(r)) <= Cardinality(Newer(s))
    BY <1>1, <2>1, NewerShrinks
  <2> QED
    BY <1>1, <1>2, <2>2
<1>4. PICK d \in BeyondCap : \A r \in BeyondCap : r <= d
  BY <1>1, GreatestId
<1>5. kept = Newer(d)
  BY <1>1, <1>3, <1>4 DEF Newer
<1>6. IsFiniteSet(kept) /\ Cardinality(kept) \in Nat /\ Cardinality(kept) >= cap
  <2>1. kept \in SUBSET Ids
    BY <1>1
  <2>2. Cardinality(Newer(d)) >= cap
    BY <1>1
  <2> HIDE DEF kept
  <2> QED
    BY <1>5, <2>1, <2>2, IdSetsAreFinite
<1>7. Cardinality(kept) <= cap
  <2>1. CASE kept = {}
    <3> HIDE DEF kept
    <3> QED
      BY <1>1, <2>1, FS_EmptySet
  <2>2. CASE kept # {}
    <3>1. kept \in SUBSET Nat
      BY <1>1
    <3>2. PICK m \in kept : \A s \in kept : m <= s
      BY <2>2, <3>1, LeastElement
    <3>3. Newer(m) = kept \ {m}
      BY <1>1, <1>3, <3>2 DEF Newer
    <3>4. Cardinality(Newer(m)) < cap
      BY <1>1, <1>2, <3>2
    <3> HIDE DEF kept
    <3>5. Cardinality(kept \ {m}) = Cardinality(kept) - 1
      BY <1>6, <3>2, FS_RemoveElement
    <3>6. Cardinality(Newer(m)) = Cardinality(kept \ {m})
      BY <3>3, Zenon
    <3> QED
      BY <1>1, <1>6, <3>4, <3>5, <3>6
  <2> QED
    BY <2>1, <2>2
<1>8. Cardinality(kept) = cap
  <2> HIDE DEF kept
  <2> QED
    BY <1>1, <1>6, <1>7
<1> QED
  BY <1>3, <1>8

(* What shrinks the table.                                                 *)
LEMMA OnlyPurgesDelete ==
  ASSUME TypeOK, [Next]_vars
  PROVE  \/ rows \subseteq rows' /\ (inflight' = inflight => rows' = rows)
         \/ AgeDeletes \/ CapDeletes
<1>1. CASE \E r \in Ids : CommitInsert(r)
  BY <1>1 DEF CommitInsert
<1>2. CASE rows' = rows
  BY <1>2
<1>3. CASE AgeDeletes \/ CapDeletes
  BY <1>3
<1>4. CASE Checkpointing \/ CheckpointFails \/ Crash
  BY <1>2, <1>4 DEF Checkpointing, CheckpointBegins, CheckpointSkips, CheckpointReadsMax,
     CheckpointReadsHashes, CheckpointStored, CheckpointFails, CheckpointEnds, Crash, insertVars
<1>5. CASE \/ BeginInsert \/ Midnight \/ UpdateSettings \/ RetentionFails \/ UNCHANGED vars
           \/ \E r \in Ids : AbandonInsert(r)
  BY <1>2, <1>5 DEF BeginInsert, Midnight, UpdateSettings, RetentionFails, AbandonInsert, insertVars, vars
<1>6. CASE RetentionBegins \/ AgeSelects \/ CapSelects \/ UploadSucceeds \/ UploadFails
  BY <1>2, <1>6 DEF RetentionBegins, AgeSelects, CapSelects, Select, UploadSucceeds, UploadFails, insertVars
<1> QED
  BY <1>1, <1>3, <1>4, <1>5, <1>6 DEF Next, Environment, Retention, Statements

(* Whatever is inserted or expires while the cap is enforced, what is      *)
(* deleted is older than what stays, and as many stay as the cap allows.   *)
THEOREM CapKeepsNewest == Spec => CapKeepsTheNewest
<1> DEFINE Keeps == rpc = "capDelete" /\ rows' # rows /\ inflight' = inflight =>
                      /\ Cardinality(rows') = cap
                      /\ \A r \in rows \ rows', s \in rows' : r < s
<1>1. IInv /\ [Next]_vars => [Keeps]_vars
  <2> SUFFICES ASSUME IInv, Next, rpc = "capDelete", rows' # rows, inflight' = inflight
               PROVE  Cardinality(rows') = cap /\ \A r \in rows \ rows', s \in rows' : r < s
    OBVIOUS
  <2>1. TypeOK
    BY DEF IInv
  <2>2. rows' = rows \ BeyondCap
    BY <2>1, OnlyPurgesDelete DEF AgeDeletes, CapDeletes
  <2>3. BeyondCap # {} /\ BeyondCap \subseteq rows
    BY <2>2 DEF BeyondCap
  <2>4. Cardinality(rows \ BeyondCap) = cap /\ \A r \in BeyondCap, s \in rows \ BeyondCap : r < s
    BY <2>1, <2>3, CapLeavesTheNewest
  <2>5. Cardinality(rows') = cap
    BY <2>2, <2>4, Zenon
  <2> QED
    BY <2>2, <2>4, <2>5
<1> HIDE DEF Keeps
<1>2. Spec => [][Keeps]_vars
  BY <1>1, IInvHolds, PTL DEF Spec
<1> QED
  BY <1>2 DEF CapKeepsTheNewest, Keeps
(* What a purge is about to delete, at each of its points.                 *)
Doomed == IF rpc \in {"age", "ageUpload", "ageDelete"} THEN Expired ELSE BeyondCap

(* Between purges nothing is archived.  While one archives, and nothing    *)
(* happened since it selected, it has selected all that it will delete,    *)
(* and before it deletes that is in the archive.                           *)
Archiving ==
  /\ rpc \in {"sleep", "age", "cap"} => ~ archiving /\ since = {}
  /\ ~ archiving => rpc \notin {"ageUpload", "capUpload"}
  /\ archiving /\ since = {} => Doomed \subseteq selected
  /\ archiving /\ rpc \in {"ageDelete", "capDelete"} => selected \subseteq archived

(* The inserts, the clock and the settings.                                *)
LEMMA ArchivingUndisturbed ==
  ASSUME TypeOK, Archiving,
         \/ BeginInsert \/ Midnight \/ UpdateSettings
         \/ \E r \in Ids : CommitInsert(r) \/ AbandonInsert(r)
  PROVE  Archiving'
<1>t. /\ rows \subseteq Ids /\ created \in [Ids -> 0 .. MaxDay] /\ \A r \in rows : r < nextId
      /\ nextId \in Nat /\ \A r \in Ids : r \in Nat
  BY DEF TypeOK, Ids
<1>1. CASE BeginInsert
  <2>1. \A r \in rows : r # nextId /\ created'[r] = created[r]
    BY <1>1, <1>t DEF BeginInsert
  <2>2. UNCHANGED <<rows, today, retentionVars, archived>>
    BY <1>1 DEF BeginInsert
  <2>3. Doomed' = Doomed
    BY <2>1, <2>2 DEF Doomed, Expired, BeyondCap, retentionVars
  <2> QED
    BY <2>2, <2>3 DEF Archiving, retentionVars
<1>2. ASSUME NEW what \in {"insert", "midnight"}, Note(what), archived' = archived PROVE Archiving'
  <2>1. CASE rpc \in {"sleep", "age", "cap"}
    BY <1>2, <2>1 DEF Note, Archiving
  <2>2. CASE rpc \notin {"sleep", "age", "cap"}
    <3>1. since' = since \cup {what} /\ UNCHANGED <<rpc, archiving, selected>>
      BY <1>2, <2>2, Zenon DEF Note
    <3> QED
      BY <1>2, <2>2, <3>1 DEF Archiving
  <2> QED
    BY <2>1, <2>2
<1>3. CASE UpdateSettings \/ \E r \in Ids : AbandonInsert(r)
  <2>1. UNCHANGED <<rows, created, today, retentionVars, archived>>
    BY <1>3 DEF UpdateSettings, AbandonInsert, insertVars
  <2>2. Doomed' = Doomed
    BY <2>1 DEF Doomed, Expired, BeyondCap, retentionVars
  <2> QED
    BY <2>1, <2>2 DEF Archiving, retentionVars
<1>4. CASE Midnight \/ \E r \in Ids : CommitInsert(r)
  BY <1>2, <1>4 DEF Midnight, CommitInsert
<1> QED
  BY <1>1, <1>3, <1>4

(* The steps of the retention loop itself.                                 *)
LEMMA ArchivingWorks ==
  ASSUME TypeOK, Archiving, Retention \/ RetentionFails
  PROVE  Archiving'
<1>1. ASSUME PurgeEnds PROVE Archiving'
  BY <1>1 DEF PurgeEnds, Archiving
<1>2. CASE RetentionBegins
  BY <1>2 DEF RetentionBegins, Archiving
<1>3. CASE AgeSelects \/ CapSelects
  <2>1. CASE PurgeEnds
    BY <1>1, <2>1
  <2>2. CASE ~ enabled /\ rpc' \in {"ageDelete", "capDelete"} /\ UNCHANGED <<archiving, since>>
    BY <1>3, <2>2 DEF AgeSelects, CapSelects, Archiving
  <2>3. CASE /\ archiving' = TRUE /\ UNCHANGED <<days, cap, since, insertVars, today>>
             /\ \/ rpc' = "ageUpload" /\ selected' = Expired
                \/ rpc' = "capUpload" /\ selected' = BeyondCap
    <3>1. Expired' = Expired /\ BeyondCap' = BeyondCap
      BY <2>3 DEF Expired, BeyondCap, insertVars
    <3> QED
      BY <2>3, <3>1 DEF Archiving, Doomed
  <2> QED
    BY <1>3, <2>1, <2>2, <2>3 DEF AgeSelects, CapSelects, Select
<1>4. CASE UploadSucceeds
  <2>1. Expired' = Expired /\ BeyondCap' = BeyondCap
    BY <1>4 DEF UploadSucceeds, Expired, BeyondCap, insertVars
  <2> QED
    BY <1>4, <2>1 DEF UploadSucceeds, Archiving, Doomed
<1> QED
  BY <1>1, <1>2, <1>3, <1>4 DEF Retention, Statements, RetentionFails, UploadFails, AfterFailedUpload, AgeDeletes, CapDeletes

(* Every step keeps it.                                                    *)
LEMMA ArchivingStep == TypeOK /\ Archiving /\ [Next]_vars => Archiving'
<1> SUFFICES ASSUME TypeOK, Archiving, [Next]_vars PROVE Archiving'
  OBVIOUS
<1>1. CASE UNCHANGED <<rows, created, today, retentionVars, archived>>
  <2>1. Doomed' = Doomed
    BY <1>1 DEF Doomed, Expired, BeyondCap, retentionVars
  <2> QED
    BY <1>1, <2>1 DEF Archiving, retentionVars
<1>2. CASE Checkpointing \/ CheckpointFails \/ UNCHANGED vars
  BY <1>1, <1>2 DEF Checkpointing, CheckpointBegins, CheckpointSkips, CheckpointReadsMax,
     CheckpointReadsHashes, CheckpointStored, CheckpointFails, CheckpointEnds, insertVars, vars, retentionVars
<1>3. CASE Crash
  BY <1>3 DEF Crash, Archiving
<1> QED
  BY <1>2, <1>3, ArchivingUndisturbed, ArchivingWorks DEF Next, Environment

(* What a purge deletes while archiving is on is in the archive, unless a  *)
(* row arrived or the day turned after it had selected.                    *)
THEOREM OnlyWindowLosesRows == Spec => OnlyTheWindowLosesRows
<1> DEFINE Archived == archiving /\ since = {} => rows \ rows' \subseteq archived
<1>1. IInv /\ Archiving /\ [Next]_vars => [Archived]_vars
  <2> SUFFICES ASSUME IInv, Archiving, Next, archiving, since = {}
               PROVE  rows \ rows' \subseteq archived
    OBVIOUS
  <2>1. \/ rows \subseteq rows' \/ AgeDeletes \/ CapDeletes
    BY OnlyPurgesDelete DEF IInv
  <2>2. CASE AgeDeletes
    BY <2>2 DEF AgeDeletes, Archiving, Doomed
  <2>3. CASE CapDeletes
    BY <2>3 DEF CapDeletes, Archiving, Doomed
  <2> QED
    BY <2>1, <2>2, <2>3
<1> HIDE DEF Archived
<1>2. Init => Archiving
  BY DEF Init, Archiving
<1>3. IInv => TypeOK
  BY DEF IInv
<1>4. Spec => [][Archived]_vars
  BY <1>1, <1>2, <1>3, IInvHolds, ArchivingStep, PTL DEF Spec
<1> QED
  BY <1>4 DEF OnlyTheWindowLosesRows, Archived

=============================================================================
