--------------------------- MODULE AuditChainProofs ---------------------------
(***************************************************************************)
(* Proofs about AuditChain: type correctness, that the chain never forks,  *)
(* that every event and every id is accounted for, that changed and        *)
(* missing rows show, that the table is a Trail to its readers, and that   *)
(* recorders do not wait for each other unnoticed, for any number of       *)
(* recorders, events and pre-chain rows.                                   *)
(***************************************************************************)
EXTENDS AuditChain, FiniteSetTheorems, SequenceTheorems, TLAPS

(* What holds of a table that record_audit_event alone has written.        *)
Linked(rows) ==
  \A k \in 1 .. Len(rows) : k > 1 => rows[k].prev = rows[k - 1].hash
Hashed(rows) ==
  \A k \in 1 .. Len(rows) :
     rows[k].hash # NoHash => rows[k].hash = Hash(rows[k].prev, rows[k].content)
IdsIncrease(rows) ==
  \A j, k \in 1 .. Len(rows) : j < k => rows[j].id < rows[k].id
PreChainFirst(rows) ==
  \A j, k \in 1 .. Len(rows) :
     j < k /\ rows[j].hash # NoHash => rows[k].hash # NoHash

Sound(rows) ==
  Linked(rows) /\ Hashed(rows) /\ IdsIncrease(rows) /\ PreChainFirst(rows)

(* A table without its last row, the uncommitted one, is as sound.         *)
LEMMA ShorterIsSound ==
  ASSUME NEW rows \in Seq(Row), Sound(rows), rows # <<>>
  PROVE  /\ SubSeq(rows, 1, Len(rows) - 1) \in Seq(Row)
         /\ Len(SubSeq(rows, 1, Len(rows) - 1)) = Len(rows) - 1
         /\ \A k \in 1 .. Len(rows) - 1 : SubSeq(rows, 1, Len(rows) - 1)[k] = rows[k]
         /\ Sound(SubSeq(rows, 1, Len(rows) - 1))
<1> DEFINE short == SubSeq(rows, 1, Len(rows) - 1)
<1>1. Len(rows) \in Nat /\ Len(rows) > 0
  BY EmptySeq, LenProperties
<1>2. \A i \in 1 .. Len(rows) - 1 : rows[i] \in Row
  BY <1>1, ElementOfSeq
<1>3. /\ short \in Seq(Row) /\ Len(short) = Len(rows) - 1
      /\ \A k \in 1 .. Len(rows) - 1 : short[k] = rows[k]
  <2> DEFINE n == Len(rows) - 1
  <2>1. n \in Int /\ 1 \in Int /\ n - 1 + 1 = n /\ n >= 0
    BY <1>1
  <2>2. /\ SubSeq(rows, 1, n) \in Seq(Row)
        /\ Len(SubSeq(rows, 1, n)) = IF 1 <= n THEN n - 1 + 1 ELSE 0
        /\ \A i \in 1 .. n - 1 + 1 : SubSeq(rows, 1, n)[i] = rows[1 + i - 1]
    BY <1>2, <2>1, SubSeqProperties
  <2> QED
    BY <2>1, <2>2
<1> HIDE DEF short
<1>4. Linked(short)
  <2> SUFFICES ASSUME NEW k \in 1 .. Len(short), k > 1
               PROVE  short[k].prev = short[k - 1].hash
    BY DEF Linked
  <2>1. k \in 1 .. Len(rows) - 1 /\ k - 1 \in 1 .. Len(rows) - 1 /\ k \in 1 .. Len(rows)
    BY <1>1, <1>3
  <2>2. rows[k].prev = rows[k - 1].hash
    BY <2>1 DEF Sound, Linked
  <2> QED
    BY <1>3, <2>1, <2>2
<1>5. \A k \in 1 .. Len(short) : k \in 1 .. Len(rows) /\ short[k] = rows[k]
  BY <1>1, <1>3
<1>6. Hashed(short) /\ IdsIncrease(short) /\ PreChainFirst(short)
  BY <1>5 DEF Sound, Hashed, IdsIncrease, PreChainFirst
<1> QED
  BY <1>3, <1>4, <1>6 DEF Sound, short

(* A table with one more row is sound when that row extends its chain.     *)
LEMMA LongerIsSound ==
  ASSUME NEW rows \in Seq(Row), Sound(rows), NEW r \in Row,
         rows # <<>> => r.prev = rows[Len(rows)].hash,
         r.hash = Hash(r.prev, r.content), r.hash # NoHash,
         \A k \in 1 .. Len(rows) : rows[k].id < r.id
  PROVE  Append(rows, r) \in Seq(Row) /\ Sound(Append(rows, r))
<1> DEFINE long == Append(rows, r)
<1>1. /\ long \in Seq(Row) /\ Len(long) = Len(rows) + 1 /\ Len(rows) \in Nat
      /\ \A k \in 1 .. Len(rows) : long[k] = rows[k]
      /\ long[Len(rows) + 1] = r
  BY AppendProperties, LenProperties
<1>2. Len(rows) > 0 => rows # <<>>
  BY EmptySeq
<1> HIDE DEF long
<1>3. Linked(long)
  BY <1>1, <1>2 DEF Sound, Linked
<1>4. Hashed(long) /\ IdsIncrease(long) /\ PreChainFirst(long)
  BY <1>1 DEF Sound, Hashed, IdsIncrease, PreChainFirst
<1> QED
  BY <1>1, <1>3, <1>4 DEF Sound, long

(* The walk visits consecutive rows: what lies between two rows of a       *)
(* window is in the window.                                                *)
LEMMA WindowHasNoHoles ==
  ASSUME NEW rows \in Seq(Row), Sound(rows), NEW since \in Nat, NEW limit \in Nat,
         NEW j \in Window(rows, since, limit), NEW k \in Window(rows, since, limit),
         Precedes(j, k, Window(rows, since, limit))
  PROVE  j = k - 1
<1> DEFINE Sel == Selected(rows, since)
           Before(x) == {m \in Sel : m < x}
<1>1. Len(rows) \in Nat /\ \A m \in 1 .. Len(rows) : rows[m] \in Row
  BY LenProperties, ElementOfSeq
<1>2. /\ Sel \subseteq 1 .. Len(rows)
      /\ j \in Sel /\ k \in Sel /\ j < k
      /\ Cardinality(Before(k)) < limit
  BY DEF Selected, Window, Precedes
<1> SUFFICES ASSUME j # k - 1 PROVE FALSE
  OBVIOUS
<1>3. k - 1 \in 1 .. Len(rows) /\ j < k - 1
  BY <1>1, <1>2
<1>4. k - 1 \in Sel
  <2>1. rows[j].id >= since /\ rows[j].hash # NoHash
    BY <1>2 DEF Selected
  <2>2. rows[j].id < rows[k - 1].id /\ rows[k - 1].hash # NoHash
    BY <1>2, <1>3, <2>1 DEF Sound, IdsIncrease, PreChainFirst
  <2>3. rows[j].id \in Nat /\ rows[k - 1].id \in Nat
    BY <1>1, <1>2, <1>3 DEF Row
  <2> QED
    BY <2>1, <2>2, <2>3, <1>3 DEF Selected
<1>5. Cardinality(Before(k - 1)) < limit
  <2>1. IsFiniteSet(1 .. Len(rows))
    BY <1>1, FS_Interval
  <2>2. Before(k) \subseteq 1 .. Len(rows) /\ Before(k - 1) \subseteq Before(k)
    BY <1>1, <1>2
  <2>3. IsFiniteSet(Before(k))
    BY <2>1, <2>2, FS_Subset
  <2>4. /\ Cardinality(Before(k - 1)) <= Cardinality(Before(k))
        /\ IsFiniteSet(Before(k - 1))
    BY <2>2, <2>3, FS_Subset
  <2>5. Cardinality(Before(k - 1)) \in Nat /\ Cardinality(Before(k)) \in Nat
    BY <2>3, <2>4, FS_CardinalityType
  <2> QED
    BY <1>2, <2>4, <2>5
<1>6. k - 1 \in Window(rows, since, limit)
  BY <1>4, <1>5 DEF Window
<1> QED
  BY <1>3, <1>6, <1>1, <1>2 DEF Precedes

(* So no walk over a sound table meets a wrong hash.                       *)
LEMMA SoundTableVerifies ==
  ASSUME NEW rows \in Seq(Row), Sound(rows), NEW since \in Nat, NEW limit \in Nat
  PROVE  LET window == Window(rows, since, limit)
         IN  /\ \A k \in window : ~ WrongContent(rows, k)
             /\ \A j, k \in window : Precedes(j, k, window) => ~ WrongPrev(rows, j, k)
<1> DEFINE window == Window(rows, since, limit)
<1>1. \A k \in window : k \in 1 .. Len(rows) /\ rows[k].hash # NoHash
  BY DEF Window, Selected
<1>2. \A k \in window : ~ WrongContent(rows, k)
  BY <1>1 DEF Sound, Hashed, WrongContent
<1>3. ASSUME NEW j \in window, NEW k \in window, Precedes(j, k, window)
      PROVE  ~ WrongPrev(rows, j, k)
  <2>1. j = k - 1
    BY <1>3, WindowHasNoHoles
  <2>2. j \in 1 .. Len(rows) /\ k \in 1 .. Len(rows) /\ Len(rows) \in Nat
    BY <1>1, LenProperties
  <2> QED
    BY <2>1, <2>2 DEF Sound, Linked, WrongPrev
<1> QED
  BY <1>2, <1>3

-----------------------------------------------------------------------------
(* The inductive invariant.  A recorder that has read the tip holds the    *)
(* gap behind it, so the tip it read is still the tip when it inserts:     *)
(* nobody else inserts meanwhile, and nobody's uncommitted row, which a    *)
(* rollback could take away again, was there to be read.                   *)

LocksGap ==
  \A w \in Writers : pc[w] \in {"wait", "insert", "placing", "commit"} => w \in gap

Recording ==
  \A w \in Writers :
     pc[w] # "idle" => content[w].event \in Events /\ ColumnValue(content[w].at) = content[w].at

ReadIsCurrent ==
  \A w \in Writers : pc[w] \in {"insert", "placing"} => prev[w] = TipHash

IdsTaken ==
  /\ \A k \in 1 .. Len(chain) : chain[k].id < nextId
  /\ \A w \in Writers : pc[w] = "placing" =>
        /\ newId[w] \in Nat \ {0} /\ newId[w] < nextId
        /\ \A k \in 1 .. Len(chain) : chain[k].id < newId[w]

CommitsAlone ==
  \A w \in Writers : pc[w] = "commit" =>
     /\ chain # <<>>
     /\ \A v \in Writers : pc[v] \in {"insert", "placing", "commit"} => v = w

IInv ==
  /\ TypeOK /\ Sound(chain)
  /\ LocksGap /\ Recording /\ ReadIsCurrent /\ IdsTaken /\ CommitsAlone

(* What is bound for occurred_at is what the column gives back.            *)
LEMMA ColumnKeepsWholeSeconds ==
  ASSUME NEW t \in Nat
  PROVE  WholeSeconds(t) \in Nat /\ ColumnValue(WholeSeconds(t)) = WholeSeconds(t)
<1> DEFINE r == t % 10
<1>1. r \in 0 .. 9 /\ t = 10 * (t \div 10) + r /\ t \div 10 \in Nat
  BY SMT
<1>2. WholeSeconds(t) = 10 * (t \div 10)
  BY <1>1 DEF WholeSeconds
<1>3. (10 * (t \div 10)) % 10 = 0
  BY <1>1, SMT
<1> QED
  BY <1>1, <1>2, <1>3 DEF ColumnValue

(* The invariant holds at the start.                                       *)
LEMMA IInvInit == Init => IInv
<1> SUFFICES ASSUME Init PROVE IInv
  OBVIOUS
<1> USE AuditChainAssumption
<1>1. PICK n \in 0 .. MaxPreChain :
         chain = [i \in 1 .. n |-> PreChainRow(i)] /\ nextId = n + 1
  BY DEF Init
<1>2. /\ n \in Nat /\ Len(chain) = n
      /\ \A i \in 1 .. n : chain[i] = PreChainRow(i)
  BY <1>1
<1>3. NoContent \in Content /\ NoHash \in Digest /\ Genesis \in Digest
  BY EmptySeq DEF NoContent, Content, NoHash, Digest, Genesis
<1>4. chain \in Seq(Row)
  <2>1. \A i \in 1 .. n : PreChainRow(i) \in Row
    BY <1>2, <1>3 DEF PreChainRow, Row
  <2> QED
    BY <1>1, <1>2, <2>1, IsASeq
<1>5. TypeOK
  BY <1>1, <1>3, <1>4 DEF Init, TypeOK
<1>6. Sound(chain)
  BY <1>2 DEF Sound, Linked, Hashed, IdsIncrease, PreChainFirst, PreChainRow
<1>7. LocksGap /\ Recording /\ ReadIsCurrent /\ CommitsAlone
  BY DEF Init, LocksGap, Recording, ReadIsCurrent, CommitsAlone
<1>8. IdsTaken
  BY <1>1, <1>2 DEF Init, IdsTaken, PreChainRow
<1> QED
  BY <1>5, <1>6, <1>7, <1>8 DEF IInv

(* The row that PlaceRow adds extends the chain.                           *)
LEMMA NewRowExtends ==
  ASSUME IInv, NEW w \in Writers, pc[w] = "placing"
  PROVE  /\ NewRow(w) \in Row
         /\ chain # <<>> => NewRow(w).prev = chain[Len(chain)].hash
         /\ NewRow(w).hash = Hash(NewRow(w).prev, NewRow(w).content)
         /\ NewRow(w).hash # NoHash
         /\ NewRow(w).id = newId[w]
<1> USE AuditChainAssumption
<1>1. /\ content[w] \in Content /\ content[w].event \in Events
      /\ ColumnValue(content[w].at) = content[w].at
      /\ prev[w] \in Digest /\ newId[w] \in Nat \ {0} /\ prev[w] = TipHash
  BY DEF IInv, TypeOK, Recording, IdsTaken, ReadIsCurrent
<1>2. [content[w] EXCEPT !.at = ColumnValue(@)] = content[w]
  BY <1>1 DEF Content
<1>3. NewRow(w) = [id |-> newId[w], content |-> content[w], prev |-> prev[w],
                   hash |-> Hash(prev[w], content[w])]
  BY <1>2 DEF NewRow
<1>4. /\ Hash(prev[w], content[w]) \in Digest
      /\ Len(Hash(prev[w], content[w])) = Len(prev[w]) + 1
      /\ Hash(prev[w], content[w])[Len(prev[w]) + 1] = content[w]
      /\ Len(prev[w]) \in Nat
  BY <1>1, AppendProperties, LenProperties DEF Hash, Digest
<1>5. Hash(prev[w], content[w]) # NoHash
  <2> SUFFICES ASSUME Hash(prev[w], content[w]) = NoHash PROVE FALSE
    OBVIOUS
  <2>1. Len(prev[w]) = 0
    BY <1>4 DEF NoHash
  <2>2. content[w] = NoContent
    BY <1>4, <2>1 DEF NoHash
  <2> QED
    BY <2>2, <1>1 DEF NoContent
<1> QED
  BY <1>1, <1>3, <1>4, <1>5 DEF Row, TipHash

(* A rollback or a crash leaves the chain as it is, or without the row of  *)
(* the one recorder that was about to commit.                              *)
LEMMA ShortenedChain ==
  ASSUME IInv, NEW w \in Writers, pc[w] = "commit",
         chain' = SubSeq(chain, 1, Len(chain) - 1), nextId' = nextId
  PROVE  /\ chain' \in Seq(Row) /\ Sound(chain)'
         /\ \A k \in 1 .. Len(chain') : chain'[k].id < nextId
         /\ \A k \in 1 .. Len(chain') : k \in 1 .. Len(chain) /\ chain'[k] = chain[k]
<1>1. chain \in Seq(Row) /\ Sound(chain) /\ chain # <<>> /\ Len(chain) \in Nat
  BY LenProperties DEF IInv, TypeOK, CommitsAlone
<1>2. /\ chain' \in Seq(Row) /\ Len(chain') = Len(chain) - 1
      /\ \A k \in 1 .. Len(chain) - 1 : chain'[k] = chain[k]
      /\ Sound(chain')
  BY <1>1, ShorterIsSound
<1>3. Sound(chain)'
  BY <1>2 DEF Sound, Linked, Hashed, IdsIncrease, PreChainFirst
<1> QED
  BY <1>1, <1>2, <1>3 DEF IInv, IdsTaken

(* Every step keeps the invariant.                                         *)
LEMMA IInvStep == IInv /\ [Next]_vars => IInv'
<1> SUFFICES ASSUME IInv, [Next]_vars PROVE IInv'
  OBVIOUS
<1> USE AuditChainAssumption
<1>a. TypeOK /\ Sound(chain)
  BY DEF IInv
<1>1. ASSUME NEW w \in Writers, Begin(w) PROVE IInv'
  <2>1. PICK e \in todo, t \in Instants :
           /\ content' = [content EXCEPT ![w] = [event |-> e, at |-> WholeSeconds(t)]]
           /\ todo' = todo \ {e}
    BY <1>1 DEF Begin
  <2>2. /\ e \in Events /\ WholeSeconds(t) \in Nat
        /\ ColumnValue(WholeSeconds(t)) = WholeSeconds(t)
    BY <1>a, ColumnKeepsWholeSeconds DEF TypeOK
  <2>3. TypeOK'
    BY <1>a, <1>1, <2>1, <2>2 DEF TypeOK, Begin, Content
  <2>4. Recording'
    BY <1>a, <1>1, <2>1, <2>2 DEF IInv, TypeOK, Begin, Recording
  <2>5. Sound(chain)' /\ LocksGap' /\ ReadIsCurrent' /\ IdsTaken' /\ CommitsAlone'
    BY <1>1, <1>a DEF IInv, TypeOK, Begin, Sound, Linked, Hashed, IdsIncrease, PreChainFirst,
       LocksGap, ReadIsCurrent, IdsTaken, CommitsAlone, TipHash
  <2> QED
    BY <2>3, <2>4, <2>5 DEF IInv
<1>2. ASSUME NEW w \in Writers, LockGap(w) PROVE IInv'
  <2>1. TypeOK'
    BY <1>a, <1>2 DEF TypeOK, LockGap, Locked
  <2>2. Sound(chain)' /\ LocksGap' /\ Recording' /\ ReadIsCurrent' /\ IdsTaken' /\ CommitsAlone'
    BY <1>2, <1>a DEF IInv, TypeOK, LockGap, Locked, Sound, Linked, Hashed, IdsIncrease, PreChainFirst,
       LocksGap, Recording, ReadIsCurrent, IdsTaken, CommitsAlone, TipHash
  <2> QED
    BY <2>1, <2>2 DEF IInv
<1>3. ASSUME NEW w \in Writers, ReadTip(w) PROVE IInv'
  <2>1. TipHash \in Digest
    <3>1. CASE chain = <<>>
      BY <3>1, EmptySeq DEF TipHash, Genesis, Digest
    <3>2. CASE chain # <<>>
      <4>1. Len(chain) \in 1 .. Len(chain)
        BY <1>a, <3>2, EmptySeq, LenProperties DEF TypeOK
      <4>2. chain[Len(chain)] \in Row
        BY <1>a, <4>1, ElementOfSeq DEF TypeOK
      <4> QED
        BY <4>2, <3>2 DEF TipHash, Row
    <3> QED
      BY <3>1, <3>2
  <2>2. TypeOK'
    BY <1>a, <1>3, <2>1 DEF TypeOK, ReadTip
  <2>3. \A v \in Writers : pc[v] # "commit"
    BY <1>3 DEF IInv, ReadTip, TipFree, HoldsTip, CommitsAlone
  <2>4. CommitsAlone'
    BY <1>a, <1>3, <2>3 DEF TypeOK, ReadTip, CommitsAlone
  <2>5. Sound(chain)' /\ LocksGap' /\ Recording' /\ ReadIsCurrent' /\ IdsTaken'
    BY <1>3, <1>a DEF IInv, TypeOK, ReadTip, Sound, Linked, Hashed, IdsIncrease, PreChainFirst,
       LocksGap, Recording, ReadIsCurrent, IdsTaken, TipHash
  <2> QED
    BY <2>2, <2>4, <2>5 DEF IInv
<1>4. ASSUME NEW w \in Writers, TakeId(w) PROVE IInv'
  <2>1. TypeOK'
    BY <1>a, <1>4 DEF TypeOK, TakeId
  <2>2. IdsTaken'
    <3>1. \A k \in 1 .. Len(chain) : chain[k].id \in Nat
      <4>1. \A k \in 1 .. Len(chain) : chain[k] \in Row
        BY <1>a, ElementOfSeq DEF TypeOK
      <4> QED
        BY <4>1 DEF Row
    <3> QED
      BY <1>4, <1>a, <3>1 DEF IInv, TypeOK, TakeId, IdsTaken
  <2>3. Sound(chain)' /\ LocksGap' /\ Recording' /\ ReadIsCurrent' /\ CommitsAlone'
    BY <1>4, <1>a DEF IInv, TypeOK, TakeId, Sound, Linked, Hashed, IdsIncrease, PreChainFirst,
       LocksGap, Recording, ReadIsCurrent, CommitsAlone, TipHash
  <2> QED
    BY <2>1, <2>2, <2>3 DEF IInv
<1>5. ASSUME NEW w \in Writers, PlaceRow(w) PROVE IInv'
  <2>1. /\ pc[w] = "placing" /\ gap = {w} /\ chain' = Append(chain, NewRow(w))
        /\ newId[w] < nextId
        /\ \A k \in 1 .. Len(chain) : chain[k].id < newId[w]
    BY <1>5 DEF IInv, PlaceRow, MayInsert, IdsTaken, LocksGap
  <2>2. \A v \in Writers : pc[v] \in {"wait", "insert", "placing", "commit"} => v = w
    BY <2>1 DEF IInv, LocksGap
  <2>3. /\ NewRow(w) \in Row
        /\ chain # <<>> => NewRow(w).prev = chain[Len(chain)].hash
        /\ NewRow(w).hash = Hash(NewRow(w).prev, NewRow(w).content)
        /\ NewRow(w).hash # NoHash /\ NewRow(w).id = newId[w]
    BY <2>1, NewRowExtends
  <2>4. chain \in Seq(Row)
    BY <1>a DEF TypeOK
  <2>5. chain' \in Seq(Row) /\ Sound(chain')
    BY <2>1, <2>3, <2>4, <1>a, LongerIsSound
  <2>6. /\ Len(chain') = Len(chain) + 1 /\ Len(chain) \in Nat
        /\ \A k \in 1 .. Len(chain) : chain'[k] = chain[k]
        /\ chain'[Len(chain) + 1] = NewRow(w) /\ chain' # <<>>
    BY <2>1, <2>3, <2>4, AppendProperties, LenProperties
  <2>7. pc' = [pc EXCEPT ![w] = "commit"]
        /\ UNCHANGED <<nextId, content, prev, newId, gap, todo, alerted, dropped>>
    BY <1>5 DEF PlaceRow
  <2>8. TypeOK'
    BY <1>a, <2>2, <2>5, <2>7 DEF TypeOK
  <2>9. Sound(chain)'
    BY <2>5 DEF Sound, Linked, Hashed, IdsIncrease, PreChainFirst
  <2>10. IdsTaken'
    BY <1>a, <2>1, <2>2, <2>3, <2>6, <2>7 DEF IInv, TypeOK, IdsTaken
  <2>11. CommitsAlone' /\ ReadIsCurrent'
    BY <1>a, <2>2, <2>6, <2>7 DEF TypeOK, CommitsAlone, ReadIsCurrent
  <2>12. LocksGap' /\ Recording'
    BY <1>a, <2>1, <2>7 DEF IInv, TypeOK, LocksGap, Recording
  <2> QED
    BY <2>8, <2>9, <2>10, <2>11, <2>12 DEF IInv
<1>6. ASSUME NEW w \in Writers, Commit(w) PROVE IInv'
  <2>1. content[w].event \in Events
    BY <1>6 DEF IInv, Commit, Recording
  <2>2. TypeOK'
    BY <1>a, <1>6, <2>1 DEF TypeOK, Commit, Released
  <2>3. Sound(chain)' /\ LocksGap' /\ Recording' /\ ReadIsCurrent' /\ IdsTaken' /\ CommitsAlone'
    BY <1>6, <1>a DEF IInv, TypeOK, Commit, Released, Sound, Linked, Hashed, IdsIncrease,
       PreChainFirst, LocksGap, Recording, ReadIsCurrent, IdsTaken, CommitsAlone, TipHash
  <2> QED
    BY <2>2, <2>3 DEF IInv
<1>7. ASSUME NEW w \in Writers, Fail(w) PROVE IInv'
  <2>1. /\ pc[w] # "idle" /\ pc' = [pc EXCEPT ![w] = "idle"]
        /\ gap' = gap \ {w} /\ alerted' = alerted \cup {content[w].event}
        /\ UNCHANGED <<nextId, content, prev, newId, todo, dropped>>
        /\ content[w].event \in Events
    BY <1>7 DEF IInv, Fail, Released, AlertedAfter, Recording
  <2>2. CASE pc[w] # "commit"
    <3>1. chain' = chain
      BY <1>7, <2>2 DEF Fail, RolledBack
    <3>2. TypeOK'
      BY <1>a, <2>1, <3>1 DEF TypeOK
    <3>3. Sound(chain)' /\ LocksGap' /\ Recording' /\ ReadIsCurrent' /\ IdsTaken' /\ CommitsAlone'
      BY <1>a, <2>1, <3>1 DEF IInv, TypeOK, Sound, Linked, Hashed, IdsIncrease,
         PreChainFirst, LocksGap, Recording, ReadIsCurrent, IdsTaken, CommitsAlone, TipHash
    <3> QED
      BY <3>2, <3>3 DEF IInv
  <2>3. CASE pc[w] = "commit"
    <3>1. /\ chain' \in Seq(Row) /\ Sound(chain)'
          /\ \A k \in 1 .. Len(chain') : chain'[k].id < nextId
      BY <1>7, <2>1, <2>3, ShortenedChain DEF Fail, RolledBack
    <3>2. \A v \in Writers : pc[v] \notin {"insert", "placing", "commit"} \/ v = w
      BY <2>3 DEF IInv, CommitsAlone
    <3>3. TypeOK'
      BY <1>a, <2>1, <3>1 DEF TypeOK
    <3>4. LocksGap' /\ Recording' /\ ReadIsCurrent' /\ IdsTaken' /\ CommitsAlone'
      BY <1>a, <2>1, <3>1, <3>2 DEF IInv, TypeOK,
         LocksGap, Recording, ReadIsCurrent, IdsTaken, CommitsAlone
    <3> QED
      BY <3>1, <3>3, <3>4 DEF IInv
  <2> QED
    BY <2>2, <2>3
<1>8. ASSUME Crash PROVE IInv'
  <2>1. /\ pc' = [w \in Writers |-> "idle"] /\ gap' = {}
        /\ dropped' \subseteq Events
        /\ UNCHANGED <<nextId, content, prev, newId, todo, alerted>>
    BY <1>8, <1>a DEF IInv, Crash, Recording, TypeOK
  <2>2. /\ chain' \in Seq(Row) /\ Sound(chain)'
        /\ \A k \in 1 .. Len(chain') : chain'[k].id < nextId
    <3>1. CASE \E w \in Writers : pc[w] = "commit"
      BY <1>8, <2>1, <3>1, ShortenedChain DEF Crash
    <3>2. CASE ~ \E w \in Writers : pc[w] = "commit"
      <4>1. chain' = chain
        BY <1>8, <3>2 DEF Crash
      <4> QED
        BY <4>1, <1>a DEF IInv, TypeOK, Sound, Linked, Hashed, IdsIncrease,
           PreChainFirst, IdsTaken
    <3> QED
      BY <3>1, <3>2
  <2>3. TypeOK'
    BY <1>a, <2>1, <2>2 DEF TypeOK
  <2>4. LocksGap' /\ Recording' /\ ReadIsCurrent' /\ IdsTaken' /\ CommitsAlone'
    BY <2>1, <2>2 DEF LocksGap, Recording, ReadIsCurrent, IdsTaken, CommitsAlone
  <2> QED
    BY <2>2, <2>3, <2>4 DEF IInv
<1>9. CASE UNCHANGED vars
  <2>1. TypeOK'
    BY <1>a, <1>9 DEF TypeOK, vars
  <2>2. Sound(chain)' /\ LocksGap' /\ Recording' /\ ReadIsCurrent' /\ IdsTaken' /\ CommitsAlone'
    BY <1>9 DEF IInv, vars, Sound, Linked, Hashed, IdsIncrease,
       PreChainFirst, LocksGap, Recording, ReadIsCurrent, IdsTaken, CommitsAlone, TipHash
  <2> QED
    BY <2>1, <2>2 DEF IInv
<1> QED
  BY <1>1, <1>2, <1>3, <1>4, <1>5, <1>6, <1>7, <1>8, <1>9 DEF Next, Step

(* The invariant holds throughout.                                         *)
LEMMA IInvHolds == Spec => []IInv
<1>1. Init => IInv
  BY IInvInit
<1>2. IInv /\ [Next]_vars => IInv'
  BY IInvStep
<1> QED
  BY <1>1, <1>2, PTL DEF Spec

(* Every variable keeps its type, and one row at most is uncommitted,      *)
(* however many recordings run at once.                                    *)
THEOREM TypeCorrect == Spec => []TypeOK
<1>1. IInv => TypeOK
  BY DEF IInv
<1> QED
  BY <1>1, IInvHolds, PTL

(* What the other transactions see is sound.                               *)
LEMMA CommittedIsSound ==
  ASSUME IInv
  PROVE  Committed \in Seq(Row) /\ Sound(Committed)
<1>1. chain \in Seq(Row) /\ Sound(chain)
  BY DEF IInv, TypeOK
<1>2. CASE \E w \in Writers : pc[w] = "commit"
  <2>1. chain # <<>>
    BY <1>2 DEF IInv, CommitsAlone
  <2> QED
    BY <1>1, <1>2, <2>1, ShorterIsSound DEF Committed
<1>3. CASE ~ \E w \in Writers : pc[w] = "commit"
  BY <1>1, <1>3 DEF Committed
<1> QED
  BY <1>2, <1>3

(* The chain never forks: whatever the interleaving of recorders, their    *)
(* failures and crashes, no walk of verify_audit_log_chain over the        *)
(* committed rows finds a wrong prev_hash or a wrong row_hash.             *)
THEOREM ChainSafe == Spec => []ChainNeverForks
<1>1. IInv => ChainNeverForks
  <2> SUFFICES ASSUME IInv PROVE ChainNeverForks
    OBVIOUS
  <2>1. nextId \in Nat
    BY DEF IInv, TypeOK
  <2>2. Committed \in Seq(Row) /\ Sound(Committed)
    BY CommittedIsSound
  <2>3. 1 .. nextId \subseteq Nat
    BY <2>1
  <2> QED
    BY <2>2, <2>3, SoundTableVerifies DEF ChainNeverForks
<1> QED
  BY <1>1, IInvHolds, PTL
-----------------------------------------------------------------------------
(* What the verifier detects.                                              *)

(* A full walk visits every chained row.                                   *)
LEMMA FullWalkVisits ==
  ASSUME NEW rows \in Seq(Row), NEW limit \in Nat, Len(rows) <= limit,
         NEW k \in 1 .. Len(rows), rows[k].hash # NoHash
  PROVE  k \in Window(rows, 1, limit)
<1> DEFINE Before == {j \in Selected(rows, 1) : j < k}
<1>1. Len(rows) \in Nat /\ rows[k] \in Row
  BY LenProperties, ElementOfSeq
<1>2. k \in Selected(rows, 1)
  BY <1>1 DEF Selected, Row
<1>3. IsFiniteSet(1 .. k - 1) /\ Cardinality(1 .. k - 1) = k - 1
  <2>1. 1 \in Int /\ k - 1 \in Int
    BY <1>1
  <2>2. IsFiniteSet(1 .. k - 1) /\ Cardinality(1 .. k - 1) = IF 1 > k - 1 THEN 0 ELSE k - 1 - 1 + 1
    BY <2>1, FS_Interval
  <2> QED
    BY <1>1, <2>2
<1>4. Before \subseteq 1 .. k - 1
  BY <1>1 DEF Selected
<1>5. IsFiniteSet(Before) /\ Cardinality(Before) <= k - 1
  BY <1>3, <1>4, FS_Subset
<1>6. Cardinality(Before) \in Nat
  BY <1>5, FS_CardinalityType
<1>7. Cardinality(Before) < limit
  <2> HIDE DEF Before
  <2> QED
    BY <1>1, <1>5, <1>6
<1> QED
  BY <1>2, <1>7 DEF Window

(* A row with another content no longer has its hash: the hash is          *)
(* injective.                                                              *)
LEMMA OtherContentShows ==
  ASSUME NEW rows \in Seq(Row), Sound(rows), NEW k \in Selected(rows, 1), NEW e \in Events,
         e # rows[k].content.event
  PROVE  ~ Intact([rows EXCEPT ![k].content.event = e], 1, Len(rows))
<1> DEFINE changed == [rows EXCEPT ![k].content.event = e]
           c == [rows[k].content EXCEPT !.event = e]
<1>1. k \in 1 .. Len(rows) /\ rows[k].hash # NoHash /\ Len(rows) \in Nat /\ rows[k] \in Row
  BY LenProperties, ElementOfSeq DEF Selected
<1>2. c \in Content /\ rows[k].content \in Content /\ c # rows[k].content /\ rows[k].prev \in Seq(Content)
  BY <1>1 DEF Row, Content, Digest
<1>3. /\ changed \in Seq(Row) /\ Len(changed) = Len(rows)
      /\ changed[k] = [rows[k] EXCEPT !.content = c]
  <2>1. changed = [rows EXCEPT ![k] = [rows[k] EXCEPT !.content = c]]
    BY <1>1
  <2>2. [rows[k] EXCEPT !.content = c] \in Row
    BY <1>1, <1>2 DEF Row
  <2> QED
    BY <1>1, <2>1, <2>2, ExceptSeq
<1>4. changed[k].content = c /\ changed[k].prev = rows[k].prev /\ changed[k].hash = rows[k].hash
  BY <1>1, <1>3 DEF Row
<1>5. rows[k].hash = Append(rows[k].prev, rows[k].content)
  BY <1>1 DEF Sound, Hashed, Hash
<1>6. Append(rows[k].prev, c) # Append(rows[k].prev, rows[k].content)
  BY <1>2, AppendInjective
<1>7. WrongContent(changed, k)
  BY <1>4, <1>5, <1>6 DEF WrongContent, Hash
<1>8. k \in Window(changed, 1, Len(rows))
  <2>1. k \in 1 .. Len(changed) /\ Len(changed) <= Len(rows) /\ changed[k].hash # NoHash
    BY <1>1, <1>3, <1>4
  <2> HIDE DEF changed
  <2> QED
    BY <1>1, <1>3, <2>1, FullWalkVisits
<1> QED
  BY <1>7, <1>8 DEF Intact

(* Without a row between two others, the ids around it have a gap.         *)
LEMMA MissingRowShows ==
  ASSUME NEW rows \in Seq(Row), Sound(rows), NEW k \in Selected(rows, 1),
         k - 1 \in Selected(rows, 1), k < Len(rows)
  PROVE  ~ Intact(WithoutRow(rows, k), 1, Len(rows))
<1> DEFINE left == WithoutRow(rows, k)
           head == SubSeq(rows, 1, k - 1)
           tail == SubSeq(rows, k + 1, Len(rows))
<1>1. /\ k \in 1 .. Len(rows) /\ k - 1 \in 1 .. Len(rows) /\ Len(rows) \in Nat
      /\ rows[k].hash # NoHash /\ rows[k - 1].hash # NoHash
      /\ \A i \in 1 .. Len(rows) : rows[i] \in Row
  BY LenProperties, ElementOfSeq DEF Selected
<1>2. /\ head \in Seq(Row) /\ Len(head) = k - 1 /\ \A i \in 1 .. k - 1 : head[i] = rows[i]
  <2>1. k - 1 \in Int /\ \A i \in 1 .. k - 1 : rows[i] \in Row
    BY <1>1
  <2>2. /\ head \in Seq(Row) /\ Len(head) = IF 1 <= k - 1 THEN k - 1 - 1 + 1 ELSE 0
        /\ \A i \in 1 .. k - 1 - 1 + 1 : head[i] = rows[1 + i - 1]
    BY <2>1, SubSeqProperties
  <2> HIDE DEF head
  <2> QED
    BY <1>1, <2>2
<1>3. /\ tail \in Seq(Row) /\ Len(tail) = Len(rows) - k /\ \A i \in 1 .. Len(rows) - k : tail[i] = rows[k + i]
  <2>1. k + 1 \in Int /\ Len(rows) \in Int /\ \A i \in k + 1 .. Len(rows) : rows[i] \in Row
    BY <1>1
  <2>2. /\ tail \in Seq(Row) /\ Len(tail) = IF k + 1 <= Len(rows) THEN Len(rows) - (k + 1) + 1 ELSE 0
        /\ \A i \in 1 .. Len(rows) - (k + 1) + 1 : tail[i] = rows[k + 1 + i - 1]
    BY <2>1, SubSeqProperties
  <2> HIDE DEF tail
  <2> QED
    BY <1>1, <2>2
<1>4. left = head \o tail
  BY DEF WithoutRow
<1> HIDE DEF head, tail, left
<1>5. /\ left \in Seq(Row) /\ Len(left) = Len(rows) - 1
      /\ left[k - 1] = rows[k - 1] /\ left[k] = rows[k + 1]
  <2>1. /\ left \in Seq(Row) /\ Len(left) = Len(head) + Len(tail)
        /\ \A i \in 1 .. Len(head) + Len(tail) : left[i] = IF i <= Len(head) THEN head[i] ELSE tail[i - Len(head)]
    BY <1>2, <1>3, <1>4, ConcatProperties
  <2>2. k - 1 \in 1 .. Len(rows) - 1 /\ k \in 1 .. Len(rows) - 1 /\ k - (k - 1) = 1
    BY <1>1
  <2>3. left[k] = tail[1] /\ left[k - 1] = head[k - 1]
    BY <1>1, <1>2, <1>3, <2>1, <2>2
  <2> QED
    BY <1>1, <1>2, <1>3, <2>1, <2>3
<1>6. k + 1 \in 1 .. Len(rows) /\ rows[k + 1].hash # NoHash
  BY <1>1 DEF Sound, PreChainFirst
<1>7. k - 1 \in Window(left, 1, Len(rows)) /\ k \in Window(left, 1, Len(rows))
  <2>1. k \in 1 .. Len(left) /\ k - 1 \in 1 .. Len(left) /\ Len(left) <= Len(rows)
    BY <1>1, <1>5
  <2> QED
    BY <1>1, <1>5, <1>6, <2>1, FullWalkVisits
<1>8. Precedes(k - 1, k, Window(left, 1, Len(rows)))
  <2>1. \A i \in Window(left, 1, Len(rows)) : i \in Int
    BY DEF Window, Selected
  <2> QED
    BY <1>1, <1>7, <2>1 DEF Precedes
<1>9. IdGap(left, k - 1, k)
  <2>1. rows[k - 1].id < rows[k].id /\ rows[k].id < rows[k + 1].id
    BY <1>1, <1>6 DEF Sound, IdsIncrease
  <2>2. rows[k - 1].id \in Nat /\ rows[k].id \in Nat /\ rows[k + 1].id \in Nat
    BY <1>1, <1>6 DEF Row
  <2> QED
    BY <1>5, <2>1, <2>2 DEF IdGap
<1> QED
  BY <1>7, <1>8, <1>9 DEF Intact, left

(* What the chain is for: a full walk reports a row whose content is not   *)
(* what was recorded, and the absence of a row between two others.         *)
THEOREM ChangesShow == Spec => []ChangesAreDetected
<1>1. IInv => ChangesAreDetected
  <2> SUFFICES ASSUME IInv PROVE ChangesAreDetected
    OBVIOUS
  <2>1. Committed \in Seq(Row) /\ Sound(Committed)
    BY CommittedIsSound
  <2> QED
    BY <2>1, OtherContentShows, MissingRowShows DEF ChangesAreDetected
<1> QED
  BY <1>1, IInvHolds, PTL
-----------------------------------------------------------------------------
(* What became of every event, and of every id.                            *)

Reported == alerted \cup dropped
InFlight(e) == \E w \in Writers : pc[w] # "idle" /\ content[w].event = e
InChain(e) == \E k \in 1 .. Len(chain) : chain[k].content.event = e
Placing == {w \in Writers : pc[w] = "placing"}

(* An event is recorded once: one that is in flight is nowhere else.       *)
Once ==
  /\ todo \cap Reported = {}
  /\ \A w \in Writers : pc[w] # "idle" => content[w].event \notin todo \cup Reported
  /\ \A v, w \in Writers :
       pc[v] # "idle" /\ pc[w] # "idle" /\ content[v].event = content[w].event => v = w

(* The uncommitted row, which may yet go away, is that of an event that is *)
(* still in flight.                                                        *)
EInv ==
  /\ IInv /\ Once
  /\ \A e \in Events : e \in todo \cup Reported \/ InFlight(e) \/ InChain(e)
  /\ \A w \in Writers : pc[w] = "commit" => chain[Len(chain)].content.event = content[w].event

(* Every id taken is that of a row, or of a row about to be placed, or of  *)
(* a recording that is known to have failed.                               *)
IdsAccounted == nextId - 1 - Len(chain) - Cardinality(Placing) <= Cardinality(Reported)

(* Initially every event is still to be recorded.                          *)
LEMMA EventsInit == Init => EInv /\ IdsAccounted
<1> SUFFICES ASSUME Init PROVE EInv /\ IdsAccounted
  OBVIOUS
<1>1. EInv
  BY IInvInit DEF Init, EInv, Once, Reported
<1>2. Placing = {} /\ Reported = {} /\ Cardinality({}) = 0
  BY FS_EmptySet DEF Init, Placing, Reported
<1>3. PICK n \in 0 .. MaxPreChain : chain = [i \in 1 .. n |-> PreChainRow(i)] /\ nextId = n + 1
  BY DEF Init
<1>4. Len(chain) = n /\ n \in Nat
  BY AuditChainAssumption, <1>3
<1> QED
  BY <1>1, <1>2, <1>3, <1>4 DEF IdsAccounted

(* The rows that a rollback leaves: all but the uncommitted one.           *)
LEMMA RollbackKeepsRows ==
  ASSUME IInv, NEW w \in Writers, pc[w] = "commit",
         chain' = SubSeq(chain, 1, Len(chain) - 1)
  PROVE  /\ Len(chain) \in Nat \ {0} /\ Len(chain') = Len(chain) - 1
         /\ \A k \in 1 .. Len(chain) : k # Len(chain) => k \in 1 .. Len(chain') /\ chain'[k] = chain[k]
<1>1. chain \in Seq(Row) /\ Sound(chain) /\ chain # <<>>
  BY DEF IInv, TypeOK, CommitsAlone
<1>2. Len(chain) \in Nat /\ Len(chain) > 0
  BY <1>1, EmptySeq, LenProperties
<1>3. Len(chain') = Len(chain) - 1 /\ \A k \in 1 .. Len(chain) - 1 : chain'[k] = chain[k]
  BY <1>1, ShorterIsSound
<1> QED
  BY <1>2, <1>3

(* A failed recording is reported, and only its own row is gone.           *)
LEMMA EventsFail == ASSUME EInv, IInv', NEW w \in Writers, Fail(w) PROVE EInv'
<1>1. /\ pc[w] # "idle" /\ pc' = [pc EXCEPT ![w] = "idle"]
      /\ alerted' = alerted \cup {content[w].event}
      /\ UNCHANGED <<content, todo, dropped>> /\ chain' = RolledBack(w)
  BY DEF Fail, AlertedAfter
<1>t. pc \in [Writers -> {"idle", "select", "wait", "insert", "placing", "commit"}]
  BY DEF EInv, IInv, TypeOK
<1>2. Once'
  BY <1>1, <1>t DEF EInv, Once, Reported
<1>3. \A e \in Events : InFlight(e) => InFlight(e)' \/ e \in Reported'
  BY <1>1, <1>t DEF InFlight, Reported
<1>4. \A e \in Events : InChain(e) => InChain(e)' \/ e \in Reported'
  <2>1. CASE pc[w] # "commit"
    BY <1>1, <2>1 DEF RolledBack, InChain
  <2>2. CASE pc[w] = "commit"
    <3>1. \A k \in 1 .. Len(chain) : k # Len(chain) => k \in 1 .. Len(chain') /\ chain'[k] = chain[k]
      BY <1>1, <2>2, RollbackKeepsRows DEF RolledBack, EInv
    <3>2. chain[Len(chain)].content.event = content[w].event
      BY <2>2 DEF EInv
    <3> QED
      BY <1>1, <3>1, <3>2 DEF InChain, Reported
  <2> QED
    BY <2>1, <2>2
<1>5. \A v \in Writers : pc'[v] = "commit" => chain'[Len(chain')].content.event = content'[v].event
  <2> SUFFICES ASSUME NEW v \in Writers, pc'[v] = "commit"
               PROVE  chain'[Len(chain')].content.event = content'[v].event
    OBVIOUS
  <2>1. v # w /\ pc[v] = "commit" /\ pc[w] # "commit"
    BY <1>1, <1>t DEF EInv, IInv, CommitsAlone
  <2> QED
    BY <1>1, <2>1 DEF EInv, RolledBack
<1>6. todo' = todo /\ Reported \subseteq Reported'
  BY <1>1 DEF Reported
<1> QED
  BY <1>2, <1>3, <1>4, <1>5, <1>6 DEF EInv

(* The death of the server drops what was in flight, and only that.        *)
LEMMA EventsCrash == ASSUME EInv, IInv', Crash PROVE EInv'
<1>1. /\ pc' = [w \in Writers |-> "idle"] /\ UNCHANGED <<todo, alerted, content>>
      /\ dropped' = dropped \cup {content[w].event : w \in {v \in Writers : pc[v] # "idle"}}
  BY DEF Crash
<1>2. Once' /\ Reported \subseteq Reported'
  BY <1>1 DEF EInv, Once, Reported
<1>3. \A e \in Events : InFlight(e) => e \in Reported'
  BY <1>1 DEF InFlight, Reported
<1>4. \A e \in Events : InChain(e) => InChain(e)' \/ e \in Reported'
  <2>1. CASE ~ \E w \in Writers : pc[w] = "commit"
    BY <2>1 DEF Crash, InChain
  <2>2. ASSUME NEW w \in Writers, pc[w] = "commit"
        PROVE  \A e \in Events : InChain(e) => InChain(e)' \/ e \in Reported'
    <3>1. \A k \in 1 .. Len(chain) : k # Len(chain) => k \in 1 .. Len(chain') /\ chain'[k] = chain[k]
      BY <2>2, RollbackKeepsRows DEF Crash, EInv
    <3>2. chain[Len(chain)].content.event = content[w].event /\ content[w].event \in Reported'
      BY <1>1, <2>2 DEF EInv, Reported
    <3> QED
      BY <3>1, <3>2 DEF InChain
  <2> QED
    BY <2>1, <2>2
<1> QED
  BY <1>1, <1>2, <1>3, <1>4 DEF EInv

(* A row placed is the row of the event its recorder has in flight.        *)
LEMMA EventsPlace == ASSUME EInv, IInv', NEW w \in Writers, PlaceRow(w) PROVE EInv'
<1>t. pc \in [Writers -> {"idle", "select", "wait", "insert", "placing", "commit"}] /\ chain \in Seq(Row)
  BY DEF EInv, IInv, TypeOK
<1>1. /\ pc[w] = "placing" /\ pc' = [pc EXCEPT ![w] = "commit"] /\ chain' = Append(chain, NewRow(w))
      /\ UNCHANGED <<content, todo, alerted, dropped>>
  BY DEF PlaceRow
<1>2. NewRow(w) \in Row /\ NewRow(w).content.event = content[w].event
  <2>1. content[w] \in Content
    BY DEF EInv, IInv, TypeOK
  <2> QED
    BY <1>1, <2>1, NewRowExtends DEF EInv, NewRow, Content
<1>3. /\ Len(chain') = Len(chain) + 1 /\ Len(chain) \in Nat /\ chain'[Len(chain) + 1] = NewRow(w)
      /\ \A k \in 1 .. Len(chain) : chain'[k] = chain[k]
  BY <1>t, <1>1, <1>2, AppendProperties, LenProperties
<1>4. \A v \in Writers : pc'[v] = "commit" => v = w
  <2>1. pc'[w] = "commit"
    BY <1>t, <1>1
  <2> QED
    BY <2>1 DEF IInv, CommitsAlone
<1>5. Once' /\ Reported' = Reported
  BY <1>t, <1>1 DEF EInv, Once, Reported
<1>6. \A e \in Events : (InFlight(e) => InFlight(e)') /\ (InChain(e) => InChain(e)')
  BY <1>t, <1>1, <1>3 DEF InFlight, InChain
<1> QED
  BY <1>1, <1>2, <1>3, <1>4, <1>5, <1>6 DEF EInv

(* Every step accounts for every event.                                    *)
LEMMA EventsStep == ASSUME EInv, IInv', [Next]_vars PROVE EInv'
<1>t. /\ pc \in [Writers -> {"idle", "select", "wait", "insert", "placing", "commit"}]
      /\ content \in [Writers -> Content] /\ todo \subseteq Events
  BY DEF EInv, IInv, TypeOK
<1>1. ASSUME NEW w \in Writers, Begin(w) PROVE EInv'
  <2>1. PICK e \in todo, t \in Instants :
           /\ content' = [content EXCEPT ![w] = [event |-> e, at |-> WholeSeconds(t)]]
           /\ todo' = todo \ {e}
    BY <1>1 DEF Begin
  <2>2. /\ pc[w] = "idle" /\ pc' = [pc EXCEPT ![w] = "select"]
        /\ UNCHANGED <<chain, alerted, dropped>>
    BY <1>1 DEF Begin
  <2>3. content'[w].event = e /\ pc'[w] = "select"
        /\ \A v \in Writers \ {w} : content'[v] = content[v] /\ pc'[v] = pc[v]
    BY <1>t, <2>1, <2>2
  <2>4. Reported' = Reported
    BY <2>2 DEF Reported
  <2>5. Once'
    BY <2>1, <2>2, <2>3, <2>4 DEF EInv, Once
  <2>6. \A d \in Events : (InFlight(d) => InFlight(d)') /\ (InChain(d) => InChain(d)') /\ (d = e => InFlight(d)')
    BY <2>2, <2>3 DEF InFlight, InChain
  <2> QED
    BY <2>1, <2>2, <2>3, <2>4, <2>5, <2>6 DEF EInv
<1>2. ASSUME NEW w \in Writers, LockGap(w) \/ ReadTip(w) \/ TakeId(w) PROVE EInv'
  <2>1. /\ UNCHANGED <<chain, content, todo, alerted, dropped>>
        /\ pc[w] # "idle" /\ \E p \in {"wait", "insert", "placing"} : pc' = [pc EXCEPT ![w] = p]
    BY <1>2 DEF LockGap, ReadTip, TakeId
  <2>2. /\ \A v \in Writers : pc'[v] = "idle" <=> pc[v] = "idle"
        /\ \A v \in Writers : pc'[v] = "commit" => pc[v] = "commit"
    BY <1>t, <2>1
  <2> QED
    BY <2>1, <2>2 DEF EInv, Once, Reported, InFlight, InChain
<1>3. ASSUME NEW w \in Writers, Commit(w) PROVE EInv'
  <2>1. /\ pc[w] = "commit" /\ pc' = [pc EXCEPT ![w] = "idle"]
        /\ alerted' \in {alerted, alerted \cup {content[w].event}}
        /\ UNCHANGED <<chain, content, todo, dropped>>
    BY <1>3 DEF Commit
  <2>2. Once' /\ Reported \subseteq Reported'
    BY <1>t, <2>1 DEF EInv, Once, Reported
  <2>3. InChain(content[w].event)
    <3>1. Len(chain) \in 1 .. Len(chain)
      <4>1. chain \in Seq(Row) /\ chain # <<>>
        BY <2>1 DEF EInv, IInv, TypeOK, CommitsAlone
      <4> QED
        BY <4>1, EmptySeq, LenProperties
    <3> QED
      BY <2>1, <3>1 DEF EInv, InChain
  <2>4. \A e \in Events : (InChain(e) <=> InChain(e)') /\ (InFlight(e) => InFlight(e)' \/ e = content[w].event)
    BY <1>t, <2>1 DEF InChain, InFlight
  <2>5. \A v \in Writers : pc'[v] = "commit" => pc[v] = "commit"
    BY <1>t, <2>1
  <2> QED
    BY <2>1, <2>2, <2>3, <2>4, <2>5 DEF EInv
<1>4. CASE UNCHANGED vars
  BY <1>4 DEF vars, EInv, Once, Reported, InFlight, InChain
<1> QED
  BY <1>1, <1>2, <1>3, <1>4, EventsPlace, EventsFail, EventsCrash DEF Next, Step
(* The sets that are counted are finite, and every recorder that is        *)
(* placing a row has an event of its own.                                  *)
LEMMA CountsAreFinite ==
  ASSUME EInv
  PROVE  /\ IsFiniteSet(Reported) /\ Cardinality(Reported) \in Nat
         /\ IsFiniteSet(Placing) /\ Cardinality(Placing) \in Nat
         /\ IsFiniteSet({content[w].event : w \in Placing})
         /\ Cardinality(Placing) <= Cardinality({content[w].event : w \in Placing})
         /\ Len(chain) \in Nat /\ nextId \in Nat
<1> DEFINE E == {content[w].event : w \in Placing}
           f == [w \in Placing |-> content[w].event]
<1>1. Reported \subseteq Events /\ E \subseteq Events
  BY DEF EInv, IInv, TypeOK, Recording, Reported, Placing
<1>2. IsFiniteSet(Reported) /\ IsFiniteSet(E)
  BY <1>1, AuditChainAssumption, FS_Subset
<1>3. f \in Injection(Placing, E)
  <2>1. f \in [Placing -> E]
    OBVIOUS
  <2>2. \A v, w \in Placing : f[v] = f[w] => v = w
    BY DEF EInv, Once, Placing
  <2> QED
    BY <2>1, <2>2 DEF Injection, IsInjective
<1> HIDE DEF f, E
<1>4. IsFiniteSet(Placing) /\ Cardinality(Placing) <= Cardinality(E)
  BY <1>2, <1>3, FS_Injection
<1> QED
  BY <1>2, <1>4, FS_CardinalityType, LenProperties DEF EInv, IInv, TypeOK, E

(* A recording that fails reports an event that was not reported before.   *)
LEMMA IdsFail == ASSUME EInv, EInv', IdsAccounted, NEW w \in Writers, Fail(w) PROVE IdsAccounted'
<1>1. /\ pc[w] # "idle" /\ pc' = [pc EXCEPT ![w] = "idle"]
      /\ alerted' = alerted \cup {content[w].event}
      /\ UNCHANGED <<nextId, dropped>> /\ chain' = RolledBack(w)
  BY DEF Fail, AlertedAfter
<1>t. pc \in [Writers -> {"idle", "select", "wait", "insert", "placing", "commit"}]
  BY DEF EInv, IInv, TypeOK
<1>2. Reported' = Reported \cup {content[w].event} /\ content[w].event \notin Reported
  BY <1>1 DEF EInv, Once, Reported
<1>3. Cardinality(Reported') = Cardinality(Reported) + 1
  BY <1>2, CountsAreFinite, FS_AddElement
<1>4. Placing' = Placing \ {w}
  BY <1>1, <1>t DEF Placing
<1>5. Cardinality(Placing') = IF pc[w] = "placing" THEN Cardinality(Placing) - 1 ELSE Cardinality(Placing)
  <2>1. w \in Placing <=> pc[w] = "placing"
    BY DEF Placing
  <2> QED
    BY <1>4, <2>1, CountsAreFinite, FS_RemoveElement
<1>6. Len(chain') = IF pc[w] = "commit" THEN Len(chain) - 1 ELSE Len(chain)
  <2>1. CASE pc[w] = "commit"
    BY <1>1, <2>1, RollbackKeepsRows DEF RolledBack, EInv
  <2>2. CASE pc[w] # "commit"
    BY <1>1, <2>2 DEF RolledBack
  <2> QED
    BY <2>1, <2>2
<1>7. Cardinality(Reported) \in Nat /\ Cardinality(Placing) \in Nat /\ Len(chain) \in Nat /\ nextId \in Nat
  BY CountsAreFinite
<1>8. nextId' = nextId /\ ~ (pc[w] = "placing" /\ pc[w] = "commit")
  BY <1>1
<1>9. nextId' - 1 - Len(chain') - Cardinality(Placing') <= Cardinality(Reported')
  <2>1. nextId - 1 - Len(chain) - Cardinality(Placing) <= Cardinality(Reported)
    BY DEF IdsAccounted
  <2>2. CASE pc[w] = "placing"
    <3>1. Cardinality(Placing') = Cardinality(Placing) - 1 /\ Len(chain') = Len(chain)
      BY <1>5, <1>6, <1>8, <2>2
    <3> QED
      BY <1>3, <1>7, <1>8, <2>1, <3>1
  <2>3. CASE pc[w] # "placing"
    <3>1. Cardinality(Placing') = Cardinality(Placing) /\ Len(chain') \in {Len(chain), Len(chain) - 1}
      BY <1>5, <1>6, <2>3
    <3> QED
      BY <1>3, <1>7, <1>8, <2>1, <3>1
  <2> QED
    BY <2>2, <2>3
<1> QED
  BY <1>9 DEF IdsAccounted

(* The death of the server drops an event for every id it loses.           *)
LEMMA IdsCrash == ASSUME EInv, EInv', IdsAccounted, Crash PROVE IdsAccounted'
<1> DEFINE D == {content[w].event : w \in {v \in Writers : pc[v] # "idle"}}
           E == {content[w].event : w \in Placing}
<1>1. /\ pc' = [w \in Writers |-> "idle"] /\ UNCHANGED <<nextId, alerted>>
      /\ dropped' = dropped \cup D
  BY DEF Crash
<1>2. Reported' = Reported \cup D /\ Reported \cap D = {} /\ E \subseteq D
  BY <1>1 DEF EInv, Once, Reported, Placing
<1>3. Placing' = {}
  BY <1>1 DEF Placing
<1>4. D \subseteq Events
  BY DEF EInv, IInv, Recording
<1> HIDE DEF D
<1>5. IsFiniteSet(D) /\ Cardinality(D) \in Nat
  BY <1>4, AuditChainAssumption, FS_Subset, FS_CardinalityType
<1>6. Cardinality(Reported') = Cardinality(Reported) + Cardinality(D)
  <2>1. IsFiniteSet(Reported) /\ Cardinality(Reported) \in Nat /\ Cardinality({}) = 0
    BY CountsAreFinite, FS_EmptySet
  <2>2. Cardinality(Reported \cup D) = Cardinality(Reported) + Cardinality(D) - Cardinality(Reported \cap D)
    BY <1>5, <2>1, FS_Union
  <2>3. Cardinality(Reported \cap D) = 0
    BY <1>2, <2>1, Zenon
  <2>4. Cardinality(Reported') = Cardinality(Reported \cup D)
    BY <1>2, Zenon
  <2> QED
    BY <1>5, <2>1, <2>2, <2>3, <2>4
<1>7. Cardinality(Placing') = 0
  BY <1>3, FS_EmptySet
<1>8. CASE ~ \E w \in Writers : pc[w] = "commit"
  <2>1. chain' = chain
    BY <1>8 DEF Crash
  <2>2. Cardinality(E) <= Cardinality(D) /\ Cardinality(E) \in Nat
    BY <1>2, <1>5, FS_Subset, FS_CardinalityType
  <2>3. Cardinality(Placing) <= Cardinality(E)
    BY CountsAreFinite
  <2> HIDE DEF E
  <2>4. Cardinality(Placing) \in Nat /\ Cardinality(Reported) \in Nat /\ Len(chain) \in Nat /\ nextId \in Nat
    BY CountsAreFinite
  <2> QED
    BY <1>1, <1>5, <1>6, <1>7, <2>1, <2>2, <2>3, <2>4 DEF IdsAccounted
<1>9. ASSUME NEW w \in Writers, pc[w] = "commit" PROVE IdsAccounted'
  <2>1. Len(chain') = Len(chain) - 1
    BY <1>9, RollbackKeepsRows DEF Crash, EInv
  <2>2. Placing = {}
    BY <1>9 DEF EInv, IInv, CommitsAlone, Placing
  <2>3. Cardinality(Placing) = 0
    BY <2>2, FS_EmptySet
  <2>4. content[w].event \in D
    BY <1>9 DEF D
  <2>5. Cardinality(D) # 0
    BY <1>5, <2>4, FS_EmptySet
  <2>6. Cardinality(Reported) \in Nat /\ Len(chain) \in Nat /\ nextId \in Nat
    BY CountsAreFinite
  <2> QED
    BY <1>1, <1>5, <1>6, <1>7, <2>1, <2>3, <2>5, <2>6 DEF IdsAccounted
<1> QED
  BY <1>8, <1>9

(* Every step accounts for every id.                                       *)
LEMMA IdsStep == ASSUME EInv, EInv', IdsAccounted, [Next]_vars PROVE IdsAccounted'
<1>t. pc \in [Writers -> {"idle", "select", "wait", "insert", "placing", "commit"}] /\ chain \in Seq(Row)
  BY DEF EInv, IInv, TypeOK
<1>c. /\ IsFiniteSet(Placing) /\ Cardinality(Placing) \in Nat /\ Cardinality(Reported) \in Nat
      /\ Len(chain) \in Nat /\ nextId \in Nat
  BY CountsAreFinite
<1>1. ASSUME Placing' = Placing, Reported \subseteq Reported', UNCHANGED <<chain, nextId>>
      PROVE  IdsAccounted'
  <2>1. IsFiniteSet(Reported')
    <3>1. Reported' \subseteq Events
      BY DEF EInv, IInv, TypeOK, Reported
    <3> QED
      BY <3>1, AuditChainAssumption, FS_Subset
  <2>2. Cardinality(Reported) <= Cardinality(Reported') /\ Cardinality(Reported') \in Nat
    BY <1>1, <2>1, FS_Subset, FS_CardinalityType
  <2> QED
    BY <1>1, <1>c, <2>2 DEF IdsAccounted
<1>2. ASSUME NEW w \in Writers, Begin(w) \/ LockGap(w) \/ ReadTip(w) \/ Commit(w) PROVE IdsAccounted'
  <2>1. /\ UNCHANGED <<chain, nextId, dropped>> /\ alerted \subseteq alerted' /\ pc[w] # "placing"
        /\ \E p \in {"select", "wait", "insert", "idle"} : pc' = [pc EXCEPT ![w] = p]
    BY <1>2 DEF Begin, LockGap, ReadTip, Commit
  <2> QED
    BY <1>1, <1>t, <2>1 DEF Placing, Reported
<1>3. ASSUME NEW w \in Writers, TakeId(w) PROVE IdsAccounted'
  <2>1. Placing' = Placing \cup {w} /\ w \notin Placing
    BY <1>t, <1>3 DEF TakeId, Placing
  <2>2. Cardinality(Placing') = Cardinality(Placing) + 1
    BY <1>c, <2>1, FS_AddElement
  <2>3. nextId' = nextId + 1 /\ chain' = chain /\ Reported' = Reported
    BY <1>3 DEF TakeId, Reported
  <2> QED
    BY <1>c, <2>2, <2>3 DEF IdsAccounted
<1>4. ASSUME NEW w \in Writers, PlaceRow(w) PROVE IdsAccounted'
  <2>1. Placing' = Placing \ {w} /\ w \in Placing
    BY <1>t, <1>4 DEF PlaceRow, Placing
  <2>2. Cardinality(Placing') = Cardinality(Placing) - 1
    BY <1>c, <2>1, FS_RemoveElement
  <2>3. Len(chain') = Len(chain) + 1
    <3>1. NewRow(w) \in Row /\ chain' = Append(chain, NewRow(w))
      BY <1>4, NewRowExtends DEF PlaceRow, EInv
    <3> QED
      BY <1>t, <3>1, AppendProperties
  <2>4. nextId' = nextId /\ Reported' = Reported
    BY <1>4 DEF PlaceRow, Reported
  <2> QED
    BY <1>c, <2>2, <2>3, <2>4 DEF IdsAccounted
<1>5. CASE UNCHANGED vars
  BY <1>1, <1>5 DEF vars, Placing, Reported
<1> QED
  BY <1>2, <1>3, <1>4, <1>5, IdsFail, IdsCrash DEF Next, Step

(* Every event is in the table, in flight, or reported, or was in flight   *)
(* when the server died; and there are no more gaps in the ids than        *)
(* recordings that failed.                                                 *)
THEOREM EventsAccounted == Spec => []EveryEventAccounted
<1>1. EInv /\ IdsAccounted /\ [Next]_vars => (EInv /\ IdsAccounted)'
  <2>1. EInv => IInv
    BY DEF EInv
  <2> QED
    BY <2>1, IInvStep, EventsStep, IdsStep
<1>2. EInv /\ IdsAccounted => EveryEventAccounted
  <2> SUFFICES ASSUME EInv, IdsAccounted PROVE EveryEventAccounted
    OBVIOUS
  <2>1. ASSUME NEW e \in Events, InChain(e)
        PROVE  InFlight(e) \/ \E k \in 1 .. Len(Committed) : Committed[k].content.event = e
    <3>1. CASE ~ \E w \in Writers : pc[w] = "commit"
      BY <2>1, <3>1 DEF Committed, InChain
    <3>2. ASSUME NEW w \in Writers, pc[w] = "commit"
          PROVE  InFlight(e) \/ \E k \in 1 .. Len(Committed) : Committed[k].content.event = e
      <4>1. chain \in Seq(Row) /\ Sound(chain) /\ chain # <<>>
        BY <3>2 DEF EInv, IInv, TypeOK, CommitsAlone
      <4>2. /\ Committed = SubSeq(chain, 1, Len(chain) - 1) /\ Len(chain) \in Nat
            /\ Len(Committed) = Len(chain) - 1 /\ \A k \in 1 .. Len(chain) - 1 : Committed[k] = chain[k]
        BY <3>2, <4>1, ShorterIsSound, LenProperties DEF Committed
      <4>3. PICK k \in 1 .. Len(chain) : chain[k].content.event = e
        BY <2>1 DEF InChain
      <4>4. CASE k = Len(chain)
        BY <3>2, <4>3, <4>4 DEF EInv, InFlight
      <4>5. CASE k # Len(chain)
        BY <4>2, <4>3, <4>5
      <4> QED
        BY <4>4, <4>5
    <3> QED
      BY <3>1, <3>2
  <2>2. \A e \in Events : e \in todo \cup Reported \/ InFlight(e) \/ InChain(e)
    BY DEF EInv
  <2> QED
    BY <2>1, <2>2 DEF EveryEventAccounted, IdsAccounted, Placing, Reported, InFlight
<1> QED
  BY <1>1, <1>2, EventsInit, PTL DEF Spec
-----------------------------------------------------------------------------
(* Refinement: what the readers of the table see is a Trail.               *)

(* A row of an event has a hash, the first of all has that of Genesis.     *)
Chained ==
  \A k \in 1 .. Len(chain) : chain[k].content.event \in Events =>
     chain[k].hash # NoHash /\ (k = 1 => chain[k].prev = Genesis)

(* An event with a row is nobody's any more, but for its own uncommitted   *)
(* row.                                                                    *)
Fresh ==
  \A k \in 1 .. Len(chain) : chain[k].content.event \in Events =>
     /\ chain[k].content.event \notin todo
     /\ \A w \in Writers :
          pc[w] # "idle" /\ content[w].event = chain[k].content.event =>
            pc[w] = "commit" /\ k = Len(chain)

TrailInv == EInv /\ Chained /\ Fresh

(* A recorder that does not touch the table, and whose event is not new or *)
(* goes nowhere, disturbs neither.                                         *)
LEMMA TrailInvQuiet ==
  ASSUME Chained, Fresh, chain' = chain, todo' \subseteq todo,
         \A w \in Writers : pc'[w] # "idle" =>
            \/ pc[w] # "idle" /\ content'[w] = content[w] /\ (pc[w] = "commit" => pc'[w] = "commit")
            \/ content'[w].event \in todo
  PROVE  Chained' /\ Fresh'
<1>1. Chained'
  BY DEF Chained
<1>2. Fresh'
  <2> SUFFICES ASSUME NEW k \in 1 .. Len(chain), chain[k].content.event \in Events
               PROVE  /\ chain[k].content.event \notin todo'
                      /\ \A w \in Writers :
                           pc'[w] # "idle" /\ content'[w].event = chain[k].content.event =>
                             pc'[w] = "commit" /\ k = Len(chain)
    BY DEF Fresh
  <2> QED
    BY DEF Fresh
<1> QED
  BY <1>1, <1>2

(* Nor does a rollback: the row it takes away is that of the recorder that *)
(* was about to commit, and no other recorder has an event in the table.   *)
LEMMA TrailInvRollback ==
  ASSUME TrailInv, NEW w \in Writers, pc[w] = "commit", pc'[w] = "idle",
         chain' = SubSeq(chain, 1, Len(chain) - 1), UNCHANGED <<todo, content>>,
         \A v \in Writers : pc'[v] \in {pc[v], "idle"}
  PROVE  Chained' /\ Fresh'
<1>1. /\ Len(chain) \in Nat \ {0} /\ Len(chain') = Len(chain) - 1
      /\ \A k \in 1 .. Len(chain') : k \in 1 .. Len(chain) /\ k # Len(chain) /\ chain'[k] = chain[k]
  BY RollbackKeepsRows DEF TrailInv, EInv
<1>2. Chained'
  BY <1>1 DEF TrailInv, Chained
<1>3. Fresh'
  <2> SUFFICES ASSUME NEW k \in 1 .. Len(chain'), chain'[k].content.event \in Events
               PROVE  /\ chain'[k].content.event \notin todo'
                      /\ \A v \in Writers :
                           ~ (pc'[v] # "idle" /\ content'[v].event = chain'[k].content.event)
    BY DEF Fresh
  <2> QED
    BY <1>1 DEF TrailInv, Fresh
<1> QED
  BY <1>2, <1>3

(* The row placed is of an event that no row is of, and has its hash.      *)
LEMMA TrailInvPlace ==
  ASSUME TrailInv, EInv', NEW w \in Writers, PlaceRow(w)
  PROVE  Chained' /\ Fresh'
<1>t. pc \in [Writers -> {"idle", "select", "wait", "insert", "placing", "commit"}] /\ chain \in Seq(Row)
  BY DEF TrailInv, EInv, IInv, TypeOK
<1>1. /\ pc[w] = "placing" /\ pc' = [pc EXCEPT ![w] = "commit"] /\ chain' = Append(chain, NewRow(w))
      /\ UNCHANGED <<content, todo>>
  BY DEF PlaceRow
<1>2. /\ NewRow(w) \in Row /\ NewRow(w).hash # NoHash /\ prev[w] = TipHash
      /\ NewRow(w).content.event = content[w].event /\ NewRow(w).prev = prev[w]
  <2>1. content[w] \in Content /\ prev[w] = TipHash
    BY <1>1 DEF TrailInv, EInv, IInv, TypeOK, ReadIsCurrent
  <2> QED
    BY <1>1, <2>1, NewRowExtends DEF TrailInv, EInv, NewRow, Content
<1>3. /\ Len(chain') = Len(chain) + 1 /\ Len(chain) \in Nat /\ chain'[Len(chain) + 1] = NewRow(w)
      /\ \A k \in 1 .. Len(chain) : chain'[k] = chain[k]
  BY <1>t, <1>1, <1>2, AppendProperties, LenProperties
<1>4. Chained'
  <2>1. Len(chain) = 0 => TipHash = Genesis
    BY <1>t, EmptySeq DEF TipHash
  <2> QED
    BY <1>2, <1>3, <2>1 DEF TrailInv, Chained
<1>5. \A v \in Writers : pc'[v] = "commit" => v = w
  <2>1. pc'[w] = "commit"
    BY <1>t, <1>1
  <2> QED
    BY <2>1 DEF EInv, IInv, CommitsAlone
<1>6. Fresh'
  <2> SUFFICES ASSUME NEW k \in 1 .. Len(chain'), chain'[k].content.event \in Events
               PROVE  /\ chain'[k].content.event \notin todo
                      /\ \A v \in Writers :
                           pc'[v] # "idle" /\ content[v].event = chain'[k].content.event =>
                             pc'[v] = "commit" /\ k = Len(chain')
    BY <1>1 DEF Fresh
  <2>1. CASE k \in 1 .. Len(chain)
    BY <1>t, <1>1, <1>3, <1>5, <2>1 DEF TrailInv, Fresh
  <2>2. CASE k = Len(chain')
    <3>1. chain'[k].content.event = content[w].event
      BY <1>2, <1>3, <2>2
    <3>2. content[w].event \notin todo
          /\ \A v \in Writers : pc[v] # "idle" /\ content[v].event = content[w].event => v = w
      BY <1>1 DEF TrailInv, EInv, Once
    <3> QED
      BY <1>t, <1>1, <2>2, <3>1, <3>2
  <2> QED
    BY <1>3, <2>1, <2>2
<1> QED
  BY <1>4, <1>6

(* Every step keeps the invariant of the refinement.                       *)
LEMMA TrailInvStep == ASSUME TrailInv, EInv', [Next]_vars PROVE TrailInv'
<1>t. /\ pc \in [Writers -> {"idle", "select", "wait", "insert", "placing", "commit"}]
      /\ content \in [Writers -> Content] /\ Chained /\ Fresh
  BY DEF TrailInv, EInv, IInv, TypeOK
<1>1. ASSUME NEW w \in Writers, Begin(w) PROVE TrailInv'
  <2>1. PICK e \in todo, t \in Instants :
           /\ content' = [content EXCEPT ![w] = [event |-> e, at |-> WholeSeconds(t)]]
           /\ todo' = todo \ {e}
    BY <1>1 DEF Begin
  <2>2. pc[w] = "idle" /\ pc' = [pc EXCEPT ![w] = "select"] /\ chain' = chain
    BY <1>1 DEF Begin
  <2>3. content'[w].event = e /\ \A v \in Writers \ {w} : content'[v] = content[v] /\ pc'[v] = pc[v]
    BY <1>t, <2>1, <2>2
  <2> QED
    BY <1>t, <2>1, <2>2, <2>3, TrailInvQuiet DEF TrailInv
<1>2. ASSUME NEW w \in Writers, LockGap(w) \/ ReadTip(w) \/ TakeId(w) \/ Commit(w) PROVE TrailInv'
  <2>1. /\ UNCHANGED <<chain, content, todo>>
        /\ pc[w] # "idle" /\ \E p \in {"wait", "insert", "placing", "idle"} : pc' = [pc EXCEPT ![w] = p]
        /\ pc[w] = "commit" => pc' = [pc EXCEPT ![w] = "idle"]
    BY <1>2 DEF LockGap, ReadTip, TakeId, Commit
  <2>2. \A v \in Writers : pc'[v] # "idle" =>
           pc[v] # "idle" /\ content'[v] = content[v] /\ (pc[v] = "commit" => pc'[v] = "commit")
    BY <1>t, <2>1
  <2> QED
    BY <1>t, <2>1, <2>2, TrailInvQuiet DEF TrailInv
<1>3. ASSUME NEW w \in Writers, PlaceRow(w) PROVE TrailInv'
  BY <1>3, TrailInvPlace DEF TrailInv
<1>4. ASSUME NEW w \in Writers, Fail(w) PROVE TrailInv'
  <2>1. /\ pc[w] # "idle" /\ pc' = [pc EXCEPT ![w] = "idle"] /\ UNCHANGED <<content, todo>>
        /\ chain' = RolledBack(w)
    BY <1>4 DEF Fail
  <2>2. pc'[w] = "idle" /\ \A v \in Writers : pc'[v] \in {pc[v], "idle"}
    BY <1>t, <2>1
  <2>3. CASE pc[w] = "commit"
    BY <2>1, <2>2, <2>3, TrailInvRollback DEF RolledBack, TrailInv
  <2>4. CASE pc[w] # "commit"
    <3>1. chain' = chain /\ \A v \in Writers : pc'[v] # "idle" => pc'[v] = pc[v] /\ content'[v] = content[v]
      BY <2>1, <2>2, <2>4 DEF RolledBack
    <3> QED
      BY <1>t, <2>1, <3>1, TrailInvQuiet DEF TrailInv
  <2> QED
    BY <2>3, <2>4
<1>5. ASSUME Crash PROVE TrailInv'
  <2>1. /\ \A w \in Writers : pc'[w] = "idle"
        /\ UNCHANGED <<content, todo>>
        /\ chain' = IF \E w \in Writers : pc[w] = "commit" THEN SubSeq(chain, 1, Len(chain) - 1) ELSE chain
    BY <1>5 DEF Crash
  <2>2. ASSUME NEW w \in Writers, pc[w] = "commit" PROVE TrailInv'
    BY <2>1, <2>2, TrailInvRollback DEF TrailInv
  <2>3. CASE ~ \E w \in Writers : pc[w] = "commit"
    BY <1>t, <2>1, <2>3, TrailInvQuiet DEF TrailInv
  <2> QED
    BY <2>2, <2>3
<1>6. CASE UNCHANGED vars
  BY <1>6 DEF vars, TrailInv, Chained, Fresh
<1> QED
  BY <1>1, <1>2, <1>3, <1>4, <1>5, <1>6 DEF Next, Step

(* A commit shows the readers one more row, which follows those before it. *)
LEMMA CommitRecords ==
  ASSUME TrailInv, NEW w \in Writers, pc[w] = "commit", Committed' = chain
  PROVE  Read!Record
<1> DEFINE n == Len(chain)
           row == chain[Len(chain)]
<1>1. chain \in Seq(Row) /\ Sound(chain) /\ chain # <<>> /\ row.content.event = content[w].event
      /\ content[w].event \in Events
  BY DEF TrailInv, EInv, IInv, TypeOK, CommitsAlone, Recording
<1>2. n \in Nat \ {0} /\ n \in 1 .. n /\ row \in Row
  BY <1>1, EmptySeq, LenProperties, ElementOfSeq
<1>3. /\ Committed = SubSeq(chain, 1, n - 1) /\ Committed \in Seq(Row) /\ Len(Committed) = n - 1
      /\ \A k \in 1 .. n - 1 : Committed[k] = chain[k]
  BY <1>1, ShorterIsSound DEF Committed
<1>4. chain = Append(Committed, row)
  <2>1. /\ Append(Committed, row) \in Seq(Row) /\ Len(Append(Committed, row)) = n
        /\ \A i \in 1 .. n - 1 : Append(Committed, row)[i] = chain[i]
        /\ Append(Committed, row)[n] = row
    BY <1>2, <1>3, AppendProperties
  <2>2. \A i \in 1 .. n : Append(Committed, row)[i] = chain[i]
    BY <1>2, <2>1
  <2> QED
    BY <1>1, <2>1, <2>2, SeqEqual
<1>5. row.hash # NoHash /\ row.hash = Append(row.prev, row.content)
  <2>1. row.hash # NoHash
    BY <1>1, <1>2 DEF TrailInv, Chained
  <2> QED
    BY <1>1, <1>2, <2>1 DEF Sound, Hashed, Hash
<1>6. row.prev = Read!LastHash
  <2>1. CASE n = 1
    <3>1. Committed = <<>>
      BY <1>3, <2>1, EmptySeq
    <3>2. row.prev = Genesis
      BY <1>1, <1>2, <2>1 DEF TrailInv, Chained
    <3> QED
      BY <3>1, <3>2 DEF Read!LastHash
  <2>2. CASE n > 1
    <3>1. n - 1 \in 1 .. n - 1 /\ Committed # <<>>
      <4>1. n - 1 \in 1 .. n - 1 /\ Len(Committed) # 0
        BY <1>2, <1>3, <2>2
      <4> QED
        BY <1>3, <4>1, EmptySeq
    <3>2. row.prev = chain[n - 1].hash
      BY <1>1, <1>2, <2>2 DEF Sound, Linked
    <3> QED
      BY <1>3, <3>1, <3>2 DEF Read!LastHash
  <2>3. n = 1 \/ n > 1
    <3>1. n \in Nat /\ n # 0
      BY <1>2
    <3> HIDE DEF n
    <3> QED
      BY <3>1
  <2> QED
    BY <2>1, <2>2, <2>3
<1>7. ASSUME NEW k \in 1 .. Len(Committed)
      PROVE  Committed[k].id < row.id /\ Committed[k].content.event # row.content.event
  <2>1. k \in 1 .. n /\ k < n /\ Committed[k] = chain[k]
    BY <1>2, <1>3
  <2>2. chain[k].id < row.id
    BY <1>1, <1>2, <2>1 DEF Sound, IdsIncrease
  <2>3. chain[k].content.event # row.content.event
    BY <1>1, <2>1 DEF TrailInv, Fresh
  <2> QED
    BY <2>1, <2>2, <2>3
<1>8. Read!Follows(row)
  BY <1>5, <1>6, <1>7 DEF Read!Follows
<1> QED
  BY <1>2, <1>4, <1>8 DEF Read!Record

(* Without the row just placed, the table is what it was.                  *)
LEMMA AppendedRowComesOff ==
  ASSUME NEW rows \in Seq(Row), NEW row \in Row
  PROVE  SubSeq(Append(rows, row), 1, Len(Append(rows, row)) - 1) = rows
<1> DEFINE n == Len(rows)
           long == Append(rows, row)
<1>1. /\ n \in Nat /\ long \in Seq(Row) /\ Len(long) = n + 1
      /\ \A i \in 1 .. n : long[i] = rows[i]
  BY AppendProperties, LenProperties
<1>2. \A i \in 1 .. n : long[i] \in Row
  BY <1>1, ElementOfSeq
<1> HIDE DEF long
<1>3. /\ SubSeq(long, 1, n) \in Seq(Row)
      /\ Len(SubSeq(long, 1, n)) = IF 1 <= n THEN n - 1 + 1 ELSE 0
      /\ \A i \in 1 .. n - 1 + 1 : SubSeq(long, 1, n)[i] = long[1 + i - 1]
  <2>1. n \in Int /\ 1 \in Int
    BY <1>1
  <2> QED
    BY <1>2, <2>1, SubSeqProperties
<1>4. Len(SubSeq(long, 1, n)) = n /\ \A i \in 1 .. n : SubSeq(long, 1, n)[i] = rows[i]
  BY <1>1, <1>3
<1>5. SubSeq(long, 1, n) = rows
  BY <1>3, <1>4, SeqEqual
<1>6. Len(long) - 1 = n
  BY <1>1
<1> QED
  BY <1>5, <1>6 DEF long

(* Any other step shows them nothing new, and takes nothing away.          *)
LEMMA StepShowsATrail ==
  ASSUME TrailInv, IInv', [Next]_vars
  PROVE  [Read!Record]_Committed
<1>t. pc \in [Writers -> {"idle", "select", "wait", "insert", "placing", "commit"}] /\ chain \in Seq(Row)
      /\ CommitsAlone /\ CommitsAlone'
  BY DEF TrailInv, EInv, IInv, TypeOK
<1>1. ASSUME NEW w \in Writers, Begin(w) \/ LockGap(w) \/ ReadTip(w) \/ TakeId(w)
      PROVE  Committed' = Committed
  <2>1. /\ chain' = chain /\ pc[w] # "commit"
        /\ \E p \in {"select", "wait", "insert", "placing"} : pc' = [pc EXCEPT ![w] = p]
    BY <1>1 DEF Begin, LockGap, ReadTip, TakeId
  <2>2. \A v \in Writers : pc'[v] = "commit" <=> pc[v] = "commit"
    BY <1>t, <2>1
  <2> QED
    BY <2>1, <2>2 DEF Committed
<1>2. ASSUME NEW w \in Writers, PlaceRow(w) PROVE Committed' = Committed
  <2>1. pc[w] = "placing" /\ pc' = [pc EXCEPT ![w] = "commit"] /\ chain' = Append(chain, NewRow(w))
    BY <1>2 DEF PlaceRow
  <2>2. pc'[w] = "commit" /\ \A v \in Writers : pc[v] # "commit"
    <3>1. pc'[w] = "commit" /\ \A v \in Writers \ {w} : pc'[v] = pc[v]
      BY <1>t, <2>1
    <3> QED
      BY <1>t, <2>1, <3>1 DEF CommitsAlone
  <2>3. NewRow(w) \in Row
    BY <2>1, NewRowExtends DEF TrailInv, EInv
  <2>4. SubSeq(chain', 1, Len(chain') - 1) = chain
    BY <1>t, <2>1, <2>3, AppendedRowComesOff
  <2> QED
    BY <2>2, <2>4 DEF Committed
<1>3. ASSUME NEW w \in Writers, Commit(w) PROVE Read!Record
  <2>1. pc[w] = "commit" /\ pc' = [pc EXCEPT ![w] = "idle"] /\ chain' = chain
    BY <1>3 DEF Commit
  <2>2. \A v \in Writers : pc'[v] # "commit"
    BY <1>t, <2>1 DEF CommitsAlone
  <2>3. Committed' = chain
    BY <2>1, <2>2 DEF Committed
  <2> QED
    BY <2>1, <2>3, CommitRecords
<1>4. ASSUME NEW w \in Writers, Fail(w) PROVE Committed' = Committed
  <2>1. pc' = [pc EXCEPT ![w] = "idle"] /\ chain' = RolledBack(w)
    BY <1>4 DEF Fail
  <2>2. pc'[w] = "idle" /\ \A v \in Writers \ {w} : pc'[v] = pc[v]
    BY <1>t, <2>1
  <2> QED
    BY <1>t, <2>1, <2>2 DEF Committed, RolledBack, CommitsAlone
<1>5. ASSUME Crash PROVE Committed' = Committed
  BY <1>5 DEF Crash, Committed
<1>6. CASE UNCHANGED vars
  BY <1>6 DEF vars, Committed
<1> QED
  BY <1>1, <1>2, <1>3, <1>4, <1>5, <1>6 DEF Next, Step

(* However recorders interleave, fail and die, whoever reads the committed *)
(* rows sees them only grow, each new row chained to the one before it,    *)
(* with a larger id and of an event no earlier row is of.                  *)
THEOREM TableIsATrail == Spec => OnlyGrows
<1>1. Init => EInv /\ IdsAccounted
  BY EventsInit
<1>2. Init => TrailInv /\ Read!Init
  <2> SUFFICES ASSUME Init PROVE TrailInv /\ Read!Init
    OBVIOUS
  <2>1. PICK m \in 0 .. MaxPreChain : chain = [i \in 1 .. m |-> PreChainRow(i)]
    BY DEF Init
  <2>2. m \in Nat /\ Len(chain) = m /\ \A k \in 1 .. m : chain[k] = PreChainRow(k)
    BY AuditChainAssumption, <2>1
  <2>3. Chained /\ Fresh
    BY <2>2, AuditChainAssumption DEF Chained, Fresh, PreChainRow, NoContent
  <2>4. Committed = chain
    BY DEF Init, Committed
  <2> QED
    BY <1>1, <2>2, <2>3, <2>4 DEF TrailInv, Read!Init, PreChainRow
<1>3. TrailInv /\ EInv' /\ [Next]_vars => TrailInv'
  BY TrailInvStep
<1>4. TrailInv /\ IInv' /\ [Next]_vars => [Read!Record]_Committed
  BY StepShowsATrail
<1>5. EInv /\ IInv' /\ [Next]_vars => EInv'
  BY EventsStep
<1>6. TrailInv => EInv
  BY DEF TrailInv
<1> QED
  BY <1>2, <1>3, <1>4, <1>5, <1>6, IInvHolds, PTL DEF Spec, OnlyGrows, Read!Spec
-----------------------------------------------------------------------------
(* Waiting for locks: who waits for whom.                                  *)

(* Nobody has the gap locked who is not in a transaction that locked it.   *)
GapIsHeld == \A w \in gap : pc[w] \in {"wait", "insert", "placing", "commit"}

LEMMA GapIsHeldStep == ASSUME TypeOK, GapIsHeld, [Next]_vars PROVE GapIsHeld'
<1>t. pc \in [Writers -> {"idle", "select", "wait", "insert", "placing", "commit"}] /\ gap \subseteq Writers
  BY DEF TypeOK
<1>1. ASSUME NEW w \in Writers, Begin(w) PROVE GapIsHeld'
  <2>1. pc[w] = "idle" /\ gap' = gap /\ pc' = [pc EXCEPT ![w] = "select"]
    BY <1>1 DEF Begin
  <2> QED
    BY <1>t, <2>1 DEF GapIsHeld
<1>2. ASSUME NEW w \in Writers, LockGap(w) PROVE GapIsHeld'
  BY <1>t, <1>2 DEF GapIsHeld, LockGap, Locked
<1>3. ASSUME NEW w \in Writers, ReadTip(w) \/ TakeId(w) \/ PlaceRow(w) PROVE GapIsHeld'
  <2>1. gap' = gap /\ \E p \in {"insert", "placing", "commit"} : pc' = [pc EXCEPT ![w] = p]
    BY <1>3 DEF ReadTip, TakeId, PlaceRow
  <2> QED
    BY <1>t, <2>1 DEF GapIsHeld
<1>4. ASSUME NEW w \in Writers, Commit(w) \/ Fail(w) PROVE GapIsHeld'
  <2>1. gap' = gap \ {w} /\ pc' = [pc EXCEPT ![w] = "idle"]
    BY <1>4 DEF Commit, Fail, Released
  <2> QED
    BY <1>t, <2>1 DEF GapIsHeld
<1>5. ASSUME Crash PROVE GapIsHeld'
  BY <1>5 DEF GapIsHeld, Crash
<1>6. CASE UNCHANGED vars
  BY <1>6 DEF vars, GapIsHeld
<1> QED
  BY <1>1, <1>2, <1>3, <1>4, <1>5, <1>6 DEF Next, Step

(* The next statement of w can be executed: it waits for no lock.          *)
CanGoOn(w) ==
  \/ pc[w] \in {"select", "insert", "commit"}
  \/ pc[w] = "wait" /\ TipFree(w)
  \/ pc[w] = "placing" /\ MayInsert(w)

NobodyIsStuck ==
  (\E w \in Writers : pc[w] # "idle") =>
    \E w, v \in Writers : CanGoOn(w) \/ Deadlock(w, v)

(* What RecordingEnds rests on: among recorders under way, however many    *)
(* and whatever they wait for, one can execute its next statement, or two  *)
(* wait for each other directly, which InnoDB detects.  No longer cycle of *)
(* waits forms, and no lock stays behind when its holder is gone.          *)
THEOREM RecordersGetOn == Spec => []NobodyIsStuck
<1>1. Init => GapIsHeld
  BY DEF Init, GapIsHeld
<1>2. TypeOK /\ GapIsHeld /\ [Next]_vars => GapIsHeld'
  BY GapIsHeldStep
<1>3. TypeOK /\ GapIsHeld => NobodyIsStuck
  <2> SUFFICES ASSUME TypeOK, GapIsHeld, NEW u \in Writers, pc[u] # "idle",
                      \A w \in Writers : ~ CanGoOn(w)
               PROVE  \E w, v \in Writers : Deadlock(w, v)
    BY DEF NobodyIsStuck
  <2>t. \A w \in Writers : pc[w] \in {"idle", "select", "wait", "insert", "placing", "commit"}
    BY DEF TypeOK
  <2>1. \A w \in Writers : pc[w] \in {"idle", "wait", "placing"}
    BY <2>t DEF CanGoOn
  <2>2. PICK w \in Writers : pc[w] = "placing" /\ (pc[u] = "placing" => w = u) /\ (pc[u] = "wait" => HoldsTip(w))
    <3>1. CASE pc[u] = "placing"
      BY <3>1
    <3>2. CASE pc[u] = "wait"
      <4>1. PICK v \in Writers : HoldsTip(v)
        BY <3>2 DEF CanGoOn, TipFree
      <4> QED
        BY <2>1, <3>2, <4>1 DEF HoldsTip
    <3> QED
      BY <2>1, <3>1, <3>2
  <2>3. PICK v \in gap : v # w
    BY <2>2 DEF CanGoOn, MayInsert
  <2>4. v \in Writers /\ pc[v] \in {"wait", "placing"}
    BY <2>1, <2>3 DEF TypeOK, GapIsHeld
  <2>5. CASE pc[v] = "placing"
    BY <2>2, <2>3, <2>4, <2>5 DEF Deadlock
  <2>6. CASE pc[v] = "wait"
    <3>1. chain # <<>>
      BY <2>4, <2>6 DEF CanGoOn, TipFree, HoldsTip
    <3> QED
      BY <2>2, <2>3, <2>4, <2>6, <3>1 DEF Deadlock, HoldsTip
  <2> QED
    BY <2>4, <2>5, <2>6
<1> QED
  BY <1>1, <1>2, <1>3, TypeCorrect, PTL DEF Spec
=============================================================================
