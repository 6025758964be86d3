-------------------------- MODULE FileWatcherProofs --------------------------
(***************************************************************************)
(* Proofs about FileWatcher: type correctness, that the read position has  *)
(* only confirmed lines behind it, that no stored line is alerted on       *)
(* twice, and that the position is reset by rotations alone, for any       *)
(* texts, any file lengths, any number of stops, rotations and retries.    *)
(***************************************************************************)
EXTENDS FileWatcher, NaturalsInduction, WellFoundedInduction, SequenceTheorems, TLAPS

(* A nonempty set of naturals has a least element.                         *)
LEMMA LeastElement ==
  ASSUME NEW S \in SUBSET Nat, S # {}
  PROVE  \E n \in S : \A m \in S : n <= m
<1>1. PICK n \in S : \A m \in S : <<m, n>> \notin OpToRel(<, Nat)
  BY NatLessThanWellFounded, WFMin, Zenon
<1>2. \A m \in S : ~ (m < n)
  BY <1>1 DEF OpToRel
<1> QED
  BY <1>2

-----------------------------------------------------------------------------
(* What the reading operators return.                                      *)

(* A line ends at the first chunk that ends one.                           *)
LEMMA LineLenIsLeastEnd ==
  ASSUME NEW b \in Seq(Chunk), HasLine(b)
  PROVE  /\ LineLen(b) \in 1 .. Len(b)
         /\ b[LineLen(b)].part # "head"
         /\ \A m \in 1 .. Len(b) : b[m].part # "head" => LineLen(b) <= m
<1>1. LineEnds(b) \subseteq Nat /\ LineEnds(b) # {}
  BY DEF LineEnds, HasLine
<1>2. \E n \in LineEnds(b) : \A m \in LineEnds(b) : n <= m
  BY <1>1, LeastElement
<1>3. LineLen(b) \in LineEnds(b) /\ \A m \in LineEnds(b) : LineLen(b) <= m
  BY <1>2, Zenon DEF LineLen
<1> QED
  BY <1>3 DEF LineEnds

(* Its text is one of those there are.                                     *)
LEMMA LineTextType ==
  ASSUME NEW b \in Seq(Chunk), HasLine(b)
  PROVE  LineText(b) \in AllTexts
<1>1. b[LineLen(b)] \in Chunk
  BY LineLenIsLeastEnd, ElementOfSeq
<1> QED
  BY <1>1 DEF LineText, AllTexts, Chunk

(* What stays in the buffer is what followed the line.                     *)
LEMMA DropLineType ==
  ASSUME NEW b \in Seq(Chunk), HasLine(b)
  PROVE  /\ DropLine(b) \in Seq(Chunk)
         /\ Len(DropLine(b)) = Len(b) - LineLen(b)
         /\ \A k \in 1 .. Len(DropLine(b)) : DropLine(b)[k] = b[LineLen(b) + k]
<1>1. LineLen(b) \in 1 .. Len(b) /\ Len(b) \in Nat
  BY LineLenIsLeastEnd, LenProperties
<1>2. \A i \in LineLen(b) + 1 .. Len(b) : b[i] \in Chunk
  BY <1>1, ElementOfSeq
<1> QED
  BY <1>1, <1>2, SubSeqProperties DEF DropLine

(* Reading on appends the file from behind the buffer to its end.          *)
LEMMA FilledType ==
  ASSUME TypeOK, fd \in Inodes
  PROVE  /\ Filled \in Seq(Chunk)
         /\ Len(Filled) >= Len(batch)
         /\ \A k \in 1 .. Len(Filled) :
               Filled[k] = IF k <= Len(batch) THEN batch[k] ELSE files[fd][position + k]
         /\ Len(Filled) > Len(batch) => Len(Filled) + position = Len(files[fd])
<1> DEFINE m == position + Len(batch) + 1
           n == Len(files[fd])
           rest == SubSeq(files[fd], m, n)
<1>1. /\ batch \in Seq(Chunk) /\ files[fd] \in Seq(Chunk)
      /\ position \in Nat /\ Len(batch) \in Nat /\ n \in Nat
  BY LenProperties DEF TypeOK
<1>2. \A i \in m .. n : files[fd][i] \in Chunk
  BY <1>1, ElementOfSeq
<1>3. /\ rest \in Seq(Chunk)
      /\ Len(rest) = IF m <= n THEN n - m + 1 ELSE 0
      /\ \A i \in 1 .. n - m + 1 : rest[i] = files[fd][m + i - 1]
  BY <1>1, <1>2, SubSeqProperties
<1>4. /\ batch \o rest \in Seq(Chunk)
      /\ Len(batch \o rest) = Len(batch) + Len(rest)
      /\ \A i \in 1 .. Len(batch) + Len(rest) :
            (batch \o rest)[i] = IF i <= Len(batch) THEN batch[i] ELSE rest[i - Len(batch)]
  BY <1>1, <1>3, ConcatProperties
<1>5. CASE HasLine(batch)
  BY <1>1, <1>5 DEF Filled
<1>6. CASE ~ HasLine(batch)
  <2>1. Filled = batch \o rest
    BY <1>6 DEF Filled
  <2>2. \A k \in 1 .. Len(Filled) : k > Len(batch) => Filled[k] = files[fd][position + k]
    <3> TAKE k \in 1 .. Len(Filled)
    <3> HAVE k > Len(batch)
    <3>1. k \in 1 .. Len(batch) + Len(rest) /\ k - Len(batch) \in 1 .. n - m + 1
      BY <2>1, <1>1, <1>3, <1>4
    <3>2. Filled[k] = rest[k - Len(batch)]
      BY <2>1, <3>1, <1>4, <1>1
    <3>3. rest[k - Len(batch)] = files[fd][m + (k - Len(batch)) - 1]
      BY <3>1, <1>3
    <3>4. m + (k - Len(batch)) - 1 = position + k
      BY <1>1, <3>1
    <3> QED
      BY <3>2, <3>3, <3>4
  <2> QED
    BY <2>1, <2>2, <1>1, <1>3, <1>4
<1> QED
  BY <1>5, <1>6


-----------------------------------------------------------------------------
(* Type correctness, with where the task is in its control flow: it holds  *)
(* a handle whenever it polls or reads, a request is under way only while  *)
(* ship_line awaits it, and then the buffer begins with a whole line.      *)

Control ==
  /\ pc \notin {"down", "open"} => fd \in Inodes
  /\ request # "none" => pc = "await"
  /\ pc = "await" => HasLine(batch) /\ attempt \in 1 .. MaxAttempts
  /\ cur <= made

Typed == TypeOK /\ Control

(* The types hold at the start.                                            *)
LEMMA TypedInit == Init => Typed
<1> SUFFICES ASSUME Init PROVE Typed
  OBVIOUS
<1> USE FileWatcherAssumption
<1>1. TypeOK
  BY EmptySeq DEF Init, TypeOK, Inodes, NoMark, NoPosition
<1>2. Control
  BY DEF Init, Control
<1> QED
  BY <1>1, <1>2 DEF Typed

(* Every step keeps the types.                                             *)
LEMMA TypedStep == Typed /\ [Next]_vars => Typed'
<1> SUFFICES ASSUME Typed, [Next]_vars PROVE Typed'
  OBVIOUS
<1> USE FileWatcherAssumption DEF Typed
<1>a. \A i \in Inodes : Len(files[i]) \in Nat
  BY LenProperties DEF TypeOK
<1>b. cur # 0 => cur \in Inodes
  BY DEF TypeOK, Inodes
<1>c. \A i \in Inodes : Mark(i) \in (0 .. MaxInodes) \X Nat
  BY DEF TypeOK, Mark, Inodes
<1>d. fd \in Inodes /\ HasLine(Filled) => LineText(Filled) \in AllTexts
  BY FilledType, LineTextType
<1>e. HasLine(batch) => LineText(batch) \in AllTexts
  BY LineTextType DEF TypeOK
<1>f. NoMark \in (0 .. MaxInodes) \X Nat /\ <<>> \in Seq(Chunk)
  BY EmptySeq DEF NoMark
<1>g. HasLine(batch) /\ batch' = batch => HasLine(batch)'
  BY DEF HasLine, LineEnds
<1>1. CASE Write
  <2>1. PICK c \in Chunk : files' = [files EXCEPT ![cur] = Append(@, c)]
    BY <1>1 DEF Write
  <2>2. files' \in [Inodes -> Seq(Chunk)]
    BY <2>1, <1>1, <1>b, AppendProperties DEF Write, TypeOK
  <2> QED
    BY <2>2, <1>1, <1>g DEF Write, TypeOK, Control, taskVars, serverVars
<1>2. CASE Truncate
  <2>1. files' \in [Inodes -> Seq(Chunk)]
    BY <1>2, <1>f DEF Truncate, TypeOK
  <2>2. gen' \in [Inodes -> Nat] /\ start' \in [Inodes -> Nat \cup {NoPosition}]
    BY <1>2, <1>b DEF Truncate, TypeOK
  <2>3. TypeOK'
    BY <2>1, <2>2, <1>2 DEF Truncate, TypeOK, taskVars, serverVars
  <2>4. Control'
    BY <1>2, <1>g DEF Truncate, Control, taskVars
  <2> QED
    BY <2>3, <2>4
<1>3. CASE MoveAway
  <2>1. TypeOK'
    BY <1>3 DEF MoveAway, TypeOK, taskVars, serverVars
  <2>2. Control'
    BY <1>3, <1>g DEF MoveAway, Control, taskVars, TypeOK, Inodes
  <2> QED
    BY <2>1, <2>2
<1>4. CASE CreateFresh
  BY <1>4, <1>g DEF CreateFresh, TypeOK, Control, taskVars, serverVars, Inodes
<1>5. CASE Open
  <2>1. position' \in Nat /\ start' \in [Inodes -> Nat \cup {NoPosition}]
    BY <1>5, <1>a, <1>b DEF Open, TypeOK, NoPosition
  <2>2. posMark' \in (0 .. MaxInodes) \X Nat
    BY <1>5, <1>b, <1>c DEF Open, TypeOK
  <2> QED
    BY <2>1, <2>2, <1>5, <1>b, <1>g DEF Open, TypeOK, Control, fileVars, serverVars
<1>6. CASE LoseAccess
  BY <1>6, <1>g DEF LoseAccess, TypeOK, Control, fileVars, serverVars
<1>7. CASE Poll
  <2>1. position' \in Nat /\ posMark' \in (0 .. MaxInodes) \X Nat
    BY <1>7, <1>c DEF Poll, TypeOK, Control
  <2> QED
    BY <2>1, <1>7, <1>g DEF Poll, TypeOK, Control, fileVars, serverVars
<1>8. CASE EndOfPass
  BY <1>8, <1>f DEF EndOfPass, TypeOK, Control, fileVars, serverVars
<1>9. CASE SkipLine
  <2>1. /\ Filled \in Seq(Chunk) /\ HasLine(Filled)
    BY <1>9, FilledType DEF SkipLine, Control
  <2>2. LineLen(Filled) \in Nat /\ DropLine(Filled) \in Seq(Chunk)
    BY <2>1, LineLenIsLeastEnd, DropLineType, LenProperties
  <2>3. position' \in Nat /\ batch' \in Seq(Chunk) /\ posMark' \in (0 .. MaxInodes) \X Nat
    BY <1>9, <2>2, <1>f DEF SkipLine, Advance, TypeOK
  <2> QED
    BY <2>3, <1>9 DEF SkipLine, Advance, TypeOK, Control, fileVars, serverVars
<1>10. CASE ShipLine
  <2>1. /\ Filled \in Seq(Chunk) /\ HasLine(Filled)
    BY <1>10, FilledType DEF ShipLine, Control
  <2>2. HasLine(batch)'
    BY <2>1, <1>10 DEF ShipLine, HasLine, LineEnds
  <2>3. TypeOK'
    BY <2>1, <1>10 DEF ShipLine, TypeOK, fileVars, serverVars
  <2>4. Control'
    BY <2>2, <1>10 DEF ShipLine, Control, fileVars
  <2> QED
    BY <2>3, <2>4
<1>11. CASE ShipSucceeds
  <2>1. LineLen(batch) \in Nat /\ DropLine(batch) \in Seq(Chunk)
    BY <1>11, LineLenIsLeastEnd, DropLineType, LenProperties DEF ShipSucceeds, Control, TypeOK
  <2>2. position' \in Nat /\ batch' \in Seq(Chunk) /\ posMark' \in (0 .. MaxInodes) \X Nat
    BY <1>11, <2>1, <1>f DEF ShipSucceeds, Advance, TypeOK
  <2>3. TypeOK'
    BY <2>2, <1>11 DEF ShipSucceeds, Advance, TypeOK, fileVars, serverVars
  <2>4. Control'
    BY <1>11 DEF ShipSucceeds, Advance, Control, fileVars
  <2> QED
    BY <2>3, <2>4
<1>12. CASE Retry
  BY <1>12, <1>g DEF Retry, MayRetry, TypeOK, Control, fileVars, serverVars
<1>13. CASE GiveUp
  BY <1>13, <1>f DEF GiveUp, TypeOK, Control, fileVars, serverVars
<1>14. CASE SaveTruncates
  BY <1>14, <1>f, <1>g DEF SaveTruncates, TypeOK, Control, fileVars, serverVars
<1>15. CASE SaveWrites
  BY <1>15, <1>g DEF SaveWrites, TypeOK, Control, fileVars, serverVars
<1>16. CASE SaveFails
  <2>1. TypeOK'
    BY <1>16 DEF SaveFails, TypeOK, fileVars, serverVars
  <2>2. Control'
    BY <1>16, <1>g DEF SaveFails, Control, fileVars
  <2> QED
    BY <2>1, <2>2
<1>17. CASE IoError
  <2>1. TypeOK'
    BY <1>17, <1>f DEF IoError, TypeOK, fileVars, serverVars
  <2>2. Control'
    BY <1>17 DEF IoError, Control, fileVars
  <2> QED
    BY <2>1, <2>2
<1>18. CASE Stop
  BY <1>18, <1>e, <1>f DEF Stop, TypeOK, Control, fileVars, serverVars
<1>19. CASE Restart
  BY <1>19, <1>g DEF Restart, TypeOK, Control, fileVars, serverVars
<1>20. CASE ServerAccepts
  <2>1. LineText(batch) \in AllTexts
    BY <1>20, <1>e DEF ServerAccepts, Control
  <2>2. store' \subseteq AllTexts /\ alerts' \in [AllTexts -> Nat]
    BY <1>20, <2>1 DEF ServerAccepts, Ingest, TypeOK
  <2>3. TypeOK'
    BY <1>20, <2>2 DEF ServerAccepts, TypeOK, fileVars, taskVars
  <2>4. Control'
    BY <1>20, <1>g DEF ServerAccepts, Control, fileVars, taskVars
  <2> QED
    BY <2>3, <2>4
<1>21. CASE ServerRefuses
  BY <1>21, <1>g DEF ServerRefuses, TypeOK, Control, fileVars, taskVars, serverVars
<1>22. CASE TimeOut
  BY <1>22, <1>e, <1>g DEF TimeOut, TypeOK, Control, fileVars, taskVars, serverVars
<1>23. ASSUME NEW t \in AllTexts, LateArrives(t) PROVE Typed'
  <2>1. store' \subseteq AllTexts /\ alerts' \in [AllTexts -> Nat]
    <3>1. CASE Ingest(t)
      BY <3>1 DEF Ingest, TypeOK
    <3>2. CASE UNCHANGED serverVars
      BY <3>2 DEF TypeOK, serverVars
    <3> QED
      BY <1>23, <3>1, <3>2, Zenon DEF LateArrives
  <2>2. TypeOK'
    BY <1>23, <2>1 DEF LateArrives, TypeOK, fileVars, taskVars
  <2>3. Control'
    BY <1>23, <1>g DEF LateArrives, Control, fileVars, taskVars
  <2> QED
    BY <2>2, <2>3
<1>24. ASSUME NEW t \in AllTexts, LateLost(t) PROVE Typed'
  BY <1>24, <1>g DEF LateLost, TypeOK, Control, fileVars, taskVars, serverVars
<1>25. CASE UNCHANGED vars
  BY <1>25, <1>g DEF vars, TypeOK, Control
<1> QED
  BY <1>1, <1>2, <1>3, <1>4, <1>5, <1>6, <1>7, <1>8, <1>9, <1>10, <1>11, <1>12,
     <1>13, <1>14, <1>15, <1>16, <1>17, <1>18, <1>19, <1>20, <1>21, <1>22,
     <1>23, <1>24, <1>25 DEF Next, Environment, Watcher

(* Every reachable state of the watcher, its files and the server is well  *)
(* typed, whatever is written, rotated, lost or restarted.                 *)
THEOREM TypeCorrect == Spec => []TypeOK
<1>1. Typed => TypeOK
  BY DEF Typed
<1> QED
  BY <1>1, TypedInit, TypedStep, PTL DEF Spec

-----------------------------------------------------------------------------
(* The inductive invariant behind PositionCoversOnlyDelivered.             *)

(* Heads and tails pair up in every file.                                  *)
LinesIntact ==
  \A i \in Inodes : \A k \in 1 .. Len(files[i]) :
     /\ files[i][k].part = "tail" =>
          k > 1 /\ files[i][k-1].part = "head" /\ files[i][k-1].text = files[i][k].text
     /\ files[i][k].part = "head" /\ k < Len(files[i]) =>
          files[i][k+1].part = "tail" /\ files[i][k+1].text = files[i][k].text

LineBoundary(i, n) == n = 0 \/ n = start[i] \/ files[i][n].part # "head"

SoundAt(i, n) == n <= Len(files[i]) /\ LineBoundary(i, n) /\ Covers(i, n)

(* b is what follows position n in inode i.                                *)
ReadFrom(b, i, n) ==
  n + Len(b) <= Len(files[i]) /\ \A k \in 1 .. Len(b) : b[k] = files[i][n+k]

PositionSound ==
  \A i \in Inodes, n \in Nat :
     fd = i /\ position = n /\ posMark = Mark(i) => SoundAt(i, n)

BatchSound ==
  \A i \in Inodes, n \in Nat, b \in Seq(Chunk) :
     fd = i /\ position = n /\ batch = b /\ posMark = Mark(i) => ReadFrom(b, i, n)

SavedSound ==
  \A i \in Inodes, n \in Nat : saved = n /\ savedMark = Mark(i) => SoundAt(i, n)

MarksPast ==
  \A i \in Inodes :
     /\ posMark[1] = i => posMark[2] <= gen[i]
     /\ savedMark[1] = i => savedMark[2] <= gen[i]

Confirmed ==
  \A b \in Seq(Chunk) : b = batch /\ request = "ok" => LineText(b) \in store

Control2 ==
  /\ pc \in {"down", "open", "poll"} => batch = <<>>
  /\ pc \in {"save", "write"} => posMark[1] \in {0, fd}

IInv ==
  /\ Typed /\ LinesIntact /\ PositionSound /\ BatchSound /\ SavedSound
  /\ MarksPast /\ Confirmed /\ Control2

(* Consuming one line from a sound position leads to a sound position, if  *)
(* the line was stored or is not one the watcher ships.                    *)
LEMMA AdvanceSound ==
  ASSUME TypeOK, LinesIntact,
         NEW i \in Inodes, NEW n \in Nat, NEW b \in Seq(Chunk),
         SoundAt(i, n), ReadFrom(b, i, n), HasLine(b),
         KindOf[LineText(b)] \in {"event", "rejected"} => LineText(b) \in store
  PROVE  /\ SoundAt(i, n + LineLen(b))
         /\ ReadFrom(DropLine(b), i, n + LineLen(b))
<1> DEFINE l == LineLen(b)
           f == files[i]
<1>1. /\ l \in 1 .. Len(b) /\ Len(b) \in Nat /\ Len(f) \in Nat
      /\ b[l].part # "head"
      /\ \A m \in 1 .. Len(b) : b[m].part # "head" => l <= m
  BY LineLenIsLeastEnd, LenProperties DEF TypeOK
<1>2. /\ n + Len(b) <= Len(f)
      /\ \A k \in 1 .. Len(b) : b[k] = f[n+k]
  BY DEF ReadFrom
<1>3. \A k \in 1 .. Len(f) :
         /\ f[k].part = "tail" =>
              k > 1 /\ f[k-1].part = "head" /\ f[k-1].text = f[k].text
         /\ f[k].part = "head" /\ k < Len(f) =>
              f[k+1].part = "tail" /\ f[k+1].text = f[k].text
  BY DEF LinesIntact
<1>4. \A k \in 1 .. Len(f) : f[k].part \in Parts
  <2>1. \A k \in 1 .. Len(f) : f[k] \in Chunk
    BY ElementOfSeq DEF TypeOK
  <2> QED
    BY <2>1 DEF Chunk
<1>5. l = 1 \/ (l = 2 /\ b[1].part = "head" /\ b[2].part = "tail" /\ b[1].text = b[2].text)
  <2>1. CASE b[1].part # "head"
    BY <2>1, <1>1
  <2>2. CASE b[1].part = "head"
    <3>1. Len(b) >= 2
      BY <2>2, <1>1
    <3>2. b[1] = f[n+1] /\ b[2] = f[n+2]
      BY <3>1, <1>1, <1>2
    <3>3. n + 1 \in 1 .. Len(f) /\ n + 1 < Len(f) /\ (n + 1) + 1 = n + 2
      BY <3>1, <1>1, <1>2
    <3>4. b[2].part = "tail" /\ b[2].text = b[1].text
      BY <2>2, <3>2, <3>3, <1>3
    <3> QED
      BY <2>2, <3>1, <3>4, <1>1
  <2> QED
    BY <2>1, <2>2
<1>6. n + l \in Nat /\ n + l <= Len(f) /\ f[n+l].part # "head" /\ f[n+l] = b[l]
  BY <1>1, <1>2
<1>7. ASSUME NEW k \in 1 .. n + l, WholeLineAt(i, k),
             KindOf[f[k].text] \in {"event", "rejected"}
      PROVE  f[k].text \in store
  <2>1. CASE k <= n
    BY <2>1, <1>7 DEF SoundAt, Covers
  <2>2. CASE k > n /\ l = 1
    <3>1. k = n + 1 /\ f[k] = b[1]
      BY <2>2, <1>6
    <3>2. f[k].part # "tail"
      <4> SUFFICES ASSUME f[k].part = "tail" PROVE FALSE
        OBVIOUS
      <4>1. n > start[i] /\ k > 1 /\ f[n].part = "head" /\ n # 0
        BY <3>1, <1>6, <1>3, <1>7 DEF WholeLineAt
      <4> QED
        BY <4>1 DEF SoundAt, LineBoundary, TypeOK, NoPosition
    <3>3. b[1].part = "whole"
      BY <3>1, <3>2, <1>7 DEF WholeLineAt
    <3>4. LineText(b) = b[1].text
      BY <3>3, <2>2 DEF LineText
    <3> QED
      BY <3>1, <3>4, <1>7
  <2>3. CASE k > n /\ l = 2
    <3>1. k = n + 1 \/ k = n + 2
      BY <2>3
    <3>2. f[n+1] = b[1] /\ f[n+2] = b[2]
      BY <2>3, <1>1, <1>2
    <3>3. k = n + 2
      BY <3>1, <3>2, <1>5, <2>3, <1>7 DEF WholeLineAt
    <3>4. LineText(b) = b[2].text
      BY <2>3, <1>5 DEF LineText
    <3> QED
      BY <3>2, <3>3, <3>4, <1>7
  <2> QED
    BY <2>1, <2>2, <2>3, <1>5
<1>8. SoundAt(i, n + l)
  BY <1>6, <1>7 DEF SoundAt, LineBoundary, Covers
<1>9. ReadFrom(DropLine(b), i, n + l)
  <2>1. /\ Len(DropLine(b)) = Len(b) - l
        /\ \A k \in 1 .. Len(DropLine(b)) : DropLine(b)[k] = b[l + k]
    BY DropLineType
  <2>2. \A k \in 1 .. Len(DropLine(b)) : l + k \in 1 .. Len(b) /\ n + (l + k) = (n + l) + k
    BY <2>1, <1>1
  <2>3. (n + l) + Len(DropLine(b)) <= Len(f)
    BY <2>1, <1>1, <1>2
  <2>4. ASSUME NEW k \in 1 .. Len(DropLine(b))
        PROVE  DropLine(b)[k] = f[(n + l) + k]
    <3>1. b[l + k] = f[n + (l + k)]
      BY <2>2, <1>2
    <3> QED
      BY <3>1, <2>1, <2>2
  <2> QED
    BY <2>3, <2>4 DEF ReadFrom
<1> QED
  BY <1>8, <1>9

(* What a step may do to inode i without touching soundness.               *)
Grows(i) ==
  /\ start'[i] = start[i] /\ gen'[i] = gen[i]
  /\ Len(files[i]) <= Len(files'[i])
  /\ \A k \in 1 .. Len(files[i]) : files'[i][k] = files[i][k]

(* What is sound of a position stays so while its file only grows.         *)
LEMMA SoundStays ==
  ASSUME TypeOK, TypeOK', store \subseteq store', NEW i \in Inodes, Grows(i)
  PROVE  /\ \A n \in Nat : SoundAt(i, n) => SoundAt(i, n)'
         /\ \A n \in Nat, b \in Seq(Chunk) : ReadFrom(b, i, n) => ReadFrom(b, i, n)'
<1>1. Len(files[i]) \in Nat /\ Len(files'[i]) \in Nat
  BY LenProperties DEF TypeOK
<1>2. ASSUME NEW n \in Nat, SoundAt(i, n) PROVE SoundAt(i, n)'
  <2>1. n <= Len(files[i]) /\ \A k \in 1 .. n : files'[i][k] = files[i][k]
    BY <1>1, <1>2 DEF SoundAt, Grows
  <2>2. Covers(i, n)'
    <3> SUFFICES ASSUME NEW k \in 1 .. n, WholeLineAt(i, k)',
                        KindOf[files'[i][k].text] \in {"event", "rejected"}
                 PROVE  files'[i][k].text \in store'
      BY DEF Covers
    <3>1. WholeLineAt(i, k)
      BY <2>1 DEF WholeLineAt, Grows
    <3> QED
      BY <3>1, <2>1, <1>2 DEF SoundAt, Covers
  <2>3. LineBoundary(i, n)'
    BY <2>1, <1>2 DEF SoundAt, LineBoundary, Grows
  <2> QED
    BY <2>1, <2>2, <2>3, <1>1 DEF SoundAt, Grows
<1>3. ASSUME NEW n \in Nat, NEW b \in Seq(Chunk), ReadFrom(b, i, n) PROVE ReadFrom(b, i, n)'
  <2>1. Len(b) \in Nat
    BY LenProperties
  <2>2. n + Len(b) <= Len(files'[i])
    BY <2>1, <1>1, <1>3 DEF ReadFrom, Grows
  <2>3. ASSUME NEW k \in 1 .. Len(b) PROVE b[k] = files'[i][n+k]
    <3>1. n + k \in 1 .. Len(files[i]) /\ b[k] = files[i][n+k]
      BY <2>1, <1>1, <1>3 DEF ReadFrom
    <3> QED
      BY <3>1 DEF Grows
  <2> QED
    BY <2>2, <2>3 DEF ReadFrom
<1> QED
  BY <1>2, <1>3

(* A step that lets files and the store grow, and at most drops the        *)
(* buffer, keeps positions sound.                                          *)
LEMMA QuietStep ==
  ASSUME IInv, TypeOK', store \subseteq store', \A i \in Inodes : Grows(i),
         UNCHANGED <<fd, position, posMark, saved, savedMark>>,
         batch' = batch \/ batch' = <<>>
  PROVE  PositionSound' /\ BatchSound' /\ SavedSound' /\ MarksPast'
<1> USE DEF IInv, Typed
<1>1. \A i \in Inodes : Mark(i)' = Mark(i)
  BY DEF Grows, Mark
<1>2. \A i \in Inodes, n \in Nat : SoundAt(i, n) => SoundAt(i, n)'
  BY SoundStays
<1>3. \A i \in Inodes, n \in Nat, b \in Seq(Chunk) : ReadFrom(b, i, n) => ReadFrom(b, i, n)'
  BY SoundStays
<1>4. PositionSound'
  BY <1>1, <1>2 DEF PositionSound
<1>5. SavedSound'
  BY <1>1, <1>2 DEF SavedSound
<1>6. MarksPast'
  BY DEF MarksPast, Grows
<1>7. BatchSound'
  <2> SUFFICES ASSUME NEW i \in Inodes, NEW n \in Nat, NEW b \in Seq(Chunk),
                      fd' = i, position' = n, batch' = b, posMark' = Mark(i)'
               PROVE  ReadFrom(b, i, n)'
    BY DEF BatchSound
  <2>1. CASE batch' = batch
    BY <2>1, <1>1, <1>3 DEF BatchSound
  <2>2. CASE b = <<>>
    <3>1. SoundAt(i, n) /\ Len(files[i]) \in Nat
      BY <1>1, LenProperties DEF PositionSound, TypeOK
    <3>2. n <= Len(files[i])
      BY <3>1 DEF SoundAt
    <3>3. ReadFrom(b, i, n)
      BY <2>2, <3>1, <3>2, EmptySeq DEF ReadFrom
    <3> QED
      BY <3>3, <1>3
  <2> QED
    BY <2>1, <2>2
<1> QED
  BY <1>4, <1>5, <1>6, <1>7

(* The invariant holds at the start.                                       *)
LEMMA SoundInit == Init => IInv
<1> SUFFICES ASSUME Init PROVE IInv
  OBVIOUS
<1>1. Typed
  BY TypedInit
<1>2. LinesIntact
  BY EmptySeq DEF Init, LinesIntact
<1>3. \A i \in Inodes : posMark # Mark(i) /\ savedMark # Mark(i)
  BY FileWatcherAssumption DEF Init, Mark, NoMark, Inodes
<1>4. PositionSound /\ BatchSound /\ SavedSound /\ MarksPast
  BY <1>3, FileWatcherAssumption
  DEF Init, PositionSound, BatchSound, SavedSound, MarksPast, NoMark, Inodes
<1>5. Confirmed /\ Control2
  BY DEF Init, Confirmed, Control2
<1> QED
  BY <1>1, <1>2, <1>4, <1>5 DEF IInv

(* Every step keeps the invariant.                                         *)
LEMMA SoundStep == IInv /\ [Next]_vars => IInv'
<1> SUFFICES ASSUME IInv, [Next]_vars PROVE IInv'
  OBVIOUS
<1> USE DEF IInv
<1>t. Typed' /\ TypeOK'
  BY TypedStep DEF Typed
<1>u. TypeOK /\ Control
  BY DEF Typed
<1>a. \A i \in Inodes : Len(files[i]) \in Nat
  BY <1>u, LenProperties DEF TypeOK
<1>b. cur # 0 => cur \in Inodes
  BY <1>u DEF TypeOK, Inodes
(* What the actions that change neither files nor store share.             *)
<1>g. UNCHANGED <<files, gen, start>> => \A i \in Inodes : Grows(i)
  BY <1>a DEF Grows
<1>l. UNCHANGED files => LinesIntact'
  BY DEF LinesIntact
<1>k. UNCHANGED <<batch, store>> /\ (request' = "ok" => request = "ok") => Confirmed'
  BY DEF Confirmed
<1>n. request' # "ok" => Confirmed'
  BY DEF Confirmed
<1>1. CASE Write
  <2>1. PICK c \in Chunk : /\ Follows(files[cur], c)
                           /\ files' = [files EXCEPT ![cur] = Append(@, c)]
    BY <1>1 DEF Write
  <2> DEFINE f == files[cur]
  <2>2. cur \in Inodes /\ f \in Seq(Chunk) /\ Len(f) \in Nat
    BY <1>1, <1>a, <1>b, <1>u DEF Write, TypeOK
  <2>3. files'[cur] = Append(f, c) /\ \A i \in Inodes \ {cur} : files'[i] = files[i]
    BY <2>1, <2>2, <1>u DEF TypeOK
  <2>4. /\ Len(files'[cur]) = Len(f) + 1
        /\ \A k \in 1 .. Len(f) : files'[cur][k] = f[k]
        /\ files'[cur][Len(f) + 1] = c
    BY <2>2, <2>3, AppendProperties
  <2>5. \A i \in Inodes : Grows(i)
    BY <2>3, <2>4, <2>2, <1>a, <1>1 DEF Grows, Write
  <2>6. LinesIntact'
    <3> SUFFICES ASSUME NEW i \in Inodes, NEW k \in 1 .. Len(files'[i])
                 PROVE  /\ files'[i][k].part = "tail" =>
                             /\ k > 1 /\ files'[i][k-1].part = "head"
                             /\ files'[i][k-1].text = files'[i][k].text
                        /\ files'[i][k].part = "head" /\ k < Len(files'[i]) =>
                             /\ files'[i][k+1].part = "tail"
                             /\ files'[i][k+1].text = files'[i][k].text
      BY DEF LinesIntact
    <3>1. CASE i # cur
      BY <3>1, <2>3 DEF LinesIntact
    <3>2. CASE i = cur /\ k < Len(f)
      <4>1. k \in 1 .. Len(f) /\ k + 1 \in 1 .. Len(f) /\ (k > 1 => k - 1 \in 1 .. Len(f))
        BY <3>2, <2>2, <2>4
      <4>2. /\ f[k].part = "tail" =>
                 k > 1 /\ f[k-1].part = "head" /\ f[k-1].text = f[k].text
            /\ f[k].part = "head" =>
                 f[k+1].part = "tail" /\ f[k+1].text = f[k].text
        BY <4>1, <3>2, <2>2 DEF LinesIntact
      <4>3. /\ files'[i][k] = f[k] /\ files'[i][k+1] = f[k+1]
            /\ k > 1 => files'[i][k-1] = f[k-1]
        BY <4>1, <3>2, <2>4
      <4> QED
        BY <4>2, <4>3
    <3>3. CASE i = cur /\ k = Len(f)
      <4>1. k \in 1 .. Len(f) /\ (k > 1 => k - 1 \in 1 .. Len(f))
        BY <3>3, <2>2
      <4>2. f[k].part = "head" => c.part = "tail" /\ c.text = f[k].text
        BY <3>3, <4>1, <2>1, <2>2 DEF Follows
      <4> QED
        BY <4>1, <4>2, <3>3, <2>2, <2>4 DEF LinesIntact
    <3>4. CASE i = cur /\ k = Len(f) + 1
      <4>1. c.part = "tail" => Len(f) > 0 /\ f[Len(f)].part = "head" /\ c.text = f[Len(f)].text
        BY <2>1 DEF Follows
      <4> QED
        BY <4>1, <3>4, <2>2, <2>4
    <3> QED
      BY <3>1, <3>2, <3>3, <3>4, <2>2, <2>4
  <2>7. PositionSound' /\ BatchSound' /\ SavedSound' /\ MarksPast'
    BY <1>1, <1>t, <2>5, QuietStep DEF Write, taskVars, serverVars
  <2>8. Confirmed' /\ Control2'
    BY <1>1, <1>k DEF Write, taskVars, serverVars, Control2
  <2> QED
    BY <1>t, <2>6, <2>7, <2>8
<1>2. CASE Truncate
  <2>1. cur \in Inodes /\ files'[cur] = <<>> /\ gen'[cur] = gen[cur] + 1
    BY <1>2, <1>b, <1>u DEF Truncate, TypeOK
  <2>2. \A i \in Inodes \ {cur} : files'[i] = files[i] /\ Grows(i)
    BY <1>2, <1>a, <1>u DEF Truncate, Grows, TypeOK
  <2>3. LinesIntact'
    <3>1. Len(files'[cur]) = 0
      BY <2>1, EmptySeq
    <3>2. \A k \in 1 .. Len(files'[cur]) : FALSE
      BY <3>1
    <3>3. \A i \in Inodes : i # cur => files'[i] = files[i]
      BY <2>2
    <3> QED
      BY <3>2, <3>3 DEF LinesIntact
  <2>4. posMark # Mark(cur)' /\ savedMark # Mark(cur)'
    <3>1. gen[cur] \in Nat /\ Mark(cur)' = <<cur, gen[cur] + 1>>
      BY <1>2, <2>1, <1>u DEF Mark, TypeOK, Truncate
    <3>2. Mark(cur)'[1] = cur /\ Mark(cur)'[2] = gen[cur] + 1
      BY <3>1
    <3>3. ~ (gen[cur] + 1 <= gen[cur])
      BY <3>1
    <3> QED
      BY <2>1, <3>2, <3>3 DEF MarksPast
  <2>5. MarksPast'
    <3>1. \A i \in Inodes : gen[i] \in Nat /\ gen'[i] \in Nat /\ gen[i] <= gen'[i]
      <4>1. gen \in [Inodes -> Nat] /\ gen' = [gen EXCEPT ![cur] = @ + 1]
        BY <1>2, <1>u DEF Truncate, TypeOK
      <4> QED
        BY <4>1
    <3>2. posMark[2] \in Nat /\ savedMark[2] \in Nat
      BY <1>u DEF TypeOK
    <3>3. posMark' = posMark /\ savedMark' = savedMark
      BY <1>2 DEF Truncate, taskVars
    <3> QED
      BY <3>1, <3>2, <3>3 DEF MarksPast
  <2>6. store \subseteq store' /\ \A i \in Inodes \ {cur} : Mark(i)' = Mark(i)
    BY <1>2, <2>2 DEF Truncate, serverVars, Grows, Mark
  <2>7. \A i \in Inodes \ {cur}, n \in Nat : SoundAt(i, n) => SoundAt(i, n)'
    BY <1>t, <1>u, <2>2, <2>6, SoundStays
  <2>8. \A i \in Inodes \ {cur}, n \in Nat, b \in Seq(Chunk) :
           ReadFrom(b, i, n) => ReadFrom(b, i, n)'
    BY <1>t, <1>u, <2>2, <2>6, SoundStays
  <2>9. PositionSound' /\ SavedSound'
    BY <1>2, <2>4, <2>6, <2>7 DEF PositionSound, SavedSound, Truncate, taskVars
  <2>10. BatchSound'
    BY <1>2, <2>4, <2>6, <2>8 DEF BatchSound, Truncate, taskVars
  <2>11. Confirmed' /\ Control2'
    BY <1>2, <1>k DEF Truncate, taskVars, serverVars, Control2
  <2> QED
    BY <1>t, <2>3, <2>5, <2>9, <2>10, <2>11
<1>3. CASE MoveAway
  <2>1. PositionSound' /\ BatchSound' /\ SavedSound' /\ MarksPast'
    BY <1>3, <1>t, <1>g, QuietStep DEF MoveAway, taskVars, serverVars
  <2> QED
    BY <1>3, <1>t, <1>l, <1>k, <2>1 DEF MoveAway, taskVars, serverVars, Control2
<1>4. CASE CreateFresh
  <2>1. PositionSound' /\ BatchSound' /\ SavedSound' /\ MarksPast'
    BY <1>4, <1>t, <1>g, QuietStep DEF CreateFresh, taskVars, serverVars
  <2> QED
    BY <1>4, <1>t, <1>l, <1>k, <2>1 DEF CreateFresh, taskVars, serverVars, Control2
<1>5. CASE Open
  <2>1. cur \in Inodes /\ fd' = cur /\ batch = <<>> /\ batch' = <<>>
    BY <1>5, <1>b DEF Open, Control2
  <2>2. \A i \in Inodes : Mark(i)' = Mark(i)
    BY <1>5 DEF Open, fileVars, Mark
  <2>3. CASE saved # NoPosition
    <3>1. /\ position' = saved /\ posMark' = savedMark
          /\ UNCHANGED <<files, gen, start, saved, savedMark, store>>
      BY <1>5, <2>3 DEF Open, fileVars, serverVars
    <3>2. \A i \in Inodes, n \in Nat : SoundAt(i, n) => SoundAt(i, n)'
      BY <3>1, <1>g, <1>t, <1>u, SoundStays
    <3>3. PositionSound' /\ SavedSound' /\ MarksPast'
      BY <3>1, <3>2, <2>2 DEF PositionSound, SavedSound, MarksPast
    <3>4. BatchSound'
      <4> SUFFICES ASSUME NEW i \in Inodes, NEW n \in Nat, NEW b \in Seq(Chunk),
                          fd' = i, position' = n, batch' = b, posMark' = Mark(i)'
                   PROVE  ReadFrom(b, i, n)'
        BY DEF BatchSound
      <4>1. SoundAt(i, n)'
        BY <3>3 DEF PositionSound
      <4>2. n <= Len(files'[i])
        BY <4>1 DEF SoundAt
      <4> QED
        BY <4>2, <2>1, EmptySeq DEF ReadFrom
    <3> QED
      BY <1>5, <1>t, <1>l, <3>1, <3>3, <3>4, <1>k DEF Open, fileVars, Control2
  <2>4. CASE saved = NoPosition
    <3>1. /\ position' = Len(files[cur]) /\ posMark' = Mark(cur)
          /\ start' = [start EXCEPT ![cur] = Len(files[cur])]
          /\ UNCHANGED <<files, gen, saved, savedMark, store>>
      BY <1>5, <2>4 DEF Open, fileVars, serverVars
    <3>2. start'[cur] = Len(files[cur]) /\ Len(files[cur]) \in Nat
      BY <3>1, <2>1, <1>a, <1>u DEF TypeOK
    <3>4. PositionSound'
      <4> SUFFICES ASSUME NEW i \in Inodes, NEW n \in Nat, fd' = i, position' = n
                   PROVE  SoundAt(i, n)'
        BY DEF PositionSound
      <4>1. i = cur /\ n = Len(files'[cur])
        BY <2>1, <3>1
      <4> QED
        BY <4>1, <3>1, <3>2 DEF SoundAt, LineBoundary, Covers, WholeLineAt
    <3>5. SavedSound'
      BY <3>1, <2>4 DEF SavedSound, NoPosition
    <3>6. MarksPast'
      BY <3>1, <2>1, <1>u DEF MarksPast, Mark, TypeOK
    <3>7. BatchSound'
      BY <2>1, <3>1, <3>2, EmptySeq DEF BatchSound, ReadFrom
    <3> QED
      BY <1>5, <1>t, <1>l, <3>1, <3>4, <3>5, <3>6, <3>7, <1>k DEF Open, fileVars, Control2
  <2> QED
    BY <2>3, <2>4
<1>6. CASE LoseAccess
  <2>1. PositionSound' /\ BatchSound' /\ SavedSound' /\ MarksPast'
    BY <1>6, <1>t, <1>g, QuietStep DEF LoseAccess, fileVars, serverVars
  <2> QED
    BY <1>6, <1>t, <1>l, <1>k, <2>1 DEF LoseAccess, fileVars, serverVars, Control2
<1>7. CASE Poll
  <2>1. /\ batch = <<>> /\ batch' = <<>> /\ fd' = fd /\ fd \in Inodes
        /\ UNCHANGED <<files, gen, start, saved, savedMark, store>>
    BY <1>7, <1>u DEF Poll, Control, Control2, fileVars, serverVars
  <2>2. \A i \in Inodes : Mark(i)' = Mark(i)
    BY <2>1 DEF Mark
  <2>3. \A i \in Inodes, n \in Nat : SoundAt(i, n) => SoundAt(i, n)'
    BY <2>1, <1>g, <1>t, <1>u, SoundStays
  <2>4. \/ position' = position /\ posMark' = posMark
        \/ position' = 0 /\ posMark' = Mark(fd)
    BY <1>7 DEF Poll
  <2>5. \A i \in Inodes : SoundAt(i, 0)
    BY <1>a DEF SoundAt, LineBoundary, Covers
  <2>6. PositionSound'
    BY <2>1, <2>2, <2>3, <2>4, <2>5 DEF PositionSound
  <2>7. SavedSound'
    BY <2>1, <2>2, <2>3 DEF SavedSound
  <2>8. MarksPast'
    BY <2>1, <2>4, <1>u DEF MarksPast, Mark, TypeOK
  <2>9. BatchSound'
    <3> SUFFICES ASSUME NEW i \in Inodes, NEW n \in Nat, NEW b \in Seq(Chunk),
                        fd' = i, position' = n, batch' = b, posMark' = Mark(i)'
                 PROVE  ReadFrom(b, i, n)'
      BY DEF BatchSound
    <3>1. SoundAt(i, n)'
      BY <2>6 DEF PositionSound
    <3>2. n <= Len(files'[i])
      BY <3>1 DEF SoundAt
    <3> QED
      BY <3>2, <2>1, EmptySeq DEF ReadFrom
  <2>10. Confirmed' /\ Control2'
    BY <1>7, <2>1, <1>k DEF Poll, Control2
  <2> QED
    BY <1>t, <1>l, <2>1, <2>6, <2>7, <2>8, <2>9, <2>10
<1>8. CASE EndOfPass
  <2>1. PositionSound' /\ BatchSound' /\ SavedSound' /\ MarksPast'
    BY <1>8, <1>t, <1>g, QuietStep DEF EndOfPass, fileVars, serverVars
  <2>2. Confirmed'
    BY <1>8, <1>u, <1>n DEF EndOfPass, Control
  <2> QED
    BY <1>8, <1>t, <1>l, <2>1, <2>2 DEF EndOfPass, fileVars, serverVars, Control2
(* Both ways of consuming the line at the head of a buffer b.              *)
<1>v. ASSUME NEW b \in Seq(Chunk), HasLine(b), fd \in Inodes, Advance(b), fd' = fd,
             UNCHANGED <<files, gen, start, saved, savedMark, store>>,
             posMark = Mark(fd) => ReadFrom(b, fd, position),
             KindOf[LineText(b)] \in {"event", "rejected"} => LineText(b) \in store
      PROVE  /\ PositionSound' /\ BatchSound' /\ SavedSound' /\ MarksPast'
             /\ posMark'[1] \in {0, fd'}
  <2>1. \A i \in Inodes : Mark(i)' = Mark(i)
    BY <1>v DEF Mark
  <2>2. \A i \in Inodes, n \in Nat : SoundAt(i, n) => SoundAt(i, n)'
    BY <1>v, <1>g, <1>t, <1>u, SoundStays
  <2>3. \A i \in Inodes, n \in Nat, c \in Seq(Chunk) : ReadFrom(c, i, n) => ReadFrom(c, i, n)'
    BY <1>v, <1>g, <1>t, <1>u, SoundStays
  <2>4. SavedSound'
    BY <1>v, <2>1, <2>2 DEF SavedSound
  <2>5. CASE posMark = Mark(fd)
    <3>1. posMark' = posMark /\ position' = position + LineLen(b) /\ batch' = DropLine(b)
      BY <1>v, <2>5 DEF Advance
    <3>2. position \in Nat /\ SoundAt(fd, position) /\ ReadFrom(b, fd, position)
      BY <1>v, <2>5, <1>u DEF PositionSound, TypeOK
    <3>3. /\ SoundAt(fd, position + LineLen(b))
          /\ ReadFrom(DropLine(b), fd, position + LineLen(b))
      BY <1>v, <1>u, <3>2, AdvanceSound
    <3>4. position' \in Nat /\ batch' \in Seq(Chunk)
      BY <1>t DEF TypeOK
    <3>5. PositionSound'
      BY <1>v, <2>2, <3>1, <3>3, <3>4 DEF PositionSound
    <3>6. BatchSound'
      BY <1>v, <2>3, <3>1, <3>3, <3>4 DEF BatchSound
    <3>7. MarksPast' /\ posMark'[1] \in {0, fd'}
      BY <1>v, <2>5, <3>1 DEF MarksPast, Mark
    <3> QED
      BY <2>4, <3>5, <3>6, <3>7
  <2>6. CASE posMark # Mark(fd)
    <3>1. posMark' = <<0, 0>>
      BY <1>v, <2>6 DEF Advance, NoMark
    <3>2. \A i \in Inodes : posMark'[1] # i /\ posMark' # Mark(i)'
      BY <3>1 DEF Inodes, Mark
    <3>3. PositionSound' /\ BatchSound'
      BY <3>2 DEF PositionSound, BatchSound
    <3>4. MarksPast' /\ posMark'[1] \in {0, fd'}
      BY <1>v, <3>1, <3>2 DEF MarksPast
    <3> QED
      BY <2>4, <3>3, <3>4
  <2> QED
    BY <2>5, <2>6
(* The buffer, before and after read_until refilled it, is what follows    *)
(* the position.                                                           *)
<1>f. ASSUME fd \in Inodes
      PROVE  /\ Filled \in Seq(Chunk)
             /\ posMark = Mark(fd) => ReadFrom(Filled, fd, position)
  <2>1. /\ Filled \in Seq(Chunk) /\ Len(Filled) \in Nat /\ Len(batch) \in Nat
        /\ Len(Filled) >= Len(batch)
        /\ \A k \in 1 .. Len(Filled) :
              Filled[k] = IF k <= Len(batch) THEN batch[k] ELSE files[fd][position + k]
        /\ Len(Filled) > Len(batch) => Len(Filled) + position = Len(files[fd])
    BY <1>f, <1>u, FilledType, LenProperties DEF TypeOK
  <2>2. ASSUME posMark = Mark(fd) PROVE ReadFrom(Filled, fd, position)
    <3>1. position \in Nat /\ ReadFrom(batch, fd, position)
      BY <1>f, <1>u, <2>2 DEF BatchSound, TypeOK
    <3>2. position + Len(Filled) <= Len(files[fd])
      BY <3>1, <2>1, <1>a, <1>f DEF ReadFrom
    <3>3. ASSUME NEW k \in 1 .. Len(Filled)
          PROVE  Filled[k] = files[fd][position + k]
      BY <2>1, <3>1 DEF ReadFrom
    <3> QED
      BY <3>2, <3>3 DEF ReadFrom
  <2> QED
    BY <2>1, <2>2
<1>9. CASE SkipLine
  <2>1. /\ fd \in Inodes /\ HasLine(Filled) /\ Advance(Filled) /\ fd' = fd
        /\ UNCHANGED <<files, gen, start, saved, savedMark, store, request>>
    BY <1>9, <1>u DEF SkipLine, Control, fileVars, serverVars
  <2>2. KindOf[LineText(Filled)] \notin {"event", "rejected"}
    BY <1>9 DEF SkipLine
  <2>3. /\ PositionSound' /\ BatchSound' /\ SavedSound' /\ MarksPast'
        /\ posMark'[1] \in {0, fd'}
    BY <2>1, <2>2, <1>f, <1>v
  <2>4. Confirmed'
    BY <1>9, <2>1, <1>u, <1>n DEF SkipLine, Control
  <2> QED
    BY <1>9, <1>t, <1>l, <2>1, <2>3, <2>4 DEF Advance, Control2
<1>10. CASE ShipLine
  <2>1. /\ fd \in Inodes /\ batch' = Filled
        /\ UNCHANGED <<fd, position, posMark, files, gen, start, saved, savedMark, store>>
    BY <1>10, <1>u DEF ShipLine, Control, fileVars, serverVars
  <2>2. \A i \in Inodes : Mark(i)' = Mark(i)
    BY <2>1 DEF Mark
  <2>3. \A i \in Inodes, n \in Nat : SoundAt(i, n) => SoundAt(i, n)'
    BY <2>1, <1>g, <1>t, <1>u, SoundStays
  <2>4. \A i \in Inodes, n \in Nat, c \in Seq(Chunk) : ReadFrom(c, i, n) => ReadFrom(c, i, n)'
    BY <2>1, <1>g, <1>t, <1>u, SoundStays
  <2>5. PositionSound' /\ SavedSound' /\ MarksPast'
    BY <2>1, <2>2, <2>3 DEF PositionSound, SavedSound, MarksPast
  <2>6. BatchSound'
    <3> SUFFICES ASSUME NEW i \in Inodes, NEW n \in Nat, NEW b \in Seq(Chunk),
                        fd' = i, position' = n, batch' = b, posMark' = Mark(i)'
                 PROVE  ReadFrom(b, i, n)'
      BY DEF BatchSound
    <3>1. i = fd /\ n = position /\ b = Filled /\ posMark = Mark(fd)
      BY <2>1, <2>2
    <3>2. ReadFrom(b, i, n)
      BY <3>1, <1>f
    <3> QED
      BY <3>2, <2>4
  <2>7. Confirmed' /\ Control2'
    BY <1>10, <1>n DEF ShipLine, Control2
  <2> QED
    BY <1>t, <1>l, <2>1, <2>5, <2>6, <2>7
<1>11. CASE ShipSucceeds
  <2>1. /\ fd \in Inodes /\ HasLine(batch) /\ batch \in Seq(Chunk)
        /\ Advance(batch) /\ fd' = fd /\ request = "ok" /\ request' = "none"
        /\ UNCHANGED <<files, gen, start, saved, savedMark, store>>
    BY <1>11, <1>u DEF ShipSucceeds, Delivered, Control, TypeOK, fileVars, serverVars
  <2>2. LineText(batch) \in store
    BY <2>1 DEF Confirmed
  <2>3. posMark = Mark(fd) => ReadFrom(batch, fd, position)
    BY <2>1, <1>u DEF BatchSound, TypeOK
  <2>4. /\ PositionSound' /\ BatchSound' /\ SavedSound' /\ MarksPast'
        /\ posMark'[1] \in {0, fd'}
    BY <2>1, <2>2, <2>3, <1>v
  <2>5. Confirmed'
    BY <2>1, <1>n
  <2> QED
    BY <1>t, <1>l, <2>1, <2>4, <2>5 DEF Advance, Control2
<1>12. CASE Retry
  <2>1. PositionSound' /\ BatchSound' /\ SavedSound' /\ MarksPast'
    BY <1>12, <1>t, <1>g, QuietStep DEF Retry, fileVars, serverVars
  <2> QED
    BY <1>12, <1>t, <1>l, <1>n, <2>1 DEF Retry, fileVars, serverVars, Control2
<1>13. CASE GiveUp
  <2>1. PositionSound' /\ BatchSound' /\ SavedSound' /\ MarksPast'
    BY <1>13, <1>t, <1>g, QuietStep DEF GiveUp, fileVars, serverVars
  <2> QED
    BY <1>13, <1>t, <1>l, <1>n, <2>1 DEF GiveUp, fileVars, serverVars, Control2
<1>14. CASE SaveTruncates
  <2>1. /\ saved' = -1 /\ savedMark' = <<0, 0>> /\ UNCHANGED <<fd, position, posMark, batch>>
        /\ UNCHANGED <<files, gen, start, store>>
    BY <1>14 DEF SaveTruncates, fileVars, serverVars, NoPosition, NoMark
  <2>2. \A i \in Inodes : Mark(i)' = Mark(i)
    BY <2>1 DEF Mark
  <2>3. \A i \in Inodes, n \in Nat : SoundAt(i, n) => SoundAt(i, n)'
    BY <2>1, <1>g, <1>t, <1>u, SoundStays
  <2>4. \A i \in Inodes, n \in Nat, c \in Seq(Chunk) : ReadFrom(c, i, n) => ReadFrom(c, i, n)'
    BY <2>1, <1>g, <1>t, <1>u, SoundStays
  <2>5. PositionSound' /\ BatchSound'
    BY <2>1, <2>2, <2>3, <2>4 DEF PositionSound, BatchSound
  <2>6. SavedSound' /\ MarksPast'
    BY <2>1 DEF SavedSound, MarksPast, Inodes
  <2> QED
    BY <1>14, <1>t, <1>l, <1>k, <2>1, <2>5, <2>6 DEF SaveTruncates, Control2
<1>15. CASE SaveWrites
  <2>1. /\ saved' = position /\ savedMark' = posMark /\ UNCHANGED <<fd, position, posMark, batch>>
        /\ UNCHANGED <<files, gen, start, store>> /\ fd \in Inodes
        /\ posMark[1] \in {0, fd}
    BY <1>15, <1>u DEF SaveWrites, fileVars, serverVars, Control, Control2
  <2>2. \A i \in Inodes : Mark(i)' = Mark(i)
    BY <2>1 DEF Mark
  <2>3. \A i \in Inodes, n \in Nat : SoundAt(i, n) => SoundAt(i, n)'
    BY <2>1, <1>g, <1>t, <1>u, SoundStays
  <2>4. \A i \in Inodes, n \in Nat, c \in Seq(Chunk) : ReadFrom(c, i, n) => ReadFrom(c, i, n)'
    BY <2>1, <1>g, <1>t, <1>u, SoundStays
  <2>5. PositionSound' /\ BatchSound' /\ MarksPast'
    BY <2>1, <2>2, <2>3, <2>4 DEF PositionSound, BatchSound, MarksPast
  <2>6. SavedSound'
    <3> SUFFICES ASSUME NEW i \in Inodes, NEW n \in Nat, saved' = n, savedMark' = Mark(i)'
                 PROVE  SoundAt(i, n)'
      BY DEF SavedSound
    <3>1. posMark = Mark(i) /\ position = n
      BY <2>1, <2>2
    <3>2. i = fd
      BY <3>1, <2>1 DEF Mark, Inodes
    <3> QED
      BY <3>1, <3>2, <2>3 DEF PositionSound
  <2> QED
    BY <1>15, <1>t, <1>l, <1>k, <2>1, <2>5, <2>6 DEF SaveWrites, Control2
<1>16. CASE SaveFails
  <2>1. PositionSound' /\ BatchSound' /\ SavedSound' /\ MarksPast'
    BY <1>16, <1>t, <1>g, QuietStep DEF SaveFails, fileVars, serverVars
  <2> QED
    BY <1>16, <1>t, <1>l, <1>k, <2>1 DEF SaveFails, fileVars, serverVars, Control2
<1>17. CASE IoError
  <2>1. PositionSound' /\ BatchSound' /\ SavedSound' /\ MarksPast'
    BY <1>17, <1>t, <1>g, QuietStep DEF IoError, fileVars, serverVars
  <2>2. Confirmed'
    BY <1>17, <1>u, <1>n DEF IoError, Control
  <2> QED
    BY <1>17, <1>t, <1>l, <2>1, <2>2 DEF IoError, fileVars, serverVars, Control2
<1>18. CASE Stop
  <2>1. /\ fd' = 0 /\ posMark' = <<0, 0>>
        /\ UNCHANGED <<files, gen, start, saved, savedMark, store>>
    BY <1>18 DEF Stop, fileVars, serverVars, NoMark
  <2>2. \A i \in Inodes : Mark(i)' = Mark(i)
    BY <2>1 DEF Mark
  <2>3. \A i \in Inodes, n \in Nat : SoundAt(i, n) => SoundAt(i, n)'
    BY <2>1, <1>g, <1>t, <1>u, SoundStays
  <2>4. PositionSound' /\ BatchSound'
    BY <2>1 DEF PositionSound, BatchSound, Inodes
  <2>5. SavedSound' /\ MarksPast'
    BY <2>1, <2>2, <2>3 DEF SavedSound, MarksPast, Inodes
  <2> QED
    BY <1>18, <1>t, <1>l, <1>n, <2>1, <2>4, <2>5 DEF Stop, Control2
<1>19. CASE Restart
  <2>1. PositionSound' /\ BatchSound' /\ SavedSound' /\ MarksPast'
    BY <1>19, <1>t, <1>g, QuietStep DEF Restart, fileVars, serverVars
  <2> QED
    BY <1>19, <1>t, <1>l, <1>k, <2>1 DEF Restart, fileVars, serverVars, Control2
<1>20. CASE ServerAccepts
  <2>1. /\ store' = store \cup {LineText(batch)} /\ batch' = batch
        /\ UNCHANGED <<files, gen, start>>
    BY <1>20 DEF ServerAccepts, Ingest, fileVars, taskVars
  <2>2. PositionSound' /\ BatchSound' /\ SavedSound' /\ MarksPast'
    BY <1>20, <1>t, <1>g, <2>1, QuietStep DEF ServerAccepts, fileVars, taskVars
  <2>3. Confirmed'
    BY <2>1 DEF Confirmed
  <2> QED
    BY <1>20, <1>t, <1>l, <2>1, <2>2, <2>3 DEF ServerAccepts, taskVars, Control2
<1>21. CASE ServerRefuses
  <2>1. PositionSound' /\ BatchSound' /\ SavedSound' /\ MarksPast'
    BY <1>21, <1>t, <1>g, QuietStep DEF ServerRefuses, fileVars, taskVars, serverVars
  <2> QED
    BY <1>21, <1>t, <1>l, <1>n, <2>1 DEF ServerRefuses, fileVars, taskVars, Control2
<1>22. CASE TimeOut
  <2>1. PositionSound' /\ BatchSound' /\ SavedSound' /\ MarksPast'
    BY <1>22, <1>t, <1>g, QuietStep DEF TimeOut, fileVars, taskVars, serverVars
  <2> QED
    BY <1>22, <1>t, <1>l, <1>n, <2>1 DEF TimeOut, fileVars, taskVars, Control2
<1>23. ASSUME NEW t \in AllTexts, LateArrives(t) PROVE IInv'
  <2>1. store \subseteq store' /\ UNCHANGED <<files, gen, start, batch, request>>
    BY <1>23 DEF LateArrives, Ingest, fileVars, taskVars, serverVars
  <2>2. PositionSound' /\ BatchSound' /\ SavedSound' /\ MarksPast'
    BY <1>23, <1>t, <1>g, <2>1, QuietStep DEF LateArrives, fileVars, taskVars
  <2>3. Confirmed'
    BY <2>1 DEF Confirmed
  <2> QED
    BY <1>23, <1>t, <1>l, <2>1, <2>2, <2>3 DEF LateArrives, taskVars, Control2
<1>24. ASSUME NEW t \in AllTexts, LateLost(t) PROVE IInv'
  <2>1. PositionSound' /\ BatchSound' /\ SavedSound' /\ MarksPast'
    BY <1>24, <1>t, <1>g, QuietStep DEF LateLost, fileVars, taskVars, serverVars
  <2> QED
    BY <1>24, <1>t, <1>l, <1>k, <2>1 DEF LateLost, fileVars, taskVars, serverVars, Control2
<1>25. CASE UNCHANGED vars
  <2>1. PositionSound' /\ BatchSound' /\ SavedSound' /\ MarksPast'
    BY <1>25, <1>t, <1>g, QuietStep DEF vars
  <2> QED
    BY <1>25, <1>t, <1>l, <1>k, <2>1 DEF vars, Control2
<1> QED
  BY <1>1, <1>2, <1>3, <1>4, <1>5, <1>6, <1>7, <1>8, <1>9, <1>10, <1>11, <1>12,
     <1>13, <1>14, <1>15, <1>16, <1>17, <1>18, <1>19, <1>20, <1>21, <1>22,
     <1>23, <1>24, <1>25 DEF Next, Environment, Watcher

(* The read position, in memory and on disk, has only confirmed lines      *)
(* behind it: watch_file moves it past an event line only once the server  *)
(* answered 2xx, through retries, lost answers, kills and rotations.       *)
THEOREM PositionSafe == Spec => []PositionCoversOnlyDelivered
<1>1. IInv => PositionCoversOnlyDelivered
  <2> SUFFICES ASSUME IInv PROVE PositionCoversOnlyDelivered
    OBVIOUS
  <2>1. TypeOK
    BY DEF IInv, Typed
  <2>2. fd # 0 /\ posMark = Mark(fd) => Covers(fd, position)
    <3>1. fd # 0 => fd \in Inodes
      BY <2>1 DEF TypeOK, Inodes
    <3> QED
      BY <3>1, <2>1 DEF IInv, PositionSound, SoundAt, TypeOK
  <2>3. ASSUME NEW i, i = savedMark[1], i # 0, savedMark = Mark(i), saved # NoPosition
        PROVE  Covers(i, saved)
    <3>1. i \in Inodes /\ saved \in Nat
      BY <2>1, <2>3 DEF TypeOK, Inodes
    <3> QED
      BY <3>1, <2>3 DEF IInv, SavedSound, SoundAt
  <2> QED
    BY <2>2, <2>3 DEF PositionCoversOnlyDelivered
<1> QED
  BY <1>1, SoundInit, SoundStep, PTL DEF Spec

-----------------------------------------------------------------------------
(* Alerts and resets.                                                      *)

(* What is stored was alerted on once, and nothing else was.               *)
AlertsMatch == \A t \in AllTexts : alerts[t] = (IF t \in store THEN 1 ELSE 0)

LEMMA AlertsMatchStep == TypeOK /\ AlertsMatch /\ [Next]_vars => AlertsMatch'
<1> SUFFICES ASSUME TypeOK, AlertsMatch, [Next]_vars PROVE AlertsMatch'
  OBVIOUS
<1>1. ASSUME NEW t, Ingest(t) PROVE AlertsMatch'
  BY <1>1 DEF Ingest, NewlyInserted, AlertsMatch, TypeOK
<1>2. CASE UNCHANGED serverVars
  BY <1>2 DEF serverVars, AlertsMatch
<1>3. CASE ServerAccepts
  BY <1>1, <1>3 DEF ServerAccepts
<1>4. ASSUME NEW t \in AllTexts, LateArrives(t) PROVE AlertsMatch'
  BY <1>1, <1>2, <1>4 DEF LateArrives
<1>5. UNCHANGED serverVars \/ ServerAccepts \/ \E t \in AllTexts : LateArrives(t)
  BY DEF Next, Environment, Watcher, vars, serverVars, Write, Truncate, MoveAway, CreateFresh,
     SaveFails, IoError, Stop, ServerRefuses, TimeOut, LateLost, Open, LoseAccess, Poll,
     EndOfPass, SkipLine, ShipLine, ShipSucceeds, Retry, GiveUp, SaveTruncates, SaveWrites, Restart
<1> QED
  BY <1>2, <1>3, <1>4, <1>5

(* A line that is sent again after a lost answer, a restart or a rotation  *)
(* raises no second alert: insert_log sees the hash it has.                *)
THEOREM AlertsOnce == Spec => []AlertedAtMostOnce
<1>1. Init => AlertsMatch
  BY DEF Init, AlertsMatch
<1>2. AlertsMatch => AlertedAtMostOnce
  BY DEF AlertsMatch, AlertedAtMostOnce
<1> QED
  BY <1>1, <1>2, AlertsMatchStep, TypeCorrect, PTL DEF Spec

(* As long as the path names the content the position was measured on, the *)
(* position is within it, and no poll takes it for rotated.                *)
THEOREM NoResetWithoutRotation == Spec => NoFalseReset
<1> DEFINE Kept == pc = "poll" /\ cur # 0 /\ fd = cur /\ posMark = Mark(cur) /\ pc' # "down"
                     => position' >= position
<1>1. IInv /\ [Next]_vars => [Kept]_vars
  <2> SUFFICES ASSUME IInv, Next, pc = "poll", cur # 0, fd = cur, posMark = Mark(cur),
                      pc' # "down"
               PROVE  position' >= position
    OBVIOUS
  <2>1. TypeOK
    BY DEF IInv, Typed
  <2>2. cur \in Inodes /\ position \in Nat
    BY <2>1 DEF TypeOK, Inodes
  <2>3. position <= Len(files[cur])
    BY <2>2 DEF IInv, PositionSound, SoundAt
  <2>4. CASE Poll
    <3>1. Len(files[cur]) \in Nat
      BY <2>1, <2>2, LenProperties DEF TypeOK
    <3>2. ~ Rotated(Len(files[cur]))
      BY <2>2, <2>3, <3>1 DEF Rotated
    <3> QED
      BY <2>2, <2>4, <3>2 DEF Poll
  <2>5. CASE position' = position
    BY <2>2, <2>5
  <2>6. Poll \/ position' = position
    BY DEF Next, Environment, Watcher, taskVars, Write, Truncate, MoveAway, CreateFresh,
       SaveFails, IoError, Stop, ServerRefuses, TimeOut, LateArrives, LateLost, Open, LoseAccess,
       EndOfPass, SkipLine, ShipLine, ShipSucceeds, Retry, GiveUp, SaveTruncates, SaveWrites,
       Restart, ServerAccepts
  <2> QED
    BY <2>4, <2>5, <2>6
<1> HIDE DEF Kept
<1>2. Spec => [][Kept]_vars
  BY <1>1, SoundInit, SoundStep, PTL DEF Spec
<1> QED
  BY <1>2 DEF NoFalseReset, Kept

=============================================================================
