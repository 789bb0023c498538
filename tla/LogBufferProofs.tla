--------------------------- MODULE LogBufferProofs ---------------------------
(***************************************************************************)
(* What joblog.Buffer.Add does to a buffer, for every capacity and every   *)
(* content: the lemmas the proofs about its users rest on.                 *)
(***************************************************************************)
EXTENDS LogBuffer, TLAPS, FiniteSetTheorems

(* The entries of a buffer after a push: one more than before until the    *)
(* capacity is reached, then as many as before, moved up by one.           *)
LEMMA PushEntries ==
  ASSUME NEW entries \in Seq(Entry), NEW e \in Entry, Len(entries) <= LogCap
  PROVE  /\ Push(entries, e) \in Seq(Entry)
         /\ Len(Push(entries, e)) =
              IF Len(entries) < LogCap THEN Len(entries) + 1 ELSE LogCap
         /\ Push(entries, e)[Len(Push(entries, e))] = e
         /\ \A k \in 1..(Len(Push(entries, e)) - 1) :
              Push(entries, e)[k] =
                IF Len(entries) < LogCap THEN entries[k] ELSE entries[k + 1]
<1> DEFINE all == Append(entries, e)
<1>1. /\ all \in Seq(Entry)
      /\ Len(all) = Len(entries) + 1
      /\ all[Len(entries) + 1] = e
      /\ \A k \in 1..Len(entries) : all[k] = entries[k]
  OBVIOUS
<1>2. Len(entries) \in Nat /\ LogCap \in Nat /\ LogCap >= 1
  BY LogCapAssumption
<1>3. CASE Len(entries) < LogCap
  <2>1. Push(entries, e) = all
    BY <1>1, <1>2, <1>3 DEF Push
  <2> QED
    BY <1>1, <1>2, <1>3, <2>1
<1>4. CASE ~(Len(entries) < LogCap)
  <2>1. Len(entries) = LogCap
    BY <1>2, <1>4
  <2>2. Push(entries, e) = SubSeq(all, 2, LogCap + 1)
    BY <1>1, <1>2, <2>1 DEF Push
  <2>3. /\ SubSeq(all, 2, LogCap + 1) \in Seq(Entry)
        /\ Len(SubSeq(all, 2, LogCap + 1)) = LogCap
        /\ \A k \in 1..LogCap : SubSeq(all, 2, LogCap + 1)[k] = all[k + 1]
    BY <1>1, <1>2, <2>1
  <2> QED
    BY <1>1, <1>2, <2>1, <2>2, <2>3
<1> QED
  BY <1>3, <1>4

(* An Add numbers its line with the buffer's counter, puts it last, moves  *)
(* the counter on by one and never holds more than LogCap lines.           *)
LEMMA AddEntries ==
  ASSUME NEW b \in Buffer, Len(b.entries) <= LogCap, NEW level \in Levels
  PROVE  LET a == Add(b, level)
         IN  /\ a \in Buffer
             /\ a.nextSeq = b.nextSeq + 1
             /\ Len(a.entries) = IF Len(b.entries) < LogCap
                                   THEN Len(b.entries) + 1 ELSE LogCap
             /\ a.entries[Len(a.entries)] = [seq |-> b.nextSeq, level |-> level]
             /\ \A k \in 1..(Len(a.entries) - 1) :
                  a.entries[k] = IF Len(b.entries) < LogCap
                                   THEN b.entries[k] ELSE b.entries[k + 1]
<1> DEFINE e == [seq |-> b.nextSeq, level |-> level]
           a == Add(b, level)
<1>1. b.entries \in Seq(Entry) /\ b.nextSeq \in Nat /\ e \in Entry
  BY DEF Buffer, Entry
<1>2. a = [entries |-> Push(b.entries, e), nextSeq |-> b.nextSeq + 1]
  BY DEF Add
<1>3. a.entries = Push(b.entries, e) /\ a.nextSeq = b.nextSeq + 1
  BY <1>2
<1> HIDE DEF e
<1>4. /\ Push(b.entries, e) \in Seq(Entry)
      /\ Len(Push(b.entries, e)) =
           IF Len(b.entries) < LogCap THEN Len(b.entries) + 1 ELSE LogCap
      /\ Push(b.entries, e)[Len(Push(b.entries, e))] = e
      /\ \A k \in 1..(Len(Push(b.entries, e)) - 1) :
           Push(b.entries, e)[k] =
             IF Len(b.entries) < LogCap THEN b.entries[k] ELSE b.entries[k + 1]
  BY <1>1, PushEntries
<1>5. a \in Buffer
  BY <1>1, <1>2, <1>4 DEF Buffer
<1> HIDE DEF a
<1> QED
  BY <1>3, <1>4, <1>5 DEF a, e

(* The lines of a buffer are numbered one after the other, up to the next. *)
Consecutive(b) ==
  /\ b \in Buffer
  /\ Len(b.entries) <= LogCap
  /\ Len(b.entries) <= b.nextSeq
  /\ \A k \in 1..Len(b.entries) :
       b.entries[k].seq = b.nextSeq - Len(b.entries) + k - 1

LEMMA NewIsConsecutive == Consecutive(NewBuffer)
<1>1. LogCap \in Nat
  BY LogCapAssumption
<1> QED
  BY <1>1 DEF Consecutive, NewBuffer, Buffer

LEMMA AddKeepsConsecutive ==
  ASSUME NEW b, Consecutive(b), NEW level \in Levels
  PROVE  Consecutive(Add(b, level))
<1> DEFINE a == Add(b, level)
           n == Len(b.entries)
<1>1. /\ b \in Buffer /\ n <= LogCap /\ n <= b.nextSeq
      /\ \A k \in 1..n : b.entries[k].seq = b.nextSeq - n + k - 1
  BY DEF Consecutive
<1>2. n \in Nat /\ b.nextSeq \in Nat /\ LogCap \in Nat /\ LogCap >= 1
  BY <1>1, LogCapAssumption DEF Buffer
<1>3. /\ a \in Buffer
      /\ a.nextSeq = b.nextSeq + 1
      /\ Len(a.entries) = IF n < LogCap THEN n + 1 ELSE LogCap
      /\ a.entries[Len(a.entries)] = [seq |-> b.nextSeq, level |-> level]
      /\ \A k \in 1..(Len(a.entries) - 1) :
           a.entries[k] = IF n < LogCap THEN b.entries[k] ELSE b.entries[k + 1]
  BY <1>1, AddEntries
<1> HIDE DEF a, n
<1>4. Len(a.entries) \in Nat /\ Len(a.entries) <= LogCap /\ Len(a.entries) <= a.nextSeq
  BY <1>1, <1>2, <1>3
<1>5. ASSUME NEW k \in 1..Len(a.entries)
      PROVE  a.entries[k].seq = a.nextSeq - Len(a.entries) + k - 1
  <2> DEFINE m == Len(a.entries)
             last == b.nextSeq
             next == a.nextSeq
  <2>1. /\ k \in 1..m /\ m \in Nat /\ last \in Nat /\ next = last + 1
        /\ m = IF n < LogCap THEN n + 1 ELSE LogCap
    BY <1>2, <1>3, <1>4
  <2>2. CASE k = m
    <3>1. a.entries[k].seq = last
      BY <1>3, <2>2
    <3> HIDE DEF m, last, next
    <3>2. next - m + k - 1 = last
      BY <2>1, <2>2
    <3> QED
      BY <3>1, <3>2 DEF m, next
  <2>3. CASE k # m /\ n < LogCap
    <3> HIDE DEF m, last, next
    <3>1. k \in 1..n /\ k \in 1..(m - 1) /\ next - m + k - 1 = last - n + k - 1
      BY <1>2, <2>1, <2>3
    <3> USE DEF m, last, next
    <3>2. a.entries[k] = b.entries[k] /\ b.entries[k].seq = last - n + k - 1
      BY <1>1, <1>3, <2>3, <3>1
    <3> QED
      BY <3>1, <3>2
  <2>4. CASE k # m /\ ~(n < LogCap)
    <3> HIDE DEF m, last, next
    <3>1. n = LogCap
      BY <1>1, <1>2, <2>4
    <3>2. k + 1 \in 1..n /\ k \in 1..(m - 1)
          /\ next - m + k - 1 = last - n + (k + 1) - 1
      BY <1>2, <2>1, <2>4, <3>1
    <3> USE DEF m, last, next
    <3>3. /\ a.entries[k] = b.entries[k + 1]
          /\ b.entries[k + 1].seq = last - n + (k + 1) - 1
      BY <1>1, <1>3, <2>4, <3>2
    <3> QED
      BY <3>2, <3>3
  <2> QED
    BY <2>2, <2>3, <2>4
<1> QED
  BY <1>3, <1>4, <1>5 DEF Consecutive, a

(* No number but the new line's is among those retained that was not.      *)
LEMMA AddNumbers ==
  ASSUME NEW b, Consecutive(b), NEW level \in Levels,
         NEW k \in 1..Len(Add(b, level).entries)
  PROVE  \/ Add(b, level).entries[k].seq = b.nextSeq
         \/ \E j \in 1..Len(b.entries) :
              Add(b, level).entries[k].seq = b.entries[j].seq
<1> DEFINE a == Add(b, level)
           n == Len(b.entries)
           m == Len(a.entries)
<1>1. /\ b \in Buffer /\ n <= LogCap /\ n \in Nat
      /\ LogCap \in Nat /\ LogCap >= 1
  BY LogCapAssumption DEF Consecutive, Buffer
<1>2. /\ m = IF n < LogCap THEN n + 1 ELSE LogCap
      /\ a.entries[m] = [seq |-> b.nextSeq, level |-> level]
      /\ \A i \in 1..(m - 1) :
           a.entries[i] = IF n < LogCap THEN b.entries[i] ELSE b.entries[i + 1]
  BY <1>1, AddEntries
<1>3. CASE k = m
  BY <1>2, <1>3
<1>4. CASE k # m
  <2> HIDE DEF n, m
  <2>1. k \in 1..(m - 1)
    BY <1>1, <1>2, <1>4 DEF m
  <2>2. IF n < LogCap THEN k \in 1..n ELSE k + 1 \in 1..n
    BY <1>1, <1>2, <2>1
  <2>3. a.entries[k] = IF n < LogCap THEN b.entries[k] ELSE b.entries[k + 1]
    BY <1>2, <2>1
  <2> QED
    BY <2>2, <2>3 DEF n
<1> QED
  BY <1>3, <1>4

(* How many of the retained lines come before a cursor.                    *)
Skipped(b, cursor) ==
  LET first == b.nextSeq - Len(b.entries)
  IN  IF cursor <= first THEN 0
      ELSE IF cursor < b.nextSeq THEN cursor - first
      ELSE Len(b.entries)

(* The places of an interval, counted.                                     *)
LEMMA PlaceInInterval ==
  ASSUME NEW lo \in Nat, NEW hi \in Nat, lo <= hi
  PROVE  /\ Cardinality((lo + 1)..hi) = hi - lo
         /\ \A i \in 1..(hi - lo) :
              (CHOOSE k \in (lo + 1)..hi :
                 Cardinality({j \in (lo + 1)..hi : j <= k}) = i) = lo + i
<1> DEFINE P == (lo + 1)..hi
<1>1. Cardinality(P) = hi - lo
  <2>1. Cardinality(P) = IF lo + 1 > hi THEN 0 ELSE hi - (lo + 1) + 1
    BY FS_Interval
  <2> QED
    BY <2>1
<1>2. ASSUME NEW k \in P PROVE Cardinality({j \in P : j <= k}) = k - lo
  <2> DEFINE A == {j \in P : j <= k}
             B == (lo + 1)..k
  <2>1. A = B
    OBVIOUS
  <2>2. k \in Int /\ lo + 1 \in Int /\ lo + 1 <= k
    OBVIOUS
  <2>3. Cardinality(B) = k - (lo + 1) + 1
    BY <2>2, FS_Interval
  <2>4. k - (lo + 1) + 1 = k - lo
    BY <2>2
  <2> HIDE DEF A, B
  <2>5. Cardinality(A) = k - lo
    BY <2>1, <2>3, <2>4
  <2> QED
    BY <2>5 DEF A
<1>3. ASSUME NEW i \in 1..(hi - lo)
      PROVE  (CHOOSE k \in P : Cardinality({j \in P : j <= k}) = i) = lo + i
  <2> DEFINE c == CHOOSE k \in P : Cardinality({j \in P : j <= k}) = i
  <2>1. lo + i \in P
    OBVIOUS
  <2>2. Cardinality({j \in P : j <= lo + i}) = i
    BY <1>2, <2>1
  <2>3. c \in P /\ Cardinality({j \in P : j <= c}) = i
    BY <2>1, <2>2
  <2>4. c - lo = i
    BY <1>2, <2>3
  <2> HIDE DEF c
  <2>5. c = lo + i
    BY <2>3, <2>4
  <2> QED
    BY <2>5 DEF c
<1> QED
  BY <1>1, <1>3

(* A poll of such a buffer returns the newest of its lines: those from the *)
(* cursor on.                                                              *)
LEMMA SinceIsTail ==
  ASSUME NEW b, Consecutive(b), NEW cursor \in Nat
  PROVE  LET found == Since(b, cursor)
             skip == Skipped(b, cursor)
         IN  /\ found.next = b.nextSeq
             /\ skip \in 0..Len(b.entries)
             /\ found.entries \in Seq(Entry)
             /\ Len(found.entries) = Len(b.entries) - skip
             /\ \A i \in 1..Len(found.entries) :
                  found.entries[i] = b.entries[skip + i]
<1> DEFINE n == Len(b.entries)
           skip == Skipped(b, cursor)
           places == (skip + 1)..n
<1>1. /\ b.entries \in Seq(Entry) /\ n \in Nat /\ b.nextSeq \in Nat
      /\ n <= b.nextSeq
      /\ DOMAIN b.entries = 1..n
      /\ \A k \in 1..n : b.entries[k] \in Entry /\ b.entries[k].seq = b.nextSeq - n + k - 1
  BY DEF Consecutive, Buffer
<1> HIDE DEF n
<1>2. skip = IF cursor <= b.nextSeq - n THEN 0
             ELSE IF cursor < b.nextSeq THEN cursor - (b.nextSeq - n) ELSE n
  BY DEF Skipped, n
<1>3. skip \in 0..n
  BY <1>1, <1>2
<1>4. RetainedFrom(b, cursor) = places
  <2>1. RetainedFrom(b, cursor) = {k \in 1..n : b.entries[k].seq >= cursor}
    BY <1>1 DEF RetainedFrom
  <2>2. ASSUME NEW k \in 1..n
        PROVE  b.entries[k].seq >= cursor <=> k \in places
    <3> DEFINE N == b.nextSeq
               at == b.entries[k].seq
    <3>1. at = N - n + k - 1 /\ N \in Nat
      BY <1>1
    <3> HIDE DEF N, at, skip
    <3>2. skip = IF cursor <= N - n THEN 0
                 ELSE IF cursor < N THEN cursor - (N - n) ELSE n
      BY <1>2 DEF N
    <3>3. at >= cursor <=> k >= skip + 1
      BY <1>1, <3>1, <3>2 DEF N
    <3>4. k \in places <=> k >= skip + 1
      BY <1>1, <1>3
    <3> QED
      BY <3>3, <3>4 DEF at
  <2>3. places \subseteq 1..n
    BY <1>1, <1>3
  <2> HIDE DEF places
  <2> QED
    BY <2>1, <2>2, <2>3
<1>5. /\ Cardinality(places) = n - skip
      /\ \A i \in 1..(n - skip) :
           (CHOOSE k \in places : Cardinality({j \in places : j <= k}) = i) = skip + i
  <2>1. skip \in Nat /\ skip <= n
    BY <1>1, <1>3
  <2> HIDE DEF skip
  <2> QED
    BY <1>1, <2>1, PlaceInInterval
<1>6. Since(b, cursor).entries = [i \in 1..(n - skip) |-> b.entries[skip + i]]
  <2>1. Since(b, cursor).entries =
          [i \in 1..Cardinality(places) |->
             b.entries[CHOOSE k \in places : Cardinality({j \in places : j <= k}) = i]]
    BY <1>4 DEF Since, Picked
  <2> HIDE DEF skip, places
  <2> QED
    BY <1>5, <2>1
<1>7. \A i \in 1..(n - skip) : skip + i \in 1..n /\ n - skip \in Nat
  <2> HIDE DEF skip
  <2> QED
    BY <1>1, <1>3
<1>8. Since(b, cursor).next = b.nextSeq
  BY DEF Since
<1>9. /\ Since(b, cursor).entries \in Seq(Entry)
      /\ Len(Since(b, cursor).entries) = n - skip
      /\ \A i \in 1..(n - skip) :
           Since(b, cursor).entries[i] = b.entries[skip + i]
  <2> DEFINE f == [i \in 1..(n - skip) |-> b.entries[skip + i]]
  <2>1. n - skip \in Nat
    <3> HIDE DEF skip
    <3> QED
      BY <1>1, <1>3
  <2> HIDE DEF skip
  <2>2. \A i \in 1..(n - skip) : b.entries[skip + i] \in Entry
    BY <1>1, <1>7
  <2>3. f \in Seq(Entry) /\ Len(f) = n - skip
    BY <2>1, <2>2
  <2> QED
    BY <1>6, <2>3
<1> QED
  BY <1>3, <1>8, <1>9 DEF n

Numbers(entries) == {entries[k].seq : k \in 1..Len(entries)}

(* The numbers of the lines it returns.                                    *)
LEMMA SinceNumbers ==
  ASSUME NEW b, Consecutive(b), NEW cursor \in Nat
  PROVE  \A n : n \in Numbers(Since(b, cursor).entries)
                  <=> n \in Numbers(b.entries) /\ n >= cursor
<1> DEFINE found == Since(b, cursor).entries
           skip == Skipped(b, cursor)
           len == Len(b.entries)
           N == b.nextSeq
<1>1. /\ skip \in 0..len
      /\ Len(found) = len - skip
      /\ \A i \in 1..Len(found) : found[i] = b.entries[skip + i]
  BY SinceIsTail
<1>2. /\ len \in Nat /\ N \in Nat /\ len <= N
      /\ \A k \in 1..len : b.entries[k].seq = N - len + k - 1
  BY DEF Consecutive, Buffer
<1>3. skip = IF cursor <= N - len THEN 0
             ELSE IF cursor < N THEN cursor - (N - len) ELSE len
  BY DEF Skipped
<1> HIDE DEF found, skip, len, N
<1>4. \A k \in 1..len : N - len + k - 1 >= cursor <=> k >= skip + 1
  BY <1>2, <1>3
<1>5. ASSUME NEW i \in 1..Len(found)
      PROVE  skip + i \in 1..len /\ b.entries[skip + i].seq >= cursor
  <2>1. skip + i \in 1..len /\ skip + i >= skip + 1
    BY <1>1, <1>2
  <2> QED
    BY <1>2, <1>4, <2>1
<1>6. ASSUME NEW k \in 1..len, b.entries[k].seq >= cursor
      PROVE  k - skip \in 1..Len(found) /\ found[k - skip] = b.entries[k]
  <2>1. k >= skip + 1
    BY <1>2, <1>4, <1>6
  <2>2. k - skip \in 1..Len(found) /\ skip + (k - skip) = k
    BY <1>1, <1>2, <2>1
  <2> QED
    BY <1>1, <2>2
<1>7. ASSUME NEW n \in Numbers(found) PROVE n \in Numbers(b.entries) /\ n >= cursor
  BY <1>1, <1>5 DEF Numbers, len
<1>8. ASSUME NEW n \in Numbers(b.entries), n >= cursor PROVE n \in Numbers(found)
  <2>1. PICK k \in 1..len : n = b.entries[k].seq
    BY DEF Numbers, len
  <2> QED
    BY <1>6, <1>8, <2>1 DEF Numbers
<1> QED
  BY <1>7, <1>8 DEF found

=============================================================================
