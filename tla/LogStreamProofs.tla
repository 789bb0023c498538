--------------------------- MODULE LogStreamProofs ---------------------------
(***************************************************************************)
(* The buffer of LogStream keeps exactly the newest lines, and its client  *)
(* gets each line once, in order, unless it was evicted: for every         *)
(* capacity, every number of lines and whatever responses are lost.        *)
(***************************************************************************)
EXTENDS LogStream, LogBufferProofs

(* What the proof needs to know of the types; the reply is left out, since *)
(* the answer to a poll changes neither the buffer nor the history.        *)
WriterTypeOK == buf \in Buffer /\ history \in Seq(Levels)

WriterInv == WriterTypeOK /\ RetainedTail

LEMMA InitWriterInv == Init => WriterInv
<1> SUFFICES ASSUME Init PROVE WriterInv
  OBVIOUS
<1>1. buf = [entries |-> <<>>, nextSeq |-> 0] /\ history = <<>>
  BY DEF Init, NewBuffer
<1>2. WriterTypeOK
  BY <1>1 DEF WriterTypeOK, Buffer
<1>3. RetainedTail
  BY <1>1, LogCapAssumption DEF RetainedTail, Smaller
<1> QED
  BY <1>2, <1>3 DEF WriterInv

LEMMA WriteKeepsInv ==
  ASSUME WriterInv, NEW level \in Levels, Write(level)
  PROVE  WriterInv'
<1> DEFINE n == Len(history)
           kept == Smaller(LogCap, n)
<1>1. /\ buf \in Buffer
      /\ history \in Seq(Levels)
      /\ n \in Nat
      /\ LogCap \in Nat /\ LogCap >= 1
  BY LogCapAssumption DEF WriterInv, WriterTypeOK
<1>2. /\ buf.nextSeq = n
      /\ Len(buf.entries) = kept
      /\ \A i \in 1..kept :
           buf.entries[i] =
             [seq |-> n - kept + i - 1, level |-> history[n - kept + i]]
  BY DEF WriterInv, RetainedTail
<1>3. kept = IF n < LogCap THEN n ELSE LogCap
  BY <1>1 DEF Smaller
<1>4. /\ history' \in Seq(Levels)
      /\ Len(history') = n + 1
      /\ history'[n + 1] = level
      /\ \A i \in 1..n : history'[i] = history[i]
  BY <1>1 DEF Write
<1>5. Smaller(LogCap, n + 1) = IF n < LogCap THEN n + 1 ELSE LogCap
  BY <1>1 DEF Smaller
<1>6. /\ buf' \in Buffer
      /\ buf'.nextSeq = n + 1
      /\ Len(buf'.entries) = IF kept < LogCap THEN kept + 1 ELSE LogCap
      /\ buf'.entries[Len(buf'.entries)] = [seq |-> n, level |-> level]
      /\ \A k \in 1..(Len(buf'.entries) - 1) :
           buf'.entries[k] = IF kept < LogCap
                               THEN buf.entries[k] ELSE buf.entries[k + 1]
  <2>1. kept <= LogCap
    <3> HIDE DEF n, kept
    <3> QED
      BY <1>1, <1>3
  <2> QED
    BY <1>1, <1>2, <2>1, AddEntries DEF Write
<1>7. WriterTypeOK'
  BY <1>4, <1>6 DEF WriterTypeOK
<1>8. RetainedTail'
  <2> DEFINE kept2 == Smaller(LogCap, n + 1)
  <2> HIDE DEF n, kept
  <2>1. kept2 \in Nat /\ kept2 >= 1 /\ Len(buf'.entries) = kept2
    BY <1>1, <1>3, <1>5, <1>6
  <2>2. ASSUME NEW i \in 1..kept2
        PROVE  buf'.entries[i] =
                 [seq |-> (n + 1) - kept2 + i - 1,
                  level |-> history'[(n + 1) - kept2 + i]]
    <3> HIDE DEF kept2
    <3>1. CASE i = kept2
      <4>1. (n + 1) - kept2 + i - 1 = n /\ (n + 1) - kept2 + i = n + 1
        BY <1>1, <2>1, <3>1
      <4> QED
        BY <1>4, <1>6, <2>1, <3>1, <4>1
    <3>2. CASE i # kept2 /\ n < LogCap
      <4>1. kept = n /\ kept2 = n + 1 /\ i \in 1..n
        BY <1>1, <1>3, <1>5, <3>2 DEF kept2
      <4>2. buf'.entries[i] = buf.entries[i]
        BY <1>1, <1>6, <2>1, <3>2, <4>1
      <4>3. /\ n - kept + i - 1 = i - 1 /\ n - kept + i = i
            /\ (n + 1) - kept2 + i - 1 = i - 1 /\ (n + 1) - kept2 + i = i
        BY <1>1, <4>1
      <4>4. buf.entries[i] = [seq |-> i - 1, level |-> history[i]]
        BY <1>2, <4>1, <4>3
      <4> QED
        BY <1>4, <4>1, <4>2, <4>3, <4>4
    <3>3. CASE i # kept2 /\ ~(n < LogCap)
      <4>1. kept = LogCap /\ kept2 = LogCap /\ i \in 1..(LogCap - 1)
        BY <1>1, <1>3, <1>5, <3>3 DEF kept2
      <4>2. buf'.entries[i] = buf.entries[i + 1]
        BY <1>1, <1>6, <2>1, <3>3, <4>1
      <4>3. /\ n - kept + (i + 1) - 1 = (n + 1) - kept2 + i - 1
            /\ n - kept + (i + 1) = (n + 1) - kept2 + i
            /\ i + 1 \in 1..kept
            /\ (n + 1) - kept2 + i \in 1..n
        BY <1>1, <3>3, <4>1
      <4>4. buf.entries[i + 1] = [seq |-> n - kept + (i + 1) - 1,
                                  level |-> history[n - kept + (i + 1)]]
        BY <1>2, <4>3
      <4> QED
        BY <1>4, <4>2, <4>3, <4>4
    <3> QED
      BY <3>1, <3>2, <3>3
  <2> QED
    BY <1>4, <1>6, <2>1, <2>2 DEF RetainedTail, kept2
<1> QED
  BY <1>7, <1>8 DEF WriterInv

LEMMA NextKeepsWriter == WriterInv /\ [Next]_vars => WriterInv'
<1> SUFFICES ASSUME WriterInv, [Next]_vars PROVE WriterInv'
  OBVIOUS
<1>1. ASSUME NEW level \in Levels, Write(level) PROVE WriterInv'
  BY <1>1, WriteKeepsInv
<1>2. ASSUME Answer \/ Receive \/ Lose \/ UNCHANGED vars PROVE WriterInv'
  <2>1. UNCHANGED <<buf, history>>
    BY <1>2 DEF Answer, Receive, Lose, vars
  <2> QED
    BY <2>1 DEF WriterInv, WriterTypeOK, RetainedTail
<1> QED
  BY <1>1, <1>2 DEF Next

(* The buffer always holds the newest LogCap lines under the numbers they  *)
(* were given (joblog.Buffer.Add).                                         *)
THEOREM BufferKeepsNewest == Spec => []RetainedTail
<1>1. WriterInv => RetainedTail
  BY DEF WriterInv
<1> QED
  BY <1>1, InitWriterInv, NextKeepsWriter, PTL DEF Spec

-----------------------------------------------------------------------------
(* The client *)

Given(entries, n) == \E i \in DOMAIN entries : entries[i].seq = n

(* Entries that are the lines logged under their numbers, in order, within *)
(* the given numbers.                                                      *)
Lines(entries, from, to) ==
  /\ \A i, j \in DOMAIN entries : i < j => entries[i].seq < entries[j].seq
  /\ \A i \in DOMAIN entries :
       /\ entries[i].seq \in from..(to - 1)
       /\ entries[i].level = history[entries[i].seq + 1]

(* Nothing that is retained is left out.                                   *)
Whole(entries, from, to) ==
  \A n \in from..(to - 1) : Given(entries, n) \/ ~Given(buf.entries, n)

(* A response on its way goes on from where the client is; it may be       *)
(* behind the buffer, but what it lacks below its own log_next is gone.    *)
ReplyInStep ==
  reply # NoReply =>
    /\ cursor <= reply.next /\ reply.next <= Len(history)
    /\ Lines(reply.entries, cursor, reply.next)
    /\ Whole(reply.entries, cursor, reply.next)

ClientInStep ==
  /\ cursor <= Len(history)
  /\ Lines(received, 0, cursor)
  /\ Whole(received, 0, cursor)

StreamInv == WriterInv /\ TypeOK /\ ReplyInStep /\ ClientInStep

LEMMA InitStreamInv == Init => StreamInv
<1> SUFFICES ASSUME Init PROVE StreamInv
  OBVIOUS
<1>1. /\ buf = [entries |-> <<>>, nextSeq |-> 0] /\ history = <<>>
      /\ cursor = 0 /\ reply = NoReply /\ received = <<>>
  BY DEF Init, NewBuffer
<1>2. TypeOK
  BY <1>1 DEF TypeOK, Buffer
<1>3. ReplyInStep /\ ClientInStep
  BY <1>1 DEF ReplyInStep, ClientInStep, Lines, Whole
<1> QED
  BY <1>2, <1>3, InitWriterInv DEF StreamInv

(* The lines of the buffer, as the lemmas about Since want them.           *)
LEMMA BufferLines ==
  ASSUME WriterInv
  PROVE  /\ Consecutive(buf)
         /\ buf.nextSeq = Len(history)
         /\ \A k \in 1..Len(buf.entries) :
              buf.entries[k].level = history[buf.entries[k].seq + 1]
<1> DEFINE n == Len(history)
           kept == Smaller(LogCap, n)
<1>1. /\ buf \in Buffer /\ n \in Nat /\ LogCap \in Nat
      /\ buf.nextSeq = n
      /\ Len(buf.entries) = kept
      /\ \A i \in 1..kept :
           buf.entries[i] = [seq |-> n - kept + i - 1, level |-> history[n - kept + i]]
  BY LogCapAssumption DEF WriterInv, WriterTypeOK, RetainedTail
<1>2. kept \in Nat /\ kept <= n /\ kept <= LogCap
  BY <1>1 DEF Smaller
<1> HIDE DEF n, kept
<1>3. ASSUME NEW k \in 1..kept
      PROVE  /\ buf.entries[k].seq = n - kept + k - 1
             /\ buf.entries[k].level = history[buf.entries[k].seq + 1]
  <2>1. buf.entries[k] = [seq |-> n - kept + k - 1, level |-> history[n - kept + k]]
    BY <1>1
  <2>2. (n - kept + k - 1) + 1 = n - kept + k
    BY <1>1, <1>2
  <2> QED
    BY <2>1, <2>2
<1> QED
  BY <1>1, <1>2, <1>3 DEF Consecutive, n

(* A line that is written has a number of its own, so nothing that was     *)
(* dropped comes back.                                                     *)
LEMMA WriteRetains ==
  ASSUME WriterInv, NEW level \in Levels, Write(level),
         NEW n \in Nat, n < Len(history), Given(buf.entries, n)'
  PROVE  Given(buf.entries, n)
<1> DEFINE len == Len(buf.entries)
           len2 == Len(buf'.entries)
<1>1. /\ buf \in Buffer /\ len <= LogCap /\ buf.nextSeq = Len(history)
      /\ LogCap \in Nat
  BY BufferLines, LogCapAssumption DEF Consecutive
<1>2. /\ buf' \in Buffer
      /\ len2 = IF len < LogCap THEN len + 1 ELSE LogCap
      /\ buf'.entries[len2] = [seq |-> buf.nextSeq, level |-> level]
      /\ \A k \in 1..(len2 - 1) :
           buf'.entries[k] = IF len < LogCap THEN buf.entries[k] ELSE buf.entries[k + 1]
  BY <1>1, AddEntries DEF Write
<1>3. /\ DOMAIN buf.entries = 1..len /\ DOMAIN buf'.entries = 1..len2
      /\ len \in Nat /\ len2 \in Nat
  BY <1>1, <1>2 DEF Buffer
<1>4. PICK k \in 1..len2 : buf'.entries[k].seq = n
  BY <1>3 DEF Given
<1> HIDE DEF len, len2
<1>5. k # len2
  BY <1>1, <1>2, <1>4
<1>6. CASE len < LogCap
  <2>1. k \in 1..(len2 - 1) /\ k \in 1..len
    BY <1>2, <1>3, <1>5, <1>6
  <2> QED
    BY <1>2, <1>3, <1>4, <1>6, <2>1 DEF Given
<1>7. CASE ~(len < LogCap)
  <2>1. k \in 1..(len2 - 1) /\ k + 1 \in 1..len
    BY <1>1, <1>2, <1>3, <1>5, <1>7
  <2> QED
    BY <1>2, <1>3, <1>4, <1>7, <2>1 DEF Given
<1> QED
  BY <1>6, <1>7

LEMMA WriteKeepsStream ==
  ASSUME StreamInv, NEW level \in Levels, Write(level)
  PROVE  StreamInv'
<1>1. /\ WriterInv /\ WriterInv'
      /\ UNCHANGED <<cursor, reply, received>>
      /\ history \in Seq(Levels) /\ history' = Append(history, level)
  BY WriteKeepsInv DEF StreamInv, Write, WriterInv, WriterTypeOK
<1>2. /\ Len(history) \in Nat /\ Len(history') = Len(history) + 1
      /\ \A i \in 1..Len(history) : history'[i] = history[i]
  BY <1>1
<1>3. TypeOK'
  BY <1>1 DEF StreamInv, WriterInv, WriterTypeOK, TypeOK
<1>4. ASSUME NEW entries, NEW from \in Nat, NEW to \in Nat, to <= Len(history),
             Lines(entries, from, to)
      PROVE  /\ \A i, j \in DOMAIN entries : i < j => entries[i].seq < entries[j].seq
             /\ \A i \in DOMAIN entries :
                  /\ entries[i].seq \in from..(to - 1)
                  /\ entries[i].level = history'[entries[i].seq + 1]
  <2>1. ASSUME NEW i \in DOMAIN entries
        PROVE  entries[i].level = history'[entries[i].seq + 1]
    <3>1. /\ entries[i].seq \in from..(to - 1)
          /\ entries[i].level = history[entries[i].seq + 1]
      BY <1>4 DEF Lines
    <3>2. entries[i].seq + 1 \in 1..Len(history)
      BY <1>2, <1>4, <3>1
    <3> QED
      BY <1>2, <3>1, <3>2
  <2> QED
    BY <1>4, <2>1 DEF Lines
<1>5. ASSUME NEW entries, NEW from \in Nat, NEW to \in Nat, to <= Len(history),
             Whole(entries, from, to), NEW n \in from..(to - 1)
      PROVE  Given(entries, n) \/ ~(Given(buf.entries, n)')
  <2>1. n \in Nat /\ n < Len(history)
    BY <1>2, <1>5
  <2>2. Given(buf.entries, n)' => Given(buf.entries, n)
    BY <1>1, <2>1, WriteRetains
  <2> QED
    BY <1>5, <2>2 DEF Whole
<1>6. cursor \in Nat /\ 0 \in Nat
  BY DEF StreamInv, TypeOK
<1>7. ReplyInStep'
  <2> SUFFICES ASSUME reply # NoReply
               PROVE  /\ (cursor <= reply.next)' /\ (reply.next <= Len(history))'
                      /\ Lines(reply.entries, cursor, reply.next)'
                      /\ Whole(reply.entries, cursor, reply.next)'
    BY <1>1 DEF ReplyInStep
  <2>1. /\ reply.next \in Nat /\ cursor <= reply.next /\ reply.next <= Len(history)
        /\ Lines(reply.entries, cursor, reply.next)
        /\ Whole(reply.entries, cursor, reply.next)
    BY DEF StreamInv, TypeOK, Reply, ReplyInStep
  <2>2. Lines(reply.entries, cursor, reply.next)'
    BY <1>1, <1>4, <1>6, <2>1 DEF Lines
  <2>3. \A n \in cursor..(reply.next - 1) :
          Given(reply.entries, n) \/ ~(Given(buf.entries, n)')
    BY <1>5, <1>6, <2>1
  <2>4. Whole(reply.entries, cursor, reply.next)'
    BY <1>1, <2>3 DEF Whole, Given
  <2> QED
    BY <1>1, <1>2, <2>1, <2>2, <2>4
<1>8. ClientInStep'
  <2>1. /\ cursor <= Len(history)
        /\ Lines(received, 0, cursor)
        /\ Whole(received, 0, cursor)
    BY DEF StreamInv, ClientInStep
  <2>2. Lines(received, 0, cursor)'
    BY <1>1, <1>4, <1>6, <2>1 DEF Lines
  <2>3. \A n \in 0..(cursor - 1) :
          Given(received, n) \/ ~(Given(buf.entries, n)')
    BY <1>5, <1>6, <2>1
  <2>4. Whole(received, 0, cursor)'
    BY <1>1, <2>3 DEF Whole, Given
  <2> QED
    BY <1>1, <1>2, <1>6, <2>1, <2>2, <2>4 DEF ClientInStep
<1> QED
  BY <1>1, <1>3, <1>7, <1>8 DEF StreamInv

(* The response to a poll is a tail of the buffer.                         *)
LEMMA AnswerKeepsStream ==
  ASSUME StreamInv, Answer
  PROVE  StreamInv'
<1> DEFINE found == Since(buf, cursor)
           skip == Skipped(buf, cursor)
           len == Len(buf.entries)
           N == buf.nextSeq
<1>1. /\ WriterInv /\ cursor \in Nat /\ cursor <= Len(history)
      /\ reply' = found
      /\ UNCHANGED <<buf, history, cursor, received>>
  BY DEF StreamInv, TypeOK, ClientInStep, Answer
<1>2. /\ Consecutive(buf) /\ N = Len(history)
      /\ \A k \in 1..len : buf.entries[k].level = history[buf.entries[k].seq + 1]
  BY <1>1, BufferLines
<1>3. /\ found.next = N
      /\ skip \in 0..len
      /\ found.entries \in Seq(Entry)
      /\ Len(found.entries) = len - skip
      /\ \A i \in 1..Len(found.entries) : found.entries[i] = buf.entries[skip + i]
  BY <1>1, <1>2, SinceIsTail
<1>4. /\ len \in Nat /\ N \in Nat /\ len <= N
      /\ DOMAIN buf.entries = 1..len
      /\ \A k \in 1..len : buf.entries[k].seq = N - len + k - 1
  BY <1>2 DEF Consecutive, Buffer
<1>5. skip = IF cursor <= N - len THEN 0
             ELSE IF cursor < N THEN cursor - (N - len) ELSE len
  BY DEF Skipped
<1>6. found \in Reply
  BY <1>3, <1>4 DEF Reply, Since
<1>7. TypeOK'
  BY <1>1, <1>6 DEF StreamInv, TypeOK
<1>8. cursor <= N
  BY <1>1, <1>2
<1> DEFINE es == found.entries
<1>9. DOMAIN es = 1..(len - skip) /\ es \in Seq(Entry)
  BY <1>3
<1> HIDE DEF found, skip, len, N, es
<1>10. ASSUME NEW i \in 1..(len - skip)
       PROVE  /\ es[i].seq = N - len + skip + i - 1
              /\ es[i].seq \in cursor..(N - 1)
              /\ es[i].level = history[es[i].seq + 1]
  <2>1. skip + i \in 1..len /\ i \in 1..Len(found.entries)
    BY <1>3, <1>4
  <2>2. es[i] = buf.entries[skip + i]
    BY <1>3, <2>1 DEF es
  <2>3. es[i].seq = N - len + (skip + i) - 1
    BY <1>4, <2>1, <2>2
  <2>4. N - len + (skip + i) - 1 \in cursor..(N - 1)
    BY <1>1, <1>3, <1>4, <1>5
  <2>5. N - len + (skip + i) - 1 = N - len + skip + i - 1
    BY <1>3, <1>4
  <2>6. buf.entries[skip + i].level = history[buf.entries[skip + i].seq + 1]
    BY <1>2, <2>1
  <2> QED
    BY <2>2, <2>3, <2>4, <2>5, <2>6
<1>11. ASSUME NEW i \in 1..(len - skip), NEW j \in 1..(len - skip), i < j
       PROVE  es[i].seq < es[j].seq
  <2>1. es[i].seq = N - len + skip + i - 1 /\ es[j].seq = N - len + skip + j - 1
    BY <1>10
  <2>2. N - len + skip + i - 1 < N - len + skip + j - 1
    BY <1>3, <1>4, <1>11
  <2> QED
    BY <2>1, <2>2
<1>12. ASSUME NEW n \in cursor..(N - 1), Given(buf.entries, n)
       PROVE  Given(es, n)
  <2>1. PICK k \in 1..len : buf.entries[k].seq = n
    BY <1>4, <1>12 DEF Given
  <2>2. n = N - len + k - 1 /\ n >= cursor
    BY <1>1, <1>4, <1>12, <2>1
  <2>3. k - skip \in 1..(len - skip) /\ N - len + skip + (k - skip) - 1 = n
    BY <1>1, <1>3, <1>4, <1>5, <2>2
  <2>4. es[k - skip].seq = n
    BY <1>10, <2>3
  <2> QED
    BY <1>9, <2>3, <2>4 DEF Given
<1>13. reply'.entries = es /\ reply'.next = N
  BY <1>1, <1>3 DEF es
<1>14. ReplyInStep'
  <2>1. Lines(reply.entries, cursor, reply.next)'
    BY <1>1, <1>9, <1>10, <1>11, <1>13 DEF Lines
  <2>2. Whole(reply.entries, cursor, reply.next)'
    BY <1>1, <1>12, <1>13 DEF Whole, Given
  <2>3. (cursor <= reply.next)' /\ (reply.next <= Len(history))'
    BY <1>1, <1>2, <1>4, <1>8, <1>13
  <2> QED
    BY <2>1, <2>2, <2>3 DEF ReplyInStep
<1>15. WriterInv'
  BY <1>1 DEF WriterInv, WriterTypeOK, RetainedTail
<1>16. ClientInStep'
  BY <1>1 DEF StreamInv, ClientInStep, Lines, Whole, Given
<1> QED
  BY <1>7, <1>14, <1>15, <1>16 DEF StreamInv

(* The lines of the response come after all those the client has.          *)
LEMMA ReceiveKeepsStream ==
  ASSUME StreamInv, Receive
  PROVE  StreamInv'
<1> DEFINE new == reply.entries
           m == Len(received)
           p == Len(new)
           all == received \o new
<1>1. /\ reply \in Reply /\ received \in Seq(Entry) /\ cursor \in Nat
      /\ received' = all /\ cursor' = reply.next /\ reply' = NoReply
      /\ UNCHANGED <<buf, history>>
  BY DEF StreamInv, TypeOK, Receive
<1>2. /\ cursor <= reply.next /\ reply.next <= Len(history)
      /\ Lines(new, cursor, reply.next) /\ Whole(new, cursor, reply.next)
      /\ Lines(received, 0, cursor) /\ Whole(received, 0, cursor)
  BY DEF StreamInv, ReplyInStep, ClientInStep, Receive
<1>3. /\ new \in Seq(Entry) /\ reply.next \in Nat
      /\ m \in Nat /\ p \in Nat
      /\ DOMAIN received = 1..m /\ DOMAIN new = 1..p
      /\ all \in Seq(Entry) /\ DOMAIN all = 1..(m + p)
      /\ \A i \in 1..m : all[i] = received[i]
      /\ \A i \in 1..p : all[m + i] = new[i]
  BY <1>1 DEF Reply
<1> HIDE DEF all, m, p, new
<1>4. ASSUME NEW i \in 1..(m + p)
      PROVE  \/ i \in 1..m /\ all[i] = received[i]
             \/ i - m \in 1..p /\ all[i] = new[i - m]
  <2>1. CASE i <= m
    BY <1>3, <2>1
  <2>2. CASE i > m
    <3>1. i - m \in 1..p /\ m + (i - m) = i
      BY <1>3, <2>2
    <3> QED
      BY <1>3, <3>1
  <2> QED
    BY <1>3, <2>1, <2>2
<1>5. /\ \A i \in 1..m : received[i].seq \in 0..(cursor - 1)
                         /\ received[i].level = history[received[i].seq + 1]
      /\ \A i \in 1..p : new[i].seq \in cursor..(reply.next - 1)
                         /\ new[i].level = history[new[i].seq + 1]
      /\ \A i, j \in 1..m : i < j => received[i].seq < received[j].seq
      /\ \A i, j \in 1..p : i < j => new[i].seq < new[j].seq
  BY <1>2, <1>3 DEF Lines
<1>6. Lines(all, 0, reply.next)
  <2>1. ASSUME NEW i \in 1..(m + p)
        PROVE  /\ all[i].seq \in 0..(reply.next - 1)
               /\ all[i].level = history[all[i].seq + 1]
    <3>1. 0..(cursor - 1) \subseteq 0..(reply.next - 1)
      BY <1>1, <1>2, <1>3
    <3>2. cursor..(reply.next - 1) \subseteq 0..(reply.next - 1)
      BY <1>1, <1>2, <1>3
    <3> QED
      BY <1>4, <1>5, <3>1, <3>2
  <2>2. ASSUME NEW i \in 1..(m + p), NEW j \in 1..(m + p), i < j
        PROVE  all[i].seq < all[j].seq
    <3>1. CASE i \in 1..m /\ all[i] = received[i]
      <4>1. CASE j \in 1..m /\ all[j] = received[j]
        BY <1>5, <2>2, <3>1, <4>1
      <4>2. CASE j - m \in 1..p /\ all[j] = new[j - m]
        <5>1. received[i].seq \in 0..(cursor - 1)
              /\ new[j - m].seq \in cursor..(reply.next - 1)
          BY <1>5, <3>1, <4>2
        <5>2. received[i].seq < new[j - m].seq
          BY <1>1, <1>3, <5>1
        <5> QED
          BY <3>1, <4>2, <5>2
      <4> QED
        BY <1>4, <4>1, <4>2
    <3>2. CASE i - m \in 1..p /\ all[i] = new[i - m]
      <4>1. j - m \in 1..p /\ i - m < j - m /\ ~(j \in 1..m)
        BY <1>3, <2>2, <3>2
      <4>2. all[j] = new[j - m]
        BY <1>4, <4>1
      <4> QED
        BY <1>5, <3>2, <4>1, <4>2
    <3> QED
      BY <1>4, <3>1, <3>2
  <2> QED
    BY <1>3, <2>1, <2>2 DEF Lines
<1>7. ASSUME NEW n \in 0..(reply.next - 1), Given(buf.entries, n)
      PROVE  Given(all, n)
  <2>1. CASE n \in 0..(cursor - 1)
    <3>1. PICK i \in 1..m : received[i].seq = n
      BY <1>2, <1>3, <1>7, <2>1 DEF Whole, Given
    <3>2. i \in 1..(m + p) /\ all[i].seq = n
      BY <1>3, <3>1
    <3> QED
      BY <1>3, <3>2 DEF Given
  <2>2. CASE n \in cursor..(reply.next - 1)
    <3>1. PICK i \in 1..p : new[i].seq = n
      BY <1>2, <1>3, <1>7, <2>2 DEF Whole, Given
    <3>2. m + i \in 1..(m + p) /\ all[m + i].seq = n
      BY <1>3, <3>1
    <3> QED
      BY <1>3, <3>2 DEF Given
  <2> QED
    BY <1>1, <1>3, <2>1, <2>2
<1>8. Whole(all, 0, reply.next)
  BY <1>7 DEF Whole
<1>9. ClientInStep'
  <2>1. Lines(received, 0, cursor)'
    BY <1>1, <1>6 DEF Lines
  <2>2. Whole(received, 0, cursor)'
    BY <1>1, <1>8 DEF Whole, Given
  <2> QED
    BY <1>1, <1>2, <2>1, <2>2 DEF ClientInStep
<1>10. ReplyInStep'
  BY <1>1 DEF ReplyInStep
<1>11. TypeOK'
  BY <1>1, <1>3 DEF StreamInv, TypeOK
<1>12. WriterInv'
  BY <1>1 DEF StreamInv, WriterInv, WriterTypeOK, RetainedTail
<1> QED
  BY <1>9, <1>10, <1>11, <1>12 DEF StreamInv

LEMMA NextKeepsStream == StreamInv /\ [Next]_vars => StreamInv'
<1> SUFFICES ASSUME StreamInv, [Next]_vars PROVE StreamInv'
  OBVIOUS
<1>1. CASE Lose \/ UNCHANGED vars
  <2>1. UNCHANGED <<buf, history, cursor, received>> /\ reply' \in {reply, NoReply}
    BY <1>1 DEF Lose, vars
  <2>2. WriterInv' /\ ClientInStep'
    BY <2>1
    DEF StreamInv, WriterInv, WriterTypeOK, RetainedTail, ClientInStep, Lines, Whole,
        Given
  <2>3. TypeOK' /\ ReplyInStep'
    BY <2>1 DEF StreamInv, TypeOK, ReplyInStep, Lines, Whole, Given
  <2> QED
    BY <2>2, <2>3 DEF StreamInv
<1> QED
  BY <1>1, WriteKeepsStream, AnswerKeepsStream, ReceiveKeepsStream DEF Next

LEMMA StreamIsInvariant == Spec => []StreamInv
BY InitStreamInv, NextKeepsStream, PTL DEF Spec

(* Every response is made of entries, and every cursor is one the buffer   *)
(* could have given out.                                                   *)
THEOREM StreamTypeCorrect == Spec => []TypeOK
<1>1. StreamInv => TypeOK
  BY DEF StreamInv
<1> QED
  BY <1>1, StreamIsInvariant, PTL

(* The client gets no line twice, none out of order and each as it was     *)
(* logged (joblog.Buffer.Since, handleStatus's log_next).                  *)
THEOREM ClientReceivesInOrder == Spec => []ReceivedInOrder
<1>1. StreamInv => ReceivedInOrder
  <2> SUFFICES ASSUME StreamInv, NEW i \in DOMAIN received
               PROVE  received[i].seq < cursor
    BY DEF StreamInv, ClientInStep, Lines, ReceivedInOrder
  <2>1. cursor \in Nat /\ received[i].seq \in 0..(cursor - 1)
    BY DEF StreamInv, TypeOK, ClientInStep, Lines
  <2> QED
    BY <2>1
<1> QED
  BY <1>1, StreamIsInvariant, PTL

(* What the client never got, below its cursor, the buffer has dropped.    *)
THEOREM ClientMissesOnlyEvicted == Spec => []MissedOnlyIfEvicted
<1>1. StreamInv => MissedOnlyIfEvicted
  BY DEF StreamInv, ClientInStep, Whole, Given, MissedOnlyIfEvicted
<1> QED
  BY <1>1, StreamIsInvariant, PTL

=============================================================================
