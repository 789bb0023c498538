------------------------------ MODULE LogStream ------------------------------
(***************************************************************************)
(* One log buffer, the run that writes to it and a client that follows it  *)
(* with GET /api/status/{job_id}?log_since=N, passing back the log_next of *)
(* the last response it received.  The server answers a poll from the      *)
(* buffer in one critical section; the response is on its way while the    *)
(* run keeps writing, and it may be lost, in which case the client polls   *)
(* again from the cursor it still has.                                     *)
(***************************************************************************)
EXTENDS LogBuffer

CONSTANTS MaxLines,  \* bound: the lines the run writes
          NoReply

ASSUME MaxLinesAssumption == MaxLines \in Nat

VARIABLES
  buf,        \* the Buffer
  history,    \* auxiliary: the level of every line ever added, oldest first
  cursor,     \* the log_since the client will send next
  reply,      \* the response on its way to the client, or NoReply
  received    \* every entry the client was given, in the order it got them

vars == <<buf, history, cursor, reply, received>>

Reply == [entries : Seq(Entry), next : Nat]

TypeOK ==
  /\ buf \in Buffer
  /\ history \in Seq(Levels)
  /\ cursor \in Nat
  /\ reply \in Reply \union {NoReply}
  /\ received \in Seq(Entry)

Init ==
  /\ buf = NewBuffer
  /\ history = <<>>
  /\ cursor = 0
  /\ reply = NoReply
  /\ received = <<>>

(* The run logs one line. *)
Write(level) ==
  /\ Len(history) < MaxLines
  /\ buf' = Add(buf, level)
  /\ history' = Append(history, level)
  /\ UNCHANGED <<cursor, reply, received>>

(* The server answers a poll. *)
Answer ==
  /\ reply = NoReply
  /\ reply' = Since(buf, cursor)
  /\ UNCHANGED <<buf, history, cursor, received>>

(* The response reaches the client. *)
Receive ==
  /\ reply # NoReply
  /\ received' = received \o reply.entries
  /\ cursor' = reply.next
  /\ reply' = NoReply
  /\ UNCHANGED <<buf, history>>

(* The response is lost. *)
Lose ==
  /\ reply # NoReply
  /\ reply' = NoReply
  /\ UNCHANGED <<buf, history, cursor, received>>

Next ==
  \/ \E level \in Levels : Write(level)
  \/ Answer
  \/ Receive
  \/ Lose

Spec == Init /\ [][Next]_vars

-----------------------------------------------------------------------------
Smaller(m, n) == IF m < n THEN m ELSE n

(* The buffer holds exactly the newest LogCap lines (all of them while     *)
(* there are fewer), oldest first, each under the number it was given when *)
(* it was added: eviction neither loses a newer line nor renumbers one     *)
(* (joblog.Buffer.Add; "never reused or renumbered", openapi.yaml).        *)
RetainedTail ==
  LET kept == Smaller(LogCap, Len(history))
      gone == Len(history) - kept
  IN  /\ buf.nextSeq = Len(history)
      /\ Len(buf.entries) = kept
      /\ \A i \in 1..kept :
           buf.entries[i] = [seq |-> gone + i - 1, level |-> history[gone + i]]

(* The client never gets a line twice or out of order, and every line it   *)
(* gets is the one that was logged under that number, whatever responses   *)
(* were lost and whatever was evicted meanwhile (Buffer.Since and          *)
(* log_next).                                                              *)
ReceivedInOrder ==
  /\ \A i, j \in DOMAIN received : i < j => received[i].seq < received[j].seq
  /\ \A i \in DOMAIN received :
       /\ received[i].seq < cursor
       /\ received[i].level = history[received[i].seq + 1]

(* A line below the client's cursor that it never got is one the buffer    *)
(* has dropped: the cursor a poll returns does not step over a line that   *)
(* is still retained (Buffer.Since returns nextSeq even with no entries).  *)
MissedOnlyIfEvicted ==
  \A n \in 0..(cursor - 1) :
    \/ \E i \in DOMAIN received : received[i].seq = n
    \/ \A i \in DOMAIN buf.entries : buf.entries[i].seq # n

=============================================================================
