------------------------------ MODULE LogBuffer ------------------------------
(***************************************************************************)
(* The bounded log of internal/joblog: a Buffer keeps the last LogCap      *)
(* entries that were added and numbers every entry it was ever given.  The *)
(* operations take the buffer's mutex, so each of them is one operator on  *)
(* the value of the buffer.  An entry keeps its sequence number and its    *)
(* level; its time and text play no part in what the buffer does.  A nil   *)
(* *Buffer never occurs in the program: every State and every scan has its *)
(* own.                                                                    *)
(***************************************************************************)
EXTENDS Naturals, Sequences, FiniteSets

CONSTANT LogCap      \* Buffer.capacity: 500, as both users call New(0)

ASSUME LogCapAssumption == LogCap \in Nat \ {0}

Levels == {"info", "warn", "error"}

Entry == [seq : Nat, level : Levels]

Buffer == [entries : Seq(Entry), nextSeq : Nat]

NewBuffer == [entries |-> <<>>, nextSeq |-> 0]

(* Mutant: a full buffer refuses the new line instead of evicting the      *)
(* oldest.                                                                 *)
PushKeepingOldest(entries, e) ==
  IF Len(entries) < LogCap THEN Append(entries, e) ELSE entries

(* Appends, then drops the oldest entry once the buffer is over capacity. *)
Push(entries, e) ==
  LET all == Append(entries, e)
  IN  IF Len(all) > LogCap THEN SubSeq(all, 2, LogCap + 1) ELSE all

Add(b, level) ==
  [entries |-> Push(b.entries, [seq |-> b.nextSeq, level |-> level]),
   nextSeq |-> b.nextSeq + 1]

(* The entries at these places, in the order they have in the buffer.      *)
Picked(entries, places) ==
  [i \in 1..Cardinality(places) |->
     entries[CHOOSE k \in places : Cardinality({j \in places : j <= k}) = i]]

RetainedFrom(b, cursor) == {k \in DOMAIN b.entries : b.entries[k].seq >= cursor}

(* Mutants: the cursor is the last number given out, or one too far.       *)
SinceLast(b, cursor) ==
  [entries |-> Picked(b.entries, RetainedFrom(b, cursor)),
   next    |-> b.nextSeq - 1]

SinceBeyond(b, cursor) ==
  [entries |-> Picked(b.entries, RetainedFrom(b, cursor)),
   next    |-> b.nextSeq + 1]

(* What Since returns: the retained entries from cursor on, oldest first,  *)
(* and the cursor for the next call.                                       *)
Since(b, cursor) ==
  [entries |-> Picked(b.entries, RetainedFrom(b, cursor)),
   next    |-> b.nextSeq]

=============================================================================
