----------------------------- MODULE SplitService -----------------------------
(***************************************************************************)
(* What internal/job promises to the handlers: requests to split an album  *)
(* are accepted or refused, accepted ones wait in line and run one at a    *)
(* time in the order they were accepted, an album has at most one live     *)
(* job, and a status poll shows the album's last accepted job.  There is   *)
(* no placeholder, no rollback, no lookup by id and no mutex here: a       *)
(* request is accepted, with all that it entails, in one step.             *)
(***************************************************************************)
EXTENDS Naturals, Sequences

CONSTANTS
  Ids,         \* the albums, each with its CUE file
  Calls,       \* the requests
  Room,        \* how many accepted jobs may wait
  NoCall

VARIABLES
  album,       \* the id each request is for
  phase,       \* how far each request has come
  latest,      \* the last accepted job of each id, or NoCall
  line         \* the accepted jobs that have not begun, oldest first

vars == <<album, phase, latest, line>>

Live == {"waiting", "running"}

Init ==
  /\ album \in [Calls -> Ids]
  /\ phase = [c \in Calls |-> "new"]
  /\ latest = [i \in Ids |-> NoCall]
  /\ line = <<>>

Accept(c) ==
  /\ phase[c] = "new"
  /\ \A d \in Calls : album[d] = album[c] => phase[d] \notin Live
  /\ Len(line) < Room
  /\ phase' = [phase EXCEPT ![c] = "waiting"]
  /\ latest' = [latest EXCEPT ![album[c]] = c]
  /\ line' = Append(line, c)
  /\ UNCHANGED album

Refuse(c) ==
  /\ phase[c] = "new"
  /\ phase' = [phase EXCEPT ![c] = "refused"]
  /\ UNCHANGED <<album, latest, line>>

Begin ==
  /\ line # <<>>
  /\ \A c \in Calls : phase[c] # "running"
  /\ phase' = [phase EXCEPT ![Head(line)] = "running"]
  /\ line' = Tail(line)
  /\ UNCHANGED <<album, latest>>

Finish(c, outcome) ==
  /\ phase[c] = "running"
  /\ phase' = [phase EXCEPT ![c] = outcome]
  /\ UNCHANGED <<album, latest, line>>

Next ==
  \/ \E c \in Calls : Accept(c) \/ Refuse(c)
  \/ Begin
  \/ \E c \in Calls, outcome \in {"done", "error"} : Finish(c, outcome)

Spec == Init /\ [][Next]_vars

=============================================================================
