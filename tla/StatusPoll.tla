------------------------------ MODULE StatusPoll ------------------------------
(***************************************************************************)
(* GET /api/status/{job_id}, composed with the job manager.  The handler   *)
(* copies the job's State under the manager's mutex and then, holding no   *)
(* lock, reads the log that State points to under the log's own mutex, so  *)
(* the job moves on between the status it reports and the log it reports.  *)
(* One client polls one job id, each time from the log_next of its last    *)
(* response; runs of the id come and go meanwhile.                         *)
(***************************************************************************)
EXTENDS JobManager

CONSTANT PolledId

ASSUME PolledIdAssumption == PolledId \in Ids

VARIABLES
  got,       \* the handler's copy of the State: its run and status, if any
  cursor,    \* the log_since of the client's next poll
  page,      \* the last response
  seen,      \* of each run, the numbers of the log lines the client was shown
  told       \* of each run, the status the last response on it gave

pollVars == <<got, cursor, page, seen, told>>
allVars == <<vars, pollVars>>

NoPage == [run |-> NoState, status |-> "none", next |-> 0]

NothingGot == [run |-> NoState, status |-> "none"]

PollInit ==
  /\ Init
  /\ got = NothingGot
  /\ cursor = 0
  /\ page = NoPage
  /\ seen = [c \in Calls |-> {}]
  /\ told = [c \in Calls |-> "none"]

(* Manager.Get.  An id without an entry is answered at once, with a 404    *)
(* that leaves the client where it was.                                    *)
GetState ==
  /\ got = NothingGot
  /\ jobs[PolledId] # NoState
  /\ got' = [run |-> jobs[PolledId], status |-> status[jobs[PolledId]]]
  /\ UNCHANGED <<vars, cursor, page, seen, told>>

ReadLog ==
  LET found == Since(log[got.run], cursor)
  IN  /\ got # NothingGot
      /\ page' = [run |-> got.run, status |-> got.status, next |-> found.next]
      /\ cursor' = found.next
      /\ seen' = [seen EXCEPT ![got.run] =
                    @ \union {found.entries[k].seq : k \in 1..Len(found.entries)}]
      /\ told' = [told EXCEPT ![got.run] = got.status]
      /\ got' = NothingGot
      /\ UNCHANGED vars

(* The client forgets what it was shown of the log and polls without a     *)
(* log_since.  What it was told of each run stands: told is history.       *)
Reload ==
  /\ got = NothingGot
  /\ cursor' = 0
  /\ seen' = [c \in Calls |-> {}]
  /\ page' = NoPage
  /\ UNCHANGED <<vars, got, told>>

Poll == GetState \/ ReadLog \/ Reload

PollNext ==
  \/ Next /\ UNCHANGED pollVars
  \/ Poll

PollSpec == PollInit /\ [][PollNext]_allVars

-----------------------------------------------------------------------------
Retained(c) == {log[c].entries[k].seq : k \in 1..Len(log[c].entries)}

(* A response that reports a job as done or failed also ends its log: a    *)
(* client that stops polling on a terminal status has been offered every   *)
(* line, the line that explains the failure included.  It holds because    *)
(* the status is read before the log and a job's last line is added        *)
(* together with its terminal status (handleStatus, Manager.run).          *)
TerminalPollIsComplete ==
  page.status \in TerminalStatus => page.next = log[page.run].nextSeq

(* Once a client has been shown a line of a run it is shown every later    *)
(* one that is still retained, up to its cursor: no placeholder, refusal   *)
(* or restored result that its polls meet in between opens a hole.         *)
FollowedWithoutHoles ==
  LET c == page.run
  IN  c # NoState =>
        \A m \in seen[c] : \A n \in Retained(c) :
          m < n /\ n < page.next => n \in seen[c]

Rank(s) == CASE s = "none" -> 0
             [] s = "queued" -> 1
             [] s \in {"splitting", "tagging"} -> 2
             [] OTHER -> 3

(* What the responses say of one run moves from queued to running to       *)
(* finished and never back, and of a finished run they all say the same:   *)
(* whatever other runs of the id the responses in between spoke of, as     *)
(* when a re-split is shown, refused, and the earlier run restored, and    *)
(* across a reload of the page.                                            *)
PollsMoveForward ==
  [][\A c \in Calls :
       /\ Rank(told[c]) <= Rank(told'[c])
       /\ told[c] \in TerminalStatus => told'[c] = told[c]]_allVars

-----------------------------------------------------------------------------
(* What the sources say and the code does not guarantee *)

(* "pass back the previous response's log_next to receive only the entries *)
(* added since" (README.md), log_next being "the cursor to pass as         *)
(* log_since on the next poll" (openapi.yaml): a client that does so is    *)
(* shown every entry that is still there.                                  *)
NothingAddedIsSkipped ==
  page.run # NoState =>
    \A n \in Retained(page.run) : n < page.next => n \in seen[page.run]

=============================================================================
