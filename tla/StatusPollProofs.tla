--------------------------- MODULE StatusPollProofs ---------------------------
(***************************************************************************)
(* What the responses of one client say of a job, for every set of ids and *)
(* calls and every capacity: a terminal status comes with the whole log,   *)
(* and successive responses on one run never go back.  Both rest on the    *)
(* inductive invariant of the job manager.                                 *)
(***************************************************************************)
EXTENDS StatusPoll, JobManagerProofs

Known == ActiveStatus \union TerminalStatus

(* The copy the handler has taken is not ahead of the job.                 *)
GotInStep ==
  \/ got = NothingGot
  \/ /\ got.run \in Calls
     /\ got.status \in Known
     /\ status[got.run] \in Known
     /\ Rank(got.status) <= Rank(status[got.run])
     /\ got.status \in TerminalStatus => status[got.run] = got.status

(* Neither is what a response said of a run, nor is it ahead of the copy.   *)
ToldInStep ==
  \A c \in Calls :
    \/ told[c] = "none"
    \/ /\ told[c] \in Known
       /\ status[c] \in Known
       /\ Rank(told[c]) <= Rank(status[c])
       /\ told[c] \in TerminalStatus => status[c] = told[c]
       /\ got # NothingGot /\ got.run = c =>
            /\ Rank(told[c]) <= Rank(got.status)
            /\ told[c] \in TerminalStatus => got.status = told[c]

(* The last response, if it said that a job has ended, had its whole log.  *)
PageInStep ==
  \/ page.status \notin TerminalStatus
  \/ /\ page.run \in Calls
     /\ status[page.run] = page.status
     /\ page.next = log[page.run].nextSeq

(* What responses have said of the runs, and the page the client shows.    *)
PollInv ==
  /\ JobInv
  /\ told \in [Calls -> Known \union {"none"}]
  /\ page.run \in Calls \union {NoState}
  /\ GotInStep
  /\ ToldInStep
  /\ PageInStep

LEMMA InitPollInv == PollInit => PollInv
<1> SUFFICES ASSUME PollInit PROVE PollInv
  OBVIOUS
<1>1. JobInv
  BY InitJobInv DEF PollInit
<1>2. GotInStep /\ ToldInStep /\ PageInStep
      /\ told \in [Calls -> Known \union {"none"}] /\ page.run = NoState
  BY DEF PollInit, GotInStep, ToldInStep, PageInStep, NoPage, TerminalStatus
<1> QED
  BY <1>1, <1>2 DEF PollInv

-----------------------------------------------------------------------------
(* The job moves on *)

LEMMA RankOfKnown ==
  /\ \A s \in Known : Rank(s) \in 1..3
  /\ \A s \in TerminalStatus : Rank(s) = 3
  /\ \A s \in {"splitting", "tagging"} : Rank(s) = 2
  /\ Rank("queued") = 1
  /\ Rank("none") = 0
BY DEF Known, ActiveStatus, TerminalStatus, Rank

(* No step of the manager takes a job back.                                *)
LEMMA StepKeepsRank ==
  ASSUME JobInv, [Next]_vars, NEW c \in Calls, status[c] \in Known
  PROVE  status'[c] \in Known /\ Rank(status[c]) <= Rank(status'[c])
<1> USE DEF JobInv, TypeOK
<1>1. ASSUME status'[c] = status[c]
      PROVE  status'[c] \in Known /\ Rank(status[c]) <= Rank(status'[c])
  <2>1. Rank(status[c]) \in 1..3
    BY RankOfKnown
  <2> QED
    BY <1>1, <2>1
<1>2. ASSUME NEW d \in Calls, Enqueue(d)
      PROVE  status'[c] = status[c]
  <2>1. CASE Register(d)
    BY <2>1 DEF Register, CallsInStep, Known, ActiveStatus, TerminalStatus
  <2>2. CASE ~Register(d)
    BY <1>2, <2>2 DEF Enqueue, RefuseDuplicate, CheckContext, Send, Reject
  <2> QED
    BY <2>1, <2>2
<1>3. ASSUME Start \/ Pipeline
      PROVE  status'[c] \in Known /\ Rank(status[c]) <= Rank(status'[c])
  <2>1. worker \in {"taken", "splitting"}
    BY <1>3 DEF Start, Pipeline, Progress, LogLine, Succeed, Fail
  <2>2. current \in Calls
    BY <2>1, UpdatesHitHeldJob
  <2>3. worker = "taken" => status[current] = "queued"
    BY DEF WorkerOwnsEntry
  <2>4. worker = "splitting" => status[current] \in {"splitting", "tagging"}
    BY DEF WorkerOwnsEntry
  <2>5. \/ status' = status
        \/ \E s \in {"splitting", "tagging", "done", "error"} :
             status' = [status EXCEPT ![current] = s]
    BY <1>3, <2>1, UpdatesHitHeldJob
    DEF Start, Pipeline, Progress, PhaseOf, LogLine, Succeed, Fail
  <2>6. CASE status'[c] = status[c]
    BY <1>1, <2>6
  <2>7. CASE status'[c] # status[c]
    <3>1. c = current /\ status'[c] \in {"splitting", "tagging", "done", "error"}
      BY <2>2, <2>5, <2>7
    <3>2. status[c] \in {"queued", "splitting", "tagging"}
      BY <2>1, <2>3, <2>4, <3>1
    <3>3. Rank(status[c]) \in {1, 2} /\ Rank(status'[c]) \in {2, 3}
      BY <3>1, <3>2 DEF Rank
    <3>4. status'[c] \in Known
      BY <3>1 DEF Known, ActiveStatus, TerminalStatus
    <3> QED
      BY <3>3, <3>4
  <2> QED
    BY <2>6, <2>7
<1>4. ASSUME Take \/ Leave \/ Cancel \/ Stopped \/ UNCHANGED vars
      PROVE  status'[c] = status[c]
  BY <1>4 DEF Take, Leave, Cancel, Stopped, vars
<1> QED
  BY <1>1, <1>2, <1>3, <1>4 DEF Next, Work

LEMMA ManagerKeepsPoll ==
  ASSUME PollInv, [Next]_vars, UNCHANGED pollVars
  PROVE  PollInv'
<1>1. JobInv'
  BY NextKeepsInv DEF PollInv
<1>2. \A s \in Known : Rank(s) \in Nat
  BY RankOfKnown
<1>3. \A c \in Calls : status[c] \in Known =>
        /\ status'[c] \in Known
        /\ Rank(status[c]) <= Rank(status'[c])
  BY StepKeepsRank DEF PollInv
<1>4. \A c \in Calls : status[c] \in TerminalStatus =>
        status'[c] = status[c] /\ log'[c] = log[c]
  BY StepKeepsFinished DEF PollInv
<1>5. GotInStep'
  BY <1>2, <1>3, <1>4 DEF PollInv, GotInStep, pollVars, NothingGot
<1>6. PageInStep'
  BY <1>4 DEF PollInv, PageInStep, pollVars
<1>7. ToldInStep'
  BY <1>2, <1>3, <1>4 DEF PollInv, ToldInStep, pollVars, NothingGot
<1> QED
  BY <1>1, <1>5, <1>6, <1>7 DEF PollInv, pollVars

-----------------------------------------------------------------------------
(* A poll *)

LEMMA GetStateKeepsPoll ==
  ASSUME PollInv, GetState
  PROVE  PollInv'
<1> DEFINE c == jobs[PolledId]
<1>1. c \in Calls /\ status[c] \in Known
  BY PolledIdAssumption
  DEF PollInv, JobInv, TypeOK, CallsInStep, GetState, Known
<1>2. got' = [run |-> c, status |-> status[c]] /\ UNCHANGED <<vars, page, told>>
  BY DEF GetState
<1>3. UNCHANGED <<status, log>>
  BY <1>2 DEF vars
<1>4. JobInv'
  BY <1>2, NextKeepsInv DEF PollInv
<1>5. Rank(status[c]) \in Nat
  BY <1>1, RankOfKnown
<1>6. GotInStep'
  BY <1>1, <1>2, <1>3, <1>5 DEF GotInStep
<1>7. PageInStep'
  BY <1>2, <1>3 DEF PollInv, PageInStep
<1>8. ToldInStep'
  BY <1>1, <1>2, <1>3 DEF PollInv, ToldInStep, NothingGot
<1> QED
  BY <1>2, <1>4, <1>6, <1>7, <1>8 DEF PollInv

LEMMA ReadLogKeepsPoll ==
  ASSUME PollInv, ReadLog
  PROVE  PollInv'
<1>1. /\ got # NothingGot
      /\ got' = NothingGot
      /\ page' = [run |-> got.run, status |-> got.status, next |-> log[got.run].nextSeq]
      /\ UNCHANGED vars
  BY DEF ReadLog, Since
<1>2. UNCHANGED <<status, log>>
  BY <1>1 DEF vars
<1>3. JobInv'
  BY <1>1, NextKeepsInv DEF PollInv
<1>4. /\ got.run \in Calls /\ got.status \in Known
      /\ got.status \in TerminalStatus => status[got.run] = got.status
  BY <1>1 DEF PollInv, GotInStep
<1>5. PageInStep'
  BY <1>1, <1>2, <1>4 DEF PageInStep
<1>6. told' = [told EXCEPT ![got.run] = got.status]
  BY DEF ReadLog
<1>7. ToldInStep'
  BY <1>1, <1>2, <1>4, <1>6 DEF PollInv, GotInStep, ToldInStep
<1>8. told' \in [Calls -> Known \union {"none"}] /\ page'.run \in Calls
  BY <1>1, <1>4, <1>6 DEF PollInv
<1> QED
  BY <1>1, <1>3, <1>5, <1>7, <1>8 DEF PollInv, GotInStep, NothingGot

LEMMA ReloadKeepsPoll ==
  ASSUME PollInv, Reload
  PROVE  PollInv'
<1>1. JobInv'
  BY NextKeepsInv DEF PollInv, Reload
<1>2. GotInStep'
  BY DEF GotInStep, Reload, NothingGot
<1>3. PageInStep' /\ page'.run = NoState
  BY DEF PageInStep, Reload, NoPage, TerminalStatus
<1>4. ToldInStep' /\ UNCHANGED told
  BY DEF PollInv, ToldInStep, Reload, vars
<1> QED
  BY <1>1, <1>2, <1>3, <1>4 DEF PollInv

LEMMA PollStepKeepsInv == PollInv /\ [PollNext]_allVars => PollInv'
<1> SUFFICES ASSUME PollInv, [PollNext]_allVars PROVE PollInv'
  OBVIOUS
<1>1. CASE Next /\ UNCHANGED pollVars
  BY <1>1, ManagerKeepsPoll
<1>2. CASE Poll
  BY <1>2, GetStateKeepsPoll, ReadLogKeepsPoll, ReloadKeepsPoll DEF Poll
<1>3. CASE UNCHANGED allVars
  BY <1>3, ManagerKeepsPoll DEF allVars
<1> QED
  BY <1>1, <1>2, <1>3 DEF PollNext

LEMMA PollInvariant == PollSpec => []PollInv
<1>1. PollInit => PollInv
  BY InitPollInv
<1>2. PollInv /\ [PollNext]_allVars => PollInv'
  BY PollStepKeepsInv
<1> QED
  BY <1>1, <1>2, PTL DEF PollSpec

(* A response with a terminal status has the cursor at the end of the log  *)
(* of the run it speaks of (handleStatus).                                 *)
THEOREM TerminalPollsAreComplete == PollSpec => []TerminalPollIsComplete
<1>1. PollInv => TerminalPollIsComplete
  BY DEF PollInv, PageInStep, TerminalPollIsComplete, TerminalStatus
<1> QED
  BY <1>1, PollInvariant, PTL

LEMMA ToldMovesForward ==
  ASSUME PollInv, PollNext, NEW c \in Calls
  PROVE  /\ Rank(told[c]) <= Rank(told'[c])
         /\ told[c] \in TerminalStatus => told'[c] = told[c]
<1>1. Rank(told[c]) \in Nat /\ told[c] \in Known \union {"none"}
  BY RankOfKnown DEF PollInv
<1>2. CASE told'[c] = told[c]
  BY <1>1, <1>2
<1>3. CASE ReadLog /\ got.run = c
  <2>1. told'[c] = got.status /\ got # NothingGot
    BY <1>3 DEF ReadLog, PollInv
  <2>2. got.status \in Known
    BY <2>1 DEF PollInv, GotInStep
  <2>3. CASE told[c] = "none"
    <3>1. Rank(told'[c]) \in 1..3 /\ Rank(told[c]) = 0
      BY <2>1, <2>2, <2>3, RankOfKnown
    <3>2. told[c] \notin TerminalStatus
      BY <2>3 DEF TerminalStatus
    <3> QED
      BY <3>1, <3>2
  <2>4. CASE told[c] # "none"
    BY <1>3, <2>1, <2>4 DEF PollInv, ToldInStep
  <2> QED
    BY <2>3, <2>4
<1>4. CASE ReadLog /\ got.run # c
  BY <1>2, <1>4 DEF ReadLog, PollInv
<1>5. CASE ~ReadLog
  BY <1>2, <1>5 DEF PollNext, Poll, GetState, Reload, pollVars
<1> QED
  BY <1>3, <1>4, <1>5

(* What the responses say of one run never goes back and, once it has      *)
(* ended, never changes, whatever other runs of the id are shown, refused  *)
(* or restored in between (handleStatus, Manager.run, Manager.Enqueue).    *)
THEOREM PollsNeverGoBack == PollSpec => PollsMoveForward
<1>1. PollInv /\ [PollNext]_allVars =>
        [\A c \in Calls :
           /\ Rank(told[c]) <= Rank(told'[c])
           /\ told[c] \in TerminalStatus => told'[c] = told[c]]_allVars
  BY ToldMovesForward
<1> QED
  BY <1>1, PollInvariant, PTL DEF PollSpec, PollsMoveForward

-----------------------------------------------------------------------------
(* What the client is shown of a log *)

(* The lines of a log are numbered one after the other, and only a job the *)
(* worker has started has any.                                             *)
LogsInStep ==
  /\ \A c \in Calls : Consecutive(log[c])
  /\ \A c \in Calls : status[c] \in {"none", "queued"} => log[c] = NewBuffer

(* What a step does to a log: the line a job has added, or nothing.        *)
LEMMA LogMoves ==
  ASSUME JobInv, LogsInStep, [Next]_vars, NEW c \in Calls
  PROVE  \/ /\ log'[c] = log[c]
            /\ status'[c] \in {"none", "queued"} => status[c] \in {"none", "queued"}
         \/ /\ worker \in {"taken", "splitting"} /\ c = current
            /\ status'[c] \notin {"none", "queued"}
            /\ \E level \in Levels : log'[c] = Add(log[c], level)
<1> USE DEF JobInv, TypeOK
<1>1. ASSUME NEW d \in Calls, Enqueue(d)
      PROVE  /\ log'[c] = log[c]
             /\ status'[c] \in {"none", "queued"} => status[c] \in {"none", "queued"}
  <2>1. CASE Register(d)
    BY <2>1 DEF Register, CallsInStep, LogsInStep
  <2>2. CASE ~Register(d)
    BY <1>1, <2>2 DEF Enqueue, RefuseDuplicate, CheckContext, Send, Reject
  <2> QED
    BY <2>1, <2>2
<1>2. ASSUME Start \/ Pipeline
      PROVE  \/ /\ log'[c] = log[c]
                /\ status'[c] \in {"none", "queued"} => status[c] \in {"none", "queued"}
             \/ /\ worker \in {"taken", "splitting"} /\ c = current
                /\ status'[c] \notin {"none", "queued"}
                /\ \E level \in Levels : log'[c] = Add(log[c], level)
  <2>1. worker \in {"taken", "splitting"} /\ current \in Calls
    BY <1>2, UpdatesHitHeldJob DEF Start, Pipeline, Progress, LogLine, Succeed, Fail
  <2>2. \/ /\ status' = status
           /\ worker = "splitting"
        \/ \E s \in {"splitting", "tagging", "done", "error"} :
             status' = [status EXCEPT ![current] = s]
    BY <1>2, <2>1, UpdatesHitHeldJob
    DEF Start, Pipeline, Progress, PhaseOf, LogLine, Succeed, Fail
  <2>3. \/ log' = log
        \/ \E level \in Levels : log' = [log EXCEPT ![current] = Add(log[current], level)]
    BY <1>2, <2>1, UpdatesHitHeldJob
    DEF Start, Pipeline, Progress, LogLine, Succeed, Fail, Levels
  <2>4. status'[current] \notin {"none", "queued"}
    BY <2>1, <2>2 DEF WorkerOwnsEntry
  <2>5. CASE c = current
    BY <2>1, <2>3, <2>4, <2>5
  <2>6. CASE c # current
    BY <2>1, <2>2, <2>3, <2>6
  <2> QED
    BY <2>5, <2>6
<1>3. ASSUME Take \/ Leave \/ Cancel \/ Stopped \/ UNCHANGED vars
      PROVE  UNCHANGED <<log, status>>
  BY <1>3 DEF Take, Leave, Cancel, Stopped, vars
<1> QED
  BY <1>1, <1>2, <1>3 DEF Next, Work

LEMMA NextKeepsLogs ==
  ASSUME JobInv, LogsInStep, [Next]_vars
  PROVE  LogsInStep'
<1>1. ASSUME NEW c \in Calls
      PROVE  /\ Consecutive(log'[c])
             /\ status'[c] \in {"none", "queued"} => log'[c] = NewBuffer
  <2>1. Consecutive(log[c])
    BY DEF LogsInStep
  <2>2. CASE log'[c] = log[c]
    <3>1. status'[c] \in {"none", "queued"} => status[c] \in {"none", "queued"}
      BY <2>2, LogMoves
    <3> QED
      BY <2>1, <2>2, <3>1 DEF LogsInStep
  <2>3. CASE log'[c] # log[c]
    <3>1. status'[c] \notin {"none", "queued"}
          /\ \E level \in Levels : log'[c] = Add(log[c], level)
      BY <2>3, LogMoves
    <3> QED
      BY <2>1, <3>1, AddKeepsConsecutive
  <2> QED
    BY <2>2, <2>3
<1> QED
  BY <1>1 DEF LogsInStep

(* The run of the polled id that stays the id's if the call under way for  *)
(* it, if there is one, is refused.                                        *)
Lasting ==
  LET c == jobs[PolledId]
  IN  IF c # NoState /\ pc[c] \in Pending THEN prior[c] ELSE c

(* It only ever gives way to a job that has just been accepted.            *)
LEMMA LastingMoves ==
  ASSUME JobInv, [Next]_vars
  PROVE  Lasting' = Lasting \/ (Lasting' \in Calls /\ status[Lasting'] = "queued")
<1> USE DEF JobInv, TypeOK
<1> DEFINE p == jobs[PolledId]
<1>1. /\ PolledId \in Ids
      /\ p # NoState => p \in Calls /\ jobId[p] = PolledId /\ pc[p] # "idle"
  BY PolledIdAssumption DEF CallsInStep
<1>2. ASSUME UNCHANGED <<jobs, pc, prior>>
      PROVE  Lasting' = Lasting
  BY <1>2 DEF Lasting
<1>3. ASSUME NEW c \in Calls, RefuseDuplicate(c)
      PROVE  Lasting' = Lasting
  BY <1>1, <1>3 DEF RefuseDuplicate, Lasting
<1>4. ASSUME NEW c \in Calls, Register(c)
      PROVE  Lasting' = Lasting
  <2>1. CASE jobId[c] # PolledId
    BY <1>1, <1>4, <2>1 DEF Register, Lasting
  <2>2. CASE jobId[c] = PolledId
    <3>1. jobs'[PolledId] = c /\ pc'[c] = "registered" /\ prior'[c] = p
      BY <1>1, <1>4, <2>2 DEF Register
    <3>2. Lasting' = p
      BY <3>1, ManagerAssumption DEF Lasting, Pending
    <3>3. p # NoState => pc[p] \notin Pending
      BY <1>1, <1>4, <2>2 DEF Register, HoldsSlot, ActiveStatus, PlaceholderOwned
    <3> QED
      BY <3>2, <3>3 DEF Lasting
  <2> QED
    BY <2>1, <2>2
<1>5. ASSUME NEW c \in Calls, CheckContext(c)
      PROVE  Lasting' = Lasting
  <2>1. UNCHANGED <<jobs, prior>> /\ pc[c] \in Pending /\ pc'[c] \in Pending
        /\ \A d \in Calls : d # c => pc'[d] = pc[d]
    BY <1>5 DEF CheckContext, Pending
  <2> QED
    BY <1>1, <2>1 DEF Lasting
<1>6. ASSUME NEW c \in Calls, Send(c)
      PROVE  Lasting' = Lasting \/ (Lasting' \in Calls /\ status[Lasting'] = "queued")
  <2>1. /\ UNCHANGED <<jobs, prior>>
        /\ pc[c] \in Pending /\ pc'[c] \in {"returned", "rejecting"}
        /\ \A d \in Calls : d # c => pc'[d] = pc[d]
    BY <1>6 DEF Send, Pending
  <2>2. status[c] = "queued"
    BY <2>1 DEF PlaceholderOwned
  <2>3. CASE p # c
    BY <1>1, <2>1, <2>3 DEF Lasting
  <2>4. CASE p = c
    BY <2>1, <2>2, <2>4, ManagerAssumption DEF Lasting, Pending
  <2> QED
    BY <2>3, <2>4
<1>7. ASSUME NEW c \in Calls, Reject(c)
      PROVE  Lasting' = Lasting
  <2>1. /\ pc[c] = "rejecting" /\ pc'[c] = "returned" /\ UNCHANGED prior
        /\ \A d \in Calls : d # c => pc'[d] = pc[d]
    BY <1>7 DEF Reject
  <2>2. jobId[c] \in Ids /\ jobs[jobId[c]] = c /\ status[c] = "queued"
    BY <2>1 DEF PlaceholderOwned, Pending
  <2>3. jobs' = [jobs EXCEPT ![jobId[c]] = prior[c]]
    BY <1>7, <2>2, ManagerAssumption DEF Reject
  <2>4. CASE jobId[c] # PolledId
    BY <1>1, <2>1, <2>2, <2>3, <2>4 DEF Lasting
  <2>5. CASE jobId[c] = PolledId
    <3>1. p = c /\ jobs'[PolledId] = prior[c]
      BY <2>2, <2>3, <2>5
    <3>2. Lasting = prior[c]
      BY <2>1, <3>1, ManagerAssumption DEF Lasting, Pending
    <3>3. prior[c] # NoState => prior[c] \in Calls /\ pc[prior[c]] = "returned"
      BY <2>1 DEF PriorIsFinished, CallsInStep, Pending
    <3>4. prior[c] # NoState => pc'[prior[c]] \notin Pending
      BY <2>1, <3>3 DEF Pending
    <3> QED
      BY <3>1, <3>2, <3>4 DEF Lasting
  <2> QED
    BY <2>4, <2>5
<1>8. ASSUME Work \/ Cancel \/ Stopped \/ UNCHANGED vars
      PROVE  UNCHANGED <<jobs, pc, prior>>
  BY <1>8 DEF Work, Take, Leave, Start, Pipeline, Progress, LogLine, Succeed, Fail,
              Cancel, Stopped, vars, callVars
<1> QED
  BY <1>2, <1>3, <1>4, <1>5, <1>6, <1>7, <1>8 DEF Next, Enqueue

(* Of a log of which the client was shown anything, it was shown all that  *)
(* comes after, up to this number, and is still there.                     *)
Followed(shown, b, upto) ==
  shown # {} =>
    /\ upto <= b.nextSeq
    /\ \A m \in shown : \A n \in Numbers(b.entries) : m < n /\ n < upto => n \in shown

SeenInStep ==
  /\ cursor \in Nat
  /\ seen \in [Calls -> SUBSET Nat]
  /\ \A c \in Calls : \A m \in seen[c] : m < log[c].nextSeq

(* The client may be polling with the cursor of another run.  If it then   *)
(* comes back to a run it has followed, that other run was a placeholder:  *)
(* its log is empty, and the cursor it gave is 0.                          *)
LastingFollowed ==
  Lasting # NoState => Followed(seen[Lasting], log[Lasting], cursor)

GotFollowed ==
  got # NothingGot =>
    /\ jobId[got.run] = PolledId
    /\ Followed(seen[got.run], log[got.run], cursor)
    /\ log[got.run].nextSeq > 0 =>
         got.run = Lasting \/ (Lasting # NoState => seen[Lasting] = {})

PageFollowed ==
  page.run # NoState =>
    page.next \in Nat /\ Followed(seen[page.run], log[page.run], page.next)

FollowInv ==
  /\ PollInv
  /\ LogsInStep
  /\ SeenInStep
  /\ LastingFollowed
  /\ GotFollowed
  /\ PageFollowed

LEMMA InitFollowInv == PollInit => FollowInv
<1> SUFFICES ASSUME PollInit PROVE FollowInv
  OBVIOUS
<1>1. LogsInStep
  BY NewIsConsecutive DEF PollInit, Init, LogsInStep
<1>2. SeenInStep
  BY DEF PollInit, SeenInStep
<1>3. LastingFollowed
  <2>1. Lasting = NoState
    BY PolledIdAssumption DEF PollInit, Init, Lasting
  <2> QED
    BY <2>1 DEF LastingFollowed
<1>4. GotFollowed /\ PageFollowed
  BY DEF PollInit, GotFollowed, PageFollowed, NoPage
<1> QED
  BY <1>1, <1>2, <1>3, <1>4, InitPollInv DEF FollowInv

(* A job without a line was shown to nobody.                               *)
LEMMA EmptyIsUnseen ==
  ASSUME FollowInv, NEW c \in Calls, status[c] = "queued"
  PROVE  log[c].nextSeq = 0 /\ seen[c] = {}
<1>1. log[c].nextSeq = 0
  BY DEF FollowInv, LogsInStep, NewBuffer
<1> QED
  BY <1>1 DEF FollowInv, SeenInStep

LEMMA LastingIsCall == JobInv => Lasting \in Calls \union {NoState}
BY PolledIdAssumption DEF JobInv, TypeOK, Lasting

(* A line that is added is not below a cursor of its log.                  *)
LEMMA AddKeepsFollowed ==
  ASSUME NEW shown, NEW b, Consecutive(b), NEW level \in Levels, NEW upto \in Nat,
         Followed(shown, b, upto)
  PROVE  Followed(shown, Add(b, level), upto)
<1>1. b.nextSeq \in Nat /\ Add(b, level).nextSeq = b.nextSeq + 1
  BY DEF Add, Consecutive, Buffer
<1> SUFFICES ASSUME shown # {}
             PROVE  /\ upto <= b.nextSeq + 1
                    /\ \A m \in shown : \A n \in Numbers(Add(b, level).entries) :
                         m < n /\ n < upto => n \in shown
  BY <1>1 DEF Followed
<1>2. upto <= b.nextSeq
      /\ \A m \in shown : \A n \in Numbers(b.entries) : m < n /\ n < upto => n \in shown
  BY DEF Followed
<1>3. ASSUME NEW n \in Numbers(Add(b, level).entries), n < upto
      PROVE  n \in Numbers(b.entries)
  <2>1. PICK k \in 1..Len(Add(b, level).entries) : n = Add(b, level).entries[k].seq
    BY DEF Numbers
  <2>2. n = b.nextSeq \/ \E j \in 1..Len(b.entries) : n = b.entries[j].seq
    BY <2>1, AddNumbers
  <2>3. n # b.nextSeq
    BY <1>1, <1>2, <1>3
  <2> QED
    BY <2>2, <2>3 DEF Numbers
<1> QED
  BY <1>1, <1>2, <1>3

LEMMA ManagerKeepsFollowed ==
  ASSUME FollowInv, [Next]_vars,
         NEW c \in Calls, NEW shown, NEW upto \in Nat, Followed(shown, log[c], upto)
  PROVE  Followed(shown, log'[c], upto)
<1>1. JobInv /\ LogsInStep /\ Consecutive(log[c])
  BY DEF FollowInv, PollInv, LogsInStep
<1>2. log'[c] = log[c] \/ \E level \in Levels : log'[c] = Add(log[c], level)
  BY <1>1, LogMoves
<1> QED
  BY <1>1, <1>2, AddKeepsFollowed

LEMMA ManagerKeepsFollow ==
  ASSUME FollowInv, [Next]_vars, UNCHANGED pollVars
  PROVE  FollowInv'
<1>1. /\ PollInv' /\ JobInv /\ JobInv' /\ LogsInStep
      /\ UNCHANGED <<got, cursor, page, seen>>
  BY ManagerKeepsPoll DEF FollowInv, PollInv, pollVars
<1>2. LogsInStep'
  BY <1>1, NextKeepsLogs
<1>3. /\ cursor \in Nat /\ seen \in [Calls -> SUBSET Nat]
      /\ \A c \in Calls : \A m \in seen[c] : m < log[c].nextSeq
  BY DEF FollowInv, SeenInStep
<1>4. ASSUME NEW c \in Calls
      PROVE  /\ log[c].nextSeq \in Nat
             /\ log'[c] = log[c] \/ log'[c].nextSeq = log[c].nextSeq + 1
  <2>1. log[c].nextSeq \in Nat
    BY <1>1 DEF LogsInStep, Consecutive, Buffer
  <2>2. log'[c] = log[c] \/ \E level \in Levels : log'[c] = Add(log[c], level)
    BY <1>1, LogMoves
  <2>3. \A level : Add(log[c], level).nextSeq = log[c].nextSeq + 1
    BY DEF Add
  <2> QED
    BY <2>1, <2>2, <2>3
<1>5. SeenInStep'
  <2>1. ASSUME NEW c \in Calls, NEW m \in seen[c] PROVE m < log'[c].nextSeq
    <3>1. m \in Nat /\ m < log[c].nextSeq
      BY <1>3
    <3> QED
      BY <1>4, <3>1
  <2> QED
    BY <1>1, <1>3, <2>1 DEF SeenInStep
<1>6. \/ Lasting' = Lasting
      \/ Lasting' \in Calls /\ seen[Lasting'] = {}
  BY <1>1, LastingMoves, EmptyIsUnseen
<1>7. LastingFollowed'
  <2>1. CASE Lasting' = Lasting
    <3>1. Lasting # NoState =>
            Lasting \in Calls /\ Followed(seen[Lasting], log[Lasting], cursor)
      BY <1>1, LastingIsCall DEF FollowInv, LastingFollowed
    <3>2. Lasting # NoState => Followed(seen[Lasting], log'[Lasting], cursor)
      BY <1>3, <3>1, ManagerKeepsFollowed
    <3> QED
      BY <1>1, <2>1, <3>2 DEF LastingFollowed
  <2>2. CASE seen[Lasting'] = {}
    BY <1>1, <2>2 DEF LastingFollowed, Followed
  <2> QED
    BY <1>6, <2>1, <2>2
<1>8. GotFollowed'
  <2> SUFFICES ASSUME got # NothingGot
               PROVE  /\ jobId'[got.run] = PolledId
                      /\ Followed(seen[got.run], log'[got.run], cursor)
                      /\ log'[got.run].nextSeq > 0 =>
                           got.run = Lasting' \/ (Lasting' # NoState => seen[Lasting'] = {})
    BY <1>1 DEF GotFollowed, NothingGot
  <2>1. /\ got.run \in Calls /\ jobId[got.run] = PolledId
        /\ Followed(seen[got.run], log[got.run], cursor)
        /\ log[got.run].nextSeq > 0 =>
             got.run = Lasting \/ (Lasting # NoState => seen[Lasting] = {})
    BY DEF FollowInv, PollInv, GotInStep, GotFollowed
  <2>2. jobId' = jobId
    BY DEF Next, Enqueue, RefuseDuplicate, Register, CheckContext, Send, Reject,
           Work, Take, Leave, Start, Pipeline, Progress, LogLine, Succeed, Fail,
           Cancel, Stopped, vars, callVars
  <2>3. Followed(seen[got.run], log'[got.run], cursor)
    BY <1>3, <2>1, ManagerKeepsFollowed
  <2>4. log'[got.run] # log[got.run] => got.run = Lasting
    <3> SUFFICES ASSUME log'[got.run] # log[got.run] PROVE got.run = Lasting
      OBVIOUS
    <3>1. worker \in {"taken", "splitting"} /\ got.run = current
      BY <1>1, <2>1, LogMoves
    <3>2. jobs[PolledId] = current /\ pc[current] = "returned"
      BY <1>1, <2>1, <3>1, UpdatesHitHeldJob
    <3> QED
      BY <3>1, <3>2 DEF Lasting, Pending
  <2>5. log'[got.run].nextSeq > 0 =>
          got.run = Lasting' \/ (Lasting' # NoState => seen[Lasting'] = {})
    BY <1>6, <2>1, <2>4
  <2> QED
    BY <2>1, <2>2, <2>3, <2>5
<1>9. PageFollowed'
  <2> SUFFICES ASSUME page.run # NoState
               PROVE  page.next \in Nat /\ Followed(seen[page.run], log'[page.run], page.next)
    BY <1>1 DEF PageFollowed
  <2>1. /\ page.run \in Calls /\ page.next \in Nat
        /\ Followed(seen[page.run], log[page.run], page.next)
    BY DEF FollowInv, PollInv, PageInStep, PageFollowed
  <2> QED
    BY <2>1, ManagerKeepsFollowed
<1> QED
  BY <1>1, <1>2, <1>5, <1>7, <1>8, <1>9 DEF FollowInv

(* The handler finds the run that lasts, or a placeholder, whose log is    *)
(* empty and stays so unless its job is accepted and outlasts that run.    *)
LEMMA GetStateKeepsFollow ==
  ASSUME FollowInv, GetState
  PROVE  FollowInv'
<1> DEFINE c == jobs[PolledId]
<1>1. /\ PollInv' /\ JobInv
      /\ c \in Calls /\ jobId[c] = PolledId
      /\ got' = [run |-> c, status |-> status[c]]
      /\ UNCHANGED <<vars, cursor, page, seen>>
  BY GetStateKeepsPoll, PolledIdAssumption
  DEF FollowInv, PollInv, JobInv, TypeOK, CallsInStep, GetState
<1>2. /\ UNCHANGED <<jobs, jobId, status, log, pc, prior>>
      /\ Lasting' = Lasting
  BY <1>1 DEF vars, callVars, Lasting
<1>3. LogsInStep' /\ SeenInStep' /\ LastingFollowed' /\ PageFollowed'
  BY <1>1, <1>2
  DEF FollowInv, LogsInStep, SeenInStep, LastingFollowed, PageFollowed
<1>4. CASE c = Lasting
  <2>1. Followed(seen[c], log[c], cursor)
    BY <1>1, <1>4, ManagerAssumption DEF FollowInv, LastingFollowed
  <2>2. GotFollowed'
    BY <1>1, <1>2, <1>4, <2>1 DEF GotFollowed
  <2> QED
    BY <1>1, <1>3, <2>2 DEF FollowInv
<1>5. CASE c # Lasting
  <2>1. pc[c] \in Pending
    BY <1>5 DEF Lasting
  <2>2. status[c] = "queued"
    BY <1>1, <2>1 DEF JobInv, PlaceholderOwned
  <2>3. log[c].nextSeq = 0 /\ seen[c] = {}
    BY <1>1, <2>2, EmptyIsUnseen
  <2>4. GotFollowed'
    BY <1>1, <1>2, <2>3 DEF GotFollowed, Followed
  <2> QED
    BY <1>1, <1>3, <2>4 DEF FollowInv
<1> QED
  BY <1>4, <1>5

(* What a response adds to what the client was shown of a log.             *)
LEMMA SinceFollowed ==
  ASSUME NEW b, Consecutive(b), NEW at \in Nat, NEW shown \in SUBSET Nat,
         Followed(shown, b, at),
         NEW shown2, shown2 = shown \union {n \in Numbers(b.entries) : n >= at}
  PROVE  Followed(shown2, b, b.nextSeq)
<1>1. b.nextSeq \in Nat
  BY DEF Consecutive, Buffer
<1>2. Numbers(b.entries) \subseteq Nat
  BY DEF Consecutive, Buffer, Entry, Numbers
<1>3. ASSUME NEW m \in shown2, NEW n \in Numbers(b.entries), m < n
      PROVE  n \in shown2
  <2>1. m \in Nat /\ n \in Nat
    BY <1>2
  <2>2. CASE n >= at
    BY <2>2
  <2>3. CASE ~(n >= at)
    <3>1. m < at /\ n < at
      BY <1>3, <2>1, <2>3
    <3>2. m \in shown
      BY <2>1, <3>1
    <3> QED
      BY <1>3, <3>1, <3>2 DEF Followed
  <2> QED
    BY <2>2, <2>3
<1> QED
  BY <1>1, <1>3 DEF Followed

LEMMA ReadLogKeepsFollow ==
  ASSUME FollowInv, ReadLog
  PROVE  FollowInv'
<1> DEFINE c == got.run
           found == Since(log[c], cursor)
<1>1. /\ got # NothingGot /\ c \in Calls /\ PollInv'
      /\ Followed(seen[c], log[c], cursor)
      /\ log[c].nextSeq > 0 =>
           c = Lasting \/ (Lasting # NoState => seen[Lasting] = {})
  BY ReadLogKeepsPoll, ManagerAssumption
  DEF FollowInv, PollInv, GotInStep, GotFollowed, ReadLog
<1>2. /\ Consecutive(log[c]) /\ log[c].nextSeq \in Nat
      /\ cursor \in Nat /\ seen \in [Calls -> SUBSET Nat]
      /\ \A d \in Calls : \A m \in seen[d] : m < log[d].nextSeq
  BY <1>1 DEF FollowInv, LogsInStep, SeenInStep, Consecutive, Buffer
<1>3. /\ found.next = log[c].nextSeq
      /\ {found.entries[k].seq : k \in 1..Len(found.entries)} =
           {n \in Numbers(log[c].entries) : n >= cursor}
  <2>1. found.next = log[c].nextSeq
    BY DEF Since
  <2>2. \A n : n \in Numbers(found.entries)
                 <=> n \in Numbers(log[c].entries) /\ n >= cursor
    BY <1>2, SinceNumbers
  <2> QED
    BY <2>1, <2>2 DEF Numbers
<1> DEFINE new == seen[c] \union {n \in Numbers(log[c].entries) : n >= cursor}
<1>4. /\ page' = [run |-> c, status |-> got.status, next |-> log[c].nextSeq]
      /\ cursor' = log[c].nextSeq
      /\ seen' = [seen EXCEPT ![c] = new]
      /\ got' = NothingGot
      /\ UNCHANGED vars
  BY <1>3 DEF ReadLog
<1>5. UNCHANGED <<jobs, status, log, pc, prior>> /\ Lasting' = Lasting
  BY <1>4 DEF vars, callVars, Lasting
<1>6. new \subseteq Nat /\ \A m \in new : m < log[c].nextSeq
  <2>1. \A n \in Numbers(log[c].entries) : n \in Nat /\ n < log[c].nextSeq
    <3> SUFFICES ASSUME NEW k \in 1..Len(log[c].entries)
                 PROVE  /\ log[c].entries[k].seq \in Nat
                        /\ log[c].entries[k].seq < log[c].nextSeq
      BY DEF Numbers
    <3> DEFINE len == Len(log[c].entries)
               last == log[c].nextSeq
               at == log[c].entries[k].seq
    <3>1. len \in Nat /\ last \in Nat /\ len <= last
          /\ k \in 1..len /\ at = last - len + k - 1
      BY <1>2 DEF Consecutive, Buffer
    <3> HIDE DEF last, at, len
    <3>2. at \in Nat /\ at < last
      BY <3>1
    <3> QED
      BY <3>2 DEF at, last
  <2> QED
    BY <1>1, <1>2, <2>1
<1>7. Followed(new, log[c], log[c].nextSeq)
  BY <1>1, <1>2, SinceFollowed
<1> HIDE DEF new, found
<1>8. SeenInStep'
  BY <1>1, <1>2, <1>4, <1>5, <1>6 DEF SeenInStep
<1>9. LastingFollowed'
  <2>1. CASE Lasting = c
    BY <1>1, <1>2, <1>4, <1>5, <1>7, <2>1 DEF LastingFollowed
  <2>2. CASE Lasting # c
    <3> SUFFICES ASSUME Lasting # NoState
                 PROVE  Followed(seen[Lasting], log[Lasting], log[c].nextSeq)
      BY <1>2, <1>4, <1>5, <2>2 DEF LastingFollowed
    <3>1. CASE log[c].nextSeq > 0
      BY <1>1, <2>2, <3>1 DEF Followed
    <3>2. CASE log[c].nextSeq = 0
      <4>1. Lasting \in Calls
        BY LastingIsCall DEF FollowInv, PollInv
      <4>2. /\ log[Lasting].nextSeq \in Nat /\ seen[Lasting] \subseteq Nat
            /\ Numbers(log[Lasting].entries) \subseteq Nat
        BY <1>2, <4>1 DEF FollowInv, LogsInStep, Consecutive, Buffer, Entry, Numbers
      <4> QED
        BY <3>2, <4>2 DEF Followed
    <3> QED
      BY <1>2, <3>1, <3>2
  <2> QED
    BY <2>1, <2>2
<1>10. PageFollowed'
  BY <1>1, <1>2, <1>4, <1>5, <1>7 DEF PageFollowed
<1>11. LogsInStep' /\ GotFollowed'
  BY <1>4, <1>5 DEF FollowInv, LogsInStep, GotFollowed
<1> QED
  BY <1>1, <1>8, <1>9, <1>10, <1>11 DEF FollowInv

LEMMA ReloadKeepsFollow ==
  ASSUME FollowInv, Reload
  PROVE  FollowInv'
<1>1. /\ PollInv' /\ UNCHANGED <<vars, got>> /\ got = NothingGot
      /\ cursor' = 0 /\ page' = NoPage /\ seen' = [c \in Calls |-> {}]
  BY ReloadKeepsPoll DEF FollowInv, Reload
<1>2. UNCHANGED <<jobs, status, log, pc, prior>> /\ Lasting' = Lasting
  BY <1>1 DEF vars, callVars, Lasting
<1>3. LogsInStep' /\ SeenInStep' /\ GotFollowed' /\ PageFollowed'
  BY <1>1, <1>2
  DEF FollowInv, LogsInStep, SeenInStep, GotFollowed, PageFollowed, NoPage
<1>4. LastingFollowed'
  <2>1. Lasting \in Calls \union {NoState}
    BY LastingIsCall DEF FollowInv, PollInv
  <2> QED
    BY <1>1, <1>2, <2>1 DEF LastingFollowed, Followed
<1> QED
  BY <1>1, <1>3, <1>4 DEF FollowInv

(* Whatever runs of the id, refusals and restored results the client's     *)
(* polls meet, it is shown a run's log from some line on without a hole    *)
(* (handleStatus, Buffer.Since).                                           *)
THEOREM ClientFollowsWithoutHoles == PollSpec => []FollowedWithoutHoles
<1>1. PollInit => FollowInv
  BY InitFollowInv
<1>2. FollowInv /\ [PollNext]_allVars => FollowInv'
  <2> SUFFICES ASSUME FollowInv, [PollNext]_allVars PROVE FollowInv'
    OBVIOUS
  <2>1. CASE Next /\ UNCHANGED pollVars
    BY <2>1, ManagerKeepsFollow
  <2>2. CASE Poll
    BY <2>2, GetStateKeepsFollow, ReadLogKeepsFollow, ReloadKeepsFollow DEF Poll
  <2>3. CASE UNCHANGED allVars
    BY <2>3, ManagerKeepsFollow DEF allVars
  <2> QED
    BY <2>1, <2>2, <2>3 DEF PollNext
<1>3. FollowInv => FollowedWithoutHoles
  BY DEF FollowInv, PageFollowed, Followed, FollowedWithoutHoles, Retained, Numbers
<1> QED
  BY <1>1, <1>2, <1>3, PTL DEF PollSpec

=============================================================================
