------------------------------ MODULE JobManager ------------------------------
(***************************************************************************)
(* internal/job: the registry of split jobs, the queue and the one worker  *)
(* that drains it.                                                         *)
(*                                                                         *)
(* A call is one invocation of Manager.Enqueue, made from the goroutine of *)
(* one POST /api/split.  It allocates at most one *State, so the call also *)
(* names that State: jobs[i] = c says that the registry's entry for job id *)
(* i points to the State call c allocated, and NoState that the id is not  *)
(* in the map.  A call likewise names the queuedJob it sends.  The worker  *)
(* does not know that State: each of its updates looks the job's id up in  *)
(* the registry again, under the mutex.                                    *)
(*                                                                         *)
(* An action is one critical section of the mutex, or one operation on the *)
(* queue or on the context, so that anything another goroutine can do      *)
(* between two of them happens in some behaviour.                          *)
(***************************************************************************)
EXTENDS LogBuffer

CONSTANTS
  Ids,         \* job ids: a scan-relative directory and a CUE file name
  Calls,       \* the calls of Enqueue
  QueueCap,    \* capacity of the queue channel: 64
  MaxTracks,   \* bound: tracks of an album, in the progress a run reports
  MaxLines,    \* bound: the lines in a run's log before its last one
  NoState

ASSUME ManagerAssumption ==
  /\ QueueCap \in Nat \ {0}
  /\ MaxTracks \in Nat
  /\ MaxLines \in Nat
  /\ NoState \notin Calls

VARIABLES
  ctxDone,     \* the manager's context is cancelled (SIGINT, SIGTERM)
  jobs,        \* m.jobs
  status,      \* State.Status of the State each call allocated
  log,         \* State.Log of it
  queue,       \* m.queue, oldest job first
  jobId,       \* the id each call is made with
  pc,          \* where each call is
  prior,       \* the call's local `prior`: the State its placeholder replaced
  answer,      \* what the call returns
  worker,      \* where the worker is
  current      \* the job the worker has taken

callVars == <<jobId, pc, prior, answer>>
workerVars == <<worker, current>>
vars == <<ctxDone, jobs, status, log, queue, callVars, workerVars>>

ActiveStatus == {"queued", "splitting", "tagging"}
TerminalStatus == {"done", "error"}
Pending == {"registered", "sending", "rejecting"}
Refusals == {"duplicate", "full", "shutdown"}

TypeOK ==
  /\ ctxDone \in BOOLEAN
  /\ jobs \in [Ids -> Calls \union {NoState}]
  /\ status \in [Calls -> ActiveStatus \union TerminalStatus \union {"none"}]
  /\ log \in [Calls -> Buffer]
  /\ queue \in Seq(Calls)
  /\ Len(queue) <= QueueCap
  /\ jobId \in [Calls -> Ids]
  /\ pc \in [Calls -> {"idle", "returned"} \union Pending]
  /\ prior \in [Calls -> Calls \union {NoState}]
  /\ answer \in [Calls -> {"none", "accepted"} \union Refusals]
  /\ worker \in {"select", "taken", "splitting", "gone"}
  /\ current \in Calls \union {NoState}

Init ==
  /\ ctxDone = FALSE
  /\ jobs = [i \in Ids |-> NoState]
  /\ status = [c \in Calls |-> "none"]
  /\ log = [c \in Calls |-> NewBuffer]
  /\ queue = <<>>
  /\ jobId \in [Calls -> Ids]
  /\ pc = [c \in Calls |-> "idle"]
  /\ prior = [c \in Calls |-> NoState]
  /\ answer = [c \in Calls |-> "none"]
  /\ worker = "select"
  /\ current = NoState

-----------------------------------------------------------------------------
(* Enqueue *)

(* Mutants: Status.active forgets a status.                                *)
HoldsSlotWhileRunning(i) ==
  jobs[i] # NoState /\ status[jobs[i]] \in {"splitting", "tagging"}

HoldsSlotWhileQueued(i) == jobs[i] # NoState /\ status[jobs[i]] = "queued"

(* The id's entry is queued or running and blocks another job. *)
HoldsSlot(i) == jobs[i] # NoState /\ status[jobs[i]] \in ActiveStatus

RefuseDuplicate(c) ==
  /\ pc[c] = "idle"
  /\ HoldsSlot(jobId[c])
  /\ pc' = [pc EXCEPT ![c] = "returned"]
  /\ answer' = [answer EXCEPT ![c] = "duplicate"]
  /\ UNCHANGED <<ctxDone, jobs, status, log, queue, jobId, prior, workerVars>>

(* Mutant: the entry the placeholder replaces is not kept.                 *)
RegisterForgetting(c) ==
  /\ pc[c] = "idle"
  /\ ~HoldsSlot(jobId[c])
  /\ jobs' = [jobs EXCEPT ![jobId[c]] = c]
  /\ status' = [status EXCEPT ![c] = "queued"]
  /\ log' = [log EXCEPT ![c] = NewBuffer]
  /\ pc' = [pc EXCEPT ![c] = "registered"]
  /\ UNCHANGED <<ctxDone, queue, jobId, prior, answer, workerVars>>

(* The placeholder takes the entry before the job is known to fit. *)
Register(c) ==
  /\ pc[c] = "idle"
  /\ ~HoldsSlot(jobId[c])
  /\ prior' = [prior EXCEPT ![c] = jobs[jobId[c]]]
  /\ jobs' = [jobs EXCEPT ![jobId[c]] = c]
  /\ status' = [status EXCEPT ![c] = "queued"]
  /\ log' = [log EXCEPT ![c] = NewBuffer]
  /\ pc' = [pc EXCEPT ![c] = "registered"]
  /\ UNCHANGED <<ctxDone, queue, jobId, answer, workerVars>>

(* Mutant: the context is not looked at before the send.                   *)
CheckNothing(c) ==
  /\ pc[c] = "registered"
  /\ pc' = [pc EXCEPT ![c] = "sending"]
  /\ UNCHANGED <<ctxDone, jobs, status, log, queue, jobId, prior, answer,
                 workerVars>>

CheckContext(c) ==
  /\ pc[c] = "registered"
  /\ IF ctxDone
       THEN /\ pc' = [pc EXCEPT ![c] = "rejecting"]
            /\ answer' = [answer EXCEPT ![c] = "shutdown"]
       ELSE /\ pc' = [pc EXCEPT ![c] = "sending"]
            /\ UNCHANGED answer
  /\ UNCHANGED <<ctxDone, jobs, status, log, queue, jobId, prior, workerVars>>

(* Mutants: a channel one larger than QueueCap; a full queue drops the job *)
(* it accepts; a send that waits for room.                                 *)
SendBeyond(c) ==
  /\ pc[c] = "sending"
  /\ Len(queue) <= QueueCap
  /\ queue' = Append(queue, c)
  /\ pc' = [pc EXCEPT ![c] = "returned"]
  /\ answer' = [answer EXCEPT ![c] = "accepted"]
  /\ UNCHANGED <<ctxDone, jobs, status, log, jobId, prior, workerVars>>

SendDropping(c) ==
  /\ pc[c] = "sending"
  /\ queue' = IF Len(queue) < QueueCap THEN Append(queue, c) ELSE queue
  /\ pc' = [pc EXCEPT ![c] = "returned"]
  /\ answer' = [answer EXCEPT ![c] = "accepted"]
  /\ UNCHANGED <<ctxDone, jobs, status, log, jobId, prior, workerVars>>

SendWaiting(c) ==
  /\ pc[c] = "sending"
  /\ IF Len(queue) < QueueCap THEN SendDropping(c) ELSE UNCHANGED vars

(* The send never blocks: it succeeds at once or the job is refused. *)
Send(c) ==
  /\ pc[c] = "sending"
  /\ IF Len(queue) < QueueCap
       THEN /\ queue' = Append(queue, c)
            /\ pc' = [pc EXCEPT ![c] = "returned"]
            /\ answer' = [answer EXCEPT ![c] = "accepted"]
       ELSE /\ pc' = [pc EXCEPT ![c] = "rejecting"]
            /\ answer' = [answer EXCEPT ![c] = "full"]
            /\ UNCHANGED queue
  /\ UNCHANGED <<ctxDone, jobs, status, log, jobId, prior, workerVars>>

(* Mutants: the placeholder stays; it goes whatever it had replaced; what  *)
(* it had replaced comes back as queued.                                   *)
RejectLeaving(c) ==
  /\ pc[c] = "rejecting"
  /\ pc' = [pc EXCEPT ![c] = "returned"]
  /\ UNCHANGED <<ctxDone, jobs, status, log, queue, jobId, prior, answer,
                 workerVars>>

RejectDeleting(c) ==
  /\ pc[c] = "rejecting"
  /\ jobs' = [jobs EXCEPT ![jobId[c]] = NoState]
  /\ pc' = [pc EXCEPT ![c] = "returned"]
  /\ UNCHANGED <<ctxDone, status, log, queue, jobId, prior, answer, workerVars>>

RejectRequeueing(c) ==
  /\ pc[c] = "rejecting"
  /\ jobs' = [jobs EXCEPT ![jobId[c]] = prior[c]]
  /\ status' = [d \in Calls |-> IF d = prior[c] THEN "queued" ELSE status[d]]
  /\ pc' = [pc EXCEPT ![c] = "returned"]
  /\ UNCHANGED <<ctxDone, log, queue, jobId, prior, answer, workerVars>>

(* Roll the placeholder back, unless the entry is gone or not queued. *)
Reject(c) ==
  LET i == jobId[c]
  IN  /\ pc[c] = "rejecting"
      /\ jobs' = IF jobs[i] = NoState \/ status[jobs[i]] # "queued"
                   THEN jobs
                   ELSE [jobs EXCEPT ![i] = prior[c]]
      /\ pc' = [pc EXCEPT ![c] = "returned"]
      /\ UNCHANGED <<ctxDone, status, log, queue, jobId, prior, answer,
                     workerVars>>

Enqueue(c) ==
  \/ RefuseDuplicate(c)
  \/ Register(c)
  \/ CheckContext(c)
  \/ Send(c)
  \/ Reject(c)

-----------------------------------------------------------------------------
(* The worker *)

(* Manager.update: the State the id's entry points to now, if any. *)
UpdateStatus(i, s) ==
  status' = IF jobs[i] = NoState
              THEN status
              ELSE [status EXCEPT ![jobs[i]] = s]

UpdateLog(i, level) ==
  log' = IF jobs[i] = NoState
           THEN log
           ELSE [log EXCEPT ![jobs[i]] = Add(@, level)]

Take ==
  /\ worker = "select"
  /\ queue # <<>>
  /\ current' = Head(queue)
  /\ queue' = Tail(queue)
  /\ worker' = "taken"
  /\ UNCHANGED <<ctxDone, jobs, status, log, callVars>>

(* Mutant: a break that leaves the select but not the loop around it.      *)
LeaveSelectOnly ==
  /\ worker = "select"
  /\ ctxDone
  /\ UNCHANGED vars

(* select may choose this even while jobs are waiting in the queue. *)
Leave ==
  /\ worker = "select"
  /\ ctxDone
  /\ worker' = "gone"
  /\ UNCHANGED <<ctxDone, jobs, status, log, queue, callVars, current>>

Start ==
  /\ worker = "taken"
  /\ UpdateStatus(jobId[current], "splitting")
  /\ UpdateLog(jobId[current], "info")
  /\ worker' = "splitting"
  /\ UNCHANGED <<ctxDone, jobs, queue, callVars, current>>

(* The phase a progress report puts the job in. *)
PhaseOf(step, total) ==
  IF total > 0 /\ step >= total \div 2 THEN "tagging" ELSE "splitting"

Progress(step, total) ==
  /\ worker = "splitting"
  /\ UpdateStatus(jobId[current], PhaseOf(step, total))
  /\ UNCHANGED <<ctxDone, jobs, log, queue, callVars, workerVars>>

(* The pipeline logs at info and warn only; errors it returns. *)
LogLine(level) ==
  /\ worker = "splitting"
  /\ log[current].nextSeq < MaxLines
  /\ UpdateLog(jobId[current], level)
  /\ UNCHANGED <<ctxDone, jobs, status, queue, callVars, workerVars>>

Succeed ==
  /\ worker = "splitting"
  /\ UpdateStatus(jobId[current], "done")
  /\ worker' = "select"
  /\ current' = NoState
  /\ UNCHANGED <<ctxDone, jobs, log, queue, callVars>>

(* Mutant: the status is set in one update and the line added in another.  *)
FailInTwoUpdates ==
  /\ worker = "splitting"
  /\ IF status[current] # "error"
       THEN /\ UpdateStatus(jobId[current], "error")
            /\ UNCHANGED <<log, workerVars>>
       ELSE /\ UpdateLog(jobId[current], "error")
            /\ worker' = "select"
            /\ current' = NoState
            /\ UNCHANGED status
  /\ UNCHANGED <<ctxDone, jobs, queue, callVars>>

(* The pipeline returns an error or panics. *)
Fail ==
  /\ worker = "splitting"
  /\ UpdateStatus(jobId[current], "error")
  /\ UpdateLog(jobId[current], "error")
  /\ worker' = "select"
  /\ current' = NoState
  /\ UNCHANGED <<ctxDone, jobs, queue, callVars>>

Pipeline ==
  \/ \E n \in 0..MaxTracks : \E step \in 0..(2 * n) : Progress(step, 2 * n)
  \/ \E level \in {"info", "warn"} : LogLine(level)
  \/ Succeed
  \/ Fail

Work == Take \/ Leave \/ Start \/ Pipeline

-----------------------------------------------------------------------------
Cancel ==
  /\ ~ctxDone
  /\ ctxDone' = TRUE
  /\ UNCHANGED <<jobs, status, log, queue, callVars, workerVars>>

(* Every call has returned and the worker is gone: nothing runs any more. *)
Stopped ==
  /\ worker = "gone"
  /\ \A c \in Calls : pc[c] = "returned"
  /\ UNCHANGED vars

Next ==
  \/ \E c \in Calls : Enqueue(c)
  \/ Work
  \/ Cancel
  \/ Stopped

Spec == Init /\ [][Next]_vars

(* Goroutines that can run do run: a call that has begun goes on to its    *)
(* return, and the worker goes on with its loop.                           *)
CallFairness ==
  \A c \in Calls : WF_vars(CheckContext(c) \/ Send(c) \/ Reject(c))

WorkerFairness == WF_vars(Take \/ Leave \/ Start)

(* The tools a split runs end by themselves.                               *)
PipelineFairness == WF_vars(Succeed \/ Fail)

CallFairSpec == Spec /\ CallFairness

FairSpec == CallFairSpec /\ WorkerFairness

-----------------------------------------------------------------------------
(* Invariants *)

InQueue(c) == \E k \in 1..Len(queue) : queue[k] = c

Held(c) == worker \in {"taken", "splitting"} /\ current = c

(* From the moment a call registers its placeholder until it returns, the  *)
(* id's entry is that very placeholder and is queued.  So the test in      *)
(* reject, which looks at the status and not at which State it finds, can  *)
(* neither roll back another call's job nor leave its own placeholder.     *)
PlaceholderOwned ==
  \A c \in Calls : pc[c] \in Pending => jobs[jobId[c]] = c /\ status[c] = "queued"

(* A job in the queue is there once, was accepted, and is what the         *)
(* registry shows, as queued, under its id: two jobs of one id are never   *)
(* waiting together.                                                       *)
QueueMatchesRegistry ==
  /\ \A k \in 1..Len(queue) :
       /\ jobs[jobId[queue[k]]] = queue[k]
       /\ status[queue[k]] = "queued"
       /\ answer[queue[k]] = "accepted"
  /\ \A k, l \in 1..Len(queue) : queue[k] = queue[l] => k = l

(* The worker's updates go to the State its job was registered with,       *)
(* although Manager.update looks it up by id: the entry of the job it      *)
(* holds cannot be replaced or deleted while it runs.                      *)
WorkerOwnsEntry ==
  /\ worker = "taken" =>
       jobs[jobId[current]] = current /\ status[current] = "queued"
  /\ worker = "splitting" =>
       /\ jobs[jobId[current]] = current
       /\ status[current] \in {"splitting", "tagging"}

(* An entry that blocks its id is backed by a call that is still running,  *)
(* by a place in the queue, or by the worker: no refusal, panic or         *)
(* shutdown leaves an album whose every later split is a duplicate of      *)
(* nothing.                                                                *)
SlotIsBacked ==
  \A i \in Ids : HoldsSlot(i) =>
    LET c == jobs[i] IN pc[c] \in Pending \/ InQueue(c) \/ Held(c)

(* An accepted job that has not ended is waiting in the queue or is the    *)
(* worker's: none is dropped between the send and the worker's receive.    *)
AcceptedIsPlaced ==
  \A c \in Calls : answer[c] = "accepted" /\ status[c] \in ActiveStatus =>
    InQueue(c) \/ Held(c)

(* A refused split leaves no trace: once no call for the id is under way,  *)
(* the entry is that of a job that was accepted, and an id that ever had   *)
(* a job accepted keeps an entry ("a refused re-split must not erase the   *)
(* previous run's result").                                                *)
RefusalLeavesNoTrace ==
  /\ \A i \in Ids : jobs[i] # NoState =>
       answer[jobs[i]] = "accepted" \/ pc[jobs[i]] \in Pending
  /\ \A c \in Calls : answer[c] = "accepted" => jobs[jobId[c]] # NoState

(* The log of a failed job ends with the one error line that says why,     *)
(* however many lines were evicted; no other job has an error line.        *)
ErrorExplained ==
  \A c \in Calls :
    LET lines == log[c].entries
        errors == {k \in 1..Len(lines) : lines[k].level = "error"}
    IN  errors = IF status[c] = "error" THEN {Len(lines)} ELSE {}

-----------------------------------------------------------------------------
(* The inductive invariant: what else must hold for one step to preserve   *)
(* the invariants above.                                                   *)

(* An entry names a job that a call made for its id; an idle call has      *)
(* touched nothing; the answer a call has fits where it is.                *)
CallsInStep ==
  /\ \A i \in Ids : jobs[i] # NoState =>
       /\ jobId[jobs[i]] = i
       /\ pc[jobs[i]] # "idle"
       /\ status[jobs[i]] # "none"
  /\ \A c \in Calls :
       /\ pc[c] = "idle" => status[c] = "none"
       /\ pc[c] \in {"idle", "registered", "sending"} <=> answer[c] = "none"
       /\ pc[c] = "rejecting" => answer[c] \in {"full", "shutdown"}
       /\ answer[c] = "accepted" => pc[c] = "returned" /\ status[c] # "none"

(* What a rollback restores is a finished job of the same id, or nothing   *)
(* if no job of the id was ever accepted.                                  *)
PriorIsFinished ==
  \A c \in Calls : pc[c] \in Pending =>
    IF prior[c] = NoState
      THEN \A d \in Calls : jobId[d] = jobId[c] => answer[d] # "accepted"
      ELSE /\ jobId[prior[c]] = jobId[c]
           /\ answer[prior[c]] = "accepted"
           /\ status[prior[c]] \in TerminalStatus

(* The job the worker holds was accepted and has left the queue.           *)
HeldLeftQueue ==
  worker \in {"taken", "splitting"} =>
    /\ current \in Calls
    /\ answer[current] = "accepted"
    /\ ~InQueue(current)

LogsBounded == \A c \in Calls : Len(log[c].entries) <= LogCap

JobInv ==
  /\ TypeOK
  /\ PlaceholderOwned
  /\ QueueMatchesRegistry
  /\ WorkerOwnsEntry
  /\ SlotIsBacked
  /\ RefusalLeavesNoTrace
  /\ ErrorExplained
  /\ CallsInStep
  /\ PriorIsFinished
  /\ HeldLeftQueue
  /\ LogsBounded

-----------------------------------------------------------------------------
(* Action properties *)

(* A finished job is final: no late progress report, log line or rollback  *)
(* changes its status or its log.                                          *)
TerminalIsFinal ==
  [][\A c \in Calls : status[c] \in TerminalStatus =>
       status'[c] = status[c] /\ log'[c] = log[c]]_vars

(* An entry is only ever replaced by a new placeholder when it does not    *)
(* block, and only ever restored to what the placeholder replaced: the     *)
(* registry never goes back past a finished run.                           *)
EntryMovesForward ==
  [][\A i \in Ids : jobs'[i] # jobs[i] =>
       \/ /\ ~HoldsSlot(i)
          /\ jobs'[i] # NoState
          /\ status[jobs'[i]] = "none"
       \/ /\ pc[jobs[i]] = "rejecting"
          /\ jobs'[i] = prior[jobs[i]]
          /\ jobs'[i] # NoState => status[jobs'[i]] \in TerminalStatus]_vars

-----------------------------------------------------------------------------
(* Temporal properties *)

(* A call made after the context is cancelled is never accepted.           *)
NotAcceptedAfterCancel ==
  \A c \in Calls :
    [](ctxDone /\ pc[c] = "idle" => [](answer[c] # "accepted"))

(* A call of Enqueue returns, whatever the worker and the pipeline do.     *)
EnqueueReturns ==
  \A c \in Calls : pc[c] = "registered" ~> pc[c] = "returned"

(* Unless the program is shut down, every accepted job ends, if the worker *)
(* and the tools go on.                                                    *)
AcceptedJobEnds ==
  WorkerFairness /\ PipelineFairness =>
    \A c \in Calls :
      answer[c] = "accepted" ~> (status[c] \in TerminalStatus \/ ctxDone)

(* Once the context is cancelled the worker leaves its loop, if it and the *)
(* tools go on.                                                            *)
WorkerLeaves ==
  WorkerFairness /\ PipelineFairness => (ctxDone ~> worker = "gone")

-----------------------------------------------------------------------------
(* What the sources say and the code does not guarantee *)

(* "The worker stops once the Manager's context is done. Nothing drains    *)
(* the queue after that, so Enqueue must refuse" (job_test.go).            *)
NotAcceptedWithoutWorker ==
  [][\A c \in Calls :
       answer[c] # "accepted" /\ answer'[c] = "accepted" => worker # "gone"]_vars

(* A caller told that a split is in progress is given a job id to poll,    *)
(* and that id names a job: it is not one "for a job that was never        *)
(* created", which "sends it polling an id that only ever 404s"            *)
(* (handlers_test.go).                                                     *)
DuplicateNamesAJob ==
  \A c \in Calls : answer[c] = "duplicate" => jobs[jobId[c]] # NoState

=============================================================================
