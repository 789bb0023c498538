---------------------- MODULE JobManagerRefinementProofs ----------------------
(***************************************************************************)
(* JobManager implements SplitService under the mapping of                 *)
(* JobManagerRefinement, for every set of ids and calls and every          *)
(* capacity.                                                               *)
(***************************************************************************)
EXTENDS JobManagerRefinement, JobManagerProofs

MapInv == JobInv /\ AcceptedIsPlaced

-----------------------------------------------------------------------------
(* An accepted job is never dropped.                                       *)

LEMMA StepKeepsPlaces ==
  ASSUME JobInv, AcceptedIsPlaced, [Next]_vars
  PROVE  AcceptedIsPlaced'
<1> SUFFICES ASSUME NEW c \in Calls, answer'[c] = "accepted",
                    status'[c] \in ActiveStatus
             PROVE  InQueue(c)' \/ Held(c)'
  BY DEF AcceptedIsPlaced
<1> USE DEF JobInv, TypeOK
<1>1. ASSUME NEW d \in Calls, Enqueue(d) PROVE InQueue(c)' \/ Held(c)'
  <2>1. CASE Send(d)
    <3>1. /\ queue \in Seq(Calls) /\ Len(queue) \in Nat
          /\ UNCHANGED <<status, worker, current>>
      BY <2>1 DEF Send, workerVars
    <3>2. CASE queue' = Append(queue, d)
      <4>1. /\ Len(queue') = Len(queue) + 1
            /\ queue'[Len(queue) + 1] = d
            /\ \A k \in 1..Len(queue) : queue'[k] = queue[k]
        BY ONLY <3>1, <3>2, d \in Calls
      <4>2. CASE c = d
        BY <3>1, <4>1, <4>2 DEF InQueue
      <4>3. CASE c # d
        <5>1. answer[c] = "accepted"
          BY <2>1, <4>3 DEF Send
        <5>2. InQueue(c) \/ Held(c)
          BY <3>1, <5>1 DEF AcceptedIsPlaced
        <5> QED
          BY <3>1, <4>1, <5>2 DEF InQueue, Held
      <4> QED
        BY <4>2, <4>3
    <3>3. CASE queue' = queue /\ answer'[d] = "full"
      <4>1. answer[c] = "accepted"
        BY <2>1, <3>3 DEF Send
      <4> QED
        BY <3>1, <3>3, <4>1 DEF AcceptedIsPlaced, InQueue, Held
    <3> QED
      BY <2>1, <3>2, <3>3 DEF Send
  <2>2. CASE ~Send(d)
    <3>1. UNCHANGED <<queue, worker, current>>
      BY <1>1, <2>2 DEF Enqueue, RefuseDuplicate, Register, CheckContext, Reject, workerVars
    <3>2. answer[c] = "accepted"
      BY <1>1, <2>2 DEF Enqueue, RefuseDuplicate, Register, CheckContext, Reject
    <3>3. status[c] \in ActiveStatus
      BY <1>1, <2>2, <3>2
      DEF Enqueue, RefuseDuplicate, Register, CheckContext, Reject, CallsInStep
    <3> QED
      BY <3>1, <3>2, <3>3 DEF AcceptedIsPlaced, InQueue, Held
  <2> QED
    BY <2>1, <2>2
<1>2. ASSUME Take PROVE InQueue(c)' \/ Held(c)'
  <2>1. InQueue(c)
    BY <1>2 DEF Take, callVars, AcceptedIsPlaced, Held
  <2>2. PICK k \in 1..Len(queue) : queue[k] = c
    BY <2>1 DEF InQueue
  <2>3. /\ queue \in Seq(Calls) /\ Len(queue) \in Nat
        /\ Len(queue') = Len(queue) - 1
        /\ \A l \in 1..Len(queue') : queue'[l] = queue[l + 1]
        /\ current' = queue[1]
    BY <1>2 DEF Take
  <2>4. CASE k = 1
    BY <1>2, <2>2, <2>3, <2>4 DEF Take, Held
  <2>5. CASE k # 1
    <3>1. k - 1 \in 1..Len(queue') /\ queue'[k - 1] = queue[k]
      BY <2>3, <2>5
    <3> QED
      BY <2>2, <3>1 DEF InQueue
  <2> QED
    BY <2>4, <2>5
<1>3. ASSUME Start \/ Pipeline PROVE InQueue(c)' \/ Held(c)'
  <2>1. /\ worker \in {"taken", "splitting"}
        /\ UNCHANGED <<queue, callVars>>
    BY <1>3 DEF Start, Pipeline, Progress, LogLine, Succeed, Fail
  <2>2. current \in Calls
    BY <2>1, UpdatesHitHeldJob
  <2>3. CASE c = current
    <3>1. ~Succeed /\ ~Fail
      BY <2>1, <2>2, <2>3, UpdatesHitHeldJob DEF Succeed, Fail, ActiveStatus
    <3> QED
      BY <1>3, <2>3, <3>1 DEF Start, Pipeline, Progress, LogLine, workerVars, Held
  <2>4. CASE c # current
    <3>1. status'[c] = status[c]
      BY <1>3, <2>1, <2>2, <2>4, UpdatesHitHeldJob
      DEF Start, Pipeline, Progress, LogLine, Succeed, Fail
    <3>2. InQueue(c)
      BY <2>1, <2>4, <3>1 DEF AcceptedIsPlaced, Held, callVars
    <3> QED
      BY <2>1, <3>2 DEF InQueue
  <2> QED
    BY <2>3, <2>4
<1>4. ASSUME Leave \/ Cancel \/ Stopped \/ UNCHANGED vars
      PROVE  InQueue(c)' \/ Held(c)'
  BY <1>4 DEF Leave, Cancel, Stopped, vars, callVars, workerVars,
              AcceptedIsPlaced, InQueue, Held
<1> QED
  BY <1>1, <1>2, <1>3, <1>4 DEF Next, Work

(* Every accepted job that has not ended is in the queue or the worker's.  *)
THEOREM AcceptedJobsArePlaced == Spec => []AcceptedIsPlaced
<1>1. Init => AcceptedIsPlaced
  BY DEF Init, AcceptedIsPlaced
<1>2. JobInv /\ AcceptedIsPlaced /\ [Next]_vars => AcceptedIsPlaced'
  BY StepKeepsPlaces
<1> QED
  BY <1>1, <1>2, JobInvariant, PTL DEF Spec

-----------------------------------------------------------------------------
(* The service's view of a call, now and after a step.                     *)

LEMMA PhaseCases ==
  ASSUME NEW c \in Calls
  PROVE  /\ answer[c] = "none" => PhaseOfCall(c) = "new"
         /\ answer[c] \in Refusals => PhaseOfCall(c) = "refused"
         /\ answer[c] = "accepted" =>
              /\ status[c] = "queued" => PhaseOfCall(c) = "waiting"
              /\ status[c] \in {"splitting", "tagging"} => PhaseOfCall(c) = "running"
              /\ status[c] \in TerminalStatus => PhaseOfCall(c) = status[c]
BY DEF PhaseOfCall, Refusals, TerminalStatus

LEMMA PhaseCasesNext ==
  ASSUME NEW c \in Calls
  PROVE  /\ answer'[c] = "none" => PhaseOfCall(c)' = "new"
         /\ answer'[c] \in Refusals => PhaseOfCall(c)' = "refused"
         /\ answer'[c] = "accepted" =>
              /\ status'[c] = "queued" => PhaseOfCall(c)' = "waiting"
              /\ status'[c] \in {"splitting", "tagging"} => PhaseOfCall(c)' = "running"
              /\ status'[c] \in TerminalStatus => PhaseOfCall(c)' = status'[c]
BY DEF PhaseOfCall, Refusals, TerminalStatus

LEMMA PhaseFrame ==
  ASSUME NEW c \in Calls, answer'[c] = answer[c], status'[c] = status[c]
  PROVE  PhaseOfCall(c)' = PhaseOfCall(c)
BY DEF PhaseOfCall

(* A call is live for the service only if its job has the id's entry.      *)
LEMMA LivePhase ==
  ASSUME MapInv, NEW c \in Calls, PhaseOfCall(c) \in {"waiting", "running"}
  PROVE  /\ answer[c] = "accepted"
         /\ status[c] \in ActiveStatus
         /\ jobs[jobId[c]] = c
         /\ PhaseOfCall(c) = "running" => worker = "splitting" /\ current = c
<1> USE DEF MapInv, JobInv, TypeOK
<1>1. answer[c] = "accepted"
  BY DEF PhaseOfCall, Refusals
<1>2. status[c] \in ActiveStatus
  BY <1>1 DEF CallsInStep, PhaseOfCall, Refusals, TerminalStatus, ActiveStatus
<1>3. InQueue(c) \/ Held(c)
  BY <1>1, <1>2 DEF AcceptedIsPlaced
<1>4. jobs[jobId[c]] = c
  BY <1>3 DEF QueueMatchesRegistry, WorkerOwnsEntry, InQueue, Held
<1>5. ASSUME PhaseOfCall(c) = "running" PROVE worker = "splitting" /\ current = c
  <2>1. status[c] # "queued"
    BY <1>1, <1>5, PhaseCases
  <2> QED
    BY <1>3, <2>1 DEF QueueMatchesRegistry, WorkerOwnsEntry, InQueue, Held
<1> QED
  BY <1>1, <1>2, <1>4, <1>5

-----------------------------------------------------------------------------
(* The steps *)

(* A step that settles a call as refused and shows nothing else.           *)
LEMMA RefusalStep ==
  ASSUME MapInv, NEW c \in Calls,
         answer[c] = "none", answer'[c] \in Refusals,
         \A d \in Calls \ {c} : answer'[d] = answer[d],
         UNCHANGED <<jobs, status, queue, jobId, prior, worker, current>>,
         \A d \in Calls : d # c => (pc'[d] \in Pending <=> pc[d] \in Pending),
         \A i \in Ids : jobs[i] = c => (pc'[c] \in Pending <=> pc[c] \in Pending)
  PROVE  Service!Refuse(c)
<1>1. \A d \in Calls : PhaseOfCall(d)' = IF d = c THEN "refused" ELSE PhaseOfCall(d)
  BY PhaseCasesNext, PhaseFrame
<1>2. PhaseOfCall(c) = "new"
  BY PhaseCases
<1>3. \A i \in Ids : LatestAccepted(i)' = LatestAccepted(i)
  BY DEF LatestAccepted, MapInv, JobInv, TypeOK
<1>4. WaitingLine' = WaitingLine
  BY DEF WaitingLine
<1> QED
  BY <1>1, <1>2, <1>3, <1>4 DEF Service!Refuse

LEMMA EnqueueStep ==
  ASSUME MapInv, NEW c \in Calls, Enqueue(c)
  PROVE  [Service!Next]_Service!vars
<1> USE DEF MapInv, JobInv, TypeOK, callVars, workerVars
<1>1. CASE RefuseDuplicate(c)
  <2>1. Service!Refuse(c)
    <3>1. answer[c] = "none" /\ answer'[c] = "duplicate"
      BY <1>1 DEF RefuseDuplicate, CallsInStep
    <3>2. \A i \in Ids : jobs[i] # c
      BY <1>1, ManagerAssumption DEF RefuseDuplicate, CallsInStep
    <3> QED
      BY <1>1, <3>1, <3>2, RefusalStep DEF RefuseDuplicate, Refusals
  <2> QED
    BY <2>1 DEF Service!Next
<1>2. CASE Register(c)
  <2>1. \A d \in Calls : PhaseOfCall(d)' = PhaseOfCall(d)
    <3>1. \A d \in Calls \ {c} : answer'[d] = answer[d] /\ status'[d] = status[d]
      BY <1>2 DEF Register
    <3>2. answer[c] = "none" /\ answer'[c] = "none"
      BY <1>2 DEF Register, CallsInStep
    <3>3. PhaseOfCall(c) = "new" /\ PhaseOfCall(c)' = "new"
      BY <3>2, PhaseCases, PhaseCasesNext
    <3> QED
      BY <3>1, <3>3, PhaseFrame
  <2>2. \A i \in Ids : LatestAccepted(i)' = LatestAccepted(i)
    <3> SUFFICES ASSUME NEW i \in Ids
                 PROVE  LatestAccepted(i)' = LatestAccepted(i)
      OBVIOUS
    <3>1. CASE i = jobId[c]
      <4>1. LatestAccepted(i)' = jobs[i]
        BY <1>2, <3>1, ManagerAssumption DEF Register, LatestAccepted, Pending
      <4>2. jobs[i] # NoState => pc[jobs[i]] \notin Pending
        BY <1>2, <3>1 DEF Register, HoldsSlot, PlaceholderOwned, CallsInStep, ActiveStatus
      <4> QED
        BY <4>1, <4>2 DEF LatestAccepted
    <3>2. CASE i # jobId[c]
      <4>1. jobs'[i] = jobs[i] /\ jobs[i] # c
        BY <1>2, <3>2, ManagerAssumption DEF Register, CallsInStep
      <4> QED
        BY <1>2, <4>1 DEF Register, LatestAccepted
    <3> QED
      BY <3>1, <3>2
  <2>3. WaitingLine' = WaitingLine /\ jobId' = jobId
    BY <1>2 DEF Register, WaitingLine
  <2> QED
    BY <2>1, <2>2, <2>3 DEF Service!vars
<1>3. CASE CheckContext(c)
  <2>1. CASE ctxDone
    <3>1. Service!Refuse(c)
      BY <1>3, <2>1, RefusalStep DEF CheckContext, CallsInStep, Refusals, Pending
    <3> QED
      BY <3>1 DEF Service!Next
  <2>2. CASE ~ctxDone
    <3>1. \A d \in Calls : PhaseOfCall(d)' = PhaseOfCall(d)
      BY <1>3, <2>2, PhaseFrame DEF CheckContext
    <3>2. \A i \in Ids : LatestAccepted(i)' = LatestAccepted(i)
      BY <1>3, <2>2, ManagerAssumption DEF CheckContext, LatestAccepted, Pending
    <3>3. WaitingLine' = WaitingLine /\ jobId' = jobId
      BY <1>3 DEF CheckContext, WaitingLine
    <3> QED
      BY <3>1, <3>2, <3>3 DEF Service!vars
  <2> QED
    BY <2>1, <2>2
<1>4. CASE Send(c) /\ ~(Len(queue) < QueueCap)
  <2>1. Service!Refuse(c)
    BY <1>4, RefusalStep DEF Send, CallsInStep, Refusals, Pending
  <2> QED
    BY <2>1 DEF Service!Next
<1>5. CASE Send(c) /\ Len(queue) < QueueCap
  <2>1. /\ jobs[jobId[c]] = c /\ status[c] = "queued"
        /\ answer[c] = "none" /\ answer'[c] = "accepted"
        /\ jobId[c] \in Ids
        /\ \A d \in Calls \ {c} : answer'[d] = answer[d]
        /\ UNCHANGED <<jobs, status, jobId, prior, worker, current>>
        /\ queue' = Append(queue, c)
        /\ pc' = [pc EXCEPT ![c] = "returned"]
    BY <1>5 DEF Send, PlaceholderOwned, Pending, CallsInStep
  <2>2. \A d \in Calls : jobId[d] = jobId[c] =>
          PhaseOfCall(d) \notin {"waiting", "running"}
    BY <2>1, LivePhase
  <2>3. PhaseOfCall(c) = "new"
    BY <2>1, PhaseCases
  <2>4. \A d \in Calls : PhaseOfCall(d)' = IF d = c THEN "waiting" ELSE PhaseOfCall(d)
    BY <2>1, PhaseCasesNext, PhaseFrame
  <2>5. \A i \in Ids : LatestAccepted(i)' = IF i = jobId[c] THEN c ELSE LatestAccepted(i)
    BY <2>1, ManagerAssumption DEF LatestAccepted, Pending, CallsInStep
  <2>6. worker = "taken" => current \in Calls
    BY DEF HeldLeftQueue
  <2>7. Len(WaitingLine) < QueueCap + 1
    BY <1>5, <2>6, ManagerAssumption DEF WaitingLine
  <2>8. WaitingLine' = Append(WaitingLine, c)
    BY <2>1, <2>6 DEF WaitingLine
  <2>9. Service!Accept(c)
    BY <2>1, <2>2, <2>3, <2>4, <2>5, <2>7, <2>8 DEF Service!Accept, Service!Live
  <2> QED
    BY <2>9 DEF Service!Next
<1>6. CASE Reject(c)
  <2>1. /\ jobId[c] \in Ids
        /\ jobs[jobId[c]] = c
        /\ jobs' = [jobs EXCEPT ![jobId[c]] = prior[c]]
        /\ pc' = [pc EXCEPT ![c] = "returned"]
    BY <1>6, ManagerAssumption DEF Reject, PlaceholderOwned, Pending
  <2>2. \A d \in Calls : PhaseOfCall(d)' = PhaseOfCall(d)
    BY <1>6, PhaseFrame DEF Reject
  <2>3. \A i \in Ids : LatestAccepted(i)' = LatestAccepted(i)
    <3> SUFFICES ASSUME NEW i \in Ids
                 PROVE  LatestAccepted(i)' = LatestAccepted(i)
      OBVIOUS
    <3>1. CASE i = jobId[c]
      <4>1. prior[c] # NoState => pc[prior[c]] = "returned"
        BY <1>6 DEF Reject, PriorIsFinished, CallsInStep, Pending
      <4>2. LatestAccepted(i) = prior[c]
        BY <1>6, <2>1, <3>1, ManagerAssumption DEF Reject, LatestAccepted, Pending
      <4> QED
        BY <1>6, <2>1, <3>1, <4>1, <4>2 DEF LatestAccepted, Pending
    <3>2. CASE i # jobId[c]
      <4>1. jobs'[i] = jobs[i] /\ jobs[i] # c
        BY <2>1, <3>2, ManagerAssumption DEF CallsInStep
      <4> QED
        BY <1>6, <2>1, <4>1 DEF Reject, LatestAccepted
    <3> QED
      BY <3>1, <3>2
  <2>4. WaitingLine' = WaitingLine /\ jobId' = jobId
    BY <1>6 DEF Reject, WaitingLine
  <2> QED
    BY <2>2, <2>3, <2>4 DEF Service!vars
<1> QED
  BY <1>1, <1>2, <1>3, <1>4, <1>5, <1>6 DEF Enqueue

(* A step after which the service shows the same.                          *)
LEMMA HiddenStep ==
  ASSUME MapInv, UNCHANGED <<jobs, callVars>>,
         \A d \in Calls : PhaseOfCall(d)' = PhaseOfCall(d),
         WaitingLine' = WaitingLine
  PROVE  UNCHANGED Service!vars
<1>1. \A i \in Ids : LatestAccepted(i)' = LatestAccepted(i)
  BY DEF LatestAccepted, callVars
<1> QED
  BY <1>1 DEF Service!vars, callVars

LEMMA WorkStep ==
  ASSUME MapInv, Work
  PROVE  [Service!Next]_Service!vars
<1> USE DEF MapInv, JobInv, TypeOK, callVars
<1>1. CASE Take
  <2>1. \A d \in Calls : PhaseOfCall(d)' = PhaseOfCall(d)
    BY <1>1, PhaseFrame DEF Take
  <2>2. WaitingLine' = WaitingLine
    <3>1. /\ queue \in Seq(Calls) /\ queue # <<>>
          /\ WaitingLine = queue /\ WaitingLine' = <<Head(queue)>> \o Tail(queue)
      BY <1>1 DEF Take, WaitingLine
    <3>2. <<Head(queue)>> \o Tail(queue) = queue
      BY ONLY <3>1
    <3> QED
      BY <3>1, <3>2
  <2> QED
    BY <1>1, <2>1, <2>2, HiddenStep DEF Take
<1>2. CASE Leave
  <2>1. \A d \in Calls : PhaseOfCall(d)' = PhaseOfCall(d)
    BY <1>2, PhaseFrame DEF Leave
  <2> QED
    BY <1>2, <2>1, HiddenStep DEF Leave, WaitingLine
<1>3. CASE Start
  <2>1. /\ current \in Calls /\ answer[current] = "accepted"
        /\ status[current] = "queued"
        /\ status' = [status EXCEPT ![current] = "splitting"]
    BY <1>3, UpdatesHitHeldJob DEF Start, WorkerOwnsEntry
  <2>2. \A d \in Calls : PhaseOfCall(d) # "running"
    BY <1>3, LivePhase DEF Start
  <2>3. \A d \in Calls :
          PhaseOfCall(d)' = IF d = current THEN "running" ELSE PhaseOfCall(d)
    BY <1>3, <2>1, PhaseCasesNext, PhaseFrame DEF Start
  <2>4. /\ WaitingLine = <<current>> \o queue
        /\ WaitingLine' = queue
    BY <1>3 DEF Start, WaitingLine
  <2>5. /\ WaitingLine # <<>>
        /\ Head(WaitingLine) = current
        /\ Tail(WaitingLine) = queue
    <3>1. queue \in Seq(Calls)
      OBVIOUS
    <3> QED
      BY ONLY <2>1, <2>4, <3>1
  <2>6. \A i \in Ids : LatestAccepted(i)' = LatestAccepted(i)
    BY <1>3 DEF Start, LatestAccepted
  <2>7. Service!Begin
    BY <1>3, <2>2, <2>3, <2>4, <2>5, <2>6 DEF Service!Begin, Start
  <2> QED
    BY <2>7 DEF Service!Next
<1>4. ASSUME NEW step, NEW total, Progress(step, total)
      PROVE  [Service!Next]_Service!vars
  <2>1. /\ current \in Calls /\ answer[current] = "accepted"
        /\ status[current] \in {"splitting", "tagging"}
        /\ status' = [status EXCEPT ![current] = PhaseOf(step, total)]
    BY <1>4, UpdatesHitHeldJob DEF Progress, WorkerOwnsEntry
  <2>2. PhaseOf(step, total) \in {"splitting", "tagging"}
    BY DEF PhaseOf
  <2>3. \A d \in Calls : PhaseOfCall(d)' = PhaseOfCall(d)
    <3>1. answer'[current] = "accepted" /\ status'[current] \in {"splitting", "tagging"}
      BY <1>4, <2>1, <2>2 DEF Progress
    <3>2. \A d \in Calls :
            d = current => PhaseOfCall(d) = "running" /\ PhaseOfCall(d)' = "running"
      BY <2>1, <3>1, PhaseCases, PhaseCasesNext
    <3> QED
      BY <1>4, <2>1, <3>2, PhaseFrame DEF Progress
  <2> QED
    BY <1>4, <2>3, HiddenStep DEF Progress, workerVars, WaitingLine
<1>5. ASSUME NEW level, LogLine(level) PROVE [Service!Next]_Service!vars
  <2>1. \A d \in Calls : PhaseOfCall(d)' = PhaseOfCall(d)
    BY <1>5, PhaseFrame DEF LogLine
  <2> QED
    BY <1>5, <2>1, HiddenStep DEF LogLine, workerVars, WaitingLine
<1>6. ASSUME NEW outcome \in {"done", "error"}, worker = "splitting",
             worker' = "select", UpdateStatus(jobId[current], outcome),
             UNCHANGED <<jobs, queue, callVars>>
      PROVE  [Service!Next]_Service!vars
  <2>1. /\ current \in Calls /\ answer[current] = "accepted"
        /\ status[current] \in {"splitting", "tagging"}
        /\ status' = [status EXCEPT ![current] = outcome]
    BY <1>6, UpdatesHitHeldJob DEF WorkerOwnsEntry
  <2>2. PhaseOfCall(current) = "running"
    BY <2>1, PhaseCases
  <2>3. \A d \in Calls : d = current => PhaseOfCall(d)' = outcome
    BY <1>6, <2>1, PhaseCasesNext DEF TerminalStatus
  <2>4. \A d \in Calls : PhaseOfCall(d)' = IF d = current THEN outcome ELSE PhaseOfCall(d)
    BY <1>6, <2>1, <2>3, PhaseFrame
  <2>5. \A i \in Ids : LatestAccepted(i)' = LatestAccepted(i)
    BY <1>6 DEF LatestAccepted
  <2>6. WaitingLine' = WaitingLine
    BY <1>6 DEF WaitingLine
  <2>7. Service!Finish(current, outcome)
    BY <1>6, <2>1, <2>2, <2>4, <2>5, <2>6 DEF Service!Finish
  <2> QED
    BY <2>1, <2>7 DEF Service!Next
<1>7. CASE Succeed
  BY <1>6, <1>7 DEF Succeed
<1>8. CASE Fail
  BY <1>6, <1>8 DEF Fail
<1> QED
  BY <1>1, <1>2, <1>3, <1>4, <1>5, <1>7, <1>8 DEF Work, Pipeline

LEMMA OtherStep ==
  ASSUME MapInv, Cancel \/ Stopped \/ UNCHANGED vars
  PROVE  UNCHANGED Service!vars
<1>1. UNCHANGED <<jobs, status, queue, callVars, worker, current>>
  BY DEF Cancel, Stopped, vars, workerVars
<1>2. \A d \in Calls : PhaseOfCall(d)' = PhaseOfCall(d)
  BY <1>1, PhaseFrame DEF callVars
<1> QED
  BY <1>1, <1>2, HiddenStep DEF WaitingLine

(* Every behaviour of the manager is, as the service sees it, a behaviour  *)
(* of SplitService: accepted jobs begin one at a time in the order they    *)
(* were accepted, and a refusal shows nothing.                             *)
THEOREM ManagerImplementsService == Spec => ImplementsService
<1>1. Init => Service!Init
  <2> SUFFICES ASSUME Init PROVE Service!Init
    OBVIOUS
  <2>1. \A c \in Calls : PhaseOfCall(c) = "new"
    BY PhaseCases DEF Init
  <2>2. \A i \in Ids : LatestAccepted(i) = NoState
    BY DEF Init, LatestAccepted
  <2>3. WaitingLine = <<>>
    BY DEF Init, WaitingLine
  <2> QED
    BY <2>1, <2>2, <2>3 DEF Init, Service!Init
<1>2. JobInv /\ AcceptedIsPlaced /\ [Next]_vars => [Service!Next]_Service!vars
  <2> SUFFICES ASSUME MapInv, [Next]_vars PROVE [Service!Next]_Service!vars
    BY DEF MapInv
  <2> QED
    BY EnqueueStep, WorkStep, OtherStep DEF Next
<1> QED
  BY <1>1, <1>2, JobInvariant, AcceptedJobsArePlaced, PTL
  DEF Spec, ImplementsService, Service!Spec

=============================================================================
