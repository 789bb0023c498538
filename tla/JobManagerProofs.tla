--------------------------- MODULE JobManagerProofs ---------------------------
(***************************************************************************)
(* JobInv is an inductive invariant of JobManager, for every set of ids    *)
(* and calls and every capacity of the queue and of the logs; the safety   *)
(* properties of the runs follow from it.                                  *)
(***************************************************************************)
EXTENDS JobManager, LogBufferProofs

LEMMA InitJobInv == Init => JobInv
<1> SUFFICES ASSUME Init PROVE JobInv
  OBVIOUS
<1> USE DEF Init
<1>1. NewBuffer \in Buffer /\ Len(NewBuffer.entries) = 0 /\ NewBuffer.entries = <<>>
  BY DEF NewBuffer, Buffer
<1>2. TypeOK
  <2>1. /\ queue \in Seq(Calls)
        /\ Len(queue) <= QueueCap
    BY ManagerAssumption
  <2>2. log \in [Calls -> Buffer]
    BY <1>1
  <2>3. /\ jobs \in [Ids -> Calls \union {NoState}]
        /\ status \in [Calls -> ActiveStatus \union TerminalStatus \union {"none"}]
        /\ pc \in [Calls -> {"idle", "returned"} \union Pending]
        /\ prior \in [Calls -> Calls \union {NoState}]
        /\ answer \in [Calls -> {"none", "accepted"} \union Refusals]
    OBVIOUS
  <2> QED
    BY <2>1, <2>2, <2>3 DEF TypeOK
<1>3. PlaceholderOwned /\ QueueMatchesRegistry /\ WorkerOwnsEntry
  BY DEF PlaceholderOwned, QueueMatchesRegistry, WorkerOwnsEntry, Pending
<1>4. SlotIsBacked /\ RefusalLeavesNoTrace
  BY DEF SlotIsBacked, RefusalLeavesNoTrace, HoldsSlot
<1>5. ErrorExplained /\ LogsBounded
  BY <1>1, LogCapAssumption DEF ErrorExplained, LogsBounded
<1>6. CallsInStep /\ PriorIsFinished /\ HeldLeftQueue
  BY DEF CallsInStep, PriorIsFinished, HeldLeftQueue, Pending
<1> QED
  BY <1>2, <1>3, <1>4, <1>5, <1>6 DEF JobInv

-----------------------------------------------------------------------------
(* Enqueue *)

LEMMA RefuseDuplicateInv ==
  ASSUME JobInv, NEW c \in Calls, RefuseDuplicate(c)
  PROVE  JobInv'
<1> USE DEF JobInv, RefuseDuplicate
<1>1. TypeOK'
  BY DEF TypeOK, callVars, workerVars, Refusals
<1>2. PlaceholderOwned'
  BY DEF TypeOK, PlaceholderOwned, Pending, workerVars
<1>3. QueueMatchesRegistry'
  BY DEF TypeOK, QueueMatchesRegistry, CallsInStep, workerVars
<1>4. WorkerOwnsEntry'
  BY DEF TypeOK, WorkerOwnsEntry, workerVars
<1>5. SlotIsBacked'
  BY DEF TypeOK, SlotIsBacked, HoldsSlot, CallsInStep, InQueue, Held, Pending, workerVars
<1>6. RefusalLeavesNoTrace'
  BY DEF TypeOK, RefusalLeavesNoTrace, CallsInStep, workerVars, Pending
<1>7. ErrorExplained' /\ LogsBounded'
  BY DEF ErrorExplained, LogsBounded, workerVars
<1>8. CallsInStep'
  BY DEF TypeOK, CallsInStep, workerVars
<1>9. PriorIsFinished'
  BY DEF TypeOK, PriorIsFinished, CallsInStep, workerVars, Pending
<1>10. HeldLeftQueue'
  BY DEF TypeOK, HeldLeftQueue, CallsInStep, workerVars, InQueue
<1> QED
  BY <1>1, <1>2, <1>3, <1>4, <1>5, <1>6, <1>7, <1>8, <1>9, <1>10

LEMMA RegisterInv ==
  ASSUME JobInv, NEW c \in Calls, Register(c)
  PROVE  JobInv'
<1> USE DEF JobInv, Register
<1>0. NewBuffer \in Buffer /\ NewBuffer.entries = <<>> /\ Len(NewBuffer.entries) = 0
  BY DEF NewBuffer, Buffer
<1>a. \A d \in Calls : pc[d] \in Pending => jobId[d] # jobId[c] /\ d # c
  BY ManagerAssumption
  DEF TypeOK, PlaceholderOwned, HoldsSlot, ActiveStatus, Pending, CallsInStep
<1>b. \A k \in 1..Len(queue) : /\ queue[k] \in Calls
                               /\ jobId[queue[k]] # jobId[c]
                               /\ queue[k] # c
  <2> SUFFICES ASSUME NEW k \in 1..Len(queue)
               PROVE  /\ queue[k] \in Calls
                      /\ jobId[queue[k]] # jobId[c]
                      /\ queue[k] # c
    OBVIOUS
  <2>1. queue[k] \in Calls
    BY DEF TypeOK
  <2> QED
    BY <2>1, ManagerAssumption
    DEF TypeOK, QueueMatchesRegistry, HoldsSlot, ActiveStatus, CallsInStep
<1>d. worker \in {"taken", "splitting"} =>
        current \in Calls /\ jobId[current] # jobId[c] /\ current # c
  BY ManagerAssumption
  DEF TypeOK, WorkerOwnsEntry, HeldLeftQueue, HoldsSlot, ActiveStatus, CallsInStep
<1>1. TypeOK'
  BY <1>0 DEF TypeOK, callVars, workerVars, ActiveStatus, Pending
<1>2. PlaceholderOwned'
  BY <1>a DEF TypeOK, PlaceholderOwned, Pending, workerVars
<1>3. QueueMatchesRegistry'
  BY <1>b DEF TypeOK, QueueMatchesRegistry, workerVars
<1>4. WorkerOwnsEntry'
  BY <1>d DEF TypeOK, WorkerOwnsEntry, workerVars
<1>5. SlotIsBacked'
  BY DEF TypeOK, SlotIsBacked, HoldsSlot, CallsInStep, InQueue, Held, Pending, workerVars
<1>6. RefusalLeavesNoTrace'
  BY ManagerAssumption DEF TypeOK, RefusalLeavesNoTrace, CallsInStep, workerVars, Pending
<1>7. ErrorExplained' /\ LogsBounded'
  BY <1>0, LogCapAssumption DEF TypeOK, ErrorExplained, LogsBounded, workerVars
<1>8. CallsInStep'
  BY DEF TypeOK, CallsInStep, workerVars
<1>9. PriorIsFinished'
  <2>1. \A d \in Calls : pc'[d] \in Pending => d = c \/ pc[d] \in Pending
    BY DEF TypeOK
  <2>2. CASE jobs[jobId[c]] = NoState
    <3>1. \A d \in Calls : jobId[d] = jobId[c] => answer[d] # "accepted"
      BY <2>2 DEF RefusalLeavesNoTrace
    <3>2. prior'[c] = NoState
      BY <2>2 DEF TypeOK
    <3> QED
      BY <2>1, <3>1, <3>2 DEF TypeOK, PriorIsFinished, CallsInStep
  <2>3. CASE jobs[jobId[c]] # NoState
    <3> DEFINE p == jobs[jobId[c]]
    <3>1. p \in Calls /\ p # c /\ jobId[p] = jobId[c]
      BY <2>3 DEF TypeOK, CallsInStep
    <3>2. status[p] \in TerminalStatus
      BY <2>3, <3>1 DEF TypeOK, HoldsSlot, CallsInStep
    <3>3. answer[p] = "accepted"
      BY <1>a, <2>3, <3>1 DEF TypeOK, RefusalLeavesNoTrace
    <3>4. prior'[c] = p
      BY DEF TypeOK
    <3> HIDE DEF p
    <3> QED
      BY <2>1, <2>3, <3>1, <3>2, <3>3, <3>4, ManagerAssumption
      DEF TypeOK, PriorIsFinished, CallsInStep
  <2> QED
    BY <2>2, <2>3
<1>10. HeldLeftQueue'
  BY DEF TypeOK, HeldLeftQueue, CallsInStep, workerVars, InQueue
<1> QED
  BY <1>1, <1>2, <1>3, <1>4, <1>5, <1>6, <1>7, <1>8, <1>9, <1>10

LEMMA CheckContextInv ==
  ASSUME JobInv, NEW c \in Calls, CheckContext(c)
  PROVE  JobInv'
<1> USE DEF JobInv, CheckContext
<1>1. TypeOK'
  BY DEF TypeOK, callVars, workerVars, Pending, Refusals
<1>2. PlaceholderOwned'
  BY DEF TypeOK, PlaceholderOwned, Pending, workerVars
<1>3. QueueMatchesRegistry'
  BY DEF TypeOK, QueueMatchesRegistry, CallsInStep, workerVars
<1>4. WorkerOwnsEntry'
  BY DEF TypeOK, WorkerOwnsEntry, workerVars
<1>5. SlotIsBacked'
  BY DEF TypeOK, SlotIsBacked, HoldsSlot, InQueue, Held, Pending, workerVars
<1>6. RefusalLeavesNoTrace'
  BY DEF TypeOK, RefusalLeavesNoTrace, CallsInStep, workerVars, Pending
<1>7. ErrorExplained' /\ LogsBounded'
  BY DEF ErrorExplained, LogsBounded, workerVars
<1>8. CallsInStep'
  BY DEF TypeOK, CallsInStep, workerVars
<1>9. PriorIsFinished'
  BY DEF TypeOK, PriorIsFinished, CallsInStep, workerVars, Pending
<1>10. HeldLeftQueue'
  BY DEF TypeOK, HeldLeftQueue, CallsInStep, workerVars, InQueue
<1> QED
  BY <1>1, <1>2, <1>3, <1>4, <1>5, <1>6, <1>7, <1>8, <1>9, <1>10

LEMMA RejectInv ==
  ASSUME JobInv, NEW c \in Calls, Reject(c)
  PROVE  JobInv'
<1> USE DEF JobInv, Reject
<1>0. /\ jobId[c] \in Ids
      /\ jobs[jobId[c]] = c /\ status[c] = "queued"
      /\ jobs' = [jobs EXCEPT ![jobId[c]] = prior[c]]
  BY ManagerAssumption DEF TypeOK, PlaceholderOwned, Pending
<1>1. TypeOK'
  BY <1>0 DEF TypeOK, callVars, workerVars, Pending
<1>2. PlaceholderOwned'
  BY <1>0 DEF TypeOK, PlaceholderOwned, Pending, workerVars
<1>3. QueueMatchesRegistry'
  BY <1>0 DEF TypeOK, QueueMatchesRegistry, CallsInStep, workerVars
<1>4. WorkerOwnsEntry'
  BY <1>0 DEF TypeOK, WorkerOwnsEntry, HeldLeftQueue, CallsInStep, workerVars
<1>5. SlotIsBacked'
  BY <1>0 DEF TypeOK, SlotIsBacked, HoldsSlot, PriorIsFinished, CallsInStep,
              ActiveStatus, TerminalStatus, InQueue, Held, Pending, workerVars
<1>6. RefusalLeavesNoTrace'
  BY <1>0 DEF TypeOK, RefusalLeavesNoTrace, PriorIsFinished, CallsInStep, workerVars, Pending
<1>7. ErrorExplained' /\ LogsBounded'
  BY DEF ErrorExplained, LogsBounded, workerVars
<1>8. CallsInStep'
  BY <1>0 DEF TypeOK, CallsInStep, PriorIsFinished, TerminalStatus, Pending, workerVars
<1>9. PriorIsFinished'
  BY <1>0 DEF TypeOK, PriorIsFinished, CallsInStep, workerVars, Pending
<1>10. HeldLeftQueue'
  BY DEF TypeOK, HeldLeftQueue, CallsInStep, workerVars, InQueue
<1> QED
  BY <1>1, <1>2, <1>3, <1>4, <1>5, <1>6, <1>7, <1>8, <1>9, <1>10

LEMMA SendInv ==
  ASSUME JobInv, NEW c \in Calls, Send(c)
  PROVE  JobInv'
<1> USE DEF JobInv, Send
<1>0. /\ queue \in Seq(Calls) /\ Len(queue) \in Nat
      /\ queue' \in Seq(Calls)
      /\ Len(queue) < QueueCap =>
           /\ Len(queue') = Len(queue) + 1
           /\ queue'[Len(queue) + 1] = c
           /\ \A k \in 1..Len(queue) : queue'[k] = queue[k]
      /\ ~(Len(queue) < QueueCap) => queue' = queue
  <2>1. queue \in Seq(Calls) /\ Len(queue) \in Nat
    BY DEF TypeOK
  <2>2. CASE Len(queue) < QueueCap
    <3>1. queue' = Append(queue, c)
      BY <2>2
    <3> QED
      BY ONLY <2>1, <2>2, <3>1, c \in Calls
  <2>3. CASE ~(Len(queue) < QueueCap)
    BY <2>1, <2>3
  <2> QED
    BY <2>2, <2>3
<1>a. \A k \in 1..Len(queue') :
        \/ k \in 1..Len(queue) /\ queue'[k] = queue[k]
        \/ /\ Len(queue) < QueueCap
           /\ k = Len(queue) + 1 /\ queue'[k] = c
  BY <1>0
<1>1. TypeOK'
  BY <1>0, ManagerAssumption DEF TypeOK, callVars, workerVars, Pending, Refusals
<1>2. PlaceholderOwned'
  BY DEF TypeOK, PlaceholderOwned, Pending, workerVars
<1>3. QueueMatchesRegistry'
  BY <1>0 DEF TypeOK, QueueMatchesRegistry, PlaceholderOwned, CallsInStep, Pending, workerVars
<1>4. WorkerOwnsEntry'
  BY DEF TypeOK, WorkerOwnsEntry, workerVars
<1>5. SlotIsBacked'
  <2> SUFFICES ASSUME NEW i \in Ids, HoldsSlot(i)'
               PROVE  \/ pc'[jobs'[i]] \in Pending
                      \/ InQueue(jobs[i])'
                      \/ Held(jobs[i])'
    BY DEF SlotIsBacked
  <2> DEFINE d == jobs[i]
  <2>1. HoldsSlot(i)
    BY DEF HoldsSlot
  <2>2. pc[d] \in Pending \/ InQueue(d) \/ Held(d)
    BY <2>1 DEF SlotIsBacked
  <2>3. InQueue(d) => InQueue(d)'
    BY <1>0 DEF InQueue
  <2>4. Held(d) => Held(d)'
    BY DEF Held, workerVars
  <2>5. pc[d] \in Pending => pc'[d] \in Pending \/ InQueue(d)'
    <3>1. jobs'[i] = d /\ d \in Calls
      BY <2>1 DEF TypeOK, HoldsSlot
    <3>2. CASE d = c /\ Len(queue) < QueueCap
      <4>1. Len(queue) + 1 \in 1..Len(queue')
        BY <1>0, <3>2
      <4> QED
        BY <1>0, <3>1, <3>2, <4>1 DEF InQueue
    <3>3. CASE d = c /\ ~(Len(queue) < QueueCap)
      BY <3>3 DEF TypeOK, Pending
    <3>4. CASE d # c
      BY <3>1, <3>4 DEF TypeOK, Pending
    <3> QED
      BY <3>2, <3>3, <3>4
  <2> QED
    BY <2>2, <2>3, <2>4, <2>5
<1>6. RefusalLeavesNoTrace'
  BY ManagerAssumption DEF TypeOK, RefusalLeavesNoTrace, PlaceholderOwned, CallsInStep, workerVars, Pending
<1>7. ErrorExplained' /\ LogsBounded'
  BY DEF ErrorExplained, LogsBounded, workerVars
<1>8. CallsInStep'
  BY DEF TypeOK, PlaceholderOwned, Pending, CallsInStep, workerVars
<1>9. PriorIsFinished'
  BY DEF TypeOK, PriorIsFinished, PlaceholderOwned, CallsInStep, workerVars, Pending
<1>10. HeldLeftQueue'
  <2>1. worker \in {"taken", "splitting"} => current # c
    BY DEF HeldLeftQueue, CallsInStep
  <2> QED
    BY <1>a, <2>1 DEF TypeOK, HeldLeftQueue, workerVars, InQueue
<1> QED
  BY <1>1, <1>2, <1>3, <1>4, <1>5, <1>6, <1>7, <1>8, <1>9, <1>10

-----------------------------------------------------------------------------
(* The worker *)

(* The entry the worker's updates find is the State of the job it holds.   *)
LEMMA UpdatesHitHeldJob ==
  ASSUME JobInv, worker \in {"taken", "splitting"}
  PROVE  /\ current \in Calls
         /\ jobId[current] \in Ids
         /\ jobs[jobId[current]] = current
         /\ answer[current] = "accepted"
         /\ pc[current] = "returned"
         /\ status[current] \in ActiveStatus
         /\ \A s : UpdateStatus(jobId[current], s) =>
                     status' = [status EXCEPT ![current] = s]
         /\ \A level : UpdateLog(jobId[current], level) =>
              log' = [log EXCEPT ![current] = Add(log[current], level)]
<1>1. /\ current \in Calls
      /\ jobs[jobId[current]] = current
      /\ answer[current] = "accepted"
      /\ status[current] \in ActiveStatus
  BY DEF JobInv, WorkerOwnsEntry, HeldLeftQueue, ActiveStatus
<1>2. jobId[current] \in Ids /\ pc[current] = "returned"
  BY <1>1 DEF JobInv, TypeOK, CallsInStep
<1>3. ASSUME NEW s, UpdateStatus(jobId[current], s)
      PROVE  status' = [status EXCEPT ![current] = s]
  BY <1>1, <1>3, ManagerAssumption DEF UpdateStatus
<1>4. ASSUME NEW level, UpdateLog(jobId[current], level)
      PROVE  log' = [log EXCEPT ![current] = Add(log[current], level)]
  BY <1>1, <1>4, ManagerAssumption DEF UpdateLog
<1> QED
  BY <1>1, <1>2, <1>3, <1>4

(* Whatever an update of the held job's State does, it disturbs none of    *)
(* the parts that are about the other jobs and the calls, as long as the   *)
(* job stays active while the worker holds it.                             *)
LEMMA UpdateKeepsCalls ==
  ASSUME JobInv, worker \in {"taken", "splitting"},
         NEW s \in {"splitting", "tagging", "done", "error"},
         status' = [status EXCEPT ![current] = s],
         UNCHANGED <<jobs, queue, callVars>>
  PROVE  /\ PlaceholderOwned'
         /\ QueueMatchesRegistry'
         /\ RefusalLeavesNoTrace'
         /\ CallsInStep'
         /\ PriorIsFinished'
<1> USE DEF JobInv, callVars
<1>1. /\ current \in Calls
      /\ jobs[jobId[current]] = current
      /\ answer[current] = "accepted"
      /\ pc[current] = "returned"
      /\ status[current] \in ActiveStatus
  BY UpdatesHitHeldJob
<1>2. PlaceholderOwned'
  BY <1>1 DEF TypeOK, PlaceholderOwned, Pending
<1>3. QueueMatchesRegistry'
  <2>1. \A k \in 1..Len(queue) : queue[k] # current /\ queue[k] \in Calls
    BY DEF TypeOK, HeldLeftQueue, InQueue
  <2> QED
    BY <2>1 DEF TypeOK, QueueMatchesRegistry
<1>4. RefusalLeavesNoTrace'
  BY DEF TypeOK, RefusalLeavesNoTrace
<1>5. CallsInStep'
  BY <1>1 DEF TypeOK, CallsInStep
<1>6. PriorIsFinished'
  BY <1>1 DEF TypeOK, PriorIsFinished, ActiveStatus, TerminalStatus
<1> QED
  BY <1>2, <1>3, <1>4, <1>5, <1>6

(* Adding a line to the held job's log.                                    *)
LEMMA LogKeepsBuffers ==
  ASSUME JobInv, worker \in {"taken", "splitting"}, NEW level \in Levels,
         log' = [log EXCEPT ![current] = Add(log[current], level)]
  PROVE  /\ log' \in [Calls -> Buffer]
         /\ LogsBounded'
         /\ LET lines == log'[current].entries
            IN  /\ Len(lines) \in Nat \ {0}
                /\ lines[Len(lines)].level = level
                /\ \A k \in 1..(Len(lines) - 1) : lines[k].level # "error"
<1>1. current \in Calls /\ status[current] # "error"
  BY UpdatesHitHeldJob DEF ActiveStatus
<1>2. log \in [Calls -> Buffer] /\ \A c \in Calls : Len(log[c].entries) <= LogCap
  BY DEF JobInv, TypeOK, LogsBounded
<1> DEFINE b == log[current]
           a == Add(b, level)
<1>3. b \in Buffer /\ Len(b.entries) <= LogCap
  BY <1>1, <1>2
<1>4. /\ a \in Buffer
      /\ Len(a.entries) = IF Len(b.entries) < LogCap
                            THEN Len(b.entries) + 1 ELSE LogCap
      /\ a.entries[Len(a.entries)] = [seq |-> b.nextSeq, level |-> level]
      /\ \A k \in 1..(Len(a.entries) - 1) :
           a.entries[k] = IF Len(b.entries) < LogCap
                            THEN b.entries[k] ELSE b.entries[k + 1]
  BY <1>3, AddEntries
<1>5. \A k \in 1..Len(b.entries) : b.entries[k].level # "error"
  BY <1>1 DEF JobInv, ErrorExplained
<1>6. Len(b.entries) \in Nat /\ LogCap \in Nat /\ LogCap >= 1
  BY <1>3, LogCapAssumption DEF Buffer
<1>7. log'[current] = a /\ \A c \in Calls \ {current} : log'[c] = log[c]
  BY <1>1, <1>2
<1> HIDE DEF a, b
<1>8. Len(a.entries) \in Nat \ {0} /\ Len(a.entries) <= LogCap
  BY <1>4, <1>6
<1>9. ASSUME NEW k \in 1..(Len(a.entries) - 1)
      PROVE  a.entries[k].level # "error"
  <2>1. k \in 1..Len(b.entries)
        /\ (~(Len(b.entries) < LogCap) => k + 1 \in 1..Len(b.entries))
    BY <1>4, <1>6, <1>3
  <2> QED
    BY <1>4, <1>5, <2>1
<1>10. log' \in [Calls -> Buffer]
  BY <1>1, <1>2, <1>4 DEF a, b
<1>11. LogsBounded'
  BY <1>2, <1>7, <1>8 DEF LogsBounded
<1> QED
  BY <1>4, <1>7, <1>8, <1>9, <1>10, <1>11

LEMMA TakeInv ==
  ASSUME JobInv, Take
  PROVE  JobInv'
<1> USE DEF JobInv, Take, callVars
<1>0. /\ queue \in Seq(Calls) /\ Len(queue) \in Nat /\ Len(queue) >= 1
      /\ current' = queue[1] /\ current' \in Calls
      /\ queue' \in Seq(Calls)
      /\ Len(queue') = Len(queue) - 1
      /\ \A k \in 1..Len(queue') : queue'[k] = queue[k + 1]
  BY DEF TypeOK
<1>1. TypeOK'
  BY <1>0, ManagerAssumption DEF TypeOK
<1>2. PlaceholderOwned'
  BY DEF PlaceholderOwned
<1>3. QueueMatchesRegistry'
  <2>1. \A k \in 1..Len(queue') : k + 1 \in 1..Len(queue)
    BY <1>0
  <2>2. \A k \in 1..Len(queue') :
          /\ jobs[jobId[queue'[k]]] = queue'[k]
          /\ status[queue'[k]] = "queued"
          /\ answer[queue'[k]] = "accepted"
    BY <1>0, <2>1 DEF QueueMatchesRegistry
  <2>3. \A k, l \in 1..Len(queue') : queue'[k] = queue'[l] => k = l
    <3> SUFFICES ASSUME NEW k \in 1..Len(queue'), NEW l \in 1..Len(queue'),
                        queue'[k] = queue'[l]
                 PROVE  k = l
      OBVIOUS
    <3>1. k + 1 = l + 1
      BY <1>0, <2>1 DEF QueueMatchesRegistry
    <3> QED
      BY <1>0, <3>1
  <2> QED
    BY <2>2, <2>3 DEF QueueMatchesRegistry
<1>4. WorkerOwnsEntry'
  BY <1>0 DEF WorkerOwnsEntry, QueueMatchesRegistry
<1>5. SlotIsBacked'
  <2> SUFFICES ASSUME NEW i \in Ids, HoldsSlot(i)
               PROVE  \/ pc[jobs[i]] \in Pending
                      \/ InQueue(jobs[i])'
                      \/ Held(jobs[i])'
    BY DEF SlotIsBacked, HoldsSlot
  <2> DEFINE d == jobs[i]
  <2>1. pc[d] \in Pending \/ InQueue(d)
    BY DEF SlotIsBacked, Held
  <2>2. ASSUME InQueue(d) PROVE InQueue(d)' \/ Held(d)'
    <3>1. PICK k \in 1..Len(queue) : queue[k] = d
      BY <2>2 DEF InQueue
    <3>2. CASE k = 1
      BY <1>0, <3>1, <3>2 DEF Held
    <3>3. CASE k # 1
      <4>1. k - 1 \in 1..Len(queue') /\ queue'[k - 1] = queue[k]
        BY <1>0, <3>3
      <4> QED
        BY <3>1, <4>1 DEF InQueue
    <3> QED
      BY <3>2, <3>3
  <2> QED
    BY <2>1, <2>2
<1>6. RefusalLeavesNoTrace' /\ CallsInStep' /\ PriorIsFinished'
  BY DEF RefusalLeavesNoTrace, CallsInStep, PriorIsFinished
<1>7. ErrorExplained' /\ LogsBounded'
  BY DEF ErrorExplained, LogsBounded
<1>8. HeldLeftQueue'
  <2>1. answer[current'] = "accepted"
    BY <1>0 DEF QueueMatchesRegistry
  <2>2. \A k \in 1..Len(queue') : queue'[k] # queue[1]
    BY <1>0 DEF QueueMatchesRegistry
  <2> QED
    BY <1>0, <2>1, <2>2 DEF HeldLeftQueue, InQueue
<1> QED
  BY <1>1, <1>2, <1>3, <1>4, <1>5, <1>6, <1>7, <1>8

LEMMA StartInv ==
  ASSUME JobInv, Start
  PROVE  JobInv'
<1> USE DEF JobInv, Start, callVars
<1>0. /\ current \in Calls
      /\ jobs[jobId[current]] = current
      /\ status' = [status EXCEPT ![current] = "splitting"]
      /\ log' = [log EXCEPT ![current] = Add(log[current], "info")]
  BY UpdatesHitHeldJob
<1>1. /\ log' \in [Calls -> Buffer]
      /\ LogsBounded'
      /\ LET lines == log'[current].entries
         IN  /\ Len(lines) \in Nat \ {0}
             /\ lines[Len(lines)].level = "info"
             /\ \A k \in 1..(Len(lines) - 1) : lines[k].level # "error"
  BY <1>0, LogKeepsBuffers DEF Levels
<1>2. TypeOK'
  BY <1>0, <1>1 DEF TypeOK, ActiveStatus
<1>3. /\ PlaceholderOwned' /\ QueueMatchesRegistry'
      /\ RefusalLeavesNoTrace' /\ CallsInStep' /\ PriorIsFinished'
  BY <1>0, UpdateKeepsCalls
<1>4. WorkerOwnsEntry'
  BY <1>0 DEF TypeOK, WorkerOwnsEntry
<1>5. SlotIsBacked'
  BY <1>0 DEF TypeOK, SlotIsBacked, HoldsSlot, Held, InQueue, ActiveStatus
<1>6. ErrorExplained'
  BY <1>0, <1>1 DEF TypeOK, ErrorExplained
<1>7. HeldLeftQueue'
  BY DEF HeldLeftQueue, InQueue
<1> QED
  BY <1>1, <1>2, <1>3, <1>4, <1>5, <1>6, <1>7

LEMMA ProgressInv ==
  ASSUME JobInv, NEW step, NEW total, Progress(step, total)
  PROVE  JobInv'
<1> USE DEF JobInv, Progress, callVars, workerVars
<1> DEFINE s == PhaseOf(step, total)
<1>a. s \in {"splitting", "tagging"}
  BY DEF PhaseOf
<1> HIDE DEF s
<1>0. /\ current \in Calls
      /\ jobs[jobId[current]] = current
      /\ status[current] \in {"splitting", "tagging"}
      /\ status' = [status EXCEPT ![current] = s]
  BY UpdatesHitHeldJob DEF s, WorkerOwnsEntry
<1>1. TypeOK'
  BY <1>a, <1>0 DEF TypeOK, ActiveStatus
<1>2. /\ PlaceholderOwned' /\ QueueMatchesRegistry'
      /\ RefusalLeavesNoTrace' /\ CallsInStep' /\ PriorIsFinished'
  BY <1>a, <1>0, UpdateKeepsCalls
<1>3. WorkerOwnsEntry'
  BY <1>a, <1>0 DEF TypeOK, WorkerOwnsEntry
<1>4. SlotIsBacked'
  BY <1>a, <1>0 DEF TypeOK, SlotIsBacked, HoldsSlot, Held, InQueue, ActiveStatus
<1>5. ErrorExplained' /\ LogsBounded'
  BY <1>a, <1>0 DEF TypeOK, ErrorExplained, LogsBounded
<1>6. HeldLeftQueue'
  BY DEF HeldLeftQueue, InQueue
<1> QED
  BY <1>1, <1>2, <1>3, <1>4, <1>5, <1>6

LEMMA LogLineInv ==
  ASSUME JobInv, NEW level \in {"info", "warn"}, LogLine(level)
  PROVE  JobInv'
<1> USE DEF JobInv, LogLine, callVars, workerVars
<1>0. /\ current \in Calls
      /\ status[current] # "error"
      /\ log' = [log EXCEPT ![current] = Add(log[current], level)]
  BY UpdatesHitHeldJob DEF ActiveStatus
<1>1. /\ log' \in [Calls -> Buffer]
      /\ LogsBounded'
      /\ LET lines == log'[current].entries
         IN  /\ Len(lines) \in Nat \ {0}
             /\ lines[Len(lines)].level = level
             /\ \A k \in 1..(Len(lines) - 1) : lines[k].level # "error"
  BY <1>0, LogKeepsBuffers DEF Levels
<1>2. TypeOK'
  BY <1>1 DEF TypeOK
<1>3. /\ PlaceholderOwned' /\ QueueMatchesRegistry'
      /\ RefusalLeavesNoTrace' /\ CallsInStep' /\ PriorIsFinished'
  BY DEF PlaceholderOwned, QueueMatchesRegistry, RefusalLeavesNoTrace,
         CallsInStep, PriorIsFinished
<1>4. WorkerOwnsEntry' /\ SlotIsBacked' /\ HeldLeftQueue'
  BY DEF WorkerOwnsEntry, SlotIsBacked, HeldLeftQueue, HoldsSlot, Held, InQueue
<1>5. ErrorExplained'
  BY <1>0, <1>1 DEF TypeOK, ErrorExplained
<1> QED
  BY <1>1, <1>2, <1>3, <1>4, <1>5

LEMMA SucceedInv ==
  ASSUME JobInv, Succeed
  PROVE  JobInv'
<1> USE DEF JobInv, Succeed, callVars
<1>0. /\ current \in Calls
      /\ jobs[jobId[current]] = current
      /\ status[current] \in ActiveStatus
      /\ status' = [status EXCEPT ![current] = "done"]
  BY UpdatesHitHeldJob
<1>1. TypeOK'
  BY <1>0 DEF TypeOK, TerminalStatus
<1>2. /\ PlaceholderOwned' /\ QueueMatchesRegistry'
      /\ RefusalLeavesNoTrace' /\ CallsInStep' /\ PriorIsFinished'
  BY <1>0, UpdateKeepsCalls
<1>3. WorkerOwnsEntry' /\ HeldLeftQueue'
  BY DEF WorkerOwnsEntry, HeldLeftQueue
<1>4. SlotIsBacked'
  BY <1>0 DEF TypeOK, SlotIsBacked, HoldsSlot, Held, InQueue, ActiveStatus
<1>5. ErrorExplained' /\ LogsBounded'
  BY <1>0 DEF TypeOK, ErrorExplained, LogsBounded, ActiveStatus
<1> QED
  BY <1>1, <1>2, <1>3, <1>4, <1>5

LEMMA FailInv ==
  ASSUME JobInv, Fail
  PROVE  JobInv'
<1> USE DEF JobInv, Fail, callVars
<1>0. /\ current \in Calls
      /\ jobs[jobId[current]] = current
      /\ status[current] \in ActiveStatus
      /\ status' = [status EXCEPT ![current] = "error"]
      /\ log' = [log EXCEPT ![current] = Add(log[current], "error")]
  BY UpdatesHitHeldJob
<1>1. /\ log' \in [Calls -> Buffer]
      /\ LogsBounded'
      /\ LET lines == log'[current].entries
         IN  /\ Len(lines) \in Nat \ {0}
             /\ lines[Len(lines)].level = "error"
             /\ \A k \in 1..(Len(lines) - 1) : lines[k].level # "error"
  BY <1>0, LogKeepsBuffers DEF Levels
<1>2. TypeOK'
  BY <1>0, <1>1 DEF TypeOK, TerminalStatus
<1>3. /\ PlaceholderOwned' /\ QueueMatchesRegistry'
      /\ RefusalLeavesNoTrace' /\ CallsInStep' /\ PriorIsFinished'
  BY <1>0, UpdateKeepsCalls
<1>4. WorkerOwnsEntry' /\ HeldLeftQueue'
  BY DEF WorkerOwnsEntry, HeldLeftQueue
<1>5. SlotIsBacked'
  BY <1>0 DEF TypeOK, SlotIsBacked, HoldsSlot, Held, InQueue, ActiveStatus
<1>6. ErrorExplained'
  BY <1>0, <1>1 DEF TypeOK, ErrorExplained
<1> QED
  BY <1>1, <1>2, <1>3, <1>4, <1>5, <1>6

LEMMA OtherStepsInv ==
  ASSUME JobInv, Leave \/ Cancel \/ UNCHANGED vars
  PROVE  JobInv'
<1>1. /\ UNCHANGED <<jobs, status, log, queue, callVars, current>>
      /\ ctxDone' \in BOOLEAN
      /\ worker' = worker \/ (worker = "select" /\ worker' = "gone")
  BY DEF JobInv, TypeOK, Leave, Cancel, vars, workerVars
<1> QED
  BY <1>1 DEF JobInv, TypeOK, PlaceholderOwned, QueueMatchesRegistry,
              WorkerOwnsEntry, SlotIsBacked, RefusalLeavesNoTrace, ErrorExplained,
              CallsInStep, PriorIsFinished, HeldLeftQueue, LogsBounded, HoldsSlot,
              Held, InQueue, callVars

-----------------------------------------------------------------------------
LEMMA NextKeepsInv == JobInv /\ [Next]_vars => JobInv'
<1> SUFFICES ASSUME JobInv, [Next]_vars PROVE JobInv'
  OBVIOUS
<1>1. ASSUME NEW c \in Calls, Enqueue(c) PROVE JobInv'
  BY <1>1, RefuseDuplicateInv, RegisterInv, CheckContextInv, SendInv, RejectInv
  DEF Enqueue
<1>2. ASSUME Work PROVE JobInv'
  <2>1. CASE Pipeline
    BY <2>1, ProgressInv, LogLineInv, SucceedInv, FailInv DEF Pipeline
  <2>2. CASE Take \/ Leave \/ Start
    BY <2>2, TakeInv, StartInv, OtherStepsInv
  <2> QED
    BY <1>2, <2>1, <2>2 DEF Work
<1>3. ASSUME Cancel \/ Stopped \/ UNCHANGED vars PROVE JobInv'
  BY <1>3, OtherStepsInv DEF Stopped
<1> QED
  BY <1>1, <1>2, <1>3 DEF Next

(* The inductive invariant holds in every behaviour of the manager.        *)
THEOREM JobInvariant == Spec => []JobInv
<1> QED
  BY InitJobInv, NextKeepsInv, PTL DEF Spec

(* Type correctness.                                                       *)
THEOREM TypeCorrect == Spec => []TypeOK
<1>1. JobInv => TypeOK
  BY DEF JobInv
<1> QED
  BY <1>1, JobInvariant, PTL

(* The placeholder a call registers stays its own until it returns.        *)
THEOREM PlaceholdersAreOwned == Spec => []PlaceholderOwned
<1>1. JobInv => PlaceholderOwned
  BY DEF JobInv
<1> QED
  BY <1>1, JobInvariant, PTL

(* The queue agrees with the registry, and an id waits in it at most once. *)
THEOREM QueueAgreesWithRegistry == Spec => []QueueMatchesRegistry
<1>1. JobInv => QueueMatchesRegistry
  BY DEF JobInv
<1> QED
  BY <1>1, JobInvariant, PTL

(* The worker's updates by id reach the State of the job it runs.          *)
THEOREM WorkerUpdatesOwnJob == Spec => []WorkerOwnsEntry
<1>1. JobInv => WorkerOwnsEntry
  BY DEF JobInv
<1> QED
  BY <1>1, JobInvariant, PTL

(* No id is blocked by an entry that nothing will ever finish.             *)
THEOREM SlotsAreBacked == Spec => []SlotIsBacked
<1>1. JobInv => SlotIsBacked
  BY DEF JobInv
<1> QED
  BY <1>1, JobInvariant, PTL

(* A refusal neither leaves an entry nor erases a finished job.            *)
THEOREM RefusalsLeaveNoTrace == Spec => []RefusalLeavesNoTrace
<1>1. JobInv => RefusalLeavesNoTrace
  BY DEF JobInv
<1> QED
  BY <1>1, JobInvariant, PTL

(* The retained log of a failed job ends with its one error line.          *)
THEOREM ErrorsAreExplained == Spec => []ErrorExplained
<1>1. JobInv => ErrorExplained
  BY DEF JobInv
<1> QED
  BY <1>1, JobInvariant, PTL

-----------------------------------------------------------------------------
(* Action properties *)

LEMMA StepKeepsFinished ==
  ASSUME JobInv, [Next]_vars, NEW c \in Calls, status[c] \in TerminalStatus
  PROVE  status'[c] = status[c] /\ log'[c] = log[c]
<1> USE DEF JobInv, TypeOK, ActiveStatus, TerminalStatus
<1>1. ASSUME NEW d \in Calls, Enqueue(d)
      PROVE  status'[c] = status[c] /\ log'[c] = log[c]
  <2>1. CASE Register(d)
    BY <2>1 DEF Register, CallsInStep
  <2>2. CASE ~Register(d)
    BY <1>1, <2>2 DEF Enqueue, RefuseDuplicate, CheckContext, Send, Reject
  <2> QED
    BY <2>1, <2>2
<1>2. ASSUME Start \/ Pipeline
      PROVE  status'[c] = status[c] /\ log'[c] = log[c]
  <2>1. worker \in {"taken", "splitting"}
    BY <1>2 DEF Start, Pipeline, Progress, LogLine, Succeed, Fail
  <2>2. current \in Calls /\ current # c
    BY <2>1, UpdatesHitHeldJob
  <2>3. \/ status' = status
        \/ \E s : status' = [status EXCEPT ![current] = s]
    BY <1>2, <2>1, UpdatesHitHeldJob
    DEF Start, Pipeline, Progress, LogLine, Succeed, Fail
  <2>4. \/ log' = log
        \/ \E l : log' = [log EXCEPT ![current] = l]
    BY <1>2, <2>1, UpdatesHitHeldJob
    DEF Start, Pipeline, Progress, LogLine, Succeed, Fail
  <2> QED
    BY <2>2, <2>3, <2>4
<1>3. ASSUME Take \/ Leave \/ Cancel \/ Stopped \/ UNCHANGED vars
      PROVE  status'[c] = status[c] /\ log'[c] = log[c]
  BY <1>3 DEF Take, Leave, Cancel, Stopped, vars
<1> QED
  BY <1>1, <1>2, <1>3 DEF Next, Work

(* A finished job keeps its status and its log.                            *)
THEOREM FinishedJobsAreFinal == Spec => TerminalIsFinal
<1>1. JobInv /\ [Next]_vars =>
        [\A c \in Calls : status[c] \in TerminalStatus =>
           status'[c] = status[c] /\ log'[c] = log[c]]_vars
  BY StepKeepsFinished
<1> QED
  BY <1>1, JobInvariant, PTL DEF Spec, TerminalIsFinal

LEMMA StepMovesEntries ==
  ASSUME JobInv, [Next]_vars, NEW i \in Ids, jobs'[i] # jobs[i]
  PROVE  \/ /\ ~HoldsSlot(i)
            /\ jobs'[i] # NoState
            /\ status[jobs'[i]] = "none"
         \/ /\ pc[jobs[i]] = "rejecting"
            /\ jobs'[i] = prior[jobs[i]]
            /\ jobs'[i] # NoState => status[jobs'[i]] \in TerminalStatus
<1> USE DEF JobInv
<1>1. PICK c \in Calls : Register(c) \/ Reject(c)
  BY DEF Next, Enqueue, RefuseDuplicate, CheckContext, Send, Work, Take, Leave,
         Start, Pipeline, Progress, LogLine, Succeed, Fail, Cancel, Stopped, vars
<1>2. CASE Register(c)
  BY <1>2, ManagerAssumption DEF Register, TypeOK, CallsInStep
<1>3. CASE Reject(c)
  <2>1. jobId[c] \in Ids /\ jobs[jobId[c]] = c
    BY <1>3 DEF Reject, TypeOK, PlaceholderOwned, Pending
  <2>2. jobId[c] = i /\ jobs'[i] = prior[c]
    BY <1>3, <2>1 DEF Reject, TypeOK
  <2>3. prior[c] # NoState => status[prior[c]] \in TerminalStatus
    BY <1>3 DEF Reject, PriorIsFinished, Pending
  <2> QED
    BY <1>3, <2>1, <2>2, <2>3 DEF Reject
<1> QED
  BY <1>1, <1>2, <1>3

(* An entry is replaced only when it does not block, and rolled back only  *)
(* to the finished job its placeholder replaced.                           *)
THEOREM EntriesMoveForward == Spec => EntryMovesForward
<1>1. JobInv /\ [Next]_vars =>
        [\A i \in Ids : jobs'[i] # jobs[i] =>
           \/ /\ ~HoldsSlot(i)
              /\ jobs'[i] # NoState
              /\ status[jobs'[i]] = "none"
           \/ /\ pc[jobs[i]] = "rejecting"
              /\ jobs'[i] = prior[jobs[i]]
              /\ jobs'[i] # NoState => status[jobs'[i]] \in TerminalStatus]_vars
  BY StepMovesEntries
<1> QED
  BY <1>1, JobInvariant, PTL DEF Spec, EntryMovesForward

-----------------------------------------------------------------------------
(* A call that begins after the context is cancelled can only be refused.  *)

BegunTooLate(c) ==
  /\ ctxDone
  /\ pc[c] # "sending"
  /\ answer[c] # "accepted"

LEMMA TooLateStaysTooLate ==
  ASSUME JobInv, [Next]_vars, NEW c \in Calls, BegunTooLate(c)
  PROVE  BegunTooLate(c)'
<1> USE DEF JobInv, TypeOK, BegunTooLate
<1>1. ASSUME NEW d \in Calls, Enqueue(d) PROVE BegunTooLate(c)'
  BY <1>1 DEF Enqueue, RefuseDuplicate, Register, CheckContext, Send, Reject
<1>2. ASSUME Work \/ Cancel \/ Stopped \/ UNCHANGED vars PROVE BegunTooLate(c)'
  BY <1>2 DEF Work, Take, Leave, Start, Pipeline, Progress, LogLine, Succeed,
              Fail, Cancel, Stopped, vars, callVars
<1> QED
  BY <1>1, <1>2 DEF Next

(* An Enqueue made once the context is done never answers that the job is  *)
(* queued.                                                                 *)
THEOREM LateCallsAreRefused == Spec => NotAcceptedAfterCancel
<1> SUFFICES ASSUME NEW c \in Calls
             PROVE  Spec => [](ctxDone /\ pc[c] = "idle" => [](answer[c] # "accepted"))
  BY DEF NotAcceptedAfterCancel
<1>1. JobInv /\ ctxDone /\ pc[c] = "idle" => BegunTooLate(c)
  BY DEF JobInv, CallsInStep, BegunTooLate
<1>2. JobInv /\ BegunTooLate(c) /\ [Next]_vars => BegunTooLate(c)'
  BY TooLateStaysTooLate
<1>3. BegunTooLate(c) => answer[c] # "accepted"
  BY DEF BegunTooLate
<1> QED
  BY <1>1, <1>2, <1>3, JobInvariant, PTL DEF Spec

=============================================================================
