------------------------- MODULE JobManagerRefinement -------------------------
(***************************************************************************)
(* JobManager implements SplitService.  The mapping hides what Enqueue and *)
(* the worker do in several steps: a placeholder is not yet an accepted    *)
(* job, so the entry under it still counts, and the job the worker has     *)
(* received but not started is still first in line.                        *)
(***************************************************************************)
EXTENDS JobManager

PhaseOfCall(c) ==
  CASE answer[c] \in Refusals -> "refused"
    [] answer[c] = "none"     -> "new"
    [] OTHER -> CASE status[c] = "queued"          -> "waiting"
                  [] status[c] \in TerminalStatus  -> status[c]
                  [] OTHER                         -> "running"

LatestAccepted(i) ==
  IF jobs[i] # NoState /\ pc[jobs[i]] \in Pending THEN prior[jobs[i]] ELSE jobs[i]

WaitingLine == IF worker = "taken" THEN <<current>> \o queue ELSE queue

Service == INSTANCE SplitService WITH
  Room   <- QueueCap + 1,
  NoCall <- NoState,
  album  <- jobId,
  phase  <- [c \in Calls |-> PhaseOfCall(c)],
  latest <- [i \in Ids |-> LatestAccepted(i)],
  line   <- WaitingLine

(* Every step of Enqueue and of the worker is one step of the service or   *)
(* leaves what the service shows unchanged: in particular accepted jobs    *)
(* begin one at a time in the order they were accepted (the FIFO promise   *)
(* of Manager), and a refused split changes nothing.                       *)
ImplementsService == Service!Spec

=============================================================================
