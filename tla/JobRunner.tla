------------------------------ MODULE JobRunner ------------------------------
(***************************************************************************)
(* services/jobs.py over agent/turns.py and agent/orchestrator.py: the      *)
(* durable jobs of one project, the turns they run, and the processes       *)
(* (JobRunner instances, `Runners') that admit, execute, cancel, approve,   *)
(* retry and recover them.  A process may crash at any step and start       *)
(* again; several may serve the same project directory.                     *)
(*                                                                          *)
(* An action is one section under a lock, one durable write, or one read    *)
(* whose result is used later: everything between two such points is        *)
(* invisible to the other threads.  Two writes made under one lock are two  *)
(* steps, because a crash or a thread that does not take the lock can come  *)
(* between them.                                                            *)
(*                                                                          *)
(* A definition whose name ends in an underscore and a word is a mutant: the *)
(* definition after it with a plausible bug, which no specification uses.   *)
(***************************************************************************)
EXTENDS TurnRecords

CONSTANTS
  Runners,          \* JobRunner processes
  Jobs,             \* job ids; their number plays MAX_PROJECT_JOBS
  Turns,            \* turn ids, all in the thread "main"
  McpCalls,         \* calls submitted whole by submit_mcp_tool (source "mcp")
  ModelCalls,       \* direct operations the model selected (source "model")
  TrustedCalls,     \* explicit user shortcuts (source "user")
  ReadCalls,        \* calls of tools whose effect is "read"
  GuardedCalls,     \* calls whose effect is "authoritative_write" or risk "high"
  Policies,         \* permission modes a process may be started with
  ProjectReceipts,  \* whether open_project exposes per-call tool_receipts
  MaxRevision,      \* bound on the project revision
  None

ASSUME CallAssumption ==
  /\ McpCalls \cup ModelCalls \cup TrustedCalls \cup ReadCalls \cup GuardedCalls \subseteq Calls
  /\ ReadCalls \cap GuardedCalls = {}
ASSUME PolicyAssumption == Policies \subseteq {"workspace", "review", "read_only"}
ASSUME BoundAssumption == MaxRevision \in Nat /\ ProjectReceipts \in BOOLEAN
ASSUME NoneAssumption == None \notin Runners \cup Jobs \cup Turns \cup Calls \cup Policies

VARIABLES
  job,        \* jobs/<id>.json
  turn,       \* agent-turns/<id>.json
  revision,   \* project revision
  applied,    \* history: the revision a call's effect produced, 0 if none
  runner,     \* life cycle of each process
  policy,     \* permission mode each process runs with
  todo,       \* jobs, then orphan turns, the starting process has still to recover
  lease,      \* holder of each job's execution lease
  worker,     \* worker (or recovery section) of a process for a job
  cancelSet,  \* jobs whose in-process cancel event is set
  cancelling, \* cancel() calls in progress
  admission   \* the thread that holds the jobs-directory lock

vars == <<job, turn, revision, applied, runner, policy, todo, lease, worker,
          cancelSet, cancelling, admission>>

Active    == {"queued", "running", "cancel_requested"}
Retryable == {"failed", "interrupted", "cancelled"}
Finished  == Retryable \cup {"completed", "completed_after_cancel"}

Origins == {"submit", "retry", "approval"}

\* started, cancelled, error and result stand for started_at,
\* cancel_requested_at, error and result being set; completed_at is set with a
\* finished status.
Job == [status : Active \cup Finished \cup {"absent"}, turn : Turns \cup {None},
        policy : Policies \cup {None}, origin : Origins,
        started : BOOLEAN, cancelled : BOOLEAN, error : BOOLEAN, result : BOOLEAN]

NoJob == [status |-> "absent", turn |-> None, policy |-> None, origin |-> "submit",
          started |-> FALSE, cancelled |-> FALSE, error |-> FALSE, result |-> FALSE]

\* Mutant: a status that JOB_STATUSES does not list.
QueuedJob_Pending(r, t, origin) ==
  [NoJob EXCEPT !.status = "pending", !.turn = t, !.policy = policy[r], !.origin = origin]

QueuedJob(r, t, origin) ==
  [NoJob EXCEPT !.status = "queued", !.turn = t, !.policy = policy[r], !.origin = origin]

\* _validate_job: what list(), get(), cancel() and recovery demand of a record.
\* A record that fails it is always a finished one (see JobRecordsValid), so the
\* checks on records a worker still runs are left out.
JobWellFormed(x) ==
  /\ x.status \in {"queued", "running", "cancel_requested", "completed",
                   "completed_after_cancel", "cancelled"} => ~x.error
  /\ x.status \in {"failed", "interrupted"} => x.error
  /\ x.result <=> x.status \in {"completed", "completed_after_cancel"}
  /\ x.status = "queued" => ~x.started /\ ~x.cancelled
  /\ x.status \in {"running", "completed"} => x.started /\ ~x.cancelled
  /\ x.status = "completed_after_cancel" => x.started /\ x.cancelled
  /\ x.status \in {"cancel_requested", "cancelled"} => x.cancelled
  /\ x.status = "interrupted" => x.started

\* Steps of a worker thread (_run, _run_owned, run_turn) and of a recovery
\* section, which holds the same lease.
RecoverySteps == {"recoverQueued", "recoverCancelled", "recoverFailed", "recoverRunning"}
ClosingSteps  == {"closeCancelled", "closeFailed"}
TurnSteps     == {"load", "begin", "resume", "reconcileUnmarked", "reconcileMarked", "check",
                  "think", "decide", "beginDispatch", "execute", "receipt", "ambiguous",
                  "failTurn"}
WorkerSteps   == {"idle", "pending", "leased", "return", "raise"}
                 \cup ClosingSteps \cup TurnSteps \cup RecoverySteps

\* `call' is the tool call a step works on; `seen' is the record read under the
\* path lock by a section that writes it back after it has closed the turn.
IdleWorker  == [pc |-> "idle", call |-> None, seen |-> NoJob]
NoCancel    == [by |-> None, step |-> "none"]
NoAdmission == [by |-> None, step |-> "free", turn |-> None, call |-> None, job |-> None]

Init ==
  /\ job = [j \in Jobs |-> NoJob]
  /\ turn = [t \in Turns |-> AbsentTurn]
  /\ revision = 0
  /\ applied = [t \in Turns |-> [c \in Calls |-> 0]]
  /\ runner = [r \in Runners |-> "down"]
  /\ policy \in [Runners -> Policies]
  /\ todo = [r \in Runners |-> {}]
  /\ lease = [j \in Jobs |-> None]
  /\ worker = [r \in Runners |-> [j \in Jobs |-> IdleWorker]]
  /\ cancelSet = [r \in Runners |-> {}]
  /\ cancelling = [j \in Jobs |-> NoCancel]
  /\ admission = NoAdmission

-----------------------------------------------------------------------------
\* Shared pieces.

ActiveJobs      == {j \in Jobs : job[j].status \in Active}
RecordsReadable == \A j \in Jobs : JobWellFormed(job[j])
UnclosedTurns   == {t \in Turns : turn[t].status \in OpenTurns}

\* The path lock of a job, held over two writes by a closing worker or a
\* recovery section; every other section under it is a single action.
PathFree(j) ==
  \A r \in Runners :
    worker[r][j].pc \notin ClosingSteps \cup (RecoverySteps \ {"recoverQueued"})

\* Mutant: the durable authority snapshot is not compared.
Authorised_Always(r, j) == TRUE

Authorised(r, j) == job[j].policy = policy[r]

\* store.cancel as _cancel_agent_turn calls it: a refusal is swallowed.
TurnCancelled(t) == IF CanCancel(turn[t]) THEN Cancel(turn[t]) ELSE turn[t]

SetTurn(t, record) == turn' = [turn EXCEPT ![t] = record]

Goto(r, j, pc) == worker' = [worker EXCEPT ![r][j] = [IdleWorker EXCEPT !.pc = pc]]
GotoCall(r, j, pc, c) ==
  worker' = [worker EXCEPT ![r][j] = [IdleWorker EXCEPT !.pc = pc, !.call = c]]
GotoSeen(r, j, pc) ==
  worker' = [worker EXCEPT ![r][j] = [IdleWorker EXCEPT !.pc = pc, !.seen = job[j]]]

\* _schedule: a fresh cancel event and a future in the pool; a pool that was shut
\* down refuses the future, and the record stays queued.
Schedule(r, j) ==
  \/ /\ runner[r] # "closing"
     /\ Goto(r, j, "pending")
     /\ cancelSet' = [cancelSet EXCEPT ![r] = @ \ {j}]
  \/ /\ runner[r] = "closing"
     /\ UNCHANGED <<worker, cancelSet>>

\* The end of _run: the lease is released and the event popped.
Leave(r, j) ==
  /\ Goto(r, j, "idle")
  /\ lease' = [lease EXCEPT ![j] = None]
  /\ cancelSet' = [cancelSet EXCEPT ![r] = @ \ {j}]

runnerVars   == <<runner, policy, todo>>
projectVars  == <<revision, applied>>
requestVars  == <<cancelling, admission>>

-----------------------------------------------------------------------------
\* Process life cycle.

\* JobRunner.__init__: recovery starts from list(), which refuses to read a
\* malformed record.
Boot(r, mode) ==
  /\ runner[r] = "down"
  /\ RecordsReadable
  /\ runner' = [runner EXCEPT ![r] = "recovering"]
  /\ policy' = [policy EXCEPT ![r] = mode]
  /\ todo' = [todo EXCEPT ![r] = ActiveJobs]
  /\ UNCHANGED <<job, turn, projectVars, lease, worker, cancelSet, requestVars>>

\* The operating system kills the process: threads, events and flocks vanish.
Crash(r) ==
  /\ runner[r] # "down"
  /\ runner' = [runner EXCEPT ![r] = "down"]
  /\ todo' = [todo EXCEPT ![r] = {}]
  /\ lease' = [j \in Jobs |-> IF lease[j] = r THEN None ELSE lease[j]]
  /\ worker' = [worker EXCEPT ![r] = [j \in Jobs |-> IdleWorker]]
  /\ cancelSet' = [cancelSet EXCEPT ![r] = {}]
  /\ cancelling' = [j \in Jobs |-> IF cancelling[j].by = r THEN NoCancel ELSE cancelling[j]]
  /\ admission' = IF admission.by = r THEN NoAdmission ELSE admission
  /\ UNCHANGED <<job, turn, projectVars, policy>>

\* shutdown: futures that have not started are dropped, running workers go on.
Shutdown(r) ==
  /\ runner[r] = "up"
  /\ runner' = [runner EXCEPT ![r] = "closing"]
  /\ worker' = [worker EXCEPT ![r] =
                  [j \in Jobs |-> IF @[j].pc = "pending" THEN IdleWorker ELSE @[j]]]
  /\ UNCHANGED <<job, turn, projectVars, policy, todo, lease, cancelSet, requestVars>>

-----------------------------------------------------------------------------
\* Recovery: _recover_jobs, one job after the other, then _recover_orphan_turns.

Recovering(r) ==
  /\ runner[r] = "recovering"
  /\ admission.by # r
  /\ \A j \in Jobs : worker[r][j].pc \notin RecoverySteps

\* The lease is probed without waiting; a job that is executing elsewhere, or
\* that is no longer active, is left alone.
RecoverySkip(r, j) ==
  /\ Recovering(r)
  /\ j \in todo[r]
  /\ \/ lease[j] # None
     \/ PathFree(j) /\ job[j].status \notin Active
  /\ todo' = [todo EXCEPT ![r] = @ \ {j}]
  /\ UNCHANGED <<job, turn, projectVars, runner, policy, lease, worker, cancelSet, requestVars>>

\* Mutant: only a queued turn is closed.
TurnInterrupted_QueuedOnly(t) ==
  IF CanUpdate(turn[t], "interrupted") /\ turn[t].status = "queued"
  THEN Update(turn[t], "interrupted") ELSE turn[t]

\* Mutant: the turn is closed and its call is left.
TurnInterrupted_TurnOnly(t) ==
  IF turn[t].status \in {"queued", "running"}
  THEN [turn[t] EXCEPT !.status = "interrupted"] ELSE turn[t]

\* _interrupt_recovered_turn: a refused update (a queued turn that already
\* holds a proposed call, a turn that waits or is closed) is swallowed.
TurnInterrupted(t) ==
  CASE turn[t].status = "queued" /\ CanUpdate(turn[t], "interrupted") ->
         Update(turn[t], "interrupted")
    [] turn[t].status = "running" /\ CanInterruptActive(turn[t]) ->
         InterruptActive(turn[t])
    [] OTHER -> turn[t]

\* Under the lease and the path lock: the turn is closed first, then the job.
RecoveryClaim(r, j) ==
  /\ Recovering(r)
  /\ j \in todo[r]
  /\ lease[j] = None
  /\ PathFree(j)
  /\ job[j].status \in Active
  /\ lease' = [lease EXCEPT ![j] = r]
  /\ todo' = [todo EXCEPT ![r] = @ \ {j}]
  /\ LET t == job[j].turn IN
     \/ /\ job[j].status = "cancel_requested"
        /\ SetTurn(t, TurnCancelled(t))
        /\ GotoSeen(r, j, "recoverCancelled")
     \/ /\ job[j].status = "queued"
        /\ Authorised(r, j)
        /\ GotoSeen(r, j, "recoverQueued")
        /\ UNCHANGED turn
     \/ /\ job[j].status = "queued"
        /\ ~Authorised(r, j)
        /\ SetTurn(t, TurnCancelled(t))
        /\ GotoSeen(r, j, "recoverFailed")
     \/ /\ job[j].status = "running"
        /\ SetTurn(t, TurnInterrupted(t))
        /\ GotoSeen(r, j, "recoverRunning")
  /\ UNCHANGED <<job, projectVars, runner, policy, cancelSet, requestVars>>

RecoveryWrite(r, j) ==
  LET pc   == worker[r][j].pc
      seen == worker[r][j].seen
  IN
  /\ pc \in RecoverySteps
  /\ lease' = [lease EXCEPT ![j] = None]
  /\ \/ /\ pc = "recoverQueued"
        /\ Schedule(r, j)
        /\ UNCHANGED job
     \/ /\ pc = "recoverCancelled"
        /\ job' = [job EXCEPT ![j] = [seen EXCEPT !.status = "cancelled"]]
        /\ Goto(r, j, "idle")
        /\ UNCHANGED cancelSet
     \/ /\ pc = "recoverFailed"
        /\ job' = [job EXCEPT ![j] = [seen EXCEPT !.status = "failed", !.error = TRUE]]
        /\ Goto(r, j, "idle")
        /\ UNCHANGED cancelSet
     \/ /\ pc = "recoverRunning"
        /\ job' = [job EXCEPT ![j] = [seen EXCEPT !.status = "interrupted", !.error = TRUE]]
        /\ Goto(r, j, "idle")
        /\ UNCHANGED cancelSet
  /\ UNCHANGED <<turn, projectVars, runnerVars, requestVars>>

\* Mutant: a turn whose job was never written is not an orphan.
OrphanClosed_RunningOnly(t) ==
  IF turn[t].status = "running" THEN InterruptActive(turn[t]) ELSE turn[t]

\* Running turns are interrupted, queued ones cancelled.
OrphanClosed(t) ==
  CASE turn[t].status = "running" -> InterruptActive(turn[t])
    [] turn[t].status = "queued"  -> Cancel(turn[t])
    [] OTHER -> turn[t]

\* _recover_orphan_turns, under the jobs-directory lock: only when no job is active
\* and the record limit is not reached.
RecoverOrphans(r) ==
  LET closing == ActiveJobs = {} /\ \E j \in Jobs : job[j].status = "absent" IN
  /\ Recovering(r)
  /\ todo[r] = {}
  /\ admission = NoAdmission
  /\ RecordsReadable
  /\ \/ /\ closing
        /\ todo' = [todo EXCEPT ![r] = {t \in Turns : turn[t].status \in {"queued", "running"}}]
        /\ admission' = [NoAdmission EXCEPT !.by = r, !.step = "orphans"]
        /\ UNCHANGED runner
     \/ /\ ~closing
        /\ runner' = [runner EXCEPT ![r] = "up"]
        /\ UNCHANGED <<todo, admission>>
  /\ UNCHANGED <<job, turn, projectVars, policy, lease, worker, cancelSet, cancelling>>

CloseOrphan(r, t) ==
  /\ admission.by = r
  /\ admission.step = "orphans"
  /\ t \in todo[r]
  /\ SetTurn(t, OrphanClosed(t))
  /\ todo' = [todo EXCEPT ![r] = @ \ {t}]
  /\ UNCHANGED <<job, projectVars, runner, policy, lease, worker, cancelSet, requestVars>>

OrphansClosed(r) ==
  /\ admission.by = r
  /\ admission.step = "orphans"
  /\ todo[r] = {}
  /\ runner' = [runner EXCEPT ![r] = "up"]
  /\ admission' = NoAdmission
  /\ UNCHANGED <<job, turn, projectVars, policy, todo, lease, worker, cancelSet, cancelling>>

-----------------------------------------------------------------------------
\* Admission: one request at a time holds the jobs-directory lock.  The write of
\* the job record, the end of the lock and _schedule are one step.

\* Mutant: no look at the active jobs.
CanAdmit_Unchecked(r) ==
  /\ runner[r] = "up"
  /\ admission = NoAdmission
  /\ RecordsReadable
  /\ \E j \in Jobs : job[j].status = "absent"

CanAdmit(r) ==
  /\ runner[r] = "up"
  /\ admission = NoAdmission
  /\ RecordsReadable
  /\ ActiveJobs = {}
  /\ \E j \in Jobs : job[j].status = "absent"

\* A new job has an id of its own; which one makes no difference.
FreshJob == CHOOSE j \in Jobs : job[j].status = "absent"

\* submit and submit_mcp_tool begin the turn first.  The turn store refuses a
\* second open turn of the thread.
BeginTurn(r, t, record) ==
  /\ CanAdmit(r)
  /\ turn[t].status = "absent"
  /\ UnclosedTurns = {}
  /\ SetTurn(t, record)
  /\ admission' = [NoAdmission EXCEPT !.by = r, !.step = "begun", !.turn = t]
  /\ UNCHANGED <<job, projectVars, runnerVars, lease, worker, cancelSet, cancelling>>

Submit(r, t) == BeginTurn(r, t, QueuedTurn)

SubmitMcpTool(r, t, c) ==
  /\ c \in McpCalls
  /\ BeginTurn(r, t, BeginWithTool(c, revision))

CreateJob(r, j) ==
  /\ admission.by = r
  /\ admission.step = "begun"
  /\ j = FreshJob
  /\ job' = [job EXCEPT ![j] = QueuedJob(r, admission.turn, "submit")]
  /\ admission' = NoAdmission
  /\ Schedule(r, j)
  /\ UNCHANGED <<turn, projectVars, runnerVars, lease, cancelling>>

\* retry: the new job names the turn of the old one, which its worker resumes.
Retry(r, previous, j) ==
  /\ CanAdmit(r)
  /\ job[previous].status \in Retryable
  /\ Authorised(r, previous)
  /\ j = FreshJob
  /\ job' = [job EXCEPT ![j] = QueuedJob(r, job[previous].turn, "retry")]
  /\ Schedule(r, j)
  /\ UNCHANGED <<turn, projectVars, runnerVars, lease, requestVars>>

\* resolve_approval(approve=True): the continuation is written before the
\* checkpoint is resolved.  The prompt the user answers may be out of date.
CreateContinuation(r, t, c, j) ==
  /\ CanAdmit(r)
  /\ turn[t].tool[c].approval # "absent"
  /\ j = FreshJob
  /\ job' = [job EXCEPT ![j] = QueuedJob(r, t, "approval")]
  /\ admission' = [by |-> r, step |-> "approving", turn |-> t, call |-> c, job |-> j]
  /\ UNCHANGED <<turn, projectVars, runnerVars, lease, worker, cancelSet, cancelling>>

ApproveCheckpoint(r) ==
  LET t == admission.turn
      c == admission.call
  IN
  /\ admission.by = r
  /\ admission.step = "approving"
  /\ IF CanApprove(turn[t], c, turn[t].tool[c].base, revision)
     THEN /\ SetTurn(t, Approve(turn[t], c))
          /\ admission' = NoAdmission
          /\ Schedule(r, admission.job)
     ELSE /\ admission' = [admission EXCEPT !.step = "refused"]
          /\ UNCHANGED <<turn, worker, cancelSet>>
  /\ UNCHANGED <<job, projectVars, runnerVars, lease, cancelling>>

\* The record held in memory since it was created is written back as failed,
\* without the path lock.
FailContinuation(r) ==
  LET j == admission.job IN
  /\ admission.by = r
  /\ admission.step = "refused"
  /\ job' = [job EXCEPT ![j] = [QueuedJob(r, admission.turn, "approval")
                                  EXCEPT !.status = "failed", !.error = TRUE]]
  /\ admission' = NoAdmission
  /\ UNCHANGED <<turn, projectVars, runnerVars, lease, worker, cancelSet, cancelling>>

\* resolve_approval(approve=False): no job, no lock but the turn store's.
DenyCheckpoint(r, t, c) ==
  /\ runner[r] = "up"
  /\ CanResolveApproval(turn[t], c, turn[t].tool[c].base)
  /\ SetTurn(t, Deny(turn[t], c, TRUE))
  /\ UNCHANGED <<job, projectVars, runnerVars, lease, worker, cancelSet, requestVars>>

-----------------------------------------------------------------------------
\* cancel(): mark the record, set the event of this process, and, when the job
\* was still queued, close the turn and then the record.

CancelRequest(r, j) ==
  /\ runner[r] = "up"
  /\ cancelling[j] = NoCancel
  /\ PathFree(j)
  /\ job[j].status \in Active
  /\ JobWellFormed(job[j])
  /\ job' = [job EXCEPT ![j].status = "cancel_requested", ![j].cancelled = TRUE]
  /\ cancelling' = [cancelling EXCEPT ![j] =
       [by |-> r, step |-> IF job[j].status = "queued" THEN "signalQueued" ELSE "signal"]]
  /\ UNCHANGED <<turn, projectVars, runnerVars, lease, worker, cancelSet, admission>>

HasEvent(r, j) == worker[r][j].pc \notin {"idle"} \cup RecoverySteps

CancelSignal(r, j) ==
  /\ cancelling[j].by = r
  /\ cancelling[j].step \in {"signal", "signalQueued"}
  /\ cancelSet' = [cancelSet EXCEPT ![r] = IF HasEvent(r, j) THEN @ \cup {j} ELSE @]
  /\ cancelling' = [cancelling EXCEPT ![j] =
       IF @.step = "signal" THEN NoCancel ELSE [@ EXCEPT !.step = "turn"]]
  /\ UNCHANGED <<job, turn, projectVars, runnerVars, lease, worker, admission>>

CancelTurnOfJob(r, j) ==
  /\ cancelling[j] = [by |-> r, step |-> "turn"]
  /\ SetTurn(job[j].turn, TurnCancelled(job[j].turn))
  /\ cancelling' = [cancelling EXCEPT ![j].step = "close"]
  /\ UNCHANGED <<job, projectVars, runnerVars, lease, worker, cancelSet, admission>>

CancelClose(r, j) ==
  /\ cancelling[j] = [by |-> r, step |-> "close"]
  /\ PathFree(j)
  /\ job' = [job EXCEPT ![j].status = IF @ = "cancel_requested" THEN "cancelled" ELSE @]
  /\ cancelling' = [cancelling EXCEPT ![j] = NoCancel]
  /\ UNCHANGED <<turn, projectVars, runnerVars, lease, worker, cancelSet, admission>>

\* Another entry point of the product changes the project.
ExternalEdit ==
  /\ revision < MaxRevision
  /\ revision' = revision + 1
  /\ UNCHANGED <<job, turn, applied, runnerVars, lease, worker, cancelSet, requestVars>>

-----------------------------------------------------------------------------
\* A worker thread: _run, _run_owned and the orchestrator's run_turn.

At(r, j, pc) == worker[r][j].pc = pc

\* Mutant: the lease is taken whether or not another process holds it.
ClaimLease_Blind(r, j) ==
  /\ At(r, j, "pending")
  /\ lease' = [lease EXCEPT ![j] = r]
  /\ Goto(r, j, "leased")
  /\ UNCHANGED <<job, turn, projectVars, runnerVars, cancelSet, requestVars>>

\* A pooled future starts, if the process lives, by taking the lease; when
\* another process holds it the job is dropped without a word.
ClaimLease(r, j) ==
  /\ At(r, j, "pending")
  /\ \/ /\ lease[j] = None
        /\ lease' = [lease EXCEPT ![j] = r]
        /\ Goto(r, j, "leased")
        /\ UNCHANGED cancelSet
     \/ /\ lease[j] # None
        /\ Goto(r, j, "idle")
        /\ cancelSet' = [cancelSet EXCEPT ![r] = @ \ {j}]
        /\ UNCHANGED lease
  /\ UNCHANGED <<job, turn, projectVars, runnerVars, requestVars>>

\* Mutant: only this process's event is asked.
CancelSeen_EventOnly(r, j) == j \in cancelSet[r]

\* The event is set, or the durable record asks for it.
CancelSeen(r, j) == j \in cancelSet[r] \/ job[j].status = "cancel_requested"

\* Mutant: only the event is asked, and any active record starts.
StartJob_EventOnly(r, j) ==
  /\ At(r, j, "leased")
  /\ PathFree(j)
  /\ j \notin cancelSet[r]
  /\ job[j].status \in Active
  /\ job' = [job EXCEPT ![j].status = "running", ![j].started = TRUE]
  /\ Goto(r, j, "load")
  /\ UNCHANGED <<turn, projectVars, runnerVars, lease, cancelSet, requestVars>>

\* _run_owned, first section under the path lock: the job starts when nobody
\* cancelled it and it is still queued under this process's policy.
StartJob(r, j) ==
  /\ At(r, j, "leased")
  /\ PathFree(j)
  /\ ~CancelSeen(r, j)
  /\ job[j].status = "queued"
  /\ Authorised(r, j)
  /\ job' = [job EXCEPT ![j].status = "running", ![j].started = TRUE]
  /\ Goto(r, j, "load")
  /\ UNCHANGED <<turn, projectVars, runnerVars, lease, cancelSet, requestVars>>

\* A cancelled or no longer authorised job closes its turn, then its record.
RefuseJob(r, j) ==
  /\ At(r, j, "leased")
  /\ PathFree(j)
  /\ \/ CancelSeen(r, j) /\ GotoSeen(r, j, "closeCancelled")
     \/ /\ ~CancelSeen(r, j)
        /\ job[j].status = "queued"
        /\ ~Authorised(r, j)
        /\ GotoSeen(r, j, "closeFailed")
  /\ SetTurn(job[j].turn, TurnCancelled(job[j].turn))
  /\ UNCHANGED <<job, projectVars, runnerVars, lease, cancelSet, requestVars>>

CloseJob(r, j) ==
  LET seen == worker[r][j].seen IN
  /\ worker[r][j].pc \in ClosingSteps
  /\ job' = [job EXCEPT ![j] =
       IF At(r, j, "closeCancelled") THEN [seen EXCEPT !.status = "cancelled"]
       ELSE [seen EXCEPT !.status = "failed", !.error = TRUE]]
  /\ Leave(r, j)
  /\ UNCHANGED <<turn, projectVars, runnerVars, requestVars>>

\* Somebody else has dealt with the job.
DropJob(r, j) ==
  /\ At(r, j, "leased")
  /\ PathFree(j)
  /\ ~CancelSeen(r, j)
  /\ job[j].status # "queued"
  /\ Leave(r, j)
  /\ UNCHANGED <<job, turn, projectVars, runnerVars, requestVars>>

\* The worker moves on and changes nothing but, perhaps, its turn.
OnlyWorker == UNCHANGED <<job, projectVars, runnerVars, lease, cancelSet, requestVars>>

\* _has_unfinished_model_direct_intent
UnfinishedModelIntent(t) ==
  \E c \in ModelCalls : turn[t].tool[c].status \notin {"absent", "completed"}

RunningCall(t) ==
  LET running == {c \in Calls : turn[t].tool[c].status = "running"}
  IN IF running = {} THEN None ELSE CHOOSE c \in running : TRUE

LoadTurn(r, j) ==
  LET t == job[j].turn IN
  /\ At(r, j, "load")
  /\ \/ turn[t].status \in {"completed", "waiting_approval"} /\ Goto(r, j, "return")
     \/ turn[t].status = "queued" /\ Goto(r, j, "begin")
     \/ turn[t].status = "running" /\ RunningCall(t) = None /\ Goto(r, j, "check")
     \/ /\ turn[t].status = "running"
        /\ RunningCall(t) # None
        /\ GotoCall(r, j, IF turn[t].tool[RunningCall(t)].dispatched
                          THEN "reconcileMarked" ELSE "reconcileUnmarked", RunningCall(t))
     \/ /\ turn[t].status \in Retryable
        /\ NonReplayable(turn[t]) \/ UnfinishedModelIntent(t)
        /\ Goto(r, j, "raise")
     \/ /\ turn[t].status \in Retryable
        /\ ~NonReplayable(turn[t]) /\ ~UnfinishedModelIntent(t)
        /\ Goto(r, j, "resume")
  /\ UNCHANGED turn
  /\ OnlyWorker

\* A step whose store method refuses raises out of run_turn.
WriteOrRaise(r, j, accepted, record, pc) ==
  \/ /\ accepted
     /\ SetTurn(job[j].turn, record)
     /\ Goto(r, j, pc)
  \/ /\ ~accepted
     /\ Goto(r, j, "raise")
     /\ UNCHANGED turn

\* A turn that has just begun or been reopened holds no running call, so
\* _recover_active_call finds nothing to do.
BeginTurnRun(r, j) ==
  LET record == turn[job[j].turn] IN
  /\ At(r, j, "begin")
  /\ WriteOrRaise(r, j, CanUpdate(record, "running"), Update(record, "running"), "check")
  /\ OnlyWorker

ResumeTurnRun(r, j) ==
  LET record == turn[job[j].turn] IN
  /\ At(r, j, "resume")
  /\ WriteOrRaise(r, j, CanResume(record), Resume(record), "check")
  /\ OnlyWorker

\* _recover_active_call: the call found running was approved and not dispatched
\* when the turn was loaded, or its effect is proved by a receipt, or it is ambiguous.
EffectReconciled(t, c) ==
  /\ ProjectReceipts
  /\ revision > turn[t].tool[c].base
  /\ applied[t][c] = revision

ReconcileCall(r, j) ==
  LET t == job[j].turn
      c == worker[r][j].call
      untouched == At(r, j, "reconcileUnmarked") /\ revision = turn[t].tool[c].base
  IN
  /\ At(r, j, "reconcileUnmarked") \/ At(r, j, "reconcileMarked")
  /\ IF untouched THEN Goto(r, j, "check") /\ UNCHANGED turn
     ELSE IF EffectReconciled(t, c)
     THEN WriteOrRaise(r, j, CanUpdateToolRun(turn[t], c, "completed", TRUE),
                       UpdateToolRun(turn[t], c, "completed", TRUE), "check")
     ELSE GotoCall(r, j, "ambiguous", c) /\ UNCHANGED turn
  /\ OnlyWorker

\* Top of the loop, a safe boundary: a requested cancellation closes the turn.
StopAtBoundary(r, j) ==
  LET record == turn[job[j].turn] IN
  /\ At(r, j, "check")
  /\ CancelSeen(r, j)
  /\ WriteOrRaise(r, j, CanCancel(record), Cancel(record), "return")
  /\ OnlyWorker

\* What the loop does with the active call it has loaded.  A proposed one is put to
\* the policy and an approved one gets its dispatch mark; one that carries the mark
\* goes to the executor, and the turn store is not asked.
LoadedStep(call) ==
  CASE call.status = "proposed" -> "decide"
    [] call.status # "proposed" /\ ~call.dispatched -> "beginDispatch"
    [] OTHER -> "execute"

ProceedAtBoundary(r, j) ==
  LET record == turn[job[j].turn] IN
  /\ At(r, j, "check")
  /\ ~CancelSeen(r, j)
  /\ \/ record.status = "waiting_approval" /\ Goto(r, j, "return")
     \/ /\ record.status # "waiting_approval"
        /\ ActiveCalls(record) = {}
        /\ Goto(r, j, "think")
     \/ /\ record.status # "waiting_approval"
        /\ \E c \in ActiveCalls(record) : GotoCall(r, j, LoadedStep(record.tool[c]), c)
  /\ UNCHANGED turn
  /\ OnlyWorker

\* The producer (model or local policy) proposes a call, declares the turn done,
\* reports that recovery is exhausted, or fails.  It never adds to a turn that
\* holds an MCP call or an unfinished direct operation of the model.
Proposable(t) ==
  IF UnfinishedModelIntent(t) \/ \E c \in McpCalls : turn[t].tool[c].status # "absent"
  THEN {}
  ELSE {c \in Calls \ McpCalls : turn[t].tool[c].status = "absent"}

ProposeCall(r, j) ==
  LET t == job[j].turn IN
  /\ At(r, j, "think")
  /\ \E c \in Proposable(t) :
       \/ /\ CanAppendToolRun(turn[t], c)
          /\ SetTurn(t, AppendToolRun(turn[t], c, revision))
          /\ GotoCall(r, j, "decide", c)
       \/ /\ ~CanAppendToolRun(turn[t], c)
          /\ Goto(r, j, "raise")
          /\ UNCHANGED turn
  /\ OnlyWorker

FinishTurn(r, j) ==
  LET record == turn[job[j].turn] IN
  /\ At(r, j, "think")
  /\ WriteOrRaise(r, j, CanUpdate(record, "completed"), Update(record, "completed"), "return")
  /\ OnlyWorker

\* Exhausted recovery or the tool-call bound.
GiveUpTurn(r, j) ==
  LET record == turn[job[j].turn] IN
  /\ At(r, j, "think")
  /\ WriteOrRaise(r, j, CanUpdate(record, "failed"), Update(record, "failed"), "raise")
  /\ OnlyWorker

\* A provider error or timeout propagates and leaves the turn running.
ProducerFails(r, j) ==
  /\ At(r, j, "think")
  /\ Goto(r, j, "raise")
  /\ UNCHANGED turn
  /\ OnlyWorker

\* PCBPermissionPolicy.decide
Denied(mode, c) == mode = "read_only" /\ c \notin ReadCalls
Asked(mode, c)  == mode = "review" /\ c \in GuardedCalls \ TrustedCalls

AskOrDeny(r, j) ==
  LET record == turn[job[j].turn]
      c == worker[r][j].call
  IN
  /\ At(r, j, "decide")
  /\ \/ /\ Denied(policy[r], c)
        /\ WriteOrRaise(r, j, CanCancel(record), Cancel(record), "return")
     \/ /\ Asked(policy[r], c)
        /\ WriteOrRaise(r, j, CanRequestApproval(record, c), RequestApproval(record, c), "return")
  /\ OnlyWorker

\* An allowed call is marked running and dispatched in one write; an approved
\* one is already running and gets its dispatch mark.  A call that changed since
\* it was loaded is refused.
DispatchCall(r, j) ==
  LET t == job[j].turn
      c == worker[r][j].call
      allowed == At(r, j, "decide") /\ ~Denied(policy[r], c) /\ ~Asked(policy[r], c)
      loaded  == At(r, j, "beginDispatch")
  IN
  /\ \/ /\ allowed
        /\ CanUpdateToolRun(turn[t], c, "running", TRUE)
        /\ SetTurn(t, UpdateToolRun(turn[t], c, "running", TRUE))
        /\ GotoCall(r, j, "execute", c)
     \/ /\ loaded
        /\ CanBeginDispatch(turn[t], c)
        /\ SetTurn(t, BeginDispatch(turn[t], c))
        /\ GotoCall(r, j, "execute", c)
     \/ /\ \/ allowed /\ ~CanUpdateToolRun(turn[t], c, "running", TRUE)
           \/ loaded /\ ~CanBeginDispatch(turn[t], c)
        /\ Goto(r, j, "raise")
        /\ UNCHANGED turn
  /\ OnlyWorker

\* The executor refuses a stale baseline; the handler changes the project or
\* not, and returns or raises.
ExecuteCall(r, j) ==
  LET t == job[j].turn
      c == worker[r][j].call
  IN
  /\ At(r, j, "execute")
  /\ \/ /\ c \notin ReadCalls
        /\ revision = turn[t].tool[c].base
        /\ revision < MaxRevision
        /\ revision' = revision + 1
        /\ applied' = [applied EXCEPT ![t][c] = revision + 1]
        /\ \E next \in {"receipt", "ambiguous"} : GotoCall(r, j, next, c)
     \/ /\ revision = turn[t].tool[c].base
        /\ GotoCall(r, j, "receipt", c)
        /\ UNCHANGED projectVars
     \/ /\ GotoCall(r, j, "ambiguous", c)
        /\ UNCHANGED projectVars
  /\ UNCHANGED <<job, turn, runnerVars, lease, cancelSet, requestVars>>

CommitReceipt(r, j) ==
  LET record == turn[job[j].turn]
      c == worker[r][j].call
  IN
  /\ At(r, j, "receipt")
  /\ WriteOrRaise(r, j, CanUpdateToolRun(record, c, "completed", TRUE),
                  UpdateToolRun(record, c, "completed", TRUE), "check")
  /\ OnlyWorker

\* Mutant: an ambiguous call is tried again.
SettleAmbiguous_Again(r, j) ==
  /\ At(r, j, "ambiguous")
  /\ GotoCall(r, j, "execute", worker[r][j].call)
  /\ UNCHANGED turn
  /\ OnlyWorker

\* After an error of the executor, or a running call found by recovery: prove the
\* effect by its receipt or fail the call (_fail_ambiguous_active).
SettleAmbiguous(r, j) ==
  LET t == job[j].turn
      c == worker[r][j].call
  IN
  /\ At(r, j, "ambiguous")
  /\ IF EffectReconciled(t, c)
     THEN WriteOrRaise(r, j, CanUpdateToolRun(turn[t], c, "completed", TRUE),
                       UpdateToolRun(turn[t], c, "completed", TRUE), "check")
     ELSE WriteOrRaise(r, j, CanUpdateToolRun(turn[t], c, "interrupted", TRUE),
                       UpdateToolRun(turn[t], c, "interrupted", TRUE), "failTurn")
  /\ OnlyWorker

FailTurn(r, j) ==
  LET record == turn[job[j].turn] IN
  /\ At(r, j, "failTurn")
  /\ WriteOrRaise(r, j, CanUpdate(record, "failed"), Update(record, "failed"), "raise")
  /\ OnlyWorker

\* _run_owned, last section: the outcome is written whatever the record says now.
CompleteJob(r, j) ==
  /\ At(r, j, "return")
  /\ PathFree(j)
  /\ job' = [job EXCEPT
       ![j].status = IF CancelSeen(r, j) THEN "completed_after_cancel" ELSE "completed",
       ![j].result = TRUE]
  /\ Leave(r, j)
  /\ UNCHANGED <<turn, projectVars, runnerVars, requestVars>>

\* Mutant: a record that is no longer running is left alone.
FailJob_RunningOnly(r, j) ==
  /\ At(r, j, "raise")
  /\ PathFree(j)
  /\ job' = IF job[j].status = "running"
            THEN [job EXCEPT ![j].status = "failed", ![j].error = TRUE]
            ELSE job
  /\ Leave(r, j)
  /\ UNCHANGED <<turn, projectVars, runnerVars, requestVars>>

\* _run_owned, except: an active record becomes failed.
FailJob(r, j) ==
  /\ At(r, j, "raise")
  /\ PathFree(j)
  /\ job' = IF job[j].status \in Active
            THEN [job EXCEPT ![j].status = "failed", ![j].error = TRUE]
            ELSE job
  /\ Leave(r, j)
  /\ UNCHANGED <<turn, projectVars, runnerVars, requestVars>>

-----------------------------------------------------------------------------

Recovery(r) ==
  \/ \E j \in Jobs : RecoverySkip(r, j) \/ RecoveryClaim(r, j) \/ RecoveryWrite(r, j)
  \/ RecoverOrphans(r)
  \/ \E t \in Turns : CloseOrphan(r, t)
  \/ OrphansClosed(r)

\* Requests the environment may make or not.
Request(r) ==
  \/ \E t \in Turns : Submit(r, t)
  \/ \E t \in Turns, c \in Calls :
       \/ SubmitMcpTool(r, t, c)
       \/ DenyCheckpoint(r, t, c)
       \/ \E j \in Jobs : CreateContinuation(r, t, c, j)
  \/ \E i, j \in Jobs : Retry(r, i, j)
  \/ \E j \in Jobs : CancelRequest(r, j)

\* What a request thread goes on to do.
RequestStep(r) ==
  \/ \E j \in Jobs : CreateJob(r, j) \/ CancelSignal(r, j) \/ CancelTurnOfJob(r, j) \/ CancelClose(r, j)
  \/ ApproveCheckpoint(r)
  \/ FailContinuation(r)

WorkerStep(r, j) ==
  \/ ClaimLease(r, j) \/ StartJob(r, j) \/ RefuseJob(r, j) \/ CloseJob(r, j) \/ DropJob(r, j)
  \/ LoadTurn(r, j) \/ BeginTurnRun(r, j) \/ ResumeTurnRun(r, j) \/ ReconcileCall(r, j)
  \/ StopAtBoundary(r, j) \/ ProceedAtBoundary(r, j)
  \/ ProposeCall(r, j) \/ FinishTurn(r, j) \/ GiveUpTurn(r, j) \/ ProducerFails(r, j)
  \/ AskOrDeny(r, j) \/ DispatchCall(r, j) \/ ExecuteCall(r, j)
  \/ CommitReceipt(r, j) \/ SettleAmbiguous(r, j) \/ FailTurn(r, j)
  \/ CompleteJob(r, j) \/ FailJob(r, j)

Next ==
  \/ \E r \in Runners :
       \/ \E mode \in Policies : Boot(r, mode)
       \/ Crash(r)
       \/ Shutdown(r)
       \/ Recovery(r)
       \/ Request(r)
       \/ RequestStep(r)
       \/ \E j \in Jobs : WorkerStep(r, j)
  \/ ExternalEdit

Spec == Init /\ [][Next]_vars

\* Threads that run are scheduled: recovery, workers and request threads go on
\* while their process lives.  Requests, crashes, starts and edits are free.
Fairness ==
  \A r \in Runners :
    /\ WF_vars(Recovery(r))
    /\ WF_vars(RequestStep(r))
    /\ \A j \in Jobs : WF_vars(WorkerStep(r, j))

FairSpec == Spec /\ Fairness

-----------------------------------------------------------------------------
\* Properties.

TypeOK ==
  /\ job \in [Jobs -> Job]
  /\ turn \in [Turns -> Turn]
  /\ revision \in 0..MaxRevision
  /\ applied \in [Turns -> [Calls -> 0..MaxRevision]]
  /\ runner \in [Runners -> {"down", "recovering", "up", "closing"}]
  /\ policy \in [Runners -> Policies]
  /\ todo \in [Runners -> SUBSET (Jobs \cup Turns)]
  /\ lease \in [Jobs -> Runners \cup {None}]
  /\ worker \in [Runners -> [Jobs -> [pc : WorkerSteps, call : Calls \cup {None},
                                      seen : Job]]]
  /\ cancelSet \in [Runners -> SUBSET Jobs]
  /\ cancelling \in [Jobs -> [by : Runners \cup {None},
                              step : {"none", "signal", "signalQueued", "turn", "close"}]]
  /\ admission \in [by : Runners \cup {None}, step : {"free", "orphans", "begun", "approving", "refused"},
                    turn : Turns \cup {None}, call : Calls \cup {None}, job : Jobs \cup {None}]

Executing(r, j) == worker[r][j].pc = "execute"

\* A project never has two active jobs, whichever processes admit, retry,
\* approve, recover and cancel: the check and the write of submit, retry and
\* resolve_approval are one section, and nothing else makes a record active.
OneActiveJob == \A i, j \in ActiveJobs : i = j

\* Nor does it have two at work: a handler runs for a job whose record is active and
\* whose lease its process holds, so that admission and recovery, which look at
\* nothing else, cover the real work.  With approvals and a second process this does
\* not hold, for the reason ContinuationHarmless is violated.
HandlerHasActiveJob ==
  \A r \in Runners, j \in Jobs :
    Executing(r, j) => job[j].status \in {"running", "cancel_requested"} /\ lease[j] = r

\* A handler runs under the permission mode its job was admitted with, and a call
\* that mode asks about runs only when the user approved it, through restarts
\* under other modes, retries and stale prompts.  This is so with one process, and
\* with any number whose modes let nothing pass that another asks about; otherwise a
\* worker may load a call that a process of another mode has dispatched.
EffectsAuthorised ==
  \A r \in Runners, j \in Jobs :
    LET c == worker[r][j].call IN
    Executing(r, j) =>
      /\ policy[r] = job[j].policy
      /\ Asked(policy[r], c) => turn[job[j].turn].tool[c].approval = "approved"

\* A call is handed to its handler at most once: no crash, retry, recovery or late
\* approval hands over a call that carries a dispatch mark, although the loop trusts
\* the record it loaded and lets a marked call straight through.  This is so with one
\* process, and with any number when nothing is asked; with approvals and a second
\* process it fails, for the reason ContinuationHarmless is violated.
DispatchOnce ==
  [][\A r \in Runners, j \in Jobs :
       ~Executing(r, j) /\ Executing(r, j)'
         => ~turn[job[j].turn].tool[worker'[r][j].call].dispatched]_vars

\* No writer leaves a record that _validate_job rejects; one such record makes
\* list(), and so every admission and the next start, fail for good.
JobRecordsValid == RecordsReadable

\* What was decided of a job stays decided, although workers, cancel(), recovery
\* and resolve_approval write records they read or created earlier.  A job that
\* finished never becomes active again and keeps a completed outcome; a
\* cancellation accepted before the job started keeps it from ever working on its
\* turn, whether the pool, the canceller or a restart gets to it first.
DecisionsHold ==
  [][\A j \in Jobs :
       /\ job[j].status \in Finished => job'[j].status \in Finished
       /\ job[j].status \in {"completed", "completed_after_cancel"}
            => job'[j].status = job[j].status
       /\ job[j].cancelled /\ ~job[j].started
            => ~job'[j].started /\ \A r \in Runners : worker'[r][j].pc \notin TurnSteps]_vars

\* While the processes are up and no request is half done, a turn that blocks the
\* thread can be driven on: it waits for an answer, or an active job runs it, or a
\* retryable job names it.  This is so with one process; a second one that recovers
\* the turn between create_continuation and the decision of the checkpoint breaks
\* it, for the reason ContinuationHarmless is violated.
OpenTurnReachable ==
  (\A r \in Runners : runner[r] = "up") /\ admission = NoAdmission =>
    \A t \in UnclosedTurns :
      \/ turn[t].status = "waiting_approval"
      \/ \E j \in Jobs : job[j].turn = t /\ job[j].status \in Active \cup Retryable

\* Once the processes stay up, every admitted job finishes: a job record never
\* stays active because its future was dropped, its worker met a refusal, or a
\* cancellation or a restart stopped half way.
AdmittedJobsFinish ==
  <>[](\A r \in Runners : runner[r] = "up") =>
    \A j \in Jobs : []<>(job[j].status \notin Active)

\* resolve_approval: once the processes stay up, a call the user approved is
\* handed to its handler or closed; the answer is never lost in a turn that is
\* neither running nor closed.
ApprovedCallSettles ==
  <>[](\A r \in Runners : runner[r] = "up") =>
    \A t \in Turns, c \in Calls :
      []<>~(/\ turn[t].tool[c].approval = "approved"
            /\ turn[t].tool[c].status = "running"
            /\ ~turn[t].tool[c].dispatched)

\* The turn store as an abstract specification: any client, any order of calls.
Store == INSTANCE AgentTurns WITH turns <- turn, Threads <- {"main"},
                                  ThreadOf <- [t \in Turns |-> "main"]

\* Whatever processes, workers, cancellations and recoveries do to the turns is a
\* call the turn store accepts: what AgentTurns promises of its records (and its
\* theorems prove) holds under JobRunner, crashes and stale reads included.
TurnsFollowStore == Store!Spec

-----------------------------------------------------------------------------
\* A statement of the code's comments that the code does not meet (JobRecordsValid
\* is another, when two processes share the project).

\* resolve_approval: the continuation written before the approval is harmless
\* when the approval is never made: it does not run the turn.
ContinuationHarmless ==
  \A r \in Runners, j \in Jobs :
    job[j].origin = "approval" /\ worker[r][j].pc \in TurnSteps \ {"load"}
      => \E c \in Calls : turn[job[j].turn].tool[c].approval = "approved"
=============================================================================
