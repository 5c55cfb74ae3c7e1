------------------------- MODULE JobAuthorityProofs -------------------------
(***************************************************************************)
(* What JobRunner promises of a job beyond its type, for any processes,     *)
(* jobs, turns, calls and permission modes.                                 *)
(*                                                                          *)
(* Authority (EffectsAuthorised).  The mode a job was admitted with is      *)
(* compared once, when its worker starts; the policy is asked once, when a  *)
(* call is proposed.  AInv says why that is enough: a process changes its   *)
(* mode only when it has no thread, nobody rewrites the mode or the turn of *)
(* a job record, although many write back records they read earlier, and a  *)
(* call that is running before its dispatch has been approved.  A call that *)
(* is loaded with its mark is not asked about again: that is sound for one  *)
(* process, which meets none (MInv), or when the modes in use agree.        *)
(*                                                                          *)
(* Leases (HandlerHasActiveJob) and the dispatch mark (DispatchOnce), for   *)
(* one process, or for any number when nothing is asked: LInv, MInv.        *)
(* Records and their outcomes (JobRecordsValid, DecisionsHold), for one     *)
(* process: RInv.  Open turns (OpenTurnReachable), for one process:         *)
(* OpenDriven.  With two processes the outbox and records runs of the       *)
(* project show what goes wrong.                                            *)
(***************************************************************************)
EXTENDS JobRunnerProofs

\* A process that is down has no thread and no request.
DownIdle ==
  /\ \A r \in Runners : runner[r] = "down" => \A j \in Jobs : worker[r][j].pc = "idle"
  /\ admission.step # "free" => admission.by \in Runners /\ runner[admission.by] # "down"

\* A worker runs under the mode of its job, and a record that will be written back
\* has the mode and the turn of the one it replaces.
WorkersBound ==
  \A r \in Runners, j \in Jobs :
    /\ worker[r][j].pc \in TurnSteps => policy[r] = job[j].policy
    /\ worker[r][j].pc \in SeenSteps =>
         worker[r][j].seen.policy = job[j].policy /\ worker[r][j].seen.turn = job[j].turn

\* The same of the admission, which keeps a free job record for the turn it began.
AdmissionBound ==
  /\ admission.step = "begun" => \E j \in Jobs : ~Exists(j)
  /\ admission.step \in {"approving", "refused"} =>
       /\ job[admission.job].policy = policy[admission.by]
       /\ job[admission.job].turn = admission.turn

\* What runs before its dispatch was approved.
RunningApproved(t) ==
  \A c \in Calls : t.tool[c].status = "running" /\ ~t.tool[c].dispatched
                     => t.tool[c].approval = "approved"
TurnsApproved == \A t \in Turns : RunningApproved(turn[t])

AInv == DownIdle /\ WorkersBound /\ AdmissionBound /\ TurnsApproved

-----------------------------------------------------------------------------
\* The job records: nobody changes the mode or the turn of one that exists, and
\* none is created behind an admission that has begun.

JobsBound ==
  \A j \in Jobs :
    /\ Exists(j) => job'[j].policy = job[j].policy /\ job'[j].turn = job[j].turn
    /\ ~Exists(j) /\ Exists(j)' => admission'.step # "begun"

\* One record is written that keeps its mode and turn, or is new.
LEMMA WriteBound ==
  ASSUME JobsOK, NEW j \in Jobs, NEW x, job' = [job EXCEPT ![j] = x],
         \/ Exists(j) /\ x.policy = job[j].policy /\ x.turn = job[j].turn
         \/ ~Exists(j) /\ admission'.step # "begun"
  PROVE  JobsBound
<1>1. \A i \in Jobs : job'[i] = IF i = j THEN x ELSE job[i]
  BY DEF JobsOK
<1>2. QED BY <1>1 DEF JobsBound, Exists

LEMMA SameJobsBound == job' = job => JobsBound
BY DEF JobsBound, Exists

\* A record that changes its status and what goes with it.
LEMMA StatusBound ==
  ASSUME JobsOK, NEW j \in Jobs, Exists(j), NEW x \in Job,
         x.policy = job[j].policy, x.turn = job[j].turn, NEW s, NEW b, NEW y,
         y \in {[x EXCEPT !.status = s], [x EXCEPT !.status = s, !.error = b],
                [x EXCEPT !.status = s, !.result = b],
                [x EXCEPT !.status = s, !.started = b],
                [x EXCEPT !.status = s, !.cancelled = b]},
         job' = [job EXCEPT ![j] = y]
  PROVE  JobsBound
<1>1. y.policy = x.policy /\ y.turn = x.turn
  BY DEF Job
<1>2. QED BY <1>1, WriteBound

\* A new record takes a free id.
LEMMA FreshBound ==
  ASSUME JobsOK, NEW j \in Jobs, j = FreshJob, NEW x, job' = [job EXCEPT ![j] = x],
         \E i \in Jobs : ~Exists(i), admission'.step # "begun"
  PROVE  JobsBound
<1>1. ~Exists(j)
  BY DEF FreshJob, Exists
<1>2. QED BY <1>1, WriteBound

LEMMA QueuedBound ==
  ASSUME RestOK, NEW r \in Runners, NEW t \in Turns, NEW origin \in Origins
  PROVE  QueuedJob(r, t, origin).policy = policy[r] /\ QueuedJob(r, t, origin).turn = t
BY DEF QueuedJob, NoJob

LEMMA WorkerJobsBound ==
  ASSUME IInv, AInv, NEW r \in Runners, NEW j \in Jobs, WorkerStep(r, j)
  PROVE  JobsBound
<1>0. JobsOK /\ WorkersOK
  BY DEF IInv
<1>1. worker[r][j].pc # "idle" => Exists(j) /\ job[j] \in Job
  BY <1>0 DEF WorkersOK, JobsOK
<1>2. CASE StartJob(r, j)
  <2> DEFINE y == [job[j] EXCEPT !.status = "running", !.started = TRUE]
  <2>1. job' = [job EXCEPT ![j] = y] /\ worker[r][j].pc # "idle"
    BY <1>2 DEF StartJob, At
  <2> HIDE DEF y
  <2>2. QED BY <1>0, <1>1, <2>1, StatusBound DEF y
<1>3. CASE CloseJob(r, j)
  <2> DEFINE seen == worker[r][j].seen
  <2>1. worker[r][j].pc \in SeenSteps /\ worker[r][j].pc # "idle"
    BY <1>3 DEF CloseJob, SeenSteps, ClosingSteps
  <2>2. seen \in Job /\ seen.policy = job[j].policy /\ seen.turn = job[j].turn
    BY <1>0, <2>1 DEF AInv, WorkersBound, WorkersOK, WorkOK, Worker
  <2>3. PICK y \in {[seen EXCEPT !.status = "cancelled"],
                    [seen EXCEPT !.status = "failed", !.error = TRUE]} :
          job' = [job EXCEPT ![j] = y]
    BY <1>3 DEF CloseJob
  <2> HIDE DEF seen
  <2>4. Exists(j)
    BY <1>1, <2>1
  <2>5. y.policy = seen.policy /\ y.turn = seen.turn
    BY <2>2, <2>3 DEF Job
  <2>6. QED BY <1>0, <2>2, <2>3, <2>4, <2>5, WriteBound
<1>4. CASE CompleteJob(r, j)
  <2> DEFINE s == IF CancelSeen(r, j) THEN "completed_after_cancel" ELSE "completed"
             y == [job[j] EXCEPT !.status = s, !.result = TRUE]
  <2>1. job' = [job EXCEPT ![j] = y] /\ worker[r][j].pc # "idle"
    BY <1>4 DEF CompleteJob, At
  <2> HIDE DEF s, y
  <2>2. QED BY <1>0, <1>1, <2>1, StatusBound DEF y
<1>5. CASE FailJob(r, j)
  <2> DEFINE y == [job[j] EXCEPT !.status = "failed", !.error = TRUE]
  <2>1. (job' = job \/ job' = [job EXCEPT ![j] = y]) /\ worker[r][j].pc # "idle"
    BY <1>5 DEF FailJob, At
  <2>2. y.policy = job[j].policy /\ y.turn = job[j].turn
    BY <1>1, <2>1 DEF Job
  <2> HIDE DEF y
  <2>3. QED BY <1>0, <1>1, <2>1, <2>2, WriteBound, SameJobsBound
<1>6. CASE job' = job
  BY <1>6, SameJobsBound
<1>7. QED
  BY <1>2, <1>3, <1>4, <1>5, <1>6
  DEF WorkerStep, ClaimLease, RefuseJob, DropJob, LoadTurn, BeginTurnRun, ResumeTurnRun,
      ReconcileCall, StopAtBoundary, ProceedAtBoundary, ProposeCall, FinishTurn, GiveUpTurn,
      ProducerFails, AskOrDeny, DispatchCall, ExecuteCall, CommitReceipt, SettleAmbiguous,
      FailTurn, OnlyWorker

LEMMA RequestJobsBound ==
  ASSUME IInv, AInv, NEW r \in Runners, Request(r) \/ RequestStep(r) \/ Recovery(r)
  PROVE  JobsBound
<1>0. JobsOK /\ WorkersOK /\ RequestsOK /\ RestOK /\ NoAdmission.step = "free"
  BY FreeTyped DEF IInv
<1>1. ASSUME NEW j \in Jobs, CreateJob(r, j) PROVE JobsBound
  BY <1>0, <1>1, FreshBound DEF CreateJob, AInv, AdmissionBound
<1>2. ASSUME NEW i \in Jobs, NEW j \in Jobs, Retry(r, i, j) PROVE JobsBound
  BY <1>0, <1>2, FreshBound DEF Retry, CanAdmit, Exists, requestVars
<1>3. ASSUME NEW t \in Turns, NEW c \in Calls, NEW j \in Jobs, CreateContinuation(r, t, c, j)
      PROVE  JobsBound
  BY <1>0, <1>3, FreshBound DEF CreateContinuation, CanAdmit, Exists
<1>4. CASE FailContinuation(r)
  <2> DEFINE q == QueuedJob(r, admission.turn, "approval")
             x == [q EXCEPT !.status = "failed", !.error = TRUE]
  <2>1. PICK j \in Jobs : j = admission.job /\ Exists(j) /\ admission.turn \in Turns
    BY <1>0, <1>4 DEF FailContinuation, RequestsOK, Exists
  <2>2. q \in Job /\ q.policy = policy[r] /\ q.turn = admission.turn
    BY <1>0, <2>1, QueuedJobTyped, QueuedBound DEF Origins
  <2>3. job[j].policy = policy[r] /\ job[j].turn = admission.turn
    BY <1>4, <2>1 DEF FailContinuation, AInv, AdmissionBound
  <2>4. job' = [job EXCEPT ![j] = x]
    BY <1>4, <2>1 DEF FailContinuation
  <2> HIDE DEF q, x
  <2>5. QED BY <1>0, <2>1, <2>2, <2>3, <2>4, StatusBound DEF x
<1>5. ASSUME NEW j \in Jobs, CancelRequest(r, j) PROVE JobsBound
  <2> DEFINE y == [job[j] EXCEPT !.status = "cancel_requested", !.cancelled = TRUE]
  <2>1. Exists(j) /\ job[j] \in Job
    BY <1>0, <1>5 DEF CancelRequest, Exists, Active, JobsOK
  <2>2. job' = [job EXCEPT ![j] = y]
    BY <1>5 DEF CancelRequest
  <2> HIDE DEF y
  <2>3. QED BY <1>0, <2>1, <2>2, StatusBound DEF y
<1>6. ASSUME NEW j \in Jobs, CancelClose(r, j) PROVE JobsBound
  <2> DEFINE s == IF job[j].status = "cancel_requested" THEN "cancelled" ELSE job[j].status
             y == [job[j] EXCEPT !.status = s]
  <2>1. cancelling[j].step = "close"
    BY <1>6 DEF CancelClose
  <2>2. Exists(j) /\ job[j] \in Job
    BY <1>0, <2>1 DEF RequestsOK, JobsOK
  <2>3. job' = [job EXCEPT ![j] = y]
    BY <1>6 DEF CancelClose
  <2> HIDE DEF s, y
  <2>4. QED BY <1>0, <2>2, <2>3, StatusBound DEF y
<1>7. ASSUME NEW j \in Jobs, RecoveryWrite(r, j) PROVE JobsBound
  <2> DEFINE seen == worker[r][j].seen
  <2>1. worker[r][j].pc \in SeenSteps /\ worker[r][j].pc # "idle"
    BY <1>7 DEF RecoveryWrite, SeenSteps, RecoverySteps
  <2>2. seen \in Job /\ seen.policy = job[j].policy /\ seen.turn = job[j].turn /\ Exists(j)
    BY <1>0, <2>1 DEF AInv, WorkersBound, WorkersOK, WorkOK, Worker
  <2>3. \/ job' = job
        \/ \E y \in {[seen EXCEPT !.status = "cancelled"],
                     [seen EXCEPT !.status = "failed", !.error = TRUE],
                     [seen EXCEPT !.status = "interrupted", !.error = TRUE]} :
             job' = [job EXCEPT ![j] = y]
    BY <1>7 DEF RecoveryWrite
  <2> HIDE DEF seen
  <2>4. \A y \in {[seen EXCEPT !.status = "cancelled"],
                [seen EXCEPT !.status = "failed", !.error = TRUE],
                [seen EXCEPT !.status = "interrupted", !.error = TRUE]} :
          y.policy = seen.policy /\ y.turn = seen.turn
    BY <2>2 DEF Job
  <2>5. QED BY <1>0, <2>2, <2>3, <2>4, WriteBound, SameJobsBound
<1>8. CASE job' = job
  BY <1>8, SameJobsBound
<1>9. QED
  BY <1>1, <1>2, <1>3, <1>4, <1>5, <1>6, <1>7, <1>8
  DEF Request, RequestStep, Recovery, Submit, SubmitMcpTool, BeginTurn, DenyCheckpoint,
      CancelSignal, CancelTurnOfJob, ApproveCheckpoint, RecoverySkip, RecoveryClaim,
      RecoverOrphans, CloseOrphan, OrphansClosed

\* No step of the system unbinds a job.
LEMMA NextJobsBound == IInv /\ AInv /\ [Next]_vars => JobsBound
<1> SUFFICES ASSUME IInv, AInv, [Next]_vars PROVE JobsBound
  OBVIOUS
<1>1. CASE job' = job
  BY <1>1, SameJobsBound
<1>2. QED
  BY <1>1, WorkerJobsBound, RequestJobsBound
  DEF Next, Boot, Crash, Shutdown, ExternalEdit, vars

-----------------------------------------------------------------------------
\* The processes: a mode changes only when its process is down, and a worker of a
\* live process moves in one of few ways.

\* What a worker that goes on rests on.
Moved(r, j, w) ==
  \/ w.pc \notin TurnSteps \cup SeenSteps
  \/ w.pc \in SeenSteps /\ w.seen = job[j] /\ job' = job
  \/ /\ w.pc \in TurnSteps /\ worker[r][j].pc # "idle"
     /\ worker[r][j].pc \in TurnSteps \/ Authorised(r, j)

WorkersEffect ==
  \A r \in Runners :
    /\ policy'[r] = policy[r] \/ runner[r] = "down"
    /\ \A j \in Jobs :
         \/ worker'[r][j].pc = "idle"
         \/ worker'[r][j] = worker[r][j] /\ (runner'[r] = "down" => runner[r] = "down")
         \/ /\ runner[r] # "down" /\ runner'[r] # "down"
            /\ Moved(r, j, worker'[r][j])

\* One worker of a live process moves.
LEMMA OneMoves ==
  ASSUME WorkersOK, NEW r \in Runners, NEW j \in Jobs, NEW w,
         worker' = [worker EXCEPT ![r][j] = w], UNCHANGED <<runner, policy>>,
         runner[r] # "down", Moved(r, j, w)
  PROVE  WorkersEffect
<1>1. \A q \in Runners, i \in Jobs :
        worker'[q][i] = IF q = r /\ i = j THEN w ELSE worker[q][i]
  BY DEF WorkersOK
<1>2. QED BY <1>1 DEF WorkersEffect

LEMMA NoneMoves == UNCHANGED <<worker, runner, policy>> => WorkersEffect
BY DEF WorkersEffect

LEMMA GotoBound ==
  ASSUME WorkersOK, NEW r \in Runners, NEW j \in Jobs, NEW pc, NEW c,
         Goto(r, j, pc) \/ GotoCall(r, j, pc, c),
         UNCHANGED <<runner, policy>>, runner[r] # "down",
         \/ pc \notin TurnSteps \cup SeenSteps
         \/ /\ pc \in TurnSteps /\ worker[r][j].pc # "idle"
            /\ worker[r][j].pc \in TurnSteps \/ Authorised(r, j)
  PROVE  WorkersEffect
<1> DEFINE w1 == [IdleWorker EXCEPT !.pc = pc]
           w2 == [IdleWorker EXCEPT !.pc = pc, !.call = c]
<1>1. w1.pc = pc /\ w2.pc = pc
  BY NoJobTyped DEF WorkOK, Worker
<1>2. PICK w \in {w1, w2} : worker' = [worker EXCEPT ![r][j] = w]
  BY DEF Goto, GotoCall
<1>3. w.pc = pc
  BY <1>1, <1>2
<1>4. Moved(r, j, w)
  BY <1>3 DEF Moved
<1>5. QED BY <1>2, <1>4, OneMoves

LEMMA GotoSeenBound ==
  ASSUME WorkersOK, NEW r \in Runners, NEW j \in Jobs, NEW pc \in SeenSteps,
         GotoSeen(r, j, pc), UNCHANGED <<runner, policy, job>>, runner[r] # "down"
  PROVE  WorkersEffect
<1> DEFINE w == [IdleWorker EXCEPT !.pc = pc, !.seen = job[j]]
<1>1. w.pc = pc /\ w.seen = job[j]
  BY NoJobTyped DEF WorkOK, Worker
<1>2. worker' = [worker EXCEPT ![r][j] = w]
  BY DEF GotoSeen
<1> HIDE DEF w
<1>3. QED BY <1>1, <1>2, OneMoves DEF Moved

LEMMA ScheduleBound ==
  ASSUME WorkersOK, NEW r \in Runners, NEW j \in Jobs, Schedule(r, j),
         UNCHANGED <<runner, policy>>, runner[r] # "down"
  PROVE  WorkersEffect
BY GotoBound, NoneMoves DEF Schedule, TurnSteps, SeenSteps, ClosingSteps, RecoverySteps

\* The steps of a worker from the load of its turn to the outcome of its job.
RunSteps == TurnSteps \cup {"return", "raise"}

\* A worker that works on its turn goes on to another of these steps, and changes
\* no record but the turn.
LEMMA TurnStepGoes ==
  ASSUME IInv, NEW r \in Runners, NEW j \in Jobs, WorkerStep(r, j),
         worker[r][j].pc \in TurnSteps
  PROVE  /\ \E p \in RunSteps, d \in Calls \cup {None} : Goto(r, j, p) \/ GotoCall(r, j, p, d)
         /\ UNCHANGED <<job, runnerVars, lease, cancelSet, requestVars>>
<1> DEFINE c == worker[r][j].call
<1>1. \E p \in RunSteps, d \in Calls \cup {None} : Goto(r, j, p) \/ GotoCall(r, j, p, d)
  <2> USE DEF RunSteps, TurnSteps, WriteOrRaise, At, ClosingSteps
  <2>0. c \in Calls \cup {None}
    BY DEF IInv, WorkersOK, WorkOK, Worker
  <2>1. CASE LoadTurn(r, j)
    BY <2>1 DEF LoadTurn, RunningCall
  <2>2. CASE BeginTurnRun(r, j) \/ ResumeTurnRun(r, j) \/ StopAtBoundary(r, j)
             \/ FinishTurn(r, j) \/ GiveUpTurn(r, j) \/ FailTurn(r, j)
             \/ CommitReceipt(r, j) \/ AskOrDeny(r, j)
    BY <2>2 DEF BeginTurnRun, ResumeTurnRun, StopAtBoundary, FinishTurn, GiveUpTurn,
                FailTurn, CommitReceipt, AskOrDeny
  <2>3. CASE ReconcileCall(r, j) \/ SettleAmbiguous(r, j)
    BY <2>0, <2>3 DEF ReconcileCall, SettleAmbiguous
  <2>4. CASE ProceedAtBoundary(r, j) \/ ProposeCall(r, j) \/ ProducerFails(r, j)
    BY <2>4 DEF ProceedAtBoundary, LoadedStep, ProposeCall, ProducerFails, ActiveCalls, Proposable
  <2>5. CASE DispatchCall(r, j)
    BY <2>0, <2>5 DEF DispatchCall
  <2>6. CASE ExecuteCall(r, j)
    BY <2>0, <2>6 DEF ExecuteCall
  <2>7. QED
    BY <2>1, <2>2, <2>3, <2>4, <2>5, <2>6
    DEF WorkerStep, ClaimLease, StartJob, RefuseJob, CloseJob, DropJob, CompleteJob, FailJob
<1>2. UNCHANGED <<job, runnerVars, lease, cancelSet, requestVars>>
  BY DEF WorkerStep, ClaimLease, StartJob, RefuseJob, CloseJob, DropJob, LoadTurn,
     BeginTurnRun, ResumeTurnRun, ReconcileCall, StopAtBoundary, ProceedAtBoundary,
     ProposeCall, FinishTurn, GiveUpTurn, ProducerFails, AskOrDeny, DispatchCall,
     ExecuteCall, CommitReceipt, SettleAmbiguous, FailTurn, CompleteJob, FailJob,
     OnlyWorker, At, TurnSteps, ClosingSteps
<1>3. QED BY <1>1, <1>2

\* Where a worker can go.
LEMMA WorkerBound ==
  ASSUME IInv, AInv, NEW r \in Runners, NEW j \in Jobs, WorkerStep(r, j)
  PROVE  WorkersEffect
<1> DEFINE Outside == {"idle", "pending", "leased", "return", "raise"}
<1>0. WorkersOK
  BY DEF IInv
<1>a. \A p \in Outside : p \notin TurnSteps \cup SeenSteps
  BY DEF TurnSteps, SeenSteps, ClosingSteps, RecoverySteps
<1>b. worker[r][j].pc # "idle" => runner[r] # "down"
  BY DEF AInv, DownIdle
<1>1. CASE ClaimLease(r, j) \/ CloseJob(r, j) \/ DropJob(r, j) \/ CompleteJob(r, j)
           \/ FailJob(r, j)
  <2>1. \E p \in Outside : Goto(r, j, p)
    BY <1>1 DEF ClaimLease, CloseJob, DropJob, CompleteJob, FailJob, Leave
  <2>2. worker[r][j].pc # "idle" /\ UNCHANGED <<runner, policy>>
    BY <1>1 DEF ClaimLease, CloseJob, DropJob, CompleteJob, FailJob, At, ClosingSteps, runnerVars
  <2>3. QED BY <1>0, <1>a, <1>b, <2>1, <2>2, GotoBound
<1>2. CASE StartJob(r, j)
  <2>1. Goto(r, j, "load") /\ Authorised(r, j) /\ UNCHANGED <<runner, policy>>
        /\ worker[r][j].pc # "idle"
    BY <1>2 DEF StartJob, At, runnerVars
  <2>2. "load" \in TurnSteps
    BY DEF TurnSteps
  <2>3. QED BY <1>0, <1>b, <2>1, <2>2, GotoBound
<1>3. CASE RefuseJob(r, j)
  <2>1. /\ \E p \in SeenSteps : GotoSeen(r, j, p)
        /\ worker[r][j].pc # "idle" /\ UNCHANGED <<runner, policy, job>>
    BY <1>3 DEF RefuseJob, At, SeenSteps, ClosingSteps, runnerVars
  <2>2. QED BY <1>0, <1>b, <2>1, GotoSeenBound
<1>4. CASE WorkerStep(r, j) /\ worker[r][j].pc \in TurnSteps
  <2>1. PICK p \in RunSteps, d \in Calls \cup {None} : Goto(r, j, p) \/ GotoCall(r, j, p, d)
    BY <1>4, TurnStepGoes
  <2>2. p \in Outside \cup TurnSteps /\ worker[r][j].pc # "idle"
    BY <1>4 DEF RunSteps, TurnSteps
  <2>3. UNCHANGED <<runner, policy>>
    BY <1>4, TurnStepGoes DEF runnerVars
  <2>4. QED BY <1>0, <1>4, <1>a, <1>b, <2>1, <2>2, <2>3, GotoBound
<1>5. QED
  BY <1>1, <1>2, <1>3, <1>4
  DEF WorkerStep, At, TurnSteps, LoadTurn, BeginTurnRun, ResumeTurnRun, ReconcileCall,
      StopAtBoundary, ProceedAtBoundary, ProposeCall, FinishTurn, GiveUpTurn, ProducerFails,
      AskOrDeny, DispatchCall, ExecuteCall, CommitReceipt, SettleAmbiguous, FailTurn

\* Processes, requests and recovery.
LEMMA NextMoves == IInv /\ AInv /\ [Next]_vars => WorkersEffect
<1> SUFFICES ASSUME IInv, AInv, [Next]_vars PROVE WorkersEffect
  OBVIOUS
<1>0. WorkersOK /\ RestOK /\ RequestsOK
  BY DEF IInv
<1> USE DEF runnerVars
<1>1. ASSUME NEW r \in Runners, NEW mode, Boot(r, mode) PROVE WorkersEffect
  <2>1. \A q \in Runners : (policy'[q] = policy[q] \/ runner[q] = "down")
                           /\ (runner'[q] = "down" => runner[q] = "down")
    BY <1>0, <1>1 DEF Boot, RestOK
  <2>2. worker' = worker
    BY <1>1 DEF Boot
  <2>3. QED BY <2>1, <2>2 DEF WorkersEffect
<1>2. ASSUME NEW r \in Runners, Crash(r) PROVE WorkersEffect
  <2>1. policy' = policy /\ \A q \in Runners : q # r => runner'[q] = runner[q]
    BY <1>0, <1>2 DEF Crash, RestOK
  <2>2. \A q \in Runners, j \in Jobs :
          worker'[q][j] = IF q = r THEN IdleWorker ELSE worker[q][j]
    BY <1>0, <1>2 DEF Crash, WorkersOK
  <2>3. QED BY <2>1, <2>2, NoJobTyped DEF WorkersEffect
<1>3. ASSUME NEW r \in Runners, Shutdown(r) PROVE WorkersEffect
  <2>1. policy' = policy /\ \A q \in Runners : runner'[q] = "down" => runner[q] = "down"
    BY <1>0, <1>3 DEF Shutdown, RestOK
  <2>2. \A q \in Runners, j \in Jobs : worker'[q][j] \in {worker[q][j], IdleWorker}
    BY <1>0, <1>3 DEF Shutdown, WorkersOK
  <2>3. QED BY <2>1, <2>2, NoJobTyped DEF WorkersEffect
<1>4. ASSUME NEW r \in Runners, NEW j \in Jobs, CreateJob(r, j) PROVE WorkersEffect
  BY <1>0, <1>4, ScheduleBound DEF CreateJob, AInv, DownIdle
<1>5. ASSUME NEW r \in Runners, NEW i \in Jobs, NEW j \in Jobs, Retry(r, i, j)
      PROVE  WorkersEffect
  BY <1>0, <1>5, ScheduleBound DEF Retry, CanAdmit
<1>6. ASSUME NEW r \in Runners, ApproveCheckpoint(r) PROVE WorkersEffect
  <2>1. runner[r] # "down" /\ admission.job \in Jobs /\ UNCHANGED <<runner, policy>>
    BY <1>0, <1>6 DEF ApproveCheckpoint, AInv, DownIdle, RequestsOK
  <2>2. Schedule(r, admission.job) \/ worker' = worker
    BY <1>6 DEF ApproveCheckpoint
  <2>3. QED BY <1>0, <2>1, <2>2, ScheduleBound, NoneMoves
<1>7. ASSUME NEW r \in Runners, NEW j \in Jobs, RecoveryClaim(r, j) PROVE WorkersEffect
  <2>1. runner[r] # "down" /\ UNCHANGED <<runner, policy, job>>
    BY <1>7 DEF RecoveryClaim, Recovering
  <2>2. \E p \in SeenSteps : GotoSeen(r, j, p)
    BY <1>7 DEF RecoveryClaim, SeenSteps, RecoverySteps
  <2>3. QED BY <1>0, <2>1, <2>2, GotoSeenBound
<1>8. ASSUME NEW r \in Runners, NEW j \in Jobs, RecoveryWrite(r, j) PROVE WorkersEffect
  <2>1. runner[r] # "down" /\ UNCHANGED <<runner, policy>>
    BY <1>8 DEF RecoveryWrite, AInv, DownIdle, RecoverySteps
  <2>2. Schedule(r, j) \/ Goto(r, j, "idle")
    BY <1>8 DEF RecoveryWrite
  <2>3. "idle" \notin TurnSteps \cup SeenSteps
    BY DEF TurnSteps, SeenSteps, ClosingSteps, RecoverySteps
  <2>4. QED BY <1>0, <2>1, <2>2, <2>3, ScheduleBound, GotoBound
<1>9. ASSUME NEW r \in Runners, RecoverOrphans(r) \/ OrphansClosed(r) PROVE WorkersEffect
  <2>1. \A q \in Runners : runner'[q] = "down" => runner[q] = "down"
    BY <1>0, <1>9 DEF RecoverOrphans, OrphansClosed, RestOK
  <2>2. UNCHANGED <<worker, policy>>
    BY <1>9 DEF RecoverOrphans, OrphansClosed
  <2>3. QED BY <2>1, <2>2 DEF WorkersEffect
<1>10. CASE UNCHANGED <<worker, runner, policy>>
  BY <1>10, NoneMoves
<1>11. QED
  BY <1>1, <1>2, <1>3, <1>4, <1>5, <1>6, <1>7, <1>8, <1>9, <1>10, WorkerBound
  DEF Next, Recovery, Request, RequestStep, Submit, SubmitMcpTool, BeginTurn, DenyCheckpoint,
      CreateContinuation, CancelRequest, CancelSignal, CancelTurnOfJob, CancelClose,
      FailContinuation, RecoverySkip, CloseOrphan, ExternalEdit, vars

-----------------------------------------------------------------------------
\* The turns: a call that is running before its dispatch was approved, and what
\* was approved stays so.

ApprovalsKept(t, u) ==
  \A c \in Calls : t.tool[c].approval = "approved" => u.tool[c].approval = "approved"

LEMMA NewApproved ==
  /\ RunningApproved(AbsentTurn) /\ RunningApproved(QueuedTurn)
  /\ \A c \in Calls, rev \in Nat : RunningApproved(BeginWithTool(c, rev))
BY DEF RunningApproved, AbsentTurn, QueuedTurn, BeginWithTool, Proposed, NoTool

\* One call is written.
LEMMA CallApproved ==
  ASSUME NEW t \in Turn, RunningApproved(t), NEW c \in Calls, NEW x \in ToolRun, NEW u,
         u.tool = [t.tool EXCEPT ![c] = x],
         x.status = "running" /\ ~x.dispatched => x.approval = "approved",
         t.tool[c].approval = "approved" => x.approval = "approved"
  PROVE  RunningApproved(u) /\ ApprovalsKept(t, u)
<1>1. \A d \in Calls : u.tool[d] = IF d = c THEN x ELSE t.tool[d]
  BY DEF Turn
<1>2. QED BY <1>1 DEF RunningApproved, ApprovalsKept

LEMMA MethodApproved ==
  ASSUME NEW t, TurnInv(t), RunningApproved(t), NEW u, Method(t, u), revision \in Nat
  PROVE  RunningApproved(u) /\ ApprovalsKept(t, u)
<1>0. t \in Turn /\ \A c \in Calls : t.tool[c] \in ToolRun /\ ToolWellFormed(t.tool[c])
                                     /\ ApprovalWellFormed(t.tool[c])
  BY DEF TurnInv, CallInv, Turn
<1>1. CASE u = t
  BY <1>1 DEF ApprovalsKept
<1>2. ASSUME NEW s, u = [t EXCEPT !.status = s]
      PROVE  RunningApproved(u) /\ ApprovalsKept(t, u)
  <2>1. u.tool = t.tool
    BY <1>0, <1>2 DEF Turn
  <2>2. QED BY <2>1 DEF RunningApproved, ApprovalsKept
<1>3. CASE u = InterruptActive(t)
  <2>1. \A c \in Calls : \/ u.tool[c] = t.tool[c]
                          \/ /\ u.tool[c].status # "running"
                             /\ u.tool[c].approval = t.tool[c].approval
    BY <1>0, <1>3 DEF InterruptActive, ToolRun
  <2>2. QED BY <2>1 DEF RunningApproved, ApprovalsKept
<1>4. CASE CanCancel(t) /\ u = Cancel(t)
  <2>1. CASE t.status = "cancelled"
    BY <1>1, <1>4, <2>1 DEF Cancel
  <2>2. CASE t.status # "cancelled"
    <3>1. \A c \in Calls : u.tool[c] = CloseForCancel(t, c)
      BY <1>4, <2>2 DEF Cancel
    <3>2. \A c \in Calls :
            \/ u.tool[c] = t.tool[c]
            \/ /\ u.tool[c].status # "running"
               /\ t.tool[c].approval = "approved" => u.tool[c].approval = "approved"
      BY <1>0, <3>1 DEF CloseForCancel, ToolRun
    <3>3. QED BY <3>2 DEF RunningApproved, ApprovalsKept
  <2>3. QED BY <2>1, <2>2
<1>5. ASSUME NEW c \in Calls,
             \/ CanAppendToolRun(t, c) /\ u = AppendToolRun(t, c, revision)
             \/ \E target \in ToolStatuses :
                  CanUpdateToolRun(t, c, target, TRUE) /\ u = UpdateToolRun(t, c, target, TRUE)
             \/ CanBeginDispatch(t, c) /\ u = BeginDispatch(t, c)
             \/ CanRequestApproval(t, c) /\ u = RequestApproval(t, c)
             \/ u = Approve(t, c)
             \/ CanResolveApproval(t, c, t.tool[c].base) /\ u = Deny(t, c, TRUE)
      PROVE  RunningApproved(u) /\ ApprovalsKept(t, u)
  <2>1. CASE CanAppendToolRun(t, c) /\ u = AppendToolRun(t, c, revision)
    <3>1. Proposed(revision) \in ToolRun /\ Proposed(revision).status = "proposed"
      BY DEF Proposed, NoTool, ToolRun, ToolStatuses, ActiveTools
    <3>2. u.tool = [t.tool EXCEPT ![c] = Proposed(revision)]
      BY <1>0, <2>1 DEF AppendToolRun, Turn
    <3>3. t.tool[c].approval # "approved"
      BY <1>0, <2>1 DEF CanAppendToolRun, ApprovalWellFormed
    <3>4. QED BY <1>0, <3>1, <3>2, <3>3, CallApproved
  <2>2. ASSUME NEW target \in ToolStatuses, CanUpdateToolRun(t, c, target, TRUE),
               u = UpdateToolRun(t, c, target, TRUE)
        PROVE  RunningApproved(u) /\ ApprovalsKept(t, u)
    <3> DEFINE x == [t.tool[c] EXCEPT !.status = target,
                                      !.dispatched = @ \/ (target = "running" /\ TRUE)]
    <3>1. u.tool = [t.tool EXCEPT ![c] = x]
      BY <1>0, <2>2 DEF UpdateToolRun, Turn
    <3>2. /\ x \in ToolRun /\ x.approval = t.tool[c].approval
          /\ x.status = "running" => x.dispatched
      BY <1>0 DEF ToolRun
    <3> HIDE DEF x
    <3>3. QED BY <1>0, <3>1, <3>2, CallApproved
  <2>3. CASE CanBeginDispatch(t, c) /\ u = BeginDispatch(t, c)
    <3> DEFINE x == [t.tool[c] EXCEPT !.dispatched = TRUE]
    <3>1. u.tool = [t.tool EXCEPT ![c] = x]
      BY <1>0, <2>3 DEF BeginDispatch, Turn
    <3>2. x \in ToolRun /\ x.approval = t.tool[c].approval /\ x.dispatched
      BY <1>0 DEF ToolRun
    <3> HIDE DEF x
    <3>3. QED BY <1>0, <3>1, <3>2, CallApproved
  <2>4. CASE CanRequestApproval(t, c) /\ u = RequestApproval(t, c)
    <3> DEFINE x == [t.tool[c] EXCEPT !.status = "waiting_approval", !.approval = "pending"]
    <3>1. u.tool = [t.tool EXCEPT ![c] = x]
      BY <1>0, <2>4 DEF RequestApproval, Turn
    <3>2. x \in ToolRun /\ x.status = "waiting_approval"
      BY <1>0 DEF ToolRun, ToolStatuses, ActiveTools, ApprovalStatuses
    <3>3. t.tool[c].approval # "approved"
      BY <1>0, <2>4 DEF CanRequestApproval, ApprovalWellFormed
    <3> HIDE DEF x
    <3>4. QED BY <1>0, <3>1, <3>2, <3>3, CallApproved
  <2>5. CASE u = Approve(t, c)
    <3> DEFINE x == [t.tool[c] EXCEPT !.status = "running", !.approval = "approved"]
    <3>1. u.tool = [t.tool EXCEPT ![c] = x]
      BY <1>0, <2>5 DEF Approve, Turn
    <3>2. x \in ToolRun /\ x.approval = "approved"
      BY <1>0 DEF ToolRun, ToolStatuses, ActiveTools, ApprovalStatuses
    <3> HIDE DEF x
    <3>3. QED BY <1>0, <3>1, <3>2, CallApproved
  <2>6. CASE CanResolveApproval(t, c, t.tool[c].base) /\ u = Deny(t, c, TRUE)
    <3> DEFINE x == [t.tool[c] EXCEPT !.status = "denied", !.approval = "denied"]
    <3>1. u.tool = [t.tool EXCEPT ![c] = x]
      BY <1>0, <2>6 DEF Deny, Turn
    <3>2. x \in ToolRun /\ x.status = "denied"
      BY <1>0 DEF ToolRun, ToolStatuses, TerminalTools, ApprovalStatuses
    <3>3. t.tool[c].approval # "approved"
      BY <2>6 DEF CanResolveApproval
    <3> HIDE DEF x
    <3>4. QED BY <1>0, <3>1, <3>2, <3>3, CallApproved
  <2>7. QED BY <1>5, <2>1, <2>2, <2>3, <2>4, <2>5, <2>6
<1>6. QED BY <1>1, <1>2, <1>3, <1>4, <1>5 DEF Method, Update, Resume

\* Every step keeps the approvals.
LEMMA NextApproved ==
  ASSUME IInv, TurnsApproved, [Next]_vars
  PROVE  TurnsApproved' /\ \A t \in Turns : ApprovalsKept(turn[t], turn'[t])
<1>0. revision \in Nat /\ TurnsOK
  BY BoundAssumption DEF IInv, RestOK
<1>1. CASE turn' = turn
  BY <1>1 DEF TurnsApproved, ApprovalsKept
<1>2. ASSUME NEW t \in Turns, NEW u, TurnWrite(t, u)
      PROVE  TurnsApproved' /\ \A v \in Turns : ApprovalsKept(turn[v], turn'[v])
  <2>1. \A v \in Turns : turn'[v] = IF v = t THEN u ELSE turn[v]
    BY <1>0, <1>2 DEF TurnWrite, SetTurn, TurnsOK
  <2>2. RunningApproved(u) /\ ApprovalsKept(turn[t], u)
    <3>1. CASE Begins(t, u)
      <4>1. turn[t] = AbsentTurn
        BY <1>0, <3>1 DEF Begins, TurnsOK, TurnInv
      <4>2. QED BY <1>0, <3>1, <4>1, NewApproved DEF Begins, ApprovalsKept, AbsentTurn, NoTool
    <3>2. CASE Method(turn[t], u)
      BY <1>0, <3>2, MethodApproved DEF TurnsOK, TurnsApproved
    <3>3. QED BY <1>2, <3>1, <3>2 DEF TurnWrite
  <2>3. QED BY <2>1, <2>2 DEF TurnsApproved, ApprovalsKept
<1>3. QED BY <1>1, <1>2, NextTurns DEF TurnEffect

-----------------------------------------------------------------------------
\* The invariant.

\* A thread lives as long as its process, and works under what it was bound to.
LEMMA WorkersKept ==
  ASSUME IInv, IInv', AInv, JobsBound, WorkersEffect
  PROVE  /\ \A r \in Runners : runner'[r] = "down" => \A j \in Jobs : worker'[r][j].pc = "idle"
         /\ WorkersBound'
<1>1. ASSUME NEW r \in Runners, runner'[r] = "down", NEW j \in Jobs
      PROVE  worker'[r][j].pc = "idle"
  BY <1>1 DEF WorkersEffect, AInv, DownIdle
<1>2. ASSUME NEW r \in Runners, NEW j \in Jobs
      PROVE  /\ worker'[r][j].pc \in TurnSteps => policy'[r] = job'[j].policy
             /\ worker'[r][j].pc \in SeenSteps =>
                  /\ worker'[r][j].seen.policy = job'[j].policy
                  /\ worker'[r][j].seen.turn = job'[j].turn
  <2>0. "idle" \notin TurnSteps \cup SeenSteps /\ TurnSteps \cap SeenSteps = {}
    BY DEF TurnSteps, SeenSteps, ClosingSteps, RecoverySteps
  <2>1. worker[r][j].pc # "idle" => Exists(j) /\ runner[r] # "down"
    BY DEF IInv, WorkersOK, AInv, DownIdle
  <2>2. Exists(j) => job'[j].policy = job[j].policy /\ job'[j].turn = job[j].turn
    BY DEF JobsBound
  <2>3. CASE worker'[r][j] = worker[r][j]
    <3>1. worker[r][j].pc # "idle" => policy'[r] = policy[r]
      BY <2>1 DEF WorkersEffect
    <3>2. QED BY <2>0, <2>1, <2>2, <2>3, <3>1 DEF AInv, WorkersBound
  <2>4. CASE runner[r] # "down" /\ Moved(r, j, worker'[r][j])
    <3>1. policy'[r] = policy[r]
      BY <2>4 DEF WorkersEffect
    <3>2. CASE worker'[r][j].pc \in SeenSteps /\ worker'[r][j].seen = job[j] /\ job' = job
      BY <2>0, <3>2
    <3>3. CASE /\ worker'[r][j].pc \in TurnSteps /\ worker[r][j].pc # "idle"
               /\ worker[r][j].pc \in TurnSteps \/ Authorised(r, j)
      <4>1. policy[r] = job[j].policy
        BY <3>3 DEF AInv, WorkersBound, Authorised
      <4>2. QED BY <2>0, <2>1, <2>2, <3>1, <3>3, <4>1
    <3>4. QED BY <2>4, <3>2, <3>3 DEF Moved
  <2>5. QED BY <2>0, <2>3, <2>4 DEF WorkersEffect
<1>3. QED BY <1>1, <1>2 DEF WorkersBound

\* The request that holds the admission lives, and its job is bound to its turn.
LEMMA AdmissionKept ==
  ASSUME IInv, AInv, JobsBound, WorkersEffect, [Next]_vars
  PROVE  /\ admission'.step # "free" => admission'.by \in Runners /\ runner'[admission'.by] # "down"
         /\ AdmissionBound'
<1> DEFINE Goal == /\ admission'.step # "free" =>
                        admission'.by \in Runners /\ runner'[admission'.by] # "down"
                   /\ AdmissionBound'
<1>0. /\ RequestsOK /\ RestOK /\ JobsOK /\ NoAdmission.step = "free"
      /\ DownIdle /\ AdmissionBound
  BY FreeTyped DEF IInv, AInv
<1>1. CASE admission'.step = "free"
  BY <1>1 DEF AdmissionBound
<1>2. CASE admission' = admission /\ \A r \in Runners : runner'[r] = "down" => runner[r] = "down"
  <2>1. admission.step # "free" => admission.by \in Runners /\ policy'[admission.by] = policy[admission.by]
    BY <1>0 DEF DownIdle, WorkersEffect
  <2>2. admission.step \in {"approving", "refused"} =>
          /\ job'[admission.job].policy = job[admission.job].policy
          /\ job'[admission.job].turn = job[admission.job].turn
    BY <1>0 DEF RequestsOK, JobsBound
  <2>3. admission.step = "begun" => \A j \in Jobs : ~Exists(j) => ~Exists(j)'
    BY <1>2 DEF JobsBound
  <2>4. QED BY <1>0, <1>2, <2>1, <2>2, <2>3 DEF AdmissionBound, DownIdle
<1>3. ASSUME NEW r \in Runners, Crash(r), admission' = admission PROVE Goal
  <2>1. admission = NoAdmission \/ admission.by # r
    BY <1>3 DEF Crash
  <2>2. \A q \in Runners : q # r => runner'[q] = runner[q]
    BY <1>0, <1>3 DEF Crash, RestOK
  <2>3. job' = job /\ policy' = policy
    BY <1>3 DEF Crash
  <2>4. QED BY <1>0, <1>3, <2>1, <2>2, <2>3 DEF AdmissionBound, DownIdle, Exists
<1>4. ASSUME NEW r \in Runners, NEW t \in Turns, NEW record, BeginTurn(r, t, record) PROVE Goal
  <2>1. admission'.by = r /\ admission'.step = "begun"
    <3>1. admission' = [NoAdmission EXCEPT !.by = r, !.step = "begun", !.turn = t]
      BY <1>4 DEF BeginTurn
    <3>2. QED BY <3>1 DEF NoAdmission
  <2>2. runner'[r] # "down" /\ job' = job /\ \E j \in Jobs : ~Exists(j)
    BY <1>4 DEF BeginTurn, CanAdmit, Exists, runnerVars
  <2>3. QED BY <2>1, <2>2 DEF AdmissionBound, Exists
<1>5. ASSUME NEW r \in Runners, NEW t \in Turns, NEW c \in Calls, NEW j \in Jobs,
             CreateContinuation(r, t, c, j)
      PROVE  Goal
  <2>1. /\ admission'.by = r /\ admission'.step = "approving" /\ admission'.job = j
        /\ admission'.turn = t
    BY <1>5 DEF CreateContinuation
  <2>2. job'[j] = QueuedJob(r, t, "approval") /\ UNCHANGED <<runner, policy>> /\ runner[r] # "down"
    BY <1>0, <1>5 DEF CreateContinuation, CanAdmit, JobsOK, runnerVars
  <2>3. job'[j].policy = policy[r] /\ job'[j].turn = t
    BY <1>0, <2>2, QueuedBound DEF Origins
  <2>4. QED BY <2>1, <2>2, <2>3 DEF AdmissionBound
<1>6. ASSUME NEW r \in Runners, ApproveCheckpoint(r) PROVE Goal
  <2>1. CASE admission' = NoAdmission
    BY <1>0, <1>1, <2>1
  <2>2. CASE admission' = [admission EXCEPT !.step = "refused"]
    <3>1. admission.step = "approving" /\ UNCHANGED <<job, runner, policy>>
      BY <1>6 DEF ApproveCheckpoint, runnerVars
    <3>2. /\ admission'.by = admission.by /\ admission'.turn = admission.turn
          /\ admission'.job = admission.job /\ admission'.step = "refused"
      BY <1>0, <2>2 DEF RequestsOK, Admission
    <3>3. QED BY <1>0, <3>1, <3>2 DEF AdmissionBound, DownIdle
  <2>3. QED BY <1>6, <2>1, <2>2 DEF ApproveCheckpoint
<1>7. ASSUME NEW r \in Runners, RecoverOrphans(r) PROVE Goal
  <2>1. CASE admission' = [NoAdmission EXCEPT !.by = r, !.step = "orphans"] /\ UNCHANGED runner
    <3>1. admission'.by = r /\ admission'.step = "orphans"
      BY <2>1 DEF NoAdmission
    <3>2. QED BY <1>7, <2>1, <3>1 DEF RecoverOrphans, Recovering, AdmissionBound
  <2>2. CASE admission' = admission /\ admission = NoAdmission
    BY <1>0, <1>1, <2>2
  <2>3. QED BY <1>7, <2>1, <2>2 DEF RecoverOrphans
<1>8. CASE admission' = NoAdmission
  BY <1>0, <1>1, <1>8
<1>9. ASSUME NEW r \in Runners, NEW mode, Boot(r, mode) PROVE Goal
  <2>1. admission' = admission /\ \A q \in Runners : runner'[q] = "down" => runner[q] = "down"
    BY <1>0, <1>9 DEF Boot, RestOK, requestVars
  <2>2. QED BY <1>2, <2>1
<1>10. ASSUME NEW r \in Runners, Shutdown(r) PROVE Goal
  <2>1. admission' = admission /\ \A q \in Runners : runner'[q] = "down" => runner[q] = "down"
    BY <1>0, <1>10 DEF Shutdown, RestOK, requestVars
  <2>2. QED BY <1>2, <2>1
<1>11. CASE UNCHANGED <<admission, runner>>
  BY <1>2, <1>11
<1>12. ASSUME NEW r \in Runners, NEW j \in Jobs, WorkerStep(r, j) PROVE Goal
  <2>1. UNCHANGED <<admission, runner>>
    BY <1>12 DEF WorkerStep, ClaimLease, StartJob, RefuseJob, CloseJob, DropJob, LoadTurn,
       BeginTurnRun, ResumeTurnRun, ReconcileCall, StopAtBoundary, ProceedAtBoundary,
       ProposeCall, FinishTurn, GiveUpTurn, ProducerFails, AskOrDeny, DispatchCall,
       ExecuteCall, CommitReceipt, SettleAmbiguous, FailTurn, CompleteJob, FailJob,
       OnlyWorker, requestVars, runnerVars
  <2>2. QED BY <1>11, <2>1
<1>13. ASSUME NEW r \in Runners, Crash(r) PROVE Goal
  BY <1>3, <1>8, <1>13 DEF Crash
<1>14. ASSUME NEW r \in Runners, Recovery(r) \/ Request(r) \/ RequestStep(r) PROVE Goal
  <2> USE DEF requestVars, runnerVars
  <2>1. CASE Recovery(r)
    BY <1>7, <1>8, <1>11, <2>1
    DEF Recovery, RecoverySkip, RecoveryClaim, RecoveryWrite, CloseOrphan, OrphansClosed
  <2>2. CASE Request(r)
    BY <1>4, <1>5, <1>11, <2>2
    DEF Request, Submit, SubmitMcpTool, DenyCheckpoint, Retry, CancelRequest
  <2>3. CASE RequestStep(r)
    BY <1>6, <1>8, <1>11, <2>3
    DEF RequestStep, CreateJob, CancelSignal, CancelTurnOfJob, CancelClose, FailContinuation
  <2>4. QED BY <1>14, <2>1, <2>2, <2>3
<1>15. QED
  BY <1>9, <1>10, <1>11, <1>12, <1>13, <1>14 DEF Next, ExternalEdit, requestVars, runnerVars, vars

LEMMA InitAuthority == Init => AInv
<1> SUFFICES ASSUME Init PROVE AInv
  OBVIOUS
<1>1. \A r \in Runners, j \in Jobs : worker[r][j].pc = "idle"
  BY NoJobTyped DEF Init
<1>2. "idle" \notin TurnSteps \cup SeenSteps /\ NoAdmission.step = "free"
  BY FreeTyped DEF TurnSteps, SeenSteps, ClosingSteps, RecoverySteps
<1>3. admission = NoAdmission /\ \A t \in Turns : turn[t] = AbsentTurn
  BY DEF Init
<1>4. QED BY <1>1, <1>2, <1>3, NewApproved
          DEF AInv, DownIdle, WorkersBound, AdmissionBound, TurnsApproved

LEMMA NextAuthority == IInv /\ IInv' /\ AInv /\ [Next]_vars => AInv'
<1> SUFFICES ASSUME IInv, IInv', AInv, [Next]_vars PROVE AInv'
  OBVIOUS
<1>1. JobsBound /\ WorkersEffect
  BY NextJobsBound, NextMoves
<1>2. TurnsApproved'
  BY NextApproved DEF AInv
<1>3. DownIdle' /\ WorkersBound' /\ AdmissionBound'
  BY <1>1, WorkersKept, AdmissionKept DEF DownIdle
<1>4. QED BY <1>2, <1>3 DEF AInv

-----------------------------------------------------------------------------
\* The execution lease.  A worker that is past the pool holds the lease of its job,
\* and while it works on the turn nobody but a canceller writes the record; a
\* cancel() that found the job queued closes the record, which is then no worker's.
\* A continuation is written back as failed without any lock: that is harmless when
\* no other process serves the project, or when nothing is ever asked.

Alone        == \E r \in Runners : Runners = {r}
NothingAsked == \A mode \in Policies, c \in Calls : ~Asked(mode, c)

Continuing == admission.step \in {"approving", "refused"}

HeldJob(j) ==
  /\ \A r \in Runners :
       /\ worker[r][j].pc \notin {"idle", "pending"} => lease[j] = r
       /\ worker[r][j].pc \in RunSteps => job[j].status \in {"running", "cancel_requested"}
  /\ cancelling[j].step \in {"signalQueued", "turn", "close"} =>
       job[j].status # "queued" /\ \A r \in Runners : worker[r][j].pc \notin RunSteps

ContinuationIdle == Continuing => \A r \in Runners : worker[r][admission.job].pc = "idle"

\* A process that still recovers a job does not serve requests yet, nor orphans.
RecoversFirst ==
  \A r \in Runners, j \in Jobs :
    worker[r][j].pc \in RecoverySteps =>
      runner[r] = "recovering" /\ ~(admission.step = "orphans" /\ admission.by = r)

LInv == (\A j \in Jobs : HeldJob(j)) /\ ContinuationIdle /\ RecoversFirst

\* Where a worker lands; every other stays where it is.
Lands(r, j, pc) ==
  \A q \in Runners, i \in Jobs :
    IF q = r /\ i = j THEN worker'[q][i].pc = pc ELSE worker'[q][i] = worker[q][i]

LEMMA GotoLands ==
  ASSUME WorkersOK, NEW r \in Runners, NEW j \in Jobs, NEW pc, NEW c,
         Goto(r, j, pc) \/ GotoCall(r, j, pc, c) \/ GotoSeen(r, j, pc)
  PROVE  Lands(r, j, pc) /\ (GotoSeen(r, j, pc) => worker'[r][j].seen = job[j])
<1> DEFINE w1 == [IdleWorker EXCEPT !.pc = pc]
           w2 == [IdleWorker EXCEPT !.pc = pc, !.call = c]
           w3 == [IdleWorker EXCEPT !.pc = pc, !.seen = job[j]]
<1>1. w1.pc = pc /\ w2.pc = pc /\ w3.pc = pc /\ w3.seen = job[j]
  BY NoJobTyped DEF WorkOK, Worker
<1>2. /\ \E w \in {w1, w2, w3} : worker' = [worker EXCEPT ![r][j] = w]
      /\ GotoSeen(r, j, pc) => worker' = [worker EXCEPT ![r][j] = w3]
  BY DEF Goto, GotoCall, GotoSeen
<1> HIDE DEF w1, w2, w3
<1>3. QED BY <1>1, <1>2 DEF Lands, WorkersOK

LEMMA ScheduleLands ==
  ASSUME WorkersOK, RestOK, NEW r \in Runners, NEW j \in Jobs, Schedule(r, j)
  PROVE  \/ /\ Lands(r, j, "pending")
            /\ cancelSet' = [cancelSet EXCEPT ![r] = @ \ {j}]
         \/ UNCHANGED <<worker, cancelSet>>
BY GotoLands DEF Schedule

\* A step that concerns one job.
Only(j) ==
  \A i \in Jobs \ {j} :
    /\ job'[i] = job[i] /\ lease'[i] = lease[i] /\ cancelling'[i] = cancelling[i]
    /\ \A r \in Runners : worker'[r][i] = worker[r][i] /\ (i \in cancelSet'[r] => i \in cancelSet[r])

LEMMA OthersHeld ==
  ASSUME NEW j \in Jobs, Only(j), \A i \in Jobs : HeldJob(i), HeldJob(j)'
  PROVE  \A i \in Jobs : HeldJob(i)'
BY DEF Only, HeldJob

\* The worker that holds the lease lets go of it.
LEMMA LeaseFreed ==
  ASSUME NEW r \in Runners, NEW j \in Jobs, NEW pc \in {"idle", "pending"},
         HeldJob(j), worker[r][j].pc \notin {"idle", "pending"}, Lands(r, j, pc),
         cancelling' = cancelling, job'[j] = job[j] \/ job'[j].status # "queued"
  PROVE  HeldJob(j)'
<1>1. \A q \in Runners : worker'[q][j].pc \in {"idle", "pending"}
  BY DEF HeldJob, Lands
<1>2. "idle" \notin RunSteps /\ "pending" \notin RunSteps
  BY DEF RunSteps, TurnSteps
<1>3. QED BY <1>1, <1>2 DEF HeldJob

LEMMA WorkerHeld ==
  ASSUME IInv, LInv, NEW r \in Runners, NEW j \in Jobs, WorkerStep(r, j)
  PROVE  HeldJob(j)' /\ Only(j)
<1>0. WorkersOK /\ RestOK /\ JobsOK /\ HeldJob(j)
  BY DEF IInv, LInv
<1>a. {"idle", "pending", "leased", "closeCancelled", "closeFailed"} \cap RunSteps = {}
  BY DEF RunSteps, TurnSteps
<1>b. "load" \in RunSteps /\ RunSteps \cap {"idle", "pending"} = {}
  BY DEF RunSteps, TurnSteps
<1> USE DEF At, requestVars
<1>1. CASE worker[r][j].pc \in TurnSteps
  <2>1. PICK p \in RunSteps : Lands(r, j, p)
    BY <1>0, <1>1, TurnStepGoes, GotoLands
  <2>2. UNCHANGED <<job, lease, cancelSet, cancelling>>
    BY <1>1, TurnStepGoes
  <2>3. worker[r][j].pc \in RunSteps
    BY <1>1 DEF RunSteps
  <2>4. QED BY <1>0, <1>b, <2>1, <2>2, <2>3 DEF HeldJob, Lands, Only
<1>2. CASE ClaimLease(r, j)
  <2>1. /\ \/ Lands(r, j, "leased") /\ lease' = [lease EXCEPT ![j] = r] /\ lease[j] = None
           \/ Lands(r, j, "idle") /\ lease' = lease
        /\ UNCHANGED <<job, cancelling>>
        /\ cancelSet' = cancelSet \/ cancelSet' = [cancelSet EXCEPT ![r] = @ \ {j}]
    BY <1>0, <1>2, GotoLands DEF ClaimLease
  <2>2. None \notin Runners
    BY NoneAssumption
  <2>3. HeldJob(j)'
    BY <1>0, <1>a, <2>1, <2>2 DEF HeldJob, Lands, RestOK
  <2>4. QED BY <1>0, <2>1, <2>3 DEF Only, Lands, RestOK
<1>3. CASE StartJob(r, j)
  <2>1. /\ Lands(r, j, "load") /\ UNCHANGED <<lease, cancelSet, cancelling>>
        /\ job' = [job EXCEPT ![j].status = "running", ![j].started = TRUE]
        /\ job[j].status = "queued" /\ worker[r][j].pc = "leased"
    BY <1>0, <1>3, GotoLands DEF StartJob
  <2>2. job'[j].status = "running" /\ \A i \in Jobs \ {j} : job'[i] = job[i]
    BY <1>0, <2>1 DEF JobsOK, Job
  <2>3. QED BY <1>0, <1>a, <1>b, <2>1, <2>2 DEF HeldJob, Lands, Only
<1>4. CASE RefuseJob(r, j)
  <2>1. PICK p \in ClosingSteps : Lands(r, j, p)
    BY <1>0, <1>4, GotoLands DEF RefuseJob, ClosingSteps
  <2>2. UNCHANGED <<job, lease, cancelSet, cancelling>> /\ worker[r][j].pc = "leased"
    BY <1>4 DEF RefuseJob
  <2>3. QED BY <1>0, <1>a, <2>1, <2>2 DEF HeldJob, Lands, Only, ClosingSteps
<1>5. CASE CloseJob(r, j) \/ DropJob(r, j) \/ CompleteJob(r, j) \/ FailJob(r, j)
  <2>1. Lands(r, j, "idle") /\ cancelling' = cancelling
        /\ lease' = [lease EXCEPT ![j] = None] /\ cancelSet' = [cancelSet EXCEPT ![r] = @ \ {j}]
    BY <1>0, <1>5, GotoLands DEF CloseJob, DropJob, CompleteJob, FailJob, Leave
  <2>2. worker[r][j].pc \notin {"idle", "pending"}
    BY <1>5 DEF CloseJob, DropJob, CompleteJob, FailJob, ClosingSteps
  <2>3. \/ job' = job
        \/ \E x \in Job, s \in Finished, b \in BOOLEAN :
             job' \in {[job EXCEPT ![j] = [x EXCEPT !.status = s]],
                      [job EXCEPT ![j] = [x EXCEPT !.status = s, !.error = b]],
                      [job EXCEPT ![j] = [x EXCEPT !.status = s, !.result = b]]}
    <3>1. CASE CloseJob(r, j)
      <4>1. worker[r][j].seen \in Job
        BY <1>0 DEF WorkersOK, Worker
      <4>2. QED BY <3>1, <4>1 DEF CloseJob, Finished, Retryable
    <3>2. CASE CompleteJob(r, j)
      <4>1. PICK s \in {"completed_after_cancel", "completed"} :
              job' = [job EXCEPT ![j].status = s, ![j].result = TRUE]
        BY <3>2 DEF CompleteJob
      <4>2. job' = [job EXCEPT ![j] = [job[j] EXCEPT !.status = s, !.result = TRUE]] /\ job[j] \in Job
        BY <1>0, <4>1 DEF JobsOK
      <4>3. QED BY <4>2 DEF Finished
    <3>3. CASE FailJob(r, j)
      <4>1. job[j] \in Job
        BY <1>0 DEF JobsOK
      <4>2. \/ job' = job
            \/ job' = [job EXCEPT ![j] = [job[j] EXCEPT !.status = "failed", !.error = TRUE]]
        BY <3>3 DEF FailJob
      <4>3. QED BY <4>1, <4>2 DEF Finished, Retryable
    <3>4. CASE DropJob(r, j)
      BY <3>4 DEF DropJob
    <3>5. QED BY <1>5, <3>1, <3>2, <3>3, <3>4
  <2>4. job'[j] = job[j] \/ job'[j].status # "queued"
    BY <1>0, <2>3 DEF JobsOK, Job, Finished, Retryable
  <2>5. \A i \in Jobs \ {j} : job'[i] = job[i]
    BY <1>0, <2>3 DEF JobsOK
  <2>6. HeldJob(j)'
    BY <1>0, <2>1, <2>2, <2>4, LeaseFreed
  <2>7. QED BY <1>0, <2>1, <2>5, <2>6 DEF Only, Lands, RestOK
<1>6. QED
  BY <1>1, <1>2, <1>3, <1>4, <1>5
  DEF WorkerStep, TurnSteps, LoadTurn, BeginTurnRun, ResumeTurnRun, ReconcileCall,
      StopAtBoundary, ProceedAtBoundary, ProposeCall, FinishTurn, GiveUpTurn, ProducerFails,
      AskOrDeny, DispatchCall, ExecuteCall, CommitReceipt, SettleAmbiguous, FailTurn

\* A job that does not exist yet has no worker and no canceller.
LEMMA FreshIdle ==
  ASSUME IInv, NEW j \in Jobs, j = FreshJob, \E i \in Jobs : ~Exists(i)
  PROVE  /\ ~Exists(j) /\ cancelling[j].step = "none"
         /\ \A r \in Runners : worker[r][j].pc = "idle"
<1>1. ~Exists(j)
  BY DEF FreshJob, Exists
<1>2. QED BY <1>1 DEF IInv, WorkersOK, RequestsOK

\* A record that is admitted and, perhaps, scheduled.
LEMMA FreshHeld ==
  ASSUME IInv, LInv, NEW r \in Runners, NEW j \in Jobs, j = FreshJob, \E i \in Jobs : ~Exists(i),
         NEW x, job' = [job EXCEPT ![j] = x], Schedule(r, j) \/ UNCHANGED <<worker, cancelSet>>,
         UNCHANGED <<lease, cancelling>>
  PROVE  HeldJob(j)' /\ Only(j)
<1>0. WorkersOK /\ RestOK /\ JobsOK
  BY DEF IInv
<1>1. cancelling[j].step = "none" /\ \A q \in Runners : worker[q][j].pc = "idle"
  BY FreshIdle
<1>2. \/ /\ Lands(r, j, "pending")
         /\ cancelSet' = [cancelSet EXCEPT ![r] = @ \ {j}]
      \/ UNCHANGED <<worker, cancelSet>>
  BY <1>0, ScheduleLands
<1>3. "idle" \notin RunSteps /\ "pending" \notin RunSteps
  BY DEF RunSteps, TurnSteps
<1>4. HeldJob(j)'
  BY <1>1, <1>2, <1>3 DEF HeldJob, Lands
<1>5. QED BY <1>0, <1>2, <1>4 DEF Only, Lands, JobsOK, RestOK

\* The requests.
LEMMA RequestHeld ==
  ASSUME IInv, AInv, LInv, NEW r \in Runners, Request(r) \/ RequestStep(r)
  PROVE  \A j \in Jobs : HeldJob(j)'
<1>0. WorkersOK /\ RestOK /\ JobsOK /\ RequestsOK /\ \A j \in Jobs : HeldJob(j)
  BY DEF IInv, LInv
<1> USE DEF requestVars
<1>1. CASE UNCHANGED <<job, lease, worker, cancelling>>
  BY <1>0, <1>1 DEF HeldJob
<1>2. ASSUME NEW j \in Jobs, CreateJob(r, j) PROVE \A i \in Jobs : HeldJob(i)'
  <2>1. \E i \in Jobs : ~Exists(i)
    BY <1>2 DEF CreateJob, AInv, AdmissionBound
  <2>2. QED BY <1>0, <1>2, <2>1, FreshHeld, OthersHeld DEF CreateJob
<1>3. ASSUME NEW i \in Jobs, NEW j \in Jobs, Retry(r, i, j) PROVE \A k \in Jobs : HeldJob(k)'
  BY <1>0, <1>3, FreshHeld, OthersHeld DEF Retry, CanAdmit, Exists
<1>4. ASSUME NEW t \in Turns, NEW c \in Calls, NEW j \in Jobs, CreateContinuation(r, t, c, j)
      PROVE  \A k \in Jobs : HeldJob(k)'
  BY <1>0, <1>4, FreshHeld, OthersHeld DEF CreateContinuation, CanAdmit, Exists
<1>5. CASE ApproveCheckpoint(r)
  <2>1. PICK j \in Jobs : j = admission.job
    BY <1>0, <1>5 DEF ApproveCheckpoint, RequestsOK
  <2>2. UNCHANGED <<job, lease, cancelling>> /\ (Schedule(r, j) \/ UNCHANGED <<worker, cancelSet>>)
    BY <1>5, <2>1 DEF ApproveCheckpoint
  <2>3. \/ /\ Lands(r, j, "pending")
           /\ cancelSet' = [cancelSet EXCEPT ![r] = @ \ {j}]
        \/ UNCHANGED <<worker, cancelSet>>
    BY <1>0, <2>2, ScheduleLands
  <2>4. "pending" \notin RunSteps
    BY DEF RunSteps, TurnSteps
  <2>5. HeldJob(j)' /\ Only(j)
    BY <1>0, <2>2, <2>3, <2>4 DEF HeldJob, Only, Lands, RestOK
  <2>6. QED BY <1>0, <2>5, OthersHeld
<1>6. CASE FailContinuation(r)
  <2>1. PICK j \in Jobs : /\ j = admission.job /\ admission.step = "refused"
                          /\ admission.turn \in Turns
    BY <1>0, <1>6 DEF FailContinuation, RequestsOK
  <2> DEFINE q == QueuedJob(r, admission.turn, "approval")
             x == [q EXCEPT !.status = "failed", !.error = TRUE]
  <2>2. job' = [job EXCEPT ![j] = x] /\ UNCHANGED <<lease, worker, cancelling, cancelSet>>
    BY <1>6, <2>1 DEF FailContinuation
  <2>3. q \in Job
    BY <1>0, <2>1, QueuedJobTyped DEF Origins
  <2> HIDE DEF q
  <2>4. x.status = "failed"
    BY <2>3 DEF Job
  <2> HIDE DEF x
  <2>5. job'[j].status = "failed" /\ \A i \in Jobs \ {j} : job'[i] = job[i]
    BY <1>0, <2>2, <2>4 DEF JobsOK
  <2>6. \A p \in Runners : worker[p][j].pc \notin RunSteps
    BY <2>1 DEF LInv, ContinuationIdle, Continuing, RunSteps, TurnSteps
  <2>7. HeldJob(j)' /\ Only(j)
    BY <1>0, <2>2, <2>5, <2>6 DEF HeldJob, Only
  <2>8. QED BY <1>0, <2>7, OthersHeld
<1>7. ASSUME NEW j \in Jobs, CancelRequest(r, j) \/ CancelSignal(r, j) \/ CancelTurnOfJob(r, j)
                             \/ CancelClose(r, j)
      PROVE  \A k \in Jobs : HeldJob(k)'
  <2>0. UNCHANGED <<lease, worker>> /\ cancelling[j] \in Cancelling /\ job[j] \in Job
    BY <1>0, <1>7 DEF CancelRequest, CancelSignal, CancelTurnOfJob, CancelClose, RequestsOK, JobsOK
  <2>1. \A i \in Jobs \ {j} : job'[i] = job[i] /\ cancelling'[i] = cancelling[i]
    BY <1>0, <1>7 DEF CancelRequest, CancelSignal, CancelTurnOfJob, CancelClose, RequestsOK, JobsOK
  <2>2. \A q \in Runners : \A i \in Jobs \ {j} : i \in cancelSet'[q] => i \in cancelSet[q]
    BY <1>0, <1>7 DEF CancelRequest, CancelSignal, CancelTurnOfJob, CancelClose, RestOK
  <2>3. Only(j)
    BY <2>0, <2>1, <2>2 DEF Only
  <2>4. CASE CancelRequest(r, j)
    <3>1. /\ job'[j].status = "cancel_requested"
          /\ cancelling'[j].step \in {"signal", "signalQueued"}
          /\ cancelling'[j].step = "signalQueued" => job[j].status = "queued"
      BY <1>0, <2>0, <2>4 DEF CancelRequest, RequestsOK, JobsOK, Job
    <3>2. HeldJob(j)'
      BY <1>0, <2>0, <3>1 DEF HeldJob
    <3>3. QED BY <1>0, <2>3, <3>2, OthersHeld
  <2>5. CASE CancelSignal(r, j) \/ CancelTurnOfJob(r, j)
    <3>1. job' = job
      BY <2>5 DEF CancelSignal, CancelTurnOfJob
    <3>2. cancelling'[j].step \in {"turn", "close"}
            => cancelling[j].step \in {"signalQueued", "turn", "close"}
      BY <1>0, <2>0, <2>5 DEF CancelSignal, CancelTurnOfJob, RequestsOK, Cancelling, NoCancel
    <3>3. cancelling'[j].step # "signalQueued"
      BY <1>0, <2>0, <2>5 DEF CancelSignal, CancelTurnOfJob, RequestsOK, Cancelling, NoCancel
    <3>4. HeldJob(j)'
      BY <1>0, <2>0, <3>1, <3>2, <3>3 DEF HeldJob
    <3>5. QED BY <1>0, <2>3, <3>4, OthersHeld
  <2>6. CASE CancelClose(r, j)
    <3>1. /\ cancelling[j].step = "close" /\ cancelling'[j].step = "none"
          /\ job'[j].status = job[j].status \/ job'[j].status = "cancelled"
      BY <1>0, <2>0, <2>6 DEF CancelClose, RequestsOK, JobsOK, Job, NoCancel
    <3>2. HeldJob(j)'
      BY <1>0, <2>0, <3>1 DEF HeldJob
    <3>3. QED BY <1>0, <2>3, <3>2, OthersHeld
  <2>7. QED BY <1>7, <2>4, <2>5, <2>6
<1>8. QED
  BY <1>1, <1>2, <1>3, <1>4, <1>5, <1>6, <1>7
  DEF Request, RequestStep, Submit, SubmitMcpTool, BeginTurn, DenyCheckpoint

\* Recovery, which takes the lease of the job it closes or schedules.
LEMMA RecoveryHeld ==
  ASSUME IInv, LInv, NEW r \in Runners, Recovery(r)
  PROVE  \A j \in Jobs : HeldJob(j)'
<1>0. WorkersOK /\ RestOK /\ JobsOK /\ \A j \in Jobs : HeldJob(j)
  BY DEF IInv, LInv
<1> USE DEF requestVars
<1>1. CASE UNCHANGED <<job, lease, worker, cancelling>>
  BY <1>0, <1>1 DEF HeldJob
<1>2. ASSUME NEW j \in Jobs, RecoveryClaim(r, j) PROVE \A i \in Jobs : HeldJob(i)'
  <2>1. PICK p \in RecoverySteps : Lands(r, j, p)
    BY <1>0, <1>2, GotoLands DEF RecoveryClaim, RecoverySteps
  <2>2. /\ UNCHANGED <<job, cancelSet, cancelling>> /\ lease[j] = None
        /\ lease' = [lease EXCEPT ![j] = r]
    BY <1>2 DEF RecoveryClaim
  <2>3. p \notin RunSteps /\ None \notin Runners
    BY NoneAssumption DEF RunSteps, TurnSteps, RecoverySteps
  <2>4. HeldJob(j)' /\ Only(j)
    BY <1>0, <2>1, <2>2, <2>3 DEF HeldJob, Only, Lands, RestOK
  <2>5. QED BY <1>0, <2>4, OthersHeld
<1>3. ASSUME NEW j \in Jobs, RecoveryWrite(r, j) PROVE \A i \in Jobs : HeldJob(i)'
  <2>1. worker[r][j].pc \notin {"idle", "pending"} /\ cancelling' = cancelling
        /\ lease' = [lease EXCEPT ![j] = None]
    BY <1>3 DEF RecoveryWrite, RecoverySteps
  <2>2. \/ Lands(r, j, "pending") /\ cancelSet' = [cancelSet EXCEPT ![r] = @ \ {j}]
        \/ Lands(r, j, "idle") /\ cancelSet' = cancelSet
    <3>1. Schedule(r, j) \/ (Goto(r, j, "idle") /\ cancelSet' = cancelSet)
      BY <1>3 DEF RecoveryWrite
    <3>2. runner[r] # "closing"
      BY <1>3 DEF RecoveryWrite, LInv, RecoversFirst
    <3>3. QED BY <1>0, <3>1, <3>2, GotoLands DEF Schedule
  <2>3. \/ job' = job
        \/ \E x \in Job, s \in Finished, b \in BOOLEAN :
             job' \in {[job EXCEPT ![j] = [x EXCEPT !.status = s]],
                      [job EXCEPT ![j] = [x EXCEPT !.status = s, !.error = b]]}
    <3>1. worker[r][j].seen \in Job
      BY <1>0 DEF WorkersOK, Worker
    <3>2. QED BY <1>3, <3>1 DEF RecoveryWrite, Finished, Retryable
  <2>4. /\ job'[j] = job[j] \/ job'[j].status # "queued"
        /\ \A i \in Jobs \ {j} : job'[i] = job[i]
    <3>1. CASE job' = job
      BY <3>1
    <3>2. ASSUME NEW x \in Job, NEW s \in Finished, NEW b \in BOOLEAN,
                 NEW y \in {[x EXCEPT !.status = s], [x EXCEPT !.status = s, !.error = b]},
                 job' = [job EXCEPT ![j] = y]
          PROVE  job'[j].status # "queued" /\ \A i \in Jobs \ {j} : job'[i] = job[i]
      <4>1. y.status = s
        BY <3>2 DEF Job
      <4>2. QED BY <1>0, <3>2, <4>1 DEF JobsOK, Finished, Retryable
    <3>3. QED BY <2>3, <3>1, <3>2
  <2>5. HeldJob(j)'
    BY <1>0, <2>1, <2>2, <2>4, LeaseFreed
  <2>6. Only(j)
    BY <1>0, <2>1, <2>2, <2>4 DEF Only, Lands, RestOK
  <2>7. QED BY <1>0, <2>5, <2>6, OthersHeld
<1>4. QED
  BY <1>1, <1>2, <1>3
  DEF Recovery, RecoverySkip, RecoverOrphans, CloseOrphan, OrphansClosed

LEMMA NextHeld == IInv /\ AInv /\ LInv /\ [Next]_vars => \A j \in Jobs : HeldJob(j)'
<1> SUFFICES ASSUME IInv, AInv, LInv, [Next]_vars PROVE \A j \in Jobs : HeldJob(j)'
  OBVIOUS
<1>0. WorkersOK /\ RestOK /\ RequestsOK /\ \A j \in Jobs : HeldJob(j)
  BY DEF IInv, LInv
<1>1. CASE UNCHANGED <<job, lease, worker, cancelling>>
  BY <1>0, <1>1 DEF HeldJob
<1>2. ASSUME NEW r \in Runners, Crash(r) PROVE \A j \in Jobs : HeldJob(j)'
  <2>1. \A q \in Runners, j \in Jobs :
          worker'[q][j] = IF q = r THEN IdleWorker ELSE worker[q][j]
    BY <1>0, <1>2 DEF Crash, WorkersOK
  <2>2. /\ job' = job
        /\ \A j \in Jobs : /\ lease'[j] = IF lease[j] = r THEN None ELSE lease[j]
                           /\ cancelling'[j] \in {NoCancel, cancelling[j]}
    BY <1>2 DEF Crash
  <2>3. IdleWorker.pc = "idle" /\ NoCancel.step = "none" /\ "idle" \notin RunSteps
    BY NoJobTyped DEF NoCancel, RunSteps, TurnSteps
  <2>4. QED BY <1>0, <2>1, <2>2, <2>3 DEF HeldJob
<1>3. ASSUME NEW r \in Runners, Shutdown(r) PROVE \A j \in Jobs : HeldJob(j)'
  <2>1. \A q \in Runners, j \in Jobs : worker'[q][j] \in {worker[q][j], IdleWorker}
    BY <1>0, <1>3 DEF Shutdown, WorkersOK
  <2>2. UNCHANGED <<job, lease, cancelling>>
    BY <1>3 DEF Shutdown, requestVars
  <2>3. IdleWorker.pc = "idle" /\ "idle" \notin RunSteps
    BY NoJobTyped DEF RunSteps, TurnSteps
  <2>4. QED BY <1>0, <2>1, <2>2, <2>3 DEF HeldJob
<1>4. ASSUME NEW r \in Runners, NEW j \in Jobs, WorkerStep(r, j) PROVE \A i \in Jobs : HeldJob(i)'
  BY <1>0, <1>4, WorkerHeld, OthersHeld
<1>5. QED
  BY <1>1, <1>2, <1>3, <1>4, RequestHeld, RecoveryHeld
  DEF Next, Boot, ExternalEdit, requestVars, vars

\* A worker never lands in a section of the recovery.
LEMMA WorkerLands ==
  ASSUME IInv, NEW r \in Runners, NEW j \in Jobs, WorkerStep(r, j)
  PROVE  /\ \E p \in WorkerSteps \ RecoverySteps : Lands(r, j, p)
         /\ worker[r][j].pc # "idle" /\ UNCHANGED <<runnerVars, requestVars>>
<1>0. WorkersOK
  BY DEF IInv
<1> USE DEF At
<1>1. CASE worker[r][j].pc \in TurnSteps
  <2>1. PICK p \in RunSteps : Lands(r, j, p)
    BY <1>0, <1>1, TurnStepGoes, GotoLands
  <2>2. p \in WorkerSteps \ RecoverySteps
    BY DEF RunSteps, TurnSteps, WorkerSteps, RecoverySteps
  <2>3. QED BY <1>1, <2>1, <2>2, TurnStepGoes DEF TurnSteps
<1>2. CASE ClaimLease(r, j) \/ StartJob(r, j) \/ RefuseJob(r, j) \/ CloseJob(r, j)
           \/ DropJob(r, j) \/ CompleteJob(r, j) \/ FailJob(r, j)
  <2> DEFINE Ends == {"leased", "idle", "load", "closeCancelled", "closeFailed"}
  <2>1. \E p \in Ends : Goto(r, j, p) \/ GotoSeen(r, j, p)
    BY <1>2 DEF ClaimLease, StartJob, RefuseJob, CloseJob, DropJob, CompleteJob, FailJob, Leave
  <2>2. \A p \in Ends : p \in WorkerSteps \ RecoverySteps
    BY DEF WorkerSteps, TurnSteps, ClosingSteps, RecoverySteps
  <2>3. worker[r][j].pc # "idle" /\ UNCHANGED <<runnerVars, requestVars>>
    BY <1>2 DEF ClaimLease, StartJob, RefuseJob, CloseJob, DropJob, CompleteJob, FailJob,
                ClosingSteps
  <2>4. QED BY <1>0, <2>1, <2>2, <2>3, GotoLands
<1>3. QED
  BY <1>1, <1>2
  DEF WorkerStep, TurnSteps, LoadTurn, BeginTurnRun, ResumeTurnRun, ReconcileCall,
      StopAtBoundary, ProceedAtBoundary, ProposeCall, FinishTurn, GiveUpTurn, ProducerFails,
      AskOrDeny, DispatchCall, ExecuteCall, CommitReceipt, SettleAmbiguous, FailTurn

LEMMA NextRecovers == IInv /\ AInv /\ LInv /\ [Next]_vars => RecoversFirst'
<1> SUFFICES ASSUME IInv, AInv, LInv, [Next]_vars PROVE RecoversFirst'
  OBVIOUS
<1>0. WorkersOK /\ RestOK /\ RequestsOK /\ RecoversFirst
  BY DEF IInv, LInv
<1>a. "idle" \notin RecoverySteps /\ "pending" \notin RecoverySteps /\ IdleWorker.pc = "idle"
      /\ NoAdmission.step = "free"
  BY NoJobTyped, FreeTyped DEF RecoverySteps
<1> USE DEF requestVars, runnerVars
<1>1. CASE /\ admission' = admission \/ admission'.step # "orphans"
           /\ UNCHANGED <<runner, worker>>
  BY <1>0, <1>1 DEF RecoversFirst
<1>2. ASSUME NEW r \in Runners, NEW j \in Jobs, NEW p \in WorkerSteps \ RecoverySteps,
             Lands(r, j, p), UNCHANGED runner,
             admission' = admission \/ admission'.step # "orphans"
      PROVE  RecoversFirst'
  BY <1>0, <1>2 DEF RecoversFirst, Lands
<1>3. ASSUME NEW r \in Runners, Crash(r) PROVE RecoversFirst'
  <2>1. \A q \in Runners, j \in Jobs :
          worker'[q][j] = IF q = r THEN IdleWorker ELSE worker[q][j]
    BY <1>0, <1>3 DEF Crash, WorkersOK
  <2>2. /\ \A q \in Runners : q # r => runner'[q] = runner[q]
        /\ admission' \in {NoAdmission, admission}
    BY <1>0, <1>3 DEF Crash, RestOK
  <2>3. QED BY <1>0, <1>a, <2>1, <2>2 DEF RecoversFirst
<1>4. ASSUME NEW r \in Runners, Shutdown(r) PROVE RecoversFirst'
  <2>1. \A q \in Runners, j \in Jobs :
          worker'[q][j] = worker[q][j] \/ worker'[q][j] = IdleWorker
    BY <1>0, <1>4 DEF Shutdown, WorkersOK
  <2>2. /\ \A q \in Runners : runner[q] = "recovering" => runner'[q] = "recovering"
        /\ admission' = admission
    BY <1>0, <1>4 DEF Shutdown, RestOK
  <2>3. QED BY <1>0, <1>a, <2>1, <2>2 DEF RecoversFirst
<1>5. ASSUME NEW r \in Runners, NEW mode, Boot(r, mode) PROVE RecoversFirst'
  <2>1. /\ \A q \in Runners : q # r => runner'[q] = runner[q]
        /\ worker' = worker /\ admission' = admission
        /\ \A j \in Jobs : worker[r][j].pc = "idle"
    BY <1>0, <1>5 DEF Boot, RestOK, AInv, DownIdle
  <2>2. QED BY <1>0, <1>a, <2>1 DEF RecoversFirst
<1>6. ASSUME NEW r \in Runners, RecoverOrphans(r) \/ OrphansClosed(r) PROVE RecoversFirst'
  <2>1. \A j \in Jobs : worker[r][j].pc \notin RecoverySteps
    BY <1>0, <1>6 DEF RecoverOrphans, OrphansClosed, Recovering, RecoversFirst
  <2>2. /\ \A q \in Runners : q # r => runner'[q] = runner[q]
        /\ worker' = worker
        /\ admission' = admission \/ admission'.step # "orphans" \/ admission'.by = r
    BY <1>0, <1>a, <1>6 DEF RecoverOrphans, OrphansClosed, RestOK, NoAdmission
  <2>3. QED BY <1>0, <2>1, <2>2 DEF RecoversFirst
<1>7. ASSUME NEW r \in Runners, NEW j \in Jobs, RecoveryClaim(r, j) PROVE RecoversFirst'
  <2>1. \E p \in RecoverySteps : Lands(r, j, p)
    BY <1>0, <1>7, GotoLands DEF RecoveryClaim, RecoverySteps
  <2>2. /\ UNCHANGED <<runner, admission>>
        /\ runner[r] = "recovering" /\ admission.by # r
    BY <1>7 DEF RecoveryClaim, Recovering
  <2>3. QED BY <1>0, <2>1, <2>2 DEF RecoversFirst, Lands
<1>8. ASSUME NEW r \in Runners, NEW j \in Jobs, RecoveryWrite(r, j) PROVE RecoversFirst'
  <2>1. \/ \E p \in {"pending", "idle"} : Lands(r, j, p)
        \/ worker' = worker
    BY <1>0, <1>8, GotoLands, ScheduleLands DEF RecoveryWrite
  <2>2. "pending" \in WorkerSteps \ RecoverySteps /\ "idle" \in WorkerSteps \ RecoverySteps
    BY DEF WorkerSteps, RecoverySteps
  <2>3. UNCHANGED <<runner, admission>>
    BY <1>8 DEF RecoveryWrite
  <2>4. QED BY <1>1, <1>2, <2>1, <2>2, <2>3
<1>9. ASSUME NEW r \in Runners, NEW j \in Jobs, Schedule(r, j), UNCHANGED runner,
             admission' = admission \/ admission'.step # "orphans"
      PROVE  RecoversFirst'
  <2>1. "pending" \in WorkerSteps \ RecoverySteps
    BY DEF WorkerSteps, RecoverySteps
  <2>2. QED BY <1>0, <1>1, <1>2, <1>9, <2>1, ScheduleLands
<1>10. ASSUME NEW r \in Runners, ApproveCheckpoint(r) PROVE RecoversFirst'
  <2>1. admission.job \in Jobs /\ UNCHANGED runner
    BY <1>0, <1>10 DEF ApproveCheckpoint, RequestsOK
  <2>2. admission'.step # "orphans"
    BY <1>0, <1>a, <1>10 DEF ApproveCheckpoint, RequestsOK, Admission
  <2>3. Schedule(r, admission.job) \/ worker' = worker
    BY <1>10 DEF ApproveCheckpoint
  <2>4. QED BY <1>1, <1>9, <2>1, <2>2, <2>3
<1>11. ASSUME NEW r \in Runners, Request(r) \/ RequestStep(r) PROVE RecoversFirst'
  <2>1. ASSUME NEW t \in Turns, NEW record, BeginTurn(r, t, record) PROVE RecoversFirst'
    BY <1>1, <2>1 DEF BeginTurn, NoAdmission
  <2>2. ASSUME NEW j \in Jobs, CreateJob(r, j) PROVE RecoversFirst'
    BY <1>a, <1>9, <2>2 DEF CreateJob
  <2>3. ASSUME NEW i \in Jobs, NEW j \in Jobs, Retry(r, i, j) PROVE RecoversFirst'
    BY <1>9, <2>3 DEF Retry
  <2>4. ASSUME NEW t \in Turns, NEW c \in Calls, NEW j \in Jobs, CreateContinuation(r, t, c, j)
        PROVE  RecoversFirst'
    BY <1>1, <2>4 DEF CreateContinuation
  <2>5. CASE FailContinuation(r)
    BY <1>1, <1>a, <2>5 DEF FailContinuation
  <2>6. QED
    BY <1>1, <1>10, <1>11, <2>1, <2>2, <2>3, <2>4, <2>5
    DEF Request, RequestStep, Submit, SubmitMcpTool, DenyCheckpoint, CancelRequest,
        CancelSignal, CancelTurnOfJob, CancelClose
<1>12. ASSUME NEW r \in Runners, NEW j \in Jobs, WorkerStep(r, j) PROVE RecoversFirst'
  BY <1>2, <1>12, WorkerLands
<1>13. QED
  BY <1>1, <1>3, <1>4, <1>5, <1>6, <1>7, <1>8, <1>11, <1>12
  DEF Next, Recovery, RecoverySkip, CloseOrphan, ExternalEdit, vars

\* With one process the worker of a continuation stays idle until it is approved.
LEMMA NextContinues ==
  ASSUME Alone, IInv, AInv, LInv, [Next]_vars
  PROVE  ContinuationIdle'
<1> SUFFICES ASSUME Continuing' PROVE \A q \in Runners : worker'[q][admission'.job].pc = "idle"
  BY DEF ContinuationIdle
<1>0. /\ WorkersOK /\ RequestsOK /\ NoAdmission.step = "free" /\ IdleWorker.pc = "idle"
      /\ Continuing => /\ admission.job \in Jobs /\ admission.by \in Runners
                       /\ \A q \in Runners : worker[q][admission.job].pc = "idle"
  BY FreeTyped, NoJobTyped
  DEF IInv, LInv, ContinuationIdle, RequestsOK, Continuing, AInv, DownIdle
<1> DEFINE Goal == \A q \in Runners : worker'[q][admission'.job].pc = "idle"
<1> USE DEF requestVars, runnerVars
<1>1. CASE UNCHANGED <<admission, worker>>
  BY <1>0, <1>1 DEF Continuing
<1>2. ASSUME NEW r \in Runners, NEW j \in Jobs, NEW p, Lands(r, j, p), UNCHANGED admission,
             worker[r][j].pc # "idle"
      PROVE  Goal
  BY <1>0, <1>2 DEF Lands, Continuing
<1>3. ASSUME NEW r \in Runners, Crash(r) PROVE Goal
  <2>1. admission.by = r => admission' = NoAdmission
    BY <1>3 DEF Crash
  <2>2. Continuing => admission.by = r
    BY <1>0 DEF Alone
  <2>3. admission' \in {admission, NoAdmission}
    BY <1>3 DEF Crash
  <2>4. QED BY <1>0, <2>1, <2>2, <2>3 DEF Continuing
<1>4. ASSUME NEW r \in Runners, Shutdown(r) PROVE Goal
  <2>1. \A q \in Runners, j \in Jobs :
          worker'[q][j] = worker[q][j] \/ worker'[q][j] = IdleWorker
    BY <1>0, <1>4 DEF Shutdown, WorkersOK
  <2>2. admission' = admission
    BY <1>4 DEF Shutdown
  <2>3. QED BY <1>0, <2>1, <2>2 DEF Continuing
<1>5. ASSUME NEW r \in Runners, Recovery(r) PROVE Goal
  <2>1. ASSUME NEW j \in Jobs, RecoveryClaim(r, j) PROVE Goal
    <3>1. admission.by # r /\ admission' = admission
      BY <2>1 DEF RecoveryClaim, Recovering
    <3>2. QED BY <1>0, <3>1 DEF Alone, Continuing
  <2>2. ASSUME NEW j \in Jobs, RecoveryWrite(r, j) PROVE Goal
    <3>1. \/ \E p \in {"pending", "idle"} : Lands(r, j, p)
          \/ worker' = worker
      BY <1>0, <2>2, GotoLands, ScheduleLands DEF RecoveryWrite, IInv
    <3>2. worker[r][j].pc # "idle" /\ admission' = admission
      BY <2>2 DEF RecoveryWrite, RecoverySteps
    <3>3. QED BY <1>1, <1>2, <3>1, <3>2
  <2>3. CASE RecoverOrphans(r) \/ OrphansClosed(r)
    <3>1. admission' = admission \/ admission'.step \in {"orphans", "free"}
      BY <1>0, <2>3 DEF RecoverOrphans, OrphansClosed, NoAdmission
    <3>2. worker' = worker
      BY <2>3 DEF RecoverOrphans, OrphansClosed
    <3>3. QED BY <1>1, <3>1, <3>2 DEF Continuing
  <2>4. QED BY <1>1, <1>5, <2>1, <2>2, <2>3 DEF Recovery, RecoverySkip, CloseOrphan
<1>6. ASSUME NEW r \in Runners, Request(r) \/ RequestStep(r) PROVE Goal
  <2>1. ASSUME NEW t \in Turns, NEW record, BeginTurn(r, t, record) PROVE Goal
    BY <2>1 DEF BeginTurn, NoAdmission, Continuing
  <2>2. ASSUME NEW i \in Jobs, NEW j \in Jobs, Retry(r, i, j) PROVE Goal
    BY <1>0, <2>2 DEF Retry, CanAdmit, Continuing
  <2>3. ASSUME NEW t \in Turns, NEW c \in Calls, NEW j \in Jobs, CreateContinuation(r, t, c, j)
        PROVE  Goal
    <3>1. j = FreshJob /\ \E i \in Jobs : ~Exists(i)
      BY <2>3 DEF CreateContinuation, CanAdmit, Exists
    <3>2. admission'.job = j /\ worker' = worker
      BY <2>3 DEF CreateContinuation
    <3>3. QED BY <3>1, <3>2, FreshIdle
  <2>4. CASE ApproveCheckpoint(r)
    <3>1. CASE admission' = NoAdmission
      BY <1>0, <3>1 DEF Continuing
    <3>2. CASE admission' = [admission EXCEPT !.step = "refused"] /\ worker' = worker
      <4>1. admission'.job = admission.job /\ Continuing
        BY <1>0, <2>4, <3>2 DEF ApproveCheckpoint, Continuing, RequestsOK, Admission
      <4>2. QED BY <1>0, <3>2, <4>1
    <3>3. QED BY <2>4, <3>1, <3>2 DEF ApproveCheckpoint
  <2>5. CASE FailContinuation(r) \/ \E j \in Jobs : CreateJob(r, j)
    BY <1>0, <2>5 DEF FailContinuation, CreateJob, Continuing
  <2>6. QED
    BY <1>1, <1>6, <2>1, <2>2, <2>3, <2>4, <2>5
    DEF Request, RequestStep, Submit, SubmitMcpTool, DenyCheckpoint, CancelRequest,
        CancelSignal, CancelTurnOfJob, CancelClose
<1>7. ASSUME NEW r \in Runners, NEW j \in Jobs, WorkerStep(r, j) PROVE Goal
  BY <1>2, <1>7, WorkerLands
<1>8. QED
  BY <1>1, <1>3, <1>4, <1>5, <1>6, <1>7 DEF Next, Boot, ExternalEdit, vars

\* When nothing is asked no turn waits for an answer, and no continuation is made.
Unasked == /\ \A t \in Turns, c \in Calls : turn[t].tool[c].approval = "absent"
           /\ ~Continuing

\* Only a call that is asked about makes a turn wait.
LEMMA NobodyWaits ==
  ASSUME NothingAsked, IInv, [Next]_vars, NEW t \in Turns, turn'[t].status = "waiting_approval"
  PROVE  turn[t].status = "waiting_approval"
<1> DEFINE Goal == turn[t].status = "waiting_approval"
<1>0. TurnsOK /\ JobsOK /\ RequestsOK /\ WorkersOK /\ RestOK
  BY DEF IInv
<1>a. \A v \in Turns : turn[v] \in Turn
  BY <1>0 DEF TurnsOK
<1>1. CASE turn' = turn
  BY <1>1
<1>2. ASSUME NEW v \in Turns, NEW u, SetTurn(v, u),
             u.status # "waiting_approval" \/ u.status = turn[v].status
      PROVE  Goal
  BY <1>0, <1>2 DEF SetTurn, TurnsOK
<1>3. ASSUME NEW v \in Turns
      PROVE  /\ TurnCancelled(v).status \in {"cancelled", turn[v].status}
             /\ TurnInterrupted(v).status \in {"interrupted", turn[v].status}
             /\ OrphanClosed(v).status \in {"interrupted", "cancelled", turn[v].status}
  BY <1>a DEF TurnCancelled, TurnInterrupted, OrphanClosed, Cancel, InterruptActive, Update, Turn
<1>4. ASSUME NEW r \in Runners, NEW j \in Jobs, WorkerStep(r, j) PROVE Goal
  <2> DEFINE v == job[j].turn
             c == worker[r][j].call
  <2>0. worker[r][j].pc # "idle" => v \in Turns
    BY <1>0 DEF WorkersOK, JobsOK
  <2>1. CASE RefuseJob(r, j)
    BY <1>2, <1>3, <2>0, <2>1 DEF RefuseJob, At
  <2>2. CASE BeginTurnRun(r, j) \/ ResumeTurnRun(r, j) \/ StopAtBoundary(r, j)
             \/ FinishTurn(r, j) \/ GiveUpTurn(r, j) \/ FailTurn(r, j)
    <3>1. \A s \in {"running", "completed", "failed"} :
            v \in Turns => /\ Update(turn[v], s).status = s
                           /\ Resume(turn[v]).status = "running"
                           /\ Cancel(turn[v]).status = "cancelled"
      BY <1>a DEF Update, Resume, Cancel, Turn
    <3>2. worker[r][j].pc # "idle"
      BY <2>2 DEF BeginTurnRun, ResumeTurnRun, StopAtBoundary, FinishTurn, GiveUpTurn,
                  FailTurn, At
    <3>3. \/ turn' = turn
          \/ \E u : SetTurn(v, u) /\ u.status # "waiting_approval"
      BY <2>0, <2>2, <3>1, <3>2
      DEF BeginTurnRun, ResumeTurnRun, StopAtBoundary, FinishTurn, GiveUpTurn, FailTurn,
          WriteOrRaise
    <3>4. QED BY <1>1, <1>2, <2>0, <3>2, <3>3
  <2>3. CASE ReconcileCall(r, j) \/ CommitReceipt(r, j) \/ SettleAmbiguous(r, j)
             \/ DispatchCall(r, j)
    <3>1. v \in Turns =>
            /\ \A s \in ToolStatuses : UpdateToolRun(turn[v], c, s, TRUE).status = turn[v].status
            /\ BeginDispatch(turn[v], c).status = turn[v].status
      BY <1>a DEF UpdateToolRun, BeginDispatch, Turn
    <3>2. worker[r][j].pc # "idle"
      BY <2>3 DEF ReconcileCall, CommitReceipt, SettleAmbiguous, DispatchCall, At
    <3>3. {"completed", "interrupted", "running"} \subseteq ToolStatuses
      BY DEF ToolStatuses, ActiveTools, TerminalTools
    <3>4. \/ turn' = turn
          \/ \E u : SetTurn(v, u) /\ u.status = turn[v].status
      BY <2>0, <2>3, <3>1, <3>2, <3>3
      DEF ReconcileCall, CommitReceipt, SettleAmbiguous, DispatchCall, WriteOrRaise
    <3>5. QED BY <1>1, <1>2, <2>0, <3>2, <3>4
  <2>4. CASE ProposeCall(r, j)
    <3>1. \A d, rev : v \in Turns => AppendToolRun(turn[v], d, rev).status = turn[v].status
      BY <1>a DEF AppendToolRun, Turn
    <3>2. \/ turn' = turn
          \/ \E d : SetTurn(v, AppendToolRun(turn[v], d, revision))
      BY <2>4 DEF ProposeCall
    <3>3. QED BY <1>1, <1>2, <2>0, <2>4, <3>1, <3>2 DEF ProposeCall, At
  <2>5. CASE AskOrDeny(r, j)
    <3>1. v \in Turns /\ c \in Calls /\ policy[r] \in Policies
      BY <1>0, <2>0, <2>5 DEF AskOrDeny, At, WorkersOK, WorkOK, CallSteps, RestOK
    <3>2. ~Asked(policy[r], c)
      BY <3>1 DEF NothingAsked
    <3>3. turn' = turn \/ SetTurn(v, Cancel(turn[v]))
      BY <2>5, <3>2 DEF AskOrDeny, WriteOrRaise
    <3>4. Cancel(turn[v]).status = "cancelled"
      BY DEF Cancel
    <3>5. QED BY <1>1, <1>2, <3>1, <3>3, <3>4
  <2>6. QED
    BY <1>1, <1>4, <2>1, <2>2, <2>3, <2>4, <2>5
    DEF WorkerStep, ClaimLease, StartJob, CloseJob, DropJob, LoadTurn, ProceedAtBoundary,
        ProducerFails, ExecuteCall, CompleteJob, FailJob, OnlyWorker
<1>5. ASSUME NEW r \in Runners, Request(r) \/ RequestStep(r) \/ Recovery(r) PROVE Goal
  <2>1. ASSUME NEW v \in Turns, NEW c \in Calls
        PROVE  /\ BeginWithTool(c, revision).status = "queued"
               /\ Approve(turn[v], c).status = "running"
               /\ Deny(turn[v], c, TRUE).status = "cancelled"
    BY <1>a DEF BeginWithTool, QueuedTurn, Approve, Deny, Turn
  <2>2. ASSUME NEW v \in Turns, Submit(r, v) \/ \E c \in Calls : SubmitMcpTool(r, v, c) PROVE Goal
    <3>1. \E u : SetTurn(v, u) /\ u.status = "queued"
      <4>1. QueuedTurn.status = "queued"
        BY DEF QueuedTurn
      <4>2. QED BY <2>1, <2>2, <4>1 DEF Submit, SubmitMcpTool, BeginTurn
    <3>2. QED BY <1>2, <3>1
  <2>3. ASSUME NEW v \in Turns, NEW c \in Calls, DenyCheckpoint(r, v, c) PROVE Goal
    BY <1>2, <2>1, <2>3 DEF DenyCheckpoint
  <2>4. CASE ApproveCheckpoint(r)
    BY <1>0, <1>1, <1>2, <2>1, <2>4 DEF ApproveCheckpoint, RequestsOK
  <2>5. ASSUME NEW j \in Jobs, CancelTurnOfJob(r, j) PROVE Goal
    <3>1. job[j].turn \in Turns
      BY <1>0, <2>5 DEF CancelTurnOfJob, RequestsOK, JobsOK
    <3>2. QED BY <1>2, <1>3, <2>5, <3>1 DEF CancelTurnOfJob
  <2>6. ASSUME NEW j \in Jobs, RecoveryClaim(r, j) PROVE Goal
    <3>1. job[j].turn \in Turns
      BY <1>0, <2>6 DEF RecoveryClaim, JobsOK, Exists, Active
    <3>2. QED BY <1>1, <1>2, <1>3, <2>6, <3>1 DEF RecoveryClaim
  <2>7. ASSUME NEW v \in Turns, CloseOrphan(r, v) PROVE Goal
    BY <1>2, <1>3, <2>7 DEF CloseOrphan
  <2>8. QED
    BY <1>1, <1>5, <2>2, <2>3, <2>4, <2>5, <2>6, <2>7
    DEF Request, RequestStep, Recovery, CreateContinuation, Retry, CancelRequest, CreateJob,
        CancelSignal, CancelClose, FailContinuation, RecoverySkip, RecoveryWrite,
        RecoverOrphans, OrphansClosed, requestVars
<1>6. QED
  BY <1>1, <1>4, <1>5 DEF Next, Boot, Crash, Shutdown, ExternalEdit, vars

\* The methods that bring no approval leave a turn without one.
LEMMA MethodUnasked ==
  ASSUME NEW t, TurnInv(t), \A c \in Calls : t.tool[c].approval = "absent",
         NEW u, Method(t, u), u.status # "waiting_approval"
  PROVE  \A c \in Calls : u.tool[c].approval = "absent"
<1>0. t \in Turn /\ \A c \in Calls : t.tool[c] \in ToolRun
  BY DEF TurnInv, Turn
<1>1. ASSUME NEW s, u = [t EXCEPT !.status = s] PROVE u.tool = t.tool
  BY <1>0, <1>1 DEF Turn
<1>2. CASE u = InterruptActive(t)
  BY <1>0, <1>2 DEF InterruptActive, ToolRun
<1>3. CASE u = Cancel(t)
  BY <1>0, <1>3 DEF Cancel, CloseForCancel, ToolRun
<1>4. ASSUME NEW c \in Calls, NEW x, u.tool = [t.tool EXCEPT ![c] = x], x.approval = "absent"
      PROVE  \A d \in Calls : u.tool[d].approval = "absent"
  BY <1>0, <1>4 DEF Turn
<1>5. ASSUME NEW c \in Calls, CanAppendToolRun(t, c), u = AppendToolRun(t, c, revision)
      PROVE  \A d \in Calls : u.tool[d].approval = "absent"
  <2>1. u.tool = [t.tool EXCEPT ![c] = Proposed(revision)] /\ Proposed(revision).approval = "absent"
    BY <1>0, <1>5 DEF AppendToolRun, Proposed, NoTool, Turn
  <2>2. QED BY <1>4, <2>1
<1>6. ASSUME NEW c \in Calls, NEW target \in ToolStatuses, u = UpdateToolRun(t, c, target, TRUE)
      PROVE  \A d \in Calls : u.tool[d].approval = "absent"
  <2> DEFINE x == [t.tool[c] EXCEPT !.status = target,
                                    !.dispatched = @ \/ (target = "running" /\ TRUE)]
  <2>1. u.tool = [t.tool EXCEPT ![c] = x] /\ x.approval = t.tool[c].approval
    BY <1>0, <1>6 DEF UpdateToolRun, Turn, ToolRun
  <2> HIDE DEF x
  <2>2. QED BY <1>4, <2>1
<1>7. ASSUME NEW c \in Calls, u = BeginDispatch(t, c)
      PROVE  \A d \in Calls : u.tool[d].approval = "absent"
  <2> DEFINE x == [t.tool[c] EXCEPT !.dispatched = TRUE]
  <2>1. u.tool = [t.tool EXCEPT ![c] = x] /\ x.approval = t.tool[c].approval
    BY <1>0, <1>7 DEF BeginDispatch, Turn, ToolRun
  <2> HIDE DEF x
  <2>2. QED BY <1>4, <2>1
<1>8. ASSUME NEW c \in Calls
      PROVE  /\ u # RequestApproval(t, c)
             /\ ~CanApprove(t, c, t.tool[c].base, revision)
             /\ ~CanResolveApproval(t, c, t.tool[c].base)
  <2>1. RequestApproval(t, c).status = "waiting_approval"
    BY <1>0 DEF RequestApproval, Turn
  <2>2. QED BY <2>1 DEF CanApprove, CanResolveApproval
<1>9. QED
  BY <1>1, <1>2, <1>3, <1>5, <1>6, <1>7, <1>8 DEF Method, Update, Resume

LEMMA UnaskedKept ==
  ASSUME NothingAsked, IInv, IInv', AInv, Unasked, [Next]_vars
  PROVE  Unasked'
<1>0. TurnsOK /\ RequestsOK /\ NoAdmission.step = "free"
  BY FreeTyped DEF IInv
<1>1. \A t \in Turns, c \in Calls : turn'[t].tool[c].approval = "absent"
  <2>1. CASE turn' = turn
    BY <2>1 DEF Unasked
  <2>2. ASSUME NEW t \in Turns, NEW u, TurnWrite(t, u)
        PROVE  \A v \in Turns, c \in Calls : turn'[v].tool[c].approval = "absent"
    <3>1. \A v \in Turns : turn'[v] = IF v = t THEN u ELSE turn[v]
      BY <1>0, <2>2 DEF TurnWrite, SetTurn, TurnsOK
    <3>2. CASE Begins(t, u)
      <4>1. \A c \in Calls, d \in Calls : /\ QueuedTurn.tool[d].approval = "absent"
                                          /\ BeginWithTool(c, revision).tool[d].approval = "absent"
        BY DEF QueuedTurn, BeginWithTool, Proposed, NoTool
      <4>2. QED BY <3>1, <3>2, <4>1 DEF Begins, Unasked
    <3>3. CASE Method(turn[t], u)
      <4>1. turn[t].status # "waiting_approval"
        BY <1>0 DEF TurnsOK, TurnInv, Unasked, TurnWellFormed, PendingCalls
      <4>2. u.status # "waiting_approval"
        BY <3>1, <4>1, NobodyWaits
      <4>3. QED BY <1>0, <3>1, <3>3, <4>2, MethodUnasked DEF TurnsOK, Unasked
    <3>4. QED BY <2>2, <3>2, <3>3 DEF TurnWrite
  <2>3. QED BY <2>1, <2>2, NextTurns DEF TurnEffect
<1>2. ~Continuing'
  <2>1. ASSUME NEW r \in Runners, NEW t \in Turns, NEW c \in Calls, NEW j \in Jobs,
               CreateContinuation(r, t, c, j)
        PROVE  FALSE
    BY <2>1 DEF CreateContinuation, Unasked
  <2>2. ASSUME NEW r \in Runners, Request(r) \/ RequestStep(r) \/ Recovery(r)
        PROVE  ~Continuing'
    <3>1. admission' \in {admission, NoAdmission} \/ admission'.step \in {"begun", "orphans"}
      BY <2>1, <2>2
      DEF Request, RequestStep, Recovery, Submit, SubmitMcpTool, BeginTurn, DenyCheckpoint,
          Retry, CancelRequest, CreateJob, CancelSignal, CancelTurnOfJob, CancelClose,
          ApproveCheckpoint, FailContinuation, RecoverySkip, RecoveryClaim, RecoveryWrite,
          RecoverOrphans, CloseOrphan, OrphansClosed, NoAdmission, Unasked, Continuing,
          requestVars
    <3>2. QED BY <1>0, <3>1 DEF Unasked, Continuing
  <2>3. CASE UNCHANGED admission \/ admission' = NoAdmission
    BY <1>0, <2>3 DEF Unasked, Continuing
  <2>4. QED
    BY <2>2, <2>3, WorkerLands
    DEF Next, Boot, Crash, Shutdown, ExternalEdit, requestVars, vars
<1>3. QED BY <1>1, <1>2 DEF Unasked

LEMMA InitHeld == Init => LInv /\ Unasked
<1>1. IdleWorker.pc = "idle" /\ NoAdmission.step = "free" /\ NoCancel.step = "none"
      /\ "idle" \notin RunSteps \cup RecoverySteps
  BY NoJobTyped, FreeTyped DEF NoCancel, RunSteps, TurnSteps, RecoverySteps
<1>2. Init => LInv
  BY <1>1 DEF Init, LInv, HeldJob, ContinuationIdle, Continuing, RecoversFirst
<1>3. Init => Unasked
  BY <1>1 DEF Init, Unasked, Continuing, AbsentTurn, NoTool
<1>4. QED BY <1>2, <1>3

\* With one process no continuation loses its record; when nothing is asked there
\* are no continuations.
LEMMA NextLeases ==
  ASSUME Alone \/ Unasked', IInv, AInv, LInv, [Next]_vars
  PROVE  LInv'
<1>1. Unasked' => ContinuationIdle'
  BY DEF Unasked, ContinuationIdle
<1>2. QED BY <1>1, NextHeld, NextRecovers, NextContinues DEF LInv

\* With one process, or any number when nothing is asked, the leases are in order.
LEMMA AlwaysHeld == Alone \/ NothingAsked => (Spec => [](IInv /\ AInv /\ LInv))
<1>1. CASE Alone
  <2>1. IInv /\ IInv' /\ AInv /\ LInv /\ [Next]_vars => LInv'
    BY <1>1, NextLeases
  <2>2. Spec => [](IInv /\ AInv /\ LInv)
    BY <2>1, InitHeld, InitAuthority, NextAuthority, Invariance, PTL DEF Spec
  <2>3. QED BY <2>2
<1>2. CASE NothingAsked
  <2>1. IInv /\ IInv' /\ AInv /\ Unasked /\ [Next]_vars => Unasked'
    BY <1>2, UnaskedKept
  <2>2. IInv /\ AInv /\ LInv /\ Unasked' /\ [Next]_vars => LInv'
    BY NextLeases
  <2>3. Spec => [](IInv /\ AInv /\ LInv)
    BY <2>1, <2>2, InitHeld, InitAuthority, NextAuthority, Invariance, PTL DEF Spec
  <2>4. QED BY <2>3
<1>3. QED BY <1>1, <1>2

\* A handler runs for a job whose record is active and whose lease its process holds:
\* when one process serves the project, and for any number of processes, starts and
\* crashes when the permission modes ask about no call.
THEOREM HandlersHoldJobs == Alone \/ NothingAsked => (Spec => []HandlerHasActiveJob)
<1>1. IInv /\ LInv => HandlerHasActiveJob
  BY DEF IInv, LInv, HeldJob, HandlerHasActiveJob, Executing, RunSteps, TurnSteps
<1>2. QED BY <1>1, AlwaysHeld, PTL

-----------------------------------------------------------------------------
\* The dispatch mark.  A worker that has loaded its turn and found no call at work
\* meets no mark until it sets one, for nobody else works on the turn.

Marked(u, c)  == u.tool[c].status = "running" /\ u.tool[c].dispatched
NoMark(u)     == \A c \in Calls : ~Marked(u, c)
NoNewMark(t, u) == \A c \in Calls : Marked(u, c) => Marked(t, c)

\* Where a worker relies on its turn to hold no mark.
Clear == {"reconcileUnmarked", "check"}

MInv ==
  /\ \A t \in Turns : turn[t].status = "queued" => NoMark(turn[t])
  /\ \A r \in Runners, j \in Jobs : worker[r][j].pc \in Clear => NoMark(turn[job[j].turn])

\* What the methods write, but for the two that mark a call.
LEMMA QuietMethods ==
  ASSUME NEW t, TurnInv(t)
  PROVE  /\ \A s : NoNewMark(t, Update(t, s))
         /\ NoNewMark(t, Resume(t)) /\ NoNewMark(t, Cancel(t)) /\ NoNewMark(t, InterruptActive(t))
         /\ \A c \in Calls :
              /\ \A rev : NoNewMark(t, AppendToolRun(t, c, rev))
              /\ \A s : s # "running" => NoNewMark(t, UpdateToolRun(t, c, s, TRUE))
              /\ NoNewMark(t, RequestApproval(t, c))
              /\ NoNewMark(t, Deny(t, c, TRUE))
              /\ CanResolveApproval(t, c, t.tool[c].base) => NoNewMark(t, Approve(t, c))
<1>0. t \in Turn /\ \A c \in Calls : t.tool[c] \in ToolRun
  BY DEF TurnInv, Turn
<1>1. /\ \A s : NoNewMark(t, Update(t, s))
      /\ NoNewMark(t, Resume(t))
  BY <1>0 DEF NoNewMark, Marked, Update, Resume, Turn
<1>2. NoNewMark(t, Cancel(t))
  BY <1>0 DEF NoNewMark, Marked, Cancel, CloseForCancel, ToolRun
<1>3. NoNewMark(t, InterruptActive(t))
  BY <1>0 DEF NoNewMark, Marked, InterruptActive, ToolRun
<1>4. ASSUME NEW c \in Calls, NEW x, NEW u, u.tool = [t.tool EXCEPT ![c] = x],
             x.status # "running" \/ ~x.dispatched
      PROVE  NoNewMark(t, u)
  BY <1>0, <1>4 DEF NoNewMark, Marked, Turn
<1>5. ASSUME NEW c \in Calls, NEW rev PROVE NoNewMark(t, AppendToolRun(t, c, rev))
  <2>1. /\ AppendToolRun(t, c, rev).tool = [t.tool EXCEPT ![c] = Proposed(rev)]
        /\ Proposed(rev).status # "running"
    BY <1>0 DEF AppendToolRun, Proposed, NoTool, Turn
  <2>2. QED BY <1>4, <2>1
<1>6. ASSUME NEW c \in Calls, NEW s, s # "running"
      PROVE  NoNewMark(t, UpdateToolRun(t, c, s, TRUE))
  <2> DEFINE x == [t.tool[c] EXCEPT !.status = s,
                                    !.dispatched = @ \/ (s = "running" /\ TRUE)]
  <2>1. UpdateToolRun(t, c, s, TRUE).tool = [t.tool EXCEPT ![c] = x] /\ x.status # "running"
    BY <1>0, <1>6 DEF UpdateToolRun, Turn, ToolRun
  <2> HIDE DEF x
  <2>2. QED BY <1>4, <2>1
<1>7. ASSUME NEW c \in Calls PROVE NoNewMark(t, RequestApproval(t, c))
  <2> DEFINE x == [t.tool[c] EXCEPT !.status = "waiting_approval", !.approval = "pending"]
  <2>1. RequestApproval(t, c).tool = [t.tool EXCEPT ![c] = x] /\ x.status # "running"
    BY <1>0 DEF RequestApproval, Turn, ToolRun
  <2> HIDE DEF x
  <2>2. QED BY <1>4, <2>1
<1>8. ASSUME NEW c \in Calls PROVE NoNewMark(t, Deny(t, c, TRUE))
  <2> DEFINE x == [t.tool[c] EXCEPT !.status = "denied", !.approval = "denied"]
  <2>1. Deny(t, c, TRUE).tool = [t.tool EXCEPT ![c] = x] /\ x.status # "running"
    BY <1>0 DEF Deny, Turn, ToolRun
  <2> HIDE DEF x
  <2>2. QED BY <1>4, <2>1
<1>9. ASSUME NEW c \in Calls, CanResolveApproval(t, c, t.tool[c].base)
      PROVE  NoNewMark(t, Approve(t, c))
  <2> DEFINE x == [t.tool[c] EXCEPT !.status = "running", !.approval = "approved"]
  <2>1. ~t.tool[c].dispatched
    BY <1>9 DEF CanResolveApproval, TurnInv, CallInv
  <2>2. Approve(t, c).tool = [t.tool EXCEPT ![c] = x] /\ ~x.dispatched
    BY <1>0, <2>1 DEF Approve, Turn, ToolRun
  <2> HIDE DEF x
  <2>3. QED BY <1>4, <2>2
<1>10. QED BY <1>1, <1>2, <1>3, <1>5, <1>6, <1>7, <1>8, <1>9

\* Only a dispatch marks a call.
LEMMA WhoMarks ==
  ASSUME IInv, [Next]_vars, NEW t \in Turns, ~NoNewMark(turn[t], turn'[t])
  PROVE  \E r \in Runners, j \in Jobs : DispatchCall(r, j) /\ t = job[j].turn
<1> DEFINE Goal == \E r \in Runners, j \in Jobs : DispatchCall(r, j) /\ t = job[j].turn
<1>0. TurnsOK /\ JobsOK /\ RequestsOK /\ WorkersOK
  BY DEF IInv
<1>a. ASSUME NEW v \in Turns PROVE TurnInv(turn[v])
  BY <1>0 DEF TurnsOK
<1>b. \A u : NoNewMark(u, u)
  BY DEF NoNewMark
<1>1. CASE turn' = turn
  BY <1>1, <1>b
<1>2. ASSUME NEW v \in Turns, NEW u, SetTurn(v, u), NoNewMark(turn[v], u) PROVE Goal
  BY <1>0, <1>2, <1>b DEF SetTurn, TurnsOK
<1>3. ASSUME NEW v \in Turns
      PROVE  /\ NoNewMark(turn[v], TurnCancelled(v))
             /\ NoNewMark(turn[v], TurnInterrupted(v))
             /\ NoNewMark(turn[v], OrphanClosed(v))
  BY <1>a, <1>b, QuietMethods DEF TurnCancelled, TurnInterrupted, OrphanClosed
<1>4. ASSUME NEW r \in Runners, NEW j \in Jobs, WorkerStep(r, j) PROVE Goal
  <2> DEFINE v == job[j].turn
             c == worker[r][j].call
  <2>0. /\ worker[r][j].pc # "idle" => v \in Turns /\ TurnInv(turn[v])
        /\ worker[r][j].pc \in CallSteps => c \in Calls
    BY <1>0, <1>a DEF WorkersOK, WorkOK, JobsOK
  <2>1. CASE RefuseJob(r, j)
    BY <1>2, <1>3, <2>0, <2>1 DEF RefuseJob, At
  <2>2. CASE BeginTurnRun(r, j) \/ ResumeTurnRun(r, j) \/ StopAtBoundary(r, j)
             \/ FinishTurn(r, j) \/ GiveUpTurn(r, j) \/ FailTurn(r, j)
    <3>1. v \in Turns
      BY <2>0, <2>2 DEF BeginTurnRun, ResumeTurnRun, StopAtBoundary, FinishTurn, GiveUpTurn,
                        FailTurn, At
    <3>2. \/ turn' = turn
          \/ \E s : SetTurn(v, Update(turn[v], s))
          \/ SetTurn(v, Resume(turn[v])) \/ SetTurn(v, Cancel(turn[v]))
      BY <2>2 DEF BeginTurnRun, ResumeTurnRun, StopAtBoundary, FinishTurn, GiveUpTurn,
                  FailTurn, WriteOrRaise
    <3>3. QED BY <1>1, <1>2, <1>a, <3>1, <3>2, QuietMethods
  <2>3. CASE ReconcileCall(r, j) \/ CommitReceipt(r, j) \/ SettleAmbiguous(r, j) \/ AskOrDeny(r, j)
    <3>1. v \in Turns /\ c \in Calls
      BY <2>0, <2>3 DEF ReconcileCall, CommitReceipt, SettleAmbiguous, AskOrDeny, At, CallSteps
    <3>2. \/ turn' = turn
          \/ \E s : s # "running" /\ SetTurn(v, UpdateToolRun(turn[v], c, s, TRUE))
          \/ SetTurn(v, Cancel(turn[v])) \/ SetTurn(v, RequestApproval(turn[v], c))
      BY <2>3 DEF ReconcileCall, CommitReceipt, SettleAmbiguous, AskOrDeny, WriteOrRaise
    <3>3. QED BY <1>1, <1>2, <1>a, <3>1, <3>2, QuietMethods
  <2>4. CASE ProposeCall(r, j)
    <3>1. v \in Turns
      BY <2>0, <2>4 DEF ProposeCall, At
    <3>2. turn' = turn \/ \E d \in Calls : SetTurn(v, AppendToolRun(turn[v], d, revision))
      BY <2>4 DEF ProposeCall, Proposable
    <3>3. QED BY <1>1, <1>2, <1>a, <3>1, <3>2, QuietMethods
  <2>5. CASE DispatchCall(r, j)
    <3>1. v \in Turns /\ (turn' = turn \/ \E u : SetTurn(v, u))
      BY <2>0, <2>5 DEF DispatchCall, At
    <3>2. v # t => turn'[t] = turn[t]
      BY <1>0, <3>1 DEF SetTurn, TurnsOK
    <3>3. QED BY <1>b, <2>5, <3>2
  <2>6. QED
    BY <1>1, <1>4, <2>1, <2>2, <2>3, <2>4, <2>5
    DEF WorkerStep, ClaimLease, StartJob, CloseJob, DropJob, LoadTurn, ProceedAtBoundary,
        ProducerFails, ExecuteCall, CompleteJob, FailJob, OnlyWorker
<1>5. ASSUME NEW r \in Runners, Request(r) \/ RequestStep(r) \/ Recovery(r) PROVE Goal
  <2>1. ASSUME NEW v \in Turns, Submit(r, v) \/ \E c \in Calls : SubmitMcpTool(r, v, c) PROVE Goal
    <3>1. \E u : SetTurn(v, u) /\ NoMark(u)
      <4>1. NoMark(QueuedTurn) /\ \A c \in Calls : NoMark(BeginWithTool(c, revision))
        BY DEF NoMark, Marked, QueuedTurn, BeginWithTool, Proposed, NoTool
      <4>2. QED BY <2>1, <4>1 DEF Submit, SubmitMcpTool, BeginTurn
    <3>2. QED BY <1>2, <3>1 DEF NoMark, NoNewMark
  <2>2. ASSUME NEW v \in Turns, NEW c \in Calls, DenyCheckpoint(r, v, c) PROVE Goal
    BY <1>2, <1>a, <2>2, QuietMethods DEF DenyCheckpoint
  <2>3. CASE ApproveCheckpoint(r)
    <3>1. admission.turn \in Turns /\ admission.call \in Calls
      BY <1>0, <2>3 DEF ApproveCheckpoint, RequestsOK
    <3>2. QED BY <1>1, <1>2, <1>a, <2>3, <3>1, QuietMethods DEF ApproveCheckpoint, CanApprove
  <2>4. ASSUME NEW j \in Jobs, CancelTurnOfJob(r, j) PROVE Goal
    <3>1. job[j].turn \in Turns
      BY <1>0, <2>4 DEF CancelTurnOfJob, RequestsOK, JobsOK
    <3>2. QED BY <1>2, <1>3, <2>4, <3>1 DEF CancelTurnOfJob
  <2>5. ASSUME NEW j \in Jobs, RecoveryClaim(r, j) PROVE Goal
    <3>1. job[j].turn \in Turns
      BY <1>0, <2>5 DEF RecoveryClaim, JobsOK, Exists, Active
    <3>2. QED BY <1>1, <1>2, <1>3, <2>5, <3>1 DEF RecoveryClaim
  <2>6. ASSUME NEW v \in Turns, CloseOrphan(r, v) PROVE Goal
    BY <1>2, <1>3, <2>6 DEF CloseOrphan
  <2>7. QED
    BY <1>1, <1>5, <2>1, <2>2, <2>3, <2>4, <2>5, <2>6
    DEF Request, RequestStep, Recovery, CreateContinuation, Retry, CancelRequest, CreateJob,
        CancelSignal, CancelClose, FailContinuation, RecoverySkip, RecoveryWrite,
        RecoverOrphans, OrphansClosed, requestVars
<1>6. QED
  BY <1>1, <1>4, <1>5 DEF Next, Boot, Crash, Shutdown, ExternalEdit, vars

\* A worker works on its turn by its own steps only.
LEMMA WhoWorks ==
  ASSUME IInv, [Next]_vars, NEW r \in Runners, NEW j \in Jobs,
         worker'[r][j] # worker[r][j], worker'[r][j].pc \in TurnSteps
  PROVE  WorkerStep(r, j)
<1>0. WorkersOK /\ RestOK /\ RequestsOK
  BY DEF IInv
<1>a. {"idle", "pending"} \cap TurnSteps = {} /\ RecoverySteps \cap TurnSteps = {}
  BY DEF TurnSteps, RecoverySteps
<1>b. ASSUME NEW q \in Runners, NEW i \in Jobs, NEW p \in {"idle", "pending"} \cup RecoverySteps,
             Lands(q, i, p)
      PROVE  FALSE
  BY <1>a, <1>b DEF Lands
<1>c. ASSUME NEW q \in Runners, NEW i \in Jobs, Schedule(q, i) PROVE FALSE
  BY <1>0, <1>b, <1>c, ScheduleLands
<1>1. ASSUME NEW q \in Runners, Crash(q) \/ Shutdown(q) PROVE FALSE
  <2>1. worker'[r][j] \in {worker[r][j], IdleWorker}
    BY <1>0, <1>1 DEF Crash, Shutdown, WorkersOK
  <2>2. QED BY <1>a, <2>1, NoJobTyped
<1>2. ASSUME NEW q \in Runners, ApproveCheckpoint(q) PROVE FALSE
  BY <1>0, <1>c, <1>2 DEF ApproveCheckpoint, RequestsOK
<1>3. ASSUME NEW q \in Runners, NEW i \in Jobs, RecoveryClaim(q, i) \/ RecoveryWrite(q, i)
      PROVE  FALSE
  <2>1. \/ Schedule(q, i)
        \/ \E p \in {"idle"} \cup RecoverySteps : Lands(q, i, p)
    BY <1>0, <1>3, GotoLands DEF RecoveryClaim, RecoveryWrite, RecoverySteps
  <2>2. QED BY <1>b, <1>c, <2>1
<1>4. ASSUME NEW q \in Runners, Request(q) \/ RequestStep(q) \/ Recovery(q) PROVE FALSE
  BY <1>c, <1>2, <1>3, <1>4
  DEF Request, RequestStep, Recovery, Submit, SubmitMcpTool, BeginTurn, DenyCheckpoint,
      CreateContinuation, Retry, CancelRequest, CreateJob, CancelSignal, CancelTurnOfJob,
      CancelClose, FailContinuation, RecoverySkip, RecoverOrphans, CloseOrphan, OrphansClosed
<1>5. ASSUME NEW q \in Runners, NEW i \in Jobs, WorkerStep(q, i) PROVE q = r /\ i = j
  BY <1>5, WorkerLands DEF Lands
<1>6. QED
  BY <1>1, <1>4, <1>5 DEF Next, Boot, ExternalEdit, vars

\* A call that is settled was the one at work.
LEMMA SettledUnmarks ==
  ASSUME NEW t, TurnInv(t), NEW c \in Calls, NEW s \in {"completed", "interrupted"},
         CanUpdateToolRun(t, c, s, TRUE)
  PROVE  NoMark(UpdateToolRun(t, c, s, TRUE))
<1> DEFINE u == UpdateToolRun(t, c, s, TRUE)
<1>0. t \in Turn /\ \A d \in Calls : t.tool[d] \in ToolRun
  BY DEF TurnInv, Turn
<1>1. t.tool[c].status = "running"
  BY DEF CanUpdateToolRun, ToolTransitions
<1>2. \A d \in Calls : d # c => t.tool[d].status # "running"
  BY <1>1 DEF TurnInv, ActiveCalls, ActiveTools
<1>3. \A d \in Calls : u.tool[d].status = IF d = c THEN s ELSE t.tool[d].status
  BY <1>0 DEF UpdateToolRun, Turn, ToolRun
<1>4. QED BY <1>2, <1>3 DEF NoMark, Marked

\* A worker goes on to a boundary of its loop with no call at work, or none marked.
LEMMA WorkerClears ==
  ASSUME IInv, MInv, NEW r \in Runners, NEW j \in Jobs, WorkerStep(r, j),
         worker'[r][j].pc \in Clear
  PROVE  NoMark(turn'[job[j].turn])
<1> DEFINE s == job[j].turn
           record == turn[s]
           c == worker[r][j].call
           Goal == NoMark(turn'[s])
<1>0. /\ WorkersOK /\ JobsOK /\ TurnsOK /\ s \in Turns /\ TurnInv(record)
      /\ worker[r][j].pc \in CallSteps => c \in Calls
  BY WorkerLands DEF IInv, TurnsOK, WorkersOK, WorkOK, JobsOK
<1>a. /\ \A p : Goto(r, j, p) \/ GotoSeen(r, j, p) => p \in Clear
      /\ \A p, d : GotoCall(r, j, p, d) => p \in Clear
  <2>1. ASSUME NEW p, NEW d, Goto(r, j, p) \/ GotoCall(r, j, p, d) \/ GotoSeen(r, j, p)
        PROVE  p \in Clear
    BY <1>0, <2>1, GotoLands DEF Lands
  <2>2. QED BY <2>1
<1>b. ASSUME NEW accepted, NEW u, NEW p, WriteOrRaise(r, j, accepted, u, p), NoMark(u)
      PROVE  Goal
  <2>1. SetTurn(s, u)
    BY <1>a, <1>b DEF WriteOrRaise, Clear
  <2>2. QED BY <1>0, <1>b, <2>1 DEF SetTurn, TurnsOK
<1> USE DEF At, Clear
<1>1. CASE LoadTurn(r, j)
  <2>1. turn' = turn /\ record.status = "running"
        /\ (RunningCall(s) # None => ~record.tool[RunningCall(s)].dispatched)
    BY <1>1, <1>a DEF LoadTurn
  <2> DEFINE running == {d \in Calls : record.tool[d].status = "running"}
  <2>2. CASE running = {}
    BY <2>1, <2>2 DEF NoMark, Marked
  <2>3. CASE running # {}
    <3>1. RunningCall(s) \in running /\ None \notin Calls
      BY <2>3, NoneAssumption DEF RunningCall
    <3>2. \A d \in running : d = RunningCall(s)
      BY <1>0, <3>1 DEF TurnInv, ActiveCalls, ActiveTools
    <3>3. QED BY <2>1, <3>1, <3>2 DEF NoMark, Marked
  <2>4. QED BY <2>2, <2>3
<1>2. CASE BeginTurnRun(r, j)
  <2>1. WriteOrRaise(r, j, CanUpdate(record, "running"), Update(record, "running"), "check")
        /\ CanUpdate(record, "running")
    BY <1>2, <1>a DEF BeginTurnRun, WriteOrRaise
  <2>2. record.status \in {"queued", "waiting_approval"}
    BY <2>1 DEF CanUpdate, TurnTransitions, TerminalTurns
  <2>3. CASE record.status = "queued"
    <3>1. NoMark(Update(record, "running"))
      BY <1>0, <2>3, QuietMethods DEF MInv, NoMark, NoNewMark
    <3>2. QED BY <1>b, <2>1, <3>1
  <2>4. CASE record.status = "waiting_approval"
    <3>1. PICK d \in Calls : record.tool[d].status = "waiting_approval"
      BY <1>0, <2>4 DEF TurnInv, CallInv, PendingCalls
    <3>2. \A e \in Calls : record.tool[e].status # "running"
      BY <1>0, <3>1 DEF TurnInv, ActiveCalls, ActiveTools
    <3>3. NoMark(record)
      BY <3>2 DEF NoMark, Marked
    <3>4. NoMark(Update(record, "running"))
      BY <1>0, <3>3, QuietMethods DEF NoMark, NoNewMark
    <3>5. QED BY <1>b, <2>1, <3>4
  <2>5. QED BY <2>2, <2>3, <2>4
<1>3. CASE ResumeTurnRun(r, j)
  <2>1. WriteOrRaise(r, j, CanResume(record), Resume(record), "check") /\ CanResume(record)
    BY <1>3, <1>a DEF ResumeTurnRun, WriteOrRaise
  <2>2. NoMark(record)
    <3>1. \A d \in Calls : d \notin ActiveCalls(record)
      BY <1>0, <2>1 DEF CanResume, TurnInv, TerminalTurns
    <3>2. QED BY <3>1 DEF NoMark, Marked, ActiveCalls, ActiveTools
  <2>3. NoMark(Resume(record))
    BY <1>0, <2>2, QuietMethods DEF NoMark, NoNewMark
  <2>4. QED BY <1>b, <2>1, <2>3
<1>4. CASE ReconcileCall(r, j)
  <2>1. \/ worker[r][j].pc = "reconcileUnmarked" /\ turn' = turn
        \/ /\ WriteOrRaise(r, j, CanUpdateToolRun(record, c, "completed", TRUE),
                           UpdateToolRun(record, c, "completed", TRUE), "check")
           /\ CanUpdateToolRun(record, c, "completed", TRUE)
    <3>1. ~GotoCall(r, j, "ambiguous", c) /\ ~Goto(r, j, "raise")
      BY <1>a
    <3>2. QED BY <1>4, <3>1 DEF ReconcileCall, WriteOrRaise
  <2>2. CASE worker[r][j].pc = "reconcileUnmarked" /\ turn' = turn
    BY <2>2 DEF MInv
  <2>3. c \in Calls
    BY <1>0, <1>4 DEF ReconcileCall, CallSteps
  <2>4. QED BY <1>0, <1>b, <2>1, <2>2, <2>3, SettledUnmarks
<1>5. CASE CommitReceipt(r, j) \/ SettleAmbiguous(r, j)
  <2>1. \E st \in {"completed", "interrupted"}, p \in {"check", "failTurn"} :
          /\ WriteOrRaise(r, j, CanUpdateToolRun(record, c, st, TRUE),
                          UpdateToolRun(record, c, st, TRUE), p)
          /\ CanUpdateToolRun(record, c, st, TRUE)
    <3>1. ~Goto(r, j, "raise")
      BY <1>a
    <3>2. QED BY <1>5, <3>1 DEF CommitReceipt, SettleAmbiguous, WriteOrRaise
  <2>2. c \in Calls
    BY <1>0, <1>5 DEF CommitReceipt, SettleAmbiguous, CallSteps
  <2>3. QED BY <1>0, <1>b, <2>1, <2>2, SettledUnmarks
<1>6. CASE ClaimLease(r, j) \/ StartJob(r, j) \/ RefuseJob(r, j) \/ CloseJob(r, j)
           \/ DropJob(r, j) \/ CompleteJob(r, j) \/ FailJob(r, j)
  <2>1. \E p \in {"leased", "idle", "load", "closeCancelled", "closeFailed"} :
          Goto(r, j, p) \/ GotoSeen(r, j, p)
    BY <1>6 DEF ClaimLease, StartJob, RefuseJob, CloseJob, DropJob, CompleteJob, FailJob, Leave
  <2>2. QED BY <1>a, <2>1
<1>7. CASE StopAtBoundary(r, j) \/ FinishTurn(r, j) \/ GiveUpTurn(r, j) \/ FailTurn(r, j)
           \/ AskOrDeny(r, j) \/ ProducerFails(r, j)
  <2>1. \E p \in {"return", "raise"} : Goto(r, j, p)
    BY <1>7 DEF StopAtBoundary, FinishTurn, GiveUpTurn, FailTurn, AskOrDeny, ProducerFails,
                WriteOrRaise
  <2>2. QED BY <1>a, <2>1
<1>8. CASE ProceedAtBoundary(r, j) \/ ProposeCall(r, j) \/ DispatchCall(r, j) \/ ExecuteCall(r, j)
  <2>1. \E p \in {"return", "raise", "think", "decide", "beginDispatch", "execute", "receipt",
                  "ambiguous"} : Goto(r, j, p) \/ \E d : GotoCall(r, j, p, d)
    BY <1>8 DEF ProceedAtBoundary, LoadedStep, ProposeCall, DispatchCall, ExecuteCall
  <2>2. QED BY <1>a, <2>1
<1>9. QED
  BY <1>1, <1>2, <1>3, <1>4, <1>5, <1>6, <1>7, <1>8 DEF WorkerStep

LEMMA InitMarks == Init => MInv
<1>1. "idle" \notin Clear /\ AbsentTurn.status = "absent"
  BY DEF Clear, AbsentTurn
<1>2. QED BY <1>1, NoJobTyped DEF Init, MInv

\* Two workers do not work on turns at once, so the mark that a dispatch sets meets
\* no other worker at a boundary.
LEMMA NextMarks == IInv /\ AInv /\ LInv /\ MInv /\ [Next]_vars => MInv'
<1> SUFFICES ASSUME IInv, AInv, LInv, MInv, [Next]_vars PROVE MInv'
  OBVIOUS
<1>0. WorkersOK /\ JobsOK /\ TurnsOK
  BY DEF IInv
<1>1. ASSUME NEW t \in Turns, turn'[t].status = "queued" PROVE NoMark(turn'[t])
  <2>1. CASE turn' = turn
    BY <1>1, <2>1 DEF MInv
  <2>2. ASSUME NEW v \in Turns, NEW u, TurnWrite(v, u) PROVE NoMark(turn'[t])
    <3>1. turn'[t] = IF t = v THEN u ELSE turn[t]
      BY <1>0, <2>2 DEF TurnWrite, SetTurn, TurnsOK
    <3>2. CASE t # v
      BY <1>1, <3>1, <3>2 DEF MInv
    <3>3. CASE t = v /\ Begins(v, u)
      <4>1. NoMark(QueuedTurn) /\ \A c \in Calls : NoMark(BeginWithTool(c, revision))
        BY DEF NoMark, Marked, QueuedTurn, BeginWithTool, Proposed, NoTool
      <4>2. QED BY <3>1, <3>3, <4>1 DEF Begins
    <3>4. CASE t = v /\ Method(turn[v], u)
      <4>1. turn[v] \in Turn /\ u.status = "queued"
        BY <1>0, <1>1, <3>1, <3>4 DEF TurnsOK, TurnInv
      <4>2. u = turn[v]
        <5> DEFINE x == turn[v]
        <5>1. ~\E target \in TurnStatuses : CanUpdate(x, target) /\ u = Update(x, target)
          BY <4>1 DEF CanUpdate, Update, TurnTransitions, TerminalTurns, Turn
        <5>2. u # InterruptActive(x) /\ u # Cancel(x) /\ u # Resume(x)
          BY <4>1 DEF InterruptActive, Cancel, Resume, Turn
        <5>3. ASSUME NEW c \in Calls
              PROVE  /\ u # RequestApproval(x, c) /\ u # Approve(x, c) /\ u # Deny(x, c, TRUE)
                     /\ CanAppendToolRun(x, c) => u # AppendToolRun(x, c, revision)
                     /\ CanBeginDispatch(x, c) => u # BeginDispatch(x, c)
                     /\ \A s : CanUpdateToolRun(x, c, s, TRUE) => u # UpdateToolRun(x, c, s, TRUE)
          <6>1. u # RequestApproval(x, c) /\ u # Approve(x, c) /\ u # Deny(x, c, TRUE)
            BY <4>1 DEF RequestApproval, Approve, Deny, Turn
          <6>2. /\ AppendToolRun(x, c, revision).status = x.status
                /\ BeginDispatch(x, c).status = x.status
                /\ \A s : UpdateToolRun(x, c, s, TRUE).status = x.status
            BY <4>1 DEF AppendToolRun, BeginDispatch, UpdateToolRun, Turn
          <6>3. QED BY <4>1, <6>1, <6>2 DEF CanAppendToolRun, CanBeginDispatch, CanUpdateToolRun
        <5>4. QED BY <3>4, <5>1, <5>2, <5>3 DEF Method
      <4>3. QED BY <3>1, <3>4, <4>1, <4>2 DEF MInv
    <3>5. QED BY <2>2, <3>2, <3>3, <3>4 DEF TurnWrite
  <2>3. QED BY <2>1, <2>2, NextTurns DEF TurnEffect
<1>2. ASSUME NEW r \in Runners, NEW j \in Jobs, worker'[r][j].pc \in Clear
      PROVE  NoMark(turn'[job'[j].turn])
  <2> DEFINE s == job[j].turn
  <2>0. Clear \subseteq TurnSteps /\ {"decide", "beginDispatch"} \subseteq TurnSteps
        /\ "idle" \notin TurnSteps
    BY DEF Clear, TurnSteps
  <2>1. worker[r][j].pc # "idle"
    BY <1>2, <2>0, WhoWorks, WorkerLands
  <2>2. s \in Turns /\ job'[j].turn = s
    BY <1>0, <2>1, NextJobsBound DEF WorkersOK, JobsOK, JobsBound
  <2>3. CASE worker'[r][j] # worker[r][j]
    BY <1>2, <2>0, <2>2, <2>3, WhoWorks, WorkerClears
  <2>4. CASE worker'[r][j] = worker[r][j]
    <3>1. NoMark(turn[s])
      BY <1>2, <2>4 DEF MInv
    <3>2. ASSUME NEW q \in Runners, NEW i \in Jobs, DispatchCall(q, i) PROVE FALSE
      <4>1. worker[q][i].pc \in {"decide", "beginDispatch"}
        BY <3>2 DEF DispatchCall, At
      <4>2. worker[r][j].pc \in RunSteps /\ worker[q][i].pc \in RunSteps
        BY <1>2, <2>0, <2>4, <4>1 DEF RunSteps
      <4>3. /\ job[j].status \in Active /\ lease[j] = r
            /\ job[i].status \in Active /\ lease[i] = q
        BY <4>2 DEF LInv, HeldJob, Active, RunSteps, TurnSteps
      <4>4. i = j /\ q = r
        BY <4>3 DEF IInv, OneActive, OneActiveJob, ActiveJobs
      <4>5. QED BY <1>2, <2>4, <4>1, <4>4 DEF Clear
    <3>3. NoNewMark(turn[s], turn'[s])
      BY <2>2, <3>2, WhoMarks
    <3>4. QED BY <2>2, <3>1, <3>3 DEF NoMark, NoNewMark
  <2>5. QED BY <2>3, <2>4
<1>3. QED BY <1>1, <1>2 DEF MInv

\* A worker that arrives at its handler has just had its call marked.
LEMMA ArrivesUnmarked ==
  ASSUME IInv, MInv, [Next]_vars, NEW r \in Runners, NEW j \in Jobs,
         worker'[r][j] # worker[r][j], worker'[r][j].pc = "execute"
  PROVE  LET t == job[j].turn
             c == worker'[r][j].call
         IN /\ ~turn[t].tool[c].dispatched
            /\ ~Asked(policy[r], c) \/ CanBeginDispatch(turn[t], c)
<1>1. worker[r][j].pc = "check" => NoMark(turn[job[j].turn])
  BY DEF MInv, Clear
<1>2. QED BY <1>1, WhoArrives DEF NoMark, Marked

\* A call is handed to its handler at most once: when one process serves the project,
\* and for any number of processes, starts and crashes when nothing is asked.
THEOREM AlwaysDispatchOnce == Alone \/ NothingAsked => (Spec => DispatchOnce)
<1> SUFFICES ASSUME Alone \/ NothingAsked PROVE Spec => DispatchOnce
  OBVIOUS
<1>1. IInv /\ MInv /\ [Next]_vars
      => [\A r \in Runners, j \in Jobs :
            ~Executing(r, j) /\ Executing(r, j)'
              => ~turn[job[j].turn].tool[worker'[r][j].call].dispatched]_vars
  BY ArrivesUnmarked DEF Executing
<1>2. Spec => [](IInv /\ AInv /\ LInv)
  BY AlwaysHeld
<1>3. QED BY <1>1, <1>2, InitMarks, NextMarks, PTL DEF Spec, DispatchOnce

-----------------------------------------------------------------------------
\* Authority.  Every way to a handler goes through the policy or an approval, but for
\* a call that was marked before the worker loaded it: some mode let it pass then.

\* What one of the modes in use asks about, no other lets pass.
ModesAgree ==
  \A m \in Policies, n \in Policies, c \in Calls : Asked(m, c) => Asked(n, c) \/ Denied(n, c)

\* A call that was handed over was approved, if any mode asks about it.
MarksVetted ==
  \A t \in Turns, c \in Calls, m \in Policies :
    Marked(turn[t], c) /\ Asked(m, c) => turn[t].tool[c].approval = "approved"

LEMMA NextVetted ==
  ASSUME ModesAgree, IInv, AInv, MarksVetted, [Next]_vars
  PROVE  MarksVetted'
<1> SUFFICES ASSUME NEW t \in Turns, NEW c \in Calls, NEW m \in Policies,
                    Marked(turn'[t], c), Asked(m, c)
             PROVE  turn'[t].tool[c].approval = "approved"
  BY DEF MarksVetted
<1>0. WorkersOK /\ JobsOK /\ TurnsOK /\ RestOK
  BY DEF IInv
<1>1. turn[t].tool[c].approval = "approved" => turn'[t].tool[c].approval = "approved"
  BY NextApproved DEF AInv, ApprovalsKept
<1>2. CASE Marked(turn[t], c)
  BY <1>1, <1>2 DEF MarksVetted
<1>3. CASE ~Marked(turn[t], c)
  <2>1. PICK q \in Runners, i \in Jobs : DispatchCall(q, i) /\ t = job[i].turn
    BY <1>3, WhoMarks DEF NoNewMark
  <2> DEFINE d == worker[q][i].call
  <2>2. d \in Calls /\ policy[q] \in Policies
    BY <1>0, <2>1 DEF DispatchCall, At, CallSteps, WorkersOK, WorkOK, RestOK
  <2>3. turn' # turn
    BY <1>3
  <2>4. \/ /\ ~Denied(policy[q], d) /\ ~Asked(policy[q], d)
           /\ SetTurn(t, UpdateToolRun(turn[t], d, "running", TRUE))
        \/ /\ CanBeginDispatch(turn[t], d)
           /\ SetTurn(t, BeginDispatch(turn[t], d))
    BY <2>1, <2>3 DEF DispatchCall
  <2>5. c = d
    <3>1. TurnInv(turn[t]) /\ turn[t] \in Turn
      BY <1>0 DEF TurnsOK, TurnInv
    <3>2. c # d => /\ UpdateToolRun(turn[t], d, "running", TRUE).tool[c] = turn[t].tool[c]
                   /\ BeginDispatch(turn[t], d).tool[c] = turn[t].tool[c]
      BY <3>1 DEF UpdateToolRun, BeginDispatch, Turn
    <3>3. QED BY <1>0, <1>3, <2>4, <3>2 DEF SetTurn, TurnsOK, Marked
  <2>6. CASE ~Denied(policy[q], d) /\ ~Asked(policy[q], d)
    BY <2>2, <2>5, <2>6 DEF ModesAgree
  <2>7. CASE CanBeginDispatch(turn[t], d)
    BY <1>1, <2>5, <2>7 DEF CanBeginDispatch, AInv, TurnsApproved, RunningApproved
  <2>8. QED BY <2>4, <2>6, <2>7
<1>4. QED BY <1>2, <1>3

\* What a handler was given stays with it, and what it is given now was let pass or
\* approved.
LEMMA AuthorityKept ==
  ASSUME IInv, AInv, AInv', EffectsAuthorised, MInv \/ MarksVetted, [Next]_vars
  PROVE  EffectsAuthorised'
<1> SUFFICES ASSUME NEW r \in Runners, NEW j \in Jobs, worker'[r][j].pc = "execute"
             PROVE  LET c == worker'[r][j].call IN
                    /\ policy'[r] = job'[j].policy
                    /\ Asked(policy'[r], c) => turn'[job'[j].turn].tool[c].approval = "approved"
  BY DEF EffectsAuthorised, Executing
<1> DEFINE c == worker'[r][j].call
<1>0. WorkersOK /\ JobsOK /\ RestOK /\ \A t \in Turns : ApprovalsKept(turn[t], turn'[t])
  BY NextApproved DEF IInv, AInv
<1>1. policy'[r] = job'[j].policy
  BY DEF AInv, WorkersBound, TurnSteps
<1>2. CASE worker'[r][j] = worker[r][j]
  <2>1. /\ Exists(j) /\ job[j].turn \in Turns /\ c \in Calls /\ runner[r] # "down"
    BY <1>0, <1>2 DEF WorkersOK, WorkOK, JobsOK, CallSteps, AInv, DownIdle
  <2>2. job'[j].turn = job[j].turn /\ policy'[r] = policy[r]
    BY <2>1, NextJobsBound, NextMoves DEF JobsBound, WorkersEffect
  <2>3. Asked(policy[r], c) => turn[job[j].turn].tool[c].approval = "approved"
    BY <1>2 DEF EffectsAuthorised, Executing
  <2>4. QED BY <1>0, <1>1, <2>1, <2>2, <2>3 DEF ApprovalsKept
<1>3. CASE worker'[r][j] # worker[r][j]
  <2> DEFINE t == job[j].turn
  <2>1. t \in Turns /\ c \in Calls /\ UNCHANGED <<job, policy>> /\ policy[r] \in Policies
    BY <1>0, <1>3, WhoArrives DEF RestOK
  <2>2. ASSUME Asked(policy[r], c) PROVE turn[t].tool[c].approval = "approved"
    <3>1. CASE CanBeginDispatch(turn[t], c)
      BY <2>1, <3>1 DEF CanBeginDispatch, AInv, TurnsApproved, RunningApproved
    <3>2. CASE MInv
      BY <1>3, <2>2, <3>1, <3>2, ArrivesUnmarked
    <3>3. CASE MarksVetted /\ Marked(turn[t], c)
      BY <2>1, <2>2, <3>3 DEF MarksVetted
    <3>4. QED BY <1>3, <2>2, <3>1, <3>2, <3>3, WhoArrives DEF Marked
  <2>3. QED BY <1>0, <1>1, <2>1, <2>2 DEF ApprovalsKept
<1>4. QED BY <1>2, <1>3

\* A handler runs under the mode its job was admitted with, and a call that mode
\* asks about only with the user's approval: when one process serves the project, and
\* for any processes, starts and crashes when no mode lets pass what another asks about.
THEOREM AlwaysAuthorised == Alone \/ ModesAgree => (Spec => []EffectsAuthorised)
<1>0. Init => EffectsAuthorised
  BY NoJobTyped DEF Init, EffectsAuthorised, Executing
<1>1. CASE Alone
  <2>1. Spec => [](IInv /\ AInv /\ LInv)
    BY <1>1, AlwaysHeld
  <2>2. IInv /\ AInv /\ AInv' /\ MInv /\ EffectsAuthorised /\ [Next]_vars => EffectsAuthorised'
    BY AuthorityKept
  <2>3. Spec => []EffectsAuthorised
    BY <1>0, <2>1, <2>2, InitMarks, NextMarks, PTL DEF Spec
  <2>4. QED BY <2>3
<1>2. CASE ModesAgree
  <2>1. IInv /\ AInv /\ MarksVetted /\ [Next]_vars => MarksVetted'
    BY <1>2, NextVetted
  <2>2. IInv /\ AInv /\ AInv' /\ MarksVetted /\ EffectsAuthorised /\ [Next]_vars
        => EffectsAuthorised'
    BY AuthorityKept
  <2>3. Init => MarksVetted
    BY DEF Init, MarksVetted, Marked, AbsentTurn, NoTool
  <2>4. Spec => []EffectsAuthorised
    BY <1>0, <2>1, <2>2, <2>3, InitAuthority, NextAuthority, Invariance, PTL DEF Spec
  <2>5. QED BY <2>4
<1>3. QED BY <1>1, <1>2

-----------------------------------------------------------------------------
\* The record of a job when one process serves the project.  A section that writes
\* back a record read earlier finds it as it was read; a job that is not at work has
\* not started; and a cancellation reaches nothing but jobs it was asked for.

Unstarted(x) == x.status \in {"queued", "cancel_requested", "cancelled"} /\ ~x.started

RecordJob(j) ==
  /\ JobWellFormed(job[j])
  /\ job[j].cancelled => Exists(j)
  /\ \A r \in Runners :
       LET pc == worker[r][j].pc IN
       /\ pc \in SeenSteps \ {"recoverQueued"} => worker[r][j].seen = job[j]
       /\ pc \in {"pending", "leased", "recoverQueued"} => Unstarted(job[j])
       /\ pc = "closeCancelled" => job[j].status \in {"cancel_requested", "cancelled"}
       /\ pc \in {"closeFailed", "recoverFailed"} => job[j].status = "queued"
       /\ pc = "recoverCancelled" => job[j].status = "cancel_requested"
       /\ pc = "recoverRunning" => job[j].status = "running"
       /\ pc \in RunSteps => job[j].started
       /\ j \in cancelSet[r] => job[j].cancelled
  /\ cancelling[j].step # "none" => job[j].cancelled \/ job[j].status = "failed"

\* The continuation that an admission has written is the only active job, and is as
\* it was written but for a cancellation.
ContinuationFresh ==
  Continuing => /\ Unstarted(job[admission.job])
                /\ \A r \in Runners : admission.job \notin cancelSet[r]
                /\ ActiveJobs \subseteq {admission.job}

RInv == (\A j \in Jobs : RecordJob(j)) /\ ContinuationFresh

LEMMA OthersRecorded ==
  ASSUME NEW j \in Jobs, Only(j), \A i \in Jobs : RecordJob(i), RecordJob(j)'
  PROVE  \A i \in Jobs : RecordJob(i)'
BY DEF Only, RecordJob, Exists

\* The steps whose guard a record must meet.
StepSets == /\ RunSteps \cap (SeenSteps \cup {"idle", "pending", "leased"}) = {}
            /\ SeenSteps \cap {"idle", "pending", "leased"} = {}
            /\ "load" \in RunSteps /\ "return" \in RunSteps /\ "raise" \in RunSteps
            /\ SeenSteps = {"closeCancelled", "closeFailed", "recoverQueued", "recoverCancelled",
                            "recoverFailed", "recoverRunning"}
LEMMA StepsDiffer == StepSets
BY DEF StepSets, RunSteps, TurnSteps, SeenSteps, ClosingSteps, RecoverySteps

LEMMA WorkerRecorded ==
  ASSUME Alone, IInv, LInv, RInv, NEW r \in Runners, NEW j \in Jobs, WorkerStep(r, j)
  PROVE  RecordJob(j)'
<1>0. WorkersOK /\ RestOK /\ JobsOK /\ HeldJob(j) /\ RecordJob(j) /\ job[j] \in Job /\ StepSets
  BY StepsDiffer DEF IInv, LInv, RInv, JobsOK
<1>a. \A q \in Runners : q = r
  BY DEF Alone
<1> USE DEF At, requestVars
<1>1. CASE worker[r][j].pc \in TurnSteps
  <2>1. PICK p \in RunSteps : Lands(r, j, p)
    BY <1>0, <1>1, TurnStepGoes, GotoLands
  <2>2. UNCHANGED <<job, lease, cancelSet, cancelling>>
    BY <1>1, TurnStepGoes
  <2>3. job[j].started
    BY <1>0, <1>1 DEF RecordJob, RunSteps
  <2>4. QED BY <1>0, <1>a, <2>1, <2>2, <2>3 DEF RecordJob, Exists, Lands, StepSets
<1>2. CASE ClaimLease(r, j) \/ DropJob(r, j)
  <2>1. /\ \/ Lands(r, j, "leased") /\ worker[r][j].pc = "pending"
           \/ Lands(r, j, "idle")
        /\ UNCHANGED <<job, cancelling>>
        /\ cancelSet' = cancelSet \/ cancelSet' = [cancelSet EXCEPT ![r] = @ \ {j}]
    BY <1>0, <1>2, GotoLands DEF ClaimLease, DropJob, Leave
  <2>2. j \in cancelSet'[r] => j \in cancelSet[r]
    BY <1>0, <2>1 DEF RestOK
  <2>3. QED BY <1>0, <1>a, <2>1, <2>2 DEF RecordJob, Exists, Lands, StepSets
<1>3. CASE StartJob(r, j)
  <2> DEFINE y == [job[j] EXCEPT !.status = "running", !.started = TRUE]
  <2>1. /\ Lands(r, j, "load") /\ UNCHANGED <<cancelSet, cancelling>>
        /\ job' = [job EXCEPT ![j] = y]
        /\ job[j].status = "queued" /\ j \notin cancelSet[r]
    BY <1>0, <1>3, GotoLands DEF StartJob, CancelSeen
  <2>2. job'[j] = y /\ y.status = "running" /\ y.started /\ y.cancelled = job[j].cancelled
        /\ y.error = job[j].error /\ y.result = job[j].result
    BY <1>0, <2>1 DEF JobsOK, Job
  <2> HIDE DEF y
  <2>3. ~job[j].cancelled /\ ~job[j].error /\ ~job[j].result
    BY <1>0, <2>1 DEF RecordJob, JobWellFormed
  <2>4. JobWellFormed(y)
    BY <2>2, <2>3 DEF JobWellFormed
  <2>5. cancelling[j].step = "none"
    BY <1>0, <2>1, <2>3 DEF RecordJob
  <2>6. QED BY <1>0, <1>a, <2>1, <2>2, <2>4, <2>5 DEF RecordJob, Exists, Lands, StepSets
<1>4. CASE RefuseJob(r, j)
  <2>1. UNCHANGED <<job, cancelSet, cancelling>> /\ worker[r][j].pc = "leased"
    BY <1>4 DEF RefuseJob
  <2>2. Unstarted(job[j])
    BY <1>0, <2>1 DEF RecordJob
  <2>3. CASE CancelSeen(r, j) /\ GotoSeen(r, j, "closeCancelled")
    <3>1. Lands(r, j, "closeCancelled") /\ worker'[r][j].seen = job[j]
      BY <1>0, <2>3, GotoLands
    <3>2. job[j].status # "queued"
      BY <1>0, <2>3 DEF CancelSeen, RecordJob, JobWellFormed
    <3>3. QED BY <1>0, <1>a, <2>1, <2>2, <3>1, <3>2 DEF RecordJob, Exists, Lands, StepSets, Unstarted
  <2>4. CASE job[j].status = "queued" /\ GotoSeen(r, j, "closeFailed")
    <3>1. Lands(r, j, "closeFailed") /\ worker'[r][j].seen = job[j]
      BY <1>0, <2>4, GotoLands
    <3>2. QED BY <1>0, <1>a, <2>1, <2>4, <3>1 DEF RecordJob, Exists, Lands, StepSets
  <2>5. QED BY <1>4, <2>3, <2>4 DEF RefuseJob
<1>5. CASE CloseJob(r, j) \/ CompleteJob(r, j) \/ FailJob(r, j)
  <2>1. Lands(r, j, "idle") /\ cancelling' = cancelling
        /\ cancelSet' = [cancelSet EXCEPT ![r] = @ \ {j}]
    BY <1>0, <1>5, GotoLands DEF CloseJob, CompleteJob, FailJob, Leave
  <2>2. j \notin cancelSet'[r] /\ worker'[r][j].pc = "idle"
    BY <1>0, <2>1 DEF RestOK, Lands
  <2>3. JobWellFormed(job'[j]) /\ (job[j].cancelled => job'[j].cancelled)
        /\ (job[j].status = "failed" => job'[j].status = "failed")
        /\ job'[j].status # "absent"
    <3>1. CASE CloseJob(r, j)
      <4>1. worker[r][j].seen = job[j]
        BY <1>0, <3>1 DEF CloseJob, RecordJob, ClosingSteps, StepSets
      <4>2. CASE worker[r][j].pc = "closeCancelled"
        <5> DEFINE y == [job[j] EXCEPT !.status = "cancelled"]
        <5>1. job' = [job EXCEPT ![j] = y]
          BY <3>1, <4>1, <4>2 DEF CloseJob
        <5>2. /\ job'[j] = y /\ y.status = "cancelled" /\ y.started = job[j].started
              /\ y.cancelled = job[j].cancelled /\ y.error = job[j].error
              /\ y.result = job[j].result
          BY <1>0, <5>1 DEF JobsOK, Job
        <5> HIDE DEF y
        <5>3. job[j].status \in {"cancel_requested", "cancelled"}
          BY <1>0, <4>2 DEF RecordJob
        <5>4. QED BY <1>0, <5>2, <5>3 DEF RecordJob, JobWellFormed
      <4>3. CASE worker[r][j].pc = "closeFailed"
        <5> DEFINE y == [job[j] EXCEPT !.status = "failed", !.error = TRUE]
        <5>1. job' = [job EXCEPT ![j] = y]
          BY <3>1, <4>1, <4>3 DEF CloseJob
        <5>2. /\ job'[j] = y /\ y.status = "failed" /\ y.started = job[j].started
              /\ y.cancelled = job[j].cancelled /\ y.error
              /\ y.result = job[j].result
          BY <1>0, <5>1 DEF JobsOK, Job
        <5> HIDE DEF y
        <5>3. job[j].status = "queued"
          BY <1>0, <4>3 DEF RecordJob
        <5>4. QED BY <1>0, <5>2, <5>3 DEF RecordJob, JobWellFormed
      <4>4. QED BY <3>1, <4>2, <4>3 DEF CloseJob, ClosingSteps
    <3>2. CASE CompleteJob(r, j)
      <4> DEFINE s == IF CancelSeen(r, j) THEN "completed_after_cancel" ELSE "completed"
                 y == [job[j] EXCEPT !.status = s, !.result = TRUE]
      <4>1. job' = [job EXCEPT ![j] = y] /\ worker[r][j].pc = "return"
        BY <3>2 DEF CompleteJob
      <4> HIDE DEF s
      <4>2. /\ job'[j] = y /\ y.status = s /\ y.started = job[j].started
            /\ y.cancelled = job[j].cancelled /\ y.error = job[j].error /\ y.result
        BY <1>0, <4>1 DEF JobsOK, Job
      <4> HIDE DEF y
      <4>3. job[j].started /\ job[j].status \in {"running", "cancel_requested"}
        BY <1>0, <4>1 DEF RecordJob, HeldJob, StepSets
      <4>4. CASE CancelSeen(r, j)
        <5>1. job[j].cancelled /\ s = "completed_after_cancel"
          BY <1>0, <4>4 DEF CancelSeen, RecordJob, JobWellFormed, s
        <5>2. QED BY <1>0, <4>2, <4>3, <5>1 DEF RecordJob, JobWellFormed
      <4>5. CASE ~CancelSeen(r, j)
        <5>1. job[j].status = "running" /\ s = "completed"
          BY <4>3, <4>5 DEF CancelSeen, s
        <5>2. QED BY <1>0, <4>2, <4>3, <5>1 DEF RecordJob, JobWellFormed
      <4>6. QED BY <4>4, <4>5
    <3>3. CASE FailJob(r, j)
      <4> DEFINE y == [job[j] EXCEPT !.status = "failed", !.error = TRUE]
      <4>1. job[j].status \in Active => job' = [job EXCEPT ![j] = y]
        BY <3>3 DEF FailJob
      <4>2. job[j].status \in {"running", "cancel_requested"} /\ job[j].started
        BY <1>0, <3>3 DEF FailJob, HeldJob, RecordJob, StepSets
      <4>3. /\ job'[j] = y /\ y.status = "failed" /\ y.started = job[j].started
            /\ y.cancelled = job[j].cancelled /\ y.error
            /\ y.result = job[j].result
        BY <1>0, <4>1, <4>2 DEF JobsOK, Job, Active
      <4> HIDE DEF y
      <4>4. QED BY <1>0, <4>2, <4>3 DEF RecordJob, JobWellFormed
    <3>4. QED BY <1>5, <3>1, <3>2, <3>3
  <2>4. QED BY <1>0, <1>a, <2>1, <2>2, <2>3 DEF RecordJob, Exists, StepSets
<1>6. QED
  BY <1>1, <1>2, <1>3, <1>4, <1>5
  DEF WorkerStep, TurnSteps, LoadTurn, BeginTurnRun, ResumeTurnRun, ReconcileCall,
      StopAtBoundary, ProceedAtBoundary, ProposeCall, FinishTurn, GiveUpTurn, ProducerFails,
      AskOrDeny, DispatchCall, ExecuteCall, CommitReceipt, SettleAmbiguous, FailTurn

LEMMA FreshRecorded ==
  ASSUME Alone, IInv, LInv, RInv, NEW r \in Runners, NEW j \in Jobs, j = FreshJob,
         \E i \in Jobs : ~Exists(i), NEW t \in Turns, NEW origin \in Origins,
         job' = [job EXCEPT ![j] = QueuedJob(r, t, origin)],
         Schedule(r, j) \/ UNCHANGED <<worker, cancelSet>>, UNCHANGED <<lease, cancelling>>
  PROVE  /\ \A i \in Jobs : RecordJob(i)'
         /\ Unstarted(job'[j]) /\ \A q \in Runners : j \notin cancelSet'[q]
<1>0. WorkersOK /\ RestOK /\ JobsOK /\ RecordJob(j) /\ StepSets
  BY StepsDiffer DEF IInv, RInv
<1>1. ~Exists(j) /\ cancelling[j].step = "none" /\ \A q \in Runners : worker[q][j].pc = "idle"
  BY FreshIdle
<1>2. \/ /\ Lands(r, j, "pending")
         /\ cancelSet' = [cancelSet EXCEPT ![r] = @ \ {j}]
      \/ UNCHANGED <<worker, cancelSet>>
  BY <1>0, ScheduleLands
<1>3. /\ job'[j].status = "queued" /\ ~job'[j].started /\ ~job'[j].cancelled
      /\ ~job'[j].error /\ ~job'[j].result
  BY <1>0 DEF JobsOK, QueuedJob, NoJob
<1>4. \A q \in Runners : j \notin cancelSet[q]
  BY <1>0, <1>1 DEF RecordJob
<1>5. \A q \in Runners : j \notin cancelSet'[q]
  BY <1>0, <1>2, <1>4 DEF RestOK
<1>6. JobWellFormed(job'[j]) /\ Unstarted(job'[j])
  BY <1>3 DEF JobWellFormed, Unstarted
<1>7. RecordJob(j)'
  BY <1>0, <1>1, <1>2, <1>3, <1>5, <1>6 DEF RecordJob, Exists, Lands, StepSets
<1>8. Only(j)
  BY FreshHeld
<1>9. QED BY <1>5, <1>6, <1>7, <1>8, OthersRecorded DEF RInv

\* A step that leaves the records alone and lets no worker move.
LEMMA SameRecorded ==
  ASSUME \A j \in Jobs : RecordJob(j), UNCHANGED <<job, worker, cancelSet, cancelling>>
  PROVE  \A j \in Jobs : RecordJob(j)'
BY DEF RecordJob, Exists

LEMMA RequestRecorded ==
  ASSUME Alone, IInv, AInv, LInv, RInv, NEW r \in Runners, Request(r) \/ RequestStep(r)
  PROVE  \A j \in Jobs : RecordJob(j)'
<1>0. /\ WorkersOK /\ RestOK /\ JobsOK /\ RequestsOK /\ StepSets
      /\ \A j \in Jobs : RecordJob(j) /\ HeldJob(j) /\ job[j] \in Job
  BY StepsDiffer DEF IInv, LInv, RInv, JobsOK
<1>a. \A q \in Runners : q = r
  BY DEF Alone
<1> DEFINE Goal == \A j \in Jobs : RecordJob(j)'
<1> USE DEF requestVars
<1>1. CASE UNCHANGED <<job, worker, cancelSet, cancelling>>
  BY <1>0, <1>1, SameRecorded
<1>2. ASSUME NEW j \in Jobs, CreateJob(r, j) PROVE Goal
  <2>1. (\E i \in Jobs : ~Exists(i)) /\ admission.turn \in Turns
    BY <1>0, <1>2 DEF CreateJob, AInv, AdmissionBound, RequestsOK
  <2>2. QED BY <1>2, <2>1, FreshRecorded DEF CreateJob, Origins
<1>3. ASSUME NEW i \in Jobs, NEW j \in Jobs, Retry(r, i, j) PROVE Goal
  <2>1. (\E k \in Jobs : ~Exists(k)) /\ job[i].turn \in Turns
    BY <1>0, <1>3 DEF Retry, CanAdmit, Exists, JobsOK, Retryable
  <2>2. QED BY <1>3, <2>1, FreshRecorded DEF Retry, Origins
<1>4. ASSUME NEW t \in Turns, NEW c \in Calls, NEW j \in Jobs, CreateContinuation(r, t, c, j)
      PROVE  Goal
  <2>1. \E k \in Jobs : ~Exists(k)
    BY <1>4 DEF CreateContinuation, CanAdmit, Exists
  <2>2. QED BY <1>4, <2>1, FreshRecorded DEF CreateContinuation, Origins
<1>5. CASE ApproveCheckpoint(r)
  <2>1. PICK j \in Jobs : j = admission.job /\ Continuing
    BY <1>0, <1>5 DEF ApproveCheckpoint, RequestsOK, Continuing
  <2>2. UNCHANGED <<job, lease, cancelling>> /\ (Schedule(r, j) \/ UNCHANGED <<worker, cancelSet>>)
    BY <1>5, <2>1 DEF ApproveCheckpoint
  <2>3. \/ /\ Lands(r, j, "pending")
           /\ cancelSet' = [cancelSet EXCEPT ![r] = @ \ {j}]
        \/ UNCHANGED <<worker, cancelSet>>
    BY <1>0, <2>2, ScheduleLands
  <2>4. Unstarted(job[j])
    BY <2>1 DEF RInv, ContinuationFresh
  <2>5. Only(j)
    BY <1>0, <2>2, <2>3 DEF Only, Lands, RestOK
  <2>6. RecordJob(j)'
    BY <1>0, <1>a, <2>2, <2>3, <2>4 DEF RecordJob, Exists, Lands, RestOK, StepSets
  <2>7. QED BY <1>0, <2>5, <2>6, OthersRecorded
<1>6. CASE FailContinuation(r)
  <2>1. PICK j \in Jobs : j = admission.job /\ Continuing /\ admission.turn \in Turns
    BY <1>0, <1>6 DEF FailContinuation, RequestsOK, Continuing
  <2> DEFINE q == QueuedJob(r, admission.turn, "approval")
             x == [q EXCEPT !.status = "failed", !.error = TRUE]
  <2>2. job' = [job EXCEPT ![j] = x] /\ UNCHANGED <<lease, worker, cancelling, cancelSet>>
    BY <1>6, <2>1 DEF FailContinuation
  <2>3. x.status = "failed" /\ x.error /\ ~x.result
    BY DEF QueuedJob, NoJob
  <2> HIDE DEF x
  <2>4. job'[j] = x /\ \A i \in Jobs \ {j} : job'[i] = job[i]
    BY <1>0, <2>2 DEF JobsOK
  <2>5. /\ \A p \in Runners : worker[p][j].pc = "idle" /\ j \notin cancelSet[p]
    BY <2>1 DEF LInv, ContinuationIdle, RInv, ContinuationFresh
  <2>6. JobWellFormed(x)
    BY <2>3 DEF JobWellFormed
  <2>7. RecordJob(j)' /\ Only(j)
    BY <1>0, <2>2, <2>3, <2>4, <2>5, <2>6 DEF RecordJob, Exists, Only, StepSets
  <2>8. QED BY <1>0, <2>7, OthersRecorded
<1>7. ASSUME NEW j \in Jobs, CancelRequest(r, j) \/ CancelSignal(r, j) \/ CancelTurnOfJob(r, j)
                             \/ CancelClose(r, j)
      PROVE  Goal
  <2>0. UNCHANGED <<lease, worker>> /\ cancelling[j] \in Cancelling /\ RecordJob(j)
    BY <1>0, <1>7 DEF CancelRequest, CancelSignal, CancelTurnOfJob, CancelClose, RequestsOK
  <2>1. \A i \in Jobs \ {j} : job'[i] = job[i] /\ cancelling'[i] = cancelling[i]
    BY <1>0, <1>7 DEF CancelRequest, CancelSignal, CancelTurnOfJob, CancelClose, RequestsOK, JobsOK
  <2>2. \A q \in Runners : \A i \in Jobs \ {j} : i \in cancelSet'[q] => i \in cancelSet[q]
    BY <1>0, <1>7 DEF CancelRequest, CancelSignal, CancelTurnOfJob, CancelClose, RestOK
  <2>3. Only(j)
    BY <2>0, <2>1, <2>2 DEF Only
  <2>4. CASE CancelRequest(r, j)
    <3> DEFINE y == [job[j] EXCEPT !.status = "cancel_requested", !.cancelled = TRUE]
    <3>1. job' = [job EXCEPT ![j] = y] /\ cancelSet' = cancelSet /\ PathFree(j)
          /\ job[j].status \in Active
      BY <2>4 DEF CancelRequest
    <3>2. /\ job'[j] = y /\ y.status = "cancel_requested" /\ y.started = job[j].started
          /\ y.cancelled /\ y.error = job[j].error /\ y.result = job[j].result
      BY <1>0, <3>1 DEF JobsOK, Job
    <3> HIDE DEF y
    <3>3. JobWellFormed(y)
      BY <2>0, <3>1, <3>2 DEF RecordJob, JobWellFormed, Active
    <3>4. \A q \in Runners : worker[q][j].pc \notin SeenSteps \ {"recoverQueued"}
      BY <3>1 DEF PathFree, SeenSteps, ClosingSteps, RecoverySteps
    <3>5. RecordJob(j)'
      BY <1>0, <2>0, <3>1, <3>2, <3>3, <3>4 DEF RecordJob, Exists, Unstarted, StepSets
    <3>6. QED BY <1>0, <2>3, <3>5, OthersRecorded
  <2>5. CASE CancelSignal(r, j) \/ CancelTurnOfJob(r, j)
    <3>1. job' = job /\ cancelling[j].step # "none"
      BY <2>5 DEF CancelSignal, CancelTurnOfJob
    <3>2. \A q \in Runners : j \in cancelSet'[q] => j \in cancelSet[q] \/ HasEvent(q, j)
      BY <1>0, <1>a, <2>5 DEF CancelSignal, CancelTurnOfJob, RestOK
    <3>3. \A q \in Runners : HasEvent(q, j) => job[j].cancelled
      <4>1. \A q \in Runners : HasEvent(q, j) => job[j].status # "failed"
        BY <1>0 DEF HasEvent, RecordJob, HeldJob, Unstarted, WorkersOK, WorkOK, Worker,
                    WorkerSteps, RunSteps, ClosingSteps
      <4>2. QED BY <2>0, <3>1, <4>1 DEF RecordJob
    <3>4. \A q \in Runners : j \in cancelSet'[q] => job[j].cancelled
      BY <2>0, <3>2, <3>3 DEF RecordJob
    <3>5. RecordJob(j)'
      BY <2>0, <3>1, <3>4 DEF RecordJob, Exists
    <3>6. QED BY <1>0, <2>3, <3>5, OthersRecorded
  <2>6. CASE CancelClose(r, j)
    <3> DEFINE s == IF job[j].status = "cancel_requested" THEN "cancelled" ELSE job[j].status
               y == [job[j] EXCEPT !.status = s]
    <3>1. /\ job' = [job EXCEPT ![j] = y] /\ cancelSet' = cancelSet /\ PathFree(j)
          /\ cancelling[j].step = "close" /\ cancelling'[j].step = "none"
      BY <1>0, <2>6 DEF CancelClose, NoCancel, RequestsOK
    <3> HIDE DEF s
    <3>2. /\ job'[j] = y /\ y.status = s /\ y.started = job[j].started
          /\ y.cancelled = job[j].cancelled /\ y.error = job[j].error /\ y.result = job[j].result
      BY <1>0, <3>1 DEF JobsOK, Job
    <3> HIDE DEF y
    <3>3. JobWellFormed(y)
      BY <2>0, <3>1, <3>2 DEF RecordJob, JobWellFormed, s
    <3>4. \A q \in Runners : worker[q][j].pc \notin SeenSteps \ {"recoverQueued"}
      BY <3>1 DEF PathFree, SeenSteps, ClosingSteps, RecoverySteps
    <3>5. \A q \in Runners : worker[q][j].pc \notin RunSteps
      BY <1>0, <3>1 DEF HeldJob
    <3>6. s # "absent"
      BY <1>0, <3>1 DEF RequestsOK, Exists, s
    <3>7. RecordJob(j)'
      BY <1>0, <2>0, <3>1, <3>2, <3>3, <3>4, <3>5, <3>6 DEF RecordJob, Exists, Unstarted, StepSets, s
    <3>8. QED BY <1>0, <2>3, <3>7, OthersRecorded
  <2>7. QED BY <1>7, <2>4, <2>5, <2>6
<1>8. QED
  BY <1>1, <1>2, <1>3, <1>4, <1>5, <1>6, <1>7
  DEF Request, RequestStep, Submit, SubmitMcpTool, BeginTurn, DenyCheckpoint

LEMMA RecoveryRecorded ==
  ASSUME Alone, IInv, LInv, RInv, NEW r \in Runners, Recovery(r)
  PROVE  \A j \in Jobs : RecordJob(j)'
<1>0. /\ WorkersOK /\ RestOK /\ JobsOK /\ RequestsOK /\ StepSets
      /\ \A j \in Jobs : RecordJob(j) /\ HeldJob(j) /\ job[j] \in Job
  BY StepsDiffer DEF IInv, LInv, RInv, JobsOK
<1>a. \A q \in Runners : q = r
  BY DEF Alone
<1> DEFINE Goal == \A j \in Jobs : RecordJob(j)'
<1> USE DEF requestVars
<1>1. CASE UNCHANGED <<job, worker, cancelSet, cancelling>>
  BY <1>0, <1>1, SameRecorded
<1>2. ASSUME NEW j \in Jobs, RecoveryClaim(r, j) PROVE Goal
  <2>1. PICK p \in SeenSteps :
          /\ Lands(r, j, p) /\ worker'[r][j].seen = job[j]
          /\ p \notin ClosingSteps
          /\ p = "recoverCancelled" => job[j].status = "cancel_requested"
          /\ p \in {"recoverQueued", "recoverFailed"} => job[j].status = "queued"
          /\ p = "recoverRunning" => job[j].status = "running"
    BY <1>0, <1>2, GotoLands DEF RecoveryClaim, StepSets, ClosingSteps
  <2>2. UNCHANGED <<job, cancelSet, cancelling>> /\ lease' = [lease EXCEPT ![j] = r]
    BY <1>2 DEF RecoveryClaim
  <2>3. p = "recoverQueued" => Unstarted(job[j])
    BY <1>0, <2>1 DEF Unstarted, RecordJob, JobWellFormed
  <2>4. RecordJob(j)'
    BY <1>0, <1>a, <2>1, <2>2, <2>3 DEF RecordJob, Exists, Lands, StepSets, ClosingSteps
  <2>5. Only(j)
    BY <1>0, <2>1, <2>2 DEF Only, Lands, RestOK
  <2>6. QED BY <1>0, <2>4, <2>5, OthersRecorded
<1>3. ASSUME NEW j \in Jobs, RecoveryWrite(r, j) PROVE Goal
  <2> DEFINE w  == worker[r][j]
             yc == [job[j] EXCEPT !.status = "cancelled"]
             yf == [job[j] EXCEPT !.status = "failed", !.error = TRUE]
             yi == [job[j] EXCEPT !.status = "interrupted", !.error = TRUE]
  <2>0. /\ lease' = [lease EXCEPT ![j] = None] /\ cancelling' = cancelling
        /\ w.pc \in RecoverySteps /\ runner[r] # "closing"
    BY <1>3 DEF RecoveryWrite, LInv, RecoversFirst
  <2>1. ASSUME Lands(r, j, "idle"), cancelSet' = cancelSet, NEW y, job' = [job EXCEPT ![j] = y],
               y.status \in Finished, JobWellFormed(y), y.cancelled = job[j].cancelled,
               cancelling[j].step # "none" => job[j].cancelled \/ y.status = "failed"
        PROVE  Goal
    <3>1. job'[j] = y /\ \A i \in Jobs \ {j} : job'[i] = job[i]
      BY <1>0, <2>1 DEF JobsOK
    <3>2. y.status # "absent"
      BY <2>1 DEF Finished, Retryable
    <3>3. RecordJob(j)'
      BY <1>0, <1>a, <2>0, <2>1, <3>1, <3>2 DEF RecordJob, Exists, Lands, StepSets
    <3>4. Only(j)
      BY <1>0, <2>0, <2>1, <3>1 DEF Only, Lands, RestOK
    <3>5. QED BY <1>0, <3>3, <3>4, OthersRecorded
  <2>2. CASE w.pc = "recoverQueued"
    <3>1. Schedule(r, j) /\ job' = job
      BY <1>3, <2>2 DEF RecoveryWrite
    <3>2. Lands(r, j, "pending") /\ cancelSet' = [cancelSet EXCEPT ![r] = @ \ {j}]
      BY <1>0, <2>0, <3>1, GotoLands DEF Schedule
    <3>3. RecordJob(j)' /\ Only(j)
      BY <1>0, <1>a, <2>0, <2>2, <3>1, <3>2 DEF RecordJob, Exists, Lands, StepSets, Only, RestOK
    <3>4. QED BY <1>0, <3>3, OthersRecorded
  <2>3. w.pc # "recoverQueued" => w.seen = job[j] /\ Lands(r, j, "idle") /\ cancelSet' = cancelSet
    BY <1>0, <1>3, <2>0, GotoLands DEF RecoveryWrite, RecordJob, SeenSteps
  <2>4. CASE w.pc = "recoverCancelled"
    <3>1. job' = [job EXCEPT ![j] = yc]
      BY <1>3, <2>3, <2>4 DEF RecoveryWrite
    <3>2. /\ yc.status = "cancelled" /\ yc.started = job[j].started /\ yc.error = job[j].error
          /\ yc.cancelled = job[j].cancelled /\ yc.result = job[j].result
      BY <1>0 DEF Job
    <3> HIDE DEF yc
    <3>3. job[j].status = "cancel_requested"
      BY <1>0, <2>4 DEF RecordJob
    <3>4. JobWellFormed(yc) /\ job[j].cancelled
      BY <1>0, <3>2, <3>3 DEF RecordJob, JobWellFormed
    <3>5. QED BY <2>1, <2>3, <2>4, <3>1, <3>2, <3>4 DEF Finished, Retryable
  <2>5. CASE w.pc = "recoverFailed"
    <3>1. job' = [job EXCEPT ![j] = yf]
      BY <1>3, <2>3, <2>5 DEF RecoveryWrite
    <3>2. /\ yf.status = "failed" /\ yf.started = job[j].started /\ yf.error
          /\ yf.cancelled = job[j].cancelled /\ yf.result = job[j].result
      BY <1>0 DEF Job
    <3> HIDE DEF yf
    <3>3. job[j].status = "queued"
      BY <1>0, <2>5 DEF RecordJob
    <3>4. JobWellFormed(yf)
      BY <1>0, <3>2, <3>3 DEF RecordJob, JobWellFormed
    <3>5. QED BY <2>1, <2>3, <2>5, <3>1, <3>2, <3>4 DEF Finished, Retryable
  <2>6. CASE w.pc = "recoverRunning"
    <3>1. job' = [job EXCEPT ![j] = yi]
      BY <1>3, <2>3, <2>6 DEF RecoveryWrite
    <3>2. /\ yi.status = "interrupted" /\ yi.started = job[j].started /\ yi.error
          /\ yi.cancelled = job[j].cancelled /\ yi.result = job[j].result
      BY <1>0 DEF Job
    <3> HIDE DEF yi
    <3>3. job[j].status = "running"
      BY <1>0, <2>6 DEF RecordJob
    <3>4. JobWellFormed(yi) /\ cancelling[j].step = "none"
      BY <1>0, <3>2, <3>3 DEF RecordJob, JobWellFormed
    <3>5. QED BY <2>1, <2>3, <2>6, <3>1, <3>2, <3>4 DEF Finished, Retryable
  <2>7. QED BY <2>0, <2>2, <2>4, <2>5, <2>6 DEF RecoverySteps
<1>4. QED
  BY <1>1, <1>2, <1>3
  DEF Recovery, RecoverySkip, RecoverOrphans, CloseOrphan, OrphansClosed

LEMMA NextRecorded ==
  ASSUME Alone, IInv, AInv, LInv, RInv, [Next]_vars
  PROVE  \A j \in Jobs : RecordJob(j)'
<1>0. WorkersOK /\ RestOK /\ RequestsOK /\ StepSets /\ \A j \in Jobs : RecordJob(j)
  BY StepsDiffer DEF IInv, RInv
<1> USE DEF requestVars
<1>a. IdleWorker.pc = "idle" /\ NoCancel.step = "none"
  BY NoJobTyped DEF NoCancel
<1>1. CASE UNCHANGED <<job, worker, cancelSet, cancelling>>
  BY <1>0, <1>1, SameRecorded
<1>2. ASSUME NEW r \in Runners, Crash(r) PROVE \A j \in Jobs : RecordJob(j)'
  <2>1. \A q \in Runners, j \in Jobs :
          /\ worker'[q][j] = worker[q][j] \/ worker'[q][j] = IdleWorker
          /\ j \in cancelSet'[q] => j \in cancelSet[q]
    BY <1>0, <1>2 DEF Crash, WorkersOK, RestOK
  <2>2. job' = job /\ \A j \in Jobs : cancelling'[j] \in {NoCancel, cancelling[j]}
    BY <1>2 DEF Crash
  <2>3. QED BY <1>0, <1>a, <2>1, <2>2 DEF RecordJob, Exists, StepSets
<1>3. ASSUME NEW r \in Runners, Shutdown(r) PROVE \A j \in Jobs : RecordJob(j)'
  <2>1. \A q \in Runners, j \in Jobs :
          worker'[q][j] = worker[q][j] \/ worker'[q][j] = IdleWorker
    BY <1>0, <1>3 DEF Shutdown, WorkersOK
  <2>2. UNCHANGED <<job, cancelSet, cancelling>>
    BY <1>3 DEF Shutdown
  <2>3. QED BY <1>0, <1>a, <2>1, <2>2 DEF RecordJob, Exists, StepSets
<1>4. ASSUME NEW r \in Runners, NEW j \in Jobs, WorkerStep(r, j) PROVE \A i \in Jobs : RecordJob(i)'
  BY <1>0, <1>4, WorkerRecorded, WorkerHeld, OthersRecorded
<1>5. QED
  BY <1>1, <1>2, <1>3, <1>4, RequestRecorded, RecoveryRecorded
  DEF Next, Boot, ExternalEdit, vars

\* A record becomes active when it is created, by an admission that does not wait for
\* a checkpoint, and at no other time.
LEMMA OnlyAdmissionsWake ==
  ASSUME IInv, AInv, [Next]_vars, NEW i \in Jobs, job'[i].status \in Active
  PROVE  job[i].status \in Active \/ (~Exists(i) /\ ~Continuing)
<1>0. WorkersOK /\ RestOK /\ JobsOK /\ RequestsOK /\ NoAdmission.step = "free"
  BY FreeTyped DEF IInv
<1> DEFINE Goal == job[i].status \in Active \/ (~Exists(i) /\ ~Continuing)
<1> USE DEF requestVars
<1>1. CASE job' = job
  BY <1>1
<1>2. ASSUME NEW j \in Jobs, NEW y, job' = [job EXCEPT ![j] = y],
             \/ y.status \in Finished
             \/ job[j].status \in Active
             \/ ~Exists(j) /\ ~Continuing
      PROVE  Goal
  <2>1. job'[i] = IF i = j THEN y ELSE job[i]
    BY <1>0, <1>2 DEF JobsOK
  <2>2. QED BY <1>2, <2>1 DEF Active, Finished, Retryable
<1>3. ASSUME NEW r \in Runners, NEW j \in Jobs, WorkerStep(r, j) PROVE Goal
  <2>1. CASE worker[r][j].pc \in TurnSteps
    BY <1>1, <1>3, <2>1, TurnStepGoes
  <2>2. CASE StartJob(r, j)
    <3>1. job' = [job EXCEPT ![j] = [job[j] EXCEPT !.status = "running", !.started = TRUE]]
          /\ job[j].status \in Active
      BY <2>2 DEF StartJob, Active
    <3>2. QED BY <1>2, <3>1
  <2>3. CASE CloseJob(r, j)
    <3>1. PICK y \in {[worker[r][j].seen EXCEPT !.status = "cancelled"],
                      [worker[r][j].seen EXCEPT !.status = "failed", !.error = TRUE]} :
            job' = [job EXCEPT ![j] = y]
      BY <2>3 DEF CloseJob
    <3>2. worker[r][j].seen \in Job
      BY <1>0 DEF WorkersOK, Worker
    <3>3. y.status \in {"cancelled", "failed"}
      BY <3>1, <3>2 DEF Job
    <3>4. QED BY <1>2, <3>1, <3>3 DEF Finished, Retryable
  <2>4. CASE CompleteJob(r, j)
    <3>1. PICK s \in {"completed_after_cancel", "completed"} :
            job' = [job EXCEPT ![j].status = s, ![j].result = TRUE]
      BY <2>4 DEF CompleteJob
    <3> DEFINE y == [job[j] EXCEPT !.status = s, !.result = TRUE]
    <3>2. job' = [job EXCEPT ![j] = y]
      BY <1>0, <3>1 DEF JobsOK
    <3>3. y.status \in Finished
      BY <1>0 DEF JobsOK, Job, Finished
    <3> HIDE DEF y
    <3>4. QED BY <1>2, <3>2, <3>3
  <2>5. CASE FailJob(r, j)
    <3> DEFINE y == [job[j] EXCEPT !.status = "failed", !.error = TRUE]
    <3>1. job' = job \/ job' = [job EXCEPT ![j] = y]
      BY <2>5 DEF FailJob
    <3>2. y.status \in Finished
      BY <1>0 DEF JobsOK, Job, Finished, Retryable
    <3> HIDE DEF y
    <3>3. QED BY <1>1, <1>2, <3>1, <3>2
  <2>6. CASE ClaimLease(r, j) \/ RefuseJob(r, j) \/ DropJob(r, j)
    BY <1>1, <2>6 DEF ClaimLease, RefuseJob, DropJob
  <2>7. QED
    BY <1>3, <2>1, <2>2, <2>3, <2>4, <2>5, <2>6
    DEF WorkerStep, At, TurnSteps, LoadTurn, BeginTurnRun, ResumeTurnRun, ReconcileCall,
        StopAtBoundary, ProceedAtBoundary, ProposeCall, FinishTurn, GiveUpTurn, ProducerFails,
        AskOrDeny, DispatchCall, ExecuteCall, CommitReceipt, SettleAmbiguous, FailTurn
<1>4. ASSUME NEW r \in Runners, NEW j \in Jobs, RecoveryWrite(r, j) PROVE Goal
  <2> DEFINE x == worker[r][j].seen
  <2>1. CASE job' = job
    BY <1>1, <2>1
  <2>2. ASSUME NEW y \in {[x EXCEPT !.status = "cancelled"],
                         [x EXCEPT !.status = "failed", !.error = TRUE],
                         [x EXCEPT !.status = "interrupted", !.error = TRUE]},
               job' = [job EXCEPT ![j] = y]
        PROVE  Goal
    <3>1. x \in Job
      BY <1>0 DEF WorkersOK, Worker
    <3>2. y.status \in {"cancelled", "failed", "interrupted"}
      BY <2>2, <3>1 DEF Job
    <3>3. QED BY <1>2, <2>2, <3>2 DEF Finished, Retryable
  <2>3. QED BY <1>4, <2>1, <2>2 DEF RecoveryWrite
<1>5. ASSUME NEW r \in Runners, Request(r) \/ RequestStep(r) PROVE Goal
  <2>1. ASSUME NEW j \in Jobs, NEW y, job' = [job EXCEPT ![j] = y], j = FreshJob,
               \E k \in Jobs : ~Exists(k), ~Continuing
        PROVE  Goal
    BY <1>2, <2>1, FreshIdle
  <2>2. ASSUME NEW j \in Jobs, CreateJob(r, j) PROVE Goal
    <3>1. \E k \in Jobs : ~Exists(k)
      BY <2>2 DEF CreateJob, AInv, AdmissionBound
    <3>2. QED BY <2>1, <2>2, <3>1 DEF CreateJob, Continuing
  <2>3. ASSUME NEW k \in Jobs, NEW j \in Jobs, Retry(r, k, j) PROVE Goal
    BY <1>0, <2>1, <2>3 DEF Retry, CanAdmit, Exists, Continuing
  <2>4. ASSUME NEW t \in Turns, NEW c \in Calls, NEW j \in Jobs, CreateContinuation(r, t, c, j)
        PROVE  Goal
    BY <1>0, <2>1, <2>4 DEF CreateContinuation, CanAdmit, Exists, Continuing
  <2>5. CASE FailContinuation(r)
    <3> DEFINE q == QueuedJob(r, admission.turn, "approval")
               y == [q EXCEPT !.status = "failed", !.error = TRUE]
    <3>1. job' = [job EXCEPT ![admission.job] = y] /\ admission.job \in Jobs
      BY <1>0, <2>5 DEF FailContinuation, RequestsOK
    <3>2. y.status \in Finished
      BY DEF QueuedJob, NoJob, Finished, Retryable
    <3> HIDE DEF y
    <3>3. QED BY <1>2, <3>1, <3>2
  <2>6. ASSUME NEW j \in Jobs, CancelRequest(r, j) PROVE Goal
    <3>1. job' = [job EXCEPT ![j] = [job[j] EXCEPT !.status = "cancel_requested", !.cancelled = TRUE]]
          /\ job[j].status \in Active
      BY <2>6 DEF CancelRequest
    <3>2. QED BY <1>2, <3>1
  <2>7. ASSUME NEW j \in Jobs, CancelClose(r, j) PROVE Goal
    <3> DEFINE s == IF job[j].status = "cancel_requested" THEN "cancelled" ELSE job[j].status
               y == [job[j] EXCEPT !.status = s]
    <3>1. job' = [job EXCEPT ![j] = y] /\ cancelling[j].step = "close"
      BY <2>7 DEF CancelClose
    <3>2. y.status \in Finished \/ job[j].status \in Active
      BY <1>0, <3>1 DEF JobsOK, Job, Finished, Retryable, Active, RequestsOK, Exists
    <3> HIDE DEF y
    <3>3. QED BY <1>2, <3>1, <3>2
  <2>8. QED
    BY <1>1, <1>5, <2>2, <2>3, <2>4, <2>5, <2>6, <2>7
    DEF Request, RequestStep, Submit, SubmitMcpTool, BeginTurn, DenyCheckpoint, CancelSignal,
        CancelTurnOfJob, ApproveCheckpoint
<1>6. QED
  BY <1>1, <1>3, <1>4, <1>5
  DEF Next, Boot, Crash, Shutdown, Recovery, RecoverySkip, RecoveryClaim, RecoverOrphans,
      CloseOrphan, OrphansClosed, ExternalEdit, vars

\* The record of a continuation that waits for its checkpoint: nobody but a canceller
\* and the admission itself writes it, and no other job becomes active meanwhile.
LEMMA NextFresh ==
  ASSUME Alone, IInv, AInv, LInv, RInv, [Next]_vars
  PROVE  ContinuationFresh'
<1> SUFFICES ASSUME Continuing' PROVE ContinuationFresh'
  BY DEF ContinuationFresh
<1>0. /\ WorkersOK /\ RestOK /\ JobsOK /\ RequestsOK /\ NoAdmission.step = "free"
      /\ Continuing => /\ admission.job \in Jobs /\ admission.by \in Runners
                       /\ \A q \in Runners : worker[q][admission.job].pc = "idle"
                       /\ \A q \in Runners : admission.job \notin cancelSet[q]
                       /\ Unstarted(job[admission.job])
                       /\ ActiveJobs \subseteq {admission.job}
  BY FreeTyped
  DEF IInv, LInv, RInv, ContinuationIdle, ContinuationFresh, RequestsOK, Continuing, AInv, DownIdle
<1> DEFINE k == admission.job
<1>a. \A q \in Runners : Continuing => admission.by = q
  BY <1>0 DEF Alone
<1> USE DEF requestVars
<1>1. ASSUME Continuing, admission'.job = admission.job, Unstarted(job'[k]),
             \A q \in Runners : k \notin cancelSet'[q]
      PROVE  ContinuationFresh'
  <2>1. \A i \in Jobs : job'[i].status \in Active => job[i].status \in Active
    BY <1>1, OnlyAdmissionsWake
  <2>2. ActiveJobs' \subseteq ActiveJobs
    BY <2>1 DEF ActiveJobs
  <2>3. QED BY <1>0, <1>1, <2>2 DEF ContinuationFresh
<1>2. CASE UNCHANGED <<job, cancelSet, admission>>
  BY <1>0, <1>1, <1>2 DEF Continuing
<1>3. ASSUME NEW j \in Jobs, j # k, Only(j), UNCHANGED admission PROVE ContinuationFresh'
  <2>1. Continuing
    BY <1>3 DEF Continuing
  <2>2. job'[k] = job[k] /\ \A q \in Runners : k \in cancelSet'[q] => k \in cancelSet[q]
    BY <1>0, <1>3, <2>1 DEF Only
  <2>3. QED BY <1>0, <1>1, <1>3, <2>1, <2>2
<1>4. ASSUME NEW r \in Runners, Crash(r) PROVE FALSE
  <2>1. admission.by = r => admission' = NoAdmission
    BY <1>4 DEF Crash
  <2>2. admission' \in {admission, NoAdmission}
    BY <1>4 DEF Crash
  <2>3. QED BY <1>0, <1>a, <2>1, <2>2 DEF Continuing
<1>5. ASSUME NEW r \in Runners, NEW j \in Jobs, WorkerStep(r, j) PROVE ContinuationFresh'
  <2>1. worker[r][j].pc # "idle" /\ admission' = admission
    BY <1>5, WorkerLands
  <2>2. j # k
    BY <1>0, <2>1 DEF Continuing
  <2>3. QED BY <1>3, <1>5, <2>1, <2>2, WorkerHeld
<1>6. ASSUME NEW r \in Runners, Recovery(r) PROVE ContinuationFresh'
  <2>1. ASSUME NEW j \in Jobs, RecoveryWrite(r, j) PROVE ContinuationFresh'
    <3>1. worker[r][j].pc # "idle" /\ admission' = admission /\ worker[r][j].pc \in RecoverySteps
      BY <2>1 DEF RecoveryWrite, RecoverySteps
    <3>2. j # k
      BY <1>0, <3>1 DEF Continuing
    <3>3. job'[k] = job[k] /\ \A q \in Runners : k \in cancelSet'[q] => k \in cancelSet[q]
      BY <1>0, <2>1, <3>1, <3>2 DEF RecoveryWrite, Schedule, JobsOK, RestOK, Continuing
    <3>4. QED BY <1>0, <1>1, <3>1, <3>3 DEF Continuing
  <2>2. CASE RecoverOrphans(r) \/ OrphansClosed(r)
    <3>1. \/ UNCHANGED <<job, cancelSet, admission>>
          \/ admission'.step \in {"orphans", "free"}
      BY <1>0, <2>2 DEF RecoverOrphans, OrphansClosed, NoAdmission
    <3>2. QED BY <1>2, <3>1 DEF Continuing
  <2>3. CASE \E j \in Jobs : RecoveryClaim(r, j) \/ RecoverySkip(r, j)
    BY <1>2, <2>3 DEF RecoveryClaim, RecoverySkip
  <2>4. CASE \E t \in Turns : CloseOrphan(r, t)
    BY <1>2, <2>4 DEF CloseOrphan
  <2>5. QED BY <1>6, <2>1, <2>2, <2>3, <2>4 DEF Recovery
<1>7. ASSUME NEW r \in Runners, Request(r) \/ RequestStep(r) PROVE ContinuationFresh'
  <2>1. ASSUME NEW t \in Turns, NEW record, BeginTurn(r, t, record) PROVE FALSE
    BY <2>1 DEF BeginTurn, NoAdmission, Continuing
  <2>2. ASSUME NEW i \in Jobs, NEW j \in Jobs, Retry(r, i, j) PROVE FALSE
    BY <1>0, <2>2 DEF Retry, CanAdmit, Continuing
  <2>3. ASSUME NEW t \in Turns, NEW c \in Calls, NEW j \in Jobs, CreateContinuation(r, t, c, j)
        PROVE  ContinuationFresh'
    <3>1. j = FreshJob /\ (\E i \in Jobs : ~Exists(i)) /\ admission'.job = j /\ ActiveJobs = {}
          /\ job' = [job EXCEPT ![j] = QueuedJob(r, t, "approval")]
          /\ UNCHANGED <<worker, cancelSet, lease, cancelling>>
      BY <2>3 DEF CreateContinuation, CanAdmit, Exists
    <3>2. Unstarted(job'[j]) /\ \A q \in Runners : j \notin cancelSet'[q]
      BY <3>1, FreshRecorded DEF Origins
    <3>3. ActiveJobs' \subseteq {j}
      BY <1>0, <3>1 DEF ActiveJobs, JobsOK
    <3>4. QED BY <3>1, <3>2, <3>3 DEF ContinuationFresh
  <2>4. CASE ApproveCheckpoint(r)
    <3>1. admission' # NoAdmission
      BY <1>0 DEF Continuing
    <3>2. admission' = [admission EXCEPT !.step = "refused"] /\ UNCHANGED <<job, cancelSet>>
          /\ Continuing
      BY <2>4, <3>1 DEF ApproveCheckpoint, Continuing
    <3>3. admission'.job = admission.job
      BY <1>0, <3>2 DEF RequestsOK, Admission
    <3>4. QED BY <1>0, <1>1, <3>2, <3>3
  <2>5. CASE FailContinuation(r) \/ \E j \in Jobs : CreateJob(r, j)
    BY <1>0, <2>5 DEF FailContinuation, CreateJob, Continuing
  <2>6. ASSUME NEW j \in Jobs, CancelRequest(r, j) \/ CancelSignal(r, j) \/ CancelTurnOfJob(r, j)
                               \/ CancelClose(r, j)
        PROVE  ContinuationFresh'
    <3>1. admission' = admission /\ Continuing
      BY <2>6 DEF CancelRequest, CancelSignal, CancelTurnOfJob, CancelClose, Continuing
    <3>2. \A q \in Runners : k \notin cancelSet'[q]
      <4>1. \A q \in Runners : ~HasEvent(q, k)
        BY <1>0, <3>1 DEF HasEvent
      <4>2. QED
        BY <1>0, <2>6, <3>1, <4>1
        DEF CancelRequest, CancelSignal, CancelTurnOfJob, CancelClose, RestOK
    <3>3. Unstarted(job'[k])
      <4>1. CASE CancelSignal(r, j) \/ CancelTurnOfJob(r, j)
        BY <1>0, <3>1, <4>1 DEF CancelSignal, CancelTurnOfJob
      <4>2. CASE CancelRequest(r, j)
        <5> DEFINE y == [job[j] EXCEPT !.status = "cancel_requested", !.cancelled = TRUE]
        <5>1. job' = [job EXCEPT ![j] = y]
          BY <4>2 DEF CancelRequest
        <5>2. y.status = "cancel_requested" /\ y.started = job[j].started
          BY <1>0 DEF JobsOK, Job
        <5> HIDE DEF y
        <5>3. job'[k] = IF k = j THEN y ELSE job[k]
          BY <1>0, <3>1, <5>1 DEF JobsOK
        <5>4. QED BY <1>0, <3>1, <5>2, <5>3 DEF Unstarted
      <4>3. CASE CancelClose(r, j)
        <5> DEFINE s == IF job[j].status = "cancel_requested" THEN "cancelled" ELSE job[j].status
                   y == [job[j] EXCEPT !.status = s]
        <5>1. job' = [job EXCEPT ![j] = y]
          BY <4>3 DEF CancelClose
        <5>2. y.status = s /\ y.started = job[j].started
          BY <1>0 DEF JobsOK, Job
        <5> HIDE DEF y
        <5>3. job'[k] = IF k = j THEN y ELSE job[k]
          BY <1>0, <3>1, <5>1 DEF JobsOK
        <5>4. QED BY <1>0, <3>1, <5>2, <5>3 DEF Unstarted
      <4>4. QED BY <2>6, <4>1, <4>2, <4>3
    <3>4. QED BY <1>1, <3>1, <3>2, <3>3
  <2>7. CASE \E t \in Turns, c \in Calls : DenyCheckpoint(r, t, c)
    BY <1>2, <2>7 DEF DenyCheckpoint
  <2>8. QED
    BY <1>7, <2>1, <2>2, <2>3, <2>4, <2>5, <2>6, <2>7
    DEF Request, RequestStep, Submit, SubmitMcpTool
<1>8. QED
  BY <1>2, <1>4, <1>5, <1>6, <1>7
  DEF Next, Boot, Shutdown, ExternalEdit, vars

LEMMA InitRecorded == Init => RInv
<1> SUFFICES ASSUME Init PROVE RInv
  OBVIOUS
<1>1. IdleWorker.pc = "idle" /\ NoCancel.step = "none" /\ NoAdmission.step = "free"
  BY NoJobTyped, FreeTyped DEF NoCancel
<1>2. \A j \in Jobs : /\ job[j] = NoJob /\ cancelling[j] = NoCancel
                      /\ \A r \in Runners : worker[r][j] = IdleWorker /\ j \notin cancelSet[r]
  BY DEF Init
<1>3. JobWellFormed(NoJob) /\ ~NoJob.cancelled
  BY DEF JobWellFormed, NoJob
<1>4. \A j \in Jobs : RecordJob(j)
  BY <1>1, <1>2, <1>3, StepsDiffer DEF RecordJob, StepSets
<1>5. ~Continuing
  BY <1>1 DEF Init, Continuing
<1>6. QED BY <1>4, <1>5 DEF RInv, ContinuationFresh

\* With one process the whole invariant is inductive.
OneInv == IInv /\ AInv /\ LInv /\ RInv

LEMMA NextOne ==
  ASSUME Alone, OneInv, [Next]_vars
  PROVE  OneInv'
<1>1. IInv'
  BY NextInv DEF OneInv
<1>2. QED BY <1>1, NextAuthority, NextLeases, NextRecorded, NextFresh DEF OneInv, RInv

LEMMA AlwaysOne == Alone => (Spec => []OneInv)
<1>1. CASE Alone
  <2>1. Init => OneInv
    BY InitInv, InitAuthority, InitHeld, InitRecorded DEF OneInv
  <2>2. OneInv /\ [Next]_vars => OneInv'
    BY <1>1, NextOne
  <2>3. Spec => []OneInv
    BY <2>1, <2>2, PTL DEF Spec
  <2>4. QED BY <2>3
<1>2. QED BY <1>1

\* No writer leaves a record that _validate_job rejects, whatever the crashes,
\* cancellations and recoveries, as long as one process serves the project.
THEOREM RecordsStayValid == Alone => (Spec => []JobRecordsValid)
<1>1. OneInv => JobRecordsValid
  BY DEF OneInv, RInv, RecordJob, JobRecordsValid, RecordsReadable
<1>2. CASE Alone
  <2>1. Spec => []OneInv
    BY <1>2, AlwaysOne
  <2>2. Spec => []JobRecordsValid
    BY <1>1, <2>1, PTL
  <2>3. QED BY <2>2
<1>3. QED BY <1>2

\* A completed record keeps its outcome, and one that was cancelled before it
\* started does not start.
StaysDecided(x, y) ==
  /\ x.status \in {"completed", "completed_after_cancel"} => y.status = x.status
  /\ x.cancelled /\ ~x.started => ~y.started

LEMMA NextDecided ==
  ASSUME Alone, OneInv, [Next]_vars, NEW i \in Jobs
  PROVE  StaysDecided(job[i], job'[i])
<1>0. /\ WorkersOK /\ RestOK /\ JobsOK /\ RequestsOK /\ StepSets /\ IInv /\ AInv /\ LInv /\ RInv
      /\ \A j \in Jobs : RecordJob(j) /\ HeldJob(j) /\ job[j] \in Job
  BY StepsDiffer DEF OneInv, IInv, LInv, RInv, JobsOK
<1> DEFINE Goal == StaysDecided(job[i], job'[i])
<1> USE DEF requestVars
<1>1. CASE job' = job
  BY <1>1 DEF StaysDecided
<1>2. ASSUME NEW j \in Jobs, NEW y, job' = [job EXCEPT ![j] = y], StaysDecided(job[j], y)
      PROVE  Goal
  <2>1. job'[i] = IF i = j THEN y ELSE job[i]
    BY <1>0, <1>2 DEF JobsOK
  <2>2. QED BY <1>2, <2>1 DEF StaysDecided
<1>3. ASSUME NEW j \in Jobs, NEW s, NEW b \in BOOLEAN, NEW y,
             \/ y = [job[j] EXCEPT !.status = s]
             \/ y = [job[j] EXCEPT !.status = s, !.error = b]
             \/ y = [job[j] EXCEPT !.status = s, !.result = b]
             \/ y = [job[j] EXCEPT !.status = s, !.cancelled = b],
             job[j].status \in {"completed", "completed_after_cancel"} => s = job[j].status,
             job' = [job EXCEPT ![j] = y]
      PROVE  Goal
  <2>1. y.status = s /\ y.started = job[j].started
    BY <1>0, <1>3 DEF Job
  <2>2. QED BY <1>2, <1>3, <2>1 DEF StaysDecided
<1>4. ASSUME NEW r \in Runners, NEW j \in Jobs, WorkerStep(r, j) PROVE Goal
  <2>1. CASE worker[r][j].pc \in TurnSteps
    BY <1>0, <1>1, <1>4, <2>1, TurnStepGoes
  <2>2. CASE StartJob(r, j)
    <3> DEFINE y == [job[j] EXCEPT !.status = "running", !.started = TRUE]
    <3>1. job' = [job EXCEPT ![j] = y] /\ job[j].status = "queued"
      BY <2>2 DEF StartJob
    <3> HIDE DEF y
    <3>2. ~job[j].cancelled
      BY <1>0, <3>1 DEF RecordJob, JobWellFormed
    <3>3. QED BY <1>2, <3>1, <3>2 DEF StaysDecided
  <2>3. CASE CloseJob(r, j)
    <3>1. worker[r][j].seen = job[j] /\ job[j].status \in {"cancel_requested", "cancelled", "queued"}
      BY <1>0, <2>3 DEF CloseJob, RecordJob, ClosingSteps, StepSets
    <3>2. \/ job' = [job EXCEPT ![j] = [job[j] EXCEPT !.status = "cancelled"]]
          \/ job' = [job EXCEPT ![j] = [job[j] EXCEPT !.status = "failed", !.error = TRUE]]
      BY <2>3, <3>1 DEF CloseJob
    <3>3. QED BY <1>3, <3>1, <3>2
  <2>4. CASE CompleteJob(r, j)
    <3>1. PICK s \in {"completed_after_cancel", "completed"} :
            job' = [job EXCEPT ![j].status = s, ![j].result = TRUE]
      BY <2>4 DEF CompleteJob
    <3>2. job' = [job EXCEPT ![j] = [job[j] EXCEPT !.status = s, !.result = TRUE]]
      BY <1>0, <3>1 DEF JobsOK
    <3>3. job[j].status \in {"running", "cancel_requested"}
      BY <1>0, <2>4 DEF CompleteJob, At, HeldJob, StepSets
    <3>4. QED BY <1>3, <3>2, <3>3
  <2>5. CASE FailJob(r, j)
    <3>1. \/ job' = job
          \/ /\ job' = [job EXCEPT ![j] = [job[j] EXCEPT !.status = "failed", !.error = TRUE]]
             /\ job[j].status \in Active
      BY <2>5 DEF FailJob
    <3>2. QED BY <1>1, <1>3, <3>1 DEF Active
  <2>6. CASE ClaimLease(r, j) \/ RefuseJob(r, j) \/ DropJob(r, j)
    BY <1>1, <2>6 DEF ClaimLease, RefuseJob, DropJob
  <2>7. QED
    BY <1>4, <2>1, <2>2, <2>3, <2>4, <2>5, <2>6
    DEF WorkerStep, At, TurnSteps, LoadTurn, BeginTurnRun, ResumeTurnRun, ReconcileCall,
        StopAtBoundary, ProceedAtBoundary, ProposeCall, FinishTurn, GiveUpTurn, ProducerFails,
        AskOrDeny, DispatchCall, ExecuteCall, CommitReceipt, SettleAmbiguous, FailTurn
<1>5. ASSUME NEW r \in Runners, NEW j \in Jobs, RecoveryWrite(r, j) PROVE Goal
  <2>1. CASE job' = job
    BY <1>1, <2>1
  <2>2. CASE worker[r][j].pc \in SeenSteps \ {"recoverQueued"}
    <3>1. worker[r][j].seen = job[j]
      BY <1>0, <2>2 DEF RecordJob
    <3>2. job[j].status \in {"cancel_requested", "cancelled", "queued", "running"}
      BY <1>0, <2>2 DEF RecordJob, StepSets
    <3>3. \/ job' = [job EXCEPT ![j] = [job[j] EXCEPT !.status = "cancelled"]]
          \/ job' = [job EXCEPT ![j] = [job[j] EXCEPT !.status = "failed", !.error = TRUE]]
          \/ job' = [job EXCEPT ![j] = [job[j] EXCEPT !.status = "interrupted", !.error = TRUE]]
      BY <1>5, <2>2, <3>1 DEF RecoveryWrite
    <3>4. QED BY <1>3, <3>2, <3>3
  <2>3. QED BY <1>5, <2>1, <2>2 DEF RecoveryWrite, SeenSteps
<1>6. ASSUME NEW r \in Runners, Request(r) \/ RequestStep(r) PROVE Goal
  <2>1. ASSUME NEW j \in Jobs, j = FreshJob, \E k \in Jobs : ~Exists(k), NEW t, NEW origin,
               job' = [job EXCEPT ![j] = QueuedJob(r, t, origin)]
        PROVE  Goal
    <3>1. ~Exists(j)
      BY <1>0, <2>1, FreshIdle
    <3>2. ~QueuedJob(r, t, origin).started
      BY DEF QueuedJob, NoJob
    <3>3. QED BY <1>2, <2>1, <3>1, <3>2 DEF StaysDecided, Exists
  <2>2. ASSUME NEW j \in Jobs, CreateJob(r, j) PROVE Goal
    <3>1. \E k \in Jobs : ~Exists(k)
      BY <1>0, <2>2 DEF CreateJob, AInv, AdmissionBound
    <3>2. QED BY <2>1, <2>2, <3>1 DEF CreateJob
  <2>3. ASSUME NEW k \in Jobs, NEW j \in Jobs, Retry(r, k, j) PROVE Goal
    BY <2>1, <2>3 DEF Retry, CanAdmit, Exists
  <2>4. ASSUME NEW t \in Turns, NEW c \in Calls, NEW j \in Jobs, CreateContinuation(r, t, c, j)
        PROVE  Goal
    BY <2>1, <2>4 DEF CreateContinuation, CanAdmit, Exists
  <2>5. CASE FailContinuation(r)
    <3> DEFINE q == QueuedJob(r, admission.turn, "approval")
               y == [q EXCEPT !.status = "failed", !.error = TRUE]
    <3>1. job' = [job EXCEPT ![admission.job] = y] /\ admission.job \in Jobs /\ Continuing
      BY <1>0, <2>5 DEF FailContinuation, RequestsOK, Continuing
    <3>2. ~y.started
      BY DEF QueuedJob, NoJob
    <3>3. job[admission.job].status \notin {"completed", "completed_after_cancel"}
      BY <1>0, <3>1 DEF RInv, ContinuationFresh, Unstarted
    <3> HIDE DEF y
    <3>4. QED BY <1>2, <3>1, <3>2, <3>3 DEF StaysDecided
  <2>6. ASSUME NEW j \in Jobs, CancelRequest(r, j) PROVE Goal
    <3>1. job' = [job EXCEPT ![j] = [job[j] EXCEPT !.status = "cancel_requested", !.cancelled = TRUE]]
          /\ job[j].status \in Active
      BY <2>6 DEF CancelRequest
    <3>2. QED BY <1>3, <3>1 DEF Active
  <2>7. ASSUME NEW j \in Jobs, CancelClose(r, j) PROVE Goal
    <3> DEFINE s == IF job[j].status = "cancel_requested" THEN "cancelled" ELSE job[j].status
    <3>1. job' = [job EXCEPT ![j] = [job[j] EXCEPT !.status = s]]
      BY <2>7 DEF CancelClose
    <3>2. job[j].status \in {"completed", "completed_after_cancel"} => s = job[j].status
      OBVIOUS
    <3> HIDE DEF s
    <3>3. QED BY <1>3, <3>1, <3>2
  <2>8. QED
    BY <1>1, <1>6, <2>2, <2>3, <2>4, <2>5, <2>6, <2>7
    DEF Request, RequestStep, Submit, SubmitMcpTool, BeginTurn, DenyCheckpoint, CancelSignal,
        CancelTurnOfJob, ApproveCheckpoint
<1>7. QED
  BY <1>1, <1>4, <1>5, <1>6
  DEF Next, Boot, Crash, Shutdown, Recovery, RecoverySkip, RecoveryClaim, RecoverOrphans,
      CloseOrphan, OrphansClosed, ExternalEdit, vars

\* What was decided of a job stays decided when one process serves the project: a
\* finished job never becomes active again, a completed one keeps its outcome, and
\* one that was cancelled before it started never works on its turn.
THEOREM DecisionsStand == Alone => (Spec => DecisionsHold)
<1> DEFINE Decided ==
      \A j \in Jobs :
        /\ job[j].status \in Finished => job'[j].status \in Finished
        /\ job[j].status \in {"completed", "completed_after_cancel"}
             => job'[j].status = job[j].status
        /\ job[j].cancelled /\ ~job[j].started
             => ~job'[j].started /\ \A r \in Runners : worker'[r][j].pc \notin TurnSteps
<1>1. ASSUME Alone, OneInv, OneInv', [Next]_vars PROVE Decided
  <2> SUFFICES ASSUME NEW j \in Jobs
               PROVE  /\ job[j].status \in Finished => job'[j].status \in Finished
                      /\ job[j].status \in {"completed", "completed_after_cancel"}
                           => job'[j].status = job[j].status
                      /\ job[j].cancelled /\ ~job[j].started
                           => ~job'[j].started /\ \A r \in Runners : worker'[r][j].pc \notin TurnSteps
    OBVIOUS
  <2>1. StaysDecided(job[j], job'[j])
    BY <1>1, NextDecided
  <2>2. \A r \in Runners : worker'[r][j].pc \in TurnSteps => job'[j].started
    BY <1>1 DEF OneInv, RInv, RecordJob, RunSteps
  <2>3. ASSUME job[j].status \in Finished PROVE job'[j].status \in Finished
    <3>1. Exists(j) /\ job[j].status \notin Active
      BY <2>3 DEF Exists, Active, Finished, Retryable
    <3>2. Exists(j)' /\ JobsOK'
      BY <1>1, <3>1, NextJobs, JobEffectKeeps DEF OneInv, IInv
    <3>3. job'[j].status \notin Active
      BY <1>1, <3>1, OnlyAdmissionsWake DEF OneInv
    <3>4. QED BY <3>2, <3>3 DEF JobsOK, Job, Exists
  <2>4. QED BY <2>1, <2>2, <2>3 DEF StaysDecided
<1>2. CASE Alone
  <2>1. Spec => []OneInv
    BY <1>2, AlwaysOne
  <2>2. OneInv /\ OneInv' /\ [Next]_vars => [Decided]_vars
    BY <1>1, <1>2
  <2>3. Spec => [][Decided]_vars
    BY <2>1, <2>2, PTL DEF Spec
  <2>4. QED BY <2>3 DEF DecisionsHold
<1>3. QED BY <1>2

-----------------------------------------------------------------------------
\* Who can drive an open turn on when one process serves the project: a job that is
\* active or can be retried, the admission that has begun it, or the orphan scan of
\* the process when it starts again, which waits for no answer of the user.

Opening == {"queued", "running"}

\* A worker that is done leaves its turn closed, or waiting for an answer.
ReturnsClosed ==
  \A r \in Runners, j \in Jobs :
    worker[r][j].pc = "return" => turn[job[j].turn].status \notin Opening

Driven(t) == \E j \in Jobs : job[j].turn = t /\ job[j].status \in Active \cup Retryable
Begun(t)  == admission.step = "begun" /\ admission.turn = t
Orphaned(t) ==
  /\ ActiveJobs = {} /\ \E j \in Jobs : ~Exists(j)
  /\ admission.step \in {"free", "orphans"}
  /\ \A r \in Runners : /\ runner[r] \in {"down", "recovering"}
                        /\ admission.step = "orphans" => t \in todo[r]

OpenDriven == \A t \in Turns : turn[t].status \in Opening => Driven(t) \/ Begun(t) \/ Orphaned(t)

\* The records the methods write that end a run.
LEMMA ClosedRecords ==
  ASSUME NEW t \in Turn, NEW c
  PROVE  /\ Cancel(t).status = "cancelled"
         /\ RequestApproval(t, c).status = "waiting_approval"
         /\ \A s : Update(t, s).status = s
         /\ InterruptActive(t).status = "interrupted"
BY DEF Cancel, RequestApproval, Update, InterruptActive, Turn

\* A worker touches no turn but its own, leaves it closed or waiting when it returns,
\* and opens it only while it works on it.
LEMMA WorkerOpens ==
  ASSUME IInv, NEW r \in Runners, NEW j \in Jobs, WorkerStep(r, j)
  PROVE  /\ worker'[r][j].pc = "return" => turn'[job[j].turn].status \notin Opening
         /\ \A t \in Turns : turn'[t].status \in Opening /\ turn[t].status \notin Opening
              => t = job[j].turn /\ worker[r][j].pc \in TurnSteps
<1> DEFINE s == job[j].turn
           record == turn[s]
           c == worker[r][j].call
<1>0. /\ WorkersOK /\ RestOK /\ JobsOK /\ turn \in [Turns -> Turn]
      /\ worker[r][j].pc # "idle" /\ s \in Turns /\ record \in Turn
  BY WorkerLands DEF IInv, TurnsOK, WorkersOK, JobsOK
<1> DEFINE Goal == /\ worker'[r][j].pc = "return" => turn'[s].status \notin Opening
                   /\ \A t \in Turns : turn'[t].status \in Opening /\ turn[t].status \notin Opening
                        => t = s /\ worker[r][j].pc \in TurnSteps
<1>1. ASSUME NEW p, Lands(r, j, p), p # "return", turn' = turn PROVE Goal
  BY <1>1 DEF Lands
<1>2. ASSUME NEW p, NEW u, Lands(r, j, p), SetTurn(s, u), worker[r][j].pc \in TurnSteps,
             p = "return" => u.status \notin Opening
      PROVE  Goal
  <2>1. \A t \in Turns : turn'[t] = IF t = s THEN u ELSE turn[t]
    BY <1>0, <1>2 DEF SetTurn
  <2>2. QED BY <1>0, <1>2, <2>1 DEF Lands
<1>3. ASSUME NEW p, Lands(r, j, p), turn' = turn, p = "return" => record.status \notin Opening
      PROVE  Goal
  BY <1>0, <1>3 DEF Lands
<1>4. ASSUME NEW accepted, NEW u, NEW p, WriteOrRaise(r, j, accepted, u, p),
             worker[r][j].pc \in TurnSteps, p = "return" => u.status \notin Opening
      PROVE  Goal
  <2>1. \/ Lands(r, j, p) /\ SetTurn(s, u)
        \/ Lands(r, j, "raise") /\ turn' = turn
    BY <1>0, <1>4, GotoLands DEF WriteOrRaise
  <2>2. QED BY <1>1, <1>2, <1>4, <2>1
<1> USE DEF At
<1>5. CASE ClaimLease(r, j) \/ StartJob(r, j) \/ CloseJob(r, j) \/ DropJob(r, j)
           \/ CompleteJob(r, j) \/ FailJob(r, j)
  <2>1. \E p \in {"leased", "idle", "load"} : Lands(r, j, p)
    BY <1>0, <1>5, GotoLands DEF ClaimLease, StartJob, CloseJob, DropJob, CompleteJob, FailJob, Leave
  <2>2. turn' = turn
    BY <1>5 DEF ClaimLease, StartJob, CloseJob, DropJob, CompleteJob, FailJob
  <2>3. QED BY <1>1, <2>1, <2>2
<1>6. CASE RefuseJob(r, j)
  <2>1. \E p \in {"closeCancelled", "closeFailed"} : Lands(r, j, p)
    BY <1>0, <1>6, GotoLands DEF RefuseJob
  <2>2. SetTurn(s, TurnCancelled(s))
    BY <1>6 DEF RefuseJob
  <2>3. TurnCancelled(s) = record \/ TurnCancelled(s).status = "cancelled"
    BY <1>0, ClosedRecords DEF TurnCancelled
  <2>4. \A t \in Turns : turn'[t] = IF t = s THEN TurnCancelled(s) ELSE turn[t]
    BY <1>0, <2>2 DEF SetTurn
  <2>5. QED BY <1>0, <2>1, <2>3, <2>4 DEF Lands, Opening
<1>7. CASE LoadTurn(r, j)
  <2>1. \E p \in {"return", "begin", "check", "reconcileUnmarked", "reconcileMarked", "raise",
                "resume"} :
          Lands(r, j, p) /\ (p = "return" => record.status \notin Opening)
    BY <1>0, <1>7, GotoLands DEF LoadTurn, Opening
  <2>2. turn' = turn
    BY <1>7 DEF LoadTurn
  <2>3. QED BY <1>3, <2>1, <2>2
<1>8. CASE BeginTurnRun(r, j) \/ ResumeTurnRun(r, j) \/ FailTurn(r, j) \/ GiveUpTurn(r, j)
           \/ CommitReceipt(r, j)
  <2>1. \E p \in {"check", "raise"} : \E accepted, u : WriteOrRaise(r, j, accepted, u, p)
    BY <1>8 DEF BeginTurnRun, ResumeTurnRun, FailTurn, GiveUpTurn, CommitReceipt
  <2>2. worker[r][j].pc \in TurnSteps
    BY <1>8 DEF BeginTurnRun, ResumeTurnRun, FailTurn, GiveUpTurn, CommitReceipt, TurnSteps
  <2>3. QED BY <1>4, <2>1, <2>2
<1>9. CASE StopAtBoundary(r, j) \/ FinishTurn(r, j)
  <2>1. \E accepted : \E u \in {Cancel(record), Update(record, "completed")} :
          WriteOrRaise(r, j, accepted, u, "return")
    BY <1>9 DEF StopAtBoundary, FinishTurn
  <2>2. worker[r][j].pc \in TurnSteps
    BY <1>9 DEF StopAtBoundary, FinishTurn, TurnSteps
  <2>3. Cancel(record).status \notin Opening /\ Update(record, "completed").status \notin Opening
    BY <1>0, ClosedRecords DEF Opening
  <2>4. QED BY <1>4, <2>1, <2>2, <2>3
<1>10. CASE AskOrDeny(r, j)
  <2>1. \E accepted : \E u \in {Cancel(record), RequestApproval(record, c)} :
          WriteOrRaise(r, j, accepted, u, "return")
    BY <1>10 DEF AskOrDeny
  <2>2. worker[r][j].pc \in TurnSteps
    BY <1>10 DEF AskOrDeny, TurnSteps
  <2>3. Cancel(record).status \notin Opening /\ RequestApproval(record, c).status \notin Opening
    BY <1>0, ClosedRecords DEF Opening
  <2>4. QED BY <1>4, <2>1, <2>2, <2>3
<1>11. CASE ReconcileCall(r, j) \/ SettleAmbiguous(r, j)
  <2>1. \/ \E p \in {"check", "failTurn"} : \E accepted, u : WriteOrRaise(r, j, accepted, u, p)
        \/ turn' = turn /\ \E p \in {"check", "ambiguous"} : Lands(r, j, p)
    BY <1>0, <1>11, GotoLands DEF ReconcileCall, SettleAmbiguous
  <2>2. worker[r][j].pc \in TurnSteps
    BY <1>11 DEF ReconcileCall, SettleAmbiguous, TurnSteps
  <2>3. QED BY <1>1, <1>4, <2>1, <2>2
<1>12. CASE ProceedAtBoundary(r, j) \/ ProducerFails(r, j)
  <2>1. \E p \in {"return", "think", "decide", "beginDispatch", "execute", "raise"} :
          Lands(r, j, p) /\ (p = "return" => record.status = "waiting_approval")
    BY <1>0, <1>12, GotoLands DEF ProceedAtBoundary, LoadedStep, ProducerFails
  <2>2. turn' = turn
    BY <1>12 DEF ProceedAtBoundary, ProducerFails
  <2>3. QED BY <1>3, <2>1, <2>2 DEF Opening
<1>13. CASE ProposeCall(r, j) \/ DispatchCall(r, j) \/ ExecuteCall(r, j)
  <2>1. /\ \E p \in {"decide", "raise", "execute", "receipt", "ambiguous"} : Lands(r, j, p)
        /\ turn' = turn \/ \E u : SetTurn(s, u)
    BY <1>0, <1>13, GotoLands DEF ProposeCall, DispatchCall, ExecuteCall
  <2>2. worker[r][j].pc \in TurnSteps
    BY <1>13 DEF ProposeCall, DispatchCall, ExecuteCall, TurnSteps
  <2>3. QED BY <1>1, <1>2, <2>1, <2>2
<1>14. QED
  BY <1>5, <1>6, <1>7, <1>8, <1>9, <1>10, <1>11, <1>12, <1>13 DEF WorkerStep

\* What can open a turn: its admission, the answer of the user, or the worker of a job.
LEMMA TurnOpens ==
  ASSUME IInv, [Next]_vars, NEW t \in Turns,
         turn'[t].status \in Opening, turn[t].status \notin Opening
  PROVE  \/ Begun(t)' /\ ActiveJobs = {}
         \/ Continuing /\ admission.turn = t /\ job' = job
         \/ /\ job' = job
            /\ \E r \in Runners, j \in Jobs : worker[r][j].pc \in TurnSteps /\ job[j].turn = t
<1>0. WorkersOK /\ RestOK /\ JobsOK /\ RequestsOK /\ turn \in [Turns -> Turn]
  BY DEF IInv, TurnsOK
<1> DEFINE Goal == \/ Begun(t)' /\ ActiveJobs = {}
                   \/ Continuing /\ admission.turn = t /\ job' = job
                   \/ /\ job' = job
                      /\ \E r \in Runners, j \in Jobs :
                           worker[r][j].pc \in TurnSteps /\ job[j].turn = t
<1>1. CASE turn' = turn
  BY <1>1
<1>2. ASSUME NEW s, NEW u, SetTurn(s, u), u = turn[s] \/ u.status \notin Opening
      PROVE  FALSE
  <2>1. turn'[t] = IF t = s THEN u ELSE turn[t]
    BY <1>0, <1>2 DEF SetTurn
  <2>2. QED BY <1>2, <2>1
<1>3. ASSUME NEW r \in Runners, NEW j \in Jobs, WorkerStep(r, j) PROVE Goal
  <2>1. t = job[j].turn /\ worker[r][j].pc \in TurnSteps
    BY <1>3, WorkerOpens
  <2>2. QED BY <1>3, <2>1, TurnStepGoes
<1>4. ASSUME NEW s \in Turns
      PROVE  /\ TurnCancelled(s) = turn[s] \/ TurnCancelled(s).status \notin Opening
             /\ TurnInterrupted(s) = turn[s] \/ TurnInterrupted(s).status \notin Opening
             /\ OrphanClosed(s) = turn[s] \/ OrphanClosed(s).status \notin Opening
  <2>1. turn[s] \in Turn
    BY <1>0
  <2>2. QED BY <2>1, ClosedRecords DEF TurnCancelled, TurnInterrupted, OrphanClosed, Opening
<1>5. ASSUME NEW r \in Runners, Recovery(r) PROVE Goal
  <2>1. ASSUME NEW j \in Jobs, RecoveryClaim(r, j) PROVE Goal
    <3>1. job[j].turn \in Turns
      BY <1>0, <2>1 DEF RecoveryClaim, JobsOK, Exists, Active
    <3>2. \/ turn' = turn
          \/ SetTurn(job[j].turn, TurnCancelled(job[j].turn))
          \/ SetTurn(job[j].turn, TurnInterrupted(job[j].turn))
      BY <2>1 DEF RecoveryClaim
    <3>3. QED BY <1>1, <1>2, <1>4, <3>1, <3>2
  <2>2. ASSUME NEW s \in Turns, CloseOrphan(r, s) PROVE Goal
    BY <1>2, <1>4, <2>2 DEF CloseOrphan
  <2>3. QED
    BY <1>1, <1>5, <2>1, <2>2 DEF Recovery, RecoverySkip, RecoveryWrite, RecoverOrphans, OrphansClosed
<1>6. ASSUME NEW r \in Runners, Request(r) \/ RequestStep(r) PROVE Goal
  <2>1. ASSUME NEW s \in Turns, NEW record, BeginTurn(r, s, record) PROVE Goal
    <3>1. s = t
      BY <1>0, <2>1 DEF BeginTurn, SetTurn
    <3>2. QED BY <2>1, <3>1 DEF BeginTurn, CanAdmit, Begun
  <2>2. ASSUME NEW s \in Turns, NEW c \in Calls, DenyCheckpoint(r, s, c) PROVE Goal
    <3>1. Deny(turn[s], c, TRUE).status = "cancelled"
      BY <1>0 DEF Deny, Turn
    <3>2. QED BY <1>2, <2>2, <3>1 DEF DenyCheckpoint, Opening
  <2>3. CASE ApproveCheckpoint(r)
    <3>1. CASE turn' = turn
      BY <3>1
    <3>2. CASE turn' # turn
      <4>1. /\ Continuing /\ job' = job
            /\ SetTurn(admission.turn, Approve(turn[admission.turn], admission.call))
        BY <2>3, <3>2 DEF ApproveCheckpoint, Continuing
      <4>2. t = admission.turn
        BY <1>0, <4>1 DEF SetTurn
      <4>3. QED BY <4>1, <4>2
    <3>3. QED BY <3>1, <3>2
  <2>4. ASSUME NEW j \in Jobs, CancelTurnOfJob(r, j) PROVE Goal
    <3>1. job[j].turn \in Turns
      BY <1>0, <2>4 DEF CancelTurnOfJob, RequestsOK, JobsOK
    <3>2. QED BY <1>2, <1>4, <2>4, <3>1 DEF CancelTurnOfJob
  <2>5. QED
    BY <1>1, <1>6, <2>1, <2>2, <2>3, <2>4
    DEF Request, RequestStep, Submit, SubmitMcpTool, CreateContinuation, Retry, CancelRequest,
        CreateJob, CancelSignal, CancelClose, FailContinuation
<1>7. QED
  BY <1>1, <1>3, <1>5, <1>6
  DEF Next, Boot, Crash, Shutdown, ExternalEdit, vars

\* A worker is done when it takes its last step on its turn.
LEMMA ReturnArrives ==
  ASSUME IInv, [Next]_vars, NEW r \in Runners, NEW j \in Jobs, worker'[r][j].pc = "return"
  PROVE  worker[r][j].pc = "return" \/ WorkerStep(r, j)
<1>0. WorkersOK /\ RestOK /\ RequestsOK /\ IdleWorker.pc = "idle"
  BY NoJobTyped DEF IInv
<1> DEFINE Goal == worker[r][j].pc = "return" \/ WorkerStep(r, j)
<1>1. CASE worker' = worker
  BY <1>1
<1>2. ASSUME NEW q \in Runners, NEW i \in Jobs, NEW p, p # "return", Lands(q, i, p) PROVE Goal
  BY <1>2 DEF Lands
<1>3. ASSUME NEW q \in Runners, NEW i \in Jobs, WorkerStep(q, i) PROVE Goal
  <2>1. PICK p \in WorkerSteps : Lands(q, i, p)
    BY <1>3, WorkerLands
  <2>2. QED BY <1>3, <2>1 DEF Lands
<1>4. ASSUME NEW q \in Runners, Crash(q) \/ Shutdown(q) PROVE Goal
  <2>1. worker'[r][j] = worker[r][j] \/ worker'[r][j] = IdleWorker
    BY <1>0, <1>4 DEF Crash, Shutdown, WorkersOK
  <2>2. QED BY <1>0, <2>1
<1>5. ASSUME NEW q \in Runners, NEW i \in Jobs,
             RecoveryClaim(q, i) \/ RecoveryWrite(q, i) \/ Schedule(q, i)
      PROVE  Goal
  <2>1. \/ worker' = worker
        \/ \E p \in RecoverySteps \cup {"idle", "pending"} : Lands(q, i, p)
    BY <1>0, <1>5, GotoLands, ScheduleLands DEF RecoveryClaim, RecoveryWrite, RecoverySteps
  <2>2. "return" \notin RecoverySteps \cup {"idle", "pending"}
    BY DEF RecoverySteps
  <2>3. QED BY <1>1, <1>2, <2>1, <2>2
<1>6. ASSUME NEW q \in Runners, Request(q) \/ RequestStep(q) PROVE Goal
  <2>1. worker' = worker \/ \E i \in Jobs : Schedule(q, i)
    BY <1>0, <1>6
    DEF Request, RequestStep, Submit, SubmitMcpTool, BeginTurn, DenyCheckpoint, CreateContinuation,
        Retry, CancelRequest, CreateJob, CancelSignal, CancelTurnOfJob, CancelClose,
        ApproveCheckpoint, FailContinuation, RequestsOK
  <2>2. QED BY <1>1, <1>5, <2>1
<1>7. QED
  BY <1>1, <1>3, <1>4, <1>5, <1>6
  DEF Next, Boot, Recovery, RecoverySkip, RecoverOrphans, CloseOrphan, OrphansClosed,
      ExternalEdit, vars

\* A turn whose worker is done stays closed: its job is the only active one, so nobody
\* else works on the turn, begins one or approves one.
LEMMA NextReturns ==
  ASSUME Alone, OneInv, ReturnsClosed, [Next]_vars
  PROVE  ReturnsClosed'
<1> SUFFICES ASSUME NEW r \in Runners, NEW j \in Jobs, worker'[r][j].pc = "return",
                    turn'[job'[j].turn].status \in Opening
             PROVE  FALSE
  BY DEF ReturnsClosed
<1>0. IInv /\ AInv /\ LInv /\ RInv /\ WorkersOK /\ JobsOK /\ HeldJob(j) /\ StepSets
  BY StepsDiffer DEF OneInv, IInv, LInv
<1>1. worker[r][j].pc # "idle"
  <2>1. CASE WorkerStep(r, j)
    BY <1>0, <2>1, WorkerLands
  <2>2. QED BY <1>0, <2>1, ReturnArrives
<1>2. job'[j].turn = job[j].turn /\ job[j].turn \in Turns
  BY <1>0, <1>1, NextJobsBound DEF JobsBound, WorkersOK, JobsOK
<1>3. worker[r][j].pc = "return"
  <2>1. CASE WorkerStep(r, j)
    BY <1>0, <1>2, <2>1, WorkerOpens
  <2>2. QED BY <1>0, <2>1, ReturnArrives
<1>4. j \in ActiveJobs /\ turn[job[j].turn].status \notin Opening
  BY <1>0, <1>3 DEF HeldJob, StepSets, ReturnsClosed, ActiveJobs, Active
<1>5. CASE Continuing
  BY <1>0, <1>3, <1>4, <1>5 DEF LInv, ContinuationIdle, RInv, ContinuationFresh
<1>6. ASSUME NEW q \in Runners, NEW i \in Jobs, worker[q][i].pc \in TurnSteps PROVE FALSE
  <2>1. i \in ActiveJobs
    BY <1>0, <1>6 DEF LInv, HeldJob, RunSteps, ActiveJobs, Active
  <2>2. i = j /\ q = r
    BY <1>0, <1>4, <2>1 DEF IInv, OneActive, OneActiveJob, Alone
  <2>3. QED BY <1>3, <1>6, <2>2 DEF TurnSteps
<1>7. QED BY <1>0, <1>2, <1>4, <1>5, <1>6, TurnOpens

\* A job gets a completed outcome from a worker that is done with its turn.
Completed == {"completed", "completed_after_cancel"}

LEMMA ReturnCompletes ==
  ASSUME IInv, AInv, [Next]_vars, NEW i \in Jobs, job'[i].status \in Completed,
         job[i].status \notin Completed
  PROVE  turn' = turn /\ \E r \in Runners : worker[r][i].pc = "return"
<1>0. WorkersOK /\ RestOK /\ JobsOK /\ RequestsOK
  BY DEF IInv
<1> DEFINE Goal == turn' = turn /\ \E r \in Runners : worker[r][i].pc = "return"
<1> USE DEF requestVars
<1>1. CASE job' = job
  BY <1>1
<1>2. ASSUME NEW j, NEW y, job' = [job EXCEPT ![j] = y], y.status \notin Completed
      PROVE  FALSE
  <2>1. job'[i] = IF i = j THEN y ELSE job[i]
    BY <1>0, <1>2 DEF JobsOK
  <2>2. QED BY <1>2, <2>1
<1>3. ASSUME NEW j \in Jobs, NEW x \in Job, NEW s, NEW y,
             \/ y = [x EXCEPT !.status = s]
             \/ y = [x EXCEPT !.status = s, !.error = TRUE]
             \/ y = [x EXCEPT !.status = s, !.started = TRUE]
             \/ y = [x EXCEPT !.status = s, !.cancelled = TRUE],
             s \notin Completed, job' = [job EXCEPT ![j] = y]
      PROVE  FALSE
  <2>1. y.status = s
    BY <1>3 DEF Job
  <2>2. QED BY <1>2, <1>3, <2>1
<1>c. {"running", "cancelled", "failed", "interrupted", "cancel_requested"} \cap Completed = {}
  BY DEF Completed
<1>4. ASSUME NEW r \in Runners, NEW j \in Jobs, WorkerStep(r, j) PROVE Goal
  <2>0. worker[r][j].seen \in Job /\ job[j] \in Job
    BY <1>0 DEF WorkersOK, Worker, JobsOK
  <2>1. CASE worker[r][j].pc \in TurnSteps
    BY <1>1, <1>4, <2>1, TurnStepGoes
  <2>2. CASE StartJob(r, j)
    <3>1. job' = [job EXCEPT ![j] = [job[j] EXCEPT !.status = "running", !.started = TRUE]]
      BY <2>2 DEF StartJob
    <3>2. QED BY <1>3, <1>c, <2>0, <3>1
  <2>3. CASE CloseJob(r, j)
    <3>1. \/ job' = [job EXCEPT ![j] = [worker[r][j].seen EXCEPT !.status = "cancelled"]]
          \/ job' = [job EXCEPT ![j] = [worker[r][j].seen EXCEPT !.status = "failed", !.error = TRUE]]
      BY <2>3 DEF CloseJob
    <3>2. QED BY <1>3, <1>c, <2>0, <3>1
  <2>4. CASE CompleteJob(r, j)
    <3>1. i = j
      BY <1>0, <2>4 DEF CompleteJob, JobsOK
    <3>2. QED BY <2>4, <3>1 DEF CompleteJob, At
  <2>5. CASE FailJob(r, j)
    <3>1. \/ job' = job
          \/ job' = [job EXCEPT ![j] = [job[j] EXCEPT !.status = "failed", !.error = TRUE]]
      BY <2>5 DEF FailJob
    <3>2. QED BY <1>1, <1>3, <1>c, <2>0, <3>1
  <2>6. CASE ClaimLease(r, j) \/ RefuseJob(r, j) \/ DropJob(r, j)
    BY <1>1, <2>6 DEF ClaimLease, RefuseJob, DropJob
  <2>7. QED
    BY <1>4, <2>1, <2>2, <2>3, <2>4, <2>5, <2>6
    DEF WorkerStep, At, TurnSteps, LoadTurn, BeginTurnRun, ResumeTurnRun, ReconcileCall,
        StopAtBoundary, ProceedAtBoundary, ProposeCall, FinishTurn, GiveUpTurn, ProducerFails,
        AskOrDeny, DispatchCall, ExecuteCall, CommitReceipt, SettleAmbiguous, FailTurn
<1>5. ASSUME NEW r \in Runners, NEW j \in Jobs, RecoveryWrite(r, j) PROVE Goal
  <2>0. worker[r][j].seen \in Job
    BY <1>0 DEF WorkersOK, Worker
  <2> DEFINE x == worker[r][j].seen
  <2>1. \/ job' = job
        \/ job' = [job EXCEPT ![j] = [x EXCEPT !.status = "cancelled"]]
        \/ job' = [job EXCEPT ![j] = [x EXCEPT !.status = "failed", !.error = TRUE]]
        \/ job' = [job EXCEPT ![j] = [x EXCEPT !.status = "interrupted", !.error = TRUE]]
    BY <1>5 DEF RecoveryWrite
  <2>2. QED BY <1>1, <1>3, <1>c, <2>0, <2>1
<1>6. ASSUME NEW r \in Runners, Request(r) \/ RequestStep(r) PROVE Goal
  <2>1. ASSUME NEW j \in Jobs, NEW t, NEW origin,
               job' = [job EXCEPT ![j] = QueuedJob(r, t, origin)]
        PROVE  Goal
    <3>1. QueuedJob(r, t, origin).status = "queued"
      BY DEF QueuedJob, NoJob
    <3>2. QED BY <1>2, <2>1, <3>1 DEF Completed
  <2>2. CASE FailContinuation(r)
    <3> DEFINE q == QueuedJob(r, admission.turn, "approval")
               y == [q EXCEPT !.status = "failed", !.error = TRUE]
    <3>1. job' = [job EXCEPT ![admission.job] = y]
      BY <2>2 DEF FailContinuation
    <3>2. y.status = "failed"
      BY DEF QueuedJob, NoJob
    <3> HIDE DEF y
    <3>3. QED BY <1>2, <3>1, <3>2 DEF Completed
  <2>3. ASSUME NEW j \in Jobs, CancelRequest(r, j) PROVE Goal
    <3>1. job' = [job EXCEPT ![j] = [job[j] EXCEPT !.status = "cancel_requested", !.cancelled = TRUE]]
          /\ job[j] \in Job
      BY <1>0, <2>3 DEF CancelRequest, JobsOK
    <3>2. QED BY <1>3, <1>c, <3>1
  <2>4. ASSUME NEW j \in Jobs, CancelClose(r, j) PROVE Goal
    <3> DEFINE s == IF job[j].status = "cancel_requested" THEN "cancelled" ELSE job[j].status
    <3>1. job' = [job EXCEPT ![j] = [job[j] EXCEPT !.status = s]] /\ job[j] \in Job
      BY <1>0, <2>4 DEF CancelClose, JobsOK
    <3>2. CASE job[j].status = "cancel_requested"
      <4>1. job' = [job EXCEPT ![j] = [job[j] EXCEPT !.status = "cancelled"]]
        BY <3>1, <3>2
      <4>2. QED BY <1>3, <1>c, <3>1, <4>1
    <3>3. CASE job[j].status # "cancel_requested"
      <4>1. job'[i].status = job[i].status
        BY <1>0, <3>1, <3>3 DEF JobsOK, Job
      <4>2. QED BY <4>1
    <3>4. QED BY <3>2, <3>3
  <2>5. ASSUME NEW k \in Jobs, NEW j \in Jobs, NEW t, NEW c,
               CreateJob(r, j) \/ Retry(r, k, j) \/ CreateContinuation(r, t, c, j)
        PROVE  Goal
    BY <2>1, <2>5 DEF CreateJob, Retry, CreateContinuation
  <2>6. QED
    BY <1>1, <1>6, <2>2, <2>3, <2>4, <2>5
    DEF Request, RequestStep, Submit, SubmitMcpTool, BeginTurn, DenyCheckpoint, CancelSignal,
        CancelTurnOfJob, ApproveCheckpoint
<1>7. QED
  BY <1>1, <1>4, <1>5, <1>6
  DEF Next, Boot, Crash, Shutdown, Recovery, RecoverySkip, RecoveryClaim, RecoverOrphans,
      CloseOrphan, OrphansClosed, ExternalEdit, vars

\* The admission that has begun a turn writes its job; if its process dies first, the
\* turn is an orphan.
LEMMA BegunGoesOn ==
  ASSUME Alone, OneInv, [Next]_vars, NEW t \in Turns, Begun(t)
  PROVE  Begun(t)' \/ Driven(t)' \/ Orphaned(t)'
<1>0. /\ JobsOK /\ RestOK /\ RequestsOK /\ ActiveJobs = {} /\ NoAdmission.step = "free"
      /\ (\E j \in Jobs : ~Exists(j)) /\ admission.by \in Runners
      /\ admission.step = "begun" /\ admission.turn = t
  BY FreeTyped DEF OneInv, IInv, OneActive, AInv, AdmissionBound, DownIdle, Begun
<1> DEFINE Goal == Begun(t)' \/ Driven(t)' \/ Orphaned(t)'
<1> USE DEF requestVars
<1>1. CASE admission' = admission
  BY <1>0, <1>1 DEF Begun
<1>2. ASSUME NEW r \in Runners, Crash(r) PROVE Goal
  <2>1. \A q \in Runners : q = r
    BY DEF Alone
  <2>2. /\ admission' = NoAdmission /\ job' = job
        /\ \A q \in Runners : runner'[q] = "down"
    BY <1>0, <1>2, <2>1 DEF Crash, RestOK
  <2>3. Orphaned(t)'
    BY <1>0, <2>2 DEF Orphaned, ActiveJobs, Exists
  <2>4. QED BY <2>3
<1>3. ASSUME NEW r \in Runners, NEW j \in Jobs, CreateJob(r, j) PROVE Goal
  <2>1. job'[j].turn = t /\ job'[j].status = "queued"
    BY <1>0, <1>3, QueuedJobTyped DEF CreateJob, JobsOK, Origins
  <2>2. QED BY <2>1 DEF Driven, Active
<1>4. ASSUME NEW r \in Runners, Request(r) \/ RequestStep(r) PROVE Goal
  BY <1>0, <1>1, <1>3, <1>4
  DEF Request, RequestStep, Submit, SubmitMcpTool, BeginTurn, DenyCheckpoint, CreateContinuation,
      Retry, CanAdmit, CancelRequest, CancelSignal, CancelTurnOfJob, CancelClose,
      ApproveCheckpoint, FailContinuation
<1>5. ASSUME NEW r \in Runners, Recovery(r) PROVE Goal
  BY <1>0, <1>1, <1>5
  DEF Recovery, RecoverySkip, RecoveryClaim, RecoveryWrite, RecoverOrphans, CloseOrphan,
      OrphansClosed
<1>6. ASSUME NEW r \in Runners, NEW j \in Jobs, WorkerStep(r, j) PROVE Goal
  BY <1>1, <1>6, WorkerLands DEF OneInv
<1>7. QED
  BY <1>1, <1>2, <1>4, <1>5, <1>6
  DEF Next, Boot, Shutdown, ExternalEdit, vars

\* While no process serves requests and no admission has begun, no record appears.
LEMMA NothingCreated ==
  ASSUME IInv, LInv, [Next]_vars, admission.step \in {"free", "orphans"},
         \A r \in Runners : runner[r] # "up", NEW i \in Jobs, ~Exists(i)
  PROVE  job'[i] = job[i]
<1>0. WorkersOK /\ RestOK /\ JobsOK /\ RequestsOK
  BY DEF IInv
<1> USE DEF requestVars
<1>1. CASE job' = job
  BY <1>1
<1>2. ASSUME NEW j \in Jobs, NEW y, job' = [job EXCEPT ![j] = y], Exists(j)
      PROVE  job'[i] = job[i]
  BY <1>0, <1>2 DEF JobsOK
<1>3. ASSUME NEW r \in Runners, NEW j \in Jobs, WorkerStep(r, j) PROVE job'[i] = job[i]
  <2>1. i # j
    BY <1>0, <1>3, WorkerLands DEF WorkersOK
  <2>2. QED BY <1>3, <2>1, WorkerHeld DEF Only
<1>4. ASSUME NEW r \in Runners, NEW j \in Jobs, RecoveryWrite(r, j) PROVE job'[i] = job[i]
  <2>1. Exists(j)
    BY <1>0, <1>4 DEF RecoveryWrite, WorkersOK, RecoverySteps
  <2>2. job' = job \/ \E y : job' = [job EXCEPT ![j] = y]
    BY <1>4 DEF RecoveryWrite
  <2>3. QED BY <1>1, <1>2, <2>1, <2>2
<1>5. ASSUME NEW r \in Runners, Request(r) \/ RequestStep(r) PROVE job'[i] = job[i]
  <2>1. ASSUME NEW j \in Jobs, CancelClose(r, j) PROVE job'[i] = job[i]
    <3>1. cancelling[j].step = "close"
      BY <2>1 DEF CancelClose
    <3>2. Exists(j)
      BY <1>0, <3>1 DEF RequestsOK
    <3> DEFINE s == IF job[j].status = "cancel_requested" THEN "cancelled" ELSE job[j].status
               y == [job[j] EXCEPT !.status = s]
    <3>3. job' = [job EXCEPT ![j] = y]
      BY <2>1 DEF CancelClose
    <3> HIDE DEF y
    <3>4. QED BY <1>2, <3>2, <3>3
  <2>2. QED
    BY <1>1, <1>5, <2>1
    DEF Request, RequestStep, Submit, SubmitMcpTool, BeginTurn, DenyCheckpoint, CreateContinuation,
        Retry, CanAdmit, CancelRequest, CancelSignal, CancelTurnOfJob, CreateJob,
        ApproveCheckpoint, FailContinuation
<1>6. QED
  BY <1>1, <1>3, <1>4, <1>5
  DEF Next, Boot, Crash, Shutdown, Recovery, RecoverySkip, RecoveryClaim, RecoverOrphans,
      CloseOrphan, OrphansClosed, ExternalEdit, vars

\* An orphan stays one until the scan of the starting process has closed it: it takes
\* the jobs lock while no job is active and closes every turn it found.
LEMMA OrphanedGoesOn ==
  ASSUME Alone, OneInv, [Next]_vars, NEW t \in Turns, Orphaned(t),
         turn[t].status \in Opening, turn'[t].status \in Opening
  PROVE  Orphaned(t)'
<1>0. /\ WorkersOK /\ JobsOK /\ RestOK /\ RequestsOK /\ IInv /\ AInv /\ LInv /\ RInv
      /\ turn \in [Turns -> Turn] /\ NoAdmission.step = "free"
      /\ ActiveJobs = {} /\ admission.step \in {"free", "orphans"}
      /\ \A r \in Runners : /\ runner[r] \in {"down", "recovering"}
                            /\ admission.step = "orphans" =>
                                 t \in todo[r] /\ admission.by = r /\ runner[r] # "down"
  BY FreeTyped DEF OneInv, IInv, TurnsOK, Orphaned, AInv, DownIdle, Alone
<1>a. \A q, r \in Runners : q = r
  BY DEF Alone
<1> DEFINE Idle == /\ admission'.step \in {"free", "orphans"}
                   /\ \A r \in Runners : /\ runner'[r] \in {"down", "recovering"}
                                         /\ admission'.step = "orphans" => t \in todo'[r]
<1>1. ActiveJobs' = {} /\ \E j \in Jobs : ~Exists(j)'
  <2>1. \A i \in Jobs : ~Exists(i) => job'[i] = job[i]
    BY <1>0, NothingCreated
  <2>2. \A i \in Jobs : job'[i].status \notin Active
    <3>1. SUFFICES ASSUME NEW i \in Jobs, job'[i].status \in Active PROVE FALSE
      OBVIOUS
    <3>2. ~Exists(i)
      BY <1>0, <3>1, OnlyAdmissionsWake DEF ActiveJobs
    <3>3. QED BY <2>1, <3>1, <3>2 DEF Exists, Active
  <2>3. PICK j \in Jobs : ~Exists(j)
    BY DEF Orphaned
  <2>4. QED BY <2>1, <2>2, <2>3 DEF ActiveJobs, Exists
<1> USE DEF requestVars, runnerVars
<1>2. ASSUME UNCHANGED <<runner, todo, admission>> PROVE Idle
  <2>1. runner' = runner /\ todo' = todo /\ admission' = admission
    BY <1>2
  <2>2. QED BY <1>0, <2>1
<1>3. ASSUME NEW r \in Runners, NEW mode, Boot(r, mode) PROVE Idle
  <2>1. runner' = [runner EXCEPT ![r] = "recovering"] /\ admission' = admission
        /\ runner[r] = "down"
    BY <1>3 DEF Boot
  <2>2. admission.step # "orphans"
    BY <1>0, <2>1
  <2>3. QED BY <1>0, <2>1, <2>2 DEF RestOK
<1>4. ASSUME NEW r \in Runners, Crash(r) PROVE Idle
  <2>1. admission'.step = "free" /\ runner' = [runner EXCEPT ![r] = "down"]
    BY <1>0, <1>a, <1>4 DEF Crash
  <2>2. QED BY <1>0, <2>1 DEF RestOK
<1>5. ASSUME NEW r \in Runners, Shutdown(r) PROVE Idle
  BY <1>0, <1>5 DEF Shutdown
<1>6. ASSUME NEW r \in Runners, Recovery(r) PROVE Idle
  <2>1. ASSUME NEW j \in Jobs, RecoverySkip(r, j) \/ RecoveryClaim(r, j) PROVE Idle
    <3>1. UNCHANGED <<runner, admission>> /\ admission.by # r
      BY <2>1 DEF RecoverySkip, RecoveryClaim, Recovering
    <3>2. QED BY <1>0, <3>1
  <2>2. ASSUME NEW j \in Jobs, RecoveryWrite(r, j) PROVE Idle
    <3>1. UNCHANGED <<runner, todo, admission>>
      BY <2>2 DEF RecoveryWrite
    <3>2. QED BY <1>2, <3>1
  <2>3. CASE RecoverOrphans(r)
    <3>1. ActiveJobs = {} /\ \E j \in Jobs : job[j].status = "absent"
      BY <1>0 DEF Orphaned, Exists
    <3>2. /\ todo' = [todo EXCEPT ![r] = {s \in Turns : turn[s].status \in {"queued", "running"}}]
          /\ admission' = [NoAdmission EXCEPT !.by = r, !.step = "orphans"]
          /\ runner' = runner
      BY <2>3, <3>1 DEF RecoverOrphans
    <3>3. admission'.step = "orphans" /\ \A q \in Runners : t \in todo'[q]
      BY <1>0, <1>a, <3>2 DEF NoAdmission, RestOK, Opening
    <3>4. QED BY <1>0, <3>2, <3>3
  <2>4. ASSUME NEW s \in Turns, CloseOrphan(r, s) PROVE Idle
    <3>1. /\ todo' = [todo EXCEPT ![r] = @ \ {s}] /\ UNCHANGED <<runner, admission>>
          /\ SetTurn(s, OrphanClosed(s))
      BY <2>4 DEF CloseOrphan
    <3>2. s # t
      <4>1. SUFFICES ASSUME s = t PROVE FALSE
        OBVIOUS
      <4>2. OrphanClosed(t).status \notin Opening
        BY <1>0, ClosedRecords DEF OrphanClosed, Opening
      <4>3. turn'[t] = OrphanClosed(t)
        BY <1>0, <3>1, <4>1 DEF SetTurn
      <4>4. QED BY <4>2, <4>3
    <3>3. QED BY <1>0, <3>1, <3>2 DEF RestOK
  <2>5. CASE OrphansClosed(r)
    BY <1>0, <2>5 DEF OrphansClosed
  <2>6. QED BY <1>6, <2>1, <2>2, <2>3, <2>4, <2>5 DEF Recovery
<1>7. ASSUME NEW r \in Runners, Request(r) \/ RequestStep(r) PROVE Idle
  BY <1>0, <1>2, <1>7
  DEF Request, RequestStep, Submit, SubmitMcpTool, BeginTurn, DenyCheckpoint, CreateContinuation,
      Retry, CanAdmit, CancelRequest, CancelSignal, CancelTurnOfJob, CancelClose, CreateJob,
      ApproveCheckpoint, FailContinuation
<1>8. ASSUME NEW r \in Runners, NEW j \in Jobs, WorkerStep(r, j) PROVE Idle
  BY <1>0, <1>2, <1>8, WorkerLands
<1> HIDE DEF Idle
<1>9. Idle
  BY <1>2, <1>3, <1>4, <1>5, <1>6, <1>7, <1>8
  DEF Next, ExternalEdit, vars
<1>10. QED BY <1>1, <1>9 DEF Orphaned, Idle

LEMMA NextDriven ==
  ASSUME Alone, OneInv, ReturnsClosed, OpenDriven, [Next]_vars
  PROVE  OpenDriven'
<1> SUFFICES ASSUME NEW t \in Turns, turn'[t].status \in Opening
             PROVE  Driven(t)' \/ Begun(t)' \/ Orphaned(t)'
  BY DEF OpenDriven
<1>0. /\ IInv /\ AInv /\ LInv /\ RInv /\ JobsOK /\ JobsOK' /\ RequestsOK
      /\ \A j \in Jobs : HeldJob(j) /\ (Exists(j) => Exists(j)')
      /\ \A j \in Jobs : Exists(j) => job'[j].turn = job[j].turn
  BY NextJobs, JobEffectKeeps, NextJobsBound DEF OneInv, IInv, LInv, JobsBound
<1>1. CASE turn[t].status \notin Opening
  <2>1. CASE Continuing /\ admission.turn = t /\ job' = job
    <3>1. /\ admission.job \in Jobs /\ job[admission.job].turn = t
          /\ Unstarted(job[admission.job])
      BY <1>0, <2>1 DEF Continuing, RequestsOK, AInv, AdmissionBound, RInv, ContinuationFresh
    <3>2. QED BY <2>1, <3>1 DEF Driven, Unstarted, Active, Retryable
  <2>2. ASSUME job' = job, NEW r \in Runners, NEW j \in Jobs, worker[r][j].pc \in TurnSteps,
               job[j].turn = t
        PROVE  Driven(t)'
    <3>1. job[j].status \in {"running", "cancel_requested"}
      BY <1>0, <2>2 DEF HeldJob, RunSteps
    <3>2. QED BY <2>2, <3>1 DEF Driven, Active
  <2>3. QED BY <1>0, <1>1, <2>1, <2>2, TurnOpens
<1>2. CASE turn[t].status \in Opening
  <2>1. ASSUME Driven(t) PROVE Driven(t)'
    <3>1. PICK j \in Jobs : job[j].turn = t /\ job[j].status \in Active \cup Retryable
      BY <2>1 DEF Driven
    <3>2. Exists(j) /\ job[j].status \notin Completed
      BY <3>1 DEF Exists, Active, Retryable, Completed
    <3>3. job'[j].status \notin Completed
      <4>1. ASSUME NEW r \in Runners, worker[r][j].pc = "return" PROVE FALSE
        BY <1>2, <3>1, <4>1 DEF ReturnsClosed
      <4>2. QED BY <1>0, <3>2, <4>1, ReturnCompletes
    <3>4. job'[j].turn = t /\ job'[j].status \in Active \cup Retryable
      BY <1>0, <3>1, <3>2, <3>3 DEF JobsOK, Job, Exists, Completed, Finished
    <3>5. QED BY <3>4 DEF Driven
  <2>2. QED BY <1>2, <2>1, BegunGoesOn, OrphanedGoesOn DEF OpenDriven
<1>3. QED BY <1>1, <1>2

\* With one process, a turn that blocks the thread can be driven on whenever the process
\* is up and no request is half done: no crash, retry, cancellation or restart leaves a
\* queued or running turn that no job names.
THEOREM TurnsStayReachable == Alone => (Spec => []OpenTurnReachable)
<1>1. CASE Alone
  <2>1. OpenDriven => OpenTurnReachable
    <3> SUFFICES ASSUME OpenDriven, \A r \in Runners : runner[r] = "up", admission = NoAdmission,
                        NEW t \in UnclosedTurns, turn[t].status # "waiting_approval"
                 PROVE  Driven(t)
      BY DEF OpenTurnReachable, Driven
    <3>1. t \in Turns /\ turn[t].status \in Opening
      BY DEF UnclosedTurns, OpenTurns, Opening
    <3>2. ~Begun(t) /\ ~Orphaned(t)
      BY <1>1, FreeTyped DEF Begun, Orphaned, Alone
    <3>3. QED BY <3>1, <3>2 DEF OpenDriven
  <2>2. Init => ReturnsClosed /\ OpenDriven
    BY NoJobTyped DEF Init, ReturnsClosed, OpenDriven, AbsentTurn, Opening
  <2>3. OneInv /\ ReturnsClosed /\ OpenDriven /\ [Next]_vars => ReturnsClosed' /\ OpenDriven'
    BY <1>1, NextReturns, NextDriven
  <2>4. Spec => []OneInv
    BY <1>1, AlwaysOne
  <2>5. Spec => []OpenTurnReachable
    BY <2>1, <2>2, <2>3, <2>4, PTL DEF Spec
  <2>6. QED BY <2>5
<1>2. QED BY <1>1
=============================================================================
