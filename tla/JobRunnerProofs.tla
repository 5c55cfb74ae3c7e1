--------------------------- MODULE JobRunnerProofs ---------------------------
(***************************************************************************)
(* Proofs about JobRunner, for any processes, jobs, turns and calls.        *)
(*                                                                          *)
(* IInv says of every durable record and every thread what its next step    *)
(* rests on: a worker, a canceller or an admission names a job record that   *)
(* exists and a turn, and a request that has begun a turn holds off all      *)
(* other admissions.  A step changes the jobs (JobEffect) and the turns      *)
(* (TurnEffect) in one of few ways, whatever thread takes it; from the first *)
(* follows OneActiveJob, from the second that JobRunner implements           *)
(* AgentTurns.                                                              *)
(***************************************************************************)
EXTENDS JobRunner, TurnRecordsProofs

Worker == [pc : WorkerSteps, call : Calls \cup {None}, seen : Job]
Admission == [by : Runners \cup {None}, step : {"free", "orphans", "begun", "approving", "refused"},
              turn : Turns \cup {None}, call : Calls \cup {None}, job : Jobs \cup {None}]
Cancelling == [by : Runners \cup {None}, step : {"none", "signal", "signalQueued", "turn", "close"}]

CallSteps == {"reconcileUnmarked", "reconcileMarked", "decide", "beginDispatch", "execute",
              "receipt", "ambiguous"}
SeenSteps == ClosingSteps \cup RecoverySteps

Exists(j) == job[j].status # "absent"

\* A job record names its turn.
JobsOK ==
  /\ job \in [Jobs -> Job]
  /\ \A j \in Jobs : Exists(j) => job[j].turn \in Turns

\* What a worker's step works on is there.
WorkOK(w) ==
  /\ w \in Worker
  /\ w.pc \in CallSteps => w.call \in Calls
  /\ w.pc \in SeenSteps => w.seen.turn \in Turns
WorkersOK ==
  /\ worker \in [Runners -> [Jobs -> Worker]]
  /\ \A r \in Runners, j \in Jobs :
       WorkOK(worker[r][j]) /\ (worker[r][j].pc # "idle" => Exists(j))

RequestsOK ==
  /\ cancelling \in [Jobs -> Cancelling]
  /\ \A j \in Jobs : cancelling[j].step # "none" => Exists(j)
  /\ admission \in Admission
  /\ admission.step \in {"begun", "approving", "refused"} => admission.turn \in Turns
  /\ admission.step \in {"approving", "refused"} =>
       admission.call \in Calls /\ admission.job \in Jobs /\ Exists(admission.job)

RestOK ==
  /\ revision \in 0..MaxRevision
  /\ applied \in [Turns -> [Calls -> 0..MaxRevision]]
  /\ runner \in [Runners -> {"down", "recovering", "up", "closing"}]
  /\ policy \in [Runners -> Policies]
  /\ todo \in [Runners -> SUBSET (Jobs \cup Turns)]
  /\ lease \in [Jobs -> Runners \cup {None}]
  /\ cancelSet \in [Runners -> SUBSET Jobs]

TurnsOK ==
  /\ turn \in [Turns -> Turn]
  /\ \A t \in Turns : TurnInv(turn[t])

OneActive ==
  /\ OneActiveJob
  /\ admission.step = "begun" => ActiveJobs = {}

IInv == JobsOK /\ WorkersOK /\ RequestsOK /\ RestOK /\ TurnsOK /\ OneActive

-----------------------------------------------------------------------------
\* The ways a step can change the job records: not at all, or one record, which
\* becomes active only if it was, or under an admission when no other is.

JobWrite(j, x) ==
  /\ job' = [job EXCEPT ![j] = x]
  /\ x \in Job /\ x.status # "absent" /\ x.turn \in Turns
  /\ x.status \in Active =>
       job[j].status \in Active \/ (ActiveJobs = {} /\ admission'.step # "begun")
  /\ admission'.step = "begun" => admission.step = "begun"

JobEffect ==
  \/ job' = job /\ (admission'.step = "begun" => admission.step = "begun" \/ ActiveJobs = {})
  \/ \E j \in Jobs, x \in Job : JobWrite(j, x)

\* Whatever the effect, records do not vanish and the invariants of the jobs hold.
LEMMA JobEffectKeeps ==
  ASSUME JobsOK, OneActive, JobEffect
  PROVE  JobsOK' /\ OneActive' /\ \A j \in Jobs : Exists(j) => Exists(j)'
<1>1. CASE job' = job /\ (admission'.step = "begun" => admission.step = "begun" \/ ActiveJobs = {})
  BY <1>1 DEF JobsOK, OneActive, OneActiveJob, ActiveJobs, Exists
<1>2. ASSUME NEW j \in Jobs, NEW x \in Job, JobWrite(j, x)
      PROVE  JobsOK' /\ OneActive' /\ \A i \in Jobs : Exists(i) => Exists(i)'
  <2>1. \A i \in Jobs : job'[i] = IF i = j THEN x ELSE job[i]
    BY <1>2 DEF JobWrite, JobsOK
  <2>2. JobsOK'
    BY <1>2, <2>1 DEF JobWrite, JobsOK, Exists
  <2>3. \A i \in Jobs : Exists(i) => Exists(i)'
    BY <1>2, <2>1 DEF JobWrite, Exists
  <2>4. \A i \in ActiveJobs' : i \in ActiveJobs
          \/ (i = j /\ ActiveJobs = {} /\ admission'.step # "begun")
    BY <1>2, <2>1 DEF JobWrite, ActiveJobs
  <2>5. OneActive'
    BY <1>2, <2>4 DEF OneActive, OneActiveJob, JobWrite
  <2>6. QED BY <2>2, <2>3, <2>5
<1>3. QED BY <1>1, <1>2 DEF JobEffect

\* The records that are written.
LEMMA QueuedJobTyped ==
  ASSUME RestOK, NEW r \in Runners, NEW t \in Turns, NEW origin \in Origins
  PROVE  /\ QueuedJob(r, t, origin) \in Job
         /\ QueuedJob(r, t, origin).turn = t
         /\ QueuedJob(r, t, origin).status = "queued"
BY DEF RestOK, QueuedJob, NoJob, Job, Active

\* A record that becomes another status keeps its type and its turn.
LEMMA JobRewritten ==
  ASSUME NEW x \in Job, NEW s \in Active \cup Finished
  PROVE  /\ [x EXCEPT !.status = s] \in Job
         /\ [x EXCEPT !.status = s].turn = x.turn
         /\ [x EXCEPT !.status = s].status = s
         /\ \A b \in BOOLEAN : /\ [x EXCEPT !.status = s, !.error = b] \in Job
                               /\ [x EXCEPT !.status = s, !.error = b].turn = x.turn
                               /\ [x EXCEPT !.status = s, !.error = b].status = s
                               /\ [x EXCEPT !.status = s, !.result = b] \in Job
                               /\ [x EXCEPT !.status = s, !.result = b].turn = x.turn
                               /\ [x EXCEPT !.status = s, !.result = b].status = s
                               /\ [x EXCEPT !.status = s, !.started = b] \in Job
                               /\ [x EXCEPT !.status = s, !.started = b].turn = x.turn
                               /\ [x EXCEPT !.status = s, !.started = b].status = s
                               /\ [x EXCEPT !.status = s, !.cancelled = b] \in Job
                               /\ [x EXCEPT !.status = s, !.cancelled = b].turn = x.turn
                               /\ [x EXCEPT !.status = s, !.cancelled = b].status = s
BY DEF Job

\* A step that changes neither the jobs nor the admission.
LEMMA NoJobEffect == UNCHANGED <<job, admission>> => JobEffect
BY DEF JobEffect

\* A job is created under an admission, when no other is active.
LEMMA CreationEffect ==
  ASSUME RestOK, NEW r \in Runners, NEW j \in Jobs, NEW t \in Turns, NEW origin \in Origins,
         job' = [job EXCEPT ![j] = QueuedJob(r, t, origin)],
         ActiveJobs = {}, admission'.step # "begun"
  PROVE  JobEffect
<1> DEFINE q == QueuedJob(r, t, origin)
<1>1. q \in Job /\ q.turn = t /\ q.status = "queued"
  BY QueuedJobTyped
<1> HIDE DEF q
<1>2. JobWrite(j, q)
  BY <1>1 DEF JobWrite, q
<1>3. QED BY <1>1, <1>2 DEF JobEffect

\* A record of an existing job is rewritten; it stays active or becomes finished.
LEMMA RewriteEffect ==
  ASSUME NEW j \in Jobs, NEW x \in Job, job' = [job EXCEPT ![j] = x],
         x.status # "absent", x.turn \in Turns,
         x.status \in Active => job[j].status \in Active,
         admission' = admission \/ admission'.step # "begun"
  PROVE  JobEffect
BY DEF JobEffect, JobWrite

\* The request threads.
LEMMA RequestJobs ==
  ASSUME IInv, NEW r \in Runners, Request(r) \/ RequestStep(r)
  PROVE  JobEffect
<1>1. ASSUME NEW t \in Turns, NEW record, BeginTurn(r, t, record) PROVE JobEffect
  BY <1>1 DEF BeginTurn, CanAdmit, JobEffect
<1>2. ASSUME NEW t \in Turns, NEW c \in Calls, DenyCheckpoint(r, t, c) PROVE JobEffect
  BY <1>2, NoJobEffect DEF DenyCheckpoint, requestVars
<1>3. ASSUME NEW t \in Turns, NEW c \in Calls, NEW j \in Jobs, CreateContinuation(r, t, c, j)
      PROVE  JobEffect
  BY <1>3, CreationEffect DEF CreateContinuation, CanAdmit, IInv, Origins
<1>4. ASSUME NEW i \in Jobs, NEW j \in Jobs, Retry(r, i, j) PROVE JobEffect
  <2>1. job[i].turn \in Turns
    BY <1>4 DEF Retry, Retryable, IInv, JobsOK, Exists
  <2>2. admission'.step # "begun" /\ ActiveJobs = {}
    BY <1>4 DEF Retry, CanAdmit, NoAdmission, requestVars
  <2>3. QED BY <1>4, <2>1, <2>2, CreationEffect DEF Retry, IInv, Origins
<1>5. ASSUME NEW j \in Jobs, CancelRequest(r, j) PROVE JobEffect
  <2> DEFINE x == [job[j] EXCEPT !.status = "cancel_requested", !.cancelled = TRUE]
  <2>1. job[j] \in Job /\ job[j].turn \in Turns /\ job[j].status \in Active
    BY <1>5 DEF CancelRequest, IInv, JobsOK, Exists, Active
  <2>2. job' = [job EXCEPT ![j] = x]
    BY <1>5 DEF CancelRequest
  <2>3. x \in Job /\ x.turn = job[j].turn /\ x.status = "cancel_requested"
    BY <2>1, JobRewritten DEF Active
  <2>4. QED BY <1>5, <2>1, <2>2, <2>3, RewriteEffect DEF CancelRequest
<1>6. ASSUME NEW j \in Jobs, CreateJob(r, j) PROVE JobEffect
  <2>1. admission.turn \in Turns /\ ActiveJobs = {} /\ admission'.step # "begun"
    BY <1>6 DEF CreateJob, IInv, RequestsOK, OneActive, NoAdmission
  <2>2. QED BY <1>6, <2>1, CreationEffect DEF CreateJob, IInv, Origins
<1>7. ASSUME NEW j \in Jobs, CancelSignal(r, j) \/ CancelTurnOfJob(r, j) PROVE JobEffect
  BY <1>7, NoJobEffect DEF CancelSignal, CancelTurnOfJob
<1>8. ASSUME NEW j \in Jobs, CancelClose(r, j) PROVE JobEffect
  <2> DEFINE s == IF job[j].status = "cancel_requested" THEN "cancelled" ELSE job[j].status
             x == [job[j] EXCEPT !.status = s]
  <2>1. job[j] \in Job /\ job[j].turn \in Turns /\ Exists(j)
    BY <1>8 DEF CancelClose, IInv, JobsOK, RequestsOK
  <2>2. job' = [job EXCEPT ![j] = x]
    BY <1>8 DEF CancelClose
  <2>3. s \in Active \cup Finished /\ (s \in Active => job[j].status \in Active)
    BY <2>1 DEF Job, Exists, Active, Finished, Retryable
  <2> HIDE DEF s
  <2>4. x \in Job /\ x.turn = job[j].turn /\ x.status = s
    BY <2>1, <2>3, JobRewritten
  <2>5. s # "absent"
    BY <2>3 DEF Active, Finished, Retryable
  <2> HIDE DEF x
  <2>6. QED BY <1>8, <2>1, <2>2, <2>3, <2>4, <2>5, RewriteEffect DEF CancelClose
<1>9. CASE ApproveCheckpoint(r)
  BY <1>9 DEF ApproveCheckpoint, NoAdmission, JobEffect, IInv, RequestsOK, Admission
<1>10. CASE FailContinuation(r)
  <2> DEFINE q == QueuedJob(r, admission.turn, "approval")
             x == [q EXCEPT !.status = "failed", !.error = TRUE]
  <2>1. admission.turn \in Turns /\ admission.job \in Jobs
    BY <1>10 DEF FailContinuation, IInv, RequestsOK
  <2>2. q \in Job /\ q.turn = admission.turn
    BY <2>1, QueuedJobTyped DEF IInv, Origins
  <2>3. job' = [job EXCEPT ![admission.job] = x] /\ admission'.step # "begun"
    BY <1>10 DEF FailContinuation, NoAdmission
  <2> HIDE DEF q
  <2>4. x \in Job /\ x.turn = q.turn /\ x.status = "failed"
    BY <2>2, JobRewritten DEF Finished, Retryable
  <2> HIDE DEF x
  <2>5. QED BY <2>1, <2>2, <2>3, <2>4, RewriteEffect DEF Active
<1>11. QED
  BY <1>1, <1>2, <1>3, <1>4, <1>5, <1>6, <1>7, <1>8, <1>9, <1>10
  DEF Request, RequestStep, Submit, SubmitMcpTool

\* A worker, which rewrites its own record when it starts and when it ends.
LEMMA WorkerJobs ==
  ASSUME IInv, NEW r \in Runners, NEW j \in Jobs, WorkerStep(r, j)
  PROVE  JobEffect
<1>0. job[j] \in Job /\ (worker[r][j].pc # "idle" => Exists(j) /\ job[j].turn \in Turns)
  BY DEF IInv, JobsOK, WorkersOK
<1>1. CASE StartJob(r, j)
  <2> DEFINE x == [job[j] EXCEPT !.status = "running", !.started = TRUE]
  <2>1. job' = [job EXCEPT ![j] = x] /\ admission' = admission
    BY <1>1 DEF StartJob, requestVars
  <2>2. x \in Job /\ x.turn = job[j].turn /\ x.status = "running"
    BY <1>0, JobRewritten DEF Active
  <2>3. job[j].status \in Active /\ job[j].turn \in Turns
    BY <1>0, <1>1 DEF StartJob, Active, Exists, At
  <2> HIDE DEF x
  <2>4. QED BY <2>1, <2>2, <2>3, RewriteEffect
<1>2. CASE CloseJob(r, j)
  <2> DEFINE seen == worker[r][j].seen
             x == IF At(r, j, "closeCancelled") THEN [seen EXCEPT !.status = "cancelled"]
                  ELSE [seen EXCEPT !.status = "failed", !.error = TRUE]
  <2>1. job' = [job EXCEPT ![j] = x] /\ admission' = admission
    BY <1>2 DEF CloseJob, requestVars
  <2>2. seen \in Job /\ seen.turn \in Turns
    BY <1>2 DEF CloseJob, IInv, WorkersOK, WorkOK, Worker, SeenSteps
  <2> HIDE DEF seen
  <2>3. x \in Job /\ x.turn \in Turns /\ x.status \in {"cancelled", "failed"}
    BY <2>2, JobRewritten DEF Finished, Retryable
  <2> HIDE DEF x
  <2>4. QED BY <2>1, <2>3, RewriteEffect DEF Active
<1>3. CASE CompleteJob(r, j)
  <2> DEFINE s == IF CancelSeen(r, j) THEN "completed_after_cancel" ELSE "completed"
             x == [job[j] EXCEPT !.status = s, !.result = TRUE]
  <2>1. job' = [job EXCEPT ![j] = x] /\ admission' = admission
    BY <1>3 DEF CompleteJob, requestVars
  <2>2. s \in {"completed_after_cancel", "completed"} /\ job[j].turn \in Turns
    BY <1>0, <1>3 DEF CompleteJob, At
  <2> HIDE DEF s
  <2>3. x \in Job /\ x.turn = job[j].turn /\ x.status = s
    BY <1>0, <2>2, JobRewritten DEF Finished
  <2> HIDE DEF x
  <2>4. QED BY <2>1, <2>2, <2>3, RewriteEffect DEF Active
<1>4. CASE FailJob(r, j)
  <2> DEFINE x == [job[j] EXCEPT !.status = "failed", !.error = TRUE]
  <2>1. job' = [job EXCEPT ![j] = x] \/ job' = job
    BY <1>4 DEF FailJob
  <2>2. admission' = admission /\ job[j].turn \in Turns
    BY <1>0, <1>4 DEF FailJob, At, requestVars
  <2>3. x \in Job /\ x.turn = job[j].turn /\ x.status = "failed"
    BY <1>0, JobRewritten DEF Finished, Retryable
  <2> HIDE DEF x
  <2>4. QED BY <2>1, <2>2, <2>3, RewriteEffect, NoJobEffect DEF Active
<1>5. CASE ClaimLease(r, j) \/ RefuseJob(r, j) \/ DropJob(r, j)
  BY <1>5, NoJobEffect DEF ClaimLease, RefuseJob, DropJob, requestVars
<1>6. CASE OnlyWorker
  BY <1>6, NoJobEffect DEF OnlyWorker, requestVars
<1>7. CASE ExecuteCall(r, j)
  BY <1>7, NoJobEffect DEF ExecuteCall, requestVars
<1>8. QED
  BY <1>1, <1>2, <1>3, <1>4, <1>5, <1>6, <1>7
  DEF WorkerStep, LoadTurn, BeginTurnRun, ResumeTurnRun, ReconcileCall, StopAtBoundary,
      ProceedAtBoundary, ProposeCall, FinishTurn, GiveUpTurn, ProducerFails, AskOrDeny,
      DispatchCall, CommitReceipt, SettleAmbiguous, FailTurn

\* Starts, crashes and recovery, which closes the records it finds.
LEMMA RecoveryJobs ==
  ASSUME IInv, NEW r \in Runners, Recovery(r)
  PROVE  JobEffect
<1>1. ASSUME NEW j \in Jobs, RecoverySkip(r, j) \/ RecoveryClaim(r, j) PROVE JobEffect
  BY <1>1, NoJobEffect DEF RecoverySkip, RecoveryClaim, requestVars
<1>2. ASSUME NEW j \in Jobs, RecoveryWrite(r, j) PROVE JobEffect
  <2> DEFINE seen == worker[r][j].seen
  <2>1. seen \in Job /\ seen.turn \in Turns
    BY <1>2 DEF RecoveryWrite, IInv, WorkersOK, WorkOK, Worker, SeenSteps
  <2>2. admission' = admission
    BY <1>2 DEF RecoveryWrite, requestVars
  <2>3. PICK x : /\ job' = job \/ job' = [job EXCEPT ![j] = x]
                 /\ x \in {[seen EXCEPT !.status = "cancelled"],
                           [seen EXCEPT !.status = "failed", !.error = TRUE],
                           [seen EXCEPT !.status = "interrupted", !.error = TRUE]}
    BY <1>2 DEF RecoveryWrite
  <2> HIDE DEF seen
  <2>4. /\ x \in Job /\ x.turn \in Turns
        /\ x.status \in {"cancelled", "failed", "interrupted"}
    <3>1. CASE x = [seen EXCEPT !.status = "cancelled"]
      BY <2>1, <3>1 DEF Job, Finished, Retryable
    <3>2. CASE x = [seen EXCEPT !.status = "failed", !.error = TRUE]
      BY <2>1, <3>2 DEF Job, Finished, Retryable
    <3>3. CASE x = [seen EXCEPT !.status = "interrupted", !.error = TRUE]
      BY <2>1, <3>3 DEF Job, Finished, Retryable
    <3>4. QED BY <2>3, <3>1, <3>2, <3>3
  <2>5. QED BY <2>2, <2>3, <2>4, RewriteEffect, NoJobEffect DEF Active
<1>3. CASE RecoverOrphans(r)
  BY <1>3, NoJobEffect DEF RecoverOrphans, JobEffect
<1>4. ASSUME NEW t \in Turns, CloseOrphan(r, t) PROVE JobEffect
  BY <1>4, NoJobEffect DEF CloseOrphan, requestVars
<1>5. CASE OrphansClosed(r)
  BY <1>5 DEF OrphansClosed, NoAdmission, JobEffect
<1>6. QED BY <1>1, <1>2, <1>3, <1>4, <1>5 DEF Recovery

\* Every step of the system changes the jobs in one of the allowed ways.
LEMMA NextJobs == IInv /\ [Next]_vars => JobEffect
<1> SUFFICES ASSUME IInv, [Next]_vars PROVE JobEffect
  OBVIOUS
<1>1. ASSUME NEW r \in Runners, NEW mode, Boot(r, mode) PROVE JobEffect
  BY <1>1, NoJobEffect DEF Boot, requestVars
<1>2. ASSUME NEW r \in Runners, Crash(r) PROVE JobEffect
  BY <1>2 DEF Crash, NoAdmission, JobEffect
<1>3. ASSUME NEW r \in Runners, Shutdown(r) PROVE JobEffect
  BY <1>3, NoJobEffect DEF Shutdown, requestVars
<1>4. CASE ExternalEdit
  BY <1>4, NoJobEffect DEF ExternalEdit, requestVars
<1>5. CASE UNCHANGED vars
  BY <1>5, NoJobEffect DEF vars
<1>6. QED
  BY <1>1, <1>2, <1>3, <1>4, <1>5, RequestJobs, WorkerJobs, RecoveryJobs DEF Next

-----------------------------------------------------------------------------
\* The ways a step can change the turns: one record is begun, or rewritten by a
\* method that accepts it; or the project revision moves on.

Method(t, u) ==
  \/ u = t
  \/ \E target \in TurnStatuses : CanUpdate(t, target) /\ u = Update(t, target)
  \/ CanInterruptActive(t) /\ u = InterruptActive(t)
  \/ CanCancel(t) /\ u = Cancel(t)
  \/ CanResume(t) /\ u = Resume(t)
  \/ \E c \in Calls :
       \/ CanAppendToolRun(t, c) /\ u = AppendToolRun(t, c, revision)
       \/ \E target \in ToolStatuses :
            CanUpdateToolRun(t, c, target, TRUE) /\ u = UpdateToolRun(t, c, target, TRUE)
       \/ CanBeginDispatch(t, c) /\ u = BeginDispatch(t, c)
       \/ CanRequestApproval(t, c) /\ u = RequestApproval(t, c)
       \/ CanApprove(t, c, t.tool[c].base, revision) /\ u = Approve(t, c)
       \/ CanResolveApproval(t, c, t.tool[c].base) /\ u = Deny(t, c, TRUE)

Begins(t, u) ==
  /\ turn[t].status = "absent"
  /\ UnclosedTurns = {}
  /\ u = QueuedTurn \/ \E c \in Calls : u = BeginWithTool(c, revision)

TurnWrite(t, u) ==
  /\ SetTurn(t, u)
  /\ Begins(t, u) \/ Method(turn[t], u)

TurnEffect ==
  \/ turn' = turn /\ (revision' = revision \/ (revision < MaxRevision /\ revision' = revision + 1))
  \/ revision' = revision /\ \E t \in Turns : \E u : TurnWrite(t, u)

\* Every method of the store keeps TurnInv.
LEMMA MethodInv ==
  ASSUME NEW t, NEW u, TurnInv(t), revision \in Nat, Method(t, u)
  PROVE  TurnInv(u)
<1>1. CASE \E target \in TurnStatuses : CanUpdate(t, target) /\ u = Update(t, target)
  BY <1>1, UpdateInv
<1>2. CASE CanInterruptActive(t) /\ u = InterruptActive(t)
  BY <1>2, InterruptInv
<1>3. CASE CanCancel(t) /\ u = Cancel(t)
  BY <1>3, CancelInv
<1>4. CASE CanResume(t) /\ u = Resume(t)
  BY <1>4, ResumeInv
<1>5. ASSUME NEW c \in Calls, CanAppendToolRun(t, c), u = AppendToolRun(t, c, revision)
      PROVE  TurnInv(u)
  BY <1>5, AppendInv
<1>6. ASSUME NEW c \in Calls, NEW target \in ToolStatuses,
             CanUpdateToolRun(t, c, target, TRUE), u = UpdateToolRun(t, c, target, TRUE)
      PROVE  TurnInv(u)
  BY <1>6, UpdateToolInv
<1>7. ASSUME NEW c \in Calls, CanBeginDispatch(t, c), u = BeginDispatch(t, c)
      PROVE  TurnInv(u)
  BY <1>7, BeginDispatchInv
<1>8. ASSUME NEW c \in Calls, CanRequestApproval(t, c), u = RequestApproval(t, c)
      PROVE  TurnInv(u)
  BY <1>8, RequestApprovalInv
<1>9. ASSUME NEW c \in Calls, CanApprove(t, c, t.tool[c].base, revision), u = Approve(t, c)
      PROVE  TurnInv(u)
  BY <1>9, ApproveInv DEF CanApprove
<1>10. ASSUME NEW c \in Calls, CanResolveApproval(t, c, t.tool[c].base), u = Deny(t, c, TRUE)
       PROVE  TurnInv(u)
  BY <1>10, DenyInv
<1>11. QED BY <1>1, <1>2, <1>3, <1>4, <1>5, <1>6, <1>7, <1>8, <1>9, <1>10 DEF Method

\* TurnInv speaks of constants alone, so it is the same before and after a step.
LEMMA TurnEffectKeeps ==
  ASSUME TurnsOK, RestOK, TurnEffect
  PROVE  TurnsOK'
<1>1. CASE turn' = turn
  BY <1>1 DEF TurnsOK
<1>2. ASSUME NEW t \in Turns, NEW u, TurnWrite(t, u) PROVE TurnsOK'
  <2>1. revision \in Nat
    BY BoundAssumption DEF RestOK
  <2>2. TurnInv(u)
    BY <1>2, <2>1, NewTurnInv, MethodInv DEF TurnWrite, Begins, TurnsOK
  <2>3. u \in Turn
    BY <2>2 DEF TurnInv
  <2>4. turn' \in [Turns -> Turn] /\ \A v \in Turns : turn'[v] = IF v = t THEN u ELSE turn[v]
    BY <1>2, <2>3 DEF TurnWrite, SetTurn, TurnsOK
  <2>5. QED BY <2>2, <2>4 DEF TurnsOK
<1>3. QED BY <1>1, <1>2 DEF TurnEffect

\* A step that leaves the turns and the project alone.
LEMMA NoTurnEffect == UNCHANGED <<turn, revision>> => TurnEffect
BY DEF TurnEffect

\* A step that rewrites one record by a method.
LEMMA MethodEffect ==
  ASSUME NEW t \in Turns, NEW u, SetTurn(t, u), Method(turn[t], u), revision' = revision
  PROVE  TurnEffect
BY DEF TurnEffect, TurnWrite

\* Cancelling, interrupting and closing an orphan are methods, or do nothing.
LEMMA ClosingMethods ==
  ASSUME TurnsOK, NEW t \in Turns
  PROVE  /\ Method(turn[t], TurnCancelled(t))
         /\ Method(turn[t], TurnInterrupted(t))
         /\ Method(turn[t], OrphanClosed(t))
<1>1. TurnInv(turn[t])
  BY DEF TurnsOK
<1>2. Method(turn[t], TurnCancelled(t))
  BY DEF TurnCancelled, Method
<1>3. Method(turn[t], TurnInterrupted(t))
  BY DEF TurnInterrupted, Method, TurnStatuses, TerminalTurns
<1>4. Method(turn[t], OrphanClosed(t))
  BY <1>1, ClosableInv DEF OrphanClosed, Method, OpenTurns
<1>5. QED BY <1>2, <1>3, <1>4

\* A worker's write through the store.
LEMMA WorkerWriteEffect ==
  ASSUME NEW r, NEW j, job[j].turn \in Turns, NEW accepted, NEW record, NEW pc,
         WriteOrRaise(r, j, accepted, record, pc),
         accepted => Method(turn[job[j].turn], record),
         revision' = revision
  PROVE  TurnEffect
BY MethodEffect, NoTurnEffect DEF WriteOrRaise

\* The worker threads.
LEMMA WorkerTurns ==
  ASSUME IInv, NEW r \in Runners, NEW j \in Jobs, WorkerStep(r, j)
  PROVE  TurnEffect
<1> DEFINE t == job[j].turn
           c == worker[r][j].call
<1>0. /\ worker[r][j].pc # "idle" => t \in Turns
      /\ worker[r][j].pc \in CallSteps => c \in Calls
  BY DEF IInv, JobsOK, WorkersOK, WorkOK
<1> USE DEF OnlyWorker, projectVars
<1>1. CASE ClaimLease(r, j) \/ StartJob(r, j) \/ CloseJob(r, j) \/ DropJob(r, j)
           \/ LoadTurn(r, j) \/ ProceedAtBoundary(r, j) \/ ProducerFails(r, j)
           \/ CompleteJob(r, j) \/ FailJob(r, j)
  BY <1>1, NoTurnEffect DEF ClaimLease, StartJob, CloseJob, DropJob, LoadTurn,
     ProceedAtBoundary, ProducerFails, CompleteJob, FailJob
<1>2. CASE RefuseJob(r, j)
  BY <1>0, <1>2, ClosingMethods, MethodEffect DEF RefuseJob, At, IInv
<1>3. CASE BeginTurnRun(r, j)
  BY <1>0, <1>3, WorkerWriteEffect DEF BeginTurnRun, At, Method, TurnStatuses, OpenTurns
<1>4. CASE ResumeTurnRun(r, j)
  BY <1>0, <1>4, WorkerWriteEffect DEF ResumeTurnRun, At, Method
<1>5. CASE ReconcileCall(r, j)
  <2>1. t \in Turns /\ c \in Calls
    BY <1>0, <1>5 DEF ReconcileCall, At, CallSteps
  <2>2. CanUpdateToolRun(turn[t], c, "completed", TRUE)
          => Method(turn[t], UpdateToolRun(turn[t], c, "completed", TRUE))
    BY <2>1 DEF Method, ToolStatuses, TerminalTools
  <2>3. QED BY <1>5, <2>1, <2>2, WorkerWriteEffect, NoTurnEffect DEF ReconcileCall
<1>6. CASE StopAtBoundary(r, j)
  BY <1>0, <1>6, WorkerWriteEffect DEF StopAtBoundary, At, Method
<1>7. CASE ProposeCall(r, j)
  <2>1. t \in Turns
    BY <1>0, <1>7 DEF ProposeCall, At
  <2>2. PICK d \in Proposable(t) :
          \/ CanAppendToolRun(turn[t], d) /\ SetTurn(t, AppendToolRun(turn[t], d, revision))
          \/ UNCHANGED turn
    BY <1>7 DEF ProposeCall
  <2>3. d \in Calls
    BY <2>2 DEF Proposable
  <2>4. revision' = revision
    BY <1>7 DEF ProposeCall
  <2>5. QED BY <2>1, <2>2, <2>3, <2>4, MethodEffect, NoTurnEffect DEF Method
<1>8. CASE FinishTurn(r, j) \/ GiveUpTurn(r, j) \/ FailTurn(r, j)
  BY <1>0, <1>8, WorkerWriteEffect
  DEF FinishTurn, GiveUpTurn, FailTurn, At, Method, TurnStatuses, TerminalTurns
<1>9. CASE AskOrDeny(r, j)
  <2>1. t \in Turns /\ c \in Calls
    BY <1>0, <1>9 DEF AskOrDeny, At, CallSteps
  <2>2. /\ CanCancel(turn[t]) => Method(turn[t], Cancel(turn[t]))
        /\ CanRequestApproval(turn[t], c) => Method(turn[t], RequestApproval(turn[t], c))
    BY <2>1 DEF Method
  <2>3. QED BY <1>9, <2>1, <2>2, WorkerWriteEffect DEF AskOrDeny
<1>10. CASE DispatchCall(r, j)
  <2>1. t \in Turns /\ c \in Calls /\ revision' = revision
    BY <1>0, <1>10 DEF DispatchCall, At, CallSteps
  <2>2. \/ CanUpdateToolRun(turn[t], c, "running", TRUE)
           /\ SetTurn(t, UpdateToolRun(turn[t], c, "running", TRUE))
        \/ CanBeginDispatch(turn[t], c) /\ SetTurn(t, BeginDispatch(turn[t], c))
        \/ UNCHANGED turn
    BY <1>10 DEF DispatchCall
  <2>3. QED BY <2>1, <2>2, MethodEffect, NoTurnEffect DEF Method, ToolStatuses, ActiveTools
<1>11. CASE ExecuteCall(r, j)
  BY <1>11 DEF ExecuteCall, TurnEffect
<1>12. CASE CommitReceipt(r, j)
  <2>1. t \in Turns /\ c \in Calls
    BY <1>0, <1>12 DEF CommitReceipt, At, CallSteps
  <2>2. CanUpdateToolRun(turn[t], c, "completed", TRUE)
          => Method(turn[t], UpdateToolRun(turn[t], c, "completed", TRUE))
    BY <2>1 DEF Method, ToolStatuses, TerminalTools
  <2>3. QED BY <1>12, <2>1, <2>2, WorkerWriteEffect DEF CommitReceipt
<1>13. CASE SettleAmbiguous(r, j)
  <2>1. t \in Turns /\ c \in Calls
    BY <1>0, <1>13 DEF SettleAmbiguous, At, CallSteps
  <2>2. \A target \in {"completed", "interrupted"} :
          CanUpdateToolRun(turn[t], c, target, TRUE)
            => Method(turn[t], UpdateToolRun(turn[t], c, target, TRUE))
    BY <2>1 DEF Method, ToolStatuses, TerminalTools
  <2>3. QED BY <1>13, <2>1, <2>2, WorkerWriteEffect DEF SettleAmbiguous
<1>14. QED
  BY <1>1, <1>2, <1>3, <1>4, <1>5, <1>6, <1>7, <1>8, <1>9, <1>10, <1>11, <1>12, <1>13
  DEF WorkerStep

\* The request threads and recovery.
LEMMA RequestTurns ==
  ASSUME IInv, NEW r \in Runners, Request(r) \/ RequestStep(r) \/ Recovery(r)
  PROVE  TurnEffect
<1> USE DEF projectVars, requestVars
<1>1. ASSUME NEW t \in Turns, Submit(r, t) PROVE TurnEffect
  BY <1>1 DEF Submit, BeginTurn, TurnEffect, TurnWrite, Begins
<1>2. ASSUME NEW t \in Turns, NEW c \in Calls, SubmitMcpTool(r, t, c) PROVE TurnEffect
  BY <1>2 DEF SubmitMcpTool, BeginTurn, TurnEffect, TurnWrite, Begins
<1>3. ASSUME NEW t \in Turns, NEW c \in Calls, DenyCheckpoint(r, t, c) PROVE TurnEffect
  BY <1>3, MethodEffect DEF DenyCheckpoint, Method
<1>4. CASE ApproveCheckpoint(r)
  BY <1>4, MethodEffect, NoTurnEffect DEF ApproveCheckpoint, Method, IInv, RequestsOK
<1>5. ASSUME NEW j \in Jobs, CancelTurnOfJob(r, j) PROVE TurnEffect
  <2>1. job[j].turn \in Turns
    BY <1>5 DEF CancelTurnOfJob, IInv, RequestsOK, JobsOK
  <2>2. QED BY <1>5, <2>1, ClosingMethods, MethodEffect DEF CancelTurnOfJob, IInv
<1>6. ASSUME NEW j \in Jobs, RecoveryClaim(r, j) PROVE TurnEffect
  <2>1. job[j].turn \in Turns /\ revision' = revision
    BY <1>6 DEF RecoveryClaim, IInv, JobsOK, Exists, Active
  <2>2. \/ SetTurn(job[j].turn, TurnCancelled(job[j].turn))
        \/ SetTurn(job[j].turn, TurnInterrupted(job[j].turn))
        \/ UNCHANGED turn
    BY <1>6 DEF RecoveryClaim
  <2>3. QED BY <2>1, <2>2, ClosingMethods, MethodEffect, NoTurnEffect DEF IInv
<1>7. ASSUME NEW t \in Turns, CloseOrphan(r, t) PROVE TurnEffect
  BY <1>7, ClosingMethods, MethodEffect DEF CloseOrphan, IInv
<1>8. CASE UNCHANGED <<turn, revision>>
  BY <1>8, NoTurnEffect
<1>9. QED
  BY <1>1, <1>2, <1>3, <1>4, <1>5, <1>6, <1>7, <1>8
  DEF Request, RequestStep, Recovery, CreateContinuation, Retry, CancelRequest, CreateJob,
      CancelSignal, CancelClose, FailContinuation, RecoverySkip, RecoveryWrite,
      RecoverOrphans, OrphansClosed

\* Every step of the system changes the turns in one of the allowed ways.
LEMMA NextTurns == IInv /\ [Next]_vars => TurnEffect
<1> SUFFICES ASSUME IInv, [Next]_vars PROVE TurnEffect
  OBVIOUS
<1> USE DEF projectVars, requestVars
<1>1. ASSUME NEW r \in Runners, NEW mode, Boot(r, mode) PROVE TurnEffect
  BY <1>1, NoTurnEffect DEF Boot
<1>2. ASSUME NEW r \in Runners, Crash(r) \/ Shutdown(r) PROVE TurnEffect
  BY <1>2, NoTurnEffect DEF Crash, Shutdown
<1>3. CASE ExternalEdit
  BY <1>3 DEF ExternalEdit, TurnEffect
<1>4. CASE UNCHANGED vars
  BY <1>4, NoTurnEffect DEF vars
<1>5. QED BY <1>1, <1>2, <1>3, <1>4, RequestTurns, WorkerTurns DEF Next

-----------------------------------------------------------------------------
\* The workers.

Kept == \A j \in Jobs : Exists(j) => Exists(j)'

LEMMA SameWorkers ==
  ASSUME WorkersOK, Kept, worker' = worker
  PROVE  WorkersOK'
BY DEF WorkersOK, Kept, Exists, WorkOK

\* One worker moves on to a step whose call or record it has.
LEMMA WorkerMoves ==
  ASSUME WorkersOK, Kept, NEW r \in Runners, NEW j \in Jobs, NEW w,
         worker' = [worker EXCEPT ![r][j] = w],
         WorkOK(w), w.pc = "idle" \/ Exists(j)'
  PROVE  WorkersOK'
<1>1. \A q \in Runners, i \in Jobs :
        worker'[q][i] = IF q = r /\ i = j THEN w ELSE worker[q][i]
  BY DEF WorkersOK
<1>2. worker' \in [Runners -> [Jobs -> Worker]]
  BY DEF WorkersOK, WorkOK
<1>3. \A q \in Runners, i \in Jobs :
        WorkOK(worker'[q][i]) /\ (worker'[q][i].pc # "idle" => Exists(i)')
  BY <1>1 DEF WorkersOK, Kept
<1>4. QED BY <1>2, <1>3 DEF WorkersOK, WorkOK

\* The three ways to move on.
LEMMA NoJobTyped == NoJob \in Job /\ IdleWorker.pc = "idle" /\ WorkOK(IdleWorker)
BY DEF NoJob, Job, Origins, IdleWorker, WorkOK, Worker, WorkerSteps, CallSteps, SeenSteps,
       ClosingSteps, RecoverySteps

LEMMA GotoMoves ==
  ASSUME WorkersOK, Kept, NEW r \in Runners, NEW j \in Jobs,
         NEW pc \in WorkerSteps \ (CallSteps \cup SeenSteps),
         Goto(r, j, pc), pc = "idle" \/ Exists(j)'
  PROVE  WorkersOK'
<1> DEFINE w == [IdleWorker EXCEPT !.pc = pc]
<1>1. w = [pc |-> pc, call |-> None, seen |-> NoJob]
  BY DEF IdleWorker
<1>2. WorkOK(w) /\ w.pc = pc
  BY <1>1, NoJobTyped DEF WorkOK, Worker
<1>3. worker' = [worker EXCEPT ![r][j] = w]
  BY DEF Goto
<1> HIDE DEF w
<1>4. QED BY <1>2, <1>3, WorkerMoves

LEMMA GotoCallMoves ==
  ASSUME WorkersOK, Kept, NEW r \in Runners, NEW j \in Jobs,
         NEW pc \in WorkerSteps \ SeenSteps, NEW c \in Calls,
         GotoCall(r, j, pc, c), Exists(j)'
  PROVE  WorkersOK'
<1> DEFINE w == [IdleWorker EXCEPT !.pc = pc, !.call = c]
<1>1. w \in Worker /\ w.pc = pc /\ w.call = c
  BY NoJobTyped DEF WorkOK, Worker
<1>2. WorkOK(w)
  BY <1>1 DEF WorkOK
<1>3. worker' = [worker EXCEPT ![r][j] = w]
  BY DEF GotoCall
<1> HIDE DEF w
<1>4. QED BY <1>2, <1>3, WorkerMoves

LEMMA GotoSeenMoves ==
  ASSUME WorkersOK, Kept, JobsOK, NEW r \in Runners, NEW j \in Jobs,
         NEW pc \in SeenSteps, GotoSeen(r, j, pc), Exists(j)
  PROVE  WorkersOK'
<1> DEFINE w == [IdleWorker EXCEPT !.pc = pc, !.seen = job[j]]
<1>0. pc \in WorkerSteps \ CallSteps
  BY DEF WorkerSteps, SeenSteps, CallSteps, ClosingSteps, RecoverySteps
<1>1. w \in Worker /\ w.pc = pc /\ w.seen = job[j]
  BY <1>0, NoJobTyped DEF WorkOK, Worker, JobsOK
<1>2. WorkOK(w)
  BY <1>0, <1>1 DEF WorkOK, JobsOK
<1>3. worker' = [worker EXCEPT ![r][j] = w]
  BY DEF GotoSeen
<1>4. Exists(j)'
  BY DEF Kept
<1> HIDE DEF w
<1>5. QED BY <1>1, <1>2, <1>3, <1>4, WorkerMoves

\* A job that is scheduled waits in the pool, or nothing happens.
LEMMA ScheduleMoves ==
  ASSUME WorkersOK, Kept, NEW r \in Runners, NEW j \in Jobs, Schedule(r, j), Exists(j)'
  PROVE  WorkersOK'
<1>1. "pending" \in WorkerSteps \ (CallSteps \cup SeenSteps)
  BY DEF WorkerSteps, CallSteps, SeenSteps, ClosingSteps, RecoverySteps
<1>2. QED BY <1>1, GotoMoves, SameWorkers DEF Schedule

\* A worker that writes through the store goes on or raises.
LEMMA WriteMoves ==
  ASSUME WorkersOK, Kept, NEW r \in Runners, NEW j \in Jobs, NEW accepted, NEW record,
         NEW pc \in {"check", "return", "raise", "failTurn"},
         WriteOrRaise(r, j, accepted, record, pc), Exists(j)'
  PROVE  WorkersOK'
<1>1. \A p \in {"check", "return", "raise", "failTurn"} :
        p \in WorkerSteps \ (CallSteps \cup SeenSteps)
  BY DEF WorkerSteps, TurnSteps, CallSteps, SeenSteps, ClosingSteps, RecoverySteps
<1>2. Goto(r, j, pc) \/ Goto(r, j, "raise")
  BY DEF WriteOrRaise
<1>3. QED BY <1>1, <1>2, GotoMoves

\* The steps of a worker.
LEMMA WorkerWorkers ==
  ASSUME IInv, Kept, NEW r \in Runners, NEW j \in Jobs, WorkerStep(r, j)
  PROVE  WorkersOK'
<1> DEFINE t == job[j].turn
           c == worker[r][j].call
           Plain == {"idle", "pending", "leased", "return", "raise", "load", "begin", "resume",
                     "check", "think", "failTurn"}
<1>0. /\ worker[r][j].pc # "idle" => Exists(j) /\ Exists(j)'
      /\ worker[r][j].pc \in CallSteps => c \in Calls
      /\ WorkersOK /\ JobsOK
  BY DEF IInv, WorkersOK, WorkOK, Kept
<1>a. \A p \in Plain : p \in WorkerSteps \ (CallSteps \cup SeenSteps)
  BY DEF WorkerSteps, TurnSteps, CallSteps, SeenSteps, ClosingSteps, RecoverySteps
<1>b. \A p \in CallSteps : p \in WorkerSteps \ SeenSteps
  BY DEF WorkerSteps, TurnSteps, CallSteps, SeenSteps, ClosingSteps, RecoverySteps
<1>1. CASE ClaimLease(r, j) \/ StartJob(r, j) \/ CloseJob(r, j) \/ DropJob(r, j)
           \/ CompleteJob(r, j) \/ FailJob(r, j)
  <2>1. \E p \in {"leased", "load", "idle"} : Goto(r, j, p)
    BY <1>1 DEF ClaimLease, StartJob, CloseJob, DropJob, CompleteJob, FailJob, Leave
  <2>2. worker[r][j].pc # "idle"
    BY <1>1 DEF ClaimLease, StartJob, CloseJob, DropJob, CompleteJob, FailJob, At,
                ClosingSteps
  <2>3. QED BY <1>0, <1>a, <2>1, <2>2, GotoMoves
<1>2. CASE RefuseJob(r, j)
  <2>1. \E p \in ClosingSteps : GotoSeen(r, j, p)
    BY <1>2 DEF RefuseJob, ClosingSteps
  <2>2. QED BY <1>0, <1>2, <2>1, GotoSeenMoves DEF RefuseJob, At, SeenSteps
<1>3. CASE LoadTurn(r, j)
  <2>1. \/ \E p \in Plain : Goto(r, j, p)
        \/ /\ RunningCall(t) \in Calls
           /\ \E p \in {"reconcileUnmarked", "reconcileMarked"} :
                GotoCall(r, j, p, RunningCall(t))
    BY <1>3 DEF LoadTurn, RunningCall
  <2>2. QED BY <1>0, <1>3, <1>a, <1>b, <2>1, GotoMoves, GotoCallMoves
            DEF LoadTurn, At, CallSteps
<1>4. CASE BeginTurnRun(r, j) \/ ResumeTurnRun(r, j) \/ StopAtBoundary(r, j)
           \/ FinishTurn(r, j) \/ GiveUpTurn(r, j) \/ FailTurn(r, j) \/ CommitReceipt(r, j)
  <2>1. \E p \in {"check", "return", "raise"}, accepted \in BOOLEAN : \E record :
          WriteOrRaise(r, j, accepted, record, p)
    BY <1>4 DEF BeginTurnRun, ResumeTurnRun, StopAtBoundary, FinishTurn, GiveUpTurn,
                FailTurn, CommitReceipt, WriteOrRaise
  <2>2. worker[r][j].pc # "idle"
    BY <1>4 DEF BeginTurnRun, ResumeTurnRun, StopAtBoundary, FinishTurn, GiveUpTurn,
                FailTurn, CommitReceipt, At
  <2>3. QED BY <1>0, <2>1, <2>2, WriteMoves
<1>5. CASE ReconcileCall(r, j) \/ SettleAmbiguous(r, j)
  <2>1. \/ \E p \in Plain : Goto(r, j, p)
        \/ GotoCall(r, j, "ambiguous", c)
    BY <1>5 DEF ReconcileCall, SettleAmbiguous, WriteOrRaise
  <2>2. worker[r][j].pc \in CallSteps /\ worker[r][j].pc # "idle"
    BY <1>5 DEF ReconcileCall, SettleAmbiguous, At, CallSteps
  <2>3. QED BY <1>0, <1>a, <1>b, <2>1, <2>2, GotoMoves, GotoCallMoves DEF CallSteps
<1>6. CASE ProceedAtBoundary(r, j) \/ ProposeCall(r, j) \/ ProducerFails(r, j)
  <2>1. \/ \E p \in Plain : Goto(r, j, p)
        \/ \E p \in {"decide", "beginDispatch", "execute"}, d \in Calls : GotoCall(r, j, p, d)
    BY <1>6 DEF ProceedAtBoundary, LoadedStep, ProposeCall, ProducerFails, ActiveCalls, Proposable
  <2>2. worker[r][j].pc # "idle"
    BY <1>6 DEF ProceedAtBoundary, ProposeCall, ProducerFails, At
  <2>3. QED BY <1>0, <1>a, <1>b, <2>1, <2>2, GotoMoves, GotoCallMoves DEF CallSteps
<1>7. CASE AskOrDeny(r, j)
  <2>1. Goto(r, j, "return") \/ Goto(r, j, "raise")
    BY <1>7 DEF AskOrDeny, WriteOrRaise
  <2>2. QED BY <1>0, <1>7, <1>a, <2>1, GotoMoves DEF AskOrDeny, At
<1>8. CASE DispatchCall(r, j) \/ ExecuteCall(r, j)
  <2>1. \/ Goto(r, j, "raise")
        \/ \E p \in {"execute", "receipt", "ambiguous"} : GotoCall(r, j, p, c)
    BY <1>8 DEF DispatchCall, ExecuteCall
  <2>2. worker[r][j].pc \in CallSteps /\ worker[r][j].pc # "idle"
    BY <1>8 DEF DispatchCall, ExecuteCall, At, CallSteps
  <2>3. QED BY <1>0, <1>a, <1>b, <2>1, <2>2, GotoMoves, GotoCallMoves DEF CallSteps
<1>9. QED BY <1>1, <1>2, <1>3, <1>4, <1>5, <1>6, <1>7, <1>8 DEF WorkerStep

\* Requests and recovery move the worker of a job that exists, or none.
LEMMA RequestWorkers ==
  ASSUME IInv, Kept, NEW r \in Runners, Request(r) \/ RequestStep(r) \/ Recovery(r)
  PROVE  WorkersOK'
<1>0. WorkersOK /\ JobsOK /\ RequestsOK
  BY DEF IInv
<1>1. ASSUME NEW j \in Jobs, CreateJob(r, j) PROVE WorkersOK'
  <2>1. job'[j].status = "queued"
    BY <1>0, <1>1, QueuedJobTyped DEF CreateJob, JobsOK, QueuedJob, NoJob
  <2>2. QED BY <1>0, <1>1, <2>1, ScheduleMoves DEF CreateJob, Exists
<1>2. ASSUME NEW i \in Jobs, NEW j \in Jobs, Retry(r, i, j) PROVE WorkersOK'
  <2>1. job'[j].status = "queued"
    BY <1>0, <1>2 DEF Retry, JobsOK, QueuedJob, NoJob
  <2>2. QED BY <1>0, <1>2, <2>1, ScheduleMoves DEF Retry, Exists
<1>3. CASE ApproveCheckpoint(r)
  <2>1. PICK j \in Jobs : j = admission.job /\ Exists(j)
    BY <1>0, <1>3 DEF ApproveCheckpoint, RequestsOK, Exists
  <2>2. Exists(j)'
    BY <2>1 DEF Kept
  <2>3. QED BY <1>0, <1>3, <2>1, <2>2, ScheduleMoves, SameWorkers DEF ApproveCheckpoint
<1>4. ASSUME NEW j \in Jobs, RecoveryClaim(r, j) PROVE WorkersOK'
  <2>1. \E p \in RecoverySteps : GotoSeen(r, j, p)
    BY <1>4 DEF RecoveryClaim, RecoverySteps
  <2>2. Exists(j)
    BY <1>4 DEF RecoveryClaim, Exists, Active
  <2>3. QED BY <1>0, <2>1, <2>2, GotoSeenMoves DEF SeenSteps
<1>5. ASSUME NEW j \in Jobs, RecoveryWrite(r, j) PROVE WorkersOK'
  <2>1. Schedule(r, j) \/ Goto(r, j, "idle")
    BY <1>5 DEF RecoveryWrite
  <2>2. Exists(j)'
    BY <1>0, <1>5 DEF RecoveryWrite, WorkersOK, Kept, RecoverySteps
  <2>3. "idle" \in WorkerSteps \ (CallSteps \cup SeenSteps)
    BY DEF WorkerSteps, CallSteps, SeenSteps, ClosingSteps, RecoverySteps
  <2>4. QED BY <1>0, <2>1, <2>2, <2>3, ScheduleMoves, GotoMoves
<1>6. CASE worker' = worker
  BY <1>0, <1>6, SameWorkers
<1>7. QED
  BY <1>1, <1>2, <1>3, <1>4, <1>5, <1>6
  DEF Request, RequestStep, Recovery, Submit, SubmitMcpTool, BeginTurn, DenyCheckpoint,
      CreateContinuation, CancelRequest, CancelSignal, CancelTurnOfJob, CancelClose,
      FailContinuation, RecoverySkip, RecoverOrphans, CloseOrphan, OrphansClosed

\* A worker always has what its next step works on.
LEMMA NextWorkers == IInv /\ Kept /\ [Next]_vars => WorkersOK'
<1> SUFFICES ASSUME IInv, Kept, [Next]_vars PROVE WorkersOK'
  OBVIOUS
<1>0. WorkersOK
  BY DEF IInv
<1>1. ASSUME NEW r \in Runners, Crash(r) \/ Shutdown(r) PROVE WorkersOK'
  <2>1. \A q \in Runners, j \in Jobs : worker'[q][j] \in {worker[q][j], IdleWorker}
    BY <1>0, <1>1 DEF Crash, Shutdown, WorkersOK
  <2>2. worker' \in [Runners -> [Jobs -> Worker]]
    BY <1>0, <1>1, NoJobTyped DEF Crash, Shutdown, WorkersOK, WorkOK
  <2>3. \A q \in Runners, j \in Jobs :
          WorkOK(worker'[q][j]) /\ (worker'[q][j].pc # "idle" => Exists(j)')
    BY <1>0, <2>1, NoJobTyped DEF WorkersOK, Kept
  <2>4. QED BY <2>2, <2>3 DEF WorkersOK, WorkOK
<1>2. ASSUME NEW r \in Runners, NEW mode, Boot(r, mode) PROVE WorkersOK'
  BY <1>0, <1>2, SameWorkers DEF Boot
<1>3. CASE ExternalEdit \/ UNCHANGED vars
  BY <1>0, <1>3, SameWorkers DEF ExternalEdit, vars
<1>4. QED BY <1>1, <1>2, <1>3, RequestWorkers, WorkerWorkers DEF Next

-----------------------------------------------------------------------------
\* The requests and the rest.

\* A step that changes neither the cancellations nor the admission.
LEMMA SameRequests ==
  ASSUME RequestsOK, Kept, UNCHANGED <<cancelling, admission>>
  PROVE  RequestsOK'
BY DEF RequestsOK, Kept, Exists

\* A cancellation of a job that exists moves on.
LEMMA CancellingMoves ==
  ASSUME RequestsOK, Kept, NEW j \in Jobs, NEW x \in Cancelling,
         cancelling' = [cancelling EXCEPT ![j] = x], admission' = admission,
         x.step # "none" => Exists(j)
  PROVE  RequestsOK'
<1>1. \A i \in Jobs : cancelling'[i] = IF i = j THEN x ELSE cancelling[i]
  BY DEF RequestsOK
<1>2. cancelling' \in [Jobs -> Cancelling]
  BY DEF RequestsOK
<1>3. \A i \in Jobs : cancelling'[i].step # "none" => Exists(i)'
  BY <1>1 DEF RequestsOK, Kept
<1>4. QED BY <1>2, <1>3 DEF RequestsOK, Kept, Exists

\* The admission moves on.
LEMMA AdmissionMoves ==
  ASSUME RequestsOK, Kept, admission' \in Admission, cancelling' = cancelling,
         admission'.step \in {"begun", "approving", "refused"} => admission'.turn \in Turns,
         admission'.step \in {"approving", "refused"} =>
           /\ admission'.call \in Calls /\ admission'.job \in Jobs
           /\ job'[admission'.job].status # "absent"
  PROVE  RequestsOK'
BY DEF RequestsOK, Kept, Exists

LEMMA FreeTyped ==
  /\ NoAdmission \in Admission /\ NoAdmission.step = "free"
  /\ NoCancel \in Cancelling /\ NoCancel.step = "none"
BY DEF NoAdmission, Admission, NoCancel, Cancelling

LEMMA RequestRequests ==
  ASSUME IInv, Kept, NEW r \in Runners, Request(r) \/ RequestStep(r)
  PROVE  RequestsOK'
<1>0. RequestsOK /\ JobsOK
  BY DEF IInv
<1>1. ASSUME NEW t \in Turns, NEW record, BeginTurn(r, t, record) PROVE RequestsOK'
  <2>1. admission' = [NoAdmission EXCEPT !.by = r, !.step = "begun", !.turn = t]
    BY <1>1 DEF BeginTurn
  <2>2. admission' \in Admission /\ admission'.step = "begun" /\ admission'.turn = t
    BY <2>1 DEF NoAdmission, Admission
  <2>3. QED BY <1>0, <1>1, <2>2, AdmissionMoves DEF BeginTurn
<1>2. ASSUME NEW t \in Turns, NEW c \in Calls, NEW j \in Jobs, CreateContinuation(r, t, c, j)
      PROVE  RequestsOK'
  <2>1. admission' \in Admission /\ admission'.turn = t /\ admission'.call = c
        /\ admission'.job = j
    BY <1>2 DEF CreateContinuation, Admission
  <2>2. job'[j].status = "queued"
    BY <1>0, <1>2 DEF CreateContinuation, JobsOK, QueuedJob, NoJob
  <2>3. QED BY <1>0, <1>2, <2>1, <2>2, AdmissionMoves DEF CreateContinuation
<1>3. ASSUME NEW j \in Jobs, CancelRequest(r, j) PROVE RequestsOK'
  <2>1. PICK x \in Cancelling : cancelling' = [cancelling EXCEPT ![j] = x]
    <3> DEFINE x == [by |-> r, step |-> IF job[j].status = "queued" THEN "signalQueued" ELSE "signal"]
    <3>1. cancelling' = [cancelling EXCEPT ![j] = x]
      BY <1>3 DEF CancelRequest
    <3>2. x \in Cancelling
      BY DEF Cancelling
    <3>3. QED BY <3>1, <3>2
  <2>2. Exists(j)
    BY <1>3 DEF CancelRequest, Exists, Active
  <2>3. QED BY <1>0, <1>3, <2>1, <2>2, CancellingMoves DEF CancelRequest
<1>4. ASSUME NEW j \in Jobs, CancelSignal(r, j) PROVE RequestsOK'
  <2> DEFINE x == IF cancelling[j].step = "signal" THEN NoCancel
                  ELSE [cancelling[j] EXCEPT !.step = "turn"]
  <2>1. cancelling' = [cancelling EXCEPT ![j] = x]
    BY <1>4 DEF CancelSignal
  <2>2. x \in Cancelling
    BY <1>0, FreeTyped DEF RequestsOK, Cancelling
  <2>3. Exists(j)
    BY <1>0, <1>4 DEF CancelSignal, RequestsOK
  <2> HIDE DEF x
  <2>4. QED BY <1>0, <1>4, <2>1, <2>2, <2>3, CancellingMoves DEF CancelSignal
<1>5. ASSUME NEW j \in Jobs, CancelTurnOfJob(r, j) PROVE RequestsOK'
  <2> DEFINE x == [cancelling[j] EXCEPT !.step = "close"]
  <2>1. cancelling' = [cancelling EXCEPT ![j] = x]
    BY <1>5 DEF CancelTurnOfJob
  <2>2. x \in Cancelling
    BY <1>0 DEF RequestsOK, Cancelling
  <2>3. Exists(j)
    BY <1>0, <1>5 DEF CancelTurnOfJob, RequestsOK
  <2> HIDE DEF x
  <2>4. QED BY <1>0, <1>5, <2>1, <2>2, <2>3, CancellingMoves DEF CancelTurnOfJob
<1>6. ASSUME NEW j \in Jobs, CancelClose(r, j) PROVE RequestsOK'
  BY <1>0, <1>6, FreeTyped, CancellingMoves DEF CancelClose
<1>7. CASE ApproveCheckpoint(r)
  <2>1. CASE admission' = NoAdmission
    BY <1>0, <1>7, <2>1, FreeTyped, AdmissionMoves DEF ApproveCheckpoint
  <2>2. CASE admission' = [admission EXCEPT !.step = "refused"]
    <3>1. admission.step = "approving" /\ job' = job /\ cancelling' = cancelling
      BY <1>7 DEF ApproveCheckpoint
    <3>2. /\ admission' \in Admission /\ admission'.turn = admission.turn
          /\ admission'.call = admission.call /\ admission'.job = admission.job
      BY <1>0, <2>2 DEF RequestsOK, Admission
    <3>3. QED BY <1>0, <3>1, <3>2, AdmissionMoves DEF RequestsOK, Exists
  <2>3. QED BY <1>7, <2>1, <2>2 DEF ApproveCheckpoint
<1>8. CASE admission' = NoAdmission /\ cancelling' = cancelling
  BY <1>0, <1>8, FreeTyped, AdmissionMoves
<1>9. CASE UNCHANGED <<cancelling, admission>>
  BY <1>0, <1>9, SameRequests
<1>10. QED
  BY <1>1, <1>2, <1>3, <1>4, <1>5, <1>6, <1>7, <1>8, <1>9
  DEF Request, RequestStep, Submit, SubmitMcpTool, DenyCheckpoint, Retry, CreateJob,
      FailContinuation, requestVars

\* What a request thread goes on with is there.
LEMMA NextRequests == IInv /\ Kept /\ [Next]_vars => RequestsOK'
<1> SUFFICES ASSUME IInv, Kept, [Next]_vars PROVE RequestsOK'
  OBVIOUS
<1>0. RequestsOK
  BY DEF IInv
<1>1. ASSUME NEW r \in Runners, Crash(r) PROVE RequestsOK'
  <2>1. admission' \in {admission, NoAdmission}
    BY <1>1 DEF Crash
  <2>2. \A j \in Jobs : cancelling'[j] \in {cancelling[j], NoCancel}
    BY <1>1 DEF Crash
  <2>3. cancelling' \in [Jobs -> Cancelling]
    BY <1>0, <1>1, FreeTyped DEF Crash, RequestsOK
  <2>4. \A j \in Jobs : cancelling'[j].step # "none" => Exists(j)'
    BY <1>0, <2>2, FreeTyped DEF RequestsOK, Kept
  <2>5. job' = job
    BY <1>1 DEF Crash
  <2>6. QED BY <1>0, <2>1, <2>3, <2>4, <2>5, FreeTyped DEF RequestsOK, Exists
<1>2. ASSUME NEW r \in Runners, NEW j \in Jobs, WorkerStep(r, j) PROVE RequestsOK'
  <2>1. UNCHANGED <<cancelling, admission>>
    BY <1>2 DEF WorkerStep, ClaimLease, StartJob, RefuseJob, CloseJob, DropJob, LoadTurn,
       BeginTurnRun, ResumeTurnRun, ReconcileCall, StopAtBoundary, ProceedAtBoundary,
       ProposeCall, FinishTurn, GiveUpTurn, ProducerFails, AskOrDeny, DispatchCall,
       ExecuteCall, CommitReceipt, SettleAmbiguous, FailTurn, CompleteJob, FailJob,
       OnlyWorker, requestVars
  <2>2. QED BY <1>0, <2>1, SameRequests
<1>3. ASSUME NEW r \in Runners, RecoverOrphans(r) PROVE RequestsOK'
  <2>1. CASE admission' = [NoAdmission EXCEPT !.by = r, !.step = "orphans"]
    <3>1. admission' \in Admission /\ admission'.step = "orphans"
      BY <2>1 DEF NoAdmission, Admission
    <3>2. QED BY <1>0, <1>3, <3>1, AdmissionMoves DEF RecoverOrphans
  <2>2. QED BY <1>0, <1>3, <2>1, SameRequests DEF RecoverOrphans
<1>4. ASSUME NEW r \in Runners, OrphansClosed(r) PROVE RequestsOK'
  BY <1>0, <1>4, FreeTyped, AdmissionMoves DEF OrphansClosed
<1>5. CASE UNCHANGED <<cancelling, admission>>
  BY <1>0, <1>5, SameRequests
<1>6. QED
  BY <1>1, <1>2, <1>3, <1>4, <1>5, RequestRequests
  DEF Next, Boot, Shutdown, Recovery, RecoverySkip, RecoveryClaim, RecoveryWrite,
      CloseOrphan, ExternalEdit, vars, requestVars

\* The types of the other variables.
LEMMA NextRest == IInv /\ [Next]_vars => RestOK'
<1> SUFFICES ASSUME IInv, [Next]_vars PROVE RestOK'
  OBVIOUS
<1>0. RestOK
  BY DEF IInv
<1> USE DEF RestOK, runnerVars, projectVars
<1>1. ASSUME NEW r \in Runners, NEW mode \in Policies, Boot(r, mode) PROVE RestOK'
  BY <1>0, <1>1 DEF Boot, ActiveJobs
<1>2. ASSUME NEW r \in Runners, Crash(r) PROVE RestOK'
  BY <1>0, <1>2 DEF Crash
<1>3. ASSUME NEW r \in Runners, Shutdown(r) PROVE RestOK'
  BY <1>0, <1>3 DEF Shutdown
<1>4. ASSUME NEW r \in Runners, Recovery(r) PROVE RestOK'
  <2>1. ASSUME NEW j \in Jobs, RecoverySkip(r, j) PROVE RestOK'
    BY <1>0, <2>1 DEF RecoverySkip
  <2>2. ASSUME NEW j \in Jobs, RecoveryClaim(r, j) PROVE RestOK'
    BY <1>0, <2>2 DEF RecoveryClaim
  <2>3. ASSUME NEW j \in Jobs, RecoveryWrite(r, j) PROVE RestOK'
    BY <1>0, <2>3 DEF RecoveryWrite, Schedule
  <2>4. CASE RecoverOrphans(r)
    BY <1>0, <2>4 DEF RecoverOrphans
  <2>5. ASSUME NEW t \in Turns, CloseOrphan(r, t) PROVE RestOK'
    BY <1>0, <2>5 DEF CloseOrphan
  <2>6. CASE OrphansClosed(r)
    BY <1>0, <2>6 DEF OrphansClosed
  <2>7. QED BY <1>4, <2>1, <2>2, <2>3, <2>4, <2>5, <2>6 DEF Recovery
<1>5. ASSUME NEW r \in Runners, Request(r) \/ RequestStep(r) PROVE RestOK'
  <2>1. ASSUME NEW j \in Jobs, Schedule(r, j), UNCHANGED <<revision, applied, runner, policy, todo, lease>>
        PROVE  RestOK'
    BY <1>0, <2>1 DEF Schedule
  <2>2. CASE UNCHANGED <<revision, applied, runner, policy, todo, lease, cancelSet>>
    BY <1>0, <2>2
  <2>3. ASSUME NEW j \in Jobs, CancelSignal(r, j) PROVE RestOK'
    BY <1>0, <2>3 DEF CancelSignal
  <2>4. CASE ApproveCheckpoint(r)
    BY <2>1, <2>2, <2>4 DEF ApproveCheckpoint, IInv, RequestsOK
  <2>5. QED
    BY <1>5, <2>1, <2>2, <2>3, <2>4
    DEF Request, RequestStep, Submit, SubmitMcpTool, BeginTurn, DenyCheckpoint,
        CreateContinuation, Retry, CancelRequest, CreateJob, CancelTurnOfJob, CancelClose,
        FailContinuation
<1>6. ASSUME NEW r \in Runners, NEW j \in Jobs, WorkerStep(r, j) PROVE RestOK'
  <2>1. CASE ClaimLease(r, j)
    BY <1>0, <2>1 DEF ClaimLease
  <2>2. CASE CloseJob(r, j) \/ DropJob(r, j) \/ CompleteJob(r, j) \/ FailJob(r, j)
    BY <1>0, <2>2 DEF CloseJob, DropJob, CompleteJob, FailJob, Leave
  <2>3. CASE ExecuteCall(r, j)
    <3>1. revision' \in 0..MaxRevision
      BY <1>0, <2>3, BoundAssumption DEF ExecuteCall
    <3>2. \/ applied' = applied
          \/ /\ revision < MaxRevision
             /\ applied' = [applied EXCEPT ![job[j].turn][worker[r][j].call] = revision + 1]
      BY <2>3 DEF ExecuteCall
    <3>3. revision < MaxRevision => revision + 1 \in 0..MaxRevision
      BY <1>0, BoundAssumption
    <3>4. job[j].turn \in Turns /\ worker[r][j].call \in Calls
      BY <2>3 DEF ExecuteCall, At, IInv, JobsOK, WorkersOK, WorkOK, CallSteps
    <3>5. applied' \in [Turns -> [Calls -> 0..MaxRevision]]
      <4> DEFINE t == job[j].turn
                 c == worker[r][j].call
                 rev == revision + 1
      <4>1. applied \in [Turns -> [Calls -> 0..MaxRevision]] /\ t \in Turns /\ c \in Calls
        BY <1>0, <3>4
      <4>2. applied' = applied \/ (rev \in 0..MaxRevision /\ applied' = [applied EXCEPT ![t][c] = rev])
        BY <3>2, <3>3
      <4> HIDE DEF t, c, rev, RestOK
      <4>3. QED BY <4>1, <4>2
    <3>6. QED BY <1>0, <2>3, <3>1, <3>5 DEF ExecuteCall
  <2>4. CASE UNCHANGED <<revision, applied, runner, policy, todo, lease, cancelSet>>
    BY <1>0, <2>4
  <2>5. QED
    BY <1>6, <2>1, <2>2, <2>3, <2>4
    DEF WorkerStep, StartJob, RefuseJob, LoadTurn, BeginTurnRun, ResumeTurnRun,
        ReconcileCall, StopAtBoundary, ProceedAtBoundary, ProposeCall, FinishTurn,
        GiveUpTurn, ProducerFails, AskOrDeny, DispatchCall, CommitReceipt, SettleAmbiguous,
        FailTurn, OnlyWorker
<1>7. CASE ExternalEdit
  BY <1>0, <1>7, BoundAssumption DEF ExternalEdit
<1>8. CASE UNCHANGED vars
  BY <1>0, <1>8 DEF vars
<1>9. QED BY <1>1, <1>2, <1>3, <1>4, <1>5, <1>6, <1>7, <1>8 DEF Next

-----------------------------------------------------------------------------
\* The theorems.

\* Nothing exists in the beginning.
LEMMA InitInv == Init => IInv
<1> SUFFICES ASSUME Init PROVE IInv
  OBVIOUS
<1>1. JobsOK /\ OneActive
  BY NoJobTyped DEF Init, JobsOK, OneActive, OneActiveJob, ActiveJobs, Active, Exists, NoJob,
     NoAdmission
<1>2. WorkersOK
  BY NoJobTyped DEF Init, WorkersOK, WorkOK
<1>3. RequestsOK
  BY FreeTyped DEF Init, RequestsOK
<1>4. RestOK
  BY BoundAssumption DEF Init, RestOK
<1>5. TurnsOK
  BY NewTurnInv DEF Init, TurnsOK, TurnInv
<1>6. QED BY <1>1, <1>2, <1>3, <1>4, <1>5 DEF IInv

\* IInv is inductive.
LEMMA NextInv == IInv /\ [Next]_vars => IInv'
<1> SUFFICES ASSUME IInv, [Next]_vars PROVE IInv'
  OBVIOUS
<1>1. JobsOK' /\ OneActive' /\ Kept
  BY NextJobs, JobEffectKeeps DEF IInv, Kept
<1>2. TurnsOK'
  BY NextTurns, TurnEffectKeeps DEF IInv
<1>3. QED BY <1>1, <1>2, NextWorkers, NextRequests, NextRest DEF IInv

\* In every reachable state a thread finds the records its next step works on.
THEOREM Invariance == Spec => []IInv
BY InitInv, NextInv, PTL DEF Spec

\* The type invariant, for any processes, jobs, turns and calls.
THEOREM TypeCorrect == Spec => []TypeOK
<1>1. IInv => TypeOK
  BY DEF IInv, TypeOK, JobsOK, WorkersOK, WorkOK, Worker, RequestsOK, Cancelling, Admission,
     RestOK, TurnsOK
<1>2. QED BY <1>1, Invariance, PTL

\* A project never has two active jobs, however many processes serve it and
\* whenever they crash.
THEOREM AlwaysOneActiveJob == Spec => []OneActiveJob
<1>1. IInv => OneActiveJob
  BY DEF IInv, OneActive
<1>2. QED BY <1>1, Invariance, PTL

\* The turn store of AgentTurns computes what TurnRecords computes.
LEMMA SameStore ==
  /\ Store!AbsentTurn = AbsentTurn
  /\ Store!QueuedTurn = QueuedTurn
  /\ \A c, rev : Store!BeginWithTool(c, rev) = BeginWithTool(c, rev)
  /\ \A t, target : /\ Store!CanUpdate(t, target) <=> CanUpdate(t, target)
                    /\ Store!Update(t, target) = Update(t, target)
  /\ \A t : /\ Store!CanInterruptActive(t) <=> CanInterruptActive(t)
            /\ Store!InterruptActive(t) = InterruptActive(t)
            /\ Store!CanCancel(t) <=> CanCancel(t)
            /\ Store!Cancel(t) = Cancel(t)
            /\ Store!CanResume(t) <=> CanResume(t)
            /\ Store!Resume(t) = Resume(t)
  /\ \A t, c : /\ Store!CanAppendToolRun(t, c) <=> CanAppendToolRun(t, c)
               /\ Store!CanBeginDispatch(t, c) <=> CanBeginDispatch(t, c)
               /\ Store!BeginDispatch(t, c) = BeginDispatch(t, c)
               /\ Store!CanRequestApproval(t, c) <=> CanRequestApproval(t, c)
               /\ Store!RequestApproval(t, c) = RequestApproval(t, c)
               /\ Store!Approve(t, c) = Approve(t, c)
               /\ Store!Deny(t, c, TRUE) = Deny(t, c, TRUE)
  /\ \A t, c, x : /\ Store!AppendToolRun(t, c, x) = AppendToolRun(t, c, x)
                  /\ Store!CanUpdateToolRun(t, c, x, TRUE) <=> CanUpdateToolRun(t, c, x, TRUE)
                  /\ Store!UpdateToolRun(t, c, x, TRUE) = UpdateToolRun(t, c, x, TRUE)
                  /\ Store!CanResolveApproval(t, c, x) <=> CanResolveApproval(t, c, x)
                  /\ Store!CanApprove(t, c, x, revision) <=> CanApprove(t, c, x, revision)
<1> USE DEF Store!ActiveTools, ActiveTools, Store!TerminalTools, TerminalTools,
        Store!OpenTurns, OpenTurns, Store!TerminalTurns, TerminalTurns, Store!NoTool, NoTool, Store!Proposed, Proposed, Store!QueuedTurn, QueuedTurn,
        Store!ActiveCalls, ActiveCalls, Store!PendingCalls, PendingCalls,
        Store!ToolWellFormed, ToolWellFormed
<1>1. /\ Store!AbsentTurn = AbsentTurn
      /\ Store!QueuedTurn = QueuedTurn
      /\ \A c, rev : Store!BeginWithTool(c, rev) = BeginWithTool(c, rev)
  BY DEF Store!AbsentTurn, AbsentTurn, Store!BeginWithTool, BeginWithTool
<1>2. \A t, target : /\ Store!CanUpdate(t, target) <=> CanUpdate(t, target)
                     /\ Store!Update(t, target) = Update(t, target)
  BY DEF Store!CanUpdate, CanUpdate, Store!Update, Update, Store!TurnTransitions,
     TurnTransitions, Store!TurnWellFormed, TurnWellFormed, Store!ApprovalWellFormed,
     ApprovalWellFormed
<1>3. \A t : /\ Store!CanInterruptActive(t) <=> CanInterruptActive(t)
             /\ Store!InterruptActive(t) = InterruptActive(t)
             /\ Store!CanCancel(t) <=> CanCancel(t)
             /\ Store!Cancel(t) = Cancel(t)
             /\ Store!CanResume(t) <=> CanResume(t)
             /\ Store!Resume(t) = Resume(t)
  BY DEF Store!CanInterruptActive, CanInterruptActive, Store!InterruptActive,
     InterruptActive, Store!CanCancel, CanCancel, Store!Cancel, Cancel,
     Store!CloseForCancel, CloseForCancel, Store!CanResume, CanResume,
     Store!NonReplayable, NonReplayable, Store!Resume, Resume
<1>4. \A t, c : /\ Store!CanAppendToolRun(t, c) <=> CanAppendToolRun(t, c)
                /\ Store!CanBeginDispatch(t, c) <=> CanBeginDispatch(t, c)
                /\ Store!BeginDispatch(t, c) = BeginDispatch(t, c)
                /\ Store!CanRequestApproval(t, c) <=> CanRequestApproval(t, c)
                /\ Store!RequestApproval(t, c) = RequestApproval(t, c)
                /\ Store!Approve(t, c) = Approve(t, c)
                /\ Store!Deny(t, c, TRUE) = Deny(t, c, TRUE)
  BY DEF Store!CanAppendToolRun, CanAppendToolRun, Store!CanBeginDispatch,
     CanBeginDispatch, Store!BeginDispatch, BeginDispatch, Store!CanRequestApproval,
     CanRequestApproval, Store!RequestApproval, RequestApproval, Store!Approve, Approve,
     Store!Deny, Deny
<1>5. \A t, c, x :
        /\ Store!AppendToolRun(t, c, x) = AppendToolRun(t, c, x)
        /\ Store!CanUpdateToolRun(t, c, x, TRUE) <=> CanUpdateToolRun(t, c, x, TRUE)
        /\ Store!UpdateToolRun(t, c, x, TRUE) = UpdateToolRun(t, c, x, TRUE)
        /\ Store!CanResolveApproval(t, c, x) <=> CanResolveApproval(t, c, x)
        /\ Store!CanApprove(t, c, x, revision) <=> CanApprove(t, c, x, revision)
  BY DEF Store!AppendToolRun, AppendToolRun, Store!CanUpdateToolRun, CanUpdateToolRun,
     Store!UpdateToolRun, UpdateToolRun, Store!ToolTransitions, ToolTransitions,
     Store!CanResolveApproval, CanResolveApproval, Store!CanApprove, CanApprove
<1>6. QED BY <1>1, <1>2, <1>3, <1>4, <1>5

\* A turn is begun as the store begins it: no turn of the thread is open.
LEMMA BeginFollows ==
  ASSUME RestOK, NEW t \in Turns, NEW u, SetTurn(t, u), Begins(t, u), revision' = revision
  PROVE  Store!Next
<1>1. Store!ThreadIsFree(t)
  BY DEF Begins, UnclosedTurns, OpenTurns, Store!ThreadIsFree, Store!OpenTurns
<1>2. Store!Write(t, u)
  BY DEF SetTurn, Store!Write
<1>3. CASE u = QueuedTurn
  <2>1. Store!Begin(t)
    BY <1>1, <1>2, <1>3, SameStore DEF Begins, Store!Begin
  <2>2. QED BY <2>1 DEF Store!Next, Store!TurnStep
<1>4. ASSUME NEW c \in Calls, u = BeginWithTool(c, revision) PROVE Store!Next
  <2>1. revision \in 0..revision
    BY BoundAssumption DEF RestOK
  <2>2. Store!BeginCallTurn(t, c)
    BY <1>1, <1>2, <1>4, <2>1, SameStore DEF Begins, Store!BeginCallTurn
  <2>3. QED BY <2>2 DEF Store!Next, Store!CallStep
<1>5. QED BY <1>3, <1>4 DEF Begins

\* Every other method is called when the store accepts it.
LEMMA MethodFollows ==
  ASSUME RestOK, NEW t \in Turns, NEW u, SetTurn(t, u), Method(turn[t], u), u # turn[t],
         revision' = revision
  PROVE  Store!Next
<1>1. Store!Write(t, u)
  BY DEF SetTurn, Store!Write
<1> SUFFICES Store!TurnStep(t) \/ \E c \in Calls : Store!CallStep(t, c)
  BY DEF Store!Next
<1>2. CASE \E target \in TurnStatuses :
             CanUpdate(turn[t], target) /\ u = Update(turn[t], target)
  BY <1>1, <1>2, SameStore DEF Store!TurnStep, Store!UpdateTurn, Store!TurnStatuses,
     TurnStatuses, Store!OpenTurns, OpenTurns, Store!TerminalTurns, TerminalTurns
<1>3. CASE CanInterruptActive(turn[t]) /\ u = InterruptActive(turn[t])
  BY <1>1, <1>3, SameStore DEF Store!TurnStep, Store!Interrupt
<1>4. CASE CanCancel(turn[t]) /\ u = Cancel(turn[t])
  BY <1>1, <1>4, SameStore DEF Store!TurnStep, Store!CancelTurn
<1>5. CASE CanResume(turn[t]) /\ u = Resume(turn[t])
  BY <1>1, <1>5, SameStore DEF Store!TurnStep, Store!ResumeTurn
<1>6. ASSUME NEW c \in Calls, CanAppendToolRun(turn[t], c),
             u = AppendToolRun(turn[t], c, revision)
      PROVE  Store!CallStep(t, c)
  <2>1. revision \in 0..revision
    BY BoundAssumption DEF RestOK
  <2>2. QED BY <1>1, <1>6, <2>1, SameStore DEF Store!CallStep, Store!Append
<1>7. ASSUME NEW c \in Calls, NEW target \in ToolStatuses,
             CanUpdateToolRun(turn[t], c, target, TRUE),
             u = UpdateToolRun(turn[t], c, target, TRUE)
      PROVE  Store!CallStep(t, c)
  <2>1. Store!UpdateTool(t, c, target, TRUE)
    BY <1>1, <1>7, SameStore DEF Store!UpdateTool
  <2>2. target \in Store!ToolStatuses
    BY <1>7 DEF ToolStatuses, Store!ToolStatuses, Store!ActiveTools, ActiveTools,
       Store!TerminalTools, TerminalTools
  <2>3. QED BY <2>1, <2>2 DEF Store!CallStep
<1>8. ASSUME NEW c \in Calls, CanBeginDispatch(turn[t], c), u = BeginDispatch(turn[t], c)
      PROVE  Store!CallStep(t, c)
  BY <1>1, <1>8, SameStore DEF Store!CallStep, Store!Dispatch
<1>9. ASSUME NEW c \in Calls, CanRequestApproval(turn[t], c), u = RequestApproval(turn[t], c)
      PROVE  Store!CallStep(t, c)
  BY <1>1, <1>9, SameStore DEF Store!CallStep, Store!AskApproval
<1>10. ASSUME NEW c \in Calls, CanApprove(turn[t], c, turn[t].tool[c].base, revision),
              u = Approve(turn[t], c)
       PROVE  Store!CallStep(t, c)
  BY <1>1, <1>10, SameStore DEF Store!CallStep, Store!ApproveCall
<1>11. ASSUME NEW c \in Calls, CanResolveApproval(turn[t], c, turn[t].tool[c].base),
              u = Deny(turn[t], c, TRUE)
       PROVE  Store!CallStep(t, c)
  BY <1>1, <1>11, SameStore DEF Store!CallStep, Store!DenyCall
<1>12. QED BY <1>2, <1>3, <1>4, <1>5, <1>6, <1>7, <1>8, <1>9, <1>10, <1>11 DEF Method

\* JobRunner implements the turn store: whatever processes, workers, cancellations
\* and recoveries do to the turns, from states they read earlier and through any
\* number of crashes, is a call that AgentTurns accepts, or no change.
THEOREM ImplementsStore == Spec => TurnsFollowStore
<1>1. Init => Store!Init
  BY SameStore DEF Init, Store!Init
<1>2. IInv /\ [Next]_vars => [Store!Next]_Store!vars
  <2> SUFFICES ASSUME IInv, [Next]_vars PROVE [Store!Next]_Store!vars
    OBVIOUS
  <2>1. CASE UNCHANGED <<turn, revision>>
    BY <2>1 DEF Store!vars
  <2>2. CASE turn' = turn /\ revision < MaxRevision /\ revision' = revision + 1
    BY <2>2 DEF Store!Next, Store!AdvanceRevision
  <2>3. ASSUME NEW t \in Turns, NEW u, TurnWrite(t, u), revision' = revision
        PROVE  [Store!Next]_Store!vars
    <3>1. CASE u = turn[t]
      BY <2>3, <3>1 DEF TurnWrite, SetTurn, Store!vars, IInv, TurnsOK
    <3>2. CASE u # turn[t]
      BY <2>3, <3>2, BeginFollows, MethodFollows DEF TurnWrite, IInv
    <3>3. QED BY <3>1, <3>2
  <2>4. QED BY <2>1, <2>2, <2>3, NextTurns DEF TurnEffect
<1>3. QED BY <1>1, <1>2, Invariance, PTL DEF Spec, TurnsFollowStore, Store!Spec

-----------------------------------------------------------------------------
\* Who starts a handler.

\* No worker arrives at its handler in this step.
NoneArrives == \A r \in Runners, j \in Jobs :
                 worker'[r][j].pc = "execute" => worker'[r][j] = worker[r][j]

LEMMA MoveElsewhere ==
  ASSUME WorkersOK, NEW r \in Runners, NEW j \in Jobs, NEW w,
         worker' = [worker EXCEPT ![r][j] = w], w.pc # "execute"
  PROVE  NoneArrives
<1>1. \A q \in Runners, i \in Jobs :
        worker'[q][i] = IF q = r /\ i = j THEN w ELSE worker[q][i]
  BY DEF WorkersOK
<1>2. QED BY <1>1 DEF NoneArrives

LEMMA GotoElsewhere ==
  ASSUME WorkersOK, NEW r \in Runners, NEW j \in Jobs, NEW pc, pc # "execute", NEW c,
         Goto(r, j, pc) \/ GotoCall(r, j, pc, c) \/ GotoSeen(r, j, pc)
  PROVE  NoneArrives
<1> DEFINE w1 == [IdleWorker EXCEPT !.pc = pc]
           w2 == [IdleWorker EXCEPT !.pc = pc, !.call = c]
           w3 == [IdleWorker EXCEPT !.pc = pc, !.seen = job[j]]
<1>1. w1.pc = pc /\ w2.pc = pc /\ w3.pc = pc
  BY NoJobTyped DEF WorkOK, Worker
<1>2. \E w \in {w1, w2, w3} : worker' = [worker EXCEPT ![r][j] = w]
  BY DEF Goto, GotoCall, GotoSeen
<1> HIDE DEF w1, w2, w3
<1>3. QED BY <1>1, <1>2, MoveElsewhere

LEMMA SameElsewhere == worker' = worker => NoneArrives
BY DEF NoneArrives

LEMMA ScheduleElsewhere ==
  ASSUME WorkersOK, NEW r \in Runners, NEW j \in Jobs, Schedule(r, j)
  PROVE  NoneArrives
BY GotoElsewhere, SameElsewhere DEF Schedule

\* The workers but those that dispatch a call or go on with one that is loaded.
LEMMA WorkerElsewhere ==
  ASSUME IInv, NEW r \in Runners, NEW j \in Jobs, WorkerStep(r, j),
         ~DispatchCall(r, j), ~ProceedAtBoundary(r, j)
  PROVE  NoneArrives
<1>0. WorkersOK
  BY DEF IInv
<1>1. \E pc \in WorkerSteps \ {"execute"}, c \in Calls \cup {None} :
        Goto(r, j, pc) \/ GotoCall(r, j, pc, c) \/ GotoSeen(r, j, pc)
  <2> USE DEF WorkerSteps, ClosingSteps, RecoverySteps, TurnSteps, WriteOrRaise
  <2> DEFINE Steps == WorkerSteps \ {"execute"}
             c == worker[r][j].call
  <2>0. c \in Calls \cup {None}
    BY <1>0 DEF WorkersOK, WorkOK, Worker
  <2>1. CASE ClaimLease(r, j) \/ StartJob(r, j) \/ CloseJob(r, j) \/ DropJob(r, j)
             \/ CompleteJob(r, j) \/ FailJob(r, j)
    BY <2>1 DEF ClaimLease, StartJob, CloseJob, DropJob, CompleteJob, FailJob, Leave
  <2>2. CASE RefuseJob(r, j)
    BY <2>2 DEF RefuseJob
  <2>3. CASE LoadTurn(r, j)
    BY <2>3 DEF LoadTurn, RunningCall
  <2>4. CASE BeginTurnRun(r, j) \/ ResumeTurnRun(r, j) \/ StopAtBoundary(r, j)
             \/ FinishTurn(r, j) \/ GiveUpTurn(r, j) \/ FailTurn(r, j) \/ CommitReceipt(r, j)
             \/ AskOrDeny(r, j)
    BY <2>4 DEF BeginTurnRun, ResumeTurnRun, StopAtBoundary, FinishTurn, GiveUpTurn,
                FailTurn, CommitReceipt, AskOrDeny
  <2>5. CASE ReconcileCall(r, j) \/ SettleAmbiguous(r, j)
    BY <2>0, <2>5 DEF ReconcileCall, SettleAmbiguous
  <2>6. CASE ProposeCall(r, j) \/ ProducerFails(r, j)
    BY <2>6 DEF ProposeCall, ProducerFails, Proposable
  <2>7. CASE ExecuteCall(r, j)
    BY <2>0, <2>7 DEF ExecuteCall
  <2>8. QED BY <2>1, <2>2, <2>3, <2>4, <2>5, <2>6, <2>7 DEF WorkerStep
<1>2. QED BY <1>0, <1>1, GotoElsewhere

\* A worker arrives at its handler by dispatching its call, or with an active call it
\* loaded and found dispatched.
LEMMA NextArrives ==
  ASSUME IInv, [Next]_vars
  PROVE  NoneArrives \/ \E r \in Runners, j \in Jobs :
                          DispatchCall(r, j) \/ ProceedAtBoundary(r, j)
<1>0. WorkersOK /\ RequestsOK
  BY DEF IInv
<1>1. ASSUME NEW r \in Runners, Crash(r) \/ Shutdown(r) PROVE NoneArrives
  <2>1. \A q \in Runners, j \in Jobs : worker'[q][j] \in {worker[q][j], IdleWorker}
    BY <1>0, <1>1 DEF Crash, Shutdown, WorkersOK
  <2>2. QED BY <2>1, NoJobTyped DEF NoneArrives
<1>2. ASSUME NEW r \in Runners, NEW j \in Jobs, Schedule(r, j) PROVE NoneArrives
  BY <1>0, <1>2, ScheduleElsewhere
<1>3. ASSUME NEW r \in Runners, ApproveCheckpoint(r) PROVE NoneArrives
  BY <1>0, <1>2, <1>3, SameElsewhere DEF ApproveCheckpoint, RequestsOK
<1>4. ASSUME NEW r \in Runners, NEW j \in Jobs, RecoveryClaim(r, j) PROVE NoneArrives
  BY <1>0, <1>4, GotoElsewhere DEF RecoveryClaim
<1>5. ASSUME NEW r \in Runners, NEW j \in Jobs, RecoveryWrite(r, j) PROVE NoneArrives
  BY <1>0, <1>2, <1>5, GotoElsewhere DEF RecoveryWrite
<1>6. ASSUME NEW r \in Runners, Request(r) \/ RequestStep(r) \/ Recovery(r) PROVE NoneArrives
  BY <1>2, <1>3, <1>4, <1>5, <1>6, SameElsewhere
  DEF Request, RequestStep, Recovery, Submit, SubmitMcpTool, BeginTurn, DenyCheckpoint,
      CreateContinuation, Retry, CancelRequest, CreateJob, CancelSignal, CancelTurnOfJob,
      CancelClose, FailContinuation, RecoverySkip, RecoverOrphans, CloseOrphan,
      OrphansClosed
<1>7. ASSUME NEW r \in Runners, NEW mode, Boot(r, mode) PROVE NoneArrives
  BY <1>7, SameElsewhere DEF Boot
<1>8. CASE ExternalEdit \/ UNCHANGED vars
  BY <1>8, SameElsewhere DEF ExternalEdit, vars
<1>9. QED BY <1>1, <1>6, <1>7, <1>8, WorkerElsewhere DEF Next

\* A worker that arrives at its handler has just had the store mark its call, which
\* was proposed or approved and without a mark; or the call it loaded is marked.
LEMMA WhoArrives ==
  ASSUME IInv, [Next]_vars, NEW r \in Runners, NEW j \in Jobs,
         worker'[r][j] # worker[r][j], worker'[r][j].pc = "execute"
  PROVE  LET t == job[j].turn
             c == worker'[r][j].call
         IN /\ t \in Turns /\ c \in Calls
            /\ UNCHANGED <<job, policy>>
            /\ \/ /\ worker[r][j].pc \in {"decide", "beginDispatch"} /\ c = worker[r][j].call
                  /\ ~turn[t].tool[c].dispatched
                  /\ ~Asked(policy[r], c) \/ CanBeginDispatch(turn[t], c)
               \/ /\ worker[r][j].pc = "check" /\ ~CancelSeen(r, j)
                  /\ c \in ActiveCalls(turn[t])
                  /\ turn[t].tool[c].status = "running" /\ turn[t].tool[c].dispatched
                  /\ turn' = turn
<1> DEFINE t == job[j].turn
           c == worker'[r][j].call
<1>0. WorkersOK /\ JobsOK /\ TurnsOK /\ ~NoneArrives
  BY DEF IInv, NoneArrives
<1>a. ASSUME NEW q \in Runners, NEW i \in Jobs, NEW p, NEW d, GotoCall(q, i, p, d)
      PROVE  q = r /\ i = j /\ c = d /\ p = "execute"
  <2> DEFINE w == [IdleWorker EXCEPT !.pc = p, !.call = d]
  <2>1. worker' = [worker EXCEPT ![q][i] = w] /\ w.call = d /\ w.pc = p
    BY <1>a, NoJobTyped DEF GotoCall, WorkOK, Worker
  <2> HIDE DEF w
  <2>2. worker'[r][j] = IF r = q /\ j = i THEN w ELSE worker[r][j]
    BY <1>0, <2>1 DEF WorkersOK
  <2>3. QED BY <2>1, <2>2
<1>1. ASSUME NEW q \in Runners, NEW i \in Jobs, DispatchCall(q, i)
      PROVE  /\ q = r /\ i = j /\ t \in Turns /\ c \in Calls /\ UNCHANGED <<job, policy>>
             /\ worker[r][j].pc \in {"decide", "beginDispatch"} /\ c = worker[r][j].call
             /\ ~turn[t].tool[c].dispatched
             /\ ~Asked(policy[r], c) \/ CanBeginDispatch(turn[t], c)
  <2> DEFINE d == worker[q][i].call
  <2>1. GotoCall(q, i, "execute", d)
    BY <1>0, <1>1, GotoElsewhere DEF DispatchCall
  <2>2. q = r /\ i = j /\ c = d
    BY <1>a, <2>1
  <2>3. worker[r][j].pc \in {"decide", "beginDispatch"} /\ UNCHANGED <<job, policy>>
    BY <1>1, <2>2 DEF DispatchCall, At, OnlyWorker, runnerVars
  <2>4. t \in Turns /\ c \in Calls
    BY <1>0, <2>2, <2>3 DEF CallSteps, JobsOK, WorkersOK, WorkOK
  <2>5. \/ ~Asked(policy[r], c) /\ CanUpdateToolRun(turn[t], c, "running", TRUE)
        \/ CanBeginDispatch(turn[t], c)
    BY <1>0, <1>1, <2>2, GotoElsewhere DEF DispatchCall
  <2>6. ~turn[t].tool[c].dispatched
    BY <1>0, <2>4, <2>5
    DEF TurnsOK, TurnInv, CallInv, ToolWellFormed, CanBeginDispatch, CanUpdateToolRun,
        ToolTransitions
  <2>7. QED BY <2>2, <2>3, <2>4, <2>5, <2>6
<1>2. ASSUME NEW q \in Runners, NEW i \in Jobs, ProceedAtBoundary(q, i)
      PROVE  /\ q = r /\ i = j /\ t \in Turns /\ c \in Calls /\ UNCHANGED <<job, policy>>
             /\ worker[r][j].pc = "check" /\ ~CancelSeen(r, j) /\ c \in ActiveCalls(turn[t])
             /\ turn[t].tool[c].status = "running" /\ turn[t].tool[c].dispatched
             /\ turn' = turn
  <2> DEFINE record == turn[job[i].turn]
  <2>1. PICK d \in ActiveCalls(record) : GotoCall(q, i, LoadedStep(record.tool[d]), d)
    BY <1>0, <1>2, GotoElsewhere DEF ProceedAtBoundary
  <2>2. q = r /\ i = j /\ c = d /\ LoadedStep(record.tool[d]) = "execute"
    BY <1>a, <2>1
  <2>3. worker[r][j].pc = "check" /\ ~CancelSeen(r, j) /\ UNCHANGED <<job, policy, turn>>
    BY <1>2, <2>2 DEF ProceedAtBoundary, At, OnlyWorker, runnerVars
  <2>4. t \in Turns /\ c \in Calls
    BY <1>0, <2>1, <2>2, <2>3 DEF JobsOK, WorkersOK, ActiveCalls
  <2>5. record.tool[d].status # "proposed" /\ record.tool[d].dispatched
    BY <2>2 DEF LoadedStep
  <2>6. record.tool[d].status = "running"
    BY <1>0, <2>1, <2>2, <2>4, <2>5
    DEF ActiveCalls, ActiveTools, TurnsOK, TurnInv, CallInv, ToolWellFormed
  <2>7. QED BY <2>1, <2>2, <2>3, <2>4, <2>5, <2>6
<1>3. QED BY <1>0, <1>1, <1>2, NextArrives
=============================================================================
