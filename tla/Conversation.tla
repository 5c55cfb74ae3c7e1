----------------------------- MODULE Conversation -----------------------------
(***************************************************************************)
(* agent/conversations.py: ConversationOrchestrator runs one durable turn    *)
(* with a model.  A job's attempt at the turn is a main thread (the agent    *)
(* loop), a watcher that interrupts the agent, and one tool thread per call  *)
(* the model makes (agent/tool_executor.py, sequential path), which records   *)
(* the call in the turn before it dispatches it.  A tool thread that is too    *)
(* slow is abandoned, not stopped: it may go on after the agent, the          *)
(* attempt and the job have ended, while a later attempt runs the same turn.  *)
(*                                                                          *)
(* JobRunner starts at most one attempt at a time (JobRunner!OneActiveJob);   *)
(* its records are reduced here to what decides on the next attempt.          *)
(*                                                                          *)
(* A definition whose name ends in an underscore and a word is a mutant: the *)
(* definition after it with a plausible bug, which no specification uses.   *)
(***************************************************************************)
EXTENDS TurnRecords

CONSTANTS
  Threads,      \* tool threads that may exist at once
  Verdicts,     \* answers the permission broker may give
  MaxAttempts,  \* bound on the attempts at the turn
  Disturbed,    \* attempts that may be cancelled, run late or meet an outside edit
  MaxRevision,  \* bound on the project revision
  None

ASSUME VerdictAssumption == Verdicts \subseteq {"allow", "ask", "deny"}
ASSUME BoundAssumption ==
  MaxAttempts \in Nat /\ MaxRevision \in Nat /\ Disturbed \subseteq 1 .. MaxAttempts
ASSUME NoneAssumption == None \notin Threads \cup Calls

VARIABLES
  turn,      \* the turn record
  revision,  \* project revision
  applied,   \* history: the revision a call's effect produced, 0 if none
  main,      \* the attempt in progress, or the outcome of the last one
  tool       \* the tool threads

vars == <<turn, revision, applied, main, tool>>

\* Steps of _run_turn before its try block, within it, and of its handlers.
OpeningSteps == {"load", "begin", "resume", "recover", "settle", "settleTurn", "gate"}
AgentSteps   == {"think", "tool"}
TrySteps     == {"init", "approved", "ran", "reply", "cancel"} \cup AgentSteps
ExceptSteps  == {"except", "exceptActive", "exceptFail"}

\* `outcome' of an attempt: returned (the job completes) or raised (the job fails
\* and may be retried).  `seen' is the record _run_turn has in hand.
MainState == [n : 0 .. MaxAttempts,
              pc : {"idle", "killed", "orphaned"} \cup OpeningSteps \cup TrySteps \cup ExceptSteps,
              outcome : {"none", "returned", "raised"},
              seen : Turn, resumed : BOOLEAN, cancelled : BOOLEAN, late : BOOLEAN,
              interrupted : BOOLEAN,
              thread : Threads \cup {None}]

ToolSteps == {"idle", "bind", "enter", "load", "propose", "decide", "dispatch", "execute",
              "commit", "ambiguous", "failTurn", "ok", "error"}

\* `joined': the main thread still waits for it.  `late': the deadline of its attempt
\* has passed, kept while it may still ask.  `call' is the durable call.
ToolState == [pc : ToolSteps, attempt : 0 .. MaxAttempts, joined : BOOLEAN, late : BOOLEAN,
              base : 0 .. MaxRevision, call : Calls \cup {None}]

IdleMain == [n |-> 0, pc |-> "idle", outcome |-> "none", seen |-> AbsentTurn, resumed |-> FALSE,
             cancelled |-> FALSE, late |-> FALSE, interrupted |-> FALSE, thread |-> None]
IdleTool == [pc |-> "idle", attempt |-> 0, joined |-> FALSE, late |-> FALSE,
             base |-> 0, call |-> None]

Init ==
  /\ turn = AbsentTurn
  /\ revision = 0
  /\ applied = [c \in Calls |-> 0]
  /\ main = IdleMain
  /\ tool = [w \in Threads |-> IdleTool]

-----------------------------------------------------------------------------
\* Shared pieces.

At(pc)      == main.pc = pc
Go(pc)      == main' = [main EXCEPT !.pc = pc]
End(outcome) ==
  main' = [IdleMain EXCEPT !.n = main.n, !.outcome = outcome]

Cancelled == main.cancelled
Late      == main.late

\* What the closure `execute' of a thread asks: its deadline, and the cancel event of
\* its job, which goes with the job.
Stopping(w) == tool[w].late \/ (tool[w].attempt = main.n /\ Cancelled)

\* A store method that refuses raises.
WriteOr(accepted, record, then, else) ==
  \/ accepted /\ turn' = record /\ then
  \/ ~accepted /\ UNCHANGED turn /\ else

ActiveCall(t) == IF ActiveCalls(t) = {} THEN None ELSE CHOOSE c \in ActiveCalls(t) : TRUE
HasRoom(t)   == \E c \in Calls : t.tool[c].status = "absent"
\* An id no call of the turn has, any: ids are unique.
FreshCall    == CHOOSE c \in Calls : turn.tool[c].status = "absent"
HasCompleted(t) == \E c \in Calls : t.tool[c].status = "completed"

\* _is_approved_undispatched_call
ApprovedActive(t) ==
  LET c == ActiveCall(t) IN
  /\ c # None
  /\ t.tool[c].status = "running" /\ ~t.tool[c].dispatched
  /\ t.tool[c].approval = "approved"

\* A new thread.
IdleThreads == {w \in Threads : tool[w].pc = "idle"}
FreshThread == CHOOSE w \in IdleThreads : TRUE

project == <<revision, applied>>
OnlyMain == UNCHANGED <<project, tool>>

-----------------------------------------------------------------------------
\* Requests: a job is submitted, retried or continued after an approval; the user
\* cancels it; its deadline passes; somebody else changes the project.

Started(n) == main' = [IdleMain EXCEPT !.n = n, !.pc = "load"]

Submit ==
  /\ turn.status = "absent"
  /\ turn' = QueuedTurn
  /\ UNCHANGED main
  /\ OnlyMain

Attempt ==
  /\ At("idle") /\ turn.status # "absent"
  /\ main.n < MaxAttempts
  /\ main.outcome \in {"none", "raised"}
  /\ Started(main.n + 1)
  /\ UNCHANGED turn
  /\ OnlyMain

ApproveAndAttempt ==
  /\ At("idle")
  /\ main.n < MaxAttempts
  /\ \E c \in Calls :
       /\ CanApprove(turn, c, turn.tool[c].base, revision)
       /\ turn' = Approve(turn, c)
  /\ Started(main.n + 1)
  /\ OnlyMain

DenyCheckpoint ==
  /\ \E c \in Calls :
       /\ CanResolveApproval(turn, c, turn.tool[c].base)
       /\ turn' = Deny(turn, c, TRUE)
  /\ UNCHANGED <<project, main, tool>>

CancelAttempt ==
  /\ main.n \in Disturbed
  /\ main.pc \notin {"idle", "killed", "orphaned"} /\ ~Cancelled
  /\ main' = [main EXCEPT !.cancelled = TRUE]
  /\ UNCHANGED turn
  /\ OnlyMain

\* The deadline of an attempt is set when its main thread enters the try block; one
\* that nobody will look at any more is left out.
DeadlinePasses ==
  /\ \E n \in Disturbed :
       LET asking == {w \in Threads : tool[w].attempt = n /\ tool[w].pc \in {"bind", "enter"}}
           inTry  == n = main.n /\ main.pc \in {"init", "think", "tool", "ran"}
       IN
       /\ inTry \/ asking # {}
       /\ ~(inTry /\ Late) /\ \A w \in asking : ~tool[w].late
       /\ main' = [main EXCEPT !.late = @ \/ inTry]
       /\ tool' = [w \in Threads |-> [tool[w] EXCEPT !.late = @ \/ w \in asking]]
  /\ UNCHANGED <<turn, project>>

ExternalEdit ==
  /\ main.n \in Disturbed
  /\ revision < MaxRevision
  /\ revision' = revision + 1
  /\ UNCHANGED <<turn, applied, main, tool>>

\* A kill ends every thread of the process, those an ended attempt left behind too.
Kill ==
  /\ main.pc \notin {"killed", "orphaned"}
  /\ ~At("idle") \/ turn.status = "running" \/ \E w \in Threads : tool[w].pc # "idle"
  /\ main' = [IdleMain EXCEPT !.n = main.n, !.outcome = main.outcome,
                              !.cancelled = main.cancelled,
                              !.pc = IF At("idle") THEN "orphaned" ELSE "killed"]
  /\ tool' = [w \in Threads |-> IdleTool]
  /\ UNCHANGED <<turn, project>>

\* Recovery at the next start closes the turn of the running job, or an orphan.
Restart ==
  /\ main.pc \in {"killed", "orphaned"}
  /\ turn' = CASE turn.status = "running" ->
                    IF At("killed") /\ Cancelled THEN Cancel(turn) ELSE InterruptActive(turn)
               [] turn.status = "queued" ->
                    IF Cancelled THEN Cancel(turn) ELSE Update(turn, "interrupted")
               [] OTHER -> turn
  /\ End(IF At("killed") THEN "raised" ELSE main.outcome)
  /\ OnlyMain

-----------------------------------------------------------------------------
\* The main thread, up to the try block.

Load ==
  /\ At("load")
  /\ \/ turn.status \in {"completed", "waiting_approval"} /\ End("returned")
     \/ /\ turn.status \in {"failed", "interrupted", "cancelled"}
        /\ IF NonReplayable(turn) \/ HasCompleted(turn) THEN End("raised")
           ELSE main' = [main EXCEPT !.pc = "resume", !.resumed = TRUE]
     \/ turn.status = "queued" /\ Go("begin")
     \/ /\ turn.status = "running"
        /\ IF NonReplayable(turn) THEN End("raised")
           ELSE main' = [main EXCEPT !.pc = "recover", !.resumed = TRUE, !.seen = turn]
  /\ UNCHANGED turn
  /\ OnlyMain

Open ==
  /\ main.pc \in {"begin", "resume"}
  /\ LET record == IF At("begin") THEN Update(turn, "running") ELSE Resume(turn) IN
     WriteOr(IF At("begin") THEN CanUpdate(turn, "running") ELSE CanResume(turn), record,
             main' = [main EXCEPT !.pc = "recover", !.seen = record],
             End("raised"))
  /\ OnlyMain

\* _recover_active_call; the product exposes no tool_receipts, so no effect is ever
\* reconciled here (JobRunner models the case).
Recover ==
  LET c == ActiveCall(main.seen)
      harmless == \/ c = None
                  \/ main.seen.tool[c].status = "proposed"
                  \/ ~main.seen.tool[c].dispatched /\ revision = main.seen.tool[c].base
  IN
  /\ At("recover")
  /\ Go(IF harmless THEN "gate" ELSE "settle")
  /\ UNCHANGED turn
  /\ OnlyMain

Settle ==
  LET c == ActiveCall(main.seen) IN
  /\ At("settle")
  /\ WriteOr(CanUpdateToolRun(turn, c, "interrupted", TRUE),
             UpdateToolRun(turn, c, "interrupted", TRUE), Go("settleTurn"), End("raised"))
  /\ OnlyMain

SettleTurn ==
  /\ At("settleTurn")
  /\ WriteOr(CanUpdate(turn, "failed"), Update(turn, "failed"), End("raised"), End("raised"))
  /\ OnlyMain

\* A resumed turn with a finished call is closed; a cancelled attempt closes the
\* turn; an approved call is executed; otherwise the model is asked.
Gate ==
  LET replay == main.resumed /\ ~ApprovedActive(main.seen) /\ HasCompleted(main.seen) IN
  /\ At("gate")
  /\ \/ replay /\ WriteOr(CanInterruptActive(turn), InterruptActive(turn),
                          End("raised"), End("raised"))
     \/ ~replay /\ Cancelled /\ WriteOr(CanCancel(turn), Cancel(turn),
                                        End("returned"), End("raised"))
     \/ /\ ~replay /\ ~Cancelled
        /\ main' = IF ApprovedActive(main.seen) THEN [main EXCEPT !.pc = "approved"]
                   ELSE [main EXCEPT !.pc = "init", !.seen = AbsentTurn, !.resumed = FALSE]
        /\ UNCHANGED turn
  /\ OnlyMain

-----------------------------------------------------------------------------
\* The main thread within the try block.

\* An approved call is executed by the main thread itself, which therefore waits
\* for it to the end.
ExecuteApproved ==
  /\ At("approved") /\ main.thread = None
  /\ IdleThreads # {}
  /\ LET w == FreshThread IN
       /\ main' = [main EXCEPT !.seen = AbsentTurn, !.resumed = FALSE, !.thread = w]
       /\ tool' = [tool EXCEPT ![w] = [IdleTool EXCEPT !.pc = "enter", !.attempt = main.n,
                                         !.joined = TRUE, !.late = Late, !.call = ActiveCall(main.seen)]]
  /\ UNCHANGED <<turn, project>>

\* Joined: the thread has ended and its slot is free again.
Collect(pc) ==
  /\ main.thread # None
  /\ tool[main.thread].pc \in {"ok", "error"}
  /\ tool' = [tool EXCEPT ![main.thread] = IdleTool]
  /\ main' = [main EXCEPT !.pc = pc, !.thread = None]

ApprovedReturns ==
  /\ At("approved") /\ main.thread # None
  /\ Collect(IF tool[main.thread].pc = "ok" THEN "reply" ELSE "except")
  /\ UNCHANGED <<turn, project>>

\* The agent is created, or fails to be; then the stop requests are looked at.
CreateAgent ==
  /\ At("init")
  /\ \/ Go("except")
     \/ Cancelled /\ Go("cancel")
     \/ ~Cancelled /\ Late /\ Go("except")
     \/ ~Cancelled /\ ~Late /\ Go("think")
  /\ UNCHANGED turn
  /\ OnlyMain

\* Mutant: there is no watcher.
Watch_Blind ==
  /\ main.pc \in AgentSteps
  /\ main.interrupted /\ UNCHANGED vars

\* The watcher polls until the attempt is done.
Watch ==
  /\ main.pc \in AgentSteps
  /\ Cancelled \/ Late
  /\ ~main.interrupted
  /\ main' = [main EXCEPT !.interrupted = TRUE]
  /\ UNCHANGED turn
  /\ OnlyMain

\* The model asks for a tool; an interrupted agent skips it.
CallTool ==
  /\ At("think") /\ ~main.interrupted
  /\ IdleThreads # {}
  /\ LET w == FreshThread IN
       /\ main' = [main EXCEPT !.pc = "tool", !.thread = w]
       /\ tool' = [tool EXCEPT ![w] = [IdleTool EXCEPT !.pc = "bind", !.attempt = main.n,
                                         !.joined = TRUE, !.late = Late]]
  /\ UNCHANGED <<turn, project>>

ToolReturns ==
  /\ At("tool")
  /\ Collect("think")
  /\ UNCHANGED <<turn, project>>

\* The call's own deadline passes, or the agent was interrupted and the thread did
\* not end in the seconds it is given: the executor is shut down without waiting.
AbandonTool ==
  /\ At("tool")
  /\ tool' = [tool EXCEPT ![main.thread] =
       IF @.pc \in {"ok", "error"} THEN IdleTool ELSE [@ EXCEPT !.joined = FALSE]]
  /\ main' = [main EXCEPT !.pc = "think", !.thread = None]
  /\ UNCHANGED <<turn, project>>

\* run_conversation returns or raises.
AgentReturns ==
  /\ At("think")
  /\ \E pc \in {"ran", "except"} : main' = [main EXCEPT !.pc = pc, !.interrupted = FALSE]
  /\ UNCHANGED turn
  /\ OnlyMain

\* After the run: a turn that a tool thread closed or suspended is left alone; an
\* answer that is incomplete is an error.
AfterRun ==
  /\ At("ran")
  /\ \/ turn.status # "running" /\ End("returned")
     \/ turn.status = "running" /\ Cancelled /\ Go("cancel")
     \/ turn.status = "running" /\ ~Cancelled /\ Go("except")
     \/ turn.status = "running" /\ ~Cancelled /\ ~Late /\ Go("reply")
  /\ UNCHANGED turn
  /\ OnlyMain

CancelRun ==
  /\ At("cancel")
  /\ WriteOr(CanCancel(turn), Cancel(turn), End("returned"), Go("except"))
  /\ OnlyMain

CompleteTurn ==
  /\ At("reply")
  /\ WriteOr(CanUpdate(turn, "completed"), Update(turn, "completed"),
             End("returned"), Go("except"))
  /\ OnlyMain

Except ==
  /\ At("except")
  /\ IF turn.status # "running" THEN End("raised")
     ELSE Go(IF ActiveCalls(turn) = {} THEN "exceptFail" ELSE "exceptActive")
  /\ UNCHANGED turn
  /\ OnlyMain

\* Mutant: the error of a handler's refused write is swallowed.
CloseAfterError_Swallow ==
  /\ main.pc \in {"exceptActive", "exceptFail"}
  /\ IF At("exceptActive")
     THEN WriteOr(CanInterruptActive(turn), InterruptActive(turn), End("raised"), End("returned"))
     ELSE WriteOr(CanUpdate(turn, "failed"), Update(turn, "failed"), End("raised"), End("returned"))
  /\ OnlyMain

\* The handler's own write may be refused: its exception replaces the first.
CloseAfterError ==
  /\ main.pc \in {"exceptActive", "exceptFail"}
  /\ IF At("exceptActive")
     THEN WriteOr(CanInterruptActive(turn), InterruptActive(turn), End("raised"), End("raised"))
     ELSE WriteOr(CanUpdate(turn, "failed"), Update(turn, "failed"), End("raised"), End("raised"))
  /\ OnlyMain

-----------------------------------------------------------------------------
\* A tool thread: tool_bindings._execute_tool, the closure `execute' and
\* _execute_durable_call.

ToolAt(w, pc) == tool[w].pc = pc
MyCall(w) == tool[w].call

\* dispatch_lock, one of each attempt, is held from Enter to the end.
LockedSteps == ToolSteps \ {"idle", "bind", "enter", "ok", "error"}
\* Mutant: released before the dispatch.
Locked_Narrow(n) ==
  \E w \in Threads : tool[w].attempt = n /\ tool[w].pc \in {"load", "propose", "decide"}
Locked(n) == \E w \in Threads : tool[w].attempt = n /\ tool[w].pc \in LockedSteps

ToolGo(w, pc) == tool' = [tool EXCEPT ![w].pc = pc]

\* interrupt() reaches the agent of the thread's own attempt.
Interrupts(w) ==
  main' = IF main.pc \in AgentSteps /\ tool[w].attempt = main.n
          THEN [main EXCEPT !.interrupted = TRUE] ELSE main

\* The thread leaves `execute': a joined one is collected, another just ends.
Ended(w, result) ==
  tool' = [tool EXCEPT ![w] = IF @.joined THEN [@ EXCEPT !.pc = result] ELSE IdleTool]

\* The baseline of the call is read before the lock.
Bind(w) ==
  /\ ToolAt(w, "bind")
  /\ tool' = [tool EXCEPT ![w].pc = "enter", ![w].base = revision]
  /\ UNCHANGED <<turn, project, main>>

\* Under dispatch_lock; a stop that comes later is not seen.
Enter(w) ==
  /\ ToolAt(w, "enter")
  /\ ~Locked(tool[w].attempt)
  /\ IF Stopping(w) THEN Interrupts(w) /\ Ended(w, "error")
     ELSE tool' = [tool EXCEPT ![w].pc = "load", ![w].late = FALSE] /\ UNCHANGED main
  /\ UNCHANGED <<turn, project>>

Refused(w) == Interrupts(w) /\ Ended(w, "error") /\ UNCHANGED <<turn, project>>

\* A call that is active already is adopted when name and arguments agree, and
\* refused when it was dispatched; a full turn refuses too.
LoadTurn(w) ==
  LET c == ActiveCall(turn) IN
  /\ ToolAt(w, "load")
  /\ \/ /\ turn.status = "running" /\ c = None
        /\ HasRoom(turn)
        /\ ToolGo(w, "propose")
        /\ UNCHANGED <<turn, project, main>>
     \/ /\ turn.status = "running" /\ c # None
        /\ MyCall(w) \in {None, c}
        /\ turn.tool[c].status = "proposed" \/ ~turn.tool[c].dispatched
        /\ tool' = [tool EXCEPT ![w].call = c, ![w].base = 0,
                      ![w].pc = IF turn.tool[c].status = "proposed" THEN "decide" ELSE "dispatch"]
        /\ UNCHANGED <<turn, project, main>>
     \/ /\ \/ turn.status # "running"
           \/ c # None /\ (MyCall(w) = c => turn.tool[c].dispatched)
           \/ c = None /\ ~HasRoom(turn)
        /\ Refused(w)

Propose(w) ==
  /\ ToolAt(w, "propose")
  /\ LET c == FreshCall IN
       WriteOr(HasRoom(turn) /\ CanAppendToolRun(turn, c), AppendToolRun(turn, c, tool[w].base),
               tool' = [tool EXCEPT ![w].pc = "decide", ![w].call = c, ![w].base = 0],
               Ended(w, "error"))
  /\ UNCHANGED <<project, main>>

\* A refusal by the store raises before interrupt() is reached.
Decide(w) ==
  LET c == MyCall(w) IN
  /\ ToolAt(w, "decide")
  /\ \/ /\ "allow" \in Verdicts
        /\ WriteOr(CanUpdateToolRun(turn, c, "running", FALSE),
                   UpdateToolRun(turn, c, "running", FALSE),
                   ToolGo(w, "dispatch"), Ended(w, "error"))
        /\ UNCHANGED main
     \/ /\ "ask" \in Verdicts
        /\ WriteOr(CanRequestApproval(turn, c), RequestApproval(turn, c),
                   Interrupts(w), UNCHANGED main)
        /\ Ended(w, "error")
     \/ /\ "deny" \in Verdicts
        /\ WriteOr(CanCancel(turn), Cancel(turn), Interrupts(w), UNCHANGED main)
        /\ Ended(w, "error")
  /\ UNCHANGED project

\* Mutant: the dispatch is not marked.
Dispatch_Unmarked(w) ==
  /\ ToolAt(w, "dispatch")
  /\ ToolGo(w, "execute")
  /\ UNCHANGED <<turn, project, main>>

Dispatch(w) ==
  LET c == MyCall(w) IN
  /\ ToolAt(w, "dispatch")
  /\ WriteOr(CanBeginDispatch(turn, c), BeginDispatch(turn, c),
             ToolGo(w, "execute"), Ended(w, "error"))
  /\ UNCHANGED <<project, main>>

\* The executor refuses a stale baseline; the handler changes the project or not,
\* and returns, raises or never ends.
Execute(w) ==
  LET c == MyCall(w) IN
  /\ ToolAt(w, "execute")
  /\ \/ /\ revision = turn.tool[c].base /\ revision < MaxRevision
        /\ revision' = revision + 1
        /\ applied' = [applied EXCEPT ![c] = revision + 1]
        /\ \E pc \in {"commit", "ambiguous"} : ToolGo(w, pc)
     \/ revision = turn.tool[c].base /\ ToolGo(w, "commit") /\ UNCHANGED project
     \/ ToolGo(w, "ambiguous") /\ UNCHANGED project
  /\ IF tool'[w].pc = "ambiguous" THEN Interrupts(w) ELSE UNCHANGED main
  /\ UNCHANGED turn

Commit(w) ==
  LET c == MyCall(w) IN
  /\ ToolAt(w, "commit")
  /\ WriteOr(CanUpdateToolRun(turn, c, "completed", TRUE),
             UpdateToolRun(turn, c, "completed", TRUE), Ended(w, "ok"), Ended(w, "error"))
  /\ UNCHANGED <<project, main>>

\* _fail_ambiguous_active
FailAmbiguous(w) ==
  LET c == MyCall(w) IN
  /\ ToolAt(w, "ambiguous")
  /\ WriteOr(CanUpdateToolRun(turn, c, "interrupted", TRUE),
             UpdateToolRun(turn, c, "interrupted", TRUE),
             ToolGo(w, "failTurn"), Ended(w, "error"))
  /\ UNCHANGED <<project, main>>

FailTurn(w) ==
  /\ ToolAt(w, "failTurn")
  /\ WriteOr(CanUpdate(turn, "failed"), Update(turn, "failed"), Ended(w, "error"),
             Ended(w, "error"))
  /\ UNCHANGED <<project, main>>

-----------------------------------------------------------------------------
MainStep ==
  \/ Load \/ Open \/ Recover \/ Settle \/ SettleTurn \/ Gate
  \/ ExecuteApproved \/ ApprovedReturns \/ CreateAgent
  \/ CallTool \/ ToolReturns \/ AbandonTool \/ AgentReturns
  \/ AfterRun \/ CancelRun \/ CompleteTurn \/ Except \/ CloseAfterError

\* A tool thread up to, and after, its handler.
ThreadStep(w) ==
  \/ Bind(w) \/ Enter(w) \/ LoadTurn(w) \/ Propose(w) \/ Decide(w) \/ Dispatch(w)
  \/ Commit(w) \/ FailAmbiguous(w) \/ FailTurn(w)

Request ==
  \/ Submit \/ Attempt \/ ApproveAndAttempt \/ DenyCheckpoint \/ CancelAttempt \/ DeadlinePasses
  \/ ExternalEdit

Next ==
  \/ Request
  \/ Kill \/ Restart
  \/ MainStep \/ Watch
  \/ \E w \in Threads : ThreadStep(w) \/ Execute(w)

Spec == Init /\ [][Next]_vars

\* Scheduled: the steps of an agent that was interrupted and of a main thread outside
\* its agent, the watcher, and tool threads outside their handler.  The model may be
\* silent for ever, a handler may never end, and nobody need ask for anything.
Fairness ==
  /\ WF_vars(MainStep /\ (main.interrupted \/ main.pc \notin AgentSteps))
  /\ WF_vars(Watch)
  /\ WF_vars(\E w \in Threads : ThreadStep(w))

FairSpec == Spec /\ Fairness

-----------------------------------------------------------------------------
\* Properties.

TypeOK ==
  /\ turn \in Turn
  /\ revision \in 0 .. MaxRevision
  /\ applied \in [Calls -> 0 .. MaxRevision]
  /\ main \in MainState
  /\ tool \in [Threads -> ToolState]

Executing(w) == ToolAt(w, "execute")

\* A thread an earlier attempt left behind holds another dispatch_lock, so only the
\* durable record keeps its handler and those of later attempts apart.  It does so
\* while the calls are open: two handlers of a turn run at once only if they belong
\* to different attempts and the call of one has been closed under it, by the
\* recovery of a later attempt or a denial.
HandlersApart ==
  \A v, w \in Threads : Executing(v) /\ Executing(w) /\ v # w =>
    /\ tool[v].attempt # tool[w].attempt
    /\ \E u \in {v, w} : turn.tool[tool[u].call].status # "running"

\* What took effect is never recorded as a call that was not dispatched: it is
\* completed, still in progress, or closed as ambiguous.
EffectRecorded ==
  \A c \in Calls : applied[c] # 0 =>
    turn.tool[c].dispatched /\ turn.tool[c].status \in {"running", "completed", "failed", "interrupted", "cancelled"}

\* A turn that no attempt drives but that is still running can be retried: its job
\* failed, and did not complete.
StrandedTurnRetryable ==
  At("idle") /\ turn.status = "running" => main.outcome = "raised"

\* No thread hands over a call that was handed over before.
DispatchOnce ==
  [][\A w \in Threads :
       ~Executing(w) /\ Executing(w)' => ~turn.tool[tool'[w].call].dispatched]_vars

\* A cancelled or late attempt ends, although the model may be silent and a tool may
\* never return: only an approved call, which runs in the main thread, is waited for.
StopEndsAttempt ==
  (main.pc \notin {"idle", "killed", "orphaned"} /\ (Cancelled \/ Late))
    ~> \/ main.pc \in {"idle", "killed", "orphaned"}
       \/ At("approved") /\ \E w \in Threads : Executing(w)
=============================================================================
