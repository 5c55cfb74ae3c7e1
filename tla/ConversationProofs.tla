------------------------- MODULE ConversationProofs -------------------------
(***************************************************************************)
(* Proofs about Conversation, for any tool threads, calls and verdicts and   *)
(* any number of attempts at the turn.                                       *)
(*                                                                          *)
(* A step does four things: it writes the turn record (Written), moves tool   *)
(* threads (ToolEffect), moves the main thread (MainEffect) and changes the   *)
(* project (ProjectEffect).  One lemma for each action says so; EffectsKeep    *)
(* concludes IInv' from the four.                                            *)
(***************************************************************************)
EXTENDS Conversation, TurnRecordsProofs

CallSteps == {"decide", "dispatch", "execute", "commit", "ambiguous", "failTurn"}

\* The record: a queued turn has no open call, a denied call was not dispatched.
GoodTurn(t) ==
  /\ TurnInv(t)
  /\ t.status = "queued" => ActiveCalls(t) = {}
  /\ \A c \in Calls : t.tool[c].status = "denied" => ~t.tool[c].dispatched

Typed ==
  /\ revision \in 0 .. MaxRevision
  /\ applied \in [Calls -> 0 .. MaxRevision]
  /\ main \in MainState
  /\ tool \in [Threads -> ToolState]

\* What the main thread settles is there; an attempt that ended well left no
\* running turn behind.
MainOK ==
  /\ At("settle") => ActiveCall(main.seen) \in Calls
  /\ At("idle") /\ turn.status = "running" => main.outcome = "raised"

\* A thread in its handler has a dispatched call, its own.
ThreadsOK ==
  /\ \A w \in Threads : tool[w].pc \in CallSteps => MyCall(w) \in Calls
  /\ \A w \in Threads : Executing(w) => turn.tool[MyCall(w)].dispatched
  /\ \A v, w \in Threads : Executing(v) /\ Executing(w) /\ v # w => MyCall(v) # MyCall(w)

\* The dispatch lock of an attempt has one holder.
LockOK ==
  \A v, w \in Threads :
    tool[v].pc \in LockedSteps /\ tool[w].pc \in LockedSteps /\ v # w =>
      tool[v].attempt # tool[w].attempt

EffectsDispatched == \A c \in Calls : applied[c] # 0 => turn.tool[c].dispatched

IInv == GoodTurn(turn) /\ Typed /\ MainOK /\ ThreadsOK /\ LockOK /\ EffectsDispatched

-----------------------------------------------------------------------------
\* What a step does.

\* A dispatch mark is never removed.
Written(t, u) ==
  /\ GoodTurn(u)
  /\ \A c \in Calls : t.tool[c].dispatched => u.tool[c].dispatched

\* A thread that is, or comes to be, under the lock: no other moves.
Moves(w) ==
  /\ \A v \in Threads \ {w} : tool'[v] = tool[v]
  /\ tool'[w].attempt = tool[w].attempt
  /\ tool[w].pc \in LockedSteps \/ ~Locked(tool[w].attempt)
  /\ tool'[w].pc \in CallSteps => tool'[w].call \in Calls
  /\ tool'[w].pc = "execute" =>
       ~turn.tool[tool'[w].call].dispatched /\ turn'.tool[tool'[w].call].dispatched

\* Otherwise a thread that is under the lock was there before.
Quiet ==
  \A v \in Threads : tool'[v].pc \in LockedSteps =>
    /\ tool'[v].pc = tool[v].pc
    /\ tool'[v].attempt = tool[v].attempt
    /\ tool'[v].call = tool[v].call

ToolEffect ==
  /\ tool' \in [Threads -> ToolState]
  /\ Quiet \/ \E w \in Threads : Moves(w)

MainEffect ==
  /\ main' \in MainState
  /\ main'.pc = "settle" => ActiveCall(main'.seen) \in Calls
  /\ main'.pc = "idle" /\ turn'.status = "running" => main'.outcome = "raised"

ProjectEffect ==
  /\ revision' \in 0 .. MaxRevision
  /\ applied' \in [Calls -> 0 .. MaxRevision]
  /\ \A c \in Calls : applied'[c] # 0 => applied[c] # 0 \/ turn'.tool[c].dispatched

Effects == Written(turn, turn') /\ ToolEffect /\ MainEffect /\ ProjectEffect

-----------------------------------------------------------------------------
USE DEF OpenTurns, TerminalTurns, TurnStatuses, ActiveTools, TerminalTools,
        ToolStatuses, ApprovalStatuses

\* The four together preserve the invariant.
LEMMA EffectsKeep ==
  ASSUME IInv, Effects
  PROVE  IInv'
<1> USE DEF MyCall, Executing, ToolAt, CallSteps, LockedSteps, ToolSteps
<1>1. GoodTurn(turn') /\ Typed'
  BY DEF IInv, Effects, Written, Typed, ToolEffect, MainEffect, ProjectEffect
<1>2. MainOK'
  BY DEF Effects, MainEffect, MainOK, At
<1>3. ASSUME Quiet
      PROVE  ThreadsOK' /\ LockOK'
  <2>1. ThreadsOK'
    BY <1>3 DEF Quiet, IInv, ThreadsOK, Effects, Written
  <2>2. LockOK'
    BY <1>3 DEF Quiet, IInv, LockOK
  <2>3. QED BY <2>1, <2>2
<1>4. ASSUME NEW w \in Threads, Moves(w)
      PROVE  ThreadsOK' /\ LockOK'
  <2>1. \A v \in Threads : tool'[v].pc \in CallSteps => tool'[v].call \in Calls
    BY <1>4 DEF Moves, IInv, ThreadsOK
  <2>2. \A v \in Threads : tool'[v].pc = "execute" => turn'.tool[tool'[v].call].dispatched
    BY <1>4 DEF Moves, IInv, ThreadsOK, Effects, Written
  <2>3. ASSUME NEW u \in Threads, NEW v \in Threads, u # v,
               tool'[u].pc = "execute", tool'[v].pc = "execute"
        PROVE  tool'[u].call # tool'[v].call
    BY <1>4, <2>3 DEF Moves, IInv, ThreadsOK
  <2>4. ThreadsOK'
    BY <2>1, <2>2, <2>3 DEF ThreadsOK
  <2>5. LockOK'
    BY <1>4 DEF Moves, IInv, LockOK, Locked
  <2>6. QED BY <2>4, <2>5
<1>5. ThreadsOK' /\ LockOK'
  BY <1>3, <1>4 DEF Effects, ToolEffect
<1>6. EffectsDispatched'
  BY DEF IInv, EffectsDispatched, Effects, ProjectEffect, Written
<1>7. QED BY <1>1, <1>2, <1>5, <1>6 DEF IInv

-----------------------------------------------------------------------------
\* The store's methods.

LEMMA Unwritten == ASSUME IInv, turn' = turn PROVE Written(turn, turn')
BY DEF IInv, Written

LEMMA UpdateWritten ==
  ASSUME NEW t, GoodTurn(t), NEW target \in TurnStatuses \ {"queued"}, CanUpdate(t, target)
  PROVE  Written(t, Update(t, target)) /\ Update(t, target).status = target
<1>1. Update(t, target).tool = t.tool /\ Update(t, target).status = target
  BY DEF GoodTurn, TurnInv, Turn, Update
<1>2. TurnInv(Update(t, target))
  BY UpdateInv DEF GoodTurn
<1>3. QED BY <1>1, <1>2 DEF Written, GoodTurn

LEMMA AppendWritten ==
  ASSUME NEW t, GoodTurn(t), NEW c \in Calls, NEW rev \in Nat, CanAppendToolRun(t, c)
  PROVE  /\ Written(t, AppendToolRun(t, c, rev))
         /\ AppendToolRun(t, c, rev).status = "running"
<1>1. TurnInv(AppendToolRun(t, c, rev))
  BY AppendInv DEF GoodTurn
<1>2. /\ AppendToolRun(t, c, rev).status = "running"
      /\ AppendToolRun(t, c, rev).tool[c] = Proposed(rev)
      /\ \A d \in Calls : d # c => AppendToolRun(t, c, rev).tool[d] = t.tool[d]
  BY DEF AppendToolRun, GoodTurn, TurnInv, Turn, CanAppendToolRun
<1>3. ~t.tool[c].dispatched /\ Proposed(rev).status = "proposed"
  BY DEF CanAppendToolRun, GoodTurn, TurnInv, CallInv, ToolWellFormed, Proposed, NoTool
<1>4. QED BY <1>1, <1>2, <1>3 DEF Written, GoodTurn

LEMMA UpdateToolWritten ==
  ASSUME NEW t, GoodTurn(t), NEW c \in Calls, NEW target \in {"running", "completed", "interrupted"},
         NEW started \in BOOLEAN, CanUpdateToolRun(t, c, target, started)
  PROVE  /\ Written(t, UpdateToolRun(t, c, target, started))
         /\ UpdateToolRun(t, c, target, started).status = "running"
<1> DEFINE u == UpdateToolRun(t, c, target, started)
<1>1. TurnInv(u)
  BY UpdateToolInv DEF GoodTurn
<1>2. t \in Turn /\ t.tool[c] \in ToolRun /\ t.status = "running"
  BY DEF GoodTurn, TurnInv, Turn, CanUpdateToolRun
<1>3. /\ u.status = "running"
      /\ u.tool[c].status = target
      /\ t.tool[c].dispatched => u.tool[c].dispatched
      /\ \A d \in Calls : d # c => u.tool[d] = t.tool[d]
  BY <1>2 DEF UpdateToolRun, Turn, ToolRun
<1> HIDE DEF u
<1>4. Written(t, u)
  BY <1>1, <1>3 DEF Written, GoodTurn
<1>5. QED BY <1>3, <1>4 DEF u

LEMMA BeginDispatchWritten ==
  ASSUME NEW t, GoodTurn(t), NEW c \in Calls, CanBeginDispatch(t, c)
  PROVE  /\ Written(t, BeginDispatch(t, c))
         /\ BeginDispatch(t, c).status = "running"
         /\ BeginDispatch(t, c).tool[c].dispatched
<1> DEFINE u == BeginDispatch(t, c)
<1>1. TurnInv(u)
  BY BeginDispatchInv DEF GoodTurn
<1>2. t \in Turn /\ t.tool[c] \in ToolRun /\ t.status = "running" /\ t.tool[c].status = "running"
  BY DEF GoodTurn, TurnInv, Turn, CanBeginDispatch
<1>3. /\ u.status = "running"
      /\ u.tool[c].status = "running" /\ u.tool[c].dispatched
      /\ \A d \in Calls : d # c => u.tool[d] = t.tool[d]
  BY <1>2 DEF BeginDispatch, Turn, ToolRun
<1> HIDE DEF u
<1>4. Written(t, u)
  BY <1>1, <1>3 DEF Written, GoodTurn
<1>5. QED BY <1>3, <1>4 DEF u

LEMMA RequestApprovalWritten ==
  ASSUME NEW t, GoodTurn(t), NEW c \in Calls, CanRequestApproval(t, c)
  PROVE  /\ Written(t, RequestApproval(t, c))
         /\ RequestApproval(t, c).status = "waiting_approval"
<1> DEFINE u == RequestApproval(t, c)
<1>1. TurnInv(u)
  BY RequestApprovalInv DEF GoodTurn
<1>2. t \in Turn /\ t.tool[c] \in ToolRun
  BY DEF GoodTurn, TurnInv, Turn
<1>3. /\ u.status = "waiting_approval"
      /\ u.tool[c].status = "waiting_approval"
      /\ u.tool[c].dispatched = t.tool[c].dispatched
      /\ \A d \in Calls : d # c => u.tool[d] = t.tool[d]
  BY <1>2 DEF RequestApproval, Turn, ToolRun
<1> HIDE DEF u
<1>4. Written(t, u)
  BY <1>1, <1>3 DEF Written, GoodTurn
<1>5. QED BY <1>3, <1>4 DEF u

\* An approval that is resolved belongs to a call that waits, undispatched.
LEMMA ResolveWritten ==
  ASSUME NEW t, GoodTurn(t), NEW c \in Calls, NEW base, CanResolveApproval(t, c, base)
  PROVE  /\ Written(t, Approve(t, c))
         /\ Written(t, Deny(t, c, TRUE)) /\ Deny(t, c, TRUE).status = "cancelled"
<1>1. t \in Turn /\ t.tool[c] \in ToolRun /\ ~t.tool[c].dispatched
  BY DEF GoodTurn, TurnInv, Turn, CanResolveApproval, CallInv, ToolWellFormed
<1>2. Written(t, Approve(t, c))
  <2> DEFINE u == Approve(t, c)
  <2>1. TurnInv(u)
    BY ApproveInv DEF GoodTurn
  <2>2. /\ u.status = "running" /\ u.tool[c].status = "running"
        /\ \A d \in Calls : d # c => u.tool[d] = t.tool[d]
    BY <1>1 DEF Approve, Turn, ToolRun
  <2> HIDE DEF u
  <2>3. Written(t, u)
    BY <1>1, <2>1, <2>2 DEF Written, GoodTurn
  <2>4. QED BY <2>3 DEF u
<1>3. Written(t, Deny(t, c, TRUE)) /\ Deny(t, c, TRUE).status = "cancelled"
  <2> DEFINE u == Deny(t, c, TRUE)
  <2>1. TurnInv(u)
    BY DenyInv DEF GoodTurn
  <2>2. /\ u.status = "cancelled" /\ ~u.tool[c].dispatched
        /\ \A d \in Calls : d # c => u.tool[d] = t.tool[d]
    BY <1>1 DEF Deny, Turn, ToolRun
  <2> HIDE DEF u
  <2>3. Written(t, u)
    BY <1>1, <2>1, <2>2 DEF Written, GoodTurn
  <2>4. QED BY <2>2, <2>3 DEF u
<1>4. QED BY <1>2, <1>3

LEMMA InterruptWritten ==
  ASSUME NEW t, GoodTurn(t), CanInterruptActive(t)
  PROVE  Written(t, InterruptActive(t)) /\ InterruptActive(t).status = "interrupted"
<1> DEFINE u == InterruptActive(t)
<1>1. TurnInv(u)
  BY InterruptInv DEF GoodTurn
<1>2. u.status = "interrupted"
  BY DEF InterruptActive
<1>3. ASSUME NEW c \in Calls
      PROVE  /\ u.tool[c].dispatched = t.tool[c].dispatched
             /\ u.tool[c].status = "denied" => t.tool[c].status = "denied"
  <2>1. t.tool[c] \in ToolRun
    BY DEF GoodTurn, TurnInv, Turn
  <2>2. u.tool[c] = CASE t.tool[c].status = "running"  -> [t.tool[c] EXCEPT !.status = "interrupted"]
                      [] t.tool[c].status = "proposed" -> [t.tool[c] EXCEPT !.status = "cancelled"]
                      [] OTHER -> t.tool[c]
    BY DEF InterruptActive
  <2>3. QED BY <2>1, <2>2 DEF ToolRun
<1> HIDE DEF u
<1>4. Written(t, u)
  BY <1>1, <1>2, <1>3 DEF Written, GoodTurn
<1>5. QED BY <1>2, <1>4 DEF u

LEMMA CancelWritten ==
  ASSUME NEW t, GoodTurn(t), CanCancel(t)
  PROVE  Written(t, Cancel(t)) /\ Cancel(t).status = "cancelled"
<1>1. CASE t.status = "cancelled"
  BY <1>1 DEF Cancel, Written
<1>2. CASE t.status # "cancelled"
  <2> DEFINE u == Cancel(t)
  <2>1. TurnInv(u)
    BY CancelInv DEF GoodTurn
  <2>2. u.status = "cancelled"
    BY <1>2 DEF Cancel
  <2>3. ASSUME NEW c \in Calls
        PROVE  /\ u.tool[c].dispatched = t.tool[c].dispatched
               /\ u.tool[c].status = "denied" => ~t.tool[c].dispatched
    <3>1. t.tool[c] \in ToolRun /\ CallInv(t.tool[c])
      BY DEF GoodTurn, TurnInv, Turn
    <3>2. u.tool[c] = CloseForCancel(t, c)
      BY <1>2 DEF Cancel
    <3>3. t.tool[c].status = "denied" => ~t.tool[c].dispatched
      BY DEF GoodTurn
    <3>4. QED BY <3>1, <3>2, <3>3 DEF CloseForCancel, ToolRun, CallInv, ToolWellFormed
  <2> HIDE DEF u
  <2>4. Written(t, u)
    BY <2>1, <2>2, <2>3 DEF Written, GoodTurn
  <2>5. QED BY <2>2, <2>4 DEF u
<1>3. QED BY <1>1, <1>2

LEMMA ResumeWritten ==
  ASSUME NEW t, GoodTurn(t), CanResume(t)
  PROVE  Written(t, Resume(t))
<1>1. Resume(t).tool = t.tool /\ Resume(t).status = "running"
  BY DEF GoodTurn, TurnInv, Turn, Resume
<1>2. TurnInv(Resume(t))
  BY ResumeInv DEF GoodTurn
<1>3. QED BY <1>1, <1>2 DEF Written, GoodTurn

-----------------------------------------------------------------------------
\* The ways the threads move.

LEMMA IdleTyped ==
  /\ IdleMain \in MainState
  /\ \A n \in 0 .. MaxAttempts, o \in {"none", "returned", "raised"} :
       [IdleMain EXCEPT !.n = n, !.outcome = o] \in MainState
  /\ IdleTool \in ToolState
<1>1. AbsentTurn \in Turn
  BY NewTurnInv DEF TurnInv
<1>2. 0 \in 0 .. MaxAttempts /\ 0 \in 0 .. MaxRevision
  BY BoundAssumption
<1>3. IdleMain \in MainState
  BY <1>1, <1>2 DEF IdleMain, MainState
<1>4. IdleTool \in ToolState
  BY <1>2 DEF IdleTool, ToolState, ToolSteps
<1>5. QED BY <1>3, <1>4 DEF MainState

\* The main thread alone.
LEMMA OnlyMainEffects ==
  ASSUME IInv, OnlyMain
  PROVE  ToolEffect /\ ProjectEffect
BY DEF IInv, Typed, OnlyMain, project, ToolEffect, Quiet, ProjectEffect

\* To a step other than "idle" and "settle".
LEMMA GoEffect ==
  ASSUME IInv, NEW pc \in {"killed", "orphaned"} \cup OpeningSteps \cup TrySteps \cup ExceptSteps,
         pc # "settle", Go(pc)
  PROVE  MainEffect
BY DEF IInv, Typed, Go, MainState, MainEffect, OpeningSteps, TrySteps, ExceptSteps, AgentSteps

\* To the end: an attempt that returns leaves no running turn behind.
LEMMA EndEffect ==
  ASSUME IInv, NEW outcome \in {"none", "returned", "raised"}, End(outcome),
         turn'.status = "running" => outcome = "raised"
  PROVE  MainEffect
<1>1. main.n \in 0 .. MaxAttempts
  BY DEF IInv, Typed, MainState
<1>2. main' \in MainState
  BY <1>1, IdleTyped DEF End
<1>3. main'.pc = "idle" /\ main'.outcome = outcome
  BY DEF End, IdleMain
<1>4. QED BY <1>2, <1>3 DEF MainEffect

\* The main thread stays where it is, whatever interrupts its agent.
MainStays ==
  \/ main' = main
  \/ \E b \in BOOLEAN : main' = [main EXCEPT !.interrupted = b]
  \/ \E b \in BOOLEAN : main' = [main EXCEPT !.late = b]
  \/ \E b \in BOOLEAN : main' = [main EXCEPT !.cancelled = b]

LEMMA StayEffect ==
  ASSUME IInv, MainStays, turn'.status = "running" => turn.status = "running"
  PROVE  MainEffect
<1>1. main' \in MainState /\ main'.pc = main.pc /\ main'.seen = main.seen
      /\ main'.outcome = main.outcome
  BY DEF IInv, Typed, MainState, MainStays
<1>2. QED BY <1>1 DEF IInv, MainOK, At, MainEffect

LEMMA InterruptsStays == ASSUME NEW w \in Threads, Interrupts(w) PROVE MainStays
BY DEF Interrupts, MainStays

\* A thread leaves the lock, or has not reached it.
LEMMA QuietThread ==
  ASSUME IInv, NEW w \in Threads \cup {None}, NEW x \in ToolState, x.pc \notin LockedSteps,
         tool' = [tool EXCEPT ![w] = x]
  PROVE  ToolEffect
<1>1. tool' \in [Threads -> ToolState]
  BY NoneAssumption DEF IInv, Typed
<1>2. Quiet
  BY NoneAssumption DEF IInv, Typed, Quiet
<1>3. QED BY <1>1, <1>2 DEF ToolEffect

LEMMA EndedEffect ==
  ASSUME IInv, NEW w \in Threads, NEW result \in {"ok", "error"}, Ended(w, result)
  PROVE  ToolEffect
<1>1. PICK x : x \in {IdleTool, [tool[w] EXCEPT !.pc = result]} /\ tool' = [tool EXCEPT ![w] = x]
  BY DEF IInv, Typed, Ended
<1>2. x \in ToolState /\ x.pc \notin LockedSteps
  BY <1>1, IdleTyped DEF IInv, Typed, ToolState, ToolSteps, LockedSteps, IdleTool
<1>3. QED BY <1>1, <1>2, QuietThread

\* A thread moves on under its lock.
LEMMA MoveEffect ==
  ASSUME IInv, NEW w \in Threads, NEW x \in ToolState, tool' = [tool EXCEPT ![w] = x],
         x.attempt = tool[w].attempt,
         tool[w].pc \in LockedSteps \/ ~Locked(tool[w].attempt),
         x.pc \in CallSteps => x.call \in Calls,
         x.pc = "execute" => ~turn.tool[x.call].dispatched /\ turn'.tool[x.call].dispatched
  PROVE  ToolEffect
<1>1. tool' \in [Threads -> ToolState] /\ tool'[w] = x
  BY DEF IInv, Typed
<1>2. Moves(w)
  BY <1>1 DEF IInv, Typed, Moves
<1>3. QED BY <1>1, <1>2 DEF ToolEffect

\* A thread with a call goes to a step other than its handler.
LEMMA GoWithCall ==
  ASSUME IInv, NEW w \in Threads, tool[w].pc \in CallSteps,
         NEW pc \in {"dispatch", "commit", "ambiguous", "failTurn"}, ToolGo(w, pc)
  PROVE  ToolEffect
<1> DEFINE x == [tool[w] EXCEPT !.pc = pc]
<1>1. /\ x \in ToolState /\ x.attempt = tool[w].attempt /\ x.call = tool[w].call /\ x.pc = pc
      /\ tool' = [tool EXCEPT ![w] = x]
  BY DEF IInv, Typed, ToolState, ToolSteps, ToolGo
<1>2. x.call \in Calls
  BY <1>1 DEF IInv, ThreadsOK, MyCall
<1>3. tool[w].pc \in LockedSteps
  BY DEF CallSteps, LockedSteps, ToolSteps
<1> HIDE DEF x
<1>4. QED BY <1>1, <1>2, <1>3, MoveEffect

-----------------------------------------------------------------------------
\* Requests and faults.

LEMMA SubmitEffects == ASSUME IInv, Submit PROVE Effects
<1>1. turn' = QueuedTurn /\ QueuedTurn.status = "queued" /\ turn.status = "absent"
  BY DEF Submit, QueuedTurn
<1>2. GoodTurn(QueuedTurn)
  BY NewTurnInv DEF GoodTurn, QueuedTurn, NoTool, ActiveCalls
<1>3. turn = AbsentTurn
  BY <1>1 DEF IInv, GoodTurn, TurnInv
<1>4. Written(turn, turn')
  BY <1>1, <1>2, <1>3 DEF Written, AbsentTurn, NoTool
<1>5. MainEffect
  BY <1>1, StayEffect DEF Submit, MainStays
<1>6. QED BY <1>4, <1>5, OnlyMainEffects DEF Submit, Effects

LEMMA StartedEffect ==
  ASSUME IInv, main.n < MaxAttempts, Started(main.n + 1)
  PROVE  MainEffect
<1>1. main.n + 1 \in 0 .. MaxAttempts
  BY BoundAssumption DEF IInv, Typed, MainState
<1>2. IdleMain \in MainState
  BY IdleTyped
<1>3. main' = [IdleMain EXCEPT !.n = main.n + 1, !.pc = "load"]
  BY DEF Started
<1>4. main' \in MainState /\ main'.pc = "load"
  BY <1>1, <1>2, <1>3 DEF MainState, OpeningSteps
<1>5. QED BY <1>4 DEF MainEffect

LEMMA AttemptEffects == ASSUME IInv, Attempt PROVE Effects
BY Unwritten, StartedEffect, OnlyMainEffects DEF Attempt, Effects

LEMMA ApproveAndAttemptEffects == ASSUME IInv, ApproveAndAttempt PROVE Effects
<1>1. Written(turn, turn')
  <2>1. PICK c \in Calls : /\ CanResolveApproval(turn, c, turn.tool[c].base)
                           /\ turn' = Approve(turn, c)
    BY DEF ApproveAndAttempt, CanApprove
  <2>2. GoodTurn(turn)
    BY DEF IInv
  <2>3. QED BY <2>1, <2>2, ResolveWritten
<1>2. QED BY <1>1, StartedEffect, OnlyMainEffects DEF ApproveAndAttempt, Effects

LEMMA DenyCheckpointEffects == ASSUME IInv, DenyCheckpoint PROVE Effects
<1>1. Written(turn, turn') /\ turn'.status = "cancelled"
  BY ResolveWritten DEF DenyCheckpoint, IInv
<1>2. MainEffect
  BY <1>1, StayEffect DEF DenyCheckpoint, MainStays
<1>3. ToolEffect /\ ProjectEffect
  BY OnlyMainEffects DEF DenyCheckpoint, OnlyMain, project
<1>4. QED BY <1>1, <1>2, <1>3 DEF Effects

LEMMA CancelAttemptEffects == ASSUME IInv, CancelAttempt PROVE Effects
<1>1. MainEffect
  BY StayEffect DEF CancelAttempt, MainStays
<1>2. QED BY <1>1, Unwritten, OnlyMainEffects DEF CancelAttempt, Effects

LEMMA DeadlinePassesEffects == ASSUME IInv, DeadlinePasses PROVE Effects
<1>1. PICK n \in Disturbed :
        LET asking == {w \in Threads : tool[w].attempt = n /\ tool[w].pc \in {"bind", "enter"}}
            inTry  == n = main.n /\ main.pc \in {"init", "think", "tool", "ran"}
        IN  /\ main' = [main EXCEPT !.late = @ \/ inTry]
            /\ tool' = [w \in Threads |-> [tool[w] EXCEPT !.late = @ \/ w \in asking]]
  BY DEF DeadlinePasses
<1> DEFINE asking == {w \in Threads : tool[w].attempt = n /\ tool[w].pc \in {"bind", "enter"}}
           inTry  == n = main.n /\ main.pc \in {"init", "think", "tool", "ran"}
<1>2. \E b \in BOOLEAN : main' = [main EXCEPT !.late = b]
  BY <1>1 DEF IInv, Typed, MainState
<1>3. MainEffect
  BY <1>2, StayEffect DEF DeadlinePasses, MainStays
<1>4. \A w \in Threads : \E b \in BOOLEAN : tool'[w] = [tool[w] EXCEPT !.late = b]
  BY <1>1 DEF IInv, Typed, ToolState
<1>5. ToolEffect
  <2>1. \A w \in Threads : /\ tool'[w] \in ToolState /\ tool'[w].pc = tool[w].pc
                           /\ tool'[w].attempt = tool[w].attempt /\ tool'[w].call = tool[w].call
    <3> TAKE w \in Threads
    <3>1. tool[w] \in ToolState
      BY DEF IInv, Typed
    <3>2. QED BY <1>4, <3>1 DEF ToolState
  <2>2. tool' = [w \in Threads |-> tool'[w]]
    BY <1>1
  <2>3. QED BY <2>1, <2>2 DEF ToolEffect, Quiet
<1>6. Written(turn, turn') /\ ProjectEffect
  BY Unwritten DEF DeadlinePasses, IInv, Typed, project, ProjectEffect
<1>7. QED BY <1>3, <1>5, <1>6 DEF Effects

LEMMA ExternalEditEffects == ASSUME IInv, ExternalEdit PROVE Effects
<1>1. MainEffect
  BY StayEffect DEF ExternalEdit, MainStays
<1>2. ToolEffect
  BY DEF ExternalEdit, IInv, Typed, ToolEffect, Quiet
<1>3. ProjectEffect
  BY BoundAssumption DEF ExternalEdit, IInv, Typed, ProjectEffect
<1>4. QED BY <1>1, <1>2, <1>3, Unwritten DEF ExternalEdit, Effects

LEMMA KillEffects == ASSUME IInv, Kill PROVE Effects
<1>1. Written(turn, turn') /\ ProjectEffect
  BY Unwritten DEF Kill, IInv, Typed, project, ProjectEffect
<1>2. ToolEffect
  BY IdleTyped DEF Kill, ToolEffect, Quiet, IdleTool, LockedSteps
<1>3. MainEffect
  <2>1. main \in MainState /\ IdleMain \in MainState
    BY IdleTyped DEF IInv, Typed
  <2>2. PICK pc \in {"killed", "orphaned"} :
          main' = [IdleMain EXCEPT !.n = main.n, !.outcome = main.outcome,
                                   !.cancelled = main.cancelled, !.pc = pc]
    BY DEF Kill
  <2>3. main' \in MainState /\ main'.pc \in {"killed", "orphaned"}
    BY <2>1, <2>2 DEF MainState
  <2>4. QED BY <2>3 DEF MainEffect
<1>4. QED BY <1>1, <1>2, <1>3 DEF Effects

LEMMA RestartEffects == ASSUME IInv, Restart PROVE Effects
<1>1. Written(turn, turn') /\ turn'.status # "running"
  <2>1. GoodTurn(turn) /\ TurnInv(turn)
    BY DEF IInv, GoodTurn
  <2>2. CASE turn.status = "running"
    <3>1. turn' \in {Cancel(turn), InterruptActive(turn)}
      BY <2>2 DEF Restart
    <3>2. QED BY <2>1, <2>2, <3>1, ClosableInv, CancelWritten, InterruptWritten
  <2>3. CASE turn.status = "queued"
    <3>1. turn' \in {Cancel(turn), Update(turn, "interrupted")}
      BY <2>3 DEF Restart
    <3>2. CanUpdate(turn, "interrupted")
      <4>1. ActiveCalls(turn) = {} /\ PendingCalls(turn) = {}
        BY <2>1, <2>3 DEF GoodTurn, TurnInv
      <4>2. Update(turn, "interrupted").tool = turn.tool
            /\ Update(turn, "interrupted").status = "interrupted"
        BY <2>1 DEF TurnInv, Turn, Update
      <4>3. TurnWellFormed(Update(turn, "interrupted"))
        BY <2>1, <4>1, <4>2 DEF TurnInv, CallInv, TurnWellFormed, ActiveCalls, PendingCalls
      <4>4. QED BY <2>3, <4>3 DEF CanUpdate, TurnTransitions
    <3>3. QED BY <2>1, <2>3, <3>1, <3>2, ClosableInv, CancelWritten, UpdateWritten
  <2>4. CASE turn.status \notin {"running", "queued"}
    <3>1. turn' = turn
      BY <2>4 DEF Restart
    <3>2. QED BY <2>4, <3>1, Unwritten
  <2>5. QED BY <2>2, <2>3, <2>4
<1>2. MainEffect
  BY <1>1, EndEffect DEF Restart, IInv, Typed, MainState
<1>3. QED BY <1>1, <1>2, OnlyMainEffects DEF Restart, Effects

-----------------------------------------------------------------------------
\* The main thread.

\* A write of the main thread that ends the attempt, whether the store accepts it or
\* refuses: the attempt returns only if the turn was closed.
LEMMA CloseEffects ==
  ASSUME IInv, OnlyMain, NEW accepted \in BOOLEAN, NEW record, NEW outcome \in {"returned", "raised"},
         accepted => Written(turn, record) /\ record.status # "running",
         WriteOr(accepted, record, End(outcome), End("raised"))
  PROVE  Effects
<1>1. Written(turn, turn')
  BY Unwritten DEF WriteOr
<1>2. MainEffect
  BY EndEffect DEF WriteOr
<1>3. QED BY <1>1, <1>2, OnlyMainEffects DEF Effects

LEMMA CloseOrExceptEffects ==
  ASSUME IInv, OnlyMain, NEW accepted \in BOOLEAN, NEW record,
         accepted => Written(turn, record) /\ record.status # "running",
         WriteOr(accepted, record, End("returned"), Go("except"))
  PROVE  Effects
<1>1. Written(turn, turn')
  BY Unwritten DEF WriteOr
<1>2. MainEffect
  <2>1. CASE End("returned") /\ accepted /\ turn' = record
    BY <2>1, EndEffect
  <2>2. CASE Go("except")
    BY <2>2, GoEffect DEF ExceptSteps
  <2>3. QED BY <2>1, <2>2 DEF WriteOr
<1>3. QED BY <1>1, <1>2, OnlyMainEffects DEF Effects

\* A step of the main thread that writes nothing.
LEMMA ReadEffects ==
  ASSUME IInv, OnlyMain, UNCHANGED turn, MainEffect
  PROVE  Effects
BY Unwritten, OnlyMainEffects DEF Effects

\* The accepted writes that close the turn.
LEMMA Closings ==
  ASSUME IInv
  PROVE  /\ \A target \in TerminalTurns : CanUpdate(turn, target) =>
              Written(turn, Update(turn, target)) /\ Update(turn, target).status # "running"
         /\ CanCancel(turn) => Written(turn, Cancel(turn)) /\ Cancel(turn).status # "running"
         /\ CanInterruptActive(turn) =>
              Written(turn, InterruptActive(turn)) /\ InterruptActive(turn).status # "running"
<1>1. GoodTurn(turn)
  BY DEF IInv
<1>2. QED BY <1>1, UpdateWritten, CancelWritten, InterruptWritten

LEMMA LoadEffects == ASSUME IInv, Load PROVE Effects
<1>1. MainEffect
  <2>1. CASE turn.status # "running" /\ turn' = turn /\ End("returned")
    BY <2>1, EndEffect
  <2>2. CASE End("raised")
    BY <2>2, EndEffect
  <2>3. CASE Go("begin")
    BY <2>3, GoEffect DEF OpeningSteps
  <2>4. CASE \/ main' = [main EXCEPT !.pc = "resume", !.resumed = TRUE]
             \/ main' = [main EXCEPT !.pc = "recover", !.resumed = TRUE, !.seen = turn]
    <3>1. turn \in Turn /\ main \in MainState
      BY DEF IInv, GoodTurn, TurnInv, Typed
    <3>2. main' \in MainState /\ main'.pc \in {"resume", "recover"}
      BY <2>4, <3>1 DEF MainState, OpeningSteps
    <3>3. QED BY <3>2 DEF MainEffect
  <2>5. QED BY <2>1, <2>2, <2>3, <2>4 DEF Load
<1>2. QED BY <1>1, ReadEffects DEF Load

LEMMA OpenEffects == ASSUME IInv, Open PROVE Effects
<1> DEFINE record   == IF At("begin") THEN Update(turn, "running") ELSE Resume(turn)
           accepted == IF At("begin") THEN CanUpdate(turn, "running") ELSE CanResume(turn)
<1>1. GoodTurn(turn) /\ main \in MainState
  BY DEF IInv, Typed
<1>2. accepted => Written(turn, record)
  BY <1>1, UpdateWritten, ResumeWritten
<1>3. \/ accepted /\ turn' = record /\ main' = [main EXCEPT !.pc = "recover", !.seen = record]
      \/ turn' = turn /\ End("raised")
  BY DEF Open, WriteOr
<1> HIDE DEF record, accepted
<1>4. CASE accepted /\ turn' = record /\ main' = [main EXCEPT !.pc = "recover", !.seen = record]
  <2>1. record \in Turn
    BY <1>2, <1>4 DEF Written, GoodTurn, TurnInv
  <2>2. main' \in MainState /\ main'.pc = "recover"
    BY <1>1, <1>4, <2>1 DEF MainState, OpeningSteps
  <2>3. MainEffect
    BY <2>2 DEF MainEffect
  <2>4. QED BY <1>2, <1>4, <2>3, OnlyMainEffects DEF Open, Effects
<1>5. CASE turn' = turn /\ End("raised")
  BY <1>5, EndEffect, ReadEffects DEF Open
<1>6. QED BY <1>3, <1>4, <1>5

LEMMA ActiveCallIn == ASSUME NEW t, ActiveCall(t) # None PROVE ActiveCall(t) \in Calls
BY DEF ActiveCall, ActiveCalls

\* The main thread goes to settle only a call that it has seen.
LEMMA RecoverEffects == ASSUME IInv, Recover PROVE Effects
<1>1. CASE Go("gate")
  BY <1>1, GoEffect, ReadEffects DEF Recover, OpeningSteps
<1>2. CASE Go("settle") /\ ActiveCall(main.seen) # None
  <2>1. main' \in MainState /\ main'.pc = "settle" /\ main'.seen = main.seen
    BY <1>2 DEF Go, IInv, Typed, MainState, OpeningSteps
  <2>2. MainEffect
    BY <1>2, <2>1, ActiveCallIn DEF MainEffect
  <2>3. QED BY <2>2, ReadEffects DEF Recover
<1>3. QED BY <1>1, <1>2 DEF Recover

LEMMA SettleEffects == ASSUME IInv, Settle PROVE Effects
<1> DEFINE c == ActiveCall(main.seen)
           accepted == CanUpdateToolRun(turn, c, "interrupted", TRUE)
<1>1. GoodTurn(turn) /\ c \in Calls
  BY DEF IInv, MainOK, Settle
<1>2. accepted => Written(turn, UpdateToolRun(turn, c, "interrupted", TRUE))
  BY <1>1, UpdateToolWritten
<1>3. CASE accepted /\ turn' = UpdateToolRun(turn, c, "interrupted", TRUE) /\ Go("settleTurn")
  <2>1. MainEffect
    BY <1>3, GoEffect DEF OpeningSteps
  <2>2. QED BY <1>2, <1>3, <2>1, OnlyMainEffects DEF Settle, Effects
<1>4. CASE turn' = turn /\ End("raised")
  BY <1>4, EndEffect, ReadEffects DEF Settle
<1>5. QED BY <1>3, <1>4 DEF Settle, WriteOr

LEMMA SettleTurnEffects == ASSUME IInv, SettleTurn PROVE Effects
<1>1. CanUpdate(turn, "failed") \in BOOLEAN
  BY DEF CanUpdate
<1>2. QED BY <1>1, Closings, CloseEffects DEF SettleTurn

LEMMA GateEffects == ASSUME IInv, Gate PROVE Effects
<1>1. CanInterruptActive(turn) \in BOOLEAN /\ CanCancel(turn) \in BOOLEAN
  BY DEF CanInterruptActive, CanCancel
<1>2. CASE WriteOr(CanInterruptActive(turn), InterruptActive(turn), End("raised"), End("raised"))
  BY <1>1, <1>2, Closings, CloseEffects DEF Gate
<1>3. CASE WriteOr(CanCancel(turn), Cancel(turn), End("returned"), End("raised"))
  BY <1>1, <1>3, Closings, CloseEffects DEF Gate
<1>4. CASE /\ turn' = turn
           /\ \/ main' = [main EXCEPT !.pc = "approved"]
              \/ main' = [main EXCEPT !.pc = "init", !.seen = AbsentTurn, !.resumed = FALSE]
  <2>1. main \in MainState /\ AbsentTurn \in Turn
    BY NewTurnInv DEF IInv, Typed, TurnInv
  <2>2. main' \in MainState /\ main'.pc \in {"approved", "init"}
    BY <1>4, <2>1 DEF MainState, TrySteps
  <2>3. MainEffect
    BY <2>2 DEF MainEffect
  <2>4. QED BY <1>4, <2>3, ReadEffects DEF Gate
<1>5. QED BY <1>2, <1>3, <1>4 DEF Gate

\* A new thread has yet to take the lock.
LEMMA FreshIn == IdleThreads # {} => FreshThread \in Threads
BY DEF IdleThreads, FreshThread

LEMMA ExecuteApprovedEffects == ASSUME IInv, ExecuteApproved PROVE Effects
<1> DEFINE w == FreshThread
           x == [IdleTool EXCEPT !.pc = "enter", !.attempt = main.n,
                                 !.joined = TRUE, !.late = Late, !.call = ActiveCall(main.seen)]
<1>1. w \in Threads /\ main \in MainState
  BY FreshIn DEF ExecuteApproved, IInv, Typed
<1>2. main' = [main EXCEPT !.seen = AbsentTurn, !.resumed = FALSE, !.thread = w]
      /\ tool' = [tool EXCEPT ![w] = x]
  BY DEF ExecuteApproved
<1>3. AbsentTurn \in Turn /\ At("approved")
  BY NewTurnInv DEF TurnInv, ExecuteApproved
<1>4. ActiveCall(main.seen) \in Calls \cup {None}
  BY ActiveCallIn
<1>5. x \in ToolState /\ x.pc = "enter"
  BY <1>1, <1>4, IdleTyped DEF ToolState, ToolSteps, MainState, Late, IdleTool
<1> HIDE DEF w, x
<1>6. ToolEffect
  BY <1>1, <1>2, <1>5, QuietThread DEF LockedSteps
<1>7. main' \in MainState /\ main'.pc = "approved"
  BY <1>1, <1>2, <1>3 DEF MainState, At
<1>8. MainEffect
  BY <1>7 DEF MainEffect
<1>9. QED BY <1>6, <1>8, Unwritten
      DEF ExecuteApproved, Effects, ProjectEffect, project, IInv, Typed

LEMMA CollectEffects ==
  ASSUME IInv, NEW pc \in {"reply", "except", "think"}, Collect(pc), UNCHANGED <<turn, project>>
  PROVE  Effects
<1>1. main' = [main EXCEPT !.pc = pc, !.thread = None] /\ tool' = [tool EXCEPT ![main.thread] = IdleTool]
  BY DEF Collect
<1>2. main.thread \in Threads \cup {None} /\ main \in MainState
  BY DEF IInv, Typed, MainState
<1>3. ToolEffect
  BY <1>1, <1>2, IdleTyped, QuietThread DEF IdleTool, LockedSteps
<1>4. main' \in MainState /\ main'.pc = pc
  BY <1>1, <1>2 DEF MainState, TrySteps, AgentSteps, ExceptSteps
<1>5. MainEffect
  BY <1>4 DEF MainEffect
<1>6. QED BY <1>3, <1>5, Unwritten DEF Effects, ProjectEffect, project, IInv, Typed

LEMMA ReturnsEffects == ASSUME IInv, ApprovedReturns \/ ToolReturns PROVE Effects
BY CollectEffects DEF ApprovedReturns, ToolReturns

LEMMA CreateAgentEffects == ASSUME IInv, CreateAgent PROVE Effects
BY GoEffect, ReadEffects DEF CreateAgent, TrySteps, AgentSteps, ExceptSteps

LEMMA WatchEffects == ASSUME IInv, Watch PROVE Effects
<1>1. MainEffect
  BY StayEffect DEF Watch, MainStays
<1>2. QED BY <1>1, ReadEffects DEF Watch

LEMMA CallToolEffects == ASSUME IInv, CallTool PROVE Effects
<1> DEFINE w == FreshThread
           x == [IdleTool EXCEPT !.pc = "bind", !.attempt = main.n,
                                 !.joined = TRUE, !.late = Late]
<1>1. w \in Threads /\ main \in MainState
  BY FreshIn DEF CallTool, IInv, Typed
<1>2. main' = [main EXCEPT !.pc = "tool", !.thread = w] /\ tool' = [tool EXCEPT ![w] = x]
  BY DEF CallTool
<1>3. x \in ToolState /\ x.pc = "bind"
  BY <1>1, IdleTyped DEF ToolState, ToolSteps, MainState, Late, IdleTool
<1> HIDE DEF w, x
<1>4. ToolEffect
  BY <1>1, <1>2, <1>3, QuietThread DEF LockedSteps
<1>5. main' \in MainState /\ main'.pc = "tool"
  BY <1>1, <1>2 DEF MainState, TrySteps, AgentSteps
<1>6. MainEffect
  BY <1>5 DEF MainEffect
<1>7. QED BY <1>4, <1>6, Unwritten DEF CallTool, Effects, ProjectEffect, project, IInv, Typed

\* An abandoned thread keeps its place under the lock.
LEMMA AbandonToolEffects == ASSUME IInv, AbandonTool PROVE Effects
<1> DEFINE w == main.thread
<1>1. w \in Threads \cup {None} /\ main \in MainState /\ tool \in [Threads -> ToolState]
  BY DEF IInv, Typed, MainState
<1>2. main' = [main EXCEPT !.pc = "think", !.thread = None]
      /\ tool' = [tool EXCEPT ![w] = IF @.pc \in {"ok", "error"} THEN IdleTool
                                     ELSE [@ EXCEPT !.joined = FALSE]]
  BY DEF AbandonTool
<1>3. ToolEffect
  <2>1. CASE w \in Threads
    <3>1. PICK x : /\ x \in {IdleTool, [tool[w] EXCEPT !.joined = FALSE]}
                   /\ tool' = [tool EXCEPT ![w] = x]
      BY <1>2
    <3>2. tool[w] \in ToolState
      BY <1>1, <2>1
    <3> HIDE DEF w
    <3>3. IdleTool \in ToolState /\ IdleTool.pc \notin LockedSteps
      BY IdleTyped DEF IdleTool, LockedSteps
    <3>4. LET y == [tool[w] EXCEPT !.joined = FALSE] IN
          y \in ToolState /\ y.pc = tool[w].pc /\ y.attempt = tool[w].attempt
          /\ y.call = tool[w].call
      BY <3>2 DEF ToolState
    <3>5. /\ x \in ToolState
          /\ x.pc \in LockedSteps =>
               x.pc = tool[w].pc /\ x.attempt = tool[w].attempt /\ x.call = tool[w].call
      BY <3>1, <3>3, <3>4
    <3>6. QED BY <1>1, <2>1, <3>1, <3>5 DEF ToolEffect, Quiet
  <2>2. CASE w = None
    <3>1. tool' = tool
      BY <1>1, <1>2, <2>2, NoneAssumption
    <3>2. QED BY <1>1, <3>1 DEF ToolEffect, Quiet
  <2>3. QED BY <1>1, <2>1, <2>2
<1>4. main' \in MainState /\ main'.pc = "think"
  BY <1>1, <1>2 DEF MainState, TrySteps, AgentSteps
<1>5. MainEffect
  BY <1>4 DEF MainEffect
<1>6. QED BY <1>3, <1>5, Unwritten DEF AbandonTool, Effects, ProjectEffect, project, IInv, Typed

LEMMA AgentReturnsEffects == ASSUME IInv, AgentReturns PROVE Effects
<1>1. PICK pc \in {"ran", "except"} : main' = [main EXCEPT !.pc = pc, !.interrupted = FALSE]
  BY DEF AgentReturns
<1>2. main' \in MainState /\ main'.pc = pc
  BY <1>1 DEF IInv, Typed, MainState, TrySteps, ExceptSteps
<1>3. MainEffect
  BY <1>2 DEF MainEffect
<1>4. QED BY <1>3, ReadEffects DEF AgentReturns

LEMMA AfterRunEffects == ASSUME IInv, AfterRun PROVE Effects
<1>1. MainEffect
  <2>1. CASE turn.status # "running" /\ turn' = turn /\ End("returned")
    BY <2>1, EndEffect
  <2>2. CASE Go("cancel") \/ Go("except") \/ Go("reply")
    BY <2>2, GoEffect DEF TrySteps, ExceptSteps
  <2>3. QED BY <2>1, <2>2 DEF AfterRun
<1>2. QED BY <1>1, ReadEffects DEF AfterRun

LEMMA CancelRunEffects == ASSUME IInv, CancelRun PROVE Effects
<1>1. CanCancel(turn) \in BOOLEAN
  BY DEF CanCancel
<1>2. QED BY <1>1, Closings, CloseOrExceptEffects DEF CancelRun

LEMMA CompleteTurnEffects == ASSUME IInv, CompleteTurn PROVE Effects
<1>1. CanUpdate(turn, "completed") \in BOOLEAN
  BY DEF CanUpdate
<1>2. QED BY <1>1, Closings, CloseOrExceptEffects DEF CompleteTurn

LEMMA ExceptEffects == ASSUME IInv, Except PROVE Effects
<1>1. MainEffect
  <2>1. CASE End("raised")
    BY <2>1, EndEffect
  <2>2. CASE Go("exceptFail") \/ Go("exceptActive")
    BY <2>2, GoEffect DEF ExceptSteps
  <2>3. QED BY <2>1, <2>2 DEF Except
<1>2. QED BY <1>1, ReadEffects DEF Except

LEMMA CloseAfterErrorEffects == ASSUME IInv, CloseAfterError PROVE Effects
<1>1. CanInterruptActive(turn) \in BOOLEAN /\ CanUpdate(turn, "failed") \in BOOLEAN
  BY DEF CanInterruptActive, CanUpdate
<1>2. CASE WriteOr(CanInterruptActive(turn), InterruptActive(turn), End("raised"), End("raised"))
  BY <1>1, <1>2, Closings, CloseEffects DEF CloseAfterError
<1>3. CASE WriteOr(CanUpdate(turn, "failed"), Update(turn, "failed"), End("raised"), End("raised"))
  BY <1>1, <1>3, Closings, CloseEffects DEF CloseAfterError
<1>4. QED BY <1>2, <1>3 DEF CloseAfterError

LEMMA MainStepEffects == ASSUME IInv, MainStep PROVE Effects
BY LoadEffects, OpenEffects, RecoverEffects, SettleEffects, SettleTurnEffects, GateEffects,
   ExecuteApprovedEffects, ReturnsEffects, CreateAgentEffects, CallToolEffects,
   AbandonToolEffects, AgentReturnsEffects, AfterRunEffects, CancelRunEffects,
   CompleteTurnEffects, ExceptEffects, CloseAfterErrorEffects DEF MainStep

-----------------------------------------------------------------------------
\* The tool threads.

\* A thread's step that leaves the turn and the project alone.
LEMMA ThreadReads ==
  ASSUME IInv, UNCHANGED <<turn, project>>, ToolEffect, MainStays
  PROVE  Effects
BY Unwritten, StayEffect DEF Effects, ProjectEffect, project, IInv, Typed

\* One that writes the turn: no thread makes a turn run.
LEMMA ThreadWrites ==
  ASSUME IInv, UNCHANGED project, Written(turn, turn'), ToolEffect, MainStays,
         turn'.status = "running" => turn.status = "running"
  PROVE  Effects
BY StayEffect DEF Effects, ProjectEffect, project, IInv, Typed

LEMMA RefusedEffects == ASSUME IInv, NEW w \in Threads, Refused(w) PROVE Effects
BY EndedEffect, InterruptsStays, ThreadReads DEF Refused, project

LEMMA ToolTyped == ASSUME IInv, NEW w \in Threads PROVE tool[w] \in ToolState
BY DEF IInv, Typed

LEMMA BindEffects == ASSUME IInv, NEW w \in Threads, Bind(w) PROVE Effects
<1> DEFINE x == [tool[w] EXCEPT !.pc = "enter", !.base = revision]
<1>1. tool[w] \in ToolState /\ revision \in 0 .. MaxRevision
  BY ToolTyped DEF IInv, Typed
<1>2. x \in ToolState /\ x.pc \notin LockedSteps
  BY <1>1 DEF ToolState, ToolSteps, LockedSteps
<1>3. tool' = [tool EXCEPT ![w] = x]
  BY DEF Bind
<1> HIDE DEF x
<1>4. ToolEffect
  BY <1>2, <1>3, QuietThread
<1>5. QED BY <1>4, ThreadReads DEF Bind, MainStays, project

LEMMA EnterEffects == ASSUME IInv, NEW w \in Threads, Enter(w) PROVE Effects
<1>1. CASE Interrupts(w) /\ Ended(w, "error")
  BY <1>1, EndedEffect, InterruptsStays, ThreadReads DEF Enter, project
<1>2. CASE tool' = [tool EXCEPT ![w].pc = "load", ![w].late = FALSE] /\ UNCHANGED main
  <2> DEFINE x == [tool[w] EXCEPT !.pc = "load", !.late = FALSE]
  <2>1. x \in ToolState /\ x.attempt = tool[w].attempt /\ x.pc = "load"
    BY ToolTyped DEF ToolState, ToolSteps
  <2>2. tool' = [tool EXCEPT ![w] = x]
    BY <1>2
  <2> HIDE DEF x
  <2>3. ToolEffect
    BY <2>1, <2>2, MoveEffect DEF Enter, CallSteps
  <2>4. QED BY <1>2, <2>3, ThreadReads DEF Enter, MainStays, project
<1>3. QED BY <1>1, <1>2 DEF Enter

LEMMA LoadTurnEffects == ASSUME IInv, NEW w \in Threads, LoadTurn(w) PROVE Effects
<1> DEFINE c == ActiveCall(turn)
<1>1. tool[w].pc \in LockedSteps
  BY DEF LoadTurn, ToolAt, LockedSteps, ToolSteps
<1>2. CASE ToolGo(w, "propose") /\ UNCHANGED <<turn, project, main>>
  <2> DEFINE x == [tool[w] EXCEPT !.pc = "propose"]
  <2>1. x \in ToolState /\ x.attempt = tool[w].attempt /\ x.pc = "propose"
    BY ToolTyped DEF ToolState, ToolSteps
  <2>2. tool' = [tool EXCEPT ![w] = x]
    BY <1>2 DEF ToolGo
  <2> HIDE DEF x
  <2>3. ToolEffect
    BY <1>1, <2>1, <2>2, MoveEffect DEF CallSteps
  <2>4. QED BY <1>2, <2>3, ThreadReads DEF MainStays, project
<1>3. CASE /\ c # None
           /\ tool' = [tool EXCEPT ![w].call = c, ![w].base = 0,
                         ![w].pc = IF turn.tool[c].status = "proposed" THEN "decide" ELSE "dispatch"]
           /\ UNCHANGED <<turn, project, main>>
  <2>1. c \in Calls /\ 0 \in 0 .. MaxRevision
    BY <1>3, ActiveCallIn, BoundAssumption
  <2>2. PICK pc \in {"decide", "dispatch"} :
          tool' = [tool EXCEPT ![w] = [tool[w] EXCEPT !.call = c, !.base = 0, !.pc = pc]]
    BY <1>3
  <2> DEFINE x == [tool[w] EXCEPT !.call = c, !.base = 0, !.pc = pc]
  <2> HIDE DEF c
  <2>3. x \in ToolState /\ x.attempt = tool[w].attempt /\ x.pc = pc /\ x.call = c
    BY <2>1, ToolTyped DEF ToolState, ToolSteps
  <2> HIDE DEF x
  <2>4. ToolEffect
    BY <1>1, <2>1, <2>2, <2>3, MoveEffect DEF x
  <2>5. QED BY <1>3, <2>4, ThreadReads DEF MainStays, project
<1>4. CASE Refused(w)
  BY <1>4, RefusedEffects
<1>5. QED BY <1>2, <1>3, <1>4 DEF LoadTurn

LEMMA FreshCallIn ==
  HasRoom(turn) => FreshCall \in Calls
BY DEF HasRoom, FreshCall

LEMMA ProposeEffects == ASSUME IInv, NEW w \in Threads, Propose(w) PROVE Effects
<1> DEFINE c == FreshCall
           u == AppendToolRun(turn, c, tool[w].base)
<1>1. GoodTurn(turn) /\ tool[w] \in ToolState /\ tool[w].base \in Nat
  BY ToolTyped, BoundAssumption DEF IInv, ToolState
<1>2. MainStays /\ UNCHANGED project
  BY DEF Propose, MainStays
<1>3. CASE /\ HasRoom(turn) /\ CanAppendToolRun(turn, c) /\ turn' = u
           /\ tool' = [tool EXCEPT ![w].pc = "decide", ![w].call = c, ![w].base = 0]
  <2>1. c \in Calls /\ 0 \in 0 .. MaxRevision
    BY <1>3, FreshCallIn, BoundAssumption
  <2>2. Written(turn, turn') /\ turn.status = "running"
    BY <1>1, <1>3, <2>1, AppendWritten DEF CanAppendToolRun
  <2> DEFINE x == [tool[w] EXCEPT !.pc = "decide", !.call = c, !.base = 0]
  <2>3. tool' = [tool EXCEPT ![w] = x]
    BY <1>3
  <2> HIDE DEF c
  <2>4. x \in ToolState /\ x.attempt = tool[w].attempt /\ x.pc = "decide" /\ x.call = c
    BY <1>1, <2>1 DEF ToolState, ToolSteps
  <2>5. tool[w].pc \in LockedSteps
    BY DEF Propose, ToolAt, LockedSteps, ToolSteps
  <2> HIDE DEF x
  <2>6. ToolEffect
    BY <2>1, <2>3, <2>4, <2>5, MoveEffect
  <2>7. QED BY <1>2, <2>2, <2>6, ThreadWrites
<1>4. CASE turn' = turn /\ Ended(w, "error")
  BY <1>2, <1>4, EndedEffect, ThreadReads
<1>5. QED BY <1>3, <1>4 DEF Propose, WriteOr

\* A write that ends the thread, or sends it on with its call.
LEMMA ThreadGoesOrEnds ==
  ASSUME IInv, NEW w \in Threads, tool[w].pc \in CallSteps, MainStays, UNCHANGED project,
         Written(turn, turn'), turn'.status = "running" => turn.status = "running",
         \/ \E result \in {"ok", "error"} : Ended(w, result)
         \/ \E pc \in {"dispatch", "commit", "ambiguous", "failTurn"} : ToolGo(w, pc)
  PROVE  Effects
<1>1. ToolEffect
  BY EndedEffect, GoWithCall
<1>2. QED BY <1>1, ThreadWrites

LEMMA DecideEffects == ASSUME IInv, NEW w \in Threads, Decide(w) PROVE Effects
<1> DEFINE c == MyCall(w)
<1>1. GoodTurn(turn) /\ tool[w].pc \in CallSteps /\ c \in Calls /\ UNCHANGED project
  BY DEF IInv, Decide, ToolAt, CallSteps, ThreadsOK
<1>2. Written(turn, turn) /\ (Interrupts(w) \/ UNCHANGED main => MainStays)
  BY <1>1, InterruptsStays DEF Written, MainStays
<1>3. CASE /\ WriteOr(CanUpdateToolRun(turn, c, "running", FALSE),
                      UpdateToolRun(turn, c, "running", FALSE),
                      ToolGo(w, "dispatch"), Ended(w, "error"))
           /\ UNCHANGED main
  <2>1. CanUpdateToolRun(turn, c, "running", FALSE) =>
          turn.status = "running" /\ Written(turn, UpdateToolRun(turn, c, "running", FALSE))
    BY <1>1, UpdateToolWritten DEF CanUpdateToolRun
  <2>2. Written(turn, turn') /\ (turn'.status = "running" => turn.status = "running")
    BY <1>2, <1>3, <2>1 DEF WriteOr
  <2>3. ToolGo(w, "dispatch") \/ Ended(w, "error")
    BY <1>3 DEF WriteOr
  <2>4. QED BY <1>1, <1>2, <1>3, <2>2, <2>3, ThreadGoesOrEnds
<1>4. CASE /\ WriteOr(CanRequestApproval(turn, c), RequestApproval(turn, c),
                      Interrupts(w), UNCHANGED main)
           /\ Ended(w, "error")
  <2>1. CanRequestApproval(turn, c) =>
          Written(turn, RequestApproval(turn, c)) /\ RequestApproval(turn, c).status # "running"
    BY <1>1, RequestApprovalWritten
  <2>2. Written(turn, turn') /\ (turn'.status = "running" => turn.status = "running")
    BY <1>2, <1>4, <2>1 DEF WriteOr
  <2>3. MainStays
    BY <1>2, <1>4 DEF WriteOr
  <2>4. QED BY <1>1, <1>4, <2>2, <2>3, ThreadGoesOrEnds
<1>5. CASE /\ WriteOr(CanCancel(turn), Cancel(turn), Interrupts(w), UNCHANGED main)
           /\ Ended(w, "error")
  <2>1. CanCancel(turn) => Written(turn, Cancel(turn)) /\ Cancel(turn).status # "running"
    BY <1>1, CancelWritten
  <2>2. Written(turn, turn') /\ (turn'.status = "running" => turn.status = "running")
    BY <1>2, <1>5, <2>1 DEF WriteOr
  <2>3. MainStays
    BY <1>2, <1>5 DEF WriteOr
  <2>4. QED BY <1>1, <1>5, <2>2, <2>3, ThreadGoesOrEnds
<1>6. QED BY <1>3, <1>4, <1>5 DEF Decide

\* The handler begins with a call that was not handed over before.
LEMMA DispatchEffects == ASSUME IInv, NEW w \in Threads, Dispatch(w) PROVE Effects
<1> DEFINE c == MyCall(w)
           u == BeginDispatch(turn, c)
<1>1. GoodTurn(turn) /\ tool[w].pc \in CallSteps /\ c \in Calls /\ MainStays /\ UNCHANGED project
  BY DEF IInv, Dispatch, ToolAt, CallSteps, ThreadsOK, MainStays
<1>2. CASE CanBeginDispatch(turn, c) /\ turn' = u /\ ToolGo(w, "execute")
  <2>1. Written(turn, turn') /\ turn'.tool[c].dispatched
    BY <1>1, <1>2, BeginDispatchWritten
  <2>2. turn.status = "running" /\ ~turn.tool[c].dispatched
    BY <1>2 DEF CanBeginDispatch
  <2> DEFINE x == [tool[w] EXCEPT !.pc = "execute"]
  <2>3. x \in ToolState /\ x.attempt = tool[w].attempt /\ x.call = c
    BY ToolTyped DEF ToolState, ToolSteps, MyCall
  <2>4. tool' = [tool EXCEPT ![w] = x]
    BY <1>2 DEF ToolGo
  <2>5. tool[w].pc \in LockedSteps
    BY <1>1 DEF CallSteps, LockedSteps, ToolSteps
  <2> HIDE DEF x, c
  <2>6. ToolEffect
    BY <1>1, <2>1, <2>2, <2>3, <2>4, <2>5, MoveEffect
  <2>7. QED BY <1>1, <2>1, <2>2, <2>6, ThreadWrites
<1>3. CASE turn' = turn /\ Ended(w, "error")
  BY <1>1, <1>3, Unwritten, ThreadGoesOrEnds
<1>4. QED BY <1>2, <1>3 DEF Dispatch, WriteOr

\* What takes effect has been dispatched.
LEMMA ExecuteEffects == ASSUME IInv, NEW w \in Threads, Execute(w) PROVE Effects
<1> DEFINE c == MyCall(w)
<1>1. tool[w].pc \in CallSteps /\ c \in Calls /\ turn.tool[c].dispatched /\ turn' = turn
  BY DEF IInv, Execute, ToolAt, CallSteps, ThreadsOK, Executing
<1>2. MainStays
  BY InterruptsStays DEF Execute, MainStays
<1>3. ToolEffect
  BY <1>1, GoWithCall DEF Execute
<1>4. ProjectEffect
  <2>1. CASE revision < MaxRevision /\ revision' = revision + 1
             /\ applied' = [applied EXCEPT ![c] = revision + 1]
    <3>1. revision + 1 \in 0 .. MaxRevision
      BY <2>1, BoundAssumption DEF IInv, Typed
    <3>2. QED BY <1>1, <2>1, <3>1 DEF IInv, Typed, ProjectEffect
  <2>2. CASE UNCHANGED project
    BY <2>2 DEF IInv, Typed, ProjectEffect, project
  <2>3. QED BY <2>1, <2>2 DEF Execute
<1>5. QED BY <1>1, <1>2, <1>3, <1>4, Unwritten, StayEffect DEF Effects

\* The three writes after the handler.
LEMMA ClosingCallEffects ==
  ASSUME IInv, NEW w \in Threads, Commit(w) \/ FailAmbiguous(w) \/ FailTurn(w)
  PROVE  Effects
<1> DEFINE c == MyCall(w)
<1>1. GoodTurn(turn) /\ tool[w].pc \in CallSteps /\ c \in Calls /\ MainStays /\ UNCHANGED project
  BY DEF IInv, Commit, FailAmbiguous, FailTurn, ToolAt, CallSteps, ThreadsOK, MainStays
<1>2. \A target \in {"completed", "interrupted"} : CanUpdateToolRun(turn, c, target, TRUE) =>
        turn.status = "running" /\ Written(turn, UpdateToolRun(turn, c, target, TRUE))
  BY <1>1, UpdateToolWritten DEF CanUpdateToolRun
<1>3. CanUpdate(turn, "failed") =>
        Written(turn, Update(turn, "failed")) /\ Update(turn, "failed").status # "running"
  BY Closings
<1>4. Written(turn, turn') /\ (turn'.status = "running" => turn.status = "running")
  BY <1>2, <1>3, Unwritten DEF Commit, FailAmbiguous, FailTurn, WriteOr
<1>5. \/ \E result \in {"ok", "error"} : Ended(w, result)
      \/ ToolGo(w, "failTurn")
  BY DEF Commit, FailAmbiguous, FailTurn, WriteOr
<1>6. QED BY <1>1, <1>4, <1>5, ThreadGoesOrEnds

LEMMA ThreadStepEffects ==
  ASSUME IInv, NEW w \in Threads, ThreadStep(w) \/ Execute(w)
  PROVE  Effects
BY BindEffects, EnterEffects, LoadTurnEffects, ProposeEffects, DecideEffects, DispatchEffects,
   ExecuteEffects, ClosingCallEffects DEF ThreadStep

-----------------------------------------------------------------------------
\* The induction.

LEMMA InitInv == Init => IInv
<1> SUFFICES ASSUME Init PROVE IInv
  OBVIOUS
<1>1. GoodTurn(AbsentTurn)
  BY NewTurnInv DEF GoodTurn, AbsentTurn, NoTool
<1>2. Typed
  <2>1. 0 \in 0 .. MaxRevision
    BY BoundAssumption
  <2>2. IdleMain \in MainState /\ IdleTool \in ToolState
    BY IdleTyped
  <2>3. QED BY <2>1, <2>2 DEF Init, Typed
<1>3. QED BY <1>1, <1>2
      DEF Init, IInv, MainOK, ThreadsOK, LockOK, EffectsDispatched, At, IdleMain, IdleTool,
          AbsentTurn, CallSteps, LockedSteps, Executing, ToolAt

LEMMA NextEffects == ASSUME IInv, [Next]_vars PROVE Effects
<1>1. CASE UNCHANGED vars
  <2>1. MainStays /\ ToolEffect
    BY <1>1 DEF vars, MainStays, ToolEffect, Quiet, IInv, Typed
  <2>2. QED BY <1>1, <2>1, ThreadReads DEF vars, project
<1>2. CASE Request
  BY <1>2, SubmitEffects, AttemptEffects, ApproveAndAttemptEffects, DenyCheckpointEffects,
     CancelAttemptEffects, DeadlinePassesEffects, ExternalEditEffects DEF Request
<1>3. CASE Kill \/ Restart
  BY <1>3, KillEffects, RestartEffects
<1>4. CASE MainStep \/ Watch
  BY <1>4, MainStepEffects, WatchEffects
<1>5. CASE \E w \in Threads : ThreadStep(w) \/ Execute(w)
  BY <1>5, ThreadStepEffects
<1>6. QED BY <1>1, <1>2, <1>3, <1>4, <1>5 DEF Next

\* The invariant holds at every step of every execution: nothing that a thread of an
\* ended attempt, recovery or a request does puts two threads under one dispatch lock
\* or in the handler of one call.
THEOREM Invariant == Spec => []IInv
<1>1. IInv /\ [Next]_vars => IInv'
  BY NextEffects, EffectsKeep
<1>2. QED BY InitInv, <1>1, PTL DEF Spec

\* Every variable of an attempt and its threads keeps its type.
THEOREM TypeCorrect == Spec => []TypeOK
<1>1. IInv => TypeOK
  BY DEF IInv, GoodTurn, TurnInv, Typed, TypeOK
<1>2. QED BY Invariant, <1>1, PTL

\* However many attempts have left threads behind: handlers of one turn run side by
\* side only for different attempts, and the call of one has been closed.
THEOREM Apart == Spec => []HandlersApart
<1>1. IInv => HandlersApart
  <2> SUFFICES ASSUME IInv, NEW v \in Threads, NEW w \in Threads,
                      Executing(v), Executing(w), v # w
               PROVE  /\ tool[v].attempt # tool[w].attempt
                      /\ \E u \in {v, w} : turn.tool[tool[u].call].status # "running"
    BY DEF HandlersApart
  <2>1. tool[v].attempt # tool[w].attempt
    BY DEF IInv, LockOK, Executing, ToolAt, LockedSteps, ToolSteps
  <2>2. /\ tool[v].call \in Calls /\ tool[w].call \in Calls
        /\ tool[v].call # tool[w].call
    BY DEF IInv, ThreadsOK, Executing, ToolAt, CallSteps, MyCall
  <2>3. turn.tool[tool[v].call].status # "running" \/ turn.tool[tool[w].call].status # "running"
    BY <2>2 DEF IInv, GoodTurn, TurnInv, ActiveCalls
  <2>4. QED BY <2>1, <2>3
<1>2. QED BY Invariant, <1>1, PTL

\* What took effect is on record as dispatched, and as nothing that denies it.
THEOREM Recorded == Spec => []EffectRecorded
<1>1. IInv => EffectRecorded
  <2> SUFFICES ASSUME IInv, NEW c \in Calls, applied[c] # 0
               PROVE  /\ turn.tool[c].dispatched
                      /\ turn.tool[c].status \in
                           {"running", "completed", "failed", "interrupted", "cancelled"}
    BY DEF EffectRecorded
  <2>1. turn.tool[c].dispatched
    BY DEF IInv, EffectsDispatched
  <2>2. turn.tool[c] \in ToolRun /\ ToolWellFormed(turn.tool[c])
    BY DEF IInv, GoodTurn, TurnInv, Turn, CallInv
  <2>3. turn.tool[c].status # "denied"
    BY <2>1 DEF IInv, GoodTurn
  <2>4. QED BY <2>1, <2>2, <2>3 DEF ToolRun, ToolWellFormed
<1>2. QED BY Invariant, <1>1, PTL

\* Nobody is told that an attempt succeeded whose turn is still open.
THEOREM Stranded == Spec => []StrandedTurnRetryable
<1>1. IInv => StrandedTurnRetryable
  BY DEF IInv, MainOK, StrandedTurnRetryable
<1>2. QED BY Invariant, <1>1, PTL

\* No call is handed over twice, whichever threads and attempts meet in it.
THEOREM Once == Spec => DispatchOnce
<1> DEFINE A == \A w \in Threads :
                  ~Executing(w) /\ Executing(w)' => ~turn.tool[tool'[w].call].dispatched
<1>1. ASSUME IInv, [Next]_vars PROVE A
  <2>1. ToolEffect
    BY <1>1, NextEffects DEF Effects
  <2>2. CASE Quiet
    BY <2>2 DEF Quiet, Executing, ToolAt, LockedSteps, ToolSteps
  <2>3. CASE \E w \in Threads : Moves(w)
    BY <2>3 DEF Moves, Executing, ToolAt
  <2>4. QED BY <2>1, <2>2, <2>3 DEF ToolEffect
<1>2. IInv /\ [Next]_vars => [A]_vars
  BY <1>1
<1> HIDE DEF A
<1>3. Spec => [][A]_vars
  BY Invariant, <1>2, PTL DEF Spec
<1>4. QED BY <1>3 DEF A, DispatchOnce

=============================================================================
