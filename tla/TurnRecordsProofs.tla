--------------------------- MODULE TurnRecordsProofs ---------------------------
(***************************************************************************)
(* What every turn record that the store's methods write has in common,     *)
(* for every set of calls: each method that accepts a record with TurnInv   *)
(* returns a record with TurnInv.  AgentTurnsProofs lifts this to the store, *)
(* JobRunnerProofs to the processes that use it.                            *)
(***************************************************************************)
EXTENDS TurnRecords, TLAPS

\* What holds of every call of every record.
CallInv(r) ==
  /\ ToolWellFormed(r)
  /\ ApprovalWellFormed(r)
  /\ r.status = "waiting_approval" <=> r.approval = "pending"
  /\ r.dispatched => r.approval \in {"absent", "approved"}

\* What holds of every record.
TurnInv(t) ==
  /\ t \in Turn
  /\ \A c \in Calls : CallInv(t.tool[c])
  /\ \A c, d \in ActiveCalls(t) : c = d
  /\ t.status = "waiting_approval" <=> PendingCalls(t) # {}
  /\ t.status \in TerminalTurns => ActiveCalls(t) = {}
  /\ t.status = "absent" => t = AbsentTurn

USE DEF OpenTurns, TerminalTurns, TurnStatuses, ActiveTools, TerminalTools,
        ToolStatuses, ApprovalStatuses

-----------------------------------------------------------------------------
\* The methods preserve TurnInv.

\* The records that begin and begin_with_tool write.
LEMMA NewTurnInv ==
  /\ TurnInv(AbsentTurn)
  /\ TurnInv(QueuedTurn)
  /\ \A c \in Calls, rev \in Nat : TurnInv(BeginWithTool(c, rev))
<1>1. TurnInv(AbsentTurn)
  BY DEF TurnInv, AbsentTurn, Turn, ToolRun, NoTool, CallInv, ToolWellFormed,
         ApprovalWellFormed, ActiveCalls, PendingCalls
<1>2. TurnInv(QueuedTurn)
  BY DEF TurnInv, QueuedTurn, Turn, ToolRun, NoTool, CallInv, ToolWellFormed,
         ApprovalWellFormed, ActiveCalls, PendingCalls
<1>3. ASSUME NEW c \in Calls, NEW rev \in Nat PROVE TurnInv(BeginWithTool(c, rev))
  BY <1>3 DEF TurnInv, BeginWithTool, Proposed, QueuedTurn, Turn, ToolRun, NoTool,
         CallInv, ToolWellFormed, ApprovalWellFormed, ActiveCalls, PendingCalls
<1>4. QED BY <1>1, <1>2, <1>3

\* A method that rewrites one call: what it must guarantee of the new record u
\* for TurnInv to hold of it.
LEMMA OneCallWritten ==
  ASSUME NEW t, NEW u \in Turn, NEW c \in Calls, TurnInv(t),
         \A d \in Calls : d # c => u.tool[d] = t.tool[d],
         CallInv(u.tool[c]),
         u.tool[c].status \in ActiveTools => \A d \in ActiveCalls(t) : d = c,
         u.status = "waiting_approval" <=> PendingCalls(u) # {},
         u.status \in TerminalTurns => ActiveCalls(u) = {},
         u.status # "absent"
  PROVE  TurnInv(u)
<1>1. \A d \in Calls : CallInv(u.tool[d])
  BY DEF TurnInv
<1>2. \A d, e \in ActiveCalls(u) : d = e
  BY DEF TurnInv, ActiveCalls
<1>3. QED BY <1>1, <1>2 DEF TurnInv

\* The usual case: a call of a running turn that stays running.
LEMMA RunningCallWritten ==
  ASSUME NEW t, NEW u \in Turn, NEW c \in Calls, TurnInv(t),
         t.status = "running", u.status = "running",
         \A d \in Calls : d # c => u.tool[d] = t.tool[d],
         CallInv(u.tool[c]),
         u.tool[c].approval # "pending",
         u.tool[c].status \in ActiveTools => \A d \in ActiveCalls(t) : d = c
  PROVE  TurnInv(u)
<1>1. PendingCalls(t) = {}
  BY DEF TurnInv
<1>2. PendingCalls(u) = {}
  BY <1>1 DEF PendingCalls
<1>3. QED BY <1>2, OneCallWritten

\* update: the status alone, re-validated against the calls.
LEMMA UpdateInv ==
  ASSUME NEW t, TurnInv(t), NEW target \in TurnStatuses, CanUpdate(t, target)
  PROVE  TurnInv(Update(t, target))
<1>1. Update(t, target).tool = t.tool /\ Update(t, target).status = target
  BY DEF TurnInv, Turn, Update
<1>2. Update(t, target) \in Turn
  BY DEF TurnInv, Turn, Update
<1>3. TurnWellFormed(Update(t, target))
  BY DEF CanUpdate
<1>4. QED
  BY <1>1, <1>2, <1>3 DEF TurnInv, TurnWellFormed, ActiveCalls, PendingCalls

\* append_tool_run: a call that was absent becomes the one active call.
LEMMA AppendInv ==
  ASSUME NEW t, TurnInv(t), NEW c \in Calls, NEW rev \in Nat, CanAppendToolRun(t, c)
  PROVE  TurnInv(AppendToolRun(t, c, rev))
<1> DEFINE u == AppendToolRun(t, c, rev)
<1>1. t.status = "running" /\ ActiveCalls(t) = {}
  BY DEF CanAppendToolRun
<1>2. /\ u \in Turn /\ u.status = "running" /\ u.tool[c] = Proposed(rev)
      /\ \A d \in Calls : d # c => u.tool[d] = t.tool[d]
  BY <1>1 DEF AppendToolRun, TurnInv, Turn, Proposed, NoTool, ToolRun
<1>3. CallInv(u.tool[c]) /\ u.tool[c].approval # "pending"
  BY <1>2 DEF Proposed, NoTool, CallInv, ToolWellFormed, ApprovalWellFormed
<1> HIDE DEF u
<1>4. TurnInv(u)
  BY <1>1, <1>2, <1>3, RunningCallWritten
<1>5. QED BY <1>4 DEF u

\* update_tool_run: a running call is rewritten along its transition table.
LEMMA UpdateToolInv ==
  ASSUME NEW t, TurnInv(t), NEW c \in Calls, NEW target \in ToolStatuses,
         NEW dispatchStarted \in BOOLEAN, CanUpdateToolRun(t, c, target, dispatchStarted)
  PROVE  TurnInv(UpdateToolRun(t, c, target, dispatchStarted))
<1> DEFINE u == UpdateToolRun(t, c, target, dispatchStarted)
           r == u.tool[c]
<1>1. /\ t.status = "running"
      /\ t.tool[c].status \in {"proposed", "running"}
      /\ <<t.tool[c].status, target>> \in ToolTransitions
      /\ target # "waiting_approval"
      /\ ToolWellFormed(r)
  BY DEF CanUpdateToolRun, ToolTransitions
<1>2. t.tool[c] \in ToolRun /\ CallInv(t.tool[c])
  BY DEF TurnInv, Turn
<1>3. r = [status |-> target, dispatched |-> t.tool[c].dispatched \/ (target = "running" /\ dispatchStarted),
           approval |-> t.tool[c].approval, base |-> t.tool[c].base]
  BY <1>2 DEF UpdateToolRun, TurnInv, Turn, ToolRun
<1>4. u \in Turn /\ u.status = "running" /\ \A d \in Calls : d # c => u.tool[d] = t.tool[d]
  BY <1>1, <1>2 DEF UpdateToolRun, TurnInv, Turn, ToolRun
<1>5. r.approval # "pending"
  BY <1>1, <1>2, <1>3 DEF ToolRun, CallInv
<1> HIDE DEF r
<1>6. CallInv(r)
  <2>1. ApprovalWellFormed(r)
    BY <1>1, <1>2, <1>3 DEF ApprovalWellFormed, CallInv, ToolTransitions
  <2>2. r.status # "waiting_approval"
    BY <1>1, <1>3
  <2>3. r.dispatched => r.approval \in {"absent", "approved"}
    BY <1>1, <1>2, <1>3 DEF CallInv, ApprovalWellFormed, ToolRun
  <2>4. QED BY <1>1, <1>5, <2>1, <2>2, <2>3 DEF CallInv
<1>7. \A d \in ActiveCalls(t) : d = c
  BY <1>1 DEF TurnInv, ActiveCalls
<1> HIDE DEF u
<1>8. TurnInv(u)
  BY <1>1, <1>4, <1>5, <1>6, <1>7, RunningCallWritten DEF r
<1>9. QED BY <1>8 DEF u

\* begin_dispatch: the call becomes running and non-replayable.
LEMMA BeginDispatchInv ==
  ASSUME NEW t, TurnInv(t), NEW c \in Calls, CanBeginDispatch(t, c)
  PROVE  TurnInv(BeginDispatch(t, c))
<1> DEFINE u == BeginDispatch(t, c)
<1>1. t.status = "running" /\ t.tool[c].status = "running"
  BY DEF CanBeginDispatch
<1>2. t.tool[c] \in ToolRun /\ CallInv(t.tool[c])
  BY DEF TurnInv, Turn
<1>3. /\ u \in Turn /\ u.status = "running"
      /\ u.tool[c] = [t.tool[c] EXCEPT !.dispatched = TRUE]
      /\ \A d \in Calls : d # c => u.tool[d] = t.tool[d]
  BY <1>1, <1>2 DEF BeginDispatch, TurnInv, Turn, ToolRun
<1>4. CallInv(u.tool[c]) /\ u.tool[c].approval # "pending"
  BY <1>1, <1>2, <1>3 DEF CallInv, ToolWellFormed, ApprovalWellFormed, ToolRun
<1>5. \A d \in ActiveCalls(t) : d = c
  BY <1>1 DEF TurnInv, ActiveCalls
<1> HIDE DEF u
<1>6. TurnInv(u)
  BY <1>1, <1>3, <1>4, <1>5, RunningCallWritten
<1>7. QED BY <1>6 DEF u

\* request_approval: the call and its turn wait together, on one checkpoint.
LEMMA RequestApprovalInv ==
  ASSUME NEW t, TurnInv(t), NEW c \in Calls, CanRequestApproval(t, c)
  PROVE  TurnInv(RequestApproval(t, c))
<1> DEFINE u == RequestApproval(t, c)
<1>1. t.status = "running" /\ t.tool[c].status = "proposed"
  BY DEF CanRequestApproval
<1>2. t.tool[c] \in ToolRun /\ CallInv(t.tool[c])
  BY DEF TurnInv, Turn
<1>3. /\ u \in Turn /\ u.status = "waiting_approval"
      /\ u.tool[c] = [t.tool[c] EXCEPT !.status = "waiting_approval", !.approval = "pending"]
      /\ \A d \in Calls : d # c => u.tool[d] = t.tool[d]
  BY <1>2 DEF RequestApproval, TurnInv, Turn, ToolRun
<1>4. CallInv(u.tool[c]) /\ u.tool[c].approval = "pending"
  BY <1>1, <1>2, <1>3 DEF CallInv, ToolWellFormed, ApprovalWellFormed, ToolRun
<1>5. PendingCalls(u) # {}
  BY <1>4 DEF PendingCalls
<1>6. \A d \in ActiveCalls(t) : d = c
  BY <1>1 DEF TurnInv, ActiveCalls
<1> HIDE DEF u
<1>7. TurnInv(u)
  BY <1>3, <1>4, <1>5, <1>6, OneCallWritten
<1>8. QED BY <1>7 DEF u

\* Approval and denial work on the one pending call; afterwards none is pending.
LEMMA ApproveInv ==
  ASSUME NEW t, TurnInv(t), NEW c \in Calls, NEW base, CanResolveApproval(t, c, base)
  PROVE  TurnInv(Approve(t, c))
<1> DEFINE u == Approve(t, c)
<1>1. t.tool[c] \in ToolRun /\ CallInv(t.tool[c])
  BY DEF TurnInv, Turn
<1>2. t.tool[c].status = "waiting_approval"
  BY <1>1 DEF CanResolveApproval, CallInv
<1>3. /\ u \in Turn /\ u.status = "running"
      /\ u.tool[c] = [t.tool[c] EXCEPT !.status = "running", !.approval = "approved"]
      /\ \A d \in Calls : d # c => u.tool[d] = t.tool[d]
  BY <1>1 DEF Approve, TurnInv, Turn, ToolRun
<1>4. CallInv(u.tool[c]) /\ u.tool[c].approval = "approved"
  BY <1>1, <1>3 DEF CallInv, ToolWellFormed, ApprovalWellFormed, ToolRun
<1>5. \A d \in ActiveCalls(t) : d = c
  BY <1>2 DEF TurnInv, ActiveCalls
<1>6. \A d \in Calls : d # c => t.tool[d].approval # "pending"
  BY <1>5 DEF TurnInv, CallInv, ActiveCalls
<1>7. PendingCalls(u) = {}
  BY <1>3, <1>4, <1>6 DEF PendingCalls
<1> HIDE DEF u
<1>8. TurnInv(u)
  BY <1>3, <1>4, <1>5, <1>7, OneCallWritten
<1>9. QED BY <1>8 DEF u

\* Denial cancels the one pending call and its turn.
LEMMA DenyInv ==
  ASSUME NEW t, TurnInv(t), NEW c \in Calls, NEW base, CanResolveApproval(t, c, base),
         NEW cancelOnDeny \in BOOLEAN
  PROVE  TurnInv(Deny(t, c, cancelOnDeny))
<1> DEFINE u == Deny(t, c, cancelOnDeny)
<1>1. t.tool[c] \in ToolRun /\ CallInv(t.tool[c])
  BY DEF TurnInv, Turn
<1>2. t.tool[c].status = "waiting_approval"
  BY <1>1 DEF CanResolveApproval, CallInv
<1>3. /\ u \in Turn /\ u.status \in {"cancelled", "running"}
      /\ u.tool[c] = [t.tool[c] EXCEPT !.status = "denied", !.approval = "denied"]
      /\ \A d \in Calls : d # c => u.tool[d] = t.tool[d]
  BY <1>1 DEF Deny, TurnInv, Turn, ToolRun
<1>4. CallInv(u.tool[c]) /\ u.tool[c].approval = "denied" /\ u.tool[c].status = "denied"
  BY <1>1, <1>2, <1>3 DEF CallInv, ToolWellFormed, ApprovalWellFormed, ToolRun
<1>5. \A d \in ActiveCalls(t) : d = c
  BY <1>2 DEF TurnInv, ActiveCalls
<1>6. \A d \in Calls : d # c => t.tool[d].approval # "pending"
  BY <1>5 DEF TurnInv, CallInv, ActiveCalls
<1>7. PendingCalls(u) = {} /\ ActiveCalls(u) = {}
  BY <1>3, <1>4, <1>5, <1>6 DEF PendingCalls, ActiveCalls
<1> HIDE DEF u
<1>8. TurnInv(u)
  BY <1>3, <1>4, <1>5, <1>7, OneCallWritten
<1>9. QED BY <1>8 DEF u

\* interrupt_active and cancel close whatever is active.
LEMMA InterruptInv ==
  ASSUME NEW t, TurnInv(t), CanInterruptActive(t)
  PROVE  TurnInv(InterruptActive(t))
<1> DEFINE u == InterruptActive(t)
<1>1. t.status = "running" /\ PendingCalls(t) = {}
  BY DEF CanInterruptActive, TurnInv
<1>2. ASSUME NEW c \in Calls
      PROVE  u.tool[c] \in ToolRun /\ CallInv(u.tool[c]) /\ u.tool[c].status \notin ActiveTools
             /\ u.tool[c].approval # "pending"
  <2>1. /\ t.tool[c] \in ToolRun /\ CallInv(t.tool[c])
        /\ t.tool[c].approval # "pending" /\ t.tool[c].status # "waiting_approval"
    BY <1>1 DEF TurnInv, Turn, PendingCalls, CallInv
  <2>2. CASE t.tool[c].status = "running"
    <3>1. u.tool[c] = [t.tool[c] EXCEPT !.status = "interrupted"]
      BY <2>2 DEF InterruptActive
    <3>2. QED BY <2>1, <2>2, <3>1 DEF CallInv, ToolWellFormed, ApprovalWellFormed, ToolRun
  <2>3. CASE t.tool[c].status = "proposed"
    <3>1. u.tool[c] = [t.tool[c] EXCEPT !.status = "cancelled"]
      BY <2>3 DEF InterruptActive
    <3>2. QED BY <2>1, <2>3, <3>1 DEF CallInv, ToolWellFormed, ApprovalWellFormed, ToolRun
  <2>4. CASE t.tool[c].status \notin {"running", "proposed"}
    <3>1. u.tool[c] = t.tool[c]
      BY <2>4 DEF InterruptActive
    <3>2. QED BY <2>1, <2>4, <3>1
  <2>5. QED BY <2>2, <2>3, <2>4
<1>3. u.status = "interrupted"
  BY DEF InterruptActive
<1>4. u \in Turn
  <2>1. u = [status |-> "interrupted", tool |-> [c \in Calls |-> u.tool[c]]]
    BY DEF InterruptActive
  <2>2. QED BY <1>2, <2>1 DEF Turn
<1>5. ActiveCalls(u) = {} /\ PendingCalls(u) = {}
  BY <1>2 DEF ActiveCalls, PendingCalls
<1> HIDE DEF u
<1>6. TurnInv(u)
  BY <1>2, <1>3, <1>4, <1>5 DEF TurnInv
<1>7. QED BY <1>6 DEF u

\* cancel closes the active call, whatever it waits for, with the turn.
LEMMA CancelInv ==
  ASSUME NEW t, TurnInv(t), CanCancel(t)
  PROVE  TurnInv(Cancel(t))
<1>1. CASE t.status = "cancelled"
  BY <1>1 DEF Cancel
<1>2. CASE t.status # "cancelled"
  <2> DEFINE u == Cancel(t)
  <2>1. u = [status |-> "cancelled", tool |-> [c \in Calls |-> CloseForCancel(t, c)]]
    BY <1>2 DEF Cancel
  <2>2. ASSUME NEW c \in Calls
        PROVE  CloseForCancel(t, c) \in ToolRun /\ CallInv(CloseForCancel(t, c))
               /\ CloseForCancel(t, c).status \notin ActiveTools
               /\ CloseForCancel(t, c).approval # "pending"
    <3> DEFINE r == t.tool[c]
    <3>1. r \in ToolRun /\ CallInv(r)
      BY DEF TurnInv, Turn
    <3>2. CASE r.approval = "pending"
      <4>1. CloseForCancel(t, c) = [r EXCEPT !.status = "denied", !.approval = "denied"]
        BY <3>2 DEF CloseForCancel, PendingCalls
      <4>2. QED BY <3>1, <3>2, <4>1 DEF CallInv, ToolWellFormed, ApprovalWellFormed, ToolRun
    <3>3. CASE r.approval # "pending" /\ PendingCalls(t) = {} /\ r.status \in ActiveTools
      <4>1. CloseForCancel(t, c) = [r EXCEPT !.status = "cancelled"]
        BY <3>3 DEF CloseForCancel
      <4>2. QED BY <3>1, <3>3, <4>1 DEF CallInv, ToolWellFormed, ApprovalWellFormed, ToolRun
    <3>4. CASE r.approval # "pending" /\ r.status \notin ActiveTools
      <4>1. CloseForCancel(t, c) = r
        BY <3>4 DEF CloseForCancel
      <4>2. QED BY <3>1, <3>4, <4>1
    <3>5. CASE r.approval # "pending" /\ PendingCalls(t) # {} /\ r.status \in ActiveTools
      \* The pending call would be a second active one.
      <4>1. PICK d \in PendingCalls(t) : TRUE
        BY <3>5
      <4>2. d \in ActiveCalls(t) /\ c \in ActiveCalls(t) /\ d # c
        BY <3>5, <4>1 DEF PendingCalls, ActiveCalls, TurnInv, CallInv
      <4>3. QED BY <4>2 DEF TurnInv
    <3>6. QED BY <3>2, <3>3, <3>4, <3>5
  <2>3. u \in Turn /\ u.status = "cancelled"
    BY <2>1, <2>2 DEF Turn
  <2> HIDE DEF u
  <2>4. \A c \in Calls : u.tool[c] = CloseForCancel(t, c)
    <3> DEFINE closed == [c \in Calls |-> CloseForCancel(t, c)]
    <3>1. u.tool = closed
      BY <2>1
    <3>2. QED BY <3>1
  <2>5. ActiveCalls(u) = {} /\ PendingCalls(u) = {}
    BY <2>2, <2>4 DEF ActiveCalls, PendingCalls
  <2>6. TurnInv(u)
    BY <2>2, <2>3, <2>4, <2>5 DEF TurnInv
  <2>7. QED BY <2>6 DEF u
<1>3. QED BY <1>1, <1>2

\* resume reopens a terminal turn, whose calls are all finished.
LEMMA ResumeInv ==
  ASSUME NEW t, TurnInv(t), CanResume(t)
  PROVE  TurnInv(Resume(t))
<1> DEFINE u == Resume(t)
<1>1. u \in Turn /\ u.status = "running" /\ u.tool = t.tool
  BY DEF Resume, TurnInv, Turn
<1>2. PendingCalls(t) = {}
  BY DEF CanResume, TurnInv
<1> HIDE DEF u
<1>3. ActiveCalls(u) = ActiveCalls(t) /\ PendingCalls(u) = {}
  BY <1>1, <1>2 DEF ActiveCalls, PendingCalls
<1>4. TurnInv(u)
  BY <1>1, <1>3 DEF TurnInv
<1>5. QED BY <1>4 DEF u

\* The other two methods that recovery uses are accepted whenever it uses them: a
\* running turn can be interrupted and an open one cancelled.
LEMMA ClosableInv ==
  ASSUME NEW t, TurnInv(t)
  PROVE  /\ t.status = "running" => CanInterruptActive(t)
         /\ t.status \in OpenTurns => CanCancel(t)
<1>1. PendingCalls(t) = {} => \A c \in ActiveCalls(t) : t.tool[c].status # "waiting_approval"
  BY DEF TurnInv, CallInv, ActiveCalls, PendingCalls
<1>2. QED BY <1>1 DEF TurnInv, CanInterruptActive, CanCancel
=============================================================================
