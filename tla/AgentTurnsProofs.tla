--------------------------- MODULE AgentTurnsProofs ---------------------------
(***************************************************************************)
(* Proofs about AgentTurns, for every set of turns, calls and threads.      *)
(*                                                                          *)
(* The safety invariants are not inductive one by one.  TurnInv joins them  *)
(* for one record; a step of the store writes one record, by a method that  *)
(* keeps TurnInv (TurnRecordsProofs).                                       *)
(***************************************************************************)
EXTENDS AgentTurns, TurnRecordsProofs

IInv ==
  /\ revision \in 0..MaxRevision
  /\ turns \in [Turns -> Turn]
  /\ \A t \in Turns : TurnInv(turns[t])

USE DEF OpenTurns, TerminalTurns, TurnStatuses, ActiveTools, TerminalTools,
        ToolStatuses, ApprovalStatuses

-----------------------------------------------------------------------------
\* The store.

\* A method writes one record and leaves the revision alone.
LEMMA WriteInv ==
  ASSUME NEW t \in Turns, NEW record, TurnInv(record), IInv, Write(t, record)
  PROVE  IInv'
<1>1. record \in Turn
  BY DEF TurnInv
<1>2. turns' = [turns EXCEPT ![t] = record] /\ revision' = revision
  BY DEF Write
<1>3. turns' \in [Turns -> Turn]
  BY <1>1, <1>2 DEF IInv
<1>4. ASSUME NEW u \in Turns PROVE TurnInv(turns'[u])
  <2>1. CASE u = t
    BY <1>2, <2>1 DEF IInv
  <2>2. CASE u # t
    BY <1>2, <2>2 DEF IInv
  <2>3. QED BY <2>1, <2>2
<1>5. (\A u \in Turns : TurnInv(turns[u]))'
  BY <1>4 DEF TurnInv, Turn, ToolRun, CallInv, ToolWellFormed, ApprovalWellFormed,
              ActiveCalls, PendingCalls
<1>6. QED BY <1>2, <1>3, <1>5 DEF IInv

\* Before anything happens no record exists.
LEMMA InitInv == Init => IInv
<1> SUFFICES ASSUME Init PROVE IInv
  OBVIOUS
<1>1. TurnInv(AbsentTurn) /\ AbsentTurn \in Turn
  BY NewTurnInv DEF TurnInv
<1>2. revision \in 0..MaxRevision
  BY BoundAssumption DEF Init
<1>3. QED BY <1>1, <1>2 DEF Init, IInv

\* The methods that work on a turn as a whole.
LEMMA TurnStepInv ==
  ASSUME IInv, NEW t \in Turns, TurnStep(t)
  PROVE  IInv'
<1>0. TurnInv(turns[t])
  BY DEF IInv
<1>1. CASE Begin(t)
  BY <1>1, NewTurnInv, WriteInv DEF Begin
<1>2. ASSUME NEW target \in TurnStatuses, UpdateTurn(t, target) PROVE IInv'
  BY <1>0, <1>2, UpdateInv, WriteInv DEF UpdateTurn
<1>3. CASE Interrupt(t)
  BY <1>0, <1>3, InterruptInv, WriteInv DEF Interrupt
<1>4. CASE CancelTurn(t)
  BY <1>0, <1>4, CancelInv, WriteInv DEF CancelTurn
<1>5. CASE ResumeTurn(t)
  BY <1>0, <1>5, ResumeInv, WriteInv DEF ResumeTurn
<1>6. QED BY <1>1, <1>2, <1>3, <1>4, <1>5 DEF TurnStep

\* The methods that work on one call of a turn.
LEMMA CallStepInv ==
  ASSUME IInv, NEW t \in Turns, NEW c \in Calls, CallStep(t, c)
  PROVE  IInv'
<1>0. TurnInv(turns[t]) /\ 0..revision \subseteq Nat
  BY DEF IInv
<1>1. CASE BeginCallTurn(t, c)
  BY <1>0, <1>1, NewTurnInv, WriteInv DEF BeginCallTurn
<1>2. CASE Append(t, c)
  BY <1>0, <1>2, AppendInv, WriteInv DEF Append
<1>3. ASSUME NEW target \in ToolStatuses, NEW dispatchStarted \in BOOLEAN,
             UpdateTool(t, c, target, dispatchStarted)
      PROVE  IInv'
  BY <1>0, <1>3, UpdateToolInv, WriteInv DEF UpdateTool
<1>4. CASE Dispatch(t, c)
  BY <1>0, <1>4, BeginDispatchInv, WriteInv DEF Dispatch
<1>5. CASE AskApproval(t, c)
  BY <1>0, <1>5, RequestApprovalInv, WriteInv DEF AskApproval
<1>6. CASE ApproveCall(t, c)
  BY <1>0, <1>6, ApproveInv, WriteInv DEF ApproveCall, CanApprove
<1>7. ASSUME NEW cancelOnDeny \in BOOLEAN, DenyCall(t, c, cancelOnDeny) PROVE IInv'
  BY <1>0, <1>7, DenyInv, WriteInv DEF DenyCall
<1>8. QED BY <1>1, <1>2, <1>3, <1>4, <1>5, <1>6, <1>7 DEF CallStep

\* IInv is inductive.
LEMMA NextInv == IInv /\ [Next]_vars => IInv'
<1> SUFFICES ASSUME IInv, [Next]_vars PROVE IInv'
  OBVIOUS
<1>1. ASSUME NEW t \in Turns, TurnStep(t) PROVE IInv'
  BY <1>1, TurnStepInv
<1>2. ASSUME NEW t \in Turns, NEW c \in Calls, CallStep(t, c) PROVE IInv'
  BY <1>2, CallStepInv
<1>3. CASE AdvanceRevision
  <2>1. revision' \in 0..MaxRevision /\ turns' = turns
    BY <1>3, BoundAssumption DEF AdvanceRevision, IInv
  <2>2. QED BY <2>1 DEF IInv, TurnInv, Turn, ToolRun, CallInv, ToolWellFormed,
                       ApprovalWellFormed, ActiveCalls, PendingCalls
<1>4. CASE UNCHANGED vars
  BY <1>4 DEF vars, IInv, TurnInv, Turn, ToolRun, CallInv, ToolWellFormed,
              ApprovalWellFormed, ActiveCalls, PendingCalls
<1>5. QED BY <1>1, <1>2, <1>3, <1>4 DEF Next

\* Every reachable record of the store satisfies TurnInv.
THEOREM Invariance == Spec => []IInv
BY InitInv, NextInv, PTL DEF Spec

\* The type invariant, for every set of turns and calls.
THEOREM TypeCorrect == Spec => []TypeOK
<1>1. IInv => TypeOK
  BY DEF IInv, TypeOK
<1>2. QED BY <1>1, Invariance, PTL

\* No sequence of accepted calls leaves a record that the next load rejects.
THEOREM RecordsAlwaysValid == Spec => []RecordsValid
<1>1. IInv => RecordsValid
  <2>1. ASSUME NEW t, TurnInv(t) PROVE TurnWellFormed(t)
    <3>1. \A c, d \in PendingCalls(t) : c = d
      BY <2>1 DEF TurnInv, CallInv, ActiveCalls, PendingCalls
    <3>2. QED BY <2>1, <3>1 DEF TurnInv, CallInv, TurnWellFormed
  <2>2. QED BY <2>1 DEF IInv, RecordsValid
<1>2. QED BY <1>1, Invariance, PTL

\* A turn never has two active calls: the branches of interrupt_active and
\* cancel that refuse several are dead code.
THEOREM OneActiveCallAlways == Spec => []OneActiveCall
<1>1. IInv => OneActiveCall
  BY DEF IInv, OneActiveCall, TurnInv
<1>2. QED BY <1>1, Invariance, PTL

\* A call waits exactly while its checkpoint is pending.
THEOREM WaitingAlwaysHasCheckpoint == Spec => []WaitingHasCheckpoint
<1>1. IInv => WaitingHasCheckpoint
  BY DEF IInv, WaitingHasCheckpoint, TurnInv, CallInv
<1>2. QED BY <1>1, Invariance, PTL

\* A call that was put to the user is dispatched only after the user approved it.
THEOREM DispatchAlwaysApproved == Spec => []DispatchNeedsApproval
<1>1. IInv => DispatchNeedsApproval
  BY DEF IInv, DispatchNeedsApproval, TurnInv, CallInv
<1>2. QED BY <1>1, Invariance, PTL

\* cancel accepts every open turn, so recovery can close whatever a crash left.
THEOREM OpenTurnAlwaysClosable == Spec => []OpenTurnCanClose
<1>1. IInv => OpenTurnCanClose
  BY ClosableInv DEF IInv, OpenTurnCanClose
<1>2. QED BY <1>1, Invariance, PTL

-----------------------------------------------------------------------------
\* Action properties.

\* What a method may do to a record, given the project revision it runs at: the
\* three action properties, for one record.
TurnKept(t, u, rev) ==
  /\ \A c \in Calls :
       /\ ToolHistoryKept(t.tool[c], u.tool[c])
       /\ (t.tool[c].approval # "approved" /\ u.tool[c].approval = "approved")
            => u.tool[c].base = rev
  /\ (t.status \in TerminalTurns /\ NonReplayable(t)) => u.status \in TerminalTurns

\* A method that rewrites one call of an open turn.
LEMMA OneCallKept ==
  ASSUME NEW t, NEW u, NEW c \in Calls, NEW rev,
         \A d \in Calls : d # c => u.tool[d] = t.tool[d],
         t.status \in OpenTurns,
         ToolHistoryKept(t.tool[c], u.tool[c]),
         (t.tool[c].approval # "approved" /\ u.tool[c].approval = "approved")
           => u.tool[c].base = rev,
         TurnInv(t)
  PROVE  TurnKept(t, u, rev)
<1>1. \A d \in Calls : ToolHistoryKept(t.tool[d], t.tool[d])
  BY DEF ToolHistoryKept
<1>2. QED BY <1>1 DEF TurnKept

\* The methods that rewrite one call of an open turn.
LEMMA CallMethodsKept ==
  ASSUME NEW t, TurnInv(t), NEW c \in Calls, NEW rev
  PROVE  /\ \A base : CanAppendToolRun(t, c) => TurnKept(t, AppendToolRun(t, c, base), rev)
         /\ \A target : \A dispatchStarted \in BOOLEAN :
              CanUpdateToolRun(t, c, target, dispatchStarted)
                => TurnKept(t, UpdateToolRun(t, c, target, dispatchStarted), rev)
         /\ CanBeginDispatch(t, c) => TurnKept(t, BeginDispatch(t, c), rev)
         /\ CanRequestApproval(t, c) => TurnKept(t, RequestApproval(t, c), rev)
         /\ \A base : CanApprove(t, c, base, rev) => TurnKept(t, Approve(t, c), rev)
         /\ \A base : \A cancelOnDeny \in BOOLEAN :
              CanResolveApproval(t, c, base) => TurnKept(t, Deny(t, c, cancelOnDeny), rev)
<1>0. /\ t.tool[c] \in ToolRun /\ CallInv(t.tool[c]) /\ t \in Turn
  BY DEF TurnInv, Turn
<1>1. ASSUME NEW base, CanAppendToolRun(t, c) PROVE TurnKept(t, AppendToolRun(t, c, base), rev)
  <2> DEFINE u == AppendToolRun(t, c, base)
  <2>1. /\ u.tool[c] = Proposed(base)
        /\ \A d \in Calls : d # c => u.tool[d] = t.tool[d]
    BY <1>0 DEF AppendToolRun, Turn
  <2>2. t.status \in OpenTurns /\ t.tool[c].status = "absent"
    BY <1>1 DEF CanAppendToolRun
  <2>3. ~t.tool[c].dispatched /\ t.tool[c].approval = "absent"
    BY <1>0, <2>2 DEF CallInv, ToolWellFormed, ApprovalWellFormed, ToolRun
  <2>4. ToolHistoryKept(t.tool[c], u.tool[c]) /\ u.tool[c].approval = "absent"
    BY <2>1, <2>2, <2>3 DEF ToolHistoryKept, Proposed, NoTool
  <2> HIDE DEF u
  <2>5. TurnKept(t, u, rev)
    BY <2>1, <2>2, <2>4, OneCallKept
  <2>6. QED BY <2>5 DEF u
<1>2. ASSUME NEW target, NEW dispatchStarted \in BOOLEAN,
             CanUpdateToolRun(t, c, target, dispatchStarted)
      PROVE  TurnKept(t, UpdateToolRun(t, c, target, dispatchStarted), rev)
  <2> DEFINE u == UpdateToolRun(t, c, target, dispatchStarted)
  <2>1. /\ u.tool[c].status = target
        /\ u.tool[c].approval = t.tool[c].approval /\ u.tool[c].base = t.tool[c].base
        /\ t.tool[c].dispatched => u.tool[c].dispatched
        /\ \A d \in Calls : d # c => u.tool[d] = t.tool[d]
    BY <1>0 DEF UpdateToolRun, Turn, ToolRun
  <2>2. /\ t.status \in OpenTurns
        /\ t.tool[c].status \notin TerminalTools /\ target # "absent"
    BY <1>2 DEF CanUpdateToolRun, ToolTransitions
  <2> HIDE DEF u
  <2>3. ToolHistoryKept(t.tool[c], u.tool[c])
    BY <2>1, <2>2 DEF ToolHistoryKept
  <2>4. TurnKept(t, u, rev)
    BY <2>1, <2>2, <2>3, OneCallKept
  <2>5. QED BY <2>4 DEF u
<1>3. ASSUME CanBeginDispatch(t, c) PROVE TurnKept(t, BeginDispatch(t, c), rev)
  <2> DEFINE u == BeginDispatch(t, c)
  <2>1. /\ u.tool[c] = [t.tool[c] EXCEPT !.dispatched = TRUE]
        /\ \A d \in Calls : d # c => u.tool[d] = t.tool[d]
    BY <1>0 DEF BeginDispatch, Turn
  <2>2. t.status \in OpenTurns
    BY <1>3 DEF CanBeginDispatch
  <2> HIDE DEF u
  <2>3. ToolHistoryKept(t.tool[c], u.tool[c]) /\ u.tool[c].approval = t.tool[c].approval
    BY <1>0, <2>1 DEF ToolHistoryKept, ToolRun
  <2>4. TurnKept(t, u, rev)
    BY <2>1, <2>2, <2>3, OneCallKept
  <2>5. QED BY <2>4 DEF u
<1>4. ASSUME CanRequestApproval(t, c) PROVE TurnKept(t, RequestApproval(t, c), rev)
  <2> DEFINE u == RequestApproval(t, c)
  <2>1. /\ u.tool[c] = [t.tool[c] EXCEPT !.status = "waiting_approval", !.approval = "pending"]
        /\ \A d \in Calls : d # c => u.tool[d] = t.tool[d]
    BY <1>0 DEF RequestApproval, Turn, ToolRun
  <2>2. t.status \in OpenTurns /\ t.tool[c].status = "proposed"
    BY <1>4 DEF CanRequestApproval
  <2> HIDE DEF u
  <2>3. ToolHistoryKept(t.tool[c], u.tool[c]) /\ u.tool[c].approval = "pending"
    BY <1>0, <2>1, <2>2 DEF ToolHistoryKept, ToolRun, CallInv, ApprovalWellFormed
  <2>4. TurnKept(t, u, rev)
    BY <2>1, <2>2, <2>3, OneCallKept
  <2>5. QED BY <2>4 DEF u
<1>5. ASSUME NEW base, CanApprove(t, c, base, rev) PROVE TurnKept(t, Approve(t, c), rev)
  <2> DEFINE u == Approve(t, c)
  <2>1. /\ u.tool[c] = [t.tool[c] EXCEPT !.status = "running", !.approval = "approved"]
        /\ \A d \in Calls : d # c => u.tool[d] = t.tool[d]
    BY <1>0 DEF Approve, Turn, ToolRun
  <2>2. /\ t.status \in OpenTurns /\ t.tool[c].approval = "pending"
        /\ t.tool[c].status = "waiting_approval" /\ t.tool[c].base = rev
    BY <1>0, <1>5 DEF CanApprove, CanResolveApproval, CallInv
  <2> HIDE DEF u
  <2>3. ToolHistoryKept(t.tool[c], u.tool[c]) /\ u.tool[c].base = rev
    BY <1>0, <2>1, <2>2 DEF ToolHistoryKept, ToolRun
  <2>4. TurnKept(t, u, rev)
    BY <2>1, <2>2, <2>3, OneCallKept
  <2>5. QED BY <2>4 DEF u
<1>6. ASSUME NEW base, NEW cancelOnDeny \in BOOLEAN, CanResolveApproval(t, c, base)
      PROVE  TurnKept(t, Deny(t, c, cancelOnDeny), rev)
  <2> DEFINE u == Deny(t, c, cancelOnDeny)
  <2>1. /\ u.tool[c] = [t.tool[c] EXCEPT !.status = "denied", !.approval = "denied"]
        /\ \A d \in Calls : d # c => u.tool[d] = t.tool[d]
    BY <1>0 DEF Deny, Turn, ToolRun
  <2>2. /\ t.status \in OpenTurns /\ t.tool[c].approval = "pending"
        /\ t.tool[c].status = "waiting_approval"
    BY <1>0, <1>6 DEF CanResolveApproval, CallInv
  <2> HIDE DEF u
  <2>3. ToolHistoryKept(t.tool[c], u.tool[c]) /\ u.tool[c].approval = "denied"
    BY <1>0, <2>1, <2>2 DEF ToolHistoryKept, ToolRun
  <2>4. TurnKept(t, u, rev)
    BY <2>1, <2>2, <2>3, OneCallKept
  <2>5. QED BY <2>4 DEF u
<1>7. QED BY <1>1, <1>2, <1>3, <1>4, <1>5, <1>6

\* The methods that rewrite a turn as a whole, and begin's two forms.
LEMMA TurnMethodsKept ==
  ASSUME NEW t, TurnInv(t), NEW rev
  PROVE  /\ t.status = "absent" => TurnKept(t, QueuedTurn, rev)
         /\ \A c \in Calls : \A base : t.status = "absent" => TurnKept(t, BeginWithTool(c, base), rev)
         /\ \A target : CanUpdate(t, target) => TurnKept(t, Update(t, target), rev)
         /\ CanInterruptActive(t) => TurnKept(t, InterruptActive(t), rev)
         /\ CanCancel(t) => TurnKept(t, Cancel(t), rev)
         /\ CanResume(t) => TurnKept(t, Resume(t), rev)
<1>0. t \in Turn /\ \A c \in Calls : t.tool[c] \in ToolRun
  BY DEF TurnInv, Turn
<1>1. ASSUME t.status = "absent" PROVE TurnKept(t, QueuedTurn, rev)
  <2>1. t = AbsentTurn
    BY <1>1 DEF TurnInv
  <2>2. \A c \in Calls : t.tool[c] = NoTool /\ QueuedTurn.tool[c] = NoTool
    BY <2>1 DEF AbsentTurn, QueuedTurn
  <2>3. QED BY <1>1, <2>2 DEF TurnKept, ToolHistoryKept, NoTool
<1>2. ASSUME NEW c \in Calls, NEW base, t.status = "absent"
      PROVE  TurnKept(t, BeginWithTool(c, base), rev)
  <2>1. t = AbsentTurn
    BY <1>2 DEF TurnInv
  <2>2. \A d \in Calls : t.tool[d] = NoTool
    BY <2>1 DEF AbsentTurn
  <2>3. \A d \in Calls : BeginWithTool(c, base).tool[d].approval = "absent"
    BY DEF BeginWithTool, QueuedTurn, Proposed, NoTool
  <2>4. QED BY <1>2, <2>2, <2>3 DEF TurnKept, ToolHistoryKept, NoTool
<1>3. ASSUME NEW target, CanUpdate(t, target) PROVE TurnKept(t, Update(t, target), rev)
  <2>1. Update(t, target).tool = t.tool
    BY <1>0 DEF Update, Turn
  <2>2. t.status \in OpenTurns
    BY <1>3 DEF CanUpdate, TurnTransitions
  <2>3. QED BY <2>1, <2>2 DEF TurnKept, ToolHistoryKept
<1>4. ASSUME CanInterruptActive(t) PROVE TurnKept(t, InterruptActive(t), rev)
  <2>1. ASSUME NEW c \in Calls
        PROVE  /\ ToolHistoryKept(t.tool[c], InterruptActive(t).tool[c])
               /\ InterruptActive(t).tool[c].approval = t.tool[c].approval
    <3> DEFINE r == t.tool[c]
    <3>1. CASE r.status = "running"
      <4>1. InterruptActive(t).tool[c] = [r EXCEPT !.status = "interrupted"]
        BY <3>1 DEF InterruptActive
      <4>2. QED BY <1>0, <3>1, <4>1 DEF ToolHistoryKept, ToolRun
    <3>2. CASE r.status = "proposed"
      <4>1. InterruptActive(t).tool[c] = [r EXCEPT !.status = "cancelled"]
        BY <3>2 DEF InterruptActive
      <4>2. QED BY <1>0, <3>2, <4>1 DEF ToolHistoryKept, ToolRun
    <3>3. CASE r.status \notin {"running", "proposed"}
      <4>1. InterruptActive(t).tool[c] = r
        BY <3>3 DEF InterruptActive
      <4>2. QED BY <4>1 DEF ToolHistoryKept
    <3>4. QED BY <3>1, <3>2, <3>3
  <2>2. QED BY <1>4, <2>1 DEF TurnKept, CanInterruptActive
<1>5. ASSUME CanCancel(t) PROVE TurnKept(t, Cancel(t), rev)
  <2>1. CASE t.status = "cancelled"
    BY <2>1 DEF Cancel, TurnKept, ToolHistoryKept
  <2>2. CASE t.status # "cancelled"
    <3>1. \A c \in Calls : Cancel(t).tool[c] = CloseForCancel(t, c)
      <4> DEFINE closed == [c \in Calls |-> CloseForCancel(t, c)]
      <4>1. Cancel(t).tool = closed
        BY <2>2 DEF Cancel
      <4>2. QED BY <4>1
    <3>2. ASSUME NEW c \in Calls
          PROVE  /\ ToolHistoryKept(t.tool[c], CloseForCancel(t, c))
                 /\ CloseForCancel(t, c).approval \in {t.tool[c].approval, "denied"}
      <4> DEFINE r == t.tool[c]
      <4>1. CASE r.approval = "pending"
        <5>1. CloseForCancel(t, c) = [r EXCEPT !.status = "denied", !.approval = "denied"]
          BY <4>1 DEF CloseForCancel, PendingCalls
        <5>2. r.status = "waiting_approval"
          BY <4>1 DEF TurnInv, CallInv
        <5>3. QED BY <1>0, <4>1, <5>1, <5>2 DEF ToolHistoryKept, ToolRun
      <4>2. CASE r.approval # "pending" /\ PendingCalls(t) = {} /\ r.status \in ActiveTools
        <5>1. CloseForCancel(t, c) = [r EXCEPT !.status = "cancelled"]
          BY <4>2 DEF CloseForCancel
        <5>2. QED BY <1>0, <4>2, <5>1 DEF ToolHistoryKept, ToolRun
      <4>3. CASE r.approval # "pending" /\ ~(PendingCalls(t) = {} /\ r.status \in ActiveTools)
        <5>1. CloseForCancel(t, c) = r
          BY <4>3 DEF CloseForCancel
        <5>2. QED BY <5>1 DEF ToolHistoryKept
      <4>4. QED BY <4>1, <4>2, <4>3
    <3>3. Cancel(t).status = "cancelled"
      BY <2>2 DEF Cancel
    <3>4. \A c \in Calls : Cancel(t).tool[c].approval \in {t.tool[c].approval, "denied"}
      BY <3>1, <3>2
    <3>5. \A c \in Calls : ToolHistoryKept(t.tool[c], Cancel(t).tool[c])
      BY <3>1, <3>2
    <3>6. QED BY <3>3, <3>4, <3>5 DEF TurnKept
  <2>3. QED BY <2>1, <2>2
<1>6. ASSUME CanResume(t) PROVE TurnKept(t, Resume(t), rev)
  <2>1. Resume(t).tool = t.tool
    BY <1>0 DEF Resume, Turn
  <2>2. QED BY <1>6, <2>1 DEF TurnKept, ToolHistoryKept, CanResume
<1>7. QED BY <1>1, <1>2, <1>3, <1>4, <1>5, <1>6

\* A step leaves every record alone or rewrites one with one of the methods.
RecordsKept == \A t \in Turns : TurnKept(turns[t], turns'[t], revision)

\* A record that a method does not write keeps its history.
LEMMA UntouchedKept == \A t, rev : TurnKept(t, t, rev)
BY DEF TurnKept, ToolHistoryKept

\* One written record keeps its history, so all records do.
LEMMA WriteKept ==
  ASSUME IInv, NEW t \in Turns, NEW record, Write(t, record),
         TurnKept(turns[t], record, revision)
  PROVE  RecordsKept
<1>1. \A u \in Turns : turns'[u] = IF u = t THEN record ELSE turns[u]
  BY DEF Write, IInv
<1>2. QED BY <1>1, UntouchedKept DEF RecordsKept

\* Every step of the store keeps the history of every record.
LEMMA NextKept == IInv /\ [Next]_vars => RecordsKept
<1> SUFFICES ASSUME IInv, [Next]_vars PROVE RecordsKept
  OBVIOUS
<1>0. \A t \in Turns : TurnInv(turns[t])
  BY DEF IInv
<1>1. ASSUME NEW t \in Turns, TurnStep(t) PROVE RecordsKept
  <2>1. CASE Begin(t)
    BY <1>0, <2>1, TurnMethodsKept, WriteKept DEF Begin
  <2>2. ASSUME NEW target \in TurnStatuses, UpdateTurn(t, target) PROVE RecordsKept
    BY <1>0, <2>2, TurnMethodsKept, WriteKept DEF UpdateTurn
  <2>3. CASE Interrupt(t)
    BY <1>0, <2>3, TurnMethodsKept, WriteKept DEF Interrupt
  <2>4. CASE CancelTurn(t)
    BY <1>0, <2>4, TurnMethodsKept, WriteKept DEF CancelTurn
  <2>5. CASE ResumeTurn(t)
    BY <1>0, <2>5, TurnMethodsKept, WriteKept DEF ResumeTurn
  <2>6. QED BY <1>1, <2>1, <2>2, <2>3, <2>4, <2>5 DEF TurnStep
<1>2. ASSUME NEW t \in Turns, NEW c \in Calls, CallStep(t, c) PROVE RecordsKept
  <2>1. CASE BeginCallTurn(t, c)
    BY <1>0, <2>1, TurnMethodsKept, WriteKept DEF BeginCallTurn
  <2>2. CASE Append(t, c)
    BY <1>0, <2>2, CallMethodsKept, WriteKept DEF Append
  <2>3. ASSUME NEW target \in ToolStatuses, NEW dispatchStarted \in BOOLEAN,
               UpdateTool(t, c, target, dispatchStarted)
        PROVE  RecordsKept
    BY <1>0, <2>3, CallMethodsKept, WriteKept DEF UpdateTool
  <2>4. CASE Dispatch(t, c)
    BY <1>0, <2>4, CallMethodsKept, WriteKept DEF Dispatch
  <2>5. CASE AskApproval(t, c)
    BY <1>0, <2>5, CallMethodsKept, WriteKept DEF AskApproval
  <2>6. CASE ApproveCall(t, c)
    BY <1>0, <2>6, CallMethodsKept, WriteKept DEF ApproveCall
  <2>7. ASSUME NEW cancelOnDeny \in BOOLEAN, DenyCall(t, c, cancelOnDeny) PROVE RecordsKept
    BY <1>0, <2>7, CallMethodsKept, WriteKept DEF DenyCall
  <2>8. QED BY <1>2, <2>1, <2>2, <2>3, <2>4, <2>5, <2>6, <2>7 DEF CallStep
<1>3. CASE AdvanceRevision
  BY <1>3, UntouchedKept DEF AdvanceRevision, RecordsKept
<1>4. CASE UNCHANGED vars
  BY <1>4, UntouchedKept DEF vars, RecordsKept
<1>5. QED BY <1>1, <1>2, <1>3, <1>4 DEF Next

\* No method rewrites a finished call, forgets a dispatch mark, revises a decided
\* approval or moves a call's baseline.
THEOREM HistoryAlwaysKept == Spec => HistoryKept
<1>1. IInv /\ [Next]_vars
      => [\A t \in Turns, c \in Calls :
            /\ ToolHistoryKept(turns[t].tool[c], turns'[t].tool[c])
            /\ ApprovedAt(turns[t].tool[c], turns'[t].tool[c], revision)]_vars
  BY NextKept DEF RecordsKept, TurnKept, ApprovedAt
<1>2. QED BY <1>1, Invariance, PTL DEF Spec, HistoryKept

\* A terminal turn with an interrupted dispatched call is never run again.
THEOREM NonReplayableAlwaysClosed == Spec => NonReplayableStaysClosed
<1>1. IInv /\ [Next]_vars
      => [\A t \in Turns :
            (turns[t].status \in TerminalTurns /\ NonReplayable(turns[t]))
              => turns'[t].status \in TerminalTurns]_vars
  BY NextKept DEF RecordsKept, TurnKept
<1>2. QED BY <1>1, Invariance, PTL DEF Spec, NonReplayableStaysClosed
=============================================================================
