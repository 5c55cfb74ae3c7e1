----------------------------- MODULE TurnRecords -----------------------------
(***************************************************************************)
(* The turn aggregate of agent/turns.py as a value: a turn record with its *)
(* tool calls and their approval checkpoints, and one operator per method   *)
(* of AgentTurnStore that returns the record the method writes.             *)
(*                                                                          *)
(* CanXxx(t, ...) is the conjunction of the checks the method makes before  *)
(* it writes (the method raises ValidationError when it is false) and       *)
(* Xxx(t, ...) is the record it writes.  Timestamps are left out: the code  *)
(* sets started_at, completed_at and decided_at together with the status    *)
(* that requires them.  dispatch_started_at is kept, as the flag            *)
(* `dispatched', because it outlives the status it was written with.        *)
(*                                                                          *)
(* A definition whose name ends in an underscore and a word is a mutant: the *)
(* definition after it with a plausible bug, which no specification uses.   *)
(***************************************************************************)
EXTENDS Naturals

CONSTANTS
  Calls   \* tool_call_ids that may appear in one turn

OpenTurns     == {"queued", "running", "waiting_approval"}
TerminalTurns == {"completed", "failed", "interrupted", "cancelled"}
TurnStatuses  == OpenTurns \cup TerminalTurns

ActiveTools   == {"proposed", "waiting_approval", "running"}
TerminalTools == {"completed", "failed", "interrupted", "denied", "cancelled"}
ToolStatuses  == ActiveTools \cup TerminalTools

ApprovalStatuses == {"pending", "approved", "denied"}

\* "absent" stands for a record file, a call or a checkpoint that does not exist.
ToolRun == [status     : ToolStatuses \cup {"absent"},
            dispatched : BOOLEAN,
            approval   : ApprovalStatuses \cup {"absent"},
            base       : Nat]

Turn == [status : TurnStatuses \cup {"absent"}, tool : [Calls -> ToolRun]]

\* _TURN_TRANSITIONS and _TOOL_TRANSITIONS: the moves update() and
\* update_tool_run() accept.
TurnTransitions ==
  {"queued"} \X {"running", "interrupted", "cancelled"}
  \cup {"running"} \X ({"waiting_approval"} \cup TerminalTurns)
  \cup {"waiting_approval"} \X {"running", "interrupted", "cancelled"}

ToolTransitions ==
  {"proposed"} \X {"waiting_approval", "running", "denied", "cancelled"}
  \cup {"waiting_approval"} \X {"running", "denied", "cancelled"}
  \cup {"running"} \X {"completed", "failed", "interrupted", "cancelled"}

NoTool     == [status |-> "absent", dispatched |-> FALSE, approval |-> "absent", base |-> 0]
AbsentTurn == [status |-> "absent", tool |-> [c \in Calls |-> NoTool]]
QueuedTurn == [status |-> "queued", tool |-> [c \in Calls |-> NoTool]]

Proposed(rev) == [NoTool EXCEPT !.status = "proposed", !.base = rev]

ActiveCalls(t)  == {c \in Calls : t.tool[c].status \in ActiveTools}
PendingCalls(t) == {c \in Calls : t.tool[c].approval = "pending"}

\* A dispatched call whose receipt was not committed: its effect may or may
\* not have happened.
Ambiguous(r) == r.dispatched /\ r.status \in {"failed", "interrupted", "cancelled"}

-----------------------------------------------------------------------------
\* Validation: ToolRunRecord.__post_init__, TurnRecord._validate_lifecycle and
\* TurnRecord._validate_children, run on every record that is built or loaded.

ToolWellFormed(r) ==
  /\ r.status \in {"absent", "proposed", "waiting_approval"} => ~r.dispatched
  /\ r.status = "completed" => r.dispatched

ApprovalWellFormed(r) ==
  /\ r.approval = "pending"  => r.status = "waiting_approval"
  /\ r.approval = "denied"   => r.status = "denied"
  /\ r.approval = "approved" => r.status \notin {"absent", "proposed", "waiting_approval"}

TurnWellFormed(t) ==
  /\ \A c \in Calls : ToolWellFormed(t.tool[c]) /\ ApprovalWellFormed(t.tool[c])
  /\ \A c, d \in PendingCalls(t) : c = d
  /\ t.status = "waiting_approval" <=> PendingCalls(t) # {}
  /\ t.status \in TerminalTurns => ActiveCalls(t) = {}

-----------------------------------------------------------------------------
\* begin and begin_with_tool build the record; the other methods rewrite it.

BeginWithTool(c, rev) == [QueuedTurn EXCEPT !.tool[c] = Proposed(rev)]

\* update: one legal transition; replace() re-validates the whole record, so a
\* target the children contradict is refused as well.
Update(t, target) == [t EXCEPT !.status = target]
\* Mutant: the children are not validated against the new status.
CanUpdate_Unvalidated(t, target) == <<t.status, target>> \in TurnTransitions

CanUpdate(t, target) ==
  /\ <<t.status, target>> \in TurnTransitions
  /\ TurnWellFormed(Update(t, target))

CanAppendToolRun(t, c) ==
  /\ t.status = "running"
  /\ t.tool[c].status = "absent"
  /\ ActiveCalls(t) = {}
AppendToolRun(t, c, rev) == [t EXCEPT !.tool[c] = Proposed(rev)]

\* update_tool_run: never into or out of waiting_approval; entering "running"
\* stamps the dispatch unless the caller defers it to begin_dispatch.
UpdateToolRun(t, c, target, dispatchStarted) ==
  [t EXCEPT !.tool[c].status = target,
            !.tool[c].dispatched = @ \/ (target = "running" /\ dispatchStarted)]
\* Mutant: "waiting_approval" may be a target, as ToolTransitions alone allows.
CanUpdateToolRun_IntoWaiting(t, c, target, dispatchStarted) ==
  /\ t.status = "running"
  /\ <<t.tool[c].status, target>> \in ToolTransitions
  /\ ToolWellFormed(UpdateToolRun(t, c, target, dispatchStarted).tool[c])

\* Mutant: neither the turn's status nor "waiting_approval" as a source is checked.
CanUpdateToolRun_OutOfWaiting(t, c, target, dispatchStarted) ==
  /\ target # "waiting_approval"
  /\ <<t.tool[c].status, target>> \in ToolTransitions
  /\ ToolWellFormed(UpdateToolRun(t, c, target, dispatchStarted).tool[c])

CanUpdateToolRun(t, c, target, dispatchStarted) ==
  /\ t.status = "running"
  /\ target # "waiting_approval"
  /\ t.tool[c].status # "waiting_approval"
  /\ <<t.tool[c].status, target>> \in ToolTransitions
  /\ ToolWellFormed(UpdateToolRun(t, c, target, dispatchStarted).tool[c])

\* Mutant: the dispatch mark is not looked at.
CanBeginDispatch_Marked(t, c) == t.status = "running" /\ t.tool[c].status = "running"

CanBeginDispatch(t, c) ==
  /\ t.status = "running"
  /\ t.tool[c].status = "running"
  /\ ~t.tool[c].dispatched
BeginDispatch(t, c) == [t EXCEPT !.tool[c].dispatched = TRUE]

\* interrupt_active: a running call keeps its dispatch mark and becomes
\* interrupted, a proposed one is cancelled.
CanInterruptActive(t) ==
  /\ t.status = "running"
  /\ \A c, d \in ActiveCalls(t) : c = d
  /\ \A c \in ActiveCalls(t) : t.tool[c].status # "waiting_approval"
InterruptActive(t) ==
  [status |-> "interrupted",
   tool |-> [c \in Calls |->
     CASE t.tool[c].status = "running"  -> [t.tool[c] EXCEPT !.status = "interrupted"]
       [] t.tool[c].status = "proposed" -> [t.tool[c] EXCEPT !.status = "cancelled"]
       [] OTHER -> t.tool[c]]]

\* cancel: closes the pending approval as denied, or else the one active call as
\* cancelled; cancelling a cancelled turn returns it unchanged.
CanCancel(t) ==
  \/ t.status = "cancelled"
  \/ /\ t.status \in OpenTurns
     /\ PendingCalls(t) = {} =>
          /\ \A c, d \in ActiveCalls(t) : c = d
          /\ \A c \in ActiveCalls(t) : t.tool[c].status # "waiting_approval"
\* Mutant: finished calls are cancelled too.
CloseForCancel_All(t, c) ==
  IF t.tool[c].status = "absent" THEN t.tool[c]
  ELSE [t.tool[c] EXCEPT !.status = "cancelled"]

CloseForCancel(t, c) ==
  CASE t.tool[c].approval = "pending" ->
         [t.tool[c] EXCEPT !.status = "denied", !.approval = "denied"]
    [] PendingCalls(t) = {} /\ t.tool[c].status \in ActiveTools ->
         [t.tool[c] EXCEPT !.status = "cancelled"]
    [] OTHER -> t.tool[c]
Cancel(t) ==
  IF t.status = "cancelled" THEN t
  ELSE [status |-> "cancelled", tool |-> [c \in Calls |-> CloseForCancel(t, c)]]

\* resume: a retryable terminal turn runs again unless it holds an interrupted
\* call that was dispatched.
NonReplayable(t) ==
  \E c \in Calls : t.tool[c].status = "interrupted" /\ t.tool[c].dispatched
\* Mutant: ambiguous calls are forgotten.
CanResume_Always(t) == t.status \in {"failed", "interrupted", "cancelled"}

CanResume(t) == t.status \in {"failed", "interrupted", "cancelled"} /\ ~NonReplayable(t)
Resume(t) == [t EXCEPT !.status = "running"]

CanRequestApproval(t, c) ==
  /\ t.status = "running"
  /\ PendingCalls(t) = {}
  /\ t.tool[c].status = "proposed"
RequestApproval(t, c) ==
  [t EXCEPT !.status = "waiting_approval",
            !.tool[c].status = "waiting_approval",
            !.tool[c].approval = "pending"]

\* resolve_approval: the caller names the call and the baseline it was shown;
\* approval also reads the project revision under the same lock.
CanResolveApproval(t, c, base) ==
  /\ t.status = "waiting_approval"
  /\ t.tool[c].approval = "pending"
  /\ t.tool[c].base = base
CanApprove(t, c, base, rev) == CanResolveApproval(t, c, base) /\ rev = base
Approve(t, c) ==
  [t EXCEPT !.status = "running",
            !.tool[c].status = "running",
            !.tool[c].approval = "approved"]
\* Mutant: the turn gets the status of its call.
Deny_CallStatus(t, c, cancelOnDeny) ==
  [t EXCEPT !.status = "denied", !.tool[c].status = "denied", !.tool[c].approval = "denied"]

Deny(t, c, cancelOnDeny) ==
  [t EXCEPT !.status = IF cancelOnDeny THEN "cancelled" ELSE "running",
            !.tool[c].status = "denied",
            !.tool[c].approval = "denied"]
=============================================================================
