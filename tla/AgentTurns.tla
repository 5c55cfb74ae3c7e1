------------------------------ MODULE AgentTurns ------------------------------
(***************************************************************************)
(* AgentTurnStore of agent/turns.py: the durable turn records of one        *)
(* project under the most general client.  Every method runs under the      *)
(* project ResourceLock and replaces one record file atomically, so each is *)
(* one action; a method whose checks fail raises and changes nothing.       *)
(* Callers (orchestrators, JobRunner, user interfaces, recovery) may issue   *)
(* any call in any order, which is what several processes sharing the       *)
(* project directory amount to.                                             *)
(***************************************************************************)
EXTENDS TurnRecords

CONSTANTS
  Turns,      \* turn ids that may be allocated; their number plays MAX_TURNS
  Threads,    \* conversation threads
  ThreadOf,   \* the thread a turn id is begun in
  MaxRevision \* bound on the project revision

ASSUME ThreadAssumption == ThreadOf \in [Turns -> Threads]
ASSUME BoundAssumption == MaxRevision \in Nat

VARIABLES
  turns,    \* agent-turns/<turn_id>.json: the record of each turn id
  revision  \* project revision, advanced outside the store

vars == <<turns, revision>>

Init ==
  /\ turns = [t \in Turns |-> AbsentTurn]
  /\ revision = 0

Write(t, record) == turns' = [turns EXCEPT ![t] = record] /\ UNCHANGED revision

\* The check that begin and begin_with_tool make over all records.
ThreadIsFree(t) ==
  \A u \in Turns : ThreadOf[u] = ThreadOf[t] => turns[u].status \notin OpenTurns

Begin(t) ==
  /\ turns[t].status = "absent"
  /\ ThreadIsFree(t)
  /\ Write(t, QueuedTurn)

\* The baseline revision of a call was read before the lock: it may be stale.
BeginCallTurn(t, c) ==
  /\ turns[t].status = "absent"
  /\ ThreadIsFree(t)
  /\ \E base \in 0..revision : Write(t, BeginWithTool(c, base))

UpdateTurn(t, target) ==
  /\ CanUpdate(turns[t], target)
  /\ Write(t, Update(turns[t], target))

Append(t, c) ==
  /\ CanAppendToolRun(turns[t], c)
  /\ \E base \in 0..revision : Write(t, AppendToolRun(turns[t], c, base))

UpdateTool(t, c, target, dispatchStarted) ==
  /\ CanUpdateToolRun(turns[t], c, target, dispatchStarted)
  /\ Write(t, UpdateToolRun(turns[t], c, target, dispatchStarted))

Dispatch(t, c) ==
  /\ CanBeginDispatch(turns[t], c)
  /\ Write(t, BeginDispatch(turns[t], c))

Interrupt(t) ==
  /\ CanInterruptActive(turns[t])
  /\ Write(t, InterruptActive(turns[t]))

CancelTurn(t) ==
  /\ CanCancel(turns[t])
  /\ Write(t, Cancel(turns[t]))

ResumeTurn(t) ==
  /\ CanResume(turns[t])
  /\ Write(t, Resume(turns[t]))

AskApproval(t, c) ==
  /\ CanRequestApproval(turns[t], c)
  /\ Write(t, RequestApproval(turns[t], c))

\* The client names the baseline it was shown; any other is refused.
ApproveCall(t, c) ==
  /\ CanApprove(turns[t], c, turns[t].tool[c].base, revision)
  /\ Write(t, Approve(turns[t], c))

DenyCall(t, c, cancelOnDeny) ==
  /\ CanResolveApproval(turns[t], c, turns[t].tool[c].base)
  /\ Write(t, Deny(turns[t], c, cancelOnDeny))

\* A tool handler, or any other entry point of the project, commits a change.
AdvanceRevision ==
  /\ revision < MaxRevision
  /\ revision' = revision + 1
  /\ UNCHANGED turns

TurnStep(t) ==
  \/ Begin(t)
  \/ \E target \in TurnStatuses : UpdateTurn(t, target)
  \/ Interrupt(t)
  \/ CancelTurn(t)
  \/ ResumeTurn(t)

CallStep(t, c) ==
  \/ BeginCallTurn(t, c)
  \/ Append(t, c)
  \/ \E target \in ToolStatuses, dispatchStarted \in BOOLEAN :
       UpdateTool(t, c, target, dispatchStarted)
  \/ Dispatch(t, c)
  \/ AskApproval(t, c)
  \/ ApproveCall(t, c)
  \/ \E cancelOnDeny \in BOOLEAN : DenyCall(t, c, cancelOnDeny)

Next ==
  \/ \E t \in Turns : TurnStep(t) \/ \E c \in Calls : CallStep(t, c)
  \/ AdvanceRevision

Spec == Init /\ [][Next]_vars

-----------------------------------------------------------------------------
\* Properties.

\* The state variables hold turn records and a revision within its bound.
TypeOK ==
  /\ turns \in [Turns -> Turn]
  /\ revision \in 0..MaxRevision

\* Whatever calls are made in whatever order, the record a method writes passes
\* the validation the next load applies to it (TurnRecord._validate_children):
\* no method but update() relies on the validator to refuse its own result, so
\* no accepted call leaves a record that every later load rejects.
RecordsValid == \A t \in Turns : TurnWellFormed(turns[t])

\* At most one call of a turn is active, which OpenTurnCanClose rests on, although append_tool_run is the only
\* method that looks: the "multiple active tool calls" branches of
\* interrupt_active and cancel are never taken.
OneActiveCall ==
  \A t \in Turns : \A c, d \in ActiveCalls(turns[t]) : c = d

\* A call waits for approval exactly while it has a pending checkpoint, which
\* OpenTurnCanClose rests on; the
\* "no matching checkpoint" branches of cancel and interrupt_active are dead.
WaitingHasCheckpoint ==
  \A t \in Turns, c \in Calls :
    turns[t].tool[c].status = "waiting_approval" <=> turns[t].tool[c].approval = "pending"

\* A call that was put to the user is dispatched only when the user approved
\* it, through every order of update_tool_run, cancel, resume and resolution.
DispatchNeedsApproval ==
  \A t \in Turns, c \in Calls :
    turns[t].tool[c].dispatched => turns[t].tool[c].approval \in {"absent", "approved"}

\* An open turn can always be closed: interrupt_active or cancel is accepted,
\* so recovery never meets a running or queued turn it cannot close.
OpenTurnCanClose ==
  \A t \in Turns : turns[t].status \in OpenTurns => CanCancel(turns[t])

\* What recovery and retry rest on: no method rewrites a finished call, forgets
\* a dispatch mark, revises a decided approval or moves a call's baseline, not
\* even the ones that reopen the turn (resume) or close it (cancel); and a change of
\* the project between the prompt and the answer voids the answer.
ToolHistoryKept(r, s) ==
  /\ r.status \in TerminalTools => s.status = r.status
  /\ r.dispatched => s.dispatched
  /\ r.approval \in {"approved", "denied"} => s.approval = r.approval
  /\ r.status # "absent" => s.base = r.base /\ s.status # "absent"
ApprovedAt(r, s, rev) ==
  r.approval # "approved" /\ s.approval = "approved" => s.base = rev
HistoryKept ==
  [][\A t \in Turns, c \in Calls :
       /\ ToolHistoryKept(turns[t].tool[c], turns'[t].tool[c])
       /\ ApprovedAt(turns[t].tool[c], turns'[t].tool[c], revision)]_vars

\* Once a terminal turn holds an interrupted dispatched call, no method runs
\* the turn again: the user has to submit a new one.
NonReplayableStaysClosed ==
  [][\A t \in Turns :
       (turns[t].status \in TerminalTurns /\ NonReplayable(turns[t]))
         => turns'[t].status \in TerminalTurns]_vars
=============================================================================
