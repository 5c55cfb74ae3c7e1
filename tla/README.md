# pcbdraft: specifications of the durable core

TLA+ models of the part of pcbdraft that must not go wrong when processes
crash, requests race and users change their mind: the durable jobs of a
project, the agent turns they run, the tool calls those turns dispatch, the attempts at a
conversation turn with its threads, the publication of a new design of the
project, the stored transcript that several processes write and compact, and the
task board whose dispatcher starts worker processes.
Paths below are relative to `src/src/pcbdraft/` unless they start with `docs/`
or `tests/`.

    tlc -workers 2 -config MCJobRunner_retry.cfg MCJobRunner.tla
    tlc -workers 2 -config MCDesignPublication_publish.cfg MCDesignPublication.tla
    tlc -workers 2 -config MCSessionTurns_sessions.cfg MCSessionTurns.tla
    tlapm AgentTurnsProofs.tla
    tlapm JobRunnerProofs.tla
    tlapm JobAuthorityProofs.tla
    tlapm ConversationProofs.tla
    tlapm SessionTurnsProofs.tla
    tlc -workers 2 -config MCKanbanBoard_kanban.cfg MCKanbanBoard.tla
    tlapm KanbanBoardProofs.tla
    tlapm DesignPublicationProofs.tla

## 1. The system

| Part | State it keeps | Operations | Talks to |
|---|---|---|---|
| Job runner `services/jobs.py` | `jobs/<id>.json`, execution leases (flocks), per-process cancel events and thread pool | submit, submit_mcp_tool, retry, resolve_approval, cancel, shutdown, worker, startup recovery | turn store, orchestrator, application service |
| Turn store `agent/turns.py` | `agent-turns/<id>.json`: a turn, its tool calls, its approval checkpoints | begin, begin_with_tool, update, append_tool_run, update_tool_run, begin_dispatch, interrupt_active, request_approval, resolve_approval, cancel, resume | locks and durable files |
| Orchestrator `agent/orchestrator.py` | none of its own; the step it has reached in a turn | start_turn, run_turn, resolve_pending_approval | turn store, producer, permission policy, tool executor |
| Permission policy `agent/permissions.py`, producer `agent/policy.py` | the mode of the process | decide, next_call | |
| Tool executor `agent/tooling.py` | none | execute: baseline check, handler, receipt | application service |
| Semantic transactions `services/transactions.py` | one directory per transaction: receipt, candidate, backup; the source file | prepare, apply, undo, recover | locks, managed sessions |
| Application service `services/application*.py` | project record with its revision, design, retained previews, stage directories | one method per product action, each under the project lock | KiCad, compiler, model provider |
| Native conversation controller `agent/conversations.py` | of each attempt at a turn: deadline, dispatch lock, the agent, a watcher thread, tool threads | run_turn (its `_run_turn`), execute (of a tool thread), watch, interrupt | turn store, agent loop, tool executor, job runner |
| Session database `services/session_db*.py` | SQLite: sessions, transcripts, turn and compression leases, handoffs | append, compact, publish a continuation, reopen; acquire, refresh, release, take over a lease; rewind, prune | agent loop, several processes |
| Agent loop and compaction `agent/loop.py`, `agent/conversation_compression.py`, `agent/session_persistence.py` | the messages in memory, what of them is written, the lease of the turn, the lock of the compaction | run_conversation, flush, compress_context | session database, model provider |
| Task board `interfaces/tui/kanban_db.py`, `tools/kanban_tools.py` | SQLite: tasks, links, runs, events; the tick lock; the exit statuses a dispatcher has reaped | the dispatcher's tick; claim, complete, block, review, heartbeat; what an operator does to a task | worker processes, the gateway that ticks |
| Tools, MCP clients, model providers, memory | in-memory conversation, process registries, credential cooldowns | | external services |
| KiCad adapters, compiler, domain rules, verification | files only | pure computation and batch runs | external programs |

How they interact. A request thread of the GUI or CLI calls the job runner. It
admits at most one active job per project under the jobs-directory lock, begins
a turn in the store, writes the job record and hands the job to a thread pool.
The worker takes the job's execution lease, marks the record running and calls
`run_turn`, a loop of durable steps: recover an active call, stop if cancelled,
ask the producer for a call, ask the permission policy, mark the dispatch,
execute, commit the receipt. A call that needs approval parks the turn; the
user's answer arrives in another request, which writes a continuation job first
and resolves the checkpoint second. Every start recovers the jobs and turns a
crash has left. Several processes may serve one project directory; what they
share is files and flocks, never memory. Board, dispatcher, workers and operator
share nothing but the board's database.

What is hard: writes to two records that no transaction joins (job and turn);
reads made before a lock is taken or after it is released; an in-process cancel
event beside a durable cancel mark; a retry that reopens an old turn; an
approval that answers an old prompt; a permission mode that changes at restart;
an exception that does not say whether the effect happened. `PROJECT.json`
lists each such hazard at its line with the properties that cover it.

What makes each part correct:

* **turn store** - a record the store wrote can always be read again; one active
  call; waiting and pending approval go together; nothing put to the user runs
  unapproved; dispatch marks and approvals are never lost; a turn with an
  ambiguous call stays closed; every open turn can be closed.
* **job runner** - one active job per project; a handler runs only under an
  active record, its lease, its admitted permission mode and its approval; each
  call is dispatched once; cancellation before the start is final; finished jobs
  stay finished; records stay readable; no open turn is stranded; every job ends.
* **semantic transactions** - the source file is the baseline or the candidate,
  and from every crash point some operation leads back to one of them.
* **publication** - the design directory and project.json change together or not
  at all; no design is lost; a candidate replaces only the design it was made
  from, so that undo restores exactly that one; a change that was discarded or
  undone does not come back; a project waits for a decision exactly while there
  is a change to decide on.
* **stored conversation** - the chain of sessions never forks; turns write one
  after the other although their leases expire; a compaction that owns its lock
  still has a watermark that divides the rows; a stale holder's refresh, release
  or write does not harm its successor.
* **task board** - an open run is the current run of its task, and a running task
  has a claim and an open run; every failure is counted, and a task that failed
  too often is not claimed again; the stale and the crash pass take no task from a
  recorded worker that is alive; every claim ends.
* **conversation controller** - handlers of two attempts run side by side only after
  the call of one was closed, those of one attempt never; a call is dispatched once;
  no effect is recorded as not
  dispatched; an attempt that is cancelled or late ends; a turn no attempt drives
  can be retried.

## 2. Modules

| Module | Models |
|---|---|
| `TurnRecords` | One turn record as a value: the statuses, the transition tables, for each store method its guard (`Can...`) and the record it writes, and the validation the loader repeats (`TurnWellFormed`). No variables, so other modules build on it. |
| `AgentTurns` | The turn store as a system of its own: any caller may call any method in any order; the project revision may advance at any time. The abstract promise every user of the store relies on. |
| `TurnRecordsProofs` | What each store method makes of a record, for any set of calls: the lemmas `AgentTurnsProofs`, `JobRunnerProofs` and `ConversationProofs` share. |
| `AgentTurnsProofs` | The theorems about `AgentTurns`, for any sets of turns, threads and calls. |
| `JobRunner` | Jobs, turns, workers, recovery, requests and crashes of one project served by the processes `Runners`. Extends `TurnRecords`: it calls the same guards and record functions where the code calls the store. |
| `JobRunnerProofs` | The theorems about `JobRunner`, for any processes, jobs, turns and calls, and that it implements `AgentTurns`. |
| `JobAuthorityProofs` | That no handler runs without authority or without its job, and what becomes of job records and open turns; extends `JobRunnerProofs`. |
| `DesignPublication` | The requests that replace or stage the authoritative design of one project, by any number of threads and processes: repair, apply, discard, undo, flat PCB operation, part registration, preview. |
| `AtomicDesign` | What a reader of a project may rely on: designs are replaced in one step, by candidates made from the design they replace, and undone to it. `DesignPublication` implements it (`PublishesAtomically`). |
| `DesignPublicationProofs` | The theorems about `DesignPublication`, for any number of requests, transactions and faults, and that it implements `AtomicDesign`. |
| `Conversation` | The attempts at one conversation turn: main thread, watcher and tool threads, which share a deadline, a cancel event and the turn record. Extends `TurnRecords`. |
| `ConversationProofs` | The theorems about `Conversation`, for any threads and calls and any number of attempts. |
| `SessionTurns` | One stored conversation opened by several processes: turns under a lease, compactions under a lock, both with expiry, takeover and crashes. |
| `SessionTurnsProofs` | The theorems about `SessionTurns`, for any number of processes, turns, compactions and crashes. |
| `KanbanBoard` | The tasks of a board, the runs made at them, the dispatcher's tick, the worker processes and the operator. |
| `KanbanBoardProofs` | The theorems about `KanbanBoard`, for any tasks, bounds and limits: that the rows of tasks and runs match, that the stale and the crash pass take no task from a recorded process that is alive, and the retry budget. |
| `MCAgentTurns`, `MCJobRunner`, `MCDesignPublication`, `MCConversation`, `MCSessionTurns`, `MCKanbanBoard` | Small constants for TLC. |

How they compose. `JobRunner` and `Conversation` are two users of the turn store
and share its guards through `TurnRecords`. `JobRunner` has the two-record
protocol around a turn and takes its inside as one worker; `Conversation` has the
threads inside one turn and takes the job around it as the outcome of an attempt.
That `JobRunner` uses the store only as `AgentTurns` allows is checked and proved
(`TurnsFollowStore`, an INSTANCE of `AgentTurns` with the runner's records).
`SessionTurns` is what an attempt's agent does to the session database.
`KanbanBoard` stands alone: a worker is a whole process, of which only its start,
its end and its calls to the board matter.

### TurnRecords and AgentTurns against the code

A turn is a status and one `ToolRun` per call id: `status`, `base` (baseline_revision), `dispatched` (dispatch_started_at is
set), `approval` (the state of its checkpoint). Times, texts, hashes and ids
are left out: the code derives `completed_at` from the status, and a checkpoint
that does not match its call's hash, effect or risk is refused, which the model
folds into naming the call. `Update...`, `Approve` and so on are the records the
methods write; each `Can...` collects the method's early exits and the
validation of the record it is about to write.

### JobRunner against the code

| Variable | Code |
|---|---|
| `job` | the job records; `started`, `cancelled`, `error`, `result` say which optional fields are set |
| `turn` | the turn records |
| `revision`, `applied` | the project revision; which revision each call's effect produced (a history variable, also what an exact tool receipt would show) |
| `runner`, `policy`, `todo` | a process: down, recovering (the constructor), up, closing (after shutdown); its permission mode; the jobs, then the open turns, its recovery has not dealt with |
| `lease` | the flock on `.execution-leases/<job>` |
| `worker` | for each process and job: the place of its worker thread or recovery section, the call in hand, and the record a section has read and will write back |
| `cancelSet` | the `threading.Event`s that are set |
| `cancelling` | cancel() calls in progress, between their four lock sections |
| `admission` | the request that holds the jobs-directory lock, and what it has done so far |

Grain of atomicity. A read-modify-write of one record under its lock is one
step. Where the code writes two records under one lock, the steps are separate,
because a crash, or a thread that does not take that lock, can come between
(`RecoveryClaim`/`RecoveryWrite`, `RefuseJob`/`CloseJob`, `Submit`/`CreateJob`,
`CreateContinuation`/`ApproveCheckpoint`/`FailContinuation`,
`RecoverOrphans`/`CloseOrphan`/`OrphansClosed`). A section that
writes back a record it read before keeps it in `seen`. `run_turn` takes one
step per durable write or per read whose result it uses later.

Two reads of `run_turn` are used after others may have written. `LoadTurn` reads the
turn for `_recover_active_call` and remembers whether the running call it found
carried a dispatch mark (`reconcileMarked`) or not (`reconcileUnmarked`).
`ProceedAtBoundary` reads it at the top of the loop; what becomes of the active call
is `LoadedStep`: the policy is asked about a proposed one (`decide`), an approved one
gets its mark (`beginDispatch`), and one that has its mark goes to the executor, with
no further question to the store (`orchestrator.py:375`).

### DesignPublication against the code

| Variable | Code |
|---|---|
| `live` | the design in the project's design directory, `None` when there is no directory |
| `record` | `project.json`: status, revision, active_transaction, last_transaction; `vouched` is the design its design_revision was counted for |
| `receipt` | `transactions/<id>/receipt.json`: status, before_hash, prior_status |
| `dir` | the directories `staged`, `before`, `after`, `failed-published` of a transaction |
| `lock` | the flock of the project |
| `req` | the local variables of each request: the revision it has bound, the receipt it has read, the record it will restore, moved_before and so on |

A design is named after the transaction that made it, so an equality of content
hashes (for a part registration, of catalog hashes) is an equality of names. The functions that publish
(`apply_modification`, `undo_last_modification`, `apply_pcb_operation`,
`register_kicad_part`) have the same skeleton and are one request with three
kinds: checks under the lock, move away, move in, record, receipt, and a handler
that undoes them. They differ in which directories are used (`Keep`, `Source`,
`Back`), in the checks (`Publishable`), in what is written, and in the rollback: an
operation has one handler for both moves, so a failure of the first skips the
second. Every rename and write is a step; so is every step of the rollback. Each
may fail, and the process may be killed before any of them.

Readers take no lock. `Bind` reads the record, and `Load` the receipt or the
design, in any state a publication may be in. A request that begins on a
record which is then rolled back keeps a revision that will be given out again.

How far that goes came out of the proof of `StagedChangeResolvable`. A publication
that fails after its record was written restores the old record, revision included,
and the next writer gives the same revision to something else. A request that bound
the first one passes the comparison of revisions when it should not. One such
rollback is harmless to what `StagedChangeResolvable` says, and so are two. After
three, a repair can start in a project whose `active_transaction` waits for a
decision: the revision it bound was given out, taken back and given out again, the
last time to the record that waits. One such history, which TLC replays, is 46 steps
long, with 3 requests, 5 transactions and 3 faults, out of reach of the run `publish`
(2 faults). Hence `faults < 3` in the second half of `StagedChangeResolvable`: after
it, a pending change may be named by a record that says "repairing", and neither
apply nor discard accepts that. The theorem says that fewer faults never suffice,
whatever the number of requests and transactions.

### Conversation against the code

| Variable | Code |
|---|---|
| `turn` | the record of the turn |
| `revision`, `applied` | the project revision, and which revision each call's effect produced (a history variable) |
| `main` | the attempt in progress: its number, the step of `_run_turn`, the record it has in hand (`seen`), the job's cancel mark, whether its deadline has passed, the agent's interrupt flag, the tool thread it waits for; and the outcome of the last attempt |
| `tool` | the tool threads: the attempt they belong to, the step of `_execute_tool`, `execute` or `_execute_durable_call`, the baseline they have read, their call |

A tool thread belongs to the attempt that started it, and so do the dispatch lock,
the deadline and `interrupt()` it uses. The executor shuts its pool down without
waiting when a call is late or the agent was interrupted (`tool_executor.py:974`):
the thread goes on (`AbandonTool` clears `joined`), and may still be in
its handler when a retry has begun. The cancel event goes with the job, so a
thread of an ended attempt sees only its own deadline. Both runs of the exception
handler are steps apart (`Except`, `CloseAfterError`): what an abandoned thread does in
between may make the store refuse, and the refusal replaces the first error. An
approved call runs in the main thread, before there is an agent or a watcher; it
is waited for without a bound, which `StopEndsAttempt` says.

### SessionTurns against the code

| Variable | Code |
|---|---|
| `segment` | the sessions of a conversation: open, ended by a compaction (`closed`) or otherwise (`ended`); the parent; the live rows with their ids and what they hold or summarise |
| `lease` | the row of `session_turn_leases` for the root of the chain |
| `lock` | the rows of `compression_locks` |
| `agent` | a process: the step of `run_conversation` or `compress_context`, its messages (`memory`), how many of them it takes for written (`saved`) and how many it has stamped itself (`marked`), the segment it writes to, the watermark and ceiling of its compaction |
| `log` | the turns whose messages were appended (a history variable) |

A transaction (`BEGIN IMMEDIATE`) is one step; everything a process does
between two of them interleaves with the others. The clocks are reduced to
whether an expiry has passed; a lease may expire at any time, however diligent
its refresher. A message is a number, a summary the set of messages it stands
for, so that what a compaction loses or duplicates can be asked. `compress()` keeps all but the
last message or summarises all. Configurations and the initial chain are those
of the code: rotation or in place for all processes, a root that is open, closed
without a continuation (older builds) or closed with one that has ended since.

### KanbanBoard against the code

| Variable | Code |
|---|---|
| `task` | a row of `tasks`: status, claim_lock, whether claim_expires has passed, worker_pid, current_run_id, consecutive_failures; and what two functions read back from the event log: `sticky` (`_has_sticky_block`), `resume` (`_resume_status_from_events`) |
| `gated` | the tasks with a parent that is neither done nor archived |
| `run` | a row of `task_runs`, the phase it was claimed from, and the worker process started for it |
| `tick` | the step of `_dispatch_once_locked`, the rows a pass has listed, the one in hand, the crashes still to be counted |
| `reclaim` | the operator's `reclaim_task`, which is a read, a kill and two transactions |
| `boots`, `commands`, `lastRun` | counters |
| `spent` | failed runs of a task since its last fresh budget (a history variable) |

An action is one `write_txn`, or one effect on a process (start, kill, exit)
between two of them. A tick is the passes of the code in their order:
`release_stale_claims` (`TickStart` to `StaleReleased`), `detect_crashed_workers` (`CrashedReleased`, `CrashAccounted`),
`enforce_max_runtime` (`TimeoutKilled` to `TimeoutAccounted`), `recompute_ready`
(`Promoted`), and the loops over the ready and the review column (`DispatchedReady`
to `SpawnFailed`). A pass acts on rows it read earlier; what its UPDATE compares is in
`SameClaim`. A process id is the number of the run its process was started for; ids are
not reused. `Complete`, `Block` and the others are those of a worker, which names its run
(`_worker_run_id`), or of the operator, who names none.

## 3. Runs

Bounds are chosen as the smallest that let the interesting case happen; each
run was also tried with the mutants of `PROJECT.json`, which break every
property in it.

| Run | Instance | Shows |
|---|---|---|
| `turns` | 1 turn, 2 calls, revision up to 2; 21 thousand states | the turn-store properties over every sequence of method calls. Two calls are needed for a second active call and for a finished call beside a live one; a call's approval compares two revisions. Turns do not interact except in `ThreadIsFree`. |
| `retry` | 1 process, 3 jobs, 1 turn, 1 guarded call, review mode, revision up to 1; 460 thousand states | three attempts at one turn (original, continuation, retry) with crashes and restarts anywhere, and that each of them ends, under fairness |
| `authority` | 1 process, 2 jobs, 4 calls: one submitted whole by an MCP client, a guarded and a trusted call and a read of the model; restarts under all three modes, tool receipts present; 1.3 million states | permission binding, both forms of admission, the receipt branch of recovery, and the refinement of `AgentTurns` |
| `two` | 2 processes, 2 jobs, 1 turn, 1 call, without approvals; 1 million states | lease and record races across processes: a handler runs only under an active record and the lease (`HandlerHasActiveJob`). With approvals that does not hold (see below). |
| `publish` | 2 requests, 2 transactions, requests begin at revisions below 6, 2 errors or kills; 1 million states | the publication properties. A repair takes 3 revisions and its apply or discard the fourth, so the fifth and sixth leave room for an undo, an operation or a preview after it; two faults are needed for a publication that fails and whose rollback fails too. The same holds with 7 revisions and 3 faults (3.7 million states), checked before `PublishesAtomically` was added. |
| `conversation` | 3 attempts, 2 tool threads, 2 calls, one change of the project; cancellation, lateness and outside edits in the second attempt; 1.5 million states | the properties of the threads of a turn. The second attempt meets a thread the first left behind and may leave one itself; it takes a third for the handlers of two ended attempts to overlap (see below), which `HandlersApart` delimits. The second call is what a model asks for after the first was abandoned. With all three attempts disturbed the safety properties hold as well (5 million states, too many for the liveness). |
| `sessions` | 2 processes, at most 2 turns, 2 compactions and 1 crash, 4 of them together (a crash counts twice), both configurations; 3.6 million states | the chain, the order of writes and the watermark. Two turns and two compactions are needed for a takeover of either lease in which both holders go on; a crash with one of each for an orphan. |
| `kanban` | 1 task with a maximum run time, 2 claims, 2 interventions of the operator, 2 dispatcher processes one after the other, the limits 2 (the code's defaults, but for that of violations, which is 3); 980 thousand states | the board properties, `ClaimReleased` under fairness. The second claim is the one a late pass may harm; two interventions are a reclaim or an unblock and something in the middle of it. Without interventions the safety properties hold with the default limits (2, 2, 3) and 3 claims, too (470 thousand states). Tasks meet only in `gated`. |

`CHECK_DEADLOCK FALSE` stands in `turns`, `publish`, `conversation` and `sessions` (when
the bounds are used up there may be nothing left to do), in `two` (a malformed record
can stop every start, see `records`) and in runs that are expected to fail. It is
on elsewhere.

Bounds in guards: `MaxRevision` (project revisions), the number of `Jobs`
(MAX_PROJECT_JOBS, 2000 in the code: admission stops when no record is free,
as in the code), the number of `Calls` (MAX_TOOL_RUNS), one `cancel()` in
progress per job. In `DesignPublication`, `MaxRevision` bounds the revision at
which a request begins and `MaxFaults` the errors and kills. In `Conversation`,
`MaxAttempts` bounds the attempts, `Disturbed` names those in which the user cancels,
the deadline passes or the project is changed from outside, and `MaxRevision` bounds the project; in
`SessionTurns`, `MaxTurns`, `MaxCompactions`, `MaxCrashes` and `MaxEvents` bound
what is started; in `KanbanBoard`, `MaxRuns` the claims, `MaxCommands` the
operator and `MaxBoots` the dispatcher processes.

### Refinements

* `JobRunner` implements `AgentTurns` (`TurnsFollowStore`, run `authority`, proved in
  `JobRunnerProofs`): every change of
  the turn records by admission, workers, recovery, cancellation and approval is a
  method the store accepts at that record and revision, or no change. The
  threads of the store are unused by the runner, and its calls map to themselves.
* `DesignPublication` implements `AtomicDesign` (`PublishesAtomically`, run
  `publish`). The design a reader sees maps to the one the record vouched for when
  the lock was taken, while a publication is under way, and to the live one
  otherwise. What follows a kill or a failed rollback in the middle of a publication
  (`torn`) is not promised; `NoDesignLost` speaks of it.

### Disagreements the runs show

Each of these runs checks one statement of the repository that the code does
not meet. The runs find the shortest trace.

* `outbox` - *jobs.py:179-182*: the continuation is harmless until the approval
  is made. A prompt is denied and then approved from a stale view; the process
  crashes before the store refuses; the restart schedules the continuation and
  `run_turn` resumes the cancelled turn.
* `records` - *jobs.py:1104-1110*: the lifecycle of a cancelled record. A
  delayed worker whose event is set overwrites the completed_after_cancel
  record of another process; list() then fails for good.
* `publish_race` - *application_modification_apply.py:265* and
  *docs/ARCHITECTURE.md:740-741*: undo remains available after an apply. Two
  requests apply the same change; the second has read the receipt while it was
  ready. It compares the revision inside the `try`, loses, and the handler
  writes that receipt back with status ready. The change is live and recorded,
  but undo refuses a receipt that is not applied. No error or kill is needed.
* `stale_history` - *agent/loop.py:3256-3258*: a turn that gets its lease at once
  has a current history. The lease says that no other process runs a turn now, not
  that none ran since this process last read: a turn of another process that began
  and ended in between is missed, the turn runs on the older messages, and an
  in-place compaction of them archives the rows of the other turn.

The models contain more behaviours a reader of the code may not expect. No
run is kept for them; the traces are short. Of the jobs and turns:

* Recovery of a job in cancel_requested (`jobs.py:1163`) cancels its turn even over a dispatched
  call without a receipt, and a retry resumes that turn, although
  *docs/ARCHITECTURE.md:592-598* says an ambiguous call ends its turn. The call
  itself is not dispatched twice (`DispatchOnce`).
* Only a proposed call is put to the policy (`orchestrator.py:355`): one that waits from
  a review process can be approved, and is dispatched, in a read_only process,
  although *permissions.py:40-41* permits only factual reads there.
* cancel() of a queued job closes the turn after it has let go of the path lock
  (`jobs.py:281`). When the worker closes the cancelled record first and a retry
  has reopened and dispatched the turn by then, the late close cancels a
  dispatched call.
* `resume` does not look at the thread (`turns.py:1452-1491`), so the retry of an
  old job opens a second turn beside one that waits for approval, although
  `begin` refuses that.
* A refused approval fails its continuation record without the path lock
  (`jobs.py:239`), and a second process that has just started may be executing
  it, under which the handler then has no active job.
* A second process that recovers the turn between the continuation record and the
  decision takes the continuation and completes it (the cause is that of `outbox`);
  `OpenTurnReachable` is checked with one process.
* The loop executes a call it has loaded running and marked without asking anybody
  (`orchestrator.py:375-382`). One process never loads one, but two can hand a call over
  twice: the continuation of a stale approval (`outbox`) is taken by a second process,
  which resumes the denied turn; the first fails the record (`jobs.py:239`), so that a
  retry may run the same turn; it dispatches a call, and the other loads it then and
  executes it as well. Where the modes of the processes differ, it may so run a call
  that its own mode asks about and nobody approved. Hence `DispatchOnce` and
  `EffectsAuthorised` are checked with one process, and proved for several under a
  hypothesis (section 4).

Of the threads of a conversation turn:

* Two handlers of one turn can run at once, each of an attempt that has ended. A
  first attempt leaves a thread behind before it records its call, a second resumes
  the failed turn and leaves another behind. That one sees no active call while the
  first records its own, the second attempt's closing write is refused and the turn
  stays running; the first thread dispatches. The third attempt settles this call as
  interrupted, in a write of its own before it closes the turn
  (`conversations.py`, `_fail_ambiguous_active`); in between the other thread, under
  its own dispatch lock, finds a running turn without an active call and dispatches.
  A denial that closes a call under its handler allows the same. `HandlersApart` says
  what remains.
* Between the same two writes of a tool thread, the main thread can complete the turn
  over the ambiguous call, although *docs/ARCHITECTURE.md:595-598* says that such a
  call is failed closed and the user must submit a new turn.

Of the publication:

* A publication of an offer that fails restores the record with status repairing
  (`application_repair_transaction.py:570`). No operation is running, and no
  request is accepted in that status until a process starts and recovers it.
* Nothing finishes a publication that was killed between its renames. Recovery
  looks at transient statuses only, so after an apply the record still says
  change_ready while the design is in `before`, or already in place; the latter
  can then be "discarded" although it is live. `LiveMatchesRecord` and
  `NeverRevived` therefore leave out what follows such a kill (the history
  variable `torn`); `NoDesignLost` and `BackupIsBase` do not.

Of the stored conversation (`conversation_compression.py`); each was reached with
a property of its own that is not kept:

* A rotation reads its watermark (2576) before it writes the messages of its own
  turn in front of the adoption (2880-2955). They are summarised, lie between
  watermark and ceiling, and are cloned into the child once more, which 3556-3562
  wants to exclude.
* The adoption compares the number of messages only (2840-2860): a stale memory as
  long as the stored transcript is summarised, and the parent closed over rows
  nobody summarised. A row of another process that comes between ceiling and
  publication stays in the closed parent.
* A compaction whose session was rotated elsewhere takes the continuation's
  transcript over in the middle of the turn (2761-2783) and drops the input that
  is not written yet; the path beside it (2905) refuses to for that reason.
* An in-place commit that is refused leaves the summary as the memory, of which
  nothing is written; the next flush appends it behind the rows it summarises
  (`CommitInPlace`). A rotation that fails forgets what it had written itself
  (`Undo`), and the next flush writes that again.

Of the board (`interfaces/tui/kanban_db.py`):

* 4611-4613 says that breaker and promotion never disagree about when a task is
  permanently blocked. A worker that exits cleanly without completing its task is
  counted in a streak of its own; at the third the breaker blocks the task with
  consecutive_failures = 1. The promotion of the same tick looks at that counter
  only (4660), finds it below 2 and makes the task ready, and a fourth worker is started.
* A failed start, or a retry after an operator's reclaim or a block, can
  make a run of the review an implementation (`_retry_status_for_run` finds no
  current run any more and answers ready, 9502 and 9633).
* `block_task` means to send a task to triage that is blocked for the same cause a
  second time (6434-6436, `BLOCK_RECURRENCE_LIMIT`). It asks `"block_recurrences" in
  cur_row`, which looks at the values of a `sqlite3.Row` and not at its columns, so
  every block counts as the first and the task is blocked. For the same reason the
  breaker never honours `max_retries` of a task (9521), which promotion does (4655).
* A task created in blocked, for an operator to look at first (3489), is not sticky, as
  creation writes no `blocked` event: the promotion of the next tick makes it ready.
* `_set_worker_pid` names the task only (9651): a process id recorded late goes to
  whatever claim the task has by then.
* The breaker can block a task that the operator has claimed again since the
  failure (9537), which leaves an open run behind a blocked task until it is claimed
  or unblocked; `RunsMatchClaims` allows this, as its pointer is kept.
* `enforce_max_runtime` releases the claim of a process that survived the kill
  (8755), unlike the two passes `NoDuplicateWorker` speaks of.

### Fairness

In `JobRunner`, `FairSpec` assumes weak fairness of recovery, of request threads that have
begun, and of each worker: the threads of a live process are scheduled, locks
are released by their holders in finitely many steps, and the pool is large
enough for one job. Requests, crashes, starts, shutdowns and external edits are
never assumed. Both liveness properties speak of executions whose processes
eventually stay up, which is the least recovery needs: a process that crashes
for ever never finishes a job.

In `Conversation`, `FairSpec` assumes weak fairness of the main thread outside its
agent, of an agent that was interrupted (the interrupt is polled between
model chunks and while a tool runs), of the watcher (a loop with a wait of 0.1 s) and of tool threads outside their
handler. The model may be silent for ever and a handler may never end; nobody
need cancel, approve or retry.

In `KanbanBoard`, `FairSpec` assumes weak fairness of the dispatcher's steps (the
gateway ticks every 60 s), of the expiry of a claim's time to live, and of the end of
every worker. The operator need do nothing, and a worker need not report.

## 4. Proofs

`AgentTurnsProofs` proves for every finite or infinite set of turns and calls,
with the named assumptions of `AgentTurns` alone, what the run `turns` checks
for one turn with two calls.

The invariant `IInv` says of every record: it has its type, every call
satisfies the loader's rules and `CallInv` (a waiting call has a pending
checkpoint and conversely, a dispatched call was either never put to the user or
approved), at most one call is active, the
turn waits exactly when a call is pending, a closed turn has no active call, and
an absent turn is the initial record. None of the checked properties is
inductive alone: that cancel accepts every open turn needs the one active call,
which needs that append_tool_run is only accepted by a running turn, which needs
that waiting turns hold a pending call. Validation by the loader alone does not
give them either: it admits records with two active calls.

The argument has one lemma per store method (in `TurnRecordsProofs`: `AppendInv`,
`UpdateToolInv`, `BeginDispatchInv`, ...: a record in the invariant, on which the method is
accepted, gives a record in the invariant), one step that lifts it to the
store (`WriteInv`), and `NextInv`. The action properties follow the same
pattern: `OneCallKept`, `CallMethodsKept`, `TurnMethodsKept`, `NextKept`.

`JobRunnerProofs` proves for any processes, jobs, turns, calls, permission modes and
any number of crashes, from the named assumptions of `JobRunner`:

* `TypeOK` (`TypeCorrect`). A worker can only be typed if the record it works on is
  there, so the invariant `IInv` (`Invariance`) says what each thread's next step
  rests on: a job record names its turn; a worker that is not idle, a cancel() in
  progress and an admission that answers a checkpoint have a job record; a worker
  in the middle of a call has the call, and one that will write back a record has
  one with a turn; a request that has begun a turn holds off other admissions
  (`OneActive`). It also holds every turn to `TurnInv` of `TurnRecordsProofs`.
* `OneActiveJob` (`AlwaysOneActiveJob`). Whatever a step of whichever thread does,
  the job records change in one of few ways (`JobEffect`): not at all, one record that
  is rewritten without becoming active, or one that is created while no record is
  active. This is where the jobs-directory lock matters, and the only place.
* The refinement of `AgentTurns` (`ImplementsStore`). A step changes the turns as one
  store method whose guard holds, or not at all (`TurnEffect`). With it every
  theorem of `AgentTurnsProofs` is one about the turns of `JobRunner`, so
  `RecordsValid`, `HistoryKept` and the others hold under crashes, retries and
  stale reads of any number of processes.

`JobAuthorityProofs` proves `EffectsAuthorised` (`AlwaysAuthorised`) under the same
assumptions and one hypothesis: there is one process (`Alone`), or no permission mode
lets a call pass that another asks about (`ModesAgree`, as between read_only and review,
or when all processes use one mode). The mode is compared once, when a worker starts, and the policy asked
once, when a call is proposed; the invariant `AInv` says why that is enough. A process
changes its mode only when it is down, and then it has no thread (`DownIdle`). The
mode and the turn of a job record never change, although closing workers, recovery and
refused approvals write back records they have read or made earlier: `WorkersBound` and
`AdmissionBound` say that those agree with the record they replace, and that an
admission which has begun its turn still finds a free record. A call that runs before
it is dispatched was approved (`TurnsApproved`), and no store method takes an approval
back (`MethodApproved`). The hypothesis is for the calls that are loaded with their
mark. One process loads none (`MInv`, below); with several whose modes agree, a marked
call that any of them asks about was approved (`MarksVetted`).

The same module proves the five remaining safety properties of `JobRunner`. Two
processes refute them, as the runs `records` and `outbox` show, so these are
theorems about one process (`Alone`: `Runners` is a singleton) with any number of
crashes, restarts and threads, and two of them also about several without approvals. The invariants are built in layers.

* `HandlerHasActiveJob` (`HandlersHoldJobs`), for one process, or for any number when
  no permission mode asks about a call (`NothingAsked`, which is what the run `two`
  assumes). `LInv`: a worker past the pool holds the lease of its job, and while it
  works on the turn the record is active; a `cancel()` that found the job queued
  closes the record only of a job nobody works on (`HeldJob`); a process that still
  recovers serves no requests (`RecoversFirst`). What needs the hypothesis is
  `ContinuationIdle`: nobody works on a continuation while its approval is not decided,
  so the record that a refusal writes back without a lock is nobody's. With
  `NothingAsked` there are no continuations (`Unasked`).
* `DispatchOnce` (`AlwaysDispatchOnce`), under the same alternative. Only two steps
  bring a worker to a handler (`WhoArrives`): `DispatchCall`, whose guard reads the mark
  in the step that sets it, and `ProceedAtBoundary`, which trusts what it loads. That
  this is never a running call with a mark is `MInv`: a turn that is queued has no running
  call with a mark, and neither has the turn of a worker that goes on after a load that
  found no call at work (`Clear`), because by `LInv` nobody else works on it meanwhile.
* `JobRecordsValid` (`RecordsStayValid`) and `DecisionsHold` (`DecisionsStand`). `RInv`:
  a section that writes back a record it read earlier still finds that record, a
  job that waits for a worker has not started, one at work has, and the cancel event
  of a job is set only if its record says so (`RecordJob`); a continuation is as it
  was written but for a cancellation, and the only active job (`ContinuationFresh`). A
  second process breaks the second of these: it may run to the end a job that a
  worker of the first still waits to start.
* `OpenTurnReachable` (`TurnsStayReachable`). It speaks only of a process that is up;
  the invariant (`OpenDriven`) says who will see to an open turn at every other moment:
  a job that is active or can be retried, the admission that has begun it, or, after a
  crash between the two, the orphan scan of the next start. It needs that a
  worker that returns leaves its turn closed or waiting (`ReturnsClosed`), for a
  completed job drives nothing.

`ConversationProofs` proves every safety property of `conversation`, for any tool
threads, calls, verdicts and number of attempts, any of which may be disturbed:
`TypeOK` (`TypeCorrect`), `HandlersApart` (`Apart`), `EffectRecorded` (`Recorded`),
`StrandedTurnRetryable` (`Stranded`) and `DispatchOnce` (`Once`). The run has three
attempts and two threads; that a fourth attempt or a third abandoned thread brings
nothing new is what the theorems add. The invariant `IInv` (`Invariant`) says that
an attempt's dispatch lock has one holder (`LockOK`), that a thread in its
handler has a dispatched call which no other such thread has (`ThreadsOK`), that the
call the main thread is about to settle is there (`MainOK`), and of the record, besides
`TurnInv`, that a queued turn has no open call (which recovery needs to close it) and
a denied call no dispatch mark (`GoodTurn`). That two calls under execution are not
both open is then the record's own law of one active call. A step does at most four
things (`Effects`), which are shown for each action, and from which the invariant and
`DispatchOnce` follow at once.

`DesignPublicationProofs` proves every property of `publish` for any number of
requests, transactions and faults, from the named assumptions of
`DesignPublication`: `TypeOK` (`TypeCorrect`), `NoDesignLost` (`DesignsSurvive`),
`BackupIsBase` (`BackupsExact`), `LiveMatchesRecord` (`LiveIsVouched`),
`RepairingHasOwner` (`RepairsAreOwned`), `StagedChangeResolvable`
(`ChangesAreResolvable`), `NeverRevived` (`ClosedStayClosed`) and the refinement of
`AtomicDesign` (`PublicationIsAtomic`). None is inductive, and they need different
facts; the invariant is built in layers.

* `IInv`. `TInv`: what a request may be doing, and that the lock has a holder exactly
  in the steps under it. `CInv`: a transaction is written by one creator and decided
  on by those its receipt allows; a candidate that is staged is the one its receipt
  names. `PInv`: for each step of a publication and of its rollback, what is live, in
  the backup and at the source (`PubOK`), as a function of `moved_before` and
  `moved_staged`; a rollback that has failed at a step keeps what it could not move.
  From it `NoDesignLost`: a rename is never onto the last copy.
* `KInv`. The record that stands (the one to restore, while a request under the lock
  may have to) vouches for the design that is live, or was when the lock was taken, and
  names no candidate that was discarded or undone (`Sound`). `LiveMatchesRecord` and
  `NeverRevived` follow, as long as nothing is `torn`.
* The refinement. A step maps to one step of `AtomicDesign` when it stages a
  candidate, writes a receipt that closes one, or leaves the lock with another design than
  it was taken with, and to a stutter otherwise. `PublishesAtomically` compares the
  design of the record that stands, so a publication takes effect when its holder
  gives up the lock; that the candidate was made from the design it replaces is `BackupIsBase`
  together with `KInv`.
* `OInv`, for the time before the first fault: the repair that has bound the current
  revision of a project that is being repaired is still at it.
* `VInv`, which revisions are in whose hands. `Standing` is the record that will
  stand if the step under the lock is withdrawn. A request that may start a repair or
  publish has bound the revision of `Standing` only in a project with nothing to
  decide on, and, if a repair owns that revision, only after the faults it `Needs`
  (`Reach`); it has bound the next one only after one fault more (`Reuse`), or
  because the step under the lock has written its record already (`Pending`).

`SessionTurnsProofs` proves the four invariants of `sessions` for any processes,
turns, compactions and crashes.

* `Serial`: `TurnsSerial`. The invariant `SerialInv` adds that two processes never
  have the same turn, that turn numbers are below the counter, that who waits for the lease
  has not written, and that if the holder of the lease has written at all, it wrote
  last. The last is what makes a takeover safe: the former holder can only write
  while it holds the lease, and once it lost the lease it cannot get it back,
  because only a waiting turn is admitted. Most steps only move one process
  (`OneMoves`) and keep the lease, the log and the counters (`QuietKeeps`); the
  writes all go through `AppendPending` (`WriteKeeps`).
* `NoFork`: `OneHead`. `ChainInv` says that an absent session has no parent, that a
  parent is closed, and that no two sessions have the same one. The two steps that
  matter are `Publish`, which closes an open segment, hence one without a child,
  in the transaction that creates the child, and `Reopen`, which looks for
  children in the transaction that opens.

Neither depends on what transcripts hold, so in these two the records are typed over
an arbitrary set of values (`AgentOver`, `SegmentOver`).

* `TipsEnd`: the recursive `Tip` (`get_compression_tip`) has a value, and it is a segment that
  exists and is not continued (`TipIsLast`). Sessions are numbered as they are made,
  so a child comes after its parent (`Ordered`), and the recursion is an induction from the last
  segment down. The library's induction theorems take an operator, which no
  prover here can instantiate; `LeastNumber` is the same principle for a set, from `WFMin`:
  the proofs take the least number of the set of counterexamples.
* `TypeCorrect`: `TypeOK`. `TypeInv` has a part for the store (`StoreOK`: numbers of
  sessions without gaps, `Ordered`, nothing in a session that does not exist, row ids that grow
  and are below the next) and a part for each process (`AgentOK`: a compaction
  has at least two messages, so a summary is a list; and the segment a process writes to
  exists, for which `Admit` and `Resume` need `TipsEnd`).
* `WatermarksDivide`: `WatermarkLive`, from the stronger `WatermarkHeld`, which asks that
  the row of the watermark is live for the holder of the lock, expired or not. An
  in-place commit, the only step that removes rows, needs the lock unexpired: who else
  compacts the segment then is not the holder, and becomes it only by a new `TryLock`, which takes a
  new watermark. Refreshing by holder is what this rests on; the mutant that upserts
  the lock violates it. A publication writes the rows of a segment that had none.

`KanbanBoardProofs` proves `TypeOK` (`TypeCorrect`) and `RunsMatchClaims`
(`RunsAlwaysMatch`) for any tasks, bounds and limits, from the named assumptions
of `KanbanBoard`. The invariant `IInv` (`Invariance`) adds to them, of the rows:
a task and a run that point at each other belong together (`Own`), a task whose claim
lock is free has no open run (`FreeClosed`), and the numbers above `lastRun` are unused
(`Fresh`). `FreeClosed` is what `claim_review_task` rests on: unlike `claim_task`
it closes no run left behind, and would strand one; but it takes only a free lock. The types of the tick, of
the operator's reclaim and of the counters are the other half (`Rest`). The
proof has one lemma per transaction.

The same module proves `NoDuplicateWorker` (`NeverDuplicates`). The invariant
`WInv` adds two facts to those of the rows: a claim lock in use by a task or a
process is one the board has handed out (`LocksUsed`), and what the stale pass of a
tick remembers of the process it is killing is true until it acts on it
(`StaleKnown`). The second is the delicate one: the pass kills first and resets the
task later, in another transaction. What saves it is that while it runs no process
is started, and that a claim made meanwhile by a command has its own lock, so that a
task that still has the lock the pass read has the killed process or none.

And it proves `RetryBudget` (`BudgetHolds`), whichever of `FailureLimit` and
`DefaultLimit` is larger. The invariant is `BInv`. The count a task carries and the
failures it has had (`spent`) drift apart: a run is closed in one transaction, and its
failure counted in a later one of the same tick. So a failure is `Owed` in between,
and a task has failed at most as often as its count, what it owes and the `Slack` say
(`Counted`), where the slack is one for each command and each death of the dispatcher.
In a column from which it can be claimed, or gets to one by itself, it is
one below the limit; a task that owes only when the breaker would find nothing to
block (`Within`). What makes that inductive are three facts about who else may touch
the row: a worker of a task that owes is dead (`TickKnown`), so whatever moves the task
meanwhile is a command, which raises the slack; `SpawnFailed` never meets an open run
behind a task that is not running, which it would close without counting (`Behind`);
and `reclaim_task`, which takes a task the breaker has blocked back to its column, only
does so while the task has the lock it read, and such a task has budget left
(`Releasing`). A step that records no failure is dealt with by one lemma
(`FineBudget`), which asks that it adds no budget (`Moves`) and, unless it
raises the slack, makes no task claimable that was not (`Mild`).

Model-checked only: liveness (`AdmittedJobsFinish`, `ApprovedCallSettles`,
`StopEndsAttempt`, `ClaimReleased`: the prover has no fairness or ENABLED).

## 5. Abstractions

* Lock time-outs (10 s) and failures of `record_progress` are left out: a lock
  is waited for.
* `expected_record_revision` (a compare-and-set no caller uses), the legacy
  turn migration and the record schema upgrade are left out.
* Times are derived from statuses; the code takes the maximum of the old times
  and now, so a clock that steps back does not break the order within a record.
* The hash, effect and risk that an approval repeats are collapsed into the
  call's name; the baseline revision is kept.
* Replies, observations, progress events and the product's terminal receipts are
  left out: no guard of the modelled code reads them except to build a result.
* An orphan turn that somebody else closes between the listing and its own close
  makes the code's start fail (the store refuses); `CloseOrphan` passes over it.
  It takes a second process and an approval that is answered meanwhile.
* A malformed record is always a finished one in the reachable states, so the
  worker's own validation of the record it runs is left out.
* The jobs of actions without a turn are left out: they have the same lifecycle.
* Tool receipts per call (`ProjectReceipts`) are produced by the benchmark
  projects only; most runs set it FALSE, `authority` sets it TRUE. In
  `Conversation` there are none, so recovery never reconciles an effect there.

* In `DesignPublication` the status generated stands for validated, released and
  their failures, which the modelled requests treat alike, except that release
  and validation hold a transient status of their own while they run. Staging is
  one step: the checks of a candidate only decide whether there is one. A repair
  of a project without a design is left out, and so is the import of an edit made
  in KiCad, which replaces files in place and outside the project lock.
* A transaction directory that is used once is never used again (its id is
  random in the code, `Fresh` in the model).

* In `Conversation`, the agent loop is a thread that asks for tools one after the
  other until it returns or raises; the history it is given and the replies are
  left out. A batch the loop runs on several threads at once is the case of an
  abandoned thread beside a new one, without the deadline.
* In `SessionTurns` the configuration decides between rotation and in-place
  compaction for all processes. Archived rows are not kept. The two
  expiry comparisons (`<` for taking over, `<=` for a live owner) differ at one
  instant; in the model a lease is expired or not, and taking an expired one over is
  never forced. Left out: proactive pruning and micro-compaction (optional; they
  rewrite rows without lock or watermark), the host's commit fence and time-outs,
  branches and delegated sessions, partial compaction by `/compress`, a user's
  interrupt (it ends the turn early, as `EndTurn` may), and a database that is busy.

* In `KanbanBoard`, `max_retries` of a task is left out (section 3). A tick may claim a task again whose start failed in the same tick,
  although the code lists the columns once. Left out: runs that are inserted
  already closed, priorities, the concurrency caps, the respawn guard and the grace
  period of a new worker (they delay a step), the limit of 1 for three equal errors
  in one tick, `detect_stale_running` (off), `reconcile_orphaned_running` (its rows
  are those `RunsMatchClaims` excludes), and claims of another host.

## 6. Not modelled

`PROJECT.json` lists every component with its status. Of the product's own core,
these are left out and could be added in the same style:

* `services/transactions.py`, the library form of a retained edit: only the
  managed-session API and tests call it.
* The transient statuses of validation, first generation and release.
* The handoff record of a session, pruning and rewind.
* Of the board: comments, attachments, notifications, the decomposition of a task
  into children, and the goals that judge a handoff.
* Project creation and deletion, and the import of a KiCad edit.

The other components are adapters to external programs and services, terminal
presentation, or pure computation on designs, in which no protocol between actors
decides correctness. They are by far the largest part of the repository.
