----------------------------- MODULE KanbanBoard -----------------------------
(***************************************************************************)
(* interfaces/tui/kanban_db.py: the tasks of one board, the runs made at    *)
(* them, the dispatcher that claims tasks and starts a worker process for   *)
(* each, the workers, and the operator who steps in from the command line.  *)
(* Nothing is shared but the database: every function is one or several     *)
(* write transactions on its own connection, and an action here is one such *)
(* transaction, or one effect on a process between two of them.             *)
(*                                                                          *)
(* The event log is kept as what is read back from it: `sticky' is          *)
(* _has_sticky_block and `resume' is _resume_status_from_events.  A process *)
(* id is the run its process was started for.  The other tasks of the board *)
(* are there as `gated'.  Left out: runs inserted already closed            *)
(* (_synthesize_ended_run), priorities, caps, the respawn guard and the grace*)
(* period of a new worker, which only delay a step, detect_stale_running,   *)
(* which no caller switches on, reconcile_orphaned_running, whose broken rows*)
(* RunsMatchClaims excludes, the breaker's limit of 1 for three equal errors*)
(* in a tick, and max_retries of a task, which the breaker never honours (it *)
(* looks for it among the values of the row) and the promotion does.  An    *)
(* exception out of a tick ends it as a crash does.                         *)
(*                                                                          *)
(* A definition whose name ends in an underscore and a word is a mutant: the *)
(* definition after it with a plausible bug, which no specification uses.   *)
(***************************************************************************)
EXTENDS Integers, FiniteSets

CONSTANTS
  Tasks,
  Timed,           \* tasks with max_runtime_seconds
  MaxRuns,         \* bound on claims
  MaxCommands,     \* bound on what the operator does
  MaxBoots,        \* bound on dispatcher processes, one after the other
  FailureLimit,    \* kanban.failure_limit, for spawn failures and promotion
  DefaultLimit,    \* DEFAULT_FAILURE_LIMIT, for everything else
  ViolationLimit,  \* _PROTOCOL_VIOLATION_FAILURE_LIMIT
  None

ASSUME TaskAssumption == Timed \subseteq Tasks
ASSUME BoundAssumption == MaxRuns \in Nat \ {0} /\ MaxBoots \in Nat \ {0}
ASSUME LimitAssumption ==
  FailureLimit \in Nat \ {0} /\ DefaultLimit \in Nat \ {0} /\ ViolationLimit \in Nat \ {0}
ASSUME NoneAssumption == None \notin Tasks

VARIABLES
  task,      \* rows of tasks
  gated,     \* tasks with a parent that is neither done nor archived
  run,       \* rows of task_runs, and the process started for each
  lastRun,   \* AUTOINCREMENT of task_runs
  tick,      \* what the dispatcher process is at; holds the board's tick lock
  boots,     \* dispatcher processes started so far
  commands,  \* how often the operator has stepped in
  reclaim,   \* the operator's reclaim_task in progress
  spent      \* history: failed runs of a task since it last got a fresh budget

vars == <<task, gated, run, lastRun, tick, boots, commands, reclaim, spent>>

RunIds   == 1..MaxRuns
Phases   == {"ready", "review"}
Statuses == {"todo", "ready", "running", "review", "blocked", "scheduled", "triage",
             "done", "archived"}
Outcomes == {"absent", "open", "finished", "reclaimed", "failed", "violation", "rate"}
\* "child" and "orphan" are alive; the exit status of a process is known only
\* to the dispatcher process that started it.
Workers  == {"none", "child", "orphan", "clean", "rate", "failed"}

\* "host:pid" of the claiming process: a dispatcher, or one command each.
Lock   == [by : {"nobody", "dispatcher", "command"}, id : 0..(MaxRuns + MaxBoots)]
NoLock == [by |-> "nobody", id |-> 0]

Task == [status : Statuses, lock : Lock, expired : BOOLEAN, pid : 0..MaxRuns,
         run : 0..MaxRuns, failures : Nat, sticky : BOOLEAN, resume : Phases]
Run  == [task : Tasks \cup {None}, phase : Phases, outcome : Outcomes,
         worker : Workers, lock : Lock]

NoRun  == [task |-> None, phase |-> "ready", outcome |-> "absent",
           worker |-> "none", lock |-> NoLock]

\* What a pass of the dispatcher has read of a task, whether the process it tried
\* to kill is still there, and the phase of a run that was timed out.
Item   == [task : Tasks \cup {None}, lock : Lock, pid : 0..MaxRuns, survived : BOOLEAN,
           phase : Phases]
NoItem == [task |-> None, lock |-> NoLock, pid |-> 0, survived |-> FALSE,
           phase |-> "ready"]

TickSteps == {"idle", "stale", "staleKilled", "account", "timeoutKilled",
              "timeoutAccount", "spawn", "claimed", "spawned"}
IdleTick  == [pc |-> "idle", list |-> {}, item |-> NoItem, pending |-> {}]

ReclaimSteps == {"idle", "release", "clear"}
NoReclaim    == [pc |-> "idle", task |-> None, lock |-> NoLock]

\* create_task puts a task in the column its parents give it, or parks it, in
\* triage or, with no event that would make the block sticky, in blocked.
NewStatuses == {"todo", "ready", "triage", "blocked"}
NewTask(status) ==
  [status |-> status, lock |-> NoLock, expired |-> FALSE, pid |-> 0, run |-> 0,
   failures |-> 0, sticky |-> FALSE, resume |-> "ready"]

Init ==
  /\ gated \in SUBSET Tasks
  /\ \E status \in [Tasks -> NewStatuses] :
       /\ \A t \in Tasks : /\ status[t] = "todo" => t \in gated
                           /\ status[t] = "ready" => t \notin gated
       /\ task = [t \in Tasks |-> NewTask(status[t])]
  /\ run = [r \in RunIds |-> NoRun]
  /\ lastRun = 0
  /\ tick = IdleTick
  /\ boots = 1
  /\ commands = 0
  /\ reclaim = NoReclaim
  /\ spent = [t \in Tasks |-> 0]

-----------------------------------------------------------------------------
\* Shared pieces.

Alive(r) == r # 0 /\ run[r].worker \in {"child", "orphan"}

ParentsSatisfied(t) == t \notin gated
Landing(t) == IF ParentsSatisfied(t) THEN "ready" ELSE "todo"

\* _retry_status_for_run: the phase the current run was claimed from.
RetryStatus(t) == IF task[t].run = 0 THEN "ready" ELSE run[task[t].run].phase

Unclaimed(x, status) ==
  [x EXCEPT !.status = status, !.lock = NoLock, !.expired = FALSE, !.pid = 0]

\* _end_run closes the current run, if it is open, and clears the pointer.
EndRuns(ids, outcome) ==
  [r \in RunIds |->
     IF r \in ids /\ run[r].outcome = "open" THEN [run[r] EXCEPT !.outcome = outcome]
                                             ELSE run[r]]
EndRun(t, outcome) == EndRuns({task[t].run}, outcome)

\* recompute_ready on the tasks T, of which those in G have open parents.
\* Mutant: a task the breaker blocked recovers whatever it has failed.
Promotable_Eager(x, limit) == x.status = "todo" \/ (x.status = "blocked" /\ ~x.sticky)

Promotable(x, limit) ==
  x.status = "todo" \/ (x.status = "blocked" /\ ~x.sticky /\ x.failures < limit)
Recomputed(T, G, limit) ==
  [t \in Tasks |-> IF t \notin G /\ Promotable(T[t], limit)
                   THEN [T[t] EXCEPT !.status = T[t].resume] ELSE T[t]]

\* The row of a task that leaves `running', or never was, with its run ended; an
\* event that names a phase makes it the one to resume.
Ended(t, status) == [Unclaimed(task[t], status) EXCEPT !.run = 0]
Put(t, x)        == task' = [task EXCEPT ![t] = x]

\* One more failed run of every task in S; a fresh budget for t.
Spend(S)  == spent' = [t \in Tasks |-> IF t \in S THEN spent[t] + 1 ELSE spent[t]]
Refill(t) == spent' = [spent EXCEPT ![t] = 0]

\* The current runs that are open, of the tasks in S.
OpenRunsOf(S) == {t \in S : task[t].run # 0 /\ run[task[t].run].outcome = "open"}

-----------------------------------------------------------------------------
\* Claims.

StartRun(t, phase, lock, runs) ==
  /\ lastRun < MaxRuns
  /\ lastRun' = lastRun + 1
  /\ run' = [runs EXCEPT ![lastRun + 1] =
               [task |-> t, phase |-> phase, outcome |-> "open", worker |-> "none",
                lock |-> lock]]
  /\ Put(t, [task[t] EXCEPT !.status = "running", !.lock = lock, !.expired = FALSE,
                            !.run = lastRun + 1])

\* claim_task refuses a child whose parents are not done and sends it back; a run
\* left behind is closed first, which a lock left behind does not take back.
ClaimRefused(t) ==
  /\ task[t].status = "ready"
  /\ \/ /\ ~ParentsSatisfied(t)
        /\ Put(t, [task[t] EXCEPT !.status = "todo"])
        /\ UNCHANGED run
     \/ /\ ParentsSatisfied(t)
        /\ task[t].lock # NoLock
        /\ run' = EndRun(t, "reclaimed")
        /\ UNCHANGED task
  /\ UNCHANGED lastRun

ClaimTask(t, lock) ==
  /\ task[t].status = "ready"
  /\ task[t].lock = NoLock
  /\ ParentsSatisfied(t)
  /\ StartRun(t, "ready", lock, EndRun(t, "reclaimed"))

ClaimReviewTask(t, lock) ==
  /\ task[t].status = "review"
  /\ task[t].lock = NoLock
  /\ ParentsSatisfied(t)
  /\ StartRun(t, "review", lock, run)

\* The dependency_wait event of claim_review_task names the review phase.
ReviewRefused(t) ==
  /\ task[t].status = "review"
  /\ task[t].lock = NoLock
  /\ ~ParentsSatisfied(t)
  /\ Put(t, [task[t] EXCEPT !.status = "todo", !.resume = "review"])
  /\ UNCHANGED <<run, lastRun>>

-----------------------------------------------------------------------------
\* The dispatcher: one tick at a time under the board's tick lock.

DispatcherLock == [by |-> "dispatcher", id |-> boots]
Step(pc)       == tick' = [tick EXCEPT !.pc = pc, !.item = NoItem]
StepWith(pc, i) == tick' = [tick EXCEPT !.pc = pc, !.item = i]
StepList(pc, list) == tick' = [IdleTick EXCEPT !.pc = pc, !.list = list]

Read(t) == [task |-> t, lock |-> task[t].lock, pid |-> task[t].pid, survived |-> FALSE,
            phase |-> "ready"]
Running == {t \in Tasks : task[t].status = "running"}

\* Mutant: claims without a process id are nobody's.
ExpiredClaims_Spawned == {Read(t) : t \in {u \in Running : task[u].expired /\ task[u].pid # 0}}

\* release_stale_claims lists the expired claims.
ExpiredClaims == {Read(t) : t \in {u \in Running : task[u].expired}}

TickStart ==
  /\ tick.pc = "idle"
  /\ StepList("stale", ExpiredClaims)
  /\ UNCHANGED <<gated, task, run, lastRun, boots, commands, reclaim, spent>>

\* The compare-and-set of the extension, the deferral and the release.
SameClaim(i) == task[i.task].status = "running" /\ task[i.task].lock = i.lock

\* A live worker keeps its claim, unless its heartbeat is an hour old.
StaleExtended ==
  /\ tick.pc = "stale"
  /\ \E i \in tick.list :
       /\ Alive(i.pid)
       /\ tick' = [tick EXCEPT !.list = @ \ {i}]
       /\ IF SameClaim(i) THEN Put(i.task, [task[i.task] EXCEPT !.expired = FALSE])
                          ELSE UNCHANGED task
  /\ UNCHANGED <<gated, run, lastRun, boots, commands, reclaim, spent>>

\* _terminate_reclaimed_worker: SIGTERM, and SIGKILL after five seconds; even then
\* a process can be there for a while.
Killed(i, survives) ==
  run' = IF Alive(i.pid) /\ ~survives THEN [run EXCEPT ![i.pid].worker = "failed"] ELSE run

StaleKilled ==
  /\ tick.pc = "stale"
  /\ \E i \in tick.list, survives \in BOOLEAN :
       /\ survives => Alive(i.pid)
       /\ Killed(i, survives)
       /\ tick' = [tick EXCEPT !.pc = "staleKilled", !.list = @ \ {i},
                               !.item = [i EXCEPT !.survived = survives]]
  /\ UNCHANGED <<gated, task, lastRun, boots, commands, reclaim, spent>>

\* Mutant: the claim is released whether the worker is gone or not.
StaleReleased_Survivor ==
  /\ tick.pc = "staleKilled"
  /\ LET i == tick.item
         t == i.task
     IN \/ /\ SameClaim(i)
           /\ task[t].expired
           /\ Put(t, [Ended(t, RetryStatus(t)) EXCEPT !.resume = RetryStatus(t)])
           /\ run' = EndRun(t, "reclaimed")
        \/ ~SameClaim(i) /\ UNCHANGED <<task, run>>
  /\ Step("stale")
  /\ UNCHANGED <<gated, lastRun, boots, commands, reclaim, spent>>

\* _defer_reclaim_for_live_worker, or the release.
StaleReleased ==
  /\ tick.pc = "staleKilled"
  /\ LET i == tick.item
         t == i.task
     IN \/ /\ i.survived
           /\ IF SameClaim(i) THEN Put(t, [task[t] EXCEPT !.expired = FALSE])
                              ELSE UNCHANGED task
           /\ UNCHANGED run
        \/ /\ ~i.survived
           /\ SameClaim(i)
           /\ task[t].expired
           /\ Put(t, [Ended(t, RetryStatus(t)) EXCEPT !.resume = RetryStatus(t)])
           /\ run' = EndRun(t, "reclaimed")
        \/ /\ ~i.survived
           /\ ~(SameClaim(i) /\ task[t].expired)
           /\ UNCHANGED <<task, run>>
  /\ Step("stale")
  /\ UNCHANGED <<gated, lastRun, boots, commands, reclaim, spent>>

\* detect_crashed_workers: every running task whose recorded process is gone, in
\* one transaction.  The event of a clean exit, protocol_violation, is none that
\* names a phase to resume.
Dead == {t \in Running : task[t].pid # 0 /\ ~Alive(task[t].pid)}
ExitOf(t) ==
  CASE run[task[t].pid].worker = "clean" -> "violation"
    [] run[task[t].pid].worker = "rate"  -> "rate"
    [] OTHER                             -> "failed"

CrashedReleased ==
  /\ tick.pc = "stale"
  /\ tick.list = {}
  /\ task' = [t \in Tasks |->
       IF t \notin Dead THEN task[t]
       ELSE IF ExitOf(t) = "violation" THEN Ended(t, RetryStatus(t))
       ELSE [Ended(t, RetryStatus(t)) EXCEPT !.resume = RetryStatus(t)]]
  /\ run' = [r \in RunIds |->
       IF run[r].outcome = "open" /\ \E t \in Dead : task[t].run = r
       THEN [run[r] EXCEPT !.outcome = ExitOf(CHOOSE t \in Dead : task[t].run = r)]
       ELSE run[r]]
  /\ tick' = [IdleTick EXCEPT !.pc = "account",
           !.pending = {[task |-> t, violation |-> ExitOf(t) = "violation"] :
                          t \in {u \in Dead : ExitOf(u) # "rate"}}]
  /\ Spend({t \in OpenRunsOf(Dead) : ExitOf(t) = "failed"})
  /\ UNCHANGED <<gated, lastRun, boots, commands, reclaim>>

\* _protocol_violation_streak: the violations after which the task has no closed
\* run but violations and rate limits.
Streak(t) ==
  Cardinality({r \in RunIds :
    /\ run[r].task = t /\ run[r].outcome = "violation"
    /\ \A q \in r..MaxRuns :
         run[q].task = t => run[q].outcome \in {"open", "violation", "rate"}})

\* _record_task_failure after a crash or a timeout, in a transaction of its own:
\* the task, back in its phase by then, is blocked when it failed too often.  The
\* gave_up event is written whether the task is still there to block or not, and
\* names the phase its status tells or, for a timeout, that of the run.
PhaseNow(t) == IF task[t].status = "review" THEN "review" ELSE "ready"

RecordFailure(t, force, phase) ==
  LET x == task[t]
      trips == force \/ x.failures + 1 >= DefaultLimit
  IN Put(t, IF ~trips THEN [x EXCEPT !.failures = @ + 1]
            ELSE IF x.status \in {"ready", "review", "running"}
            THEN [x EXCEPT !.status = "blocked", !.failures = @ + 1, !.resume = phase]
            ELSE [x EXCEPT !.resume = phase])

CrashAccounted ==
  /\ tick.pc = "account"
  /\ \E p \in tick.pending :
       /\ tick' = [tick EXCEPT !.pending = @ \ {p}]
       /\ IF p.violation /\ Streak(p.task) < ViolationLimit
          THEN UNCHANGED task
          ELSE RecordFailure(p.task, p.violation, PhaseNow(p.task))
  /\ UNCHANGED <<gated, run, lastRun, boots, commands, reclaim, spent>>

\* enforce_max_runtime, for one task after the other.
TimeoutKilled ==
  /\ tick.pc = "account"
  /\ tick.pending = {}
  /\ \E t \in Timed \cap Running, survives \in BOOLEAN :
       /\ task[t].pid # 0
       /\ survives => Alive(task[t].pid)
       /\ Killed(Read(t), survives)
       /\ StepWith("timeoutKilled", Read(t))
  /\ UNCHANGED <<gated, task, lastRun, boots, commands, reclaim, spent>>

\* Unlike the other passes this one does not look whether the process is gone.
TimeoutReleased ==
  /\ tick.pc = "timeoutKilled"
  /\ LET i == tick.item
         t == i.task
     IN \/ /\ SameClaim(i)
           /\ task[t].pid = i.pid
           /\ Put(t, [Ended(t, RetryStatus(t)) EXCEPT !.resume = RetryStatus(t)])
           /\ run' = EndRun(t, "failed")
           /\ StepWith("timeoutAccount", [i EXCEPT !.phase = RetryStatus(t)])
           /\ Spend(OpenRunsOf({t}))
        \/ /\ ~(SameClaim(i) /\ task[t].pid = i.pid)
           /\ Step("account")
           /\ UNCHANGED <<task, run, spent>>
  /\ UNCHANGED <<gated, lastRun, boots, commands, reclaim>>

TimeoutAccounted ==
  /\ tick.pc = "timeoutAccount"
  /\ RecordFailure(tick.item.task, FALSE, tick.item.phase)
  /\ Step("account")
  /\ UNCHANGED <<gated, run, lastRun, boots, commands, reclaim, spent>>

\* recompute_ready as the dispatcher calls it.
Promoted ==
  /\ tick.pc = "account"
  /\ tick.pending = {}
  /\ task' = Recomputed(task, gated, FailureLimit)
  /\ Step("spawn")
  /\ UNCHANGED <<gated, run, lastRun, boots, commands, reclaim, spent>>

\* The loops over the ready and the review column, whose caps may end them early;
\* a task may come up again, although the code lists the columns once in a tick.
DispatchedReady ==
  /\ tick.pc = "spawn"
  /\ \E t \in Tasks :
       /\ task[t].lock = NoLock
       /\ \/ /\ ClaimTask(t, DispatcherLock)
             /\ StepWith("claimed", [NoItem EXCEPT !.task = t, !.pid = lastRun + 1])
          \/ ClaimRefused(t) /\ UNCHANGED tick
  /\ UNCHANGED <<gated, boots, commands, reclaim, spent>>

DispatchedReview ==
  /\ tick.pc = "spawn"
  /\ \E t \in Tasks :
       \/ /\ ClaimReviewTask(t, DispatcherLock)
          /\ StepWith("claimed", [NoItem EXCEPT !.task = t, !.pid = lastRun + 1])
       \/ ReviewRefused(t) /\ UNCHANGED tick
  /\ UNCHANGED <<gated, boots, commands, reclaim, spent>>

\* _default_spawn: the process carries the run id and the lock in its environment.
Spawned ==
  /\ tick.pc = "claimed"
  /\ run' = [run EXCEPT ![tick.item.pid].worker = "child"]
  /\ tick' = [tick EXCEPT !.pc = "spawned"]
  /\ UNCHANGED <<gated, task, lastRun, boots, commands, reclaim, spent>>

\* _set_worker_pid names the task only.
PidRecorded ==
  /\ tick.pc = "spawned"
  /\ Put(tick.item.task, [task[tick.item.task] EXCEPT !.pid = tick.item.pid])
  /\ Step("spawn")
  /\ UNCHANGED <<gated, run, lastRun, boots, commands, reclaim, spent>>

\* _record_spawn_failure when the workspace, the process or the record of its pid
\* fails: it releases and ends whatever claim and run the task has by then.
SpawnFailed ==
  /\ tick.pc \in {"claimed", "spawned"}
  /\ LET t     == tick.item.task
         x     == task[t]
         trips == x.failures + 1 >= FailureLimit
         moves == x.status \in (IF trips THEN {"running", "ready", "review"} ELSE {"running"})
         moved == [Unclaimed(x, IF trips THEN "blocked" ELSE RetryStatus(t))
                     EXCEPT !.failures = @ + 1]
     IN /\ Put(t, [(IF moves THEN moved ELSE x) EXCEPT !.run = 0, !.resume = RetryStatus(t)])
        /\ run' = EndRun(t, "failed")
        /\ Spend(OpenRunsOf({t}))
  /\ Step("spawn")
  /\ UNCHANGED <<gated, lastRun, boots, commands, reclaim>>

TickEnd ==
  /\ tick.pc = "spawn"
  /\ tick' = IdleTick
  /\ UNCHANGED <<gated, task, run, lastRun, boots, commands, reclaim, spent>>

\* The dispatcher process dies and another one starts: the tick lock is free, and
\* nobody knows how the processes it started will exit or did.
DispatcherCrash ==
  /\ boots < MaxBoots
  /\ boots' = boots + 1
  /\ tick' = IdleTick
  /\ run' = [r \in RunIds |-> [run[r] EXCEPT !.worker =
       CASE @ = "child" -> "orphan" [] @ \in {"clean", "rate"} -> "failed" [] OTHER -> @]]
  /\ UNCHANGED <<gated, task, lastRun, commands, reclaim, spent>>

Dispatch ==
  \/ TickStart \/ StaleExtended \/ StaleKilled \/ StaleReleased \/ CrashedReleased
  \/ CrashAccounted \/ TimeoutKilled \/ TimeoutReleased
  \/ TimeoutAccounted \/ Promoted \/ DispatchedReady \/ DispatchedReview \/ Spawned
  \/ PidRecorded \/ SpawnFailed \/ TickEnd

-----------------------------------------------------------------------------
\* What a worker does to its task, and the operator to any: a worker names the run
\* it was started for, which has to be current, and the operator names none.

ByWorker(t) ==
  /\ task[t].run # 0
  /\ Alive(task[t].run)
  /\ UNCHANGED commands
ByOperator == commands < MaxCommands /\ commands' = commands + 1

\* complete_task; the counter and the promotion of the children are transactions
\* that follow at once, the promotion with the default limit.
Complete(t) ==
  /\ ByWorker(t) \/ ByOperator
  /\ task[t].status \in {"running", "ready", "blocked", "review"}
  /\ ParentsSatisfied(t)
  /\ task' = Recomputed([task EXCEPT ![t] = [Ended(t, "done") EXCEPT !.failures = 0]],
                        gated, DefaultLimit)
  /\ run' = EndRun(t, "finished")
  /\ Refill(t)
  /\ UNCHANGED <<gated, lastRun, tick, boots, reclaim>>

\* Mutant: the phase to resume is the status of the task.
BlockSource_Status(t) == task[t].status

BlockSource(t) == IF task[t].status = "running" THEN RetryStatus(t) ELSE "ready"

\* block_task: a dependency waits in todo; anything else is blocked until somebody
\* unblocks it.  The branch that sends a block of the same cause to triage the
\* second time is never taken: `"block_recurrences" in cur_row' asks for a value of
\* the row, not for a column, so that every block counts as the first.
Block(t) ==
  /\ ByWorker(t) \/ ByOperator
  /\ task[t].status \in {"running", "ready"}
  /\ \/ Put(t, [Ended(t, "todo") EXCEPT !.resume = BlockSource(t)])
     \/ Put(t, [Ended(t, "blocked") EXCEPT !.resume = BlockSource(t), !.sticky = TRUE])
  /\ run' = EndRun(t, "finished")
  /\ UNCHANGED <<gated, lastRun, tick, boots, reclaim, spent>>

\* request_review; the operator takes a running task over by force.
RequestReview(t) ==
  /\ ByWorker(t) \/ ByOperator
  /\ task[t].status \in {"running", "ready"}
  /\ ParentsSatisfied(t)
  /\ Put(t, Ended(t, "review"))
  /\ run' = EndRun(t, "finished")
  /\ UNCHANGED <<gated, lastRun, tick, boots, reclaim, spent>>

\* request_changes ends a review run and gives the task back to its implementer.
RequestChanges(t) ==
  /\ ByWorker(t) \/ ByOperator
  /\ task[t].status = "running"
  /\ task[t].run # 0
  /\ RetryStatus(t) = "review"
  /\ Put(t, [Ended(t, Landing(t)) EXCEPT !.resume = "ready"])
  /\ run' = EndRun(t, "finished")
  /\ UNCHANGED <<gated, lastRun, tick, boots, reclaim, spent>>

\* schedule_task writes no event that names a phase, and unblock_task makes a
\* scheduled task an implementation whatever it was.
Schedule(t) ==
  /\ ByWorker(t) \/ ByOperator
  /\ task[t].status \in {"todo", "ready", "running", "blocked"}
  /\ Put(t, Ended(t, "scheduled"))
  /\ run' = EndRun(t, "finished")
  /\ UNCHANGED <<gated, lastRun, tick, boots, reclaim, spent>>

\* heartbeat_claim compares the lock, which all claims of a dispatcher share.
Heartbeat(r) ==
  /\ Alive(r)
  /\ LET t == run[r].task
     IN /\ task[t].status = "running"
        /\ task[t].lock = run[r].lock
        /\ task[t].expired
        /\ Put(t, [task[t] EXCEPT !.expired = FALSE])
  /\ UNCHANGED <<gated, run, lastRun, tick, boots, commands, reclaim, spent>>

\* Only the exit of a process that somebody still looks for makes a difference.
ExitRead(r) ==
  run[r].outcome = "open" \/ tick.item.pid = r \/ \E t \in Tasks : task[t].pid = r

WorkerExit(r) ==
  /\ Alive(r)
  /\ \E how \in IF run[r].worker = "child" /\ ExitRead(r) THEN {"clean", "rate", "failed"}
                 ELSE {"failed"} :
       run' = [run EXCEPT ![r].worker = how]
  /\ UNCHANGED <<gated, task, lastRun, tick, boots, commands, reclaim, spent>>

\* The claim's time to live, fifteen minutes, is over.
ClaimExpires(t) ==
  /\ task[t].status = "running"
  /\ ~task[t].expired
  /\ Put(t, [task[t] EXCEPT !.expired = TRUE])
  /\ UNCHANGED <<gated, run, lastRun, tick, boots, commands, reclaim, spent>>

-----------------------------------------------------------------------------
\* The operator.

ManualClaim(t) ==
  /\ ByOperator
  /\ \/ ClaimTask(t, [by |-> "command", id |-> lastRun + 1])
     \/ ClaimRefused(t)
  /\ UNCHANGED <<gated, tick, boots, reclaim, spent>>

Unblock(t) ==
  /\ ByOperator
  /\ task[t].status \in {"blocked", "scheduled"}
  /\ LET resume == IF task[t].status = "blocked" THEN task[t].resume ELSE "ready"
     IN Put(t, [task[t] EXCEPT
          !.status = IF ParentsSatisfied(t) THEN resume ELSE "todo",
          !.run = 0, !.failures = 0, !.sticky = FALSE, !.resume = resume])
  /\ run' = EndRun(t, "reclaimed")
  /\ Refill(t)
  /\ UNCHANGED <<gated, lastRun, tick, boots, reclaim>>

\* promote_task; with force whatever the parents are.
Promote(t) ==
  /\ ByOperator
  /\ task[t].status \in {"todo", "blocked"}
  /\ Put(t, [task[t] EXCEPT !.status = "ready"])
  /\ UNCHANGED <<gated, run, lastRun, tick, boots, reclaim, spent>>

ReopenReview(t) ==
  /\ ByOperator
  /\ task[t].status = "review"
  /\ Put(t, [Ended(t, Landing(t)) EXCEPT !.resume = "ready"])
  /\ run' = EndRun(t, "reclaimed")
  /\ UNCHANGED <<gated, lastRun, tick, boots, reclaim, spent>>

Specify(t) ==
  /\ ByOperator
  /\ task[t].status = "triage"
  /\ task' = Recomputed([task EXCEPT ![t].status = "todo"], gated, DefaultLimit)
  /\ UNCHANGED <<gated, run, lastRun, tick, boots, reclaim, spent>>

\* Mutant: the run of an archived task stays open.
Archive_KeepsRun(t) ==
  /\ ByOperator
  /\ task[t].status # "archived"
  /\ task' = Recomputed([task EXCEPT ![t] = Ended(t, "archived")], gated, DefaultLimit)
  /\ UNCHANGED <<gated, run, lastRun, tick, boots, reclaim, spent>>

Archive(t) ==
  /\ ByOperator
  /\ task[t].status # "archived"
  /\ task' = Recomputed([task EXCEPT ![t] = Ended(t, "archived")], gated, DefaultLimit)
  /\ run' = EndRun(t, "reclaimed")
  /\ UNCHANGED <<gated, lastRun, tick, boots, reclaim, spent>>

\* reclaim_task reads the claim and kills the process, ...
ReclaimStart(t) ==
  /\ ByOperator
  /\ reclaim.pc = "idle"
  /\ task[t].status = "running" \/ task[t].lock # NoLock
  /\ \E survives \in BOOLEAN :
       /\ survives => Alive(task[t].pid)
       /\ Killed(Read(t), survives)
  /\ reclaim' = [pc |-> "release", task |-> t, lock |-> task[t].lock]
  /\ UNCHANGED <<gated, task, lastRun, tick, boots, spent>>

\* ... releases the claim if the lock is the same, without asking whether the
\* process is gone, ...
ReclaimRelease ==
  /\ reclaim.pc = "release"
  /\ LET t == reclaim.task
     IN \/ /\ task[t].status \in {"running", "ready", "blocked"}
           /\ task[t].lock = reclaim.lock
           /\ Put(t, [Ended(t, RetryStatus(t)) EXCEPT !.resume = RetryStatus(t)])
           /\ run' = EndRun(t, "reclaimed")
           /\ reclaim' = [reclaim EXCEPT !.pc = "clear"]
        \/ /\ ~(/\ task[t].status \in {"running", "ready", "blocked"}
                /\ task[t].lock = reclaim.lock)
           /\ reclaim' = NoReclaim
           /\ UNCHANGED <<task, run>>
  /\ UNCHANGED <<gated, lastRun, tick, boots, commands, spent>>

\* ... and gives the task a fresh budget in a transaction of its own.
ReclaimClear ==
  /\ reclaim.pc = "clear"
  /\ Put(reclaim.task, [task[reclaim.task] EXCEPT !.failures = 0])
  /\ Refill(reclaim.task)
  /\ reclaim' = NoReclaim
  /\ UNCHANGED <<gated, run, lastRun, tick, boots, commands>>

\* link_tasks to a parent that is not done, by hand or by a worker.
Link(t) ==
  /\ commands < MaxCommands
  /\ commands' = commands + 1
  /\ gated' = gated \cup {t}
  /\ IF task[t].status = "ready" THEN Put(t, [task[t] EXCEPT !.status = "todo"])
                                 ELSE UNCHANGED task
  /\ UNCHANGED <<run, lastRun, tick, boots, reclaim, spent>>

\* The last open parent is completed, archived or unlinked, and the promotion that
\* follows at once.
ParentsDone(t) ==
  /\ t \in gated
  /\ gated' = gated \ {t}
  /\ task' = Recomputed(task, gated', DefaultLimit)
  /\ UNCHANGED <<run, lastRun, tick, boots, commands, reclaim, spent>>

Operator(t) ==
  \/ ManualClaim(t) \/ Unblock(t) \/ Promote(t) \/ ReopenReview(t) \/ Specify(t)
  \/ Archive(t) \/ ReclaimStart(t)

Next ==
  \/ Dispatch \/ DispatcherCrash \/ ReclaimRelease \/ ReclaimClear
  \/ \E t \in Tasks :
       \/ Complete(t) \/ Block(t) \/ RequestReview(t) \/ RequestChanges(t) \/ Schedule(t)
       \/ ClaimExpires(t) \/ Operator(t) \/ Link(t) \/ ParentsDone(t)
  \/ \E r \in RunIds : Heartbeat(r) \/ WorkerExit(r)

Spec == Init /\ [][Next]_vars

\* The gateway ticks once a minute, time passes and no worker runs forever.
Fairness ==
  /\ WF_vars(Dispatch)
  /\ \A t \in Tasks : WF_vars(ClaimExpires(t))
  /\ \A r \in RunIds : WF_vars(WorkerExit(r))

FairSpec == Spec /\ Fairness

-----------------------------------------------------------------------------
\* Properties.

TypeOK ==
  /\ task \in [Tasks -> Task]
  /\ gated \subseteq Tasks
  /\ run \in [RunIds -> Run]
  /\ lastRun \in 0..MaxRuns
  /\ tick \in [pc : TickSteps, list : SUBSET Item, item : Item,
               pending : SUBSET [task : Tasks, violation : BOOLEAN]]
  /\ boots \in 1..MaxBoots
  /\ reclaim \in [pc : ReclaimSteps, task : Tasks \cup {None}, lock : Lock]
  /\ spent \in [Tasks -> Nat]

\* A run is open exactly as long as its task points at it, and a running task has
\* a claim and an open run: however the passes of the dispatcher, the worker and
\* the operator overlap, no run is left open behind a task that went on (_end_run,
\* and the runs invariant in the docstring of _reclaim_dangling_run).
RunsMatchClaims ==
  /\ \A r \in RunIds : run[r].outcome = "open" => task[run[r].task].run = r
  /\ \A t \in Running :
       /\ task[t].lock # NoLock
       /\ task[t].run # 0
       /\ run[task[t].run].outcome = "open"

\* Between two ticks a task that may be claimed has failed fewer times than the
\* larger of its limits: release, count, breaker and promotion are separate
\* transactions, and together they count every failure.  An intervention of the
\* operator or the death of the dispatcher in the middle can hide one failure each.
RetryBudget ==
  tick.pc = "idle" =>
    \A t \in Tasks : task[t].status \in Phases =>
      \E limit \in {FailureLimit, DefaultLimit} :
        spent[t] < limit + commands + (boots - 1)

\* Neither the stale nor the crash pass takes a task from the process recorded for
\* it while that is alive (release_stale_claims: "Never release a claim while our
\* own worker is still alive"), whatever happens to the task between the kill and
\* the release.  A process that was started but not recorded before the dispatcher
\* died is not protected.
NoDuplicateWorker ==
  [][tick.pc \in {"stale", "staleKilled"} /\ tick' # tick =>
       \A t \in Tasks : task[t].status = "running" /\ task'[t].status # "running"
                       => ~Alive(task[t].pid)]_vars

\* Every claim ends: whoever made it, and whether its worker was ever started,
\* recorded, finished or killed, the dispatcher takes the task back if nobody else
\* ends the run.
ClaimReleased ==
  \A t \in Tasks, r \in RunIds :
    task[t].status = "running" /\ task[t].run = r
      ~> ~(task[t].status = "running" /\ task[t].run = r)
=============================================================================
