-------------------------- MODULE KanbanBoardProofs --------------------------
(***************************************************************************)
(* Proofs about KanbanBoard, for every set of tasks, every bound and every   *)
(* limit: the types, that runs and claims match, that the stale and the      *)
(* crash pass take no task from a recorded process that is alive, and the    *)
(* retry budget.                                                             *)
(*                                                                          *)
(* A run can stay open behind a task that is not running: the breaker may    *)
(* block a task that somebody has claimed again.  It is closed by the next   *)
(* claim_task, but claim_review_task closes nothing.  So the argument has to *)
(* say that such a task still has its lock, which both respect (FreeClosed). *)
(***************************************************************************)
EXTENDS KanbanBoard, TLAPS

IsOpen(r) == r.outcome = "open"

\* A task that nobody holds.
Free(x) == x.lock = NoLock

Own ==
  /\ \A t \in Tasks : task[t].run # 0 => run[task[t].run].task = t
  /\ \A r \in RunIds : IsOpen(run[r]) => run[r].task \in Tasks
FreeClosed ==
  \A t \in Tasks : Free(task[t]) /\ task[t].run # 0 => ~IsOpen(run[task[t].run])
Fresh == \A r \in RunIds : r > lastRun => run[r].task = None

\* The rows of both tables, ...
Rows ==
  /\ task \in [Tasks -> Task]
  /\ run \in [RunIds -> Run]
  /\ lastRun \in 0..MaxRuns
  /\ RunsMatchClaims
  /\ Own
  /\ FreeClosed
  /\ Fresh

\* ... and what the processes are at.
TickOK(k) ==
  /\ k \in [pc : TickSteps, list : SUBSET Item, item : Item,
             pending : SUBSET [task : Tasks, violation : BOOLEAN]]
  /\ k.pc \in {"staleKilled", "timeoutKilled", "timeoutAccount", "claimed", "spawned"}
       => k.item.task \in Tasks
  /\ \A i \in k.list : i.task \in Tasks

Rest ==
  /\ gated \subseteq Tasks
  /\ TickOK(tick)
  /\ boots \in 1..MaxBoots
  /\ reclaim \in [pc : ReclaimSteps, task : Tasks \cup {None}, lock : Lock]
  /\ reclaim.pc # "idle" => reclaim.task \in Tasks
  /\ spent \in [Tasks -> Nat]

IInv == Rows /\ Rest

-----------------------------------------------------------------------------
\* What a step that starts no run may do to the rows.

\* t is left without a run, and the run it had is closed, or ...
Leaves(t, T, R) ==
  /\ T[t].run = 0
  /\ T[t].status # "running"
  /\ task[t].run # 0 => ~IsOpen(R[task[t].run])

\* ... t keeps its run, and does not start running or lose its lock with it.
Stays(t, T, R) ==
  /\ T[t].run = task[t].run
  /\ T[t].status = "running" =>
       /\ task[t].status = "running"
       /\ T[t].lock # NoLock
       /\ R[task[t].run].outcome = run[task[t].run].outcome
  /\ Free(T[t]) /\ task[t].run # 0 => ~IsOpen(run[task[t].run])

RowsTo(T, R) ==
  /\ T \in [Tasks -> Task]
  /\ R \in [RunIds -> Run]
  /\ \A r \in RunIds : R[r].task = run[r].task /\ (IsOpen(R[r]) => IsOpen(run[r]))
  /\ \A t \in Tasks : Leaves(t, T, R) \/ Stays(t, T, R)

RowsKept == RowsTo(task', run') /\ lastRun' = lastRun

LEMMA RowsKeptIsEnough ==
  ASSUME Rows, RowsKept
  PROVE  Rows'
<1>0. /\ task \in [Tasks -> Task] /\ run \in [RunIds -> Run] /\ lastRun \in 0..MaxRuns
      /\ task' \in [Tasks -> Task] /\ run' \in [RunIds -> Run] /\ lastRun' = lastRun
      /\ \A r \in RunIds : run'[r].task = run[r].task /\ (IsOpen(run'[r]) => IsOpen(run[r]))
      /\ \A t \in Tasks : Leaves(t, task', run') \/ Stays(t, task', run')
  BY DEF Rows, RowsKept, RowsTo
<1>1. \A t \in Tasks : task[t].run # 0 => task[t].run \in RunIds
  BY <1>0 DEF Task, RunIds
<1>2. Own'
  BY <1>0, <1>1 DEF Rows, Own, Leaves, Stays
<1>3. FreeClosed'
  BY <1>0, <1>1 DEF FreeClosed, Leaves, Stays
<1>4. Fresh'
  BY <1>0 DEF Rows, Fresh
<1>5. \A r \in RunIds : IsOpen(run'[r]) => task'[run'[r].task].run = r
  <2> SUFFICES ASSUME NEW r \in RunIds, IsOpen(run'[r])
               PROVE  task'[run[r].task].run = r
    BY <1>0
  <2>1. IsOpen(run[r]) /\ task[run[r].task].run = r
    BY <1>0 DEF Rows, RunsMatchClaims, IsOpen
  <2>2. run[r].task \in Tasks
    BY <2>1 DEF Rows, Own
  <2>3. r # 0
    BY DEF RunIds
  <2>4. QED BY <1>0, <2>1, <2>2, <2>3 DEF Leaves, Stays
<1>6. \A t \in Running' :
        task'[t].lock # NoLock /\ task'[t].run # 0 /\ IsOpen(run'[task'[t].run])
  <2> SUFFICES ASSUME NEW t \in Tasks, task'[t].status = "running"
               PROVE  task'[t].lock # NoLock /\ task'[t].run # 0 /\ IsOpen(run'[task'[t].run])
    BY DEF Running
  <2>1. Stays(t, task', run')
    BY <1>0 DEF Leaves
  <2>2. task[t].run # 0 /\ run[task[t].run].outcome = "open"
    BY <2>1 DEF Stays, Rows, RunsMatchClaims, Running
  <2>3. QED BY <2>1, <2>2 DEF Stays, IsOpen
<1>7. RunsMatchClaims'
  BY <1>5, <1>6 DEF RunsMatchClaims, IsOpen
<1>8. QED BY <1>0, <1>2, <1>3, <1>4, <1>7 DEF Rows

-----------------------------------------------------------------------------
\* The forms a step takes.

Types == task \in [Tasks -> Task] /\ run \in [RunIds -> Run]

\* EndRun closes the run of t and changes no other.
LEMMA EndRunFacts ==
  ASSUME Types, NEW t \in Tasks, NEW o \in Outcomes \ {"open"}
  PROVE  /\ EndRun(t, o) \in [RunIds -> Run]
         /\ \A r \in RunIds :
              /\ EndRun(t, o)[r].task = run[r].task
              /\ EndRun(t, o)[r].worker = run[r].worker
              /\ r = task[t].run => ~IsOpen(EndRun(t, o)[r])
              /\ r # task[t].run => EndRun(t, o)[r] = run[r]
BY DEF Types, EndRun, EndRuns, Run, IsOpen

\* The run of t ends, and t is not running.
LEMMA LeaveKept ==
  ASSUME Rows, NEW t \in Tasks, NEW x \in Task, NEW o \in Outcomes \ {"open"},
         x.run = 0, x.status # "running"
  PROVE  RowsTo([task EXCEPT ![t] = x], EndRun(t, o))
<1> DEFINE T == [task EXCEPT ![t] = x]
           R == EndRun(t, o)
<1>0. task \in [Tasks -> Task] /\ run \in [RunIds -> Run] /\ T \in [Tasks -> Task]
  BY DEF Rows
<1>1. /\ R \in [RunIds -> Run]
      /\ \A r \in RunIds :
           /\ R[r].task = run[r].task
           /\ r = task[t].run => ~IsOpen(R[r])
           /\ r # task[t].run => R[r] = run[r]
  BY <1>0, EndRunFacts DEF Types
<1>2. \A u \in Tasks : task[u].run # 0 => task[u].run \in RunIds /\ run[task[u].run].task = u
  BY <1>0 DEF Task, RunIds, Rows, Own
<1>3. Leaves(t, T, R)
  BY <1>0, <1>1, <1>2 DEF Leaves
<1>4. ASSUME NEW u \in Tasks, u # t PROVE Stays(u, T, R)
  <2>1. task[u].run # 0 => R[task[u].run] = run[task[u].run]
    BY <1>1, <1>2, <1>4
  <2>2. T[u] = task[u]
    BY <1>0, <1>4
  <2>3. task[u].status = "running" => task[u].lock # NoLock /\ task[u].run # 0
    BY DEF Rows, RunsMatchClaims, Running
  <2>4. QED BY <2>1, <2>2, <2>3 DEF Stays, Rows, FreeClosed
<1>5. QED BY <1>0, <1>1, <1>3, <1>4 DEF RowsTo

\* t keeps its run.
LEMMA StayKept ==
  ASSUME Rows, NEW t \in Tasks, NEW x \in Task, x.run = task[t].run,
         x.status = "running" => task[t].status = "running" /\ x.lock = task[t].lock,
         Free(x) => Free(task[t])
  PROVE  RowsTo([task EXCEPT ![t] = x], run)
<1> DEFINE T == [task EXCEPT ![t] = x]
<1>0. task \in [Tasks -> Task] /\ run \in [RunIds -> Run] /\ T \in [Tasks -> Task]
  BY DEF Rows
<1>1. \A u \in Tasks : task[u].status = "running" => task[u].lock # NoLock
  BY DEF Rows, RunsMatchClaims, Running
<1>2. Stays(t, T, run)
  BY <1>0, <1>1 DEF Stays, Rows, FreeClosed
<1>3. ASSUME NEW u \in Tasks, u # t PROVE Stays(u, T, run)
  BY <1>0, <1>1, <1>3 DEF Stays, Rows, FreeClosed
<1>4. QED BY <1>0, <1>2, <1>3 DEF RowsTo

\* Only the processes change.
LEMMA WorkersKept ==
  ASSUME Rows, NEW R \in [RunIds -> Run],
         \A r \in RunIds : R[r].task = run[r].task /\ R[r].outcome = run[r].outcome
  PROVE  RowsTo(task, R)
<1>1. task \in [Tasks -> Task] /\ \A t \in Tasks : task[t].run # 0 => task[t].run \in RunIds
  BY DEF Rows, Task, RunIds
<1>2. \A u \in Tasks : task[u].status = "running" => task[u].lock # NoLock /\ task[u].run # 0
  BY DEF Rows, RunsMatchClaims, Running
<1>3. \A t \in Tasks : Stays(t, task, R)
  BY <1>1, <1>2 DEF Stays, Rows, FreeClosed
<1>4. QED BY <1>1, <1>3 DEF RowsTo, IsOpen

\* A promotion that follows in the same step.
LEMMA PromotionKept ==
  ASSUME NEW T, NEW R, RowsTo(T, R), NEW G, NEW limit
  PROVE  RowsTo(Recomputed(T, G, limit), R)
<1> DEFINE P == Recomputed(T, G, limit)
<1>0. T \in [Tasks -> Task]
  BY DEF RowsTo
<1>1. ASSUME NEW t \in Tasks
      PROVE  /\ P[t] \in Task
             /\ \/ P[t] = T[t]
                \/ /\ P[t].run = T[t].run
                   /\ P[t].lock = T[t].lock
                   /\ P[t].status = T[t].resume
                   /\ T[t].status # "running"
  <2>1. CASE t \notin G /\ Promotable(T[t], limit)
    <3>1. P[t] = [T[t] EXCEPT !.status = T[t].resume]
      BY <2>1 DEF Recomputed
    <3>2. T[t] \in Task /\ T[t].status # "running"
      BY <1>0, <2>1 DEF Promotable
    <3>3. T[t].resume \in Statuses
      BY <3>2 DEF Task, Phases, Statuses
    <3>4. QED BY <3>1, <3>2, <3>3 DEF Task
  <2>2. CASE ~(t \notin G /\ Promotable(T[t], limit))
    BY <1>0, <2>2 DEF Recomputed
  <2>3. QED BY <2>1, <2>2
<1>2. P \in [Tasks -> Task]
  BY <1>1 DEF Recomputed
<1>3. ASSUME NEW t \in Tasks PROVE Leaves(t, P, R) \/ Stays(t, P, R)
  <2>1. T[t].resume # "running"
    BY <1>0 DEF Task, Phases
  <2>2. CASE Leaves(t, T, R)
    BY <1>1, <2>1, <2>2 DEF Leaves
  <2>3. CASE Stays(t, T, R)
    BY <1>1, <2>1, <2>3 DEF Stays, Free
  <2>4. QED BY <2>2, <2>3 DEF RowsTo
<1>4. QED BY <1>2, <1>3 DEF RowsTo

-----------------------------------------------------------------------------
\* Rows of the right type, and what a step does to the processes.

LEMMA StatusTypes ==
  /\ Phases \subseteq Statuses
  /\ {"todo", "ready", "running", "review", "blocked", "scheduled", "triage", "done",
       "archived"} \subseteq Statuses
BY DEF Phases, Statuses

LEMMA RowTypes ==
  ASSUME Rows, NEW t \in Tasks
  PROVE  /\ task \in [Tasks -> Task] /\ task[t] \in Task
         /\ run \in [RunIds -> Run] /\ Types
         /\ task[t].run # 0 => task[t].run \in RunIds
         /\ RetryStatus(t) \in Phases
         /\ Landing(t) \in {"ready", "todo"}
<1>1. task[t] \in Task /\ (task[t].run # 0 => task[t].run \in RunIds)
  BY DEF Rows, Task, RunIds
<1>2. task[t].run # 0 => run[task[t].run].phase \in Phases
  BY <1>1 DEF Rows, Run
<1>3. RetryStatus(t) \in Phases
  BY <1>2 DEF RetryStatus, Phases
<1>4. QED BY <1>1, <1>3 DEF Rows, Types, Landing

LEMMA UnclaimedFacts ==
  ASSUME NEW x \in Task, NEW s \in Statuses
  PROVE  /\ Unclaimed(x, s) \in Task
         /\ Unclaimed(x, s).status = s
         /\ Unclaimed(x, s).run = x.run
         /\ Unclaimed(x, s).resume = x.resume
         /\ Unclaimed(x, s).failures = x.failures
<1>1. NoLock \in Lock
  BY BoundAssumption DEF NoLock, Lock
<1>2. 0 \in 0..MaxRuns
  BY BoundAssumption
<1>3. QED BY <1>1, <1>2 DEF Unclaimed, Task

LEMMA EndedFacts ==
  ASSUME Rows, NEW t \in Tasks, NEW s \in Statuses
  PROVE  /\ Ended(t, s) \in Task
         /\ Ended(t, s).run = 0
         /\ Ended(t, s).status = s
<1>1. Unclaimed(task[t], s) \in Task /\ Unclaimed(task[t], s).status = s
  BY RowTypes, UnclaimedFacts
<1>2. 0 \in 0..MaxRuns
  BY BoundAssumption
<1>3. QED BY <1>1, <1>2 DEF Ended, Task

\* The row of a run that ends, with the phase to resume.
LEMMA ResumeFacts ==
  ASSUME Rows, NEW t \in Tasks, NEW s \in Statuses, NEW p \in Phases
  PROVE  /\ [Ended(t, s) EXCEPT !.resume = p] \in Task
         /\ [Ended(t, s) EXCEPT !.resume = p].run = 0
         /\ [Ended(t, s) EXCEPT !.resume = p].status = s
BY EndedFacts DEF Task

\* The step that ends the run of t and puts it in another column.
LEMMA PutLeaveKept ==
  ASSUME Rows, NEW t \in Tasks, NEW x \in Task, NEW o \in Outcomes \ {"open"},
         x.run = 0, x.status # "running", Put(t, x), run' = EndRun(t, o), lastRun' = lastRun
  PROVE  RowsKept
BY LeaveKept DEF Put, RowsKept

LEMMA PutStayKept ==
  ASSUME Rows, NEW t \in Tasks, NEW x \in Task, x.run = task[t].run,
         x.status = "running" => task[t].status = "running" /\ x.lock = task[t].lock,
         Free(x) => Free(task[t]), Put(t, x), UNCHANGED <<run, lastRun>>
  PROVE  RowsKept
BY StayKept DEF Put, RowsKept

LEMMA SameRowsKept ==
  ASSUME Rows, UNCHANGED <<task, run, lastRun>>
  PROVE  RowsKept
BY WorkersKept DEF Rows, RowsKept

LEMMA WorkerStepKept ==
  ASSUME Rows, UNCHANGED <<task, lastRun>>, run' \in [RunIds -> Run],
         \A r \in RunIds : run'[r].task = run[r].task /\ run'[r].outcome = run[r].outcome
  PROVE  RowsKept
BY WorkersKept DEF RowsKept

LEMMA SpentKept ==
  ASSUME spent \in [Tasks -> Nat],
         \/ UNCHANGED spent
         \/ \E S : Spend(S)
         \/ \E t \in Tasks : Refill(t)
  PROVE  spent' \in [Tasks -> Nat]
BY DEF Spend, Refill

LEMMA ReadTyped ==
  ASSUME Rows, NEW t \in Tasks
  PROVE  Read(t) \in Item /\ Read(t).task = t
BY RowTypes DEF Read, Item, Task, Phases

LEMMA NoItemTyped == NoItem \in Item
BY BoundAssumption DEF NoItem, Item, NoLock, Lock, Phases

LEMMA StepTyped ==
  ASSUME TickOK(tick), NEW pc \in TickSteps, NEW i \in Item,
         i.task \in Tasks \/ pc \in {"stale", "account", "spawn", "idle"},
         (Step(pc) /\ i = NoItem) \/ StepWith(pc, i)
  PROVE  TickOK(tick')
<1>2. tick' = [tick EXCEPT !.pc = pc, !.item = i]
  BY DEF Step, StepWith
<1>3. QED BY <1>2, NoItemTyped DEF TickOK

\* A new run of t.
LEMMA StartKept ==
  ASSUME Rows, NEW t \in Tasks, NEW phase \in Phases, NEW lock \in Lock, lock # NoLock,
         NEW runs \in [RunIds -> Run],
         \A r \in RunIds :
           /\ runs[r].task = run[r].task
           /\ IsOpen(runs[r]) => IsOpen(run[r]) /\ r # task[t].run
           /\ r # task[t].run => runs[r] = run[r],
         StartRun(t, phase, lock, runs)
  PROVE  Rows'
<1> DEFINE n == lastRun + 1
           new == [task |-> t, phase |-> phase, outcome |-> "open", worker |-> "none",
                   lock |-> lock]
           x == [task[t] EXCEPT !.status = "running", !.lock = lock, !.expired = FALSE,
                                !.run = n]
<1>1. n \in RunIds /\ lastRun' = n /\ n \in 0..MaxRuns /\ n # 0
  BY BoundAssumption DEF Rows, StartRun, RunIds
<1>2. new \in Run
  BY DEF Run, Outcomes, Workers
<1>3. run' = [runs EXCEPT ![n] = new] /\ task' = [task EXCEPT ![t] = x]
  BY DEF StartRun, Put
<1>4. /\ run' \in [RunIds -> Run]
      /\ run'[n].task = t /\ IsOpen(run'[n])
      /\ \A r \in RunIds : r # n => run'[r] = runs[r]
  BY <1>1, <1>2, <1>3 DEF IsOpen
<1>5. x \in Task /\ x.run = n /\ x.status = "running" /\ x.lock = lock
  <2>1. task[t] \in Task /\ "running" \in Statuses
    BY RowTypes, StatusTypes
  <2>2. QED BY <1>1, <2>1 DEF Task
<1>6. task' \in [Tasks -> Task] /\ task'[t] = x /\ \A u \in Tasks : u # t => task'[u] = task[u]
  BY <1>3, <1>5, RowTypes
<1>7. \A u \in Tasks : task[u].run # 0 => task[u].run \in RunIds /\ task[u].run # n
                                         /\ run[task[u].run].task = u
  <2> SUFFICES ASSUME NEW u \in Tasks, task[u].run # 0
               PROVE  task[u].run \in RunIds /\ task[u].run # n /\ run[task[u].run].task = u
    OBVIOUS
  <2>1. task[u].run \in RunIds /\ run[task[u].run].task = u
    BY RowTypes DEF Rows, Own
  <2>2. run[n].task = None
    BY <1>1 DEF Rows, Fresh, RunIds
  <2>3. QED BY <2>1, <2>2, NoneAssumption
<1>8. Own'
  <2>1. ASSUME NEW u \in Tasks, task'[u].run # 0
        PROVE  run'[task'[u].run].task = u
    <3>1. CASE u = t
      BY <1>4, <1>5, <1>6, <3>1
    <3>2. CASE u # t
      <4>1. task'[u] = task[u] /\ task[u].run # 0
        BY <1>6, <2>1, <3>2
      <4>2. QED BY <1>4, <1>7, <4>1
    <3>3. QED BY <3>1, <3>2
  <2>2. \A r \in RunIds : IsOpen(run'[r]) => run'[r].task \in Tasks
    BY <1>4 DEF Rows, Own
  <2>3. QED BY <2>1, <2>2 DEF Own
<1>9. FreeClosed'
  <2> SUFFICES ASSUME NEW u \in Tasks, Free(task'[u]), task'[u].run # 0
               PROVE  ~IsOpen(run'[task'[u].run])
    BY DEF FreeClosed
  <2>1. u # t
    BY <1>5, <1>6 DEF Free
  <2>2. task'[u] = task[u] /\ ~IsOpen(run[task[u].run])
    BY <1>6, <2>1 DEF Rows, FreeClosed
  <2>3. QED BY <1>4, <1>7, <2>2
<1>10. Fresh'
  BY <1>1, <1>4 DEF Fresh, Rows, RunIds
<1>11. \A r \in RunIds : IsOpen(run'[r]) => task'[run'[r].task].run = r
  <2>0. task'[run'[n].task].run = n
    BY <1>4, <1>5, <1>6
  <2> SUFFICES ASSUME NEW r \in RunIds, IsOpen(run'[r]), r # n
               PROVE  task'[run'[r].task].run = r
    BY <2>0
  <2>1. run'[r] = runs[r] /\ runs[r].task = run[r].task /\ IsOpen(run[r]) /\ r # task[t].run
    BY <1>4
  <2>2. task[run[r].task].run = r /\ run[r].task \in Tasks
    BY <2>1 DEF Rows, RunsMatchClaims, Own, IsOpen
  <2>3. QED BY <1>6, <2>1, <2>2
<1>12. \A u \in Running' :
         task'[u].lock # NoLock /\ task'[u].run # 0 /\ IsOpen(run'[task'[u].run])
  <2>0. task'[t].lock # NoLock /\ task'[t].run # 0 /\ IsOpen(run'[task'[t].run])
    BY <1>1, <1>4, <1>5, <1>6
  <2> SUFFICES ASSUME NEW u \in Tasks, task'[u].status = "running", u # t
               PROVE  task'[u].lock # NoLock /\ task'[u].run # 0 /\ IsOpen(run'[task'[u].run])
    BY <2>0 DEF Running
  <2>1. /\ task'[u] = task[u] /\ task[u].lock # NoLock /\ task[u].run # 0
        /\ IsOpen(run[task[u].run])
    BY <1>6 DEF Rows, RunsMatchClaims, Running, IsOpen
  <2>2. task[u].run # task[t].run
    BY <1>7, <2>1
  <2>3. QED BY <1>4, <1>7, <2>1, <2>2
<1>13. RunsMatchClaims'
  BY <1>11, <1>12 DEF RunsMatchClaims, IsOpen
<1>14. QED BY <1>1, <1>4, <1>6, <1>8, <1>9, <1>10, <1>13 DEF Rows

LEMMA ClaimTaskKept ==
  ASSUME Rows, NEW t \in Tasks, NEW lock \in Lock, lock # NoLock, ClaimTask(t, lock)
  PROVE  Rows'
<1>1. EndRun(t, "reclaimed") \in [RunIds -> Run]
  BY RowTypes, EndRunFacts DEF Outcomes
<1>2. \A r \in RunIds :
        /\ EndRun(t, "reclaimed")[r].task = run[r].task
        /\ IsOpen(EndRun(t, "reclaimed")[r]) => IsOpen(run[r]) /\ r # task[t].run
        /\ r # task[t].run => EndRun(t, "reclaimed")[r] = run[r]
  BY RowTypes, EndRunFacts DEF Outcomes
<1>3. "ready" \in Phases
  BY DEF Phases
<1>4. QED BY <1>1, <1>2, <1>3, StartKept DEF ClaimTask

LEMMA ClaimReviewKept ==
  ASSUME Rows, NEW t \in Tasks, NEW lock \in Lock, lock # NoLock, ClaimReviewTask(t, lock)
  PROVE  Rows'
<1>1. \A r \in RunIds : IsOpen(run[r]) => r # task[t].run
  <2>1. Free(task[t])
    BY DEF ClaimReviewTask, Free
  <2>2. QED BY <2>1 DEF Rows, FreeClosed, RunIds
<1>2. "review" \in Phases
  BY DEF Phases
<1>3. QED BY <1>1, <1>2, StartKept, RowTypes DEF ClaimReviewTask

\* A claim that is refused changes the column, or closes a run nobody runs.
LEMMA RefusedKept ==
  ASSUME Rows, NEW t \in Tasks, ClaimRefused(t) \/ ReviewRefused(t)
  PROVE  RowsKept
<1>0. task[t] \in Task /\ task \in [Tasks -> Task]
  BY RowTypes
<1>1. CASE task[t].status = "ready" /\ Put(t, [task[t] EXCEPT !.status = "todo"])
           /\ UNCHANGED <<run, lastRun>>
  <2> DEFINE x == [task[t] EXCEPT !.status = "todo"]
  <2>1. x \in Task /\ x.run = task[t].run /\ x.status = "todo" /\ x.lock = task[t].lock
    BY <1>0, StatusTypes DEF Task
  <2>2. QED BY <1>1, <2>1, PutStayKept DEF Free
<1>2. CASE task[t].status = "ready" /\ run' = EndRun(t, "reclaimed") /\ UNCHANGED <<task, lastRun>>
  <2> DEFINE R == EndRun(t, "reclaimed")
  <2>1. /\ R \in [RunIds -> Run]
        /\ \A r \in RunIds :
             /\ R[r].task = run[r].task
             /\ IsOpen(R[r]) => IsOpen(run[r])
             /\ r # task[t].run => R[r] = run[r]
    BY RowTypes, EndRunFacts DEF Outcomes
  <2>2. ASSUME NEW u \in Tasks PROVE Stays(u, task, R)
    <3>1. task[u].status = "running" =>
            task[u].lock # NoLock /\ R[task[u].run].outcome = run[task[u].run].outcome
      <4> SUFFICES ASSUME task[u].status = "running"
                   PROVE  /\ task[u].lock # NoLock
                          /\ R[task[u].run].outcome = run[task[u].run].outcome
        OBVIOUS
      <4>1. task[u].lock # NoLock /\ task[u].run # 0 /\ u # t
        BY <1>2 DEF Rows, RunsMatchClaims, Running
      <4>2. task[u].run \in RunIds /\ task[u].run # task[t].run
        BY <4>1, RowTypes DEF Rows, Own
      <4>3. QED BY <2>1, <4>1, <4>2
    <3>2. QED BY <3>1 DEF Stays, Rows, FreeClosed
  <2>3. QED BY <1>0, <1>2, <2>1, <2>2 DEF RowsTo, RowsKept
<1>3. CASE ReviewRefused(t)
  <2> DEFINE x == [task[t] EXCEPT !.status = "todo", !.resume = "review"]
  <2>1. x \in Task /\ x.run = task[t].run /\ x.status = "todo" /\ x.lock = task[t].lock
    BY <1>0, StatusTypes DEF Task, Phases
  <2>2. QED BY <1>3, <2>1, PutStayKept DEF Free, ReviewRefused
<1>4. QED BY <1>1, <1>2, <1>3 DEF ClaimRefused

LEMMA TickRest ==
  ASSUME Rest, TickOK(tick'), UNCHANGED <<gated, boots, reclaim>>,
         UNCHANGED spent \/ \E S : Spend(S)
  PROVE  Rest'
BY SpentKept DEF Rest

LEMMA SameTickRest ==
  ASSUME Rest, UNCHANGED <<gated, tick, boots, reclaim>>,
         UNCHANGED spent \/ \E t \in Tasks : Refill(t)
  PROVE  Rest'
BY SpentKept DEF Rest

-----------------------------------------------------------------------------
\* The worker and the operator.

LEMMA CompleteKept ==
  ASSUME IInv, NEW t \in Tasks, Complete(t)
  PROVE  RowsKept /\ Rest'
<1> DEFINE x == [Ended(t, "done") EXCEPT !.failures = 0]
<1>1. x \in Task /\ x.run = 0 /\ x.status = "done"
  BY EndedFacts, StatusTypes DEF IInv, Task
<1>2. RowsTo([task EXCEPT ![t] = x], EndRun(t, "finished"))
  BY <1>1, LeaveKept DEF IInv, Outcomes
<1>3. RowsKept
  BY <1>2, PromotionKept DEF Complete, RowsKept
<1>4. QED BY <1>3, SameTickRest DEF Complete, IInv

LEMMA BlockKept ==
  ASSUME IInv, NEW t \in Tasks, Block(t)
  PROVE  RowsKept /\ Rest'
<1>1. BlockSource(t) \in Phases
  BY RowTypes DEF BlockSource, IInv, Phases
<1>2. PICK s \in {"todo", "blocked"}, sticky \in BOOLEAN :
        Put(t, [Ended(t, s) EXCEPT !.resume = BlockSource(t), !.sticky = sticky])
  <2>1. CASE Put(t, [Ended(t, "todo") EXCEPT !.resume = BlockSource(t)])
    <3>1. [Ended(t, "todo") EXCEPT !.resume = BlockSource(t)]
          = [Ended(t, "todo") EXCEPT !.resume = BlockSource(t),
                                     !.sticky = Ended(t, "todo").sticky]
      BY EndedFacts, StatusTypes DEF IInv, Task
    <3>2. Ended(t, "todo").sticky \in BOOLEAN
      BY EndedFacts, StatusTypes DEF IInv, Task
    <3>3. QED BY <2>1, <3>1, <3>2
  <2>2. CASE Put(t, [Ended(t, "blocked") EXCEPT !.resume = BlockSource(t), !.sticky = TRUE])
    BY <2>2
  <2>3. QED BY <2>1, <2>2 DEF Block
<1> DEFINE x == [Ended(t, s) EXCEPT !.resume = BlockSource(t), !.sticky = sticky]
<1>3. x \in Task /\ x.run = 0 /\ x.status = s
  <2>1. Ended(t, s) \in Task /\ Ended(t, s).run = 0 /\ Ended(t, s).status = s
    BY EndedFacts, StatusTypes DEF IInv
  <2>2. QED BY <1>1, <2>1 DEF Task
<1>4. RowsKept
  BY <1>2, <1>3, PutLeaveKept DEF IInv, Outcomes, Block
<1>5. QED BY <1>4, SameTickRest DEF Block, IInv

LEMMA RequestReviewKept ==
  ASSUME IInv, NEW t \in Tasks, RequestReview(t)
  PROVE  RowsKept /\ Rest'
<1>1. RowsKept
  BY EndedFacts, StatusTypes, PutLeaveKept DEF IInv, Outcomes, RequestReview
<1>2. QED BY <1>1, SameTickRest DEF RequestReview, IInv

LEMMA RequestChangesKept ==
  ASSUME IInv, NEW t \in Tasks, RequestChanges(t)
  PROVE  RowsKept /\ Rest'
<1> DEFINE x == [Ended(t, Landing(t)) EXCEPT !.resume = "ready"]
<1>1. Landing(t) \in Statuses /\ Landing(t) # "running" /\ "ready" \in Phases
  BY StatusTypes DEF IInv, Landing, Phases
<1>2. x \in Task /\ x.run = 0 /\ x.status = Landing(t)
  BY <1>1, ResumeFacts DEF IInv
<1>3. RowsKept
  BY <1>1, <1>2, PutLeaveKept DEF IInv, Outcomes, RequestChanges
<1>4. QED BY <1>3, SameTickRest DEF RequestChanges, IInv

LEMMA ReopenReviewKept ==
  ASSUME IInv, NEW t \in Tasks, ReopenReview(t)
  PROVE  RowsKept /\ Rest'
<1> DEFINE x == [Ended(t, Landing(t)) EXCEPT !.resume = "ready"]
<1>1. Landing(t) \in Statuses /\ Landing(t) # "running" /\ "ready" \in Phases
  BY StatusTypes DEF IInv, Landing, Phases
<1>2. x \in Task /\ x.run = 0 /\ x.status = Landing(t)
  BY <1>1, ResumeFacts DEF IInv
<1>3. RowsKept
  BY <1>1, <1>2, PutLeaveKept DEF IInv, Outcomes, ReopenReview
<1>4. QED BY <1>3, SameTickRest DEF ReopenReview, IInv

LEMMA ScheduleKept ==
  ASSUME IInv, NEW t \in Tasks, Schedule(t)
  PROVE  RowsKept /\ Rest'
<1>1. RowsKept
  BY EndedFacts, StatusTypes, PutLeaveKept DEF IInv, Outcomes, Schedule
<1>2. QED BY <1>1, SameTickRest DEF Schedule, IInv

LEMMA ArchiveKept ==
  ASSUME IInv, NEW t \in Tasks, Archive(t)
  PROVE  RowsKept /\ Rest'
<1>1. RowsTo([task EXCEPT ![t] = Ended(t, "archived")], EndRun(t, "reclaimed"))
  BY EndedFacts, StatusTypes, LeaveKept DEF IInv, Outcomes
<1>2. RowsKept
  BY <1>1, PromotionKept DEF Archive, RowsKept
<1>3. QED BY <1>2, SameTickRest DEF Archive, IInv

LEMMA UnblockKept ==
  ASSUME IInv, NEW t \in Tasks, Unblock(t)
  PROVE  RowsKept /\ Rest'
<1> DEFINE p == IF task[t].status = "blocked" THEN task[t].resume ELSE "ready"
           s == IF ParentsSatisfied(t) THEN p ELSE "todo"
           x == [task[t] EXCEPT !.status = s, !.run = 0, !.failures = 0, !.sticky = FALSE,
                                !.resume = p]
<1>1. task[t] \in Task
  BY RowTypes DEF IInv
<1>2. p \in Phases /\ s \in Statuses /\ s # "running"
  BY <1>1, StatusTypes DEF Task, Phases
<1>3. 0 \in 0..MaxRuns
  BY BoundAssumption
<1>4. x \in Task /\ x.run = 0 /\ x.status # "running"
  BY <1>1, <1>2, <1>3 DEF Task
<1>5. Put(t, x) /\ run' = EndRun(t, "reclaimed") /\ lastRun' = lastRun
  BY DEF Unblock
<1>6. RowsKept
  BY <1>4, <1>5, PutLeaveKept DEF IInv, Outcomes
<1>7. QED BY <1>6, SameTickRest DEF Unblock, IInv

LEMMA PromoteKept ==
  ASSUME IInv, NEW t \in Tasks, Promote(t)
  PROVE  RowsKept /\ Rest'
<1> DEFINE x == [task[t] EXCEPT !.status = "ready"]
<1>1. task[t] \in Task /\ "ready" \in Statuses
  BY RowTypes, StatusTypes DEF IInv
<1>2. x \in Task /\ x.run = task[t].run /\ x.status = "ready" /\ x.resume = task[t].resume
  BY <1>1 DEF Task
<1>3. Free(x) => Free(task[t])
  BY <1>2 DEF Free, Promote
<1>4. RowsKept
  BY <1>2, <1>3, PutStayKept DEF IInv, Promote
<1>5. QED BY <1>4, SameTickRest DEF Promote, IInv

LEMMA SpecifyKept ==
  ASSUME IInv, NEW t \in Tasks, Specify(t)
  PROVE  RowsKept /\ Rest'
<1> DEFINE x == [task[t] EXCEPT !.status = "todo"]
           T == [task EXCEPT ![t] = x]
<1>1. task[t] \in Task /\ "todo" \in Statuses /\ task \in [Tasks -> Task]
  BY RowTypes, StatusTypes DEF IInv
<1>2. x \in Task /\ x.run = task[t].run /\ x.status = "todo" /\ x.resume = task[t].resume
  BY <1>1 DEF Task
<1>3. Free(x) => Free(task[t])
  BY <1>2 DEF Free, Specify
<1>4. RowsTo(T, run)
  BY <1>2, <1>3, StayKept DEF IInv
<1>5. task' = Recomputed(T, gated, DefaultLimit) /\ UNCHANGED <<run, lastRun>>
  BY <1>1 DEF Specify
<1>6. RowsKept
  BY <1>4, <1>5, PromotionKept DEF RowsKept
<1>7. QED BY <1>6, SameTickRest DEF Specify, IInv

LEMMA LinkKept ==
  ASSUME IInv, NEW t \in Tasks, Link(t)
  PROVE  RowsKept /\ Rest'
<1> DEFINE x == [task[t] EXCEPT !.status = "todo"]
<1>1. task[t] \in Task /\ "todo" \in Statuses
  BY RowTypes, StatusTypes DEF IInv
<1>2. x \in Task /\ x.run = task[t].run /\ x.status = "todo" /\ x.resume = task[t].resume
  BY <1>1 DEF Task
<1>3. CASE task[t].status = "ready"
  <2>1. Put(t, x)
    BY <1>3 DEF Link
  <2>2. Free(x) => Free(task[t])
    BY <1>2, <1>3 DEF Free
  <2>3. RowsKept
    BY <1>2, <2>1, <2>2, PutStayKept DEF IInv, Link
  <2>4. QED BY <2>3 DEF IInv, Rest, Link
<1>4. CASE task[t].status # "ready"
  BY <1>4, SameRowsKept DEF IInv, Rest, Link
<1>5. QED BY <1>3, <1>4

LEMMA ParentsDoneKept ==
  ASSUME IInv, NEW t \in Tasks, ParentsDone(t)
  PROVE  RowsKept /\ Rest'
<1>1. RowsTo(task, run)
  BY WorkersKept DEF IInv, Rows
<1>2. RowsKept
  BY <1>1, PromotionKept DEF ParentsDone, RowsKept
<1>3. QED BY <1>2 DEF ParentsDone, IInv, Rest

\* Only whether the claim of a running task has expired.
LEMMA ExpiryKept ==
  ASSUME IInv, NEW t \in Tasks, NEW e \in BOOLEAN,
         Put(t, [task[t] EXCEPT !.expired = e]), UNCHANGED <<run, lastRun>>
  PROVE  RowsKept
<1> DEFINE x == [task[t] EXCEPT !.expired = e]
<1>1. task[t] \in Task
  BY RowTypes DEF IInv
<1>2. /\ x \in Task /\ x.run = task[t].run /\ x.status = task[t].status
      /\ x.lock = task[t].lock /\ x.resume = task[t].resume
  BY <1>1 DEF Task
<1>3. QED BY <1>2, PutStayKept DEF Free, IInv

LEMMA ClaimExpiresKept ==
  ASSUME IInv, NEW t \in Tasks, ClaimExpires(t)
  PROVE  RowsKept /\ Rest'
BY ExpiryKept, SameTickRest DEF ClaimExpires, IInv

LEMMA HeartbeatKept ==
  ASSUME IInv, NEW r \in RunIds, Heartbeat(r)
  PROVE  RowsKept /\ Rest'
<1> DEFINE t == run[r].task
<1>1. CASE t \in Tasks
  BY <1>1, ExpiryKept, SameTickRest DEF Heartbeat, IInv
<1>2. CASE t \notin Tasks
  <2>1. UNCHANGED <<task, run, lastRun>>
    BY <1>2 DEF Heartbeat, Put, IInv, Rows
  <2>2. QED BY <2>1, SameRowsKept, SameTickRest DEF Heartbeat, IInv
<1>3. QED BY <1>1, <1>2

LEMMA WorkerExitKept ==
  ASSUME IInv, NEW r \in RunIds, WorkerExit(r)
  PROVE  RowsKept /\ Rest'
<1>1. PICK how \in {"clean", "rate", "failed"} : run' = [run EXCEPT ![r].worker = how]
  BY DEF WorkerExit
<1>2. run' \in [RunIds -> Run]
      /\ \A q \in RunIds : run'[q].task = run[q].task /\ run'[q].outcome = run[q].outcome
  BY <1>1 DEF IInv, Rows, Run, Workers
<1>3. RowsKept
  BY <1>2, WorkerStepKept DEF WorkerExit, IInv
<1>4. QED BY <1>3, SameTickRest DEF WorkerExit, IInv

\* The process of a claim is killed, or not.
LEMMA KilledKept ==
  ASSUME Rows, NEW i, NEW survives \in BOOLEAN, Killed(i, survives), UNCHANGED <<task, lastRun>>
  PROVE  RowsKept
<1>1. run' \in [RunIds -> Run]
      /\ \A q \in RunIds : run'[q].task = run[q].task /\ run'[q].outcome = run[q].outcome
  BY DEF Killed, Rows, Run, Workers
<1>2. QED BY <1>1, WorkerStepKept

LEMMA ReclaimStartKept ==
  ASSUME IInv, NEW t \in Tasks, ReclaimStart(t)
  PROVE  RowsKept /\ Rest'
<1>1. RowsKept
  BY KilledKept DEF ReclaimStart, IInv
<1>2. task[t].lock \in Lock
  BY RowTypes DEF IInv, Task
<1>3. QED BY <1>1, <1>2 DEF ReclaimStart, IInv, Rest, ReclaimSteps

LEMMA NoReclaimTyped ==
  NoReclaim \in [pc : ReclaimSteps, task : Tasks \cup {None}, lock : Lock]
BY BoundAssumption DEF NoReclaim, ReclaimSteps, NoLock, Lock

LEMMA ReclaimReleaseKept ==
  ASSUME IInv, ReclaimRelease
  PROVE  RowsKept /\ Rest'
<1> DEFINE t == reclaim.task
           x == [Ended(t, RetryStatus(t)) EXCEPT !.resume = RetryStatus(t)]
<1>1. t \in Tasks
  BY DEF ReclaimRelease, IInv, Rest
<1>2. CASE /\ Put(t, x) /\ run' = EndRun(t, "reclaimed")
           /\ reclaim' = [reclaim EXCEPT !.pc = "clear"]
  <2>1. RetryStatus(t) \in Phases /\ RetryStatus(t) \in Statuses /\ RetryStatus(t) # "running"
    BY <1>1, RowTypes, StatusTypes DEF IInv, Phases
  <2>2. x \in Task /\ x.run = 0 /\ x.status = RetryStatus(t)
    BY <1>1, <2>1, ResumeFacts DEF IInv
  <2>3. RowsKept
    BY <1>1, <1>2, <2>1, <2>2, PutLeaveKept DEF IInv, Outcomes, ReclaimRelease
  <2>4. QED BY <1>1, <1>2, <2>3 DEF IInv, Rest, ReclaimRelease, ReclaimSteps
<1>3. CASE reclaim' = NoReclaim /\ UNCHANGED <<task, run>>
  <2>1. RowsKept
    BY <1>3, SameRowsKept DEF IInv, ReclaimRelease
  <2>2. QED BY <1>3, <2>1, NoReclaimTyped DEF IInv, Rest, ReclaimRelease, NoReclaim
<1>4. QED BY <1>2, <1>3 DEF ReclaimRelease

LEMMA ReclaimClearKept ==
  ASSUME IInv, ReclaimClear
  PROVE  RowsKept /\ Rest'
<1> DEFINE t == reclaim.task
           x == [task[t] EXCEPT !.failures = 0]
<1>1. t \in Tasks
  BY DEF ReclaimClear, IInv, Rest
<1>2. task[t] \in Task
  BY <1>1, RowTypes DEF IInv
<1>3. /\ x \in Task /\ x.run = task[t].run /\ x.status = task[t].status
      /\ x.lock = task[t].lock /\ x.resume = task[t].resume
  BY <1>2 DEF Task
<1>4. RowsKept
  BY <1>1, <1>3, PutStayKept DEF Free, IInv, ReclaimClear
<1>5. QED BY <1>1, <1>4, SpentKept, NoReclaimTyped DEF IInv, Rest, ReclaimClear, NoReclaim

LEMMA ManualClaimKept ==
  ASSUME IInv, NEW t \in Tasks, ManualClaim(t)
  PROVE  Rows' /\ Rest'
<1> DEFINE lock == [by |-> "command", id |-> lastRun + 1]
<1>1. CASE ClaimTask(t, lock)
  <2>1. lock \in Lock /\ lock # NoLock
    BY <1>1, BoundAssumption DEF ClaimTask, StartRun, Lock, NoLock, IInv, Rows
  <2>2. QED BY <1>1, <2>1, ClaimTaskKept, SameTickRest DEF ManualClaim, IInv
<1>2. CASE ClaimRefused(t)
  BY <1>2, RefusedKept, RowsKeptIsEnough, SameTickRest DEF ManualClaim, IInv
<1>3. QED BY <1>1, <1>2 DEF ManualClaim

-----------------------------------------------------------------------------
\* The dispatcher.

LEMMA IdleTickTyped == TickOK(IdleTick)
BY NoItemTyped DEF TickOK, IdleTick, TickSteps

LEMMA TickStartKept ==
  ASSUME IInv, TickStart
  PROVE  RowsKept /\ Rest'
<1>1. \A i \in ExpiredClaims : i \in Item /\ i.task \in Tasks
  BY ReadTyped DEF ExpiredClaims, Running, IInv
<1>2. TickOK(tick')
  BY <1>1, NoItemTyped DEF TickStart, StepList, IdleTick, TickOK, TickSteps
<1>3. QED BY <1>2, SameRowsKept, TickRest DEF TickStart, IInv

LEMMA StaleExtendedKept ==
  ASSUME IInv, StaleExtended
  PROVE  RowsKept /\ Rest'
<1>1. PICK i \in tick.list :
        /\ tick' = [tick EXCEPT !.list = @ \ {i}]
        /\ IF SameClaim(i) THEN Put(i.task, [task[i.task] EXCEPT !.expired = FALSE])
                           ELSE UNCHANGED task
  BY DEF StaleExtended
<1>2. i.task \in Tasks
  BY DEF IInv, Rest, TickOK
<1>3. TickOK(tick')
  BY <1>1 DEF IInv, Rest, TickOK
<1>4. RowsKept
  BY <1>1, <1>2, ExpiryKept, SameRowsKept DEF StaleExtended, IInv
<1>5. QED BY <1>3, <1>4, TickRest DEF StaleExtended, IInv

LEMMA StaleKilledKept ==
  ASSUME IInv, StaleKilled
  PROVE  RowsKept /\ Rest'
<1>1. PICK i \in tick.list, survives \in BOOLEAN :
        /\ Killed(i, survives)
        /\ tick' = [tick EXCEPT !.pc = "staleKilled", !.list = @ \ {i},
                                !.item = [i EXCEPT !.survived = survives]]
  BY DEF StaleKilled
<1>2. i \in Item /\ i.task \in Tasks
  BY DEF IInv, Rest, TickOK
<1>3. [i EXCEPT !.survived = survives] \in Item /\ [i EXCEPT !.survived = survives].task = i.task
  BY <1>2 DEF Item
<1>4. TickOK(tick')
  BY <1>1, <1>2, <1>3 DEF IInv, Rest, TickOK, TickSteps
<1>5. RowsKept
  BY <1>1, KilledKept DEF StaleKilled, IInv
<1>6. QED BY <1>4, <1>5, TickRest DEF StaleKilled, IInv

\* The run of t ends and t goes back to the phase it was claimed from.
LEMMA ReleaseKept ==
  ASSUME Rows, NEW t \in Tasks, NEW o \in Outcomes \ {"open"},
         Put(t, [Ended(t, RetryStatus(t)) EXCEPT !.resume = RetryStatus(t)]),
         run' = EndRun(t, o), lastRun' = lastRun
  PROVE  RowsKept
<1> DEFINE x == [Ended(t, RetryStatus(t)) EXCEPT !.resume = RetryStatus(t)]
<1>1. RetryStatus(t) \in Phases /\ RetryStatus(t) \in Statuses /\ RetryStatus(t) # "running"
  BY RowTypes, StatusTypes DEF Phases
<1>2. x \in Task /\ x.run = 0 /\ x.status = RetryStatus(t)
  BY <1>1, ResumeFacts
<1>3. QED BY <1>1, <1>2, PutLeaveKept

LEMMA StaleReleasedKept ==
  ASSUME IInv, StaleReleased
  PROVE  RowsKept /\ Rest'
<1> DEFINE t == tick.item.task
<1>1. t \in Tasks /\ lastRun' = lastRun /\ Rows
  BY DEF StaleReleased, IInv, Rest, TickOK
<1>2. ASSUME Put(t, [task[t] EXCEPT !.expired = FALSE]), UNCHANGED run
      PROVE  RowsKept
  BY <1>1, <1>2, ExpiryKept
<1>3. ASSUME Put(t, [Ended(t, RetryStatus(t)) EXCEPT !.resume = RetryStatus(t)]),
             run' = EndRun(t, "reclaimed")
      PROVE  RowsKept
  BY <1>1, <1>3, ReleaseKept DEF Outcomes
<1>4. ASSUME UNCHANGED <<task, run>>
      PROVE  RowsKept
  BY <1>1, <1>4, SameRowsKept
<1>5. RowsKept
  BY <1>2, <1>3, <1>4 DEF StaleReleased
<1>6. TickOK(tick')
  BY StepTyped, NoItemTyped DEF StaleReleased, IInv, Rest, TickSteps
<1>7. QED BY <1>5, <1>6, TickRest DEF StaleReleased, IInv

LEMMA ExitTyped ==
  ASSUME NEW t \in Tasks
  PROVE  ExitOf(t) \in {"violation", "rate", "failed"}
BY DEF ExitOf

LEMMA CrashedReleasedKept ==
  ASSUME IInv, CrashedReleased
  PROVE  RowsKept /\ Rest'
<1>0. task \in [Tasks -> Task] /\ run \in [RunIds -> Run] /\ lastRun' = lastRun
  BY DEF IInv, Rows, CrashedReleased
<1>1. ASSUME NEW t \in Tasks
      PROVE  /\ t \notin Dead => task'[t] = task[t]
             /\ t \in Dead => task'[t] \in Task /\ task'[t].run = 0 /\ task'[t].status # "running"
  <2>1. RetryStatus(t) \in Phases /\ RetryStatus(t) \in Statuses /\ RetryStatus(t) # "running"
    BY RowTypes, StatusTypes DEF Phases, IInv
  <2>2. /\ Ended(t, RetryStatus(t)) \in Task /\ Ended(t, RetryStatus(t)).run = 0
        /\ Ended(t, RetryStatus(t)).status = RetryStatus(t)
    BY <2>1, EndedFacts DEF IInv
  <2>3. LET x == [Ended(t, RetryStatus(t)) EXCEPT !.resume = RetryStatus(t)]
        IN  x \in Task /\ x.run = 0 /\ x.status = RetryStatus(t)
    BY <2>1, ResumeFacts DEF IInv
  <2>4. QED BY <2>1, <2>2, <2>3 DEF CrashedReleased
<1>2. task' \in [Tasks -> Task]
  BY <1>0, <1>1 DEF CrashedReleased
<1>3. ASSUME NEW r \in RunIds
      PROVE  /\ run'[r] \in Run /\ run'[r].task = run[r].task
             /\ (\E t \in Dead : task[t].run = r) => ~IsOpen(run'[r])
             /\ ~(\E t \in Dead : task[t].run = r) => run'[r] = run[r]
             /\ IsOpen(run'[r]) => IsOpen(run[r])
  <2>1. CASE run[r].outcome = "open" /\ \E t \in Dead : task[t].run = r
    <3>1. PICK t \in Tasks : run'[r] = [run[r] EXCEPT !.outcome = ExitOf(t)]
      BY <2>1 DEF CrashedReleased, Dead, Running
    <3>2. ExitOf(t) \in Outcomes \ {"open"}
      BY ExitTyped DEF Outcomes
    <3>3. QED BY <1>0, <2>1, <3>1, <3>2 DEF Run, IsOpen
  <2>2. CASE ~(run[r].outcome = "open" /\ \E t \in Dead : task[t].run = r)
    <3>1. run'[r] = run[r]
      BY <2>2 DEF CrashedReleased
    <3>2. QED BY <1>0, <2>2, <3>1 DEF IsOpen
  <2>3. QED BY <2>1, <2>2
<1>4. run' \in [RunIds -> Run]
  BY <1>0, <1>3 DEF CrashedReleased
<1>5. ASSUME NEW t \in Tasks PROVE Leaves(t, task', run') \/ Stays(t, task', run')
  <2>1. task[t].run # 0 => task[t].run \in RunIds
    BY RowTypes DEF IInv
  <2>2. CASE t \in Dead
    BY <1>1, <1>3, <2>1, <2>2 DEF Leaves
  <2>3. CASE t \notin Dead
    <3>1. task'[t] = task[t]
      BY <1>1, <2>3
    <3>2. task[t].run # 0 => ~\E u \in Dead : task[u].run = task[t].run
      BY <2>3 DEF IInv, Rows, Own, Dead, Running
    <3>3. task[t].status = "running" => task[t].lock # NoLock /\ task[t].run # 0
      BY DEF IInv, Rows, RunsMatchClaims, Running
    <3>4. QED BY <1>3, <2>1, <3>1, <3>2, <3>3 DEF Stays, IInv, Rows, FreeClosed
  <2>4. QED BY <2>2, <2>3
<1>6. RowsKept
  BY <1>0, <1>2, <1>3, <1>4, <1>5 DEF RowsKept, RowsTo
<1>7. TickOK(tick')
  <2>1. {[task |-> t, violation |-> ExitOf(t) = "violation"] :
           t \in {u \in Dead : ExitOf(u) # "rate"}}
        \subseteq [task : Tasks, violation : BOOLEAN]
    <3>1. ASSUME NEW t \in Tasks, NEW v \in BOOLEAN
          PROVE  [task |-> t, violation |-> v] \in [task : Tasks, violation : BOOLEAN]
      OBVIOUS
    <3>2. ASSUME NEW t \in Tasks
          PROVE  [task |-> t, violation |-> ExitOf(t) = "violation"]
                   \in [task : Tasks, violation : BOOLEAN]
      <4>1. (ExitOf(t) = "violation") \in BOOLEAN
        OBVIOUS
      <4>2. QED BY <3>1, <4>1, Zenon
    <3>3. QED BY <3>2, Zenon DEF Dead, Running
  <2>2. QED BY <2>1, NoItemTyped DEF CrashedReleased, IdleTick, TickOK, TickSteps
<1>8. QED BY <1>6, <1>7, TickRest DEF CrashedReleased, IInv

LEMMA RecordFailureKept ==
  ASSUME Rows, NEW t \in Tasks, NEW force \in BOOLEAN, NEW p \in Phases,
         RecordFailure(t, force, p), UNCHANGED <<run, lastRun>>
  PROVE  RowsKept
<1>1. task[t] \in Task /\ "blocked" \in Statuses
  BY RowTypes, StatusTypes
<1>2. CASE Put(t, [task[t] EXCEPT !.failures = @ + 1])
  <2> DEFINE x == [task[t] EXCEPT !.failures = @ + 1]
  <2>1. /\ x \in Task /\ x.run = task[t].run /\ x.status = task[t].status
        /\ x.lock = task[t].lock /\ x.resume = task[t].resume
    BY <1>1 DEF Task
  <2>2. QED BY <1>2, <2>1, PutStayKept DEF Free
<1>3. CASE Put(t, [task[t] EXCEPT !.status = "blocked", !.failures = @ + 1, !.resume = p])
  <2> DEFINE x == [task[t] EXCEPT !.status = "blocked", !.failures = @ + 1, !.resume = p]
  <2>1. x \in Task /\ x.run = task[t].run /\ x.status = "blocked" /\ x.lock = task[t].lock
    <3>1. task[t].failures + 1 \in Nat
      BY <1>1 DEF Task
    <3>2. QED BY <1>1, <3>1 DEF Task
  <2>2. QED BY <1>3, <2>1, PutStayKept DEF Free
<1>4. CASE Put(t, [task[t] EXCEPT !.resume = p])
  <2> DEFINE x == [task[t] EXCEPT !.resume = p]
  <2>1. /\ x \in Task /\ x.run = task[t].run /\ x.status = task[t].status
        /\ x.lock = task[t].lock
    BY <1>1 DEF Task
  <2>2. QED BY <1>4, <2>1, PutStayKept DEF Free
<1>5. QED BY <1>2, <1>3, <1>4 DEF RecordFailure

LEMMA PhaseTyped ==
  ASSUME IInv
  PROVE  tick.item.phase \in Phases /\ \A t : PhaseNow(t) \in Phases
BY DEF IInv, Rest, TickOK, Item, PhaseNow, Phases

LEMMA CrashAccountedKept ==
  ASSUME IInv, CrashAccounted
  PROVE  RowsKept /\ Rest'
<1>1. PICK p \in tick.pending :
        /\ tick' = [tick EXCEPT !.pending = @ \ {p}]
        /\ UNCHANGED task \/ RecordFailure(p.task, p.violation, PhaseNow(p.task))
  BY DEF CrashAccounted
<1>2. p.task \in Tasks /\ p.violation \in BOOLEAN
  BY DEF IInv, Rest, TickOK
<1>3. TickOK(tick')
  BY <1>1 DEF IInv, Rest, TickOK
<1>4. RowsKept
  BY <1>1, <1>2, PhaseTyped, RecordFailureKept, SameRowsKept DEF CrashAccounted, IInv
<1>5. QED BY <1>3, <1>4, TickRest DEF CrashAccounted, IInv

LEMMA TimeoutKilledKept ==
  ASSUME IInv, TimeoutKilled
  PROVE  RowsKept /\ Rest'
<1>1. PICK t \in Tasks, survives \in BOOLEAN :
        Killed(Read(t), survives) /\ StepWith("timeoutKilled", Read(t))
  BY DEF TimeoutKilled, Running
<1>2. RowsKept
  BY <1>1, KilledKept DEF TimeoutKilled, IInv
<1>3. Read(t) \in Item /\ Read(t).task \in Tasks
  BY ReadTyped DEF IInv
<1>4. TickOK(tick')
  BY <1>1, <1>3, StepTyped DEF IInv, Rest, TickSteps
<1>5. QED BY <1>2, <1>4, TickRest DEF TimeoutKilled, IInv

LEMMA TimeoutReleasedKept ==
  ASSUME IInv, TimeoutReleased
  PROVE  RowsKept /\ Rest'
<1> DEFINE i == tick.item
           t == tick.item.task
<1>1. t \in Tasks /\ i \in Item /\ lastRun' = lastRun /\ Rows
  BY DEF TimeoutReleased, IInv, Rest, TickOK
<1>2. CASE /\ Put(t, [Ended(t, RetryStatus(t)) EXCEPT !.resume = RetryStatus(t)])
           /\ run' = EndRun(t, "failed")
           /\ StepWith("timeoutAccount", [i EXCEPT !.phase = RetryStatus(t)])
           /\ Spend(OpenRunsOf({t}))
  <2>1. RowsKept
    BY <1>1, <1>2, ReleaseKept DEF Outcomes
  <2>2. TickOK(tick')
    <3> DEFINE j == [i EXCEPT !.phase = RetryStatus(t)]
    <3>1. j \in Item /\ j.task = t
      BY <1>1, RowTypes DEF Item
    <3>2. QED BY <1>1, <1>2, <3>1, StepTyped DEF IInv, Rest, TickSteps
  <2>3. QED BY <1>2, <2>1, <2>2, TickRest DEF TimeoutReleased, IInv
<1>3. CASE Step("account") /\ UNCHANGED <<task, run, spent>>
  <2>1. RowsKept
    BY <1>1, <1>3, SameRowsKept
  <2>2. TickOK(tick')
    BY <1>3, StepTyped, NoItemTyped DEF IInv, Rest, TickSteps
  <2>3. QED BY <1>3, <2>1, <2>2, TickRest DEF TimeoutReleased, IInv
<1>4. QED BY <1>2, <1>3 DEF TimeoutReleased

LEMMA TimeoutAccountedKept ==
  ASSUME IInv, TimeoutAccounted
  PROVE  RowsKept /\ Rest'
<1>1. tick.item.task \in Tasks
  BY DEF TimeoutAccounted, IInv, Rest, TickOK
<1>2. RowsKept
  BY <1>1, PhaseTyped, RecordFailureKept DEF TimeoutAccounted, IInv
<1>3. TickOK(tick')
  BY StepTyped, NoItemTyped DEF TimeoutAccounted, IInv, Rest, TickSteps
<1>4. QED BY <1>2, <1>3, TickRest DEF TimeoutAccounted, IInv

LEMMA PromotedKept ==
  ASSUME IInv, Promoted
  PROVE  RowsKept /\ Rest'
<1>1. RowsTo(task, run)
  BY WorkersKept DEF IInv, Rows
<1>2. RowsKept
  BY <1>1, PromotionKept DEF Promoted, RowsKept
<1>3. TickOK(tick')
  BY StepTyped, NoItemTyped DEF Promoted, IInv, Rest, TickSteps
<1>4. QED BY <1>2, <1>3, TickRest DEF Promoted, IInv

LEMMA DispatcherLockTyped ==
  ASSUME Rest
  PROVE  DispatcherLock \in Lock /\ DispatcherLock # NoLock
BY BoundAssumption DEF Rest, DispatcherLock, Lock, NoLock

\* The item of a claim that was just made.
LEMMA ClaimedTick ==
  ASSUME IInv, NEW t \in Tasks, lastRun < MaxRuns,
         StepWith("claimed", [NoItem EXCEPT !.task = t, !.pid = lastRun + 1])
  PROVE  TickOK(tick')
<1>1. lastRun + 1 \in 0..MaxRuns
  BY BoundAssumption DEF IInv, Rows
<1>2. [NoItem EXCEPT !.task = t, !.pid = lastRun + 1] \in Item
      /\ [NoItem EXCEPT !.task = t, !.pid = lastRun + 1].task = t
  BY <1>1, NoItemTyped DEF Item
<1>3. QED BY <1>2, StepTyped DEF IInv, Rest, TickSteps

LEMMA DispatchedReadyKept ==
  ASSUME IInv, DispatchedReady
  PROVE  Rows' /\ Rest'
<1>1. PICK t \in Tasks :
        \/ /\ ClaimTask(t, DispatcherLock)
           /\ StepWith("claimed", [NoItem EXCEPT !.task = t, !.pid = lastRun + 1])
        \/ ClaimRefused(t) /\ UNCHANGED tick
  BY DEF DispatchedReady
<1>2. CASE ClaimTask(t, DispatcherLock)
           /\ StepWith("claimed", [NoItem EXCEPT !.task = t, !.pid = lastRun + 1])
  <2>1. TickOK(tick')
    BY <1>2, ClaimedTick DEF ClaimTask, StartRun
  <2>2. QED BY <1>2, <2>1, ClaimTaskKept, DispatcherLockTyped, TickRest DEF DispatchedReady, IInv
<1>3. CASE ClaimRefused(t) /\ UNCHANGED tick
  BY <1>3, RefusedKept, RowsKeptIsEnough, SameTickRest DEF DispatchedReady, IInv
<1>4. QED BY <1>1, <1>2, <1>3

LEMMA DispatchedReviewKept ==
  ASSUME IInv, DispatchedReview
  PROVE  Rows' /\ Rest'
<1>1. PICK t \in Tasks :
        \/ /\ ClaimReviewTask(t, DispatcherLock)
           /\ StepWith("claimed", [NoItem EXCEPT !.task = t, !.pid = lastRun + 1])
        \/ ReviewRefused(t) /\ UNCHANGED tick
  BY DEF DispatchedReview
<1>2. CASE ClaimReviewTask(t, DispatcherLock)
           /\ StepWith("claimed", [NoItem EXCEPT !.task = t, !.pid = lastRun + 1])
  <2>1. TickOK(tick')
    BY <1>2, ClaimedTick DEF ClaimReviewTask, StartRun
  <2>2. QED BY <1>2, <2>1, ClaimReviewKept, DispatcherLockTyped, TickRest
            DEF DispatchedReview, IInv
<1>3. CASE ReviewRefused(t) /\ UNCHANGED tick
  BY <1>3, RefusedKept, RowsKeptIsEnough, SameTickRest DEF DispatchedReview, IInv
<1>4. QED BY <1>1, <1>2, <1>3

LEMMA SpawnedKept ==
  ASSUME IInv, Spawned
  PROVE  RowsKept /\ Rest'
<1>1. run' \in [RunIds -> Run]
      /\ \A q \in RunIds : run'[q].task = run[q].task /\ run'[q].outcome = run[q].outcome
  BY DEF Spawned, IInv, Rows, Run, Workers
<1>2. RowsKept
  BY <1>1, WorkerStepKept DEF Spawned, IInv
<1>3. TickOK(tick')
  BY DEF Spawned, IInv, Rest, TickOK, TickSteps
<1>4. QED BY <1>2, <1>3, TickRest DEF Spawned, IInv

LEMMA PidRecordedKept ==
  ASSUME IInv, PidRecorded
  PROVE  RowsKept /\ Rest'
<1> DEFINE t == tick.item.task
           x == [task[t] EXCEPT !.pid = tick.item.pid]
<1>1. t \in Tasks /\ tick.item.pid \in 0..MaxRuns
  BY DEF PidRecorded, IInv, Rest, TickOK, Item
<1>2. task[t] \in Task
  BY <1>1, RowTypes DEF IInv
<1>3. /\ x \in Task /\ x.run = task[t].run /\ x.status = task[t].status
      /\ x.lock = task[t].lock /\ x.resume = task[t].resume
  BY <1>1, <1>2 DEF Task
<1>4. RowsKept
  BY <1>1, <1>3, PutStayKept DEF Free, IInv, PidRecorded
<1>5. TickOK(tick')
  BY StepTyped, NoItemTyped DEF PidRecorded, IInv, Rest, TickSteps
<1>6. QED BY <1>4, <1>5, TickRest DEF PidRecorded, IInv

LEMMA SpawnFailedKept ==
  ASSUME IInv, SpawnFailed
  PROVE  RowsKept /\ Rest'
<1> DEFINE t == tick.item.task
           trips == task[t].failures + 1 >= FailureLimit
           moves == task[t].status \in (IF trips THEN {"running", "ready", "review"}
                                                 ELSE {"running"})
           s == IF trips THEN "blocked" ELSE RetryStatus(t)
           moved == [Unclaimed(task[t], s) EXCEPT !.failures = @ + 1]
           y == IF moves THEN moved ELSE task[t]
           x == [y EXCEPT !.run = 0, !.resume = RetryStatus(t)]
<1>1. t \in Tasks /\ lastRun' = lastRun /\ Rows
  BY DEF SpawnFailed, IInv, Rest, TickOK
<1>2. task[t] \in Task /\ RetryStatus(t) \in Phases
  BY <1>1, RowTypes
<1>3. s \in Statuses /\ s # "running"
  BY <1>2, StatusTypes DEF Phases
<1>4. moved \in Task /\ moved.status = s
  <2>1. Unclaimed(task[t], s) \in Task /\ Unclaimed(task[t], s).status = s
    BY <1>2, <1>3, UnclaimedFacts
  <2>2. QED BY <2>1 DEF Task
<1>5. y \in Task /\ y.status # "running"
  BY <1>2, <1>3, <1>4
<1>6. 0 \in 0..MaxRuns
  BY BoundAssumption
<1>7. x \in Task /\ x.run = 0 /\ x.status # "running"
  BY <1>2, <1>5, <1>6 DEF Task
<1>8. Put(t, x) /\ run' = EndRun(t, "failed") /\ Spend(OpenRunsOf({t})) /\ Step("spawn")
      /\ UNCHANGED <<gated, boots, reclaim>>
  BY DEF SpawnFailed
<1>9. RowsKept
  BY <1>1, <1>7, <1>8, PutLeaveKept DEF Outcomes
<1>10. TickOK(tick')
  BY <1>8, StepTyped, NoItemTyped DEF IInv, Rest, TickSteps
<1>11. QED BY <1>8, <1>9, <1>10, TickRest DEF IInv

LEMMA TickEndKept ==
  ASSUME IInv, TickEnd
  PROVE  RowsKept /\ Rest'
BY IdleTickTyped, SameRowsKept, TickRest DEF TickEnd, IInv

LEMMA DispatcherCrashKept ==
  ASSUME IInv, DispatcherCrash
  PROVE  RowsKept /\ Rest'
<1>1. ASSUME NEW r \in RunIds
      PROVE  run'[r] \in Run /\ run'[r].task = run[r].task /\ run'[r].outcome = run[r].outcome
  <2>1. PICK w \in Workers : run'[r] = [run[r] EXCEPT !.worker = w]
    <3>1. run[r].worker \in Workers
      BY DEF IInv, Rows, Run
    <3>2. QED BY <3>1 DEF DispatcherCrash, Workers
  <2>2. QED BY <2>1 DEF IInv, Rows, Run
<1>2. run' \in [RunIds -> Run]
  BY <1>1 DEF DispatcherCrash
<1>3. RowsKept
  BY <1>1, <1>2, WorkerStepKept DEF DispatcherCrash, IInv
<1>4. boots' \in 1..MaxBoots
  BY BoundAssumption DEF DispatcherCrash, IInv, Rest
<1>5. QED BY <1>3, <1>4, IdleTickTyped DEF DispatcherCrash, IInv, Rest

-----------------------------------------------------------------------------
\* The invariant.

LEMMA InitInv == Init => IInv
<1> SUFFICES ASSUME Init PROVE IInv
  OBVIOUS
<1>1. gated \subseteq Tasks
  BY DEF Init
<1>2. NoLock \in Lock /\ 0 \in 0..MaxRuns
  BY BoundAssumption DEF NoLock, Lock
<1>3. \A s \in NewStatuses : /\ NewTask(s) \in Task /\ NewTask(s).run = 0
                              /\ NewTask(s).status # "running"
  BY <1>2 DEF NewTask, NewStatuses, Task, Statuses, Phases
<1>4. NoRun \in Run /\ NoRun.task = None /\ ~IsOpen(NoRun)
  BY <1>2 DEF NoRun, Run, Phases, Outcomes, Workers, IsOpen
<1>5. PICK status \in [Tasks -> NewStatuses] :
        task = [t \in Tasks |-> NewTask(status[t])] /\ run = [r \in RunIds |-> NoRun] /\ lastRun = 0
  BY DEF Init
<1>6. \A t \in Tasks : task[t] = NewTask(status[t]) /\ status[t] \in NewStatuses
  BY <1>5
<1>7. \A r \in RunIds : run[r] = NoRun
  BY <1>5
<1>8. task \in [Tasks -> Task] /\ run \in [RunIds -> Run] /\ lastRun \in 0..MaxRuns
  BY <1>2, <1>3, <1>4, <1>5
<1>9. RunsMatchClaims
  BY <1>3, <1>4, <1>6, <1>7 DEF RunsMatchClaims, Running, IsOpen
<1>10. Own /\ FreeClosed /\ Fresh
  BY <1>3, <1>4, <1>6, <1>7 DEF Own, FreeClosed, Fresh
<1>11. Rest
  BY <1>1, BoundAssumption, IdleTickTyped, NoReclaimTyped DEF Init, Rest, NoReclaim
<1>12. QED BY <1>8, <1>9, <1>10, <1>11 DEF IInv, Rows

LEMMA NextInv == IInv /\ [Next]_vars => IInv'
<1> SUFFICES ASSUME IInv, [Next]_vars PROVE IInv'
  OBVIOUS
<1>1. ASSUME RowsKept, Rest' PROVE IInv'
  BY <1>1, RowsKeptIsEnough DEF IInv
<1>2. ASSUME Dispatch PROVE IInv'
  <2>1. CASE DispatchedReady
    BY <2>1, DispatchedReadyKept DEF IInv
  <2>2. CASE DispatchedReview
    BY <2>2, DispatchedReviewKept DEF IInv
  <2>3. CASE TickStart \/ StaleExtended \/ StaleKilled \/ StaleReleased \/ CrashedReleased
             \/ CrashAccounted
    BY <1>1, <2>3, TickStartKept, StaleExtendedKept, StaleKilledKept, StaleReleasedKept,
       CrashedReleasedKept, CrashAccountedKept
  <2>4. CASE TimeoutKilled \/ TimeoutReleased \/ TimeoutAccounted \/ Promoted \/ Spawned
             \/ PidRecorded \/ SpawnFailed \/ TickEnd
    BY <1>1, <2>4, TimeoutKilledKept, TimeoutReleasedKept, TimeoutAccountedKept, PromotedKept,
       SpawnedKept, PidRecordedKept, SpawnFailedKept, TickEndKept
  <2>5. QED BY <1>2, <2>1, <2>2, <2>3, <2>4 DEF Dispatch
<1>3. ASSUME NEW t \in Tasks, Operator(t) PROVE IInv'
  <2>1. CASE ManualClaim(t)
    BY <2>1, ManualClaimKept DEF IInv
  <2>2. CASE Unblock(t) \/ Promote(t) \/ ReopenReview(t) \/ Specify(t) \/ Archive(t)
             \/ ReclaimStart(t)
    BY <1>1, <2>2, UnblockKept, PromoteKept, ReopenReviewKept, SpecifyKept, ArchiveKept,
       ReclaimStartKept
  <2>3. QED BY <1>3, <2>1, <2>2 DEF Operator
<1>4. ASSUME NEW t \in Tasks,
             \/ Complete(t) \/ Block(t) \/ RequestReview(t) \/ RequestChanges(t) \/ Schedule(t)
             \/ ClaimExpires(t) \/ Link(t) \/ ParentsDone(t)
      PROVE  IInv'
  BY <1>1, <1>4, CompleteKept, BlockKept, RequestReviewKept, RequestChangesKept, ScheduleKept,
     ClaimExpiresKept, LinkKept, ParentsDoneKept
<1>5. ASSUME NEW r \in RunIds, Heartbeat(r) \/ WorkerExit(r) PROVE IInv'
  BY <1>1, <1>5, HeartbeatKept, WorkerExitKept
<1>6. ASSUME DispatcherCrash \/ ReclaimRelease \/ ReclaimClear PROVE IInv'
  BY <1>1, <1>6, DispatcherCrashKept, ReclaimReleaseKept, ReclaimClearKept
<1>7. CASE UNCHANGED vars
  <2>1. RowsKept
    BY <1>7, SameRowsKept DEF vars, IInv
  <2>2. Rest'
    BY <1>7, SameTickRest DEF vars, IInv
  <2>3. QED BY <1>1, <2>1, <2>2
<1>8. QED BY <1>2, <1>3, <1>4, <1>5, <1>6, <1>7 DEF Next

\* The invariant holds in every reachable state.
THEOREM Invariance == Spec => []IInv
BY InitInv, NextInv, PTL DEF Spec

\* Every variable keeps its type.
THEOREM TypeCorrect == Spec => []TypeOK
<1>1. IInv => TypeOK
  BY DEF IInv, Rows, Rest, TickOK, TypeOK
<1>2. QED BY <1>1, Invariance, PTL

\* Runs and claims match, however the passes of the dispatcher, the workers and
\* the operator overlap, and whenever the dispatcher dies.
THEOREM RunsAlwaysMatch == Spec => []RunsMatchClaims
<1>1. IInv => RunsMatchClaims
  BY DEF IInv, Rows
<1>2. QED BY <1>1, Invariance, PTL

-----------------------------------------------------------------------------
\* NoDuplicateWorker.  release_stale_claims acts on rows it read before it spent
\* seconds on a kill.  The argument is that its comparison of the lock is enough:
\* while the pass runs only a command makes claims, each with a lock of its own,
\* so a task that still has the lock has the process that was killed, or none
\* (Held); and no process starts meanwhile.

CommandLock == [by |-> "command", id |-> lastRun + 1]

Used(lock) == lock.by = "command" => lock.id <= lastRun
Held(i)    == Used(i.lock) /\ (SameClaim(i) => task[i.task].pid \in {i.pid, 0})

\* The locks of tasks and of rows read are old ones, ...
LocksUsed == \A t \in Tasks : Used(task[t].lock)
\* ... and the pass knows the process of every claim it may release.
StaleKnown ==
  /\ tick.pc \in {"stale", "staleKilled"} => \A i \in tick.list : Held(i)
  /\ tick.pc = "staleKilled" =>
       Held(tick.item) /\ (~tick.item.survived => ~Alive(tick.item.pid))

WInv == LocksUsed /\ StaleKnown

-----------------------------------------------------------------------------
\* What a step does to the claim of a task: nothing but to end it, or a new one.

KeepsClaim(t, T) ==
  /\ T[t].lock \in {task[t].lock, NoLock}
  /\ T[t].pid \in {task[t].pid, 0}
  /\ T[t].status = "running" => task[t].status = "running" /\ T[t].lock = task[t].lock
NewClaim(t) ==
  /\ lastRun' = lastRun + 1
  /\ task'[t].lock = CommandLock

NoneStarts == \A r \in RunIds : Alive(r)' => Alive(r)

\* A step of anybody but the dispatcher.
Quiet ==
  /\ tick' = tick
  /\ lastRun' \in {lastRun, lastRun + 1}
  /\ \A t \in Tasks : KeepsClaim(t, task') \/ NewClaim(t)
  /\ NoneStarts

LEMMA HeldKept ==
  ASSUME IInv, NEW i \in Item, i.task \in Tasks, Held(i), lastRun' \in {lastRun, lastRun + 1},
         KeepsClaim(i.task, task') \/ NewClaim(i.task)
  PROVE  Held(i)'
<1>1. lastRun \in Int
  BY DEF IInv, Rows
<1>2. i.lock \in Lock /\ (i.lock.by = "command" => i.lock.id <= lastRun /\ i.lock.id \in Int)
  BY DEF Item, Lock, Held, Used
<1>3. Used(i.lock)'
  BY <1>1, <1>2 DEF Used
<1>4. CASE KeepsClaim(i.task, task')
  BY <1>3, <1>4 DEF KeepsClaim, Held, SameClaim
<1>5. CASE NewClaim(i.task)
  <2>1. task'[i.task].lock # i.lock
    BY <1>1, <1>2, <1>5 DEF NewClaim, CommandLock
  <2>2. QED BY <1>3, <2>1 DEF Held, SameClaim
<1>6. QED BY <1>4, <1>5

LEMMA UsedKept ==
  ASSUME IInv, LocksUsed, lastRun' \in {lastRun, lastRun + 1},
         \A t \in Tasks : \/ task'[t].lock \in {task[t].lock, NoLock}
                          \/ task'[t].lock.by = "dispatcher"
                          \/ NewClaim(t)
  PROVE  LocksUsed'
<1> SUFFICES ASSUME NEW t \in Tasks, task'[t].lock.by = "command"
             PROVE  task'[t].lock.id <= lastRun'
  BY DEF LocksUsed, Used
<1>1. lastRun \in Int /\ task[t].lock \in Lock /\ task[t].lock.id \in Int
  BY DEF IInv, Rows, Task, Lock
<1>2. Used(task[t].lock) /\ NoLock.by # "command"
  BY DEF LocksUsed, NoLock
<1>3. CASE task'[t].lock = task[t].lock
  BY <1>1, <1>2, <1>3 DEF Used
<1>4. CASE NewClaim(t)
  BY <1>1, <1>4 DEF NewClaim, CommandLock
<1>5. QED BY <1>2, <1>3, <1>4

LEMMA QuietKeeps ==
  ASSUME IInv, WInv, Quiet
  PROVE  WInv'
<1>1. tick' = tick /\ TickOK(tick)
  BY DEF Quiet, IInv, Rest
<1>2. LocksUsed'
  BY UsedKept DEF WInv, Quiet, KeepsClaim
<1>3. \A i \in Item : i.task \in Tasks /\ Held(i) => Held(i)'
  BY HeldKept DEF Quiet
<1>4. tick.item.pid \in RunIds => (Alive(tick.item.pid)' => Alive(tick.item.pid))
  BY <1>1 DEF Quiet, NoneStarts, Alive
<1>5. tick.item.pid \in 0..MaxRuns
  BY <1>1 DEF TickOK, Item
<1>6. Alive(tick.item.pid)' => Alive(tick.item.pid)
  BY <1>1, <1>4, <1>5, BoundAssumption DEF RunIds, Alive
<1>7. StaleKnown'
  BY <1>1, <1>3, <1>6 DEF WInv, StaleKnown, TickOK
<1>8. QED BY <1>2, <1>7 DEF WInv

-----------------------------------------------------------------------------
\* The forms of a quiet step.

LEMMA EndedClaim ==
  ASSUME IInv, NEW t \in Tasks, NEW s \in Statuses
  PROVE  Ended(t, s).lock = NoLock /\ Ended(t, s).pid = 0 /\ Ended(t, s).status = s
BY RowTypes DEF Ended, Unclaimed, Task, IInv

LEMMA UnclaimedLock ==
  ASSUME NEW x \in Task, NEW s \in Statuses
  PROVE  Unclaimed(x, s).lock = NoLock
BY DEF Unclaimed, Task

LEMMA PutKeeps ==
  ASSUME IInv, NEW t \in Tasks, NEW x, Put(t, x),
         x.lock \in {task[t].lock, NoLock}, x.pid \in {task[t].pid, 0},
         x.status = "running" => task[t].status = "running" /\ x.lock = task[t].lock
  PROVE  \A u \in Tasks : KeepsClaim(u, task')
BY DEF Put, KeepsClaim, IInv, Rows

LEMMA EndStartsNone ==
  ASSUME IInv, NEW t \in Tasks, NEW o \in Outcomes \ {"open"}, run' = EndRun(t, o)
  PROVE  NoneStarts
<1>1. \A r \in RunIds : run'[r].worker = run[r].worker
  BY EndRunFacts, RowTypes DEF IInv
<1>2. QED BY <1>1 DEF NoneStarts, Alive

LEMMA SameStartsNone ==
  ASSUME run' = run
  PROVE  NoneStarts
BY DEF NoneStarts, Alive

\* A row that ends its run, whatever else it changes.
LEMMA LeaveQuiet ==
  ASSUME IInv, NEW t \in Tasks, NEW x, NEW o \in Outcomes \ {"open"}, Put(t, x),
         x.lock = NoLock, x.pid = 0, x.status # "running", run' = EndRun(t, o),
         UNCHANGED <<tick, lastRun>>
  PROVE  Quiet
BY PutKeeps, EndStartsNone DEF Quiet

\* A row that keeps its claim or is not running.
LEMMA PutQuiet ==
  ASSUME IInv, NEW t \in Tasks, NEW x, Put(t, x),
         x.lock = task[t].lock, x.pid = task[t].pid,
         x.status = "running" => task[t].status = "running",
         UNCHANGED <<tick, lastRun, run>>
  PROVE  Quiet
BY PutKeeps, SameStartsNone DEF Quiet

LEMMA SameQuiet ==
  ASSUME UNCHANGED <<task, tick, lastRun>>, NoneStarts
  PROVE  Quiet
BY DEF Quiet, KeepsClaim

\* Promotion after a change that keeps claims.
LEMMA PromotionKeeps ==
  ASSUME NEW T \in [Tasks -> Task], NEW G, NEW limit, task' = Recomputed(T, G, limit),
         \A t \in Tasks : KeepsClaim(t, T)
  PROVE  \A t \in Tasks : KeepsClaim(t, task')
<1> SUFFICES ASSUME NEW t \in Tasks PROVE KeepsClaim(t, task')
  OBVIOUS
<1>1. T[t] \in Task /\ T[t].resume # "running"
  BY DEF Task, Phases
<1>2. task'[t] = T[t] \/ task'[t] = [T[t] EXCEPT !.status = T[t].resume]
  BY DEF Recomputed
<1>3. /\ task'[t].lock = T[t].lock /\ task'[t].pid = T[t].pid
      /\ task'[t].status = "running" => T[t].status = "running"
  BY <1>1, <1>2 DEF Task
<1>4. QED BY <1>3 DEF KeepsClaim

-----------------------------------------------------------------------------
\* The steps of workers, of the operator and of time.

LEMMA RetryPhase ==
  ASSUME IInv, NEW t \in Tasks
  PROVE  RetryStatus(t) \in Phases /\ RetryStatus(t) \in Statuses /\ RetryStatus(t) # "running"
BY RowTypes, StatusTypes DEF IInv, Phases

LEMMA CompleteQuiet ==
  ASSUME IInv, NEW t \in Tasks, Complete(t)
  PROVE  Quiet
<1> DEFINE x == [Ended(t, "done") EXCEPT !.failures = 0]
           T == [task EXCEPT ![t] = x]
<1>1. x \in Task /\ x.lock = NoLock /\ x.pid = 0 /\ x.status = "done"
  BY EndedFacts, EndedClaim, StatusTypes DEF IInv, Task
<1>2. T \in [Tasks -> Task] /\ \A u \in Tasks : KeepsClaim(u, T)
  BY <1>1 DEF IInv, Rows, KeepsClaim
<1>3. \A u \in Tasks : KeepsClaim(u, task')
  BY <1>2, PromotionKeeps DEF Complete
<1>4. NoneStarts
  BY EndStartsNone DEF Complete, Outcomes
<1>5. QED BY <1>3, <1>4 DEF Complete, Quiet

LEMMA BlockQuiet ==
  ASSUME IInv, NEW t \in Tasks, Block(t)
  PROVE  Quiet
<1>1. PICK s \in {"todo", "blocked"}, x \in Task :
        Put(t, x) /\ x.lock = NoLock /\ x.pid = 0 /\ x.status = s
  <2>1. \A s \in {"todo", "blocked"} :
          Ended(t, s) \in Task /\ Ended(t, s).lock = NoLock /\ Ended(t, s).pid = 0
            /\ Ended(t, s).status = s
    BY EndedFacts, EndedClaim, StatusTypes DEF IInv
  <2>2. BlockSource(t) \in Phases
    BY RetryPhase DEF BlockSource, Phases
  <2>3. CASE Put(t, [Ended(t, "todo") EXCEPT !.resume = BlockSource(t)])
    <3>1. LET x == [Ended(t, "todo") EXCEPT !.resume = BlockSource(t)]
          IN x \in Task /\ x.lock = NoLock /\ x.pid = 0 /\ x.status = "todo"
      BY <2>1, <2>2 DEF Task
    <3>2. QED BY <2>3, <3>1
  <2>4. CASE Put(t, [Ended(t, "blocked") EXCEPT !.resume = BlockSource(t), !.sticky = TRUE])
    <3>1. LET x == [Ended(t, "blocked") EXCEPT !.resume = BlockSource(t), !.sticky = TRUE]
          IN x \in Task /\ x.lock = NoLock /\ x.pid = 0 /\ x.status = "blocked"
      BY <2>1, <2>2 DEF Task
    <3>2. QED BY <2>4, <3>1
  <2>5. QED BY <2>3, <2>4 DEF Block
<1>2. QED BY <1>1, LeaveQuiet DEF Block, Outcomes

LEMMA EndedQuiet ==
  ASSUME IInv, NEW t \in Tasks, NEW s \in Statuses, s # "running",
         NEW o \in Outcomes \ {"open"}, NEW p \in Phases,
         \/ Put(t, Ended(t, s))
         \/ Put(t, [Ended(t, s) EXCEPT !.resume = p]),
         run' = EndRun(t, o), UNCHANGED <<tick, lastRun>>
  PROVE  Quiet
<1>1. Ended(t, s) \in Task /\ Ended(t, s).lock = NoLock /\ Ended(t, s).pid = 0
        /\ Ended(t, s).status = s
  BY EndedFacts, EndedClaim DEF IInv
<1>2. LET x == [Ended(t, s) EXCEPT !.resume = p]
      IN x.lock = NoLock /\ x.pid = 0 /\ x.status = s
  BY <1>1 DEF Task
<1>3. QED BY <1>1, <1>2, LeaveQuiet

LEMMA EndingsQuiet ==
  ASSUME IInv, NEW t \in Tasks,
         RequestReview(t) \/ RequestChanges(t) \/ Schedule(t) \/ ReopenReview(t)
  PROVE  Quiet
<1>1. Landing(t) \in Statuses /\ Landing(t) # "running"
  BY RowTypes, StatusTypes DEF IInv
<1>2. "ready" \in Phases /\ {"review", "scheduled"} \subseteq Statuses
  BY StatusTypes DEF Phases
<1>3. {"finished", "reclaimed"} \subseteq Outcomes \ {"open"}
  BY DEF Outcomes
<1>4. CASE RequestReview(t)
  BY <1>2, <1>3, <1>4, EndedQuiet DEF RequestReview
<1>5. CASE RequestChanges(t)
  BY <1>1, <1>2, <1>3, <1>5, EndedQuiet DEF RequestChanges
<1>6. CASE Schedule(t)
  BY <1>2, <1>3, <1>6, EndedQuiet DEF Schedule
<1>7. CASE ReopenReview(t)
  BY <1>1, <1>2, <1>3, <1>7, EndedQuiet DEF ReopenReview
<1>8. QED BY <1>4, <1>5, <1>6, <1>7

LEMMA ArchiveQuiet ==
  ASSUME IInv, NEW t \in Tasks, Archive(t)
  PROVE  Quiet
<1> DEFINE T == [task EXCEPT ![t] = Ended(t, "archived")]
<1>1. /\ Ended(t, "archived") \in Task /\ Ended(t, "archived").lock = NoLock
      /\ Ended(t, "archived").pid = 0 /\ Ended(t, "archived").status = "archived"
  BY EndedFacts, EndedClaim, StatusTypes DEF IInv
<1>2. T \in [Tasks -> Task] /\ \A u \in Tasks : KeepsClaim(u, T)
  BY <1>1 DEF IInv, Rows, KeepsClaim
<1>3. \A u \in Tasks : KeepsClaim(u, task')
  BY <1>2, PromotionKeeps DEF Archive
<1>4. NoneStarts
  BY EndStartsNone DEF Archive, Outcomes
<1>5. QED BY <1>3, <1>4 DEF Archive, Quiet

LEMMA UnblockQuiet ==
  ASSUME IInv, NEW t \in Tasks, Unblock(t)
  PROVE  Quiet
<1> DEFINE resume == IF task[t].status = "blocked" THEN task[t].resume ELSE "ready"
           x == [task[t] EXCEPT
                   !.status = IF ParentsSatisfied(t) THEN resume ELSE "todo",
                   !.run = 0, !.failures = 0, !.sticky = FALSE, !.resume = resume]
<1>1. task[t] \in Task
  BY RowTypes DEF IInv
<1>2. resume # "running"
  BY <1>1 DEF Task, Phases
<1>3. x.lock = task[t].lock /\ x.pid = task[t].pid /\ x.status # "running"
  BY <1>1, <1>2 DEF Task
<1>4. Put(t, x)
  BY DEF Unblock
<1> HIDE DEF x
<1>5. \A u \in Tasks : KeepsClaim(u, task')
  BY <1>3, <1>4, PutKeeps
<1>6. NoneStarts
  BY EndStartsNone DEF Unblock, Outcomes
<1>7. QED BY <1>5, <1>6 DEF Unblock, Quiet

LEMMA PromoteQuiet ==
  ASSUME IInv, NEW t \in Tasks, Promote(t)
  PROVE  Quiet
<1>1. LET x == [task[t] EXCEPT !.status = "ready"]
      IN x.lock = task[t].lock /\ x.pid = task[t].pid /\ x.status = "ready"
  BY RowTypes DEF IInv, Task
<1>2. QED BY <1>1, PutQuiet DEF Promote

LEMMA SpecifyQuiet ==
  ASSUME IInv, NEW t \in Tasks, Specify(t)
  PROVE  Quiet
<1> DEFINE T == [task EXCEPT ![t].status = "todo"]
<1>1. task \in [Tasks -> Task]
  BY DEF IInv, Rows
<1>2. \A u \in Tasks : /\ T[u] \in Task /\ T[u].lock = task[u].lock /\ T[u].pid = task[u].pid
                       /\ T[u].status = "running" => task[u].status = "running"
  BY <1>1, StatusTypes DEF Task
<1>3. T \in [Tasks -> Task] /\ \A u \in Tasks : KeepsClaim(u, T)
  BY <1>1, <1>2 DEF KeepsClaim
<1>4. \A u \in Tasks : KeepsClaim(u, task')
  BY <1>3, PromotionKeeps DEF Specify
<1>5. QED BY <1>4, SameStartsNone DEF Specify, Quiet

LEMMA LinkQuiet ==
  ASSUME IInv, NEW t \in Tasks, Link(t)
  PROVE  Quiet
<1>1. CASE UNCHANGED task
  BY <1>1, SameQuiet, SameStartsNone DEF Link
<1>2. CASE Put(t, [task[t] EXCEPT !.status = "todo"])
  <2>1. LET x == [task[t] EXCEPT !.status = "todo"]
        IN x.lock = task[t].lock /\ x.pid = task[t].pid /\ x.status = "todo"
    BY RowTypes DEF IInv, Task
  <2>2. QED BY <1>2, <2>1, PutQuiet DEF Link
<1>3. QED BY <1>1, <1>2 DEF Link

LEMMA ParentsDoneQuiet ==
  ASSUME IInv, NEW t \in Tasks, ParentsDone(t)
  PROVE  Quiet
<1>1. task \in [Tasks -> Task] /\ \A u \in Tasks : KeepsClaim(u, task)
  BY DEF IInv, Rows, KeepsClaim
<1>2. \A u \in Tasks : KeepsClaim(u, task')
  BY <1>1, PromotionKeeps DEF ParentsDone
<1>3. QED BY <1>2, SameStartsNone DEF ParentsDone, Quiet

LEMMA ExpiryQuiet ==
  ASSUME IInv, NEW t \in Tasks, NEW e \in BOOLEAN, Put(t, [task[t] EXCEPT !.expired = e]),
         UNCHANGED <<tick, lastRun, run>>
  PROVE  Quiet
<1>1. LET x == [task[t] EXCEPT !.expired = e]
      IN x.lock = task[t].lock /\ x.pid = task[t].pid /\ x.status = task[t].status
  BY RowTypes DEF IInv, Task
<1>2. QED BY <1>1, PutQuiet

LEMMA TimeQuiet ==
  ASSUME IInv,
         \/ \E t \in Tasks : ClaimExpires(t)
         \/ \E r \in RunIds : Heartbeat(r)
  PROVE  Quiet
<1>1. ASSUME NEW t \in Tasks, ClaimExpires(t) PROVE Quiet
  BY <1>1, ExpiryQuiet DEF ClaimExpires
<1>2. ASSUME NEW r \in RunIds, Heartbeat(r) PROVE Quiet
  <2>1. CASE run[r].task \in Tasks
    BY <1>2, <2>1, ExpiryQuiet DEF Heartbeat
  <2>2. CASE run[r].task \notin Tasks
    <3>1. UNCHANGED <<task, run, lastRun, tick>>
      BY <1>2, <2>2 DEF Heartbeat, Put, IInv, Rows
    <3>2. QED BY <3>1, SameQuiet, SameStartsNone
  <2>3. QED BY <2>1, <2>2
<1>3. QED BY <1>1, <1>2

LEMMA WorkerExitQuiet ==
  ASSUME IInv, NEW r \in RunIds, WorkerExit(r)
  PROVE  Quiet
<1>1. PICK how \in {"clean", "rate", "failed"} : run' = [run EXCEPT ![r].worker = how]
  BY DEF WorkerExit
<1>2. NoneStarts
  BY <1>1 DEF NoneStarts, Alive, IInv, Rows, Run
<1>3. QED BY <1>2, SameQuiet DEF WorkerExit

\* A kill starts nothing, and leaves no process unless it was survived.
LEMMA KilledFacts ==
  ASSUME IInv, NEW i, i.pid \in 0..MaxRuns, NEW survives \in BOOLEAN, Killed(i, survives)
  PROVE  NoneStarts /\ (~survives => ~Alive(i.pid)')
<1>1. CASE Alive(i.pid) /\ ~survives
  <2>1. i.pid \in RunIds
    BY <1>1, BoundAssumption DEF Alive, RunIds
  <2>2. run' = [run EXCEPT ![i.pid].worker = "failed"]
    BY <1>1 DEF Killed
  <2>3. run \in [RunIds -> Run]
    BY DEF IInv, Rows
  <2>4. run'[i.pid].worker = "failed" /\ \A r \in RunIds : r # i.pid => run'[r] = run[r]
    BY <2>1, <2>2, <2>3 DEF Run
  <2>5. QED BY <2>1, <2>4 DEF NoneStarts, Alive
<1>2. CASE ~(Alive(i.pid) /\ ~survives)
  BY <1>2 DEF Killed, NoneStarts, Alive
<1>3. QED BY <1>1, <1>2

LEMMA ReclaimQuiet ==
  ASSUME IInv, ReclaimRelease \/ ReclaimClear \/ \E t \in Tasks : ReclaimStart(t)
  PROVE  Quiet
<1>1. ASSUME NEW t \in Tasks, ReclaimStart(t) PROVE Quiet
  <2>1. Read(t).pid \in 0..MaxRuns
    BY RowTypes DEF Read, IInv, Task
  <2>2. NoneStarts
    BY <1>1, <2>1, KilledFacts DEF ReclaimStart
  <2>3. QED BY <1>1, <2>2, SameQuiet DEF ReclaimStart
<1>2. CASE ReclaimRelease
  <2>1. reclaim.task \in Tasks
    BY <1>2 DEF ReclaimRelease, IInv, Rest
  <2>2. CASE UNCHANGED <<task, run>>
    BY <1>2, <2>2, SameQuiet, SameStartsNone DEF ReclaimRelease
  <2>3. CASE ~UNCHANGED <<task, run>>
    BY <1>2, <2>1, <2>3, RetryPhase, EndedQuiet DEF ReclaimRelease, Outcomes
  <2>4. QED BY <2>2, <2>3
<1>3. CASE ReclaimClear
  <2>1. reclaim.task \in Tasks
    BY <1>3 DEF ReclaimClear, IInv, Rest
  <2>2. LET x == [task[reclaim.task] EXCEPT !.failures = 0]
        IN /\ x.lock = task[reclaim.task].lock /\ x.pid = task[reclaim.task].pid
           /\ x.status = task[reclaim.task].status
    BY <2>1, RowTypes DEF IInv, Task
  <2>3. QED BY <1>3, <2>1, <2>2, PutQuiet DEF ReclaimClear
<1>4. QED BY <1>1, <1>2, <1>3

\* A claim touches no other task and no process that runs.
LEMMA ClaimFacts ==
  ASSUME IInv, NEW t \in Tasks, NEW phase \in Phases, NEW lock, NEW runs \in [RunIds -> Run],
         \A r \in RunIds : runs[r].worker = run[r].worker, StartRun(t, phase, lock, runs)
  PROVE  /\ lastRun' = lastRun + 1
         /\ task'[t].lock = lock
         /\ \A u \in Tasks : u # t => task'[u] = task[u]
         /\ NoneStarts
<1>1. task' = [task EXCEPT ![t] = [task[t] EXCEPT !.status = "running", !.lock = lock,
                                                  !.expired = FALSE, !.run = lastRun + 1]]
  BY DEF StartRun, Put
<1>2. task \in [Tasks -> Task] /\ task[t] \in Task
  BY DEF IInv, Rows
<1>3. task'[t].lock = lock /\ \A u \in Tasks : u # t => task'[u] = task[u]
  BY <1>1, <1>2 DEF Task
<1>4. \A r \in RunIds : \/ run'[r] = runs[r]
                        \/ run'[r].worker = "none"
  BY DEF StartRun
<1>5. NoneStarts
  BY <1>4 DEF NoneStarts, Alive
<1>6. QED BY <1>3, <1>5 DEF StartRun

LEMMA ClaimTaskFacts ==
  ASSUME IInv, NEW t \in Tasks, NEW lock, ClaimTask(t, lock) \/ ClaimReviewTask(t, lock)
  PROVE  /\ lastRun' = lastRun + 1
         /\ task'[t].lock = lock
         /\ \A u \in Tasks : u # t => task'[u] = task[u]
         /\ NoneStarts
<1>1. Phases = {"ready", "review"} /\ run \in [RunIds -> Run] /\ "reclaimed" \in Outcomes \ {"open"}
  BY DEF Phases, IInv, Rows, Outcomes
<1>2. EndRun(t, "reclaimed") \in [RunIds -> Run]
      /\ \A r \in RunIds : EndRun(t, "reclaimed")[r].worker = run[r].worker
  BY <1>1, EndRunFacts, RowTypes DEF IInv
<1>3. CASE ClaimTask(t, lock)
  BY <1>1, <1>2, <1>3, ClaimFacts DEF ClaimTask
<1>4. CASE ClaimReviewTask(t, lock)
  BY <1>1, <1>4, ClaimFacts DEF ClaimReviewTask
<1>5. QED BY <1>3, <1>4

LEMMA RefusedFacts ==
  ASSUME IInv, NEW t \in Tasks, ClaimRefused(t) \/ ReviewRefused(t)
  PROVE  lastRun' = lastRun /\ NoneStarts /\ \A u \in Tasks : KeepsClaim(u, task')
<1>1. task[t] \in Task /\ "reclaimed" \in Outcomes \ {"open"}
  BY RowTypes DEF IInv, Outcomes
<1>2. CASE Put(t, [task[t] EXCEPT !.status = "todo"]) /\ UNCHANGED run
  <2>1. LET x == [task[t] EXCEPT !.status = "todo"]
        IN x.lock = task[t].lock /\ x.pid = task[t].pid /\ x.status = "todo"
    BY <1>1 DEF Task
  <2>2. QED BY <1>2, <2>1, PutKeeps, SameStartsNone DEF ClaimRefused, ReviewRefused
<1>3. CASE Put(t, [task[t] EXCEPT !.status = "todo", !.resume = "review"]) /\ UNCHANGED run
  <2>1. LET x == [task[t] EXCEPT !.status = "todo", !.resume = "review"]
        IN x.lock = task[t].lock /\ x.pid = task[t].pid /\ x.status = "todo"
    BY <1>1 DEF Task
  <2>2. QED BY <1>3, <2>1, PutKeeps, SameStartsNone DEF ClaimRefused, ReviewRefused
<1>4. CASE run' = EndRun(t, "reclaimed") /\ UNCHANGED task
  BY <1>1, <1>4, EndStartsNone DEF KeepsClaim, ClaimRefused, ReviewRefused
<1>5. QED BY <1>2, <1>3, <1>4 DEF ClaimRefused, ReviewRefused

LEMMA ManualClaimQuiet ==
  ASSUME IInv, NEW t \in Tasks, ManualClaim(t)
  PROVE  Quiet
<1>1. CASE ClaimTask(t, CommandLock)
  <2>1. \A u \in Tasks : KeepsClaim(u, task') \/ NewClaim(u)
    BY <1>1, ClaimTaskFacts DEF KeepsClaim, NewClaim
  <2>2. QED BY <1>1, <2>1, ClaimTaskFacts DEF ManualClaim, Quiet
<1>2. CASE ClaimRefused(t)
  BY <1>2, RefusedFacts DEF ManualClaim, Quiet
<1>3. QED BY <1>1, <1>2 DEF ManualClaim, CommandLock

-----------------------------------------------------------------------------
\* The dispatcher.

LEMMA TickStartKeeps ==
  ASSUME IInv, WInv, TickStart
  PROVE  WInv'
<1>1. tick'.pc = "stale" /\ tick'.list = ExpiredClaims /\ UNCHANGED <<task, lastRun>>
  BY DEF TickStart, StepList, IdleTick
<1>2. LocksUsed'
  BY <1>1, UsedKept DEF WInv
<1>3. ASSUME NEW i \in ExpiredClaims PROVE Held(i)'
  <2>1. PICK t \in Tasks : i = Read(t)
    BY DEF ExpiredClaims, Running
  <2>2. i.task = t /\ i.lock = task[t].lock /\ i.pid = task[t].pid
    BY <2>1 DEF Read
  <2>3. QED BY <1>1, <2>2 DEF Held, Used, WInv, LocksUsed
<1>4. QED BY <1>1, <1>2, <1>3 DEF WInv, StaleKnown

LEMMA StaleExtendedKeeps ==
  ASSUME IInv, WInv, StaleExtended
  PROVE  WInv'
<1>1. PICK i \in tick.list :
        /\ tick' = [tick EXCEPT !.list = @ \ {i}]
        /\ IF SameClaim(i) THEN Put(i.task, [task[i.task] EXCEPT !.expired = FALSE])
                           ELSE UNCHANGED task
  BY DEF StaleExtended
<1>2. TickOK(tick) /\ tick.pc = "stale"
  BY DEF StaleExtended, IInv, Rest
<1>3. \A u \in Tasks : KeepsClaim(u, task')
  <2>1. i.task \in Tasks
    BY <1>2 DEF TickOK
  <2>2. LET x == [task[i.task] EXCEPT !.expired = FALSE]
        IN /\ x.lock = task[i.task].lock /\ x.pid = task[i.task].pid
           /\ x.status = task[i.task].status
    BY <2>1, RowTypes DEF IInv, Task
  <2>3. CASE UNCHANGED task
    BY <2>3 DEF KeepsClaim
  <2>4. CASE Put(i.task, [task[i.task] EXCEPT !.expired = FALSE])
    BY <2>1, <2>2, <2>4, PutKeeps
  <2>5. QED BY <1>1, <2>3, <2>4
<1>4. tick'.pc = "stale" /\ tick'.list \subseteq tick.list
  BY <1>1, <1>2 DEF TickOK
<1>5. \A j \in tick.list : Held(j)'
  BY <1>2, <1>3, HeldKept DEF StaleExtended, WInv, StaleKnown, TickOK
<1>6. LocksUsed'
  BY <1>3, UsedKept DEF StaleExtended, WInv, KeepsClaim
<1>7. QED BY <1>4, <1>5, <1>6 DEF WInv, StaleKnown

LEMMA StaleKilledKeeps ==
  ASSUME IInv, WInv, StaleKilled
  PROVE  WInv'
<1>1. PICK i \in tick.list, survives \in BOOLEAN :
        /\ Killed(i, survives)
        /\ tick' = [tick EXCEPT !.pc = "staleKilled", !.list = @ \ {i},
                                !.item = [i EXCEPT !.survived = survives]]
  BY DEF StaleKilled
<1>2. TickOK(tick) /\ tick.pc = "stale" /\ UNCHANGED <<task, lastRun>>
  BY DEF StaleKilled, IInv, Rest
<1>3. i \in Item /\ i.task \in Tasks
  BY <1>2 DEF TickOK
<1>4. /\ tick'.pc = "staleKilled" /\ tick'.list \subseteq tick.list
      /\ tick'.item = [i EXCEPT !.survived = survives]
  BY <1>1, <1>2 DEF TickOK
<1>5. /\ tick'.item.task = i.task /\ tick'.item.lock = i.lock /\ tick'.item.pid = i.pid
      /\ tick'.item.survived = survives
  BY <1>3, <1>4 DEF Item
<1>6. \A j \in tick.list : Held(j)'
  BY <1>2 DEF WInv, StaleKnown, Held, Used, SameClaim
<1>7. Held(tick.item)' /\ (~tick'.item.survived => ~Alive(tick.item.pid)')
  <2>1. Held(i)'
    BY <1>6
  <2>2. Held(tick.item)'
    BY <1>5, <2>1 DEF Held, Used, SameClaim
  <2>3. ~survives => ~Alive(i.pid)'
    BY <1>1, <1>3, KilledFacts DEF Item
  <2>4. QED BY <1>5, <2>2, <2>3 DEF Alive
<1>8. LocksUsed'
  BY <1>2 DEF WInv, LocksUsed, Used
<1>9. QED BY <1>4, <1>6, <1>7, <1>8 DEF WInv, StaleKnown, Alive

LEMMA StaleReleasedKeeps ==
  ASSUME IInv, WInv, StaleReleased
  PROVE  WInv'
<1> DEFINE t == tick.item.task
<1>1. TickOK(tick) /\ tick.pc = "staleKilled" /\ t \in Tasks
  BY DEF StaleReleased, IInv, Rest, TickOK
<1>2. \A u \in Tasks : KeepsClaim(u, task')
  <2>1. LET x == [task[t] EXCEPT !.expired = FALSE]
        IN x.lock = task[t].lock /\ x.pid = task[t].pid /\ x.status = task[t].status
    BY <1>1, RowTypes DEF IInv, Task
  <2>2. Ended(t, RetryStatus(t)) \in Task
    BY <1>1, EndedFacts, RetryPhase DEF IInv
  <2>3. LET x == [Ended(t, RetryStatus(t)) EXCEPT !.resume = RetryStatus(t)]
        IN x.lock = NoLock /\ x.pid = 0 /\ x.status = RetryStatus(t)
    BY <1>1, <2>2, EndedClaim, RetryPhase DEF Task
  <2>4. CASE UNCHANGED task
    BY <2>4 DEF KeepsClaim
  <2>5. CASE Put(t, [task[t] EXCEPT !.expired = FALSE])
    BY <1>1, <2>1, <2>5, PutKeeps
  <2>6. CASE Put(t, [Ended(t, RetryStatus(t)) EXCEPT !.resume = RetryStatus(t)])
    BY <1>1, <2>3, <2>6, PutKeeps, RetryPhase
  <2>7. QED BY <2>4, <2>5, <2>6 DEF StaleReleased
<1>3. tick'.pc = "stale" /\ tick'.list = tick.list
  BY <1>1 DEF StaleReleased, Step, TickOK
<1>4. \A j \in tick.list : Held(j)'
  BY <1>1, <1>2, HeldKept DEF StaleReleased, WInv, StaleKnown, TickOK
<1>5. LocksUsed'
  BY <1>2, UsedKept DEF StaleReleased, WInv, KeepsClaim
<1>6. QED BY <1>3, <1>4, <1>5 DEF WInv, StaleKnown

\* A step after which the pass is over, or has not begun.
LEMMA OtherKeeps ==
  ASSUME IInv, WInv, tick'.pc \notin {"stale", "staleKilled"},
         lastRun' \in {lastRun, lastRun + 1},
         \A t \in Tasks : \/ task'[t].lock \in {task[t].lock, NoLock}
                          \/ task'[t].lock.by = "dispatcher"
  PROVE  WInv'
BY UsedKept DEF WInv, StaleKnown

LEMMA CrashedReleasedKeeps ==
  ASSUME IInv, WInv, CrashedReleased
  PROVE  WInv'
<1>1. tick'.pc = "account" /\ lastRun' = lastRun
  BY DEF CrashedReleased, IdleTick
<1>2. ASSUME NEW t \in Tasks PROVE task'[t].lock \in {task[t].lock, NoLock}
  <2>1. /\ Ended(t, RetryStatus(t)).lock = NoLock
        /\ [Ended(t, RetryStatus(t)) EXCEPT !.resume = RetryStatus(t)].lock = NoLock
    BY EndedFacts, EndedClaim, RetryPhase DEF IInv, Task
  <2>2. \/ task'[t] = task[t]
        \/ task'[t] = Ended(t, RetryStatus(t))
        \/ task'[t] = [Ended(t, RetryStatus(t)) EXCEPT !.resume = RetryStatus(t)]
    BY DEF CrashedReleased
  <2>3. QED BY <2>1, <2>2
<1>3. QED BY <1>1, <1>2, OtherKeeps

LEMMA RecordFailureLock ==
  ASSUME IInv, NEW t \in Tasks, NEW force \in BOOLEAN, NEW p \in Phases,
         RecordFailure(t, force, p)
  PROVE  \A u \in Tasks : task'[u].lock = task[u].lock
<1>1. task[t] \in Task /\ task \in [Tasks -> Task]
  BY DEF IInv, Rows
<1>2. /\ [task[t] EXCEPT !.failures = @ + 1].lock = task[t].lock
      /\ [task[t] EXCEPT !.resume = p].lock = task[t].lock
      /\ [task[t] EXCEPT !.status = "blocked", !.failures = @ + 1, !.resume = p].lock = task[t].lock
  BY <1>1 DEF Task
<1>3. \/ Put(t, [task[t] EXCEPT !.failures = @ + 1])
      \/ Put(t, [task[t] EXCEPT !.resume = p])
      \/ Put(t, [task[t] EXCEPT !.status = "blocked", !.failures = @ + 1, !.resume = p])
  BY DEF RecordFailure
<1>4. QED BY <1>1, <1>2, <1>3 DEF Put

LEMMA AccountKeeps ==
  ASSUME IInv, WInv, CrashAccounted \/ TimeoutAccounted \/ TimeoutReleased \/ TimeoutKilled
  PROVE  WInv'
<1>1. TickOK(tick)
  BY DEF IInv, Rest
<1>2. CASE CrashAccounted
  <2>1. PICK p \in tick.pending :
          /\ tick' = [tick EXCEPT !.pending = @ \ {p}]
          /\ UNCHANGED task \/ RecordFailure(p.task, p.violation, PhaseNow(p.task))
    BY <1>2 DEF CrashAccounted
  <2>2. p.task \in Tasks /\ p.violation \in BOOLEAN /\ tick'.pc = "account" /\ lastRun' = lastRun
    BY <1>1, <1>2, <2>1 DEF TickOK, CrashAccounted
  <2>3. \A u \in Tasks : task'[u].lock = task[u].lock
    BY <2>1, <2>2, PhaseTyped, RecordFailureLock
  <2>4. QED BY <2>2, <2>3, OtherKeeps
<1>3. CASE TimeoutAccounted
  <2>1. tick.item.task \in Tasks /\ tick'.pc = "account" /\ lastRun' = lastRun
    BY <1>1, <1>3 DEF TickOK, TimeoutAccounted, Step
  <2>2. QED BY <1>3, <2>1, PhaseTyped, RecordFailureLock, OtherKeeps DEF TimeoutAccounted
<1>4. CASE TimeoutReleased
  <2> DEFINE t == tick.item.task
  <2>1. t \in Tasks /\ tick'.pc \in {"account", "timeoutAccount"} /\ lastRun' = lastRun
    BY <1>1, <1>4 DEF TickOK, TimeoutReleased, Step, StepWith
  <2>2. Ended(t, RetryStatus(t)) \in Task
    BY <2>1, EndedFacts, RetryPhase DEF IInv
  <2>3. [Ended(t, RetryStatus(t)) EXCEPT !.resume = RetryStatus(t)].lock = NoLock
    BY <2>1, <2>2, EndedClaim, RetryPhase DEF Task
  <2>4. \A u \in Tasks : task'[u].lock \in {task[u].lock, NoLock}
    BY <1>4, <2>1, <2>3 DEF TimeoutReleased, Put, IInv, Rows
  <2>5. QED BY <2>1, <2>4, OtherKeeps
<1>5. CASE TimeoutKilled
  BY <1>1, <1>5, OtherKeeps DEF TimeoutKilled, StepWith, TickOK
<1>6. QED BY <1>2, <1>3, <1>4, <1>5

LEMMA PromotedKeeps ==
  ASSUME IInv, WInv, Promoted
  PROVE  WInv'
<1>1. tick'.pc = "spawn" /\ lastRun' = lastRun
  BY DEF Promoted, Step, IInv, Rest, TickOK
<1>2. task \in [Tasks -> Task] /\ \A u \in Tasks : KeepsClaim(u, task)
  BY DEF IInv, Rows, KeepsClaim
<1>3. \A u \in Tasks : KeepsClaim(u, task')
  BY <1>2, PromotionKeeps DEF Promoted
<1>4. QED BY <1>1, <1>3, OtherKeeps DEF KeepsClaim

LEMMA DispatchedKeeps ==
  ASSUME IInv, WInv, DispatchedReady \/ DispatchedReview
  PROVE  WInv'
<1>1. PICK t \in Tasks :
        \/ /\ ClaimTask(t, DispatcherLock) \/ ClaimReviewTask(t, DispatcherLock)
           /\ StepWith("claimed", [NoItem EXCEPT !.task = t, !.pid = lastRun + 1])
        \/ (ClaimRefused(t) \/ ReviewRefused(t)) /\ UNCHANGED tick
  BY DEF DispatchedReady, DispatchedReview
<1>2. tick.pc = "spawn" /\ TickOK(tick)
  BY DEF DispatchedReady, DispatchedReview, IInv, Rest
<1>3. CASE ClaimTask(t, DispatcherLock) \/ ClaimReviewTask(t, DispatcherLock)
  <2>1. /\ lastRun' = lastRun + 1 /\ task'[t].lock = DispatcherLock
        /\ \A u \in Tasks : u # t => task'[u] = task[u]
    BY <1>3, ClaimTaskFacts
  <2>2. tick'.pc \in {"claimed", "spawn"}
    BY <1>1, <1>2 DEF StepWith, TickOK
  <2>3. \A u \in Tasks : task'[u].lock = task[u].lock \/ task'[u].lock.by = "dispatcher"
    BY <2>1 DEF DispatcherLock
  <2>4. QED BY <2>1, <2>2, <2>3, OtherKeeps
<1>4. CASE (ClaimRefused(t) \/ ReviewRefused(t)) /\ UNCHANGED tick
  BY <1>2, <1>4, RefusedFacts, OtherKeeps DEF KeepsClaim
<1>5. QED BY <1>1, <1>3, <1>4

LEMMA SpawnKeeps ==
  ASSUME IInv, WInv, Spawned \/ PidRecorded \/ SpawnFailed \/ TickEnd \/ DispatcherCrash
  PROVE  WInv'
<1>1. TickOK(tick)
  BY DEF IInv, Rest
<1>2. CASE Spawned \/ TickEnd \/ DispatcherCrash
  BY <1>1, <1>2, OtherKeeps DEF Spawned, TickEnd, DispatcherCrash, IdleTick, TickOK
<1>3. CASE PidRecorded
  <2>1. tick.item.task \in Tasks /\ tick'.pc = "spawn" /\ lastRun' = lastRun
    BY <1>1, <1>3 DEF PidRecorded, Step, TickOK
  <2>2. \A u \in Tasks : task'[u].lock = task[u].lock
    BY <1>3, <2>1 DEF PidRecorded, Put, IInv, Rows, Task
  <2>3. QED BY <2>1, <2>2, OtherKeeps
<1>4. CASE SpawnFailed
  <2> DEFINE t == tick.item.task
  <2>1. t \in Tasks /\ tick'.pc = "spawn" /\ lastRun' = lastRun
    BY <1>1, <1>4 DEF SpawnFailed, Step, TickOK
  <2>2. task[t] \in Task /\ task \in [Tasks -> Task]
    BY <2>1 DEF IInv, Rows
  <2>3. \A status \in {"blocked", RetryStatus(t)} :
          [Unclaimed(task[t], status) EXCEPT !.failures = @ + 1, !.run = 0,
                                             !.resume = RetryStatus(t)].lock = NoLock
    <3>1. "blocked" \in Statuses /\ RetryStatus(t) \in Statuses
      BY <2>1, StatusTypes, RetryPhase
    <3>2. \A status \in {"blocked", RetryStatus(t)} :
            Unclaimed(task[t], status) \in Task /\ Unclaimed(task[t], status).lock = NoLock
      BY <2>2, <3>1, UnclaimedFacts, UnclaimedLock
    <3>3. QED BY <3>2 DEF Task
  <2>4. [task[t] EXCEPT !.run = 0, !.resume = RetryStatus(t)].lock = task[t].lock
    BY <2>2 DEF Task
  <2>5. \/ Put(t, [task[t] EXCEPT !.run = 0, !.resume = RetryStatus(t)])
        \/ \E status \in {"blocked", RetryStatus(t)} :
             Put(t, [Unclaimed(task[t], status) EXCEPT !.failures = @ + 1, !.run = 0,
                                                       !.resume = RetryStatus(t)])
    BY <1>4 DEF SpawnFailed
  <2>6. \A u \in Tasks : task'[u].lock \in {task[u].lock, NoLock}
    BY <2>1, <2>2, <2>3, <2>4, <2>5 DEF Put
  <2>7. QED BY <2>1, <2>6, OtherKeeps
<1>5. QED BY <1>2, <1>3, <1>4

-----------------------------------------------------------------------------
\* The invariant and the theorem.

LEMMA InitWorkers == Init => WInv
<1> SUFFICES ASSUME Init PROVE WInv
  OBVIOUS
<1>1. \A t \in Tasks : task[t].lock = NoLock
  BY DEF Init, NewTask
<1>2. QED BY <1>1 DEF Init, WInv, LocksUsed, Used, StaleKnown, NoLock, IdleTick

LEMMA NextWorkers == IInv /\ WInv /\ [Next]_vars => WInv'
<1> SUFFICES ASSUME IInv, WInv, [Next]_vars PROVE WInv'
  OBVIOUS
<1>1. CASE Dispatch \/ DispatcherCrash
  BY <1>1, TickStartKeeps, StaleExtendedKeeps, StaleKilledKeeps, StaleReleasedKeeps,
     CrashedReleasedKeeps, AccountKeeps, PromotedKeeps, DispatchedKeeps, SpawnKeeps DEF Dispatch
<1>2. ASSUME NEW t \in Tasks,
             \/ Complete(t) \/ Block(t) \/ RequestReview(t) \/ RequestChanges(t) \/ Schedule(t)
             \/ ClaimExpires(t) \/ Operator(t) \/ Link(t) \/ ParentsDone(t)
      PROVE  Quiet
  BY <1>2, CompleteQuiet, BlockQuiet, EndingsQuiet, TimeQuiet, LinkQuiet, ParentsDoneQuiet,
     ManualClaimQuiet, UnblockQuiet, PromoteQuiet, SpecifyQuiet, ArchiveQuiet, ReclaimQuiet
     DEF Operator
<1>3. ASSUME NEW r \in RunIds, Heartbeat(r) \/ WorkerExit(r) PROVE Quiet
  BY <1>3, TimeQuiet, WorkerExitQuiet
<1>4. CASE ReclaimRelease \/ ReclaimClear
  BY <1>4, ReclaimQuiet, QuietKeeps
<1>5. CASE UNCHANGED vars
  BY <1>5, SameQuiet, SameStartsNone, QuietKeeps DEF vars
<1>6. QED BY <1>1, <1>2, <1>3, <1>4, <1>5, QuietKeeps DEF Next

\* The dispatcher takes no task from the process recorded for it while that is
\* alive, although the stale pass acts on what it read before the kill.
THEOREM NeverDuplicates == Spec => NoDuplicateWorker
<1> DEFINE A == tick.pc \in {"stale", "staleKilled"} /\ tick' # tick =>
                  \A t \in Tasks : task[t].status = "running" /\ task'[t].status # "running"
                                     => ~Alive(task[t].pid)
<1>1. IInv /\ WInv /\ [Next]_vars => [A]_vars
  <2> SUFFICES ASSUME IInv, WInv, Next, tick.pc \in {"stale", "staleKilled"}, tick' # tick,
                      NEW t \in Tasks, task[t].status = "running", task'[t].status # "running"
               PROVE  ~Alive(task[t].pid)
    OBVIOUS
  <2>1. StaleExtended \/ StaleKilled \/ StaleReleased \/ CrashedReleased \/ DispatcherCrash
    BY DEF Next, Dispatch, Operator, TickStart, CrashAccounted, TimeoutKilled, TimeoutReleased,
       TimeoutAccounted, Promoted, DispatchedReady, DispatchedReview, Spawned, PidRecorded,
       SpawnFailed, TickEnd, ReclaimRelease, ReclaimClear, Complete, Block, RequestReview,
       RequestChanges, Schedule, ClaimExpires, Link, ParentsDone, Heartbeat, WorkerExit,
       ManualClaim, Unblock, Promote, ReopenReview, Specify, Archive, ReclaimStart
  <2>2. CASE StaleKilled \/ DispatcherCrash
    BY <2>2 DEF StaleKilled, DispatcherCrash
  <2>3. CASE StaleExtended
    <3>1. PICK i \in tick.list :
            \/ Put(i.task, [task[i.task] EXCEPT !.expired = FALSE])
            \/ UNCHANGED task
      BY <2>3 DEF StaleExtended
    <3>2. task'[t].status = task[t].status
      BY <3>1 DEF Put, IInv, Rows, Task
    <3>3. QED BY <3>2
  <2>4. CASE StaleReleased
    <3> DEFINE i == tick.item
    <3>1. i \in Item /\ i.task \in Tasks /\ tick.pc = "staleKilled"
      BY <2>4 DEF StaleReleased, IInv, Rest, TickOK
    <3>2. task \in [Tasks -> Task]
      BY DEF IInv, Rows
    <3>3. ~i.survived /\ SameClaim(i) /\ t = i.task
      BY <2>4, <3>1, <3>2 DEF StaleReleased, Put, Task
    <3>4. task[t].pid \in {i.pid, 0} /\ ~Alive(i.pid)
      BY <3>1, <3>3 DEF WInv, StaleKnown, Held
    <3>5. QED BY <3>4 DEF Alive
  <2>5. CASE CrashedReleased
    BY <2>5 DEF CrashedReleased, Dead
  <2>6. QED BY <2>1, <2>2, <2>3, <2>4, <2>5
<1>2. Spec => []WInv
  BY InitWorkers, NextWorkers, Invariance, PTL DEF Spec
<1>3. QED BY <1>1, <1>2, Invariance, PTL DEF Spec, NoDuplicateWorker

-----------------------------------------------------------------------------
\* RetryBudget.  A failure is closed in one transaction and counted in another; in
\* between it is owed.  A command or the death of the dispatcher raises the slack by
\* one, which is as much as it can hide.

Limit == IF FailureLimit < DefaultLimit THEN DefaultLimit ELSE FailureLimit
Slack == commands + (boots - 1)

Owed(t) == \/ [task |-> t, violation |-> FALSE] \in tick.pending
           \/ tick.pc = "timeoutAccount" /\ tick.item.task = t

\* The columns in which the breaker can block a task, and from which a task gets to
\* one of them by itself.
Active == {"ready", "review", "running"}
Live   == Active \cup {"todo"}

Within(t) ==
  /\ spent[t] <= Limit + Slack
  /\ (IF Owed(t) THEN task[t].status \notin Active ELSE task[t].status \in Live)
       => spent[t] < Limit + Slack
Counted(t) ==
  spent[t] <= task[t].failures + Slack
              + (IF Owed(t) /\ task[t].status \in Active THEN 1 ELSE 0)

\* An open run left behind a task that is not running.
Behind(t) == task[t].run # 0 /\ IsOpen(run[task[t].run]) /\ task[t].status # "running"

Budget == commands \in Nat /\ \A t \in Tasks : Within(t) /\ Counted(t)

\* reclaim_task releases a task the breaker has blocked, too.
Releasing ==
  reclaim.pc = "release" =>
    /\ reclaim.lock # NoLock
    /\ task[reclaim.task].lock = reclaim.lock => spent[reclaim.task] < Limit + Slack

TickKnown ==
  /\ tick.pending # {} => tick.pc = "account"
  /\ \A p, q \in tick.pending : p.task = q.task => p = q
  /\ \A t \in Tasks : Owed(t) => ~Alive(task[t].run)
  /\ tick.pc \in {"claimed", "spawned"} => ~Behind(tick.item.task)

BInv == Budget /\ Releasing /\ TickKnown

LEMMA BudgetTypes ==
  /\ IInv /\ commands \in Nat =>
       Slack \in Nat /\ \A t \in Tasks : spent[t] \in Nat /\ task[t].failures \in Nat
  /\ IInv' /\ commands' \in Nat =>
       Slack' \in Nat /\ \A t \in Tasks : spent'[t] \in Nat /\ task'[t].failures \in Nat
  /\ Limit \in Nat \ {0} /\ FailureLimit <= Limit /\ DefaultLimit <= Limit
<1>1. Limit \in Nat \ {0} /\ FailureLimit <= Limit /\ DefaultLimit <= Limit
  BY LimitAssumption DEF Limit
<1>2. ASSUME IInv, commands \in Nat
      PROVE  Slack \in Nat /\ \A t \in Tasks : spent[t] \in Nat /\ task[t].failures \in Nat
  <2>1. Slack \in Nat
    BY <1>2, BoundAssumption DEF IInv, Rest, Slack
  <2>2. \A t \in Tasks : task[t] \in Task
    BY <1>2 DEF IInv, Rows
  <2> QED BY <1>2, <2>1, <2>2 DEF IInv, Rest, Task
<1>3. ASSUME IInv', commands' \in Nat
      PROVE  Slack' \in Nat /\ \A t \in Tasks : spent'[t] \in Nat /\ task'[t].failures \in Nat
  <2>1. Slack' \in Nat
    <3>1. boots' \in 1..MaxBoots
      BY <1>3 DEF IInv, Rest
    <3>2. \A c \in Nat, b \in 1..MaxBoots : c + (b - 1) \in Nat
      BY BoundAssumption
    <3> QED BY <1>3, <3>1, <3>2 DEF Slack
  <2>2. \A t \in Tasks : task'[t] \in Task
    BY <1>3 DEF IInv, Rows
  <2> QED BY <1>3, <2>1, <2>2 DEF IInv, Rest, Task
<1> QED BY <1>1, <1>2, <1>3

-----------------------------------------------------------------------------
\* What a step that records no failure may do to the budgets.

Moves(t) ==
  /\ Behind(t)' => Behind(t)
  /\ Alive(task[t].run)' => task'[t].run = task[t].run
  /\ \/ spent'[t] = 0
     \/ spent'[t] = spent[t] /\ task'[t].failures = task[t].failures

\* No more than the code does by itself.
Mild(t) ==
  \/ spent'[t] = 0
  \/ /\ task'[t].status \in Live =>
          \/ task[t].status \in Live
          \/ task[t].failures < Limit
          \/ spent[t] < Limit + Slack
     /\ Owed(t) /\ task[t].status \in Active => task'[t].status \in Active

Fine ==
  /\ commands' \in Nat /\ \A t \in Tasks : Moves(t)
  /\ \/ Slack' = Slack + 1
     \/ Slack' = Slack /\ \A t \in Tasks : Mild(t)

LEMMA FineBudget ==
  ASSUME IInv, IInv', BInv, Fine, \A t \in Tasks : Owed(t)' => Owed(t),
         Slack' = Slack => \A t \in Tasks : Owed(t)' = Owed(t)
  PROVE  Budget'
<1>1. commands \in Nat /\ commands' \in Nat
  BY DEF BInv, Budget, Fine
<1>2. /\ Slack \in Nat /\ Slack' \in Nat /\ Limit \in Nat \ {0}
      /\ \A t \in Tasks : /\ spent[t] \in Nat /\ task[t].failures \in Nat
                          /\ spent'[t] \in Nat /\ task'[t].failures \in Nat
  BY <1>1, BudgetTypes
<1> SUFFICES ASSUME NEW t \in Tasks PROVE Within(t)' /\ Counted(t)'
  BY <1>1 DEF Budget
<1>3. Within(t) /\ Counted(t) /\ Moves(t)
  BY DEF BInv, Budget, Fine
<1>4. CASE spent'[t] = 0
  <2>1. \A l \in Nat \ {0}, k \in Nat : 0 <= l + k /\ 0 < l + k
    OBVIOUS
  <2>2. Within(t)'
    BY <1>2, <1>4, <2>1 DEF Within
  <2>3. Counted(t)'
    BY <1>2, <1>4 DEF Counted
  <2> QED BY <2>2, <2>3
<1>5. CASE spent'[t] # 0 /\ Slack' = Slack + 1
  BY <1>2, <1>3, <1>5 DEF Within, Counted, Moves
<1>6. CASE spent'[t] # 0 /\ Slack' = Slack /\ Slack' # Slack + 1
  <2>1. Mild(t) /\ Owed(t)' = Owed(t)
    BY <1>6 DEF Fine
  <2> QED BY <1>2, <1>3, <1>6, <2>1 DEF Within, Counted, Moves, Mild, Live
<1> QED BY <1>4, <1>5, <1>6 DEF Fine

LEMMA FineTick ==
  ASSUME IInv, IInv', BInv, Fine, tick' = tick, NoneStarts
  PROVE  TickKnown'
<1>1. \A t \in Tasks : Owed(t)' = Owed(t)
  BY DEF Owed
<1>2. ASSUME NEW t \in Tasks, Owed(t) PROVE ~Alive(task[t].run)'
  <2>1. ~Alive(task[t].run) /\ Moves(t)
    BY <1>2 DEF BInv, TickKnown, Fine
  <2>2. task'[t].run # 0 => task'[t].run \in RunIds
    BY DEF IInv, Rows, Task, RunIds
  <2> SUFFICES ASSUME Alive(task[t].run)' PROVE FALSE
    OBVIOUS
  <2>3. task'[t].run = task[t].run /\ task'[t].run # 0
    BY <2>1 DEF Moves, Alive
  <2>4. Alive(task[t].run)
    BY <2>2, <2>3 DEF NoneStarts, Alive
  <2> QED BY <2>1, <2>4
<1>3. tick.pc \in {"claimed", "spawned"} => ~Behind(tick.item.task)'
  BY DEF BInv, TickKnown, Fine, Moves, IInv, Rest, TickOK
<1> QED BY <1>1, <1>2, <1>3 DEF BInv, TickKnown

LEMMA QuietBudget ==
  ASSUME IInv, IInv', BInv, Quiet, Fine,
         \/ Releasing'
         \/ UNCHANGED reclaim /\ (lastRun' = lastRun \/ Slack' = Slack + 1)
  PROVE  BInv'
<1>1. tick' = tick /\ NoneStarts
  BY DEF Quiet
<1>2. \A t \in Tasks : Owed(t)' = Owed(t)
  BY <1>1 DEF Owed
<1>3. Budget'
  BY <1>2, FineBudget
<1>4. TickKnown'
  BY <1>1, FineTick
<1>5. ASSUME UNCHANGED reclaim, lastRun' = lastRun \/ Slack' = Slack + 1
      PROVE  Releasing'
  <2> DEFINE t == reclaim.task
  <2> SUFFICES ASSUME reclaim.pc = "release"
               PROVE  /\ reclaim.lock # NoLock
                      /\ task'[t].lock = reclaim.lock => spent'[t] < Limit + Slack'
    BY <1>5 DEF Releasing
  <2>1. t \in Tasks /\ reclaim.lock # NoLock /\ Releasing /\ lastRun \in Nat
    BY DEF BInv, Releasing, IInv, Rest, Rows
  <2>2. /\ Limit \in Nat /\ Slack \in Nat /\ Slack' \in Nat /\ spent[t] \in Nat /\ spent'[t] \in Nat
        /\ spent'[t] <= spent[t] /\ spent[t] <= Limit + Slack /\ Slack' \in {Slack, Slack + 1}
    <3>1. commands \in Nat /\ commands' \in Nat
      BY DEF BInv, Budget, Fine
    <3>2. spent'[t] = 0 \/ spent'[t] = spent[t]
      BY <2>1 DEF Fine, Moves
    <3>3. spent[t] <= Limit + Slack
      BY <2>1 DEF BInv, Budget, Within
    <3>4. Slack' \in {Slack, Slack + 1}
      BY DEF Fine
    <3> QED BY <2>1, <3>1, <3>2, <3>3, <3>4, BudgetTypes
  <2>3. CASE Slack' = Slack + 1
    BY <2>1, <2>2, <2>3
  <2>4. CASE Slack' = Slack /\ lastRun' = lastRun
    <3>1. KeepsClaim(t, task')
      BY <2>1, <2>4 DEF Quiet, NewClaim
    <3>2. task'[t].lock = reclaim.lock => task[t].lock = reclaim.lock
      BY <2>1, <3>1 DEF KeepsClaim
    <3> QED BY <2>1, <2>2, <2>4, <3>2 DEF Releasing
  <2> QED BY <1>5, <2>2, <2>3, <2>4
<1> QED BY <1>3, <1>4, <1>5 DEF BInv

LEMMA RowMoves ==
  ASSUME IInv, RowsKept, NEW t \in Tasks,
         task[t].status = "running" /\ task'[t].status # "running" => task'[t].run = 0
  PROVE  /\ Behind(t)' => Behind(t)
         /\ Alive(task[t].run)' => task'[t].run = task[t].run
<1>1. task[t].run # 0 => task[t].run \in RunIds
  BY RowTypes DEF IInv
<1>2. task'[t].run \in {task[t].run, 0}
  BY DEF RowsKept, RowsTo, Leaves, Stays
<1>3. \A r \in RunIds : IsOpen(run'[r]) => IsOpen(run[r])
  BY DEF RowsKept, RowsTo
<1> QED BY <1>1, <1>2, <1>3 DEF Behind, Alive

\* The row of t becomes x.
LEMMA PutMoves ==
  ASSUME IInv, RowsKept, NEW t \in Tasks, NEW x, Put(t, x),
         task[t].status = "running" /\ x.status # "running" => x.run = 0,
         (spent' = spent /\ x.failures = task[t].failures) \/ Refill(t)
  PROVE  /\ \A u \in Tasks : Moves(u) /\ (u # t => Mild(u))
         /\ task'[t] = x
         /\ Refill(t) => Mild(t)
<1>1. task'[t] = x /\ \A u \in Tasks : u # t => task'[u] = task[u]
  BY DEF Put, IInv, Rows
<1>2. /\ \A u \in Tasks : u # t => spent'[u] = spent[u]
      /\ spent'[t] = 0 \/ (spent'[t] = spent[t] /\ x.failures = task[t].failures)
      /\ Refill(t) => spent'[t] = 0
  BY DEF Refill, IInv, Rest
<1>3. ASSUME NEW u \in Tasks
      PROVE  /\ Behind(u)' => Behind(u)
             /\ Alive(task[u].run)' => task'[u].run = task[u].run
  BY <1>1, RowMoves
<1> QED BY <1>1, <1>2, <1>3 DEF Moves, Mild

\* Nothing happens to the budgets.
LEMMA SameMoves ==
  ASSUME IInv, RowsKept, UNCHANGED <<task, spent>>, NEW t \in Tasks
  PROVE  Moves(t) /\ Mild(t)
BY RowMoves DEF Moves, Mild

\* A promotion that follows in the same step.
LEMMA PromotionMoves ==
  ASSUME NEW T \in [Tasks -> Task], NEW G, NEW limit \in {FailureLimit, DefaultLimit},
         task' = Recomputed(T, G, limit), NEW t \in Tasks
  PROVE  /\ task'[t].run = T[t].run /\ task'[t].failures = T[t].failures
         /\ task'[t].lock = T[t].lock
         /\ \/ task'[t].status = T[t].status
            \/ /\ task'[t].status \in Phases
               /\ T[t].status = "todo" \/ (T[t].status = "blocked" /\ T[t].failures < Limit)
<1>1. T[t] \in Task /\ T[t].failures \in Nat /\ T[t].resume \in Phases
  BY DEF Task
<1>2. CASE t \notin G /\ Promotable(T[t], limit)
  <2>1. task'[t] = [T[t] EXCEPT !.status = T[t].resume]
    BY <1>2 DEF Recomputed
  <2>2. T[t].failures < limit => T[t].failures < Limit
    BY <1>1, LimitAssumption DEF Limit
  <2> QED BY <1>1, <1>2, <2>1, <2>2 DEF Task, Promotable
<1>3. CASE ~(t \notin G /\ Promotable(T[t], limit))
  BY <1>3 DEF Recomputed
<1> QED BY <1>2, <1>3

LEMMA PromotedMoves ==
  ASSUME IInv, RowsKept, NEW T \in [Tasks -> Task], NEW G,
         NEW limit \in {FailureLimit, DefaultLimit}, task' = Recomputed(T, G, limit),
         NEW t \in Tasks, spent'[t] = spent[t], T[t].failures = task[t].failures,
         T[t].status = task[t].status \/ T[t].status = "todo" \/ T[t].run = 0,
         task[t].status = "running" => T[t].status = "running" \/ T[t].run = 0
  PROVE  Moves(t) /\ (T[t].status = task[t].status => Mild(t))
<1>1. /\ task'[t].run = T[t].run /\ task'[t].failures = T[t].failures
      /\ \/ task'[t].status = T[t].status
         \/ /\ task'[t].status \in Phases
            /\ T[t].status = "todo" \/ (T[t].status = "blocked" /\ T[t].failures < Limit)
  BY PromotionMoves
<1>2. /\ Behind(t)' => Behind(t)
      /\ Alive(task[t].run)' => task'[t].run = task[t].run
  BY <1>1, RowMoves
<1> QED BY <1>1, <1>2 DEF Moves, Mild, Live, Active, Phases

\* Who acts: a command, or the worker of the current run, which owes nothing.
LEMMA CommandFine ==
  ASSUME IInv, BInv, commands' = commands + 1, boots' = boots, \A u \in Tasks : Moves(u)
  PROVE  Fine /\ Slack' = Slack + 1
<1>1. \A c \in Nat, b \in 1..MaxBoots : c + 1 \in Nat /\ (c + 1) + (b - 1) = (c + (b - 1)) + 1
  BY BoundAssumption
<1>2. commands \in Nat /\ boots \in 1..MaxBoots
  BY DEF BInv, Budget, IInv, Rest
<1>3. commands' \in Nat /\ Slack' = Slack + 1
  BY <1>1, <1>2 DEF Slack
<1> QED BY <1>3 DEF Fine

LEMMA FreeFine ==
  ASSUME BInv, UNCHANGED <<commands, boots>>, \A u \in Tasks : Moves(u) /\ Mild(u)
  PROVE  Fine
BY DEF BInv, Budget, Fine, Slack

LEMMA ActFine ==
  ASSUME IInv, BInv, NEW t \in Tasks, ByWorker(t) \/ ByOperator, boots' = boots,
         \A u \in Tasks : Moves(u) /\ (u # t => Mild(u)), ~Owed(t) => Mild(t)
  PROVE  Fine
<1>1. CASE ByWorker(t)
  <2>1. ~Owed(t)
    BY <1>1 DEF ByWorker, BInv, TickKnown
  <2>2. \A u \in Tasks : Mild(u)
    BY <2>1
  <2> QED BY <1>1, <2>2, FreeFine DEF ByWorker
<1>2. CASE ByOperator
  BY <1>2, CommandFine DEF ByOperator
<1> QED BY <1>1, <1>2

-----------------------------------------------------------------------------
\* Workers, the operator and time, and the budgets.

LEMMA EndedRow ==
  ASSUME IInv, NEW t \in Tasks, NEW s \in Statuses
  PROVE  /\ Ended(t, s) \in Task /\ Ended(t, s).run = 0 /\ Ended(t, s).status = s
         /\ Ended(t, s).failures = task[t].failures
BY EndedFacts, RowTypes, UnclaimedFacts DEF Ended, IInv, Task

\* Steps that end the run of t.
LEMMA EndedMoves ==
  ASSUME IInv, RowsKept, NEW t \in Tasks, NEW s \in Statuses, NEW p \in Phases,
         \/ Put(t, Ended(t, s))
         \/ Put(t, [Ended(t, s) EXCEPT !.resume = p]),
         UNCHANGED spent
  PROVE  /\ \A u \in Tasks : Moves(u) /\ (u # t => Mild(u))
         /\ task'[t].status = s
<1>1. /\ Ended(t, s).run = 0 /\ Ended(t, s).status = s
      /\ Ended(t, s).failures = task[t].failures
  BY EndedRow
<1>2. LET x == [Ended(t, s) EXCEPT !.resume = p]
      IN  x.run = 0 /\ x.status = s /\ x.failures = task[t].failures
  BY <1>1, EndedRow DEF Task
<1>3. CASE Put(t, Ended(t, s))
  BY <1>1, <1>3, PutMoves
<1>4. CASE Put(t, [Ended(t, s) EXCEPT !.resume = p])
  BY <1>2, <1>4, PutMoves
<1> QED BY <1>3, <1>4

LEMMA CompleteFine ==
  ASSUME IInv, BInv, NEW t \in Tasks, Complete(t)
  PROVE  Fine
<1> DEFINE x == [Ended(t, "done") EXCEPT !.failures = 0]
           T == [task EXCEPT ![t] = x]
<1>1. x \in Task /\ x.run = 0 /\ x.status = "done" /\ x.failures = 0
  BY EndedRow, StatusTypes DEF Task
<1>2. /\ T \in [Tasks -> Task] /\ T[t] = x /\ \A u \in Tasks : u # t => T[u] = task[u]
      /\ task' = Recomputed(T, gated, DefaultLimit) /\ Refill(t) /\ RowsKept
      /\ ByWorker(t) \/ ByOperator
      /\ boots' = boots
  BY <1>1, CompleteKept DEF IInv, Rows, Complete
<1> HIDE DEF T, x
<1>3. spent'[t] = 0 /\ \A u \in Tasks : u # t => spent'[u] = spent[u]
  BY <1>2 DEF Refill, IInv, Rest
<1>4. ASSUME NEW u \in Tasks, u # t PROVE Moves(u) /\ Mild(u)
  BY <1>2, <1>3, <1>4, PromotedMoves
<1>5. Moves(t) /\ Mild(t)
  <2>1. task'[t].run = 0
    BY <1>1, <1>2, PromotionMoves
  <2> QED BY <1>2, <1>3, <2>1, RowMoves DEF Moves, Mild
<1> QED BY <1>2, <1>4, <1>5, ActFine DEF Complete

LEMMA BlockFine ==
  ASSUME IInv, BInv, NEW t \in Tasks, Block(t)
  PROVE  Fine
<1>1. PICK s \in {"todo", "blocked"}, x \in Task :
        Put(t, x) /\ x.run = 0 /\ x.status = s /\ x.failures = task[t].failures
  <2>1. \A s \in {"todo", "blocked"} :
          Ended(t, s) \in Task /\ Ended(t, s).run = 0 /\ Ended(t, s).status = s
            /\ Ended(t, s).failures = task[t].failures
    BY EndedRow, StatusTypes
  <2>2. BlockSource(t) \in Phases
    BY RetryPhase DEF BlockSource, Phases
  <2>3. CASE Put(t, [Ended(t, "todo") EXCEPT !.resume = BlockSource(t)])
    <3>1. LET x == [Ended(t, "todo") EXCEPT !.resume = BlockSource(t)]
          IN x \in Task /\ x.run = 0 /\ x.status = "todo" /\ x.failures = task[t].failures
      BY <2>1, <2>2 DEF Task
    <3> QED BY <2>3, <3>1
  <2>4. CASE Put(t, [Ended(t, "blocked") EXCEPT !.resume = BlockSource(t), !.sticky = TRUE])
    <3>1. LET x == [Ended(t, "blocked") EXCEPT !.resume = BlockSource(t), !.sticky = TRUE]
          IN x \in Task /\ x.run = 0 /\ x.status = "blocked" /\ x.failures = task[t].failures
      BY <2>1, <2>2 DEF Task
    <3> QED BY <2>4, <3>1
  <2> QED BY <2>3, <2>4 DEF Block
<1>2. RowsKept /\ spent' = spent /\ boots' = boots /\ (ByWorker(t) \/ ByOperator)
      /\ task[t].status \in Live
  BY BlockKept DEF Block, Live, Active
<1>3. /\ \A u \in Tasks : Moves(u) /\ (u # t => Mild(u))
      /\ task'[t] = x
  BY <1>1, <1>2, PutMoves
<1>4. ~Owed(t) => Mild(t)
  BY <1>2 DEF Mild
<1> QED BY <1>2, <1>3, <1>4, ActFine

LEMMA EndingsFine ==
  ASSUME IInv, BInv, NEW t \in Tasks,
         RequestReview(t) \/ RequestChanges(t) \/ Schedule(t) \/ ReopenReview(t)
  PROVE  Fine
<1>1. Landing(t) \in Statuses /\ "ready" \in Phases /\ {"review", "scheduled"} \subseteq Statuses
  BY RowTypes, StatusTypes DEF IInv, Phases
<1>2. /\ RowsKept /\ spent' = spent /\ boots' = boots /\ (ByWorker(t) \/ ByOperator)
  BY RequestReviewKept, RequestChangesKept, ScheduleKept, ReopenReviewKept
     DEF RequestReview, RequestChanges, Schedule, ReopenReview
<1>3. \A u \in Tasks : Moves(u) /\ (u # t => Mild(u))
  BY <1>1, <1>2, EndedMoves DEF RequestReview, RequestChanges, Schedule, ReopenReview
<1>4. task'[t].status \in Live => task[t].status \in Live
  <2>1. CASE Schedule(t)
    <3>1. task'[t].status = "scheduled"
      BY <1>1, <1>2, <2>1, EndedMoves DEF Schedule
    <3> QED BY <3>1 DEF Live, Active
  <2>2. CASE RequestReview(t) \/ RequestChanges(t) \/ ReopenReview(t)
    BY <2>2 DEF RequestReview, RequestChanges, ReopenReview, Live, Active
  <2> QED BY <2>1, <2>2
<1>5. ~Owed(t) => Mild(t)
  BY <1>4 DEF Mild
<1> QED BY <1>2, <1>3, <1>5, ActFine

LEMMA CommandsFine ==
  ASSUME IInv, BInv, NEW t \in Tasks,
         Unblock(t) \/ Promote(t) \/ Specify(t) \/ Archive(t) \/ Link(t) \/ ReclaimStart(t)
  PROVE  Fine /\ Slack' = Slack + 1
<1>1. RowsKept /\ boots' = boots /\ commands' = commands + 1
  BY UnblockKept, PromoteKept, SpecifyKept, ArchiveKept, LinkKept, ReclaimStartKept
     DEF Unblock, Promote, Specify, Archive, Link, ReclaimStart, ByOperator
<1>2. task[t] \in Task /\ task \in [Tasks -> Task]
  BY RowTypes DEF IInv
<1>3. CASE Unblock(t)
  <2> DEFINE resume == IF task[t].status = "blocked" THEN task[t].resume ELSE "ready"
             x == [task[t] EXCEPT
                     !.status = IF ParentsSatisfied(t) THEN resume ELSE "todo",
                     !.run = 0, !.failures = 0, !.sticky = FALSE, !.resume = resume]
  <2>1. x.run = 0
    BY <1>2 DEF Task
  <2>2. Put(t, x) /\ Refill(t)
    BY <1>3 DEF Unblock
  <2> HIDE DEF x
  <2>3. \A u \in Tasks : Moves(u)
    BY <1>1, <2>1, <2>2, PutMoves
  <2> QED BY <1>1, <2>3, CommandFine
<1>4. CASE Promote(t)
  <2> DEFINE x == [task[t] EXCEPT !.status = "ready"]
  <2>1. x.failures = task[t].failures /\ task[t].status # "running" /\ spent' = spent /\ Put(t, x)
    BY <1>2, <1>4 DEF Task, Promote
  <2> HIDE DEF x
  <2>3. \A u \in Tasks : Moves(u)
    BY <1>1, <2>1, PutMoves
  <2> QED BY <1>1, <2>3, CommandFine
<1>5. CASE Specify(t)
  <2> DEFINE T == [task EXCEPT ![t].status = "todo"]
  <2>1. \A u \in Tasks : /\ T[u] \in Task /\ T[u].failures = task[u].failures
                         /\ T[u].status = IF u = t THEN "todo" ELSE task[u].status
    BY <1>2, StatusTypes DEF Task
  <2>2. /\ T \in [Tasks -> Task] /\ task' = Recomputed(T, gated, DefaultLimit) /\ spent' = spent
        /\ task[t].status = "triage"
    BY <1>2, <1>5, <2>1 DEF Specify
  <2> HIDE DEF T
  <2>3. ASSUME NEW u \in Tasks PROVE Moves(u)
    BY <1>1, <2>1, <2>2, PromotedMoves
  <2> QED BY <1>1, <2>3, CommandFine
<1>6. CASE Archive(t)
  <2> DEFINE T == [task EXCEPT ![t] = Ended(t, "archived")]
  <2>1. /\ Ended(t, "archived") \in Task /\ Ended(t, "archived").run = 0
        /\ Ended(t, "archived").failures = task[t].failures
    BY EndedRow, StatusTypes
  <2>2. /\ T \in [Tasks -> Task] /\ task' = Recomputed(T, gated, DefaultLimit) /\ spent' = spent
        /\ T[t] = Ended(t, "archived") /\ \A u \in Tasks : u # t => T[u] = task[u]
    BY <1>2, <1>6, <2>1 DEF Archive
  <2> HIDE DEF T
  <2>3. ASSUME NEW u \in Tasks PROVE Moves(u)
    BY <1>1, <2>1, <2>2, PromotedMoves
  <2> QED BY <1>1, <2>3, CommandFine
<1>7. CASE Link(t)
  <2> DEFINE x == [task[t] EXCEPT !.status = "todo"]
  <2>1. x.failures = task[t].failures /\ spent' = spent
    BY <1>2, <1>7 DEF Task, Link
  <2>2. (Put(t, x) /\ task[t].status = "ready") \/ UNCHANGED task
    BY <1>7 DEF Link
  <2> HIDE DEF x
  <2>3. \A u \in Tasks : Moves(u)
    BY <1>1, <2>1, <2>2, PutMoves, SameMoves
  <2> QED BY <1>1, <2>3, CommandFine
<1>8. CASE ReclaimStart(t)
  <2>1. \A u \in Tasks : Moves(u)
    BY <1>1, <1>8, SameMoves DEF ReclaimStart
  <2> QED BY <1>1, <2>1, CommandFine
<1> QED BY <1>3, <1>4, <1>5, <1>6, <1>7, <1>8

\* The claim that reclaim_task is about to release.
LEMMA ReleasingKept ==
  ASSUME IInv, BInv, UNCHANGED reclaim, commands' \in Nat, boots' \in 1..MaxBoots,
         Slack' = Slack \/ Slack' = Slack + 1,
         \A t \in Tasks : \/ task'[t].lock = NoLock
                          \/ task'[t].lock = task[t].lock /\ spent'[t] = spent[t]
  PROVE  Releasing'
<1> DEFINE t == reclaim.task
<1> SUFFICES ASSUME reclaim.pc = "release"
             PROVE  /\ reclaim.lock # NoLock
                    /\ task'[t].lock = reclaim.lock => spent'[t] < Limit + Slack'
  BY DEF Releasing
<1>1. t \in Tasks /\ reclaim.lock # NoLock
      /\ (task[t].lock = reclaim.lock => spent[t] < Limit + Slack)
  BY DEF BInv, Releasing, IInv, Rest
<1>2. Slack \in Nat /\ Limit \in Nat /\ spent[t] \in Nat
  BY <1>1, BudgetTypes DEF BInv, Budget
<1> QED BY <1>1, <1>2

LEMMA ReclaimStartReleasing ==
  ASSUME IInv, BInv, NEW t \in Tasks, ReclaimStart(t)
  PROVE  Releasing'
<1>1. task[t].lock # NoLock
  BY DEF ReclaimStart, IInv, Rows, RunsMatchClaims, Running
<1>2. reclaim' = [pc |-> "release", task |-> t, lock |-> task[t].lock] /\ spent' = spent
      /\ task' = task
  BY DEF ReclaimStart
<1>3. spent[t] < Limit + Slack'
  <2>1. Slack' = Slack + 1
    BY CommandsFine
  <2>2. Slack \in Nat /\ Limit \in Nat /\ spent[t] \in Nat /\ spent[t] <= Limit + Slack
    BY BudgetTypes DEF BInv, Budget, Within
  <2> QED BY <2>1, <2>2
<1> QED BY <1>1, <1>2, <1>3 DEF Releasing

\* What a claim does to its row, and to the processes.
LEMMA ClaimRow ==
  ASSUME IInv, NEW t \in Tasks, NEW lock, ClaimTask(t, lock) \/ ClaimReviewTask(t, lock)
  PROVE  /\ task'[t].status = "running" /\ task'[t].lock = lock
         /\ task'[t].failures = task[t].failures
         /\ task[t].status \in Phases
         /\ ~Alive(task[t].run)'
         /\ \A u \in Tasks : u # t => task'[u] = task[u]
         /\ \A u \in Tasks : Behind(u)' => Behind(u)
<1> DEFINE n == lastRun + 1
<1>1. PICK phase \in Phases, runs \in [RunIds -> Run] :
        /\ StartRun(t, phase, lock, runs) /\ task[t].status = phase
        /\ \A r \in RunIds : IsOpen(runs[r]) => IsOpen(run[r])
  <2>1. "reclaimed" \in Outcomes \ {"open"} /\ Phases = {"ready", "review"} /\ Types
    BY RowTypes DEF Outcomes, Phases, IInv
  <2>2. EndRun(t, "reclaimed") \in [RunIds -> Run]
        /\ \A r \in RunIds : IsOpen(EndRun(t, "reclaimed")[r]) => IsOpen(run[r])
    BY <2>1, EndRunFacts
  <2> QED BY <2>1, <2>2 DEF ClaimTask, ClaimReviewTask, Types
<1>2. /\ task \in [Tasks -> Task] /\ task[t] \in Task
      /\ \A u \in Tasks : task[u].run # 0 => task[u].run \in RunIds
  BY RowTypes DEF IInv
<1>3. n \in RunIds /\ n # 0
  BY <1>1, BoundAssumption DEF StartRun, RunIds, IInv, Rows
<1>4. /\ task' = [task EXCEPT ![t] = [task[t] EXCEPT !.status = "running", !.lock = lock,
                                         !.expired = FALSE, !.run = lastRun + 1]]
      /\ run' = [runs EXCEPT ![lastRun + 1] =
                   [task |-> t, phase |-> phase, outcome |-> "open", worker |-> "none",
                    lock |-> lock]]
  BY <1>1 DEF StartRun, Put
<1>5. /\ task'[t].status = "running" /\ task'[t].lock = lock /\ task'[t].run = n
      /\ task'[t].failures = task[t].failures
      /\ \A u \in Tasks : u # t => task'[u] = task[u]
  BY <1>2, <1>4 DEF Task
<1>6. /\ run'[n].worker = "none"
      /\ \A r \in RunIds : r # n => run'[r] = runs[r]
  BY <1>3, <1>4
<1>7. ~Alive(task[t].run)'
  BY <1>5, <1>6 DEF Alive
<1>8. ASSUME NEW u \in Tasks, Behind(u)' PROVE Behind(u)
  <2>1. u # t
    BY <1>5, <1>8 DEF Behind
  <2>2. task'[u] = task[u] /\ task[u].run # 0 /\ task[u].run \in RunIds
    BY <1>2, <1>5, <1>8, <2>1 DEF Behind
  <2>3. run[task[u].run].task = u /\ run[n].task = None
    BY <1>3, <2>2 DEF IInv, Rows, Own, Fresh, RunIds
  <2>4. task[u].run # n
    BY <2>3, NoneAssumption
  <2> QED BY <1>1, <1>6, <1>8, <2>2, <2>4 DEF Behind
<1> QED BY <1>1, <1>5, <1>7, <1>8

LEMMA ClaimMoves ==
  ASSUME IInv, NEW t \in Tasks, NEW lock, ClaimTask(t, lock) \/ ClaimReviewTask(t, lock),
         UNCHANGED spent
  PROVE  \A u \in Tasks : Moves(u) /\ Mild(u)
<1>1. /\ task'[t].status = "running" /\ task'[t].failures = task[t].failures
      /\ task[t].status \in Phases /\ ~Alive(task[t].run)'
      /\ \A u \in Tasks : u # t => task'[u] = task[u]
      /\ \A u \in Tasks : Behind(u)' => Behind(u)
  BY ClaimRow
<1>2. \A u \in Tasks : Moves(u)
  BY <1>1 DEF Moves
<1>3. \A u \in Tasks : Mild(u)
  BY <1>1 DEF Mild, Live, Active, Phases
<1> QED BY <1>2, <1>3

LEMMA RefusedMoves ==
  ASSUME IInv, NEW t \in Tasks, ClaimRefused(t) \/ ReviewRefused(t), UNCHANGED spent
  PROVE  \A u \in Tasks : Moves(u) /\ (~Owed(u) => Mild(u))
<1>1. RowsKept /\ task[t] \in Task
  BY RefusedKept, RowTypes DEF IInv
<1>2. CASE UNCHANGED task
  BY <1>1, <1>2, SameMoves
<1>3. ASSUME NEW x, Put(t, x), x.status = "todo", x.failures = task[t].failures,
             task[t].status \in Phases
      PROVE  \A u \in Tasks : Moves(u) /\ (~Owed(u) => Mild(u))
  <2>1. (\A u \in Tasks : Moves(u) /\ (u # t => Mild(u))) /\ task'[t] = x
    BY <1>1, <1>3, PutMoves DEF Phases
  <2>2. ~Owed(t) => Mild(t)
    BY <1>3 DEF Mild, Live, Active, Phases
  <2> QED BY <2>1, <2>2
<1>4. LET x == [task[t] EXCEPT !.status = "todo"]
      IN  x.status = "todo" /\ x.failures = task[t].failures
  BY <1>1 DEF Task
<1>5. LET x == [task[t] EXCEPT !.status = "todo", !.resume = "review"]
      IN  x.status = "todo" /\ x.failures = task[t].failures
  BY <1>1 DEF Task
<1>6. CASE ReviewRefused(t)
  BY <1>3, <1>5, <1>6 DEF ReviewRefused, Phases
<1>7. CASE ClaimRefused(t)
  BY <1>2, <1>3, <1>4, <1>7 DEF ClaimRefused, Phases
<1> QED BY <1>6, <1>7

LEMMA ManualClaimFine ==
  ASSUME IInv, BInv, NEW t \in Tasks, ManualClaim(t)
  PROVE  Fine /\ Slack' = Slack + 1
<1>1. UNCHANGED <<spent, boots>> /\ commands' = commands + 1
  BY DEF ManualClaim, ByOperator
<1>2. \A u \in Tasks : Moves(u)
  BY <1>1, ClaimMoves, RefusedMoves DEF ManualClaim
<1> QED BY <1>1, <1>2, CommandFine

\* Only whether the claim has expired, or nothing.
LEMMA ExpiryFine ==
  ASSUME IInv, BInv, NEW t \in Tasks, NEW e \in BOOLEAN, RowsKept,
         Put(t, [task[t] EXCEPT !.expired = e]), UNCHANGED <<commands, boots, spent>>
  PROVE  Fine
<1> DEFINE x == [task[t] EXCEPT !.expired = e]
<1>1. x.status = task[t].status /\ x.failures = task[t].failures /\ Put(t, x)
  BY RowTypes DEF IInv, Task
<1> HIDE DEF x
<1>2. (\A u \in Tasks : Moves(u) /\ (u # t => Mild(u))) /\ task'[t] = x
  BY <1>1, PutMoves
<1>3. Mild(t)
  BY <1>1, <1>2 DEF Mild
<1> QED BY <1>2, <1>3, FreeFine

LEMMA SameFine ==
  ASSUME IInv, BInv, RowsKept, UNCHANGED <<task, spent, commands, boots>>
  PROVE  Fine
BY SameMoves, FreeFine

LEMMA TimeFine ==
  ASSUME IInv, BInv,
         \/ \E t \in Tasks : ClaimExpires(t) \/ ParentsDone(t)
         \/ \E r \in RunIds : Heartbeat(r) \/ WorkerExit(r)
  PROVE  Fine /\ lastRun' = lastRun /\ UNCHANGED reclaim
<1>1. ASSUME NEW t \in Tasks, ClaimExpires(t) PROVE Fine
  BY <1>1, ClaimExpiresKept, ExpiryFine DEF ClaimExpires
<1>2. ASSUME NEW t \in Tasks, ParentsDone(t) PROVE Fine
  <2>1. /\ RowsKept /\ task \in [Tasks -> Task] /\ task' = Recomputed(task, gated', DefaultLimit)
        /\ UNCHANGED <<spent, commands, boots>>
    BY <1>2, ParentsDoneKept DEF ParentsDone, IInv, Rows
  <2>2. \A u \in Tasks : Moves(u) /\ Mild(u)
    BY <2>1, PromotedMoves
  <2> QED BY <2>1, <2>2, FreeFine
<1>3. ASSUME NEW r \in RunIds, Heartbeat(r) PROVE Fine
  <2>1. RowsKept /\ UNCHANGED <<spent, commands, boots>>
    BY <1>3, HeartbeatKept DEF Heartbeat
  <2>2. CASE run[r].task \in Tasks
    BY <1>3, <2>1, <2>2, ExpiryFine DEF Heartbeat
  <2>3. CASE run[r].task \notin Tasks
    <3>1. task' = task
      BY <1>3, <2>3 DEF Heartbeat, Put, IInv, Rows
    <3> QED BY <2>1, <3>1, SameFine
  <2> QED BY <2>2, <2>3
<1>4. ASSUME NEW r \in RunIds, WorkerExit(r) PROVE Fine
  BY <1>4, WorkerExitKept, SameFine DEF WorkerExit
<1> QED BY <1>1, <1>2, <1>3, <1>4 DEF ClaimExpires, ParentsDone, Heartbeat, WorkerExit

\* The two transactions of reclaim_task after the kill.
LEMMA ReclaimFine ==
  ASSUME IInv, BInv, ReclaimRelease \/ ReclaimClear
  PROVE  Fine /\ Releasing'
<1> DEFINE t == reclaim.task
<1>1. t \in Tasks /\ UNCHANGED <<commands, boots>> /\ RowsKept /\ reclaim'.pc # "release"
  BY ReclaimReleaseKept, ReclaimClearKept
     DEF ReclaimRelease, ReclaimClear, NoReclaim, IInv, Rest
<1>2. CASE ReclaimClear
  <2> DEFINE x == [task[t] EXCEPT !.failures = 0]
  <2>1. x.status = task[t].status
    BY <1>1, RowTypes DEF IInv, Task
  <2>2. Put(t, x) /\ Refill(t)
    BY <1>2 DEF ReclaimClear
  <2> HIDE DEF x
  <2>3. \A u \in Tasks : Moves(u) /\ Mild(u)
    BY <1>1, <2>1, <2>2, PutMoves
  <2> QED BY <1>1, <2>3, FreeFine DEF Releasing
<1>3. CASE ReclaimRelease
  <2>1. UNCHANGED spent
    BY <1>3 DEF ReclaimRelease
  <2>2. CASE UNCHANGED task
    BY <1>1, <2>1, <2>2, SameFine DEF Releasing
  <2>3. CASE /\ Put(t, [Ended(t, RetryStatus(t)) EXCEPT !.resume = RetryStatus(t)])
             /\ task[t].lock = reclaim.lock
    <3>1. RetryStatus(t) \in Phases /\ RetryStatus(t) \in Statuses
      BY <1>1, RetryPhase
    <3>2. (\A u \in Tasks : Moves(u) /\ (u # t => Mild(u))) /\ task'[t].status = RetryStatus(t)
      BY <1>1, <2>1, <2>3, <3>1, EndedMoves
    <3>3. spent[t] < Limit + Slack
      BY <1>1, <1>3, <2>3 DEF ReclaimRelease, BInv, Releasing
    <3>4. Mild(t)
      BY <3>1, <3>2, <3>3 DEF Mild, Live, Active, Phases
    <3> QED BY <1>1, <3>2, <3>4, FreeFine DEF Releasing
  <2> QED BY <1>3, <2>2, <2>3 DEF ReclaimRelease
<1> QED BY <1>2, <1>3

-----------------------------------------------------------------------------
\* The dispatcher, and the budgets.

Unowed == tick.pending = {} /\ tick.pc # "timeoutAccount"

LEMMA NobodyOwed ==
  ASSUME Unowed, NEW t \in Tasks
  PROVE  ~Owed(t)
BY DEF Unowed, Owed

\* A step that records no failure, outside the passes that do.
LEMMA UnowedBudget ==
  ASSUME IInv, IInv', BInv, Unowed, Unowed', Fine, Releasing',
         tick'.pc \in {"claimed", "spawned"} => ~Behind(tick.item.task)'
  PROVE  BInv'
<1>1. \A t \in Tasks : ~Owed(t) /\ ~Owed(t)' /\ Owed(t)' = Owed(t)
  BY DEF Unowed, Owed
<1>2. Budget'
  BY <1>1, FineBudget
<1>3. TickKnown'
  BY <1>1 DEF TickKnown, Unowed
<1> QED BY <1>2, <1>3 DEF BInv

LEMMA WaitingUnowed ==
  ASSUME BInv, tick.pc \notin {"account", "timeoutAccount"} \/ (tick.pc = "account" /\ tick.pending = {})
  PROVE  Unowed
BY DEF BInv, TickKnown, Unowed

\* The same with no claim made.
LEMMA NoClaimBudget ==
  ASSUME IInv, IInv', BInv, Unowed, Unowed', Fine, UNCHANGED <<reclaim, commands, boots, spent>>,
         tick'.pc \notin {"claimed", "spawned"},
         \A t \in Tasks : task'[t].lock = NoLock \/ task'[t].lock = task[t].lock
  PROVE  BInv'
<1>1. Slack' = Slack /\ commands' \in Nat /\ boots' \in 1..MaxBoots
  BY DEF Slack, BInv, Budget, IInv, Rest
<1>2. Releasing'
  BY <1>1, ReleasingKept
<1> QED BY <1>2, UnowedBudget

\* Steps that touch no row.
LEMMA ProcessBudget ==
  ASSUME IInv, IInv', BInv, TickStart \/ StaleKilled \/ TimeoutKilled \/ Spawned \/ TickEnd
  PROVE  BInv'
<1>1. /\ RowsKept /\ UNCHANGED <<task, spent, commands, boots, reclaim>>
  BY TickStartKept, StaleKilledKept, TimeoutKilledKept, SpawnedKept, TickEndKept
     DEF TickStart, StaleKilled, TimeoutKilled, Spawned, TickEnd
<1>2. Fine /\ \A t \in Tasks : Moves(t)
  BY <1>1, SameFine, SameMoves
<1>3. TickOK(tick)
  BY DEF IInv, Rest
<1>4. Unowed
  BY WaitingUnowed DEF TickStart, StaleKilled, TimeoutKilled, Spawned, TickEnd
<1>5. CASE Spawned
  <2>1. tick.pc = "claimed" /\ tick' = [tick EXCEPT !.pc = "spawned"]
    BY <1>5 DEF Spawned
  <2>2. tick'.pc = "spawned" /\ tick'.pending = tick.pending /\ tick'.item = tick.item
        /\ tick.item.task \in Tasks
    BY <1>3, <2>1 DEF TickOK
  <2>3. Unowed'
    BY <1>4, <2>2 DEF Unowed
  <2>4. ~Behind(tick.item.task)
    BY <2>1 DEF BInv, TickKnown
  <2>5. ~Behind(tick.item.task)'
    BY <1>1, <1>2, <2>2, <2>4 DEF Moves, Behind
  <2>6. Releasing'
    <3>1. Slack' = Slack /\ commands' \in Nat /\ boots' \in 1..MaxBoots
      BY <1>1 DEF Slack, BInv, Budget, IInv, Rest
    <3> QED BY <1>1, <3>1, ReleasingKept
  <2> QED BY <1>2, <1>4, <2>3, <2>5, <2>6, UnowedBudget
<1>6. CASE TickStart \/ StaleKilled \/ TimeoutKilled \/ TickEnd
  <2>1. tick'.pc \in {"stale", "staleKilled", "timeoutKilled", "idle"}
        /\ tick'.pending \in {tick.pending, {}}
    <3>1. CASE TickStart
      <4>1. tick' = [IdleTick EXCEPT !.pc = "stale", !.list = ExpiredClaims]
        BY <3>1 DEF TickStart, StepList
      <4> QED BY <4>1 DEF IdleTick
    <3>2. CASE TickEnd
      BY <3>2 DEF TickEnd, IdleTick
    <3>3. CASE StaleKilled
      BY <1>3, <3>3 DEF StaleKilled, TickOK
    <3>4. CASE TimeoutKilled
      BY <1>3, <3>4 DEF TimeoutKilled, StepWith, TickOK
    <3> QED BY <1>6, <3>1, <3>2, <3>3, <3>4
  <2>2. Unowed'
    BY <1>4, <2>1 DEF Unowed
  <2> QED BY <1>1, <1>2, <1>4, <2>1, <2>2, NoClaimBudget
<1> QED BY <1>5, <1>6

LEMMA StaleBudget ==
  ASSUME IInv, IInv', BInv, StaleExtended \/ StaleReleased
  PROVE  BInv'
<1>1. /\ RowsKept /\ UNCHANGED <<spent, commands, boots, reclaim>>
  BY StaleExtendedKept, StaleReleasedKept DEF StaleExtended, StaleReleased
<1>2. TickOK(tick) /\ tick.pc \in {"stale", "staleKilled"}
  BY DEF IInv, Rest, StaleExtended, StaleReleased
<1>3. /\ Unowed /\ Unowed' /\ tick'.pc = "stale"
  <2>1. Unowed
    BY <1>2, WaitingUnowed
  <2>2. tick'.pc = "stale" /\ tick'.pending = tick.pending
    BY <1>2 DEF StaleExtended, StaleReleased, Step, TickOK
  <2> QED BY <2>1, <2>2 DEF Unowed
<1>4. PICK i \in Item :
        /\ i.task \in Tasks
        /\ \/ UNCHANGED task
           \/ Put(i.task, [task[i.task] EXCEPT !.expired = FALSE])
           \/ /\ Put(i.task, [Ended(i.task, RetryStatus(i.task))
                                EXCEPT !.resume = RetryStatus(i.task)])
              /\ SameClaim(i)
  BY <1>2 DEF StaleExtended, StaleReleased, TickOK
<1> DEFINE t == i.task
<1>5. CASE UNCHANGED task
  BY <1>1, <1>3, <1>5, SameFine, NoClaimBudget
<1>6. CASE Put(t, [task[t] EXCEPT !.expired = FALSE])
  <2>1. Fine
    BY <1>1, <1>4, <1>6, ExpiryFine
  <2>2. \A u \in Tasks : task'[u].lock = task[u].lock
    BY <1>6 DEF Put, IInv, Rows, Task
  <2> QED BY <1>1, <1>3, <2>1, <2>2, NoClaimBudget
<1>7. CASE Put(t, [Ended(t, RetryStatus(t)) EXCEPT !.resume = RetryStatus(t)]) /\ SameClaim(i)
  <2>1. RetryStatus(t) \in Phases /\ RetryStatus(t) \in Statuses
    BY <1>4, RetryPhase
  <2>2. (\A u \in Tasks : Moves(u) /\ (u # t => Mild(u))) /\ task'[t].status = RetryStatus(t)
    BY <1>1, <1>4, <1>7, <2>1, EndedMoves
  <2>3. Mild(t)
    BY <1>7, <2>1, <2>2 DEF Mild, Live, Active, Phases, SameClaim
  <2>4. Fine
    BY <1>1, <2>2, <2>3, FreeFine
  <2>5. \A u \in Tasks : task'[u].lock = NoLock \/ task'[u].lock = task[u].lock
    <3>1. Ended(t, RetryStatus(t)) \in Task /\ Ended(t, RetryStatus(t)).lock = NoLock
      BY <1>4, <2>1, EndedClaim, EndedRow
    <3>2. [Ended(t, RetryStatus(t)) EXCEPT !.resume = RetryStatus(t)].lock = NoLock
      BY <3>1 DEF Task
    <3> QED BY <1>7, <3>2 DEF Put, IInv, Rows
  <2> QED BY <1>1, <1>3, <2>4, <2>5, NoClaimBudget
<1> QED BY <1>4, <1>5, <1>6, <1>7

LEMMA PidRecordedBudget ==
  ASSUME IInv, IInv', BInv, PidRecorded
  PROVE  BInv'
<1> DEFINE t == tick.item.task
           x == [task[t] EXCEPT !.pid = tick.item.pid]
<1>1. /\ RowsKept /\ UNCHANGED <<spent, commands, boots, reclaim>> /\ Put(t, x)
  BY PidRecordedKept DEF PidRecorded
<1>2. t \in Tasks /\ TickOK(tick) /\ tick.pc = "spawned" /\ Step("spawn")
  BY DEF IInv, Rest, TickOK, PidRecorded
<1>3. x.status = task[t].status /\ x.failures = task[t].failures /\ x.lock = task[t].lock
  BY <1>2, RowTypes DEF IInv, Task
<1> HIDE DEF x
<1>4. (\A u \in Tasks : Moves(u) /\ (u # t => Mild(u))) /\ task'[t] = x
  BY <1>1, <1>2, <1>3, PutMoves
<1>5. Mild(t)
  BY <1>3, <1>4 DEF Mild
<1>6. Fine
  BY <1>1, <1>4, <1>5, FreeFine
<1>7. Unowed /\ Unowed' /\ tick'.pc = "spawn"
  <2>1. Unowed
    BY <1>2, WaitingUnowed
  <2>2. tick'.pc = "spawn" /\ tick'.pending = tick.pending
    BY <1>2 DEF Step, TickOK
  <2> QED BY <2>1, <2>2 DEF Unowed
<1>8. \A u \in Tasks : task'[u].lock = task[u].lock
  BY <1>1, <1>2, <1>3 DEF Put, IInv, Rows
<1> QED BY <1>1, <1>6, <1>7, <1>8, NoClaimBudget

LEMMA PromotedBudget ==
  ASSUME IInv, IInv', BInv, Promoted
  PROVE  BInv'
<1>1. /\ RowsKept /\ UNCHANGED <<spent, commands, boots, reclaim>>
      /\ task' = Recomputed(task, gated, FailureLimit) /\ task \in [Tasks -> Task]
  BY PromotedKept DEF Promoted, IInv, Rows
<1>2. \A u \in Tasks : Moves(u) /\ Mild(u) /\ task'[u].lock = task[u].lock
  BY <1>1, PromotedMoves, PromotionMoves
<1>3. Fine
  BY <1>1, <1>2, FreeFine
<1>4. Unowed /\ Unowed' /\ tick'.pc = "spawn"
  <2>1. Unowed
    BY WaitingUnowed DEF Promoted
  <2>2. tick'.pc = "spawn" /\ tick'.pending = tick.pending
    BY DEF Promoted, Step, TickOK, IInv, Rest
  <2> QED BY <2>1, <2>2 DEF Unowed
<1> QED BY <1>1, <1>2, <1>3, <1>4, NoClaimBudget

LEMMA DispatchedBudget ==
  ASSUME IInv, IInv', BInv, DispatchedReady \/ DispatchedReview
  PROVE  BInv'
<1>1. PICK t \in Tasks :
        \/ /\ ClaimTask(t, DispatcherLock) \/ ClaimReviewTask(t, DispatcherLock)
           /\ StepWith("claimed", [NoItem EXCEPT !.task = t, !.pid = lastRun + 1])
        \/ (ClaimRefused(t) \/ ReviewRefused(t)) /\ UNCHANGED tick
  BY DEF DispatchedReady, DispatchedReview
<1>2. /\ TickOK(tick) /\ tick.pc = "spawn" /\ UNCHANGED <<spent, commands, boots, reclaim>>
  BY DEF DispatchedReady, DispatchedReview, IInv, Rest
<1>3. Unowed
  BY <1>2, WaitingUnowed
<1>4. CASE (ClaimRefused(t) \/ ReviewRefused(t)) /\ UNCHANGED tick
  <2>1. \A u \in Tasks : Moves(u) /\ Mild(u)
    BY <1>2, <1>3, <1>4, RefusedMoves, NobodyOwed
  <2>2. Fine
    BY <1>2, <2>1, FreeFine
  <2>3. Unowed' /\ tick'.pc = "spawn"
    BY <1>2, <1>3, <1>4 DEF Unowed
  <2>4. \A u \in Tasks : task'[u].lock = NoLock \/ task'[u].lock = task[u].lock
    BY <1>4, RefusedFacts DEF KeepsClaim
  <2> QED BY <1>2, <1>3, <2>2, <2>3, <2>4, NoClaimBudget
<1>5. CASE /\ ClaimTask(t, DispatcherLock) \/ ClaimReviewTask(t, DispatcherLock)
           /\ StepWith("claimed", [NoItem EXCEPT !.task = t, !.pid = lastRun + 1])
  <2>1. Fine
    BY <1>2, <1>5, ClaimMoves, FreeFine
  <2>2. /\ task'[t].status = "running" /\ task[t].status \in Phases
        /\ \A u \in Tasks : u # t => task'[u] = task[u]
    BY <1>5, ClaimRow
  <2>3. tick'.pending = tick.pending /\ tick'.pc = "claimed" /\ tick'.item.task = t
    BY <1>2, <1>5 DEF StepWith, TickOK, NoItem
  <2>4. Unowed' /\ ~Behind(tick.item.task)'
    BY <1>3, <2>2, <2>3 DEF Unowed, Behind
  <2>5. Releasing'
    <3> DEFINE r == reclaim.task
    <3> SUFFICES ASSUME reclaim.pc = "release"
                 PROVE  /\ reclaim.lock # NoLock
                        /\ task'[r].lock = reclaim.lock => spent[r] < Limit + Slack
      BY <1>2 DEF Releasing, Slack
    <3>1. r \in Tasks /\ reclaim.lock # NoLock
          /\ (task[r].lock = reclaim.lock => spent[r] < Limit + Slack)
      BY DEF BInv, Releasing, IInv, Rest
    <3>2. r = t => spent[r] < Limit + Slack
      BY <1>3, <2>2, NobodyOwed DEF BInv, Budget, Within, Live, Active, Phases
    <3> QED BY <2>2, <3>1, <3>2
  <2> QED BY <1>3, <2>1, <2>3, <2>4, <2>5, UnowedBudget
<1> QED BY <1>1, <1>4, <1>5

LEMMA DispatcherCrashBudget ==
  ASSUME IInv, IInv', BInv, DispatcherCrash
  PROVE  BInv'
<1>1. /\ RowsKept /\ UNCHANGED <<task, spent, commands, reclaim>> /\ boots' = boots + 1
      /\ tick' = IdleTick /\ commands \in Nat
  BY DispatcherCrashKept DEF DispatcherCrash, BInv, Budget
<1>2. Slack' = Slack + 1 /\ boots' \in 1..MaxBoots
  <2>1. \A c \in Nat, b \in 1..MaxBoots : c + ((b + 1) - 1) = (c + (b - 1)) + 1
    BY BoundAssumption
  <2>2. boots \in 1..MaxBoots /\ boots' \in 1..MaxBoots
    BY DEF IInv, Rest
  <2> QED BY <1>1, <2>1, <2>2 DEF Slack
<1>3. Fine
  BY <1>1, <1>2, SameMoves DEF Fine
<1>4. \A t \in Tasks : ~Owed(t)'
  BY <1>1 DEF Owed, IdleTick
<1>5. Slack' # Slack
  <2>1. Slack \in Nat
    BY <1>1, BudgetTypes
  <2> QED BY <1>2, <2>1
<1>6. Budget'
  BY <1>3, <1>4, <1>5, FineBudget
<1>7. TickKnown'
  BY <1>1, <1>4 DEF TickKnown, IdleTick
<1>8. Releasing'
  BY <1>1, <1>2, ReleasingKept
<1> QED BY <1>6, <1>7, <1>8 DEF BInv

\* A row that nothing happens to.
LEMMA SameBudget ==
  ASSUME BInv, Slack' = Slack, NEW t \in Tasks, spent'[t] = spent[t],
         task'[t].status = task[t].status, task'[t].failures = task[t].failures,
         Owed(t)' <=> Owed(t)
  PROVE  Within(t)' /\ Counted(t)'
BY DEF BInv, Budget, Within, Counted

\* A run that is closed with nothing to count.
LEMMA ReleasedBudget ==
  ASSUME IInv, BInv, Slack' = Slack, NEW t \in Tasks, spent'[t] = spent[t],
         task[t].status = "running", task'[t].failures = task[t].failures,
         ~Owed(t), ~Owed(t)'
  PROVE  Within(t)' /\ Counted(t)'
<1>1. /\ Slack \in Nat /\ Limit \in Nat /\ spent[t] \in Nat /\ task[t].failures \in Nat
      /\ spent[t] < Limit + Slack /\ spent[t] <= task[t].failures + Slack
  BY BudgetTypes DEF BInv, Budget, Within, Counted, Live, Active
<1> QED BY <1>1 DEF Within, Counted

\* A failure, which is owed from now on.
LEMMA OwedBudget ==
  ASSUME IInv, BInv, Slack' = Slack, NEW t \in Tasks, spent'[t] = spent[t] + 1,
         task[t].status = "running", task'[t].status \in Phases,
         task'[t].failures = task[t].failures, ~Owed(t), Owed(t)'
  PROVE  Within(t)' /\ Counted(t)'
<1>1. /\ Slack \in Nat /\ Limit \in Nat /\ spent[t] \in Nat /\ task[t].failures \in Nat
      /\ spent[t] < Limit + Slack /\ spent[t] <= task[t].failures + Slack
  BY BudgetTypes DEF BInv, Budget, Within, Counted, Live, Active
<1>2. task'[t].status \in Active
  BY DEF Active, Phases
<1> QED BY <1>1, <1>2 DEF Within, Counted

LEMMA CrashedReleasedBudget ==
  ASSUME IInv, IInv', BInv, CrashedReleased
  PROVE  BInv'
<1> DEFINE failed == {u \in OpenRunsOf(Dead) : ExitOf(u) = "failed"}
           owed == {u \in Dead : ExitOf(u) # "rate"}
           pending == {[task |-> u, violation |-> ExitOf(u) = "violation"] : u \in owed}
<1>1. /\ UNCHANGED <<commands, boots, reclaim>> /\ Slack' = Slack /\ commands \in Nat
      /\ tick.pc = "stale" /\ boots \in 1..MaxBoots
  BY DEF CrashedReleased, Slack, BInv, Budget, IInv, Rest
<1>2. Unowed
  BY <1>1, WaitingUnowed
<1>3. tick'.pc = "account" /\ tick'.pending = pending
  <2>1. tick' = [IdleTick EXCEPT !.pc = "account", !.pending = pending]
    BY DEF CrashedReleased
  <2> QED BY <2>1 DEF IdleTick
<1>4. ASSUME NEW t \in Dead
      PROVE  /\ t \in Tasks /\ task[t].status = "running" /\ t \in OpenRunsOf(Dead)
             /\ task'[t].status \in Phases /\ task'[t].run = 0 /\ task'[t].lock = NoLock
             /\ task'[t].failures = task[t].failures
  <2>1. t \in Tasks /\ task[t].status = "running" /\ t \in Running
    BY DEF Dead, Running
  <2>2. t \in OpenRunsOf(Dead)
    BY <2>1 DEF IInv, Rows, RunsMatchClaims, OpenRunsOf
  <2>3. RetryStatus(t) \in Phases /\ RetryStatus(t) \in Statuses
    BY <2>1, RetryPhase
  <2> DEFINE e == Ended(t, RetryStatus(t))
             x == [e EXCEPT !.resume = RetryStatus(t)]
  <2>4. /\ e \in Task /\ e.status = RetryStatus(t) /\ e.run = 0 /\ e.lock = NoLock
        /\ e.failures = task[t].failures
    BY <2>1, <2>3, EndedClaim, EndedRow
  <2>5. task'[t] \in {e, x}
    BY <2>1 DEF CrashedReleased
  <2> HIDE DEF e
  <2>6. x.status = e.status /\ x.run = e.run /\ x.lock = e.lock /\ x.failures = e.failures
    BY <2>4 DEF Task
  <2> HIDE DEF x
  <2> QED BY <2>1, <2>2, <2>3, <2>4, <2>5, <2>6
<1>5. ASSUME NEW t \in Tasks, t \notin Dead
      PROVE  task'[t] = task[t] /\ spent'[t] = spent[t]
  BY <1>5 DEF CrashedReleased, Spend, OpenRunsOf
<1>6. ASSUME NEW t \in Tasks PROVE Owed(t)' <=> t \in Dead /\ ExitOf(t) = "failed"
  <2>1. ExitOf(t) \in {"violation", "rate", "failed"}
    BY DEF ExitOf
  <2>2. [task |-> t, violation |-> FALSE] \in pending <=> t \in Dead /\ ExitOf(t) = "failed"
    BY <2>1
  <2> QED BY <1>3, <2>2 DEF Owed
<1>7. ASSUME NEW t \in Tasks PROVE Within(t)' /\ Counted(t)'
  <2>1. ~Owed(t)
    BY <1>2, NobodyOwed
  <2>2. CASE t \notin Dead
    BY <1>1, <1>5, <1>6, <2>1, <2>2, SameBudget
  <2>3. CASE t \in Dead /\ ExitOf(t) = "failed"
    <3>1. spent'[t] = spent[t] + 1
      BY <1>4, <2>3 DEF CrashedReleased, Spend
    <3> QED BY <1>1, <1>4, <1>6, <2>1, <2>3, <3>1, OwedBudget
  <2>4. CASE t \in Dead /\ ExitOf(t) # "failed"
    <3>1. spent'[t] = spent[t]
      BY <2>4 DEF CrashedReleased, Spend
    <3> QED BY <1>1, <1>4, <1>6, <2>1, <2>4, <3>1, ReleasedBudget
  <2> QED BY <2>2, <2>3, <2>4
<1>8. Releasing'
  <2>1. \A t \in Tasks : \/ task'[t].lock = NoLock
                         \/ task'[t].lock = task[t].lock /\ spent'[t] = spent[t]
    BY <1>4, <1>5
  <2> QED BY <1>1, <2>1, ReleasingKept
<1>9. TickKnown'
  <2>1. \A p, q \in pending : p.task = q.task => p = q
    OBVIOUS
  <2>2. \A t \in Tasks : Owed(t)' => ~Alive(task[t].run)'
    BY <1>4, <1>6 DEF Alive
  <2> QED BY <1>3, <2>1, <2>2 DEF TickKnown
<1> QED BY <1>1, <1>7, <1>8, <1>9 DEF BInv, Budget

\* What _record_task_failure does to the row.
LEMMA RecordRow ==
  ASSUME IInv, NEW t \in Tasks, NEW force \in BOOLEAN, NEW p \in Phases,
         RecordFailure(t, force, p)
  PROVE  /\ \A u \in Tasks : u # t => task'[u] = task[u]
         /\ task'[t].lock = task[t].lock /\ task'[t].run = task[t].run
         /\ \/ /\ ~force /\ task'[t].status = task[t].status
               /\ task'[t].failures = task[t].failures + 1
               /\ task[t].failures + 1 < DefaultLimit
            \/ /\ task[t].status \in Active /\ task'[t].status = "blocked"
               /\ task'[t].failures = task[t].failures + 1
            \/ /\ task[t].status \notin Active /\ task'[t].status = task[t].status
               /\ task'[t].failures = task[t].failures
<1> DEFINE more == [task[t] EXCEPT !.failures = @ + 1]
           gone == [task[t] EXCEPT !.resume = p]
           blocked == [task[t] EXCEPT !.status = "blocked", !.failures = @ + 1, !.resume = p]
<1>1. task[t] \in Task /\ task \in [Tasks -> Task] /\ task[t].failures \in Nat
  BY RowTypes DEF IInv, Task
<1>2. /\ more.lock = task[t].lock /\ more.run = task[t].run /\ more.status = task[t].status
      /\ more.failures = task[t].failures + 1
  BY <1>1 DEF Task
<1>3. /\ gone.lock = task[t].lock /\ gone.run = task[t].run /\ gone.status = task[t].status
      /\ gone.failures = task[t].failures
  BY <1>1 DEF Task
<1>4. /\ blocked.lock = task[t].lock /\ blocked.run = task[t].run
      /\ blocked.status = "blocked" /\ blocked.failures = task[t].failures + 1
  BY <1>1 DEF Task
<1>5. \/ /\ ~force /\ task[t].failures + 1 < DefaultLimit /\ Put(t, more)
      \/ task[t].status \in Active /\ Put(t, blocked)
      \/ task[t].status \notin Active /\ Put(t, gone)
  <2>1. CASE ~(force \/ task[t].failures + 1 >= DefaultLimit)
    <3>1. task[t].failures + 1 < DefaultLimit
      BY <1>1, <2>1, LimitAssumption
    <3> QED BY <2>1, <3>1 DEF RecordFailure
  <2>2. CASE (force \/ task[t].failures + 1 >= DefaultLimit) /\ task[t].status \in Active
    BY <2>2 DEF RecordFailure, Active
  <2>3. CASE (force \/ task[t].failures + 1 >= DefaultLimit) /\ task[t].status \notin Active
    BY <2>3 DEF RecordFailure, Active
  <2> QED BY <2>1, <2>2, <2>3
<1> HIDE DEF more, gone, blocked
<1> QED BY <1>1, <1>2, <1>3, <1>4, <1>5 DEF Put

LEMMA RecordBudget ==
  ASSUME IInv, BInv, Slack' = Slack, UNCHANGED spent, NEW t \in Tasks, NEW force \in BOOLEAN,
         NEW p \in Phases, RecordFailure(t, force, p), ~force => Owed(t), ~Owed(t)',
         \A u \in Tasks : u # t => (Owed(u)' <=> Owed(u))
  PROVE  \A u \in Tasks : Within(u)' /\ Counted(u)'
<1>1. /\ Slack \in Nat /\ Limit \in Nat /\ DefaultLimit \in Nat /\ DefaultLimit <= Limit
      /\ spent[t] \in Nat /\ task[t].failures \in Nat /\ Within(t) /\ Counted(t)
  BY BudgetTypes, LimitAssumption DEF BInv, Budget
<1>2. ASSUME NEW u \in Tasks, u # t PROVE Within(u)' /\ Counted(u)'
  BY <1>2, RecordRow, SameBudget
<1>3. CASE /\ ~force /\ task'[t].status = task[t].status
           /\ task'[t].failures = task[t].failures + 1
           /\ task[t].failures + 1 < DefaultLimit
  <2>1. spent[t] <= task[t].failures + 1 + Slack
    BY <1>1 DEF Counted
  <2>2. spent[t] < Limit + Slack
    BY <1>1, <1>3, <2>1
  <2>3. Within(t)' /\ Counted(t)'
    BY <1>1, <1>3, <2>1, <2>2 DEF Within, Counted
  <2> QED BY <1>2, <2>3
<1>4. CASE /\ task[t].status \in Active /\ task'[t].status = "blocked"
           /\ task'[t].failures = task[t].failures + 1
  <2>1. Within(t)' /\ Counted(t)'
    BY <1>1, <1>4 DEF Within, Counted, Live, Active
  <2> QED BY <1>2, <2>1
<1>5. CASE /\ task[t].status \notin Active /\ task'[t].status = task[t].status
           /\ task'[t].failures = task[t].failures
  <2>1. Within(t)' /\ Counted(t)'
    BY <1>1, <1>5 DEF Within, Counted
  <2> QED BY <1>2, <2>1
<1> QED BY <1>3, <1>4, <1>5, RecordRow

LEMMA CrashAccountedBudget ==
  ASSUME IInv, IInv', BInv, CrashAccounted
  PROVE  BInv'
<1>1. PICK p \in tick.pending :
        /\ tick' = [tick EXCEPT !.pending = @ \ {p}]
        /\ \/ p.violation /\ UNCHANGED task
           \/ RecordFailure(p.task, p.violation, PhaseNow(p.task))
  BY DEF CrashAccounted
<1>2. /\ UNCHANGED <<run, commands, boots, reclaim, spent>> /\ Slack' = Slack /\ commands \in Nat
      /\ tick.pc = "account" /\ TickOK(tick) /\ boots \in 1..MaxBoots
  BY DEF CrashAccounted, Slack, BInv, Budget, IInv, Rest
<1>3. /\ p.task \in Tasks /\ p.violation \in BOOLEAN
      /\ p = [task |-> p.task, violation |-> p.violation]
  BY <1>2 DEF TickOK
<1>4. tick'.pending = tick.pending \ {p} /\ tick'.pc = "account"
  BY <1>1, <1>2 DEF TickOK
<1>5. \A t \in Tasks : Owed(t)' => Owed(t)
  BY <1>4 DEF Owed
<1>6. \A u \in Tasks : (u # p.task => (Owed(u)' <=> Owed(u))) /\ (p.violation => (Owed(u)' <=> Owed(u)))
  BY <1>2, <1>3, <1>4 DEF Owed
<1>7. ASSUME ~p.violation PROVE Owed(p.task) /\ ~Owed(p.task)'
  BY <1>3, <1>4, <1>7 DEF Owed
<1>8. ASSUME p.violation PROVE ~Owed(p.task) /\ ~Owed(p.task)'
  <2> SUFFICES ASSUME Owed(p.task) PROVE FALSE
    BY <1>5, <1>3
  <2>1. [task |-> p.task, violation |-> FALSE] \in tick.pending
    BY <1>2 DEF Owed
  <2>2. p = [task |-> p.task, violation |-> FALSE]
    BY <2>1 DEF BInv, TickKnown
  <2> QED BY <1>8, <2>2
<1>9. /\ \A t \in Tasks : Within(t)' /\ Counted(t)'
      /\ \A t \in Tasks : task'[t].lock = task[t].lock /\ task'[t].run = task[t].run
  <2>1. CASE p.violation /\ UNCHANGED task
    BY <1>2, <1>6, <2>1, SameBudget
  <2>2. CASE RecordFailure(p.task, p.violation, PhaseNow(p.task))
    <3>1. \A t \in Tasks : Within(t)' /\ Counted(t)'
      BY <1>2, <1>3, <1>6, <1>7, <1>8, <2>2, PhaseTyped, RecordBudget
    <3>2. \A t \in Tasks : task'[t].lock = task[t].lock /\ task'[t].run = task[t].run
      BY <1>3, <2>2, PhaseTyped, RecordRow
    <3> QED BY <3>1, <3>2
  <2> QED BY <1>1, <2>1, <2>2
<1>10. Releasing'
  BY <1>2, <1>9, ReleasingKept
<1>11. TickKnown'
  BY <1>2, <1>4, <1>5, <1>9 DEF TickKnown, BInv, Alive
<1> QED BY <1>2, <1>9, <1>10, <1>11 DEF BInv, Budget

LEMMA TimeoutAccountedBudget ==
  ASSUME IInv, IInv', BInv, TimeoutAccounted
  PROVE  BInv'
<1> DEFINE t == tick.item.task
<1>1. /\ UNCHANGED <<run, commands, boots, reclaim, spent>> /\ Slack' = Slack /\ commands \in Nat
      /\ tick.pc = "timeoutAccount" /\ TickOK(tick) /\ boots \in 1..MaxBoots
      /\ RecordFailure(t, FALSE, tick.item.phase) /\ Step("account")
  BY DEF TimeoutAccounted, Slack, BInv, Budget, IInv, Rest
<1>2. t \in Tasks /\ tick.pending = {}
  BY <1>1 DEF TickOK, BInv, TickKnown
<1>3. tick'.pc = "account" /\ tick'.pending = {}
  BY <1>1, <1>2 DEF Step, TickOK
<1>4. Owed(t) /\ \A u \in Tasks : ~Owed(u)' /\ (u # t => ~Owed(u))
  BY <1>1, <1>2, <1>3 DEF Owed
<1>5. \A u \in Tasks : Within(u)' /\ Counted(u)'
  BY <1>1, <1>2, <1>4, PhaseTyped, RecordBudget
<1>6. Releasing'
  BY <1>1, <1>2, PhaseTyped, RecordRow, ReleasingKept
<1>7. TickKnown'
  BY <1>3, <1>4 DEF TickKnown
<1> QED BY <1>1, <1>5, <1>6, <1>7 DEF BInv, Budget

LEMMA TimeoutReleasedBudget ==
  ASSUME IInv, IInv', BInv, TimeoutReleased
  PROVE  BInv'
<1>0. PICK t \in Tasks : t = tick.item.task
  BY DEF TimeoutReleased, IInv, Rest, TickOK
<1> DEFINE e == Ended(t, RetryStatus(t))
           x == [e EXCEPT !.resume = RetryStatus(t)]
<1>1. /\ UNCHANGED <<commands, boots, reclaim>> /\ Slack' = Slack /\ commands \in Nat
      /\ tick.pc = "timeoutKilled" /\ TickOK(tick) /\ boots \in 1..MaxBoots
  BY DEF TimeoutReleased, Slack, BInv, Budget, IInv, Rest
<1>2. Unowed
  BY <1>1, WaitingUnowed
<1>3. CASE Step("account") /\ UNCHANGED <<task, run, spent>>
  <2>1. tick'.pc = "account" /\ tick'.pending = tick.pending
    BY <1>1, <1>3 DEF Step, TickOK
  <2>2. Unowed'
    BY <1>2, <2>1 DEF Unowed
  <2>3. Fine
    BY <1>1, <1>3, TimeoutReleasedKept, SameFine
  <2> QED BY <1>1, <1>2, <1>3, <2>1, <2>2, <2>3, NoClaimBudget
<1>4. CASE /\ Put(t, x) /\ SameClaim(tick.item) /\ Spend(OpenRunsOf({t}))
           /\ StepWith("timeoutAccount", [tick.item EXCEPT !.phase = RetryStatus(t)])
  <2>1. tick'.pc = "timeoutAccount" /\ tick'.pending = {} /\ tick'.item.task = tick.item.task
    BY <1>1, <1>2, <1>4 DEF StepWith, TickOK, Item, Unowed
  <2>2. \A u \in Tasks : ~Owed(u) /\ (Owed(u)' <=> u = t)
    BY <1>0, <1>2, <2>1, NobodyOwed DEF Owed
  <2>3. RetryStatus(t) \in Phases /\ RetryStatus(t) \in Statuses
    BY <1>2, RetryPhase
  <2>4. /\ e \in Task /\ e.status = RetryStatus(t) /\ e.run = 0 /\ e.lock = NoLock
        /\ e.failures = task[t].failures
    BY <1>2, <2>3, EndedClaim, EndedRow
  <2>5. task'[t] = x /\ \A u \in Tasks : u # t => task'[u] = task[u]
    BY <1>2, <1>4 DEF Put, IInv, Rows
  <2> HIDE DEF e
  <2>6. x.status = RetryStatus(t) /\ x.run = 0 /\ x.lock = NoLock /\ x.failures = task[t].failures
    BY <2>4 DEF Task
  <2> HIDE DEF x
  <2>7. task[t].status = "running" /\ OpenRunsOf({t}) = {t}
    BY <1>0, <1>4 DEF SameClaim, OpenRunsOf, IInv, Rows, RunsMatchClaims, Running
  <2>8. spent'[t] = spent[t] + 1 /\ \A u \in Tasks : u # t => spent'[u] = spent[u]
    BY <1>2, <1>4, <2>7 DEF Spend
  <2>9. Within(t)' /\ Counted(t)'
    BY <1>1, <1>2, <2>2, <2>3, <2>5, <2>6, <2>7, <2>8, OwedBudget
  <2>10. \A u \in Tasks : u # t => Within(u)' /\ Counted(u)'
    BY <1>1, <2>2, <2>5, <2>8, SameBudget
  <2>11. Releasing'
    BY <1>1, <2>5, <2>6, <2>8, ReleasingKept
  <2>12. TickKnown'
    BY <2>1, <2>2, <2>5, <2>6 DEF TickKnown, Alive
  <2> QED BY <1>1, <2>9, <2>10, <2>11, <2>12 DEF BInv, Budget
<1> QED BY <1>0, <1>3, <1>4 DEF TimeoutReleased

LEMMA SpawnFailedBudget ==
  ASSUME IInv, IInv', BInv, SpawnFailed
  PROVE  BInv'
<1>0. PICK t \in Tasks : t = tick.item.task
  BY DEF SpawnFailed, IInv, Rest, TickOK
<1> DEFINE trips == task[t].failures + 1 >= FailureLimit
           moves == task[t].status \in (IF trips THEN {"running", "ready", "review"}
                                                 ELSE {"running"})
           s == IF trips THEN "blocked" ELSE RetryStatus(t)
           left == Unclaimed(task[t], s)
           moved == [left EXCEPT !.failures = @ + 1]
           y == IF moves THEN moved ELSE task[t]
           x == [y EXCEPT !.run = 0, !.resume = RetryStatus(t)]
<1>1. /\ UNCHANGED <<commands, boots, reclaim>> /\ Slack' = Slack /\ commands \in Nat
      /\ tick.pc \in {"claimed", "spawned"} /\ TickOK(tick) /\ boots \in 1..MaxBoots
      /\ Put(t, x) /\ Spend(OpenRunsOf({t})) /\ Step("spawn")
  BY <1>0 DEF SpawnFailed, Slack, BInv, Budget, IInv, Rest
<1>2. Unowed /\ task[t] \in Task /\ task \in [Tasks -> Task]
  BY <1>1, WaitingUnowed, RowTypes DEF IInv
<1>3. tick'.pc = "spawn" /\ tick'.pending = tick.pending
  BY <1>1 DEF Step, TickOK
<1>4. Unowed' /\ \A u \in Tasks : ~Owed(u) /\ ~Owed(u)'
  BY <1>2, <1>3 DEF Unowed, Owed
<1>5. RetryStatus(t) \in Phases /\ RetryStatus(t) \in Statuses /\ s \in Statuses
  BY <1>2, RetryPhase, StatusTypes
<1>6. left \in Task /\ left.status = s /\ left.lock = NoLock /\ left.failures = task[t].failures
  BY <1>2, <1>5, UnclaimedFacts, UnclaimedLock
<1>7. task'[t] = x /\ \A u \in Tasks : u # t => task'[u] = task[u]
  BY <1>1, <1>2 DEF Put
<1> HIDE DEF left
<1>8. /\ moved \in Task /\ moved.status = s /\ moved.lock = NoLock
      /\ moved.failures = task[t].failures + 1
  BY <1>6 DEF Task
<1> HIDE DEF moved
<1>9. y \in Task
  BY <1>2, <1>8
<1>10. x.status = y.status /\ x.lock = y.lock /\ x.failures = y.failures
  BY <1>9 DEF Task
<1> HIDE DEF x
<1>11. /\ Slack \in Nat /\ Limit \in Nat /\ FailureLimit \in Nat /\ FailureLimit <= Limit
       /\ spent[t] \in Nat /\ task[t].failures \in Nat /\ Within(t) /\ Counted(t)
  BY <1>1, <1>2, BudgetTypes, LimitAssumption DEF BInv, Budget
<1>12. \/ task[t].status = "running" /\ spent'[t] = spent[t] + 1
       \/ task[t].status # "running" /\ spent'[t] = spent[t]
  <2>1. CASE task[t].run # 0 /\ IsOpen(run[task[t].run])
    <3>1. task[t].status = "running"
      BY <1>0, <1>1, <2>1 DEF BInv, TickKnown, Behind
    <3> QED BY <1>1, <1>2, <2>1, <3>1 DEF Spend, OpenRunsOf, IsOpen
  <2>2. CASE ~(task[t].run # 0 /\ IsOpen(run[task[t].run]))
    <3>1. task[t].status # "running"
      BY <1>2, <2>2 DEF IInv, Rows, RunsMatchClaims, Running, IsOpen
    <3> QED BY <1>1, <1>2, <2>2, <3>1 DEF Spend, OpenRunsOf, IsOpen
  <2> QED BY <2>1, <2>2
<1>13. \A u \in Tasks : u # t => spent'[u] = spent[u]
  BY <1>1 DEF Spend, OpenRunsOf
<1>14. Within(t)' /\ Counted(t)'
  <2>1. CASE task[t].status = "running" /\ spent'[t] = spent[t] + 1
    <3>1. spent[t] < Limit + Slack /\ spent[t] <= task[t].failures + Slack
      BY <1>4, <1>2, <1>11, <2>1 DEF Within, Counted, Live, Active
    <3>2. task'[t].status = s /\ task'[t].failures = task[t].failures + 1
      BY <1>7, <1>8, <1>10, <2>1
    <3>3. Counted(t)'
      BY <1>1, <1>2, <1>4, <1>11, <2>1, <3>1, <3>2 DEF Counted
    <3>4. s # "blocked" => spent[t] + 1 < Limit + Slack
      BY <1>11, <3>1
    <3>5. Within(t)'
      BY <1>1, <1>2, <1>4, <1>11, <2>1, <3>1, <3>2, <3>4 DEF Within, Live, Active
    <3> QED BY <3>3, <3>5
  <2>2. CASE task[t].status # "running" /\ spent'[t] = spent[t]
    <3>1. \/ task'[t].status = "blocked" /\ task'[t].failures = task[t].failures + 1
          \/ task'[t].status = task[t].status /\ task'[t].failures = task[t].failures
      BY <1>7, <1>8, <1>10, <2>2
    <3> QED BY <1>1, <1>2, <1>4, <1>11, <2>2, <3>1 DEF Within, Counted, Live, Active
  <2> QED BY <1>12, <2>1, <2>2
<1>15. \A u \in Tasks : u # t => Within(u)' /\ Counted(u)'
  BY <1>1, <1>4, <1>7, <1>13, SameBudget
<1>16. Releasing'
  <2>1. \/ task'[t].lock = NoLock
        \/ task'[t].lock = task[t].lock /\ spent'[t] = spent[t]
    BY <1>7, <1>8, <1>10, <1>12
  <2> QED BY <1>1, <1>7, <1>13, <2>1, ReleasingKept
<1>17. TickKnown'
  BY <1>3, <1>4 DEF TickKnown, Unowed
<1> QED BY <1>1, <1>14, <1>15, <1>16, <1>17 DEF BInv, Budget

-----------------------------------------------------------------------------
\* The invariant and the theorem.

LEMMA InitBudget == Init => BInv
<1> SUFFICES ASSUME Init PROVE BInv
  OBVIOUS
<1>1. /\ commands = 0 /\ boots = 1 /\ tick = IdleTick /\ reclaim.pc = "idle"
      /\ \A t \in Tasks : spent[t] = 0 /\ task[t].failures = 0
  BY DEF Init, NewTask, NoReclaim
<1>2. Limit \in Nat \ {0} /\ Slack = 0
  BY <1>1, BudgetTypes DEF Slack
<1>3. \A t \in Tasks : ~Owed(t)
  BY <1>1 DEF Owed, IdleTick
<1>4. Budget
  BY <1>1, <1>2, <1>3 DEF Budget, Within, Counted
<1>5. TickKnown
  BY <1>1, <1>3 DEF TickKnown, IdleTick
<1> QED BY <1>1, <1>4, <1>5 DEF BInv, Releasing

LEMMA NextBudget == IInv /\ BInv /\ [Next]_vars => BInv'
<1> SUFFICES ASSUME IInv, BInv, [Next]_vars PROVE BInv'
  OBVIOUS
<1>0. IInv'
  BY NextInv
<1>1. CASE Dispatch \/ DispatcherCrash
  BY <1>0, <1>1, ProcessBudget, StaleBudget, CrashedReleasedBudget, CrashAccountedBudget,
     TimeoutReleasedBudget, TimeoutAccountedBudget, PromotedBudget, DispatchedBudget,
     PidRecordedBudget, SpawnFailedBudget, DispatcherCrashBudget DEF Dispatch
<1>2. ASSUME NEW t \in Tasks, Complete(t) \/ Block(t) \/ RequestReview(t) \/ RequestChanges(t)
                              \/ Schedule(t) \/ ReopenReview(t)
      PROVE  BInv'
  <2>1. Quiet /\ Fine
    BY <1>2, CompleteQuiet, BlockQuiet, EndingsQuiet, CompleteFine, BlockFine, EndingsFine
  <2>2. UNCHANGED reclaim /\ lastRun' = lastRun
    BY <1>2 DEF Complete, Block, RequestReview, RequestChanges, Schedule, ReopenReview
  <2> QED BY <1>0, <2>1, <2>2, QuietBudget
<1>3. ASSUME NEW t \in Tasks, ManualClaim(t) \/ Unblock(t) \/ Promote(t) \/ Specify(t)
                              \/ Archive(t) \/ Link(t)
      PROVE  BInv'
  <2>1. Quiet /\ Fine /\ Slack' = Slack + 1
    BY <1>3, ManualClaimQuiet, UnblockQuiet, PromoteQuiet, SpecifyQuiet, ArchiveQuiet,
       LinkQuiet, ManualClaimFine, CommandsFine
  <2>2. UNCHANGED reclaim
    BY <1>3 DEF ManualClaim, Unblock, Promote, Specify, Archive, Link
  <2> QED BY <1>0, <2>1, <2>2, QuietBudget
<1>4. ASSUME NEW t \in Tasks, ReclaimStart(t) PROVE BInv'
  BY <1>0, <1>4, ReclaimQuiet, CommandsFine, ReclaimStartReleasing, QuietBudget
<1>5. CASE ReclaimRelease \/ ReclaimClear
  BY <1>0, <1>5, ReclaimQuiet, ReclaimFine, QuietBudget
<1>6. ASSUME NEW t \in Tasks, ClaimExpires(t) \/ ParentsDone(t) PROVE BInv'
  BY <1>0, <1>6, TimeQuiet, ParentsDoneQuiet, TimeFine, QuietBudget
<1>7. ASSUME NEW r \in RunIds, Heartbeat(r) \/ WorkerExit(r) PROVE BInv'
  BY <1>0, <1>7, TimeQuiet, WorkerExitQuiet, TimeFine, QuietBudget
<1>8. CASE UNCHANGED vars
  BY <1>8 DEF vars, BInv, Budget, Within, Counted, Owed, Slack, Releasing, TickKnown, Behind,
     Alive
<1> QED BY <1>1, <1>2, <1>3, <1>4, <1>5, <1>6, <1>7, <1>8 DEF Next, Operator

\* Between two ticks a task that may be claimed has failed fewer times than the
\* larger of its limits, and one more for each command and each death of the
\* dispatcher, which may hide a failure: release, count, breaker and promotion are
\* transactions of their own, and no order of them loses any other.
THEOREM BudgetHolds == Spec => []RetryBudget
<1>1. IInv /\ BInv => RetryBudget
  <2> SUFFICES ASSUME IInv, BInv, tick.pc = "idle", NEW t \in Tasks, task[t].status \in Phases
               PROVE  \E limit \in {FailureLimit, DefaultLimit} :
                        spent[t] < limit + commands + (boots - 1)
    BY DEF RetryBudget
  <2>1. ~Owed(t)
    BY WaitingUnowed, NobodyOwed
  <2>2. spent[t] < Limit + Slack
    BY <2>1 DEF BInv, Budget, Within, Live, Active, Phases
  <2>3. Limit \in {FailureLimit, DefaultLimit}
    BY DEF Limit
  <2>4. \A l, c \in Nat, b \in 1..MaxBoots : l + (c + (b - 1)) = l + c + (b - 1)
    BY BoundAssumption
  <2>5. Limit \in Nat /\ commands \in Nat /\ boots \in 1..MaxBoots
    BY BudgetTypes DEF BInv, Budget, IInv, Rest
  <2> QED BY <2>2, <2>3, <2>4, <2>5 DEF Slack
<1>2. Spec => []BInv
  <2>1. IInv /\ BInv /\ [Next]_vars => BInv'
    BY NextBudget
  <2> QED BY <2>1, InitBudget, Invariance, PTL DEF Spec
<1> QED BY <1>1, <1>2, Invariance, PTL
=============================================================================
