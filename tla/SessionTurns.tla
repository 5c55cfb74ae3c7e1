---------------------------- MODULE SessionTurns ----------------------------
(***************************************************************************)
(* One stored conversation shared by several processes.  Its transcript is a *)
(* chain of sessions (segments): a compaction either replaces the rows of a   *)
(* segment by a summary (in place) or closes it and publishes a child that     *)
(* starts with the summary (rotation).  A turn holds the turn lease of the     *)
(* conversation while it loads, runs and writes; a compaction, in a turn or    *)
(* asked for between turns, holds the compression lock of its segment.  Both   *)
(* are rows with an expiry, which another process may take over.               *)
(*                                                                          *)
(* services/session_db_*.py hold the transactions, agent/loop.py the turn,     *)
(* agent/conversation_compression.py the compaction.  A transaction is one      *)
(* action; what a process does between two of them is interleaved.             *)
(*                                                                          *)
(* A definition whose name ends in an underscore and a word is a mutant: the   *)
(* definition after it with a plausible bug, which no specification uses.      *)
(***************************************************************************)
EXTENDS Integers, Sequences, FiniteSets, SequencesExt

CONSTANTS
  Agents,          \* processes that have the conversation open
  Rotates,         \* how compactions may be configured: TRUE for rotation, FALSE for in place
  MaxTurns,        \* bound on the turns that are started
  MaxCompactions,  \* bound on the compactions that are started
  MaxCrashes,      \* bound on the processes that die
  MaxEvents,       \* bound on the three together, a crash counting twice
  None

ASSUME RotatesAssumption == Rotates \subseteq BOOLEAN
ASSUME BoundsAssumption == {MaxTurns, MaxCompactions, MaxCrashes, MaxEvents} \subseteq Nat

VARIABLES
  segment,  \* the sessions of the conversation
  next,     \* the next row id
  lease,    \* the turn lease, keyed by the root of the chain
  lock,     \* the compression lock of each segment
  agent,    \* the processes
  spent,    \* turns, compactions and crashes so far
  log       \* history: the turns whose messages were appended, in order

vars == <<segment, next, lease, lock, agent, spent, log>>

Turns    == 1 .. MaxTurns
Segments == 1 .. (MaxCompactions + 2)
Root     == 1

ASSUME NoneAssumption == None \notin Agents \cup Turns \cup Segments

\* The message the conversation began with, and the input and reply of every turn.
Messages   == 0 .. 2 * MaxTurns
Input(t)   == t
Answer(t)  == t + MaxTurns

\* A live row stands for the messages it holds or summarises.  Archived rows are not kept.
Row == [id : Nat, holds : SUBSET Messages]

\* `closed': ended by a compaction.  `ended': ended for another reason.
Segment == [state : {"absent", "open", "closed", "ended"}, parent : Segments \cup {None},
            rows : Seq(Row)]
Absent == [state |-> "absent", parent |-> None, rows |-> <<>>]

\* `orphan': the process of the holder is gone.  The clocks are reduced to whether the
\* expiry has passed.
Held(holders) == [holder : holders \cup {None}, expired : BOOLEAN, orphan : BOOLEAN]
By(holder)    == [holder |-> holder, expired |-> FALSE, orphan |-> FALSE]
Free          == By(None)

TurnSteps       == {"wait", "recover", "reopen", "run"}
CompactionSteps == {"mark", "check", "adopt", "reread", "summarise", "ceiling", "flush",
                    "publish", "release"}

\* `memory': its messages.  A flush skips the first `saved' of them; `marked' of these it
\* has stamped itself, the others it knows from the list it was given.  `at': the segment
\* it compacts.
Agent == [pc : {"down", "idle"} \cup TurnSteps \cup CompactionSteps, rotate : BOOLEAN,
          turn : Turns \cup {None}, waited : BOOLEAN, interrupted : BOOLEAN,
          seg : Segments, memory : Seq(SUBSET Messages), saved : Nat, marked : Nat,
          at : Segments \cup {None}, wm : Nat, ceil : Nat]

Fresh(rotate) ==
  [pc |-> "idle", rotate |-> rotate, turn |-> None, waited |-> FALSE, interrupted |-> FALSE,
   seg |-> Root, memory |-> <<{0}>>, saved |-> 1, marked |-> 0,
   at |-> None, wm |-> 0, ceil |-> 0]

\* The processes read one configuration.  Older builds left closed segments without a
\* child; a child may have been ended since.
Init ==
  /\ \E root \in {"open", "closed"}, child \in {"absent", "ended"} :
       /\ child = "ended" => root = "closed"
       /\ segment = [s \in Segments |->
            CASE s = Root -> [state |-> root, parent |-> None,
                              rows |-> <<[id |-> 1, holds |-> {0}]>>]
              [] s = 2 /\ child = "ended" -> [state |-> child, parent |-> Root,
                              rows |-> <<[id |-> 2, holds |-> {0}]>>]
              [] OTHER -> Absent]
  /\ next = 3
  /\ lease = Free
  /\ lock = [s \in Segments |-> Free]
  /\ \E rotate \in Rotates : agent = [a \in Agents |-> Fresh(rotate)]
  /\ spent = [turns |-> 0, compactions |-> 0, crashes |-> 0]
  /\ log = <<>>

-----------------------------------------------------------------------------
\* Reads of the store.

State(s)    == segment[s].state
Open        == {s \in Segments : State(s) = "open"}
Children(s) == {k \in Segments : segment[k].parent = s}

\* get_compression_tip: follows the children of closed segments.
Tip(s) ==
  LET tip[k \in Segments] ==
        IF State(k) = "closed" /\ Children(k) # {}
        THEN tip[CHOOSE c \in Children(k) : TRUE] ELSE k
  IN tip[s]

\* A continuation other than the segment itself, still open.
LiveTip(s) == Tip(s) # s /\ Tip(s) \in Open

Holds(rows)     == [i \in DOMAIN rows |-> rows[i].holds]
Content(rows)   == UNION {rows[i].holds : i \in DOMAIN rows}
Transcript(s)   == Holds(segment[s].rows)
Watermark(s)    == IF segment[s].rows = <<>> THEN 0 ELSE Last(segment[s].rows).id

\* Rows for a list of messages, numbered from the next row id.
Rows_Same(list, from) == [i \in DOMAIN list |-> [id |-> from, holds |-> list[i]]]
Rows(list, from)      == [i \in DOMAIN list |-> [id |-> from + i - 1, holds |-> list[i]]]

Pending(p) == SubSeq(p.memory, p.saved + 1, Len(p.memory))

More(kind, bound) ==
  spent[kind] < bound /\ spent.turns + spent.compactions + 2 * spent.crashes < MaxEvents

At(a, pc) == agent[a].pc = pc
Set(a, p) == agent' = [agent EXCEPT ![a] = p]
Load(p, s) ==
  [p EXCEPT !.seg = s, !.memory = Transcript(s), !.saved = Len(Transcript(s)), !.marked = 0]

\* A compaction is over: back to the turn, or to between turns.
Back(p) == [p EXCEPT !.pc = IF p.turn = None THEN "idle" ELSE "run",
                     !.at = None, !.wm = 0, !.ceil = 0]

-----------------------------------------------------------------------------
\* Writes to the transcript.

\* _check_transcript_write_guards: only the holder writes, expired or not; a write
\* between turns has no holder to check.
MayWrite_Expiry(p) == p.turn = None \/ lease.holder \in {p.turn, None} \/ lease.expired
MayWrite(p)        == p.turn = None \/ lease.holder = p.turn

\* A flush goes to the segment of the agent, or, once, to the tip it was continued in.
Target(p)   == IF State(p.seg) = "closed" /\ LiveTip(p.seg) THEN Tip(p.seg) ELSE p.seg
CanFlush(p) == MayWrite(p) /\ State(Target(p)) # "closed"

\* append_messages_batch; an expired lease that is still held is renewed.
AppendPending(p) ==
  LET list == Pending(p)
  IN /\ segment' = [segment EXCEPT ![Target(p)].rows = @ \o Rows(list, next)]
     /\ next' = next + Len(list)
     /\ lease' = IF list # <<>> /\ p.turn # None THEN [lease EXCEPT !.expired = FALSE] ELSE lease
     /\ log' = IF list = <<>> \/ p.turn = None \/ (log # <<>> /\ Last(log) = p.turn)
               THEN log ELSE Append(log, p.turn)
-----------------------------------------------------------------------------
\* A turn: loop.py run_conversation, turn_context.py.

StartTurn(a) ==
  /\ At(a, "idle") /\ More("turns", MaxTurns)
  /\ spent' = [spent EXCEPT !.turns = @ + 1]
  /\ Set(a, [agent[a] EXCEPT !.pc = "wait", !.turn = spent.turns + 1, !.waited = FALSE,
                             !.interrupted = FALSE])
  /\ UNCHANGED <<segment, next, lease, lock, log>>

Takeable(l) == l.holder = None \/ l.expired \/ l.orphan

\* A turn that had to wait reads the transcript again; one that had not trusts its memory.
Admit(a) ==
  LET p == [agent[a] EXCEPT !.pc = "recover"]
  IN /\ At(a, "wait") /\ Takeable(lease)
     /\ lease' = By(p.turn)
     /\ Set(a, IF p.waited THEN Load(p, Tip(p.seg)) ELSE p)
     /\ UNCHANGED <<segment, next, lock, spent, log>>

\* The clock was read before the write lock was won, so an expiry may be missed.
KeepWaiting(a) ==
  /\ At(a, "wait") /\ lease.holder # None /\ ~lease.orphan /\ ~agent[a].waited
  /\ Set(a, [agent[a] EXCEPT !.waited = TRUE])
  /\ UNCHANGED <<segment, next, lease, lock, spent, log>>

\* Interrupted or out of patience.
GiveUp(a) ==
  /\ At(a, "wait")
  /\ Set(a, [agent[a] EXCEPT !.pc = "idle", !.turn = None])
  /\ UNCHANGED <<segment, next, lease, lock, spent, log>>

Begin(p) == [p EXCEPT !.pc = "run", !.memory = Append(@, {Input(p.turn)}), !.saved = Len(p.memory)]

\* recover_rotated_compression_session, then the input joins the memory.
Recover(a) ==
  LET p == agent[a]
  IN /\ At(a, "recover")
     /\ Set(a, IF State(p.seg) # "closed" THEN Begin(p)
               ELSE IF LiveTip(p.seg) THEN Begin(Load(p, Tip(p.seg)))
               ELSE IF lock[p.seg].holder # None /\ ~lock[p.seg].expired THEN Begin(p)
               ELSE [p EXCEPT !.pc = "reopen"])
     /\ UNCHANGED <<segment, next, lease, lock, spent, log>>

\* reopen_orphaned_compression_session
Reopenable_Childless(s) ==
  /\ State(s) = "closed"
  /\ ~LiveTip(s)
  /\ lock[s].holder = None \/ lock[s].expired
Reopenable(s) ==
  /\ State(s) = "closed"
  /\ Children(s) = {}
  /\ lock[s].holder = None \/ lock[s].expired

Reopen(a) ==
  LET s == agent[a].seg
  IN /\ At(a, "reopen")
     /\ IF Reopenable(s)
        THEN /\ segment' = [segment EXCEPT ![s].state = "open"]
             /\ lock' = [lock EXCEPT ![s] = Free]
        ELSE UNCHANGED <<segment, lock>>
     /\ Set(a, Begin(agent[a]))
     /\ UNCHANGED <<next, lease, spent, log>>

Reply(a) ==
  LET p == agent[a]
  IN /\ At(a, "run") /\ ~p.interrupted
     /\ Answer(p.turn) \notin UNION Range(p.memory)
     /\ Set(a, [p EXCEPT !.memory = Append(@, {Answer(p.turn)})])
     /\ UNCHANGED <<segment, next, lease, lock, spent, log>>

\* _flush_messages_to_session_db, wherever the loop persists; refused, it changes nothing.
Flush(a) ==
  LET p == agent[a]
  IN /\ At(a, "run") /\ Pending(p) # <<>> /\ CanFlush(p)
     /\ AppendPending(p)
     /\ Set(a, [p EXCEPT !.seg = Target(p), !.saved = Len(p.memory), !.marked = Len(p.memory)])
     /\ UNCHANGED <<lock, spent>>

\* The turn ends after a last flush, written or refused; its release deletes its own lease.
Released(l, t) == IF l.holder = t THEN Free ELSE l

EndTurn(a) ==
  LET p == agent[a]
  IN /\ At(a, "run") /\ (Pending(p) = <<>> \/ ~CanFlush(p))
     /\ lease' = Released(lease, p.turn)
     /\ Set(a, [p EXCEPT !.pc = "idle", !.turn = None, !.saved = Len(p.memory)])
     /\ UNCHANGED <<segment, next, lock, spent, log>>

\* The refresher of the turn: a lease that is another's interrupts the turn.
RefreshLease(a) ==
  LET p == agent[a]
  IN /\ p.pc \in {"recover", "reopen", "run"} \cup CompactionSteps /\ p.turn # None
     /\ IF lease.holder = p.turn
        THEN lease' = [lease EXCEPT !.expired = FALSE] /\ UNCHANGED agent
        ELSE Set(a, [p EXCEPT !.interrupted = TRUE]) /\ UNCHANGED lease
     /\ UNCHANGED <<segment, next, lock, spent, log>>

-----------------------------------------------------------------------------
\* A compaction: conversation_compression.py compress_context.

Lockable(s) == Takeable(lock[s])

\* In a turn, or by /compress between turns.
TryLock(a) ==
  LET p == agent[a]
  IN /\ p.pc \in {"idle", "run"} /\ ~p.interrupted /\ Len(p.memory) > 1
     /\ More("compactions", MaxCompactions)
     /\ Lockable(p.seg)
     /\ spent' = [spent EXCEPT !.compactions = @ + 1]
     /\ lock' = [lock EXCEPT ![p.seg] = By(a)]
     /\ Set(a, [p EXCEPT !.pc = "mark", !.at = p.seg])
     /\ UNCHANGED <<segment, next, lease, log>>

Mark(a) ==
  /\ At(a, "mark")
  /\ Set(a, [agent[a] EXCEPT !.pc = "check", !.wm = Watermark(agent[a].at)])
  /\ UNCHANGED <<segment, next, lease, lock, spent, log>>

\* The lock does not prove that the segment is still open: adopt its continuation.
CheckParent(a) ==
  LET p == agent[a]
  IN /\ At(a, "check")
     /\ Set(a, IF State(p.at) # "closed"
               THEN [p EXCEPT !.pc = IF p.rotate THEN "adopt" ELSE "summarise"]
               ELSE [(IF LiveTip(p.at) THEN Load(p, Tip(p.at)) ELSE p) EXCEPT !.pc = "release"])
     /\ UNCHANGED <<segment, next, lease, lock, spent, log>>

\* The store has more rows than the memory: write what the memory has not written, ...
AdoptDurable(a) ==
  LET p == agent[a]
  IN /\ At(a, "adopt")
     /\ IF Len(Transcript(p.at)) > Len(p.memory) /\ (Pending(p) = <<>> \/ CanFlush(p))
        THEN /\ AppendPending(p)
             /\ Set(a, [p EXCEPT !.pc = "reread", !.seg = Target(p), !.saved = Len(p.memory),
                                 !.marked = Len(p.memory)])
        ELSE /\ Set(a, [p EXCEPT !.pc = "summarise"])
             /\ UNCHANGED <<segment, next, lease, log>>
     /\ UNCHANGED <<lock, spent>>

\* ... and take the rows over.
Reread(a) ==
  LET p == agent[a]
  IN /\ At(a, "reread")
     /\ Set(a, [(IF Len(Transcript(p.at)) > Len(p.memory)
                 THEN [Load(p, p.at) EXCEPT !.seg = p.seg] ELSE p) EXCEPT !.pc = "summarise"])
     /\ UNCHANGED <<segment, next, lease, lock, spent, log>>

\* What compress() may return: all messages summarised, or all but the last.  It works on
\* the memory alone, so the choice is left to the write that uses it.
Summaries(list) ==
  {<<UNION Range(SubSeq(list, 1, k))>> \o SubSeq(list, k + 1, Len(list)) :
     k \in {Len(list) - 1, Len(list)} \ {1}}

\* No summary, or one that is longer: the memory stays.
Abandon(a) ==
  /\ At(a, "summarise")
  /\ Set(a, [agent[a] EXCEPT !.pc = "release"])
  /\ UNCHANGED <<segment, next, lease, lock, spent, log>>

\* _compression_lease_matches_on_conn
Owns(a, s) == lock[s].holder = a /\ ~lock[s].expired

\* Rows of a segment that came between two row ids; its rows are in the order of their ids.
UpTo(s, id)           == Cardinality({i \in DOMAIN segment[s].rows : segment[s].rows[i].id <= id})
Between(s, low, high) == SubSeq(segment[s].rows, UpTo(s, low) + 1, UpTo(s, high))

\* archive_and_compact: the summary, then the rows that came since the watermark.  When it
\* is refused the agent goes on with the summary, of which nothing is written.
CommitInPlace(a) ==
  LET p == agent[a]
      done == [p EXCEPT !.pc = "release", !.marked = 0]
  IN /\ At(a, "summarise") /\ ~p.rotate
     /\ \E summary \in Summaries(p.memory) :
          LET list == summary \o Holds(Between(p.seg, p.wm, next))
          IN IF Owns(a, p.seg)
             THEN /\ segment' = [segment EXCEPT ![p.seg].rows = Rows(list, next)]
                  /\ next' = next + Len(list)
                  /\ Set(a, [done EXCEPT !.memory = summary, !.saved = Len(summary)])
             ELSE /\ Set(a, [done EXCEPT !.memory = summary, !.saved = 0])
                  /\ UNCHANGED <<segment, next>>
     /\ UNCHANGED <<lease, lock, spent, log>>

\* A rotation that fails goes back to the messages it had before it wrote its own; it
\* knows only the ones it had stamped.
Undo(p) == [p EXCEPT !.pc = "release", !.saved = p.marked]

CheckEnded(a) ==
  LET p == agent[a]
  IN /\ At(a, "summarise") /\ p.rotate
     /\ Set(a, IF State(p.seg) \in {"closed", "ended"} THEN Undo(p) ELSE [p EXCEPT !.pc = "ceiling"])
     /\ UNCHANGED <<segment, next, lease, lock, spent, log>>

Ceiling(a) ==
  /\ At(a, "ceiling")
  /\ Set(a, [agent[a] EXCEPT !.pc = "flush", !.ceil = Watermark(agent[a].seg)])
  /\ UNCHANGED <<segment, next, lease, lock, spent, log>>

\* The parent gets the messages of the turn before it is closed.
FlushOwn(a) ==
  LET p == agent[a]
  IN /\ At(a, "flush")
     /\ IF Pending(p) # <<>> /\ CanFlush(p)
        THEN AppendPending(p) /\ Set(a, [p EXCEPT !.pc = "publish", !.seg = Target(p)])
        ELSE Set(a, [p EXCEPT !.pc = "publish"]) /\ UNCHANGED <<segment, next, lease, log>>
     /\ UNCHANGED <<lock, spent>>

\* publish_compression_child
Publish(a) ==
  LET p == agent[a]
  IN /\ At(a, "publish")
     /\ IF Owns(a, p.seg) /\ p.seg \in Open
        THEN \E summary \in Summaries(p.memory), child \in Segments :
               LET list == summary \o Holds(Between(p.seg, p.wm, p.ceil))
               IN /\ State(child) = "absent" /\ \A s \in 1 .. child - 1 : State(s) # "absent"
                  /\ segment' = [segment EXCEPT ![p.seg].state = "closed",
                                   ![child] = [state |-> "open", parent |-> p.seg,
                                               rows |-> Rows(list, next)]]
                  /\ next' = next + Len(list)
                  /\ Set(a, [p EXCEPT !.pc = "release", !.seg = child, !.memory = summary,
                                      !.saved = Len(summary), !.marked = 0])
        ELSE Set(a, Undo(p)) /\ UNCHANGED <<segment, next>>
     /\ UNCHANGED <<lease, lock, spent, log>>

Release(a) ==
  LET p == agent[a]
  IN /\ At(a, "release")
     /\ lock' = [lock EXCEPT ![p.at] = IF @.holder = a THEN Free ELSE @]
     /\ Set(a, Back(p))
     /\ UNCHANGED <<segment, next, lease, spent, log>>

\* The refresher of the lock goes by the holder alone.
Revived_Upsert(l, a) == By(a)
Revived(l, a)        == IF l.holder = a THEN [l EXCEPT !.expired = FALSE] ELSE l

RefreshLock(a) ==
  LET p == agent[a]
  IN /\ p.pc \in CompactionSteps \ {"mark", "check", "release"}
     /\ lock' = [lock EXCEPT ![p.at] = Revived(@, a)]
     /\ UNCHANGED <<segment, next, lease, agent, spent, log>>

-----------------------------------------------------------------------------
\* Time and crashes.

LeaseExpires ==
  /\ lease.holder # None /\ ~lease.expired
  /\ lease' = [lease EXCEPT !.expired = TRUE]
  /\ UNCHANGED <<segment, next, lock, agent, spent, log>>

LockExpires(s) ==
  /\ lock[s].holder # None /\ ~lock[s].expired
  /\ lock' = [lock EXCEPT ![s].expired = TRUE]
  /\ UNCHANGED <<segment, next, lease, agent, spent, log>>

Crash(a) ==
  LET p == agent[a]
  IN /\ p.pc # "down" /\ More("crashes", MaxCrashes)
     /\ spent' = [spent EXCEPT !.crashes = @ + 1]
     /\ lease' = IF p.turn # None /\ lease.holder = p.turn THEN [lease EXCEPT !.orphan = TRUE] ELSE lease
     /\ lock' = [s \in Segments |->
                   IF lock[s].holder = a THEN [lock[s] EXCEPT !.orphan = TRUE] ELSE lock[s]]
     /\ Set(a, [Fresh(p.rotate) EXCEPT !.pc = "down"])
     /\ UNCHANGED <<segment, next, log>>

\* A new process opens the conversation: resolve_resume_session_id.
Resume(a) ==
  /\ At(a, "down")
  /\ Set(a, [Load(agent[a], Tip(Root)) EXCEPT !.pc = "idle"])
  /\ UNCHANGED <<segment, next, lease, lock, spent, log>>

Turn(a) ==
  \/ StartTurn(a) \/ Admit(a) \/ KeepWaiting(a) \/ GiveUp(a) \/ Recover(a) \/ Reopen(a)
  \/ Reply(a) \/ Flush(a) \/ EndTurn(a) \/ RefreshLease(a)

Compaction(a) ==
  \/ TryLock(a) \/ Mark(a) \/ CheckParent(a) \/ AdoptDurable(a) \/ Reread(a)
  \/ Abandon(a) \/ CommitInPlace(a)
  \/ CheckEnded(a) \/ Ceiling(a) \/ FlushOwn(a) \/ Publish(a) \/ Release(a) \/ RefreshLock(a)

Next ==
  \/ \E a \in Agents : Turn(a) \/ Compaction(a) \/ Crash(a) \/ Resume(a)
  \/ LeaseExpires
  \/ \E s \in Segments : LockExpires(s)

Spec == Init /\ [][Next]_vars

-----------------------------------------------------------------------------
\* Properties.

\* The types; row ids grow along a segment, which the watermarks rely on; what a process
\* has written is a prefix of its memory.
TypeOK ==
  /\ segment \in [Segments -> Segment]
  /\ next \in Nat
  /\ \A s \in Segments : \A i \in DOMAIN segment[s].rows :
       /\ segment[s].rows[i].id < next
       /\ \A k \in 1 .. i - 1 : segment[s].rows[k].id < segment[s].rows[i].id
  /\ lease \in Held(Turns)
  /\ lock \in [Segments -> Held(Agents)]
  /\ agent \in [Agents -> Agent]
  /\ \A a \in Agents : agent[a].marked <= agent[a].saved /\ agent[a].saved <= Len(agent[a].memory)
  /\ spent.turns \in 0 .. MaxTurns /\ spent.compactions \in 0 .. MaxCompactions
  /\ spent.crashes \in 0 .. MaxCrashes
  /\ log \in Seq(Turns)

\* The conversation never forks: a segment is continued at most once, and one that is
\* continued stays closed (publish_compression_child, which closes and continues at once;
\* reopen_orphaned_compression_session, whose two reads come before).
OneHead ==
  \A s \in Segments :
    /\ Cardinality(Children(s)) <= 1
    /\ Children(s) # {} => State(s) = "closed"

\* Turns append one after the other: once another turn has written, a turn that lost its
\* lease writes no more (_check_transcript_write_guards, release, reclaim).
TurnsSerial ==
  \A i, k \in DOMAIN log : i < k /\ log[i] = log[k] => \A j \in i .. k : log[j] = log[i]

\* Whoever owns a live lock has a watermark that still divides the live rows: no other
\* compaction has rewritten the segment since it was taken.
WatermarkLive ==
  \A a \in Agents :
    (/\ agent[a].pc \in CompactionSteps \ {"mark", "release"}
     /\ Owns(a, agent[a].at) /\ agent[a].wm # 0)
    => \E i \in DOMAIN segment[agent[a].at].rows : segment[agent[a].at].rows[i].id = agent[a].wm

\* A turn admitted at once, with no reload, starts from the whole live transcript
\* (the comment at loop.py:3256).  Violated by the code.
HistoryCurrent ==
  [][\A a \in Agents :
       (At(a, "wait") /\ agent'[a].pc = "recover" /\ ~agent[a].waited)
         => Content(segment[Tip(Root)].rows) \subseteq UNION Range(agent'[a].memory)]_vars
=============================================================================
