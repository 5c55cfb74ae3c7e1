------------------------- MODULE SessionTurnsProofs -------------------------
(***************************************************************************)
(* Proofs about SessionTurns, for every number of processes, turns and       *)
(* compactions: turns append one after the other, the chain of segments never *)
(* forks and is followed to its end, and a live compaction lock guards its     *)
(* watermark.                                                                *)
(*                                                                          *)
(* The first two do not depend on what a transcript holds, so their records    *)
(* are typed over an arbitrary set M of values: a step only adds the values it *)
(* writes.  The others need the types of the rows, and these that the recursive *)
(* Tip has a value: an induction, by the least number of a set that would       *)
(* refute it.                                                                *)
(***************************************************************************)
EXTENDS SessionTurns, TLAPS, FiniteSetTheorems, SequenceTheorems, NaturalsInduction,
        WellFoundedInduction

Steps == {"down", "idle"} \cup TurnSteps \cup CompactionSteps

AgentOver(M) ==
  [pc : Steps, rotate : BOOLEAN, turn : Turns \cup {None}, waited : BOOLEAN,
   interrupted : BOOLEAN, seg : M, memory : M, saved : M, marked : M, at : M, wm : M, ceil : M]

SegmentOver(M) ==
  [state : {"absent", "open", "closed", "ended"}, parent : Segments \cup {None}, rows : M]

\* A process has a turn exactly while it is in one; a compaction may be in a turn or not.
InStep(p) ==
  /\ p.pc \in {"down", "idle"} => p.turn = None
  /\ p.pc \in TurnSteps => p.turn # None

USE DEF Steps, TurnSteps, CompactionSteps

-----------------------------------------------------------------------------
\* Turns append one after the other.

\* The holder of the lease wrote last, if it wrote at all, and who waits has not written.
SerialInv ==
  /\ \E M : agent \in [Agents -> AgentOver(M)]
  /\ lease \in Held(Turns)
  /\ log \in Seq(Turns)
  /\ spent \in [turns : Nat, compactions : Nat, crashes : Nat]
  /\ \A a \in Agents : InStep(agent[a])
  /\ \A a \in Agents : agent[a].turn # None => agent[a].turn <= spent.turns
  /\ \A a, b \in Agents : a # b /\ agent[a].turn # None => agent[a].turn # agent[b].turn
  /\ lease.holder # None => lease.holder <= spent.turns
  /\ \A i \in DOMAIN log : log[i] <= spent.turns
  /\ \A a \in Agents : agent[a].pc = "wait" =>
       lease.holder # agent[a].turn /\ \A i \in DOMAIN log : log[i] # agent[a].turn
  /\ \A i \in DOMAIN log : log[i] = lease.holder => log[Len(log)] = log[i]
  /\ TurnsSerial

\* What a step may do to the processes without a turn starting or being admitted.
Calm ==
  /\ \E M : agent' \in [Agents -> AgentOver(M)]
  /\ \A b \in Agents :
       /\ InStep(agent'[b])
       /\ agent'[b].turn \in {agent[b].turn, None}
       /\ agent'[b].pc = "wait" => agent[b].pc = "wait" /\ agent'[b].turn = agent[b].turn

\* One process moves on, keeping its turn or leaving it.
LEMMA OneMoves ==
  ASSUME SerialInv, NEW a \in Agents, NEW p, NEW N, p \in AgentOver(N), InStep(p),
         p.turn \in {agent[a].turn, None},
         p.pc = "wait" => agent[a].pc = "wait" /\ p.turn = agent[a].turn,
         Set(a, p)
  PROVE  Calm
<1>1. PICK M : agent \in [Agents -> AgentOver(M)]
  BY DEF SerialInv
<1>2. agent' = [agent EXCEPT ![a] = p]
  BY DEF Set
<1>3. p \in AgentOver(M \cup N) /\ \A b \in Agents : agent[b] \in AgentOver(M \cup N)
  BY <1>1 DEF AgentOver
<1>4. agent' \in [Agents -> AgentOver(M \cup N)]
  BY <1>1, <1>2, <1>3
<1>5. agent'[a] = p /\ \A b \in Agents : b # a => agent'[b] = agent[b]
  BY <1>1, <1>2
<1>6. \A b \in Agents : InStep(agent'[b])
  BY <1>5 DEF SerialInv
<1>7. QED BY <1>4, <1>5, <1>6 DEF Calm

LEMMA NoneMoves ==
  ASSUME SerialInv, UNCHANGED agent
  PROVE  Calm
BY DEF SerialInv, Calm

\* A calm step that appends nothing and gives the lease to nobody.
LEMMA CalmKeeps ==
  ASSUME SerialInv, Calm, lease' \in Held(Turns), lease'.holder \in {lease.holder, None},
         log' = log, spent' \in [turns : Nat, compactions : Nat, crashes : Nat],
         spent.turns <= spent'.turns
  PROVE  SerialInv'
<1>0. None \notin Turns
  BY NoneAssumption
<1>1. \A i \in DOMAIN log : log[i] \in Turns
  BY DEF SerialInv
<1>2. TurnsSerial'
  BY DEF SerialInv, TurnsSerial
<1>3. \A a \in Agents : agent'[a].turn # None =>
        agent'[a].turn = agent[a].turn /\ agent'[a].turn <= spent'.turns
  BY DEF SerialInv, Calm, Turns, AgentOver
<1>4. \A a, b \in Agents : a # b /\ agent'[a].turn # None => agent'[a].turn # agent'[b].turn
  BY <1>3 DEF SerialInv, Calm
<1>5. lease'.holder # None => lease'.holder <= spent'.turns
  BY DEF SerialInv, Held, Turns
<1>6. \A i \in DOMAIN log' : log'[i] <= spent'.turns
  BY <1>1 DEF SerialInv, Turns
<1>7. \A a \in Agents : agent'[a].pc = "wait" =>
        lease'.holder # agent'[a].turn /\ \A i \in DOMAIN log' : log'[i] # agent'[a].turn
  <2> SUFFICES ASSUME NEW a \in Agents, agent'[a].pc = "wait"
               PROVE  lease'.holder # agent'[a].turn
                      /\ \A i \in DOMAIN log' : log'[i] # agent'[a].turn
    OBVIOUS
  <2>1. agent[a].pc = "wait" /\ agent'[a].turn = agent[a].turn
    BY DEF Calm
  <2>2. agent[a].turn # None
    BY <2>1 DEF SerialInv, InStep
  <2>3. QED BY <2>1, <2>2 DEF SerialInv
<1>8. \A i \in DOMAIN log' : log'[i] = lease'.holder => log'[Len(log')] = log'[i]
  BY <1>0, <1>1 DEF SerialInv
<1>9. QED
  BY <1>2, <1>3, <1>4, <1>5, <1>6, <1>7, <1>8 DEF SerialInv, Calm

\* A calm step in which the holder of the lease appends.
LEMMA AppendKeeps ==
  ASSUME SerialInv, Calm, lease' \in Held(Turns), lease'.holder = lease.holder,
         spent' = spent, lease.holder # None, log' = Append(log, lease.holder),
         log = <<>> \/ log[Len(log)] # lease.holder
  PROVE  SerialInv'
<1> DEFINE t == lease.holder
           n == Len(log)
<1>0. t \in Turns /\ t <= spent.turns /\ n \in Nat /\ DOMAIN log = 1 .. n
  BY DEF SerialInv, Held
<1>1. \A i \in 1 .. n : log[i] \in Turns /\ log[i] # t
  <2>1. ASSUME NEW i \in 1 .. n PROVE log[i] \in Turns /\ log[i] # t
    <3>1. log # <<>>
      BY <1>0
    <3>2. QED BY <1>0, <3>1 DEF SerialInv
  <2>2. QED BY <2>1
<1>2. /\ log' \in Seq(Turns) /\ Len(log') = n + 1 /\ DOMAIN log' = 1 .. n + 1
      /\ log'[n + 1] = t /\ \A i \in 1 .. n : log'[i] = log[i]
  BY <1>0 DEF SerialInv
<1>3. TurnsSerial'
  <2> SUFFICES ASSUME NEW i \in 1 .. n + 1, NEW k \in 1 .. n + 1, i < k, log'[i] = log'[k],
                      NEW j \in i .. k
               PROVE  log'[j] = log'[i]
    BY <1>2 DEF TurnsSerial
  <2>1. k # n + 1
    BY <1>0, <1>1, <1>2
  <2>2. k \in 1 .. n /\ i \in 1 .. n /\ j \in 1 .. n
    BY <1>0, <2>1
  <2>3. log[i] = log[k]
    BY <1>2, <2>2
  <2>4. log[j] = log[i]
    BY <1>0, <2>2, <2>3 DEF SerialInv, TurnsSerial
  <2>5. QED BY <1>2, <2>2, <2>4
<1>4. \A a \in Agents : agent'[a].turn # None =>
        agent'[a].turn = agent[a].turn /\ agent'[a].turn <= spent'.turns
  BY DEF SerialInv, Calm
<1>5. \A a, b \in Agents : a # b /\ agent'[a].turn # None => agent'[a].turn # agent'[b].turn
  BY <1>4 DEF SerialInv, Calm
<1>6. \A i \in DOMAIN log' : log'[i] <= spent'.turns
  BY <1>0, <1>2 DEF SerialInv
<1>7. \A a \in Agents : agent'[a].pc = "wait" =>
        lease'.holder # agent'[a].turn /\ \A i \in DOMAIN log' : log'[i] # agent'[a].turn
  <2> SUFFICES ASSUME NEW a \in Agents, agent'[a].pc = "wait"
               PROVE  lease'.holder # agent'[a].turn
                      /\ \A i \in DOMAIN log' : log'[i] # agent'[a].turn
    OBVIOUS
  <2>1. agent[a].pc = "wait" /\ agent'[a].turn = agent[a].turn
    BY DEF Calm
  <2>2. t # agent[a].turn /\ \A i \in 1 .. n : log[i] # agent[a].turn
    BY <1>0, <2>1 DEF SerialInv
  <2>3. QED BY <1>0, <1>2, <2>1, <2>2
<1>8. \A i \in DOMAIN log' : log'[i] = lease'.holder => log'[Len(log')] = log'[i]
  BY <1>1, <1>2
<1>9. lease'.holder # None => lease'.holder <= spent'.turns
  BY <1>0
<1>10. spent' \in [turns : Nat, compactions : Nat, crashes : Nat]
  BY DEF SerialInv
<1>11. QED
  BY <1>2, <1>3, <1>4, <1>5, <1>6, <1>7, <1>8, <1>9, <1>10 DEF SerialInv, Calm

\* What a write of a process does to the lease and the log: it is refused unless the
\* process holds the lease, and without a turn it leaves both alone.
LEMMA PendingWritten ==
  ASSUME SerialInv, NEW a \in Agents, AppendPending(agent[a]),
         Pending(agent[a]) = <<>> \/ MayWrite(agent[a])
  PROVE  /\ lease' \in Held(Turns) /\ lease'.holder = lease.holder
         /\ \/ log' = log
            \/ /\ lease.holder # None /\ log' = Append(log, lease.holder)
               /\ log = <<>> \/ log[Len(log)] # lease.holder
<1> DEFINE p == agent[a]
<1>1. lease' \in Held(Turns) /\ lease'.holder = lease.holder
  BY DEF AppendPending, SerialInv, Held
<1>2. CASE Pending(p) = <<>>
  BY <1>1, <1>2 DEF AppendPending
<1>3. CASE p.turn = None
  BY <1>1, <1>3 DEF AppendPending
<1>4. CASE p.turn # None /\ Pending(p) # <<>>
  <2>1. lease.holder = p.turn
    BY <1>4 DEF MayWrite
  <2>2. Last(log) = log[Len(log)]
    BY DEF Last
  <2>3. QED BY <1>1, <1>4, <2>1, <2>2 DEF AppendPending
<1>5. QED BY <1>2, <1>3, <1>4

LEMMA InitSerial == Init => SerialInv
<1> SUFFICES ASSUME Init PROVE SerialInv
  OBVIOUS
<1>0. None \notin Turns
  BY NoneAssumption
<1>1. PICK rotate \in Rotates : agent = [a \in Agents |-> Fresh(rotate)]
  BY DEF Init
<1>2. rotate \in BOOLEAN
  BY RotatesAssumption
<1>3. Fresh(rotate) \in AgentOver({Root, <<{0}>>, 0, 1, None})
  BY <1>2 DEF Fresh, AgentOver
<1>4. agent \in [Agents -> AgentOver({Root, <<{0}>>, 0, 1, None})]
  BY <1>1, <1>3
<1>5. \A a \in Agents : agent[a].pc = "idle" /\ agent[a].turn = None
  BY <1>1 DEF Fresh
<1>6. lease \in Held(Turns) /\ lease.holder = None
  BY DEF Init, Free, By, Held
<1>7. log \in Seq(Turns) /\ DOMAIN log = {} /\ spent \in [turns : Nat, compactions : Nat, crashes : Nat]
  BY DEF Init
<1>8. TurnsSerial
  BY <1>7 DEF TurnsSerial
<1>9. QED BY <1>4, <1>5, <1>6, <1>7, <1>8 DEF SerialInv, InStep

\* The transcript a process reads becomes its memory.
LEMMA Loaded ==
  ASSUME NEW M, NEW p \in AgentOver(M), NEW s
  PROVE  /\ \E N : Load(p, s) \in AgentOver(N)
         /\ Load(p, s).pc = p.pc /\ Load(p, s).turn = p.turn
<1>1. Load(p, s) \in AgentOver(M \cup {s, Transcript(s), Len(Transcript(s)), 0})
  BY DEF Load, AgentOver
<1>2. Load(p, s).pc = p.pc /\ Load(p, s).turn = p.turn
  BY DEF Load, AgentOver
<1>3. QED BY <1>1, <1>2

\* The input joins the memory of a turn that begins.
LEMMA Begun ==
  ASSUME NEW M, NEW p \in AgentOver(M)
  PROVE  /\ \E N : Begin(p) \in AgentOver(N)
         /\ Begin(p).pc = "run" /\ Begin(p).turn = p.turn
<1>1. Begin(p) \in AgentOver(M \cup {Append(p.memory, {Input(p.turn)}), Len(p.memory)})
  BY DEF Begin, AgentOver
<1>2. Begin(p).pc = "run" /\ Begin(p).turn = p.turn
  BY DEF Begin, AgentOver
<1>3. QED BY <1>1, <1>2

-----------------------------------------------------------------------------
\* The steps of a turn.

LEMMA StartTurnSerial ==
  ASSUME SerialInv, NEW a \in Agents, StartTurn(a)
  PROVE  SerialInv'
<1> DEFINE t == spent.turns + 1
           p == [agent[a] EXCEPT !.pc = "wait", !.turn = t, !.waited = FALSE, !.interrupted = FALSE]
<1>0. None \notin Turns
  BY NoneAssumption
<1>1. PICK M : agent \in [Agents -> AgentOver(M)]
  BY DEF SerialInv
<1>2. t \in Turns
  BY BoundsAssumption DEF StartTurn, More, Turns, SerialInv
<1>3. p \in AgentOver(M) /\ p.pc = "wait" /\ p.turn = t
  BY <1>1, <1>2 DEF AgentOver
<1>4. agent' = [agent EXCEPT ![a] = p]
  BY DEF StartTurn, Set
<1> HIDE DEF p
<1>5. /\ agent' \in [Agents -> AgentOver(M)] /\ agent'[a] = p
      /\ \A b \in Agents : b # a => agent'[b] = agent[b]
  BY <1>1, <1>3, <1>4
<1>6. /\ spent'.turns = t /\ spent' \in [turns : Nat, compactions : Nat, crashes : Nat]
      /\ UNCHANGED <<lease, log>> /\ spent.turns \in Nat
  BY DEF StartTurn, SerialInv
<1>7. \A i \in DOMAIN log : log[i] \in Turns /\ log[i] <= spent.turns
  BY DEF SerialInv
<1>8. \A b \in Agents : agent[b].turn # None => agent[b].turn \in Turns /\ agent[b].turn <= spent.turns
  BY <1>1 DEF SerialInv, AgentOver
<1>9. \A b \in Agents : agent'[b].turn # None => agent'[b].turn <= spent'.turns
  BY <1>2, <1>3, <1>5, <1>6, <1>8 DEF Turns
<1>10. \A b \in Agents : b # a => agent[b].turn # t
  BY <1>0, <1>2, <1>6, <1>8 DEF Turns
<1>11. \A b, c \in Agents : b # c /\ agent'[b].turn # None => agent'[b].turn # agent'[c].turn
  BY <1>3, <1>5, <1>10 DEF SerialInv
<1>12. lease.holder # t
  BY <1>0, <1>2, <1>6 DEF SerialInv, Held, Turns
<1>13. \A b \in Agents : agent'[b].pc = "wait" =>
         lease'.holder # agent'[b].turn /\ \A i \in DOMAIN log' : log'[i] # agent'[b].turn
  BY <1>2, <1>3, <1>5, <1>6, <1>7, <1>12 DEF SerialInv, Turns
<1>14. \A b \in Agents : InStep(agent'[b])
  BY <1>0, <1>2, <1>3, <1>5 DEF SerialInv, InStep
<1>15. TurnsSerial'
  BY <1>6 DEF SerialInv, TurnsSerial
<1>16. \A i \in DOMAIN log' : log'[i] <= spent'.turns
  BY <1>6, <1>7 DEF Turns
<1>17. lease'.holder # None => lease'.holder <= spent'.turns
  BY <1>6 DEF SerialInv, Held, Turns
<1>18. QED
  BY <1>5, <1>6, <1>9, <1>11, <1>13, <1>14, <1>15, <1>16, <1>17 DEF SerialInv

LEMMA AdmitSerial ==
  ASSUME SerialInv, NEW a \in Agents, Admit(a)
  PROVE  SerialInv'
<1> DEFINE t == agent[a].turn
           p == [agent[a] EXCEPT !.pc = "recover"]
           q == IF p.waited THEN Load(p, Tip(p.seg)) ELSE p
<1>0. None \notin Turns
  BY NoneAssumption
<1>1. PICK M : agent \in [Agents -> AgentOver(M)]
  BY DEF SerialInv
<1>2. p \in AgentOver(M) /\ p.pc = "recover" /\ p.turn = t
  BY <1>1 DEF AgentOver
<1>3. agent' = [agent EXCEPT ![a] = q] /\ lease' = By(p.turn) /\ UNCHANGED <<spent, log>>
  BY DEF Admit, Set
<1> HIDE DEF p
<1>4. PICK N : q \in AgentOver(N)
  BY <1>2, Loaded
<1>5. q.pc = "recover" /\ q.turn = t
  BY <1>2, Loaded
<1> HIDE DEF q
<1>6. q \in AgentOver(M \cup N) /\ \A b \in Agents : agent[b] \in AgentOver(M \cup N)
  BY <1>1, <1>4 DEF AgentOver
<1>7. /\ agent' \in [Agents -> AgentOver(M \cup N)] /\ agent'[a] = q
      /\ \A b \in Agents : b # a => agent'[b] = agent[b]
  BY <1>1, <1>3, <1>6
<1>8. t \in Turns /\ t <= spent.turns /\ agent[a].pc = "wait" /\ \A i \in DOMAIN log : log[i] # t
  BY <1>1 DEF SerialInv, InStep, AgentOver, Admit, At
<1>9. lease' \in Held(Turns) /\ lease'.holder = t
  BY <1>2, <1>3, <1>8 DEF By, Held
<1>10. \A b \in Agents : InStep(agent'[b])
  BY <1>0, <1>5, <1>7, <1>8 DEF SerialInv, InStep
<1>11. \A b \in Agents : agent'[b].turn = agent[b].turn
  BY <1>5, <1>7
<1>12. \A b \in Agents : agent'[b].pc = "wait" =>
         lease'.holder # agent'[b].turn /\ \A i \in DOMAIN log' : log'[i] # agent'[b].turn
  BY <1>0, <1>3, <1>5, <1>7, <1>8, <1>9 DEF SerialInv
<1>13. TurnsSerial'
  BY <1>3 DEF SerialInv, TurnsSerial
<1>14. \A i \in DOMAIN log' : log'[i] = lease'.holder => log'[Len(log')] = log'[i]
  BY <1>3, <1>8, <1>9
<1>15. \A b \in Agents : agent'[b].turn # None => agent'[b].turn <= spent'.turns
  BY <1>3, <1>11 DEF SerialInv
<1>16. \A b, c \in Agents : b # c /\ agent'[b].turn # None => agent'[b].turn # agent'[c].turn
  BY <1>11 DEF SerialInv
<1>17. /\ log' \in Seq(Turns) /\ spent' \in [turns : Nat, compactions : Nat, crashes : Nat]
       /\ \A i \in DOMAIN log' : log'[i] <= spent'.turns
  BY <1>3 DEF SerialInv
<1>18. lease'.holder <= spent'.turns
  BY <1>3, <1>8, <1>9
<1>19. QED
  BY <1>7, <1>9, <1>10, <1>12, <1>13, <1>14, <1>15, <1>16, <1>17, <1>18 DEF SerialInv

\* A step that moves one process and leaves the lease, the log and the counters alone.
LEMMA QuietKeeps ==
  ASSUME SerialInv, Calm, UNCHANGED <<lease, log, spent>>
  PROVE  SerialInv'
BY CalmKeeps DEF SerialInv

LEMMA KeepWaitingSerial ==
  ASSUME SerialInv, NEW a \in Agents, KeepWaiting(a)
  PROVE  SerialInv'
<1> DEFINE r == agent[a]
           p == [r EXCEPT !.waited = TRUE]
<1>1. PICK M : agent \in [Agents -> AgentOver(M)]
  BY DEF SerialInv
<1>2. p \in AgentOver(M \cup {}) /\ p.turn = r.turn /\ p.pc = r.pc
  BY <1>1 DEF AgentOver
<1>3. Set(a, p) /\ UNCHANGED <<lease, log, spent>>
  BY DEF KeepWaiting
<1>4. InStep(p)
  BY <1>2 DEF SerialInv, InStep, KeepWaiting, At
<1> HIDE DEF p
<1>5. Calm
  BY <1>2, <1>3, <1>4, OneMoves DEF KeepWaiting, At
<1>6. QED BY <1>3, <1>5, QuietKeeps

LEMMA GiveUpSerial ==
  ASSUME SerialInv, NEW a \in Agents, GiveUp(a)
  PROVE  SerialInv'
<1> DEFINE r == agent[a]
           p == [r EXCEPT !.pc = "idle", !.turn = None]
<1>1. PICK M : agent \in [Agents -> AgentOver(M)]
  BY DEF SerialInv
<1>2. p \in AgentOver(M \cup {}) /\ p.turn = None /\ p.pc = "idle"
  BY <1>1 DEF AgentOver
<1>3. Set(a, p) /\ UNCHANGED <<lease, log, spent>>
  BY DEF GiveUp
<1>4. InStep(p)
  BY <1>2 DEF SerialInv, InStep, GiveUp, At
<1> HIDE DEF p
<1>5. Calm
  BY <1>2, <1>3, <1>4, OneMoves DEF GiveUp, At
<1>6. QED BY <1>3, <1>5, QuietKeeps

LEMMA ReplySerial ==
  ASSUME SerialInv, NEW a \in Agents, Reply(a)
  PROVE  SerialInv'
<1> DEFINE r == agent[a]
           p == [r EXCEPT !.memory = Append(@, {Answer(r.turn)})]
<1>1. PICK M : agent \in [Agents -> AgentOver(M)]
  BY DEF SerialInv
<1>2. p \in AgentOver(M \cup {Append(r.memory, {Answer(r.turn)})}) /\ p.turn = r.turn /\ p.pc = r.pc
  BY <1>1 DEF AgentOver
<1>3. Set(a, p) /\ UNCHANGED <<lease, log, spent>>
  BY DEF Reply
<1>4. InStep(p)
  BY <1>2 DEF SerialInv, InStep, Reply, At
<1> HIDE DEF p
<1>5. Calm
  BY <1>2, <1>3, <1>4, OneMoves DEF Reply, At
<1>6. QED BY <1>3, <1>5, QuietKeeps

LEMMA MarkSerial ==
  ASSUME SerialInv, NEW a \in Agents, Mark(a)
  PROVE  SerialInv'
<1> DEFINE r == agent[a]
           p == [r EXCEPT !.pc = "check", !.wm = Watermark(r.at)]
<1>1. PICK M : agent \in [Agents -> AgentOver(M)]
  BY DEF SerialInv
<1>2. p \in AgentOver(M \cup {Watermark(r.at)}) /\ p.turn = r.turn /\ p.pc = "check"
  BY <1>1 DEF AgentOver
<1>3. Set(a, p) /\ UNCHANGED <<lease, log, spent>>
  BY DEF Mark
<1>4. InStep(p)
  BY <1>2 DEF SerialInv, InStep, Mark, At
<1> HIDE DEF p
<1>5. Calm
  BY <1>2, <1>3, <1>4, OneMoves DEF Mark, At
<1>6. QED BY <1>3, <1>5, QuietKeeps

LEMMA AbandonSerial ==
  ASSUME SerialInv, NEW a \in Agents, Abandon(a)
  PROVE  SerialInv'
<1> DEFINE r == agent[a]
           p == [r EXCEPT !.pc = "release"]
<1>1. PICK M : agent \in [Agents -> AgentOver(M)]
  BY DEF SerialInv
<1>2. p \in AgentOver(M \cup {}) /\ p.turn = r.turn /\ p.pc = "release"
  BY <1>1 DEF AgentOver
<1>3. Set(a, p) /\ UNCHANGED <<lease, log, spent>>
  BY DEF Abandon
<1>4. InStep(p)
  BY <1>2 DEF SerialInv, InStep, Abandon, At
<1> HIDE DEF p
<1>5. Calm
  BY <1>2, <1>3, <1>4, OneMoves DEF Abandon, At
<1>6. QED BY <1>3, <1>5, QuietKeeps

LEMMA CeilingSerial ==
  ASSUME SerialInv, NEW a \in Agents, Ceiling(a)
  PROVE  SerialInv'
<1> DEFINE r == agent[a]
           p == [r EXCEPT !.pc = "flush", !.ceil = Watermark(r.seg)]
<1>1. PICK M : agent \in [Agents -> AgentOver(M)]
  BY DEF SerialInv
<1>2. p \in AgentOver(M \cup {Watermark(r.seg)}) /\ p.turn = r.turn /\ p.pc = "flush"
  BY <1>1 DEF AgentOver
<1>3. Set(a, p) /\ UNCHANGED <<lease, log, spent>>
  BY DEF Ceiling
<1>4. InStep(p)
  BY <1>2 DEF SerialInv, InStep, Ceiling, At
<1> HIDE DEF p
<1>5. Calm
  BY <1>2, <1>3, <1>4, OneMoves DEF Ceiling, At
<1>6. QED BY <1>3, <1>5, QuietKeeps

LEMMA RecoverSerial ==
  ASSUME SerialInv, NEW a \in Agents, Recover(a)
  PROVE  SerialInv'
<1> DEFINE r == agent[a]
<1>1. PICK M : agent \in [Agents -> AgentOver(M)]
  BY DEF SerialInv
<1>2. r \in AgentOver(M) /\ r.turn # None
  BY <1>1 DEF SerialInv, InStep, Recover, At
<1>3. \E q : Set(a, q) /\ q \in {Begin(r), Begin(Load(r, Tip(r.seg))), [r EXCEPT !.pc = "reopen"]}
  BY DEF Recover
<1>4. ASSUME NEW q, Set(a, q),
             q \in {Begin(r), Begin(Load(r, Tip(r.seg))), [r EXCEPT !.pc = "reopen"]}
      PROVE  Calm
  <2>1. /\ \E N : Begin(r) \in AgentOver(N)
        /\ Begin(r).pc = "run" /\ Begin(r).turn = r.turn
    BY <1>2, Begun
  <2>2. PICK N : Load(r, Tip(r.seg)) \in AgentOver(N)
    BY <1>2, Loaded
  <2>3. /\ \E L : Begin(Load(r, Tip(r.seg))) \in AgentOver(L)
        /\ Begin(Load(r, Tip(r.seg))).pc = "run" /\ Begin(Load(r, Tip(r.seg))).turn = r.turn
    BY <1>2, <2>2, Begun, Loaded
  <2>4. /\ [r EXCEPT !.pc = "reopen"] \in AgentOver(M)
        /\ [r EXCEPT !.pc = "reopen"].pc = "reopen" /\ [r EXCEPT !.pc = "reopen"].turn = r.turn
    BY <1>2 DEF AgentOver
  <2>5. /\ \E N2 : q \in AgentOver(N2)
        /\ q.pc \in {"run", "reopen"} /\ q.turn = r.turn
    BY <1>4, <2>1, <2>3, <2>4
  <2>6. InStep(q)
    BY <1>2, <2>5 DEF InStep
  <2>7. QED BY <1>4, <2>5, <2>6, OneMoves
<1>5. QED BY <1>3, <1>4, QuietKeeps DEF Recover

LEMMA ReopenSerial ==
  ASSUME SerialInv, NEW a \in Agents, Reopen(a)
  PROVE  SerialInv'
<1> DEFINE r == agent[a]
<1>1. PICK M : agent \in [Agents -> AgentOver(M)]
  BY DEF SerialInv
<1>2. r \in AgentOver(M) /\ r.turn # None
  BY <1>1 DEF SerialInv, InStep, Reopen, At
<1>3. /\ \E N : Begin(r) \in AgentOver(N)
      /\ Begin(r).pc = "run" /\ Begin(r).turn = r.turn
  BY <1>2, Begun
<1>4. InStep(Begin(r))
  BY <1>2, <1>3 DEF InStep
<1>5. Set(a, Begin(r)) /\ UNCHANGED <<lease, log, spent>>
  BY DEF Reopen
<1>6. Calm
  BY <1>3, <1>4, <1>5, OneMoves
<1>7. QED BY <1>5, <1>6, QuietKeeps

LEMMA EndTurnSerial ==
  ASSUME SerialInv, NEW a \in Agents, EndTurn(a)
  PROVE  SerialInv'
<1> DEFINE r == agent[a]
           p == [r EXCEPT !.pc = "idle", !.turn = None, !.saved = Len(r.memory)]
<1>1. PICK M : agent \in [Agents -> AgentOver(M)]
  BY DEF SerialInv
<1>2. p \in AgentOver(M \cup {Len(r.memory)}) /\ p.turn = None /\ p.pc = "idle"
  BY <1>1 DEF AgentOver
<1>3. Set(a, p) /\ UNCHANGED <<log, spent>>
  BY DEF EndTurn
<1>4. InStep(p)
  BY <1>2 DEF InStep
<1>5. lease' \in Held(Turns) /\ lease'.holder \in {lease.holder, None}
  BY DEF EndTurn, Released, SerialInv, Held, Free, By
<1> HIDE DEF p
<1>6. Calm
  BY <1>2, <1>3, <1>4, OneMoves
<1>7. QED BY <1>3, <1>5, <1>6, CalmKeeps DEF SerialInv

LEMMA RefreshLeaseSerial ==
  ASSUME SerialInv, NEW a \in Agents, RefreshLease(a)
  PROVE  SerialInv'
<1> DEFINE r == agent[a]
           p == [r EXCEPT !.interrupted = TRUE]
<1>1. PICK M : agent \in [Agents -> AgentOver(M)]
  BY DEF SerialInv
<1>2. p \in AgentOver(M) /\ p.turn = r.turn /\ p.pc = r.pc
  BY <1>1 DEF AgentOver
<1>3. InStep(p)
  BY <1>2 DEF SerialInv, InStep
<1>4. /\ UNCHANGED <<log, spent>> /\ (UNCHANGED agent \/ Set(a, p))
      /\ lease' \in Held(Turns) /\ lease'.holder = lease.holder
  BY DEF RefreshLease, SerialInv, Held
<1> HIDE DEF p
<1>5. Calm
  BY <1>2, <1>3, <1>4, OneMoves, NoneMoves DEF RefreshLease
<1>6. QED BY <1>4, <1>5, CalmKeeps DEF SerialInv, RefreshLease

-----------------------------------------------------------------------------
\* The steps of a compaction: none of them moves the lease or starts a turn.

\* What a step of a compaction does to the process.
LEMMA CompactionMoves ==
  ASSUME SerialInv, NEW a \in Agents, NEW p, NEW N, p \in AgentOver(N), Set(a, p),
         p.turn = agent[a].turn,
         p.pc \in CompactionSteps
  PROVE  Calm
<1>1. InStep(p)
  BY DEF InStep
<1>2. QED BY <1>1, OneMoves

LEMMA TryLockSerial ==
  ASSUME SerialInv, NEW a \in Agents, TryLock(a)
  PROVE  SerialInv'
<1> DEFINE r == agent[a]
           p == [r EXCEPT !.pc = "mark", !.at = r.seg]
<1>1. PICK M : agent \in [Agents -> AgentOver(M)]
  BY DEF SerialInv
<1>2. p \in AgentOver(M \cup {r.seg}) /\ p.turn = r.turn /\ p.pc = "mark"
  BY <1>1 DEF AgentOver
<1>3. Set(a, p) /\ UNCHANGED <<lease, log>>
  BY DEF TryLock
<1>4. spent' \in [turns : Nat, compactions : Nat, crashes : Nat] /\ spent'.turns = spent.turns
  BY DEF TryLock, SerialInv
<1> HIDE DEF p
<1>5. Calm
  BY <1>2, <1>3, CompactionMoves
<1>6. QED BY <1>3, <1>4, <1>5, CalmKeeps DEF SerialInv

LEMMA CheckParentSerial ==
  ASSUME SerialInv, NEW a \in Agents, CheckParent(a)
  PROVE  SerialInv'
<1> DEFINE r == agent[a]
           q == IF LiveTip(r.at) THEN Load(r, Tip(r.at)) ELSE r
           on == IF r.rotate THEN "adopt" ELSE "summarise"
<1>1. PICK M : r \in AgentOver(M)
  BY DEF SerialInv
<1>2. PICK N : q \in AgentOver(N)
  BY <1>1, Loaded
<1>3. q.turn = r.turn
  BY <1>1, Loaded
<1> HIDE DEF q
<1>4. /\ [q EXCEPT !.pc = "release"] \in AgentOver(N) /\ [q EXCEPT !.pc = "release"].turn = r.turn
      /\ [q EXCEPT !.pc = "release"].pc = "release"
  BY <1>2, <1>3 DEF AgentOver
<1>5. /\ [r EXCEPT !.pc = on] \in AgentOver(M) /\ [r EXCEPT !.pc = on].turn = r.turn
      /\ [r EXCEPT !.pc = on].pc \in {"adopt", "summarise"}
  BY <1>1 DEF AgentOver
<1>6. Set(a, [r EXCEPT !.pc = on]) \/ Set(a, [q EXCEPT !.pc = "release"])
  BY DEF CheckParent, q
<1>7. Calm
  BY <1>4, <1>5, <1>6, CompactionMoves
<1>8. QED BY <1>7, QuietKeeps DEF CheckParent

LEMMA RereadSerial ==
  ASSUME SerialInv, NEW a \in Agents, Reread(a)
  PROVE  SerialInv'
<1> DEFINE r == agent[a]
           q == Load(r, r.at)
           p == [q EXCEPT !.seg = r.seg]
<1>1. PICK M : r \in AgentOver(M)
  BY DEF SerialInv
<1>2. PICK N : q \in AgentOver(N)
  BY <1>1, Loaded
<1>3. q.turn = r.turn
  BY <1>1, Loaded
<1> HIDE DEF q
<1>4. p \in AgentOver(N \cup {r.seg}) /\ p.turn = r.turn
  BY <1>2, <1>3 DEF AgentOver
<1> HIDE DEF p
<1>5. /\ [p EXCEPT !.pc = "summarise"] \in AgentOver(N \cup {r.seg})
      /\ [p EXCEPT !.pc = "summarise"].turn = r.turn
      /\ [p EXCEPT !.pc = "summarise"].pc = "summarise"
  BY <1>4 DEF AgentOver
<1>6. /\ [r EXCEPT !.pc = "summarise"] \in AgentOver(M)
      /\ [r EXCEPT !.pc = "summarise"].turn = r.turn
      /\ [r EXCEPT !.pc = "summarise"].pc = "summarise"
  BY <1>1 DEF AgentOver
<1>7. Set(a, [p EXCEPT !.pc = "summarise"]) \/ Set(a, [r EXCEPT !.pc = "summarise"])
  BY DEF Reread, p, q
<1>8. Calm
  BY <1>5, <1>6, <1>7, CompactionMoves
<1>9. QED BY <1>8, QuietKeeps DEF Reread

LEMMA CommitInPlaceSerial ==
  ASSUME SerialInv, NEW a \in Agents, CommitInPlace(a)
  PROVE  SerialInv'
<1> DEFINE r == agent[a]
           q == [r EXCEPT !.pc = "release", !.marked = 0]
           P(summary, n) == [q EXCEPT !.memory = summary, !.saved = n]
<1>1. PICK M : r \in AgentOver(M)
  BY DEF SerialInv
<1>2. q \in AgentOver(M \cup {0}) /\ q.turn = r.turn /\ q.pc = "release"
  BY <1>1 DEF AgentOver
<1>3. \E summary, n : Set(a, P(summary, n))
  BY DEF CommitInPlace
<1> HIDE DEF q
<1>4. ASSUME NEW summary, NEW n, Set(a, P(summary, n))
      PROVE  Calm
  <2>1. /\ P(summary, n) \in AgentOver(M \cup {0, summary, n})
        /\ P(summary, n).turn = r.turn /\ P(summary, n).pc = "release"
    BY <1>2 DEF AgentOver
  <2> HIDE DEF P
  <2>2. QED BY <1>4, <2>1, CompactionMoves
<1>5. QED BY <1>3, <1>4, QuietKeeps DEF CommitInPlace

LEMMA Undone ==
  ASSUME NEW M, NEW p \in AgentOver(M)
  PROVE  Undo(p) \in AgentOver(M) /\ Undo(p).turn = p.turn /\ Undo(p).pc = "release"
BY DEF Undo, AgentOver

LEMMA CheckEndedSerial ==
  ASSUME SerialInv, NEW a \in Agents, CheckEnded(a)
  PROVE  SerialInv'
<1> DEFINE r == agent[a]
           p == [r EXCEPT !.pc = "ceiling"]
<1>1. PICK M : r \in AgentOver(M)
  BY DEF SerialInv
<1>2. p \in AgentOver(M) /\ p.turn = r.turn /\ p.pc = "ceiling"
  BY <1>1 DEF AgentOver
<1>3. Set(a, Undo(r)) \/ Set(a, p)
  BY DEF CheckEnded
<1> HIDE DEF p
<1>4. Calm
  BY <1>1, <1>2, <1>3, Undone, CompactionMoves
<1>5. QED BY <1>4, QuietKeeps DEF CheckEnded

LEMMA PublishSerial ==
  ASSUME SerialInv, NEW a \in Agents, Publish(a)
  PROVE  SerialInv'
<1> DEFINE r == agent[a]
           P(summary, child) == [r EXCEPT !.pc = "release", !.seg = child, !.memory = summary,
                                          !.saved = Len(summary), !.marked = 0]
<1>1. PICK M : r \in AgentOver(M)
  BY DEF SerialInv
<1>2. Set(a, Undo(r)) \/ \E summary, child : Set(a, P(summary, child))
  BY DEF Publish
<1>3. ASSUME NEW summary, NEW child, Set(a, P(summary, child))
      PROVE  Calm
  <2>1. /\ P(summary, child) \in AgentOver(M \cup {child, summary, Len(summary), 0})
        /\ P(summary, child).turn = r.turn /\ P(summary, child).pc = "release"
    BY <1>1 DEF AgentOver
  <2> HIDE DEF P
  <2>2. QED BY <1>3, <2>1, CompactionMoves
<1>4. Calm
  BY <1>1, <1>2, <1>3, Undone, CompactionMoves
<1>5. QED BY <1>4, QuietKeeps DEF Publish

LEMMA ReleaseSerial ==
  ASSUME SerialInv, NEW a \in Agents, Release(a)
  PROVE  SerialInv'
<1> DEFINE r == agent[a]
           p == Back(r)
<1>1. PICK M : r \in AgentOver(M)
  BY DEF SerialInv
<1>2. /\ p \in AgentOver(M \cup {None, 0}) /\ p.turn = r.turn
      /\ p.pc = IF r.turn = None THEN "idle" ELSE "run"
  BY <1>1 DEF AgentOver, Back
<1>3. Set(a, p)
  BY DEF Release
<1>4. InStep(p)
  BY <1>2 DEF InStep
<1> HIDE DEF p
<1>5. Calm
  BY <1>2, <1>3, <1>4, OneMoves
<1>6. QED BY <1>5, QuietKeeps DEF Release

-----------------------------------------------------------------------------
\* The writes: of the turn, and of a compaction in it.

\* A write that moves the process calmly.
LEMMA WriteKeeps ==
  ASSUME SerialInv, NEW a \in Agents, AppendPending(agent[a]),
         Pending(agent[a]) = <<>> \/ MayWrite(agent[a]), Calm, UNCHANGED spent
  PROVE  SerialInv'
<1>1. CASE log' = log
  BY <1>1, PendingWritten, CalmKeeps DEF SerialInv
<1>2. CASE log' # log
  BY <1>2, PendingWritten, AppendKeeps
<1>3. QED BY <1>1, <1>2

LEMMA FlushSerial ==
  ASSUME SerialInv, NEW a \in Agents, Flush(a)
  PROVE  SerialInv'
<1> DEFINE r == agent[a]
           p == [r EXCEPT !.seg = Target(r), !.saved = Len(r.memory), !.marked = Len(r.memory)]
<1>1. PICK M : r \in AgentOver(M)
  BY DEF SerialInv
<1>2. /\ p \in AgentOver(M \cup {Target(r), Len(r.memory)})
      /\ p.turn = r.turn /\ p.pc = r.pc /\ r.pc = "run"
  BY <1>1 DEF AgentOver, Flush, At
<1>3. Set(a, p) /\ AppendPending(r) /\ MayWrite(r) /\ UNCHANGED spent
  BY DEF Flush, CanFlush
<1>4. InStep(p)
  BY <1>2 DEF SerialInv, InStep
<1> HIDE DEF p
<1>5. Calm
  BY <1>2, <1>3, <1>4, OneMoves
<1>6. QED BY <1>3, <1>5, WriteKeeps

LEMMA AdoptDurableSerial ==
  ASSUME SerialInv, NEW a \in Agents, AdoptDurable(a)
  PROVE  SerialInv'
<1> DEFINE r == agent[a]
           p == [r EXCEPT !.pc = "reread", !.seg = Target(r), !.saved = Len(r.memory),
                          !.marked = Len(r.memory)]
           q == [r EXCEPT !.pc = "summarise"]
<1>1. PICK M : r \in AgentOver(M)
  BY DEF SerialInv
<1>2. /\ p \in AgentOver(M \cup {Target(r), Len(r.memory)})
      /\ p.turn = r.turn /\ p.pc = "reread"
  BY <1>1 DEF AgentOver
<1>3. q \in AgentOver(M) /\ q.turn = r.turn /\ q.pc = "summarise"
  BY <1>1 DEF AgentOver
<1>4. \/ Set(a, p) /\ AppendPending(r) /\ (Pending(r) = <<>> \/ MayWrite(r)) /\ UNCHANGED spent
      \/ Set(a, q) /\ UNCHANGED <<lease, log, spent>>
  BY DEF AdoptDurable, CanFlush
<1> HIDE DEF p, q
<1>5. Calm
  BY <1>2, <1>3, <1>4, CompactionMoves
<1>6. QED BY <1>4, <1>5, WriteKeeps, QuietKeeps

LEMMA FlushOwnSerial ==
  ASSUME SerialInv, NEW a \in Agents, FlushOwn(a)
  PROVE  SerialInv'
<1> DEFINE r == agent[a]
           p == [r EXCEPT !.pc = "publish", !.seg = Target(r)]
           q == [r EXCEPT !.pc = "publish"]
<1>1. PICK M : r \in AgentOver(M)
  BY DEF SerialInv
<1>2. p \in AgentOver(M \cup {Target(r)}) /\ p.turn = r.turn /\ p.pc = "publish"
  BY <1>1 DEF AgentOver
<1>3. q \in AgentOver(M) /\ q.turn = r.turn /\ q.pc = "publish"
  BY <1>1 DEF AgentOver
<1>4. \/ Set(a, p) /\ AppendPending(r) /\ MayWrite(r) /\ UNCHANGED spent
      \/ Set(a, q) /\ UNCHANGED <<lease, log, spent>>
  BY DEF FlushOwn, CanFlush
<1> HIDE DEF p, q
<1>5. Calm
  BY <1>2, <1>3, <1>4, CompactionMoves
<1>6. QED BY <1>4, <1>5, WriteKeeps, QuietKeeps

-----------------------------------------------------------------------------
\* Time and crashes.

LEMMA LeaseExpiresSerial ==
  ASSUME SerialInv, LeaseExpires
  PROVE  SerialInv'
<1>1. lease' \in Held(Turns) /\ lease'.holder = lease.holder /\ UNCHANGED <<agent, spent, log>>
  BY DEF LeaseExpires, SerialInv, Held
<1>2. QED BY <1>1, NoneMoves, CalmKeeps DEF SerialInv

LEMMA CrashSerial ==
  ASSUME SerialInv, NEW a \in Agents, Crash(a)
  PROVE  SerialInv'
<1> DEFINE r == agent[a]
           p == [Fresh(r.rotate) EXCEPT !.pc = "down"]
<1>1. PICK M : r \in AgentOver(M)
  BY DEF SerialInv
<1>2. r.rotate \in BOOLEAN
  BY <1>1 DEF AgentOver
<1>3. /\ p \in AgentOver({Root, <<{0}>>, 0, 1, None}) /\ p.turn = None /\ p.pc = "down"
  BY <1>2 DEF AgentOver, Fresh
<1>4. Set(a, p) /\ UNCHANGED log
  BY DEF Crash
<1>5. lease' \in Held(Turns) /\ lease'.holder = lease.holder
  BY DEF Crash, SerialInv, Held
<1>6. spent' \in [turns : Nat, compactions : Nat, crashes : Nat] /\ spent'.turns = spent.turns
  BY DEF Crash, SerialInv
<1>7. InStep(p)
  BY <1>3 DEF InStep
<1> HIDE DEF p
<1>8. Calm
  BY <1>3, <1>4, <1>7, OneMoves
<1>9. QED BY <1>4, <1>5, <1>6, <1>8, CalmKeeps DEF SerialInv

LEMMA ResumeSerial ==
  ASSUME SerialInv, NEW a \in Agents, Resume(a)
  PROVE  SerialInv'
<1> DEFINE r == agent[a]
           q == Load(r, Tip(Root))
           p == [q EXCEPT !.pc = "idle"]
<1>1. PICK M : r \in AgentOver(M)
  BY DEF SerialInv
<1>2. PICK N : q \in AgentOver(N)
  BY <1>1, Loaded
<1>3. q.turn = r.turn /\ r.turn = None
  BY <1>1, Loaded DEF Resume, At, SerialInv, InStep
<1> HIDE DEF q
<1>4. p \in AgentOver(N) /\ p.turn = None /\ p.pc = "idle"
  BY <1>2, <1>3 DEF AgentOver
<1>5. Set(a, p)
  BY DEF Resume, q
<1>6. InStep(p)
  BY <1>4 DEF InStep
<1> HIDE DEF p
<1>7. Calm
  BY <1>4, <1>5, <1>6, OneMoves
<1>8. QED BY <1>7, QuietKeeps DEF Resume

LEMMA StepSerial == SerialInv /\ [Next]_vars => SerialInv'
<1> SUFFICES ASSUME SerialInv, [Next]_vars PROVE SerialInv'
  OBVIOUS
<1>1. ASSUME NEW a \in Agents, Turn(a) PROVE SerialInv'
  BY <1>1, StartTurnSerial, AdmitSerial, KeepWaitingSerial, GiveUpSerial, RecoverSerial,
     ReopenSerial, ReplySerial, FlushSerial, EndTurnSerial, RefreshLeaseSerial DEF Turn
<1>2. ASSUME NEW a \in Agents, RefreshLock(a) PROVE SerialInv'
  BY <1>2, NoneMoves, QuietKeeps DEF RefreshLock
<1>3. ASSUME NEW a \in Agents, Compaction(a) PROVE SerialInv'
  BY <1>2, <1>3, TryLockSerial, MarkSerial, CheckParentSerial, AdoptDurableSerial, RereadSerial,
     AbandonSerial, CommitInPlaceSerial, CheckEndedSerial, CeilingSerial, FlushOwnSerial,
     PublishSerial, ReleaseSerial DEF Compaction
<1>4. ASSUME NEW s \in Segments, LockExpires(s) PROVE SerialInv'
  BY <1>4, NoneMoves, QuietKeeps DEF LockExpires
<1>5. CASE UNCHANGED vars
  BY <1>5, NoneMoves, QuietKeeps DEF vars
<1>6. QED
  BY <1>1, <1>3, <1>4, <1>5, CrashSerial, ResumeSerial, LeaseExpiresSerial DEF Next

\* Once another turn has written, a turn that lost its lease writes no more, however many
\* processes share the conversation and whenever leases expire or processes die.
THEOREM Serial == Spec => []TurnsSerial
<1>1. SerialInv => TurnsSerial
  BY DEF SerialInv
<1>2. QED BY <1>1, InitSerial, StepSerial, PTL DEF Spec

-----------------------------------------------------------------------------
\* The conversation never forks.

\* A session that does not exist yet has no parent, a parent is closed, and no two
\* sessions have the same parent.
ChainInv ==
  /\ \E M : segment \in [Segments -> SegmentOver(M)]
  /\ \A s \in Segments : State(s) = "absent" => segment[s].parent = None
  /\ \A s \in Segments : segment[s].parent # None => State(segment[s].parent) = "closed"
  /\ \A s, k \in Segments :
       segment[s].parent = segment[k].parent /\ segment[s].parent # None => s = k

LEMMA ChainIsOneHead == ChainInv => OneHead
<1> SUFFICES ASSUME ChainInv, NEW s \in Segments
             PROVE  Cardinality(Children(s)) <= 1 /\ (Children(s) # {} => State(s) = "closed")
  BY DEF OneHead
<1>0. s # None
  BY NoneAssumption
<1>1. CASE Children(s) = {}
  BY <1>1, FS_EmptySet
<1>2. CASE Children(s) # {}
  <2>1. PICK k \in Segments : segment[k].parent = s
    BY <1>2 DEF Children
  <2>2. Children(s) = {k}
    BY <1>0, <2>1 DEF ChainInv, Children
  <2>3. Cardinality(Children(s)) = 1
    BY <2>2, FS_Singleton
  <2>4. State(s) = "closed"
    BY <1>0, <2>1 DEF ChainInv
  <2>5. QED BY <2>3, <2>4
<1>3. QED BY <1>1, <1>2

\* The parents stay, and no segment is opened again or loses its state.
LEMMA ChainStays ==
  ASSUME ChainInv, NEW N, segment' \in [Segments -> SegmentOver(N)],
         \A s \in Segments : segment'[s].state = segment[s].state
                            /\ segment'[s].parent = segment[s].parent
  PROVE  ChainInv'
<1> USE DEF ChainInv, State
<1>1. \A s \in Segments : segment[s].parent # None => segment[s].parent \in Segments
  BY DEF SegmentOver
<1>2. QED BY <1>1

LEMMA InitChain == Init => ChainInv
<1> SUFFICES ASSUME Init PROVE ChainInv
  OBVIOUS
<1>0. None \notin Segments /\ 2 \in Segments /\ Root \in Segments /\ Root # 2
  BY NoneAssumption, BoundsAssumption DEF Segments, Root
<1>1. PICK root \in {"open", "closed"}, child \in {"absent", "ended"} :
        /\ child = "ended" => root = "closed"
        /\ segment = [s \in Segments |->
             CASE s = Root -> [state |-> root, parent |-> None, rows |-> <<[id |-> 1, holds |-> {0}]>>]
               [] s = 2 /\ child = "ended" -> [state |-> child, parent |-> Root,
                                               rows |-> <<[id |-> 2, holds |-> {0}]>>]
               [] OTHER -> Absent]
  BY DEF Init
<1> DEFINE first  == [state |-> root, parent |-> None, rows |-> <<[id |-> 1, holds |-> {0}]>>]
           second == [state |-> child, parent |-> Root, rows |-> <<[id |-> 2, holds |-> {0}]>>]
           M == {<<[id |-> 1, holds |-> {0}]>>, <<[id |-> 2, holds |-> {0}]>>, <<>>}
<1>2. first \in SegmentOver(M) /\ second \in SegmentOver(M) /\ Absent \in SegmentOver(M)
  BY <1>0 DEF SegmentOver, Absent
<1>3. /\ first.parent = None /\ first.state = root
      /\ second.parent = Root /\ second.state = child
      /\ Absent.parent = None /\ Absent.state = "absent"
  BY DEF Absent
<1>4. segment = [s \in Segments |->
         CASE s = Root -> first [] s = 2 /\ child = "ended" -> second [] OTHER -> Absent]
  BY <1>1
<1> HIDE DEF first, second, M
<1>5. /\ segment[Root] = first
      /\ \A s \in Segments : s = Root \/ segment[s] = Absent
                           \/ (s = 2 /\ child = "ended" /\ segment[s] = second)
  <2>1. \A s \in Segments : s = Root => segment[s] = first
    BY <1>0, <1>4
  <2>2. \A s \in Segments : s # Root /\ s = 2 /\ child = "ended" => segment[s] = second
    BY <1>4
  <2>3. \A s \in Segments : s # Root /\ ~(s = 2 /\ child = "ended") => segment[s] = Absent
    BY <1>4
  <2>4. QED BY <1>0, <2>1, <2>2, <2>3
<1>6. segment \in [Segments -> SegmentOver(M)]
  BY <1>2, <1>4, <1>5
<1>7. \A s \in Segments : segment[s].parent # None =>
        s = 2 /\ child = "ended" /\ segment[s] = second
  BY <1>3, <1>5
<1>8. \A s \in Segments : State(s) = "absent" => segment[s].parent = None
  BY <1>1, <1>3, <1>7 DEF State
<1>9. \A s \in Segments : segment[s].parent # None => State(segment[s].parent) = "closed"
  BY <1>1, <1>3, <1>5, <1>7 DEF State
<1>10. QED BY <1>6, <1>7, <1>8, <1>9 DEF ChainInv

\* Messages written to a segment.
LEMMA AppendChain ==
  ASSUME ChainInv, NEW t, NEW rows, segment' = [segment EXCEPT ![t].rows = rows]
  PROVE  ChainInv'
<1>1. PICK M : segment \in [Segments -> SegmentOver(M)]
  BY DEF ChainInv
<1>2. \A s \in Segments : [segment[s] EXCEPT !.rows = rows] \in SegmentOver(M \cup {rows})
  BY <1>1 DEF SegmentOver
<1>3. \A s \in Segments : segment[s] \in SegmentOver(M \cup {rows})
  BY <1>1 DEF SegmentOver
<1>4. \A s \in Segments : segment'[s] = segment[s] \/ segment'[s] = [segment[s] EXCEPT !.rows = rows]
  BY <1>1
<1>5. segment' \in [Segments -> SegmentOver(M \cup {rows})]
  BY <1>1, <1>2, <1>3, <1>4
<1>6. \A s \in Segments : segment'[s].state = segment[s].state
                         /\ segment'[s].parent = segment[s].parent
  BY <1>1, <1>4 DEF SegmentOver
<1>7. QED BY <1>5, <1>6, ChainStays

LEMMA PendingChain ==
  ASSUME ChainInv, NEW p, AppendPending(p)
  PROVE  ChainInv'
<1> DEFINE t == Target(p)
           rows == segment[t].rows \o Rows(Pending(p), next)
<1>1. segment' = [segment EXCEPT ![t].rows = rows]
  BY DEF AppendPending
<1>2. QED BY <1>1, AppendChain

LEMMA ReopenChain ==
  ASSUME ChainInv, NEW a \in Agents, Reopen(a)
  PROVE  ChainInv'
<1> DEFINE t == agent[a].seg
<1>1. PICK M : segment \in [Segments -> SegmentOver(M)]
  BY DEF ChainInv
<1>2. CASE UNCHANGED segment
  BY <1>1, <1>2, ChainStays
<1>3. CASE Children(t) = {} /\ State(t) = "closed" /\ segment' = [segment EXCEPT ![t].state = "open"]
  <2>1. \A s \in Segments : [segment[s] EXCEPT !.state = "open"] \in SegmentOver(M)
    BY <1>1 DEF SegmentOver
  <2>2. segment' \in [Segments -> SegmentOver(M)]
    BY <1>1, <1>3, <2>1
  <2>3. \A s \in Segments : segment'[s].parent = segment[s].parent
    BY <1>1, <1>3 DEF SegmentOver
  <2>4. \A s \in Segments : s # t => segment'[s].state = segment[s].state
    BY <1>1, <1>3
  <2>5. \A s \in Segments : s = t => segment'[s].state = "open" /\ segment[s].state = "closed"
    BY <1>1, <1>3 DEF SegmentOver, State
  <2>6. \A s \in Segments : segment[s].parent # t
    BY <1>3 DEF Children
  <2>7. \A s \in Segments : segment[s].parent # None => segment[s].parent \in Segments
    BY <1>1 DEF SegmentOver
  <2>8. \A s \in Segments : segment'[s].parent # None => segment'[segment'[s].parent].state = "closed"
    BY <2>3, <2>4, <2>6, <2>7 DEF ChainInv, State
  <2>9. \A s \in Segments : segment'[s].state = "absent" => segment'[s].parent = None
    BY <2>3, <2>4, <2>5 DEF ChainInv, State
  <2>10. QED BY <2>2, <2>3, <2>8, <2>9 DEF ChainInv, State
<1>4. QED BY <1>2, <1>3 DEF Reopen, Reopenable

LEMMA PublishChain ==
  ASSUME ChainInv, NEW a \in Agents, Publish(a)
  PROVE  ChainInv'
<1> DEFINE t == agent[a].seg
           New(rows) == [state |-> "open", parent |-> t, rows |-> rows]
<1>1. PICK M : segment \in [Segments -> SegmentOver(M)]
  BY DEF ChainInv
<1>2. CASE UNCHANGED segment
  BY <1>1, <1>2, ChainStays
<1>3. ASSUME NEW child \in Segments, NEW rows, t \in Open, State(child) = "absent",
             segment' = [segment EXCEPT ![t].state = "closed", ![child] = New(rows)]
      PROVE  ChainInv'
  <2>1. t \in Segments /\ segment[t].state = "open" /\ t # child
    BY <1>3 DEF Open, State
  <2>2. New(rows) \in SegmentOver(M \cup {rows})
        /\ New(rows).parent = t /\ New(rows).state = "open"
    BY <2>1 DEF SegmentOver
  <2> HIDE DEF New
  <2>3. /\ segment'[child] = New(rows) /\ segment'[t] = [segment[t] EXCEPT !.state = "closed"]
        /\ \A s \in Segments : s # child /\ s # t => segment'[s] = segment[s]
    BY <1>1, <1>3, <2>1
  <2>4. /\ [segment[t] EXCEPT !.state = "closed"] \in SegmentOver(M \cup {rows})
        /\ \A s \in Segments : segment[s] \in SegmentOver(M \cup {rows})
    BY <1>1, <2>1 DEF SegmentOver
  <2>5. segment' \in [Segments -> SegmentOver(M \cup {rows})]
    BY <1>1, <1>3, <2>2, <2>3, <2>4
  <2>6. segment'[t].state = "closed" /\ segment'[t].parent = segment[t].parent
    BY <1>1, <2>1, <2>3 DEF SegmentOver
  <2>7. \A s \in Segments : s # child => segment'[s].parent = segment[s].parent
    BY <2>3, <2>6
  <2>8. \A s \in Segments : s # child /\ s # t => segment'[s].state = segment[s].state
    BY <2>3
  <2>9. segment'[child].parent = t /\ segment'[child].state = "open"
    BY <2>2, <2>3
  <2>10. None \notin Segments
    BY NoneAssumption
  <2>11. \A s \in Segments : segment[s].parent # None => segment[s].parent \in Segments
    BY <1>1 DEF SegmentOver
  <2>12. \A s \in Segments : segment[s].parent # t /\ segment[s].parent # child
    BY <1>3, <2>1, <2>10 DEF ChainInv, State
  <2>13. \A s \in Segments : segment'[s].state = "absent" => segment'[s].parent = None
    BY <2>6, <2>7, <2>8, <2>9 DEF ChainInv, State
  <2>14. \A s \in Segments : segment'[s].parent # None => segment'[segment'[s].parent].state = "closed"
    BY <2>6, <2>7, <2>8, <2>9, <2>11, <2>12 DEF ChainInv, State
  <2>15. \A s, k \in Segments :
           segment'[s].parent = segment'[k].parent /\ segment'[s].parent # None => s = k
    BY <2>7, <2>9, <2>12 DEF ChainInv
  <2>16. QED BY <2>5, <2>13, <2>14, <2>15 DEF ChainInv, State
<1>4. QED BY <1>2, <1>3 DEF Publish

LEMMA CommitChain ==
  ASSUME ChainInv, NEW a \in Agents, CommitInPlace(a)
  PROVE  ChainInv'
<1>1. \/ UNCHANGED segment
      \/ \E rows : segment' = [segment EXCEPT ![agent[a].seg].rows = rows]
  BY DEF CommitInPlace
<1>2. QED BY <1>1, AppendChain, ChainStays DEF ChainInv

LEMMA StepChain == ChainInv /\ [Next]_vars => ChainInv'
<1> SUFFICES ASSUME ChainInv, [Next]_vars PROVE ChainInv'
  OBVIOUS
<1>1. ASSUME UNCHANGED segment PROVE ChainInv'
  BY <1>1, ChainStays DEF ChainInv
<1>2. ASSUME NEW a \in Agents, Turn(a) PROVE ChainInv'
  <2>1. ASSUME Flush(a) PROVE ChainInv'
    BY <2>1, PendingChain DEF Flush
  <2>2. QED
    BY <1>1, <1>2, <2>1, ReopenChain
    DEF Turn, StartTurn, Admit, KeepWaiting, GiveUp, Recover, Reply, EndTurn, RefreshLease
<1>3. ASSUME NEW a \in Agents, Compaction(a) PROVE ChainInv'
  <2>1. ASSUME AdoptDurable(a) \/ FlushOwn(a) PROVE ChainInv'
    BY <1>1, <2>1, PendingChain DEF AdoptDurable, FlushOwn
  <2>2. QED
    BY <1>1, <1>3, <2>1, CommitChain, PublishChain
    DEF Compaction, TryLock, Mark, CheckParent, Reread, Abandon, CheckEnded, Ceiling, Release,
        RefreshLock
<1>4. ASSUME NEW a \in Agents, Crash(a) \/ Resume(a) PROVE ChainInv'
  BY <1>1, <1>4 DEF Crash, Resume
<1>5. ASSUME NEW s \in Segments, LeaseExpires \/ LockExpires(s) PROVE ChainInv'
  BY <1>1, <1>5 DEF LeaseExpires, LockExpires
<1>6. CASE LeaseExpires \/ UNCHANGED vars
  BY <1>1, <1>6 DEF LeaseExpires, vars
<1>7. QED BY <1>2, <1>3, <1>4, <1>5, <1>6 DEF Next

\* A session is continued at most once and stays closed once it is, however compactions,
\* takeovers of their lock, recoveries and deaths of processes interleave.
THEOREM NoFork == Spec => []OneHead
<1>1. QED BY ChainIsOneHead, InitChain, StepChain, PTL DEF Spec

-----------------------------------------------------------------------------
\* The end of the chain.  Tip is recursive: it is defined because a child comes after its
\* parent, by induction from the last segment down.

\* Every non-empty set of natural numbers has a least element: induction over a set, for a
\* goal that names one.
LEMMA LeastNumber ==
  ASSUME NEW T, T \subseteq Nat, T # {}
  PROVE  \E x \in T : \A y \in T : x <= y
<1>1. PICK x \in T : \A y \in T : ~(<<y, x>> \in OpToRel(<, Nat))
  BY NatLessThanWellFounded, WFMin
<1>2. \A y \in T : <<y, x>>[1] = y /\ <<y, x>>[2] = x
  OBVIOUS
<1>3. \A y \in T : y < x => <<y, x>> \in OpToRel(<, Nat)
  BY <1>2, Zenon DEF OpToRel
<1>4. \A y \in T : ~(y < x)
  BY <1>1, <1>3, Zenon
<1>5. QED BY <1>4

\* A child comes after its parent, which exists.
Ordered ==
  \A s \in Segments : segment[s].parent # None =>
    segment[s].parent \in Segments /\ segment[s].parent < s

Goes(k)     == State(k) = "closed" /\ Children(k) # {}
FirstOf(k)  == CHOOSE c \in Children(k) : TRUE
Follows(g)  == g = [k \in Segments |-> IF Goes(k) THEN g[FirstOf(k)] ELSE k]

LEMMA FirstComesAfter ==
  ASSUME Ordered, NEW k \in Segments, Goes(k)
  PROVE  FirstOf(k) \in Segments /\ k < FirstOf(k) /\ segment[FirstOf(k)].parent = k
<1>0. k # None
  BY NoneAssumption
<1>1. FirstOf(k) \in Children(k)
  BY DEF FirstOf, Goes
<1>2. QED BY <1>0, <1>1 DEF Children, Ordered

\* The recursion of Tip ends: children come after their parents.
LEMMA TipFollows ==
  ASSUME Ordered
  PROVE  \E g : Follows(g) /\ \A s : Tip(s) = g[s]
<1> DEFINE n == MaxCompactions + 2
           Up(d) == (n - d) .. n
           Part(d, g) == g \in [Up(d) -> Segments]
                         /\ \A k \in Up(d) : g[k] = IF Goes(k) THEN g[FirstOf(k)] ELSE k
           Bad == {d \in 0 .. n - 1 : ~ \E g : Part(d, g)}
<1>0. n \in Nat /\ n >= 1 /\ Segments = 1 .. n
  BY BoundsAssumption DEF Segments
<1>1. \A k \in Segments : Goes(k) => FirstOf(k) \in Segments /\ k < FirstOf(k)
  BY FirstComesAfter
<1> HIDE DEF n
<1>2. Bad = {}
  <2> SUFFICES ASSUME Bad # {} PROVE FALSE
    OBVIOUS
  <2>1. Bad \subseteq Nat
    BY <1>0
  <2>2. PICK d \in Bad : \A e \in Bad : d <= e
    <3> HIDE DEF Bad
    <3> QED BY <2>1, LeastNumber
  <2>3. d \in 0 .. n - 1 /\ ~ \E g : Part(d, g)
    BY <2>2
  <2>4. CASE d = 0
    <3> DEFINE g == [k \in Up(0) |-> k]
    <3>1. Up(0) = {n} /\ n \in Segments
      BY <1>0
    <3>2. ~Goes(n)
      BY <1>0, <1>1, <3>1
    <3>3. Part(0, g)
      BY <3>1, <3>2
    <3>4. QED BY <2>3, <2>4, <3>3
  <2>5. CASE d > 0
    <3>1. d - 1 \in 0 .. n - 1
      BY <1>0, <2>3, <2>5
    <3>1a. d - 1 \notin Bad
      <4> HIDE DEF Bad
      <4> QED BY <2>1, <2>2, <2>3
    <3>2. PICK f : Part(d - 1, f)
      BY <3>1, <3>1a
    <3> DEFINE m == n - d
               g == [k \in Up(d) |-> IF k = m THEN IF Goes(m) THEN f[FirstOf(m)] ELSE m ELSE f[k]]
    <3>3. m \in Segments /\ Up(d) = {m} \cup Up(d - 1) /\ m \notin Up(d - 1)
          /\ \A k \in Up(d) : k \in Segments
          /\ \A j \in Up(d), c \in Segments : j < c => c \in Up(d - 1)
      BY <1>0, <2>3, <2>5
    <3> HIDE DEF m, Up
    <3>4. \A k \in Up(d) : Goes(k) => FirstOf(k) \in Up(d - 1)
      BY <1>1, <3>3
    <3>5. \A k \in Up(d - 1) : g[k] = f[k] /\ f[k] \in Segments
                               /\ f[k] = IF Goes(k) THEN f[FirstOf(k)] ELSE k
      BY <3>2, <3>3
    <3>6. g[m] = IF Goes(m) THEN f[FirstOf(m)] ELSE m
      BY <3>3
    <3> HIDE DEF g
    <3>7. \A k \in Up(d) : g[k] \in Segments /\ g[k] = IF Goes(k) THEN g[FirstOf(k)] ELSE k
      BY <3>3, <3>4, <3>5, <3>6
    <3>8. g \in [Up(d) -> Segments]
      BY <3>7 DEF g
    <3>9. QED BY <2>3, <3>7, <3>8
  <2>6. QED BY <1>0, <2>3, <2>4, <2>5
<1>3. PICK g : Part(n - 1, g)
  <2>1. n - 1 \in 0 .. n - 1
    BY <1>0
  <2> HIDE DEF Part
  <2>2. QED BY <1>2, <2>1
<1>4. Up(n - 1) = Segments
  BY <1>0
<1>5. Follows(g)
  BY <1>3, <1>4 DEF Follows
<1> DEFINE t == CHOOSE h : Follows(h)
<1>6. Follows(t)
  BY <1>5
<1>7. \A s : Tip(s) = t[s]
  BY Zenon DEF Tip, Follows, Goes, FirstOf
<1>8. QED BY <1>6, <1>7

\* A segment that exists is continued in one that exists, at last in one that is not continued.
LEMMA TipExists ==
  ASSUME Ordered, \A k \in Segments : State(k) = "absent" => segment[k].parent = None,
         NEW s \in Segments, State(s) # "absent"
  PROVE  Tip(s) \in Segments /\ State(Tip(s)) # "absent" /\ ~Goes(Tip(s))
<1> DEFINE n == MaxCompactions + 2
           Good(v) == v \in Segments /\ State(v) # "absent" /\ ~Goes(v)
<1>0. n \in Nat /\ Segments = 1 .. n
  BY BoundsAssumption DEF Segments
<1> HIDE DEF n, Good
<1>1. PICK g : Follows(g) /\ \A k : Tip(k) = g[k]
  BY TipFollows
<1> DEFINE Bad == {n - k : k \in {j \in Segments : State(j) # "absent" /\ ~Good(g[j])}}
<1>2. \A k \in Segments : g[k] = IF Goes(k) THEN g[FirstOf(k)] ELSE k
  BY <1>1 DEF Follows
<1>3. SUFFICES ASSUME ~Good(g[s]) PROVE FALSE
  BY <1>1 DEF Good
<1>4. Bad # {} /\ Bad \subseteq Nat
  BY <1>0, <1>3
<1>5. PICK d \in Bad : \A e \in Bad : d <= e
  <2> HIDE DEF Bad
  <2> QED BY <1>4, LeastNumber
<1>6. PICK k \in Segments : State(k) # "absent" /\ ~Good(g[k]) /\ d = n - k
  BY <1>5
<1>7. CASE Goes(k)
  <2>1. FirstOf(k) \in Segments /\ k < FirstOf(k) /\ segment[FirstOf(k)].parent = k
    BY <1>7, FirstComesAfter
  <2>2. State(FirstOf(k)) # "absent"
    BY <2>1, NoneAssumption
  <2>3. ~Good(g[FirstOf(k)])
    BY <1>2, <1>6, <1>7
  <2>4. n - FirstOf(k) \in Bad
    BY <2>1, <2>2, <2>3
  <2>5. d <= n - FirstOf(k)
    <3> HIDE DEF Bad
    <3> QED BY <1>5, <2>4
  <2>6. QED BY <1>0, <1>6, <2>1, <2>5
<1>8. CASE ~Goes(k)
  BY <1>2, <1>6, <1>8 DEF Good
<1>9. QED BY <1>7, <1>8

Lists == Seq(SUBSET Messages)

\* What a process has written is a prefix of its memory, and a compaction has something to
\* summarise.
AgentOK(p) ==
  /\ p \in Agent
  /\ p.marked <= p.saved /\ p.saved <= Len(p.memory)
  /\ p.pc \in TurnSteps => p.turn # None
  /\ p.pc \in CompactionSteps => p.at # None
  /\ p.pc \in CompactionSteps \ {"release"} => Len(p.memory) > 1

\* Sessions are numbered as they are made, a child after its parent; the rows of each are in
\* the order of their ids.
StoreOK ==
  /\ segment \in [Segments -> Segment] /\ next \in Nat
  /\ \A s \in Segments : \A i \in DOMAIN segment[s].rows :
       /\ segment[s].rows[i].id < next
       /\ \A k \in 1 .. i - 1 : segment[s].rows[k].id < segment[s].rows[i].id
  /\ \A s \in Segments : State(s) = "absent" => segment[s].parent = None /\ segment[s].rows = <<>>
  /\ \A s, k \in Segments : s < k /\ State(s) = "absent" => State(k) = "absent"
  /\ State(Root) # "absent"
  /\ Ordered

SpentOK ==
  /\ spent.turns \in 0 .. MaxTurns /\ spent.compactions \in 0 .. MaxCompactions
  /\ spent.crashes \in 0 .. MaxCrashes

TypeInv ==
  /\ StoreOK /\ SpentOK
  /\ spent \in [turns : Nat, compactions : Nat, crashes : Nat]
  /\ lock \in [Segments -> Held(Agents)]
  /\ agent \in [Agents -> Agent]
  /\ \A a \in Agents : AgentOK(agent[a]) /\ State(agent[a].seg) # "absent"

-----------------------------------------------------------------------------
\* Lists and rows.

LEMMA IsList ==
  ASSUME NEW S, NEW n \in Nat, NEW f, f \in [1 .. n -> S]
  PROVE  f \in Seq(S) /\ Len(f) = n /\ DOMAIN f = 1 .. n
BY SeqDef

LEMMA HoldsList ==
  ASSUME NEW rows \in Seq(Row)
  PROVE  Holds(rows) \in Lists /\ Len(Holds(rows)) = Len(rows)
<1>1. DOMAIN rows = 1 .. Len(rows) /\ Len(rows) \in Nat /\ \A i \in 1 .. Len(rows) : rows[i] \in Row
  OBVIOUS
<1>2. Holds(rows) \in [1 .. Len(rows) -> SUBSET Messages]
  BY <1>1 DEF Holds, Row
<1>3. QED BY <1>1, <1>2, IsList DEF Lists

LEMMA RowsList ==
  ASSUME NEW list \in Lists, NEW from \in Nat
  PROVE  /\ Rows(list, from) \in Seq(Row) /\ Len(Rows(list, from)) = Len(list)
         /\ Len(list) \in Nat /\ DOMAIN Rows(list, from) = 1 .. Len(list)
         /\ \A i \in 1 .. Len(list) : Rows(list, from)[i].id = from + i - 1
<1>1. DOMAIN list = 1 .. Len(list) /\ Len(list) \in Nat
      /\ \A i \in 1 .. Len(list) : list[i] \in SUBSET Messages
  BY DEF Lists
<1>2. \A i \in 1 .. Len(list) : from + i - 1 \in Nat
  BY <1>1
<1>3. Rows(list, from) \in [1 .. Len(list) -> Row]
  BY <1>1, <1>2 DEF Rows, Row
<1>4. \A i \in 1 .. Len(list) : Rows(list, from)[i].id = from + i - 1
  BY <1>1 DEF Rows
<1>5. QED BY <1>1, <1>3, <1>4, IsList

LEMMA BetweenRows ==
  ASSUME StoreOK, NEW s \in Segments, NEW low, NEW high
  PROVE  Between(s, low, high) \in Seq(Row)
<1> DEFINE rows == segment[s].rows
           hits(id) == {i \in DOMAIN rows : rows[i].id <= id}
<1>1. rows \in Seq(Row)
  BY DEF StoreOK, Segment
<1>2. Len(rows) \in Nat /\ DOMAIN rows = 1 .. Len(rows) /\ \A i \in 1 .. Len(rows) : rows[i] \in Row
  BY <1>1
<1>3. ASSUME NEW id PROVE UpTo(s, id) \in 0 .. Len(rows)
  <2>1. hits(id) \subseteq 1 .. Len(rows)
    BY <1>2
  <2>2. IsFiniteSet(1 .. Len(rows)) /\ Cardinality(1 .. Len(rows)) = Len(rows)
    BY <1>2, FS_Interval
  <2>3. Cardinality(hits(id)) \in Nat /\ Cardinality(hits(id)) <= Len(rows)
    BY <2>1, <2>2, FS_Subset, FS_CardinalityType
  <2>4. QED BY <1>2, <2>3 DEF UpTo
<1>4. UpTo(s, low) \in 0 .. Len(rows) /\ UpTo(s, high) \in 0 .. Len(rows)
  BY <1>3
<1>5. \A i \in UpTo(s, low) + 1 .. UpTo(s, high) : rows[i] \in Row
  BY <1>2, <1>4
<1>6. SubSeq(rows, UpTo(s, low) + 1, UpTo(s, high)) \in Seq(Row)
  BY <1>2, <1>4, <1>5, SubSeqProperties
<1>7. QED BY <1>6 DEF Between

LEMMA SummaryList ==
  ASSUME NEW list \in Lists, Len(list) > 1, NEW summary \in Summaries(list)
  PROVE  summary \in Lists
<1>1. PICK k \in {Len(list) - 1, Len(list)} :
        summary = <<UNION Range(SubSeq(list, 1, k))>> \o SubSeq(list, k + 1, Len(list))
  BY DEF Summaries
<1>2. Len(list) \in Nat /\ k \in 1 .. Len(list) /\ \A i \in 1 .. Len(list) : list[i] \in SUBSET Messages
  BY <1>1 DEF Lists
<1>3. SubSeq(list, 1, k) \in Lists /\ SubSeq(list, k + 1, Len(list)) \in Lists
  BY <1>2, SubSeqProperties DEF Lists
<1>4. UNION Range(SubSeq(list, 1, k)) \in SUBSET Messages
  BY <1>3, RangeOfSeq DEF Lists
<1>5. <<UNION Range(SubSeq(list, 1, k))>> \in Lists
  BY <1>4 DEF Lists
<1>6. QED BY <1>1, <1>3, <1>5, ConcatProperties DEF Lists

-----------------------------------------------------------------------------
\* What a step does to the store.

\* A segment that exists goes on existing.
Grows == \A s \in Segments : State(s) # "absent" => State(s)' # "absent"

LEMMA RowFacts ==
  ASSUME NEW rows \in Seq(Row)
  PROVE  /\ Len(rows) \in Nat /\ DOMAIN rows = 1 .. Len(rows)
         /\ \A i \in 1 .. Len(rows) : rows[i] \in Row /\ rows[i].id \in Nat
<1>1. \A i \in 1 .. Len(rows) : rows[i] \in Row
  BY ElementOfSeq
<1>2. QED BY <1>1, LenProperties DEF Row

LEMMA SameStore ==
  ASSUME StoreOK, UNCHANGED <<segment, next>>
  PROVE  StoreOK' /\ Grows
BY DEF StoreOK, Ordered, Grows, State

\* The rows of one existing segment are written, the numbers of the new ones not used before.
LEMMA RowsWritten ==
  ASSUME StoreOK, NEW t \in Segments, State(t) # "absent", NEW rows \in Seq(Row),
         segment' = [segment EXCEPT ![t].rows = rows], next' \in Nat, next <= next',
         \A i \in DOMAIN rows :
           rows[i].id < next' /\ \A k \in 1 .. i - 1 : rows[k].id < rows[i].id
  PROVE  StoreOK' /\ Grows
<1>1. segment \in [Segments -> Segment]
  BY DEF StoreOK
<1>2. [segment[t] EXCEPT !.rows = rows] \in Segment
  BY <1>1 DEF Segment
<1>3. segment' \in [Segments -> Segment]
  BY <1>1, <1>2
<1>4. /\ segment'[t].rows = rows
      /\ \A s \in Segments : s # t => segment'[s].rows = segment[s].rows
      /\ \A s \in Segments : segment'[s].state = segment[s].state
                             /\ segment'[s].parent = segment[s].parent
  BY <1>1 DEF Segment
<1>5. \A s \in Segments : \A i \in DOMAIN segment'[s].rows :
        /\ segment'[s].rows[i].id < next'
        /\ \A k \in 1 .. i - 1 : segment'[s].rows[k].id < segment'[s].rows[i].id
  <2> SUFFICES ASSUME NEW s \in Segments, NEW i \in DOMAIN segment'[s].rows
               PROVE  /\ segment'[s].rows[i].id < next'
                      /\ \A k \in 1 .. i - 1 : segment'[s].rows[k].id < segment'[s].rows[i].id
    OBVIOUS
  <2>1. CASE s = t
    BY <1>4, <2>1
  <2>2. CASE s # t
    <3>1. segment'[s].rows = segment[s].rows /\ i \in DOMAIN segment[s].rows
      BY <1>4, <2>2
    <3>2. segment[s].rows[i].id \in Nat
      <4>1. segment[s].rows \in Seq(Row)
        BY <1>1 DEF Segment
      <4>2. QED BY <3>1, <4>1, RowFacts
    <3>3. segment[s].rows[i].id < next
          /\ \A k \in 1 .. i - 1 : segment[s].rows[k].id < segment[s].rows[i].id
      BY <3>1 DEF StoreOK
    <3>4. next \in Nat
      BY DEF StoreOK
    <3>5. QED BY <3>1, <3>2, <3>3, <3>4
  <2>3. QED BY <2>1, <2>2
<1>6. \A s \in Segments : State(s)' = State(s)
  BY <1>4 DEF State
<1>7. Ordered'
  BY <1>4 DEF StoreOK, Ordered
<1>8. \A s \in Segments : State(s)' = "absent" => segment'[s].parent = None /\ segment'[s].rows = <<>>
  BY <1>4, <1>6 DEF StoreOK
<1>9. State(Root)' # "absent"
  BY <1>6, BoundsAssumption DEF StoreOK, Root, Segments
<1>10. \A s, k \in Segments : s < k /\ State(s)' = "absent" => State(k)' = "absent"
  BY <1>6 DEF StoreOK
<1>11. QED BY <1>3, <1>5, <1>6, <1>7, <1>8, <1>9, <1>10 DEF StoreOK, Grows

LEMMA TargetExists ==
  ASSUME TypeInv, NEW p, AgentOK(p), State(p.seg) # "absent"
  PROVE  Target(p) \in Segments /\ State(Target(p)) # "absent"
<1>1. p.seg \in Segments
  BY DEF AgentOK, Agent
<1>2. LiveTip(p.seg) => Tip(p.seg) \in Segments /\ State(Tip(p.seg)) = "open"
  BY DEF LiveTip, Open
<1>3. QED BY <1>1, <1>2 DEF Target

LEMMA PendingList ==
  ASSUME NEW p, AgentOK(p)
  PROVE  Pending(p) \in Lists
<1>1. p.memory \in Lists /\ p.saved \in Nat
  BY DEF AgentOK, Agent, Lists
<1>2. Len(p.memory) \in Nat /\ \A i \in 1 .. Len(p.memory) : p.memory[i] \in SUBSET Messages
  BY <1>1 DEF Lists
<1>3. \A i \in p.saved + 1 .. Len(p.memory) : p.memory[i] \in SUBSET Messages
  BY <1>1, <1>2
<1>4. QED BY <1>1, <1>2, <1>3, SubSeqProperties DEF Pending, Lists

\* A process appends what it has not written.
LEMMA PendingStored ==
  ASSUME TypeInv, NEW p, AgentOK(p), State(p.seg) # "absent", AppendPending(p)
  PROVE  StoreOK' /\ Grows
<1> DEFINE t == Target(p)
           list == Pending(p)
           new == Rows(list, next)
           old == segment[t].rows
           n == Len(old)
           m == Len(list)
<1>1. t \in Segments /\ State(t) # "absent" /\ list \in Lists /\ next \in Nat
  BY TargetExists, PendingList DEF TypeInv, StoreOK
<1>2. segment' = [segment EXCEPT ![t].rows = old \o new] /\ next' = next + m
  BY DEF AppendPending
<1>3. /\ new \in Seq(Row) /\ Len(new) = m /\ m \in Nat
      /\ \A i \in 1 .. m : new[i].id = next + i - 1
  BY <1>1, RowsList
<1>4. old \in Seq(Row)
  BY <1>1 DEF TypeInv, StoreOK, Segment
<1>5. n \in Nat /\ DOMAIN old = 1 .. n /\ \A i \in 1 .. n : old[i] \in Row /\ old[i].id \in Nat
  <2> HIDE DEF old
  <2> QED BY <1>4, RowFacts
<1>6. /\ old \o new \in Seq(Row) /\ Len(old \o new) = n + m
      /\ \A i \in 1 .. n + m : (old \o new)[i] = IF i <= n THEN old[i] ELSE new[i - n]
  <2> HIDE DEF old, new, m
  <2> QED BY <1>3, <1>4, ConcatProperties
<1>7. \A i \in 1 .. n : /\ old[i].id < next
                        /\ \A k \in 1 .. i - 1 : old[k].id < old[i].id
  BY <1>1, <1>5 DEF TypeInv, StoreOK
<1> HIDE DEF t, list, new, old, n, m
<1> DEFINE rows == old \o new
<1>8. DOMAIN rows = 1 .. n + m
  BY <1>6
<1>9. ASSUME NEW i \in 1 .. n + m
      PROVE  rows[i].id = IF i <= n THEN old[i].id ELSE next + i - n - 1
  BY <1>3, <1>5, <1>6
<1> HIDE DEF rows
<1>10. ASSUME NEW i \in 1 .. n + m, NEW k \in 1 .. i - 1 PROVE rows[k].id < rows[i].id
  <2>1. k \in 1 .. n + m /\ k < i
    BY <1>3, <1>5
  <2>2. CASE i <= n
    BY <1>5, <1>7, <1>9, <2>1, <2>2
  <2>3. CASE i > n /\ k <= n
    <3>1. rows[k].id = old[k].id /\ rows[i].id = next + i - n - 1 /\ old[k].id < next
      BY <1>5, <1>7, <1>9, <2>1, <2>3
    <3>2. QED BY <1>1, <1>5, <2>1, <2>3, <3>1
  <2>4. CASE k > n
    <3>1. rows[k].id = next + k - n - 1 /\ rows[i].id = next + i - n - 1
      BY <1>5, <1>9, <2>1, <2>4
    <3>2. QED BY <1>1, <1>5, <2>1, <3>1
  <2>5. QED BY <1>5, <2>1, <2>2, <2>3, <2>4
<1>11. ASSUME NEW i \in 1 .. n + m PROVE rows[i].id < next'
  <2>1. CASE i <= n
    BY <1>1, <1>2, <1>3, <1>5, <1>7, <1>9, <2>1
  <2>2. CASE i > n
    BY <1>1, <1>2, <1>3, <1>5, <1>9, <2>2
  <2>3. QED BY <1>5, <2>1, <2>2
<1>12. next' \in Nat /\ next <= next'
  BY <1>1, <1>2, <1>3
<1>13. rows \in Seq(Row)
  BY <1>6 DEF rows
<1>14. segment' = [segment EXCEPT ![t].rows = rows]
  BY <1>2 DEF rows
<1>15. StoreOK
  BY DEF TypeInv
<1>16. QED BY <1>1, <1>8, <1>10, <1>11, <1>12, <1>13, <1>14, <1>15, RowsWritten

\* Rows numbered afresh replace those of a segment.
LEMMA RowsReplaced ==
  ASSUME StoreOK, NEW t \in Segments, State(t) # "absent", NEW list \in Lists,
         segment' = [segment EXCEPT ![t].rows = Rows(list, next)], next' = next + Len(list)
  PROVE  StoreOK' /\ Grows
<1> DEFINE rows == Rows(list, next)
           m == Len(list)
<1>1. next \in Nat
  BY DEF StoreOK
<1>2. /\ rows \in Seq(Row) /\ m \in Nat /\ DOMAIN rows = 1 .. m
      /\ \A i \in 1 .. m : rows[i].id = next + i - 1
  BY <1>1, RowsList
<1> HIDE DEF rows, m
<1>3. next' = next + m /\ segment' = [segment EXCEPT ![t].rows = rows]
  BY DEF rows, m
<1>4. \A i \in DOMAIN rows : rows[i].id < next' /\ \A k \in 1 .. i - 1 : rows[k].id < rows[i].id
  BY <1>1, <1>2, <1>3
<1>5. next' \in Nat /\ next <= next'
  BY <1>1, <1>2, <1>3
<1>6. QED BY <1>2, <1>3, <1>4, <1>5, RowsWritten

-----------------------------------------------------------------------------
\* What a step does to the process that takes it.

\* One process becomes p.
LEMMA OneBecomes ==
  ASSUME TypeInv, NEW a \in Agents, NEW p, AgentOK(p), Set(a, p), StoreOK', Grows,
         State(p.seg) # "absent" \/ segment'[p.seg].state # "absent",
         lock' \in [Segments -> Held(Agents)], SpentOK',
         spent' \in [turns : Nat, compactions : Nat, crashes : Nat]
  PROVE  TypeInv'
<1>1. agent \in [Agents -> Agent] /\ p \in Agent
  BY DEF TypeInv, AgentOK
<1>2. /\ agent' \in [Agents -> Agent] /\ agent'[a] = p
      /\ \A b \in Agents : b # a => agent'[b] = agent[b]
  BY <1>1 DEF Set
<1>3. \A b \in Agents : agent[b].seg \in Segments /\ AgentOK(agent[b]) /\ State(agent[b].seg) # "absent"
  BY <1>1 DEF TypeInv, Agent
<1>4. p.seg \in Segments
  BY <1>1 DEF Agent
<1>5. \A b \in Agents : AgentOK(agent'[b])
  BY <1>2, <1>3
<1>6. \A b \in Agents : segment'[agent'[b].seg].state # "absent"
  BY <1>2, <1>3, <1>4 DEF Grows, State
<1>7. QED BY <1>2, <1>5, <1>6 DEF TypeInv, State

\* One process moves on without a write.
LEMMA OneMovesOn ==
  ASSUME TypeInv, NEW a \in Agents, NEW p, AgentOK(p), State(p.seg) # "absent", Set(a, p),
         UNCHANGED <<segment, next>>, lock' \in [Segments -> Held(Agents)], SpentOK',
         spent' \in [turns : Nat, compactions : Nat, crashes : Nat]
  PROVE  TypeInv'
BY SameStore, OneBecomes DEF TypeInv

LEMMA OneMovesFreely ==
  ASSUME TypeInv, NEW a \in Agents, NEW p, AgentOK(p), State(p.seg) # "absent", Set(a, p),
         UNCHANGED <<segment, next, lock, spent>>
  PROVE  TypeInv'
BY OneMovesOn DEF TypeInv, SpentOK

\* No process moves, and no row is written.
LEMMA NoneMovesOn ==
  ASSUME TypeInv, UNCHANGED <<segment, next, agent, spent>>, lock' \in [Segments -> Held(Agents)]
  PROVE  TypeInv'
<1>1. StoreOK' /\ Grows
  BY SameStore DEF TypeInv
<1>2. QED BY <1>1 DEF TypeInv, SpentOK, State

LEMMA TranscriptList ==
  ASSUME StoreOK, NEW s \in Segments
  PROVE  Transcript(s) \in Lists /\ Len(Transcript(s)) \in Nat
<1>1. segment[s].rows \in Seq(Row)
  BY DEF StoreOK, Segment
<1>2. Transcript(s) \in Lists
  BY <1>1, HoldsList DEF Transcript
<1>3. QED BY <1>2 DEF Lists

\* A process that takes a transcript over for its memory.
LEMMA LoadedOK ==
  ASSUME StoreOK, NEW p, AgentOK(p), NEW s \in Segments,
         p.pc \notin CompactionSteps \ {"release"} \/ Len(Transcript(s)) > 1
  PROVE  /\ AgentOK(Load(p, s)) /\ Load(p, s).seg = s /\ Load(p, s).memory = Transcript(s)
         /\ Load(p, s).pc = p.pc
<1>1. p \in Agent /\ Transcript(s) \in Lists /\ Len(Transcript(s)) \in Nat
  BY TranscriptList DEF AgentOK
<1>2. Load(p, s) \in Agent
  BY <1>1 DEF Load, Agent, Lists
<1>3. /\ Load(p, s).pc = p.pc /\ Load(p, s).turn = p.turn /\ Load(p, s).at = p.at
      /\ Load(p, s).memory = Transcript(s) /\ Load(p, s).saved = Len(Transcript(s))
      /\ Load(p, s).marked = 0 /\ Load(p, s).seg = s
  BY <1>1 DEF Load, Agent
<1>4. QED BY <1>1, <1>2, <1>3 DEF AgentOK

LEMMA BegunOK ==
  ASSUME NEW p, AgentOK(p), p.turn # None
  PROVE  AgentOK(Begin(p)) /\ Begin(p).seg = p.seg
<1>1. p \in Agent /\ p.memory \in Lists /\ Len(p.memory) \in Nat
      /\ p.marked \in Nat /\ p.saved \in Nat
  BY DEF AgentOK, Agent, Lists
<1>2. {Input(p.turn)} \in SUBSET Messages
  BY BoundsAssumption DEF AgentOK, Agent, Input, Messages, Turns
<1>3. /\ Append(p.memory, {Input(p.turn)}) \in Lists
      /\ Len(Append(p.memory, {Input(p.turn)})) = Len(p.memory) + 1
  BY <1>1, <1>2, AppendProperties DEF Lists
<1>4. Begin(p) \in Agent
  BY <1>1, <1>3 DEF Begin, Agent, Lists
<1>5. /\ Begin(p).pc = "run" /\ Begin(p).turn = p.turn /\ Begin(p).seg = p.seg
      /\ Begin(p).memory = Append(p.memory, {Input(p.turn)})
      /\ Begin(p).saved = Len(p.memory) /\ Begin(p).marked = p.marked
  BY <1>1 DEF Begin, Agent
<1>6. QED BY <1>1, <1>3, <1>4, <1>5 DEF AgentOK

LEMMA FreshOK ==
  ASSUME NEW r \in BOOLEAN
  PROVE  AgentOK(Fresh(r)) /\ Fresh(r).seg = Root /\ Fresh(r) \in Agent
<1>1. <<{0}>> \in Lists /\ Len(<<{0}>>) = 1
  BY BoundsAssumption DEF Lists, Messages
<1>2. Root \in Segments
  BY BoundsAssumption DEF Root, Segments
<1>3. Fresh(r) \in Agent
  BY <1>1, <1>2 DEF Fresh, Agent, Lists
<1>4. QED BY <1>1, <1>3 DEF Fresh, AgentOK

-----------------------------------------------------------------------------
LEMMA StoreFacts ==
  ASSUME TypeInv
  PROVE  /\ StoreOK /\ Ordered
         /\ \A k \in Segments : State(k) = "absent" => segment[k].parent = None
         /\ \A a \in Agents : /\ agent[a] \in Agent /\ AgentOK(agent[a])
                              /\ agent[a].seg \in Segments /\ State(agent[a].seg) # "absent"
         /\ Root \in Segments /\ State(Root) # "absent"
BY BoundsAssumption DEF TypeInv, StoreOK, Agent, Root, Segments

LEMMA StartTurnTyped == ASSUME TypeInv, NEW a \in Agents, StartTurn(a) PROVE TypeInv'
<1> DEFINE r == agent[a]
           p == [r EXCEPT !.pc = "wait", !.turn = spent.turns + 1, !.waited = FALSE,
                          !.interrupted = FALSE]
<1>1. r \in Agent /\ AgentOK(r) /\ State(r.seg) # "absent"
  BY StoreFacts
<1>2. spent.turns + 1 \in Turns /\ SpentOK' /\ spent' \in [turns : Nat, compactions : Nat, crashes : Nat]
  BY BoundsAssumption DEF StartTurn, More, Turns, TypeInv, SpentOK
<1>3. p \in Agent
  BY <1>1, <1>2 DEF Agent
<1>4. /\ p.pc = "wait" /\ p.turn = spent.turns + 1 /\ p.seg = r.seg /\ p.memory = r.memory
      /\ p.saved = r.saved /\ p.marked = r.marked
  BY <1>1 DEF Agent
<1>5. AgentOK(p)
  BY <1>1, <1>2, <1>3, <1>4, NoneAssumption DEF AgentOK
<1>6. Set(a, p) /\ UNCHANGED <<segment, next, lock>>
  BY DEF StartTurn
<1> HIDE DEF p
<1>7. QED BY <1>1, <1>2, <1>4, <1>5, <1>6, OneMovesOn DEF TypeInv

LEMMA AdmitTyped == ASSUME TypeInv, NEW a \in Agents, Admit(a) PROVE TypeInv'
<1> DEFINE r == agent[a]
           p == [r EXCEPT !.pc = "recover"]
           q == IF p.waited THEN Load(p, Tip(p.seg)) ELSE p
<1>1. r \in Agent /\ AgentOK(r) /\ r.seg \in Segments /\ State(r.seg) # "absent" /\ r.pc = "wait"
  BY StoreFacts DEF Admit, At
<1>2. /\ p \in Agent /\ p.pc = "recover" /\ p.turn = r.turn /\ p.seg = r.seg /\ p.memory = r.memory
      /\ p.saved = r.saved /\ p.marked = r.marked
  BY <1>1 DEF Agent
<1>3. Set(a, q) /\ UNCHANGED <<segment, next, lock, spent>>
  BY DEF Admit
<1> HIDE DEF p
<1>4. AgentOK(p)
  BY <1>1, <1>2 DEF AgentOK
<1>5. Tip(p.seg) \in Segments /\ State(Tip(p.seg)) # "absent"
  BY <1>1, <1>2, StoreFacts, TipExists
<1>6. AgentOK(q) /\ State(q.seg) # "absent"
  BY <1>1, <1>2, <1>4, <1>5, LoadedOK, StoreFacts
<1> HIDE DEF q
<1>7. QED BY <1>3, <1>6, OneMovesFreely

LEMMA KeepWaitingTyped == ASSUME TypeInv, NEW a \in Agents, KeepWaiting(a) PROVE TypeInv'
<1> DEFINE r == agent[a]
           p == [r EXCEPT !.waited = TRUE]
<1>1. r \in Agent /\ AgentOK(r) /\ State(r.seg) # "absent"
  BY StoreFacts
<1>2. /\ p \in Agent /\ p.pc = r.pc /\ p.turn = r.turn /\ p.at = r.at /\ p.seg = r.seg
      /\ p.memory = r.memory /\ p.saved = r.saved /\ p.marked = r.marked
  BY <1>1 DEF Agent
<1>3. Set(a, p) /\ UNCHANGED <<segment, next, lock, spent>>
  BY DEF KeepWaiting
<1> HIDE DEF p
<1>4. AgentOK(p)
  BY <1>1, <1>2 DEF AgentOK
<1>5. QED BY <1>1, <1>2, <1>3, <1>4, OneMovesFreely

LEMMA GiveUpTyped == ASSUME TypeInv, NEW a \in Agents, GiveUp(a) PROVE TypeInv'
<1> DEFINE r == agent[a]
           p == [r EXCEPT !.pc = "idle", !.turn = None]
<1>1. r \in Agent /\ AgentOK(r) /\ State(r.seg) # "absent"
  BY StoreFacts
<1>2. /\ p \in Agent /\ p.pc = "idle" /\ p.seg = r.seg
      /\ p.memory = r.memory /\ p.saved = r.saved /\ p.marked = r.marked
  BY <1>1 DEF Agent
<1>3. Set(a, p) /\ UNCHANGED <<segment, next, lock, spent>>
  BY DEF GiveUp
<1> HIDE DEF p
<1>4. AgentOK(p)
  BY <1>1, <1>2 DEF AgentOK
<1>5. QED BY <1>1, <1>2, <1>3, <1>4, OneMovesFreely

LEMMA RecoverTyped == ASSUME TypeInv, NEW a \in Agents, Recover(a) PROVE TypeInv'
<1> DEFINE r == agent[a]
           p == [r EXCEPT !.pc = "reopen"]
           l == Load(r, Tip(r.seg))
<1>1. /\ r \in Agent /\ AgentOK(r) /\ r.seg \in Segments /\ State(r.seg) # "absent"
      /\ r.pc = "recover" /\ r.turn # None
  BY StoreFacts DEF Recover, At, AgentOK
<1>2. UNCHANGED <<segment, next, lock, spent>>
  BY DEF Recover
<1>3. \/ Set(a, Begin(r))
      \/ LiveTip(r.seg) /\ Set(a, Begin(l))
      \/ Set(a, p)
  BY DEF Recover
<1>4. CASE Set(a, Begin(r))
  BY <1>1, <1>2, <1>4, BegunOK, OneMovesFreely
<1>5. CASE LiveTip(r.seg) /\ Set(a, Begin(l))
  <2>1. Tip(r.seg) \in Segments /\ State(Tip(r.seg)) # "absent"
    BY <1>5 DEF LiveTip, Open
  <2>2. AgentOK(l) /\ l.seg = Tip(r.seg) /\ l.turn = r.turn
    <3>1. l.turn = r.turn
      BY <1>1 DEF Load, Agent
    <3>2. QED BY <1>1, <2>1, <3>1, StoreFacts, LoadedOK
  <2> HIDE DEF l
  <2>3. QED BY <1>1, <1>2, <1>5, <2>1, <2>2, BegunOK, OneMovesFreely
<1>6. CASE Set(a, p)
  <2>1. /\ p \in Agent /\ p.pc = "reopen" /\ p.turn = r.turn /\ p.seg = r.seg
        /\ p.memory = r.memory /\ p.saved = r.saved /\ p.marked = r.marked
    BY <1>1 DEF Agent
  <2> HIDE DEF p
  <2>2. AgentOK(p)
    BY <1>1, <2>1 DEF AgentOK
  <2>3. QED BY <1>1, <1>2, <1>6, <2>1, <2>2, OneMovesFreely
<1>7. QED BY <1>3, <1>4, <1>5, <1>6

LEMMA LockFreed ==
  ASSUME TypeInv, NEW s
  PROVE  [lock EXCEPT ![s] = Free] \in [Segments -> Held(Agents)]
BY DEF TypeInv, Free, By, Held

\* A segment is opened again.
LEMMA OpenedStore ==
  ASSUME StoreOK, NEW t \in Segments, State(t) # "absent", UNCHANGED next,
         segment' = [segment EXCEPT ![t].state = "open"]
  PROVE  StoreOK' /\ Grows
<1>1. segment \in [Segments -> Segment]
  BY DEF StoreOK
<1>2. [segment[t] EXCEPT !.state = "open"] \in Segment
  BY <1>1 DEF Segment
<1>3. segment' \in [Segments -> Segment]
  BY <1>1, <1>2
<1>4. \A s \in Segments :
        /\ segment'[s].rows = segment[s].rows /\ segment'[s].parent = segment[s].parent
        /\ segment'[s].state = IF s = t THEN "open" ELSE segment[s].state
  BY <1>1 DEF Segment
<1>5. Root \in Segments
  BY BoundsAssumption DEF Root, Segments
<1>6. \A s \in Segments : State(s)' = "absent" <=> State(s) = "absent"
  BY <1>4 DEF State
<1> HIDE DEF State
<1>7. Ordered'
  BY <1>4 DEF StoreOK, Ordered
<1>8. \A s \in Segments : \A i \in DOMAIN segment'[s].rows :
        /\ segment'[s].rows[i].id < next'
        /\ \A k \in 1 .. i - 1 : segment'[s].rows[k].id < segment'[s].rows[i].id
  BY <1>4 DEF StoreOK
<1>9. \A s \in Segments : State(s)' = "absent" => segment'[s].parent = None /\ segment'[s].rows = <<>>
  BY <1>4, <1>6 DEF StoreOK
<1>10. \A s, k \in Segments : s < k /\ State(s)' = "absent" => State(k)' = "absent"
  BY <1>6 DEF StoreOK
<1>11. next' \in Nat /\ State(Root)' # "absent"
  BY <1>5, <1>6 DEF StoreOK
<1>12. QED BY <1>3, <1>6, <1>7, <1>8, <1>9, <1>10, <1>11 DEF StoreOK, Grows

LEMMA ReopenTyped == ASSUME TypeInv, NEW a \in Agents, Reopen(a) PROVE TypeInv'
<1> DEFINE r == agent[a]
           s == r.seg
<1>1. /\ r \in Agent /\ AgentOK(r) /\ s \in Segments /\ State(s) # "absent"
      /\ r.pc = "reopen" /\ r.turn # None
  BY StoreFacts DEF Reopen, At, AgentOK
<1>2. Set(a, Begin(r)) /\ UNCHANGED <<next, spent>>
  BY DEF Reopen
<1>3. AgentOK(Begin(r)) /\ Begin(r).seg = s
  BY <1>1, BegunOK
<1>4. SpentOK' /\ spent' \in [turns : Nat, compactions : Nat, crashes : Nat]
  BY <1>2 DEF TypeInv, SpentOK
<1>5. CASE UNCHANGED <<segment, lock>>
  BY <1>1, <1>2, <1>3, <1>5, OneMovesFreely
<1>6. CASE segment' = [segment EXCEPT ![s].state = "open"] /\ lock' = [lock EXCEPT ![s] = Free]
  <2>1. StoreOK' /\ Grows
    BY <1>1, <1>2, <1>6, OpenedStore, StoreFacts
  <2>2. lock' \in [Segments -> Held(Agents)]
    BY <1>6, LockFreed
  <2>3. QED BY <1>1, <1>2, <1>3, <1>4, <2>1, <2>2, OneBecomes
<1>7. QED BY <1>5, <1>6 DEF Reopen

LEMMA ReplyTyped == ASSUME TypeInv, NEW a \in Agents, Reply(a) PROVE TypeInv'
<1> DEFINE r == agent[a]
           more == Append(r.memory, {Answer(r.turn)})
           p == [r EXCEPT !.memory = more]
<1>1. r \in Agent /\ AgentOK(r) /\ State(r.seg) # "absent" /\ r.pc = "run" /\ r.turn # None
  BY StoreFacts DEF Reply, At, AgentOK
<1>2. r.memory \in Lists /\ Len(r.memory) \in Nat /\ r.saved \in Nat
  BY <1>1 DEF Agent, Lists
<1>3. {Answer(r.turn)} \in SUBSET Messages
  BY <1>1, BoundsAssumption DEF Agent, Answer, Messages, Turns
<1>4. more \in Lists /\ Len(more) = Len(r.memory) + 1
  BY <1>2, <1>3, AppendProperties DEF Lists
<1> HIDE DEF more
<1>5. /\ p \in Agent /\ p.pc = "run" /\ p.turn = r.turn /\ p.seg = r.seg
      /\ p.memory = more /\ p.saved = r.saved /\ p.marked = r.marked
  BY <1>1, <1>4 DEF Agent, Lists
<1>6. Set(a, p) /\ UNCHANGED <<segment, next, lock, spent>>
  BY DEF Reply, more
<1> HIDE DEF p
<1>7. AgentOK(p)
  BY <1>1, <1>2, <1>4, <1>5 DEF AgentOK
<1>8. QED BY <1>1, <1>5, <1>6, <1>7, OneMovesFreely

\* A process that has written its whole memory to its target.
LEMMA WrittenOK ==
  ASSUME TypeInv, NEW r, AgentOK(r), State(r.seg) # "absent", NEW pc \in {"run", "reread"},
         r.pc \in {"run", "adopt"}, pc = "run" => r.pc = "run", pc = "reread" => r.pc = "adopt",
         NEW p, p = [r EXCEPT !.pc = pc, !.seg = Target(r), !.saved = Len(r.memory),
                              !.marked = Len(r.memory)]
  PROVE  AgentOK(p) /\ State(p.seg) # "absent"
<1>1. r \in Agent /\ Len(r.memory) \in Nat
  BY DEF AgentOK, Agent
<1>2. Target(r) \in Segments /\ State(Target(r)) # "absent"
  BY TargetExists
<1>3. /\ p \in Agent /\ p.pc = pc /\ p.turn = r.turn /\ p.at = r.at /\ p.memory = r.memory
      /\ p.saved = Len(r.memory) /\ p.marked = Len(r.memory) /\ p.seg = Target(r)
  BY <1>1, <1>2 DEF Agent
<1>4. QED BY <1>1, <1>2, <1>3 DEF AgentOK

LEMMA FlushTyped == ASSUME TypeInv, NEW a \in Agents, Flush(a) PROVE TypeInv'
<1> DEFINE r == agent[a]
           p == [r EXCEPT !.seg = Target(r), !.saved = Len(r.memory), !.marked = Len(r.memory)]
<1>1. r \in Agent /\ AgentOK(r) /\ State(r.seg) # "absent" /\ r.pc = "run"
  BY StoreFacts DEF Flush, At
<1>2. Set(a, p) /\ AppendPending(r) /\ UNCHANGED <<lock, spent>>
  BY DEF Flush
<1>3. p = [r EXCEPT !.pc = "run", !.seg = Target(r), !.saved = Len(r.memory),
                    !.marked = Len(r.memory)]
  BY <1>1 DEF Agent
<1> HIDE DEF p
<1>4. AgentOK(p) /\ State(p.seg) # "absent"
  BY <1>1, <1>3, WrittenOK
<1>5. StoreOK' /\ Grows
  BY <1>1, <1>2, PendingStored
<1>6. QED BY <1>2, <1>4, <1>5, OneBecomes DEF TypeInv, SpentOK

LEMMA EndTurnTyped == ASSUME TypeInv, NEW a \in Agents, EndTurn(a) PROVE TypeInv'
<1> DEFINE r == agent[a]
           p == [r EXCEPT !.pc = "idle", !.turn = None, !.saved = Len(r.memory)]
<1>1. r \in Agent /\ AgentOK(r) /\ State(r.seg) # "absent" /\ Len(r.memory) \in Nat
      /\ r.marked \in Nat /\ r.saved \in Nat
  BY StoreFacts DEF Agent
<1>2. /\ p \in Agent /\ p.pc = "idle" /\ p.seg = r.seg
      /\ p.memory = r.memory /\ p.saved = Len(r.memory) /\ p.marked = r.marked
  BY <1>1 DEF Agent
<1>3. Set(a, p) /\ UNCHANGED <<segment, next, lock, spent>>
  BY DEF EndTurn
<1> HIDE DEF p
<1>4. AgentOK(p)
  BY <1>1, <1>2 DEF AgentOK
<1>5. QED BY <1>1, <1>2, <1>3, <1>4, OneMovesFreely

LEMMA RefreshLeaseTyped == ASSUME TypeInv, NEW a \in Agents, RefreshLease(a) PROVE TypeInv'
<1> DEFINE r == agent[a]
           p == [r EXCEPT !.interrupted = TRUE]
<1>1. r \in Agent /\ AgentOK(r) /\ State(r.seg) # "absent"
  BY StoreFacts
<1>2. UNCHANGED <<segment, next, lock, spent>> /\ (Set(a, p) \/ UNCHANGED agent)
  BY DEF RefreshLease
<1>3. /\ p \in Agent /\ p.pc = r.pc /\ p.turn = r.turn /\ p.at = r.at /\ p.seg = r.seg
      /\ p.memory = r.memory /\ p.saved = r.saved /\ p.marked = r.marked
  BY <1>1 DEF Agent
<1> HIDE DEF p
<1>4. AgentOK(p)
  BY <1>1, <1>3 DEF AgentOK
<1>5. CASE Set(a, p)
  BY <1>1, <1>2, <1>3, <1>4, <1>5, OneMovesFreely
<1>6. CASE UNCHANGED agent
  BY <1>2, <1>6, NoneMovesOn DEF TypeInv
<1>7. QED BY <1>2, <1>5, <1>6

LEMMA TryLockTyped == ASSUME TypeInv, NEW a \in Agents, TryLock(a) PROVE TypeInv'
<1> DEFINE r == agent[a]
           p == [r EXCEPT !.pc = "mark", !.at = r.seg]
<1>1. /\ r \in Agent /\ AgentOK(r) /\ State(r.seg) # "absent" /\ r.seg \in Segments
      /\ Len(r.memory) > 1
  BY StoreFacts DEF TryLock
<1>2. /\ p \in Agent /\ p.pc = "mark" /\ p.at = r.seg /\ p.seg = r.seg
      /\ p.memory = r.memory /\ p.saved = r.saved /\ p.marked = r.marked
  BY <1>1 DEF Agent
<1>3. Set(a, p) /\ UNCHANGED <<segment, next>>
  BY DEF TryLock
<1> HIDE DEF p
<1>4. AgentOK(p)
  BY <1>1, <1>2, NoneAssumption DEF AgentOK
<1>5. SpentOK' /\ spent' \in [turns : Nat, compactions : Nat, crashes : Nat]
  BY BoundsAssumption DEF TryLock, More, TypeInv, SpentOK
<1>6. By(a) \in Held(Agents)
  BY DEF By, Held
<1>7. lock' \in [Segments -> Held(Agents)]
  BY <1>6 DEF TryLock, TypeInv
<1>8. QED BY <1>1, <1>2, <1>3, <1>4, <1>5, <1>7, OneMovesOn

LEMMA WatermarkNat ==
  ASSUME StoreOK, NEW s \in Segments
  PROVE  Watermark(s) \in Nat
<1>1. segment[s].rows \in Seq(Row)
  BY DEF StoreOK, Segment
<1>2. QED BY <1>1, RowFacts DEF Watermark, Last

LEMMA MarkTyped == ASSUME TypeInv, NEW a \in Agents, Mark(a) PROVE TypeInv'
<1> DEFINE r == agent[a]
           p == [r EXCEPT !.pc = "check", !.wm = Watermark(r.at)]
<1>1. r \in Agent /\ AgentOK(r) /\ State(r.seg) # "absent" /\ r.pc = "mark" /\ StoreOK
  BY StoreFacts DEF Mark, At
<1>2. r.at \in Segments
  BY <1>1 DEF AgentOK, Agent
<1>3. Watermark(r.at) \in Nat
  BY <1>1, <1>2, WatermarkNat
<1>4. /\ p \in Agent /\ p.pc = "check" /\ p.at = r.at /\ p.seg = r.seg /\ p.turn = r.turn
      /\ p.memory = r.memory /\ p.saved = r.saved /\ p.marked = r.marked
  BY <1>1, <1>3 DEF Agent
<1>5. Set(a, p) /\ UNCHANGED <<segment, next, lock, spent>>
  BY DEF Mark
<1> HIDE DEF p
<1>6. AgentOK(p)
  BY <1>1, <1>4 DEF AgentOK
<1>7. QED BY <1>1, <1>4, <1>5, <1>6, OneMovesFreely

LEMMA CheckParentTyped == ASSUME TypeInv, NEW a \in Agents, CheckParent(a) PROVE TypeInv'
<1> DEFINE r == agent[a]
           on == IF r.rotate THEN "adopt" ELSE "summarise"
           p == [r EXCEPT !.pc = on]
           q == IF LiveTip(r.at) THEN Load(r, Tip(r.at)) ELSE r
           u == [q EXCEPT !.pc = "release"]
<1>1. r \in Agent /\ AgentOK(r) /\ State(r.seg) # "absent" /\ r.pc = "check" /\ StoreOK
  BY StoreFacts DEF CheckParent, At
<1>2. (Set(a, p) \/ Set(a, u)) /\ UNCHANGED <<segment, next, lock, spent>>
  BY DEF CheckParent
<1>3. /\ p \in Agent /\ p.pc \in {"adopt", "summarise"} /\ p.at = r.at /\ p.seg = r.seg
      /\ p.turn = r.turn /\ p.memory = r.memory /\ p.saved = r.saved /\ p.marked = r.marked
  BY <1>1 DEF Agent
<1>4. AgentOK(p)
  <2> HIDE DEF p
  <2> QED BY <1>1, <1>3 DEF AgentOK
<1>5. LiveTip(r.at) => Tip(r.at) \in Segments /\ State(Tip(r.at)) # "absent"
  BY DEF LiveTip, Open
<1>6. /\ q \in Agent /\ q.saved <= Len(q.memory) /\ q.marked <= q.saved /\ q.at = r.at
      /\ State(q.seg) # "absent"
  <2>1. CASE LiveTip(r.at)
    <3> DEFINE s == Tip(r.at)
    <3>1. s \in Segments /\ State(s) # "absent" /\ Transcript(s) \in Lists /\ Len(Transcript(s)) \in Nat
      BY <1>1, <1>5, <2>1, TranscriptList
    <3> HIDE DEF s
    <3>2. Load(r, s) \in Agent /\ Load(r, s).at = r.at /\ Load(r, s).seg = s
          /\ Load(r, s).memory = Transcript(s) /\ Load(r, s).saved = Len(Transcript(s))
          /\ Load(r, s).marked = 0
      BY <1>1, <3>1 DEF Load, Agent, Lists
    <3>3. QED BY <2>1, <3>1, <3>2 DEF s
  <2>2. CASE ~LiveTip(r.at)
    BY <1>1, <2>2 DEF AgentOK
  <2>3. QED BY <2>1, <2>2
<1> HIDE DEF q
<1>7. /\ u \in Agent /\ u.pc = "release" /\ u.at = r.at /\ u.seg = q.seg
      /\ u.memory = q.memory /\ u.saved = q.saved /\ u.marked = q.marked
  BY <1>6 DEF Agent
<1>8. AgentOK(u)
  <2> HIDE DEF u
  <2> QED BY <1>1, <1>6, <1>7 DEF AgentOK
<1> HIDE DEF p, u
<1>9. QED BY <1>1, <1>2, <1>3, <1>4, <1>6, <1>7, <1>8, OneMovesFreely

LEMMA AdoptDurableTyped == ASSUME TypeInv, NEW a \in Agents, AdoptDurable(a) PROVE TypeInv'
<1> DEFINE r == agent[a]
           p == [r EXCEPT !.pc = "reread", !.seg = Target(r), !.saved = Len(r.memory),
                          !.marked = Len(r.memory)]
           q == [r EXCEPT !.pc = "summarise"]
<1>1. r \in Agent /\ AgentOK(r) /\ State(r.seg) # "absent" /\ r.pc = "adopt"
  BY StoreFacts DEF AdoptDurable, At
<1>2. /\ UNCHANGED <<lock, spent>>
      /\ \/ AppendPending(r) /\ Set(a, p)
         \/ Set(a, q) /\ UNCHANGED <<segment, next>>
  BY DEF AdoptDurable
<1>3. CASE AppendPending(r) /\ Set(a, p)
  <2>1. AgentOK(p) /\ State(p.seg) # "absent"
    BY <1>1, WrittenOK
  <2>2. StoreOK' /\ Grows
    BY <1>1, <1>3, PendingStored
  <2> HIDE DEF p
  <2>3. QED BY <1>2, <1>3, <2>1, <2>2, OneBecomes DEF TypeInv, SpentOK
<1>4. CASE Set(a, q) /\ UNCHANGED <<segment, next>>
  <2>1. /\ q \in Agent /\ q.pc = "summarise" /\ q.at = r.at /\ q.seg = r.seg /\ q.turn = r.turn
        /\ q.memory = r.memory /\ q.saved = r.saved /\ q.marked = r.marked
    BY <1>1 DEF Agent
  <2> HIDE DEF q
  <2>2. AgentOK(q)
    BY <1>1, <2>1 DEF AgentOK
  <2>3. QED BY <1>1, <1>2, <1>4, <2>1, <2>2, OneMovesFreely
<1>5. QED BY <1>2, <1>3, <1>4

LEMMA RereadTyped == ASSUME TypeInv, NEW a \in Agents, Reread(a) PROVE TypeInv'
<1> DEFINE r == agent[a]
           q == IF Len(Transcript(r.at)) > Len(r.memory)
                THEN [Load(r, r.at) EXCEPT !.seg = r.seg] ELSE r
           p == [q EXCEPT !.pc = "summarise"]
<1>1. r \in Agent /\ AgentOK(r) /\ State(r.seg) # "absent" /\ r.pc = "reread" /\ StoreOK
  BY StoreFacts DEF Reread, At
<1>2. Set(a, p) /\ UNCHANGED <<segment, next, lock, spent>>
  BY DEF Reread
<1>3. r.at \in Segments /\ Len(r.memory) > 1 /\ Len(r.memory) \in Nat
  BY <1>1 DEF AgentOK, Agent
<1>4. /\ q \in Agent /\ AgentOK(q) /\ q.pc = "reread" /\ q.seg = r.seg
  <2>1. CASE Len(Transcript(r.at)) > Len(r.memory)
    <3> DEFINE l == Load(r, r.at)
    <3>1. Len(Transcript(r.at)) > 1
      BY <1>1, <1>3, <2>1, TranscriptList
    <3>2. AgentOK(l) /\ l.pc = "reread"
      BY <1>1, <1>3, <3>1, LoadedOK
    <3> HIDE DEF l
    <3>3. l \in Agent /\ q = [l EXCEPT !.seg = r.seg]
      BY <2>1, <3>2 DEF AgentOK, l
    <3>4. /\ q \in Agent /\ q.seg = r.seg /\ q.pc = "reread" /\ q.at = l.at /\ q.memory = l.memory
          /\ q.saved = l.saved /\ q.marked = l.marked /\ q.turn = l.turn
      BY <1>1, <3>2, <3>3 DEF Agent
    <3> HIDE DEF q
    <3>5. QED BY <3>2, <3>4 DEF AgentOK
  <2>2. CASE ~(Len(Transcript(r.at)) > Len(r.memory))
    BY <1>1, <2>2
  <2>3. QED BY <2>1, <2>2
<1> HIDE DEF q
<1>5. /\ p \in Agent /\ p.pc = "summarise" /\ p.at = q.at /\ p.seg = q.seg /\ p.turn = q.turn
      /\ p.memory = q.memory /\ p.saved = q.saved /\ p.marked = q.marked
  BY <1>4 DEF Agent
<1> HIDE DEF p
<1>6. AgentOK(p)
  BY <1>4, <1>5 DEF AgentOK
<1>7. QED BY <1>1, <1>2, <1>4, <1>5, <1>6, OneMovesFreely

LEMMA AbandonTyped == ASSUME TypeInv, NEW a \in Agents, Abandon(a) PROVE TypeInv'
<1> DEFINE r == agent[a]
           p == [r EXCEPT !.pc = "release"]
<1>1. r \in Agent /\ AgentOK(r) /\ State(r.seg) # "absent" /\ r.pc = "summarise"
  BY StoreFacts DEF Abandon, At
<1>2. /\ p \in Agent /\ p.pc = "release" /\ p.at = r.at /\ p.seg = r.seg
      /\ p.memory = r.memory /\ p.saved = r.saved /\ p.marked = r.marked
  BY <1>1 DEF Agent
<1>3. Set(a, p) /\ UNCHANGED <<segment, next, lock, spent>>
  BY DEF Abandon
<1> HIDE DEF p
<1>4. AgentOK(p)
  BY <1>1, <1>2 DEF AgentOK
<1>5. QED BY <1>1, <1>2, <1>3, <1>4, OneMovesFreely

LEMMA CommitInPlaceTyped == ASSUME TypeInv, NEW a \in Agents, CommitInPlace(a) PROVE TypeInv'
<1> DEFINE r == agent[a]
           done == [r EXCEPT !.pc = "release", !.marked = 0]
           p(list, k) == [done EXCEPT !.memory = list, !.saved = k]
           late == Holds(Between(r.seg, r.wm, next))
<1>1. /\ r \in Agent /\ AgentOK(r) /\ r.seg \in Segments /\ State(r.seg) # "absent"
      /\ r.pc = "summarise" /\ StoreOK
  BY StoreFacts DEF CommitInPlace, At
<1>2. r.at # None /\ Len(r.memory) > 1 /\ r.memory \in Lists
  BY <1>1 DEF AgentOK, Agent, Lists
<1>3. UNCHANGED <<lock, spent>>
  BY DEF CommitInPlace
<1>4. PICK summary \in Summaries(r.memory) :
        \/ /\ segment' = [segment EXCEPT ![r.seg].rows = Rows(summary \o late, next)]
           /\ next' = next + Len(summary \o late)
           /\ Set(a, [done EXCEPT !.memory = summary, !.saved = Len(summary)])
        \/ /\ Set(a, [done EXCEPT !.memory = summary, !.saved = 0])
           /\ UNCHANGED <<segment, next>>
  BY DEF CommitInPlace
<1>5. summary \in Lists /\ Len(summary) \in Nat
  BY <1>2, SummaryList DEF Lists
<1>6. late \in Lists
  BY <1>1, BetweenRows, HoldsList
<1>7. summary \o late \in Lists
  <2> HIDE DEF late
  <2> QED BY <1>5, <1>6, ConcatProperties DEF Lists
<1>8. done \in Agent /\ done.pc = "release" /\ done.at = r.at /\ done.seg = r.seg /\ done.marked = 0
  BY <1>1 DEF Agent
<1> HIDE DEF done, late
<1>9. ASSUME NEW k \in 0 .. Len(summary)
      PROVE  AgentOK(p(summary, k)) /\ p(summary, k).seg = r.seg
  <2>1. k \in Nat
    BY <1>5
  <2> DEFINE q == p(summary, k)
  <2>2. /\ q \in Agent /\ q.pc = "release" /\ q.at = r.at /\ q.seg = r.seg /\ q.memory = summary
        /\ q.saved = k /\ q.marked = 0
    BY <1>5, <1>8, <2>1 DEF Agent, Lists
  <2> HIDE DEF q
  <2>3. AgentOK(q) /\ q.seg = r.seg
    BY <1>2, <1>5, <2>1, <2>2 DEF AgentOK
  <2>4. QED BY <2>3 DEF q
<1>9a. 0 \in 0 .. Len(summary) /\ Len(summary) \in 0 .. Len(summary)
  BY <1>5
<1> HIDE DEF p
<1>10. CASE /\ segment' = [segment EXCEPT ![r.seg].rows = Rows(summary \o late, next)]
            /\ next' = next + Len(summary \o late)
            /\ Set(a, [done EXCEPT !.memory = summary, !.saved = Len(summary)])
  <2>1. StoreOK' /\ Grows
    BY <1>1, <1>7, <1>10, RowsReplaced
  <2>2. Set(a, p(summary, Len(summary)))
    BY <1>10 DEF p
  <2>3. QED BY <1>1, <1>3, <1>9, <1>9a, <2>1, <2>2, OneBecomes DEF TypeInv, SpentOK
<1>11. CASE /\ Set(a, [done EXCEPT !.memory = summary, !.saved = 0])
            /\ UNCHANGED <<segment, next>>
  <2>1. Set(a, p(summary, 0))
    BY <1>11 DEF p
  <2>2. QED BY <1>1, <1>3, <1>9, <1>9a, <1>11, <2>1, OneMovesFreely
<1>12. QED BY <1>4, <1>10, <1>11

LEMMA UndoneOK ==
  ASSUME NEW r, AgentOK(r), r.pc \in CompactionSteps
  PROVE  AgentOK(Undo(r)) /\ Undo(r).seg = r.seg
<1>1. r \in Agent /\ r.marked \in Nat /\ r.saved \in Nat /\ Len(r.memory) \in Nat
  BY DEF AgentOK, Agent
<1>2. /\ Undo(r) \in Agent /\ Undo(r).pc = "release" /\ Undo(r).at = r.at /\ Undo(r).seg = r.seg
      /\ Undo(r).memory = r.memory /\ Undo(r).saved = r.marked /\ Undo(r).marked = r.marked
  BY <1>1 DEF Undo, Agent
<1>3. QED BY <1>1, <1>2 DEF AgentOK

\* A process that goes on to the next step of its compaction.
LEMMA OnwardOK ==
  ASSUME NEW r, AgentOK(r), r.pc \in CompactionSteps \ {"release"},
         NEW p \in Agent, p.pc \in CompactionSteps, p.at = r.at,
         p.memory = r.memory, p.saved = r.saved, p.marked = r.marked
  PROVE  AgentOK(p)
BY DEF AgentOK

LEMMA CheckEndedTyped == ASSUME TypeInv, NEW a \in Agents, CheckEnded(a) PROVE TypeInv'
<1> DEFINE r == agent[a]
           p == [r EXCEPT !.pc = "ceiling"]
<1>1. /\ r \in Agent /\ AgentOK(r) /\ State(r.seg) # "absent" /\ r.pc = "summarise"
      /\ r.ceil \in Nat /\ r.seg \in Segments
  BY StoreFacts DEF CheckEnded, At, Agent
<1>2. (Set(a, Undo(r)) \/ Set(a, p)) /\ UNCHANGED <<segment, next, lock, spent>>
  BY DEF CheckEnded
<1>3. AgentOK(Undo(r)) /\ Undo(r).seg = r.seg
  BY <1>1, UndoneOK
<1>4. /\ p \in Agent /\ p.pc = "ceiling" /\ p.seg = r.seg
      /\ p.at = r.at /\ p.memory = r.memory /\ p.saved = r.saved /\ p.marked = r.marked
  BY <1>1 DEF Agent
<1> HIDE DEF p
<1>5. AgentOK(p) /\ p.seg = r.seg
  BY <1>1, <1>4, OnwardOK
<1>6. QED BY <1>1, <1>2, <1>3, <1>5, OneMovesFreely

LEMMA CeilingTyped == ASSUME TypeInv, NEW a \in Agents, Ceiling(a) PROVE TypeInv'
<1> DEFINE r == agent[a]
           w == Watermark(r.seg)
           p == [r EXCEPT !.pc = "flush", !.ceil = w]
<1>1. /\ r \in Agent /\ AgentOK(r) /\ State(r.seg) # "absent" /\ r.pc = "ceiling"
      /\ r.seg \in Segments /\ StoreOK
  BY StoreFacts DEF Ceiling, At
<1>2. Set(a, p) /\ UNCHANGED <<segment, next, lock, spent>>
  BY DEF Ceiling
<1>3. w \in Nat
  BY <1>1, WatermarkNat
<1> HIDE DEF w
<1>4. /\ p \in Agent /\ p.pc = "flush" /\ p.seg = r.seg
      /\ p.at = r.at /\ p.memory = r.memory /\ p.saved = r.saved /\ p.marked = r.marked
  BY <1>1, <1>3 DEF Agent
<1> HIDE DEF p
<1>5. AgentOK(p) /\ p.seg = r.seg
  BY <1>1, <1>3, <1>4, OnwardOK
<1>6. QED BY <1>1, <1>2, <1>5, OneMovesFreely

LEMMA FlushOwnTyped == ASSUME TypeInv, NEW a \in Agents, FlushOwn(a) PROVE TypeInv'
<1> DEFINE r == agent[a]
           p == [r EXCEPT !.pc = "publish", !.seg = Target(r)]
           q == [r EXCEPT !.pc = "publish"]
<1>1. /\ r \in Agent /\ AgentOK(r) /\ State(r.seg) # "absent" /\ r.pc = "flush"
      /\ r.ceil \in Nat /\ r.seg \in Segments
  BY StoreFacts DEF FlushOwn, At, Agent
<1>2. /\ UNCHANGED <<lock, spent>>
      /\ \/ AppendPending(r) /\ Set(a, p)
         \/ Set(a, q) /\ UNCHANGED <<segment, next>>
  BY DEF FlushOwn
<1>3. Target(r) \in Segments /\ State(Target(r)) # "absent"
  BY <1>1, TargetExists
<1>4. /\ p \in Agent /\ p.pc = "publish" /\ p.seg = Target(r)
      /\ p.at = r.at /\ p.memory = r.memory /\ p.saved = r.saved /\ p.marked = r.marked
      /\ q \in Agent /\ q.pc = "publish" /\ q.seg = r.seg
      /\ q.at = r.at /\ q.memory = r.memory /\ q.saved = r.saved /\ q.marked = r.marked
  BY <1>1, <1>3 DEF Agent
<1> HIDE DEF p, q
<1>5. AgentOK(p) /\ p.seg = Target(r) /\ AgentOK(q) /\ q.seg = r.seg
  BY <1>1, <1>3, <1>4, OnwardOK
<1>6. CASE AppendPending(r) /\ Set(a, p)
  <2>1. StoreOK' /\ Grows
    BY <1>1, <1>6, PendingStored
  <2>2. QED BY <1>2, <1>3, <1>5, <1>6, <2>1, OneBecomes DEF TypeInv, SpentOK
<1>7. CASE Set(a, q) /\ UNCHANGED <<segment, next>>
  BY <1>1, <1>2, <1>5, <1>7, OneMovesFreely
<1>8. QED BY <1>2, <1>6, <1>7

\* A segment is closed and its continuation published, under the next number.
LEMMA PublishedStore ==
  ASSUME StoreOK, NEW t \in Segments, State(t) # "absent",
         NEW child \in Segments, State(child) = "absent",
         \A s \in 1 .. child - 1 : State(s) # "absent", NEW list \in Lists,
         segment' = [segment EXCEPT ![t].state = "closed",
                       ![child] = [state |-> "open", parent |-> t, rows |-> Rows(list, next)]],
         next' = next + Len(list)
  PROVE  StoreOK' /\ Grows
<1> DEFINE rows == Rows(list, next)
           m == Len(list)
           new == [state |-> "open", parent |-> t, rows |-> rows]
<1>0. segment \in [Segments -> Segment] /\ next \in Nat
  BY DEF StoreOK
<1>1. /\ rows \in Seq(Row) /\ m \in Nat /\ DOMAIN rows = 1 .. m
      /\ \A i \in 1 .. m : rows[i].id = next + i - 1
  BY <1>0, RowsList
<1>2. next' = next + m /\ segment' = [segment EXCEPT ![t].state = "closed", ![child] = new]
  OBVIOUS
<1> HIDE DEF rows, m
<1>3. new \in Segment /\ new.state = "open" /\ new.parent = t /\ new.rows = rows
  BY <1>1 DEF Segment
<1> HIDE DEF new
<1>4. [segment[t] EXCEPT !.state = "closed"] \in Segment
  BY <1>0 DEF Segment
<1>5. t # child
  BY DEF State
<1>6. /\ segment'[child] = new /\ segment'[t] = [segment[t] EXCEPT !.state = "closed"]
      /\ \A s \in Segments : s # child /\ s # t => segment'[s] = segment[s]
  BY <1>0, <1>2, <1>5
<1>7. segment' \in [Segments -> Segment]
  BY <1>0, <1>2, <1>3, <1>4, <1>6
<1>8. \A s \in Segments : s # child =>
        /\ segment'[s].rows = segment[s].rows /\ segment'[s].parent = segment[s].parent
        /\ segment'[s].state = IF s = t THEN "closed" ELSE segment[s].state
  BY <1>0, <1>6 DEF Segment
<1>9. t < child /\ t \in Int /\ child \in Int /\ \A s \in Segments : s \in Int /\ s >= 1
  BY <1>5, BoundsAssumption DEF StoreOK, Segments
<1>10. \A s \in Segments : State(s)' = "absent" <=> s # child /\ State(s) = "absent"
  <2>1. ASSUME NEW s \in Segments, s = child PROVE State(s)' # "absent"
    BY <1>3, <1>6, <2>1 DEF State
  <2>2. ASSUME NEW s \in Segments, s # child PROVE State(s)' = "absent" <=> State(s) = "absent"
    <3>1. CASE s = t
      <4>1. segment'[t].state = "closed"
        BY <1>8, <2>2, <3>1
      <4>2. QED BY <3>1, <4>1 DEF State
    <3>2. CASE s # t
      <4>1. segment'[s].state = segment[s].state
        BY <1>8, <2>2, <3>2
      <4>2. QED BY <4>1 DEF State
    <3>3. QED BY <3>1, <3>2
  <2>3. QED BY <2>1, <2>2
<1> HIDE DEF State
<1>11. \A s \in Segments : State(s)' = "absent" => segment'[s].parent = None /\ segment'[s].rows = <<>>
  BY <1>8, <1>10 DEF StoreOK
<1>12. \A s, k \in Segments : s < k /\ State(s)' = "absent" => State(k)' = "absent"
  <2> SUFFICES ASSUME NEW s \in Segments, NEW k \in Segments, s < k, State(s)' = "absent"
               PROVE  State(k)' = "absent"
    OBVIOUS
  <2>1. s # child /\ State(s) = "absent"
    BY <1>10
  <2>2. s > child
    BY <1>9, <2>1
  <2>3. State(k) = "absent" /\ k # child
    BY <1>9, <2>1, <2>2 DEF StoreOK
  <2>4. QED BY <1>10, <2>3
<1>13. Root \in Segments
  BY BoundsAssumption DEF Root, Segments
<1>14. State(Root)' # "absent"
  BY <1>10, <1>13 DEF StoreOK
<1>15. Ordered'
  <2> SUFFICES ASSUME NEW s \in Segments, segment'[s].parent # None
               PROVE  segment'[s].parent \in Segments /\ segment'[s].parent < s
    BY DEF Ordered
  <2>1. CASE s = child
    BY <1>3, <1>6, <1>9, <2>1
  <2>2. CASE s # child
    BY <1>8, <2>2 DEF StoreOK, Ordered
  <2>3. QED BY <2>1, <2>2
<1>16. \A s \in Segments : \A i \in DOMAIN segment'[s].rows :
         /\ segment'[s].rows[i].id < next'
         /\ \A k \in 1 .. i - 1 : segment'[s].rows[k].id < segment'[s].rows[i].id
  <2> SUFFICES ASSUME NEW s \in Segments, NEW i \in DOMAIN segment'[s].rows
               PROVE  /\ segment'[s].rows[i].id < next'
                      /\ \A k \in 1 .. i - 1 : segment'[s].rows[k].id < segment'[s].rows[i].id
    OBVIOUS
  <2>1. CASE s = child
    <3>1. segment'[s].rows = rows /\ i \in 1 .. m
      BY <1>1, <1>3, <1>6, <2>1
    <3>2. rows[i].id = next + i - 1 /\ i \in 1 .. m
          /\ \A k \in 1 .. i - 1 : rows[k].id = next + k - 1
      BY <1>1, <3>1
    <3>3. i >= 1 /\ i <= m /\ next' = next + m
      BY <1>1, <1>2, <3>2
    <3>4. rows[i].id < next' /\ \A k \in 1 .. i - 1 : rows[k].id < rows[i].id
      <4>1. rows[i].id < next'
        BY <1>0, <1>1, <3>2, <3>3
      <4>2. ASSUME NEW k \in 1 .. i - 1 PROVE rows[k].id < rows[i].id
        BY <1>0, <1>1, <3>2
      <4>3. QED BY <4>1, <4>2
    <3>5. QED BY <3>1, <3>4
  <2>2. CASE s # child
    <3>1. segment'[s].rows = segment[s].rows /\ i \in DOMAIN segment[s].rows
      BY <1>8, <2>2
    <3>2. segment[s].rows \in Seq(Row)
      BY <1>0 DEF Segment
    <3>3. segment[s].rows[i].id \in Nat
      BY <3>1, <3>2, RowFacts
    <3>4. segment[s].rows[i].id < next
          /\ \A k \in 1 .. i - 1 : segment[s].rows[k].id < segment[s].rows[i].id
      BY <3>1 DEF StoreOK
    <3>5. next <= next' /\ next' \in Nat
      BY <1>0, <1>1, <1>2
    <3> DEFINE id == segment[s].rows[i].id
    <3>6. segment[s].rows[i].id < next'
      <4>1. id \in Nat /\ id < next
        BY <3>3, <3>4
      <4> HIDE DEF id
      <4>2. id < next'
        BY <1>0, <3>5, <4>1
      <4>3. QED BY <4>2 DEF id
    <3>7. QED BY <3>1, <3>4, <3>6
  <2>3. QED BY <2>1, <2>2
<1>17. next' \in Nat
  BY <1>0, <1>1, <1>2
<1>18. Grows
  BY <1>10 DEF Grows
<1>19. QED BY <1>7, <1>11, <1>12, <1>14, <1>15, <1>16, <1>17, <1>18 DEF StoreOK

LEMMA PublishTyped == ASSUME TypeInv, NEW a \in Agents, Publish(a) PROVE TypeInv'
<1> DEFINE r == agent[a]
           late == Holds(Between(r.seg, r.wm, r.ceil))
<1>1. /\ r \in Agent /\ AgentOK(r) /\ r.seg \in Segments /\ State(r.seg) # "absent"
      /\ r.pc = "publish" /\ StoreOK
  BY StoreFacts DEF Publish, At
<1>2. r.at # None /\ Len(r.memory) > 1 /\ r.memory \in Lists
  BY <1>1 DEF AgentOK, Agent, Lists
<1>3. UNCHANGED <<lock, spent>>
  BY DEF Publish
<1>4. late \in Lists
  BY <1>1, BetweenRows, HoldsList
<1>5. CASE Set(a, Undo(r)) /\ UNCHANGED <<segment, next>>
  <2>1. AgentOK(Undo(r)) /\ Undo(r).seg = r.seg
    BY <1>1, UndoneOK
  <2>2. QED BY <1>1, <1>3, <1>5, <2>1, OneMovesFreely
<1>6. ASSUME NEW summary \in Summaries(r.memory), NEW child \in Segments,
             State(child) = "absent", \A s \in 1 .. child - 1 : State(s) # "absent",
             segment' = [segment EXCEPT ![r.seg].state = "closed",
                           ![child] = [state |-> "open", parent |-> r.seg,
                                       rows |-> Rows(summary \o late, next)]],
             next' = next + Len(summary \o late),
             Set(a, [r EXCEPT !.pc = "release", !.seg = child, !.memory = summary,
                              !.saved = Len(summary), !.marked = 0])
      PROVE  TypeInv'
  <2>1. summary \in Lists /\ Len(summary) \in Nat
    BY <1>2, SummaryList DEF Lists
  <2> HIDE DEF late
  <2>2. summary \o late \in Lists
    BY <1>4, <2>1, ConcatProperties DEF Lists
  <2> DEFINE list == summary \o late
  <2>3. StoreOK' /\ Grows
    <3>1. /\ segment' = [segment EXCEPT ![r.seg].state = "closed",
                           ![child] = [state |-> "open", parent |-> r.seg, rows |-> Rows(list, next)]]
          /\ next' = next + Len(list) /\ list \in Lists
      BY <1>6, <2>2
    <3> HIDE DEF list
    <3>2. QED BY <1>1, <1>6, <3>1, PublishedStore
  <2> DEFINE p == [r EXCEPT !.pc = "release", !.seg = child, !.memory = summary,
                            !.saved = Len(summary), !.marked = 0]
  <2>4. /\ p \in Agent /\ p.pc = "release" /\ p.at = r.at /\ p.seg = child
        /\ p.memory = summary /\ p.saved = Len(summary) /\ p.marked = 0
    BY <1>1, <2>1 DEF Agent, Lists
  <2>5. Set(a, p)
    BY <1>6
  <2> HIDE DEF p
  <2>6. AgentOK(p)
    BY <1>2, <2>1, <2>4 DEF AgentOK
  <2>7. segment'[child].state # "absent"
    <3>1. segment \in [Segments -> Segment] /\ r.seg # child
      BY <1>1, <1>6 DEF StoreOK
    <3>2. QED BY <1>6, <3>1
  <2>8. QED BY <1>3, <2>3, <2>4, <2>5, <2>6, <2>7, OneBecomes DEF TypeInv, SpentOK
<1>7. QED BY <1>5, <1>6 DEF Publish

LEMMA ReleaseTyped == ASSUME TypeInv, NEW a \in Agents, Release(a) PROVE TypeInv'
<1> DEFINE r == agent[a]
           p == Back(r)
<1>1. r \in Agent /\ AgentOK(r) /\ State(r.seg) # "absent"
  BY StoreFacts
<1>2. /\ p \in Agent /\ p.pc = (IF r.turn = None THEN "idle" ELSE "run") /\ p.turn = r.turn
      /\ p.seg = r.seg /\ p.memory = r.memory /\ p.saved = r.saved /\ p.marked = r.marked
  BY <1>1 DEF Back, Agent
<1>3. Set(a, p) /\ UNCHANGED <<segment, next, spent>>
  BY DEF Release
<1> HIDE DEF p
<1>4. AgentOK(p)
  BY <1>1, <1>2 DEF AgentOK
<1>5. lock' \in [Segments -> Held(Agents)]
  <2>1. lock' = lock \/ lock' = [lock EXCEPT ![r.at] = Free]
    BY DEF Release, TypeInv
  <2>2. QED BY <2>1, LockFreed DEF TypeInv
<1>6. QED BY <1>1, <1>2, <1>3, <1>4, <1>5, OneMovesOn DEF TypeInv, SpentOK

LEMMA RefreshLockTyped == ASSUME TypeInv, NEW a \in Agents, RefreshLock(a) PROVE TypeInv'
<1>1. \A l \in Held(Agents) : Revived(l, a) \in Held(Agents)
  BY DEF Revived, Held
<1>2. lock' \in [Segments -> Held(Agents)]
  BY <1>1 DEF RefreshLock, TypeInv
<1>3. QED BY <1>2, NoneMovesOn DEF RefreshLock

LEMMA ExpiresTyped ==
  ASSUME TypeInv, LeaseExpires \/ \E s \in Segments : LockExpires(s)
  PROVE  TypeInv'
<1>1. CASE LeaseExpires
  BY <1>1, NoneMovesOn DEF LeaseExpires, TypeInv
<1>2. ASSUME NEW s \in Segments, LockExpires(s) PROVE TypeInv'
  <2>1. lock' = [lock EXCEPT ![s].expired = TRUE]
    BY <1>2 DEF LockExpires
  <2>2. lock' \in [Segments -> Held(Agents)]
    BY <2>1 DEF TypeInv, Held
  <2>3. QED BY <1>2, <2>2, NoneMovesOn DEF LockExpires
<1>3. QED BY <1>1, <1>2

LEMMA CrashTyped == ASSUME TypeInv, NEW a \in Agents, Crash(a) PROVE TypeInv'
<1> DEFINE r == agent[a]
           p == [Fresh(r.rotate) EXCEPT !.pc = "down"]
<1>1. r.rotate \in BOOLEAN /\ Root \in Segments /\ State(Root) # "absent"
  BY StoreFacts DEF Agent
<1>2. AgentOK(Fresh(r.rotate)) /\ Fresh(r.rotate).seg = Root /\ Fresh(r.rotate) \in Agent
  BY <1>1, FreshOK
<1>3. /\ p \in Agent /\ p.pc = "down" /\ p.seg = Root /\ p.memory = Fresh(r.rotate).memory
      /\ p.saved = Fresh(r.rotate).saved /\ p.marked = Fresh(r.rotate).marked
  BY <1>2 DEF Agent
<1>4. Set(a, p) /\ UNCHANGED <<segment, next>>
  BY DEF Crash
<1> HIDE DEF p
<1>5. AgentOK(p)
  BY <1>2, <1>3 DEF AgentOK
<1>6. SpentOK' /\ spent' \in [turns : Nat, compactions : Nat, crashes : Nat]
  BY BoundsAssumption DEF Crash, More, TypeInv, SpentOK
<1>7. lock' \in [Segments -> Held(Agents)]
  <2>1. lock' = [s \in Segments |-> IF lock[s].holder = a THEN [lock[s] EXCEPT !.orphan = TRUE] ELSE lock[s]]
    BY DEF Crash
  <2>2. \A s \in Segments : lock[s] \in Held(Agents) /\ [lock[s] EXCEPT !.orphan = TRUE] \in Held(Agents)
    BY DEF TypeInv, Held
  <2>3. QED BY <2>1, <2>2
<1>8. QED BY <1>1, <1>3, <1>4, <1>5, <1>6, <1>7, OneMovesOn

LEMMA ResumeTyped == ASSUME TypeInv, NEW a \in Agents, Resume(a) PROVE TypeInv'
<1> DEFINE r == agent[a]
           l == Load(r, Tip(Root))
           p == [l EXCEPT !.pc = "idle"]
<1>1. r \in Agent /\ AgentOK(r) /\ r.pc = "down"
  BY StoreFacts DEF Resume, At
<1>2. Tip(Root) \in Segments /\ State(Tip(Root)) # "absent"
  BY StoreFacts, TipExists
<1>3. AgentOK(l) /\ l.seg = Tip(Root)
  BY <1>1, <1>2, StoreFacts, LoadedOK
<1>4. Set(a, p) /\ UNCHANGED <<segment, next, lock, spent>>
  BY DEF Resume
<1> HIDE DEF l
<1>5. /\ p \in Agent /\ p.pc = "idle" /\ p.seg = l.seg /\ p.memory = l.memory
      /\ p.saved = l.saved /\ p.marked = l.marked
  BY <1>3 DEF AgentOK, Agent
<1> HIDE DEF p
<1>6. AgentOK(p)
  BY <1>3, <1>5 DEF AgentOK
<1>7. QED BY <1>2, <1>3, <1>4, <1>5, <1>6, OneMovesFreely

-----------------------------------------------------------------------------
LEMMA InitTyped == Init => TypeInv
<1> SUFFICES ASSUME Init PROVE TypeInv
  OBVIOUS
<1>0. None \notin Segments /\ 2 \in Segments /\ Root \in Segments /\ Root = 1
      /\ 0 \in Messages /\ Segments \subseteq Nat
  BY NoneAssumption, BoundsAssumption DEF Segments, Root, Messages
<1>1. PICK root \in {"open", "closed"}, child \in {"absent", "ended"} :
        /\ child = "ended" => root = "closed"
        /\ segment = [s \in Segments |->
             CASE s = Root -> [state |-> root, parent |-> None, rows |-> <<[id |-> 1, holds |-> {0}]>>]
               [] s = 2 /\ child = "ended" -> [state |-> child, parent |-> Root,
                                               rows |-> <<[id |-> 2, holds |-> {0}]>>]
               [] OTHER -> Absent]
  BY DEF Init
<1> DEFINE row(i) == [id |-> i, holds |-> {0}]
           one(i) == <<row(i)>>
           first  == [state |-> root, parent |-> None, rows |-> one(1)]
           second == [state |-> child, parent |-> Root, rows |-> one(2)]
<1>2. \A i \in {1, 2} : /\ one(i) \in Seq(Row) /\ DOMAIN one(i) = 1 .. 1 /\ one(i)[1].id = i
  <2>1. \A i \in {1, 2} : row(i) \in Row /\ row(i).id = i
    BY <1>0 DEF Row
  <2> HIDE DEF row
  <2>2. QED BY <2>1
<1>3. segment = [s \in Segments |->
         CASE s = Root -> first [] s = 2 /\ child = "ended" -> second [] OTHER -> Absent]
  BY <1>1
<1> HIDE DEF one, row
<1>4. first \in Segment /\ second \in Segment /\ Absent \in Segment
  BY <1>0, <1>2 DEF Segment, Absent
<1>5. /\ first.parent = None /\ first.state = root /\ first.rows = one(1)
      /\ second.parent = Root /\ second.state = child /\ second.rows = one(2)
      /\ Absent.parent = None /\ Absent.state = "absent" /\ Absent.rows = <<>>
  BY DEF Absent
<1> HIDE DEF first, second
<1>6. /\ segment[Root] = first
      /\ \A s \in Segments : s = Root \/ segment[s] = Absent
                           \/ (s = 2 /\ child = "ended" /\ segment[s] = second)
  <2>1. \A s \in Segments : s = Root => segment[s] = first
    BY <1>0, <1>3
  <2>2. \A s \in Segments : s # Root /\ s = 2 /\ child = "ended" => segment[s] = second
    BY <1>3
  <2>3. \A s \in Segments : s # Root /\ ~(s = 2 /\ child = "ended") => segment[s] = Absent
    BY <1>3
  <2>4. QED BY <1>0, <2>1, <2>2, <2>3
<1>7. segment \in [Segments -> Segment]
  BY <1>3, <1>4, <1>6
<1>8. \A s \in Segments : \A i \in DOMAIN segment[s].rows :
        /\ segment[s].rows[i].id < 3
        /\ \A k \in 1 .. i - 1 : segment[s].rows[k].id < segment[s].rows[i].id
  <2> SUFFICES ASSUME NEW s \in Segments, NEW i \in DOMAIN segment[s].rows
               PROVE  /\ segment[s].rows[i].id < 3
                      /\ \A k \in 1 .. i - 1 : segment[s].rows[k].id < segment[s].rows[i].id
    OBVIOUS
  <2>1. segment[s].rows \in {<<>>, one(1), one(2)}
    BY <1>5, <1>6
  <2>2. segment[s].rows # <<>>
    OBVIOUS
  <2>3. PICK j \in {1, 2} : segment[s].rows = one(j)
    BY <2>1, <2>2
  <2>4. i = 1 /\ segment[s].rows[i].id = j
    BY <1>2, <2>3
  <2>5. QED BY <2>4
<1>9. \A s \in Segments : State(s) = "absent" => segment[s].parent = None /\ segment[s].rows = <<>>
  BY <1>1, <1>5, <1>6 DEF State
<1>10. \A s, k \in Segments : s < k /\ State(s) = "absent" => State(k) = "absent"
  <2> SUFFICES ASSUME NEW s \in Segments, NEW k \in Segments, s < k, State(k) # "absent"
               PROVE  State(s) # "absent"
    OBVIOUS
  <2>1. k = Root \/ k = 2
    BY <1>5, <1>6 DEF State
  <2>2. s = Root
    BY <1>0, <2>1, BoundsAssumption DEF Segments
  <2>3. QED BY <1>1, <1>5, <1>6, <2>2 DEF State
<1>11. State(Root) # "absent"
  BY <1>1, <1>5, <1>6 DEF State
<1>12. Ordered
  BY <1>0, <1>5, <1>6 DEF Ordered
<1>13. next = 3
  BY DEF Init
<1>14. StoreOK
  BY <1>7, <1>8, <1>9, <1>10, <1>11, <1>12, <1>13 DEF StoreOK
<1>15. PICK rotate \in Rotates : agent = [a \in Agents |-> Fresh(rotate)]
  BY DEF Init
<1>16. AgentOK(Fresh(rotate)) /\ Fresh(rotate).seg = Root /\ Fresh(rotate) \in Agent
  BY <1>15, RotatesAssumption, FreshOK
<1>17. \A a \in Agents : AgentOK(agent[a]) /\ State(agent[a].seg) # "absent"
  BY <1>11, <1>15, <1>16
<1>18. agent \in [Agents -> Agent]
  BY <1>15, <1>16
<1>19. lock \in [Segments -> Held(Agents)]
  BY DEF Init, Free, By, Held
<1>20. SpentOK /\ spent \in [turns : Nat, compactions : Nat, crashes : Nat]
  BY BoundsAssumption DEF Init, SpentOK
<1>21. QED BY <1>14, <1>17, <1>18, <1>19, <1>20 DEF TypeInv

LEMMA StepTyped == TypeInv /\ [Next]_vars => TypeInv'
<1> SUFFICES ASSUME TypeInv, [Next]_vars PROVE TypeInv'
  OBVIOUS
<1>1. ASSUME NEW a \in Agents, Turn(a) PROVE TypeInv'
  BY <1>1, StartTurnTyped, AdmitTyped, KeepWaitingTyped, GiveUpTyped, RecoverTyped, ReopenTyped,
     ReplyTyped, FlushTyped, EndTurnTyped, RefreshLeaseTyped DEF Turn
<1>2. ASSUME NEW a \in Agents, Compaction(a) PROVE TypeInv'
  BY <1>2, TryLockTyped, MarkTyped, CheckParentTyped, AdoptDurableTyped, RereadTyped,
     AbandonTyped, CommitInPlaceTyped, CheckEndedTyped, CeilingTyped, FlushOwnTyped,
     PublishTyped, ReleaseTyped, RefreshLockTyped DEF Compaction
<1>3. ASSUME NEW a \in Agents, Crash(a) \/ Resume(a) PROVE TypeInv'
  BY <1>3, CrashTyped, ResumeTyped
<1>4. CASE LeaseExpires \/ \E s \in Segments : LockExpires(s)
  BY <1>4, ExpiresTyped
<1>5. CASE UNCHANGED vars
  BY <1>5, NoneMovesOn DEF vars, TypeInv
<1>6. QED BY <1>1, <1>2, <1>3, <1>4, <1>5 DEF Next

-----------------------------------------------------------------------------
\* The watermark of a compaction divides the rows of its segment while it holds the lock,
\* expired or not: only the holder of a lock that has not expired rewrites a segment, and is
\* then done with its watermark.
Guarded == CompactionSteps \ {"mark", "release"}

RowIn(rows, id) == \E i \in DOMAIN rows : rows[i].id = id

WatermarkHeld ==
  \A a \in Agents :
    (/\ agent[a].pc \in Guarded /\ lock[agent[a].at].holder = a /\ agent[a].wm # 0)
    => RowIn(segment[agent[a].at].rows, agent[a].wm)

\* A process enters the steps that rely on a watermark by taking one, and keeps it.
Keeps(p, q) == q.pc \in Guarded => p.pc \in Guarded /\ q.at = p.at /\ q.wm = p.wm

IdsStay(s) == \A id : RowIn(segment[s].rows, id) => RowIn(segment'[s].rows, id)

LEMMA WatermarkKeeps ==
  ASSUME TypeInv, WatermarkHeld, NEW a \in Agents,
         \A b \in Agents : b # a => agent'[b] = agent[b],
         Keeps(agent[a], agent'[a]),
         agent'[a].pc \in Guarded => \A s \in Segments : lock'[s].holder = a => lock[s].holder = a,
         \A b \in Agents, s \in Segments : b # a /\ lock'[s].holder = b => lock[s].holder = b,
         \A s \in Segments : IdsStay(s) \/ (lock[s].holder = a /\ agent'[a].pc \notin Guarded)
  PROVE  WatermarkHeld'
<1> SUFFICES ASSUME NEW b \in Agents, agent'[b].pc \in Guarded,
                    lock'[agent'[b].at].holder = b, agent'[b].wm # 0
             PROVE  RowIn(segment'[agent'[b].at].rows, agent'[b].wm)
  BY DEF WatermarkHeld
<1>1. /\ agent[b].pc \in Guarded /\ agent'[b].at = agent[b].at /\ agent'[b].wm = agent[b].wm
  BY DEF Keeps
<1>2. agent[b].at \in Segments
  BY <1>1, StoreFacts DEF AgentOK, Agent, Guarded
<1>3. lock[agent[b].at].holder = b
  BY <1>1, <1>2
<1>4. RowIn(segment[agent[b].at].rows, agent[b].wm)
  BY <1>1, <1>3 DEF WatermarkHeld
<1>5. IdsStay(agent[b].at)
  BY <1>2, <1>3
<1>6. QED BY <1>1, <1>4, <1>5 DEF IdsStay

LEMMA RowsStay ==
  ASSUME NEW s, segment'[s].rows = segment[s].rows
  PROVE  IdsStay(s)
BY DEF IdsStay, RowIn

\* A process that appends keeps the rows that are there.
LEMMA PendingStays ==
  ASSUME TypeInv, NEW p, AgentOK(p), State(p.seg) # "absent", AppendPending(p), NEW s \in Segments
  PROVE  IdsStay(s)
<1> DEFINE t == Target(p)
           new == Rows(Pending(p), next)
           old == segment[t].rows
<1>1. segment' = [segment EXCEPT ![t].rows = old \o new]
  BY DEF AppendPending
<1>2. t \in Segments /\ Pending(p) \in Lists /\ next \in Nat /\ segment \in [Segments -> Segment]
  BY TargetExists, PendingList DEF TypeInv, StoreOK
<1>3. new \in Seq(Row) /\ old \in Seq(Row)
  BY <1>2, RowsList DEF Segment
<1> HIDE DEF t, new, old
<1>4. CASE s = t
  <2>1. segment'[s].rows = old \o new /\ segment[s].rows = old
    BY <1>1, <1>2, <1>4 DEF Segment, old
  <2>2. Len(old) \in Nat /\ DOMAIN old = 1 .. Len(old) /\ Len(new) \in Nat
    BY <1>3, LenProperties
  <2>3. /\ DOMAIN (old \o new) = 1 .. Len(old) + Len(new)
        /\ \A i \in 1 .. Len(old) : (old \o new)[i] = old[i]
    BY <1>3, <2>2, ConcatProperties, LenProperties
  <2>4. QED BY <2>1, <2>2, <2>3 DEF IdsStay, RowIn
<1>5. CASE s # t
  BY <1>1, <1>2, <1>5, RowsStay
<1>6. QED BY <1>4, <1>5

-----------------------------------------------------------------------------
\* How the processes move.

LEMMA OthersStay ==
  ASSUME TypeInv, NEW a \in Agents, NEW p, Set(a, p)
  PROVE  agent'[a] = p /\ \A b \in Agents : b # a => agent'[b] = agent[b]
BY DEF Set, TypeInv

LEMMA TurnKeeps ==
  ASSUME TypeInv, NEW a \in Agents, Turn(a)
  PROVE  Keeps(agent[a], agent'[a]) /\ \A b \in Agents : b # a => agent'[b] = agent[b]
<1> DEFINE r == agent[a]
<1>1. r \in Agent
  BY StoreFacts
<1>2. ASSUME NEW p, Set(a, p), Keeps(r, p)
      PROVE  Keeps(agent[a], agent'[a]) /\ \A b \in Agents : b # a => agent'[b] = agent[b]
  BY <1>2, OthersStay
<1>3. CASE StartTurn(a)
  <2> DEFINE p == [r EXCEPT !.pc = "wait", !.turn = spent.turns + 1, !.waited = FALSE, !.interrupted = FALSE]
  <2>1. Set(a, p)
    BY <1>3 DEF StartTurn
  <2>2. p.pc = "wait"
    BY <1>1 DEF Agent
  <2> HIDE DEF p
  <2>3. QED BY <1>2, <2>1, <2>2 DEF Keeps, Guarded
<1>4. CASE Admit(a)
  <2> DEFINE p == [r EXCEPT !.pc = "recover"]
             q == IF p.waited THEN Load(p, Tip(p.seg)) ELSE p
  <2>1. Set(a, q)
    BY <1>4 DEF Admit
  <2>2. q.pc = "recover"
    BY <1>1 DEF Agent, Load
  <2> HIDE DEF q
  <2>3. QED BY <1>2, <2>1, <2>2 DEF Keeps, Guarded
<1>5. CASE KeepWaiting(a)
  <2> DEFINE p == [r EXCEPT !.waited = TRUE]
  <2>1. Set(a, p) /\ r.pc = "wait"
    BY <1>5 DEF KeepWaiting, At
  <2>2. p.pc = "wait"
    BY <1>1, <2>1 DEF Agent
  <2> HIDE DEF p
  <2>3. QED BY <1>2, <2>1, <2>2 DEF Keeps, Guarded
<1>6. CASE GiveUp(a)
  <2> DEFINE p == [r EXCEPT !.pc = "idle", !.turn = None]
  <2>1. Set(a, p)
    BY <1>6 DEF GiveUp
  <2>2. p.pc = "idle"
    BY <1>1 DEF Agent
  <2> HIDE DEF p
  <2>3. QED BY <1>2, <2>1, <2>2 DEF Keeps, Guarded
<1>7. \A p : p \in Agent => Begin(p).pc = "run"
  BY DEF Begin, Agent
<1>8. CASE Recover(a)
  <2> DEFINE l == Load(r, Tip(r.seg))
             p == [r EXCEPT !.pc = "reopen"]
  <2>1. Set(a, Begin(r)) \/ Set(a, Begin(l)) \/ Set(a, p)
    BY <1>8 DEF Recover
  <2>2. p.pc = "reopen" /\ Begin(r).pc = "run"
    BY <1>1, <1>7 DEF Agent
  <2>3. Begin(l).pc = "run"
    BY <1>1 DEF Begin, Load, Agent
  <2> HIDE DEF p, l
  <2>4. QED BY <1>2, <2>1, <2>2, <2>3 DEF Keeps, Guarded
<1>9. CASE Reopen(a)
  BY <1>1, <1>2, <1>7, <1>9 DEF Reopen, Keeps, Guarded
<1>10. CASE Reply(a)
  <2> DEFINE p == [r EXCEPT !.memory = Append(@, {Answer(r.turn)})]
  <2>1. Set(a, p) /\ r.pc = "run"
    BY <1>10 DEF Reply, At
  <2>2. p.pc = "run"
    BY <1>1, <2>1 DEF Agent
  <2> HIDE DEF p
  <2>3. QED BY <1>2, <2>1, <2>2 DEF Keeps, Guarded
<1>11. CASE Flush(a)
  <2> DEFINE p == [r EXCEPT !.seg = Target(r), !.saved = Len(r.memory), !.marked = Len(r.memory)]
  <2>1. Set(a, p) /\ r.pc = "run"
    BY <1>11 DEF Flush, At
  <2>2. p.pc = "run"
    BY <1>1, <2>1 DEF Agent
  <2> HIDE DEF p
  <2>3. QED BY <1>2, <2>1, <2>2 DEF Keeps, Guarded
<1>12. CASE EndTurn(a)
  <2> DEFINE p == [r EXCEPT !.pc = "idle", !.turn = None, !.saved = Len(r.memory)]
  <2>1. Set(a, p)
    BY <1>12 DEF EndTurn
  <2>2. p.pc = "idle"
    BY <1>1 DEF Agent
  <2> HIDE DEF p
  <2>3. QED BY <1>2, <2>1, <2>2 DEF Keeps, Guarded
<1>13. CASE RefreshLease(a)
  <2> DEFINE p == [r EXCEPT !.interrupted = TRUE]
  <2>1. Set(a, p) \/ UNCHANGED agent
    BY <1>13 DEF RefreshLease
  <2>2. p.pc = r.pc /\ p.at = r.at /\ p.wm = r.wm
    BY <1>1 DEF Agent
  <2> HIDE DEF p
  <2>3. QED BY <1>2, <2>1, <2>2 DEF Keeps, Guarded
<1>14. QED
  BY <1>3, <1>4, <1>5, <1>6, <1>8, <1>9, <1>10, <1>11, <1>12, <1>13 DEF Turn

LEMMA CompactionKeeps ==
  ASSUME TypeInv, NEW a \in Agents, Compaction(a), ~Mark(a)
  PROVE  Keeps(agent[a], agent'[a]) /\ \A b \in Agents : b # a => agent'[b] = agent[b]
<1> DEFINE r == agent[a]
<1>1. r \in Agent
  BY StoreFacts
<1>2. ASSUME NEW p, Set(a, p), Keeps(r, p)
      PROVE  Keeps(agent[a], agent'[a]) /\ \A b \in Agents : b # a => agent'[b] = agent[b]
  BY <1>2, OthersStay
<1>3. ASSUME NEW p, Set(a, p), p.pc = "release"
      PROVE  Keeps(agent[a], agent'[a]) /\ \A b \in Agents : b # a => agent'[b] = agent[b]
  BY <1>2, <1>3 DEF Keeps, Guarded
<1>4. Undo(r).pc = "release"
  BY <1>1 DEF Undo, Agent
<1>5. CASE TryLock(a)
  <2> DEFINE p == [r EXCEPT !.pc = "mark", !.at = r.seg]
  <2>1. Set(a, p)
    BY <1>5 DEF TryLock
  <2>2. p.pc = "mark"
    BY <1>1 DEF Agent
  <2> HIDE DEF p
  <2>3. QED BY <1>2, <2>1, <2>2 DEF Keeps, Guarded
<1>6. CASE CheckParent(a)
  <2> DEFINE p == [r EXCEPT !.pc = IF r.rotate THEN "adopt" ELSE "summarise"]
             q == IF LiveTip(r.at) THEN Load(r, Tip(r.at)) ELSE r
             u == [q EXCEPT !.pc = "release"]
  <2>1. (Set(a, p) \/ Set(a, u)) /\ r.pc = "check"
    BY <1>6 DEF CheckParent, At
  <2>2. p.at = r.at /\ p.wm = r.wm
    BY <1>1 DEF Agent
  <2>3. u.pc = "release"
    BY <1>1 DEF Agent, Load
  <2> HIDE DEF p, u
  <2>4. QED BY <1>2, <1>3, <2>1, <2>2, <2>3 DEF Keeps, Guarded
<1>7. CASE AdoptDurable(a)
  <2> DEFINE p == [r EXCEPT !.pc = "reread", !.seg = Target(r), !.saved = Len(r.memory),
                            !.marked = Len(r.memory)]
             q == [r EXCEPT !.pc = "summarise"]
  <2>1. (Set(a, p) \/ Set(a, q)) /\ r.pc = "adopt"
    BY <1>7 DEF AdoptDurable, At
  <2>2. p.at = r.at /\ p.wm = r.wm /\ q.at = r.at /\ q.wm = r.wm
    BY <1>1 DEF Agent
  <2> HIDE DEF p, q
  <2>3. QED BY <1>2, <2>1, <2>2 DEF Keeps, Guarded
<1>8. CASE Reread(a)
  <2> DEFINE q == IF Len(Transcript(r.at)) > Len(r.memory)
                  THEN [Load(r, r.at) EXCEPT !.seg = r.seg] ELSE r
             p == [q EXCEPT !.pc = "summarise"]
  <2>1. Set(a, p) /\ r.pc = "reread"
    BY <1>8 DEF Reread, At
  <2>2. p.at = r.at /\ p.wm = r.wm
    BY <1>1 DEF Agent, Load
  <2> HIDE DEF p
  <2>3. QED BY <1>2, <2>1, <2>2 DEF Keeps, Guarded
<1>9. CASE Abandon(a)
  <2> DEFINE p == [r EXCEPT !.pc = "release"]
  <2>1. Set(a, p)
    BY <1>9 DEF Abandon
  <2>2. p.pc = "release"
    BY <1>1 DEF Agent
  <2> HIDE DEF p
  <2>3. QED BY <1>3, <2>1, <2>2
<1>10. CASE CommitInPlace(a)
  <2> DEFINE done == [r EXCEPT !.pc = "release", !.marked = 0]
             p(list, k) == [done EXCEPT !.memory = list, !.saved = k]
  <2>1. \E list, k : Set(a, p(list, k))
    BY <1>10 DEF CommitInPlace
  <2>2. \A list, k : p(list, k).pc = "release"
    BY <1>1 DEF Agent
  <2> HIDE DEF p
  <2>3. QED BY <1>3, <2>1, <2>2
<1>11. CASE CheckEnded(a)
  <2> DEFINE p == [r EXCEPT !.pc = "ceiling"]
  <2>1. (Set(a, Undo(r)) \/ Set(a, p)) /\ r.pc = "summarise"
    BY <1>11 DEF CheckEnded, At
  <2>2. p.at = r.at /\ p.wm = r.wm
    BY <1>1 DEF Agent
  <2> HIDE DEF p
  <2>3. QED BY <1>2, <1>3, <1>4, <2>1, <2>2 DEF Keeps, Guarded
<1>12. CASE Ceiling(a)
  <2> DEFINE p == [r EXCEPT !.pc = "flush", !.ceil = Watermark(r.seg)]
  <2>1. Set(a, p) /\ r.pc = "ceiling"
    BY <1>12 DEF Ceiling, At
  <2>2. p.at = r.at /\ p.wm = r.wm
    BY <1>1 DEF Agent
  <2> HIDE DEF p
  <2>3. QED BY <1>2, <2>1, <2>2 DEF Keeps, Guarded
<1>13. CASE FlushOwn(a)
  <2> DEFINE p == [r EXCEPT !.pc = "publish", !.seg = Target(r)]
             q == [r EXCEPT !.pc = "publish"]
  <2>1. (Set(a, p) \/ Set(a, q)) /\ r.pc = "flush"
    BY <1>13 DEF FlushOwn, At
  <2>2. p.at = r.at /\ p.wm = r.wm /\ q.at = r.at /\ q.wm = r.wm
    BY <1>1 DEF Agent
  <2> HIDE DEF p, q
  <2>3. QED BY <1>2, <2>1, <2>2 DEF Keeps, Guarded
<1>14. CASE Publish(a)
  <2> DEFINE p(child, list) == [r EXCEPT !.pc = "release", !.seg = child, !.memory = list,
                                         !.saved = Len(list), !.marked = 0]
  <2>1. Set(a, Undo(r)) \/ \E child, list : Set(a, p(child, list))
    BY <1>14 DEF Publish
  <2>2. \A child, list : p(child, list).pc = "release"
    BY <1>1 DEF Agent
  <2> HIDE DEF p
  <2>3. QED BY <1>3, <1>4, <2>1, <2>2
<1>15. CASE Release(a)
  <2>1. Set(a, Back(r)) /\ Back(r).pc \in {"idle", "run"}
    BY <1>1, <1>15 DEF Release, Back, Agent
  <2>2. QED BY <1>2, <2>1 DEF Keeps, Guarded
<1>16. CASE RefreshLock(a)
  BY <1>16 DEF RefreshLock, Keeps
<1>17. QED
  BY <1>5, <1>6, <1>7, <1>8, <1>9, <1>10, <1>11, <1>12, <1>13, <1>14, <1>15, <1>16
  DEF Compaction

\* The locks: nobody becomes the holder of one but a process that takes it.
LocksStay == \A b \in Agents, s \in Segments : lock'[s].holder = b => lock[s].holder = b

\* A step that leaves the rows and the locks to their holders.
LEMMA HarmlessKeeps ==
  ASSUME TypeInv, WatermarkHeld, NEW a \in Agents, Keeps(agent[a], agent'[a]), LocksStay,
         \A b \in Agents : b # a => agent'[b] = agent[b], \A s \in Segments : IdsStay(s)
  PROVE  WatermarkHeld'
BY WatermarkKeeps DEF LocksStay

LEMMA TurnWatermark ==
  ASSUME TypeInv, WatermarkHeld, NEW a \in Agents, Turn(a)
  PROVE  WatermarkHeld'
<1> DEFINE r == agent[a]
<1>1. Keeps(agent[a], agent'[a]) /\ \A b \in Agents : b # a => agent'[b] = agent[b]
  BY TurnKeeps
<1>2. LocksStay
  <2>1. lock' = lock \/ lock' = [lock EXCEPT ![r.seg] = Free]
    BY DEF Turn, StartTurn, Admit, KeepWaiting, GiveUp, Recover, Reopen, Reply, Flush, EndTurn,
           RefreshLease
  <2>2. QED BY <2>1, NoneAssumption DEF LocksStay, Free, By, TypeInv
<1>3. \A s \in Segments : IdsStay(s)
  <2>1. CASE Flush(a)
    BY <2>1, StoreFacts, PendingStays DEF Flush
  <2>2. CASE Reopen(a)
    <3>1. UNCHANGED segment \/ segment' = [segment EXCEPT ![r.seg].state = "open"]
      BY <2>2 DEF Reopen
    <3>2. segment \in [Segments -> Segment]
      BY DEF TypeInv, StoreOK
    <3>3. \A s \in Segments : segment'[s].rows = segment[s].rows
      BY <3>1, <3>2 DEF Segment
    <3>4. QED BY <3>3, RowsStay
  <2>3. CASE UNCHANGED segment
    BY <2>3, RowsStay
  <2>4. QED
    BY <2>1, <2>2, <2>3
    DEF Turn, StartTurn, Admit, KeepWaiting, GiveUp, Recover, Reply, EndTurn, RefreshLease
<1>4. QED BY <1>1, <1>2, <1>3, HarmlessKeeps

LEMMA MarkWatermark ==
  ASSUME TypeInv, WatermarkHeld, NEW a \in Agents, Mark(a)
  PROVE  WatermarkHeld'
<1> DEFINE r == agent[a]
           w == Watermark(r.at)
           p == [r EXCEPT !.pc = "check", !.wm = w]
<1>1. r \in Agent /\ r.at \in Segments /\ StoreOK
  BY StoreFacts DEF Mark, At, AgentOK, Agent
<1>2. Set(a, p) /\ UNCHANGED <<segment, lock>>
  BY DEF Mark
<1>3. segment[r.at].rows \in Seq(Row)
  BY <1>1 DEF StoreOK, Segment
<1>4. w # 0 => RowIn(segment[r.at].rows, w)
  <2>1. CASE segment[r.at].rows = <<>>
    BY <2>1 DEF Watermark
  <2>2. CASE segment[r.at].rows # <<>>
    <3>1. w = segment[r.at].rows[Len(segment[r.at].rows)].id
      BY <2>2 DEF Watermark, Last
    <3>2. Len(segment[r.at].rows) \in DOMAIN segment[r.at].rows
      <4>1. Len(segment[r.at].rows) # 0
        BY <1>3, <2>2, EmptySeq
      <4>2. QED BY <1>3, <4>1, LenProperties
    <3>3. QED BY <3>1, <3>2 DEF RowIn
  <2>3. QED BY <2>1, <2>2
<1> HIDE DEF w
<1>5. p.at = r.at /\ p.wm = w
  BY <1>1 DEF Agent
<1> HIDE DEF p
<1>6. agent'[a] = p /\ \A b \in Agents : b # a => agent'[b] = agent[b]
  BY <1>2, OthersStay
<1>7. QED BY <1>2, <1>4, <1>5, <1>6 DEF WatermarkHeld

LEMMA LockWatermark ==
  ASSUME TypeInv, WatermarkHeld, NEW a \in Agents, TryLock(a)
  PROVE  WatermarkHeld'
<1> DEFINE r == agent[a]
           p == [r EXCEPT !.pc = "mark", !.at = r.seg]
<1>1. r \in Agent /\ r.seg \in Segments
  BY StoreFacts
<1>2. Set(a, p) /\ UNCHANGED segment /\ lock' = [lock EXCEPT ![r.seg] = By(a)]
  BY DEF TryLock
<1>3. p.pc = "mark"
  BY <1>1 DEF Agent
<1> HIDE DEF p
<1>4. agent'[a] = p /\ \A b \in Agents : b # a => agent'[b] = agent[b]
  BY <1>2, OthersStay
<1>5. \A b \in Agents, s \in Segments : b # a /\ lock'[s].holder = b => lock[s].holder = b
  BY <1>2 DEF By, TypeInv
<1>6. \A s \in Segments : IdsStay(s)
  BY <1>2, RowsStay
<1>7. agent'[a].pc \notin Guarded
  BY <1>3, <1>4 DEF Guarded
<1>8. QED BY <1>4, <1>5, <1>6, <1>7, WatermarkKeeps DEF Keeps

LEMMA CommitWatermark ==
  ASSUME TypeInv, WatermarkHeld, NEW a \in Agents, CommitInPlace(a)
  PROVE  WatermarkHeld'
<1> DEFINE r == agent[a]
           done == [r EXCEPT !.pc = "release", !.marked = 0]
           p(list, k) == [done EXCEPT !.memory = list, !.saved = k]
<1>1. r \in Agent /\ segment \in [Segments -> Segment]
  BY StoreFacts DEF StoreOK
<1>2. Compaction(a) /\ ~Mark(a) /\ UNCHANGED lock
  BY DEF Compaction, CommitInPlace, Mark, At
<1>3. Keeps(agent[a], agent'[a]) /\ \A b \in Agents : b # a => agent'[b] = agent[b]
  BY <1>2, CompactionKeeps
<1>4. agent'[a].pc \notin Guarded
  <2>1. \E list, k : Set(a, p(list, k))
    BY DEF CommitInPlace
  <2>2. \A list, k : p(list, k).pc = "release"
    BY <1>1 DEF Agent
  <2> HIDE DEF p
  <2>3. QED BY <2>1, <2>2, OthersStay DEF Guarded
<1>5. ASSUME NEW s \in Segments PROVE IdsStay(s) \/ lock[s].holder = a
  <2>1. \/ UNCHANGED segment
        \/ /\ lock[r.seg].holder = a
           /\ \E rows : segment' = [segment EXCEPT ![r.seg].rows = rows]
    BY DEF CommitInPlace, Owns
  <2>2. QED BY <1>1, <2>1, RowsStay DEF Segment
<1>6. QED BY <1>2, <1>3, <1>4, <1>5, WatermarkKeeps

LEMMA PublishWatermark ==
  ASSUME TypeInv, WatermarkHeld, NEW a \in Agents, Publish(a)
  PROVE  WatermarkHeld'
<1> DEFINE r == agent[a]
<1>1. segment \in [Segments -> Segment]
  BY DEF TypeInv, StoreOK
<1>2. Compaction(a) /\ ~Mark(a) /\ UNCHANGED lock
  BY DEF Compaction, Publish, Mark, At
<1>3. Keeps(agent[a], agent'[a]) /\ \A b \in Agents : b # a => agent'[b] = agent[b]
  BY <1>2, CompactionKeeps
<1>4. \/ UNCHANGED segment
      \/ \E child \in Segments : \E new :
           /\ State(child) = "absent"
           /\ segment' = [segment EXCEPT ![r.seg].state = "closed", ![child] = new]
  BY DEF Publish
<1>5. CASE UNCHANGED segment
  <2>1. \A s \in Segments : IdsStay(s)
    BY <1>5, RowsStay
  <2>2. QED BY <1>2, <1>3, <2>1, HarmlessKeeps DEF LocksStay
<1>6. ASSUME NEW child \in Segments, NEW new, State(child) = "absent",
             segment' = [segment EXCEPT ![r.seg].state = "closed", ![child] = new]
      PROVE  WatermarkHeld'
  <2>1. ASSUME NEW s \in Segments, s # child PROVE IdsStay(s)
    <3>1. segment'[s].rows = segment[s].rows
      BY <1>1, <1>6, <2>1 DEF Segment
    <3>2. QED BY <3>1, RowsStay
  <2>2. segment[child].rows = <<>>
    BY <1>6 DEF TypeInv, StoreOK
  <2>3. IdsStay(child)
    BY <2>2 DEF IdsStay, RowIn
  <2>4. QED BY <1>2, <1>3, <2>1, <2>3, HarmlessKeeps DEF LocksStay
<1>7. QED BY <1>4, <1>5, <1>6

LEMMA CompactionWatermark ==
  ASSUME TypeInv, WatermarkHeld, NEW a \in Agents, Compaction(a)
  PROVE  WatermarkHeld'
<1> DEFINE r == agent[a]
<1>1. CASE Mark(a) \/ TryLock(a) \/ CommitInPlace(a) \/ Publish(a)
  BY <1>1, MarkWatermark, LockWatermark, CommitWatermark, PublishWatermark
<1>2. CASE ~(Mark(a) \/ TryLock(a) \/ CommitInPlace(a) \/ Publish(a))
  <2>1. Keeps(agent[a], agent'[a]) /\ \A b \in Agents : b # a => agent'[b] = agent[b]
    BY <1>2, CompactionKeeps
  <2>2. LocksStay
    <3>1. CASE Release(a)
      <4>1. \A s \in Segments : lock'[s] = lock[s] \/ lock'[s] = Free
        BY <3>1 DEF Release, TypeInv
      <4>2. QED BY <4>1, NoneAssumption DEF LocksStay, Free, By
    <3>2. CASE RefreshLock(a)
      <4>1. \A s \in Segments : lock'[s] = lock[s] \/ lock'[s] = [lock[s] EXCEPT !.expired = FALSE]
        BY <3>2 DEF RefreshLock, Revived, TypeInv
      <4>2. QED BY <4>1 DEF LocksStay, TypeInv, Held
    <3>3. CASE UNCHANGED lock
      BY <3>3 DEF LocksStay
    <3>4. QED
      BY <1>2, <3>1, <3>2, <3>3
      DEF Compaction, CheckParent, AdoptDurable, Reread, Abandon, CheckEnded, Ceiling, FlushOwn
  <2>3. \A s \in Segments : IdsStay(s)
    <3>1. UNCHANGED segment \/ AppendPending(r)
      BY <1>2 DEF Compaction, CheckParent, AdoptDurable, Reread, Abandon, CheckEnded, Ceiling,
                  FlushOwn, Release, RefreshLock
    <3>2. QED BY <3>1, RowsStay, PendingStays, StoreFacts
  <2>4. QED BY <2>1, <2>2, <2>3, HarmlessKeeps
<1>3. QED BY <1>1, <1>2

LEMMA StepWatermark == TypeInv /\ WatermarkHeld /\ [Next]_vars => WatermarkHeld'
<1> SUFFICES ASSUME TypeInv, WatermarkHeld, [Next]_vars PROVE WatermarkHeld'
  OBVIOUS
<1>1. ASSUME NEW a \in Agents, Turn(a) \/ Compaction(a) PROVE WatermarkHeld'
  BY <1>1, TurnWatermark, CompactionWatermark
<1>2. ASSUME NEW a \in Agents, Crash(a) \/ Resume(a) PROVE WatermarkHeld'
  <2> DEFINE r == agent[a]
             p == [Fresh(r.rotate) EXCEPT !.pc = "down"]
             q == [Load(r, Tip(Root)) EXCEPT !.pc = "idle"]
  <2>1. (Set(a, p) \/ Set(a, q)) /\ UNCHANGED segment
    BY <1>2 DEF Crash, Resume
  <2>2. r \in Agent
    BY StoreFacts
  <2>3. p.pc = "down" /\ q.pc = "idle"
    BY <2>2 DEF Fresh, Load, Agent
  <2> HIDE DEF p, q
  <2>4. agent'[a].pc \notin Guarded /\ \A b \in Agents : b # a => agent'[b] = agent[b]
    BY <2>1, <2>3, OthersStay DEF Guarded
  <2>5. LocksStay
    <3>1. \A s \in Segments : lock'[s] = lock[s] \/ lock'[s] = [lock[s] EXCEPT !.orphan = TRUE]
      BY <1>2 DEF Crash, Resume
    <3>2. QED BY <3>1 DEF LocksStay, TypeInv, Held
  <2>6. \A s \in Segments : IdsStay(s)
    BY <2>1, RowsStay
  <2>7. QED BY <2>4, <2>5, <2>6, HarmlessKeeps DEF Keeps
<1>3. CASE LeaseExpires \/ UNCHANGED vars
  BY <1>3 DEF LeaseExpires, vars, WatermarkHeld
<1>4. ASSUME NEW s \in Segments, LockExpires(s) PROVE WatermarkHeld'
  <2>1. UNCHANGED <<segment, agent>> /\ lock' = [lock EXCEPT ![s].expired = TRUE]
    BY <1>4 DEF LockExpires
  <2>2. \A k \in Segments : lock'[k].holder = lock[k].holder
    BY <2>1 DEF TypeInv, Held
  <2>3. \A a \in Agents : agent[a].pc \in Guarded => agent[a].at \in Segments
    BY StoreFacts DEF AgentOK, Agent, Guarded
  <2>4. QED BY <2>1, <2>2, <2>3 DEF WatermarkHeld
<1>5. QED BY <1>1, <1>2, <1>3, <1>4 DEF Next

LEMMA InitWatermark == Init => WatermarkHeld
BY DEF Init, Fresh, WatermarkHeld, Guarded

LEMMA WatermarkHolds == WatermarkHeld => WatermarkLive
BY DEF WatermarkHeld, WatermarkLive, RowIn, Guarded, Owns

-----------------------------------------------------------------------------
LEMMA TypesHold == TypeInv /\ SerialInv => TypeOK
BY DEF TypeInv, StoreOK, SpentOK, SerialInv, AgentOK, TypeOK

\* get_compression_tip ends, at a segment that exists and is not continued, from every segment
\* that exists; so do the turns, resumes and writes that ask for it.
TipIsLast ==
  \A s \in Segments : State(s) # "absent" =>
    /\ Tip(s) \in Segments /\ State(Tip(s)) # "absent"
    /\ ~(State(Tip(s)) = "closed" /\ Children(Tip(s)) # {})

LEMMA TipsAreLast == TypeInv => TipIsLast
BY StoreFacts, TipExists DEF TipIsLast, Goes

\* Rows are numbered in the order they are written, in every segment, and a process knows a
\* prefix of its memory to be written, however turns, compactions, takeovers and deaths
\* interleave.
THEOREM TypeCorrect == Spec => []TypeOK
<1>1. QED
  BY TypesHold, InitTyped, StepTyped, InitSerial, StepSerial, PTL DEF Spec

\* The search for the end of the chain of compactions ends, and where it should.
THEOREM TipsEnd == Spec => []TipIsLast
<1>1. QED BY TipsAreLast, InitTyped, StepTyped, PTL DEF Spec

\* Whoever owns the lock of a segment has a watermark that still divides its rows: a lock taken
\* over, expired or refreshed never lets two compactions rewrite the same rows.
THEOREM WatermarksDivide == Spec => []WatermarkLive
<1>1. QED
  BY WatermarkHolds, InitTyped, StepTyped, InitWatermark, StepWatermark, PTL DEF Spec
=============================================================================
