------------------------ MODULE DesignPublicationProofs ------------------------
(***************************************************************************)
(* Proofs about DesignPublication, for every number of requests, transactions *)
(* and faults: its six invariants, NeverRevived, and that it implements       *)
(* AtomicDesign.                                                              *)
(*                                                                           *)
(* The inductive invariant comes in layers, each proved from the ones before: *)
(*   TInv  what a request may be doing, and that the lock is held exactly     *)
(*         during the steps taken under it;                                   *)
(*   CInv  whose transaction a receipt, a candidate and a backup are;         *)
(*   PInv  where each design is at each step of a publication and of its      *)
(*         rollback (PubOK), and that none is lost;                           *)
(*   KInv  the record that stands, also while a publication has moved it on,  *)
(*         vouches for the live design, and a closed change is not behind it; *)
(*   OInv  before the first fault a repair in progress has its request;       *)
(*   VInv  which revisions may be given out again, and after how many faults. *)
(* The lemmas named ...Effects say what each action does, and every layer     *)
(* after the second uses those instead of the action.                         *)
(***************************************************************************)
EXTENDS DesignPublication, TLAPS

Request == [op : Operations \cup {"none"}, pc : Steps, tx : Transactions \cup {None},
            revision : Nat, base : Designs, prior : Statuses, seen : ReceiptStatuses,
            original : Record \cup {None}, out : BOOLEAN, in : BOOLEAN, bad : BOOLEAN]

\* The steps taken under the lock.
Locked == Publishing \cup {"offerReceipt", "offerRoll", "discardRecord"}

StepsOf(op) ==
  CASE op = "repair"    -> {"load", "start", "revise", "stage", "fail", "offer",
                            "offerReceipt", "offerRoll"}
    [] op = "operation" -> {"load", "stage", "lock"} \cup Publishing
    [] op = "evidence"  -> {"load", "evidence"}
    [] op = "discard"   -> {"load", "discard", "discardRecord"}
    [] OTHER            -> {"load", "lock"} \cup Publishing

\* A request keeps the record it may have to restore.
Holds(r) == req[r].pc \in Publishing \cup {"offerReceipt", "offerRoll"}

Creator(r) == req[r].op \in {"repair", "operation"}
Decider(r) == req[r].op \in {"apply", "discard", "undo"}

RequestOK(r) ==
  \/ req[r] = NoRequest
  \/ /\ req[r].op \in Operations
     /\ req[r].pc \in StepsOf(req[r].op)
     /\ Tx(r) \in Transactions
     /\ Holds(r) => req[r].original \in Record
     /\ Creator(r) => req[r].prior \in Settled
     /\ req[r].pc \notin Publishing => ~req[r].out /\ ~req[r].in /\ ~req[r].bad

Types ==
  /\ live \in Designs \cup {None}
  /\ record \in Record
  /\ receipt \in [Transactions -> Receipt]
  /\ \A x \in Transactions : receipt[x].prior \in Settled
  /\ dir \in [Transactions -> [Places -> Designs \cup {None}]]
  /\ lock \in Requests \cup {None}
  /\ req \in [Requests -> Request]
  /\ faults \in 0 .. MaxFaults
  /\ torn \in BOOLEAN
  /\ shown \subseteq Designs /\ closed \subseteq Transactions

TInv ==
  /\ Types
  /\ \A r \in Requests : RequestOK(r) /\ (req[r].pc \in Locked <=> lock = r)

-----------------------------------------------------------------------------
Others(r) == \A s \in Requests : s # r => req'[s] = req[s]

SameTask(r)  == /\ req'[r].op = req[r].op /\ req'[r].tx = req[r].tx
                /\ req'[r].prior = req[r].prior
SameRead(r)  == /\ req'[r].revision = req[r].revision /\ req'[r].base = req[r].base
                /\ req'[r].seen = req[r].seen
SameFlags(r) == req'[r].out = req[r].out /\ req'[r].in = req[r].in /\ req'[r].bad = req[r].bad
SameMoves(r) == req'[r].original = req[r].original /\ SameFlags(r)

Requested(r) == req' \in [Requests -> Request] /\ Others(r)

LEMMA GoFacts ==
  ASSUME req \in [Requests -> Request], NEW r \in Requests, NEW pc \in Steps, Go(r, pc)
  PROVE  Requested(r) /\ req'[r].pc = pc /\ SameTask(r) /\ SameRead(r) /\ SameMoves(r)
<1>1. req[r] \in Request OBVIOUS
<1> DEFINE q == [req[r] EXCEPT !.pc = pc]
<1>2. q \in Request
  BY <1>1 DEF Request
<1>3. /\ q.pc = pc /\ q.op = req[r].op /\ q.tx = req[r].tx /\ q.prior = req[r].prior
      /\ q.revision = req[r].revision /\ q.base = req[r].base /\ q.seen = req[r].seen
      /\ q.original = req[r].original /\ q.out = req[r].out /\ q.in = req[r].in
      /\ q.bad = req[r].bad
  BY <1>1 DEF Request
<1>4. req' = [req EXCEPT ![r] = q]
  BY DEF Go
<1> HIDE DEF q
<1>5. req'[r] = q /\ Others(r) /\ req' \in [Requests -> Request]
  BY <1>2, <1>4 DEF Others
<1> QED BY <1>3, <1>5 DEF Requested, SameTask, SameRead, SameMoves, SameFlags

LEMMA NoRequestTyped == NoRequest \in Request
BY DesignAssumption DEF NoRequest, Request, Steps, Designs, Statuses, Settled, ReceiptStatuses

LEMMA EndFacts ==
  ASSUME req \in [Requests -> Request], NEW r \in Requests, End(r)
  PROVE  Requested(r) /\ req'[r] = NoRequest
BY NoRequestTyped DEF End, Requested, Others

LEMMA SetReceiptFacts ==
  ASSUME receipt \in [Transactions -> Receipt], NEW x \in Transactions,
         NEW status \in ReceiptStatuses, SetReceipt(x, status)
  PROVE  /\ receipt' \in [Transactions -> Receipt]
         /\ receipt'[x].status = status
         /\ \A y \in Transactions : /\ y # x => receipt'[y] = receipt[y]
                                    /\ receipt'[y].kind = receipt[y].kind
                                    /\ receipt'[y].base = receipt[y].base
                                    /\ receipt'[y].prior = receipt[y].prior
<1>1. receipt[x] \in Receipt OBVIOUS
<1> DEFINE u == [receipt[x] EXCEPT !.status = status]
<1>2. /\ u \in Receipt /\ u.status = status
      /\ u.kind = receipt[x].kind /\ u.base = receipt[x].base /\ u.prior = receipt[x].prior
  BY <1>1 DEF Receipt
<1>3. receipt' = [receipt EXCEPT ![x] = u]
  BY DEF SetReceipt
<1> HIDE DEF u
<1> QED BY <1>2, <1>3

LEMMA WrittenFacts ==
  ASSUME receipt \in [Transactions -> Receipt], req \in [Requests -> Request],
         NEW r \in Requests, NEW status \in ReceiptStatuses, Written(r, status),
         Creator(r), Tx(r) \in Transactions
  PROVE  /\ receipt' \in [Transactions -> Receipt]
         /\ receipt'[Tx(r)].status = status /\ receipt'[Tx(r)].kind = req[r].op
         /\ receipt'[Tx(r)].base = req[r].base /\ receipt'[Tx(r)].prior = req[r].prior
         /\ \A y \in Transactions : y # Tx(r) => receipt'[y] = receipt[y]
<1> DEFINE u == [kind |-> req[r].op, status |-> status, base |-> req[r].base,
                 prior |-> req[r].prior]
<1>1. req[r] \in Request OBVIOUS
<1>2. u \in Receipt
  BY <1>1 DEF Receipt, Request, Creator
<1>3. /\ u.kind = req[r].op /\ u.status = status /\ u.base = req[r].base
      /\ u.prior = req[r].prior
  OBVIOUS
<1>4. receipt' = [receipt EXCEPT ![Tx(r)] = u]
  BY DEF Written
<1> HIDE DEF u
<1> QED BY <1>2, <1>3, <1>4

\* The design in a place changes and no other.
SetDir(x, p, d) ==
  /\ dir' \in [Transactions -> [Places -> Designs \cup {None}]]
  /\ dir'[x][p] = d
  /\ \A y \in Transactions, o \in Places : y # x \/ o # p => dir'[y][o] = dir[y][o]

LEMMA DirFacts ==
  ASSUME dir \in [Transactions -> [Places -> Designs \cup {None}]],
         NEW x \in Transactions, NEW p \in Places, NEW d \in Designs \cup {None},
         dir' = [dir EXCEPT ![x][p] = d]
  PROVE  SetDir(x, p, d)
BY DEF SetDir

-----------------------------------------------------------------------------
\* Types and the lock.

LEMMA Busy ==
  ASSUME TInv, NEW r \in Requests, req[r].pc # "idle"
  PROVE  /\ req[r].op \in Operations /\ req[r].pc \in StepsOf(req[r].op)
         /\ Tx(r) \in Transactions
         /\ Holds(r) => req[r].original \in Record
         /\ Creator(r) => req[r].prior \in Settled
         /\ req[r].pc \notin Publishing => ~req[r].out /\ ~req[r].in /\ ~req[r].bad
BY DEF TInv, RequestOK, NoRequest

LEMMA Doing ==
  ASSUME TInv, NEW r \in Requests
  PROVE  /\ req[r].pc \in {"start", "revise", "fail", "offer", "offerReceipt", "offerRoll"}
              => req[r].op = "repair"
         /\ req[r].pc = "stage" => Creator(r)
         /\ req[r].pc = "evidence" => req[r].op = "evidence"
         /\ req[r].pc \in {"discard", "discardRecord"} => req[r].op = "discard"
         /\ req[r].pc \in {"lock"} \cup Publishing => req[r].op \in {"operation", "apply", "undo"}
<1>1. CASE req[r].pc = "idle"
  BY <1>1 DEF Publishing
<1>2. CASE req[r].pc # "idle"
  BY <1>2, Busy DEF StepsOf, Operations, Creator, Publishing
<1> QED BY <1>1, <1>2

\* The lock stays where it is, is taken by r, or is released by r.
LockMove(r) ==
  \/ lock' = lock /\ (req'[r].pc \in Locked <=> req[r].pc \in Locked)
  \/ lock = None /\ lock' = r /\ req'[r].pc \in Locked
  \/ lock = r /\ lock' = None /\ req'[r].pc \notin Locked

LEMMA TypedStep ==
  ASSUME TInv, NEW r \in Requests, Requested(r), RequestOK(r)', LockMove(r),
         live' \in Designs \cup {None}, record' \in Record,
         receipt' \in [Transactions -> Receipt],
         \A x \in Transactions : receipt'[x].prior \in Settled,
         dir' \in [Transactions -> [Places -> Designs \cup {None}]],
         faults' \in 0 .. MaxFaults, torn' \in BOOLEAN,
         shown' \subseteq Designs, closed' \subseteq Transactions
  PROVE  TInv'
<1>1. Types'
  BY DesignAssumption DEF Types, TInv, LockMove, Requested
<1>2. ASSUME NEW s \in Requests PROVE RequestOK(s)'
  <2>1. CASE s = r BY <2>1
  <2>2. CASE s # r
    <3>1. req'[s] = req[s] BY <2>2 DEF Requested, Others
    <3>2. RequestOK(s) BY DEF TInv
    <3> QED BY <3>1, <3>2 DEF RequestOK, Holds, Creator, Tx
  <2> QED BY <2>1, <2>2
<1>3. ASSUME NEW s \in Requests PROVE (req[s].pc \in Locked <=> lock = s)'
  <2>1. req[s].pc \in Locked <=> lock = s BY DEF TInv
  <2>2. req[r].pc \in Locked <=> lock = r BY DEF TInv
  <2>3. CASE s = r BY <2>1, <2>3, DesignAssumption DEF LockMove
  <2>4. CASE s # r
    BY <2>1, <2>2, <2>4, DesignAssumption DEF LockMove, Requested, Others
  <2> QED BY <2>3, <2>4
<1> QED BY <1>1, <1>2, <1>3 DEF TInv

\* How the other steps change the request that takes them.

LEMMA UpdateFacts ==
  ASSUME req \in [Requests -> Request], NEW r \in Requests, NEW q \in Request,
         req' = [req EXCEPT ![r] = q]
  PROVE  Requested(r) /\ req'[r] = q
BY DEF Requested, Others

LEMMA BindFacts ==
  ASSUME TInv, NEW r \in Requests, NEW op \in Operations, NEW x \in Transactions,
         Bind(r, op, x)
  PROVE  /\ Requested(r) /\ req[r] = NoRequest
         /\ req'[r].op = op /\ req'[r].pc = "load" /\ req'[r].tx = x
         /\ req'[r].revision = record.revision /\ req'[r].base = Base
         /\ req'[r].prior = record.status /\ req'[r].seen = "absent"
         /\ ~req'[r].out /\ ~req'[r].in /\ ~req'[r].bad
<1> DEFINE q == [NoRequest EXCEPT !.op = op, !.pc = "load", !.tx = x,
                                  !.revision = record.revision, !.prior = record.status]
<1>1. record.revision \in Nat /\ record.status \in Statuses
  BY DEF TInv, Types, Record
<1>2. /\ q.op = op /\ q.pc = "load" /\ q.tx = x /\ q.revision = record.revision
      /\ q.base = Base /\ q.prior = record.status /\ q.seen = "absent"
      /\ ~q.out /\ ~q.in /\ ~q.bad
  BY DEF NoRequest
<1>3. q \in Request
  BY <1>1, NoRequestTyped DEF Request, Steps
<1>4. req' = [req EXCEPT ![r] = q]
  BY DEF Bind
<1>5. req[r] = NoRequest
  BY DEF TInv, RequestOK, Bind, At, StepsOf, Operations, Publishing
<1> HIDE DEF q
<1> QED BY <1>2, <1>3, <1>4, <1>5, UpdateFacts DEF TInv, Types

Readable(r) ==
  CASE req[r].op \in {"repair", "operation", "evidence"} -> live # None
    [] req[r].op = "apply"   -> receipt[Tx(r)].status = "ready"
    [] req[r].op = "undo"    -> receipt[Tx(r)].kind = "repair" /\ receipt[Tx(r)].status = "applied"
    [] req[r].op = "discard" -> TRUE

LEMMA LoadFacts ==
  ASSUME TInv, NEW r \in Requests, Load(r)
  PROVE  /\ Requested(r) /\ req[r].pc = "load"
         /\ \/ End(r) /\ req'[r] = NoRequest
            \/ /\ Readable(r)
               /\ req'[r].pc = FirstStep(req[r].op) /\ SameTask(r) /\ SameMoves(r)
               /\ req'[r].revision = req[r].revision
               /\ req'[r].base = IF Decider(r) THEN receipt[Tx(r)].base ELSE live
               /\ req'[r].seen = receipt[Tx(r)].status
<1>1. CASE End(r)
  BY <1>1, EndFacts DEF TInv, Types, Load, At
<1>2. CASE ~End(r)
  <2> DEFINE base == IF Decider(r) THEN receipt[Tx(r)].base ELSE live
             seen == receipt[Tx(r)].status
             pc   == FirstStep(req[r].op)
             q    == [req[r] EXCEPT !.pc = pc, !.seen = seen, !.base = base]
  <2>1. req[r] \in Request /\ req[r].pc = "load"
    BY DEF TInv, Types, Load, At
  <2>2. Tx(r) \in Transactions /\ req[r].op \in Operations
    BY <2>1, Busy
  <2>3. Readable(r)
    BY <1>2 DEF Load, Readable
  <2>4. base \in Designs
    BY <2>2, <2>3 DEF Readable, Decider, TInv, Types, Receipt, Operations
  <2>5. seen \in ReceiptStatuses
    BY <2>2 DEF TInv, Types, Receipt
  <2>6. pc \in Steps
    BY DEF FirstStep, Steps
  <2>7. req' = [req EXCEPT ![r] = q]
    BY <1>2, <2>3 DEF Load, Readable, Decider
  <2> HIDE DEF base, seen, pc
  <2>8. /\ q \in Request
        /\ q.op = req[r].op /\ q.tx = req[r].tx /\ q.prior = req[r].prior
        /\ q.revision = req[r].revision /\ q.original = req[r].original
        /\ q.out = req[r].out /\ q.in = req[r].in /\ q.bad = req[r].bad
        /\ q.pc = pc /\ q.seen = seen /\ q.base = base
    BY <2>1, <2>4, <2>5, <2>6 DEF Request
  <2> HIDE DEF q
  <2>9. Requested(r) /\ req'[r] = q
    BY <2>7, <2>8, UpdateFacts DEF TInv, Types
  <2> USE DEF base, seen, pc
  <2> QED BY <2>1, <2>3, <2>8, <2>9 DEF SameTask, SameMoves, SameFlags
<1> QED BY <1>1, <1>2

LEMMA ReviseFacts ==
  ASSUME req \in [Requests -> Request], NEW r \in Requests, NEW pc \in Steps,
         req' = [req EXCEPT ![r].pc = pc, ![r].revision = @ + 1]
  PROVE  /\ Requested(r) /\ req'[r].pc = pc /\ SameTask(r) /\ SameMoves(r)
         /\ req'[r].revision = req[r].revision + 1
         /\ req'[r].base = req[r].base /\ req'[r].seen = req[r].seen
<1>1. req[r] \in Request OBVIOUS
<1> DEFINE q == [req[r] EXCEPT !.pc = pc, !.revision = req[r].revision + 1]
<1>2. /\ q \in Request
      /\ q.pc = pc
      /\ q.revision = req[r].revision + 1
      /\ q.op = req[r].op /\ q.tx = req[r].tx /\ q.base = req[r].base
      /\ q.prior = req[r].prior /\ q.seen = req[r].seen /\ q.original = req[r].original
      /\ q.out = req[r].out /\ q.in = req[r].in /\ q.bad = req[r].bad
  BY <1>1 DEF Request
<1>3. req' = [req EXCEPT ![r] = q]
  BY <1>1
<1> HIDE DEF q
<1> QED BY <1>2, <1>3, UpdateFacts DEF SameTask, SameRead, SameMoves, SameFlags

LEMMA OfferFacts ==
  ASSUME TInv, NEW r \in Requests, NEW final \in {"ready", "rejected"},
         req' = [req EXCEPT ![r].pc = "offerReceipt", ![r].seen = final, ![r].original = record]
  PROVE  /\ Requested(r) /\ req'[r].pc = "offerReceipt" /\ SameTask(r)
         /\ req'[r].revision = req[r].revision /\ req'[r].base = req[r].base
         /\ req'[r].seen = final /\ req'[r].original = record /\ SameFlags(r)
<1>1. req \in [Requests -> Request] /\ req[r] \in Request /\ record \in Record
  BY DEF TInv, Types
<1> DEFINE q == [req[r] EXCEPT !.pc = "offerReceipt", !.seen = final, !.original = record]
<1>2. "offerReceipt" \in Steps /\ final \in ReceiptStatuses
  BY DEF Steps, ReceiptStatuses
<1>3. /\ q \in Request
      /\ q.pc = "offerReceipt" /\ q.seen = final /\ q.original = record
      /\ q.op = req[r].op /\ q.tx = req[r].tx /\ q.prior = req[r].prior
      /\ q.revision = req[r].revision /\ q.base = req[r].base
      /\ q.out = req[r].out /\ q.in = req[r].in /\ q.bad = req[r].bad
  BY <1>1, <1>2 DEF Request
<1>4. req' = [req EXCEPT ![r] = q]
  BY <1>1
<1> HIDE DEF q
<1> QED BY <1>1, <1>3, <1>4, UpdateFacts DEF SameTask, SameFlags

LEMMA CopyFacts ==
  ASSUME req \in [Requests -> Request], NEW r \in Requests, NEW pc \in Steps,
         NEW o \in Record, req' = [req EXCEPT ![r].pc = pc, ![r].original = o]
  PROVE  /\ Requested(r) /\ req'[r].pc = pc /\ SameTask(r) /\ SameRead(r)
         /\ req'[r].original = o /\ SameFlags(r)
<1>1. req[r] \in Request OBVIOUS
<1> DEFINE q == [req[r] EXCEPT !.pc = pc, !.original = o]
<1>2. /\ q \in Request
      /\ q.pc = pc
      /\ q.original = o
      /\ q.op = req[r].op /\ q.tx = req[r].tx /\ q.revision = req[r].revision
      /\ q.base = req[r].base /\ q.prior = req[r].prior /\ q.seen = req[r].seen
      /\ q.out = req[r].out /\ q.in = req[r].in /\ q.bad = req[r].bad
  BY <1>1 DEF Request
<1>3. req' = [req EXCEPT ![r] = q]
  BY <1>1
<1> HIDE DEF q
<1> QED BY <1>2, <1>3, UpdateFacts DEF SameTask, SameRead, SameMoves, SameFlags

LEMMA OutFacts ==
  ASSUME req \in [Requests -> Request], NEW r \in Requests, NEW pc \in Steps,
         req' = [req EXCEPT ![r].pc = pc, ![r].out = TRUE]
  PROVE  /\ Requested(r) /\ req'[r].pc = pc /\ SameTask(r) /\ SameRead(r)
         /\ req'[r].original = req[r].original /\ req'[r].out
         /\ req'[r].in = req[r].in /\ req'[r].bad = req[r].bad
<1>1. req[r] \in Request OBVIOUS
<1> DEFINE q == [req[r] EXCEPT !.pc = pc, !.out = TRUE]
<1>2. /\ q \in Request
      /\ q.pc = pc
      /\ q.out = TRUE
      /\ q.op = req[r].op /\ q.tx = req[r].tx /\ q.revision = req[r].revision
      /\ q.base = req[r].base /\ q.prior = req[r].prior /\ q.seen = req[r].seen
      /\ q.original = req[r].original /\ q.in = req[r].in /\ q.bad = req[r].bad
  BY <1>1 DEF Request
<1>3. req' = [req EXCEPT ![r] = q]
  BY <1>1
<1> HIDE DEF q
<1> QED BY <1>2, <1>3, UpdateFacts DEF SameTask, SameRead, SameMoves, SameFlags

LEMMA InFacts ==
  ASSUME req \in [Requests -> Request], NEW r \in Requests, NEW pc \in Steps,
         req' = [req EXCEPT ![r].pc = pc, ![r].in = TRUE]
  PROVE  /\ Requested(r) /\ req'[r].pc = pc /\ SameTask(r) /\ SameRead(r)
         /\ req'[r].original = req[r].original /\ req'[r].out = req[r].out
         /\ req'[r].in /\ req'[r].bad = req[r].bad
<1>1. req[r] \in Request OBVIOUS
<1> DEFINE q == [req[r] EXCEPT !.pc = pc, !.in = TRUE]
<1>2. /\ q \in Request
      /\ q.pc = pc
      /\ q.in = TRUE
      /\ q.op = req[r].op /\ q.tx = req[r].tx /\ q.revision = req[r].revision
      /\ q.base = req[r].base /\ q.prior = req[r].prior /\ q.seen = req[r].seen
      /\ q.original = req[r].original /\ q.out = req[r].out /\ q.bad = req[r].bad
  BY <1>1 DEF Request
<1>3. req' = [req EXCEPT ![r] = q]
  BY <1>1
<1> HIDE DEF q
<1> QED BY <1>2, <1>3, UpdateFacts DEF SameTask, SameRead, SameMoves, SameFlags

LEMMA FailedFacts ==
  ASSUME req \in [Requests -> Request], NEW r \in Requests, NEW pc \in Steps,
         Failed(r, pc)
  PROVE  /\ Requested(r) /\ req'[r].pc = pc /\ SameTask(r) /\ SameRead(r)
         /\ req'[r].original = req[r].original /\ req'[r].out = req[r].out
         /\ req'[r].in = req[r].in /\ req'[r].bad
<1>1. req[r] \in Request OBVIOUS
<1> DEFINE q == [req[r] EXCEPT !.pc = pc, !.bad = TRUE]
<1>2. /\ q \in Request
      /\ q.pc = pc
      /\ q.bad = TRUE
      /\ q.op = req[r].op /\ q.tx = req[r].tx /\ q.revision = req[r].revision
      /\ q.base = req[r].base /\ q.prior = req[r].prior /\ q.seen = req[r].seen
      /\ q.original = req[r].original /\ q.out = req[r].out /\ q.in = req[r].in
  BY <1>1 DEF Request
<1>3. req' = [req EXCEPT ![r] = q]
  BY <1>1 DEF Failed
<1> HIDE DEF q
<1> QED BY <1>2, <1>3, UpdateFacts DEF SameTask, SameRead, SameMoves, SameFlags

\* What is left of the types when the design, its record and its places are typed.
TypedData ==
  /\ live' \in Designs \cup {None}
  /\ record' \in Record
  /\ receipt' \in [Transactions -> Receipt]
  /\ \A x \in Transactions : receipt'[x].prior \in Settled
  /\ dir' \in [Transactions -> [Places -> Designs \cup {None}]]
  /\ faults' \in 0 .. MaxFaults
  /\ torn' \in BOOLEAN
  /\ shown' \subseteq Designs /\ closed' \subseteq Transactions

LEMMA EndStep ==
  ASSUME TInv, NEW r \in Requests, End(r), TypedData,
         lock' = IF lock = r THEN None ELSE lock
  PROVE  TInv'
<1>1. Requested(r) /\ req'[r] = NoRequest
  BY EndFacts DEF TInv, Types
<1>2. RequestOK(r)'
  BY <1>1 DEF RequestOK
<1>3. req[r].pc \in Locked <=> lock = r
  BY DEF TInv
<1>4. req'[r].pc \notin Locked
  BY <1>1 DEF NoRequest, Locked, Publishing
<1>5. LockMove(r)
  BY <1>3, <1>4 DEF LockMove
<1> QED BY <1>1, <1>2, <1>5, TypedStep DEF TypedData

LEMMA NextStep ==
  ASSUME TInv, NEW r \in Requests, Requested(r), req[r].pc # "idle", SameTask(r),
         req'[r].pc \in StepsOf(req[r].op), Holds(r)' => req'[r].original \in Record,
         req'[r].pc \in Publishing \/ (req[r].pc \notin Publishing /\ SameFlags(r)),
         LockMove(r), TypedData
  PROVE  TInv'
<1>1. /\ req[r].op \in Operations /\ Tx(r) \in Transactions
      /\ Creator(r) => req[r].prior \in Settled
      /\ req[r].pc \notin Publishing => ~req[r].out /\ ~req[r].in /\ ~req[r].bad
  BY Busy
<1>2. RequestOK(r)'
  BY <1>1 DEF RequestOK, SameTask, SameFlags, Tx, Creator
<1> QED BY <1>2, TypedStep DEF TypedData

\* A step that moves a request on and leaves the lock.
LEMMA OnStep ==
  ASSUME TInv, NEW r \in Requests, Requested(r), req[r].pc # "idle", SameTask(r),
         req'[r].pc \in StepsOf(req[r].op),
         lock' = lock, req'[r].pc \in Locked <=> req[r].pc \in Locked,
         Holds(r)' => Holds(r) /\ req'[r].original = req[r].original,
         req'[r].pc \in Publishing \/ (req[r].pc \notin Publishing /\ SameFlags(r)), TypedData
  PROVE  TInv'
<1>1. Holds(r)' => req'[r].original \in Record
  BY Busy
<1> QED BY <1>1, NextStep DEF LockMove

\* The data that a step leaves alone keeps its type.
LEMMA SameTyped ==
  ASSUME TInv
  PROVE  /\ live' = live => live' \in Designs \cup {None}
         /\ record' = record => record' \in Record
         /\ receipt' = receipt => /\ receipt' \in [Transactions -> Receipt]
                                  /\ \A x \in Transactions : receipt'[x].prior \in Settled
         /\ dir' = dir => dir' \in [Transactions -> [Places -> Designs \cup {None}]]
         /\ faults' = faults \/ Fault => faults' \in 0 .. MaxFaults
         /\ torn' = torn => torn' \in BOOLEAN
         /\ shown' = shown => shown' \subseteq Designs
         /\ closed' = closed => closed' \subseteq Transactions
BY BoundAssumption DEF TInv, Types, Fault

LEMMA SetReceiptTyped ==
  ASSUME TInv, NEW x \in Transactions, NEW status \in ReceiptStatuses, SetReceipt(x, status)
  PROVE  /\ receipt' \in [Transactions -> Receipt]
         /\ \A y \in Transactions : receipt'[y].prior \in Settled
<1>1. receipt \in [Transactions -> Receipt] /\ \A y \in Transactions : receipt[y].prior \in Settled
  BY DEF TInv, Types
<1> QED BY <1>1, SetReceiptFacts

LEMMA BindTyped ==
  ASSUME TInv, NEW r \in Requests, NEW op \in Operations, NEW x \in Transactions,
         Bind(r, op, x)
  PROVE  TInv'
<1>1. Requested(r) /\ req[r] = NoRequest /\ req'[r].op = op /\ req'[r].pc = "load"
      /\ req'[r].tx = x /\ req'[r].prior = record.status
      /\ ~req'[r].out /\ ~req'[r].in /\ ~req'[r].bad
  BY BindFacts
<1>2. op \in {"repair", "operation"} => record.status \in Settled
  BY DEF Bind, Allowed, Settled
<1>3. "load" \in StepsOf(op)
  BY DEF StepsOf
<1>4. RequestOK(r)'
  BY <1>1, <1>2, <1>3 DEF RequestOK, Holds, Creator, Tx, Publishing
<1>5. LockMove(r)
  BY <1>1 DEF LockMove, Bind, NoRequest, Locked, Publishing
<1>6. TypedData
  BY SameTyped DEF TypedData, Bind, files, history
<1> QED BY <1>1, <1>4, <1>5, <1>6, TypedStep DEF TypedData

LEMMA LoadTyped ==
  ASSUME TInv, NEW r \in Requests, Load(r)
  PROVE  TInv'
<1>1. TypedData
  BY SameTyped DEF TypedData, Load, files, history
<1>2. req[r].pc = "load"
  BY DEF Load, At
<1>3. lock # r /\ req[r].op \in Operations
  BY <1>2, Busy DEF TInv, Locked, Publishing
<1>4. CASE End(r)
  BY <1>1, <1>3, <1>4, EndStep DEF Load
<1>5. CASE ~End(r)
  <2>1. /\ Requested(r) /\ SameTask(r) /\ SameMoves(r)
        /\ req'[r].pc = FirstStep(req[r].op)
    BY <1>5, LoadFacts
  <2>2. FirstStep(req[r].op) \in StepsOf(req[r].op) \ (Locked \cup {"idle"})
    BY <1>3 DEF FirstStep, StepsOf, Operations, Locked, Publishing
  <2>3. ~Holds(r)'
    BY <2>1, <2>2 DEF Holds, Locked
  <2> QED BY <1>1, <1>2, <2>1, <2>2, <2>3, OnStep DEF Load, Locked, Publishing, SameMoves
<1> QED BY <1>4, <1>5

\* What the steps write to a record.
LEMMA RecordMade ==
  ASSUME NEW o \in Record, NEW s \in Statuses, NEW x \in Transactions \cup {None},
         NEW m \in Nat
  PROVE  /\ [o EXCEPT !.status = s, !.revision = m] \in Record
         /\ [o EXCEPT !.revision = m] \in Record
         /\ [o EXCEPT !.status = s, !.active = x, !.revision = m] \in Record
BY DEF Record

LEMMA RecordTyped ==
  ASSUME NEW o \in Record
  PROVE  /\ \A s \in Statuses : [o EXCEPT !.status = s, !.revision = @ + 1] \in Record
         /\ [o EXCEPT !.revision = @ + 1] \in Record
         /\ \A s \in Statuses, x \in Transactions \cup {None} :
              [o EXCEPT !.status = s, !.active = x, !.revision = @ + 1] \in Record
<1>1. o.revision + 1 \in Nat /\ o.status \in Statuses
  BY DEF Record
<1> QED BY <1>1, RecordMade

LEMMA StartRepairTyped ==
  ASSUME TInv, NEW r \in Requests, StartRepair(r)
  PROVE  TInv'
<1>1. req[r].pc = "start" /\ req[r].op = "repair" /\ lock = None /\ lock # r
  BY Doing, DesignAssumption DEF StartRepair, At, Current, Stale
<1>2. TypedData
  <2>1. record' \in Record
    <3>1. record \in Record /\ "repairing" \in Statuses
      BY DEF TInv, Types, Statuses
    <3> QED BY <3>1, RecordTyped DEF StartRepair
  <2> QED BY <2>1, SameTyped DEF TypedData, StartRepair, files, history
<1>3. CASE Current(r) /\ req' = [req EXCEPT ![r].pc = "revise", ![r].revision = @ + 1]
  <2>1. Requested(r) /\ req'[r].pc = "revise" /\ SameTask(r) /\ SameMoves(r)
    BY <1>3, ReviseFacts DEF TInv, Types, Steps
  <2> QED BY <1>1, <1>2, <2>1, OnStep DEF StepsOf, Locked, Publishing, Holds, StartRepair, SameMoves
<1>4. CASE End(r)
  BY <1>1, <1>2, <1>4, EndStep DEF StartRepair
<1> QED BY <1>3, <1>4 DEF StartRepair

LEMMA ReviseRepairTyped ==
  ASSUME TInv, NEW r \in Requests, ReviseRepair(r)
  PROVE  TInv'
<1>1. req[r].pc = "revise" /\ req[r].op = "repair" /\ lock # r
  BY Doing DEF ReviseRepair, At, TInv, Locked, Publishing
<1>2. TypedData
  <2>1. record' \in Record
    <3>1. record \in Record
      BY DEF TInv, Types
    <3> QED BY <3>1, RecordTyped DEF ReviseRepair
  <2> QED BY <2>1, SameTyped DEF TypedData, ReviseRepair, files, history
<1>3. CASE Current(r) /\ req' = [req EXCEPT ![r].pc = "stage", ![r].revision = @ + 1]
  <2>1. Requested(r) /\ req'[r].pc = "stage" /\ SameTask(r) /\ SameMoves(r)
    BY <1>3, ReviseFacts DEF TInv, Types, Steps
  <2> QED BY <1>1, <1>2, <2>1, OnStep DEF StepsOf, Locked, Publishing, Holds, ReviseRepair, SameMoves
<1>4. CASE End(r)
  BY <1>1, <1>2, <1>4, EndStep DEF ReviseRepair
<1>5. CASE Go(r, "fail")
  <2>1. Requested(r) /\ req'[r].pc = "fail" /\ SameTask(r) /\ SameMoves(r)
    BY <1>5, GoFacts DEF TInv, Types, Steps
  <2> QED BY <1>1, <1>2, <2>1, OnStep DEF StepsOf, Locked, Publishing, Holds, ReviseRepair, SameMoves
<1> QED BY <1>3, <1>4, <1>5 DEF ReviseRepair

LEMMA RecordFailureTyped ==
  ASSUME TInv, NEW r \in Requests, RecordFailure(r)
  PROVE  TInv'
<1>1. lock # r
  BY DEF RecordFailure, At, TInv, Locked, Publishing
<1>2. TypedData
  <2>1. record' \in Record
    <3>1. record \in Record /\ "repair_failed" \in Statuses
      BY DEF TInv, Types, Statuses, Settled
    <3> QED BY <3>1, RecordTyped DEF RecordFailure
  <2> QED BY <2>1, SameTyped DEF TypedData, RecordFailure, files, history
<1> QED BY <1>1, <1>2, EndStep DEF RecordFailure

\* A request that has a receipt to write.
LEMMA WrittenTyped ==
  ASSUME TInv, NEW r \in Requests, req[r].pc = "stage", NEW status \in ReceiptStatuses,
         Written(r, status)
  PROVE  /\ Creator(r) /\ Tx(r) \in Transactions
         /\ receipt' \in [Transactions -> Receipt]
         /\ \A y \in Transactions : receipt'[y].prior \in Settled
<1>1. Creator(r) /\ Tx(r) \in Transactions /\ req[r].prior \in Settled
  BY Busy, Doing
<1>2. /\ receipt \in [Transactions -> Receipt] /\ req \in [Requests -> Request]
      /\ \A y \in Transactions : receipt[y].prior \in Settled
  BY DEF TInv, Types
<1>3. /\ receipt' \in [Transactions -> Receipt] /\ receipt'[Tx(r)].prior = req[r].prior
      /\ \A y \in Transactions : y # Tx(r) => receipt'[y] = receipt[y]
  BY <1>1, <1>2, WrittenFacts
<1> QED BY <1>1, <1>2, <1>3

LEMMA StagedTyped ==
  ASSUME TInv, NEW x \in Transactions, dir' = [dir EXCEPT ![x]["staged"] = x]
  PROVE  SetDir(x, "staged", x)
BY DirFacts DEF TInv, Types, Designs, Places

LEMMA StageRepairTyped ==
  ASSUME TInv, NEW r \in Requests, StageRepair(r)
  PROVE  TInv'
<1>1. req[r].pc = "stage" /\ req[r].op = "repair" /\ Tx(r) \in Transactions /\ lock # r
  BY Busy DEF StageRepair, At, TInv, Locked, Publishing
<1>2. /\ receipt' \in [Transactions -> Receipt]
      /\ \A y \in Transactions : receipt'[y].prior \in Settled
  BY <1>1, WrittenTyped DEF StageRepair, ReceiptStatuses
<1>3. dir' \in [Transactions -> [Places -> Designs \cup {None}]]
  BY <1>1, SameTyped, StagedTyped DEF StageRepair, SetDir
<1>4. TypedData
  BY <1>2, <1>3, SameTyped DEF TypedData, StageRepair, history
<1>5. \E pc \in {"offer", "fail"} :
         Requested(r) /\ req'[r].pc = pc /\ SameTask(r) /\ SameMoves(r)
  BY GoFacts DEF StageRepair, TInv, Types, Steps
<1> QED BY <1>1, <1>4, <1>5, OnStep DEF StepsOf, Locked, Publishing, Holds, StageRepair, SameMoves

LEMMA StageOperationTyped ==
  ASSUME TInv, NEW r \in Requests, StageOperation(r)
  PROVE  TInv'
<1>1. /\ req[r].pc = "stage" /\ req[r].op = "operation" /\ Tx(r) \in Transactions
      /\ lock # r
  BY Busy DEF StageOperation, At, TInv, Locked, Publishing
<1>2. /\ receipt' \in [Transactions -> Receipt]
      /\ \A y \in Transactions : receipt'[y].prior \in Settled
  BY <1>1, WrittenTyped, SameTyped DEF StageOperation, ReceiptStatuses
<1>3. dir' \in [Transactions -> [Places -> Designs \cup {None}]]
  BY <1>1, SameTyped, StagedTyped DEF StageOperation, SetDir
<1>4. TypedData
  BY <1>2, <1>3, SameTyped DEF TypedData, StageOperation, history
<1>5. CASE End(r)
  BY <1>1, <1>4, <1>5, EndStep DEF StageOperation
<1>6. CASE Go(r, "lock")
  <2>1. Requested(r) /\ req'[r].pc = "lock" /\ SameTask(r) /\ SameMoves(r)
    BY <1>6, GoFacts DEF TInv, Types, Steps
  <2> QED BY <1>1, <1>4, <2>1, OnStep DEF StepsOf, Locked, Publishing, Holds, StageOperation, SameMoves
<1> QED BY <1>5, <1>6 DEF StageOperation

LEMMA OfferTyped ==
  ASSUME TInv, NEW r \in Requests, Offer(r)
  PROVE  TInv'
<1>1. req[r].pc = "offer" /\ req[r].op = "repair" /\ Tx(r) \in Transactions
  BY Busy, Doing DEF Offer, At
<1>2. lock = None /\ lock # r
  BY DesignAssumption DEF Offer, Current, Stale
<1>3. CASE End(r) /\ UNCHANGED <<record, lock>>
  <2>1. TypedData
    BY <1>3, SameTyped DEF TypedData, Offer, files, history
  <2> QED BY <1>2, <1>3, <2>1, EndStep
<1>4. ASSUME NEW final \in {"ready", "rejected"},
             record' = [record EXCEPT
               !.status = IF final = "ready" THEN "change_ready" ELSE "repair_failed",
               !.active = IF final = "ready" THEN Tx(r) ELSE @,
               !.revision = @ + 1],
             req' = [req EXCEPT ![r].pc = "offerReceipt", ![r].seen = final,
                                ![r].original = record],
             lock' = r
      PROVE  TInv'
  <2>1. record \in Record BY DEF TInv, Types
  <2>2. record' \in Record
    <3> DEFINE s == IF final = "ready" THEN "change_ready" ELSE "repair_failed"
               x == IF final = "ready" THEN Tx(r) ELSE record.active
    <3>1. s \in Statuses
      BY DEF Statuses, Settled
    <3>2. x \in Transactions \cup {None}
      BY <1>1, <2>1 DEF Record
    <3>3. record' = [record EXCEPT !.status = s, !.active = x, !.revision = @ + 1]
      BY <1>4
    <3> QED BY <2>1, <3>1, <3>2, <3>3, RecordTyped
  <2>3. TypedData
    BY <2>2, SameTyped DEF TypedData, Offer, files, history
  <2>4. /\ Requested(r) /\ req'[r].pc = "offerReceipt" /\ SameTask(r) /\ SameFlags(r)
        /\ req'[r].original = record
    BY <1>4, OfferFacts
  <2>5. LockMove(r)
    BY <1>2, <1>4, <2>4 DEF LockMove, Locked
  <2> QED BY <1>1, <2>1, <2>3, <2>4, <2>5, NextStep DEF StepsOf, Publishing
<1> QED BY <1>3, <1>4 DEF Offer

\* The holder of the lock.
LEMMA Holder ==
  ASSUME TInv, NEW r \in Requests, req[r].pc \in Locked
  PROVE  lock = r
BY DEF TInv

LEMMA OfferReceiptTyped ==
  ASSUME TInv, NEW r \in Requests, OfferReceipt(r)
  PROVE  TInv'
<1>1. req[r].pc = "offerReceipt" /\ req[r].op = "repair" /\ Tx(r) \in Transactions /\ lock = r
  BY Busy, Doing, Holder DEF OfferReceipt, At, Locked
<1>2. CASE SetReceipt(Tx(r), req[r].seen) /\ lock' = None /\ End(r) /\ UNCHANGED faults
  <2>1. req[r].seen \in ReceiptStatuses
    BY DEF TInv, Types, Request
  <2>2. TypedData
    BY <1>1, <1>2, <2>1, SetReceiptTyped, SameTyped DEF TypedData, OfferReceipt, files, history
  <2> QED BY <1>1, <1>2, <2>2, EndStep
<1>3. CASE Fault /\ Go(r, "offerRoll") /\ UNCHANGED <<receipt, lock>>
  <2>1. Requested(r) /\ req'[r].pc = "offerRoll" /\ SameTask(r) /\ SameMoves(r)
    BY <1>3, GoFacts DEF TInv, Types, Steps
  <2>2. TypedData
    BY <1>3, SameTyped DEF TypedData, OfferReceipt, files, history
  <2> QED BY <1>1, <1>3, <2>1, <2>2, OnStep DEF StepsOf, Locked, Publishing, Holds, SameMoves
<1> QED BY <1>2, <1>3 DEF OfferReceipt

LEMMA OfferRollbackTyped ==
  ASSUME TInv, NEW r \in Requests, OfferRollback(r)
  PROVE  TInv'
<1>1. req[r].pc = "offerRoll" /\ Tx(r) \in Transactions /\ lock = r /\ req[r].original \in Record
  BY Busy, Holder DEF OfferRollback, At, Locked, Holds
<1>2. record' \in Record
  BY <1>1, SameTyped DEF OfferRollback
<1>3. /\ receipt' \in [Transactions -> Receipt]
      /\ \A y \in Transactions : receipt'[y].prior \in Settled
  BY <1>1, SetReceiptTyped, SameTyped DEF OfferRollback, ReceiptStatuses
<1>4. TypedData
  BY <1>2, <1>3, SameTyped DEF TypedData, OfferRollback, files, history
<1> QED BY <1>1, <1>4, EndStep DEF OfferRollback

LEMMA RecordEvidenceTyped ==
  ASSUME TInv, NEW r \in Requests, RecordEvidence(r)
  PROVE  TInv'
<1>1. lock # r
  BY DEF RecordEvidence, At, TInv, Locked, Publishing
<1>2. TypedData
  <2>1. record' \in Record
    <3>1. record \in Record
      BY DEF TInv, Types
    <3> QED BY <3>1, RecordTyped DEF RecordEvidence
  <2> QED BY <2>1, SameTyped DEF TypedData, RecordEvidence, files, history
<1> QED BY <1>1, <1>2, EndStep DEF RecordEvidence

LEMMA DiscardTyped ==
  ASSUME TInv, NEW r \in Requests, Discard(r)
  PROVE  TInv'
<1>1. /\ req[r].pc = "discard" /\ req[r].op = "discard" /\ Tx(r) \in Transactions
      /\ lock = None /\ lock # r
  BY Busy, Doing, DesignAssumption DEF Discard, At, Current, Stale
<1>2. CASE SetReceipt(Tx(r), "discarded") /\ lock' = r /\ Go(r, "discardRecord") /\ UNCHANGED faults
  <2>1. Requested(r) /\ req'[r].pc = "discardRecord" /\ SameTask(r) /\ SameMoves(r)
    BY <1>2, GoFacts DEF TInv, Types, Steps
  <2>2. TypedData
    BY <1>1, <1>2, SetReceiptTyped, SameTyped
    DEF TypedData, Discard, files, history, ReceiptStatuses
  <2>3. ~Holds(r)'
    BY <2>1 DEF Holds, Publishing
  <2> QED BY <1>1, <1>2, <2>1, <2>2, <2>3, NextStep DEF StepsOf, LockMove, Locked, Publishing, SameMoves
<1>3. CASE End(r) /\ UNCHANGED receipt /\ UNCHANGED lock
  <2>1. TypedData
    BY <1>3, SameTyped DEF TypedData, Discard, files, history
  <2> QED BY <1>1, <1>3, <2>1, EndStep
<1> QED BY <1>2, <1>3 DEF Discard

LEMMA DiscardRecordTyped ==
  ASSUME TInv, NEW r \in Requests, DiscardRecord(r)
  PROVE  TInv'
<1>1. req[r].pc = "discardRecord" /\ Tx(r) \in Transactions /\ lock = r
  BY Busy, Holder DEF DiscardRecord, At, Locked
<1>2. record' \in Record
  <2>1. record \in Record /\ receipt[Tx(r)].prior \in Statuses
    BY <1>1 DEF TInv, Types, Statuses
  <2>2. [record EXCEPT !.status = receipt[Tx(r)].prior, !.active = None, !.revision = @ + 1]
          \in Record
    BY <2>1, RecordTyped
  <2> QED BY <2>1, <2>2 DEF DiscardRecord
<1>3. closed' \subseteq Transactions
  BY <1>1 DEF DiscardRecord, TInv, Types
<1>4. TypedData
  BY <1>2, <1>3, SameTyped DEF TypedData, DiscardRecord, files
<1> QED BY <1>1, <1>4, EndStep DEF DiscardRecord

LEMMA Publisher ==
  ASSUME TInv, NEW r \in Requests, req[r].pc \in {"lock"} \cup Publishing
  PROVE  /\ req[r].op \in {"operation", "apply", "undo"} /\ Tx(r) \in Transactions
         /\ StepsOf(req[r].op) \in {{"load", "stage", "lock"} \cup Publishing,
                                    {"load", "lock"} \cup Publishing}
         /\ Keep(req[r].op) \in Places /\ Source(req[r].op) \in Places
         /\ Back(req[r].op) \in Places
         /\ req[r].base \in Designs /\ req[r].seen \in ReceiptStatuses
         /\ req[r].pc # "lock" => req[r].original \in Record /\ lock = r
<1>1. req[r].pc # "idle"
  BY DEF Publishing
<1>2. req[r].op \in {"operation", "apply", "undo"}
  BY Doing
<1>3. StepsOf(req[r].op) \in {{"load", "stage", "lock"} \cup Publishing,
                              {"load", "lock"} \cup Publishing}
  BY <1>2 DEF StepsOf
<1>4. Keep(req[r].op) \in Places /\ Source(req[r].op) \in Places /\ Back(req[r].op) \in Places
  BY <1>2 DEF Keep, Source, Back, Places
<1>5. req[r] \in Request
  BY DEF TInv, Types
<1>6. req[r].base \in Designs /\ req[r].seen \in ReceiptStatuses
  BY <1>5 DEF Request
<1> QED BY <1>1, <1>2, <1>3, <1>4, <1>6, Busy, Holder DEF Holds, Locked

\* A step of a publication that is not its last.
LEMMA PublishingStep ==
  ASSUME TInv, NEW r \in Requests, req[r].pc \in Publishing, Requested(r), SameTask(r),
         req'[r].pc \in Publishing, req'[r].original = req[r].original, lock' = lock,
         TypedData
  PROVE  TInv'
<1>1. req[r].pc # "idle"
  BY DEF Publishing
<1> QED BY <1>1, Publisher, OnStep DEF Locked, Holds

LEMMA TakeLockTyped ==
  ASSUME TInv, NEW r \in Requests, TakeLock(r)
  PROVE  TInv'
<1>1. req[r].pc = "lock" /\ lock = None /\ lock' = r
  BY DEF TakeLock, At
<1>2. Tx(r) \in Transactions /\ req[r].seen \in ReceiptStatuses
  BY <1>1, Publisher
<1>3. /\ receipt' \in [Transactions -> Receipt]
      /\ \A y \in Transactions : receipt'[y].prior \in Settled
  BY <1>2, SetReceiptTyped, SameTyped DEF TakeLock
<1>4. TypedData
  BY <1>3, SameTyped DEF TypedData, TakeLock, files, history
<1>5. record \in Record /\ req \in [Requests -> Request]
  BY DEF TInv, Types
<1>6. \E pc \in {"moveAway", "rollOut"} :
        Requested(r) /\ req'[r].pc = pc /\ SameTask(r) /\ req'[r].original = record
  BY <1>5, CopyFacts DEF TakeLock, Steps
<1> QED BY <1>1, <1>4, <1>5, <1>6, Publisher, NextStep DEF LockMove, Locked, Publishing

LEMMA RollbackStep ==
  ASSUME TInv, NEW r \in Requests, req[r].pc \in Publishing, Rollback(r), lock' = lock,
         live' = live, record' = record, receipt' = receipt, dir' = dir, torn' = torn,
         shown' = shown, closed' = closed
  PROVE  TInv' /\ Requested(r) /\ req'[r].pc = "rollOut" /\ SameTask(r) /\ SameRead(r) /\ SameMoves(r)
<1>1. Requested(r) /\ req'[r].pc = "rollOut" /\ SameTask(r) /\ SameRead(r) /\ SameMoves(r)
  BY GoFacts DEF Rollback, TInv, Types, Steps
<1>2. TypedData
  BY SameTyped DEF TypedData, Rollback
<1> QED BY <1>1, <1>2, PublishingStep DEF Publishing, SameMoves

LEMMA MoveAwayTyped ==
  ASSUME TInv, NEW r \in Requests, MoveAway(r)
  PROVE  TInv'
<1>1. req[r].pc = "moveAway" /\ req[r].pc \in Publishing
  BY DEF MoveAway, At, Publishing
<1>2. CASE Rollback(r) /\ UNCHANGED <<live, dir>>
  BY <1>1, <1>2, RollbackStep DEF MoveAway, history
<1>3. CASE /\ dir' = [dir EXCEPT ![Tx(r)][Keep(req[r].op)] = live] /\ live' = None
           /\ req' = [req EXCEPT ![r].pc = "moveIn", ![r].out = TRUE] /\ UNCHANGED faults
  <2>1. Requested(r) /\ req'[r].pc = "moveIn" /\ SameTask(r) /\ req'[r].original = req[r].original
    BY <1>3, OutFacts DEF TInv, Types, Steps
  <2>2. dir' \in [Transactions -> [Places -> Designs \cup {None}]]
    BY <1>1, <1>3, Publisher, DirFacts DEF TInv, Types, SetDir
  <2>3. TypedData
    BY <1>3, <2>2, SameTyped DEF TypedData, MoveAway, history
  <2> QED BY <1>1, <2>1, <2>3, PublishingStep DEF Publishing, MoveAway
<1> QED BY <1>2, <1>3 DEF MoveAway

LEMMA WriteRecordTyped ==
  ASSUME TInv, NEW r \in Requests, WriteRecord(r), live # None
  PROVE  TInv'
<1>1. req[r].pc = "record" /\ req[r].pc \in Publishing
  BY DEF WriteRecord, At, Publishing
<1>2. CASE Rollback(r) /\ UNCHANGED record
  BY <1>1, <1>2, RollbackStep DEF WriteRecord, files, history
<1>3. CASE ~(Rollback(r) /\ UNCHANGED record)
  <2>1. Requested(r) /\ req'[r].pc = "receipt" /\ SameTask(r) /\ SameMoves(r) /\ faults' = faults
    BY <1>3, GoFacts DEF TInv, Types, Steps, WriteRecord
  <2>2. record' \in Record
    <3>1. Tx(r) \in Transactions
      BY <1>1, Publisher
    <3>2. record \in Record /\ live \in Designs /\ receipt[Tx(r)].prior \in Statuses
      BY <3>1 DEF TInv, Types, Statuses
    <3>3. /\ record.revision + 1 \in Nat
          /\ (IF req[r].op = "apply" THEN None ELSE record.active) \in Transactions \cup {None}
      BY <3>2 DEF Record
    <3>4. (CASE req[r].op = "undo" -> receipt[Tx(r)].prior [] OTHER -> "generated") \in Statuses
      BY <3>2 DEF Statuses, Settled
    <3> QED BY <1>3, <3>1, <3>2, <3>3, <3>4 DEF WriteRecord, Record
  <2>3. TypedData
    BY <2>1, <2>2, SameTyped DEF TypedData, WriteRecord, files, history
  <2> QED BY <1>1, <2>1, <2>3, PublishingStep DEF Publishing, WriteRecord, SameMoves
<1> QED BY <1>2, <1>3

LEMMA WriteReceiptTyped ==
  ASSUME TInv, NEW r \in Requests, WriteReceipt(r)
  PROVE  TInv'
<1>1. req[r].pc = "receipt" /\ req[r].pc \in Publishing
  BY DEF WriteReceipt, At, Publishing
<1>2. CASE Rollback(r) /\ UNCHANGED <<receipt, lock, closed>>
  BY <1>1, <1>2, RollbackStep DEF WriteReceipt, files, history
<1>3. CASE ~(Rollback(r) /\ UNCHANGED <<receipt, lock, closed>>)
  <2>1. Tx(r) \in Transactions /\ lock = r
    BY <1>1, Publisher
  <2>2. /\ SetReceipt(Tx(r), IF req[r].op = "undo" THEN "undone" ELSE "applied")
        /\ closed' = IF req[r].op = "undo" THEN closed \cup {Tx(r)} ELSE closed
        /\ lock' = None /\ End(r) /\ faults' = faults
    BY <1>3 DEF WriteReceipt
  <2>3. (IF req[r].op = "undo" THEN "undone" ELSE "applied") \in ReceiptStatuses
    BY DEF ReceiptStatuses
  <2>4. /\ receipt' \in [Transactions -> Receipt]
        /\ \A y \in Transactions : receipt'[y].prior \in Settled
    BY <2>1, <2>2, <2>3, SetReceiptTyped
  <2>5. closed' \subseteq Transactions
    BY <2>1, <2>2 DEF TInv, Types
  <2>6. TypedData
    BY <2>2, <2>4, <2>5, SameTyped DEF TypedData, WriteReceipt, files
  <2> QED BY <2>1, <2>2, <2>6, EndStep
<1> QED BY <1>2, <1>3

LEMMA MoveInTyped ==
  ASSUME TInv, NEW r \in Requests, MoveIn(r), dir[Tx(r)][Source(req[r].op)] # None
  PROVE  TInv'
<1>1. req[r].pc = "moveIn" /\ req[r].pc \in Publishing
  BY DEF MoveIn, At, Publishing
<1>2. CASE Rollback(r) /\ UNCHANGED <<live, dir, shown>>
  BY <1>1, <1>2, RollbackStep DEF MoveIn, history
<1>3. CASE ~(Rollback(r) /\ UNCHANGED <<live, dir, shown>>)
  <2>1. /\ live' = dir[Tx(r)][Source(req[r].op)] /\ shown' = shown \cup {live'}
        /\ dir' = [dir EXCEPT ![Tx(r)][Source(req[r].op)] = None]
        /\ req' = [req EXCEPT ![r].pc = "record", ![r].in = TRUE] /\ faults' = faults
    BY <1>3 DEF MoveIn
  <2>2. Requested(r) /\ req'[r].pc = "record" /\ SameTask(r) /\ req'[r].original = req[r].original
    BY <2>1, InFacts DEF TInv, Types, Steps
  <2>3. Tx(r) \in Transactions /\ Source(req[r].op) \in Places
    BY <1>1, Publisher
  <2>4. live' \in Designs /\ shown' \subseteq Designs
    BY <2>1, <2>3 DEF TInv, Types
  <2>5. dir' \in [Transactions -> [Places -> Designs \cup {None}]]
    BY <2>1, <2>3, DirFacts DEF TInv, Types, SetDir
  <2>6. TypedData
    BY <2>1, <2>4, <2>5, SameTyped DEF TypedData, MoveIn, history
  <2> QED BY <1>1, <2>2, <2>6, PublishingStep DEF Publishing, MoveIn
<1> QED BY <1>2, <1>3

LEMMA RollOutTyped ==
  ASSUME TInv, NEW r \in Requests, RollOut(r)
  PROVE  TInv'
<1>1. req[r].pc = "rollOut" /\ req[r].pc \in Publishing
  BY DEF RollOut, At, Publishing
<1>2. Tx(r) \in Transactions /\ Back(req[r].op) \in Places
  BY <1>1, Publisher
<1>3. /\ live' \in Designs \cup {None}
      /\ dir' \in [Transactions -> [Places -> Designs \cup {None}]]
  BY <1>2, SameTyped, DirFacts DEF RollOut, TInv, Types, SetDir
<1>4. TypedData
  BY <1>3, SameTyped DEF TypedData, RollOut, history
<1>5. \E pc \in {"rollIn", "rollRecord"} :
        Requested(r) /\ req'[r].pc = pc /\ SameTask(r) /\ req'[r].original = req[r].original
  BY GoFacts, FailedFacts DEF RollOut, TInv, Types, Steps, SameMoves
<1> QED BY <1>1, <1>4, <1>5, PublishingStep DEF Publishing, RollOut

LEMMA RollInTyped ==
  ASSUME TInv, NEW r \in Requests, RollIn(r)
  PROVE  TInv'
<1>1. req[r].pc = "rollIn" /\ req[r].pc \in Publishing
  BY DEF RollIn, At, Publishing
<1>2. Tx(r) \in Transactions /\ Keep(req[r].op) \in Places
  BY <1>1, Publisher
<1>3. /\ live' \in Designs \cup {None}
      /\ dir' \in [Transactions -> [Places -> Designs \cup {None}]]
  <2> DEFINE keep == Keep(req[r].op)
  <2>1. \/ live' = live /\ dir' = dir
        \/ live' = dir[Tx(r)][keep] /\ dir' = [dir EXCEPT ![Tx(r)][keep] = None]
    BY DEF RollIn
  <2>2. CASE live' = live /\ dir' = dir
    BY <2>2, SameTyped
  <2>3. CASE live' = dir[Tx(r)][keep] /\ dir' = [dir EXCEPT ![Tx(r)][keep] = None]
    BY <1>2, <2>3, DirFacts DEF TInv, Types, SetDir
  <2> QED BY <2>1, <2>2, <2>3
<1>4. TypedData
  BY <1>3, SameTyped DEF TypedData, RollIn, history
<1>5. Requested(r) /\ req'[r].pc = "rollRecord" /\ SameTask(r) /\ req'[r].original = req[r].original
  BY GoFacts, FailedFacts DEF RollIn, TInv, Types, Steps, SameMoves
<1> QED BY <1>1, <1>4, <1>5, PublishingStep DEF Publishing, RollIn

LEMMA RollRecordTyped ==
  ASSUME TInv, NEW r \in Requests, RollRecord(r)
  PROVE  TInv'
<1>1. req[r].pc = "rollRecord" /\ req[r].pc \in Publishing
  BY DEF RollRecord, At, Publishing
<1>2. record' \in Record
  BY <1>1, Publisher, SameTyped DEF RollRecord
<1>3. TypedData
  BY <1>2, SameTyped DEF TypedData, RollRecord, files, history
<1>4. Requested(r) /\ req'[r].pc = "rollReceipt" /\ SameTask(r) /\ req'[r].original = req[r].original
  BY GoFacts, FailedFacts DEF RollRecord, TInv, Types, Steps, SameMoves
<1> QED BY <1>1, <1>3, <1>4, PublishingStep DEF Publishing, RollRecord

LEMMA RollReceiptTyped ==
  ASSUME TInv, NEW r \in Requests, RollReceipt(r)
  PROVE  TInv'
<1>1. req[r].pc = "rollReceipt" /\ req[r].pc \in Publishing
  BY DEF RollReceipt, At, Publishing
<1>2. Tx(r) \in Transactions /\ lock = r /\ req[r].seen \in ReceiptStatuses
  BY <1>1, Publisher
<1>3. /\ receipt' \in [Transactions -> Receipt]
      /\ \A y \in Transactions : receipt'[y].prior \in Settled
  <2> DEFINE s == CASE req[r].op = "operation" -> "failed"
                    [] req[r].bad -> "rollback_incomplete"
                    [] OTHER -> req[r].seen
  <2>1. s \in ReceiptStatuses
    BY <1>2 DEF ReceiptStatuses
  <2>2. SetReceipt(Tx(r), s) \/ UNCHANGED receipt
    BY DEF RollReceipt
  <2> HIDE DEF s
  <2> QED BY <1>2, <2>1, <2>2, SetReceiptTyped, SameTyped
<1>4. torn' \in BOOLEAN
  BY DEF RollReceipt, TInv, Types, Request
<1>5. TypedData
  BY <1>3, <1>4, SameTyped DEF TypedData, RollReceipt, files
<1> QED BY <1>2, <1>5, EndStep DEF RollReceipt

LEMMA CrashTyped ==
  ASSUME TInv, NEW r \in Requests, Crash(r)
  PROVE  TInv'
<1>1. torn' \in BOOLEAN
  BY DEF Crash, TInv, Types, Request, HalfDone
<1>2. TypedData
  BY <1>1, SameTyped DEF TypedData, Crash, files
<1> QED BY <1>2, EndStep DEF Crash

LEMMA RecoverTyped ==
  ASSUME TInv, Recover
  PROVE  TInv'
<1>1. record' \in Record
  <2>1. record \in Record /\ (IF live # None THEN "generated" ELSE "interrupted") \in Statuses
    BY DEF TInv, Types, Statuses, Settled
  <2> QED BY <2>1, RecordTyped DEF Recover
<1>2. Types'
  BY <1>1 DEF TInv, Types, Recover, files, history
<1> QED BY <1>2 DEF TInv, Recover, RequestOK, Holds, Creator, Tx

-----------------------------------------------------------------------------
\* Transactions and who works on them.

Absent(x) == receipt[x].status = "absent"
Rolling   == {"rollOut", "rollIn", "rollRecord", "rollReceipt"}

\* The steps of a request before its receipt is written, and after its candidate
\* has been published.
Early        == {"load", "start", "revise", "stage"}
Published(r) == req[r].pc \in {"record", "receipt"} \cup Rolling

\* The designs that a publication replaces and puts in its place.
OldD(r) == IF req[r].op = "undo" THEN Tx(r) ELSE req[r].base
NewD(r) == IF req[r].op = "undo" THEN req[r].base ELSE Tx(r)

OneCreator ==
  \A r, s \in Requests : Creator(r) /\ Creator(s) /\ Tx(r) = Tx(s) => r = s

\* No request knows a transaction that has no receipt, but the one that creates it.
AbsentIsNew ==
  \A x \in Transactions : Absent(x) =>
    /\ \A p \in Places : dir[x][p] = None
    /\ x \notin shown \cup closed \cup {record.active, record.last}
    /\ \A r \in Requests :
         /\ Holds(r) => x \notin {req[r].original.active, req[r].original.last}
         /\ Decider(r) => Tx(r) # x

ActiveIsRepair ==
  \A x \in Transactions :
    \/ record.active = x
    \/ \E r \in Requests : Holds(r) /\ req[r].original.active = x
    => receipt[x].kind = "repair"

CreatorOK(r) ==
  LET q == req[r]
      x == Tx(r)
  IN
  Creator(r) =>
    /\ q.pc \in Early => Absent(x)
    /\ q.pc = "fail" => Absent(x) \/ receipt[x].status = "failed"
    /\ q.pc \notin Early \cup {"fail"} =>
         receipt[x].status = "preparing" /\ receipt[x].base = q.base /\ receipt[x].kind = q.op
    /\ q.pc \in {"offerReceipt", "offerRoll"} => q.seen \in {"ready", "rejected"}
    /\ q.op = "operation" /\ q.pc = "lock" => \A p \in Places \ {"staged"} : dir[x][p] = None
    /\ x \notin closed
    /\ q.op = "repair" \/ ~Published(r) => x \notin shown \cup {record.last}
    /\ record.active = x => q.pc \in {"offerReceipt", "offerRoll"}
    /\ \A s \in Requests :
         /\ Holds(s) => x \notin {req[s].original.active, req[s].original.last}
         /\ Decider(s) /\ Tx(s) = x => req[s].pc \in {"load", "discard"}

DeciderOK(r) ==
  Decider(r) =>
    /\ ~Absent(Tx(r))
    /\ req[r].pc # "load" =>
         /\ req[r].base = receipt[Tx(r)].base
         /\ req[r].op = "apply" => req[r].seen = "ready"
         /\ req[r].op = "undo" => req[r].seen = "applied" /\ receipt[Tx(r)].kind = "repair"

\* Whatever a record, a receipt or a request names as a design has been live.
ShownOK ==
  /\ live \in shown \cup {None} /\ Base \in shown /\ record.vouched \in shown
  /\ \A x \in Transactions : receipt[x].base \in shown
  /\ \A r \in Requests :
       /\ req[r].base \in shown
       /\ Holds(r) => req[r].original.vouched \in shown
       /\ req[r].pc \in Publishing /\ req[r].out => OldD(r) \in shown

CInv ==
  /\ OneCreator /\ AbsentIsNew /\ ActiveIsRepair /\ ShownOK
  /\ \A r \in Requests : CreatorOK(r) /\ DeciderOK(r)

-----------------------------------------------------------------------------
\* The state of a publication.

\* The record that a publication writes.
NewRecord(r) ==
  LET o == req[r].original IN
  [status   |-> IF req[r].op = "undo" THEN receipt[Tx(r)].prior ELSE "generated",
   revision |-> o.revision + 1,
   active   |-> IF req[r].op = "apply" THEN None ELSE o.active,
   last     |-> IF req[r].op = "undo" THEN None ELSE Tx(r),
   vouched  |-> NewD(r)]

\* The checks of the record under the lock.
Checked(r) ==
  LET o == req[r].original IN
  /\ o.revision = req[r].revision
  /\ req[r].op = "apply" => o.active = Tx(r)
  /\ req[r].op = "undo" => o.last = Tx(r)

PubOK(r) ==
  LET q      == req[r]
      kept   == dir[Tx(r)][Keep(q.op)]
      source == dir[Tx(r)][Source(q.op)]
  IN
  q.pc \in Publishing =>
    /\ q.in => q.out
    /\ q.out => Checked(r)
    /\ record = q.original \/ (q.in /\ record = NewRecord(r))
    /\ q.pc = "moveAway" =>
         Checked(r) /\ ~q.out /\ ~q.bad /\ live = OldD(r) /\ kept = None /\ source = NewD(r)
    /\ q.pc = "moveIn" =>
         q.out /\ ~q.in /\ ~q.bad /\ live = None /\ kept = OldD(r) /\ source = NewD(r)
    /\ q.pc \in {"record", "receipt"} =>
         q.in /\ ~q.bad /\ live = NewD(r) /\ kept = OldD(r) /\ source = None
    /\ q.pc = "record" => record = q.original
    /\ q.pc = "receipt" => record = NewRecord(r)
    /\ q.pc = "rollOut" =>
         /\ ~q.bad
         /\ q.out => kept = OldD(r)
         /\ q.out /\ ~q.in => live = None
         /\ q.in => live = NewD(r) /\ source = None
    /\ q.pc = "rollIn" =>
         /\ q.bad => live # None
         /\ q.out /\ ~q.bad => live = None /\ kept = OldD(r)
    /\ q.pc \in {"rollRecord", "rollReceipt"} /\ q.out /\ ~q.bad => live = OldD(r)
    /\ q.pc = "rollReceipt" /\ ~q.bad => record = q.original

PInv == (\A r \in Requests : PubOK(r)) /\ NoDesignLost /\ BackupIsBase

\* The invariant of all steps, whatever fails.
IInv == TInv /\ CInv /\ PInv

-----------------------------------------------------------------------------
\* What a step may do to the transactions.

Mine(r) == \A s \in Requests : s # r /\ Creator(s) => Tx(s) # Tx(r)

Untouched(r, y) ==
  /\ receipt'[y] = receipt[y] /\ dir'[y] = dir[y]
  /\ y \in closed' => y \in closed
  /\ y \in shown' => y \in shown
  /\ y = record'.active => y = record.active \/ (Holds(r) /\ y = req[r].original.active)
  /\ y = record'.last => y = record.last \/ (Holds(r) /\ y = req[r].original.last)

ShownStep(r) ==
  /\ shown \subseteq shown'
  /\ live' \in shown' \cup {None} /\ record'.vouched \in shown'
  /\ \A y \in Transactions : receipt'[y].base \in shown'
  /\ req'[r].base \in shown'
  /\ Holds(r)' => req'[r].original.vouched \in shown'
  /\ req'[r].pc \in Publishing /\ req'[r].out => OldD(r)' \in shown'

SameName(r) == req'[r] = NoRequest \/ SameTask(r)

TxStep(r) ==
  /\ Requested(r) /\ SameName(r)
  /\ Holds(r)' => \/ Holds(r) /\ req'[r].original = req[r].original
                  \/ lock = None /\ req'[r].original = record
  /\ \A y \in Transactions :
       /\ ~Absent(y) => /\ ~Absent(y)'
                        /\ receipt'[y].kind = receipt[y].kind
                        /\ receipt'[y].base = receipt[y].base
       /\ Untouched(r, y) \/ (y = Tx(r) /\ ~Absent(y)' /\ Mine(r))
  /\ \A y \in Transactions :
       y = record'.active => \/ y = record.active
                             \/ Holds(r) /\ y = req[r].original.active
                             \/ y = Tx(r) /\ req[r].pc = "offer"
  /\ Decider(r) /\ ~Mine(r) => req'[r].pc \in {"idle", "load", "discard"}
  /\ ShownStep(r)

LEMMA IdleNames ==
  ASSUME NEW r \in Requests, req'[r] = NoRequest
  PROVE  /\ req'[r].op = "none" /\ req'[r].pc = "idle" /\ ~req'[r].out
         /\ ~Creator(r)' /\ ~Decider(r)' /\ ~Holds(r)' /\ req'[r].pc \notin Publishing
         /\ req'[r].base = Base /\ CreatorOK(r)' /\ DeciderOK(r)' /\ PubOK(r)'
         /\ req'[r].pc \notin Locked
<1>1. /\ req'[r].op = "none" /\ req'[r].pc = "idle" /\ ~req'[r].out /\ req'[r].base = Base
  BY DEF NoRequest
<1>2. ~Creator(r)' /\ ~Decider(r)' /\ ~Holds(r)' /\ req'[r].pc \notin Publishing
      /\ req'[r].pc \notin Locked
  BY <1>1 DEF Creator, Decider, Holds, Publishing, Locked
<1> QED BY <1>1, <1>2 DEF CreatorOK, DeciderOK, PubOK

LEMMA NewNames ==
  ASSUME NEW r \in Requests, TxStep(r), NEW s \in Requests
  PROVE  /\ Creator(s)' => Creator(s) /\ Tx(s)' = Tx(s) /\ req'[s].op = req[s].op
         /\ Decider(s)' => Decider(s) /\ Tx(s)' = Tx(s)
         /\ s # r => req'[s] = req[s] /\ Tx(s)' = Tx(s) /\ (Creator(s)' <=> Creator(s))
                     /\ (Holds(s)' <=> Holds(s)) /\ (Decider(s)' <=> Decider(s))
<1>1. CASE s # r
  BY <1>1 DEF TxStep, Requested, Others, Creator, Decider, Tx, Holds
<1>2. CASE s = r /\ req'[r] = NoRequest
  BY <1>2, IdleNames
<1>3. CASE s = r /\ SameTask(r)
  BY <1>3 DEF SameTask, Creator, Decider, Tx
<1> QED BY <1>1, <1>2, <1>3 DEF TxStep, SameName

LEMMA OneCreatorKept ==
  ASSUME IInv, NEW r \in Requests, TxStep(r)
  PROVE  OneCreator'
<1> SUFFICES ASSUME NEW s \in Requests, NEW t \in Requests, Creator(s)', Creator(t)', Tx(s)' = Tx(t)'
             PROVE  s = t
  BY DEF OneCreator
<1> QED BY NewNames DEF IInv, CInv, OneCreator

LEMMA AbsentIsNewKept ==
  ASSUME IInv, NEW r \in Requests, TxStep(r)
  PROVE  AbsentIsNew'
<1> SUFFICES ASSUME NEW x \in Transactions, Absent(x)'
             PROVE  /\ \A p \in Places : dir'[x][p] = None
                    /\ x \notin shown' \cup closed' \cup {record'.active, record'.last}
                    /\ \A s \in Requests :
                         /\ Holds(s)' => x \notin {req'[s].original.active, req'[s].original.last}
                         /\ Decider(s)' => Tx(s)' # x
  BY DEF AbsentIsNew
<1>1. Absent(x) /\ Untouched(r, x)
  BY DEF TxStep
<1>2. /\ \A p \in Places : dir[x][p] = None
      /\ x \notin shown \cup closed \cup {record.active, record.last}
      /\ \A s \in Requests :
           /\ Holds(s) => x \notin {req[s].original.active, req[s].original.last}
           /\ Decider(s) => Tx(s) # x
  BY <1>1 DEF IInv, CInv, AbsentIsNew
<1>3. \A p \in Places : dir'[x][p] = None
  BY <1>1, <1>2 DEF Untouched
<1>4. x \notin shown' \cup closed' \cup {record'.active, record'.last}
  BY <1>1, <1>2 DEF Untouched
<1>5. ASSUME NEW s \in Requests
      PROVE  /\ Holds(s)' => x \notin {req'[s].original.active, req'[s].original.last}
             /\ Decider(s)' => Tx(s)' # x
  <2>1. CASE s # r BY <1>2, <2>1, NewNames
  <2>2. CASE s = r BY <1>2, <2>2, NewNames DEF TxStep
  <2> QED BY <2>1, <2>2
<1> QED BY <1>3, <1>4, <1>5

LEMMA ActiveIsRepairKept ==
  ASSUME IInv, NEW r \in Requests, TxStep(r)
  PROVE  ActiveIsRepair'
<1>1. ASSUME NEW x \in Transactions,
             x = record.active \/ \E s \in Requests : Holds(s) /\ x = req[s].original.active
      PROVE  receipt'[x].kind = "repair"
  <2>1. receipt[x].kind = "repair"
    BY <1>1 DEF IInv, CInv, ActiveIsRepair
  <2>2. ~Absent(x)
    BY <1>1 DEF IInv, CInv, AbsentIsNew
  <2> QED BY <2>1, <2>2 DEF TxStep
<1>2. ASSUME req[r].pc = "offer", Tx(r) \in Transactions PROVE receipt'[Tx(r)].kind = "repair"
  <2>1. req[r].op = "repair" /\ Creator(r)
    BY <1>2, Doing DEF Creator, IInv
  <2>2. receipt[Tx(r)].kind = "repair" /\ ~Absent(Tx(r))
    BY <1>2, <2>1 DEF IInv, CInv, CreatorOK, Early, Absent
  <2> QED BY <1>2, <2>2 DEF TxStep
<1>3. ASSUME NEW x \in Transactions, x = record'.active PROVE receipt'[x].kind = "repair"
  BY <1>1, <1>2, <1>3 DEF TxStep
<1>4. ASSUME NEW x \in Transactions, NEW s \in Requests, Holds(s)', x = req'[s].original.active
      PROVE  receipt'[x].kind = "repair"
  <2>1. CASE s # r BY <1>1, <1>4, <2>1, NewNames
  <2>2. CASE s = r BY <1>1, <1>4, <2>2 DEF TxStep
  <2> QED BY <2>1, <2>2
<1> QED BY <1>3, <1>4 DEF ActiveIsRepair

LEMMA ShownKept ==
  ASSUME IInv, NEW r \in Requests, TxStep(r)
  PROVE  ShownOK'
<1>1. ASSUME NEW s \in Requests
      PROVE  /\ req'[s].base \in shown'
             /\ Holds(s)' => req'[s].original.vouched \in shown'
             /\ req'[s].pc \in Publishing /\ req'[s].out => OldD(s)' \in shown'
  <2>1. CASE s # r
    BY <2>1, NewNames DEF IInv, CInv, ShownOK, TxStep, ShownStep, OldD, Tx
  <2>2. CASE s = r
    BY <2>2 DEF TxStep, ShownStep
  <2> QED BY <2>1, <2>2
<1>2. /\ live' \in shown' \cup {None} /\ Base \in shown' /\ record'.vouched \in shown'
      /\ \A x \in Transactions : receipt'[x].base \in shown'
  BY DEF IInv, CInv, ShownOK, TxStep, ShownStep
<1> QED BY <1>1, <1>2 DEF ShownOK

\* A creator that does not take the step.
LEMMA CreatorsKept ==
  ASSUME IInv, TInv', NEW r \in Requests, TxStep(r), NEW s \in Requests, s # r
  PROVE  CreatorOK(s)'
<1> SUFFICES ASSUME Creator(s) PROVE CreatorOK(s)'
  BY NewNames DEF CreatorOK
<1>0. CreatorOK(s) /\ Tx(s) \in Transactions /\ req[s].op \in {"repair", "operation"}
  <2>1. req[s].pc # "idle"
    BY DEF Creator, IInv, TInv, RequestOK, StepsOf, Publishing, NoRequest
  <2> QED BY <2>1, Busy DEF IInv, CInv, Creator
<1>1. req'[s] = req[s] /\ Tx(s)' = Tx(s) /\ Creator(s)'
  BY NewNames
<1>2. Untouched(r, Tx(s))
  BY <1>0 DEF TxStep, Mine
<1>3. /\ receipt'[Tx(s)] = receipt[Tx(s)] /\ dir'[Tx(s)] = dir[Tx(s)]
      /\ Tx(s) \in closed' => Tx(s) \in closed
      /\ Tx(s) \in shown' => Tx(s) \in shown
      /\ Tx(s) = record'.active => Tx(s) = record.active
      /\ Tx(s) = record'.last => Tx(s) = record.last
  BY <1>0, <1>2 DEF Untouched, CreatorOK
<1>4. lock = None => Tx(s) \notin {record.active, record.last}
  BY <1>0, DesignAssumption
  DEF CreatorOK, Published, Rolling, IInv, TInv, Locked, Publishing
<1>5. ASSUME NEW t \in Requests
      PROVE  /\ Holds(t)' => Tx(s) \notin {req'[t].original.active, req'[t].original.last}
             /\ Decider(t)' /\ Tx(t)' = Tx(s) => req'[t].pc \in {"load", "discard"}
  <2>1. CASE t # r
    BY <1>0, <2>1, NewNames DEF CreatorOK
  <2>2. ASSUME t = r, Holds(r)'
        PROVE  Tx(s) \notin {req'[t].original.active, req'[t].original.last}
    BY <1>0, <1>4, <2>2 DEF CreatorOK, TxStep
  <2>3. ASSUME t = r, Decider(r)', Tx(r)' = Tx(s) PROVE req'[t].pc \in {"load", "discard"}
    <3>1. Decider(r) /\ Tx(r) = Tx(s)
      BY <2>3, NewNames
    <3>2. ~Mine(r)
      BY <3>1 DEF Mine
    <3>3. req'[r].pc # "idle"
      BY <2>3 DEF Decider, TInv, RequestOK, StepsOf, Publishing, NoRequest
    <3> QED BY <2>3, <3>1, <3>2, <3>3 DEF TxStep
  <2> QED BY <2>1, <2>2, <2>3
<1> QED BY <1>0, <1>1, <1>3, <1>5 DEF CreatorOK, Absent, Published

LEMMA DecidersKept ==
  ASSUME IInv, NEW r \in Requests, TxStep(r), NEW s \in Requests, s # r
  PROVE  DeciderOK(s)'
<1>1. req'[s] = req[s] /\ Tx(s)' = Tx(s) /\ (Decider(s)' => Decider(s)) /\ DeciderOK(s)
  BY NewNames DEF IInv, CInv
<1>2. Decider(s) => Tx(s) \in Transactions
  <2>1. Decider(s) => req[s].pc # "idle"
    BY DEF Decider, IInv, TInv, RequestOK, StepsOf, Publishing, NoRequest
  <2> QED BY <2>1, Busy DEF IInv
<1> QED BY <1>1, <1>2 DEF DeciderOK, TxStep

LEMMA NamesKept ==
  ASSUME IInv, TInv', NEW r \in Requests, TxStep(r), CreatorOK(r)', DeciderOK(r)'
  PROVE  CInv'
BY OneCreatorKept, AbsentIsNewKept, ActiveIsRepairKept, ShownKept, CreatorsKept, DecidersKept
DEF CInv

-----------------------------------------------------------------------------
\* What a step may do to a publication that somebody else has begun.

LEMMA PublicationsKept ==
  ASSUME IInv, TInv', NEW r \in Requests, TxStep(r), PubOK(r)',
         lock \notin {None, r} =>
           /\ live' = live /\ record' = record
           /\ \A y \in Transactions : ~Absent(y) => receipt'[y] = receipt[y] /\ dir'[y] = dir[y]
  PROVE  \A s \in Requests : PubOK(s)'
<1> SUFFICES ASSUME NEW s \in Requests, s # r, req'[s].pc \in Publishing PROVE PubOK(s)'
  BY DEF PubOK
<1>1. req'[s] = req[s] /\ PubOK(s)
  BY NewNames DEF IInv, PInv
<1>2. lock = s /\ lock \notin {None, r}
  BY <1>1, DesignAssumption DEF IInv, TInv, Locked
<1>3. Tx(s) \in Transactions /\ ~Absent(Tx(s))
  <2>1. req[s].op \in {"operation", "apply", "undo"} /\ Tx(s) \in Transactions
    BY <1>1, Publisher DEF IInv
  <2>2. CASE Creator(s)
    BY <1>1, <2>1, <2>2 DEF IInv, CInv, CreatorOK, Absent, Publishing, Early
  <2>3. CASE Decider(s)
    BY <2>1, <2>3 DEF IInv, CInv, DeciderOK
  <2> QED BY <2>1, <2>2, <2>3 DEF Creator, Decider
<1>4. live' = live /\ record' = record /\ receipt'[Tx(s)] = receipt[Tx(s)] /\ dir'[Tx(s)] = dir[Tx(s)]
  BY <1>2, <1>3
<1>5. /\ Tx(s)' = Tx(s) /\ OldD(s)' = OldD(s) /\ NewD(s)' = NewD(s)
      /\ (Checked(s)' <=> Checked(s)) /\ NewRecord(s)' = NewRecord(s)
  BY <1>1, <1>4 DEF Tx, OldD, NewD, Checked, NewRecord
<1> QED BY <1>1, <1>4, <1>5 DEF PubOK

\* A step that moves no design.
LEMMA DesignsKept ==
  ASSUME IInv, live' = live, shown' = shown,
         \A y \in Transactions :
           /\ ~Absent(y) => dir'[y] = dir[y] /\ receipt'[y].base = receipt[y].base
           /\ Absent(y) => dir'[y]["before"] = None
  PROVE  NoDesignLost' /\ BackupIsBase'
<1>1. NoDesignLost'
  <2> SUFFICES ASSUME NEW d \in shown, d # live
               PROVE  \E y \in Transactions, p \in Places : dir'[y][p] = d
    BY DEF NoDesignLost
  <2>1. PICK y \in Transactions, p \in Places : dir[y][p] = d
    BY DEF IInv, PInv, NoDesignLost
  <2>2. ~Absent(y)
    BY <2>1, DesignAssumption DEF IInv, TInv, Types, Designs, CInv, AbsentIsNew
  <2> QED BY <2>1, <2>2
<1>2. BackupIsBase'
  BY DEF IInv, PInv, BackupIsBase, Places
<1> QED BY <1>1, <1>2

\* The steps that change neither designs nor receipts.
Quiet(r) ==
  /\ Requested(r) /\ SameName(r)
  /\ UNCHANGED <<live, receipt, dir, shown, closed>>
  /\ record'.active = record.active /\ record'.last = record.last
  /\ record'.vouched = record.vouched
  /\ Holds(r)' => Holds(r) /\ req'[r].original = req[r].original
  /\ req'[r].base \in shown
  /\ req'[r].pc \in Publishing => req[r].pc \in Publishing /\ req'[r].base = req[r].base
                                   /\ req'[r].out = req[r].out
  /\ lock \notin {None, r} => record' = record
  /\ Decider(r) /\ ~Mine(r) => req'[r].pc \in {"idle", "load", "discard"}

LEMMA QuietTx ==
  ASSUME IInv, NEW r \in Requests, Quiet(r)
  PROVE  TxStep(r)
<1>1. ShownStep(r)
  <2>1. req'[r].pc \in Publishing => OldD(r)' = OldD(r)
    BY IdleNames DEF Quiet, SameName, SameTask, OldD, Tx
  <2> QED BY <2>1 DEF Quiet, ShownStep, IInv, CInv, ShownOK
<1> QED BY <1>1 DEF Quiet, TxStep, Untouched, Absent

LEMMA QuietKept ==
  ASSUME IInv, TInv', NEW r \in Requests, Quiet(r), CreatorOK(r)', DeciderOK(r)', PubOK(r)'
  PROVE  IInv'
<1>1. TxStep(r)
  BY QuietTx
<1>2. CInv'
  BY <1>1, NamesKept
<1>3. \A s \in Requests : PubOK(s)'
  BY <1>1, PublicationsKept DEF Quiet
<1>4. NoDesignLost' /\ BackupIsBase'
  BY DesignsKept DEF Quiet, IInv, CInv, AbsentIsNew, Places
<1> QED BY <1>2, <1>3, <1>4 DEF IInv, PInv

LEMMA BindKept ==
  ASSUME IInv, NEW r \in Requests, NEW op \in Operations, NEW x \in Transactions,
         Bind(r, op, x)
  PROVE  IInv'
<1>0. TInv /\ TInv'
  BY BindTyped DEF IInv
<1>1. /\ Requested(r) /\ req[r] = NoRequest
      /\ req'[r].op = op /\ req'[r].pc = "load" /\ req'[r].tx = x /\ req'[r].base = Base
  BY <1>0, BindFacts
<1>2. UNCHANGED <<live, dir, shown, record, receipt, lock, closed>>
  BY DEF Bind, files, history
<1>3. ~Creator(r) /\ ~Decider(r) /\ ~Holds(r) /\ ~Holds(r)' /\ Tx(r)' = x
      /\ (Creator(r)' <=> op \in {"repair", "operation"})
      /\ (Decider(r)' <=> op \in {"apply", "discard", "undo"})
  BY <1>1 DEF NoRequest, Creator, Decider, Holds, Tx, Publishing
<1>4. ASSUME NEW s \in Requests, s # r
      PROVE  /\ req'[s] = req[s] /\ Tx(s)' = Tx(s) /\ (Creator(s)' <=> Creator(s))
             /\ (Decider(s)' <=> Decider(s)) /\ (Holds(s)' <=> Holds(s))
             /\ OldD(s)' = OldD(s)
  BY <1>1, <1>4 DEF Requested, Others, Creator, Decider, Holds, Tx, OldD
<1>5. Creator(r)' => Absent(x) /\ \A s \in Requests : Tx(s) # x
  BY <1>3 DEF Bind, Allowed, Fresh, Absent
<1>6. Decider(r)' => ~Absent(x)
  BY <1>3 DEF Bind, Allowed, IInv, CInv, AbsentIsNew
<1>7. OneCreator'
  BY <1>3, <1>4, <1>5 DEF OneCreator, IInv, CInv
<1>8. AbsentIsNew'
  BY <1>2, <1>3, <1>4, <1>6 DEF AbsentIsNew, Absent, IInv, CInv
<1>9. ActiveIsRepair'
  BY <1>2, <1>3, <1>4 DEF ActiveIsRepair, IInv, CInv
<1>10. ShownOK'
  BY <1>1, <1>2, <1>3, <1>4 DEF ShownOK, IInv, CInv, Publishing
<1>11. CreatorOK(r)'
  <2> SUFFICES ASSUME Creator(r)' PROVE CreatorOK(r)'
    BY DEF CreatorOK
  <2>1. Absent(x) /\ Absent(x)' /\ \A s \in Requests : Tx(s) # x
    BY <1>2, <1>5 DEF Absent
  <2>2. /\ x \notin shown \cup closed \cup {record.active, record.last}
        /\ \A s \in Requests :
             Holds(s) => x \notin {req[s].original.active, req[s].original.last}
    BY <2>1 DEF IInv, CInv, AbsentIsNew
  <2>3. \A s \in Requests :
          /\ Holds(s)' => x \notin {req'[s].original.active, req'[s].original.last}
          /\ Decider(s)' /\ Tx(s)' = x => req'[s].pc \in {"load", "discard"}
    BY <1>1, <1>3, <1>4, <2>1, <2>2
  <2> QED BY <1>1, <1>2, <1>3, <2>1, <2>2, <2>3 DEF CreatorOK, Early, Published, Rolling
<1>12. ASSUME NEW s \in Requests, s # r PROVE CreatorOK(s)'
  <2>1. CreatorOK(s) BY DEF IInv, CInv
  <2>2. \A t \in Requests :
          /\ Holds(t)' => Holds(t) /\ req'[t].original = req[t].original
          /\ Decider(t)' => req'[t].pc = "load" \/ (Decider(t) /\ Tx(t)' = Tx(t) /\ req'[t].pc = req[t].pc)
    BY <1>1, <1>3, <1>4
  <2> QED BY <1>2, <1>4, <1>12, <2>1, <2>2 DEF CreatorOK, Absent, Published
<1>13. DeciderOK(r)'
  BY <1>1, <1>2, <1>3, <1>6 DEF DeciderOK, Absent
<1>14. ASSUME NEW s \in Requests, s # r PROVE DeciderOK(s)'
  BY <1>2, <1>4, <1>14 DEF DeciderOK, Absent, IInv, CInv
<1>15. CInv'
  BY <1>7, <1>8, <1>9, <1>10, <1>11, <1>12, <1>13, <1>14 DEF CInv
<1>16. ASSUME NEW s \in Requests PROVE PubOK(s)'
  <2>1. CASE s = r BY <1>1, <2>1 DEF PubOK, Publishing
  <2>2. CASE s # r
    <3>1. req'[s] = req[s] /\ Tx(s)' = Tx(s) /\ PubOK(s)
      BY <1>4, <2>2 DEF IInv, PInv
    <3>2. /\ OldD(s)' = OldD(s) /\ NewD(s)' = NewD(s)
          /\ (Checked(s)' <=> Checked(s)) /\ NewRecord(s)' = NewRecord(s)
      BY <1>2, <3>1 DEF Tx, OldD, NewD, Checked, NewRecord
    <3> QED BY <1>2, <3>1, <3>2 DEF PubOK
  <2> QED BY <2>1, <2>2
<1>17. NoDesignLost' /\ BackupIsBase'
  BY <1>2 DEF IInv, PInv, NoDesignLost, BackupIsBase
<1> QED BY <1>0, <1>15, <1>16, <1>17 DEF IInv, PInv

\* A creator before its receipt, or after the failure of its candidate.
LEMMA QuietCreator ==
  ASSUME IInv, TInv', NEW r \in Requests, Quiet(r), req[r].pc \in Early,
         req'[r].pc \in Early \cup {"fail"}
  PROVE  CreatorOK(r)'
<1> SUFFICES ASSUME Creator(r)' PROVE CreatorOK(r)'
  BY DEF CreatorOK
<1>1. TxStep(r)
  BY QuietTx
<1>2. Creator(r) /\ Tx(r)' = Tx(r) /\ req'[r].op = req[r].op /\ CreatorOK(r)
  BY <1>1, NewNames DEF IInv, CInv
<1>3. \A s \in Requests :
        /\ Holds(s)' => Holds(s) /\ req'[s].original = req[s].original
        /\ Decider(s)' => Decider(s) /\ Tx(s)' = Tx(s) /\ req'[s].pc = req[s].pc
  <2>1. ~Decider(r)
    BY <1>2 DEF Creator, Decider
  <2> QED BY <1>1, <2>1, NewNames DEF Quiet
<1>4. ~Published(r) /\ ~Published(r)'
  BY DEF Early, Published, Rolling
<1> QED BY <1>2, <1>3, <1>4 DEF CreatorOK, Quiet, Early, Absent

LEMMA DecidersMine ==
  ASSUME IInv, NEW r \in Requests, Decider(r), req[r].pc \notin {"load", "discard"}
  PROVE  Mine(r)
BY DEF Mine, IInv, CInv, CreatorOK

LEMMA LoadKept ==
  ASSUME IInv, NEW r \in Requests, Load(r)
  PROVE  IInv'
<1>0. TInv /\ TInv'
  BY LoadTyped DEF IInv
<1>1. /\ UNCHANGED <<live, dir, shown, record, receipt, lock, closed>>
      /\ Requested(r) /\ req[r].pc = "load" /\ Tx(r) \in Transactions
  BY <1>0, LoadFacts, Busy DEF Load, files, history
<1>2. CASE req'[r] = NoRequest
  <2>1. Quiet(r)
    BY <1>1, <1>2, IdleNames DEF Quiet, SameName, IInv, CInv, ShownOK
  <2> QED BY <1>0, <1>2, <2>1, IdleNames, QuietKept
<1>3. CASE req'[r] # NoRequest
  <2>1. /\ Readable(r) /\ req'[r].pc = FirstStep(req[r].op) /\ SameTask(r)
        /\ req'[r].base = IF Decider(r) THEN receipt[Tx(r)].base ELSE live
        /\ req'[r].seen = receipt[Tx(r)].status
    BY <1>0, <1>3, LoadFacts
  <2>2. req[r].op \in Operations /\ Tx(r)' = Tx(r)
    BY <1>0, <1>1, <2>1, Busy DEF SameTask, Tx
  <2>3. req'[r].base \in shown
    <3>1. Decider(r) \/ live # None
      BY <2>1, <2>2 DEF Readable, Decider, Operations
    <3> QED BY <1>1, <2>1, <3>1 DEF IInv, CInv, ShownOK
  <2>4. req'[r].pc \notin Locked /\ req'[r].pc # "load"
    BY <2>1, <2>2 DEF FirstStep, Operations, Locked, Publishing
  <2>5. ASSUME Decider(r), ~Mine(r) PROVE req'[r].pc = "discard"
    <3>1. PICK s \in Requests : s # r /\ Creator(s) /\ Tx(s) = Tx(r)
      BY <2>5 DEF Mine
    <3>2. receipt[Tx(r)].status \in {"absent", "failed", "preparing"}
      BY <3>1 DEF IInv, CInv, CreatorOK, Absent
    <3>3. req[r].op = "discard"
      BY <2>1, <2>5, <3>2 DEF Readable, Decider
    <3> QED BY <2>1, <3>3 DEF FirstStep
  <2>6. Quiet(r)
    BY <1>1, <2>1, <2>3, <2>4, <2>5 DEF Quiet, SameName, Holds, Locked
  <2>7. CreatorOK(r)'
    <3>1. CASE Creator(r)
      <4>1. req'[r].pc \in Early
        BY <2>1, <3>1 DEF Creator, FirstStep, Early
      <4> QED BY <1>0, <1>1, <2>6, <4>1, QuietCreator DEF Early
    <3>2. CASE ~Creator(r)
      BY <2>1, <3>2 DEF CreatorOK, Creator, SameTask
    <3> QED BY <3>1, <3>2
  <2>8. DeciderOK(r)'
    BY <1>1, <2>1, <2>2 DEF DeciderOK, Decider, SameTask, Absent, Readable, IInv, CInv
  <2>9. PubOK(r)'
    BY <2>4 DEF PubOK, Locked
  <2> QED BY <1>0, <2>6, <2>7, <2>8, <2>9, QuietKept
<1> QED BY <1>2, <1>3

\* A request gives up, or ends with a record of the same design and decisions.
LEMMA EndKept ==
  ASSUME IInv, TInv', NEW r \in Requests, End(r),
         UNCHANGED <<live, receipt, dir, shown, closed>>,
         record'.active = record.active, record'.last = record.last,
         record'.vouched = record.vouched,
         lock \notin {None, r} => record' = record
  PROVE  IInv'
<1>1. Requested(r) /\ req'[r] = NoRequest
  BY EndFacts DEF IInv, TInv, Types
<1>2. Quiet(r)
  BY <1>1, IdleNames DEF Quiet, SameName, IInv, CInv, ShownOK
<1> QED BY <1>1, <1>2, IdleNames, QuietKept

\* A creator does the next step before its receipt.
LEMMA CreatorMoves ==
  ASSUME IInv, TInv', NEW r \in Requests, req[r].op = "repair",
         req[r].pc \in Early, req'[r].pc \in Early \cup {"fail"},
         Requested(r), SameTask(r), req'[r].base = req[r].base,
         UNCHANGED <<live, receipt, dir, shown, closed>>,
         record'.active = record.active, record'.last = record.last,
         record'.vouched = record.vouched,
         lock \notin {None, r} => record' = record
  PROVE  IInv'
<1>1. ~Decider(r) /\ ~Decider(r)' /\ req'[r].pc \notin Locked
  BY DEF Decider, SameTask, Early, Locked, Publishing
<1>2. Quiet(r)
  BY <1>1 DEF Quiet, SameName, IInv, CInv, ShownOK, Locked, Holds
<1>3. CreatorOK(r)' /\ DeciderOK(r)' /\ PubOK(r)'
  BY <1>1, <1>2, QuietCreator DEF DeciderOK, PubOK, Locked
<1> QED BY <1>2, <1>3, QuietKept

LEMMA RecordNames ==
  ASSUME NEW o \in Record, NEW s \in Statuses, NEW x \in Transactions \cup {None}, NEW m \in Nat
  PROVE  /\ LET o1 == [o EXCEPT !.status = s, !.revision = m] IN
            /\ o1.active = o.active /\ o1.last = o.last /\ o1.vouched = o.vouched
            /\ o1.status = s /\ o1.revision = m
         /\ LET o2 == [o EXCEPT !.revision = m] IN
            /\ o2.active = o.active /\ o2.last = o.last /\ o2.vouched = o.vouched
            /\ o2.status = o.status /\ o2.revision = m
         /\ LET o3 == [o EXCEPT !.status = s, !.active = x, !.revision = m] IN
            /\ o3.active = x /\ o3.last = o.last /\ o3.vouched = o.vouched
            /\ o3.status = s /\ o3.revision = m
BY DEF Record

\* A record moved on by one revision.
Marked(status) ==
  /\ record'.status = status /\ record'.revision = record.revision + 1
  /\ record'.active = record.active /\ record'.last = record.last
  /\ record'.vouched = record.vouched

LEMMA MarkedFacts ==
  ASSUME TInv
  PROVE  /\ \A s \in Statuses :
              record' = [record EXCEPT !.status = s, !.revision = @ + 1] => Marked(s)
         /\ record' = [record EXCEPT !.revision = @ + 1] => Marked(record.status)
<1>1. record \in Record /\ record.revision + 1 \in Nat
  BY DEF TInv, Types, Record
<1>2. ASSUME NEW s \in Statuses, record' = [record EXCEPT !.status = s, !.revision = @ + 1]
      PROVE  Marked(s)
  BY <1>1, <1>2, RecordNames DEF Marked
<1>3. ASSUME record' = [record EXCEPT !.revision = @ + 1]
      PROVE  Marked(record.status)
  <2>1. record.status \in Statuses /\ None \in Transactions \cup {None}
    BY <1>1 DEF Record
  <2> QED BY <1>1, <1>3, <2>1, RecordNames DEF Marked
<1> QED BY <1>2, <1>3

LEMMA StartRepairFacts ==
  ASSUME TInv, NEW r \in Requests, StartRepair(r)
  PROVE  /\ req[r].pc = "start" /\ req[r].op = "repair" /\ lock = None
         /\ UNCHANGED <<live, receipt, dir, shown, closed, torn, faults, lock>>
         /\ \/ /\ record.revision = req[r].revision /\ Marked("repairing")
               /\ Requested(r) /\ req'[r].pc = "revise" /\ SameTask(r) /\ SameMoves(r)
               /\ req'[r].revision = req[r].revision + 1
               /\ req'[r].base = req[r].base /\ req'[r].seen = req[r].seen
            \/ End(r) /\ record' = record /\ record.revision # req[r].revision
<1>1. /\ req[r].pc = "start" /\ req[r].op = "repair" /\ lock = None
      /\ UNCHANGED <<live, receipt, dir, shown, closed, torn, faults, lock>>
  BY Doing DEF StartRepair, At, Current, Stale, files, history
<1>2. CASE Stale(r) /\ End(r) /\ UNCHANGED record
  BY <1>1, <1>2 DEF Stale
<1>3. CASE /\ Current(r)
           /\ record' = [record EXCEPT !.status = "repairing", !.revision = @ + 1]
           /\ req' = [req EXCEPT ![r].pc = "revise", ![r].revision = @ + 1]
  BY <1>1, <1>3, ReviseFacts, MarkedFacts DEF TInv, Types, Steps, Statuses, Current
<1> QED BY <1>2, <1>3 DEF StartRepair

LEMMA StartRepairKept ==
  ASSUME IInv, NEW r \in Requests, StartRepair(r)
  PROVE  IInv'
<1>1. TInv /\ TInv'
  BY StartRepairTyped DEF IInv
<1> QED BY <1>1, StartRepairFacts, EndKept, CreatorMoves DEF Early, Marked

LEMMA ReviseRepairFacts ==
  ASSUME TInv, NEW r \in Requests, ReviseRepair(r)
  PROVE  /\ req[r].pc = "revise" /\ req[r].op = "repair"
         /\ UNCHANGED <<live, receipt, dir, shown, closed, torn, faults, lock>>
         /\ \/ /\ lock = None /\ record.revision = req[r].revision /\ Marked(record.status)
               /\ Requested(r) /\ req'[r].pc = "stage" /\ SameTask(r) /\ SameMoves(r)
               /\ req'[r].revision = req[r].revision + 1
               /\ req'[r].base = req[r].base /\ req'[r].seen = req[r].seen
            \/ End(r) /\ record' = record /\ lock = None /\ record.revision # req[r].revision
            \/ /\ record' = record /\ Requested(r) /\ req'[r].pc = "fail"
               /\ SameTask(r) /\ SameRead(r) /\ SameMoves(r)
<1>1. /\ req[r].pc = "revise" /\ req[r].op = "repair"
      /\ UNCHANGED <<live, receipt, dir, shown, closed, torn, faults, lock>>
  BY Doing DEF ReviseRepair, At, files, history
<1>2. CASE Stale(r) /\ End(r) /\ UNCHANGED record
  BY <1>1, <1>2 DEF Stale
<1>3. CASE /\ Current(r)
           /\ record' = [record EXCEPT !.revision = @ + 1]
           /\ req' = [req EXCEPT ![r].pc = "stage", ![r].revision = @ + 1]
  BY <1>1, <1>3, ReviseFacts, MarkedFacts DEF TInv, Types, Steps, Statuses, Current
<1>4. CASE Go(r, "fail") /\ UNCHANGED record
  BY <1>1, <1>4, GoFacts DEF TInv, Types, Steps
<1> QED BY <1>2, <1>3, <1>4 DEF ReviseRepair

LEMMA ReviseRepairKept ==
  ASSUME IInv, NEW r \in Requests, ReviseRepair(r)
  PROVE  IInv'
<1>1. TInv /\ TInv'
  BY ReviseRepairTyped DEF IInv
<1> QED BY <1>1, ReviseRepairFacts, EndKept, CreatorMoves DEF Early, Marked, SameRead

LEMMA RecordFailureFacts ==
  ASSUME TInv, NEW r \in Requests, RecordFailure(r)
  PROVE  /\ req[r].pc = "fail" /\ req[r].op = "repair" /\ lock = None /\ End(r)
         /\ UNCHANGED <<live, receipt, dir, shown, closed, torn, faults, lock>>
         /\ \/ record.revision = req[r].revision /\ Marked("repair_failed")
            \/ record.revision # req[r].revision /\ record' = record
BY Doing, MarkedFacts DEF RecordFailure, Statuses, Settled, At, Current, Stale, files, history

LEMMA RecordFailureKept ==
  ASSUME IInv, NEW r \in Requests, RecordFailure(r)
  PROVE  IInv'
<1>1. TInv /\ TInv'
  BY RecordFailureTyped DEF IInv
<1> QED BY <1>1, RecordFailureFacts, EndKept DEF Marked

LEMMA RecordEvidenceFacts ==
  ASSUME TInv, NEW r \in Requests, RecordEvidence(r)
  PROVE  /\ req[r].pc = "evidence" /\ req[r].op = "evidence" /\ lock = None /\ End(r)
         /\ UNCHANGED <<live, receipt, dir, shown, closed, torn, faults, lock>>
         /\ \/ record.revision = req[r].revision /\ Marked(record.status)
            \/ record' = record
BY Doing, MarkedFacts DEF RecordEvidence, At, Current, Stale, files, history

LEMMA RecordEvidenceKept ==
  ASSUME IInv, NEW r \in Requests, RecordEvidence(r)
  PROVE  IInv'
<1>1. TInv /\ TInv'
  BY RecordEvidenceTyped DEF IInv
<1> QED BY <1>1, RecordEvidenceFacts, EndKept DEF Marked

LEMMA RecoverFacts ==
  ASSUME TInv, Recover
  PROVE  /\ UNCHANGED <<live, receipt, dir, shown, closed, torn, faults, lock, req>>
         /\ lock = None /\ record.status = "repairing"
         /\ Marked(IF live # None THEN "generated" ELSE "interrupted")
BY MarkedFacts DEF Recover, Statuses, Settled, files, history

LEMMA RecoverKept ==
  ASSUME IInv, Recover
  PROVE  IInv'
<1>1. TInv /\ TInv'
  BY RecoverTyped DEF IInv
<1>2. /\ UNCHANGED <<live, receipt, dir, shown, closed, req>> /\ lock = None
      /\ record'.active = record.active /\ record'.last = record.last
      /\ record'.vouched = record.vouched
  BY <1>1, RecoverFacts DEF Marked
<1>3. OneCreator' /\ AbsentIsNew' /\ ActiveIsRepair'
  BY <1>2 DEF IInv, CInv, OneCreator, AbsentIsNew, ActiveIsRepair, Creator, Decider, Holds, Tx, Absent
<1>4. ShownOK'
  BY <1>2 DEF IInv, CInv, ShownOK, Holds, OldD, Tx
<1>5. \A r \in Requests : CreatorOK(r)' /\ DeciderOK(r)'
  BY <1>2 DEF IInv, CInv, CreatorOK, DeciderOK, Creator, Decider, Holds, Tx, Absent, Published
<1>6. \A r \in Requests : PubOK(r)'
  <2>1. \A r \in Requests : req[r].pc \notin Publishing
    BY <1>1, <1>2, DesignAssumption DEF TInv, Locked
  <2> QED BY <1>2, <2>1 DEF PubOK
<1>7. NoDesignLost' /\ BackupIsBase'
  BY <1>2 DEF IInv, PInv, NoDesignLost, BackupIsBase
<1> QED BY <1>1, <1>3, <1>4, <1>5, <1>6, <1>7 DEF IInv, CInv, PInv

-----------------------------------------------------------------------------
\* A candidate is staged.

Staged(r, status) ==
  /\ receipt'[Tx(r)].status = status /\ receipt'[Tx(r)].kind = req[r].op
  /\ receipt'[Tx(r)].base = req[r].base /\ receipt'[Tx(r)].prior = req[r].prior
  /\ \A y \in Transactions : y # Tx(r) => receipt'[y] = receipt[y] /\ dir'[y] = dir[y]
  /\ \A p \in Places : p # "staged" => dir'[Tx(r)][p] = dir[Tx(r)][p]
  /\ IF status = "preparing" THEN dir'[Tx(r)]["staged"] = Tx(r) ELSE dir' = dir

LEMMA StagedFacts ==
  ASSUME TInv, NEW r \in Requests, req[r].pc = "stage", NEW status \in {"preparing", "failed"},
         Written(r, status),
         IF status = "preparing" THEN dir' = [dir EXCEPT ![Tx(r)]["staged"] = Tx(r)]
                                 ELSE dir' = dir
  PROVE  Staged(r, status)
<1>1. Creator(r) /\ Tx(r) \in Transactions
  BY Doing, Busy
<1>2. /\ receipt'[Tx(r)].status = status /\ receipt'[Tx(r)].kind = req[r].op
      /\ receipt'[Tx(r)].base = req[r].base /\ receipt'[Tx(r)].prior = req[r].prior
      /\ \A y \in Transactions : y # Tx(r) => receipt'[y] = receipt[y]
  BY <1>1, WrittenFacts DEF TInv, Types, ReceiptStatuses
<1>3. CASE status = "preparing"
  <2>1. dir' = [dir EXCEPT ![Tx(r)]["staged"] = Tx(r)]
    BY <1>3
  <2>2. SetDir(Tx(r), "staged", Tx(r))
    BY <1>1, <2>1, StagedTyped
  <2>3. \A y \in Transactions : y # Tx(r) => dir'[y] = dir[y]
    BY <2>1 DEF TInv, Types
  <2> QED BY <1>1, <1>2, <1>3, <2>2, <2>3 DEF Staged, SetDir, Places
<1>4. CASE status = "failed"
  BY <1>2, <1>4 DEF Staged
<1> QED BY <1>3, <1>4

LEMMA StageRepairFacts ==
  ASSUME TInv, NEW r \in Requests, StageRepair(r)
  PROVE  /\ req[r].pc = "stage" /\ req[r].op = "repair" /\ Tx(r) \in Transactions
         /\ UNCHANGED <<live, shown, record, lock, closed, torn, faults>>
         /\ Requested(r) /\ SameTask(r) /\ SameRead(r) /\ SameMoves(r)
         /\ \/ Staged(r, "preparing") /\ req'[r].pc = "offer"
            \/ Staged(r, "failed") /\ req'[r].pc = "fail"
<1>1. req[r].pc = "stage" /\ req[r].op = "repair" /\ Tx(r) \in Transactions
  BY Busy DEF StageRepair, At
<1>2. \/ Staged(r, "preparing") /\ Go(r, "offer")
      \/ Staged(r, "failed") /\ Go(r, "fail")
  BY <1>1, StagedFacts DEF StageRepair
<1>3. req \in [Requests -> Request] /\ "offer" \in Steps /\ "fail" \in Steps
  BY DEF TInv, Types, Steps
<1>4. CASE Staged(r, "preparing") /\ Go(r, "offer")
  BY <1>1, <1>3, <1>4, GoFacts DEF StageRepair, history
<1>5. CASE Staged(r, "failed") /\ Go(r, "fail")
  BY <1>1, <1>3, <1>5, GoFacts DEF StageRepair, history
<1> QED BY <1>2, <1>4, <1>5

LEMMA StageOperationFacts ==
  ASSUME TInv, NEW r \in Requests, StageOperation(r)
  PROVE  /\ req[r].pc = "stage" /\ req[r].op = "operation" /\ Tx(r) \in Transactions
         /\ UNCHANGED <<live, shown, record, lock, closed, torn, faults>>
         /\ \/ /\ Staged(r, "preparing") /\ req'[r].pc = "lock"
               /\ Requested(r) /\ SameTask(r) /\ SameRead(r) /\ SameMoves(r)
            \/ Staged(r, "failed") /\ End(r)
            \/ UNCHANGED <<receipt, dir>> /\ End(r)
<1>1. /\ req[r].pc = "stage" /\ req[r].op = "operation" /\ Tx(r) \in Transactions
      /\ UNCHANGED <<live, shown, record, lock, closed, torn, faults>>
  BY Busy DEF StageOperation, At, history
<1>2. \/ Staged(r, "preparing") /\ Go(r, "lock")
      \/ Staged(r, "failed") /\ End(r)
      \/ UNCHANGED <<receipt, dir>> /\ End(r)
  BY <1>1, StagedFacts DEF StageOperation
<1>3. req \in [Requests -> Request] /\ "lock" \in Steps
  BY DEF TInv, Types, Steps
<1>4. Go(r, "lock") => req'[r].pc = "lock" /\ Requested(r) /\ SameTask(r) /\ SameRead(r) /\ SameMoves(r)
  BY <1>3, GoFacts
<1> QED BY <1>1, <1>2, <1>4

LEMMA StagedKept ==
  ASSUME IInv, TInv', NEW r \in Requests, req[r].pc = "stage",
         UNCHANGED <<live, shown, record, lock, closed>>, Requested(r),
         NEW status \in {"preparing", "failed"}, Staged(r, status),
         \/ req'[r] = NoRequest
         \/ /\ SameTask(r) /\ SameRead(r)
            /\ \/ status = "preparing" /\ req'[r].pc \in {"offer", "lock"}
               \/ status = "failed" /\ req'[r].pc = "fail"
  PROVE  IInv'
<1>1. /\ Tx(r) \in Transactions /\ Creator(r) /\ ~Decider(r) /\ CreatorOK(r)
      /\ Absent(Tx(r)) /\ receipt'[Tx(r)].status # "absent" /\ Mine(r)
  <2>1. Tx(r) \in Transactions /\ Creator(r) /\ ~Decider(r) /\ CreatorOK(r)
    BY Busy, Doing DEF IInv, CInv, Creator, Decider
  <2>2. Absent(Tx(r))
    BY <2>1 DEF CreatorOK, Early
  <2>3. receipt'[Tx(r)].status # "absent"
    BY DEF Staged
  <2>4. Mine(r)
    BY <2>1 DEF Mine, IInv, CInv, OneCreator
  <2> QED BY <2>1, <2>2, <2>3, <2>4
<1>2. ~Holds(r)' /\ req'[r].pc \notin Publishing /\ ~Decider(r)'
  BY <1>1, IdleNames DEF Holds, Publishing, Decider, SameTask
<1>3. TxStep(r)
  <2>1. \A y \in Transactions :
          /\ ~Absent(y) => /\ ~Absent(y)'
                           /\ receipt'[y].kind = receipt[y].kind
                           /\ receipt'[y].base = receipt[y].base
          /\ Untouched(r, y) \/ (y = Tx(r) /\ ~Absent(y)' /\ Mine(r))
    BY <1>1 DEF Staged, Untouched, Absent
  <2>2. ShownStep(r)
    BY <1>1, <1>2, IdleNames DEF ShownStep, IInv, CInv, ShownOK, Staged, SameRead
  <2> QED BY <1>1, <1>2, <2>1, <2>2 DEF TxStep, SameName
<1>4. CreatorOK(r)'
  <2> SUFFICES ASSUME Creator(r)' PROVE CreatorOK(r)'
    BY DEF CreatorOK
  <2>1. /\ SameTask(r) /\ SameRead(r) /\ Tx(r)' = Tx(r)
        /\ \/ status = "preparing" /\ req'[r].pc \in {"offer", "lock"}
           \/ status = "failed" /\ req'[r].pc = "fail"
    BY IdleNames DEF SameTask, Tx
  <2>2. ~Published(r) /\ ~Published(r)'
    BY <2>1 DEF Published, Rolling
  <2>3. \A s \in Requests :
          /\ Holds(s)' => Holds(s) /\ req'[s].original = req[s].original
          /\ Decider(s)' => Decider(s) /\ Tx(s)' = Tx(s) /\ req'[s].pc = req[s].pc
    BY <1>1, <1>2, <1>3, NewNames
  <2>4. \A p \in Places \ {"staged"} : dir'[Tx(r)][p] = None
    BY <1>1 DEF Staged, IInv, CInv, AbsentIsNew
  <2>5. req'[r].op = "repair" \/ ~Published(r)' => Tx(r) \notin shown \cup {record.last}
    BY <1>1, <2>2 DEF CreatorOK
  <2>6. Tx(r) \notin closed /\ record.active # Tx(r)
    BY <1>1 DEF CreatorOK
  <2>7. \A s \in Requests :
         /\ Holds(s)' => Tx(r) \notin {req'[s].original.active, req'[s].original.last}
         /\ Decider(s)' /\ Tx(s)' = Tx(r) => req'[s].pc \in {"load", "discard"}
    BY <1>1, <2>3 DEF CreatorOK
  <2>8. /\ receipt'[Tx(r)].status = status /\ receipt'[Tx(r)].base = req'[r].base
        /\ receipt'[Tx(r)].kind = req'[r].op
    BY <2>1 DEF Staged, SameTask, SameRead
  <2>9. /\ req'[r].pc \notin Early
        /\ req'[r].pc \notin {"offerReceipt", "offerRoll"}
        /\ req'[r].pc = "fail" => status = "failed"
        /\ req'[r].pc # "fail" => status = "preparing"
    BY <2>1 DEF Early
  <2>10. record' = record /\ closed' = closed /\ shown' = shown
    OBVIOUS
  <2> QED BY <2>1, <2>4, <2>5, <2>6, <2>7, <2>8, <2>9, <2>10 DEF CreatorOK
<1>5. DeciderOK(r)' /\ PubOK(r)'
  BY <1>2 DEF DeciderOK, PubOK
<1>6. CInv'
  BY <1>3, <1>4, <1>5, NamesKept
<1>7. \A y \in Transactions : ~Absent(y) => receipt'[y] = receipt[y] /\ dir'[y] = dir[y]
  BY <1>1 DEF Staged
<1>8. \A s \in Requests : PubOK(s)'
  BY <1>3, <1>5, <1>7, PublicationsKept
<1>9. NoDesignLost' /\ BackupIsBase'
  <2>1. \A y \in Transactions : Absent(y) => dir'[y]["before"] = None
    BY <1>1 DEF Staged, IInv, CInv, AbsentIsNew, Places
  <2> QED BY <1>7, <2>1, DesignsKept
<1> QED BY <1>6, <1>8, <1>9 DEF IInv, PInv

LEMMA StageRepairKept ==
  ASSUME IInv, NEW r \in Requests, StageRepair(r)
  PROVE  IInv'
<1>1. TInv /\ TInv'
  BY StageRepairTyped DEF IInv
<1> QED BY <1>1, StageRepairFacts, StagedKept

LEMMA StageOperationKept ==
  ASSUME IInv, NEW r \in Requests, StageOperation(r)
  PROVE  IInv'
<1>1. TInv /\ TInv'
  BY StageOperationTyped DEF IInv
<1>2. End(r) => Requested(r) /\ req'[r] = NoRequest
  BY <1>1, EndFacts DEF TInv, Types
<1> QED BY <1>1, <1>2, StageOperationFacts, StagedKept, EndKept

-----------------------------------------------------------------------------
\* What the steps under the lock do.

Noted(status, x) ==
  /\ record'.status = status /\ record'.revision = record.revision + 1
  /\ record'.active = x /\ record'.last = record.last
  /\ record'.vouched = record.vouched

LEMMA NotedFacts ==
  ASSUME TInv, NEW s \in Statuses, NEW x \in Transactions \cup {None},
         record' = [record EXCEPT !.status = s, !.active = x, !.revision = @ + 1]
  PROVE  Noted(s, x)
<1>1. record \in Record /\ record.revision + 1 \in Nat
  BY DEF TInv, Types, Record
<1> QED BY <1>1, RecordNames DEF Noted

\* The status of a receipt is written and nothing else of it.
Receipted(x, status) ==
  /\ receipt'[x].status = status
  /\ \A y \in Transactions :
       /\ y # x => receipt'[y] = receipt[y]
       /\ receipt'[y].kind = receipt[y].kind /\ receipt'[y].base = receipt[y].base
       /\ receipt'[y].prior = receipt[y].prior

LEMMA ReceiptedFacts ==
  ASSUME TInv, NEW x \in Transactions, NEW status \in ReceiptStatuses, SetReceipt(x, status)
  PROVE  Receipted(x, status)
BY SetReceiptFacts DEF TInv, Types, Receipted

LEMMA OfferEffects ==
  ASSUME TInv, NEW r \in Requests, Offer(r)
  PROVE  /\ req[r].pc = "offer" /\ req[r].op = "repair" /\ Tx(r) \in Transactions /\ lock = None
         /\ UNCHANGED <<live, dir, shown, receipt, closed, torn, faults>>
         /\ \/ /\ record.revision = req[r].revision /\ live = req[r].base /\ lock' = r
               /\ Requested(r) /\ req'[r].pc = "offerReceipt" /\ SameTask(r) /\ SameFlags(r)
               /\ req'[r].revision = req[r].revision /\ req'[r].base = req[r].base
               /\ req'[r].original = record
               /\ \/ req'[r].seen = "ready" /\ Noted("change_ready", Tx(r))
                  \/ req'[r].seen = "rejected" /\ Marked("repair_failed")
            \/ /\ record.revision # req[r].revision \/ live # req[r].base
               /\ End(r) /\ record' = record /\ lock' = None
<1>1. /\ req[r].pc = "offer" /\ req[r].op = "repair" /\ Tx(r) \in Transactions /\ lock = None
      /\ UNCHANGED <<live, dir, shown, receipt, closed, torn, faults>>
  BY Busy, Doing DEF Offer, At, Current, Stale, files, history
<1>2. CASE End(r) /\ UNCHANGED <<record, lock>> /\ (Stale(r) \/ live # req[r].base)
  BY <1>1, <1>2 DEF Stale
<1>3. ASSUME NEW final \in {"ready", "rejected"}, Current(r), live = req[r].base, lock' = r,
             record' = [record EXCEPT
               !.status = IF final = "ready" THEN "change_ready" ELSE "repair_failed",
               !.active = IF final = "ready" THEN Tx(r) ELSE @,
               !.revision = @ + 1],
             req' = [req EXCEPT ![r].pc = "offerReceipt", ![r].seen = final,
                                ![r].original = record]
      PROVE  /\ record.revision = req[r].revision /\ live = req[r].base /\ lock' = r
             /\ Requested(r) /\ req'[r].pc = "offerReceipt" /\ SameTask(r) /\ SameFlags(r)
             /\ req'[r].revision = req[r].revision /\ req'[r].base = req[r].base
             /\ req'[r].original = record
             /\ \/ req'[r].seen = "ready" /\ Noted("change_ready", Tx(r))
                \/ req'[r].seen = "rejected" /\ Marked("repair_failed")
  <2> DEFINE s == IF final = "ready" THEN "change_ready" ELSE "repair_failed"
             x == IF final = "ready" THEN Tx(r) ELSE record.active
  <2>1. s \in Statuses /\ x \in Transactions \cup {None}
    BY <1>1 DEF TInv, Types, Record, Statuses, Settled
  <2>2. record' = [record EXCEPT !.status = s, !.active = x, !.revision = @ + 1]
    BY <1>3
  <2>3. Noted(s, x)
    <3> HIDE DEF s, x
    <3> QED BY <2>1, <2>2, NotedFacts
  <2>4. /\ final = "ready" => Noted("change_ready", Tx(r))
        /\ final = "rejected" => Marked("repair_failed")
    BY <2>3 DEF Noted, Marked
  <2>5. /\ Requested(r) /\ req'[r].pc = "offerReceipt" /\ SameTask(r) /\ SameFlags(r)
        /\ req'[r].revision = req[r].revision /\ req'[r].base = req[r].base
        /\ req'[r].seen = final /\ req'[r].original = record
    BY <1>3, OfferFacts
  <2> QED BY <1>3, <2>4, <2>5 DEF Current
<1> QED BY <1>1, <1>2, <1>3 DEF Offer

LEMMA OfferReceiptEffects ==
  ASSUME TInv, NEW r \in Requests, OfferReceipt(r)
  PROVE  /\ req[r].pc = "offerReceipt" /\ req[r].op = "repair" /\ Tx(r) \in Transactions
         /\ lock = r /\ UNCHANGED <<live, dir, shown, record, closed, torn>>
         /\ \/ /\ Receipted(Tx(r), req[r].seen) /\ lock' = None /\ End(r) /\ faults' = faults
            \/ /\ Fault /\ receipt' = receipt /\ lock' = lock /\ Requested(r)
               /\ req'[r].pc = "offerRoll" /\ SameTask(r) /\ SameRead(r) /\ SameMoves(r)
<1>1. /\ req[r].pc = "offerReceipt" /\ req[r].op = "repair" /\ Tx(r) \in Transactions
      /\ lock = r /\ UNCHANGED <<live, dir, shown, record, closed, torn>>
  BY Busy, Doing, Holder DEF OfferReceipt, At, Locked, files, history
<1>2. req[r].seen \in ReceiptStatuses /\ req \in [Requests -> Request] /\ "offerRoll" \in Steps
  BY DEF TInv, Types, Request, Steps
<1> QED BY <1>1, <1>2, ReceiptedFacts, GoFacts DEF OfferReceipt

LEMMA OfferRollbackEffects ==
  ASSUME TInv, NEW r \in Requests, OfferRollback(r)
  PROVE  /\ req[r].pc = "offerRoll" /\ req[r].op = "repair" /\ Tx(r) \in Transactions
         /\ lock = r /\ lock' = None /\ End(r)
         /\ UNCHANGED <<live, dir, shown, closed, torn>>
         /\ \/ record' = req[r].original /\ UNCHANGED <<receipt, faults>>
            \/ /\ Fault /\ record' \in {record, req[r].original}
               /\ Receipted(Tx(r), "rollback_incomplete")
<1>1. /\ req[r].pc = "offerRoll" /\ req[r].op = "repair" /\ Tx(r) \in Transactions /\ lock = r
      /\ lock' = None /\ End(r) /\ UNCHANGED <<live, dir, shown, closed, torn>>
  BY Busy, Doing, Holder DEF OfferRollback, At, Locked, files, history
<1> QED BY <1>1, ReceiptedFacts DEF OfferRollback, ReceiptStatuses

LEMMA DiscardEffects ==
  ASSUME TInv, NEW r \in Requests, Discard(r)
  PROVE  /\ req[r].pc = "discard" /\ req[r].op = "discard" /\ Tx(r) \in Transactions
         /\ lock = None /\ UNCHANGED <<live, dir, shown, record, closed, torn>>
         /\ \/ /\ record.revision = req[r].revision /\ record.active = Tx(r)
               /\ Receipted(Tx(r), "discarded") /\ lock' = r /\ Requested(r)
               /\ req'[r].pc = "discardRecord" /\ SameTask(r) /\ SameRead(r) /\ SameMoves(r)
               /\ faults' = faults
            \/ End(r) /\ receipt' = receipt /\ lock' = lock /\ (faults' = faults \/ Fault)
<1>1. /\ req[r].pc = "discard" /\ req[r].op = "discard" /\ Tx(r) \in Transactions
      /\ lock = None /\ UNCHANGED <<live, dir, shown, record, closed, torn>>
  BY Busy, Doing DEF Discard, At, Current, Stale, files, history
<1>2. "discarded" \in ReceiptStatuses /\ req \in [Requests -> Request] /\ "discardRecord" \in Steps
  BY DEF TInv, Types, ReceiptStatuses, Steps
<1> QED BY <1>1, <1>2, ReceiptedFacts, GoFacts DEF Discard, Current

LEMMA DiscardRecordEffects ==
  ASSUME TInv, NEW r \in Requests, DiscardRecord(r)
  PROVE  /\ req[r].pc = "discardRecord" /\ req[r].op = "discard" /\ Tx(r) \in Transactions
         /\ lock = r /\ lock' = None /\ End(r)
         /\ UNCHANGED <<live, dir, shown, receipt, torn>>
         /\ \/ /\ Noted(receipt[Tx(r)].prior, None) /\ closed' = closed \cup {Tx(r)}
               /\ faults' = faults
            \/ Fault /\ UNCHANGED <<record, closed>>
<1>1. /\ req[r].pc = "discardRecord" /\ req[r].op = "discard" /\ Tx(r) \in Transactions
      /\ lock = r /\ lock' = None /\ End(r) /\ UNCHANGED <<live, dir, shown, receipt, torn>>
  BY Busy, Doing, Holder DEF DiscardRecord, At, Locked, files
<1>2. receipt[Tx(r)].prior \in Statuses
  BY <1>1 DEF TInv, Types, Statuses
<1> QED BY <1>1, <1>2, NotedFacts DEF DiscardRecord

LEMMA TakeLockEffects ==
  ASSUME TInv, NEW r \in Requests, TakeLock(r)
  PROVE  /\ req[r].pc = "lock" /\ req[r].op \in {"operation", "apply", "undo"}
         /\ Tx(r) \in Transactions /\ lock = None /\ lock' = r
         /\ UNCHANGED <<live, dir, shown, record, closed, torn, faults>>
         /\ Requested(r) /\ SameTask(r) /\ SameRead(r) /\ req'[r].original = record
         /\ ~req'[r].out /\ ~req'[r].in /\ ~req'[r].bad
         /\ \/ /\ Publishable(r) /\ req'[r].pc = "moveAway"
               /\ \/ req[r].op = "operation" /\ receipt' = receipt
                  \/ req[r].op # "operation" /\ Receipted(Tx(r), req[r].seen)
            \/ /\ ~Publishable(r) /\ req'[r].pc = "rollOut" /\ receipt' = receipt
<1>1. /\ req[r].pc = "lock" /\ lock = None /\ lock' = r
      /\ UNCHANGED <<live, dir, shown, record, closed, torn, faults>>
  BY DEF TakeLock, At, files, history
<1>2. /\ req[r].op \in {"operation", "apply", "undo"} /\ Tx(r) \in Transactions
      /\ req[r].seen \in ReceiptStatuses /\ ~req[r].out /\ ~req[r].in /\ ~req[r].bad
  BY <1>1, Publisher, Busy DEF Publishing
<1>3. record \in Record /\ req \in [Requests -> Request] /\ "moveAway" \in Steps /\ "rollOut" \in Steps
  BY DEF TInv, Types, Steps
<1>4. CASE Publishable(r)
  <2>1. /\ Requested(r) /\ req'[r].pc = "moveAway" /\ SameTask(r) /\ SameRead(r)
        /\ req'[r].original = record /\ SameFlags(r)
    BY <1>3, <1>4, CopyFacts DEF TakeLock
  <2>2. \/ req[r].op = "operation" /\ receipt' = receipt
        \/ req[r].op # "operation" /\ Receipted(Tx(r), req[r].seen)
    BY <1>2, <1>4, ReceiptedFacts DEF TakeLock
  <2> QED BY <1>1, <1>2, <1>4, <2>1, <2>2 DEF SameFlags
<1>5. CASE ~Publishable(r)
  <2>1. /\ Requested(r) /\ req'[r].pc = "rollOut" /\ SameTask(r) /\ SameRead(r)
        /\ req'[r].original = record /\ SameFlags(r)
    BY <1>3, <1>5, CopyFacts DEF TakeLock
  <2> QED BY <1>1, <1>2, <1>5, <2>1 DEF SameFlags, TakeLock
<1> QED BY <1>4, <1>5

\* A fault before the receipt starts the rollback.
GivesUp(r) ==
  /\ Fault /\ Requested(r) /\ req'[r].pc = "rollOut"
  /\ SameTask(r) /\ SameRead(r) /\ SameMoves(r)

LEMMA GivesUpFacts ==
  ASSUME TInv, NEW r \in Requests, Rollback(r)
  PROVE  GivesUp(r)
BY GoFacts DEF GivesUp, Rollback, TInv, Types, Steps

\* A request goes on with its publication.
GoesOn(r, pc) ==
  /\ Requested(r) /\ req'[r].pc = pc /\ SameTask(r) /\ SameRead(r)
  /\ req'[r].original = req[r].original

LEMMA MoveAwayEffects ==
  ASSUME TInv, NEW r \in Requests, MoveAway(r)
  PROVE  /\ req[r].pc = "moveAway" /\ req[r].op \in {"operation", "apply", "undo"}
         /\ Tx(r) \in Transactions /\ lock = r
         /\ UNCHANGED <<shown, record, receipt, lock, closed, torn>>
         /\ \/ /\ SetDir(Tx(r), Keep(req[r].op), live) /\ live' = None
               /\ GoesOn(r, "moveIn") /\ req'[r].out /\ req'[r].in = req[r].in
               /\ req'[r].bad = req[r].bad /\ faults' = faults
            \/ GivesUp(r) /\ UNCHANGED <<live, dir>>
<1>1. /\ req[r].pc = "moveAway" /\ req[r].pc \in Publishing
      /\ UNCHANGED <<shown, record, receipt, lock, closed, torn>>
  BY DEF MoveAway, At, Publishing, history
<1>2. /\ req[r].op \in {"operation", "apply", "undo"} /\ Tx(r) \in Transactions
      /\ Keep(req[r].op) \in Places /\ lock = r
  BY <1>1, Publisher
<1>3. CASE Rollback(r) /\ UNCHANGED <<live, dir>>
  BY <1>1, <1>2, <1>3, GivesUpFacts
<1>4. CASE /\ dir' = [dir EXCEPT ![Tx(r)][Keep(req[r].op)] = live] /\ live' = None
           /\ req' = [req EXCEPT ![r].pc = "moveIn", ![r].out = TRUE] /\ UNCHANGED faults
  <2>1. SetDir(Tx(r), Keep(req[r].op), live)
    BY <1>2, <1>4, DirFacts DEF TInv, Types
  <2>2. GoesOn(r, "moveIn") /\ req'[r].out /\ req'[r].in = req[r].in /\ req'[r].bad = req[r].bad
    BY <1>4, OutFacts DEF TInv, Types, Steps, GoesOn
  <2> QED BY <1>1, <1>2, <1>4, <2>1, <2>2
<1> QED BY <1>3, <1>4 DEF MoveAway

LEMMA MoveInEffects ==
  ASSUME TInv, NEW r \in Requests, MoveIn(r)
  PROVE  /\ req[r].pc = "moveIn" /\ req[r].op \in {"operation", "apply", "undo"}
         /\ Tx(r) \in Transactions /\ lock = r
         /\ UNCHANGED <<record, receipt, lock, closed, torn>>
         /\ \/ /\ live' = dir[Tx(r)][Source(req[r].op)] /\ shown' = shown \cup {live'}
               /\ SetDir(Tx(r), Source(req[r].op), None)
               /\ GoesOn(r, "record") /\ req'[r].in /\ req'[r].out = req[r].out
               /\ req'[r].bad = req[r].bad /\ faults' = faults
            \/ GivesUp(r) /\ UNCHANGED <<live, dir, shown>>
<1>1. /\ req[r].pc = "moveIn" /\ req[r].pc \in Publishing
      /\ UNCHANGED <<record, receipt, lock, closed, torn>>
  BY DEF MoveIn, At, Publishing, history
<1>2. /\ req[r].op \in {"operation", "apply", "undo"} /\ Tx(r) \in Transactions
      /\ Source(req[r].op) \in Places /\ lock = r
  BY <1>1, Publisher
<1>3. CASE Rollback(r) /\ UNCHANGED <<live, dir, shown>>
  BY <1>1, <1>2, <1>3, GivesUpFacts
<1>4. CASE /\ live' = dir[Tx(r)][Source(req[r].op)] /\ shown' = shown \cup {live'}
           /\ dir' = [dir EXCEPT ![Tx(r)][Source(req[r].op)] = None]
           /\ req' = [req EXCEPT ![r].pc = "record", ![r].in = TRUE] /\ UNCHANGED faults
  <2>1. SetDir(Tx(r), Source(req[r].op), None)
    BY <1>2, <1>4, DirFacts DEF TInv, Types
  <2>2. GoesOn(r, "record") /\ req'[r].in /\ req'[r].out = req[r].out /\ req'[r].bad = req[r].bad
    BY <1>4, InFacts DEF TInv, Types, Steps, GoesOn
  <2> QED BY <1>1, <1>2, <1>4, <2>1, <2>2
<1> QED BY <1>3, <1>4 DEF MoveIn

LEMMA WriteRecordEffects ==
  ASSUME TInv, NEW r \in Requests, WriteRecord(r)
  PROVE  /\ req[r].pc = "record" /\ req[r].op \in {"operation", "apply", "undo"}
         /\ Tx(r) \in Transactions /\ lock = r
         /\ UNCHANGED <<live, dir, shown, receipt, lock, closed, torn>>
         /\ \/ /\ record' = [status   |-> IF req[r].op = "undo" THEN receipt[Tx(r)].prior
                                          ELSE "generated",
                             revision |-> record.revision + 1,
                             active   |-> IF req[r].op = "apply" THEN None ELSE record.active,
                             last     |-> IF req[r].op = "undo" THEN None ELSE Tx(r),
                             vouched  |-> live]
               /\ GoesOn(r, "receipt") /\ SameFlags(r) /\ faults' = faults
            \/ GivesUp(r) /\ record' = record
<1>1. /\ req[r].pc = "record" /\ req[r].pc \in Publishing
      /\ UNCHANGED <<live, dir, shown, receipt, lock, closed, torn>>
  BY DEF WriteRecord, At, Publishing, files, history
<1>2. /\ req[r].op \in {"operation", "apply", "undo"} /\ Tx(r) \in Transactions /\ lock = r
  BY <1>1, Publisher
<1>3. CASE Rollback(r) /\ UNCHANGED record
  BY <1>1, <1>2, <1>3, GivesUpFacts
<1>4. CASE ~(Rollback(r) /\ UNCHANGED record)
  <2>1. GoesOn(r, "receipt") /\ SameFlags(r) /\ faults' = faults
    BY <1>4, GoFacts DEF WriteRecord, TInv, Types, Steps, GoesOn, SameMoves
  <2>2. record' = [status   |-> IF req[r].op = "undo" THEN receipt[Tx(r)].prior
                                ELSE "generated",
                   revision |-> record.revision + 1,
                   active   |-> IF req[r].op = "apply" THEN None ELSE record.active,
                   last     |-> IF req[r].op = "undo" THEN None ELSE Tx(r),
                   vouched  |-> live]
    BY <1>4 DEF WriteRecord
  <2> QED BY <1>1, <1>2, <2>1, <2>2
<1> QED BY <1>3, <1>4

LEMMA WriteReceiptEffects ==
  ASSUME TInv, NEW r \in Requests, WriteReceipt(r)
  PROVE  /\ req[r].pc = "receipt" /\ req[r].op \in {"operation", "apply", "undo"}
         /\ Tx(r) \in Transactions /\ lock = r
         /\ UNCHANGED <<live, dir, shown, record, torn>>
         /\ \/ /\ Receipted(Tx(r), IF req[r].op = "undo" THEN "undone" ELSE "applied")
               /\ closed' = IF req[r].op = "undo" THEN closed \cup {Tx(r)} ELSE closed
               /\ lock' = None /\ End(r) /\ faults' = faults
            \/ GivesUp(r) /\ UNCHANGED <<receipt, lock, closed>>
<1>1. /\ req[r].pc = "receipt" /\ req[r].pc \in Publishing
      /\ UNCHANGED <<live, dir, shown, record, torn>>
  BY DEF WriteReceipt, At, Publishing, files
<1>2. /\ req[r].op \in {"operation", "apply", "undo"} /\ Tx(r) \in Transactions /\ lock = r
  BY <1>1, Publisher
<1>3. CASE Rollback(r) /\ UNCHANGED <<receipt, lock, closed>>
  BY <1>1, <1>2, <1>3, GivesUpFacts
<1>4. CASE ~(Rollback(r) /\ UNCHANGED <<receipt, lock, closed>>)
  <2>1. /\ SetReceipt(Tx(r), IF req[r].op = "undo" THEN "undone" ELSE "applied")
        /\ closed' = IF req[r].op = "undo" THEN closed \cup {Tx(r)} ELSE closed
        /\ lock' = None /\ End(r) /\ faults' = faults
    BY <1>4 DEF WriteReceipt
  <2>2. (IF req[r].op = "undo" THEN "undone" ELSE "applied") \in ReceiptStatuses
    BY DEF ReceiptStatuses
  <2> QED BY <1>1, <1>2, <2>1, <2>2, ReceiptedFacts
<1> QED BY <1>3, <1>4

\* What RollOut moves.
Moved(r) == IF req[r].op = "operation" THEN req[r].out /\ live # None ELSE req[r].in

LEMMA RollOutEffects ==
  ASSUME TInv, NEW r \in Requests, RollOut(r)
  PROVE  /\ req[r].pc = "rollOut" /\ req[r].op \in {"operation", "apply", "undo"}
         /\ Tx(r) \in Transactions /\ lock = r
         /\ UNCHANGED <<shown, record, receipt, lock, closed, torn>>
         /\ req'[r].out = req[r].out /\ req'[r].in = req[r].in
         /\ \/ /\ Moved(r) /\ dir[Tx(r)][Back(req[r].op)] = None
               /\ SetDir(Tx(r), Back(req[r].op), live) /\ live' = None
               /\ GoesOn(r, "rollIn") /\ req'[r].bad = req[r].bad /\ faults' = faults
            \/ /\ ~Moved(r) /\ UNCHANGED <<live, dir>>
               /\ GoesOn(r, "rollIn") /\ req'[r].bad = req[r].bad /\ faults' = faults
            \/ /\ Moved(r) /\ Fault /\ UNCHANGED <<live, dir>> /\ req'[r].bad
               /\ GoesOn(r, IF req[r].op = "operation" THEN "rollRecord" ELSE "rollIn")
<1>1. /\ req[r].pc = "rollOut" /\ req[r].pc \in Publishing
      /\ UNCHANGED <<shown, record, receipt, lock, closed, torn>>
  BY DEF RollOut, At, Publishing, history
<1>2. /\ req[r].op \in {"operation", "apply", "undo"} /\ Tx(r) \in Transactions
      /\ Back(req[r].op) \in Places /\ lock = r
  BY <1>1, Publisher
<1>3. Go(r, "rollIn") => GoesOn(r, "rollIn") /\ SameFlags(r)
  BY GoFacts DEF TInv, Types, Steps, GoesOn, SameMoves
<1>4. CASE /\ Moved(r) /\ dir[Tx(r)][Back(req[r].op)] = None
           /\ dir' = [dir EXCEPT ![Tx(r)][Back(req[r].op)] = live] /\ live' = None
           /\ Go(r, "rollIn") /\ UNCHANGED faults
  <2>1. SetDir(Tx(r), Back(req[r].op), live)
    BY <1>2, <1>4, DirFacts DEF TInv, Types
  <2> QED BY <1>1, <1>2, <1>3, <1>4, <2>1 DEF SameFlags
<1>5. CASE ~Moved(r) /\ Go(r, "rollIn") /\ UNCHANGED <<live, dir, faults>>
  BY <1>1, <1>2, <1>3, <1>5 DEF SameFlags
<1>6. CASE /\ Moved(r) /\ Fault /\ UNCHANGED <<live, dir>>
           /\ Failed(r, IF req[r].op = "operation" THEN "rollRecord" ELSE "rollIn")
  <2> DEFINE pc == IF req[r].op = "operation" THEN "rollRecord" ELSE "rollIn"
  <2>1. pc \in Steps
    BY DEF Steps
  <2>2. GoesOn(r, pc) /\ req'[r].bad /\ req'[r].out = req[r].out /\ req'[r].in = req[r].in
    <3>1. Failed(r, pc) /\ req \in [Requests -> Request]
      BY <1>6 DEF TInv, Types
    <3> HIDE DEF pc
    <3> QED BY <2>1, <3>1, FailedFacts DEF GoesOn
  <2> QED BY <1>1, <1>2, <1>6, <2>2
<1> QED BY <1>4, <1>5, <1>6 DEF RollOut, Moved

LEMMA RollInEffects ==
  ASSUME TInv, NEW r \in Requests, RollIn(r)
  PROVE  /\ req[r].pc = "rollIn" /\ req[r].op \in {"operation", "apply", "undo"}
         /\ Tx(r) \in Transactions /\ lock = r
         /\ UNCHANGED <<shown, record, receipt, lock, closed, torn>>
         /\ GoesOn(r, "rollRecord") /\ req'[r].out = req[r].out /\ req'[r].in = req[r].in
         /\ \/ /\ req[r].out /\ live = None /\ live' = dir[Tx(r)][Keep(req[r].op)]
               /\ SetDir(Tx(r), Keep(req[r].op), None)
               /\ req'[r].bad = req[r].bad /\ faults' = faults
            \/ /\ req[r].out /\ live # None /\ UNCHANGED <<live, dir, faults>> /\ req'[r].bad
            \/ /\ ~req[r].out /\ UNCHANGED <<live, dir, faults>> /\ req'[r].bad = req[r].bad
            \/ /\ req[r].out /\ Fault /\ UNCHANGED <<live, dir>> /\ req'[r].bad
<1>1. /\ req[r].pc = "rollIn" /\ req[r].pc \in Publishing
      /\ UNCHANGED <<shown, record, receipt, lock, closed, torn>>
  BY DEF RollIn, At, Publishing, history
<1>2. /\ req[r].op \in {"operation", "apply", "undo"} /\ Tx(r) \in Transactions
      /\ Keep(req[r].op) \in Places /\ lock = r
  BY <1>1, Publisher
<1>3. req \in [Requests -> Request] /\ "rollRecord" \in Steps
  BY DEF TInv, Types, Steps
<1>4. Go(r, "rollRecord") => GoesOn(r, "rollRecord") /\ SameFlags(r)
  BY <1>3, GoFacts DEF GoesOn, SameMoves
<1>5. Failed(r, "rollRecord") =>
        GoesOn(r, "rollRecord") /\ req'[r].bad /\ req'[r].out = req[r].out /\ req'[r].in = req[r].in
  BY <1>3, FailedFacts DEF GoesOn
<1>6. CASE /\ req[r].out /\ live = None /\ live' = dir[Tx(r)][Keep(req[r].op)]
           /\ dir' = [dir EXCEPT ![Tx(r)][Keep(req[r].op)] = None]
           /\ Go(r, "rollRecord") /\ UNCHANGED faults
  <2>1. SetDir(Tx(r), Keep(req[r].op), None)
    BY <1>2, <1>6, DirFacts DEF TInv, Types
  <2> QED BY <1>1, <1>2, <1>4, <1>6, <2>1 DEF SameFlags
<1>7. CASE /\ req[r].out /\ live # None /\ Failed(r, "rollRecord")
           /\ UNCHANGED <<live, dir, faults>>
  BY <1>1, <1>2, <1>5, <1>7
<1>8. CASE ~req[r].out /\ Go(r, "rollRecord") /\ UNCHANGED <<live, dir, faults>>
  BY <1>1, <1>2, <1>4, <1>8 DEF SameFlags
<1>9. CASE req[r].out /\ Fault /\ Failed(r, "rollRecord") /\ UNCHANGED <<live, dir>>
  BY <1>1, <1>2, <1>5, <1>9
<1> QED BY <1>6, <1>7, <1>8, <1>9 DEF RollIn

LEMMA RollRecordEffects ==
  ASSUME TInv, NEW r \in Requests, RollRecord(r)
  PROVE  /\ req[r].pc = "rollRecord" /\ req[r].op \in {"operation", "apply", "undo"}
         /\ Tx(r) \in Transactions /\ lock = r
         /\ UNCHANGED <<live, dir, shown, receipt, lock, closed, torn>>
         /\ GoesOn(r, "rollReceipt") /\ req'[r].out = req[r].out /\ req'[r].in = req[r].in
         /\ \/ record' = req[r].original /\ req'[r].bad = req[r].bad /\ faults' = faults
            \/ record' \in {record, req[r].original} /\ req'[r].bad /\ Fault
<1>1. /\ req[r].pc = "rollRecord" /\ req[r].pc \in Publishing
      /\ UNCHANGED <<live, dir, shown, receipt, lock, closed, torn>>
  BY DEF RollRecord, At, Publishing, files, history
<1>2. /\ req[r].op \in {"operation", "apply", "undo"} /\ Tx(r) \in Transactions /\ lock = r
  BY <1>1, Publisher
<1>3. req \in [Requests -> Request] /\ "rollReceipt" \in Steps
  BY DEF TInv, Types, Steps
<1>4. Go(r, "rollReceipt") => GoesOn(r, "rollReceipt") /\ SameFlags(r)
  BY <1>3, GoFacts DEF GoesOn, SameMoves
<1>5. Failed(r, "rollReceipt") =>
        GoesOn(r, "rollReceipt") /\ req'[r].bad /\ req'[r].out = req[r].out /\ req'[r].in = req[r].in
  BY <1>3, FailedFacts DEF GoesOn
<1> QED BY <1>1, <1>2, <1>4, <1>5 DEF RollRecord, SameFlags

LEMMA RollReceiptEffects ==
  ASSUME TInv, NEW r \in Requests, RollReceipt(r)
  PROVE  /\ req[r].pc = "rollReceipt" /\ req[r].op \in {"operation", "apply", "undo"}
         /\ Tx(r) \in Transactions /\ lock = r /\ lock' = None /\ End(r)
         /\ UNCHANGED <<live, dir, shown, record, closed>>
         /\ torn' = (torn \/ req[r].bad)
         /\ \/ Receipted(Tx(r), "failed") \/ Receipted(Tx(r), "rollback_incomplete")
            \/ req[r].op # "operation" /\ Receipted(Tx(r), req[r].seen)
            \/ receipt' = receipt
         /\ faults' = faults \/ Fault
<1>1. /\ req[r].pc = "rollReceipt" /\ req[r].pc \in Publishing /\ lock' = None /\ End(r)
      /\ UNCHANGED <<live, dir, shown, record, closed>> /\ torn' = (torn \/ req[r].bad)
      /\ faults' = faults \/ Fault
  BY DEF RollReceipt, At, Publishing, files
<1>2. /\ req[r].op \in {"operation", "apply", "undo"} /\ Tx(r) \in Transactions /\ lock = r
      /\ req[r].seen \in ReceiptStatuses
  BY <1>1, Publisher
<1>3. \/ SetReceipt(Tx(r), "failed") \/ SetReceipt(Tx(r), "rollback_incomplete")
      \/ req[r].op # "operation" /\ SetReceipt(Tx(r), req[r].seen)
      \/ receipt' = receipt
  BY DEF RollReceipt
<1>4. "failed" \in ReceiptStatuses /\ "rollback_incomplete" \in ReceiptStatuses
  BY DEF ReceiptStatuses
<1> QED BY <1>1, <1>2, <1>3, <1>4, ReceiptedFacts

LEMMA CrashEffects ==
  ASSUME TInv, NEW r \in Requests, Crash(r)
  PROVE  /\ req[r].pc # "idle" /\ Fault /\ End(r)
         /\ lock' = (IF lock = r THEN None ELSE lock)
         /\ torn' = (torn \/ HalfDone(r))
         /\ UNCHANGED <<live, dir, shown, record, receipt, closed>>
BY DEF Crash, At, files

-----------------------------------------------------------------------------
\* Steps under the lock keep the invariant.

LEMMA HolderOwns ==
  ASSUME IInv, NEW r \in Requests, req[r].pc \in Locked
  PROVE  Tx(r) \in Transactions /\ Mine(r) /\ ~Absent(Tx(r)) /\ lock = r
<1>1. /\ Tx(r) \in Transactions /\ lock = r /\ req[r].op \in Operations
      /\ req[r].pc \in StepsOf(req[r].op)
  BY Busy, Holder DEF IInv, Locked, Publishing
<1>2. CASE Creator(r)
  BY <1>1, <1>2 DEF Mine, IInv, CInv, OneCreator, CreatorOK, Absent, Early, Locked, Publishing
<1>3. CASE Decider(r)
  BY <1>1, <1>3, DecidersMine DEF IInv, CInv, DeciderOK, Locked, Publishing
<1>4. Creator(r) \/ Decider(r)
  BY <1>1 DEF Creator, Decider, Operations, StepsOf, Locked, Publishing
<1> QED BY <1>1, <1>2, <1>3, <1>4

\* A step of the request that owns its transaction.
OwnStep(r) ==
  /\ Requested(r) /\ SameName(r) /\ Tx(r) \in Transactions /\ Mine(r) /\ ~Absent(Tx(r))
  /\ receipt'[Tx(r)].status # "absent"
  /\ \A y \in Transactions :
       /\ receipt'[y].kind = receipt[y].kind /\ receipt'[y].base = receipt[y].base
       /\ y # Tx(r) => /\ receipt'[y] = receipt[y] /\ dir'[y] = dir[y]
                       /\ (y \in shown' => y \in shown) /\ (y \in closed' => y \in closed)
  /\ \/ record'.active \in {record.active, None}
     \/ Holds(r) /\ record'.active = req[r].original.active
     \/ req[r].pc = "offer" /\ record'.active = Tx(r)
  /\ \/ record'.last \in {record.last, None, Tx(r)}
     \/ Holds(r) /\ record'.last = req[r].original.last
  /\ Holds(r)' => \/ Holds(r) /\ req'[r].original = req[r].original
                  \/ lock = None /\ req'[r].original = record
  /\ lock \in {None, r}

LEMMA OwnTx ==
  ASSUME IInv, NEW r \in Requests, OwnStep(r), ShownStep(r)
  PROVE  TxStep(r)
<1>1. \A y \in Transactions :
        /\ ~Absent(y) => /\ ~Absent(y)'
                         /\ receipt'[y].kind = receipt[y].kind
                         /\ receipt'[y].base = receipt[y].base
        /\ Untouched(r, y) \/ (y = Tx(r) /\ ~Absent(y)' /\ Mine(r))
  BY DesignAssumption DEF OwnStep, Untouched, Absent
<1>2. \A y \in Transactions :
        y = record'.active => \/ y = record.active
                              \/ Holds(r) /\ y = req[r].original.active
                              \/ y = Tx(r) /\ req[r].pc = "offer"
  BY DesignAssumption DEF OwnStep
<1> QED BY <1>1, <1>2 DEF TxStep, OwnStep

LEMMA OwnKept ==
  ASSUME IInv, TInv', NEW r \in Requests, OwnStep(r), ShownStep(r),
         CreatorOK(r)', DeciderOK(r)', PubOK(r)', NoDesignLost', BackupIsBase'
  PROVE  IInv'
<1>1. TxStep(r)
  BY OwnTx
<1>2. CInv'
  BY <1>1, NamesKept
<1>3. \A s \in Requests : PubOK(s)'
  BY <1>1, PublicationsKept DEF OwnStep
<1> QED BY <1>2, <1>3 DEF IInv, PInv

\* A step that moves no design, to a record of a design that has been live.
LEMMA StillKept ==
  ASSUME IInv, TInv', NEW r \in Requests, OwnStep(r), UNCHANGED <<live, dir, shown>>,
         record'.vouched \in shown,
         req'[r] = NoRequest \/ req'[r].base = req[r].base,
         req'[r].pc \in Publishing /\ req'[r].out => req[r].pc \in Publishing /\ req[r].out,
         CreatorOK(r)', DeciderOK(r)', PubOK(r)'
  PROVE  IInv'
<1>1. /\ live \in shown \cup {None} /\ Base \in shown /\ record.vouched \in shown
      /\ \A x \in Transactions : receipt[x].base \in shown
      /\ req[r].base \in shown /\ (Holds(r) => req[r].original.vouched \in shown)
      /\ req[r].pc \in Publishing /\ req[r].out => OldD(r) \in shown
  BY DEF IInv, CInv, ShownOK
<1>2. req'[r].pc \in Publishing => OldD(r)' = OldD(r)
  BY IdleNames DEF OwnStep, SameName, SameTask, OldD, Tx
<1>3. ShownStep(r)
  BY <1>1, <1>2, IdleNames DEF ShownStep, OwnStep
<1>4. NoDesignLost' /\ BackupIsBase'
  BY DesignsKept DEF OwnStep, IInv, CInv, AbsentIsNew, Places
<1> QED BY <1>3, <1>4, OwnKept

\* The last step of a request under the lock.
LEMMA LastKept ==
  ASSUME IInv, TInv', NEW r \in Requests, End(r), req[r].pc \in Locked,
         UNCHANGED <<live, dir, shown>>, record'.vouched \in shown,
         receipt'[Tx(r)].status # "absent",
         \A y \in Transactions :
           /\ receipt'[y].kind = receipt[y].kind /\ receipt'[y].base = receipt[y].base
           /\ y # Tx(r) => receipt'[y] = receipt[y] /\ (y \in closed' => y \in closed),
         \/ record'.active \in {record.active, None}
         \/ Holds(r) /\ record'.active = req[r].original.active,
         \/ record'.last = record.last
         \/ Holds(r) /\ record'.last = req[r].original.last
  PROVE  IInv'
<1>1. Requested(r) /\ req'[r] = NoRequest
  BY EndFacts DEF IInv, TInv, Types
<1>2. Tx(r) \in Transactions /\ Mine(r) /\ ~Absent(Tx(r)) /\ lock = r
  BY HolderOwns
<1>3. OwnStep(r)
  BY <1>1, <1>2, IdleNames DEF OwnStep, SameName
<1> QED BY <1>1, <1>3, StillKept, IdleNames

LEMMA OfferKept ==
  ASSUME IInv, NEW r \in Requests, Offer(r)
  PROVE  IInv'
<1>0. TInv /\ TInv'
  BY OfferTyped DEF IInv
<1>1. /\ req[r].pc = "offer" /\ req[r].op = "repair" /\ Tx(r) \in Transactions /\ lock = None
      /\ UNCHANGED <<live, dir, shown, receipt, closed, torn, faults>>
  BY <1>0, OfferEffects
<1>2. CASE End(r) /\ record' = record
  BY <1>0, <1>1, <1>2, EndKept
<1>3. CASE /\ Requested(r) /\ req'[r].pc = "offerReceipt" /\ SameTask(r) /\ SameFlags(r)
           /\ req'[r].base = req[r].base /\ req'[r].original = record
           /\ req'[r].seen \in {"ready", "rejected"}
           /\ record'.active \in {record.active, Tx(r)}
           /\ record'.last = record.last /\ record'.vouched = record.vouched
  <2>1. Creator(r) /\ ~Decider(r) /\ ~Holds(r) /\ Tx(r)' = Tx(r)
    BY <1>1, <1>3 DEF Creator, Decider, Holds, Publishing, SameTask, Tx
  <2>2. CreatorOK(r) /\ Mine(r)
    BY <1>1, <2>1 DEF IInv, CInv, Mine, OneCreator
  <2>3. /\ receipt[Tx(r)].status = "preparing" /\ receipt[Tx(r)].base = req[r].base
        /\ receipt[Tx(r)].kind = "repair"
        /\ Tx(r) \notin closed /\ Tx(r) \notin shown \cup {record.last}
        /\ record.active # Tx(r)
        /\ \A s \in Requests :
             /\ Holds(s) => Tx(r) \notin {req[s].original.active, req[s].original.last}
             /\ Decider(s) /\ Tx(s) = Tx(r) => req[s].pc \in {"load", "discard"}
    BY <1>1, <2>1, <2>2 DEF CreatorOK, Early
  <2>4. OwnStep(r)
    BY <1>1, <1>3, <2>2, <2>3 DEF OwnStep, SameName, Absent
  <2>5. ShownStep(r)
    BY <1>1, <1>3 DEF ShownStep, IInv, CInv, ShownOK, Publishing
  <2>6. CreatorOK(r)'
    <3>1. \A s \in Requests :
            /\ Holds(s)' => Tx(r) \notin {req'[s].original.active, req'[s].original.last}
            /\ Decider(s)' /\ Tx(s)' = Tx(r) => req'[s].pc \in {"load", "discard"}
      <4> SUFFICES ASSUME NEW s \in Requests
                   PROVE /\ Holds(s)' => Tx(r) \notin {req'[s].original.active, req'[s].original.last}
                         /\ Decider(s)' /\ Tx(s)' = Tx(r) => req'[s].pc \in {"load", "discard"}
        OBVIOUS
      <4>1. CASE s # r
        BY <2>3, <2>4, <2>5, <4>1, OwnTx, NewNames
      <4>2. CASE s = r
        BY <1>3, <2>1, <2>3, <4>2 DEF Decider, SameTask
      <4> QED BY <4>1, <4>2
    <3>2. req'[r].op = "repair"
      BY <1>1, <1>3 DEF SameTask
    <3> QED BY <1>1, <1>3, <2>1, <2>3, <3>1, <3>2 DEF CreatorOK, Early
  <2>7. DeciderOK(r)' /\ PubOK(r)'
    BY <1>3, <2>1 DEF DeciderOK, PubOK, Decider, SameTask, Publishing
  <2>8. NoDesignLost' /\ BackupIsBase'
    BY <1>1, DesignsKept DEF IInv, CInv, AbsentIsNew, Places
  <2> QED BY <1>0, <2>4, <2>5, <2>6, <2>7, <2>8, OwnKept
<1> QED BY <1>0, <1>2, <1>3, OfferEffects DEF Noted, Marked

LEMMA OfferReceiptKept ==
  ASSUME IInv, NEW r \in Requests, OfferReceipt(r)
  PROVE  IInv'
<1>0. TInv /\ TInv'
  BY OfferReceiptTyped DEF IInv
<1>1. /\ req[r].pc = "offerReceipt" /\ req[r].op = "repair" /\ Tx(r) \in Transactions
      /\ lock = r /\ UNCHANGED <<live, dir, shown, record, closed, torn>>
  BY <1>0, OfferReceiptEffects
<1>2. CASE Receipted(Tx(r), req[r].seen) /\ End(r)
  <2>1. req[r].seen # "absent" /\ record.vouched \in shown /\ req[r].pc \in Locked
    BY <1>1 DEF IInv, CInv, CreatorOK, Creator, ShownOK, Locked
  <2> QED BY <1>0, <1>1, <1>2, <2>1, LastKept DEF Receipted
<1>3. CASE /\ receipt' = receipt /\ lock' = lock /\ Requested(r)
           /\ req'[r].pc = "offerRoll" /\ SameTask(r) /\ SameRead(r) /\ SameMoves(r)
  <2>1. Creator(r) /\ ~Decider(r) /\ Holds(r) /\ Tx(r)' = Tx(r) /\ Creator(r)' /\ ~Decider(r)'
    BY <1>1, <1>3 DEF Creator, Decider, Holds, SameTask, Tx
  <2>2. Quiet(r)
    BY <1>1, <1>3, <2>1
    DEF Quiet, SameName, SameRead, SameMoves, Publishing, IInv, CInv, ShownOK
  <2>3. CreatorOK(r) BY DEF IInv, CInv
  <2>4. CreatorOK(r)'
    <3>1. \A s \in Requests :
            /\ Holds(s)' => Holds(s) /\ req'[s].original = req[s].original
            /\ Decider(s)' => Decider(s) /\ Tx(s)' = Tx(s) /\ req'[s].pc = req[s].pc
      BY <2>1, <2>2, QuietTx, NewNames DEF Quiet
    <3> QED BY <1>1, <1>3, <2>1, <2>3, <3>1 DEF CreatorOK, SameTask, SameRead, Early
  <2> QED BY <1>0, <1>3, <2>1, <2>2, <2>4, QuietKept DEF DeciderOK, PubOK, Publishing
<1> QED BY <1>0, <1>2, <1>3, OfferReceiptEffects

LEMMA OfferRollbackKept ==
  ASSUME IInv, NEW r \in Requests, OfferRollback(r)
  PROVE  IInv'
<1>0. TInv /\ TInv'
  BY OfferRollbackTyped DEF IInv
<1>1. /\ req[r].pc = "offerRoll" /\ Tx(r) \in Transactions /\ End(r)
      /\ UNCHANGED <<live, dir, shown, closed, torn>>
      /\ record' \in {record, req[r].original}
      /\ receipt' = receipt \/ Receipted(Tx(r), "rollback_incomplete")
  BY <1>0, OfferRollbackEffects
<1>2. req[r].pc \in Locked /\ Holds(r)
  BY <1>1 DEF Locked, Holds
<1>3. ~Absent(Tx(r)) /\ record'.vouched \in shown
  BY <1>1, <1>2, HolderOwns DEF IInv, CInv, ShownOK
<1> QED BY <1>0, <1>1, <1>2, <1>3, LastKept DEF Receipted, Absent

LEMMA DiscardKept ==
  ASSUME IInv, NEW r \in Requests, Discard(r)
  PROVE  IInv'
<1>0. TInv /\ TInv'
  BY DiscardTyped DEF IInv
<1>1. /\ req[r].pc = "discard" /\ req[r].op = "discard" /\ Tx(r) \in Transactions
      /\ lock = None /\ UNCHANGED <<live, dir, shown, record, closed, torn>>
  BY <1>0, DiscardEffects
<1>2. CASE End(r) /\ receipt' = receipt
  BY <1>0, <1>1, <1>2, EndKept
<1>3. CASE /\ record.active = Tx(r) /\ Receipted(Tx(r), "discarded") /\ Requested(r)
           /\ req'[r].pc = "discardRecord" /\ SameTask(r) /\ SameRead(r)
  <2>1. Decider(r) /\ ~Creator(r)' /\ ~Holds(r)' /\ req'[r].pc \notin Publishing
    BY <1>1, <1>3 DEF Decider, Creator, Holds, Publishing, SameTask
  <2>2. DeciderOK(r) /\ ~Absent(Tx(r))
    BY <2>1 DEF IInv, CInv, DeciderOK
  <2>3. Mine(r)
    <3> SUFFICES ASSUME NEW s \in Requests, Creator(s), Tx(s) = Tx(r) PROVE FALSE
      BY DEF Mine
    <3>1. req[s].pc \in {"offerReceipt", "offerRoll"}
      BY <1>3 DEF IInv, CInv, CreatorOK
    <3> QED BY <1>0, <1>1, <3>1, Holder, DesignAssumption DEF Locked
  <2>4. OwnStep(r)
    BY <1>1, <1>3, <2>1, <2>2, <2>3 DEF OwnStep, SameName, Receipted
  <2>5. DeciderOK(r)'
    BY <1>1, <1>3, <2>2 DEF DeciderOK, Decider, SameTask, SameRead, Receipted, Absent, Tx
  <2> QED BY <1>0, <1>1, <1>3, <2>1, <2>4, <2>5, StillKept
          DEF CreatorOK, PubOK, SameRead, IInv, CInv, ShownOK
<1> QED BY <1>0, <1>2, <1>3, DiscardEffects

LEMMA DiscardRecordKept ==
  ASSUME IInv, NEW r \in Requests, DiscardRecord(r)
  PROVE  IInv'
<1>0. TInv /\ TInv'
  BY DiscardRecordTyped DEF IInv
<1>1. /\ req[r].pc = "discardRecord" /\ Tx(r) \in Transactions /\ End(r)
      /\ UNCHANGED <<live, dir, shown, receipt, torn>>
      /\ record'.active \in {record.active, None} /\ record'.last = record.last
      /\ record'.vouched = record.vouched /\ closed' \in {closed, closed \cup {Tx(r)}}
  BY <1>0, DiscardRecordEffects DEF Noted
<1>2. req[r].pc \in Locked
  BY <1>1 DEF Locked
<1>3. receipt'[Tx(r)].status # "absent" /\ record'.vouched \in shown
  BY <1>1, <1>2, HolderOwns DEF IInv, CInv, ShownOK, Absent
<1> QED BY <1>0, <1>1, <1>2, <1>3, LastKept

\* The names of a request that goes on with its task.
LEMMA SameNames ==
  ASSUME NEW r \in Requests, SameTask(r), SameRead(r)
  PROVE  /\ Tx(r)' = Tx(r) /\ OldD(r)' = OldD(r) /\ NewD(r)' = NewD(r)
         /\ (Creator(r)' <=> Creator(r)) /\ (Decider(r)' <=> Decider(r))
BY DEF SameTask, SameRead, Tx, OldD, NewD, Creator, Decider

LEMMA TakeLockKept ==
  ASSUME IInv, NEW r \in Requests, TakeLock(r)
  PROVE  IInv'
<1>0. TInv /\ TInv'
  BY TakeLockTyped DEF IInv
<1>1. /\ req[r].pc = "lock" /\ req[r].op \in {"operation", "apply", "undo"}
      /\ Tx(r) \in Transactions /\ lock = None /\ lock' = r
      /\ UNCHANGED <<live, dir, shown, record, closed, torn, faults>>
      /\ Requested(r) /\ SameTask(r) /\ SameRead(r) /\ req'[r].original = record
      /\ ~req'[r].out /\ ~req'[r].in /\ ~req'[r].bad
      /\ \/ Publishable(r) /\ req'[r].pc = "moveAway"
         \/ req'[r].pc = "rollOut"
      /\ \/ receipt' = receipt
         \/ req[r].op # "operation" /\ Receipted(Tx(r), req[r].seen)
  BY <1>0, TakeLockEffects
<1>2. /\ Tx(r)' = Tx(r) /\ OldD(r)' = OldD(r) /\ NewD(r)' = NewD(r)
      /\ (Creator(r)' <=> Creator(r)) /\ (Decider(r)' <=> Decider(r))
  BY <1>1, SameNames
<1>3. CreatorOK(r) /\ DeciderOK(r)
  BY DEF IInv, CInv
<1>4. ~Absent(Tx(r)) /\ Mine(r) /\ (Creator(r) \/ Decider(r))
  <2>1. CASE Creator(r)
    BY <1>1, <1>3, <2>1 DEF CreatorOK, Absent, Early, Mine, IInv, CInv, OneCreator
  <2>2. CASE Decider(r)
    BY <1>1, <1>3, <2>2, DecidersMine DEF DeciderOK
  <2> QED BY <1>1, <2>1, <2>2 DEF Creator, Decider
<1>5. /\ receipt'[Tx(r)].status # "absent"
      /\ \A y \in Transactions :
           /\ receipt'[y].kind = receipt[y].kind /\ receipt'[y].base = receipt[y].base
           /\ y # Tx(r) => receipt'[y] = receipt[y]
      /\ Creator(r) => receipt' = receipt
  <2>1. req[r].op # "operation" => req[r].seen \in {"ready", "applied"} /\ ~Creator(r)
    BY <1>1, <1>3 DEF DeciderOK, Decider, Creator
  <2>2. req[r].op = "operation" => Creator(r)
    BY DEF Creator
  <2> QED BY <1>1, <1>4, <2>1, <2>2 DEF Receipted, Absent
<1>6. OwnStep(r)
  BY <1>1, <1>4, <1>5 DEF OwnStep, SameName
<1>7. req'[r].pc \in Publishing
  BY <1>1 DEF Publishing
<1>8. CreatorOK(r)'
  <2> SUFFICES ASSUME Creator(r) PROVE CreatorOK(r)'
    BY <1>2 DEF CreatorOK
  <2>1. /\ receipt'[Tx(r)].status = "preparing" /\ receipt'[Tx(r)].base = req'[r].base
        /\ receipt'[Tx(r)].kind = req'[r].op
        /\ Tx(r) \notin closed /\ record.active # Tx(r)
        /\ Tx(r) \notin shown \cup {record.last}
    BY <1>1, <1>3, <1>5 DEF CreatorOK, Early, SameTask, SameRead, Published, Rolling
  <2>2. TxStep(r)
    <3>1. ShownStep(r)
      BY <1>1, <1>5, <1>7 DEF ShownStep, IInv, CInv, ShownOK, SameRead
    <3> QED BY <1>6, <3>1, OwnTx
  <2>3. \A s \in Requests :
          /\ Holds(s)' => Tx(r) \notin {req'[s].original.active, req'[s].original.last}
          /\ Decider(s)' /\ Tx(s)' = Tx(r) => req'[s].pc \in {"load", "discard"}
    <3> SUFFICES ASSUME NEW s \in Requests
                 PROVE /\ Holds(s)' => Tx(r) \notin {req'[s].original.active, req'[s].original.last}
                       /\ Decider(s)' /\ Tx(s)' = Tx(r) => req'[s].pc \in {"load", "discard"}
      OBVIOUS
    <3>1. CASE s # r
      BY <1>3, <2>2, <3>1, NewNames DEF CreatorOK
    <3>2. CASE s = r
      BY <1>1, <1>2, <2>1, <3>2 DEF Creator, Decider
    <3> QED BY <3>1, <3>2
  <2> QED BY <1>1, <1>2, <1>7, <2>1, <2>3 DEF CreatorOK, Early, Publishing
<1>9. DeciderOK(r)'
  BY <1>1, <1>2, <1>3, <1>5 DEF DeciderOK, SameTask, SameRead, Absent
<1>10. PubOK(r)'
  <2>1. CASE req'[r].pc = "rollOut"
    BY <1>1, <2>1 DEF PubOK
  <2>2. CASE Publishable(r) /\ req'[r].pc = "moveAway"
    <3>1. /\ live = OldD(r) /\ dir[Tx(r)][Source(req[r].op)] = NewD(r)
          /\ record.revision = req[r].revision
          /\ req[r].op = "apply" => record.active = Tx(r)
          /\ req[r].op = "undo" => record.last = Tx(r)
      BY <2>2 DEF Publishable, OldD, NewD
    <3>2. dir[Tx(r)][Keep(req[r].op)] = None
      <4>1. CASE req[r].op = "operation"
        BY <1>1, <1>3, <4>1 DEF CreatorOK, Creator, Keep, Places
      <4>2. CASE req[r].op # "operation"
        BY <2>2, <4>2 DEF Publishable
      <4> QED BY <4>1, <4>2
    <3>3. Checked(r)'
      BY <1>1, <1>2, <3>1 DEF Checked, SameTask, SameRead
    <3> QED BY <1>1, <1>2, <2>2, <3>1, <3>2, <3>3 DEF PubOK, SameTask
  <2> QED BY <1>1, <2>1, <2>2
<1> QED BY <1>0, <1>1, <1>6, <1>8, <1>9, <1>10, StillKept DEF SameRead, IInv, CInv, ShownOK

\* A step in the middle of a publication.
LEMMA PublicationStep ==
  ASSUME IInv, TInv', NEW r \in Requests, NEW pc \in Publishing,
         req[r].pc \in Publishing, GoesOn(r, pc),
         UNCHANGED <<receipt, closed>>,
         \A y \in Transactions : y # Tx(r) => dir'[y] = dir[y],
         shown \subseteq shown', shown' \subseteq shown \cup {Tx(r)},
         live' \in shown' \cup {None}, record'.vouched \in shown',
         req'[r].out => OldD(r) \in shown',
         record'.active \in {record.active, None, req[r].original.active},
         record'.last \in {record.last, None, Tx(r), req[r].original.last},
         pc \in {"moveAway", "moveIn"} => shown' = shown /\ record' = record /\ ~Published(r),
         PubOK(r)', NoDesignLost', BackupIsBase'
  PROVE  IInv'
<1>1. /\ Tx(r) \in Transactions /\ Mine(r) /\ ~Absent(Tx(r)) /\ lock = r
      /\ Holds(r) /\ Holds(r)' /\ req'[r].pc = pc
  BY HolderOwns DEF Locked, Holds, GoesOn
<1>2. /\ Tx(r)' = Tx(r) /\ OldD(r)' = OldD(r) /\ (Creator(r)' <=> Creator(r))
      /\ (Decider(r)' <=> Decider(r)) /\ SameTask(r) /\ SameRead(r) /\ Requested(r)
      /\ req'[r].original = req[r].original
  BY SameNames DEF GoesOn
<1>3. OwnStep(r)
  BY <1>1, <1>2 DEF OwnStep, SameName, Absent
<1>4. ShownStep(r)
  BY <1>1, <1>2 DEF ShownStep, IInv, CInv, ShownOK, SameRead
<1>5. TxStep(r)
  BY <1>3, <1>4, OwnTx
<1>6. CreatorOK(r) /\ DeciderOK(r)
  BY DEF IInv, CInv
<1>7. CreatorOK(r)'
  <2> SUFFICES ASSUME Creator(r) PROVE CreatorOK(r)'
    BY <1>2 DEF CreatorOK
  <2>1. /\ receipt'[Tx(r)].status = "preparing" /\ receipt'[Tx(r)].base = req'[r].base
        /\ receipt'[Tx(r)].kind = req'[r].op /\ Tx(r) \notin closed'
        /\ record.active # Tx(r)
        /\ Tx(r) \notin {req[r].original.active, req[r].original.last}
    BY <1>1, <1>2, <1>6 DEF CreatorOK, Early, Publishing, SameTask, SameRead
  <2>2. record'.active # Tx(r)
    BY <1>1, <2>1, DesignAssumption
  <2>3. Published(r)' \/ Tx(r) \notin shown' \cup {record'.last}
    <3>1. CASE pc \in {"moveAway", "moveIn"}
      BY <1>6, <3>1 DEF CreatorOK
    <3>2. CASE pc \notin {"moveAway", "moveIn"}
      BY <1>1, <3>2 DEF Published, Publishing, Rolling
    <3> QED BY <3>1, <3>2
  <2>4. \A s \in Requests :
          /\ Holds(s)' => Tx(r) \notin {req'[s].original.active, req'[s].original.last}
          /\ Decider(s)' /\ Tx(s)' = Tx(r) => req'[s].pc \in {"load", "discard"}
    <3> SUFFICES ASSUME NEW s \in Requests
                 PROVE /\ Holds(s)' => Tx(r) \notin {req'[s].original.active, req'[s].original.last}
                       /\ Decider(s)' /\ Tx(s)' = Tx(r) => req'[s].pc \in {"load", "discard"}
      OBVIOUS
    <3>1. CASE s # r
      BY <1>5, <1>6, <3>1, NewNames DEF CreatorOK
    <3>2. CASE s = r
      BY <1>2, <2>1, <3>2 DEF Creator, Decider
    <3> QED BY <3>1, <3>2
  <2>5. req'[r].op = "operation"
    <3>1. req[r].op \in {"operation", "apply", "undo"}
      BY Publisher DEF IInv
    <3> QED BY <1>2, <3>1 DEF Creator, SameTask
  <2>6. pc \notin Early \cup {"fail", "lock", "offerReceipt", "offerRoll"}
    BY DEF Publishing, Early
  <2> QED BY <1>1, <1>2, <2>1, <2>2, <2>3, <2>4, <2>5, <2>6 DEF CreatorOK
<1>8. DeciderOK(r)'
  <2>1. req[r].pc # "load"
    BY DEF Publishing
  <2> QED BY <1>2, <1>6, <2>1 DEF DeciderOK, SameTask, SameRead, Absent
<1> QED BY <1>3, <1>4, <1>7, <1>8, OwnKept

\* The names of a publication that goes on.
LEMMA PubNames ==
  ASSUME NEW r \in Requests, NEW pc, GoesOn(r, pc), receipt' = receipt
  PROVE  /\ Tx(r)' = Tx(r) /\ OldD(r)' = OldD(r) /\ NewD(r)' = NewD(r)
         /\ (Checked(r)' <=> Checked(r)) /\ NewRecord(r)' = NewRecord(r)
         /\ req'[r].op = req[r].op /\ req'[r].pc = pc
<1>1. /\ Tx(r)' = Tx(r) /\ OldD(r)' = OldD(r) /\ NewD(r)' = NewD(r)
  BY SameNames DEF GoesOn
<1> QED BY <1>1 DEF GoesOn, Checked, NewRecord, SameTask, SameRead

\* What a publication knows of its designs.
LEMMA PubDesigns ==
  ASSUME IInv, NEW r \in Requests, req[r].pc \in Publishing
  PROVE  /\ OldD(r) \in Designs /\ NewD(r) \in Designs
         /\ req[r].base = receipt[Tx(r)].base
         /\ req[r].base \in shown /\ req[r].original.vouched \in shown
         /\ req[r].out => OldD(r) \in shown
         /\ live \in shown \cup {None} /\ record.vouched \in shown
         /\ PubOK(r)
<1>1. /\ req[r].op \in {"operation", "apply", "undo"} /\ Tx(r) \in Transactions
      /\ req[r].base \in Designs
  BY Publisher DEF IInv
<1>2. req[r].base = receipt[Tx(r)].base
  BY <1>1 DEF IInv, CInv, CreatorOK, DeciderOK, Creator, Decider, Early, Publishing
<1> QED BY <1>1, <1>2 DEF OldD, NewD, Designs, IInv, CInv, ShownOK, Holds, PInv

LEMMA GivesUpKept ==
  ASSUME IInv, TInv', NEW r \in Requests, GivesUp(r),
         req[r].pc \in {"moveAway", "moveIn", "record", "receipt"},
         UNCHANGED <<live, record, receipt, dir, shown, closed>>
  PROVE  IInv'
<1>1. req[r].pc \in Publishing /\ "rollOut" \in Publishing /\ GoesOn(r, "rollOut") /\ SameFlags(r)
  BY DEF Publishing, GivesUp, GoesOn, SameMoves
<1>2. PubOK(r)'
  <2>1. PubOK(r) BY DEF IInv, PInv
  <2> QED BY <1>1, <2>1, PubNames DEF PubOK, SameFlags, GoesOn
<1>3. NoDesignLost' /\ BackupIsBase'
  BY DesignsKept DEF IInv, CInv, AbsentIsNew, Places
<1> QED BY <1>1, <1>2, <1>3, PubDesigns, PublicationStep DEF SameFlags

\* The live design is moved to a free place.
LEMMA PutKept ==
  ASSUME IInv, NEW x \in Transactions, NEW p \in Places, dir[x][p] = None,
         SetDir(x, p, live), live' = None, shown' = shown, receipt' = receipt,
         p = "before" => live = receipt[x].base
  PROVE  NoDesignLost' /\ BackupIsBase'
<1>0. None \notin shown
  BY DesignAssumption DEF IInv, TInv, Types, Designs
<1>1. NoDesignLost'
  <2> SUFFICES ASSUME NEW d \in shown
               PROVE  \E y \in Transactions, o \in Places : dir'[y][o] = d
    BY DEF NoDesignLost
  <2>1. CASE d = live
    BY <2>1 DEF SetDir
  <2>2. CASE d # live
    <3>1. PICK y \in Transactions, o \in Places : dir[y][o] = d
      BY <2>2 DEF IInv, PInv, NoDesignLost
    <3>2. dir'[y][o] = d
      BY <1>0, <3>1 DEF SetDir
    <3> QED BY <3>2
  <2> QED BY <2>1, <2>2
<1>2. BackupIsBase'
  <2>1. "before" \in Places BY DEF Places
  <2> QED BY <2>1 DEF BackupIsBase, SetDir, IInv, PInv
<1> QED BY <1>1, <1>2

\* A design is moved to the free place of the live one.
LEMMA TakeKept ==
  ASSUME IInv, NEW x \in Transactions, NEW p \in Places, live = None,
         live' = dir[x][p], SetDir(x, p, None), shown' \subseteq shown \cup {live'},
         receipt' = receipt
  PROVE  NoDesignLost' /\ BackupIsBase'
<1>0. None \notin shown
  BY DesignAssumption DEF IInv, TInv, Types, Designs
<1>1. NoDesignLost'
  <2> SUFFICES ASSUME NEW d \in shown, d # live'
               PROVE  \E y \in Transactions, o \in Places : dir'[y][o] = d
    BY DEF NoDesignLost
  <2>1. PICK y \in Transactions, o \in Places : dir[y][o] = d
    BY <1>0 DEF IInv, PInv, NoDesignLost
  <2>2. dir'[y][o] = d
    BY <2>1 DEF SetDir
  <2> QED BY <2>2
<1>2. BackupIsBase'
  <2>1. "before" \in Places BY DEF Places
  <2> QED BY <2>1 DEF BackupIsBase, SetDir, IInv, PInv
<1> QED BY <1>1, <1>2

LEMMA MoveAwayKept ==
  ASSUME IInv, NEW r \in Requests, MoveAway(r)
  PROVE  IInv'
<1>0. TInv /\ TInv'
  BY MoveAwayTyped DEF IInv
<1>1. /\ req[r].pc = "moveAway" /\ Tx(r) \in Transactions
      /\ UNCHANGED <<shown, record, receipt, lock, closed, torn>>
  BY <1>0, MoveAwayEffects
<1>2. CASE GivesUp(r) /\ UNCHANGED <<live, dir>>
  BY <1>0, <1>1, <1>2, GivesUpKept
<1>3. CASE /\ SetDir(Tx(r), Keep(req[r].op), live) /\ live' = None
           /\ GoesOn(r, "moveIn") /\ req'[r].out /\ req'[r].in = req[r].in
           /\ req'[r].bad = req[r].bad
  <2>1. /\ req[r].pc \in Publishing /\ "moveIn" \in Publishing
        /\ req[r].op \in {"operation", "apply", "undo"}
    BY <1>1, Doing DEF Publishing, IInv
  <2>2. /\ Keep(req[r].op) \in Places /\ Source(req[r].op) \in Places
        /\ Keep(req[r].op) # Source(req[r].op)
    BY <2>1 DEF Keep, Source, Places
  <2>3. /\ OldD(r) \in Designs /\ req[r].base = receipt[Tx(r)].base
        /\ live \in shown \cup {None} /\ record.vouched \in shown
        /\ Checked(r) /\ ~req[r].out /\ ~req[r].in /\ ~req[r].bad /\ live = OldD(r)
        /\ dir[Tx(r)][Keep(req[r].op)] = None /\ dir[Tx(r)][Source(req[r].op)] = NewD(r)
        /\ record = req[r].original
    BY <1>1, <2>1, PubDesigns DEF PubOK
  <2>4. PubOK(r)'
    BY <1>1, <1>3, <2>1, <2>2, <2>3, PubNames DEF PubOK, SetDir, GoesOn
  <2>5. NoDesignLost' /\ BackupIsBase'
    <3>1. Keep(req[r].op) = "before" => live = receipt[Tx(r)].base
      BY <2>3 DEF Keep, OldD
    <3> QED BY <1>1, <1>3, <2>2, <2>3, <3>1, PutKept
  <2>6. \A y \in Transactions : y # Tx(r) => dir'[y] = dir[y]
    BY <1>0, <1>3 DEF SetDir, TInv, Types
  <2>7. OldD(r) \in shown
    BY <2>3, DesignAssumption DEF Designs
  <2>8. ~Published(r)
    BY <1>1 DEF Published, Rolling
  <2> QED BY <1>0, <1>1, <1>3, <2>1, <2>3, <2>4, <2>5, <2>6, <2>7, <2>8, PublicationStep
<1> QED BY <1>0, <1>2, <1>3, MoveAwayEffects

LEMMA MoveInReady ==
  ASSUME IInv, NEW r \in Requests, req[r].pc = "moveIn"
  PROVE  /\ dir[Tx(r)][Source(req[r].op)] = NewD(r) /\ NewD(r) \in Designs
         /\ live = None /\ NewD(r) # None
<1>1. req[r].pc \in Publishing
  BY DEF Publishing
<1> QED BY <1>1, PubDesigns, DesignAssumption DEF PubOK, Designs

LEMMA MoveInKept ==
  ASSUME IInv, NEW r \in Requests, MoveIn(r)
  PROVE  IInv'
<1>a. req[r].pc = "moveIn" BY DEF MoveIn, At
<1>0. TInv /\ TInv'
  BY <1>a, MoveInReady, MoveInTyped DEF IInv
<1>1. /\ Tx(r) \in Transactions
      /\ UNCHANGED <<record, receipt, lock, closed, torn>>
  BY <1>0, MoveInEffects
<1>2. CASE GivesUp(r) /\ UNCHANGED <<live, dir, shown>>
  BY <1>0, <1>1, <1>2, <1>a, GivesUpKept
<1>3. CASE /\ live' = dir[Tx(r)][Source(req[r].op)] /\ shown' = shown \cup {live'}
           /\ SetDir(Tx(r), Source(req[r].op), None)
           /\ GoesOn(r, "record") /\ req'[r].in /\ req'[r].out = req[r].out
           /\ req'[r].bad = req[r].bad
  <2>1. /\ req[r].pc \in Publishing /\ "record" \in Publishing
        /\ req[r].op \in {"operation", "apply", "undo"}
    BY <1>a, Doing DEF Publishing, IInv
  <2>2. /\ Keep(req[r].op) \in Places /\ Source(req[r].op) \in Places
        /\ Keep(req[r].op) # Source(req[r].op)
    BY <2>1 DEF Keep, Source, Places
  <2>3. /\ req[r].base \in shown /\ record.vouched \in shown /\ OldD(r) \in shown
        /\ Checked(r) /\ req[r].out /\ ~req[r].in /\ ~req[r].bad
        /\ dir[Tx(r)][Keep(req[r].op)] = OldD(r) /\ record = req[r].original
    BY <1>a, <2>1, PubDesigns DEF PubOK
  <2>4. live' = NewD(r) /\ NewD(r) \in shown \cup {Tx(r)}
    BY <1>3, <1>a, <2>3, MoveInReady DEF NewD
  <2>5. PubOK(r)'
    BY <1>1, <1>3, <2>1, <2>2, <2>3, <2>4, PubNames DEF PubOK, SetDir, GoesOn
  <2>6. NoDesignLost' /\ BackupIsBase'
    BY <1>1, <1>3, <1>a, <2>2, MoveInReady, TakeKept
  <2>7. \A y \in Transactions : y # Tx(r) => dir'[y] = dir[y]
    BY <1>0, <1>3 DEF SetDir, TInv, Types
  <2> QED BY <1>0, <1>1, <1>3, <2>1, <2>3, <2>4, <2>5, <2>6, <2>7, PublicationStep
<1> QED BY <1>0, <1>2, <1>3, MoveInEffects

LEMMA WriteRecordKept ==
  ASSUME IInv, NEW r \in Requests, WriteRecord(r)
  PROVE  IInv'
<1>a. req[r].pc = "record" /\ req[r].pc \in Publishing /\ "receipt" \in Publishing
  BY DEF WriteRecord, At, Publishing
<1>b. /\ live = NewD(r) /\ NewD(r) \in Designs /\ live # None /\ live \in shown
      /\ OldD(r) \in shown /\ req[r].in /\ req[r].out /\ ~req[r].bad
      /\ record = req[r].original
  BY <1>a, PubDesigns, DesignAssumption DEF PubOK, Designs
<1>0. TInv /\ TInv'
  BY <1>b, WriteRecordTyped DEF IInv
<1>1. /\ Tx(r) \in Transactions
      /\ UNCHANGED <<live, dir, shown, receipt, lock, closed, torn>>
  BY <1>0, WriteRecordEffects
<1>2. CASE GivesUp(r) /\ record' = record
  BY <1>0, <1>1, <1>2, <1>a, GivesUpKept
<1>3. CASE /\ record' = [status   |-> IF req[r].op = "undo" THEN receipt[Tx(r)].prior
                                      ELSE "generated",
                         revision |-> record.revision + 1,
                         active   |-> IF req[r].op = "apply" THEN None ELSE record.active,
                         last     |-> IF req[r].op = "undo" THEN None ELSE Tx(r),
                         vouched  |-> live]
           /\ GoesOn(r, "receipt") /\ SameFlags(r)
  <2>1. record' = NewRecord(r)
    BY <1>b, <1>3 DEF NewRecord
  <2>2. /\ record'.active \in {record.active, None} /\ record'.last \in {None, Tx(r)}
        /\ record'.vouched = live
    BY <1>3
  <2>3. PubOK(r) /\ "receipt" \notin {"moveAway", "moveIn"}
    BY DEF IInv, PInv
  <2>4. PubOK(r)'
    BY <1>1, <1>3, <1>a, <1>b, <2>1, <2>3, PubNames DEF PubOK, GoesOn, SameFlags
  <2>5. NoDesignLost' /\ BackupIsBase'
    BY <1>1, DesignsKept DEF IInv, CInv, AbsentIsNew, Places
  <2> QED BY <1>0, <1>1, <1>3, <1>a, <1>b, <2>2, <2>3, <2>4, <2>5, PublicationStep
<1> QED BY <1>0, <1>2, <1>3, WriteRecordEffects

LEMMA WriteReceiptKept ==
  ASSUME IInv, NEW r \in Requests, WriteReceipt(r)
  PROVE  IInv'
<1>0. TInv /\ TInv'
  BY WriteReceiptTyped DEF IInv
<1>1. /\ req[r].pc = "receipt" /\ Tx(r) \in Transactions
      /\ UNCHANGED <<live, dir, shown, record, torn>>
  BY <1>0, WriteReceiptEffects
<1>2. CASE GivesUp(r) /\ UNCHANGED <<receipt, lock, closed>>
  BY <1>0, <1>1, <1>2, GivesUpKept
<1>3. CASE /\ Receipted(Tx(r), IF req[r].op = "undo" THEN "undone" ELSE "applied")
           /\ closed' = IF req[r].op = "undo" THEN closed \cup {Tx(r)} ELSE closed
           /\ End(r)
  <2>1. req[r].pc \in Locked /\ record.vouched \in shown
    BY <1>1 DEF Locked, Publishing, IInv, CInv, ShownOK
  <2> QED BY <1>0, <1>1, <1>3, <2>1, LastKept DEF Receipted
<1> QED BY <1>0, <1>2, <1>3, WriteReceiptEffects

LEMMA RollOutKept ==
  ASSUME IInv, NEW r \in Requests, RollOut(r)
  PROVE  IInv'
<1>0. TInv /\ TInv'
  BY RollOutTyped DEF IInv
<1>1. /\ req[r].pc = "rollOut" /\ Tx(r) \in Transactions
      /\ req[r].op \in {"operation", "apply", "undo"}
      /\ UNCHANGED <<shown, record, receipt, lock, closed, torn>>
      /\ req'[r].out = req[r].out /\ req'[r].in = req[r].in
  BY <1>0, RollOutEffects
<1>2. /\ req[r].pc \in Publishing /\ "rollIn" \in Publishing /\ "rollRecord" \in Publishing
      /\ {"rollIn", "rollRecord"} \cap {"moveAway", "moveIn"} = {}
  BY <1>1 DEF Publishing
<1>3. /\ NewD(r) \in Designs /\ NewD(r) # None /\ req[r].base = receipt[Tx(r)].base
      /\ live \in shown \cup {None} /\ record.vouched \in shown
      /\ req[r].out => OldD(r) \in shown
      /\ req[r].in => req[r].out
      /\ req[r].out => Checked(r)
      /\ record = req[r].original \/ (req[r].in /\ record = NewRecord(r))
      /\ ~req[r].bad
      /\ req[r].out => dir[Tx(r)][Keep(req[r].op)] = OldD(r)
      /\ req[r].out /\ ~req[r].in => live = None
      /\ req[r].in => live = NewD(r)
  BY <1>1, <1>2, PubDesigns, DesignAssumption DEF PubOK, Designs
<1>4. CASE /\ Moved(r) /\ dir[Tx(r)][Back(req[r].op)] = None
           /\ SetDir(Tx(r), Back(req[r].op), live) /\ live' = None
           /\ GoesOn(r, "rollIn") /\ req'[r].bad = req[r].bad
  <2>1. /\ Back(req[r].op) \in Places /\ Keep(req[r].op) \in Places
        /\ Back(req[r].op) # Keep(req[r].op)
    BY <1>1 DEF Back, Keep, Places
  <2>2. PubOK(r)'
    BY <1>1, <1>2, <1>3, <1>4, <2>1, PubNames DEF PubOK, SetDir, GoesOn
  <2>3. NoDesignLost' /\ BackupIsBase'
    <3>1. Back(req[r].op) = "before" => live = receipt[Tx(r)].base
      BY <1>1, <1>3, <1>4 DEF Back, Moved, NewD
    <3> QED BY <1>1, <1>4, <2>1, <3>1, PutKept
  <2>4. \A y \in Transactions : y # Tx(r) => dir'[y] = dir[y]
    BY <1>0, <1>4 DEF SetDir, TInv, Types
  <2> QED BY <1>0, <1>1, <1>2, <1>3, <1>4, <2>2, <2>3, <2>4, PublicationStep
<1>5. CASE /\ ~Moved(r) /\ UNCHANGED <<live, dir>>
           /\ GoesOn(r, "rollIn") /\ req'[r].bad = req[r].bad
  <2>1. req[r].out => live = None
    BY <1>3, <1>5 DEF Moved
  <2>2. PubOK(r)'
    BY <1>1, <1>2, <1>3, <1>5, <2>1, PubNames DEF PubOK, GoesOn
  <2>3. NoDesignLost' /\ BackupIsBase'
    BY <1>1, <1>5, DesignsKept DEF IInv, CInv, AbsentIsNew, Places
  <2> QED BY <1>0, <1>1, <1>2, <1>3, <1>5, <2>2, <2>3, PublicationStep
<1>6. CASE /\ Moved(r) /\ UNCHANGED <<live, dir>> /\ req'[r].bad
           /\ GoesOn(r, IF req[r].op = "operation" THEN "rollRecord" ELSE "rollIn")
  <2> DEFINE pc == IF req[r].op = "operation" THEN "rollRecord" ELSE "rollIn"
  <2>0. pc \in Publishing /\ pc \in {"rollIn", "rollRecord"} /\ GoesOn(r, pc)
        /\ (pc = "rollIn" => live # None)
    BY <1>2, <1>3, <1>6 DEF Moved
  <2> HIDE DEF pc
  <2>1. PubOK(r)'
    BY <1>1, <1>2, <1>3, <1>6, <2>0, PubNames DEF PubOK, GoesOn
  <2>2. NoDesignLost' /\ BackupIsBase'
    BY <1>1, <1>6, DesignsKept DEF IInv, CInv, AbsentIsNew, Places
  <2> QED BY <1>0, <1>1, <1>2, <1>3, <1>6, <2>0, <2>1, <2>2, PublicationStep
<1> QED BY <1>0, <1>4, <1>5, <1>6, RollOutEffects

LEMMA RollInKept ==
  ASSUME IInv, NEW r \in Requests, RollIn(r)
  PROVE  IInv'
<1>0. TInv /\ TInv'
  BY RollInTyped DEF IInv
<1>1. /\ req[r].pc = "rollIn" /\ Tx(r) \in Transactions
      /\ req[r].op \in {"operation", "apply", "undo"}
      /\ UNCHANGED <<shown, record, receipt, lock, closed, torn>>
      /\ GoesOn(r, "rollRecord") /\ req'[r].out = req[r].out /\ req'[r].in = req[r].in
  BY <1>0, RollInEffects
<1>2. /\ req[r].pc \in Publishing /\ "rollRecord" \in Publishing
      /\ "rollRecord" \notin {"moveAway", "moveIn"}
  BY <1>1 DEF Publishing
<1>3. /\ live \in shown \cup {None} /\ record.vouched \in shown
      /\ req[r].out => OldD(r) \in shown
      /\ req[r].in => req[r].out
      /\ req[r].out => Checked(r)
      /\ record = req[r].original \/ (req[r].in /\ record = NewRecord(r))
      /\ req[r].bad => live # None
      /\ req[r].out /\ ~req[r].bad => live = None /\ dir[Tx(r)][Keep(req[r].op)] = OldD(r)
  BY <1>1, <1>2, PubDesigns DEF PubOK
<1>4. CASE /\ req[r].out /\ live = None /\ live' = dir[Tx(r)][Keep(req[r].op)]
           /\ SetDir(Tx(r), Keep(req[r].op), None) /\ req'[r].bad = req[r].bad
  <2>1. Keep(req[r].op) \in Places
    BY <1>1 DEF Keep, Places
  <2>2. live' = OldD(r) /\ ~req'[r].bad
    BY <1>3, <1>4
  <2>3. PubOK(r)'
    BY <1>1, <1>2, <1>3, <1>4, <2>2, PubNames DEF PubOK, GoesOn
  <2>4. NoDesignLost' /\ BackupIsBase'
    BY <1>1, <1>4, <2>1, TakeKept
  <2>5. \A y \in Transactions : y # Tx(r) => dir'[y] = dir[y]
    BY <1>0, <1>4 DEF SetDir, TInv, Types
  <2> QED BY <1>0, <1>1, <1>2, <1>3, <1>4, <2>2, <2>3, <2>4, <2>5, PublicationStep
<1>5. CASE UNCHANGED <<live, dir>> /\ (req'[r].bad \/ ~req[r].out)
  <2>1. PubOK(r)'
    BY <1>1, <1>2, <1>3, <1>5, PubNames DEF PubOK, GoesOn
  <2>2. NoDesignLost' /\ BackupIsBase'
    BY <1>1, <1>5, DesignsKept DEF IInv, CInv, AbsentIsNew, Places
  <2> QED BY <1>0, <1>1, <1>2, <1>3, <1>5, <2>1, <2>2, PublicationStep
<1> QED BY <1>0, <1>4, <1>5, RollInEffects

LEMMA RollRecordKept ==
  ASSUME IInv, NEW r \in Requests, RollRecord(r)
  PROVE  IInv'
<1>0. TInv /\ TInv'
  BY RollRecordTyped DEF IInv
<1>1. /\ req[r].pc = "rollRecord" /\ Tx(r) \in Transactions
      /\ UNCHANGED <<live, dir, shown, receipt, lock, closed, torn>>
      /\ GoesOn(r, "rollReceipt") /\ req'[r].out = req[r].out /\ req'[r].in = req[r].in
      /\ record' \in {record, req[r].original}
      /\ req'[r].bad \/ (record' = req[r].original /\ req'[r].bad = req[r].bad)
  BY <1>0, RollRecordEffects
<1>2. /\ req[r].pc \in Publishing /\ "rollReceipt" \in Publishing
      /\ "rollReceipt" \notin {"moveAway", "moveIn"}
  BY <1>1 DEF Publishing
<1>3. /\ live \in shown \cup {None} /\ record'.vouched \in shown
      /\ req[r].out => OldD(r) \in shown
      /\ PubOK(r)
  BY <1>1, <1>2, PubDesigns
<1>4. PubOK(r)'
  BY <1>1, <1>2, <1>3, PubNames DEF PubOK, GoesOn
<1>5. NoDesignLost' /\ BackupIsBase'
  BY <1>1, DesignsKept DEF IInv, CInv, AbsentIsNew, Places
<1> QED BY <1>0, <1>1, <1>2, <1>3, <1>4, <1>5, PublicationStep

LEMMA RollReceiptKept ==
  ASSUME IInv, NEW r \in Requests, RollReceipt(r)
  PROVE  IInv'
<1>0. TInv /\ TInv'
  BY RollReceiptTyped DEF IInv
<1>1. /\ req[r].pc = "rollReceipt" /\ req[r].op \in {"operation", "apply", "undo"}
      /\ Tx(r) \in Transactions /\ End(r)
      /\ UNCHANGED <<live, dir, shown, record, closed>>
      /\ \/ Receipted(Tx(r), "failed") \/ Receipted(Tx(r), "rollback_incomplete")
         \/ req[r].op # "operation" /\ Receipted(Tx(r), req[r].seen)
         \/ receipt' = receipt
  BY <1>0, RollReceiptEffects
<1>2. req[r].pc \in Locked /\ record.vouched \in shown
  BY <1>1 DEF Locked, Publishing, IInv, CInv, ShownOK
<1>3. req[r].op # "operation" => req[r].seen \in {"ready", "applied"}
  BY <1>1 DEF IInv, CInv, DeciderOK, Decider
<1>4. /\ receipt'[Tx(r)].status # "absent"
      /\ \A y \in Transactions :
           /\ receipt'[y].kind = receipt[y].kind /\ receipt'[y].base = receipt[y].base
           /\ y # Tx(r) => receipt'[y] = receipt[y]
  BY <1>1, <1>2, <1>3, HolderOwns DEF Receipted, Absent
<1> QED BY <1>0, <1>1, <1>2, <1>4, LastKept

LEMMA CrashKept ==
  ASSUME IInv, NEW r \in Requests, Crash(r)
  PROVE  IInv'
<1>1. TInv /\ TInv'
  BY CrashTyped DEF IInv
<1> QED BY <1>1, CrashEffects, EndKept

-----------------------------------------------------------------------------
\* The invariant.

LEMMA InitIInv ==
  ASSUME Init
  PROVE  IInv
<1>1. TInv
  <2>1. Types
    <3>1. NoReceipt \in Receipt /\ NoReceipt.prior \in Settled
      BY DEF NoReceipt, Receipt, ReceiptStatuses, Designs, Statuses, Settled
    <3>2. record \in Record
      BY DEF Init, Record, Statuses, Settled, Designs
    <3>3. /\ receipt \in [Transactions -> Receipt]
          /\ \A x \in Transactions : receipt[x].prior \in Settled
      BY <3>1 DEF Init
    <3>4. req \in [Requests -> Request]
      BY NoRequestTyped DEF Init
    <3>6. dir \in [Transactions -> [Places -> Designs \cup {None}]]
      BY DEF Init
    <3>5. torn \in BOOLEAN
      BY DEF Init
    <3>7. faults \in 0 .. MaxFaults
      BY BoundAssumption DEF Init
    <3>8. /\ live \in Designs \cup {None} /\ lock \in Requests \cup {None}
          /\ shown \subseteq Designs /\ closed \subseteq Transactions
      BY DEF Init, Designs
    <3> QED BY <3>2, <3>3, <3>4, <3>5, <3>6, <3>7, <3>8 DEF Types
  <2>2. \A r \in Requests : req[r] = NoRequest /\ req[r].pc \notin Locked /\ lock # r
    BY DesignAssumption DEF Init, NoRequest, Locked, Publishing
  <2> QED BY <2>1, <2>2 DEF TInv, RequestOK
<1>2. \A r \in Requests :
        /\ ~Creator(r) /\ ~Decider(r) /\ ~Holds(r) /\ req[r].pc \notin Publishing
        /\ req[r].base = Base
  BY DEF Init, NoRequest, Creator, Decider, Holds, Publishing
<1>3. CInv
  BY <1>2, DesignAssumption
  DEF Init, CInv, OneCreator, AbsentIsNew, ActiveIsRepair, ShownOK, CreatorOK, DeciderOK,
      NoReceipt
<1>4. PInv
  BY <1>2, DesignAssumption DEF Init, PInv, PubOK, NoDesignLost, BackupIsBase, Places
<1> QED BY <1>1, <1>3, <1>4 DEF IInv

LEMMA NextIInv ==
  ASSUME IInv, [Next]_vars
  PROVE  IInv'
<1>1. CASE UNCHANGED vars
  BY <1>1
  DEF vars, IInv, TInv, Types, RequestOK, Holds, Creator, Decider, Tx, CInv, OneCreator,
      AbsentIsNew, ActiveIsRepair, ShownOK, CreatorOK, DeciderOK, Absent, Published, PInv,
      PubOK, OldD, NewD, NewRecord, Checked, NoDesignLost, BackupIsBase
<1>2. CASE Next
  BY <1>2, BindKept, LoadKept, StartRepairKept, ReviseRepairKept, RecordFailureKept,
     StageRepairKept, StageOperationKept, OfferKept, OfferReceiptKept, OfferRollbackKept,
     RecordEvidenceKept, DiscardKept, DiscardRecordKept, TakeLockKept, MoveAwayKept,
     MoveInKept, WriteRecordKept, WriteReceiptKept, RollOutKept, RollInKept,
     RollRecordKept, RollReceiptKept, CrashKept, RecoverKept
  DEF Next
<1> QED BY <1>1, <1>2

LEMMA Invariant == Spec => []IInv
<1> QED BY InitIInv, NextIInv, PTL DEF Spec

\* Every variable keeps its type: the live directory, the record of the project, the
\* receipts and candidate directories, the writer lock and what each request has read.
THEOREM TypeCorrect == Spec => []TypeOK
<1>1. IInv => TypeOK
  <2> SUFFICES ASSUME IInv PROVE TypeOK
    OBVIOUS
  <2>1. \A r \in Requests : req[r] \in Request
    BY DEF IInv, TInv, Types
  <2>2. \A r \in Requests : /\ req[r].pc \in Steps /\ req[r].tx \in Transactions \cup {None}
                            /\ req[r].original \in Record \cup {None}
    BY <2>1 DEF Request
  <2> QED BY <2>2 DEF IInv, TInv, Types, TypeOK
<1> QED BY <1>1, Invariant, PTL

\* A design that was live once is still live or in a directory of some transaction,
\* whatever sequence of renames, errors, rollbacks and kills publish, revert and
\* discard go through: no rename is onto a directory that holds the only copy.
THEOREM DesignsSurvive == Spec => []NoDesignLost
<1>1. IInv => NoDesignLost
  BY DEF IInv, PInv
<1> QED BY <1>1, Invariant, PTL

\* The directory "before" of a transaction holds nothing or the design its candidate
\* was made from: the revision is compared under the lock before the live design is
\* moved there, so a revert restores exactly what the change replaced.
THEOREM BackupsExact == Spec => []BackupIsBase
<1>1. IInv => BackupIsBase
  BY DEF IInv, PInv
<1> QED BY <1>1, Invariant, PTL

-----------------------------------------------------------------------------
\* The committed record: as long as no publication was left torn, a record that
\* nobody is replacing describes the live design, and names no transaction that is
\* closed.

Sound(o, done, of) ==
  /\ o.vouched \notin done
  /\ o.last # None => o.last \notin done /\ of[o.last].base \notin done
  /\ o.active # None => /\ o.active \notin done \cup {o.vouched, o.last}
                        /\ o.last # None => o.active # of[o.last].base

KInv ==
  /\ \A x \in Transactions : receipt[x].base # x
  /\ ~torn =>
       /\ \A r \in Requests :
            /\ Holds(r) => /\ Sound(req[r].original, closed, receipt)
                           /\ req[r].original.vouched = IF req[r].out THEN OldD(r) ELSE live
            /\ req[r].pc = "discardRecord" => record.active = Tx(r)
       /\ (\A r \in Requests : req[r].pc \notin Publishing) =>
            live = record.vouched /\ Sound(record, closed, receipt)

\* The bases of the transactions that a record may name stay as they are.
BasesStay == \A y \in Transactions : ~Absent(y) => receipt'[y].base = receipt[y].base

LEMMA SoundStays ==
  ASSUME IInv, BasesStay, NEW p
  PROVE  /\ /\ Sound(record, closed, receipt)
            /\ p.vouched = record.vouched /\ p.active = record.active /\ p.last = record.last
            => Sound(p, closed, receipt')
         /\ \A r \in Requests :
              Holds(r) /\ Sound(req[r].original, closed, receipt)
              => Sound(req[r].original, closed, receipt')
<1>1. record \in Record /\ \A r \in Requests : Holds(r) => req[r].original \in Record
  <2>1. \A r \in Requests : Holds(r) => req[r].pc # "idle"
    BY DEF Holds, Publishing
  <2> QED BY <2>1, Busy DEF IInv, TInv, Types
<1>2. record.last # None => receipt'[record.last].base = receipt[record.last].base
  BY <1>1 DEF IInv, CInv, AbsentIsNew, BasesStay, Record
<1>3. \A r \in Requests : Holds(r) /\ req[r].original.last # None =>
         receipt'[req[r].original.last].base = receipt[req[r].original.last].base
  BY <1>1 DEF IInv, CInv, AbsentIsNew, BasesStay, Record
<1>4. /\ Sound(record, closed, receipt)
      /\ p.vouched = record.vouched /\ p.active = record.active /\ p.last = record.last
      => Sound(p, closed, receipt')
  BY <1>2 DEF Sound
<1>5. \A r \in Requests :
        Holds(r) /\ Sound(req[r].original, closed, receipt)
        => Sound(req[r].original, closed, receipt')
  BY <1>3 DEF Sound
<1> QED BY <1>4, <1>5

\* Nobody else is at a step under the lock.
LEMMA Alone ==
  ASSUME TInv, NEW r \in Requests, lock \in {None, r}, NEW s \in Requests, s # r
  PROVE  ~Holds(s) /\ req[s].pc \notin Publishing /\ req[s].pc # "discardRecord"
BY DesignAssumption DEF TInv, Holds, Locked

\* A step of a request that publishes nothing.
LEMMA OutsideK ==
  ASSUME IInv, KInv, NEW r \in Requests, Requested(r),
         req[r].pc \notin Publishing, req'[r].pc \notin Publishing,
         UNCHANGED <<live, torn>>, BasesStay,
         \A y \in Transactions : receipt'[y].base # y,
         lock \notin {None, r} => record' = record /\ closed' = closed,
         /\ ~torn /\ lock \in {None, r} /\ live = record.vouched
         /\ Sound(record, closed, receipt)
         => record'.vouched = live /\ Sound(record', closed', receipt'),
         Holds(r)' => /\ closed' = closed /\ ~req'[r].out
                      /\ \/ Holds(r) /\ req'[r].original = req[r].original
                         \/ lock = None /\ req'[r].original = record,
         req'[r].pc = "discardRecord" => record'.active = req'[r].tx
  PROVE  KInv'
<1>0. TInv BY DEF IInv
<1> SUFFICES ASSUME ~torn
             PROVE  /\ \A s \in Requests :
                         /\ Holds(s)' => /\ Sound(req'[s].original, closed', receipt')
                                         /\ req'[s].original.vouched
                                              = IF req'[s].out THEN OldD(s)' ELSE live
                         /\ req'[s].pc = "discardRecord" => record'.active = Tx(s)'
                    /\ (\A s \in Requests : req'[s].pc \notin Publishing) =>
                         live = record'.vouched /\ Sound(record', closed', receipt')
  BY DEF KInv
<1>1. \A s \in Requests : s # r =>
        /\ req'[s] = req[s] /\ Tx(s)' = Tx(s) /\ OldD(s)' = OldD(s) /\ (Holds(s)' <=> Holds(s))
  BY DEF Requested, Others, Tx, OldD, Holds
<1>2. CASE lock \in {None, r}
  <2>1. live = record.vouched /\ Sound(record, closed, receipt)
    BY <1>0, <1>2, Alone DEF KInv
  <2>2. record'.vouched = live /\ Sound(record', closed', receipt')
    BY <1>2, <2>1
  <2>3. ASSUME Holds(r)'
        PROVE  /\ Sound(req'[r].original, closed', receipt')
               /\ req'[r].original.vouched = live /\ ~req'[r].out
    <3>1. CASE Holds(r) /\ req'[r].original = req[r].original
      <4>1. ~req[r].out
        BY <1>0, <3>1, Busy DEF Holds, Publishing
      <4> QED BY <2>3, <3>1, <4>1, SoundStays DEF KInv
    <3>2. CASE lock = None /\ req'[r].original = record
      BY <2>1, <2>3, <3>2, SoundStays
    <3> QED BY <2>3, <3>1, <3>2
  <2>4. ASSUME NEW s \in Requests, s # r PROVE ~Holds(s)' /\ req'[s].pc # "discardRecord"
    BY <1>0, <1>1, <1>2, <2>4, Alone
  <2> QED BY <2>2, <2>3, <2>4 DEF Tx
<1>3. CASE lock \notin {None, r}
  <2>1. record' = record /\ closed' = closed
    BY <1>3
  <2>2. ~Holds(r)'
    <3>1. ~Holds(r)
      BY <1>0, <1>3, Holder DEF Holds, Locked
    <3> QED BY <1>3, <3>1
  <2>3. ASSUME NEW s \in Requests, Holds(s)'
        PROVE  /\ Sound(req'[s].original, closed', receipt')
               /\ req'[s].original.vouched = IF req'[s].out THEN OldD(s)' ELSE live
    <3>1. s # r /\ Holds(s)
      BY <1>1, <2>2, <2>3
    <3> QED BY <1>1, <2>1, <3>1, SoundStays DEF KInv
  <2>4. ASSUME NEW s \in Requests, req'[s].pc = "discardRecord" PROVE record'.active = Tx(s)'
    <3>1. CASE s = r BY <2>4, <3>1 DEF Tx
    <3>2. CASE s # r BY <1>1, <2>1, <2>4, <3>2 DEF KInv
    <3> QED BY <3>1, <3>2
  <2>5. ASSUME \A s \in Requests : req'[s].pc \notin Publishing
        PROVE  live = record'.vouched /\ Sound(record', closed', receipt')
    <3>1. \A s \in Requests : req[s].pc \notin Publishing
      BY <1>1, <2>5
    <3> QED BY <2>1, <3>1, SoundStays DEF KInv
  <2> QED BY <2>3, <2>4, <2>5
<1> QED BY <1>2, <1>3

\* A step in the middle of a publication.
LEMMA PublishingK ==
  ASSUME IInv, KInv, NEW r \in Requests, NEW pc \in Publishing, req[r].pc \in Publishing,
         GoesOn(r, pc), UNCHANGED <<receipt, closed, torn>>,
         req[r].out => req'[r].out,
         ~req'[r].out => live' = live,
         req'[r].out /\ ~req[r].out => live = OldD(r)
  PROVE  KInv'
<1>1. /\ TInv /\ lock = r /\ Holds(r) /\ req'[r].pc \in Publishing
      /\ req'[r].pc # "discardRecord" /\ OldD(r)' = OldD(r)
      /\ req'[r].original = req[r].original /\ Requested(r)
  BY Holder, PubNames DEF IInv, Locked, Holds, GoesOn, Publishing
<1>2. ASSUME NEW s \in Requests, s # r PROVE ~Holds(s)' /\ req'[s].pc # "discardRecord"
  BY <1>1, <1>2, Alone DEF Requested, Others, Holds
<1>3. ~torn => /\ Sound(req'[r].original, closed', receipt')
               /\ req'[r].original.vouched = IF req'[r].out THEN OldD(r)' ELSE live'
  BY <1>1 DEF KInv
<1>4. \A x \in Transactions : receipt'[x].base # x
  BY DEF KInv
<1> QED BY <1>1, <1>2, <1>3, <1>4 DEF KInv

\* The last step of a publication.
LEMMA EndK ==
  ASSUME IInv, KInv, NEW r \in Requests, req[r].pc \in Publishing, End(r),
         UNCHANGED <<live, record>>,
         \A y \in Transactions : receipt'[y].base = receipt[y].base,
         ~torn' => ~torn /\ live = record.vouched /\ Sound(record, closed', receipt)
  PROVE  KInv'
<1>1. TInv /\ lock = r /\ Requested(r) /\ req'[r] = NoRequest
  BY Holder, EndFacts DEF IInv, Locked, TInv, Types
<1>2. ASSUME NEW s \in Requests PROVE ~Holds(s)' /\ req'[s].pc # "discardRecord"
  <2>1. CASE s # r
    BY <1>1, <2>1, Alone DEF Requested, Others, Holds
  <2>2. CASE s = r
    BY <1>1, <2>2, IdleNames
  <2> QED BY <2>1, <2>2
<1>3. ~torn' => live' = record'.vouched /\ Sound(record', closed', receipt')
  BY DEF Sound, IInv, TInv, Types, Record
<1>4. \A x \in Transactions : receipt'[x].base # x
  BY DEF KInv
<1> QED BY <1>2, <1>3, <1>4 DEF KInv

\* A step outside publication that leaves the committed names and the closed ones.
LEMMA QuietK ==
  ASSUME IInv, KInv, NEW r \in Requests, Requested(r),
         req[r].pc \notin Publishing, req'[r].pc \notin Publishing,
         UNCHANGED <<live, torn, closed>>, BasesStay,
         \A y \in Transactions : receipt'[y].base # y,
         lock \notin {None, r} => record' = record,
         record'.active = record.active, record'.last = record.last,
         record'.vouched = record.vouched,
         Holds(r)' => Holds(r) /\ req'[r].original = req[r].original /\ ~req'[r].out,
         req'[r].pc = "discardRecord" => record.active = req'[r].tx
  PROVE  KInv'
<1>1. /\ ~torn /\ lock \in {None, r} /\ live = record.vouched
      /\ Sound(record, closed, receipt)
      => record'.vouched = live /\ Sound(record', closed', receipt')
  BY SoundStays
<1> QED BY <1>1, OutsideK

LEMMA QuietEndK ==
  ASSUME IInv, KInv, NEW r \in Requests, End(r), req[r].pc \notin Publishing,
         UNCHANGED <<live, torn, closed>>, BasesStay,
         \A y \in Transactions : receipt'[y].base # y,
         lock \notin {None, r} => record' = record,
         record'.active = record.active, record'.last = record.last,
         record'.vouched = record.vouched
  PROVE  KInv'
<1>1. Requested(r) /\ req'[r] = NoRequest
  BY EndFacts DEF IInv, TInv, Types
<1>2. ~Holds(r)' /\ req'[r].pc \notin Publishing /\ req'[r].pc # "discardRecord"
  BY <1>1, IdleNames DEF NoRequest
<1> QED BY <1>1, <1>2, QuietK

LEMMA SameBases ==
  ASSUME KInv, \A y \in Transactions : receipt'[y].base = receipt[y].base
  PROVE  BasesStay /\ \A y \in Transactions : receipt'[y].base # y
BY DEF KInv, BasesStay

LEMMA BindK ==
  ASSUME IInv, KInv, NEW r \in Requests, NEW op \in Operations, NEW x \in Transactions,
         Bind(r, op, x)
  PROVE  KInv'
<1>1. /\ Requested(r) /\ req[r] = NoRequest /\ req'[r].pc = "load"
  BY BindFacts DEF IInv
<1>2. UNCHANGED <<live, dir, shown, record, receipt, lock, closed, torn>>
  BY DEF Bind, files, history
<1>3. /\ req[r].pc \notin Publishing /\ req'[r].pc \notin Publishing /\ ~Holds(r)'
      /\ req'[r].pc # "discardRecord"
  BY <1>1 DEF NoRequest, Publishing, Holds
<1> QED BY <1>1, <1>2, <1>3, SameBases, QuietK

LEMMA LoadK ==
  ASSUME IInv, KInv, NEW r \in Requests, Load(r)
  PROVE  KInv'
<1>1. /\ UNCHANGED <<live, dir, shown, record, receipt, lock, closed, torn>>
      /\ Requested(r) /\ req[r].pc = "load"
      /\ End(r) \/ req'[r].pc = FirstStep(req[r].op)
  BY LoadFacts DEF Load, files, history, IInv
<1>2. req[r].pc \notin Publishing
  BY <1>1 DEF Publishing
<1>3. CASE End(r)
  BY <1>1, <1>2, <1>3, SameBases, QuietEndK
<1>4. CASE req'[r].pc = FirstStep(req[r].op)
  <2>1. /\ req'[r].pc \notin Publishing /\ ~Holds(r)' /\ req'[r].pc # "discardRecord"
    BY <1>4 DEF FirstStep, Publishing, Holds
  <2> QED BY <1>1, <1>2, <2>1, SameBases, QuietK
<1> QED BY <1>1, <1>3, <1>4

LEMMA StartRepairK ==
  ASSUME IInv, KInv, NEW r \in Requests, StartRepair(r)
  PROVE  KInv'
BY StartRepairFacts, SameBases, QuietK, QuietEndK DEF Publishing, Holds, Marked, IInv

LEMMA ReviseRepairK ==
  ASSUME IInv, KInv, NEW r \in Requests, ReviseRepair(r)
  PROVE  KInv'
BY ReviseRepairFacts, SameBases, QuietK, QuietEndK DEF Publishing, Holds, Marked, IInv

LEMMA RecordFailureK ==
  ASSUME IInv, KInv, NEW r \in Requests, RecordFailure(r)
  PROVE  KInv'
BY RecordFailureFacts, SameBases, QuietEndK DEF Publishing, Marked, IInv

LEMMA RecordEvidenceK ==
  ASSUME IInv, KInv, NEW r \in Requests, RecordEvidence(r)
  PROVE  KInv'
BY RecordEvidenceFacts, SameBases, QuietEndK DEF Publishing, Marked, IInv

LEMMA StagedBases ==
  ASSUME IInv, KInv, NEW r \in Requests, req[r].pc = "stage", NEW status, Staged(r, status)
  PROVE  BasesStay /\ \A y \in Transactions : receipt'[y].base # y
<1>1. /\ Tx(r) \in Transactions /\ Creator(r) /\ CreatorOK(r) /\ req[r].base \in shown
  BY Busy, Doing DEF IInv, CInv, ShownOK
<1>2. Absent(Tx(r)) /\ Tx(r) \notin shown
  BY <1>1 DEF CreatorOK, Early, Published, Rolling
<1> QED BY <1>1, <1>2 DEF BasesStay, Staged, KInv

LEMMA StageRepairK ==
  ASSUME IInv, KInv, NEW r \in Requests, StageRepair(r)
  PROVE  KInv'
<1>1. BasesStay /\ \A y \in Transactions : receipt'[y].base # y
  BY StageRepairFacts, StagedBases DEF IInv
<1> QED BY <1>1, StageRepairFacts, QuietK DEF Publishing, Holds, IInv

LEMMA StageOperationK ==
  ASSUME IInv, KInv, NEW r \in Requests, StageOperation(r)
  PROVE  KInv'
<1>1. BasesStay /\ \A y \in Transactions : receipt'[y].base # y
  BY StageOperationFacts, StagedBases, SameBases DEF IInv
<1> QED BY <1>1, StageOperationFacts, QuietK, QuietEndK DEF Publishing, Holds, IInv

LEMMA OfferK ==
  ASSUME IInv, KInv, NEW r \in Requests, Offer(r)
  PROVE  KInv'
<1>1. /\ req[r].pc = "offer" /\ req[r].op = "repair" /\ Tx(r) \in Transactions /\ lock = None
      /\ UNCHANGED <<live, dir, shown, receipt, closed, torn, faults>>
  BY OfferEffects DEF IInv
<1>2. req[r].pc \notin Publishing
  BY <1>1 DEF Publishing
<1>3. CASE End(r) /\ record' = record
  BY <1>1, <1>2, <1>3, SameBases, QuietEndK
<1>4. CASE /\ Requested(r) /\ req'[r].pc = "offerReceipt" /\ SameFlags(r)
           /\ req'[r].original = record
           /\ record'.active \in {record.active, Tx(r)}
           /\ record'.last = record.last /\ record'.vouched = record.vouched
  <2>1. ~req[r].out
    BY <1>1, <1>2, Busy DEF IInv
  <2>2. req'[r].pc \notin Publishing /\ ~req'[r].out /\ req'[r].pc # "discardRecord"
    BY <1>4, <2>1 DEF Publishing, SameFlags
  <2>3. Tx(r) \notin closed \cup shown \cup {record.last}
    BY <1>1 DEF IInv, CInv, CreatorOK, Creator
  <2>4. record.vouched \in shown /\ \A y \in Transactions : receipt[y].base \in shown
    BY DEF IInv, CInv, ShownOK
  <2>5. record.last \in Transactions \cup {None}
    BY DEF IInv, TInv, Types, Record
  <2>6. Sound(record, closed, receipt) => record'.vouched = record.vouched /\ Sound(record', closed, receipt)
    BY <1>4, <2>3, <2>4, <2>5 DEF Sound
  <2> QED BY <1>1, <1>2, <1>4, <2>2, <2>6, SameBases, OutsideK
<1> QED BY <1>3, <1>4, OfferEffects DEF Noted, Marked, IInv

LEMMA OfferReceiptK ==
  ASSUME IInv, KInv, NEW r \in Requests, OfferReceipt(r)
  PROVE  KInv'
<1>1. /\ req[r].pc = "offerReceipt" /\ lock = r
      /\ UNCHANGED <<live, dir, shown, record, closed, torn>>
      /\ \A y \in Transactions : receipt'[y].base = receipt[y].base
  BY OfferReceiptEffects DEF IInv, Receipted
<1>2. req[r].pc \notin Publishing /\ Holds(r) /\ ~req[r].out
  BY <1>1, Busy DEF Publishing, Holds, IInv
<1>3. CASE End(r)
  BY <1>1, <1>2, <1>3, SameBases, QuietEndK
<1>4. CASE Requested(r) /\ req'[r].pc = "offerRoll" /\ SameMoves(r)
  BY <1>1, <1>2, <1>4, SameBases, QuietK DEF SameMoves, SameFlags, Publishing
<1> QED BY <1>3, <1>4, OfferReceiptEffects DEF IInv

LEMMA OfferRollbackK ==
  ASSUME IInv, KInv, NEW r \in Requests, OfferRollback(r)
  PROVE  KInv'
<1>1. /\ req[r].pc = "offerRoll" /\ lock = r /\ End(r)
      /\ UNCHANGED <<live, dir, shown, closed, torn>>
      /\ record' \in {record, req[r].original}
      /\ \A y \in Transactions : receipt'[y].base = receipt[y].base
  BY OfferRollbackEffects DEF IInv, Receipted
<1>2. req[r].pc \notin Publishing /\ Holds(r) /\ ~req[r].out
  BY <1>1, Busy DEF Publishing, Holds, IInv
<1>3. Requested(r) /\ req'[r] = NoRequest
  BY <1>1, EndFacts DEF IInv, TInv, Types
<1>4. ~Holds(r)' /\ req'[r].pc \notin Publishing /\ req'[r].pc # "discardRecord"
  BY <1>3, IdleNames DEF NoRequest
<1>5. BasesStay /\ \A y \in Transactions : receipt'[y].base # y
  BY <1>1, SameBases
<1>6. /\ ~torn /\ live = record.vouched /\ Sound(record, closed, receipt)
      => record'.vouched = live /\ Sound(record', closed', receipt')
  BY <1>1, <1>2, <1>5, SoundStays DEF KInv
<1> QED BY <1>1, <1>2, <1>3, <1>4, <1>5, <1>6, OutsideK

LEMMA DiscardK ==
  ASSUME IInv, KInv, NEW r \in Requests, Discard(r)
  PROVE  KInv'
<1>1. /\ req[r].pc = "discard" /\ lock = None
      /\ UNCHANGED <<live, dir, shown, record, closed, torn>>
      /\ \A y \in Transactions : receipt'[y].base = receipt[y].base
      /\ \/ End(r)
         \/ /\ record.active = Tx(r) /\ Requested(r) /\ req'[r].pc = "discardRecord"
            /\ SameTask(r)
  BY DiscardEffects DEF IInv, Receipted
<1>2. req[r].pc \notin Publishing
  BY <1>1 DEF Publishing
<1>3. CASE End(r)
  BY <1>1, <1>2, <1>3, SameBases, QuietEndK
<1>4. CASE record.active = Tx(r) /\ Requested(r) /\ req'[r].pc = "discardRecord" /\ SameTask(r)
  BY <1>1, <1>2, <1>4, SameBases, QuietK DEF SameTask, Tx, Publishing, Holds
<1> QED BY <1>1, <1>3, <1>4

LEMMA DiscardRecordK ==
  ASSUME IInv, KInv, NEW r \in Requests, DiscardRecord(r)
  PROVE  KInv'
<1>1. /\ req[r].pc = "discardRecord" /\ lock = r /\ End(r) /\ Tx(r) \in Transactions
      /\ UNCHANGED <<live, dir, shown, receipt, torn>>
      /\ \/ Noted(receipt[Tx(r)].prior, None) /\ closed' = closed \cup {Tx(r)}
         \/ UNCHANGED <<record, closed>>
  BY DiscardRecordEffects DEF IInv
<1>2. req[r].pc \notin Publishing
  BY <1>1 DEF Publishing
<1>3. Requested(r) /\ req'[r] = NoRequest
  BY <1>1, EndFacts DEF IInv, TInv, Types
<1>4. ~Holds(r)' /\ req'[r].pc \notin Publishing /\ req'[r].pc # "discardRecord"
  BY <1>3, IdleNames DEF NoRequest
<1>5. /\ ~torn /\ live = record.vouched /\ Sound(record, closed, receipt)
      => record'.vouched = live /\ Sound(record', closed', receipt')
  <2>1. CASE Noted(receipt[Tx(r)].prior, None) /\ closed' = closed \cup {Tx(r)}
    <3> SUFFICES ASSUME ~torn, live = record.vouched, Sound(record, closed, receipt)
                 PROVE  record'.vouched = live /\ Sound(record', closed', receipt')
      OBVIOUS
    <3>1. record.active = Tx(r) /\ record.active # None
      BY <1>1, DesignAssumption DEF KInv
    <3> QED BY <1>1, <2>1, <3>1 DEF Noted, Sound
  <2>2. CASE UNCHANGED <<record, closed>>
    BY <1>1, <2>2
  <2> QED BY <1>1, <2>1, <2>2
<1> QED BY <1>1, <1>2, <1>3, <1>4, <1>5, SameBases, OutsideK

LEMMA TakeLockK ==
  ASSUME IInv, KInv, NEW r \in Requests, TakeLock(r)
  PROVE  KInv'
<1>1. /\ req[r].pc = "lock" /\ lock = None
      /\ UNCHANGED <<live, dir, shown, record, closed, torn, faults>>
      /\ Requested(r) /\ req'[r].original = record /\ ~req'[r].out
      /\ req'[r].pc \in {"moveAway", "rollOut"}
      /\ \A y \in Transactions : receipt'[y].base = receipt[y].base
  BY TakeLockEffects DEF IInv, Receipted
<1>2. /\ TInv /\ req'[r].pc \in Publishing /\ req'[r].pc # "discardRecord"
      /\ req[r].pc \notin Publishing /\ ~Holds(r)
  BY <1>1 DEF IInv, Publishing, Holds
<1>3. ~torn => /\ live = record.vouched /\ Sound(record, closed, receipt)
               /\ Sound(record, closed, receipt')
  <2>1. \A s \in Requests : req[s].pc \notin Publishing
    BY <1>1, <1>2, Alone
  <2> QED BY <1>1, <2>1, SameBases, SoundStays DEF KInv
<1>4. ASSUME NEW s \in Requests, s # r PROVE ~Holds(s)' /\ req'[s].pc # "discardRecord"
  BY <1>1, <1>2, <1>4, Alone DEF Requested, Others, Holds
<1>5. \A y \in Transactions : receipt'[y].base # y
  BY <1>1, SameBases
<1> QED BY <1>1, <1>2, <1>3, <1>4, <1>5 DEF KInv

LEMMA RecoverK ==
  ASSUME IInv, KInv, Recover
  PROVE  KInv'
<1>1. /\ UNCHANGED <<live, receipt, dir, shown, closed, torn, faults, lock, req>>
      /\ lock = None /\ record'.active = record.active /\ record'.last = record.last
      /\ record'.vouched = record.vouched
  BY RecoverFacts DEF IInv, Marked
<1>2. ASSUME NEW s \in Requests
      PROVE  ~Holds(s)' /\ req'[s].pc # "discardRecord" /\ req[s].pc \notin Publishing
  BY <1>1, DesignAssumption DEF Holds, IInv, TInv, Locked
<1>3. ~torn => live' = record'.vouched /\ Sound(record', closed', receipt')
  BY <1>1, <1>2, SameBases, SoundStays DEF KInv
<1> QED BY <1>1, <1>2, <1>3 DEF KInv

LEMMA GivesUpK ==
  ASSUME IInv, KInv, NEW r \in Requests, req[r].pc \in Publishing, GivesUp(r),
         UNCHANGED <<live, receipt, closed, torn>>
  PROVE  KInv'
<1>1. /\ "rollOut" \in Publishing /\ GoesOn(r, "rollOut") /\ req'[r].out = req[r].out
  BY DEF Publishing, GivesUp, GoesOn, SameMoves, SameFlags
<1> QED BY <1>1, PublishingK

LEMMA MoveAwayK ==
  ASSUME IInv, KInv, NEW r \in Requests, MoveAway(r)
  PROVE  KInv'
<1>1. /\ req[r].pc = "moveAway" /\ UNCHANGED <<shown, record, receipt, lock, closed, torn>>
      /\ \/ GoesOn(r, "moveIn") /\ req'[r].out
         \/ GivesUp(r) /\ UNCHANGED <<live, dir>>
  BY MoveAwayEffects DEF IInv
<1>2. req[r].pc \in Publishing /\ "moveIn" \in Publishing
  BY <1>1 DEF Publishing
<1>3. live = OldD(r)
  BY <1>1, <1>2, PubDesigns DEF PubOK
<1> QED BY <1>1, <1>2, <1>3, PublishingK, GivesUpK

LEMMA MoveInK ==
  ASSUME IInv, KInv, NEW r \in Requests, MoveIn(r)
  PROVE  KInv'
<1>1. /\ req[r].pc = "moveIn" /\ UNCHANGED <<record, receipt, lock, closed, torn>>
      /\ \/ GoesOn(r, "record") /\ req'[r].out = req[r].out
         \/ GivesUp(r) /\ UNCHANGED <<live, dir, shown>>
  BY MoveInEffects DEF IInv
<1>2. req[r].pc \in Publishing /\ "record" \in Publishing
  BY <1>1 DEF Publishing
<1>3. req[r].out
  BY <1>1, <1>2, PubDesigns DEF PubOK
<1> QED BY <1>1, <1>2, <1>3, PublishingK, GivesUpK

LEMMA WriteRecordK ==
  ASSUME IInv, KInv, NEW r \in Requests, WriteRecord(r)
  PROVE  KInv'
<1>1. /\ req[r].pc = "record" /\ UNCHANGED <<live, dir, shown, receipt, lock, closed, torn>>
      /\ \/ GoesOn(r, "receipt") /\ SameFlags(r)
         \/ GivesUp(r)
  BY WriteRecordEffects DEF IInv
<1>2. req[r].pc \in Publishing /\ "receipt" \in Publishing
  BY <1>1 DEF Publishing
<1> QED BY <1>1, <1>2, PublishingK, GivesUpK DEF SameFlags

LEMMA RollOutK ==
  ASSUME IInv, KInv, NEW r \in Requests, RollOut(r)
  PROVE  KInv'
<1>1. /\ req[r].pc = "rollOut" /\ UNCHANGED <<shown, record, receipt, lock, closed, torn>>
      /\ req'[r].out = req[r].out
      /\ GoesOn(r, "rollIn") \/ GoesOn(r, "rollRecord")
      /\ Moved(r) \/ live' = live
  BY RollOutEffects DEF IInv
<1>2. req[r].pc \in Publishing /\ "rollIn" \in Publishing /\ "rollRecord" \in Publishing
  BY <1>1 DEF Publishing
<1>3. Moved(r) => req[r].out
  BY <1>1, <1>2, PubDesigns DEF PubOK, Moved
<1> QED BY <1>1, <1>2, <1>3, PublishingK

LEMMA RollInK ==
  ASSUME IInv, KInv, NEW r \in Requests, RollIn(r)
  PROVE  KInv'
<1>1. /\ req[r].pc = "rollIn" /\ UNCHANGED <<shown, record, receipt, lock, closed, torn>>
      /\ req'[r].out = req[r].out /\ GoesOn(r, "rollRecord")
      /\ req[r].out \/ live' = live
  BY RollInEffects DEF IInv
<1>2. req[r].pc \in Publishing /\ "rollRecord" \in Publishing
  BY <1>1 DEF Publishing
<1> QED BY <1>1, <1>2, PublishingK

LEMMA RollRecordK ==
  ASSUME IInv, KInv, NEW r \in Requests, RollRecord(r)
  PROVE  KInv'
<1>1. /\ req[r].pc = "rollRecord" /\ UNCHANGED <<live, dir, shown, receipt, lock, closed, torn>>
      /\ req'[r].out = req[r].out /\ GoesOn(r, "rollReceipt")
  BY RollRecordEffects DEF IInv
<1>2. req[r].pc \in Publishing /\ "rollReceipt" \in Publishing
  BY <1>1 DEF Publishing
<1> QED BY <1>1, <1>2, PublishingK

\* A publication that has reached its receipt.
LEMMA PublishedSound ==
  ASSUME IInv, KInv, ~torn, NEW r \in Requests, req[r].pc = "receipt"
  PROVE  /\ live = record.vouched /\ record = NewRecord(r) /\ record.vouched = NewD(r)
         /\ req[r].original.vouched = OldD(r) /\ Tx(r) \in Transactions
         /\ ~Absent(Tx(r)) /\ receipt[Tx(r)].base = req[r].base
         /\ req[r].op \in {"operation", "apply", "undo"}
         /\ req[r].op # "undo" => Tx(r) \notin closed
         /\ Sound(record, closed, receipt)
         /\ req[r].op = "undo" => Sound(record, closed \cup {Tx(r)}, receipt)
<1>1. req[r].pc \in Publishing /\ Holds(r) /\ TInv
  BY DEF Publishing, Holds, IInv
<1>2. /\ req[r].op \in {"operation", "apply", "undo"} /\ Tx(r) \in Transactions
      /\ ~Absent(Tx(r)) /\ req[r].original \in Record
  BY <1>1, Publisher, HolderOwns DEF Locked
<1>3. /\ req[r].base = receipt[Tx(r)].base /\ req[r].base # Tx(r) /\ record = NewRecord(r)
      /\ req[r].out /\ live = NewD(r) /\ Checked(r)
  BY <1>1, <1>2, PubDesigns DEF PubOK, KInv
<1>4. /\ Sound(req[r].original, closed, receipt) /\ req[r].original.vouched = OldD(r)
  BY <1>1, <1>3 DEF KInv
<1> DEFINE o == req[r].original
<1>5. /\ record.vouched = NewD(r)
      /\ record.active = IF req[r].op = "apply" THEN None ELSE o.active
      /\ record.last = IF req[r].op = "undo" THEN None ELSE Tx(r)
  BY <1>3 DEF NewRecord
<1>6. CASE req[r].op = "apply"
  <2>1. o.active = Tx(r) /\ Tx(r) # None
    BY <1>2, <1>3, <1>6, DesignAssumption DEF Checked
  <2>2. /\ NewD(r) = Tx(r) /\ OldD(r) = req[r].base
    BY <1>6 DEF NewD, OldD
  <2>3. Sound(record, closed, receipt) /\ Tx(r) \notin closed
    BY <1>3, <1>4, <1>5, <1>6, <2>1, <2>2 DEF Sound
  <2> QED BY <1>2, <1>3, <1>4, <1>5, <1>6, <2>3
<1>7. CASE req[r].op = "operation"
  <2>1. /\ Tx(r) \notin closed /\ Tx(r) \notin {o.active, o.last}
    BY <1>1, <1>7 DEF IInv, CInv, CreatorOK, Creator
  <2>2. /\ NewD(r) = Tx(r) /\ OldD(r) = req[r].base
    BY <1>7 DEF NewD, OldD
  <2>3. Sound(record, closed, receipt)
    BY <1>3, <1>4, <1>5, <1>7, <2>1, <2>2 DEF Sound
  <2> QED BY <1>2, <1>3, <1>4, <1>5, <1>7, <2>1, <2>3
<1>8. CASE req[r].op = "undo"
  <2>1. o.last = Tx(r) /\ Tx(r) # None
    BY <1>2, <1>3, <1>8, DesignAssumption DEF Checked
  <2>2. /\ NewD(r) = req[r].base /\ OldD(r) = Tx(r)
    BY <1>8 DEF NewD, OldD
  <2>3. Sound(record, closed, receipt) /\ Sound(record, closed \cup {Tx(r)}, receipt)
    BY <1>3, <1>4, <1>5, <1>8, <2>1, <2>2 DEF Sound
  <2> QED BY <1>2, <1>3, <1>4, <1>5, <1>8, <2>3
<1> QED BY <1>2, <1>6, <1>7, <1>8

\* A rollback that has failed nowhere and a publication that has moved nothing.
LEMMA RestoredSound ==
  ASSUME IInv, KInv, ~torn, NEW r \in Requests, req[r].pc \in Publishing,
         \/ req[r].pc = "rollReceipt" /\ ~req[r].bad
         \/ ~req[r].out
  PROVE  live = record.vouched /\ Sound(record, closed, receipt) /\ record = req[r].original
<1>1. Holds(r) /\ PubOK(r)
  BY PubDesigns DEF Holds
<1>2. /\ record = req[r].original
      /\ req[r].out => live = OldD(r)
  BY <1>1 DEF PubOK
<1> QED BY <1>1, <1>2 DEF KInv

LEMMA WriteReceiptK ==
  ASSUME IInv, KInv, NEW r \in Requests, WriteReceipt(r)
  PROVE  KInv'
<1>1. /\ req[r].pc = "receipt" /\ UNCHANGED <<live, dir, shown, record, torn>>
      /\ \/ /\ Receipted(Tx(r), IF req[r].op = "undo" THEN "undone" ELSE "applied")
            /\ closed' = IF req[r].op = "undo" THEN closed \cup {Tx(r)} ELSE closed
            /\ End(r)
         \/ GivesUp(r) /\ UNCHANGED <<receipt, lock, closed>>
  BY WriteReceiptEffects DEF IInv
<1>2. req[r].pc \in Publishing
  BY <1>1 DEF Publishing
<1>3. ~torn => live = record.vouched /\ Sound(record, closed, receipt)
               /\ (req[r].op = "undo" => Sound(record, closed \cup {Tx(r)}, receipt))
  BY <1>1, PublishedSound
<1> QED BY <1>1, <1>2, <1>3, EndK, GivesUpK DEF Receipted

LEMMA RollReceiptK ==
  ASSUME IInv, KInv, NEW r \in Requests, RollReceipt(r)
  PROVE  KInv'
<1>1. /\ req[r].pc = "rollReceipt" /\ End(r) /\ UNCHANGED <<live, dir, shown, record, closed>>
      /\ torn' = (torn \/ req[r].bad)
      /\ \A y \in Transactions : receipt'[y].base = receipt[y].base
  BY RollReceiptEffects DEF IInv, Receipted
<1>2. req[r].pc \in Publishing
  BY <1>1 DEF Publishing
<1>3. ~torn' => ~torn /\ live = record.vouched /\ Sound(record, closed', receipt)
  BY <1>1, <1>2, RestoredSound
<1> QED BY <1>1, <1>2, <1>3, EndK

LEMMA CrashK ==
  ASSUME IInv, KInv, NEW r \in Requests, Crash(r)
  PROVE  KInv'
<1>1. /\ req[r].pc # "idle" /\ End(r) /\ torn' = (torn \/ HalfDone(r))
      /\ UNCHANGED <<live, dir, shown, record, receipt, closed>>
  BY CrashEffects DEF IInv
<1>2. CASE req[r].pc \notin Publishing
  <2>1. ~HalfDone(r)
    BY <1>1, <1>2, Busy DEF HalfDone, IInv
  <2>2. torn' = torn
    BY <1>1, <2>1 DEF IInv, TInv, Types
  <2> QED BY <1>1, <1>2, <2>2, SameBases, QuietEndK
<1>3. CASE req[r].pc \in Publishing
  <2>1. ASSUME ~torn' PROVE ~torn /\ live = record.vouched /\ Sound(record, closed', receipt)
    <3>1. ~torn /\ ~HalfDone(r)
      BY <1>1, <2>1
    <3>2. CASE req[r].pc = "receipt"
      BY <1>1, <3>1, <3>2, PublishedSound
    <3>3. CASE req[r].pc = "rollReceipt"
      BY <1>1, <1>3, <3>1, <3>3, RestoredSound DEF HalfDone
    <3>4. CASE req[r].pc \notin {"receipt", "rollReceipt"}
      <4>1. ~req[r].out
        BY <1>3, <3>1, <3>4, PubDesigns DEF HalfDone, Publishing, PubOK
      <4> QED BY <1>1, <1>3, <3>1, <4>1, RestoredSound
    <3> QED BY <3>2, <3>3, <3>4
  <2> QED BY <1>1, <1>3, <2>1, EndK
<1> QED BY <1>2, <1>3

LEMMA InitKInv ==
  ASSUME Init
  PROVE  KInv
<1>1. \A r \in Requests : ~Holds(r) /\ req[r].pc # "discardRecord"
  BY DEF Init, NoRequest, Holds, Publishing
<1>2. live = record.vouched /\ Sound(record, closed, receipt)
  BY DEF Init, Sound
<1>3. \A x \in Transactions : receipt[x].base # x
  BY DesignAssumption DEF Init, NoReceipt
<1> QED BY <1>1, <1>2, <1>3 DEF KInv

LEMMA NextKInv ==
  ASSUME IInv, KInv, [Next]_vars
  PROVE  KInv'
<1>1. CASE UNCHANGED vars
  BY <1>1 DEF vars, KInv, Sound, Holds, OldD, Tx
<1>2. CASE Next
  BY <1>2, BindK, LoadK, StartRepairK, ReviseRepairK, RecordFailureK, StageRepairK,
     StageOperationK, OfferK, OfferReceiptK, OfferRollbackK, RecordEvidenceK, DiscardK,
     DiscardRecordK, TakeLockK, MoveAwayK, MoveInK, WriteRecordK, WriteReceiptK, RollOutK,
     RollInK, RollRecordK, RollReceiptK, CrashK, RecoverK
  DEF Next
<1> QED BY <1>1, <1>2

LEMMA Committed == Spec => [](IInv /\ KInv)
<1>1. Init => IInv /\ KInv
  BY InitIInv, InitKInv
<1>2. (IInv /\ KInv) /\ [Next]_vars => (IInv /\ KInv)'
  BY NextIInv, NextKInv
<1> QED BY <1>1, <1>2, PTL DEF Spec

\* While nobody holds the writer lock and no rollback was left incomplete, the live
\* directory is the design the project record was last written for: a publication
\* that fails or is killed restores both or moves both.
THEOREM LiveIsVouched == Spec => []LiveMatchesRecord
<1>1. IInv /\ KInv => LiveMatchesRecord
  BY DesignAssumption DEF IInv, TInv, KInv, LiveMatchesRecord, Locked
<1> QED BY <1>1, Committed, PTL

-----------------------------------------------------------------------------
\* The design that comes in.

LEMMA ComesIn ==
  ASSUME IInv, KInv, ~torn, NEW r \in Requests, MoveIn(r), live' # live
  PROVE  live' \notin closed
<1>1. req[r].pc = "moveIn" /\ live' = dir[Tx(r)][Source(req[r].op)]
  BY MoveInEffects DEF IInv, GivesUp
<1>2. /\ req[r].pc \in Publishing /\ Holds(r)
      /\ req[r].op \in {"operation", "apply", "undo"} /\ Tx(r) \in Transactions
  BY <1>1, Publisher DEF Publishing, Holds, IInv
<1>3. /\ live' = NewD(r) /\ req[r].out /\ Checked(r)
      /\ Sound(req[r].original, closed, receipt)
  BY <1>1, <1>2, PubDesigns DEF PubOK, KInv
<1>4. CASE req[r].op = "operation"
  BY <1>2, <1>3, <1>4 DEF IInv, CInv, CreatorOK, Creator, NewD
<1>5. CASE req[r].op = "apply"
  BY <1>2, <1>3, <1>5, DesignAssumption DEF Checked, Sound, NewD
<1>6. CASE req[r].op = "undo"
  <2>1. Decider(r) /\ req[r].pc # "load"
    BY <1>1, <1>6 DEF Decider
  <2>2. req[r].base = receipt[Tx(r)].base
    BY <1>2, <2>1 DEF IInv, CInv, DeciderOK
  <2> QED BY <1>2, <1>3, <1>6, <2>2, DesignAssumption DEF Checked, Sound, NewD
<1> QED BY <1>2, <1>4, <1>5, <1>6

\* The design that comes back.
LEMMA ComesBack ==
  ASSUME IInv, KInv, ~torn, NEW r \in Requests, RollIn(r), live' # live
  PROVE  live' \notin closed
<1>1. /\ req[r].pc = "rollIn" /\ req[r].out /\ live = None
      /\ live' = dir[Tx(r)][Keep(req[r].op)]
  BY RollInEffects DEF IInv
<1>2. req[r].pc \in Publishing /\ Holds(r)
  BY <1>1 DEF Publishing, Holds
<1>3. live' = OldD(r)
  BY <1>1, <1>2, PubDesigns DEF PubOK
<1> QED BY <1>1, <1>2, <1>3 DEF KInv, Sound

\* A change that was discarded or undone does not become the live design again, as
\* long as no publication was left torn: a request that had read the candidate before
\* is stopped by the revision it compares under the lock.
THEOREM ClosedStayClosed == Spec => NeverRevived
<1>1. IInv /\ KInv /\ [Next]_vars => [~torn => \A x \in closed : live' = x => live = x]_vars
  <2> SUFFICES ASSUME IInv, KInv, [Next]_vars, ~torn, live' # live
               PROVE  live' \notin closed
    BY DEF vars
  <2>1. Next
    BY DEF vars
  <2>2. None \notin closed
    BY DesignAssumption DEF IInv, TInv, Types
  <2>3. ASSUME NEW r \in Requests, MoveAway(r) \/ RollOut(r) PROVE live' \notin closed
    BY <2>2, <2>3 DEF MoveAway, RollOut
  <2> QED BY <2>1, <2>3, ComesIn, ComesBack
       DEF Next, Bind, Load, StartRepair, ReviseRepair, RecordFailure, StageRepair,
           StageOperation, Offer, OfferReceipt, OfferRollback, RecordEvidence, Discard,
           DiscardRecord, TakeLock, WriteRecord, WriteReceipt, RollRecord, RollReceipt,
           Crash, Recover, files
<1> QED BY <1>1, Committed, PTL DEF Spec, NeverRevived

-----------------------------------------------------------------------------
\* Publication implements the replacement of the design in one step.

Origins == [x \in Transactions |-> IF receipt[x].status = "absent" THEN None ELSE receipt[x].base]

\* What a reader relies on stays as it is.
Stutters == /\ PublishedDesign' = PublishedDesign /\ Origins' = Origins
            /\ closed' = closed /\ torn' = torn

AtomicStep == Stutters \/ Atomic!Replace

LEMMA DesignIs ==
  /\ TInv => /\ \A r \in Requests : req[r].pc \in Publishing =>
                   PublishedDesign = req[r].original.vouched
             /\ (\A r \in Requests : req[r].pc \notin Publishing) =>
                   PublishedDesign = record.vouched
  /\ TInv' => /\ \A r \in Requests : req'[r].pc \in Publishing =>
                   PublishedDesign' = req'[r].original.vouched
              /\ (\A r \in Requests : req'[r].pc \notin Publishing) =>
                   PublishedDesign' = record'.vouched
BY DesignAssumption DEF TInv, Types, Locked, PublishedDesign

LEMMA OriginsStay ==
  /\ receipt' = receipt => Origins' = Origins
  /\ \A x \in Transactions : \A s :
       Receipted(x, s) /\ s # "absent" /\ ~Absent(x) => Origins' = Origins
BY DEF Origins, Receipted, Absent

\* A step outside publication.
LEMMA OutsideDesign ==
  ASSUME TInv, TInv', NEW r \in Requests, Requested(r),
         req[r].pc \notin Publishing, req'[r].pc \notin Publishing,
         record'.vouched = record.vouched
  PROVE  PublishedDesign' = PublishedDesign
<1>1. CASE \E s \in Requests : req[s].pc \in Publishing
  <2>1. PICK s \in Requests : req[s].pc \in Publishing
    BY <1>1
  <2>2. s # r /\ req'[s] = req[s]
    BY <2>1 DEF Requested, Others
  <2> QED BY <2>1, <2>2, DesignIs
<1>2. CASE \A s \in Requests : req[s].pc \notin Publishing
  <2>1. \A s \in Requests : req'[s].pc \notin Publishing
    BY <1>2 DEF Requested, Others
  <2> QED BY <1>2, <2>1, DesignIs
<1> QED BY <1>1, <1>2

LEMMA OutsideStutters ==
  ASSUME TInv, TInv', NEW r \in Requests, End(r) \/ (Requested(r) /\ req'[r].pc \notin Publishing),
         req[r].pc \notin Publishing, record'.vouched = record.vouched,
         Origins' = Origins, UNCHANGED <<closed, torn>>
  PROVE  Stutters
<1>1. Requested(r) /\ req'[r].pc \notin Publishing
  BY EndFacts DEF TInv, Types, NoRequest, Publishing
<1> QED BY <1>1, OutsideDesign DEF Stutters

\* A step in the middle of a publication.
LEMMA PublishingStutters ==
  ASSUME TInv, TInv', NEW r \in Requests, NEW pc \in Publishing, req[r].pc \in Publishing,
         GoesOn(r, pc), UNCHANGED <<receipt, closed, torn>>
  PROVE  Stutters
<1>1. req'[r].pc \in Publishing /\ req'[r].original = req[r].original
  BY DEF GoesOn
<1>2. PublishedDesign' = PublishedDesign
  BY <1>1, DesignIs
<1> QED BY <1>2, OriginsStay DEF Stutters

LEMMA StagedStep ==
  ASSUME IInv, TInv', ~torn, torn' = torn, NEW r \in Requests, req[r].pc = "stage",
         End(r) \/ (Requested(r) /\ req'[r].pc \notin Publishing),
         UNCHANGED <<record, closed>>, NEW status \in {"preparing", "failed"}, Staged(r, status)
  PROVE  Atomic!Replace
<1>1. /\ Tx(r) \in Transactions /\ CreatorOK(r) /\ Creator(r)
      /\ req[r].base \in Designs
  BY Busy, Doing DEF IInv, CInv, TInv, Types, Request
<1>2. Absent(Tx(r))
  BY <1>1 DEF CreatorOK, Early
<1>3. /\ Origins[Tx(r)] = None
      /\ Origins' = [Origins EXCEPT ![Tx(r)] = req[r].base]
  BY <1>1, <1>2 DEF Origins, Absent, Staged
<1>4. PublishedDesign' = PublishedDesign
  <2>1. Requested(r) /\ req'[r].pc \notin Publishing
    BY EndFacts DEF IInv, TInv, Types, NoRequest, Publishing
  <2> QED BY <2>1, OutsideDesign DEF IInv, Publishing
<1>5. \E x \in Transactions : Atomic!Stage(x)
  BY <1>1, <1>3, <1>4 DEF Atomic!Stage, Origins, Designs
<1> QED BY <1>5 DEF Atomic!Replace

\* The record of a discard is written.
LEMMA DiscardStep ==
  ASSUME IInv, KInv, TInv', ~torn, NEW r \in Requests, DiscardRecord(r)
  PROVE  AtomicStep
<1>1. /\ req[r].pc = "discardRecord" /\ lock = r /\ End(r) /\ Tx(r) \in Transactions
      /\ UNCHANGED <<live, dir, shown, receipt, torn>>
      /\ \/ Noted(receipt[Tx(r)].prior, None) /\ closed' = closed \cup {Tx(r)}
         \/ UNCHANGED <<record, closed>>
  BY DiscardRecordEffects DEF IInv
<1>2. /\ req[r].pc \notin Publishing /\ Requested(r) /\ req'[r].pc \notin Publishing
      /\ TInv /\ record'.vouched = record.vouched
  BY <1>1, EndFacts DEF Publishing, IInv, TInv, Types, NoRequest, Noted
<1>3. PublishedDesign' = PublishedDesign /\ Origins' = Origins
  BY <1>1, <1>2, OutsideDesign, OriginsStay
<1>4. CASE UNCHANGED <<record, closed>>
  BY <1>1, <1>3, <1>4 DEF AtomicStep, Stutters
<1>5. CASE closed' = closed \cup {Tx(r)}
  <2>1. \A s \in Requests : req[s].pc \notin Publishing
    BY <1>1, <1>2, Alone
  <2>2. PublishedDesign = record.vouched /\ PublishedDesign # Tx(r)
    BY <1>1, <1>2, <2>1, DesignIs, DesignAssumption DEF KInv, Sound
  <2>3. Atomic!Discard(Tx(r))
    BY <1>3, <1>5, <2>2 DEF Atomic!Discard, Origins
  <2> QED BY <1>1, <2>3 DEF Atomic!Replace, AtomicStep
<1> QED BY <1>1, <1>4, <1>5

\* A publication ends, and its record stands.
LEMMA PublishedStep ==
  ASSUME IInv, KInv, TInv', ~torn, torn' = torn, NEW r \in Requests, req[r].pc = "receipt",
         End(r), record' = record, Origins' = Origins,
         \/ closed' = closed
         \/ req[r].op = "undo" /\ closed' = closed \cup {Tx(r)}
  PROVE  Atomic!Replace
<1>1. /\ record.vouched = NewD(r) /\ req[r].original.vouched = OldD(r)
      /\ Tx(r) \in Transactions /\ ~Absent(Tx(r)) /\ receipt[Tx(r)].base = req[r].base
      /\ req[r].op \in {"operation", "apply", "undo"}
      /\ req[r].op # "undo" => Tx(r) \notin closed
  BY PublishedSound
<1>2. req[r].pc \in Publishing /\ TInv
  BY DEF Publishing, IInv
<1>3. PublishedDesign = OldD(r)
  BY <1>1, <1>2, DesignIs
<1>4. PublishedDesign' = NewD(r)
  <2>1. Requested(r) /\ req'[r] = NoRequest /\ lock = r
    BY <1>2, EndFacts, Holder DEF TInv, Types, Locked
  <2>2. \A s \in Requests : req'[s].pc \notin Publishing
    BY <1>2, <2>1, Alone DEF Requested, Others, NoRequest, Publishing
  <2> QED BY <1>1, <2>2, DesignIs
<1>5. Origins[Tx(r)] = req[r].base
  BY <1>1 DEF Origins, Absent
<1>6. CASE req[r].op = "undo"
  <2>1. Atomic!Undo(Tx(r))
    BY <1>3, <1>4, <1>5, <1>6 DEF Atomic!Undo, Origins, OldD, NewD
  <2> QED BY <1>1, <2>1 DEF Atomic!Replace
<1>7. CASE req[r].op # "undo"
  <2>1. Atomic!Publish(Tx(r))
    BY <1>1, <1>3, <1>4, <1>5, <1>7 DEF Atomic!Publish, Origins, OldD, NewD
  <2> QED BY <1>1, <2>1 DEF Atomic!Replace
<1> QED BY <1>6, <1>7

\* A publication ends, and the record it had found stands.
LEMMA RestoredStep ==
  ASSUME IInv, KInv, TInv', ~torn, torn' = torn, NEW r \in Requests, req[r].pc \in Publishing,
         \/ req[r].pc = "rollReceipt" /\ ~req[r].bad
         \/ ~req[r].out,
         End(r), UNCHANGED <<record, closed>>, Origins' = Origins
  PROVE  Stutters
<1>1. TInv /\ record = req[r].original
  BY RestoredSound DEF IInv
<1>2. Requested(r) /\ req'[r] = NoRequest /\ lock = r
  BY <1>1, EndFacts, Holder DEF TInv, Types, Locked
<1>3. \A s \in Requests : req'[s].pc \notin Publishing
  BY <1>1, <1>2, Alone DEF Requested, Others, NoRequest, Publishing
<1> QED BY <1>1, <1>3, DesignIs DEF Stutters

LEMMA CrashStep ==
  ASSUME IInv, KInv, TInv', ~torn, ~torn', NEW r \in Requests, Crash(r)
  PROVE  AtomicStep
<1>1. /\ req[r].pc # "idle" /\ End(r) /\ torn' = (torn \/ HalfDone(r))
      /\ UNCHANGED <<live, dir, shown, record, receipt, closed>>
  BY CrashEffects DEF IInv
<1>2. ~HalfDone(r) /\ torn' = torn /\ Origins' = Origins
  BY <1>1, OriginsStay DEF IInv, TInv, Types
<1>3. CASE req[r].pc \notin Publishing
  BY <1>1, <1>2, <1>3, OutsideStutters DEF IInv, AtomicStep
<1>4. CASE req[r].pc = "receipt"
  BY <1>1, <1>2, <1>4, PublishedStep DEF AtomicStep
<1>5. CASE req[r].pc = "rollReceipt"
  BY <1>1, <1>2, <1>5, RestoredStep DEF HalfDone, AtomicStep, Publishing
<1>6. CASE req[r].pc \in Publishing \ {"receipt", "rollReceipt"}
  <2>1. ~req[r].out
    BY <1>2, <1>6, PubDesigns DEF HalfDone, Publishing, PubOK
  <2> QED BY <1>1, <1>2, <1>6, <2>1, RestoredStep DEF AtomicStep
<1> QED BY <1>3, <1>4, <1>5, <1>6

LEMMA StageStep ==
  ASSUME IInv, KInv, TInv', ~torn, NEW r \in Requests, StageRepair(r) \/ StageOperation(r)
  PROVE  AtomicStep
<1>1. TInv /\ req[r].pc = "stage" /\ req[r].pc \notin Publishing
  BY DEF IInv, StageRepair, StageOperation, At, Publishing
<1>2. CASE StageRepair(r)
  <2>1. req'[r].pc \notin Publishing /\ Requested(r) /\ UNCHANGED <<record, closed, torn>>
    BY <1>1, <1>2, StageRepairFacts DEF Publishing
  <2> QED BY <1>1, <1>2, <2>1, StageRepairFacts, StagedStep DEF AtomicStep
<1>3. CASE StageOperation(r)
  <2>1. /\ End(r) \/ (Requested(r) /\ req'[r].pc \notin Publishing)
        /\ UNCHANGED <<record, closed, torn>>
    BY <1>1, <1>3, StageOperationFacts DEF Publishing
  <2>2. CASE UNCHANGED <<receipt, dir>>
    BY <1>1, <2>1, <2>2, OutsideStutters, OriginsStay DEF AtomicStep
  <2> QED BY <1>1, <1>3, <2>1, <2>2, StageOperationFacts, StagedStep DEF AtomicStep
<1> QED BY <1>2, <1>3

\* The steps of an offer, of evidence and of a decision before its lock.
LEMMA BeforeStep ==
  ASSUME IInv, KInv, TInv', ~torn, NEW r \in Requests,
         \/ \E op \in Operations, x \in Transactions : Bind(r, op, x)
         \/ Load(r) \/ StartRepair(r) \/ ReviseRepair(r) \/ RecordFailure(r) \/ RecordEvidence(r)
  PROVE  Stutters
<1>1. TInv BY DEF IInv
<1>2. /\ End(r) \/ (Requested(r) /\ req'[r].pc \notin Publishing)
      /\ req[r].pc \notin Publishing /\ record'.vouched = record.vouched
      /\ UNCHANGED <<receipt, closed, torn>>
  <2>1. CASE \E op \in Operations, x \in Transactions : Bind(r, op, x)
    <3>1. /\ Requested(r) /\ req[r] = NoRequest /\ req'[r].pc = "load"
      BY <1>1, <2>1, BindFacts
    <3>2. UNCHANGED <<receipt, record, closed, torn>>
      BY <2>1 DEF Bind, history
    <3>3. req[r].pc \notin Publishing /\ req'[r].pc \notin Publishing
      BY <3>1 DEF NoRequest, Publishing
    <3> QED BY <3>1, <3>2, <3>3
  <2>2. CASE Load(r)
    <3>1. /\ UNCHANGED <<receipt, record, closed, torn>> /\ req[r].pc = "load"
          /\ End(r) \/ (Requested(r) /\ req'[r].pc = FirstStep(req[r].op))
      BY <1>1, <2>2, LoadFacts DEF Load, files, history
    <3> QED BY <3>1 DEF FirstStep, Publishing
  <2>3. CASE StartRepair(r)
    BY <1>1, <2>3, StartRepairFacts DEF Marked, Publishing
  <2>4. CASE ReviseRepair(r)
    BY <1>1, <2>4, ReviseRepairFacts DEF Marked, Publishing
  <2>5. CASE RecordFailure(r)
    BY <1>1, <2>5, RecordFailureFacts DEF Marked, Publishing
  <2>6. CASE RecordEvidence(r)
    BY <1>1, <2>6, RecordEvidenceFacts DEF Marked, Publishing
  <2> QED BY <2>1, <2>2, <2>3, <2>4, <2>5, <2>6
<1> QED BY <1>1, <1>2, OutsideStutters, OriginsStay

LEMMA OfferStep ==
  ASSUME IInv, KInv, TInv', ~torn, NEW r \in Requests,
         Offer(r) \/ OfferReceipt(r) \/ OfferRollback(r) \/ Discard(r)
  PROVE  Stutters
<1>1. TInv BY DEF IInv
<1>2. /\ End(r) \/ (Requested(r) /\ req'[r].pc \notin Publishing)
      /\ req[r].pc \notin Publishing /\ record'.vouched = record.vouched
      /\ UNCHANGED <<closed, torn>> /\ Origins' = Origins
  <2>1. CASE Offer(r)
    BY <1>1, <2>1, OfferEffects, OriginsStay DEF Noted, Marked, Publishing
  <2>2. CASE OfferReceipt(r)
    <3>1. req[r].pc = "offerReceipt" /\ req[r].seen # "absent" /\ ~Absent(Tx(r))
      BY <1>1, <2>2, OfferReceiptEffects, HolderOwns
      DEF IInv, CInv, CreatorOK, Creator, Locked
    <3> QED BY <1>1, <2>2, <3>1, OfferReceiptEffects, OriginsStay DEF Publishing
  <2>3. CASE OfferRollback(r)
    <3>1. /\ req[r].pc = "offerRoll" /\ lock = r /\ UNCHANGED <<closed, torn>> /\ End(r)
          /\ record' \in {record, req[r].original} /\ Tx(r) \in Transactions
          /\ receipt' = receipt \/ Receipted(Tx(r), "rollback_incomplete")
      BY <1>1, <2>3, OfferRollbackEffects
    <3>2. req[r].pc \in Locked /\ Holds(r) /\ req[r].pc \notin Publishing /\ ~req[r].out
      BY <1>1, <3>1, Busy DEF Locked, Holds, Publishing
    <3>3. \A s \in Requests : req[s].pc \notin Publishing
      BY <1>1, <3>1, <3>2, Alone
    <3>4. record.vouched = live /\ req[r].original.vouched = live
      BY <3>2, <3>3 DEF KInv
    <3>5. Origins' = Origins
      BY <3>1, <3>2, HolderOwns, OriginsStay
    <3> QED BY <3>1, <3>2, <3>4, <3>5
  <2>4. CASE Discard(r)
    <3>1. ~Absent(Tx(r)) /\ req[r].pc = "discard"
      BY <1>1, <2>4, DiscardEffects DEF IInv, CInv, DeciderOK, Decider
    <3> QED BY <1>1, <2>4, <3>1, DiscardEffects, OriginsStay DEF Publishing
  <2> QED BY <2>1, <2>2, <2>3, <2>4
<1> QED BY <1>1, <1>2, OutsideStutters

LEMMA TakeLockStep ==
  ASSUME IInv, KInv, TInv', ~torn, NEW r \in Requests, TakeLock(r)
  PROVE  Stutters
<1>1. TInv BY DEF IInv
<1>2. /\ req[r].pc = "lock" /\ req[r].op \in {"operation", "apply", "undo"}
      /\ Tx(r) \in Transactions /\ lock = None
      /\ UNCHANGED <<record, closed, torn>>
      /\ req'[r].original = record /\ req'[r].pc \in {"moveAway", "rollOut"}
      /\ receipt' = receipt \/ (req[r].op # "operation" /\ Receipted(Tx(r), req[r].seen))
  BY <1>1, TakeLockEffects
<1>3. \A s \in Requests : req[s].pc \notin Publishing
  BY <1>1, <1>2, DesignAssumption DEF TInv, Locked
<1>4. PublishedDesign' = PublishedDesign
  <2>1. PublishedDesign = record.vouched
    BY <1>1, <1>3, DesignIs
  <2>2. PublishedDesign' = req'[r].original.vouched
    BY <1>2, DesignIs DEF Publishing
  <2> QED BY <1>2, <2>1, <2>2
<1>5. req[r].op # "operation" => ~Absent(Tx(r)) /\ req[r].seen # "absent"
  BY <1>2 DEF IInv, CInv, DeciderOK, Decider
<1> QED BY <1>2, <1>4, <1>5, OriginsStay DEF Stutters

\* The moves of a publication and the steps of its rollback.
LEMMA MovesStep ==
  ASSUME IInv, TInv', NEW r \in Requests,
         \/ MoveAway(r) \/ MoveIn(r) \/ WriteRecord(r)
         \/ RollOut(r) \/ RollIn(r) \/ RollRecord(r)
  PROVE  Stutters
<1>1. TInv BY DEF IInv
<1>2. req[r].pc \in Publishing
  BY DEF MoveAway, MoveIn, WriteRecord, RollOut, RollIn, RollRecord, At, Publishing
<1>3. /\ \E pc \in Publishing : GoesOn(r, pc)
      /\ UNCHANGED <<receipt, closed, torn>>
  <2>1. {"moveIn", "record", "receipt", "rollOut", "rollIn", "rollRecord", "rollReceipt"}
          \subseteq Publishing
    BY DEF Publishing
  <2>2. GivesUp(r) => GoesOn(r, "rollOut")
    BY DEF GivesUp, GoesOn, SameMoves
  <2>3. CASE MoveAway(r)
    BY <1>1, <2>1, <2>2, <2>3, MoveAwayEffects
  <2>4. CASE MoveIn(r)
    BY <1>1, <2>1, <2>2, <2>4, MoveInEffects
  <2>5. CASE WriteRecord(r)
    BY <1>1, <2>1, <2>2, <2>5, WriteRecordEffects
  <2>6. CASE RollOut(r)
    BY <1>1, <2>1, <2>6, RollOutEffects
  <2>7. CASE RollIn(r)
    BY <1>1, <2>1, <2>7, RollInEffects
  <2>8. CASE RollRecord(r)
    BY <1>1, <2>1, <2>8, RollRecordEffects
  <2> QED BY <2>3, <2>4, <2>5, <2>6, <2>7, <2>8
<1> QED BY <1>1, <1>2, <1>3, PublishingStutters

LEMMA WriteReceiptStep ==
  ASSUME IInv, KInv, TInv', ~torn, NEW r \in Requests, WriteReceipt(r)
  PROVE  AtomicStep
<1>1. TInv /\ req[r].pc = "receipt" /\ req[r].pc \in Publishing
  BY DEF IInv, WriteReceipt, At, Publishing
<1>2. CASE GivesUp(r) /\ UNCHANGED <<receipt, closed>>
  <2>1. GoesOn(r, "rollOut") /\ "rollOut" \in Publishing /\ torn' = torn
    BY <1>1, <1>2, WriteReceiptEffects DEF GivesUp, GoesOn, SameMoves, Publishing
  <2> QED BY <1>1, <1>2, <2>1, PublishingStutters DEF AtomicStep
<1>3. CASE ~(GivesUp(r) /\ UNCHANGED <<receipt, closed>>)
  <2>1. /\ Receipted(Tx(r), IF req[r].op = "undo" THEN "undone" ELSE "applied")
        /\ closed' = IF req[r].op = "undo" THEN closed \cup {Tx(r)} ELSE closed
        /\ End(r) /\ UNCHANGED <<record, torn>> /\ Tx(r) \in Transactions
    BY <1>1, <1>3, WriteReceiptEffects
  <2>2. ~Absent(Tx(r))
    BY <1>1, HolderOwns DEF Locked
  <2>3. Origins' = Origins
    BY <2>1, <2>2, OriginsStay
  <2> QED BY <1>1, <2>1, <2>3, PublishedStep DEF AtomicStep
<1> QED BY <1>2, <1>3

LEMMA RollReceiptStep ==
  ASSUME IInv, KInv, TInv', ~torn, ~torn', NEW r \in Requests, RollReceipt(r)
  PROVE  Stutters
<1>1. TInv BY DEF IInv
<1>2. /\ req[r].pc = "rollReceipt" /\ End(r) /\ UNCHANGED <<record, closed>> /\ ~req[r].bad
      /\ req[r].op \in {"operation", "apply", "undo"} /\ Tx(r) \in Transactions
      /\ \/ Receipted(Tx(r), "failed") \/ Receipted(Tx(r), "rollback_incomplete")
         \/ req[r].op # "operation" /\ Receipted(Tx(r), req[r].seen)
         \/ receipt' = receipt
  BY <1>1, RollReceiptEffects
<1>3. req[r].pc \in Publishing /\ ~Absent(Tx(r)) /\ (req[r].op # "operation" => req[r].seen # "absent")
  BY <1>2, HolderOwns DEF Publishing, Locked, IInv, CInv, DeciderOK, Decider
<1>4. Origins' = Origins
  BY <1>2, <1>3, OriginsStay
<1>5. torn' = torn
  BY <1>1 DEF TInv, Types
<1> QED BY <1>2, <1>3, <1>4, <1>5, RestoredStep

LEMMA TornStays ==
  ASSUME torn, [Next]_vars
  PROVE  torn'
BY DEF Next, vars, Bind, Load, StartRepair, ReviseRepair, RecordFailure, StageRepair,
       StageOperation, Offer, OfferReceipt, OfferRollback, RecordEvidence, Discard,
       DiscardRecord, TakeLock, MoveAway, MoveIn, WriteRecord, WriteReceipt, RollOut, RollIn,
       RollRecord, RollReceipt, Crash, Recover, files, history

LEMMA EachAtomic ==
  ASSUME IInv, KInv, IInv', ~torn, ~torn', Next
  PROVE  AtomicStep
<1>1. TInv /\ TInv' /\ torn' = torn
  BY DEF IInv, TInv, Types
<1>2. CASE Recover
  <2>1. /\ req' = req /\ record'.vouched = record.vouched /\ UNCHANGED <<receipt, closed>>
        /\ lock = None
    BY <1>1, <1>2, RecoverFacts DEF Marked
  <2>2. \A s \in Requests : req[s].pc \notin Publishing /\ req'[s].pc \notin Publishing
    BY <1>1, <2>1, DesignAssumption DEF TInv, Locked
  <2> QED BY <1>1, <2>1, <2>2, DesignIs, OriginsStay DEF Stutters, AtomicStep
<1>3. ASSUME NEW r \in Requests,
             \/ \E x \in Transactions, op \in Operations : Bind(r, op, x)
             \/ Load(r) \/ StartRepair(r) \/ ReviseRepair(r) \/ RecordFailure(r)
             \/ RecordEvidence(r)
             \/ Offer(r) \/ OfferReceipt(r) \/ OfferRollback(r) \/ Discard(r)
             \/ TakeLock(r) \/ MoveAway(r) \/ MoveIn(r) \/ WriteRecord(r)
             \/ RollOut(r) \/ RollIn(r) \/ RollRecord(r) \/ RollReceipt(r)
      PROVE  AtomicStep
  BY <1>1, <1>3, BeforeStep, OfferStep, TakeLockStep, MovesStep, RollReceiptStep DEF AtomicStep
<1>4. ASSUME NEW r \in Requests,
             \/ StageRepair(r) \/ StageOperation(r) \/ DiscardRecord(r) \/ WriteReceipt(r)
             \/ Crash(r)
      PROVE  AtomicStep
  BY <1>1, <1>4, StageStep, DiscardStep, WriteReceiptStep, CrashStep
<1> QED BY <1>2, <1>3, <1>4 DEF Next

\* The renames and writes of apply, revert and run_operation, with their rollbacks and
\* the recovery after a kill, implement AtomicDesign: to a reader that waits for the
\* lock, the project goes from one published design to another in a single step, or
\* stays as it was.  The step that counts is the write of the record; every other step
\* of a request maps to a stutter.
THEOREM PublicationIsAtomic == Spec => PublishesAtomically
<1>1. Init => Atomic!Init
  <2> SUFFICES ASSUME Init PROVE Atomic!Init
    OBVIOUS
  <2>1. PublishedDesign = record.vouched
    BY DEF Init, PublishedDesign
  <2>2. Origins = [x \in Transactions |-> None]
    BY DEF Init, Origins, NoReceipt
  <2> QED BY <2>1, <2>2 DEF Init, Atomic!Init, Origins
<1>2. IInv /\ KInv /\ IInv' /\ [Next]_vars => [Atomic!Next]_(Atomic!vars)
  <2> SUFFICES ASSUME IInv, KInv, IInv', [Next]_vars PROVE [Atomic!Next]_(Atomic!vars)
    OBVIOUS
  <2>1. CASE torn \/ torn'
    <3>1. torn'
      BY <2>1, TornStays
    <3> QED BY <3>1 DEF Atomic!Next
  <2>2. CASE ~torn /\ ~torn' /\ Next
    BY <2>2, EachAtomic DEF AtomicStep, Stutters, Atomic!Next, Atomic!vars, Origins
  <2>3. CASE UNCHANGED vars
    BY <2>3 DEF vars, Atomic!vars, PublishedDesign
  <2> QED BY <2>1, <2>2, <2>3
<1> QED BY <1>1, <1>2, Committed, Invariant, PTL DEF Spec, PublishesAtomically, Atomic!Spec

-----------------------------------------------------------------------------
\* Before the first fault: a revision is given out once, a project that is being
\* repaired has its repair, and a repair at the current revision knows the design.

Owning(r) == req[r].op = "repair" /\ req[r].revision = record.revision
             /\ req[r].pc \in {"revise", "stage", "offer", "fail"}

NothingMoved == \A r \in Requests : req[r].pc # "record"

Untroubled(r) ==
  LET q == req[r] IN
  /\ q.pc # "offerRoll"
  /\ q.pc \in Publishing => ~q.bad
  /\ q.pc \in Rolling => ~q.out
  /\ q.revision <= record.revision
  /\ q.revision = record.revision =>
       /\ q.op = "evidence" => record.status # "repairing"
       /\ q.op = "repair" /\ q.pc # "load" /\ live # None /\ NothingMoved => q.base = live

OInv ==
  faults = 0 =>
    /\ ~torn
    /\ record.status = "repairing" => \E r \in Requests : Owning(r)
    /\ \A r \in Requests : Untroubled(r)

\* Without a fault there was none before.
LEMMA NoFault ==
  ASSUME TInv, Fault
  PROVE  faults' # 0
BY BoundAssumption DEF TInv, Types, Fault

LEMMA IdleUntroubled ==
  ASSUME TInv, NEW r \in Requests, TInv', req'[r] = NoRequest
  PROVE  Untroubled(r)'
<1>1. req'[r].revision = 0 /\ req'[r].pc = "idle" /\ req'[r].op = "none"
  BY DEF NoRequest
<1>2. record'.revision \in Nat
  BY DEF TInv, Types, Record
<1> QED BY <1>1, <1>2 DEF Untroubled, Publishing, Rolling

\* A step that leaves the record.
LEMMA SameO ==
  ASSUME TInv, OInv, faults = 0, NEW r \in Requests, Requested(r),
         record' = record, torn' = torn,
         \/ live' \in {live, None} /\ (req[r].pc = "record" => req'[r].pc = "record")
         \/ req'[r].pc = "record",
         Untroubled(r)', Owning(r) => Owning(r)'
  PROVE  OInv'
<1>1. record'.status = "repairing" => \E s \in Requests : Owning(s)'
  <2> SUFFICES ASSUME record.status = "repairing" PROVE \E s \in Requests : Owning(s)'
    OBVIOUS
  <2>1. PICK s \in Requests : Owning(s)
    BY DEF OInv
  <2>2. s # r => Owning(s)'
    BY <2>1 DEF Owning, Requested, Others
  <2> QED BY <2>1, <2>2
<1>2. ASSUME NEW s \in Requests, s # r PROVE Untroubled(s)'
  <2>1. Untroubled(s) /\ req'[s] = req[s]
    BY <1>2 DEF OInv, Requested, Others
  <2>2. live' # None /\ NothingMoved' => live' = live /\ NothingMoved
    BY DEF NothingMoved, Requested, Others
  <2> QED BY <2>1, <2>2 DEF Untroubled
<1> QED BY <1>1, <1>2 DEF OInv

\* A step that moves the record on.
LEMMA MarkedO ==
  ASSUME TInv, OInv, faults = 0, torn' = torn, record'.revision = record.revision + 1,
         \/ req' = req /\ record'.status # "repairing"
         \/ \E r \in Requests : /\ Requested(r) /\ Untroubled(r)'
                                /\ record'.status = "repairing" => Owning(r)'
  PROVE  OInv'
<1>1. record.revision \in Nat /\ \A s \in Requests : req[s].revision \in Nat
  <2>1. \A s \in Requests : req[s] \in Request
    BY DEF TInv, Types
  <2> QED BY <2>1 DEF TInv, Types, Record, Request
<1>2. ASSUME NEW s \in Requests, req'[s] = req[s] PROVE Untroubled(s)'
  <2>1. Untroubled(s)
    BY DEF OInv
  <2>2. req[s].revision <= record'.revision /\ req[s].revision # record'.revision
    BY <1>1, <2>1 DEF Untroubled
  <2> QED BY <1>2, <2>1, <2>2 DEF Untroubled
<1>3. CASE req' = req /\ record'.status # "repairing"
  BY <1>2, <1>3 DEF OInv
<1>4. ASSUME NEW r \in Requests, Requested(r), Untroubled(r)',
             record'.status = "repairing" => Owning(r)'
      PROVE  OInv'
  <2>1. \A s \in Requests : Untroubled(s)'
    BY <1>2, <1>4 DEF Requested, Others
  <2> QED BY <1>4, <2>1 DEF OInv
<1> QED BY <1>3, <1>4

LEMMA EndO ==
  ASSUME TInv, TInv', OInv, faults = 0, NEW r \in Requests, End(r), torn' = torn, live' = live,
         \/ record' = record /\ ~Owning(r) /\ req[r].pc # "record"
         \/ record'.revision = record.revision + 1 /\ record'.status # "repairing"
  PROVE  OInv'
<1>1. Requested(r) /\ req'[r] = NoRequest
  BY EndFacts DEF TInv, Types
<1> QED BY <1>1, IdleUntroubled, SameO, MarkedO

LEMMA RepairO ==
  ASSUME IInv, KInv, TInv', OInv, faults = 0, faults' = 0, NEW r \in Requests,
         StartRepair(r) \/ ReviseRepair(r) \/ RecordFailure(r) \/ RecordEvidence(r)
  PROVE  OInv'
<1>1. TInv /\ record \in Record /\ record.revision \in Nat /\ Untroubled(r)
  BY DEF IInv, TInv, Types, Record, OInv
<1>2. torn' = torn /\ live' = live /\ req[r].pc \notin {"record", "load"}
  BY DEF StartRepair, ReviseRepair, RecordFailure, RecordEvidence, At, files, history
<1>3. CASE StartRepair(r) \/ ReviseRepair(r)
  <2>1. CASE End(r) /\ record' = record /\ record.revision # req[r].revision
    BY <1>1, <1>2, <2>1, EndO DEF Owning
  <2>2. CASE /\ record' = record /\ Requested(r) /\ req[r].pc = "revise" /\ req[r].op = "repair"
             /\ req'[r].pc = "fail" /\ SameTask(r) /\ SameRead(r)
    <3>1. NothingMoved' => NothingMoved
      BY <2>2 DEF NothingMoved, Requested, Others
    <3>2. Untroubled(r)' /\ (Owning(r) => Owning(r)')
      BY <1>1, <1>2, <2>2, <3>1
      DEF Untroubled, Owning, SameTask, SameRead, Publishing, Rolling
    <3> QED BY <1>1, <1>2, <2>2, <3>2, SameO
  <2>3. CASE /\ lock = None /\ record.revision = req[r].revision /\ req[r].op = "repair"
             /\ record'.revision = record.revision + 1 /\ Requested(r) /\ SameTask(r)
             /\ req'[r].pc \in {"revise", "stage"} /\ req'[r].base = req[r].base
             /\ req'[r].revision = req[r].revision + 1
    <3>1. NothingMoved /\ live # None
      <4>1. \A s \in Requests : req[s].pc \notin Publishing
        BY <1>1, <2>3, DesignAssumption DEF TInv, Locked
      <4>2. live = record.vouched
        BY <4>1 DEF KInv, OInv
      <4> QED BY <1>1, <4>1, <4>2, DesignAssumption DEF NothingMoved, Publishing, Record, Designs
    <3>2. req[r].base = live
      BY <1>1, <1>2, <2>3, <3>1 DEF Untroubled
    <3>3. Untroubled(r)'
      BY <1>1, <1>2, <2>3, <3>2 DEF Untroubled, SameTask, Publishing, Rolling
    <3>4. Owning(r)'
      BY <2>3 DEF Owning, SameTask
    <3> QED BY <1>1, <1>2, <2>3, <3>3, <3>4, MarkedO
  <2> QED BY <1>1, <1>3, <2>1, <2>2, <2>3, StartRepairFacts, ReviseRepairFacts DEF Marked
<1>4. CASE RecordFailure(r)
  BY <1>1, <1>2, <1>4, RecordFailureFacts, EndO DEF Marked, Owning
<1>5. CASE RecordEvidence(r)
  <2>1. req[r].revision = record.revision => record.status # "repairing"
    BY <1>1, <1>5, RecordEvidenceFacts DEF Untroubled
  <2> QED BY <1>1, <1>2, <1>5, <2>1, RecordEvidenceFacts, EndO DEF Marked, Owning
<1> QED BY <1>3, <1>4, <1>5

LEMMA BindO ==
  ASSUME IInv, KInv, TInv', OInv, faults = 0, NEW r \in Requests,
         NEW op \in Operations, NEW x \in Transactions, Bind(r, op, x)
  PROVE  OInv'
<1>1. TInv /\ record.revision \in Nat
  BY DEF IInv, TInv, Types, Record
<1>2. /\ Requested(r) /\ req[r] = NoRequest /\ req'[r].pc = "load" /\ req'[r].op = op
      /\ req'[r].revision = record.revision
  BY <1>1, BindFacts
<1>3. UNCHANGED <<record, torn, live>> /\ Allowed(op, x)
  BY DEF Bind, files, history
<1>4. op = "evidence" => record.status # "repairing"
  BY <1>3 DEF Allowed
<1>5. Untroubled(r)'
  BY <1>1, <1>2, <1>3, <1>4 DEF Untroubled, Publishing, Rolling
<1>6. ~Owning(r) /\ req[r].pc # "record"
  BY <1>2 DEF Owning, NoRequest
<1> QED BY <1>1, <1>2, <1>3, <1>5, <1>6, SameO

LEMMA LoadO ==
  ASSUME IInv, KInv, TInv', OInv, faults = 0, NEW r \in Requests, Load(r)
  PROVE  OInv'
<1>1. TInv /\ Untroubled(r) /\ req[r].pc = "load" /\ UNCHANGED <<record, torn, live>>
  BY DEF IInv, OInv, Load, At, files, history
<1>2. ~Owning(r)
  BY <1>1 DEF Owning
<1>3. CASE End(r)
  BY <1>1, <1>2, <1>3, EndO
<1>4. CASE ~End(r)
  <2>1. /\ Requested(r) /\ req'[r].pc = FirstStep(req[r].op) /\ SameTask(r)
        /\ req'[r].revision = req[r].revision
        /\ req'[r].base = IF Decider(r) THEN receipt[Tx(r)].base ELSE live
    BY <1>1, <1>4, LoadFacts
  <2>2. Untroubled(r)'
    BY <1>1, <2>1 DEF Untroubled, FirstStep, Publishing, Rolling, SameTask, Decider
  <2> QED BY <1>1, <1>2, <2>1, <2>2, SameO
<1> QED BY <1>3, <1>4

LEMMA StageO ==
  ASSUME IInv, KInv, TInv', OInv, faults = 0, NEW r \in Requests,
         StageRepair(r) \/ StageOperation(r)
  PROVE  OInv'
<1>1. TInv /\ Untroubled(r) /\ req[r].pc = "stage"
  BY DEF IInv, OInv, StageRepair, StageOperation, At
<1>2. CASE StageRepair(r)
  <2>1. /\ UNCHANGED <<record, torn, live>> /\ Requested(r) /\ SameTask(r) /\ SameRead(r)
        /\ req'[r].pc \in {"offer", "fail"}
    BY <1>1, <1>2, StageRepairFacts
  <2>2. NothingMoved' => NothingMoved
    BY <1>1, <2>1 DEF NothingMoved, Requested, Others
  <2>3. Untroubled(r)' /\ (Owning(r) => Owning(r)')
    BY <1>1, <2>1, <2>2 DEF Untroubled, Owning, SameTask, SameRead, Publishing, Rolling
  <2> QED BY <1>1, <2>1, <2>3, SameO
<1>3. CASE StageOperation(r)
  <2>1. /\ UNCHANGED <<record, torn, live>> /\ req[r].op = "operation" /\ ~Owning(r)
        /\ End(r) \/ /\ Requested(r) /\ SameTask(r) /\ SameRead(r) /\ req'[r].pc = "lock"
    BY <1>1, <1>3, StageOperationFacts DEF Owning
  <2>2. CASE End(r)
    BY <1>1, <2>1, <2>2, EndO
  <2>3. CASE Requested(r) /\ SameTask(r) /\ SameRead(r) /\ req'[r].pc = "lock"
    <3>1. Untroubled(r)'
      BY <1>1, <2>1, <2>3 DEF Untroubled, SameTask, SameRead, Publishing, Rolling
    <3> QED BY <1>1, <2>1, <2>3, <3>1, SameO
  <2> QED BY <2>1, <2>2, <2>3
<1> QED BY <1>2, <1>3

LEMMA OfferO ==
  ASSUME IInv, KInv, TInv', OInv, faults = 0, faults' = 0, NEW r \in Requests,
         Offer(r) \/ OfferReceipt(r) \/ OfferRollback(r)
  PROVE  OInv'
<1>1. TInv /\ record.revision \in Nat /\ Untroubled(r) /\ record \in Record
  BY DEF IInv, TInv, Types, Record, OInv
<1>2. CASE Offer(r)
  <2>1. /\ req[r].pc = "offer" /\ req[r].op = "repair" /\ lock = None
        /\ UNCHANGED <<live, torn>>
    BY <1>1, <1>2, OfferEffects
  <2>2. CASE /\ record.revision # req[r].revision \/ live # req[r].base
             /\ End(r) /\ record' = record
    <3>1. NothingMoved /\ live # None
      <4>1. \A s \in Requests : req[s].pc \notin Publishing
        BY <1>1, <2>1, DesignAssumption DEF TInv, Locked
      <4>2. live = record.vouched
        BY <4>1 DEF KInv, OInv
      <4> QED BY <1>1, <4>1, <4>2, DesignAssumption DEF NothingMoved, Publishing, Record, Designs
    <3>2. ~Owning(r)
      BY <1>1, <2>1, <2>2, <3>1 DEF Untroubled, Owning
    <3> QED BY <1>1, <2>1, <2>2, <3>2, EndO
  <2>3. CASE /\ Requested(r) /\ req'[r].pc = "offerReceipt" /\ SameTask(r)
             /\ req'[r].revision = req[r].revision
             /\ record'.revision = record.revision + 1 /\ record'.status # "repairing"
    <3>1. req[r].revision \in Nat
      BY <1>1 DEF TInv, Types, Request
    <3>2. Untroubled(r)'
      BY <1>1, <2>3, <3>1 DEF Untroubled, Publishing, Rolling, SameTask
    <3> QED BY <1>1, <2>1, <2>3, <3>2, MarkedO
  <2> QED BY <1>1, <1>2, <2>2, <2>3, OfferEffects DEF Noted, Marked
<1>3. CASE OfferReceipt(r)
  BY <1>1, <1>3, OfferReceiptEffects, NoFault, EndO DEF Owning
<1>4. CASE OfferRollback(r)
  BY <1>1, <1>4 DEF OfferRollback, At, Untroubled
<1> QED BY <1>2, <1>3, <1>4

LEMMA DiscardO ==
  ASSUME IInv, KInv, TInv', OInv, faults = 0, faults' = 0, NEW r \in Requests,
         Discard(r) \/ DiscardRecord(r)
  PROVE  OInv'
<1>1. TInv /\ record.revision \in Nat /\ Untroubled(r)
  BY DEF IInv, TInv, Types, Record, OInv
<1>2. CASE Discard(r)
  <2>1. /\ req[r].op = "discard" /\ req[r].pc = "discard" /\ UNCHANGED <<live, record, torn>>
        /\ ~Owning(r)
    BY <1>1, <1>2, DiscardEffects DEF Owning
  <2>2. CASE End(r)
    BY <1>1, <2>1, <2>2, EndO
  <2>3. CASE Requested(r) /\ req'[r].pc = "discardRecord" /\ SameTask(r) /\ SameRead(r)
    <3>1. Untroubled(r)'
      BY <1>1, <2>1, <2>3 DEF Untroubled, SameTask, SameRead, Publishing, Rolling
    <3> QED BY <1>1, <2>1, <2>3, <3>1, SameO
  <2> QED BY <1>1, <1>2, <2>2, <2>3, DiscardEffects
<1>3. CASE DiscardRecord(r)
  <2>1. /\ req[r].pc = "discardRecord" /\ Tx(r) \in Transactions /\ End(r)
        /\ UNCHANGED <<live, torn>> /\ Noted(receipt[Tx(r)].prior, None)
    BY <1>1, <1>3, DiscardRecordEffects, NoFault
  <2>2. receipt[Tx(r)].prior # "repairing"
    BY <1>1, <2>1 DEF TInv, Types, Settled
  <2> QED BY <1>1, <2>1, <2>2, EndO DEF Noted
<1> QED BY <1>2, <1>3

\* A step of a publisher that goes on.
LEMMA PublishingO ==
  ASSUME TInv, TInv', OInv, faults = 0, NEW r \in Requests,
         req[r].op \in {"operation", "apply", "undo"}, Requested(r), SameTask(r),
         req'[r].revision = req[r].revision, req'[r].pc \in Publishing,
         ~req'[r].bad, req'[r].pc \in Rolling => ~req'[r].out,
         torn' = torn,
         \/ /\ record' = record
            /\ \/ live' \in {live, None} /\ req[r].pc # "record"
               \/ req'[r].pc = "record"
         \/ record'.revision = record.revision + 1 /\ record'.status # "repairing"
  PROVE  OInv'
<1>1. /\ Untroubled(r) /\ record.revision \in Nat /\ req[r].revision \in Nat
      /\ req[r] \in Request
  <2>1. req[r] \in Request
    BY DEF TInv, Types
  <2> QED BY <2>1 DEF OInv, TInv, Types, Record, Request
<1>2. req'[r].op \notin {"evidence", "repair"} /\ ~Owning(r)
  BY DEF SameTask, Owning
<1>3. req'[r].pc # "offerRoll"
  BY DEF Publishing
<1>4. Untroubled(r)'
  BY <1>1, <1>2, <1>3 DEF Untroubled
<1> QED BY <1>2, <1>4, SameO, MarkedO

LEMMA MovesO ==
  ASSUME IInv, KInv, TInv', OInv, faults = 0, faults' = 0, NEW r \in Requests,
         TakeLock(r) \/ MoveAway(r) \/ MoveIn(r) \/ WriteRecord(r)
  PROVE  OInv'
<1>1. TInv /\ ~GivesUp(r)
  BY NoFault DEF IInv, GivesUp
<1>2. req[r].pc \in Publishing => ~req[r].bad
  BY DEF OInv, Untroubled
<1>3. CASE TakeLock(r)
  <2>1. req[r].pc # "record" /\ req'[r].pc \in Publishing
    BY <1>1, <1>3, TakeLockEffects DEF Publishing
  <2> QED BY <1>1, <1>3, <2>1, TakeLockEffects, PublishingO DEF SameRead
<1>4. CASE MoveAway(r)
  <2>1. req[r].pc \in Publishing /\ "moveIn" \in Publishing /\ "moveIn" \notin Rolling
    BY <1>4 DEF MoveAway, At, Publishing, Rolling
  <2>2. live' = None /\ req[r].pc = "moveAway"
    BY <1>1, <1>4, MoveAwayEffects DEF MoveAway
  <2> QED BY <1>1, <1>2, <1>4, <2>1, <2>2, MoveAwayEffects, PublishingO DEF GoesOn, SameRead
<1>5. CASE MoveIn(r)
  <2>1. req[r].pc \in Publishing /\ "record" \in Publishing /\ "record" \notin Rolling
    BY <1>5 DEF MoveIn, At, Publishing, Rolling
  <2> QED BY <1>1, <1>2, <1>5, <2>1, MoveInEffects, PublishingO DEF GoesOn, SameRead
<1>6. CASE WriteRecord(r)
  <2>1. req[r].pc \in Publishing /\ "receipt" \in Publishing /\ "receipt" \notin Rolling
    BY <1>6 DEF WriteRecord, At, Publishing, Rolling
  <2>2. /\ Tx(r) \in Transactions /\ req[r].op \in {"operation", "apply", "undo"}
        /\ GoesOn(r, "receipt") /\ SameFlags(r) /\ torn' = torn
        /\ record'.revision = record.revision + 1
        /\ record'.status = IF req[r].op = "undo" THEN receipt[Tx(r)].prior ELSE "generated"
    BY <1>1, <1>6, WriteRecordEffects
  <2>3. record'.status # "repairing"
    BY <1>1, <2>2 DEF TInv, Types, Settled
  <2> QED BY <1>1, <1>2, <2>1, <2>2, <2>3, PublishingO DEF GoesOn, SameRead, SameFlags
<1> QED BY <1>3, <1>4, <1>5, <1>6

LEMMA RollsO ==
  ASSUME IInv, KInv, TInv', OInv, faults = 0, faults' = 0, NEW r \in Requests,
         RollOut(r) \/ RollIn(r) \/ RollRecord(r)
  PROVE  OInv'
<1>1. TInv /\ ~Fault
  BY NoFault DEF IInv
<1>2. /\ req[r].pc \in {"rollOut", "rollIn", "rollRecord"} /\ req[r].pc \in Publishing
      /\ req[r].pc # "record"
  BY DEF RollOut, RollIn, RollRecord, At, Publishing
<1>3. ~req[r].bad /\ ~req[r].out
  BY <1>2 DEF OInv, Untroubled, Rolling
<1>4. ~req[r].in /\ record = req[r].original
  BY <1>2, <1>3, PubDesigns DEF PubOK
<1>5. "rollIn" \in Publishing /\ "rollRecord" \in Publishing /\ "rollReceipt" \in Publishing
  BY DEF Publishing
<1>6. CASE RollOut(r)
  <2>1. ~Moved(r)
    BY <1>3, <1>4 DEF Moved
  <2> QED BY <1>1, <1>2, <1>3, <1>5, <1>6, <2>1, RollOutEffects, PublishingO DEF GoesOn, SameRead
<1>7. CASE RollIn(r)
  BY <1>1, <1>2, <1>3, <1>5, <1>7, RollInEffects, PublishingO DEF GoesOn, SameRead
<1>8. CASE RollRecord(r)
  BY <1>1, <1>2, <1>3, <1>4, <1>5, <1>8, RollRecordEffects, PublishingO DEF GoesOn, SameRead
<1> QED BY <1>6, <1>7, <1>8

LEMMA LastO ==
  ASSUME IInv, KInv, TInv', OInv, faults = 0, faults' = 0, NEW r \in Requests,
         WriteReceipt(r) \/ RollReceipt(r)
  PROVE  OInv'
<1>1. TInv /\ ~GivesUp(r)
  BY NoFault DEF IInv, GivesUp
<1>2. CASE WriteReceipt(r)
  <2>1. End(r) /\ UNCHANGED <<live, record, torn>> /\ req[r].pc = "receipt"
    BY <1>1, <1>2, WriteReceiptEffects
  <2> QED BY <1>1, <2>1, EndO DEF Owning
<1>3. CASE RollReceipt(r)
  <2>1. /\ End(r) /\ UNCHANGED <<live, record>> /\ req[r].pc = "rollReceipt"
        /\ torn' = (torn \/ req[r].bad)
    BY <1>1, <1>3, RollReceiptEffects
  <2>2. ~req[r].bad
    BY <2>1 DEF OInv, Untroubled, Publishing
  <2>3. torn' = torn
    BY <1>1, <2>1, <2>2 DEF TInv, Types
  <2> QED BY <1>1, <2>1, <2>3, EndO DEF Owning
<1> QED BY <1>2, <1>3

LEMMA RecoverO ==
  ASSUME IInv, KInv, TInv', OInv, faults = 0, Recover
  PROVE  OInv'
<1>1. TInv BY DEF IInv
<1> QED BY <1>1, RecoverFacts, MarkedO DEF Marked

LEMMA InitOInv ==
  ASSUME Init
  PROVE  OInv
BY DEF Init, OInv, Untroubled, NoRequest, Publishing, Rolling

LEMMA NextOInv ==
  ASSUME IInv, KInv, IInv', OInv, [Next]_vars
  PROVE  OInv'
<1>1. CASE UNCHANGED vars
  BY <1>1 DEF vars, OInv, Owning, Untroubled, NothingMoved
<1>2. CASE Next
  <2> SUFFICES ASSUME faults' = 0 PROVE OInv'
    BY DEF OInv
  <2>1. TInv /\ TInv'
    BY DEF IInv
  <2>2. ~Fault
    BY <2>1, NoFault
  <2>3. faults = 0
    BY <1>2, <2>2
    DEF Next, Bind, Load, StartRepair, ReviseRepair, RecordFailure, StageRepair,
        StageOperation, Offer, OfferReceipt, OfferRollback, RecordEvidence, Discard,
        DiscardRecord, TakeLock, MoveAway, MoveIn, WriteRecord, WriteReceipt, RollOut, RollIn,
        RollRecord, RollReceipt, Crash, Recover, Rollback
  <2>4. \A r \in Requests : ~Crash(r)
    BY <2>2 DEF Crash
  <2> QED BY <1>2, <2>1, <2>3, <2>4, BindO, LoadO, RepairO, StageO, OfferO, DiscardO, MovesO,
             RollsO, LastO, RecoverO
      DEF Next
<1> QED BY <1>1, <1>2

LEMMA Untroubling == Spec => []OInv
<1>1. IInv /\ KInv /\ IInv' /\ OInv /\ [Next]_vars => OInv'
  BY NextOInv
<1> QED BY <1>1, InitOInv, Committed, PTL DEF Spec

\* Before the first fault, a project whose record says "repairing" has a request that
\* is in that repair: every way out of begin_repair writes the record again.
THEOREM RepairsAreOwned == Spec => []RepairingHasOwner
<1>1. OInv => RepairingHasOwner
  BY DEF OInv, Owning, RepairingHasOwner
<1> QED BY <1>1, Untroubling, PTL

-----------------------------------------------------------------------------
\* Revisions that are given out again.

\* The record that stands when the step under the lock is withdrawn.
Standing == IF lock # None /\ Holds(lock) THEN req[lock].original ELSE record
Revision == Standing.revision

\* A repair that has started owns the project at its revision; the other requests
\* that may move the record on have only bound it.
Owner(r) == req[r].op = "repair"
            /\ req[r].pc \in {"revise", "stage", "fail", "offer", "offerReceipt", "offerRoll"}
Binder(r) == \/ req[r].op \in {"operation", "undo", "evidence"}
             \/ req[r].op = "repair" /\ req[r].pc \in {"load", "start"}

\* The faults it takes to bind the revision of an owner.
Needs(r) == IF req[r].pc \in {"revise", "fail"} THEN 1 ELSE 2

OwnersOK ==
  /\ \A r \in Requests : Owner(r) =>
       /\ req[r].revision <= Revision
       /\ req[r].revision = Revision => Standing.status = "repairing"
       /\ Holds(r) => req[r].revision = Revision /\ record.revision = Revision + 1
       /\ req[r].pc = "offerRoll" => faults >= 1
  /\ \A r, s \in Requests :
       /\ Owner(r) /\ req[r].revision = Revision
       /\ Owner(s) /\ req[s].revision = Revision
       => r = s

\* A record that waits for a decision names it, and conversely before the third fault.
Waiting(o, k) == /\ o.status = "change_ready" => o.active # None
                 /\ k < 3 /\ o.active # None => o.status = "change_ready"

Pending == \E r \in Requests : req[r].pc \in {"receipt", "offerReceipt", "offerRoll"}
Retreat == \E r \in Requests : req[r].pc \in Rolling

\* A request may have bound the revision that stands, or the one after it.
Reach == /\ Standing.status # "change_ready"
         /\ \A r \in Requests : Owner(r) /\ req[r].revision = Revision => faults >= Needs(r)
Reuse == \/ Standing.status = "change_ready"
         \/ /\ faults >= 1
            /\ \A r \in Requests : Owner(r) /\ req[r].revision = Revision => faults >= Needs(r) + 1

BinderOK(r) ==
  /\ req[r].revision = Revision => Reach
  /\ req[r].revision = Revision + 1 => Reuse \/ (Pending /\ record.status # "change_ready")

VInv ==
  /\ OwnersOK
  /\ \A r \in Requests : req[r].revision <= Revision + 1
  /\ record = Standing \/ record.revision = Revision + 1
  /\ Waiting(Standing, faults) /\ Waiting(record, faults)
  /\ faults < 3 => /\ \A r \in Requests : Binder(r) => BinderOK(r)
                   /\ Retreat /\ record # Standing => Reuse

LEMMA StandingIs ==
  /\ TInv => /\ \A r \in Requests : Holds(r) => Standing = req[r].original
             /\ (\A r \in Requests : ~Holds(r)) => Standing = record
  /\ TInv' => /\ \A r \in Requests : Holds(r)' => Standing' = req'[r].original
              /\ (\A r \in Requests : ~Holds(r)') => Standing' = record'
BY DesignAssumption DEF TInv, Types, Locked, Standing, Holds

LEMMA VTypes ==
  ASSUME TInv
  PROVE  /\ Standing \in Record /\ Revision \in Nat /\ Standing.status \in Statuses
         /\ Standing.active \in Transactions \cup {None}
         /\ record \in Record /\ record.revision \in Nat /\ faults \in Nat
         /\ \A r \in Requests : req[r].revision \in Nat
<1>1. Standing \in Record
  <2>1. CASE \E r \in Requests : Holds(r)
    <3>1. PICK r \in Requests : Holds(r)
      BY <2>1
    <3>2. req[r].original \in Record
      BY <3>1, Busy DEF Holds, Publishing
    <3> QED BY <3>1, <3>2, StandingIs
  <2>2. CASE \A r \in Requests : ~Holds(r)
    BY <2>2, StandingIs DEF TInv, Types
  <2> QED BY <2>1, <2>2
<1>2. \A r \in Requests : req[r].revision \in Nat
  <2>1. \A r \in Requests : req[r] \in Request
    BY DEF TInv, Types
  <2> QED BY <2>1 DEF Request
<1>3. record \in Record /\ faults \in Nat
  BY BoundAssumption DEF TInv, Types
<1> QED BY <1>1, <1>2, <1>3 DEF Revision, Record

\* What was true of the requests stays so while the record stands and no owner is new.
LEMMA ReachStays ==
  ASSUME TInv, TInv', Standing' = Standing, faults' >= faults,
         \A s \in Requests : Owner(s)' => /\ Owner(s) /\ req'[s].revision = req[s].revision
                                          /\ Needs(s)' <= Needs(s)
  PROVE  (Reach => Reach') /\ (Reuse => Reuse')
<1>1. Revision' = Revision /\ faults \in Nat /\ faults' \in Nat
  <2>1. TInv' => faults' \in Nat
    BY BoundAssumption DEF TInv, Types
  <2> QED BY <2>1, VTypes DEF Revision
<1>2. \A s \in Requests : Needs(s) \in Nat /\ Needs(s)' \in Nat
  BY DEF Needs
<1> QED BY <1>1, <1>2 DEF Reach, Reuse

\* A step under which the record stands.
LEMMA KeepV ==
  ASSUME TInv, TInv', VInv, NEW r \in Requests, Requested(r), Standing' = Standing,
         faults' >= faults,
         Owner(r)' => /\ Owner(r) /\ req'[r].revision = req[r].revision
                      /\ Needs(r)' <= Needs(r)
                      /\ Holds(r)' => /\ req'[r].revision = Revision
                                      /\ record'.revision = Revision + 1
                      /\ req'[r].pc = "offerRoll" => faults' >= 1,
         req'[r].revision <= Revision + 1,
         \A s \in Requests : s # r /\ Owner(s) /\ Holds(s) => record' = record,
         record' = Standing \/ record'.revision = Revision + 1,
         Waiting(record', faults'),
         faults' < 3 =>
           /\ Binder(r)' => \/ Binder(r) /\ req'[r].revision = req[r].revision
                            \/ BinderOK(r)'
           /\ Pending /\ record.status # "change_ready" =>
                \/ Pending' /\ record'.status # "change_ready"
                \/ Reuse'
           /\ Retreat' /\ record' # Standing => Reuse'
  PROVE  VInv'
<1>1. Revision' = Revision /\ faults \in Nat /\ faults' \in Nat /\ Revision \in Nat
  <2>1. TInv' => faults' \in Nat
    BY BoundAssumption DEF TInv, Types
  <2> QED BY <2>1, VTypes DEF Revision
<1>2. \A s \in Requests : s # r =>
        /\ req'[s] = req[s] /\ (Owner(s)' <=> Owner(s)) /\ (Holds(s)' <=> Holds(s))
        /\ (Binder(s)' <=> Binder(s)) /\ Needs(s)' = Needs(s)
  BY DEF Requested, Others, Owner, Holds, Binder, Needs
<1>3. \A s \in Requests : Owner(s)' =>
        Owner(s) /\ req'[s].revision = req[s].revision /\ Needs(s)' <= Needs(s)
  BY <1>2 DEF Needs
<1>4. (Reach => Reach') /\ (Reuse => Reuse')
  BY <1>3, ReachStays
<1>5. OwnersOK'
  <2>1. ASSUME NEW s \in Requests, Owner(s)'
        PROVE  /\ req'[s].revision <= Revision'
               /\ req'[s].revision = Revision' => Standing'.status = "repairing"
               /\ Holds(s)' => req'[s].revision = Revision' /\ record'.revision = Revision' + 1
               /\ req'[s].pc = "offerRoll" => faults' >= 1
    BY <1>1, <1>2, <1>3, <2>1 DEF VInv, OwnersOK
  <2>2. \A s, t \in Requests :
          /\ Owner(s)' /\ req'[s].revision = Revision'
          /\ Owner(t)' /\ req'[t].revision = Revision'
          => s = t
    BY <1>1, <1>3 DEF VInv, OwnersOK
  <2> QED BY <2>1, <2>2 DEF OwnersOK
<1>6. \A s \in Requests : req'[s].revision <= Revision' + 1
  BY <1>1, <1>2 DEF VInv
<1>7. Waiting(Standing', faults')
  BY <1>1 DEF VInv, Waiting
<1>8. ASSUME faults' < 3, NEW s \in Requests, Binder(s)' PROVE BinderOK(s)'
  <2>1. CASE s = r /\ BinderOK(r)'
    BY <2>1
  <2>2. CASE Binder(s) /\ req'[s].revision = req[s].revision
    <3>1. BinderOK(s)
      BY <1>1, <1>8, <2>2 DEF VInv
    <3>2. /\ req'[s].revision = Revision' => Reach'
          /\ req'[s].revision = Revision' + 1 =>
               Reuse' \/ (Pending' /\ record'.status # "change_ready")
      BY <1>1, <1>4, <1>8, <2>2, <3>1 DEF BinderOK
    <3> QED BY <3>2 DEF BinderOK
  <2> QED BY <1>2, <1>8, <2>1, <2>2
<1> QED BY <1>5, <1>6, <1>7, <1>8, <1>1 DEF VInv

\* A step that moves on the record that stands, under which nobody is left.
LEMMA MarkV ==
  ASSUME TInv, TInv', VInv, NEW r,
         \A s \in Requests : s # r => req'[s] = req[s],
         \A s \in Requests : ~Holds(s)',
         record'.revision = Revision + 1, faults' >= faults,
         r \in Requests =>
           /\ ~Binder(r)' /\ req'[r].revision <= record'.revision
           /\ Owner(r)' => /\ req'[r].revision = record'.revision
                           /\ record'.status = "repairing",
         Waiting(record', faults'),
         \A s \in Requests :
           s # r /\ Binder(s) /\ req[s].revision = Revision + 1 /\ faults' < 3 =>
             /\ record'.status # "change_ready"
             /\ r \in Requests /\ Owner(r)' => faults' >= Needs(r)'
  PROVE  VInv'
<1>1. /\ Standing' = record' /\ Revision' = Revision + 1
      /\ faults \in Nat /\ faults' \in Nat /\ Revision \in Nat
      /\ \A s \in Requests : req[s].revision \in Nat /\ req'[s].revision \in Nat
  <2>1. TInv' => faults' \in Nat
    BY BoundAssumption DEF TInv, Types
  <2>2. \A s \in Requests : req'[s].revision \in Nat
    <3>1. \A s \in Requests : req'[s] \in Request
      BY DEF TInv, Types
    <3> QED BY <3>1 DEF Request
  <2> QED BY <2>1, <2>2, VTypes, StandingIs DEF Revision
<1>2. \A s \in Requests : s # r =>
        /\ (Owner(s)' <=> Owner(s)) /\ (Binder(s)' <=> Binder(s))
        /\ req[s].revision <= Revision + 1
  BY DEF Owner, Binder, VInv
<1>3. \A s \in Requests : s # r /\ Owner(s) => req[s].revision <= Revision
  BY DEF VInv, OwnersOK
<1>4. \A s \in Requests : Owner(s)' /\ req'[s].revision = Revision' => s = r
  BY <1>1, <1>2, <1>3
<1>5. OwnersOK'
  <2>1. ASSUME NEW s \in Requests, Owner(s)'
        PROVE  /\ req'[s].revision <= Revision'
               /\ req'[s].revision = Revision' => Standing'.status = "repairing"
               /\ req'[s].pc # "offerRoll"
    <3>1. req'[s].revision <= Revision' /\ (req'[s].revision = Revision' => Standing'.status = "repairing")
      BY <1>1, <1>2, <1>3, <1>4, <2>1
    <3> QED BY <3>1 DEF Holds
  <2> QED BY <1>4, <2>1 DEF OwnersOK
<1>6. \A s \in Requests : req'[s].revision <= Revision' + 1
  BY <1>1, <1>2
<1>7. ASSUME faults' < 3, NEW s \in Requests, Binder(s)' PROVE BinderOK(s)'
  <2>1. s # r /\ Binder(s) /\ req'[s] = req[s]
    BY <1>2, <1>7
  <2>2. req'[s].revision # Revision' + 1
    BY <1>1, <1>2, <2>1
  <2>3. ASSUME req'[s].revision = Revision' PROVE Reach'
    <3>1. /\ record'.status # "change_ready"
          /\ r \in Requests /\ Owner(r)' => faults' >= Needs(r)'
      BY <1>1, <1>7, <2>1, <2>3
    <3> QED BY <1>1, <1>4, <3>1 DEF Reach
  <2> QED BY <2>2, <2>3 DEF BinderOK
<1>8. \A s \in Requests : req'[s].pc \notin Rolling
  BY DEF Holds, Publishing, Rolling
<1> QED BY <1>1, <1>5, <1>6, <1>7, <1>8 DEF VInv, Retreat

\* A request without a record to restore gives up.
LEMMA QuitV ==
  ASSUME TInv, TInv', VInv, NEW r \in Requests, ~Holds(r), End(r), record' = record,
         faults' >= faults
  PROVE  VInv'
<1>1. Requested(r) /\ req'[r] = NoRequest
  BY EndFacts DEF TInv, Types
<1>2. ~Owner(r)' /\ ~Binder(r)' /\ ~Holds(r)' /\ req'[r].revision = 0
  BY <1>1 DEF Owner, Binder, Holds, NoRequest, Publishing
<1>3. \A s \in Requests : Holds(s)' <=> Holds(s)
  BY <1>1, <1>2 DEF Requested, Others, Holds
<1>4. Standing' = Standing
  <2>1. CASE \E s \in Requests : Holds(s)
    <3>1. PICK s \in Requests : Holds(s)
      BY <2>1
    <3>2. req'[s] = req[s] /\ Holds(s)'
      BY <1>1, <1>3, <3>1 DEF Requested, Others
    <3> QED BY <3>1, <3>2, StandingIs
  <2>2. CASE \A s \in Requests : ~Holds(s)
    BY <1>3, <2>2, StandingIs
  <2> QED BY <2>1, <2>2
<1>5. /\ Waiting(record', faults') /\ faults' \in Nat /\ faults \in Nat
      /\ req'[r].revision <= Revision + 1
  <2>1. TInv' => faults' \in Nat
    BY BoundAssumption DEF TInv, Types
  <2> QED BY <1>2, <2>1, VTypes DEF VInv, Waiting
<1>6. (Pending => Pending') /\ (Retreat' => Retreat)
  BY <1>1 DEF Requested, Others, Pending, Retreat, Holds, Publishing, Rolling, NoRequest
<1>7. Reuse => Reuse'
  BY <1>1, <1>2, <1>4, ReachStays DEF Requested, Others, Owner, Needs
<1> QED BY <1>1, <1>2, <1>4, <1>5, <1>6, <1>7, KeepV DEF VInv

\* Nobody but the holder is at a step under the lock.
LEMMA OneHolder ==
  ASSUME TInv, NEW r, lock \in {None, r}
  PROVE  \A s \in Requests : s # r =>
           /\ req[s].pc \notin Locked /\ ~Holds(s)
           /\ req[s].pc \notin {"receipt", "offerReceipt", "offerRoll"} \cup Rolling
BY DesignAssumption DEF TInv, Locked, Holds, Publishing, Rolling

\* The record of a publication.
LEMMA NewMarks ==
  ASSUME IInv, NEW r \in Requests, req[r].pc \in Publishing
  PROVE  /\ Standing = req[r].original
         /\ NewRecord(r).revision = Revision + 1
         /\ NewRecord(r).status \notin {"change_ready", "repairing"}
         /\ record = Standing \/ (req[r].in /\ record = NewRecord(r))
         /\ req[r].pc = "receipt" => record = NewRecord(r) /\ record # Standing
<1>1. /\ TInv /\ Tx(r) \in Transactions /\ PubOK(r) /\ Holds(r)
  BY Publisher, PubDesigns DEF IInv, Holds
<1>2. Standing = req[r].original /\ Revision \in Nat
  BY <1>1, StandingIs, VTypes
<1>3. NewRecord(r).revision = Revision + 1
  BY <1>2 DEF NewRecord, Revision
<1>4. NewRecord(r).status \notin {"change_ready", "repairing"}
  BY <1>1 DEF NewRecord, TInv, Types, Settled
<1>5. NewRecord(r) # Standing
  BY <1>2, <1>3 DEF Revision
<1> QED BY <1>1, <1>2, <1>3, <1>4, <1>5 DEF PubOK

\* A request with a record to restore ends, and leaves the record as it is.
LEMMA LeaveV ==
  ASSUME IInv, TInv', VInv, NEW r \in Requests, Holds(r), End(r), record' = record,
         faults' >= faults
  PROVE  VInv'
<1>1. /\ TInv /\ lock = r /\ Requested(r) /\ req'[r] = NoRequest
  BY Holder, EndFacts DEF IInv, TInv, Types, Holds, Locked
<1>2. ~Owner(r)' /\ ~Binder(r)' /\ ~Holds(r)' /\ req'[r].revision = 0
  BY <1>1 DEF Owner, Binder, Holds, NoRequest, Publishing
<1>3. \A s \in Requests : s # r => /\ req[s].pc \notin {"receipt", "offerReceipt", "offerRoll"} \cup Rolling
                                   /\ req'[s] = req[s] /\ ~Holds(s) /\ ~Holds(s)'
  BY <1>1, OneHolder DEF Requested, Others, Holds
<1>4. \A s \in Requests : ~Holds(s)'
  BY <1>2, <1>3
<1>5. /\ Standing' = record /\ faults \in Nat /\ faults' \in Nat /\ Revision \in Nat
      /\ Waiting(record', faults')
  <2>1. faults' \in Nat /\ faults \in Nat /\ Revision \in Nat
    BY <1>1, BoundAssumption, VTypes DEF TInv, Types
  <2>2. Standing' = record
    BY <1>4, StandingIs
  <2>3. Waiting(record, faults)
    BY DEF VInv
  <2> QED BY <2>1, <2>2, <2>3 DEF Waiting
<1>6. CASE Owner(r)
  <2>1. /\ req[r].revision = Revision /\ record.revision = Revision + 1
        /\ Standing.status = "repairing" /\ Needs(r) = 2
    BY <1>6 DEF VInv, OwnersOK, Holds, Owner, Needs, Publishing
  <2>2. ASSUME NEW s \in Requests, Binder(s), req[s].revision = Revision + 1, faults' < 3
        PROVE  record.status # "change_ready"
    <3>1. BinderOK(s)
      BY <1>5, <2>2 DEF VInv
    <3>2. ~Reuse
      BY <1>5, <1>6, <2>1, <2>2 DEF Reuse
    <3> QED BY <1>5, <2>2, <3>1, <3>2 DEF BinderOK
  <2> QED BY <1>1, <1>2, <1>3, <1>4, <1>5, <2>1, <2>2, MarkV
<1>7. CASE req[r].pc \in Publishing /\ record # Standing
  <2>1. record.revision = Revision + 1 /\ record.status # "change_ready"
    BY <1>7, NewMarks
  <2> QED BY <1>1, <1>2, <1>3, <1>4, <1>5, <2>1, MarkV
<1>8. CASE req[r].pc \in Publishing /\ record = Standing
  <2>1. req[r].pc # "receipt"
    BY <1>8, NewMarks
  <2>2. ~Pending /\ ~Retreat'
    <3>1. req[r].pc \notin {"receipt", "offerReceipt", "offerRoll"} /\ req'[r].pc \notin Rolling
      BY <1>1, <1>8, <2>1 DEF Publishing, NoRequest, Rolling
    <3> QED BY <1>3, <3>1 DEF Pending, Retreat
  <2>3. /\ Standing' = Standing /\ req'[r].revision <= Revision + 1
        /\ \A s \in Requests : s # r => ~Holds(s)
    BY <1>2, <1>3, <1>5, <1>8
  <2> QED BY <1>1, <1>2, <1>5, <1>8, <2>2, <2>3, KeepV
<1>9. Owner(r) \/ req[r].pc \in Publishing
  BY <1>1, Doing DEF Holds, Owner
<1> QED BY <1>6, <1>7, <1>8, <1>9

LEMMA StillStands ==
  ASSUME TInv, TInv', NEW r \in Requests, Requested(r),
         \/ ~Holds(r) /\ ~Holds(r)' /\ record' = record
         \/ Holds(r) /\ Holds(r)' /\ req'[r].original = req[r].original
         \/ (\A s \in Requests : ~Holds(s)) /\ Holds(r)' /\ req'[r].original = record
  PROVE  Standing' = Standing
<1>1. \A s \in Requests : s # r => req'[s] = req[s] /\ (Holds(s)' <=> Holds(s))
  BY DEF Requested, Others, Holds
<1>2. CASE ~Holds(r) /\ ~Holds(r)' /\ record' = record
  <2>1. CASE \E s \in Requests : Holds(s)
    BY <1>1, <1>2, <2>1, StandingIs
  <2>2. CASE \A s \in Requests : ~Holds(s)
    BY <1>1, <1>2, <2>2, StandingIs
  <2> QED BY <2>1, <2>2
<1>3. CASE Holds(r) /\ Holds(r)' /\ req'[r].original = req[r].original
  BY <1>3, StandingIs
<1>4. CASE (\A s \in Requests : ~Holds(s)) /\ Holds(r)' /\ req'[r].original = record
  BY <1>4, StandingIs
<1> QED BY <1>2, <1>3, <1>4

LEMMA FaultsGrow ==
  ASSUME TInv, faults' = faults \/ Fault
  PROVE  faults' >= faults /\ faults' \in Nat /\ faults \in Nat
BY VTypes DEF Fault

LEMMA WaitingStays ==
  ASSUME TInv, TInv', VInv, faults' >= faults, record' = record \/ record' = Standing
  PROVE  Waiting(record', faults')
<1>1. faults' \in Nat /\ faults \in Nat
  BY BoundAssumption DEF TInv, Types
<1>2. Waiting(record, faults) /\ Waiting(Standing, faults)
  BY DEF VInv
<1> QED BY <1>1, <1>2 DEF Waiting

\* A step that neither takes a record to restore nor gives one up.
LEMMA OutsideV ==
  ASSUME TInv, TInv', VInv, NEW r \in Requests, Requested(r), ~Holds(r), ~Holds(r)',
         record' = record, faults' >= faults,
         Owner(r)' => /\ Owner(r) /\ req'[r].revision = req[r].revision
                      /\ Needs(r)' <= Needs(r),
         req'[r].revision <= Revision + 1,
         Binder(r)' /\ faults' < 3 => \/ Binder(r) /\ req'[r].revision = req[r].revision
                                      \/ BinderOK(r)'
  PROVE  VInv'
<1>1. Standing' = Standing
  BY StillStands
<1>2. \A s \in Requests : s # r => req'[s] = req[s]
  BY DEF Requested, Others
<1>3. (Pending => Pending') /\ (Retreat' => Retreat)
  BY <1>2 DEF Pending, Retreat, Holds, Publishing, Rolling
<1>4. faults' \in Nat /\ faults \in Nat
  BY BoundAssumption DEF TInv, Types
<1>5. Reuse => Reuse'
  <2>1. \A s \in Requests : Owner(s)' => /\ Owner(s) /\ req'[s].revision = req[s].revision
                                         /\ Needs(s)' <= Needs(s)
    BY <1>2 DEF Owner, Needs
  <2> QED BY <1>1, <2>1, ReachStays
<1>6. /\ faults' < 3 /\ Pending /\ record.status # "change_ready" =>
           Pending' /\ record'.status # "change_ready"
      /\ faults' < 3 /\ Retreat' /\ record' # Standing => Reuse'
      /\ record' = Standing \/ record'.revision = Revision + 1
  BY <1>3, <1>4, <1>5 DEF VInv
<1>7. Waiting(record', faults') /\ req'[r].pc # "offerRoll"
  BY WaitingStays DEF Holds
<1> QED BY <1>1, <1>6, <1>7, KeepV

LEMMA BindV ==
  ASSUME IInv, TInv', VInv, NEW r \in Requests, NEW op \in Operations, NEW x \in Transactions,
         Bind(r, op, x)
  PROVE  VInv'
<1>1. TInv BY DEF IInv
<1>2. /\ Requested(r) /\ req[r] = NoRequest /\ req'[r].pc = "load" /\ req'[r].op = op
      /\ req'[r].revision = record.revision
  BY <1>1, BindFacts
<1>3. UNCHANGED <<record, faults>> /\ Allowed(op, x)
  BY DEF Bind
<1>4. ~Holds(r) /\ ~Holds(r)' /\ ~Owner(r)' /\ Revision \in Nat /\ record.revision \in Nat
  BY <1>1, <1>2, VTypes DEF Holds, Owner, NoRequest, Publishing
<1>5. record = Standing \/ record.revision = Revision + 1
  BY DEF VInv
<1>6. req'[r].revision <= Revision + 1 /\ faults' >= faults /\ Standing' = Standing
  BY <1>1, <1>2, <1>3, <1>4, <1>5, VTypes, StillStands DEF Revision
<1>7. \A s \in Requests : /\ Owner(s)' => Owner(s) /\ req'[s] = req[s]
                          /\ req[s].pc # "idle" => req'[s] = req[s]
  BY <1>2, <1>4 DEF Requested, Others, Owner, NoRequest
<1>8. ASSUME Binder(r)', faults' < 3 PROVE BinderOK(r)'
  <2>1. record.status \notin {"change_ready", "repairing"}
    BY <1>2, <1>3, <1>8 DEF Binder, Allowed, Settled
  <2>2. CASE record = Standing
    <3>1. Reach
      BY <2>1, <2>2 DEF Reach, VInv, OwnersOK
    <3>2. Reach'
      BY <1>1, <1>6, <1>7, <3>1, ReachStays DEF Needs
    <3>3. req'[r].revision # Revision' + 1
      BY <1>2, <1>4, <1>6, <2>2 DEF Revision
    <3> QED BY <3>2, <3>3 DEF BinderOK
  <2>3. CASE record # Standing
    <3>1. PICK s \in Requests : Holds(s)
      BY <1>1, <2>3, StandingIs
    <3>2. Pending \/ Retreat
      <4>1. CASE req[s].pc \in Publishing
        <5>1. PubOK(s) /\ Standing = req[s].original
          BY <1>1, <3>1, <4>1, PubDesigns, StandingIs
        <5>2. req[s].pc \in Rolling \cup {"receipt"}
          BY <2>3, <4>1, <5>1 DEF PubOK, Publishing, Rolling
        <5> QED BY <5>2 DEF Pending, Retreat
      <4>2. CASE req[s].pc \notin Publishing
        BY <3>1, <4>2 DEF Pending, Holds
      <4> QED BY <4>1, <4>2
    <3>3. Pending => Pending'
      BY <1>7 DEF Pending
    <3>4. Retreat => Reuse'
      <4>1. Retreat => Reuse
        BY <1>3, <1>8, <2>3 DEF VInv
      <4> QED BY <1>1, <1>6, <1>7, <4>1, ReachStays DEF Needs
    <3>5. req'[r].revision # Revision'
      BY <1>2, <1>4, <1>5, <1>6, <2>3 DEF Revision
    <3>6. Reuse' \/ (Pending' /\ record'.status # "change_ready")
      BY <1>3, <2>1, <3>2, <3>3, <3>4
    <3> QED BY <3>5, <3>6 DEF BinderOK
  <2> QED BY <2>2, <2>3
<1> QED BY <1>1, <1>2, <1>3, <1>4, <1>6, <1>8, OutsideV

LEMMA LoadV ==
  ASSUME IInv, TInv', VInv, NEW r \in Requests, Load(r)
  PROVE  VInv'
<1>1. /\ TInv /\ req[r].pc = "load" /\ UNCHANGED <<record, faults>> /\ ~Holds(r)
      /\ req[r].revision <= Revision + 1 /\ faults' >= faults
  BY VTypes DEF IInv, Load, At, Holds, Publishing, VInv
<1>2. CASE End(r)
  BY <1>1, <1>2, QuitV
<1>3. CASE ~End(r)
  <2>1. /\ Requested(r) /\ req'[r].pc = FirstStep(req[r].op) /\ SameTask(r)
        /\ req'[r].revision = req[r].revision
    BY <1>1, <1>3, LoadFacts
  <2>2. ~Holds(r)' /\ ~Owner(r)' /\ (Binder(r)' => Binder(r))
    BY <1>1, <2>1 DEF FirstStep, Holds, Publishing, Owner, Binder, SameTask
  <2> QED BY <1>1, <2>1, <2>2, OutsideV
<1> QED BY <1>2, <1>3

LEMMA Free ==
  ASSUME TInv, lock = None
  PROVE  /\ \A s \in Requests : ~Holds(s)
         /\ Standing = record /\ Revision = record.revision /\ ~Pending /\ ~Retreat
<1>1. \A s \in Requests : ~Holds(s)
  BY DesignAssumption DEF TInv, Locked, Holds
<1>2. ~Pending /\ ~Retreat
  BY <1>1 DEF Pending, Retreat, Holds, Publishing, Rolling
<1> QED BY <1>1, <1>2, StandingIs DEF Revision

LEMMA RepairV ==
  ASSUME IInv, TInv', VInv, NEW r \in Requests,
         StartRepair(r) \/ ReviseRepair(r) \/ RecordFailure(r) \/ RecordEvidence(r)
  PROVE  VInv'
<1>1. /\ TInv /\ faults' = faults /\ ~Holds(r) /\ faults' >= faults /\ faults \in Nat
      /\ req[r].revision \in Nat
  BY VTypes
  DEF IInv, StartRepair, ReviseRepair, RecordFailure, RecordEvidence, At, Holds, Publishing
<1>2. CASE End(r) /\ record' = record
  BY <1>1, <1>2, QuitV
<1>3. CASE /\ record' = record /\ Requested(r) /\ req[r].pc = "revise" /\ req[r].op = "repair"
           /\ req'[r].pc = "fail" /\ SameTask(r) /\ SameRead(r)
  <2>1. /\ Owner(r) /\ ~Binder(r)' /\ ~Holds(r)' /\ Needs(r)' <= Needs(r)
        /\ req'[r].revision = req[r].revision /\ req[r].revision <= Revision + 1
    BY <1>3 DEF Owner, Binder, Holds, Publishing, Needs, SameTask, SameRead, VInv
  <2> QED BY <1>1, <1>3, <2>1, OutsideV
<1>4. ASSUME lock = None, record.revision = req[r].revision, UNCHANGED lock
      PROVE  /\ Standing = record /\ Revision = record.revision /\ ~Pending /\ record.revision \in Nat
             /\ \A s \in Requests : ~Holds(s) /\ ~Holds(s)'
             /\ Waiting(record, faults)
             /\ \A s \in Requests : Binder(s) /\ req[s].revision = Revision + 1 /\ faults' < 3 => Reuse
             /\ Binder(r) /\ faults' < 3 => record.status # "change_ready" /\ record.active = None
             /\ Owner(r) => record.status = "repairing" /\ (faults' < 3 => record.active = None)
  <2>1. /\ Standing = record /\ Revision = record.revision /\ ~Pending /\ record.revision \in Nat
        /\ \A s \in Requests : ~Holds(s)
    BY <1>1, <1>4, Free, VTypes
  <2>2. \A s \in Requests : ~Holds(s)'
    BY <1>4, DesignAssumption DEF TInv, Locked, Holds
  <2>3. Waiting(record, faults)
    BY DEF VInv
  <2>4. Binder(r) /\ faults < 3 => BinderOK(r)
    BY DEF VInv
  <2>5. Binder(r) /\ faults' < 3 => record.status # "change_ready" /\ record.active = None
    BY <1>1, <1>4, <2>1, <2>3, <2>4 DEF BinderOK, Reach, Waiting
  <2>6. Owner(r) => record.status = "repairing" /\ (faults' < 3 => record.active = None)
    BY <1>1, <1>4, <2>1, <2>3 DEF VInv, OwnersOK, Waiting
  <2>7. ASSUME NEW s \in Requests, Binder(s), req[s].revision = Revision + 1, faults' < 3
        PROVE  Reuse
    <3>1. BinderOK(s)
      BY <1>1, <2>7 DEF VInv
    <3>2. Revision + 1 # Revision
      BY <2>1
    <3> QED BY <2>1, <2>7, <3>1 DEF BinderOK
  <2> QED BY <2>1, <2>2, <2>3, <2>5, <2>6, <2>7
<1>5. CASE StartRepair(r) /\ ~(End(r) /\ record' = record)
  <2>1. /\ req[r].pc = "start" /\ req[r].op = "repair" /\ lock = None /\ UNCHANGED lock
        /\ record.revision = req[r].revision /\ Marked("repairing")
        /\ Requested(r) /\ req'[r].pc = "revise" /\ SameTask(r)
        /\ req'[r].revision = req[r].revision + 1
    BY <1>1, <1>5, StartRepairFacts
  <2>2. Binder(r) /\ ~Binder(r)' /\ Owner(r)' /\ Needs(r)' = 1
    BY <2>1 DEF Binder, Owner, Needs, SameTask
  <2>3. Waiting(record', faults')
    BY <1>1, <1>4, <2>1, <2>2 DEF Waiting, Marked
  <2>4. \A s \in Requests :
          s # r /\ Binder(s) /\ req[s].revision = Revision + 1 /\ faults' < 3 =>
            record'.status # "change_ready" /\ faults' >= Needs(r)'
    BY <1>1, <1>4, <2>1, <2>2 DEF Reuse, Marked
  <2> QED BY <1>1, <1>4, <2>1, <2>2, <2>3, <2>4, MarkV DEF Marked, Requested, Others
<1>6. CASE ReviseRepair(r) /\ Marked(record.status)
  <2>1. /\ req[r].pc = "revise" /\ req[r].op = "repair" /\ lock = None /\ UNCHANGED lock
        /\ record.revision = req[r].revision
        /\ Requested(r) /\ req'[r].pc = "stage" /\ SameTask(r)
        /\ req'[r].revision = req[r].revision + 1
    <3>1. record' # record
      BY <1>1, <1>6, VTypes DEF Marked
    <3> QED BY <1>1, <1>6, <3>1, ReviseRepairFacts
  <2>2. Owner(r) /\ ~Binder(r)' /\ Owner(r)' /\ Needs(r) = 1 /\ Needs(r)' = 2
    BY <2>1 DEF Binder, Owner, Needs, SameTask
  <2>3. Waiting(record', faults')
    BY <1>1, <1>4, <1>6, <2>1, <2>2 DEF Waiting, Marked
  <2>4. \A s \in Requests :
          s # r /\ Binder(s) /\ req[s].revision = Revision + 1 /\ faults' < 3 =>
            record'.status # "change_ready" /\ faults' >= Needs(r)'
    BY <1>1, <1>4, <1>6, <2>1, <2>2 DEF Reuse, Marked
  <2> QED BY <1>1, <1>4, <1>6, <2>1, <2>2, <2>3, <2>4, MarkV DEF Marked, Requested, Others
<1>7. CASE (RecordFailure(r) \/ RecordEvidence(r)) /\ ~(End(r) /\ record' = record)
  <2>1. /\ lock = None /\ UNCHANGED lock /\ End(r) /\ record.revision = req[r].revision
        /\ \/ Owner(r) /\ Marked("repair_failed")
           \/ Binder(r) /\ Marked(record.status)
    BY <1>1, <1>7, RecordFailureFacts, RecordEvidenceFacts DEF Owner, Binder
  <2>2. Requested(r) /\ req'[r] = NoRequest
    BY <1>1, <2>1, EndFacts DEF TInv, Types
  <2>3. ~Binder(r)' /\ ~Owner(r)' /\ req'[r].revision = 0
    BY <2>2 DEF Binder, Owner, NoRequest
  <2>4. Waiting(record', faults') /\ (faults' < 3 => record'.status # "change_ready")
    BY <1>1, <1>4, <2>1 DEF Waiting, Marked
  <2> QED BY <1>1, <1>4, <2>1, <2>2, <2>3, <2>4, MarkV DEF Marked, Requested, Others
<1> QED BY <1>1, <1>2, <1>3, <1>5, <1>6, <1>7, ReviseRepairFacts

LEMMA RecoverV ==
  ASSUME IInv, TInv', VInv, Recover
  PROVE  VInv'
<1>1. /\ TInv /\ lock = None /\ UNCHANGED <<req, faults, lock>> /\ record.status = "repairing"
      /\ Marked(IF live # None THEN "generated" ELSE "interrupted")
  BY RecoverFacts DEF IInv
<1>2. /\ Revision = record.revision /\ faults \in Nat /\ \A s \in Requests : ~Holds(s)'
  BY <1>1, Free, VTypes DEF Holds
<1>3. Waiting(record, faults)
  BY DEF VInv
<1>4. Waiting(record', faults')
  BY <1>1, <1>3 DEF Waiting, Marked
<1> QED BY <1>1, <1>2, <1>4, DesignAssumption, MarkV DEF Marked

LEMMA StageV ==
  ASSUME IInv, TInv', VInv, NEW r \in Requests, StageRepair(r) \/ StageOperation(r)
  PROVE  VInv'
<1>1. /\ TInv /\ UNCHANGED <<record, faults>> /\ faults' >= faults /\ req[r].pc = "stage"
      /\ ~Holds(r) /\ req[r].revision <= Revision + 1
  BY VTypes DEF IInv, StageRepair, StageOperation, At, Holds, Publishing, VInv
<1>2. CASE End(r)
  BY <1>1, <1>2, QuitV
<1>3. CASE /\ Requested(r) /\ SameTask(r) /\ SameRead(r)
           /\ \/ req[r].op = "repair" /\ req'[r].pc \in {"offer", "fail"}
              \/ req[r].op = "operation" /\ req'[r].pc = "lock"
  <2>1. /\ Needs(r)' <= Needs(r) /\ req'[r].revision = req[r].revision
        /\ (Owner(r)' => Owner(r)) /\ (Binder(r)' => Binder(r)) /\ ~Holds(r)'
    BY <1>1, <1>3 DEF Owner, Binder, Needs, Holds, Publishing, SameTask, SameRead
  <2> QED BY <1>1, <1>3, <2>1, OutsideV
<1> QED BY <1>1, <1>2, <1>3, StageRepairFacts, StageOperationFacts

LEMMA OfferV ==
  ASSUME IInv, TInv', VInv, NEW r \in Requests, Offer(r)
  PROVE  VInv'
<1>1. /\ TInv /\ req[r].pc = "offer" /\ req[r].op = "repair" /\ lock = None
      /\ faults' = faults /\ ~Holds(r) /\ faults' >= faults /\ Tx(r) \in Transactions
  BY OfferEffects, VTypes DEF IInv, Holds, Publishing
<1>2. CASE End(r) /\ record' = record
  BY <1>1, <1>2, QuitV
<1>3. CASE /\ record.revision = req[r].revision /\ Requested(r)
           /\ req'[r].pc = "offerReceipt" /\ SameTask(r)
           /\ req'[r].revision = req[r].revision /\ req'[r].original = record
           /\ Noted("change_ready", Tx(r)) \/ Marked("repair_failed")
  <2>1. /\ \A s \in Requests : ~Holds(s)
        /\ Standing = record /\ Revision = record.revision /\ ~Pending /\ ~Retreat
        /\ Revision \in Nat
    BY <1>1, Free, VTypes
  <2>2. /\ Owner(r) /\ ~Binder(r)' /\ Needs(r)' <= Needs(r) /\ Holds(r)'
        /\ req'[r].pc \notin Rolling
    BY <1>1, <1>3 DEF Owner, Binder, Needs, Holds, SameTask, Rolling
  <2>3. Standing' = Standing
    BY <1>1, <1>3, <2>1, <2>2, StillStands
  <2>4. ~Retreat'
    BY <1>3, <2>1, <2>2 DEF Retreat, Requested, Others
  <2>5. record.status = "repairing" /\ Waiting(record, faults)
    BY <1>3, <2>1, <2>2 DEF VInv, OwnersOK
  <2>6. Waiting(record', faults')
    BY <1>1, <1>3, <2>5, DesignAssumption DEF Waiting, Noted, Marked
  <2>7. /\ record'.revision = Revision + 1 /\ req'[r].revision = Revision
        /\ req'[r].revision <= Revision + 1
    BY <1>3, <2>1 DEF Noted, Marked
  <2> QED BY <1>1, <1>3, <2>1, <2>2, <2>3, <2>4, <2>6, <2>7, KeepV
<1> QED BY <1>1, <1>2, <1>3, OfferEffects

LEMMA OfferReceiptV ==
  ASSUME IInv, TInv', VInv, NEW r \in Requests, OfferReceipt(r)
  PROVE  VInv'
<1>1. /\ TInv /\ req[r].pc = "offerReceipt" /\ req[r].op = "repair" /\ lock = r
      /\ record' = record /\ Holds(r)
  BY OfferReceiptEffects DEF IInv, Holds
<1>2. CASE End(r) /\ faults' = faults
  BY <1>1, <1>2, VTypes, LeaveV
<1>3. CASE /\ Fault /\ Requested(r) /\ req'[r].pc = "offerRoll"
           /\ SameTask(r) /\ SameRead(r) /\ SameMoves(r)
  <2>1. faults' >= 1 /\ faults' >= faults
    BY <1>1, <1>3, VTypes DEF Fault
  <2>2. /\ Owner(r) /\ ~Binder(r)' /\ Needs(r)' <= Needs(r) /\ Holds(r)'
        /\ req'[r].pc \notin Rolling
    BY <1>1, <1>3 DEF Owner, Binder, Needs, Holds, SameTask, Rolling
  <2>3. Standing' = Standing
    BY <1>1, <1>3, <2>2, StillStands DEF SameMoves
  <2>4. /\ \A s \in Requests : s # r => ~Holds(s)
        /\ ~Retreat'
    BY <1>1, <1>3, <2>2, OneHolder DEF Retreat, Requested, Others
  <2>5. /\ req'[r].revision = Revision /\ record.revision = Revision + 1
        /\ req[r].revision = Revision /\ req'[r].revision <= Revision + 1
    BY <1>1, <1>3, <2>2, VTypes DEF SameRead, VInv, OwnersOK
  <2>6. Pending' /\ Waiting(record', faults')
    BY <1>1, <1>3, <2>1, WaitingStays DEF Pending
  <2> QED BY <1>1, <1>3, <2>1, <2>2, <2>3, <2>4, <2>5, <2>6, KeepV
<1> QED BY <1>1, <1>2, <1>3, OfferReceiptEffects

LEMMA OfferRollbackV ==
  ASSUME IInv, TInv', VInv, NEW r \in Requests, OfferRollback(r)
  PROVE  VInv'
<1>1. /\ TInv /\ req[r].pc = "offerRoll" /\ req[r].op = "repair" /\ lock = r /\ End(r)
      /\ Holds(r) /\ faults' >= faults /\ faults \in Nat /\ faults' \in Nat
      /\ record' \in {record, req[r].original}
  BY OfferRollbackEffects, FaultsGrow DEF IInv, Holds
<1>2. CASE record' = record
  BY <1>1, <1>2, LeaveV
<1>3. CASE record' = req[r].original
  <2>1. Requested(r) /\ req'[r] = NoRequest
    BY <1>1, EndFacts DEF TInv, Types
  <2>2. Owner(r) /\ ~Owner(r)' /\ ~Binder(r)' /\ ~Holds(r)' /\ req'[r].revision = 0
    BY <1>1, <2>1 DEF Owner, Binder, Holds, NoRequest, Publishing
  <2>3. \A s \in Requests : s # r => req'[s] = req[s] /\ ~Holds(s) /\ ~Holds(s)'
    BY <1>1, <2>1, OneHolder DEF Requested, Others, Holds
  <2>4. Standing = req[r].original /\ Standing' = Standing
    BY <1>1, <1>3, <2>2, <2>3, StandingIs
  <2>5. ~Retreat'
    BY <2>2, <2>3 DEF Retreat, Holds, Publishing, Rolling
  <2>6. faults >= 1 /\ req[r].revision = Revision /\ Revision \in Nat
    BY <1>1, <2>2, VTypes DEF VInv, OwnersOK
  <2>7. Reuse'
    <3>1. ASSUME NEW s \in Requests, Owner(s)', req'[s].revision = Revision' PROVE FALSE
      <4>1. s # r /\ Owner(s) /\ req[s].revision = Revision
        BY <2>2, <2>3, <2>4, <3>1 DEF Owner, Revision
      <4> QED BY <2>2, <2>6, <4>1 DEF VInv, OwnersOK
    <3>2. faults' >= 1
      BY <1>1, <2>6
    <3> QED BY <3>1, <3>2 DEF Reuse
  <2>8. Waiting(record', faults')
    BY <1>1, <1>3, <2>4, WaitingStays
  <2> QED BY <1>1, <1>3, <2>1, <2>2, <2>3, <2>4, <2>5, <2>6, <2>7, <2>8, KeepV
<1> QED BY <1>1, <1>2, <1>3

LEMMA DiscardV ==
  ASSUME IInv, TInv', VInv, NEW r \in Requests, Discard(r) \/ DiscardRecord(r)
  PROVE  VInv'
<1>1. TInv /\ ~Holds(r)
  BY DEF IInv, Discard, DiscardRecord, At, Holds, Publishing
<1>2. CASE Discard(r)
  <2>1. /\ req[r].op = "discard" /\ record' = record /\ faults' >= faults
        /\ \/ End(r)
           \/ Requested(r) /\ req'[r].pc = "discardRecord" /\ SameTask(r) /\ SameRead(r)
    BY <1>1, <1>2, DiscardEffects, FaultsGrow
  <2>2. CASE End(r)
    BY <1>1, <2>1, <2>2, QuitV
  <2>3. CASE Requested(r) /\ req'[r].pc = "discardRecord" /\ SameTask(r) /\ SameRead(r)
    <3>1. ~Owner(r)' /\ ~Binder(r)' /\ ~Holds(r)' /\ req'[r].revision <= Revision + 1
      BY <2>1, <2>3 DEF Owner, Binder, Holds, Publishing, SameTask, SameRead, VInv
    <3> QED BY <1>1, <2>1, <2>3, <3>1, OutsideV
  <2> QED BY <2>1, <2>2, <2>3
<1>3. CASE DiscardRecord(r)
  <2>1. /\ req[r].pc = "discardRecord" /\ Tx(r) \in Transactions /\ lock = r /\ End(r)
        /\ faults' >= faults /\ faults' \in Nat
        /\ Noted(receipt[Tx(r)].prior, None) \/ record' = record
    BY <1>1, <1>3, DiscardRecordEffects, FaultsGrow
  <2>2. CASE record' = record
    BY <1>1, <2>1, <2>2, QuitV
  <2>3. CASE Noted(receipt[Tx(r)].prior, None)
    <3>1. receipt[Tx(r)].prior # "change_ready"
      BY <1>1, <2>1 DEF TInv, Types, Settled
    <3>2. Requested(r) /\ req'[r] = NoRequest
      BY <1>1, <2>1, EndFacts DEF TInv, Types
    <3>3. ~Owner(r)' /\ ~Binder(r)' /\ ~Holds(r)' /\ req'[r].revision = 0
      BY <3>2 DEF Owner, Binder, Holds, NoRequest, Publishing
    <3>4. \A s \in Requests : s # r => req'[s] = req[s] /\ ~Holds(s) /\ ~Holds(s)'
      BY <1>1, <2>1, <3>2, OneHolder DEF Requested, Others, Holds
    <3>5. Standing = record /\ Revision = record.revision /\ record.revision \in Nat
      BY <1>1, <3>4, StandingIs, VTypes DEF Revision
    <3>6. Waiting(record', faults') /\ record'.status # "change_ready"
      BY <2>3, <3>1 DEF Waiting, Noted
    <3>7. \A s \in Requests : ~Holds(s)'
      BY <3>3, <3>4
    <3> QED BY <1>1, <2>1, <2>3, <3>2, <3>3, <3>4, <3>5, <3>6, <3>7, MarkV DEF Noted
  <2> QED BY <2>1, <2>2, <2>3
<1> QED BY <1>2, <1>3

\* A step in the middle of a publication.
LEMMA PublishingV ==
  ASSUME IInv, TInv', VInv, NEW r \in Requests, req[r].pc \in Publishing,
         NEW pc \in Publishing, GoesOn(r, pc), faults' >= faults,
         record' = Standing \/ record'.revision = Revision + 1,
         Waiting(record', faults'),
         faults' < 3 =>
           /\ req[r].pc = "receipt" => Reuse'
           /\ pc \in Rolling /\ record' # Standing => Reuse'
  PROVE  VInv'
<1>1. /\ TInv /\ lock = r /\ req[r].op \in {"operation", "apply", "undo"} /\ Requested(r)
      /\ Holds(r) /\ Holds(r)' /\ req'[r].pc = pc
      /\ req'[r].revision = req[r].revision /\ req[r].revision <= Revision + 1
  <2>1. TInv /\ lock = r /\ req[r].op \in {"operation", "apply", "undo"}
    BY Publisher DEF IInv, Publishing
  <2>2. Requested(r) /\ req'[r].pc = pc /\ req'[r].revision = req[r].revision
    BY DEF GoesOn, SameRead
  <2>3. Holds(r) /\ Holds(r)'
    BY <2>2 DEF Holds
  <2>4. req[r].revision <= Revision + 1
    BY DEF VInv
  <2> QED BY <2>1, <2>2, <2>3, <2>4
<1>2. ~Owner(r)' /\ (Binder(r)' => Binder(r))
  BY <1>1 DEF Owner, Binder, GoesOn, SameTask
<1>3. Standing' = Standing
  BY <1>1, StillStands DEF GoesOn
<1>4. \A s \in Requests : s # r =>
        /\ req'[s] = req[s] /\ ~Holds(s)
        /\ req[s].pc \notin {"receipt", "offerReceipt", "offerRoll"} \cup Rolling
  BY <1>1, OneHolder DEF Requested, Others
<1>5. (Pending => req[r].pc = "receipt") /\ (Retreat' => pc \in Rolling)
  <2>1. req[r].pc \notin {"offerReceipt", "offerRoll"}
    BY DEF Publishing
  <2> QED BY <1>1, <1>4, <2>1 DEF Pending, Retreat
<1> QED BY <1>1, <1>2, <1>3, <1>4, <1>5, KeepV

\* What a publication has checked.
LEMMA CheckedV ==
  ASSUME IInv, VInv, NEW r \in Requests, req[r].pc \in Publishing, Checked(r), faults < 3
  PROVE  IF req[r].op = "apply" THEN Standing.status = "change_ready"
         ELSE Reach /\ Standing.active = None
<1>1. /\ TInv /\ Standing = req[r].original /\ req[r].revision = Revision
      /\ req[r].op \in {"operation", "apply", "undo"} /\ Tx(r) \in Transactions
      /\ Waiting(Standing, faults)
  BY NewMarks, Publisher DEF IInv, Checked, Revision, VInv
<1>2. CASE req[r].op = "apply"
  BY <1>1, <1>2, DesignAssumption DEF Checked, Waiting
<1>3. CASE req[r].op # "apply"
  <2>1. BinderOK(r)
    BY <1>1, <1>3 DEF Binder, VInv
  <2> QED BY <1>1, <1>3, <2>1 DEF BinderOK, Reach, Waiting
<1> QED BY <1>2, <1>3

LEMMA GivesUpV ==
  ASSUME IInv, TInv', VInv, NEW r \in Requests, req[r].pc \in Publishing, GivesUp(r),
         record' = record
  PROVE  VInv'
<1>1. /\ TInv /\ "rollOut" \in Publishing /\ GoesOn(r, "rollOut")
      /\ faults' = faults + 1 /\ faults \in Nat /\ faults' >= faults
      /\ \A s \in Requests : s # r => req'[s] = req[s]
  BY VTypes DEF IInv, Publishing, GivesUp, GoesOn, SameMoves, Fault, Requested, Others
<1>2. record' = Standing \/ record'.revision = Revision + 1
  BY DEF VInv
<1>3. Waiting(record', faults')
  BY <1>1, WaitingStays
<1>4. ASSUME faults' < 3, record # Standing PROVE Reuse'
  <2>1. Checked(r)
    BY <1>4, NewMarks, PubDesigns DEF PubOK
  <2>2. Standing' = Standing
    <3>1. Holds(r) /\ Holds(r)' /\ Requested(r)
      BY <1>1 DEF Holds, GoesOn
    <3> QED BY <1>1, <3>1, StillStands DEF GoesOn
  <2>3. \A s \in Requests : Owner(s)' => /\ Owner(s) /\ req'[s].revision = req[s].revision
                                         /\ Needs(s)' = Needs(s)
    <3>1. ~Owner(r)'
      BY <1>1, Publisher DEF Owner, GoesOn, SameTask
    <3> QED BY <1>1, <3>1 DEF Owner, Needs
  <2>4. \A s \in Requests : Needs(s) \in Nat
    BY DEF Needs
  <2>5. Standing.status = "change_ready" \/ Reach
    BY <1>1, <1>4, <2>1, CheckedV
  <2> QED BY <1>1, <2>2, <2>3, <2>4, <2>5 DEF Reach, Reuse, Revision
<1>5. req[r].pc = "receipt" => record # Standing
  BY NewMarks
<1> QED BY <1>1, <1>2, <1>3, <1>4, <1>5, PublishingV

LEMMA TakeLockV ==
  ASSUME IInv, TInv', VInv, NEW r \in Requests, TakeLock(r)
  PROVE  VInv'
<1>1. /\ TInv /\ req[r].pc = "lock" /\ req[r].op \in {"operation", "apply", "undo"}
      /\ lock = None /\ UNCHANGED <<record, faults>> /\ faults' >= faults
      /\ Requested(r) /\ SameTask(r) /\ SameRead(r) /\ req'[r].original = record
      /\ req'[r].pc \in {"moveAway", "rollOut"}
  BY TakeLockEffects, VTypes DEF IInv
<1>2. /\ \A s \in Requests : ~Holds(s)
      /\ Standing = record /\ ~Pending
  BY <1>1, Free
<1>3. /\ Holds(r)' /\ ~Owner(r)' /\ (Binder(r)' => Binder(r))
      /\ req'[r].revision = req[r].revision /\ req[r].revision <= Revision + 1
  BY <1>1 DEF Holds, Publishing, Owner, Binder, SameTask, SameRead, VInv
<1>4. Standing' = Standing /\ Waiting(record', faults')
  BY <1>1, <1>2, <1>3, StillStands, WaitingStays
<1> QED BY <1>1, <1>2, <1>3, <1>4, KeepV

LEMMA MovesV ==
  ASSUME IInv, TInv', VInv, NEW r \in Requests, MoveAway(r) \/ MoveIn(r) \/ WriteRecord(r)
  PROVE  VInv'
<1>1. /\ TInv /\ req[r].pc \in Publishing /\ req[r].pc \in {"moveAway", "moveIn", "record"}
      /\ Tx(r) \in Transactions /\ Revision \in Nat
  BY Publisher, VTypes DEF IInv, MoveAway, MoveIn, WriteRecord, At, Publishing
<1>2. record = Standing /\ PubOK(r)
  BY <1>1, NewMarks, PubDesigns DEF PubOK
<1>3. CASE GivesUp(r) /\ record' = record
  BY <1>1, <1>3, GivesUpV
<1>4. CASE record' = record /\ faults' = faults /\ (GoesOn(r, "moveIn") \/ GoesOn(r, "record"))
  <2>1. {"moveIn", "record"} \subseteq Publishing \ Rolling /\ faults' >= faults
    BY <1>1, <1>4, VTypes DEF Publishing, Rolling
  <2>2. Waiting(record', faults')
    BY <1>1, <1>4, <2>1, WaitingStays
  <2> QED BY <1>1, <1>2, <1>4, <2>1, <2>2, PublishingV
<1>5. CASE WriteRecord(r) /\ ~(GivesUp(r) /\ record' = record)
  <2>1. /\ record'.revision = record.revision + 1
        /\ record'.status = IF req[r].op = "undo" THEN receipt[Tx(r)].prior ELSE "generated"
        /\ record'.active = IF req[r].op = "apply" THEN None ELSE record.active
        /\ GoesOn(r, "receipt") /\ faults' = faults /\ req[r].pc = "record"
    BY <1>1, <1>5, WriteRecordEffects
  <2>2. Checked(r)
    <3>1. req[r].pc = "record" /\ req[r].pc \in Publishing /\ PubOK(r)
      BY <1>1, <1>2, <2>1
    <3>2. req[r].in /\ (req[r].in => req[r].out) /\ (req[r].out => Checked(r))
      BY <3>1 DEF PubOK
    <3> QED BY <3>2
  <2>3. record'.status # "change_ready"
    BY <1>1, <2>1 DEF TInv, Types, Settled
  <2>4. faults < 3 => record'.active = None
    BY <1>1, <1>2, <2>1, <2>2, CheckedV
  <2>5. /\ Waiting(record', faults') /\ faults' >= faults /\ record'.revision = Revision + 1
        /\ "receipt" \in Publishing \ Rolling
    BY <1>1, <1>2, <2>1, <2>3, <2>4, VTypes DEF Waiting, Publishing, Rolling, Revision
  <2> QED BY <1>1, <2>1, <2>5, PublishingV
<1>6. CASE MoveAway(r)
  BY <1>1, <1>3, <1>4, <1>6, MoveAwayEffects
<1>7. CASE MoveIn(r)
  BY <1>1, <1>3, <1>4, <1>7, MoveInEffects
<1>8. CASE WriteRecord(r)
  BY <1>1, <1>3, <1>5, <1>8, WriteRecordEffects
<1> QED BY <1>6, <1>7, <1>8

LEMMA RollsV ==
  ASSUME IInv, TInv', VInv, NEW r \in Requests, RollOut(r) \/ RollIn(r) \/ RollRecord(r)
  PROVE  VInv'
<1>1. /\ TInv /\ req[r].pc \in Publishing /\ req[r].pc \in Rolling /\ req[r].pc # "receipt"
  BY DEF IInv, RollOut, RollIn, RollRecord, At, Publishing, Rolling
<1>2. /\ \E pc \in Publishing : GoesOn(r, pc)
      /\ faults' = faults \/ Fault
      /\ record' \in {record, Standing}
  <2>1. {"rollIn", "rollRecord", "rollReceipt"} \subseteq Publishing
    BY DEF Publishing
  <2>2. Standing = req[r].original
    BY <1>1, NewMarks
  <2>3. CASE RollOut(r)
    BY <1>1, <2>1, <2>3, RollOutEffects
  <2>4. CASE RollIn(r)
    BY <1>1, <2>1, <2>4, RollInEffects
  <2>5. CASE RollRecord(r)
    BY <1>1, <2>1, <2>2, <2>5, RollRecordEffects
  <2> QED BY <2>3, <2>4, <2>5
<1>3. PICK pc \in Publishing : GoesOn(r, pc)
  BY <1>2
<1>4. /\ faults' >= faults /\ faults \in Nat /\ faults' \in Nat
      /\ Waiting(record', faults')
  BY <1>1, <1>2, FaultsGrow, WaitingStays
<1>5. record' = Standing \/ record'.revision = Revision + 1
  BY <1>2 DEF VInv
<1>6. ASSUME faults' < 3, record' # Standing PROVE Reuse'
  <2>1. Reuse
    BY <1>1, <1>2, <1>4, <1>6 DEF VInv, Retreat
  <2>2. Holds(r) /\ Holds(r)' /\ Requested(r) /\ req'[r].original = req[r].original
    BY <1>1, <1>3 DEF Holds, GoesOn
  <2>3. \A s \in Requests : Owner(s)' => /\ Owner(s) /\ req'[s].revision = req[s].revision
                                         /\ Needs(s)' <= Needs(s)
    <3>1. ~Owner(r)'
      BY <1>1, <1>3, Publisher DEF Owner, GoesOn, SameTask
    <3> QED BY <2>2, <3>1 DEF Owner, Needs, Requested, Others
  <2> QED BY <1>1, <1>4, <2>1, <2>2, <2>3, StillStands, ReachStays
<1> QED BY <1>1, <1>3, <1>4, <1>5, <1>6, PublishingV

LEMMA LastV ==
  ASSUME IInv, TInv', VInv, NEW r \in Requests,
         WriteReceipt(r) \/ RollReceipt(r) \/ Crash(r)
  PROVE  VInv'
<1>1. TInv BY DEF IInv
<1>2. CASE WriteReceipt(r)
  <2>1. /\ req[r].pc \in Publishing /\ Holds(r) /\ record' = record
        /\ (End(r) /\ faults' = faults) \/ GivesUp(r)
    BY <1>1, <1>2, WriteReceiptEffects DEF Publishing, Holds
  <2> QED BY <1>1, <2>1, LeaveV, GivesUpV, FaultsGrow
<1>3. CASE RollReceipt(r)
  <2>1. /\ Holds(r) /\ End(r) /\ record' = record /\ (faults' = faults \/ Fault)
    BY <1>1, <1>3, RollReceiptEffects DEF Publishing, Holds
  <2> QED BY <1>1, <2>1, LeaveV, FaultsGrow
<1>4. CASE Crash(r)
  BY <1>1, <1>4, CrashEffects, LeaveV, QuitV, FaultsGrow
<1> QED BY <1>2, <1>3, <1>4

LEMMA InitVInv ==
  ASSUME Init
  PROVE  VInv
<1>1. \A r \in Requests : /\ ~Owner(r) /\ ~Binder(r) /\ req[r].revision = 0 /\ req[r].pc \notin Rolling
  BY DEF Init, NoRequest, Owner, Binder, Rolling
<1>2. Standing = record /\ record.revision = 0 /\ record.active = None /\ record.status = "generated"
  BY DEF Init, Standing
<1> QED BY <1>1, <1>2 DEF VInv, OwnersOK, Waiting, Retreat, Revision

LEMMA NextVInv ==
  ASSUME IInv, IInv', VInv, [Next]_vars
  PROVE  VInv'
<1>1. CASE UNCHANGED vars
  BY <1>1
  DEF vars, VInv, OwnersOK, BinderOK, Waiting, Pending, Retreat, Reach, Reuse, Owner, Binder,
      Needs, Revision, Standing, Holds
<1>2. CASE Next
  <2>1. TInv'
    BY DEF IInv
  <2> QED BY <1>2, <2>1, BindV, LoadV, RepairV, StageV, OfferV, OfferReceiptV, OfferRollbackV,
             DiscardV, TakeLockV, MovesV, RollsV, LastV, RecoverV
      DEF Next
<1> QED BY <1>1, <1>2

LEMMA Revisions == Spec => []VInv
<1>1. IInv /\ IInv' /\ VInv /\ [Next]_vars => VInv'
  BY NextVInv
<1> QED BY <1>1, InitVInv, Invariant, PTL DEF Spec

\* A project that waits for a decision names the transaction to decide on, always; and
\* before the third fault a project that names one waits for its decision, so apply or
\* discard can resolve it.
THEOREM ChangesAreResolvable == Spec => []StagedChangeResolvable
<1>1. VInv => StagedChangeResolvable
  BY DEF VInv, Waiting, StagedChangeResolvable
<1> QED BY <1>1, Revisions, PTL
=============================================================================
