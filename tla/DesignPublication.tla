--------------------------- MODULE DesignPublication ---------------------------
(***************************************************************************)
(* How the authoritative design of one project is replaced: a repair is      *)
(* staged and offered, applied, discarded or undone, and a flat PCB          *)
(* operation (or a part registration) is staged and published at once.       *)
(* services/application_repair_transaction.py, _modification_apply.py,       *)
(* _modification_revert.py, _pcb_operations.py and application.py.           *)
(*                                                                          *)
(* A design is published by two renames of directories, a write of           *)
(* project.json and a write of the transaction's receipt, all under the      *)
(* project lock; an exception at any of them is rolled back by the same      *)
(* steps in reverse, each of which may fail as well, and the process may be  *)
(* killed between any two.  Readers take no lock: a request binds the record *)
(* it has read by its revision.                                              *)
(*                                                                          *)
(* A definition whose name ends in an underscore and a word is a mutant: the *)
(* definition after it with a plausible bug, which no specification uses.    *)
(***************************************************************************)
EXTENDS Naturals, FiniteSets

CONSTANTS
  Requests,      \* request threads, of one process or of several
  Transactions,  \* transaction ids
  Base,          \* the design before any of them
  MaxRevision,   \* bound on the revision at which a request begins
  MaxFaults,     \* bound on kills and input/output errors
  None

ASSUME DesignAssumption ==
  Base \notin Transactions /\ None \notin Transactions \cup {Base} \cup Requests
ASSUME BoundAssumption == MaxRevision \in Nat /\ MaxFaults \in Nat

VARIABLES
  live,     \* the design in the project's design directory, or None
  record,   \* project.json
  receipt,  \* transactions/<id>/receipt.json
  dir,      \* the design in each directory of a transaction, or None
  lock,     \* holder of the project lock
  req,      \* the requests
  faults,   \* kills and errors so far
  torn,     \* history: a kill or a failed rollback left a publication half done
  shown,    \* history: the designs that were ever live
  closed    \* history: transactions whose discard or undo was recorded

vars == <<live, record, receipt, dir, lock, req, faults, torn, shown, closed>>

\* The candidate of a transaction is named after it.
Designs == Transactions \cup {Base}
Places  == {"staged", "before", "after", "failed"}

\* generated stands for validated, released and their failures as well.
Settled  == {"generated", "interrupted", "repair_failed"}
Statuses == Settled \cup {"repairing", "change_ready"}

\* `vouched' is a history variable: the design that design_revision names.
Record == [status : Statuses, revision : Nat, active : Transactions \cup {None},
           last : Transactions \cup {None}, vouched : Designs]

ReceiptStatuses == {"absent", "preparing", "ready", "rejected", "discarded", "applied",
                    "undone", "failed", "rollback_incomplete"}

\* `base' is before_hash, `prior' is prior_status.
Receipt == [kind : {"repair", "operation"}, status : ReceiptStatuses,
            base : Designs, prior : Statuses]

NoReceipt == [kind |-> "repair", status |-> "absent", base |-> Base, prior |-> "generated"]

Operations == {"repair", "operation", "evidence", "apply", "discard", "undo"}
Steps == {"idle", "load", "start", "revise", "stage", "fail", "offer", "offerReceipt",
          "offerRoll", "evidence", "discard", "discardRecord", "lock", "moveAway", "moveIn", "record",
          "receipt", "rollOut", "rollIn", "rollRecord", "rollReceipt"}

\* A request: what it has read (revision, base, prior, the status of the receipt),
\* the record it will restore, what it has moved (out, in), and whether a step of
\* its rollback failed.
NoRequest == [op |-> "none", pc |-> "idle", tx |-> None, revision |-> 0, base |-> Base,
              prior |-> "generated", seen |-> "absent", original |-> None,
              out |-> FALSE, in |-> FALSE, bad |-> FALSE]

Init ==
  /\ live = Base
  /\ record = [status |-> "generated", revision |-> 0, active |-> None, last |-> None,
               vouched |-> Base]
  /\ receipt = [x \in Transactions |-> NoReceipt]
  /\ dir = [x \in Transactions |-> [p \in Places |-> None]]
  /\ lock = None
  /\ req = [r \in Requests |-> NoRequest]
  /\ faults = 0
  /\ torn = FALSE
  /\ shown = {Base}
  /\ closed = {}

At(r, pc) == req[r].pc = pc
Go(r, pc) == req' = [req EXCEPT ![r].pc = pc]
End(r)    == req' = [req EXCEPT ![r] = NoRequest]
Tx(r)     == req[r].tx

\* A write or a rename fails, or a check of what was written does.
Fault == faults < MaxFaults /\ faults' = faults + 1

SetReceipt(x, status) == receipt' = [receipt EXCEPT ![x].status = status]

files   == <<live, dir, shown>>
history == <<torn, closed>>

-----------------------------------------------------------------------------
\* A request binds the revision of the record it reads, then reads the design or
\* the receipt.  Each operation has its gate on the status: the tool registry's
\* allowed_statuses and the check of the method itself.

Fresh(x) == receipt[x].status = "absent" /\ \A r \in Requests : Tx(r) # x

Allowed(op, x) ==
  CASE op = "repair"    -> record.status \in Settled /\ record.active = None /\ Fresh(x)
    [] op = "operation" -> record.status \in {"generated", "interrupted"} /\ Fresh(x)
    [] op = "evidence"  -> record.status \in {"generated", "interrupted"}
    [] op \in {"apply", "discard"} -> record.status = "change_ready" /\ record.active = x
    [] op = "undo"      -> record.status = "generated" /\ record.last = x

Bind(r, op, x) ==
  /\ At(r, "idle")
  /\ record.revision < MaxRevision
  /\ Allowed(op, x)
  /\ req' = [req EXCEPT ![r] =
       [NoRequest EXCEPT !.op = op, !.pc = "load", !.tx = x,
                         !.revision = record.revision, !.prior = record.status]]
  /\ UNCHANGED <<files, record, receipt, lock, faults, history>>

\* The next step of each operation.
FirstStep(op) ==
  CASE op = "repair" -> "start" [] op = "operation" -> "stage"
    [] op = "evidence" -> "evidence" [] op = "discard" -> "discard" [] OTHER -> "lock"

Load(r) ==
  LET op == req[r].op
      x  == Tx(r)
      readable ==
        CASE op \in {"repair", "operation", "evidence"} -> live # None
          [] op = "apply"   -> receipt[x].status = "ready"
          [] op = "undo"    -> receipt[x].kind = "repair" /\ receipt[x].status = "applied"
          [] op = "discard" -> TRUE
  IN
  /\ At(r, "load")
  /\ IF readable
     THEN req' = [req EXCEPT ![r].pc = FirstStep(op), ![r].seen = receipt[x].status,
                             ![r].base = IF op \in {"apply", "discard", "undo"}
                                         THEN receipt[x].base ELSE live]
     ELSE End(r)
  /\ UNCHANGED <<files, record, receipt, lock, faults, history>>

-----------------------------------------------------------------------------
\* prepare_agent_repair.  The provider and KiCad work without the lock; every
\* section under it first compares the revision.

Current(r) == lock = None /\ record.revision = req[r].revision
Stale(r)   == lock = None /\ record.revision # req[r].revision

StartRepair(r) ==
  /\ At(r, "start")
  /\ \/ /\ Current(r)
        /\ record' = [record EXCEPT !.status = "repairing", !.revision = @ + 1]
        /\ req' = [req EXCEPT ![r].pc = "revise", ![r].revision = @ + 1]
     \/ Stale(r) /\ End(r) /\ UNCHANGED record
  /\ UNCHANGED <<files, receipt, lock, faults, history>>

ReviseRepair(r) ==
  /\ At(r, "revise")
  /\ \/ /\ Current(r)
        /\ record' = [record EXCEPT !.revision = @ + 1]
        /\ req' = [req EXCEPT ![r].pc = "stage", ![r].revision = @ + 1]
     \/ Stale(r) /\ End(r) /\ UNCHANGED record
     \/ Go(r, "fail") /\ UNCHANGED record
  /\ UNCHANGED <<files, receipt, lock, faults, history>>

\* Mutant: the failure is not recorded.
RecordFailure_Silent(r) ==
  /\ At(r, "fail")
  /\ End(r)
  /\ UNCHANGED <<files, record, receipt, lock, faults, history>>

\* _record_failure gives way to whoever has changed the project.
RecordFailure(r) ==
  /\ At(r, "fail")
  /\ \/ Current(r) /\ record' = [record EXCEPT !.status = "repair_failed", !.revision = @ + 1]
     \/ Stale(r) /\ UNCHANGED record
  /\ End(r)
  /\ UNCHANGED <<files, receipt, lock, faults, history>>

\* The receipt of a transaction when it is first written.
Written(r, status) ==
  receipt' = [receipt EXCEPT ![Tx(r)] = [kind |-> req[r].op, status |-> status,
                                         base |-> req[r].base, prior |-> req[r].prior]]

\* The candidate is generated and checked in its own directory, or fails there.
StageRepair(r) ==
  /\ At(r, "stage") /\ req[r].op = "repair"
  /\ \/ /\ Written(r, "preparing")
        /\ dir' = [dir EXCEPT ![Tx(r)]["staged"] = Tx(r)]
        /\ Go(r, "offer")
     \/ /\ Written(r, "failed")
        /\ Go(r, "fail")
        /\ UNCHANGED dir
  /\ UNCHANGED <<live, shown, record, lock, faults, history>>

\* An operation is also staged without the lock, and may be refused before it has
\* a receipt.
StageOperation(r) ==
  /\ At(r, "stage") /\ req[r].op = "operation"
  /\ \/ /\ Written(r, "preparing")
        /\ dir' = [dir EXCEPT ![Tx(r)]["staged"] = Tx(r)]
        /\ Go(r, "lock")
     \/ Written(r, "failed") /\ End(r) /\ UNCHANGED dir
     \/ End(r) /\ UNCHANGED <<receipt, dir>>
  /\ UNCHANGED <<live, shown, record, lock, faults, history>>

\* The record is written before the receipt; a candidate with retained failures
\* is rejected.  `seen' keeps the receipt's final status.
Offer(r) ==
  LET x == Tx(r) IN
  /\ At(r, "offer")
  /\ \/ /\ Current(r) /\ live = req[r].base
        /\ lock' = r
        /\ \E final \in {"ready", "rejected"} :
             /\ record' = [record EXCEPT
                  !.status = IF final = "ready" THEN "change_ready" ELSE "repair_failed",
                  !.active = IF final = "ready" THEN x ELSE @,
                  !.revision = @ + 1]
             /\ req' = [req EXCEPT ![r].pc = "offerReceipt", ![r].seen = final,
                                   ![r].original = record]
     \/ /\ Stale(r) \/ (Current(r) /\ live # req[r].base)
        /\ End(r)
        /\ UNCHANGED <<record, lock>>
  /\ UNCHANGED <<files, receipt, faults, history>>

OfferReceipt(r) ==
  /\ At(r, "offerReceipt")
  /\ \/ /\ SetReceipt(Tx(r), req[r].seen)
        /\ lock' = None
        /\ End(r)
        /\ UNCHANGED faults
     \/ /\ Fault
        /\ Go(r, "offerRoll")
        /\ UNCHANGED <<receipt, lock>>
  /\ UNCHANGED <<files, record, history>>

\* Mutant: the offer is withdrawn and its status is left.
OfferRollback_ActiveOnly(r) ==
  /\ At(r, "offerRoll")
  /\ record' = [record EXCEPT !.active = None]
  /\ lock' = None
  /\ End(r)
  /\ UNCHANGED <<files, receipt, faults, history>>

\* The rollback of an offer restores the record, status repairing included.
OfferRollback(r) ==
  /\ At(r, "offerRoll")
  /\ \/ record' = req[r].original /\ UNCHANGED <<receipt, faults>>
     \/ /\ Fault
        /\ record' \in {record, req[r].original}
        /\ SetReceipt(Tx(r), "rollback_incomplete")
  /\ lock' = None
  /\ End(r)
  /\ UNCHANGED <<files, history>>

-----------------------------------------------------------------------------
\* generate_project_previews, and the checks of application_native_outputs.py: the
\* revision moves, the design stays.  Nothing is retried.

RecordEvidence(r) ==
  /\ At(r, "evidence")
  /\ \/ /\ Current(r) /\ live = req[r].base
        /\ record' = [record EXCEPT !.revision = @ + 1]
     \/ (Stale(r) \/ (lock = None /\ live # req[r].base)) /\ UNCHANGED record
  /\ End(r)
  /\ UNCHANGED <<files, receipt, lock, faults, history>>

-----------------------------------------------------------------------------
\* discard_modification: the receipt, then the record, and no rollback.

Discard(r) ==
  LET x == Tx(r) IN
  /\ At(r, "discard")
  /\ \/ /\ Current(r) /\ record.active = x
        /\ SetReceipt(x, "discarded")
        /\ lock' = r
        /\ Go(r, "discardRecord")
        /\ UNCHANGED faults
     \/ /\ Stale(r) \/ (Current(r) /\ record.active # x)
        /\ End(r)
        /\ UNCHANGED <<receipt, lock, faults>>
     \/ lock = None /\ Fault /\ End(r) /\ UNCHANGED <<receipt, lock>>
  /\ UNCHANGED <<files, record, history>>

DiscardRecord(r) ==
  LET x == Tx(r) IN
  /\ At(r, "discardRecord")
  /\ \/ /\ record' = [record EXCEPT !.status = receipt[x].prior, !.active = None,
                                    !.revision = @ + 1]
        /\ closed' = closed \cup {x}
        /\ UNCHANGED faults
     \/ Fault /\ UNCHANGED <<record, closed>>
  /\ lock' = None
  /\ End(r)
  /\ UNCHANGED <<files, receipt, torn>>

-----------------------------------------------------------------------------
\* Publication: apply_modification, undo_last_modification, apply_pcb_operation
\* and register_kicad_part.

\* Where the live design is moved to, where its successor comes from, and where a
\* rollback puts that successor.
Keep(op)   == IF op = "undo" THEN "after" ELSE "before"
Source(op) == IF op = "undo" THEN "before" ELSE "staged"
Back(op)   == CASE op = "apply" -> "staged" [] op = "undo" -> "before"
                [] op = "operation" -> "failed"

\* Mutant: the revision and the transaction are taken as read.
Publishable_Unbound(r) ==
  LET x == Tx(r)
      op == req[r].op
  IN
  /\ op # "operation" => dir[x][Keep(op)] = None
  /\ live = (IF op = "undo" THEN x ELSE req[r].base)
  /\ dir[x][Source(op)] # None

\* Mutant: the design is not compared with the one the candidate was made from.
Publishable_AnyDesign(r) ==
  LET x == Tx(r)
      op == req[r].op
  IN
  /\ record.revision = req[r].revision
  /\ op = "apply" => record.active = x
  /\ op = "undo" => record.last = x
  /\ op # "operation" => dir[x][Keep(op)] = None
  /\ live # None
  /\ dir[x][Source(op)] # None

\* The checks under the lock.
Publishable(r) ==
  LET x == Tx(r)
      op == req[r].op
  IN
  /\ record.revision = req[r].revision
  /\ op = "apply" => record.active = x
  /\ op = "undo" => record.last = x
  /\ op # "operation" => dir[x][Keep(op)] = None
  /\ live = (IF op = "undo" THEN x ELSE req[r].base)
  /\ dir[x][Source(op)] = IF op = "undo" THEN req[r].base ELSE x

\* Mutant: no copy of the record is taken.
TakeLock_NoCopy(r) ==
  /\ At(r, "lock")
  /\ lock = None
  /\ lock' = r
  /\ Go(r, IF Publishable(r) THEN "moveAway" ELSE "rollOut")
  /\ UNCHANGED <<files, record, receipt, faults, history>>

\* The receipt read before the lock is written back with its old status.
TakeLock(r) ==
  /\ At(r, "lock")
  /\ lock = None
  /\ lock' = r
  /\ IF Publishable(r)
     THEN /\ IF req[r].op = "operation" THEN UNCHANGED receipt
             ELSE SetReceipt(Tx(r), req[r].seen)
          /\ req' = [req EXCEPT ![r].pc = "moveAway", ![r].original = record]
     ELSE /\ UNCHANGED receipt
          /\ req' = [req EXCEPT ![r].pc = "rollOut", ![r].original = record]
  /\ UNCHANGED <<files, record, faults, history>>

Rollback(r) == Fault /\ Go(r, "rollOut")

MoveAway(r) ==
  /\ At(r, "moveAway")
  /\ \/ /\ dir' = [dir EXCEPT ![Tx(r)][Keep(req[r].op)] = live]
        /\ live' = None
        /\ req' = [req EXCEPT ![r].pc = "moveIn", ![r].out = TRUE]
        /\ UNCHANGED faults
     \/ Rollback(r) /\ UNCHANGED <<live, dir>>
  /\ UNCHANGED <<shown, record, receipt, lock, history>>

MoveIn(r) ==
  LET from == Source(req[r].op) IN
  /\ At(r, "moveIn")
  /\ \/ /\ live' = dir[Tx(r)][from]
        /\ dir' = [dir EXCEPT ![Tx(r)][from] = None]
        /\ shown' = shown \cup {live'}
        /\ req' = [req EXCEPT ![r].pc = "record", ![r].in = TRUE]
        /\ UNCHANGED faults
     \/ Rollback(r) /\ UNCHANGED <<live, dir, shown>>
  /\ UNCHANGED <<record, receipt, lock, history>>

WriteRecord(r) ==
  LET x == Tx(r)
      op == req[r].op
  IN
  /\ At(r, "record")
  /\ \/ /\ record' = [status   |-> CASE op = "undo" -> receipt[x].prior [] OTHER -> "generated",
                      revision |-> record.revision + 1,
                      active   |-> IF op = "apply" THEN None ELSE record.active,
                      last     |-> IF op = "undo" THEN None ELSE x,
                      vouched  |-> live]
        /\ Go(r, "receipt")
        /\ UNCHANGED faults
     \/ Rollback(r) /\ UNCHANGED record
  /\ UNCHANGED <<files, receipt, lock, history>>

WriteReceipt(r) ==
  LET op == req[r].op IN
  /\ At(r, "receipt")
  /\ \/ /\ SetReceipt(Tx(r), IF op = "undo" THEN "undone" ELSE "applied")
        /\ closed' = IF op = "undo" THEN closed \cup {Tx(r)} ELSE closed
        /\ lock' = None
        /\ End(r)
        /\ UNCHANGED faults
     \/ Rollback(r) /\ UNCHANGED <<receipt, lock, closed>>
  /\ UNCHANGED <<files, record, torn>>

-----------------------------------------------------------------------------
\* The handler of every exception in publication.  A step of the rollback that
\* fails is noted, and the next one is tried all the same.

Failed(r, next) == req' = [req EXCEPT ![r].pc = next, ![r].bad = TRUE]

\* Mutant: what was published is removed instead of moved back.
RollOut_Delete(r) ==
  /\ At(r, "rollOut")
  /\ live' = IF req[r].in THEN None ELSE live
  /\ Go(r, "rollIn")
  /\ UNCHANGED <<dir, shown, record, receipt, lock, faults, history>>

\* What was published leaves the project's directory.  An operation has one
\* handler for both moves, and moves whatever is there.
RollOut(r) ==
  LET x     == Tx(r)
      op    == req[r].op
      moved == IF op = "operation" THEN req[r].out /\ live # None ELSE req[r].in
  IN
  /\ At(r, "rollOut")
  /\ \/ /\ moved /\ dir[x][Back(op)] = None
        /\ dir' = [dir EXCEPT ![x][Back(op)] = live]
        /\ live' = None
        /\ Go(r, "rollIn")
        /\ UNCHANGED faults
     \/ /\ ~moved
        /\ Go(r, "rollIn")
        /\ UNCHANGED <<live, dir, faults>>
     \/ /\ moved
        /\ Fault
        /\ Failed(r, IF op = "operation" THEN "rollRecord" ELSE "rollIn")
        /\ UNCHANGED <<live, dir>>
  /\ UNCHANGED <<shown, record, receipt, lock, history>>

\* Mutant: the design that was moved away stays there.
RollIn_Forgotten(r) ==
  /\ At(r, "rollIn")
  /\ Go(r, "rollRecord")
  /\ UNCHANGED <<files, record, receipt, lock, faults, history>>

\* The design that was moved away returns, if its place is free.
RollIn(r) ==
  LET x    == Tx(r)
      keep == Keep(req[r].op)
  IN
  /\ At(r, "rollIn")
  /\ \/ /\ req[r].out /\ live = None
        /\ live' = dir[x][keep]
        /\ dir' = [dir EXCEPT ![x][keep] = None]
        /\ Go(r, "rollRecord")
        /\ UNCHANGED faults
     \/ /\ req[r].out /\ live # None
        /\ Failed(r, "rollRecord")
        /\ UNCHANGED <<live, dir, faults>>
     \/ /\ ~req[r].out
        /\ Go(r, "rollRecord")
        /\ UNCHANGED <<live, dir, faults>>
     \/ /\ req[r].out
        /\ Fault
        /\ Failed(r, "rollRecord")
        /\ UNCHANGED <<live, dir>>
  /\ UNCHANGED <<shown, record, receipt, lock, history>>

\* The conversation and the record are written, then the event is removed.
RollRecord(r) ==
  /\ At(r, "rollRecord")
  /\ \/ /\ record' = req[r].original
        /\ Go(r, "rollReceipt")
        /\ UNCHANGED faults
     \/ /\ Fault
        /\ record' \in {record, req[r].original}
        /\ Failed(r, "rollReceipt")
  /\ UNCHANGED <<files, receipt, lock, history>>

\* The receipt read before the lock gets back the status it had then.  A failure
\* to write it is passed over.
RollReceipt(r) ==
  /\ At(r, "rollReceipt")
  /\ \/ /\ SetReceipt(Tx(r), CASE req[r].op = "operation" -> "failed"
                               [] req[r].bad -> "rollback_incomplete"
                               [] OTHER -> req[r].seen)
        /\ UNCHANGED faults
     \/ Fault /\ UNCHANGED receipt
  /\ torn' = (torn \/ req[r].bad)
  /\ lock' = None
  /\ End(r)
  /\ UNCHANGED <<files, record, closed>>

-----------------------------------------------------------------------------
\* A kill releases the lock, which is a lock of the operating system's.

HalfDone(r) ==
  \/ req[r].out /\ req[r].pc \in {"moveIn", "record", "rollOut", "rollIn", "rollRecord"}
  \/ req[r].bad

Crash(r) ==
  /\ ~At(r, "idle")
  /\ Fault
  /\ lock' = IF lock = r THEN None ELSE lock
  /\ torn' = (torn \/ HalfDone(r))
  /\ End(r)
  /\ UNCHANGED <<files, record, receipt, closed>>

\* _recover_interrupted_projects, when a process starts.
Recover ==
  /\ lock = None
  /\ record.status = "repairing"
  /\ record' = [record EXCEPT !.status = IF live # None THEN "generated" ELSE "interrupted",
                              !.revision = @ + 1]
  /\ UNCHANGED <<files, receipt, lock, req, faults, history>>

Next ==
  \/ \E r \in Requests, x \in Transactions,
        op \in Operations : Bind(r, op, x)
  \/ \E r \in Requests :
       \/ Load(r)
       \/ StartRepair(r) \/ ReviseRepair(r) \/ RecordFailure(r)
       \/ StageRepair(r) \/ StageOperation(r) \/ Offer(r) \/ OfferReceipt(r) \/ OfferRollback(r)
       \/ RecordEvidence(r)
       \/ Discard(r) \/ DiscardRecord(r)
       \/ TakeLock(r) \/ MoveAway(r) \/ MoveIn(r) \/ WriteRecord(r) \/ WriteReceipt(r)
       \/ RollOut(r) \/ RollIn(r) \/ RollRecord(r) \/ RollReceipt(r)
       \/ Crash(r)
  \/ Recover

Spec == Init /\ [][Next]_vars

-----------------------------------------------------------------------------
TypeOK ==
  /\ live \in Designs \cup {None}
  /\ record \in Record
  /\ receipt \in [Transactions -> Receipt]
  /\ dir \in [Transactions -> [Places -> Designs \cup {None}]]
  /\ lock \in Requests \cup {None}
  /\ \A r \in Requests :
       /\ req[r].pc \in Steps
       /\ req[r].tx \in Transactions \cup {None}
       /\ req[r].original \in Record \cup {None}
  /\ faults \in 0 .. MaxFaults
  /\ shown \subseteq Designs /\ closed \subseteq Transactions

\* Whatever failed on the way, a publication that was not killed and whose
\* rollback did not fail leaves the design that project.json vouches for: either
\* both are new or both are old (the rollback of all four publishers).
LiveMatchesRecord == lock = None /\ ~torn => live = record.vouched

\* No design that was ever the project's is destroyed: it is live or in a
\* directory of a transaction, after any sequence of errors and kills.
NoDesignLost ==
  shown \subseteq {live} \cup UNION {{dir[x][p] : p \in Places} : x \in Transactions}

\* The backup of a transaction is the design its candidate was made from, so an
\* undo restores the exact previous design and not one published in between.
BackupIsBase ==
  \A x \in Transactions : dir[x]["before"] \in {None, receipt[x].base}

\* A project waits for a decision exactly while it names the transaction to decide
\* on: no undo, recovery, error or restored record leaves it waiting for nothing, or
\* with a staged change that neither decision can reach.  The second half has a
\* limit: a rollback gives its revision out again, and after three of them in turn
\* a repair may start in a project that waits for the decision on another.
StagedChangeResolvable ==
  /\ record.status = "change_ready" => record.active # None
  /\ record.active # None /\ faults < 3 => record.status = "change_ready"

\* A change that was discarded or undone does not become the design again through
\* a request that had read it before, as long as no publication was left torn.
NeverRevived ==
  [][~torn => \A x \in closed : live' = x => live = x]_vars

\* A project is being repaired only as long as a request repairs it: unless it was
\* killed or its offer failed, a request that gives up says so in the record, or
\* has lost the project to somebody who changed it.
RepairingHasOwner ==
  record.status = "repairing" /\ faults = 0 =>
    \E r \in Requests : req[r].op = "repair" /\ req[r].revision = record.revision
                         /\ req[r].pc \in {"revise", "stage", "offer", "fail"}

\* The design a reader may rely on: while a publication holds the lock it is the
\* one the record vouched for when the lock was taken.
Publishing == {"moveAway", "moveIn", "record", "receipt",
               "rollOut", "rollIn", "rollRecord", "rollReceipt"}
PublishedDesign ==
  IF lock # None /\ req[lock].pc \in Publishing THEN req[lock].original.vouched
  ELSE record.vouched

Atomic == INSTANCE AtomicDesign WITH
  design  <- PublishedDesign,
  origin  <- [x \in Transactions |->
                IF receipt[x].status = "absent" THEN None ELSE receipt[x].base],
  settled <- closed,
  damaged <- torn

\* Publication, rollback, undo and discard, with their kills, errors and losing
\* requests, implement the one-step replacement of AtomicDesign.
PublishesAtomically == Atomic!Spec

\* application_modification_apply.py:265 and docs/ARCHITECTURE.md:740 on an
\* applied repair: "undo remains available".  Undo needs the receipt to say so.
UndoRemains ==
  \A x \in Transactions :
    lock = None /\ record.last = x /\ receipt[x].kind = "repair"
      => receipt[x].status = "applied"
=============================================================================
