----------------------------- MODULE AtomicDesign -----------------------------
(***************************************************************************)
(* What the publication of designs promises to a reader of the project: the *)
(* design is replaced in one step, by a candidate that was made from exactly *)
(* that design, and an undo returns exactly to it.  A change that was         *)
(* discarded or undone is never published again.  Nothing is promised once   *)
(* a kill or a failed rollback has left a publication half done.             *)
(***************************************************************************)
CONSTANTS Transactions, Base, None

VARIABLES
  design,  \* the design of the project
  origin,  \* the design the candidate of each transaction was made from, or None
  settled, \* transactions that were discarded or undone
  damaged  \* a publication was left half done

vars == <<design, origin, settled, damaged>>

Init ==
  /\ design = Base
  /\ origin = [x \in Transactions |-> None]
  /\ settled = {}
  /\ damaged = FALSE

\* The candidate may be made from a design that is not the project's any more.
Stage(x) ==
  /\ origin[x] = None
  /\ \E d \in Transactions \cup {Base} : origin' = [origin EXCEPT ![x] = d]
  /\ UNCHANGED <<design, settled>>

Publish(x) ==
  /\ origin[x] = design
  /\ x \notin settled
  /\ design' = x
  /\ UNCHANGED <<origin, settled>>

Discard(x) ==
  /\ design # x
  /\ settled' = settled \cup {x}
  /\ UNCHANGED <<design, origin>>

\* An undo may be killed before it is recorded.
Undo(x) ==
  /\ design = x
  /\ design' = origin[x]
  /\ settled' \in {settled, settled \cup {x}}
  /\ UNCHANGED origin

Replace ==
  /\ ~damaged
  /\ \E x \in Transactions : Stage(x) \/ Publish(x) \/ Discard(x) \/ Undo(x)
  /\ UNCHANGED damaged

Next == Replace \/ damaged'

Spec == Init /\ [][Next]_vars
=============================================================================
