---------------------------- MODULE MCKanbanBoard ----------------------------
(***************************************************************************)
(* Small instances of KanbanBoard: one task, with a maximum run time.       *)
(***************************************************************************)
EXTENDS KanbanBoard, TLC

CONSTANTS c

OneTask == {c}
=============================================================================
