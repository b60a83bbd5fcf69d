----------------------------- MODULE ReviewPage ------------------------------
(***************************************************************************)
(* The parts of the review page: the edits and requests of a review        *)
(* (ReviewSession), the review queue (ReviewQueue) and the selection of    *)
(* cells and rows (GridSelection).  They share no variable; one of them    *)
(* runs, and which one is chosen at the start.                             *)
(***************************************************************************)
EXTENDS ReviewSession

CONSTANTS
    QueueRows, QueueFields, Place, Templates, Required, NoCell, \* of the queue
    GridRows, GridColumns, NoDrag, NoRow                        \* of the selection

VARIABLES
    part,            \* "session", "queue" or "selection"
    \* of the queue
    column, required, class, populated, reviewOnly, showAllColumns, matching, displayed,
    focus, selectedCell, editing,
    \* of the selection
    present, selectionMode, selectedCells, drag, buttonDown, checked, focusedRow, requested, seen

queueVars == <<column, required, class, populated, reviewOnly, showAllColumns, matching,
               displayed, focus, selectedCell, editing>>
gridVars == <<present, selectionMode, selectedCells, drag, buttonDown, checked, focusedRow,
              requested, seen>>

Queue == INSTANCE ReviewQueue WITH Rows <- QueueRows, Fields <- QueueFields

\* A proof module adds theorems to its component and no definition of the model.
Grid == INSTANCE GridSelectionProofs WITH Rows <- GridRows, Columns <- GridColumns

ASSUME ReviewPageAssumption == Queue!QueueAssumption /\ Grid!GridAssumption

\* A part that does not run stands in one of its initial states.
ReviewInit ==
    /\ part \in {"session", "queue", "selection"}
    /\ Init
    /\ part # "session" =>
          patient /\ \E v \in Values : \A c \in Cells : cells[c] = [value |-> v, class |-> "green"]
    /\ Queue!Init
    /\ part # "queue" => populated = {} /\ Queue!NoTemplate
    /\ Grid!Init

SessionStep == part = "session" /\ Next /\ UNCHANGED <<part, queueVars, gridVars>>
QueueStep == part = "queue" /\ Queue!Next /\ UNCHANGED <<part, vars, gridVars>>
SelectionStep == part = "selection" /\ Grid!Next /\ UNCHANGED <<part, vars, queueVars>>

ReviewNext == SessionStep \/ QueueStep \/ SelectionStep

ReviewSpec == ReviewInit /\ [][ReviewNext]_<<part, vars, queueVars, gridVars>>

-----------------------------------------------------------------------------
(* The properties of the parts, where they are about the part that runs.   *)

\* Types of the variables of every part.
PartsTypeOK ==
    /\ part = "session" => TypeOK
    /\ part = "queue" => Queue!TypeOK
    /\ part = "selection" => Grid!TypeOK

\* NoOpenCellHidden of ReviewQueue: columns and filters hide no work.
NoOpenCellHidden == part = "queue" => Queue!NoOpenCellHidden

\* SkipsNothing of ReviewQueue: the key N passes over no open cell.
SkipsNothing == [][part = "queue" /\ Queue!PressN => Queue!PassesOverNothing]_queueVars

\* SelectionNeedsMode and DragIsRectangle of GridSelection: the selection is what the
\* reviewer has seen while dragging, and is gone with its mode.
SelectionIsSeen == part = "selection" => Grid!SelectionNeedsMode /\ Grid!DragIsRectangle
=============================================================================
