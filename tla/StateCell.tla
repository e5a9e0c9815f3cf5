----------------------------- MODULE StateCell -----------------------------
(***************************************************************************)
(* What a bot's state file promises: a cell that holds one whole state. A  *)
(* save replaces it by a newer one at once; the process may stop anywhere, *)
(* and whoever starts next reads what the cell holds. A power cut may bring *)
(* back the state the disk had, never less; if a state was not forced out  *)
(* before it, the cell may be unreadable or hold another state, but what   *)
(* was ever on disk is not forgotten.                                      *)
(***************************************************************************)
EXTENDS Integers

CONSTANTS Blank,      \* no state has ever been saved
          Value,      \* the states, by number
          Unreadable  \* a cell that has to be repaired

VARIABLES cell,    \* what a start would read now
          durable, \* what it would read after a power cut, at worst
          read,    \* what the last start read
          trust    \* whether every state was forced out, and if not, whether
                   \* the power failed since

cellVars == <<cell, durable, read, trust>>

Start == cell = Blank /\ durable = Blank /\ read = Blank /\ trust = "kept"

Put == /\ cell # Unreadable
       /\ cell' \in {v \in Value : v > cell}
       /\ UNCHANGED <<durable, read, trust>>

Sync == /\ durable' = cell
        /\ UNCHANGED <<cell, read, trust>>

Cut == /\ trust = "kept"
       /\ cell' \in {cell, durable}
       /\ durable' = cell'
       /\ UNCHANGED <<read, trust>>

Get == /\ read' = cell
       /\ UNCHANGED <<cell, durable, trust>>

\* A state is not forced out.
Slip == /\ trust = "kept"
        /\ trust' = "lost"
        /\ UNCHANGED <<cell, durable, read>>

\* The power fails after that, or has failed.
Blur == /\ trust # "kept"
        /\ trust' = "exposed"
        /\ {cell', durable'} \subseteq Value \union {Blank, Unreadable}
        /\ durable # Blank => Blank \notin {cell', durable'}
        /\ UNCHANGED read

Run == Put \/ Sync \/ Cut \/ Get \/ Slip \/ Blur

CellSpec == Start /\ [][Run]_cellVars
=============================================================================
