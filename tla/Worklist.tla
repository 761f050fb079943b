------------------------------ MODULE Worklist ------------------------------
(***************************************************************************)
(* What the analysis of elf/libaddr.cc and data/trap/trap.c promises of    *)
(* the addresses it finds, whatever lists, trees and scans it uses: an     *)
(* address that is to be done stays so until it is done, what is done      *)
(* stays done, and the program does not run before all is done.            *)
(***************************************************************************)

VARIABLES
    phase,      \* "busy" with the analysis, "idle" while the program runs, "stopped"
    todo,       \* the addresses that are to be disassembled
    done,       \* the addresses that are in disassembled code
    found       \* history: where the direct transfers that were seen lead to

Init == phase = "busy" /\ todo = {} /\ done = {} /\ found = {}

(* Addresses are listed, all that a direct transfer leads to among them. *)
Discover ==
    /\ phase = "busy" /\ phase' = "busy"
    /\ todo \subseteq todo' /\ found \subseteq found'
    /\ found' \ found \subseteq todo'
    /\ UNCHANGED done

(* One address is finished; what its scan found may make it wait again. *)
Finish ==
    /\ phase = "busy" /\ phase' = "busy"
    /\ done \subseteq done'
    /\ \E x \in todo : x \in done' /\ todo' \in {todo, todo \ {x}}
    /\ UNCHANGED found

(* The program runs when nothing is left to do, *)
Return ==
    /\ phase = "busy" /\ phase' = "idle"
    /\ todo = {}
    /\ UNCHANGED <<todo, done, found>>

(* until a trap interrupts it and gives one more address. *)
Interrupt ==
    /\ phase = "idle" /\ phase' = "busy"
    /\ \A x, y \in todo' : x = y
    /\ UNCHANGED <<done, found>>

(* The process ends, and drops what was to be done. *)
Stop ==
    /\ phase' = "stopped"
    /\ UNCHANGED <<done, found>>

Next == Discover \/ Finish \/ Return \/ Interrupt \/ Stop

Spec == Init /\ [][Next]_<<phase, todo, done, found>>
=============================================================================
