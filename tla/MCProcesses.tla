---------------------------- MODULE MCProcesses ----------------------------
(***************************************************************************)
(* Two questions about the threads of a process: whether a snapshot has    *)
(* the current process blackboard (ProcessSnapshot), and whether the       *)
(* singleton survives the exit of the program (Lifecycle).  part says      *)
(* which one a behaviour is about; the other stays in its initial state.   *)
(***************************************************************************)
EXTENDS ProcessSnapshot, Lifecycle

VARIABLE part

ProcessesInit == part \in {"snapshot", "life"} /\ Init /\ LifeInit

ProcessesNext ==
    \/ part = "snapshot" /\ Next /\ UNCHANGED <<part, life_vars>>
    \/ part = "life" /\ LifeNext /\ UNCHANGED <<part, vars>>

ProcessesSpec == ProcessesInit /\ [][ProcessesNext]_<<part, vars, life_vars>>
=============================================================================
