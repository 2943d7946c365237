---------------------------- MODULE MCWebClient ----------------------------
(* Two parts of the web client that share nothing, side by side: the keys  *)
(* that pages hand to other users and to agents, and the memory of the     *)
(* WASM module behind the worker.  In a behavior, one of them moves.       *)
EXTENDS Sharing, WasmMemory, TLC

CONSTANT alice

VARIABLE machine

(* Alice owns every list, and logs in with her password alone until she    *)
(* changes it; the others may have accounts of either kind.  Older clients *)
(* have left an invitation and grants, or nothing.                         *)
AlicesLists == [l \in Lists |-> alice]

(* Unless its turn has come, the part with many initial states has one.    *)
Fixed ==
    /\ invitations = {} /\ \A a \in Agents, l \in Lists : grant[a][l] = None
    /\ \A u \in Users : dataKey[u].version = 1 /\ ~account[u].opaque

MCInit ==
    /\ machine \in {"memory", "sharing"}
    /\ Init /\ MemoryInit
    /\ IF machine = "sharing"
       THEN /\ ~account[alice].opaque
            /\ invitations = {} <=> \A a \in Agents, l \in Lists : grant[a][l] = None
       ELSE Fixed

SharingMoves == machine = "sharing" /\ Next /\ UNCHANGED <<machine, memoryVars>>
MemoryMoves == machine = "memory" /\ MemoryNext /\ UNCHANGED <<machine, vars>>

MCNext == SharingMoves \/ MemoryMoves

MCSpec == MCInit /\ [][MCNext]_<<machine, vars, memoryVars>>

Symmetry == Permutations(Pages)
=============================================================================
