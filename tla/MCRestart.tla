------------------------------ MODULE MCRestart ------------------------------
(***************************************************************************)
(* Small instance of the two machines about what a restarted process finds *)
(* left over: the kernel's counters (CounterFold) and the snapshot file    *)
(* (SnapshotAge).  They share no state, so each behaviour runs one of them *)
(* while the other rests in its initial state.                             *)
(***************************************************************************)
EXTENDS CounterFold, SnapshotAge

VARIABLE part          \* which of the two runs

restartVars == <<part, foldVars, vars>>

RestartInit == part \in {"counters", "file"} /\ FoldInit /\ Init

RestartNext ==
    \/ part = "counters" /\ FoldNext /\ UNCHANGED <<part, vars>>
    \/ part = "file" /\ Next /\ UNCHANGED <<part, foldVars>>

RestartSpec == RestartInit /\ [][RestartNext]_restartVars
=============================================================================
