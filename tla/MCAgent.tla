------------------------------ MODULE MCAgent ------------------------------
(***************************************************************************)
(* Small instances of RelayAgent: two epochs on different public ports and *)
(* targets, so that one can be retired while the other is in any stage.    *)
(***************************************************************************)
EXTENDS RelayAgent

MCKeys == {"k1", "k2"}
MCTargets == {"t1", "t2"}
MCOptions == {"plain"}
MCIDs == 1..MaxID

MCKeyOf == [e \in 1..MaxID |-> IF e = 2 THEN "k2" ELSE "k1"]
MCTargetOf == [e \in 1..MaxID |-> IF e = 1 THEN "t1" ELSE "t2"]

MCNoFiles == {}
MCFiles ==
    {[NoSnapshot EXCEPT !.gen = 1, !.mappings = {EpochMapping(1, FALSE)}]}
=============================================================================
