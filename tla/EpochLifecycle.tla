--------------------------- MODULE EpochLifecycle ---------------------------
(***************************************************************************)
(* What the relay promises about a flow mark, whatever messages, crashes   *)
(* and failures happen: a mark is used by at most one mapping epoch, and   *)
(* an epoch ends only through its retirement and a proof that no flow of   *)
(* it is left.                                                             *)
(*                                                                         *)
(*    fresh ---> active ---> retired ---> cleared ---> gone                *)
(*      |                                                ^                 *)
(*      +------------------- skipped --------------------+                 *)
(*                                                                         *)
(* A mark that is overtaken by a larger one before it is used is spent as  *)
(* well.  One accepted snapshot may move many marks at once.               *)
(***************************************************************************)


CONSTANT FlowMarks

VARIABLE life

Stages == {"fresh", "active", "retired", "cleared", "gone"}

Moves == {<<"fresh", "active">>, <<"fresh", "gone">>, <<"active", "retired">>,
          <<"retired", "cleared">>, <<"cleared", "gone">>}

Init == life = [m \in FlowMarks |-> "fresh"]

Next ==
    /\ life' \in [FlowMarks -> Stages]
    /\ \A m \in FlowMarks :
        life'[m] # life[m] => <<life[m], life'[m]>> \in Moves

Spec == Init /\ [][Next]_life
=============================================================================
