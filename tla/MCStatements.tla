---------------------------- MODULE MCStatements ----------------------------
(* A connection on which any program of statements runs, or copy_data      *)
(* around any block, for TLC.                                              *)
EXTENDS CopyData

VARIABLE side   \* "program" or "copy_data"

PlainKinds == {"select", "copy_in", "copy_out"}
AllSetups == [coder : BOOLEAN, preset : BOOLEAN, binary : BOOLEAN]

(* Without a default coder, or with one and text format. *)
SupportedSetups == {s \in AllSetups : ~(s.coder /\ s.preset /\ s.binary)}
PresetBinary == {s \in AllSetups : s.coder /\ s.preset /\ s.binary}

MCInit ==
  /\ Init
  /\ side \in {"program", "copy_data"}
  /\ side = "program" => ~setup.coder /\ ~setup.preset /\ ~setup.binary

MCNext ==
  \/ side = "program" /\ QPNext /\ UNCHANGED <<cpVars, side>>
  \/ side = "copy_data" /\ Next /\ UNCHANGED side

MCSpec == MCInit /\ [][MCNext]_<<vars, side>>
MCFairSpec == MCSpec /\ WF_vars(side = "copy_data" /\ Method) /\ QPFairness
=============================================================================
