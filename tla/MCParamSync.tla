---------------------------- MODULE MCParamSync ----------------------------
(***************************************************************************)
(* Instances of ParamSync for TLC: a float parameter 0..2 that can be      *)
(* dragged and an integer parameter 1..2 whose main copy starts out of     *)
(* range, as in the template; a preset from outside does not fit.          *)
(***************************************************************************)
EXTENDS ParamSync, TLC

MCMin == (0 :> 0) @@ (1 :> 1)
MCMax == (0 :> 2) @@ (1 :> 2)
MCAudio == (0 :> 0) @@ (1 :> 1)
MCPresets == {(0 :> 3) @@ (1 :> NaN)}
MCDelta == {-1, 1}

(* With the audio-to-main ring in use (TRUE), more from the host and less    *)
(* from the user.                                                            *)
MCSends == (FALSE :> 4) @@ (TRUE :> 3)
MCHostSets == (FALSE :> 1) @@ (TRUE :> 2)
MCOpens == (FALSE :> 2) @@ (TRUE :> 1)
MCOne == FALSE :> 1
=============================================================================
