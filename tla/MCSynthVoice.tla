---------------------------- MODULE MCSynthVoice ----------------------------
(***************************************************************************)
(* Instance of SynthVoice for TLC: two notes whose pitches do not divide   *)
(* the period evenly, released with another velocity than they are struck  *)
(* with, in blocks of two and three frames with up to two messages each.   *)
(***************************************************************************)
EXTENDS SynthVoice, TLC

MCInc == (60 :> 2) @@ (72 :> 3)

MCMidi == {[status |-> "NOTE_ON",  note |-> 60, vel |-> 1],
           [status |-> "NOTE_ON",  note |-> 72, vel |-> 2],
           [status |-> "NOTE_OFF", note |-> 60, vel |-> 2],
           [status |-> "NOTE_OFF", note |-> 72, vel |-> 1],
           [status |-> "PITCH_WHEEL", note |-> 60, vel |-> 1]}
=============================================================================
