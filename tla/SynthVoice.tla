----------------------------- MODULE SynthVoice -----------------------------
(***************************************************************************)
(* The sample-accurate loop of cplug_process                               *)
(* (templates/cplug_pugl_nanovg/src/plugin.c): the host hands over a block *)
(* of frames and the events that fall in it, the loop takes them one by    *)
(* one from ctx->dequeueEvent, MIDI changes the one voice of the synth, and *)
(* the stretch up to the next event is rendered from the oscillator's phase *)
(* or silenced.                                                            *)
(*                                                                         *)
(* A frame of output is abstracted to what determines the sample: the note *)
(* (pitch), the velocity (volume) and the phase, in steps of a period.     *)
(***************************************************************************)
EXTENDS Integers, Sequences

CONSTANTS
    Note, Velocity,     \* data1 and data2 of the MIDI messages
    MidiMessage,        \* the messages a host may send
    Period,             \* steps of phase in one period
    Inc,                \* phase steps per frame of each note, below a period
    BlockSize,          \* numbers of frames a host may ask for
    MaxFrames,          \* bound: frames rendered in one behaviour
    MaxEvents           \* bound: MIDI messages in one block

ASSUME VoiceAssumption ==
    /\ Note \subseteq Nat /\ Period \in Nat \ {0}
    /\ Inc \in [Note -> 0..(Period - 1)]
    /\ BlockSize \subseteq Nat \ {0} /\ MaxEvents \in Nat
    /\ MidiMessage \subseteq [status : {"NOTE_ON", "NOTE_OFF", "PITCH_WHEEL"},
                              note : Note, vel : Velocity]

NotPlaying == -1
Silence    == [note |-> NotPlaying, vel |-> 0, phase |-> 0]

VARIABLES
    midiNote, velocity, oscPhase,   \* the voice, in MyPlugin
    inBlock, numFrames, frame,      \* inside cplug_process: length, frames done
    queue,      \* events of the block not yet dequeued, by frame
    base,       \* history: frames rendered before this block
    out,        \* history: every frame written, in the order written
    log         \* history: every MIDI message with its absolute frame

voice == <<midiNote, velocity, oscPhase>>
block == <<inBlock, numFrames, frame, queue>>
vars  == <<voice, block, base, out, log>>

Message(n) == [at : 0..(n - 1), midi : MidiMessage]

(* The messages of a block of n frames, sorted by the frame they fall on.  *)
Messages(n) ==
    UNION {{s \in [1..k -> Message(n)] : \A i, j \in 1..k : i <= j => s[i].at <= s[j].at} :
               k \in 0..MaxEvents}

Init ==
    /\ midiNote = NotPlaying /\ velocity = 0 /\ oscPhase = 0
    /\ inBlock = FALSE /\ numFrames = 0 /\ frame = 0 /\ queue = <<>>
    /\ base = 0 /\ out = <<>> /\ log = <<>>

(* The host calls cplug_process.                                           *)
ProcessBegin ==
    /\ ~inBlock
    /\ \E n \in BlockSize :
        /\ base + n <= MaxFrames
        /\ \E msgs \in Messages(n) :
            /\ queue' = msgs
            /\ log' = log \o [i \in 1..Len(msgs) |-> [msgs[i] EXCEPT !.at = @ + base]]
        /\ numFrames' = n
    /\ inBlock' = TRUE /\ frame' = 0
    /\ UNCHANGED <<voice, base, out>>

(* dequeueEvent(ctx, &event, frame): a message that is due, else the       *)
(* stretch up to the next message or to the end, else FALSE.               *)
Due == frame < numFrames /\ queue # <<>> /\ Head(queue).at <= frame

(* Mutant: the block rendered past the next message. *)
EndFrameOfBlock == numFrames

EndFrame == IF queue = <<>> THEN numFrames ELSE Head(queue).at

(* Mutant: any NOTE_OFF silences the voice. *)
NextNoteAnyOff(m) ==
    CASE m.status = "NOTE_ON" -> m.note
      [] m.status = "NOTE_OFF" -> NotPlaying
      [] OTHER -> midiNote

(* The voice after a message: NOTE_OFF silences only its own note but      *)
(* always takes over the velocity; PITCH_WHEEL is decoded and dropped.     *)
NextNote(m) ==
    CASE m.status = "NOTE_ON" -> m.note
      [] m.status = "NOTE_OFF" /\ m.note = midiNote -> NotPlaying
      [] OTHER -> midiNote

NextVelocity(m) == IF m.status = "PITCH_WHEEL" THEN velocity ELSE m.vel

Midi ==
    /\ inBlock /\ Due
    /\ midiNote' = NextNote(Head(queue).midi)
    /\ velocity' = NextVelocity(Head(queue).midi)
    /\ queue' = Tail(queue)
    /\ UNCHANGED <<oscPhase, inBlock, numFrames, frame, base, out, log>>

(* memset from frame to endFrame; the phase rests                          *)
ProcessSilence ==
    /\ inBlock /\ frame < numFrames /\ ~Due
    /\ midiNote = NotPlaying
    /\ out' = out \o [i \in 1..(EndFrame - frame) |-> Silence]
    /\ frame' = EndFrame
    /\ UNCHANGED <<voice, inBlock, numFrames, queue, base, log>>

(* Mutant: the phase restarted at each stretch. *)
PhaseFromZero(n) == (n * Inc[midiNote]) % Period

(* the rendering loop: each frame uses the phase and then advances it      *)
PhaseAfter(n) == (oscPhase + n * Inc[midiNote]) % Period

ProcessAudio ==
    /\ inBlock /\ frame < numFrames /\ ~Due
    /\ midiNote # NotPlaying
    /\ out' = out \o [i \in 1..(EndFrame - frame) |->
                        [note |-> midiNote, vel |-> velocity, phase |-> PhaseAfter(i - 1)]]
    /\ oscPhase' = PhaseAfter(EndFrame - frame)
    /\ frame' = EndFrame
    /\ UNCHANGED <<midiNote, velocity, inBlock, numFrames, queue, base, log>>

(* dequeueEvent returns FALSE                                              *)
ProcessEnd ==
    /\ inBlock /\ frame >= numFrames
    /\ inBlock' = FALSE /\ base' = base + numFrames
    /\ numFrames' = 0 /\ frame' = 0 /\ queue' = <<>>
    /\ UNCHANGED <<voice, out, log>>

Next == ProcessBegin \/ Midi \/ ProcessSilence \/ ProcessAudio \/ ProcessEnd

Spec == Init /\ [][Next]_vars

-----------------------------------------------------------------------------
(* EachFrameOnce: however events cut a block up, the frames written so far *)
(* are exactly those before the loop's position: none skipped or written   *)
(* twice, none beyond the block, and no message is left behind.            *)
EachFrameOnce ==
    /\ Len(out) = base + frame
    /\ \A i \in 1..Len(queue) : queue[i].at >= frame
    /\ ~inBlock => queue = <<>>

(* The messages that have taken effect at absolute frame k, by position.   *)
Before(k) == {i \in 1..Len(log) : log[i].at <= k}

Of(status, k) == {i \in Before(k) : log[i].midi.status = status}

Latest(positions) == CHOOSE i \in positions : \A j \in positions : j <= i

(* What a player expects to sound at frame k: the last note struck, unless *)
(* it was released since.                                                  *)
ExpectedNote(k) ==
    LET ons == Of("NOTE_ON", k)
        on  == Latest(ons)
    IN  IF \/ ons = {}
           \/ \E j \in Of("NOTE_OFF", k) : j > on /\ log[j].midi.note = log[on].midi.note
        THEN NotPlaying ELSE log[on].midi.note

(* The velocity it sounds with: that of the last message about any note,   *)
(* the release of another note included.                                   *)
ExpectedVelocity(k) == log[Latest(Of("NOTE_ON", k) \cup Of("NOTE_OFF", k))].midi.vel

(* SampleAccurate: every frame ever written has the note and the velocity  *)
(* that the messages up to that frame call for, whatever blocks the host   *)
(* asked for and wherever a message fell in its block.                     *)
SampleAccurate ==
    \A k \in 1..Len(out) :
        /\ out[k].note = ExpectedNote(k - 1)
        /\ out[k].note # NotPlaying => out[k].vel = ExpectedVelocity(k - 1)

Sounding(k) == out[k].note # NotPlaying

(* PhaseContinuous: each sounding frame continues the waveform of the      *)
(* previous sounding frame at that frame's pitch, over block boundaries,   *)
(* note changes and silences: the oscillator never clicks.                 *)
PhaseContinuous ==
    \A k \in 1..Len(out) : Sounding(k) =>
        LET past == {j \in 1..(k - 1) : Sounding(j)}
            prev == CHOOSE j \in past : \A i \in past : i <= j
        IN  out[k].phase = IF past = {} THEN 0
                           ELSE (out[prev].phase + Inc[out[prev].note]) % Period
=============================================================================
