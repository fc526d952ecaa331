------------------------- MODULE SynthVoiceProofs -------------------------
(* Theorems about SynthVoice: for any notes, pitches, period, blocks and     *)
(* messages, each frame is written once, has the note and velocity that the  *)
(* messages up to it call for, and continues the waveform.                   *)
EXTENDS SynthVoice, SequenceTheorems, TLAPS

Timed == [at : Nat, midi : MidiMessage]
Frame == [note : Note \cup {NotPlaying}, vel : Velocity \cup {0}, phase : Int]

TInv ==
  /\ midiNote \in Note \cup {NotPlaying} /\ velocity \in Velocity \cup {0}
  /\ oscPhase \in 0 .. (Period - 1)
  /\ inBlock \in BOOLEAN /\ numFrames \in Nat /\ frame \in 0 .. numFrames /\ base \in Nat
  /\ queue \in Seq(Timed) /\ log \in Seq(Timed) /\ out \in Seq(Frame)

(* What is left of the block: sorted, not behind the loop, inside the block. *)
QueueInv ==
  /\ ~inBlock => queue = <<>> /\ numFrames = 0
  /\ \A i \in 1 .. Len(queue) : frame <= queue[i].at /\ queue[i].at < numFrames
  /\ \A i, j \in 1 .. Len(queue) : i <= j => queue[i].at <= queue[j].at
  /\ Len(out) = base + frame

(* The log is the messages the voice has taken, none of them in the future,  *)
(* and then the queue.                                                       *)
Taken == Len(log) - Len(queue)
LogInv ==
  /\ Taken \in Nat
  /\ \A i \in 1 .. Taken : log[i].at <= base + frame
  /\ \A i \in 1 .. Len(queue) : /\ log[Taken + i].at = base + queue[i].at
                                /\ log[Taken + i].midi = queue[i].midi

(* A note and velocity are what the first n messages of a log leave the      *)
(* voice with: the definition of ExpectedNote and ExpectedVelocity, with a   *)
(* witness for the latest message.                                           *)
Ons(l, n) == {i \in 1 .. n : l[i].midi.status = "NOTE_ON"}
Offs(l, n) == {i \in 1 .. n : l[i].midi.status = "NOTE_OFF"}
IsLatest(i, S) == i \in S /\ \A j \in S : j <= i
ReleasedAfter(l, n, on) ==
  \E j \in Offs(l, n) : j > on /\ l[j].midi.note = l[on].midi.note
HeardNote(l, n, note) ==
  \/ Ons(l, n) = {} /\ note = NotPlaying
  \/ \E on \in 1 .. n :
       /\ IsLatest(on, Ons(l, n))
       /\ note = IF ReleasedAfter(l, n, on) THEN NotPlaying ELSE l[on].midi.note
HeardVelocity(l, n, note, vel) ==
  note # NotPlaying => \E i \in 1 .. n : /\ IsLatest(i, Ons(l, n) \cup Offs(l, n))
                                         /\ vel = l[i].midi.vel
HeardInv == HeardNote(log, Taken, midiNote) /\ HeardVelocity(log, Taken, midiNote, velocity)

(* The waveform goes on after frame k at this phase: it follows from the      *)
(* latest sounding frame. So does each sounding frame, and the oscillator     *)
(* stands where the next one begins.                                          *)
Past(k) == {j \in 1 .. k : Sounding(j)}
Follows(k, phase) ==
  \/ Past(k) = {} /\ phase = 0
  \/ \E j \in 1 .. k : /\ IsLatest(j, Past(k))
                       /\ phase = (out[j].phase + Inc[out[j].note]) % Period
PhaseInv == /\ Follows(Len(out), oscPhase)
            /\ \A k \in 1 .. Len(out) : Sounding(k) => Follows(k - 1, out[k].phase)

(* Every frame sounds as the messages up to it are heard.                    *)
Explained(k) == \E n \in 0 .. Len(log) :
  Before(k - 1) = 1 .. n /\ HeardNote(log, n, out[k].note)
                        /\ HeardVelocity(log, n, out[k].note, out[k].vel)
FramesInv == \A k \in 1 .. Len(out) : Explained(k)

IInv == TInv /\ QueueInv /\ LogInv /\ HeardInv /\ PhaseInv /\ FramesInv
-----------------------------------------------------------------------------
LEMMA LatestIs == ASSUME NEW S \in SUBSET Int, NEW i, IsLatest(i, S) PROVE Latest(S) = i
<1>1. i \in S /\ \A j \in S : j <= i
  BY DEF IsLatest
<1>2. Latest(S) \in S /\ \A j \in S : j <= Latest(S)
  BY <1>1 DEF Latest
<1>3. i <= Latest(S) /\ Latest(S) <= i /\ i \in Int /\ Latest(S) \in Int
  BY <1>1, <1>2
<1>4. QED  BY <1>3

(* What has been heard of a log depends on that part of it only.             *)
LEMMA HeardOfPart ==
  ASSUME NEW l, NEW m, NEW n \in Nat, \A i \in 1 .. n : m[i] = l[i], NEW note, NEW vel,
         HeardNote(l, n, note), HeardVelocity(l, n, note, vel)
  PROVE  HeardNote(m, n, note) /\ HeardVelocity(m, n, note, vel)
<1>1. Ons(m, n) = Ons(l, n) /\ Offs(m, n) = Offs(l, n)
  BY DEF Ons, Offs
<1>2. \A on \in 1 .. n : ReleasedAfter(m, n, on) = ReleasedAfter(l, n, on)
  BY <1>1 DEF ReleasedAfter, Offs
<1>3. HeardNote(m, n, note)
  BY <1>1, <1>2 DEF HeardNote
<1>4. QED  BY <1>1, <1>3 DEF HeardVelocity

(* NextNote and NextVelocity follow what is heard, message by message.       *)
LEMMA HeardNext ==
  ASSUME NEW l \in Seq(Timed), NEW n \in Nat, n + 1 <= Len(l), NEW m, m = l[n + 1].midi,
         midiNote \in Note \cup {NotPlaying},
         HeardNote(l, n, midiNote), HeardVelocity(l, n, midiNote, velocity)
  PROVE  /\ HeardNote(l, n + 1, NextNote(m))
         /\ HeardVelocity(l, n + 1, NextNote(m), NextVelocity(m))
<1>1. m \in MidiMessage /\ m.status \in {"NOTE_ON", "NOTE_OFF", "PITCH_WHEEL"} /\ m.note \in Nat
  <2>1. l[n + 1] \in Timed
    BY ElementOfSeq
  <2>2. QED  BY <2>1, VoiceAssumption DEF Timed
<1>2. 1 .. n + 1 = (1 .. n) \cup {n + 1} /\ n + 1 \notin 1 .. n
  OBVIOUS
<1>3. CASE m.status = "NOTE_ON"
  <2>1. IsLatest(n + 1, Ons(l, n + 1)) /\ IsLatest(n + 1, Ons(l, n + 1) \cup Offs(l, n + 1))
    BY <1>3 DEF IsLatest, Ons, Offs
  <2>2. ~ReleasedAfter(l, n + 1, n + 1)
    BY DEF ReleasedAfter, Offs
  <2>3. NextNote(m) = m.note /\ NextVelocity(m) = m.vel
    BY <1>3 DEF NextNote, NextVelocity
  <2>4. QED  BY <2>1, <2>2, <2>3 DEF HeardNote, HeardVelocity
<1>4. CASE m.status = "NOTE_OFF"
  <2>1. Ons(l, n + 1) = Ons(l, n) /\ Offs(l, n + 1) = Offs(l, n) \cup {n + 1}
    BY <1>2, <1>4 DEF Ons, Offs
  <2>2. IsLatest(n + 1, Ons(l, n + 1) \cup Offs(l, n + 1)) /\ NextVelocity(m) = m.vel
    BY <1>4 DEF IsLatest, Ons, Offs, NextVelocity
  <2>3. HeardVelocity(l, n + 1, NextNote(m), NextVelocity(m))
    BY <2>2 DEF HeardVelocity
  <2>4. NextNote(m) = IF m.note = midiNote THEN NotPlaying ELSE midiNote
    BY <1>4 DEF NextNote
  <2>5. CASE Ons(l, n) = {} /\ midiNote = NotPlaying
    BY <2>1, <2>3, <2>4, <2>5 DEF HeardNote
  <2>6. ASSUME NEW on \in 1 .. n, IsLatest(on, Ons(l, n)),
               midiNote = IF ReleasedAfter(l, n, on) THEN NotPlaying ELSE l[on].midi.note
        PROVE  HeardNote(l, n + 1, NextNote(m))
    <3>1. ReleasedAfter(l, n + 1, on) <=> ReleasedAfter(l, n, on) \/ m.note = l[on].midi.note
      BY <2>1 DEF ReleasedAfter
    <3>2. NextNote(m) = IF ReleasedAfter(l, n + 1, on) THEN NotPlaying ELSE l[on].midi.note
      <4>1. CASE ReleasedAfter(l, n, on)
        BY <2>4, <2>6, <3>1, <4>1
      <4>2. CASE ~ReleasedAfter(l, n, on)
        BY <2>4, <2>6, <3>1, <4>2
      <4>3. QED  BY <4>1, <4>2
    <3>3. QED  BY <2>1, <2>6, <3>2 DEF HeardNote
  <2>7. QED  BY <2>3, <2>5, <2>6 DEF HeardNote
<1>5. CASE m.status = "PITCH_WHEEL"
  <2>1. Ons(l, n + 1) = Ons(l, n) /\ Offs(l, n + 1) = Offs(l, n)
    BY <1>2, <1>5 DEF Ons, Offs
  <2>2. \A on : ReleasedAfter(l, n + 1, on) = ReleasedAfter(l, n, on)
    BY <2>1 DEF ReleasedAfter
  <2>3. NextNote(m) = midiNote /\ NextVelocity(m) = velocity
    BY <1>5 DEF NextNote, NextVelocity
  <2>4. HeardVelocity(l, n + 1, NextNote(m), NextVelocity(m))
    BY <1>2, <2>1, <2>3 DEF HeardVelocity
  <2>5. HeardNote(l, n + 1, NextNote(m))
    <3>1. CASE Ons(l, n) = {} /\ midiNote = NotPlaying
      BY <2>1, <2>3, <3>1 DEF HeardNote
    <3>2. ASSUME NEW on \in 1 .. n, IsLatest(on, Ons(l, n)),
                 midiNote = IF ReleasedAfter(l, n, on) THEN NotPlaying ELSE l[on].midi.note
          PROVE  HeardNote(l, n + 1, NextNote(m))
      <4>1. IsLatest(on, Ons(l, n + 1)) /\ on \in 1 .. n + 1
        BY <2>1, <3>2
      <4>2. NextNote(m) = IF ReleasedAfter(l, n + 1, on) THEN NotPlaying ELSE l[on].midi.note
        BY <2>2, <2>3, <3>2
      <4>3. QED  BY <4>1, <4>2 DEF HeardNote
    <3>3. QED  BY <3>1, <3>2 DEF HeardNote
  <2>6. QED  BY <2>4, <2>5
<1>6. QED  BY <1>1, <1>3, <1>4, <1>5

(* What is heard of the messages up to a frame is what is expected of it.    *)
LEMMA HeardIsExpected ==
  ASSUME NEW n \in Nat, NEW k, Before(k) = 1 .. n, NEW note, NEW vel,
         HeardNote(log, n, note), HeardVelocity(log, n, note, vel)
  PROVE  note = ExpectedNote(k) /\ (note # NotPlaying => vel = ExpectedVelocity(k))
<1>1. Of("NOTE_ON", k) = Ons(log, n) /\ Of("NOTE_OFF", k) = Offs(log, n)
  BY DEF Of, Ons, Offs
<1>2. Ons(log, n) \in SUBSET Int /\ Ons(log, n) \cup Offs(log, n) \in SUBSET Int
  BY DEF Ons, Offs
<1>3. note = ExpectedNote(k)
  <2>1. CASE Ons(log, n) = {} /\ note = NotPlaying
    BY <1>1, <2>1 DEF ExpectedNote
  <2>2. ASSUME NEW on \in 1 .. n, IsLatest(on, Ons(log, n)),
               note = IF ReleasedAfter(log, n, on) THEN NotPlaying ELSE log[on].midi.note
        PROVE  note = ExpectedNote(k)
    <3>1. Latest(Of("NOTE_ON", k)) = on /\ Of("NOTE_ON", k) # {}
      BY <1>1, <1>2, <2>2, LatestIs DEF IsLatest
    <3>2. QED  BY <1>1, <2>2, <3>1 DEF ExpectedNote, ReleasedAfter
  <2>3. QED  BY <2>1, <2>2 DEF HeardNote
<1>4. ASSUME note # NotPlaying PROVE vel = ExpectedVelocity(k)
  <2>1. PICK i \in 1 .. n : IsLatest(i, Ons(log, n) \cup Offs(log, n)) /\ vel = log[i].midi.vel
    BY <1>4 DEF HeardVelocity
  <2>2. QED  BY <1>1, <1>2, <2>1, LatestIs DEF ExpectedVelocity
<1>5. QED  BY <1>3, <1>4

(* Remainders, for the phase.                                                *)
LEMMA ModUnique ==
  ASSUME NEW n \in Nat \ {0}, NEW q \in Nat, NEW r \in 0 .. (n - 1)
  PROVE  (n * q + r) % n = r
<1> DEFINE y == n * q + r
          d == y \div n
          s == y % n
<1>1. y \in Nat /\ d \in Nat /\ s \in 0 .. (n - 1) /\ y = n * d + s
  <2>1. n * q \in Nat
    OBVIOUS
  <2>2. QED  BY <2>1
<1>2. n * d + s = n * q + r
  BY <1>1
<1> HIDE DEF d, s
<1>3. d < q + 1
  <2>1. SUFFICES ASSUME d >= q + 1 PROVE FALSE
    BY <1>1
  <2>2. n * d >= n * (q + 1)
    BY <1>1, <2>1
  <2>3. n * (q + 1) = (n * q) + n
    OBVIOUS
  <2>4. QED  BY <1>1, <1>2, <2>2, <2>3
<1>4. q < d + 1
  <2>1. SUFFICES ASSUME q >= d + 1 PROVE FALSE
    BY <1>1
  <2>2. n * q >= n * (d + 1)
    BY <1>1, <2>1
  <2>3. n * (d + 1) = (n * d) + n
    BY <1>1
  <2>4. QED  BY <1>1, <1>2, <2>2, <2>3
<1>5. d = q
  BY <1>1, <1>3, <1>4
<1>6. s = r
  BY <1>1, <1>2, <1>5
<1>7. QED  BY <1>6 DEF s

LEMMA AddMod ==
  ASSUME NEW n \in Nat \ {0}, NEW a \in Nat, NEW b \in Nat
  PROVE  ((a % n) + b) % n = (a + b) % n
<1> DEFINE q == a \div n
           c == (a % n) + b
           u == c \div n
           r == c % n
<1>1. a = n * q + (a % n) /\ q \in Nat /\ a % n \in Nat
  OBVIOUS
<1>2. c \in Nat
  BY <1>1
<1>3. c = n * u + r /\ u \in Nat /\ r \in 0 .. (n - 1)
  BY <1>2
<1>4. n * (q + u) = (n * q) + (n * u)
  BY <1>1, <1>3
<1>5. a + b = n * (q + u) + r
  <2>1. n * q \in Nat /\ n * u \in Nat
    BY <1>1, <1>3
  <2>2. a + b = (n * q) + c
    BY <1>1, <2>1
  <2> HIDE DEF c
  <2>3. QED  BY <1>2, <1>3, <1>4, <2>1, <2>2
<1>6. (n * (q + u) + r) % n = r
  <2>1. q + u \in Nat
    BY <1>1, <1>3
  <2> HIDE DEF q, u, r
  <2>2. QED  BY <1>3, <2>1, ModUnique, Zenon
<1>7. QED  BY <1>5, <1>6


(* The stretch up to the next message lies before it.                        *)
LEMMA EndFrameInBlock ==
  ASSUME TInv, QueueInv, frame < numFrames, ~Due
  PROVE  /\ EndFrame \in Nat /\ frame < EndFrame /\ EndFrame <= numFrames
         /\ \A i \in 1 .. Len(queue) : EndFrame <= queue[i].at
<1>1. /\ frame \in Nat /\ numFrames \in Nat /\ queue \in Seq(Timed)
      /\ \A i \in 1 .. Len(queue) : queue[i].at \in Nat
  <2>1. \A i \in 1 .. Len(queue) : queue[i] \in Timed
    BY ElementOfSeq DEF TInv
  <2>2. QED  BY <2>1 DEF TInv, Timed
<1>2. CASE queue = <<>>
  BY <1>1, <1>2 DEF EndFrame
<1>3. CASE queue # <<>>
  <2>1. Len(queue) \in Nat /\ 1 \in 1 .. Len(queue) /\ Head(queue) = queue[1]
    BY <1>1, <1>3, EmptySeq
  <2>2. EndFrame = queue[1].at
    BY <1>3, <2>1 DEF EndFrame
  <2>3. ~(queue[1].at <= frame)
    BY <1>3, <2>1 DEF Due
  <2>4. QED  BY <1>1, <2>1, <2>2, <2>3 DEF QueueInv
<1>4. QED  BY <1>2, <1>3

LEMMA FramesAreAccurate == ASSUME FramesInv PROVE SampleAccurate
<1>1. ASSUME NEW k \in 1 .. Len(out)
      PROVE  /\ out[k].note = ExpectedNote(k - 1)
             /\ out[k].note # NotPlaying => out[k].vel = ExpectedVelocity(k - 1)
  <2>1. PICK n \in 0 .. Len(log) : Before(k - 1) = 1 .. n /\ HeardNote(log, n, out[k].note)
                                   /\ HeardVelocity(log, n, out[k].note, out[k].vel)
    BY DEF FramesInv, Explained
  <2>2. n \in Nat
    OBVIOUS
  <2>3. QED  BY <2>1, <2>2, HeardIsExpected
<1>2. QED  BY <1>1 DEF SampleAccurate

(* Rendering, of sound or of silence, a stretch with the voice as it is.     *)
LEMMA Rendered ==
  ASSUME IInv, inBlock, frame < numFrames, ~Due,
         NEW s \in Seq(Frame), Len(s) = EndFrame - frame, out' = out \o s,
         \A i \in 1 .. Len(s) : /\ s[i].note = midiNote
                                /\ midiNote # NotPlaying => s[i].vel = velocity,
         frame' = EndFrame, oscPhase' \in 0 .. (Period - 1),
         UNCHANGED <<midiNote, velocity, inBlock, numFrames, queue, base, log>>
  PROVE  TInv' /\ QueueInv' /\ LogInv' /\ HeardInv' /\ FramesInv'
<1>1. TInv /\ QueueInv /\ LogInv /\ HeardInv /\ FramesInv
  BY DEF IInv
<1>2. /\ EndFrame \in Nat /\ frame < EndFrame /\ EndFrame <= numFrames
      /\ \A i \in 1 .. Len(queue) : EndFrame <= queue[i].at
  BY <1>1, EndFrameInBlock
<1>3. /\ frame \in Nat /\ base \in Nat /\ numFrames \in Nat /\ out \in Seq(Frame)
      /\ queue \in Seq(Timed) /\ log \in Seq(Timed)
  BY <1>1 DEF TInv
<1>4. /\ out' \in Seq(Frame) /\ Len(out') = Len(out) + Len(s)
      /\ \A k \in 1 .. Len(out) : out'[k] = out[k]
      /\ \A k \in Len(out) + 1 .. Len(out) + Len(s) : out'[k] = s[k - Len(out)]
      /\ Len(out) \in Nat /\ Len(s) \in Nat
  <2>1. Len(out) \in Nat /\ Len(s) \in Nat
    BY <1>3, LenProperties
  <2>2. /\ out \o s \in Seq(Frame) /\ Len(out \o s) = Len(out) + Len(s)
        /\ \A i \in 1 .. Len(out) + Len(s) :
             (out \o s)[i] = IF i <= Len(out) THEN out[i] ELSE s[i - Len(out)]
    BY <1>3, ConcatProperties
  <2>3. QED  BY <2>1, <2>2
<1>5. TInv'
  <2>1. base' \in Nat /\ numFrames' \in Nat /\ frame' \in 0 .. numFrames' /\ queue' \in Seq(Timed)
    BY <1>2, <1>3, EmptySeq
  <2>2. QED  BY <1>1, <1>2, <2>1 DEF TInv
<1>6. QueueInv'
  BY <1>1, <1>2, <1>3, <1>4 DEF QueueInv
<1>7. Taken' = Taken /\ Taken \in Nat
  BY <1>1 DEF Taken, LogInv
<1>8. \A i \in 1 .. Len(log) : log[i].at \in Nat
  <2>1. \A i \in 1 .. Len(log) : log[i] \in Timed
    BY <1>3, ElementOfSeq
  <2>2. QED  BY <2>1 DEF Timed
<1>9. Len(log) \in Nat /\ Len(queue) \in Nat /\ Taken + Len(queue) = Len(log)
  BY <1>3, LenProperties DEF Taken
<1>10. LogInv'
  <2>1. \A i \in 1 .. Taken : log[i].at <= base + EndFrame
    <3>1. TAKE i \in 1 .. Taken
    <3>2. log[i].at <= base + frame /\ log[i].at \in Nat
      BY <1>1, <1>7, <1>8, <1>9 DEF LogInv
    <3>3. QED  BY <1>2, <1>3, <3>2
  <2>2. QED  BY <1>1, <1>7, <2>1 DEF LogInv
<1>11. HeardInv'
  BY <1>1, <1>7 DEF HeardInv, HeardNote, HeardVelocity, Ons, Offs, ReleasedAfter
<1>12. ASSUME NEW k \in 1 .. Len(out') PROVE Explained(k)'
  <2>1. CASE k \in 1 .. Len(out)
    <3>1. Explained(k) /\ out'[k] = out[k]
      BY <1>1, <1>4, <2>1 DEF FramesInv
    <3>2. QED  BY <3>1 DEF Explained, Before, HeardNote, HeardVelocity, Ons, Offs, ReleasedAfter
  <2>2. CASE k \notin 1 .. Len(out)
    <3>1. k \in Len(out) + 1 .. Len(out) + Len(s) /\ k - Len(out) \in 1 .. Len(s)
      BY <1>4, <2>2
    <3>2. out'[k].note = midiNote /\ (midiNote # NotPlaying => out'[k].vel = velocity)
      BY <1>4, <3>1
    <3>3. base + frame <= k - 1 /\ k - 1 < base + EndFrame
      BY <1>1, <1>2, <1>3, <1>4, <3>1 DEF QueueInv
    <3>4. Before(k - 1) = 1 .. Taken
      <4>1. ASSUME NEW i \in 1 .. Taken PROVE i \in 1 .. Len(log) /\ log[i].at <= k - 1
        <5>1. i \in 1 .. Len(log) /\ log[i].at <= base + frame
          BY <1>1, <1>7, <1>9 DEF LogInv
        <5>2. QED  BY <1>3, <1>4, <1>8, <3>1, <3>3, <5>1
      <4>2. ASSUME NEW i \in 1 .. Len(log), i \notin 1 .. Taken PROVE ~(log[i].at <= k - 1)
        <5>1. i - Taken \in 1 .. Len(queue) /\ Taken + (i - Taken) = i
          BY <1>7, <1>9, <4>2
        <5>2. log[i].at = base + queue[i - Taken].at /\ EndFrame <= queue[i - Taken].at
          BY <1>1, <1>2, <5>1 DEF LogInv
        <5>3. queue[i - Taken] \in Timed
          BY <1>3, <5>1, ElementOfSeq
        <5>4. queue[i - Taken].at \in Nat
          BY <5>3 DEF Timed
        <5>5. k \in Nat
          BY <1>4, <3>1
        <5>6. QED  BY <1>2, <1>3, <3>3, <5>2, <5>4, <5>5
      <4>3. QED  BY <4>1, <4>2 DEF Before
    <3>5. Before(k - 1)' = 1 .. Taken /\ Taken \in 0 .. Len(log)
      BY <1>7, <1>9, <3>4 DEF Before
    <3>6. HeardNote(log', Taken, out'[k].note) /\ HeardVelocity(log', Taken, out'[k].note, out'[k].vel)
      BY <1>1, <3>2 DEF HeardInv, HeardVelocity
    <3>7. QED  BY <3>5, <3>6 DEF Explained
  <2>3. QED  BY <2>1, <2>2
<1>13. QED  BY <1>5, <1>6, <1>10, <1>11, <1>12 DEF FramesInv

(* The invariant says what PhaseContinuous does.                             *)
LEMMA PhaseIsContinuous == ASSUME TInv, PhaseInv PROVE PhaseContinuous
<1> SUFFICES ASSUME NEW k \in 1 .. Len(out), Sounding(k)
             PROVE  LET past == {j \in 1 .. (k - 1) : Sounding(j)}
                        prev == CHOOSE j \in past : \A i \in past : i <= j
                    IN  out[k].phase = IF past = {} THEN 0
                                       ELSE (out[prev].phase + Inc[out[prev].note]) % Period
  BY DEF PhaseContinuous
<1> DEFINE past == {j \in 1 .. (k - 1) : Sounding(j)}
           prev == CHOOSE j \in past : \A i \in past : i <= j
<1>1. past = Past(k - 1) /\ prev = Latest(past) /\ past \in SUBSET Int
  BY DEF Past, Latest
<1>2. Follows(k - 1, out[k].phase)
  BY DEF PhaseInv
<1> HIDE DEF past, prev
<1>3. out[k].phase = IF past = {} THEN 0 ELSE (out[prev].phase + Inc[out[prev].note]) % Period
  <2>1. CASE past = {} /\ out[k].phase = 0
    BY <2>1
  <2>2. ASSUME NEW j, IsLatest(j, past), out[k].phase = (out[j].phase + Inc[out[j].note]) % Period
        PROVE  out[k].phase = IF past = {} THEN 0 ELSE (out[prev].phase + Inc[out[prev].note]) % Period
    <3>1. prev = j /\ past # {}
      BY <1>1, <2>2, LatestIs DEF IsLatest
    <3>2. QED  BY <2>2, <3>1
  <2>3. QED  BY <1>1, <1>2, <2>1, <2>2 DEF Follows
<1>4. QED  BY <1>3 DEF past, prev

(* Frames written later do not change what the earlier ones are followed by. *)
LEMMA FollowsKept ==
  ASSUME NEW n \in Nat, \A i \in 1 .. n : out'[i] = out[i]
  PROVE  Past(n)' = Past(n) /\ \A phase : Follows(n, phase) => Follows(n, phase)'
<1>1. Past(n)' = Past(n)
  BY DEF Past, Sounding
<1>2. QED  BY <1>1 DEF Follows

(* Silence leaves the oscillator where it is.                                *)
LEMMA SilentPhase ==
  ASSUME PhaseInv, Len(out) \in Nat, Len(out') \in Nat, Len(out) <= Len(out'), oscPhase' = oscPhase,
         \A k \in 1 .. Len(out) : out'[k] = out[k],
         \A k \in 1 .. Len(out') : k > Len(out) => out'[k].note = NotPlaying
  PROVE  PhaseInv'
<1>1. Past(Len(out))' = Past(Len(out))
  BY DEF Past, Sounding
<1>2. Follows(Len(out), oscPhase)'
  BY <1>1 DEF PhaseInv, Follows, IsLatest, Past
<1>3. ASSUME NEW k \in 1 .. Len(out'), Sounding(k)' PROVE Follows(k - 1, out[k].phase)'
  <2>1. k \in 1 .. Len(out) /\ out'[k] = out[k] /\ Sounding(k)
    BY <1>3 DEF Sounding
  <2>2. Follows(k - 1, out[k].phase)
    BY <2>1 DEF PhaseInv
  <2>3. k - 1 \in Nat /\ \A i \in 1 .. (k - 1) : out'[i] = out[i]
    BY <2>1
  <2>4. QED  BY <2>1, <2>2, <2>3, FollowsKept
<1>4. QED  BY <1>2, <1>3 DEF PhaseInv

(* The phases of a stretch, frame by frame.                                   *)
Advances(ph) ==
  ph[0] = oscPhase /\ \A i \in Nat : ph[i + 1] = (ph[i] + Inc[midiNote]) % Period

(* A stretch of sound: its frames follow one another, and the oscillator     *)
(* stops after the last.                                                     *)
LEMMA SoundingPhase ==
  ASSUME PhaseInv, NEW l \in Nat, l = Len(out), NEW n \in Nat \ {0}, Len(out') = l + n,
         midiNote # NotPlaying, NEW ph, Advances(ph), oscPhase' = ph[n],
         \A k \in 1 .. l : out'[k] = out[k],
         \A i \in 1 .. n : out'[l + i].note = midiNote /\ out'[l + i].phase = ph[i - 1]
  PROVE  PhaseInv'
<1>1. \A i \in 1 .. n : Sounding(l + i)'
  BY DEF Sounding
<1>2. ASSUME NEW i \in 1 .. n PROVE Follows(l + i, ph[i])'
  <2>1. IsLatest(l + i, Past(l + i)')
    <3>1. l + i \in 1 .. l + i /\ \A j \in 1 .. l + i : j <= l + i
      BY <1>2
    <3>2. out'[l + i].note # NotPlaying
      BY <1>2
    <3> DEFINE x == l + i
    <3> HIDE DEF x
    <3>3. x \in 1 .. x /\ (\A j \in 1 .. x : j <= x) /\ out'[x].note # NotPlaying
      BY <3>1, <3>2 DEF x
    <3>4. IsLatest(x, Past(x)')
      BY <3>3 DEF IsLatest, Past, Sounding
    <3>5. QED  BY <3>4 DEF x
  <2>2. ph[i] = (ph[i - 1] + Inc[midiNote]) % Period
    <3>1. i - 1 \in Nat /\ (i - 1) + 1 = i
      BY <1>2
    <3>2. ph[(i - 1) + 1] = (ph[i - 1] + Inc[midiNote]) % Period
      BY <3>1 DEF Advances
    <3>3. QED  BY <3>1, <3>2
  <2>3. ph[i] = (out'[l + i].phase + Inc[out'[l + i].note]) % Period
    BY <1>2, <2>2
  <2>4. l + i \in 1 .. l + i
    BY <1>2
  <2>5. QED  BY <2>1, <2>3, <2>4 DEF Follows
<1>3. Follows(l, ph[0])'
  BY FollowsKept DEF PhaseInv, Advances
<1>4. ASSUME NEW k \in 1 .. l + n, Sounding(k)' PROVE Follows(k - 1, out[k].phase)'
  <2>1. CASE k <= l
    <3>1. k \in 1 .. l /\ out'[k] = out[k] /\ Sounding(k)
      BY <1>4, <2>1 DEF Sounding
    <3>2. Follows(k - 1, out[k].phase)
      BY <3>1 DEF PhaseInv
    <3>3. k - 1 \in Nat /\ \A i \in 1 .. (k - 1) : out'[i] = out[i]
      BY <3>1
    <3>4. QED  BY <3>1, <3>2, <3>3, FollowsKept
  <2>2. CASE k = l + 1
    <3>1. k - 1 = l /\ out'[k].phase = ph[0]
      BY <2>2
    <3>2. QED  BY <1>3, <3>1
  <2>3. CASE k > l + 1
    <3>1. PICK i \in 1 .. n : i + 1 \in 1 .. n /\ k = l + (i + 1)
      <4>1. (k - l) - 1 \in 1 .. n /\ k - l \in 1 .. n /\ ((k - l) - 1) + 1 = k - l /\ k = l + (k - l)
        BY <1>4, <2>3
      <4>2. QED  BY <4>1
    <3>2. k - 1 = l + i /\ (i + 1) - 1 = i /\ out'[k].phase = ph[(i + 1) - 1]
      BY <3>1
    <3>3. QED  BY <1>2, <3>1, <3>2
  <2>4. QED  BY <1>4, <2>1, <2>2, <2>3
<1>5. l + n \in Nat /\ Follows(l + n, ph[n])'
  BY <1>2
<1>6. QED  BY <1>4, <1>5 DEF PhaseInv
-----------------------------------------------------------------------------
LEMMA InitIInv == Init => IInv
<1> SUFFICES ASSUME Init PROVE IInv
  OBVIOUS
<1>1. /\ queue = <<>> /\ out = <<>> /\ log = <<>> /\ Len(queue) = 0 /\ Len(out) = 0 /\ Len(log) = 0
      /\ queue \in Seq(Timed) /\ log \in Seq(Timed) /\ out \in Seq(Frame)
  BY EmptySeq DEF Init
<1>2. TInv
  <2>1. Period \in Nat \ {0}
    BY VoiceAssumption
  <2>2. 0 \in 0 .. (Period - 1) /\ 0 \in 0 .. 0 /\ 0 \in Nat
    BY <2>1
  <2>3. /\ midiNote = NotPlaying /\ velocity = 0 /\ oscPhase = 0
        /\ inBlock = FALSE /\ numFrames = 0 /\ frame = 0 /\ base = 0
    BY DEF Init
  <2>4. QED  BY <1>1, <2>2, <2>3 DEF TInv
<1>3. QueueInv
  BY <1>1 DEF Init, QueueInv
<1>4. Taken = 0 /\ LogInv
  BY <1>1 DEF Taken, LogInv
<1>5. HeardInv
  BY <1>4 DEF Init, HeardInv, HeardNote, HeardVelocity, Ons
<1>6. PhaseInv /\ FramesInv
  BY <1>1 DEF Init, PhaseInv, Follows, Past, FramesInv
<1>7. QED  BY <1>2, <1>3, <1>4, <1>5, <1>6 DEF IInv

(* The frames and the oscillator are left alone.                             *)
LEMMA QuietPhase == ASSUME PhaseInv, UNCHANGED <<out, oscPhase>> PROVE PhaseInv'
BY DEF PhaseInv, Follows, IsLatest, Past, Sounding

LEMMA QuietFrames == ASSUME FramesInv, UNCHANGED <<out, log>> PROVE FramesInv'
<1>1. ASSUME NEW k \in 1 .. Len(out) PROVE Explained(k)'
  <2>1. Explained(k)
    BY DEF FramesInv
  <2>2. QED  BY <2>1 DEF Explained, Before, HeardNote, HeardVelocity, Ons, Offs, ReleasedAfter
<1>2. QED  BY <1>1 DEF FramesInv

LEMMA BeginStep == ASSUME IInv, ProcessBegin PROVE IInv'
<1>1. TInv /\ QueueInv /\ LogInv /\ HeardInv /\ PhaseInv /\ FramesInv
  BY DEF IInv
<1>2. PICK n \in BlockSize : \E msgs \in Messages(n) :
         /\ queue' = msgs /\ numFrames' = n
         /\ log' = log \o [i \in 1 .. Len(msgs) |-> [msgs[i] EXCEPT !.at = @ + base]]
  BY DEF ProcessBegin
<1>3. PICK msgs \in Messages(n) :
         /\ queue' = msgs /\ numFrames' = n
         /\ log' = log \o [i \in 1 .. Len(msgs) |-> [msgs[i] EXCEPT !.at = @ + base]]
  BY <1>2
<1>4. n \in Nat \ {0} /\ base \in Nat /\ log \in Seq(Timed) /\ out \in Seq(Frame) /\ Len(out) = base + frame
  BY <1>1, VoiceAssumption DEF TInv, QueueInv
<1>5. PICK k \in 0 .. MaxEvents : /\ msgs \in [1 .. k -> Message(n)]
                                  /\ \A i, j \in 1 .. k : i <= j => msgs[i].at <= msgs[j].at
  BY DEF Messages
<1>6. k \in Nat /\ Len(msgs) = k /\ \A i \in 1 .. k : msgs[i].at \in 0 .. (n - 1) /\ msgs[i].midi \in MidiMessage
  <2>1. k \in Nat
    BY <1>5, VoiceAssumption
  <2>2. \A i \in 1 .. k : msgs[i] \in Message(n)
    BY <1>5
  <2>3. QED  BY <1>5, <2>1, <2>2 DEF Message
<1>7. \A i \in 1 .. k : msgs[i] \in Timed
  <2>1. ASSUME NEW i \in 1 .. k PROVE msgs[i] \in Timed
    <3>1. msgs[i] \in Message(n)
      BY <1>5
    <3>2. QED  BY <1>4, <3>1 DEF Message, Timed
  <2>2. QED  BY <2>1
<1>8. queue' \in Seq(Timed) /\ Len(queue') = k
  <2>1. msgs \in [1 .. k -> Timed]
    BY <1>5, <1>7
  <2>2. QED  BY <1>3, <1>6, <2>1
<1> DEFINE t == [i \in 1 .. k |-> [msgs[i] EXCEPT !.at = @ + base]]
<1>9. t \in Seq(Timed) /\ Len(t) = k
      /\ \A i \in 1 .. k : t[i].at = msgs[i].at + base /\ t[i].midi = msgs[i].midi
  <2>1. ASSUME NEW i \in 1 .. k
        PROVE  t[i] \in Timed /\ t[i].at = msgs[i].at + base /\ t[i].midi = msgs[i].midi
    <3>1. msgs[i] \in Timed /\ t[i] = [msgs[i] EXCEPT !.at = msgs[i].at + base]
      BY <1>7
    <3>2. msgs[i].at + base \in Nat
      BY <1>4, <1>6
    <3>3. QED  BY <3>1, <3>2 DEF Timed
  <2>2. t \in [1 .. k -> Timed]
    BY <2>1
  <2>3. QED  BY <1>6, <2>1, <2>2
<1> HIDE DEF t
<1>10. /\ log' = log \o t /\ log' \in Seq(Timed) /\ Len(log') = Len(log) + k /\ Len(log) \in Nat
       /\ \A i \in 1 .. Len(log) : log'[i] = log[i]
       /\ \A i \in 1 .. k : log'[Len(log) + i] = t[i]
  <2>1. log' = log \o t
    BY <1>3, <1>6 DEF t
  <2>2. Len(log) \in Nat
    BY <1>4, LenProperties
  <2>3. /\ log \o t \in Seq(Timed) /\ Len(log \o t) = Len(log) + Len(t)
        /\ \A i \in 1 .. Len(log) + Len(t) :
             (log \o t)[i] = IF i <= Len(log) THEN log[i] ELSE t[i - Len(log)]
    BY <1>4, <1>9, ConcatProperties
  <2>4. \A i \in 1 .. k : Len(log) + i \in 1 .. Len(log) + k /\ ~(Len(log) + i <= Len(log))
                          /\ (Len(log) + i) - Len(log) = i
    BY <1>6, <2>2
  <2>5. QED  BY <1>6, <1>9, <2>1, <2>2, <2>3, <2>4
<1>11. /\ ~inBlock /\ inBlock' = TRUE /\ frame' = 0 /\ numFrames' = n
       /\ UNCHANGED <<midiNote, velocity, oscPhase, base, out>>
  BY <1>3 DEF ProcessBegin, voice
<1>12. queue = <<>> /\ Len(queue) = 0 /\ frame = 0
  BY <1>1, <1>11 DEF QueueInv, TInv
<1>13. Taken = Len(log) /\ Taken' = Len(log)
  BY <1>6, <1>8, <1>10, <1>12 DEF Taken
<1>14. TInv'
  BY <1>1, <1>4, <1>8, <1>10, <1>11 DEF TInv
<1>15. QueueInv'
  BY <1>3, <1>4, <1>5, <1>6, <1>8, <1>11, <1>12 DEF QueueInv
<1>16. LogInv'
  <2>1. \A i \in 1 .. Len(log) : log'[i].at <= base
    BY <1>1, <1>4, <1>10, <1>12, <1>13 DEF LogInv
  <2>2. \A i \in 1 .. k : log'[Len(log) + i].at = base + msgs[i].at /\ log'[Len(log) + i].midi = msgs[i].midi
    BY <1>4, <1>6, <1>9, <1>10
  <2>3. QED  BY <1>3, <1>4, <1>8, <1>10, <1>11, <1>13, <2>1, <2>2 DEF LogInv
<1>17. HeardInv'
  <2>1. HeardNote(log', Len(log), midiNote) /\ HeardVelocity(log', Len(log), midiNote, velocity)
    BY <1>1, <1>10, <1>13, HeardOfPart DEF HeardInv
  <2>2. QED  BY <1>11, <1>13, <2>1 DEF HeardInv
<1>18. FramesInv'
  <2>1. ASSUME NEW f \in 1 .. Len(out) PROVE Explained(f)'
    <3>1. f \in Nat /\ f - 1 < base
      BY <1>4, <1>12
    <3>2. \A i \in 1 .. k : ~(log'[Len(log) + i].at <= f - 1)
      <4>1. TAKE i \in 1 .. k
      <4>2. log'[Len(log) + i].at = msgs[i].at + base /\ msgs[i].at \in Nat
        BY <1>4, <1>6, <1>9, <1>10
      <4>3. QED  BY <1>4, <3>1, <4>2
    <3>3. Before(f - 1)' = Before(f - 1)
      <4>1. ASSUME NEW i \in 1 .. Len(log'), i \notin 1 .. Len(log) PROVE ~(log'[i].at <= f - 1)
        <5>1. i - Len(log) \in 1 .. k /\ Len(log) + (i - Len(log)) = i
          BY <1>6, <1>10, <4>1
        <5>2. QED  BY <3>2, <5>1
      <4>2. 1 .. Len(log) \subseteq 1 .. Len(log')
        BY <1>6, <1>10
      <4>3. QED  BY <1>10, <4>1, <4>2 DEF Before
    <3>4. PICK m \in 0 .. Len(log) : Before(f - 1) = 1 .. m /\ HeardNote(log, m, out[f].note)
                                     /\ HeardVelocity(log, m, out[f].note, out[f].vel)
      BY <1>1, <2>1 DEF FramesInv, Explained
    <3>5. m \in Nat /\ m \in 0 .. Len(log') /\ \A i \in 1 .. m : log'[i] = log[i]
      BY <1>6, <1>10
    <3>6. HeardNote(log', m, out[f].note) /\ HeardVelocity(log', m, out[f].note, out[f].vel)
      BY <3>4, <3>5, HeardOfPart
    <3>7. QED  BY <1>11, <3>3, <3>4, <3>5, <3>6 DEF Explained
  <2>2. QED  BY <1>11, <2>1 DEF FramesInv
<1>19. PhaseInv'
  BY <1>1, <1>11, QuietPhase
<1>20. QED  BY <1>14, <1>15, <1>16, <1>17, <1>18, <1>19 DEF IInv

LEMMA MidiStep == ASSUME IInv, Midi PROVE IInv'
<1>1. TInv /\ QueueInv /\ LogInv /\ HeardInv /\ PhaseInv /\ FramesInv
  BY DEF IInv
<1>2. /\ midiNote' = NextNote(Head(queue).midi) /\ velocity' = NextVelocity(Head(queue).midi)
      /\ queue' = Tail(queue) /\ queue # <<>> /\ Head(queue).at <= frame /\ inBlock
      /\ UNCHANGED <<oscPhase, inBlock, numFrames, frame, base, out, log>>
  BY DEF Midi, Due
<1>3. queue \in Seq(Timed) /\ log \in Seq(Timed) /\ frame \in Nat /\ base \in Nat
  BY <1>1 DEF TInv
<1>4. /\ Len(queue) \in Nat \ {0} /\ Head(queue) = queue[1] /\ 1 \in 1 .. Len(queue)
      /\ Tail(queue) \in Seq(Timed) /\ Len(Tail(queue)) = Len(queue) - 1
      /\ \A i \in 1 .. Len(queue) - 1 : Tail(queue)[i] = queue[i + 1]
  BY <1>2, <1>3
<1>5. queue[1] \in Timed /\ queue[1].midi \in MidiMessage /\ queue[1].at \in Nat
  <2>1. queue[1] \in Timed
    BY <1>3, <1>4, ElementOfSeq
  <2>2. QED  BY <2>1 DEF Timed
<1>6. Len(log) \in Nat /\ Taken \in Nat /\ Taken + Len(queue) = Len(log) /\ Taken' = Taken + 1
  BY <1>1, <1>2, <1>3, <1>4 DEF Taken, LogInv
<1>7. log[Taken + 1].at = base + queue[1].at /\ log[Taken + 1].midi = queue[1].midi
  BY <1>1, <1>4 DEF LogInv
<1>8. TInv'
  <2>1. /\ midiNote' \in Note \cup {NotPlaying} /\ velocity' \in Velocity \cup {0}
    <3>1. queue[1].midi.note \in Note /\ queue[1].midi.vel \in Velocity
      BY <1>5, VoiceAssumption
    <3>2. midiNote' \in {queue[1].midi.note, NotPlaying, midiNote}
      BY <1>2, <1>4 DEF NextNote
    <3>3. velocity' \in {queue[1].midi.vel, velocity}
      BY <1>2, <1>4 DEF NextVelocity
    <3>4. QED  BY <1>1, <3>1, <3>2, <3>3 DEF TInv
  <2>2. QED  BY <1>1, <1>2, <1>4, <2>1 DEF TInv
<1>9. QueueInv'
  <2>1. \A i \in 1 .. Len(queue) - 1 : i \in 1 .. Len(queue) /\ i + 1 \in 1 .. Len(queue)
    BY <1>4
  <2>2. \A i \in 1 .. Len(queue') : frame <= queue'[i].at /\ queue'[i].at < numFrames
    BY <1>1, <1>2, <1>4, <2>1 DEF QueueInv
  <2>3. \A i, j \in 1 .. Len(queue') : i <= j => queue'[i].at <= queue'[j].at
    <3>1. TAKE i, j \in 1 .. Len(queue')
    <3>2. HAVE i <= j
    <3>3. i + 1 <= j + 1 /\ i + 1 \in 1 .. Len(queue) /\ j + 1 \in 1 .. Len(queue)
      BY <1>2, <1>4, <3>2
    <3>4. queue[i + 1].at <= queue[j + 1].at
      BY <1>1, <3>3 DEF QueueInv
    <3>5. QED  BY <1>2, <1>4, <3>4
  <2>4. QED  BY <1>1, <1>2, <2>2, <2>3 DEF QueueInv
<1>10. LogInv'
  <2>1. ASSUME NEW i \in 1 .. Taken + 1 PROVE log[i].at <= base + frame
    <3>1. CASE i = Taken + 1
      BY <1>2, <1>3, <1>4, <1>5, <1>7, <3>1
    <3>2. CASE i # Taken + 1
      <4>1. i \in 1 .. Taken
        BY <1>6, <3>2
      <4>2. QED  BY <1>1, <4>1 DEF LogInv
    <3>3. QED  BY <3>1, <3>2
  <2>2. ASSUME NEW i \in 1 .. Len(queue')
        PROVE  /\ log[(Taken + 1) + i].at = base + queue'[i].at
               /\ log[(Taken + 1) + i].midi = queue'[i].midi
    <3>1. i + 1 \in 1 .. Len(queue) /\ queue'[i] = queue[i + 1] /\ (Taken + 1) + i = Taken + (i + 1)
      BY <1>2, <1>4, <1>6
    <3>2. QED  BY <1>1, <3>1 DEF LogInv
  <2>3. QED  BY <1>2, <1>6, <2>1, <2>2 DEF LogInv
<1>11. HeardInv'
  <2>1. Taken + 1 <= Len(log) /\ midiNote \in Note \cup {NotPlaying}
    BY <1>1, <1>4, <1>6 DEF TInv
  <2>2. HeardNote(log, Taken, midiNote) /\ HeardVelocity(log, Taken, midiNote, velocity)
    BY <1>1 DEF HeardInv
  <2> DEFINE m == queue[1].midi
  <2>3. m = log[Taken + 1].midi
    BY <1>7
  <2> HIDE DEF m
  <2>4. HeardNote(log, Taken + 1, NextNote(m)) /\ HeardVelocity(log, Taken + 1, NextNote(m), NextVelocity(m))
    BY <1>3, <1>6, <2>1, <2>2, <2>3, HeardNext
  <2>5. QED  BY <1>2, <1>4, <1>6, <2>4 DEF HeardInv, m
<1>12. FramesInv'
  BY <1>1, <1>2, QuietFrames
<1>13. PhaseInv'
  BY <1>1, <1>2, QuietPhase
<1>14. QED  BY <1>8, <1>9, <1>10, <1>11, <1>12, <1>13 DEF IInv

LEMMA EndStep == ASSUME IInv, ProcessEnd PROVE IInv'
<1>1. TInv /\ QueueInv /\ LogInv /\ HeardInv /\ PhaseInv /\ FramesInv
  BY DEF IInv
<1>2. /\ inBlock' = FALSE /\ base' = base + numFrames /\ numFrames' = 0 /\ frame' = 0 /\ queue' = <<>>
      /\ frame >= numFrames /\ UNCHANGED <<midiNote, velocity, oscPhase, out, log>>
  BY DEF ProcessEnd, voice
<1>3. /\ frame \in Nat /\ base \in Nat /\ numFrames \in Nat /\ queue \in Seq(Timed)
      /\ frame = numFrames /\ Len(queue) \in Nat
  BY <1>1, <1>2, LenProperties DEF TInv
<1>4. queue = <<>> /\ Len(queue) = 0 /\ Len(queue') = 0
  <2>1. ASSUME queue # <<>> PROVE FALSE
    <3>1. 1 \in 1 .. Len(queue)
      BY <1>3, <2>1, EmptySeq
    <3>2. frame <= queue[1].at /\ queue[1].at < numFrames /\ queue[1] \in Timed
      BY <1>1, <1>3, <3>1, ElementOfSeq DEF QueueInv
    <3>3. queue[1].at \in Nat
      BY <3>2 DEF Timed
    <3>4. QED  BY <1>3, <3>2, <3>3
  <2>2. QED  BY <1>2, <2>1, EmptySeq
<1>5. TInv'
  <2>1. base' \in Nat /\ numFrames' \in Nat /\ frame' \in 0 .. numFrames' /\ queue' \in Seq(Timed)
    BY <1>2, <1>3, EmptySeq
  <2>2. QED  BY <1>1, <1>2, <2>1 DEF TInv
<1>6. QueueInv'
  BY <1>1, <1>2, <1>3, <1>4 DEF QueueInv
<1>7. Taken' = Taken /\ LogInv'
  BY <1>1, <1>2, <1>3, <1>4 DEF LogInv, Taken
<1>8. HeardInv'
  BY <1>1, <1>2, <1>7 DEF HeardInv, HeardNote, HeardVelocity, Ons, Offs, ReleasedAfter
<1>9. FramesInv'
  BY <1>1, <1>2, QuietFrames
<1>10. PhaseInv'
  BY <1>1, <1>2, QuietPhase
<1>11. QED  BY <1>5, <1>6, <1>7, <1>8, <1>9, <1>10 DEF IInv

LEMMA SilenceStep == ASSUME IInv, ProcessSilence PROVE IInv'
<1>1. TInv /\ QueueInv /\ LogInv /\ HeardInv /\ PhaseInv /\ FramesInv
  BY DEF IInv
<1> DEFINE n == EndFrame - frame
           s == [i \in 1 .. n |-> Silence]
<1>2. /\ inBlock /\ frame < numFrames /\ ~Due /\ midiNote = NotPlaying
      /\ out' = out \o s /\ frame' = EndFrame
      /\ UNCHANGED <<midiNote, velocity, oscPhase, inBlock, numFrames, queue, base, log>>
  BY DEF ProcessSilence, voice
<1>3. n \in Nat /\ out \in Seq(Frame) /\ Len(out) \in Nat /\ oscPhase \in 0 .. (Period - 1)
  BY <1>1, <1>2, EndFrameInBlock, LenProperties DEF TInv
<1> HIDE DEF n
<1>4. s \in Seq(Frame) /\ Len(s) = n /\ \A i \in 1 .. n : s[i] = Silence
  <2>1. Silence \in Frame
    BY DEF Silence, Frame
  <2>2. s \in [1 .. n -> Frame]
    BY <2>1
  <2>3. QED  BY <1>3, <2>2
<1> HIDE DEF s
<1>5. Silence.note = midiNote
  BY <1>2 DEF Silence
<1>6. TInv' /\ QueueInv' /\ LogInv' /\ HeardInv' /\ FramesInv'
  <2>1. Len(s) = EndFrame - frame
    BY <1>4 DEF n
  <2>2. \A i \in 1 .. Len(s) : s[i].note = midiNote /\ (midiNote # NotPlaying => s[i].vel = velocity)
    BY <1>2, <1>4, <1>5
  <2>3. oscPhase' \in 0 .. (Period - 1)
    BY <1>2, <1>3
  <2>4. QED  BY <1>2, <1>4, <2>1, <2>2, <2>3, Rendered
<1>7. /\ Len(out') = Len(out) + n
      /\ \A k \in 1 .. Len(out) + n : out'[k] = IF k <= Len(out) THEN out[k] ELSE s[k - Len(out)]
  BY <1>2, <1>3, <1>4, ConcatProperties
<1>8. PhaseInv'
  <2>1. \A k \in 1 .. Len(out) : out'[k] = out[k]
    BY <1>3, <1>7
  <2>2. ASSUME NEW k \in 1 .. Len(out'), k > Len(out) PROVE out'[k].note = NotPlaying
    <3>1. k - Len(out) \in 1 .. n /\ out'[k] = s[k - Len(out)]
      BY <1>3, <1>7, <2>2
    <3>2. QED  BY <1>2, <1>4, <1>5, <3>1
  <2>3. Len(out') \in Nat /\ Len(out) <= Len(out') /\ oscPhase' = oscPhase
    BY <1>2, <1>3, <1>7
  <2>4. QED  BY <1>1, <1>3, <2>1, <2>2, <2>3, SilentPhase
<1>9. QED  BY <1>6, <1>8 DEF IInv

LEMMA AudioStep == ASSUME IInv, ProcessAudio PROVE IInv'
<1>1. TInv /\ QueueInv /\ LogInv /\ HeardInv /\ PhaseInv /\ FramesInv
  BY DEF IInv
<1> DEFINE n == EndFrame - frame
           s == [i \in 1 .. n |-> [note |-> midiNote, vel |-> velocity, phase |-> PhaseAfter(i - 1)]]
           ph == [i \in Nat |-> PhaseAfter(i)]
<1>2. /\ inBlock /\ frame < numFrames /\ ~Due /\ midiNote # NotPlaying
      /\ out' = out \o s /\ oscPhase' = PhaseAfter(n) /\ frame' = EndFrame
      /\ UNCHANGED <<midiNote, velocity, inBlock, numFrames, queue, base, log>>
  BY DEF ProcessAudio
<1>3. n \in Nat \ {0} /\ out \in Seq(Frame) /\ Len(out) \in Nat
  <2>1. EndFrame \in Nat /\ frame < EndFrame /\ frame \in Nat
    BY <1>1, <1>2, EndFrameInBlock DEF TInv
  <2>2. QED  BY <1>1, <2>1, LenProperties DEF TInv
<1>4. /\ midiNote \in Note /\ velocity \in Velocity \cup {0} /\ oscPhase \in 0 .. (Period - 1)
      /\ Period \in Nat \ {0} /\ Inc[midiNote] \in 0 .. (Period - 1) /\ Inc[midiNote] \in Nat
  BY <1>1, <1>2, VoiceAssumption DEF TInv
<1>5. \A i \in Nat : PhaseAfter(i) \in 0 .. (Period - 1)
  <2>1. TAKE i \in Nat
  <2>2. i * Inc[midiNote] \in Nat
    BY <1>4
  <2>3. QED  BY <1>4, <2>2 DEF PhaseAfter
<1>6. Advances(ph)
  <2>1. PhaseAfter(0) = oscPhase
    BY <1>4 DEF PhaseAfter
  <2>2. ASSUME NEW i \in Nat PROVE PhaseAfter(i + 1) = (PhaseAfter(i) + Inc[midiNote]) % Period
    <3> DEFINE c == Inc[midiNote]
               a == oscPhase + (i * c)
    <3>0. c \in Nat
      BY <1>4
    <3>1. a \in Nat /\ oscPhase + ((i + 1) * c) = a + c
      <4> HIDE DEF c
      <4>1. i * c \in Nat /\ (i + 1) * c = (i * c) + c
        BY <3>0
      <4>2. QED  BY <1>4, <3>0, <4>1
    <3>2. PhaseAfter(i) = a % Period /\ PhaseAfter(i + 1) = (a + c) % Period
      BY <3>1 DEF PhaseAfter
    <3> HIDE DEF a, c
    <3>3. ((a % Period) + c) % Period = (a + c) % Period
      BY <1>4, <3>0, <3>1, AddMod
    <3>4. QED  BY <3>2, <3>3 DEF c
  <2>3. QED  BY <2>1, <2>2 DEF Advances
<1> HIDE DEF n
<1>7. s \in Seq(Frame) /\ Len(s) = n
  <2>1. ASSUME NEW i \in 1 .. n
        PROVE  [note |-> midiNote, vel |-> velocity, phase |-> PhaseAfter(i - 1)] \in Frame
    <3>1. PhaseAfter(i - 1) \in Int
      BY <1>4, <1>5
    <3>2. QED  BY <1>4, <3>1 DEF Frame
  <2>2. s \in [1 .. n -> Frame]
    BY <2>1
  <2>3. QED  BY <1>3, <2>2
<1>8. \A i \in 1 .. n : s[i].note = midiNote /\ s[i].vel = velocity /\ s[i].phase = PhaseAfter(i - 1)
  OBVIOUS
<1> HIDE DEF s
<1>9. TInv' /\ QueueInv' /\ LogInv' /\ HeardInv' /\ FramesInv'
  <2>1. Len(s) = EndFrame - frame
    BY <1>7 DEF n
  <2>2. \A i \in 1 .. Len(s) : s[i].note = midiNote /\ (midiNote # NotPlaying => s[i].vel = velocity)
    BY <1>7, <1>8
  <2>3. oscPhase' \in 0 .. (Period - 1)
    BY <1>2, <1>3, <1>5
  <2>4. QED  BY <1>2, <1>7, <2>1, <2>2, <2>3, Rendered
<1>10. /\ Len(out') = Len(out) + n
       /\ \A k \in 1 .. Len(out) + n : out'[k] = IF k <= Len(out) THEN out[k] ELSE s[k - Len(out)]
  BY <1>2, <1>3, <1>7, ConcatProperties
<1>11. PhaseInv'
  <2>1. \A k \in 1 .. Len(out) : out'[k] = out[k]
    BY <1>3, <1>10
  <2>2. ASSUME NEW i \in 1 .. n
        PROVE  out'[Len(out) + i].note = midiNote /\ out'[Len(out) + i].phase = ph[i - 1]
    <3>1. out'[Len(out) + i] = s[i] /\ i - 1 \in Nat
      BY <1>3, <1>10
    <3>2. QED  BY <1>8, <3>1
  <2>3. oscPhase' = ph[n]
    BY <1>2, <1>3
  <2> HIDE DEF ph
  <2>4. QED  BY <1>1, <1>2, <1>3, <1>6, <1>10, <2>1, <2>2, <2>3, SoundingPhase
<1>12. QED  BY <1>9, <1>11 DEF IInv
-----------------------------------------------------------------------------
(* The invariant holds in every state.                                       *)
THEOREM InductiveInvariant == Spec => []IInv
<1>1. IInv /\ UNCHANGED vars => IInv'
  <2> SUFFICES ASSUME IInv, UNCHANGED vars PROVE IInv'
    OBVIOUS
  <2>1. /\ UNCHANGED <<midiNote, velocity, oscPhase, inBlock, numFrames, frame, queue, base, out, log>>
        /\ TInv /\ QueueInv /\ LogInv /\ HeardInv /\ PhaseInv /\ FramesInv
    BY DEF vars, voice, block, IInv
  <2>2. TInv' /\ QueueInv' /\ LogInv' /\ Taken' = Taken
    BY <2>1 DEF TInv, QueueInv, LogInv, Taken
  <2>3. HeardInv'
    BY <2>1, <2>2 DEF HeardInv, HeardNote, HeardVelocity, Ons, Offs, ReleasedAfter
  <2>4. FramesInv' /\ PhaseInv'
    BY <2>1, QuietFrames, QuietPhase
  <2>5. QED  BY <2>2, <2>3, <2>4 DEF IInv
<1>2. IInv /\ [Next]_vars => IInv'
  BY <1>1, BeginStep, MidiStep, SilenceStep, AudioStep, EndStep DEF Next
<1>3. QED  BY <1>2, InitIInv, PTL DEF Spec

(* However events cut a block up, each frame of it is written once.          *)
THEOREM FramesWrittenOnce == Spec => []EachFrameOnce
<1>1. IInv => EachFrameOnce
  <2> SUFFICES ASSUME IInv PROVE EachFrameOnce
    OBVIOUS
  <2>1. \A i \in 1 .. Len(queue) : queue[i].at \in Nat
    <3>1. \A i \in 1 .. Len(queue) : queue[i] \in Timed
      BY ElementOfSeq DEF IInv, TInv
    <3>2. QED  BY <3>1 DEF Timed
  <2>2. frame \in Nat
    BY DEF IInv, TInv
  <2>3. QED  BY <2>1, <2>2 DEF IInv, QueueInv, EachFrameOnce
<1>2. QED  BY <1>1, InductiveInvariant, PTL

(* Every frame has the note and velocity that the messages up to it call for. *)
THEOREM FramesAccurate == Spec => []SampleAccurate
<1>1. IInv => SampleAccurate
  BY FramesAreAccurate DEF IInv
<1>2. QED  BY <1>1, InductiveInvariant, PTL

(* The oscillator never clicks.                                              *)
THEOREM WaveformContinuous == Spec => []PhaseContinuous
<1>1. IInv => PhaseContinuous
  BY PhaseIsContinuous DEF IInv
<1>2. QED  BY <1>1, InductiveInvariant, PTL
=============================================================================
