SPECIFICATION Spec
CONSTANTS
    Note = {60, 72}
    Velocity = {1, 2}
    MidiMessage <- MCMidi
    Period = 5
    Inc <- MCInc
    BlockSize = {2, 3}
    MaxFrames = 5
    MaxEvents = 2
INVARIANTS EachFrameOnce SampleAccurate PhaseContinuous
CHECK_DEADLOCK FALSE
