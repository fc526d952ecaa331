-------------------------- MODULE ParamSyncProofs --------------------------
(* The copies of the parameters agree and leave their range only by values   *)
(* that a preset brought, for any number of parameters, ranges, presets,     *)
(* values sent by users and hosts, and ring capacity.                        *)
EXTENDS ParamSync, NaturalsInduction, WellFoundedInduction, FiniteSetTheorems, FunctionTheorems,
        TLAPS

-----------------------------------------------------------------------------
(* The last of some positions exists.                                        *)
LEMMA LatestIsLast ==
  ASSUME NEW n \in Nat, NEW S \in SUBSET (1 .. n), S # {}
  PROVE  Latest(S) \in S /\ \A j \in S : j <= Latest(S)
<1> DEFINE T == {n - i : i \in S}
           R == {r \in Nat \X Nat : r[1] < r[2]}
<1>1. T \subseteq Nat /\ T # {}
  <2>1. \A i \in S : i \in 1 .. n
    OBVIOUS
  <2>2. \A i \in 1 .. n : n - i \in Nat
    OBVIOUS
  <2>3. T \subseteq Nat
    BY <2>1, <2>2
  <2>4. QED  BY <2>3
<1>2. IsWellFoundedOn(R, Nat)
  BY NatLessThanWellFounded DEF OpToRel
<1>3. PICK m \in T : \A y \in T : ~(<<y, m>> \in R)
  BY <1>1, <1>2, WFMin
<1>4. PICK i \in S : m = n - i
  BY <1>3
<1>5. \A j \in S : j <= i
  <2> TAKE j \in S
  <2>1. n - j \in Nat /\ n - i \in Nat /\ n - j \in T
    OBVIOUS
  <2>2. ~(n - j < n - i)
    BY <1>3, <1>4, <2>1
  <2>3. QED  BY <2>1, <2>2
<1>6. QED  BY <1>5 DEF Latest

(* What a copy becomes when the events of a ring are applied: the value of   *)
(* the last UPDATE, else it stays.                                           *)
LEMMA FinalStays == ASSUME NEW p, NEW f, NEW v, UpdatesOf(p, f) = {}
                    PROVE  Final(p, f, v) = v
  BY DEF Final

LEMMA FinalIsUpdate ==
  ASSUME NEW p \in Param, NEW f \in Seq(Event), NEW v, UpdatesOf(p, f) # {}
  PROVE  \E i \in UpdatesOf(p, f) : /\ \A j \in UpdatesOf(p, f) : j <= i
                                    /\ \A w : Final(p, f, w) = f[i].value
<1>1. Len(f) \in Nat /\ UpdatesOf(p, f) \in SUBSET (1 .. Len(f))
  BY DEF UpdatesOf
<1>2. Latest(UpdatesOf(p, f)) \in UpdatesOf(p, f)
      /\ \A j \in UpdatesOf(p, f) : j <= Latest(UpdatesOf(p, f))
  BY <1>1, LatestIsLast
<1>3. QED  BY <1>2 DEF Final

(* The converse: whichever UPDATE has none behind it is the one.             *)
LEMMA FinalFromLast ==
  ASSUME NEW p \in Param, NEW f \in Seq(Event), NEW v,
         NEW i \in UpdatesOf(p, f), \A j \in UpdatesOf(p, f) : j <= i
  PROVE  Final(p, f, v) = f[i].value
<1>1. PICK k \in UpdatesOf(p, f) : /\ \A j \in UpdatesOf(p, f) : j <= k
                                   /\ Final(p, f, v) = f[k].value
  BY FinalIsUpdate
<1>2. i \in Nat /\ k \in Nat /\ i <= k /\ k <= i
  BY <1>1 DEF UpdatesOf
<1>3. QED  BY <1>1, <1>2

LEMMA FinalType ==
  ASSUME NEW p \in Param, NEW f \in Seq(Event), NEW v \in Value
  PROVE  Final(p, f, v) \in Value
<1>1. CASE UpdatesOf(p, f) = {}
  BY <1>1, FinalStays
<1>2. CASE UpdatesOf(p, f) # {}
  <2>1. PICK i \in UpdatesOf(p, f) : Final(p, f, v) = f[i].value
    BY <1>2, FinalIsUpdate
  <2>2. f[i] \in Event
    BY <2>1 DEF UpdatesOf
  <2>3. QED  BY <2>1, <2>2 DEF Event
<1>3. QED  BY <1>1, <1>2

(* Sending: an UPDATE of p decides, any other event changes nothing.         *)
Concerns(e, p) == e.type = "UPDATE" /\ e.id = p

LEMMA FinalAppend ==
  ASSUME NEW p \in Param, NEW f \in Seq(Event), NEW e \in Event, NEW v
  PROVE  /\ Concerns(e, p) => Final(p, Append(f, e), v) = e.value
         /\ ~Concerns(e, p) => /\ Final(p, Append(f, e), v) = Final(p, f, v)
                               /\ UpdatesOf(p, Append(f, e)) = UpdatesOf(p, f)
<1> DEFINE g == Append(f, e)
<1>1. /\ g \in Seq(Event) /\ Len(g) = Len(f) + 1 /\ Len(f) \in Nat /\ g[Len(f) + 1] = e
      /\ \A i \in 1 .. Len(f) : g[i] = f[i]
  OBVIOUS
<1> HIDE DEF g
<1>2. ASSUME Concerns(e, p) PROVE Final(p, g, v) = e.value
  <2>1. Len(f) + 1 \in UpdatesOf(p, g) /\ \A j \in UpdatesOf(p, g) : j <= Len(f) + 1
    BY <1>1, <1>2 DEF UpdatesOf, Concerns
  <2>2. QED  BY <1>1, <2>1, FinalFromLast
<1>3. ASSUME ~Concerns(e, p)
      PROVE  Final(p, g, v) = Final(p, f, v) /\ UpdatesOf(p, g) = UpdatesOf(p, f)
  <2>1. UpdatesOf(p, g) = UpdatesOf(p, f)
    BY <1>1, <1>3 DEF UpdatesOf, Concerns
  <2>2. CASE UpdatesOf(p, f) = {}
    BY <2>1, <2>2, FinalStays
  <2>3. CASE UpdatesOf(p, f) # {}
    <3>1. PICK i \in UpdatesOf(p, f) : /\ \A j \in UpdatesOf(p, f) : j <= i
                                       /\ Final(p, f, v) = f[i].value
      BY <2>3, FinalIsUpdate
    <3>2. Final(p, g, v) = g[i].value
      BY <1>1, <2>1, <3>1, FinalFromLast
    <3>3. QED  BY <1>1, <2>1, <3>1, <3>2 DEF UpdatesOf
  <2>4. QED  BY <2>1, <2>2, <2>3
<1>4. QED  BY <1>2, <1>3 DEF g

(* Draining: applying the oldest event to the copy and taking it out of the  *)
(* ring does not change what the copy becomes.                               *)
LEMMA FinalDrain ==
  ASSUME NEW p \in Param, NEW f \in Seq(Event), f # <<>>, NEW v, NEW w,
         w = IF Concerns(Head(f), p) THEN Head(f).value ELSE v
  PROVE  Final(p, Tail(f), w) = Final(p, f, v)
<1> DEFINE g == Tail(f)
<1>1. /\ g \in Seq(Event) /\ Len(f) \in Nat \ {0} /\ Len(g) = Len(f) - 1 /\ Head(f) = f[1]
      /\ \A i \in 1 .. Len(f) - 1 : g[i] = f[i + 1]
  OBVIOUS
<1> HIDE DEF g
<1>2. \A i \in Nat : i \in UpdatesOf(p, g) <=> i # 0 /\ i + 1 \in UpdatesOf(p, f)
  BY <1>1 DEF UpdatesOf
<1>3. CASE UpdatesOf(p, g) = {}
  <2>1. Final(p, g, w) = w
    BY <1>3, FinalStays
  <2>2. \A j \in UpdatesOf(p, f) : j = 1
    <3> TAKE j \in UpdatesOf(p, f)
    <3>1. j \in Nat \ {0} /\ j - 1 \in Nat /\ (j - 1) + 1 = j
      BY <1>1 DEF UpdatesOf
    <3>2. j - 1 # 0 => j - 1 \in UpdatesOf(p, g)
      BY <1>2, <3>1
    <3>3. QED  BY <1>3, <3>1, <3>2
  <2>3. 1 \in UpdatesOf(p, f) <=> Concerns(Head(f), p)
    BY <1>1 DEF UpdatesOf, Concerns
  <2>4. CASE Concerns(Head(f), p)
    <3>1. Final(p, f, v) = f[1].value
      BY <2>2, <2>3, <2>4, FinalFromLast
    <3>2. QED  BY <1>1, <2>1, <2>4, <3>1 DEF g
  <2>5. CASE ~Concerns(Head(f), p)
    <3>1. UpdatesOf(p, f) = {}
      BY <2>2, <2>3, <2>5
    <3>2. QED  BY <2>1, <2>5, <3>1, FinalStays DEF g
  <2>6. QED  BY <2>4, <2>5
<1>4. CASE UpdatesOf(p, g) # {}
  <2>1. PICK i \in UpdatesOf(p, g) : /\ \A j \in UpdatesOf(p, g) : j <= i
                                     /\ Final(p, g, w) = g[i].value
    BY <1>1, <1>4, FinalIsUpdate
  <2>2. i \in 1 .. Len(f) - 1 /\ i + 1 \in UpdatesOf(p, f) /\ g[i] = f[i + 1]
    BY <1>1, <1>2 DEF UpdatesOf
  <2>3. \A j \in UpdatesOf(p, f) : j <= i + 1
    <3> TAKE j \in UpdatesOf(p, f)
    <3>1. j \in Nat \ {0} /\ j - 1 \in Nat /\ (j - 1) + 1 = j
      BY <1>1 DEF UpdatesOf
    <3>2. CASE j = 1
      BY <2>2, <3>2
    <3>3. CASE j # 1
      <4>1. j - 1 \in UpdatesOf(p, g)
        BY <1>2, <3>1, <3>3
      <4>2. QED  BY <2>1, <2>2, <3>1, <4>1
    <3>4. QED  BY <3>2, <3>3
  <2>4. Final(p, f, v) = f[i + 1].value
    BY <2>2, <2>3, FinalFromLast
  <2>5. QED  BY <2>1, <2>2, <2>4 DEF g
<1>5. QED  BY <1>3, <1>4
-----------------------------------------------------------------------------
(* Types.                                                                    *)
TInv == storesGui \in BOOLEAN /\ TypeOK

LEMMA EventType ==
  /\ \A p \in Param : Begin(p) \in Event /\ End(p) \in Event
  /\ \A p \in Param : \A v \in Value : Update(p, v) \in Event
  BY DEF Event, Begin, End, Update, Value

LEMMA FirstParam == 0 \in Param /\ NumParams \in Nat \ {0} /\ Capacity \in Nat \ {0}
  BY ParamAssumption DEF Param

LEMMA ClampInRange ==
  ASSUME NEW p \in Param, NEW v \in Value
  PROVE  /\ Clamp(p, v) \in Value
         /\ v = NaN => Clamp(p, v) = NaN
         /\ v # NaN => Clamp(p, v) \in Int /\ Clamp(p, v) \in ValueRange(p)
<1>1. MinValue[p] \in Int /\ MaxValue[p] \in Int /\ MinValue[p] < MaxValue[p]
  BY ParamAssumption
<1>2. CASE v = NaN
  BY <1>2 DEF Clamp
<1>3. CASE v # NaN
  BY <1>1, <1>3 DEF Clamp, ValueRange, Value
<1>4. QED  BY <1>2, <1>3

(* A send puts the event behind the others, or sets void.                    *)
LEMMA MainSends ==
  ASSUME TypeOK, NEW e \in Event, SendParamEventFromMain(e)
  PROVE  /\ toAudio' \in Seq(Event) /\ Len(toAudio') <= Capacity /\ Len(toAudio) <= Len(toAudio')
         /\ toMain' = toMain /\ sends' \in Nat /\ void' \in BOOLEAN
         /\ toAudio' \in {toAudio, Append(toAudio, e)} /\ (~void' => toAudio' = Append(toAudio, e))
<1>1. toAudio \in Seq(Event) /\ Len(toAudio) \in Nat /\ Len(toAudio) <= Capacity /\ sends \in Nat
      /\ void \in BOOLEAN /\ Capacity \in Nat
  BY FirstParam DEF TypeOK
<1>2. CASE Len(toAudio) < Capacity
  <2>1. toAudio' = Append(toAudio, e) /\ void' = void /\ toMain' = toMain /\ sends' = sends + 1
    BY <1>2 DEF SendParamEventFromMain
  <2>2. QED  BY <1>1, <1>2, <2>1
<1>3. CASE ~(Len(toAudio) < Capacity)
  <2>1. toAudio' = toAudio /\ void' = TRUE /\ toMain' = toMain /\ sends' = sends + 1
    BY <1>3 DEF SendParamEventFromMain
  <2>2. QED  BY <1>1, <2>1
<1>4. QED  BY <1>2, <1>3

LEMMA AudioSends ==
  ASSUME TypeOK, NEW e \in Event, SendParamEventFromAudio(e)
  PROVE  /\ toMain' \in Seq(Event) /\ Len(toMain') <= Capacity
         /\ toAudio' = toAudio /\ sends' = sends /\ void' \in BOOLEAN
         /\ ~void' => toMain' = Append(toMain, e)
<1>1. toMain \in Seq(Event) /\ Len(toMain) \in Nat /\ Len(toMain) <= Capacity
      /\ void \in BOOLEAN /\ Capacity \in Nat
  BY FirstParam DEF TypeOK
<1>2. CASE Len(toMain) < Capacity
  <2>1. toMain' = Append(toMain, e) /\ void' = void /\ toAudio' = toAudio /\ sends' = sends
    BY <1>2 DEF SendParamEventFromAudio
  <2>2. QED  BY <1>1, <1>2, <2>1
<1>3. CASE ~(Len(toMain) < Capacity)
  <2>1. toMain' = toMain /\ void' = TRUE /\ toAudio' = toAudio /\ sends' = sends
    BY <1>3 DEF SendParamEventFromAudio
  <2>2. QED  BY <1>1, <2>1
<1>4. QED  BY <1>2, <1>3

LEMMA InitTypes == Init => TInv
<1> SUFFICES ASSUME Init PROVE TInv
  OBVIOUS
<1>1. <<>> \in Seq(Event) /\ Len(<<>>) = 0
  OBVIOUS
<1>2. storesGui \in BOOLEAN /\ synced \in [Param -> BOOLEAN]
  <2>1. storesGui \in BOOLEAN
    BY ParamAssumption DEF Init
  <2>2. synced = [p \in Param |-> InitAudio[p] = 0]
    BY DEF Init
  <2>3. \A p \in Param : (InitAudio[p] = 0) \in BOOLEAN
    OBVIOUS
  <2>4. [p \in Param |-> InitAudio[p] = 0] \in [Param -> BOOLEAN]
    BY <2>3, Zenon
  <2>5. QED  BY <2>1, <2>2, <2>4
<1>3. main \in [Param -> Value] /\ given \in [Param -> SUBSET Value]
  BY DEF Init, Value
<1>4. /\ {audio, preset, vals, hostVal} \subseteq [Param -> Value]
      /\ hostDepth \in Int /\ dragStart \in Int
      /\ abandoned \in Nat /\ sends \in Nat /\ hostSets \in Nat /\ opens \in Nat
  BY ParamAssumption DEF Init, Value
<1>5. /\ toAudio \in Seq(Event) /\ toMain \in Seq(Event)
      /\ Len(toAudio) <= Capacity /\ Len(toMain) <= Capacity /\ aleft \in 0 .. Len(toAudio)
      /\ mpc = "idle" /\ mi \in 0 .. NumParams /\ apc = "idle"
  BY <1>1, FirstParam DEF Init
<1>6. /\ guiOpen \in BOOLEAN /\ guiPtr \in BOOLEAN /\ dragging \in BOOLEAN /\ void \in BOOLEAN
  BY Zenon DEF Init
<1>7. QED  BY <1>2, <1>3, <1>4, <1>5, <1>6 DEF TInv, TypeOK

LEMMA TypeStep == TInv /\ [Next]_vars => TInv'
<1> SUFFICES ASSUME TInv, [Next]_vars PROVE TInv'
  OBVIOUS
<1> USE DEF rings, gui, load, proc, host
<1>1. CASE UNCHANGED vars
  BY <1>1 DEF TInv, TypeOK, vars
<1>2. CASE ~void /\ (MainStep \/ AudioStep) /\ storesGui' = storesGui
  <2>0. storesGui' \in BOOLEAN /\ TypeOK
    BY <1>2 DEF TInv
  <2>1. CASE CreateGUI
    <3>1. guiOpen' \in BOOLEAN /\ guiPtr' \in BOOLEAN /\ dragging' \in BOOLEAN
      BY <2>1, Zenon DEF CreateGUI, TInv
    <3>2. opens' \in Nat /\ dragStart' \in Int
      BY <2>0, <2>1 DEF CreateGUI, TypeOK
    <3>3. UNCHANGED <<audio, main, rings, load, proc, host, synced, abandoned>>
      BY <2>1 DEF CreateGUI
    <3>4. QED  BY <2>0, <3>1, <3>2, <3>3 DEF TInv, TypeOK
  <2>2. CASE DestroyGUI
    <3>1. guiOpen' \in BOOLEAN /\ guiPtr' \in BOOLEAN /\ dragging' \in BOOLEAN
      BY <2>2, Zenon DEF DestroyGUI
    <3>2. abandoned' \in Nat /\ dragStart' \in Int
      BY <2>0, <2>2 DEF DestroyGUI, TypeOK
    <3>3. UNCHANGED <<audio, main, rings, opens, load, proc, host, synced>>
      BY <2>2 DEF DestroyGUI
    <3>4. QED  BY <2>0, <3>1, <3>2, <3>3 DEF TInv, TypeOK
  <2>3. CASE HandleMouseDown
    <3>1. Begin(0) \in Event /\ SendParamEventFromMain(Begin(0))
      BY <2>3, EventType, FirstParam DEF HandleMouseDown
    <3>2. audio[0] \in Value /\ audio[0] # NaN
      BY <2>0, <2>3, FirstParam DEF HandleMouseDown, TypeOK
    <3>3. dragStart' \in Int
      BY <2>3, <3>2, FirstParam, ClampInRange DEF HandleMouseDown
    <3>4. abandoned' \in Nat /\ dragging' = TRUE
      BY <2>0, <2>3 DEF HandleMouseDown, TypeOK
    <3>5. UNCHANGED <<audio, main, guiOpen, guiPtr, opens, load, proc, host, synced>>
      BY <2>3 DEF HandleMouseDown
    <3>6. QED  BY <2>0, <3>1, <3>3, <3>4, <3>5, MainSends DEF TInv, TypeOK
  <2>4. ASSUME NEW dy \in Delta, HandleMouseMove(dy) PROVE TInv'
    <3> DEFINE v == Clamp(0, dragStart + dy)
    <3>1. dragStart + dy \in Int
      BY <2>0, ParamAssumption DEF TypeOK
    <3>2. v \in Value /\ Update(0, v) \in Event
      BY <3>1, EventType, FirstParam, ClampInRange DEF Value
    <3>3. SendParamEventFromMain(Update(0, v)) /\ main' = [main EXCEPT ![0] = v]
      BY <2>4 DEF HandleMouseMove
    <3> HIDE DEF v
    <3>4. main' \in [Param -> Value]
      BY <2>0, <3>2, <3>3 DEF TypeOK
    <3>5. synced' \in [Param -> BOOLEAN]
      BY <2>0, <2>4 DEF HandleMouseMove, TypeOK
    <3>6. QED  BY <2>0, <2>4, <3>2, <3>3, <3>4, <3>5, MainSends DEF HandleMouseMove, TInv, TypeOK
  <2>5. CASE HandleMouseUp
    <3>1. End(0) \in Event /\ SendParamEventFromMain(End(0))
      BY <2>5, EventType, FirstParam DEF HandleMouseUp
    <3>2. /\ toAudio' \in Seq(Event) /\ Len(toAudio') <= Capacity /\ Len(toAudio) <= Len(toAudio')
          /\ toMain' = toMain /\ sends' \in Nat /\ void' \in BOOLEAN
      BY <2>0, <3>1, MainSends
    <3>3. aleft' \in 0 .. Len(toAudio')
      BY <2>0, <2>5, <3>2 DEF HandleMouseUp, TypeOK
    <3>4. QED  BY <2>0, <2>5, <3>2, <3>3 DEF HandleMouseUp, TInv, TypeOK
  <2>6. CASE TickGUI
    <3>1. \A p \in Param : Final(p, toMain, main[p]) \in Value
      BY <2>0, FinalType DEF TypeOK
    <3>2. main' \in [Param -> Value]
      BY <2>6, <3>1 DEF TickGUI
    <3>3. toMain' \in Seq(Event) /\ Len(toMain') <= Capacity
      BY <2>6, FirstParam DEF TickGUI
    <3>4. QED  BY <2>0, <2>6, <3>2, <3>3 DEF TickGUI, TInv, TypeOK
  <2>7. ASSUME NEW v \in {preset} \cup Presets, LoadStateBegin(v) PROVE TInv'
    <3>1. vals' \in [Param -> Value]
      BY <2>0, <2>7, ParamAssumption DEF LoadStateBegin, TypeOK
    <3>2. UNCHANGED <<audio, main, rings, gui, preset, given, proc, host, synced, abandoned>>
          /\ mpc' = "write" /\ mi' = 0
      BY <2>7 DEF LoadStateBegin
    <3>3. QED  BY <2>0, <3>1, <3>2, FirstParam DEF TInv, TypeOK
  <2>8. CASE LoadStateWrite
    <3>1. mi \in Param /\ vals[mi] \in Value
      BY <2>0, <2>8 DEF LoadStateWrite, TypeOK
    <3>2. audio' \in [Param -> Value] /\ main' \in [Param -> Value]
      BY <2>0, <2>8, <3>1 DEF LoadStateWrite, TypeOK
    <3>3. given' \in [Param -> SUBSET Value]
      BY <2>0, <2>8, <3>1 DEF LoadStateWrite, TypeOK
    <3>4. mpc' = "send" /\ UNCHANGED <<rings, gui, mi, preset, vals, proc, host, synced, abandoned>>
      BY <2>8 DEF LoadStateWrite
    <3>5. QED  BY <2>0, <3>1, <3>2, <3>3, <3>4 DEF TInv, TypeOK
  <2>9. CASE LoadStateSend
    <3>1. mi \in Param /\ vals[mi] \in Value
      BY <2>0, <2>9 DEF LoadStateSend, TypeOK
    <3>2. Update(mi, vals[mi]) \in Event /\ SendParamEventFromMain(Update(mi, vals[mi]))
      BY <2>9, <3>1, EventType DEF LoadStateSend
    <3>3. mi' \in 0 .. NumParams /\ (mpc' # "idle" => mi' \in Param)
          /\ mpc' \in {"idle", "write", "send", "save"}
      BY <2>9, <3>1, FirstParam DEF LoadStateSend, Param
    <3>4. synced' \in [Param -> BOOLEAN]
      BY <2>0, <2>9 DEF LoadStateSend, TypeOK
    <3>5. vals' \in [Param -> Value]
      BY <2>0, <2>9, ParamAssumption DEF LoadStateSend, TypeOK, Value
    <3>6. UNCHANGED <<audio, main, gui, preset, given, proc, host, abandoned>>
      BY <2>9 DEF LoadStateSend
    <3>7. QED  BY <2>0, <3>2, <3>3, <3>4, <3>5, <3>6, MainSends DEF TInv, TypeOK
  <2>10. CASE SaveStateBegin
    BY <2>0, <2>10, FirstParam DEF SaveStateBegin, TInv, TypeOK
  <2>11. CASE SaveStateParam
    <3>1. mi \in Param /\ audio[mi] \in Value
      BY <2>0, <2>11 DEF SaveStateParam, TypeOK
    <3>2. mi' \in 0 .. NumParams /\ (mpc' # "idle" => mi' \in Param)
          /\ mpc' \in {"idle", "write", "send", "save"}
      BY <2>11, <3>1, FirstParam DEF SaveStateParam, Param
    <3>3. QED  BY <2>0, <2>11, <3>1, <3>2 DEF SaveStateParam, TInv, TypeOK
  <2>12. CASE ProcessBegin
    <3>1. Len(toAudio) \in 0 .. Len(toAudio)
      BY <2>0 DEF TypeOK
    <3>2. QED  BY <2>0, <2>12, <3>1 DEF ProcessBegin, TInv, TypeOK
  <2>13. CASE DrainEvent
    <3>1. toAudio \in Seq(Event) /\ toAudio # <<>> /\ Head(toAudio) \in Event
          /\ Tail(toAudio) \in Seq(Event) /\ Len(Tail(toAudio)) = Len(toAudio) - 1
          /\ Len(toAudio) \in Nat
      BY <2>0, <2>13 DEF DrainEvent, TypeOK
    <3>2. aleft' \in 0 .. Len(toAudio') /\ Len(toAudio') <= Capacity
      <4>1. aleft \in 0 .. Len(toAudio) /\ aleft > 0 /\ Len(toAudio) <= Capacity /\ Capacity \in Nat
            /\ toAudio' = Tail(toAudio) /\ aleft' = aleft - 1
        BY <2>0, <2>13, FirstParam DEF DrainEvent, TypeOK
      <4>2. Len(toAudio') = Len(toAudio) - 1
        BY <3>1, <4>1
      <4>3. QED  BY <3>1, <4>1, <4>2
    <3>3. Head(toAudio).value \in Value /\ Head(toAudio).id \in Param
          /\ Head(toAudio).type \in {"BEGIN", "UPDATE", "END"}
      BY <3>1 DEF Event
    <3>4. audio' \in [Param -> Value] /\ hostVal' \in [Param -> Value]
      BY <2>0, <2>13, <3>3 DEF DrainEvent, TypeOK
    <3>5. hostDepth' \in Int
      BY <2>0, <2>13 DEF DrainEvent, TypeOK
    <3>6. QED  BY <2>0, <2>13, <3>1, <3>2, <3>4, <3>5 DEF DrainEvent, TInv, TypeOK
  <2>14. CASE DrainEnd
    BY <2>0, <2>14 DEF DrainEnd, TInv, TypeOK
  <2>15. ASSUME NEW p \in Param, NEW v \in HostValue, SetParameterValue(p, v) PROVE TInv'
    <3>1. v \in Value
      BY ParamAssumption
    <3>2. Clamp(p, v) \in Value /\ Update(p, Clamp(p, v)) \in Event
      BY <3>1, EventType, ClampInRange
    <3>3. audio' \in [Param -> Value] /\ hostVal' \in [Param -> Value]
      BY <2>0, <2>15, <3>1, <3>2 DEF SetParameterValue, TypeOK
    <3>4. synced' \in [Param -> BOOLEAN]
      BY <2>0, <2>15 DEF SetParameterValue, TypeOK
    <3>5. /\ toMain' \in Seq(Event) /\ Len(toMain') <= Capacity
          /\ toAudio' = toAudio /\ sends' = sends /\ void' \in BOOLEAN
      <4>1. CASE guiPtr
        BY <2>0, <2>15, <3>2, <4>1, AudioSends DEF SetParameterValue
      <4>2. CASE ~guiPtr
        BY <2>0, <2>15, <4>2 DEF SetParameterValue, TypeOK
      <4>3. QED  BY <4>1, <4>2
    <3>6. given' \in [Param -> SUBSET Value]
      <4>1. {v} \cap {NaN} \in SUBSET Value
        BY <3>1
      <4>2. QED  BY <2>0, <2>15, <4>1 DEF SetParameterValue, TypeOK
    <3>7. hostSets' \in Nat /\ UNCHANGED <<main, gui, mpc, mi, preset, vals, proc, hostDepth, abandoned>>
      BY <2>0, <2>15 DEF SetParameterValue, TypeOK
    <3>8. QED  BY <2>0, <3>3, <3>4, <3>5, <3>6, <3>7 DEF TInv, TypeOK
  <2>16. CASE ProcessEnd
    BY <2>0, <2>16 DEF ProcessEnd, TInv, TypeOK
  <2>17. CASE NormaliseFails
    <3>1. void' \in BOOLEAN
      BY <2>17, Zenon DEF NormaliseFails
    <3>2. UNCHANGED <<audio, main, toAudio, toMain, sends, gui, load, proc, host, synced, abandoned>>
      BY <2>17 DEF NormaliseFails
    <3>3. QED  BY <2>0, <3>1, <3>2 DEF TInv, TypeOK
  <2>18. QED
    BY <1>2, <2>1, <2>2, <2>3, <2>4, <2>5, <2>6, <2>7, <2>8, <2>9, <2>10, <2>11, <2>12,
       <2>13, <2>14, <2>15, <2>16, <2>17 DEF MainStep, AudioStep, ProcessStep
<1>3. QED  BY <1>1, <1>2 DEF Next

(* Every variable keeps its type, and the rings their capacity.              *)
THEOREM TypeCorrect == Spec => []TypeOK
<1>1. TInv => TypeOK
  BY DEF TInv
<1>2. QED  BY <1>1, InitTypes, TypeStep, PTL DEF Spec
-----------------------------------------------------------------------------
(* Ranges and agreement. What is on the way to the audio thread is in range  *)
(* or was brought by a preset: the drain need not clamp. While loadState is  *)
(* between its store and its send, the main copy holds the preset's value.   *)
InFlightAllowed ==
  \A i \in 1 .. Len(toAudio) :
    toAudio[i].type = "UPDATE" => toAudio[i].value \in Allowed(toAudio[i].id)
LoadShown == mpc = "send" => main[mi] = vals[mi] /\ vals[mi] \in Allowed(mi)
IInv == TInv /\ AudioInRange /\ InFlightAllowed /\ LoadShown /\ Agreement /\ HostAgreement

(* The sends put no other value on the way.                                  *)
LEMMA SendAllowed ==
  ASSUME TypeOK, InFlightAllowed, NEW e \in Event, SendParamEventFromMain(e), given' = given,
         e.type = "UPDATE" => e.value \in Allowed(e.id)
  PROVE  InFlightAllowed'
<1>1. toAudio \in Seq(Event) /\ toAudio' \in {toAudio, Append(toAudio, e)}
  BY MainSends DEF TypeOK
<1>2. CASE toAudio' = toAudio
  BY <1>2 DEF InFlightAllowed, Allowed
<1>3. CASE toAudio' = Append(toAudio, e)
  <2>1. /\ Len(toAudio') = Len(toAudio) + 1 /\ toAudio'[Len(toAudio) + 1] = e /\ Len(toAudio) \in Nat
        /\ \A i \in 1 .. Len(toAudio) : toAudio'[i] = toAudio[i]
    BY <1>1, <1>3
  <2>2. QED  BY <2>1 DEF InFlightAllowed, Allowed
<1>4. QED  BY <1>1, <1>2, <1>3

LEMMA InFlightParam ==
  ASSUME NEW f \in Seq(Event) PROVE \A i \in 1 .. Len(f) : f[i].id \in Param
<1>1. \A i \in 1 .. Len(f) : f[i] \in Event
  OBVIOUS
<1>2. \A e \in Event : e.id \in Param
  BY DEF Event
<1>3. QED  BY <1>1, <1>2

(* Where no more is given, what is in range or given stays so; and more may  *)
(* be given for some parameters.                                             *)
LEMMA MoreAllowed ==
  ASSUME \A p \in Param : given[p] \subseteq given'[p]
  PROVE  \A p \in Param : \A v : v \in Allowed(p) => v \in Allowed(p)'
  BY DEF Allowed

LEMMA InitIInv == Init => IInv
<1> SUFFICES ASSUME Init PROVE IInv
  OBVIOUS
<1>1. TInv
  BY InitTypes
<1>2. AudioInRange
  BY ParamAssumption DEF Init, AudioInRange, Allowed
<1>3. Len(toAudio) = 0 /\ Len(toMain) = 0 /\ mpc = "idle"
  BY DEF Init
<1>4. InFlightAllowed /\ LoadShown
  BY <1>3 DEF InFlightAllowed, LoadShown
<1>5. \A p : UpdatesOf(p, toAudio) = {} /\ UpdatesOf(p, toMain) = {}
  BY <1>3 DEF UpdatesOf
<1>6. \A p, v : Final(p, toAudio, v) = v /\ Final(p, toMain, v) = v
  BY <1>5, FinalStays
<1>7. Agreement
  BY <1>6 DEF Init, Agreement
<1>8. HostAgreement
  BY <1>6 DEF Init, HostAgreement
<1>9. QED  BY <1>1, <1>2, <1>4, <1>7, <1>8 DEF IInv

(* One parameter's part of Agreement and of HostAgreement.                   *)
Synced(p) == synced[p] /\ ~void /\ ~Loading(p) =>
               Final(p, toAudio, audio[p]) = Final(p, toMain, main[p])
HostKnows(p) == ~void /\ ~Loading(p) =>
                  Final(p, toAudio, audio[p])
                    \in {Final(p, toAudio, hostVal[p]), Clamp(p, Final(p, toAudio, hostVal[p]))}

(* A step that leaves the values, what is in flight of a parameter and       *)
(* loadState as they are.                                                    *)
LEMMA Untouched ==
  ASSUME NEW p \in Param, ~void, Synced(p), HostKnows(p),
         UNCHANGED <<audio[p], main[p], hostVal[p], synced[p]>>,
         ~void' => /\ \A v : Final(p, toAudio', v) = Final(p, toAudio, v)
                   /\ \A v : Final(p, toMain', v) = Final(p, toMain, v),
         Loading(p) => Loading(p)'
  PROVE  Synced(p)' /\ HostKnows(p)'
<1> SUFFICES ASSUME ~void', ~Loading(p)' PROVE Synced(p)' /\ HostKnows(p)'
  BY DEF Synced, HostKnows
<1>1. /\ Final(p, toAudio', audio'[p]) = Final(p, toAudio, audio[p])
      /\ Final(p, toMain', main'[p]) = Final(p, toMain, main[p])
      /\ Final(p, toAudio', hostVal'[p]) = Final(p, toAudio, hostVal[p])
  OBVIOUS
<1>2. Synced(p)'
  BY <1>1, Zenon DEF Synced
<1>3. HostKnows(p)'
  BY <1>1, Zenon DEF HostKnows
<1>4. QED  BY <1>2, <1>3

(* What is shown of an action for every parameter.                           *)
Kept == AudioInRange /\ InFlightAllowed /\ LoadShown /\ \A p \in Param : Synced(p) /\ HostKnows(p)

LEMMA IInvIsKept == IInv <=> TInv /\ Kept
  BY DEF IInv, Kept, Agreement, HostAgreement, Synced, HostKnows

(* Steps of GUI and host that touch no value.                                *)
LEMMA QuietStep ==
  ASSUME IInv, ~void,
         UNCHANGED <<audio, main, preset, given, toAudio, toMain, hostVal, synced>>,
         \/ mpc' = mpc /\ mi' = mi /\ vals' = vals
         \/ mpc # "send" /\ mpc' # "send"
  PROVE  Kept'
<1>1. AudioInRange' /\ InFlightAllowed'
  BY DEF IInv, AudioInRange, InFlightAllowed, Allowed
<1>2. LoadShown'
  BY DEF IInv, LoadShown, Allowed
<1>3. ASSUME NEW p \in Param PROVE Synced(p)' /\ HostKnows(p)'
  <2>1. Loading(p) => Loading(p)'
    BY DEF Loading
  <2>2. Synced(p) /\ HostKnows(p)
    BY IInvIsKept DEF Kept
  <2>3. QED  BY <2>1, <2>2, Untouched
<1>4. QED  BY <1>1, <1>2, <1>3 DEF Kept

(* BEGIN and END.                                                            *)
LEMMA GestureStep ==
  ASSUME IInv, ~void, NEW e \in Event, e.type # "UPDATE", SendParamEventFromMain(e), mpc = "idle",
         UNCHANGED <<audio, main, preset, given, hostVal, synced, mpc, mi>>
  PROVE  Kept'
<1>0. TypeOK /\ InFlightAllowed
  BY DEF IInv, TInv
<1>1. AudioInRange' /\ InFlightAllowed'
  BY <1>0, SendAllowed DEF IInv, AudioInRange, Allowed
<1>2. LoadShown'
  BY DEF LoadShown
<1>3. ASSUME NEW p \in Param PROVE Synced(p)' /\ HostKnows(p)'
  <2>1. Loading(p) => Loading(p)'
    BY DEF Loading
  <2>2. Synced(p) /\ HostKnows(p)
    BY IInvIsKept DEF Kept
  <2>3. toAudio \in Seq(Event) /\ toMain' = toMain /\ (~void' => toAudio' = Append(toAudio, e))
    BY <1>0, MainSends DEF TypeOK
  <2>4. ~Concerns(e, p)
    BY DEF Concerns
  <2>5. ~void' => \A v : Final(p, toAudio', v) = Final(p, toAudio, v)
    BY <2>3, <2>4, FinalAppend
  <2>6. QED  BY <2>1, <2>2, <2>3, <2>5, Untouched
<1>4. QED  BY <1>1, <1>2, <1>3 DEF Kept

(* A value sent by the main thread, which shows it: MouseMove, and           *)
(* loadState's send.                                                         *)
LEMMA UpdateStep ==
  ASSUME IInv, ~void, NEW q \in Param, NEW x \in Value, x \in Allowed(q),
         SendParamEventFromMain(Update(q, x)),
         main' = [main EXCEPT ![q] = x], synced' = [synced EXCEPT ![q] = UpdatesOf(q, toMain) = {}],
         UNCHANGED <<audio, preset, given, hostVal>>,
         mpc' # "send", \A p \in Param : Loading(p) => p = q
  PROVE  Kept'
<1> DEFINE e == Update(q, x)
<1>0. TypeOK /\ InFlightAllowed /\ e \in Event /\ (e.type = "UPDATE" => e.value \in Allowed(e.id))
  BY EventType DEF IInv, TInv, Update
<1>1. AudioInRange' /\ InFlightAllowed'
  BY <1>0, SendAllowed DEF IInv, AudioInRange, Allowed
<1>2. LoadShown'
  BY DEF LoadShown
<1>3. /\ toAudio \in Seq(Event) /\ toMain' = toMain /\ (~void' => toAudio' = Append(toAudio, e))
      /\ main \in [Param -> Value] /\ synced \in [Param -> BOOLEAN] /\ e.value = x
      /\ \A p \in Param : Concerns(e, p) <=> p = q
  BY <1>0, MainSends DEF TypeOK, Concerns, Update
<1> HIDE DEF e
<1>4. ASSUME NEW p \in Param, p # q PROVE Synced(p)' /\ HostKnows(p)'
  <2>1. ~Loading(p) /\ ~Concerns(e, p) /\ main'[p] = main[p] /\ synced'[p] = synced[p]
    BY <1>3, <1>4
  <2>2. Synced(p) /\ HostKnows(p)
    BY IInvIsKept DEF Kept
  <2>3. ~void' => \A v : Final(p, toAudio', v) = Final(p, toAudio, v)
    <3>1. \A v : Final(p, Append(toAudio, e), v) = Final(p, toAudio, v)
      BY <1>0, <1>3, <2>1, FinalAppend, Zenon
    <3>2. QED  BY <1>3, <3>1, Zenon
  <2>4. QED  BY <1>3, <2>1, <2>2, <2>3, Untouched
<1>5. Synced(q)' /\ HostKnows(q)'
  <2> SUFFICES ASSUME ~void' PROVE Synced(q)' /\ HostKnows(q)'
    BY DEF Synced, HostKnows
  <2>1. \A v : Final(q, toAudio', v) = x
    <3>1. \A v : Final(q, Append(toAudio, e), v) = e.value
      BY <1>0, <1>3, FinalAppend, Zenon
    <3>2. QED  BY <1>3, <3>1, Zenon
  <2>2. main'[q] = x /\ (synced'[q] <=> UpdatesOf(q, toMain) = {})
    BY <1>3
  <2>3. synced'[q] => Final(q, toMain', main'[q]) = x
    BY <1>3, <2>2, FinalStays
  <2>4. QED  BY <2>1, <2>3 DEF Synced, HostKnows
<1>6. QED  BY <1>1, <1>2, <1>4, <1>5 DEF Kept

LEMMA TickStep == ASSUME IInv, ~void, TickGUI PROVE Kept'
<1> USE DEF load, proc, host
<1>1. AudioInRange' /\ InFlightAllowed' /\ LoadShown'
  BY DEF TickGUI, IInv, AudioInRange, InFlightAllowed, LoadShown, Allowed
<1>2. ASSUME NEW p \in Param PROVE Synced(p)' /\ HostKnows(p)'
  <2>1. /\ audio' = audio /\ toAudio' = toAudio /\ hostVal' = hostVal /\ synced' = synced
        /\ void' = void /\ mpc' = mpc /\ mi' = mi
        /\ main'[p] = Final(p, toMain, main[p]) /\ toMain' = <<>>
    BY DEF TickGUI
  <2>2. UpdatesOf(p, <<>>) = {}
    BY DEF UpdatesOf
  <2>3. Final(p, toMain', main'[p]) = Final(p, toMain, main[p])
    BY <2>1, <2>2, FinalStays
  <2>4. Synced(p) /\ HostKnows(p)
    BY IInvIsKept DEF Kept
  <2>5. QED  BY <2>1, <2>3, <2>4 DEF Synced, HostKnows, Loading
<1>3. QED  BY <1>1, <1>2 DEF Kept

LEMMA WriteStep == ASSUME IInv, ~void, LoadStateWrite PROVE Kept'
<1> USE DEF rings, load, proc, host
<1>0. TypeOK /\ mi \in Param /\ mi' = mi
  BY DEF IInv, TInv, TypeOK, LoadStateWrite
<1>1. /\ audio' = [audio EXCEPT ![mi] = vals[mi]] /\ main' = [main EXCEPT ![mi] = vals[mi]]
      /\ given' = [given EXCEPT ![mi] = @ \cup ({vals[mi]} \ ValueRange(mi))]
      /\ UNCHANGED <<toAudio, toMain, void, hostVal, synced, preset, vals>>
      /\ mpc = "write" /\ mpc' = "send"
  BY DEF LoadStateWrite
<1>2. /\ audio \in [Param -> Value] /\ main \in [Param -> Value] /\ given \in [Param -> SUBSET Value]
      /\ toAudio \in Seq(Event)
  BY <1>0 DEF TypeOK
<1>3. /\ \A p \in Param : \A v : v \in Allowed(p) => v \in Allowed(p)'
      /\ vals[mi] \in Allowed(mi)'
  <2>1. \A p \in Param : given[p] \subseteq given'[p]
    BY <1>0, <1>1, <1>2
  <2>2. given'[mi] = given[mi] \cup ({vals[mi]} \ ValueRange(mi))
    BY <1>0, <1>1, <1>2
  <2>3. \A p \in Param : \A v : v \in Allowed(p) => v \in Allowed(p)'
    BY <2>1, MoreAllowed
  <2>4. vals[mi] \in Allowed(mi)'
    BY <1>0, <1>1, <2>2 DEF Allowed
  <2>5. QED  BY <2>3, <2>4
<1>4. AudioInRange' /\ InFlightAllowed'
  <2>1. AudioInRange'
    BY <1>0, <1>1, <1>2, <1>3 DEF IInv, AudioInRange
  <2>2. \A i \in 1 .. Len(toAudio) : toAudio[i].id \in Param
    BY <1>2, InFlightParam
  <2>3. QED  BY <1>1, <1>3, <2>1, <2>2 DEF IInv, InFlightAllowed
<1>5. LoadShown'
  BY <1>0, <1>1, <1>2, <1>3 DEF LoadShown
<1>6. ASSUME NEW p \in Param PROVE Synced(p)' /\ HostKnows(p)'
  <2>1. CASE p = mi
    BY <1>0, <1>1, <2>1 DEF Synced, HostKnows, Loading
  <2>2. CASE p # mi
    <3>1. audio'[p] = audio[p] /\ main'[p] = main[p] /\ (Loading(p) => Loading(p)')
      BY <1>1, <1>2, <2>2 DEF Loading
    <3>2. Synced(p) /\ HostKnows(p)
      BY IInvIsKept DEF Kept
    <3>3. QED  BY <1>1, <3>1, <3>2, Untouched
  <2>3. QED  BY <2>1, <2>2
<1>7. QED  BY <1>4, <1>5, <1>6 DEF Kept

LEMMA DrainStep == ASSUME IInv, ~void, DrainEvent PROVE Kept'
<1> USE DEF load
<1> DEFINE e == Head(toAudio)
<1>0. /\ TypeOK /\ toAudio \in Seq(Event) /\ toAudio # <<>> /\ Len(toAudio) \in Nat \ {0}
      /\ e = toAudio[1] /\ e \in Event
  <2>1. TypeOK /\ toAudio \in Seq(Event) /\ aleft \in 0 .. Len(toAudio) /\ aleft > 0
    BY DEF IInv, TInv, TypeOK, DrainEvent
  <2>2. Len(toAudio) \in Nat \ {0}
    BY <2>1
  <2>3. QED  BY <2>1, <2>2
<1>1. /\ audio' = IF e.type = "UPDATE" THEN [audio EXCEPT ![e.id] = e.value] ELSE audio
      /\ hostVal' = IF e.type = "UPDATE" THEN [hostVal EXCEPT ![e.id] = e.value] ELSE hostVal
      /\ toAudio' = Tail(toAudio)
      /\ UNCHANGED <<main, toMain, void, mpc, mi, preset, vals, given, synced>>
  BY DEF DrainEvent
<1>2. audio \in [Param -> Value] /\ hostVal \in [Param -> Value] /\ e.id \in Param
  BY <1>0 DEF TypeOK, Event
<1>3. e.type = "UPDATE" => e.value \in Allowed(e.id)
  BY <1>0 DEF IInv, InFlightAllowed
<1> HIDE DEF e
<1>4. AudioInRange'
  BY <1>1, <1>2, <1>3 DEF IInv, AudioInRange, Allowed
<1>5. InFlightAllowed'
  <2>1. /\ Len(Tail(toAudio)) = Len(toAudio) - 1
        /\ \A i \in 1 .. Len(toAudio) - 1 : Tail(toAudio)[i] = toAudio[i + 1]
    BY <1>0
  <2>2. QED  BY <1>0, <1>1, <2>1 DEF IInv, InFlightAllowed, Allowed
<1>6. LoadShown'
  BY <1>1 DEF IInv, LoadShown, Allowed
<1>7. ASSUME NEW p \in Param PROVE Synced(p)' /\ HostKnows(p)'
  <2>1. /\ audio'[p] = IF Concerns(Head(toAudio), p) THEN Head(toAudio).value ELSE audio[p]
        /\ hostVal'[p] = IF Concerns(Head(toAudio), p) THEN Head(toAudio).value ELSE hostVal[p]
    BY <1>1, <1>2 DEF Concerns, e
  <2>2. /\ Final(p, toAudio', audio'[p]) = Final(p, toAudio, audio[p])
        /\ Final(p, toAudio', hostVal'[p]) = Final(p, toAudio, hostVal[p])
    BY <1>0, <1>1, <2>1, FinalDrain
  <2>3. Synced(p) /\ HostKnows(p)
    BY IInvIsKept DEF Kept
  <2>4. QED  BY <1>1, <2>2, <2>3 DEF Synced, HostKnows, Loading
<1>8. QED  BY <1>4, <1>5, <1>6, <1>7 DEF Kept

LEMMA SaveStep == ASSUME IInv, ~void, SaveStateParam PROVE Kept'
<1> USE DEF rings, proc, host
<1>0. TypeOK /\ mi \in Param
  BY DEF IInv, TInv, TypeOK, SaveStateParam
<1>1. /\ preset' = [preset EXCEPT ![mi] = audio[mi]] /\ preset \in [Param -> Value]
      /\ UNCHANGED <<audio, main, given, toAudio, toMain, void, hostVal, synced>> /\ mpc = "save" /\ mpc' # "send"
  BY <1>0 DEF SaveStateParam, TypeOK
<1>2. AudioInRange' /\ InFlightAllowed' /\ LoadShown'
  BY <1>0, <1>1 DEF IInv, AudioInRange, InFlightAllowed, LoadShown, Allowed
<1>3. ASSUME NEW p \in Param PROVE Synced(p)' /\ HostKnows(p)'
  <2>1. Loading(p) => Loading(p)'
    BY <1>1 DEF Loading
  <2>2. Synced(p) /\ HostKnows(p)
    BY IInvIsKept DEF Kept
  <2>3. QED  BY <1>1, <2>1, <2>2, Untouched
<1>4. QED  BY <1>2, <1>3 DEF Kept

LEMMA SetStep ==
  ASSUME IInv, ~void, NEW q \in Param, NEW x \in HostValue, SetParameterValue(q, x)
  PROVE  Kept'
<1> USE DEF rings, load
<1> DEFINE c == Clamp(q, x)
           e == Update(q, c)
<1>0. TypeOK /\ InFlightAllowed
  BY DEF IInv, TInv
<1>1. x \in Value /\ c \in Value /\ e \in Event
  <2>1. x \in Value
    BY ParamAssumption
  <2>2. QED  BY <2>1, ClampInRange, EventType
<1>2. /\ audio' = [audio EXCEPT ![q] = c] /\ hostVal' = [hostVal EXCEPT ![q] = x]
      /\ synced' = [synced EXCEPT ![q] = guiPtr /\ UpdatesOf(q, toAudio) = {}]
      /\ given' = [given EXCEPT ![q] = @ \cup ({x} \cap {NaN})]
      /\ UNCHANGED <<main, mpc, mi, preset, vals>>
  BY DEF SetParameterValue
<1>3. /\ audio \in [Param -> Value] /\ hostVal \in [Param -> Value] /\ synced \in [Param -> BOOLEAN]
      /\ toAudio \in Seq(Event) /\ toMain \in Seq(Event) /\ given \in [Param -> SUBSET Value] /\ mi \in 0 .. NumParams
      /\ (mpc = "send" => mi \in Param)
  BY <1>0 DEF TypeOK
<1>4. /\ toAudio' = toAudio
      /\ guiPtr => (~void' => toMain' = Append(toMain, e))
      /\ ~guiPtr => toMain' = toMain
  <2>1. CASE guiPtr
    BY <1>0, <1>1, <2>1, AudioSends DEF SetParameterValue
  <2>2. CASE ~guiPtr
    BY <2>2 DEF SetParameterValue
  <2>3. QED  BY <2>1, <2>2
<1>5. e.value = c /\ \A p \in Param : Concerns(e, p) <=> p = q
  BY DEF Concerns, Update
<1>6. AudioInRange' /\ InFlightAllowed' /\ LoadShown'
  <2>1. \A p \in Param : given[p] \subseteq given'[p]
    BY <1>2, <1>3
  <2>2. \A p \in Param : \A v : v \in Allowed(p) => v \in Allowed(p)'
    BY <2>1, MoreAllowed
  <2>3. c \in Allowed(q)'
    <3>1. CASE x = NaN
      <4>1. c = NaN /\ x \in given'[q]
        BY <1>1, <1>2, <1>3, <3>1, ClampInRange
      <4>2. QED  BY <3>1, <4>1 DEF Allowed
    <3>2. CASE x # NaN
      BY <1>1, <3>2, ClampInRange DEF Allowed
    <3>3. QED  BY <3>1, <3>2
  <2> HIDE DEF c, e
  <2>4. AudioInRange'
    BY <1>2, <1>3, <2>2, <2>3 DEF IInv, AudioInRange
  <2>5. \A i \in 1 .. Len(toAudio) : toAudio[i].id \in Param
    BY <1>3, InFlightParam
  <2>6. InFlightAllowed'
    BY <1>4, <2>2, <2>5 DEF IInv, InFlightAllowed
  <2>7. LoadShown'
    BY <1>2, <1>3, <2>2 DEF IInv, LoadShown
  <2>8. QED  BY <2>4, <2>6, <2>7
<1> HIDE DEF c, e
<1>7. ASSUME NEW p \in Param, p # q PROVE Synced(p)' /\ HostKnows(p)'
  <2>1. /\ audio'[p] = audio[p] /\ hostVal'[p] = hostVal[p] /\ synced'[p] = synced[p]
        /\ ~Concerns(e, p) /\ (Loading(p) => Loading(p)')
    BY <1>2, <1>3, <1>5, <1>7 DEF Loading
  <2>2. Synced(p) /\ HostKnows(p)
    BY IInvIsKept DEF Kept
  <2>3. ~void' => \A v : Final(p, toMain', v) = Final(p, toMain, v)
    <3>1. \A v : Final(p, Append(toMain, e), v) = Final(p, toMain, v)
      BY <1>1, <1>3, <2>1, FinalAppend, Zenon
    <3>2. QED  BY <1>4, <3>1, Zenon
  <2>4. QED  BY <1>2, <1>4, <2>1, <2>2, <2>3, Untouched
<1>8. Synced(q)' /\ HostKnows(q)'
  <2> SUFFICES ASSUME ~void', ~Loading(q)' PROVE Synced(q)' /\ HostKnows(q)'
    BY DEF Synced, HostKnows
  <2>1. audio'[q] = c /\ hostVal'[q] = x /\ (synced'[q] <=> guiPtr /\ UpdatesOf(q, toAudio) = {})
    BY <1>2, <1>3
  <2>2. Synced(q)'
    <3> SUFFICES ASSUME synced'[q]
                 PROVE  Final(q, toAudio', audio'[q]) = Final(q, toMain', main'[q])
      BY DEF Synced
    <3>1. guiPtr /\ UpdatesOf(q, toAudio) = {}
      BY <2>1
    <3>2. Final(q, toAudio', audio'[q]) = c
      BY <1>4, <2>1, <3>1, FinalStays
    <3>3. Final(q, Append(toMain, e), main'[q]) = e.value
      <4>1. Concerns(e, q)
        BY <1>5
      <4>2. \A v : Final(q, Append(toMain, e), v) = e.value
        BY <1>1, <1>3, <4>1, FinalAppend, Zenon
      <4>3. QED  BY <4>2, Zenon
    <3>4. Final(q, toMain', main'[q]) = c
      <4>1. toMain' = Append(toMain, e)
        BY <1>4, <3>1
      <4>2. QED  BY <1>5, <3>3, <4>1
    <3>5. QED  BY <3>2, <3>4
  <2>3. HostKnows(q)'
    <3>1. CASE UpdatesOf(q, toAudio) = {}
      <4>1. Final(q, toAudio', audio'[q]) = c /\ Final(q, toAudio', hostVal'[q]) = x
        BY <1>4, <2>1, <3>1, FinalStays
      <4>2. QED  BY <4>1 DEF HostKnows, c
    <3>2. CASE UpdatesOf(q, toAudio) # {}
      <4>1. Final(q, toAudio, c) = Final(q, toAudio, x)
        BY <1>3, <3>2, FinalIsUpdate
      <4>2. QED  BY <1>4, <2>1, <4>1 DEF HostKnows
    <3>3. QED  BY <3>1, <3>2
  <2>4. QED  BY <2>2, <2>3
<1>9. QED  BY <1>6, <1>7, <1>8 DEF Kept

LEMMA KeptStep == IInv /\ [Next]_vars => Kept'
<1> SUFFICES ASSUME IInv, [Next]_vars PROVE Kept'
  OBVIOUS
<1>1. CASE UNCHANGED vars
  BY <1>1, IInvIsKept DEF Kept, AudioInRange, InFlightAllowed, LoadShown, Allowed, Synced, HostKnows, Loading,
     vars, rings, gui, load, proc, host
<1>2. CASE ~void /\ (MainStep \/ AudioStep)
  <2> USE DEF rings, gui, load, proc, host
  <2>0. ~void /\ TypeOK /\ AudioInRange
    BY <1>2 DEF IInv, TInv
  <2>1. CASE CreateGUI \/ DestroyGUI \/ (\E v \in {preset} \cup Presets : LoadStateBegin(v))
             \/ SaveStateBegin
    <3>1. /\ UNCHANGED <<audio, main, preset, given, toAudio, toMain, hostVal, synced>>
          /\ mpc # "send" /\ mpc' # "send"
      BY <2>1 DEF CreateGUI, DestroyGUI, LoadStateBegin, SaveStateBegin
    <3>2. QED  BY <2>0, <3>1, QuietStep
  <2>2. CASE ProcessBegin \/ DrainEnd \/ ProcessEnd \/ NormaliseFails
    <3>1. /\ UNCHANGED <<audio, main, preset, given, toAudio, toMain, hostVal, synced>>
          /\ mpc' = mpc /\ mi' = mi /\ vals' = vals
      BY <2>2 DEF ProcessBegin, DrainEnd, ProcessEnd, NormaliseFails
    <3>2. QED  BY <2>0, <3>1, QuietStep
  <2>3. CASE HandleMouseDown
    <3>1. /\ SendParamEventFromMain(Begin(0)) /\ mpc = "idle"
          /\ UNCHANGED <<audio, main, preset, given, hostVal, synced, mpc, mi>>
      BY <2>3 DEF HandleMouseDown
    <3>2. Begin(0) \in Event /\ Begin(0).type # "UPDATE"
      BY EventType, FirstParam DEF Begin
    <3>3. QED  BY <2>0, <3>1, <3>2, GestureStep
  <2>4. CASE HandleMouseUp
    <3>1. /\ SendParamEventFromMain(End(0)) /\ mpc = "idle"
          /\ UNCHANGED <<audio, main, preset, given, hostVal, synced, mpc, mi>>
      BY <2>4 DEF HandleMouseUp
    <3>2. End(0) \in Event /\ End(0).type # "UPDATE"
      BY EventType, FirstParam DEF End
    <3>3. QED  BY <2>0, <3>1, <3>2, GestureStep
  <2>5. ASSUME NEW dy \in Delta, HandleMouseMove(dy) PROVE Kept'
    <3> DEFINE x == Clamp(0, dragStart + dy)
    <3>1. dragStart + dy \in Int
      BY <2>0, ParamAssumption DEF TypeOK
    <3>2. x \in Value /\ x \in Allowed(0)
      <4>1. dragStart + dy \in Value /\ dragStart + dy # NaN
        BY <3>1, ParamAssumption DEF Value
      <4>2. QED  BY <4>1, FirstParam, ClampInRange DEF Allowed
    <3>3. /\ SendParamEventFromMain(Update(0, x)) /\ main' = [main EXCEPT ![0] = x]
          /\ synced' = [synced EXCEPT ![0] = UpdatesOf(0, toMain) = {}]
          /\ UNCHANGED <<audio, preset, given, hostVal>> /\ mpc = "idle" /\ mpc' = mpc
      BY <2>5 DEF HandleMouseMove
    <3> HIDE DEF x
    <3>4. \A p \in Param : Loading(p) => p = 0
      BY <3>3 DEF Loading
    <3>5. mpc' # "send"
      BY <3>3
    <3>6. QED  BY <2>0, <3>2, <3>3, <3>4, <3>5, FirstParam, UpdateStep
  <2>6. CASE TickGUI
    BY <2>0, <2>6, TickStep
  <2>7. CASE LoadStateWrite
    BY <2>0, <2>7, WriteStep
  <2>8. CASE LoadStateSend
    <3>1. /\ mpc = "send" /\ mi \in Param /\ main \in [Param -> Value] /\ vals[mi] \in Value
          /\ mpc' # "send"
      BY <2>0, <2>8 DEF LoadStateSend, TypeOK
    <3>2. main[mi] = vals[mi] /\ vals[mi] \in Allowed(mi)
      BY <3>1 DEF IInv, LoadShown
    <3>3. main' = [main EXCEPT ![mi] = vals[mi]]
      BY <2>8, <3>1, <3>2 DEF LoadStateSend
    <3>4. /\ SendParamEventFromMain(Update(mi, vals[mi]))
          /\ synced' = [synced EXCEPT ![mi] = UpdatesOf(mi, toMain) = {}]
          /\ UNCHANGED <<audio, preset, given, hostVal>>
      BY <2>8 DEF LoadStateSend
    <3>5. \A p \in Param : Loading(p) => p = mi
      BY DEF Loading
    <3>6. QED  BY <2>0, <3>1, <3>2, <3>3, <3>4, <3>5, UpdateStep
  <2>9. CASE SaveStateParam
    BY <2>0, <2>9, SaveStep
  <2>10. CASE DrainEvent
    BY <2>0, <2>10, DrainStep
  <2>11. ASSUME NEW p \in Param, NEW v \in HostValue, SetParameterValue(p, v) PROVE Kept'
    BY <2>0, <2>11, SetStep
  <2>12. QED
    BY <1>2, <2>1, <2>2, <2>3, <2>4, <2>5, <2>6, <2>7, <2>8, <2>9, <2>10, <2>11
       DEF MainStep, AudioStep, ProcessStep
<1>3. QED  BY <1>1, <1>2 DEF Next

(* The agreement of the copies, with what makes it inductive, in every state. *)
THEOREM InductiveInvariant == Spec => []IInv
<1>1. IInv /\ [Next]_vars => IInv'
  <2> SUFFICES ASSUME IInv, [Next]_vars PROVE IInv'
    OBVIOUS
  <2>1. TInv'
    BY TypeStep DEF IInv
  <2>2. Kept'
    BY KeptStep
  <2>3. Agreement' /\ HostAgreement'
    BY <2>2 DEF Kept, Synced, HostKnows, Agreement, HostAgreement
  <2>4. QED  BY <2>1, <2>2, <2>3 DEF IInv, Kept
<1>2. QED  BY <1>1, InitIInv, PTL DEF Spec

(* The audio thread's values and the saved preset are in range, or what an   *)
(* earlier preset brought, without a clamp at the drain and in loadState.    *)
THEOREM AudioStaysInRange == Spec => []AudioInRange
<1>1. IInv => AudioInRange
  BY DEF IInv
<1>2. QED  BY <1>1, InductiveInvariant, PTL

(* Where the last writer's value was sent with nothing older coming the      *)
(* other way, GUI and audio thread come to hold the same value.              *)
THEOREM CopiesAgree == Spec => []Agreement
<1>1. IInv => Agreement
  BY DEF IInv
<1>2. QED  BY <1>1, InductiveInvariant, PTL

(* The host comes to know what the audio thread will use, without condition. *)
THEOREM HostAgrees == Spec => []HostAgreement
<1>1. IInv => HostAgreement
  BY DEF IInv
<1>2. QED  BY <1>1, InductiveInvariant, PTL
-----------------------------------------------------------------------------
(* Gestures.  The events of a type among the first k of a ring, and how many *)
(* gestures the host sees open when it has been given these.                 *)
CountTo(type, fifo, k) == Cardinality({i \in 1 .. k : fifo[i].type = type})
Depth(seen, fifo, k) == seen + CountTo("BEGIN", fifo, k) - CountTo("END", fifo, k)

LEMMA CountIsNat ==
  ASSUME NEW type, NEW fifo, NEW k \in Nat
  PROVE  CountTo(type, fifo, k) \in Nat /\ CountTo(type, fifo, 0) = 0
<1>1. IsFiniteSet(1 .. k)
  BY FS_Interval
<1>2. {i \in 1 .. k : fifo[i].type = type} \in SUBSET (1 .. k)
  OBVIOUS
<1>3. IsFiniteSet({i \in 1 .. k : fifo[i].type = type})
  BY <1>1, <1>2, FS_Subset
<1>4. {i \in 1 .. 0 : fifo[i].type = type} = {}
  OBVIOUS
<1>5. QED  BY <1>3, <1>4, FS_CardinalityType, FS_EmptySet DEF CountTo

(* One event more.                                                           *)
LEMMA CountNext ==
  ASSUME NEW type, NEW fifo, NEW k \in Nat
  PROVE  CountTo(type, fifo, k + 1)
           = CountTo(type, fifo, k) + (IF fifo[k + 1].type = type THEN 1 ELSE 0)
<1> DEFINE S == {i \in 1 .. k : fifo[i].type = type}
           T == {i \in 1 .. k + 1 : fifo[i].type = type}
<1>1. IsFiniteSet(S)
  <2>1. IsFiniteSet(1 .. k) /\ S \in SUBSET (1 .. k)
    BY FS_Interval
  <2>2. QED  BY <2>1, FS_Subset
<1>2. CASE fifo[k + 1].type = type
  <2>1. T = S \cup {k + 1} /\ k + 1 \notin S
    BY <1>2
  <2>2. Cardinality(T) = Cardinality(S) + 1
    BY <1>1, <2>1, FS_AddElement
  <2>3. CountTo(type, fifo, k + 1) = CountTo(type, fifo, k) + 1
    BY <2>2 DEF CountTo
  <2>4. QED  BY <1>2, <2>3
<1>3. CASE fifo[k + 1].type # type
  <2>1. T = S
    BY <1>3
  <2>2. CountTo(type, fifo, k + 1) = CountTo(type, fifo, k)
    BY <2>1 DEF CountTo
  <2>3. CountTo(type, fifo, k) \in Nat
    BY CountIsNat
  <2>4. QED  BY <1>3, <2>2, <2>3
<1>4. QED  BY <1>2, <1>3

(* An event put behind the others, and the oldest taken away.                *)
LEMMA CountAppend ==
  ASSUME NEW type, NEW fifo \in Seq(Event), NEW e \in Event
  PROVE  /\ \A k \in 0 .. Len(fifo) : CountTo(type, Append(fifo, e), k) = CountTo(type, fifo, k)
         /\ CountTo(type, Append(fifo, e), Len(fifo) + 1)
              = CountTo(type, fifo, Len(fifo)) + (IF e.type = type THEN 1 ELSE 0)
<1> DEFINE longer == Append(fifo, e)
<1>1. /\ Len(fifo) \in Nat /\ longer[Len(fifo) + 1] = e
      /\ \A i \in 1 .. Len(fifo) : longer[i] = fifo[i]
  OBVIOUS
<1> HIDE DEF longer
<1>2. ASSUME NEW k \in 0 .. Len(fifo) PROVE CountTo(type, longer, k) = CountTo(type, fifo, k)
  <2>1. \A i \in 1 .. k : longer[i] = fifo[i]
    BY <1>1
  <2>2. {i \in 1 .. k : longer[i].type = type} = {i \in 1 .. k : fifo[i].type = type}
    BY <2>1
  <2>3. QED  BY <2>2 DEF CountTo
<1>3. CountTo(type, longer, Len(fifo) + 1)
        = CountTo(type, fifo, Len(fifo)) + (IF e.type = type THEN 1 ELSE 0)
  <2>1. Len(fifo) \in 0 .. Len(fifo)
    BY <1>1
  <2>2. CountTo(type, longer, Len(fifo)) = CountTo(type, fifo, Len(fifo))
    BY <1>2, <2>1
  <2>3. QED  BY <1>1, <2>2, CountNext
<1>4. QED  BY <1>2, <1>3 DEF longer

LEMMA CountTail ==
  ASSUME NEW type, NEW fifo \in Seq(Event), fifo # <<>>, NEW k \in 0 .. Len(fifo) - 1
  PROVE  CountTo(type, fifo, k + 1)
           = CountTo(type, Tail(fifo), k) + (IF Head(fifo).type = type THEN 1 ELSE 0)
<1> DEFINE S == {i \in 1 .. k : Tail(fifo)[i].type = type}
           T == {i \in 2 .. k + 1 : fifo[i].type = type}
           U == {i \in 1 .. k + 1 : fifo[i].type = type}
<1>1. /\ Len(fifo) \in Nat \ {0} /\ k \in Nat /\ Head(fifo) = fifo[1]
      /\ \A i \in 1 .. k : Tail(fifo)[i] = fifo[i + 1]
  OBVIOUS
<1>2. IsFiniteSet(S) /\ Cardinality(S) \in Nat
  <2>1. IsFiniteSet(1 .. k)
    BY <1>1, FS_Interval
  <2>2. S \in SUBSET (1 .. k)
    OBVIOUS
  <2>3. QED  BY <2>1, <2>2, FS_Subset, FS_CardinalityType
<1>3. IsFiniteSet(T) /\ Cardinality(T) = Cardinality(S)
  <2> DEFINE F == [i \in S |-> i + 1]
  <2>1. F \in [S -> T] /\ \A a, b \in S : F[a] = F[b] => a = b
    BY <1>1
  <2>2. \A t \in T : \E s \in S : F[s] = t
    <3> TAKE t \in T
    <3>1. t - 1 \in 1 .. k /\ (t - 1) + 1 = t
      BY <1>1
    <3>2. t - 1 \in S
      BY <1>1, <3>1
    <3>3. QED  BY <3>1, <3>2
  <2> HIDE DEF F, S, T
  <2>3. F \in Bijection(S, T)
    BY <2>1, <2>2, Fun_IsBij
  <2>4. ExistsBijection(S, T)
    BY <2>3, Fun_ExistsBij
  <2>5. QED  BY <1>2, <2>4, FS_Bijection
<1>4. CASE fifo[1].type = type
  <2>1. U = T \cup {1} /\ 1 \notin T
    BY <1>1, <1>4
  <2>2. Cardinality(U) = Cardinality(S) + 1
    BY <1>3, <2>1, FS_AddElement
  <2>3. CountTo(type, fifo, k + 1) = CountTo(type, Tail(fifo), k) + 1
    BY <2>2 DEF CountTo
  <2>4. QED  BY <1>1, <1>4, <2>3
<1>5. CASE fifo[1].type # type
  <2>1. U = T
    BY <1>1, <1>5
  <2>2. CountTo(type, fifo, k + 1) = CountTo(type, Tail(fifo), k)
    BY <1>3, <2>1 DEF CountTo
  <2>3. CountTo(type, Tail(fifo), k) \in Nat
    BY <1>1, CountIsNat
  <2>4. QED  BY <1>1, <1>5, <2>2, <2>3
<1>6. QED  BY <1>4, <1>5

(* What is on the way never makes the host see more ENDs than BEGINs, at any *)
(* moment of the drain; when all of it has arrived, the gestures open are    *)
(* the drag in progress and those given up.  Only an open GUI is dragged.    *)
Open == abandoned + (IF dragging THEN 1 ELSE 0)
GestureInv ==
  /\ dragging => guiOpen
  /\ ~void => /\ \A k \in 0 .. Len(toAudio) : Depth(hostDepth, toAudio, k) >= 0
              /\ Depth(hostDepth, toAudio, Len(toAudio)) = Open

LEMMA InitGestures == Init => GestureInv
<1> SUFFICES ASSUME Init PROVE GestureInv
  OBVIOUS
<1>1. toAudio = <<>> /\ Len(toAudio) = 0 /\ ~dragging /\ hostDepth = 0 /\ abandoned = 0
  BY DEF Init
<1>2. CountTo("BEGIN", toAudio, 0) = 0 /\ CountTo("END", toAudio, 0) = 0
  BY CountIsNat
<1>3. QED  BY <1>1, <1>2 DEF GestureInv, Depth, Open

(* A step that leaves the ring and the host as they are.                     *)
LEMMA GesturesKept ==
  ASSUME GestureInv, ~void, UNCHANGED <<toAudio, hostDepth>>, Open' = Open, dragging' => guiOpen'
  PROVE  GestureInv'
  BY DEF GestureInv, Depth, CountTo

(* A send: the host will see it after all that is already on the way.        *)
LEMMA SendGestures ==
  ASSUME TypeOK, GestureInv, ~void, NEW e \in Event, SendParamEventFromMain(e),
         hostDepth' = hostDepth, dragging' => guiOpen',
         Open' = Open + (IF e.type = "BEGIN" THEN 1 ELSE 0) - (IF e.type = "END" THEN 1 ELSE 0),
         Open' >= 0
  PROVE  GestureInv'
<1> SUFFICES ASSUME ~void'
             PROVE  /\ \A k \in 0 .. Len(toAudio') : Depth(hostDepth', toAudio', k) >= 0
                    /\ Depth(hostDepth', toAudio', Len(toAudio')) = Open'
  BY DEF GestureInv
<1>1. toAudio' = Append(toAudio, e) /\ toAudio \in Seq(Event) /\ hostDepth \in Int
  BY MainSends DEF TypeOK
<1> DEFINE n == Len(toAudio)
           d == (IF e.type = "BEGIN" THEN 1 ELSE 0) - (IF e.type = "END" THEN 1 ELSE 0)
<1>2. n \in Nat /\ Len(toAudio') = n + 1
  BY <1>1
<1>3. \A k \in 0 .. n : Depth(hostDepth', toAudio', k) = Depth(hostDepth, toAudio, k)
  BY <1>1, CountAppend DEF Depth
<1>4. Depth(hostDepth', toAudio', n + 1) = Depth(hostDepth, toAudio, n) + d
  <2>1. CountTo("BEGIN", toAudio, n) \in Nat /\ CountTo("END", toAudio, n) \in Nat
    BY <1>2, CountIsNat
  <2>2. /\ CountTo("BEGIN", toAudio', n + 1)
             = CountTo("BEGIN", toAudio, n) + (IF e.type = "BEGIN" THEN 1 ELSE 0)
        /\ CountTo("END", toAudio', n + 1)
             = CountTo("END", toAudio, n) + (IF e.type = "END" THEN 1 ELSE 0)
    BY <1>1, CountAppend
  <2> HIDE DEF n
  <2> DEFINE b == IF e.type = "BEGIN" THEN 1 ELSE 0
             f == IF e.type = "END" THEN 1 ELSE 0
             B == CountTo("BEGIN", toAudio, n)
             E == CountTo("END", toAudio, n)
  <2>3. /\ Depth(hostDepth', toAudio', n + 1) = hostDepth + (B + b) - (E + f)
        /\ Depth(hostDepth, toAudio, n) = hostDepth + B - E /\ d = b - f
        /\ b \in Nat /\ f \in Nat
    BY <2>2 DEF Depth
  <2> HIDE DEF b, f, B, E, d
  <2>4. QED  BY <1>1, <2>1, <2>3 DEF B, E
<1>5. Depth(hostDepth, toAudio, n) = Open /\ \A k \in 0 .. n : Depth(hostDepth, toAudio, k) >= 0
  BY DEF GestureInv
<1>6. Open \in Int
  BY DEF Open, TypeOK
<1>7. Depth(hostDepth', toAudio', n + 1) = Open'
  BY <1>4, <1>5, <1>6
<1>8. \A k \in 0 .. n + 1 : Depth(hostDepth', toAudio', k) >= 0
  <2> HIDE DEF n
  <2> TAKE k \in 0 .. n + 1
  <2>1. CASE k = n + 1
    BY <1>7, <2>1
  <2>2. CASE k # n + 1
    BY <1>2, <1>3, <1>5, <2>2
  <2>3. QED  BY <2>1, <2>2
<1>9. Depth(hostDepth', toAudio', Len(toAudio')) = Depth(hostDepth', toAudio', n + 1)
  BY <1>2 DEF Depth
<1>10. QED  BY <1>2, <1>7, <1>8, <1>9

(* The drain: what was on the way first has arrived.                         *)
LEMMA DrainGestures ==
  ASSUME TypeOK, GestureInv, ~void, DrainEvent PROVE GestureInv'
<1> DEFINE e == Head(toAudio)
           n == Len(toAudio)
           d == (IF e.type = "BEGIN" THEN 1 ELSE 0) - (IF e.type = "END" THEN 1 ELSE 0)
<1>1. /\ toAudio \in Seq(Event) /\ toAudio # <<>> /\ n \in Nat \ {0} /\ e \in Event
      /\ hostDepth \in Int /\ toAudio' = Tail(toAudio) /\ Len(toAudio') = n - 1
  <2>1. toAudio \in Seq(Event) /\ aleft \in 0 .. Len(toAudio) /\ aleft > 0 /\ hostDepth \in Int
    BY DEF TypeOK, DrainEvent
  <2>2. n \in Nat \ {0} /\ toAudio' = Tail(toAudio)
    BY <2>1 DEF DrainEvent
  <2>3. QED  BY <2>1, <2>2
<1>2. hostDepth' = hostDepth + d
  BY <1>1 DEF DrainEvent
<1>3. Open' = Open /\ (dragging' => guiOpen') /\ void' = void
  BY DEF DrainEvent, gui, Open, GestureInv
<1>4. \A k \in 0 .. n - 1 : Depth(hostDepth', toAudio', k) = Depth(hostDepth, toAudio, k + 1)
  <2> SUFFICES ASSUME NEW k \in 0 .. n - 1
               PROVE  Depth(hostDepth', toAudio', k) = Depth(hostDepth, toAudio, k + 1)
    OBVIOUS
  <2>1. /\ CountTo("BEGIN", toAudio, k + 1)
             = CountTo("BEGIN", toAudio', k) + (IF e.type = "BEGIN" THEN 1 ELSE 0)
        /\ CountTo("END", toAudio, k + 1)
             = CountTo("END", toAudio', k) + (IF e.type = "END" THEN 1 ELSE 0)
    BY <1>1, CountTail
  <2>2. CountTo("BEGIN", toAudio', k) \in Nat /\ CountTo("END", toAudio', k) \in Nat
    BY <1>1, CountIsNat
  <2> HIDE DEF e, n
  <2>3. QED  BY <1>1, <1>2, <2>1, <2>2 DEF Depth
<1>5. Depth(hostDepth, toAudio, n) = Open /\ \A k \in 0 .. n : Depth(hostDepth, toAudio, k) >= 0
  BY DEF GestureInv
<1> HIDE DEF e, n, d
<1>6. n - 1 \in 0 .. n - 1 /\ (n - 1) + 1 = n
  BY <1>1
<1>7. Depth(hostDepth', toAudio', n - 1) = Open
  BY <1>4, <1>5, <1>6
<1>8. \A k \in 0 .. n - 1 : Depth(hostDepth', toAudio', k) >= 0
  <2> TAKE k \in 0 .. n - 1
  <2>1. k + 1 \in 0 .. n
    BY <1>1
  <2>2. QED  BY <1>4, <1>5, <2>1
<1>9. Depth(hostDepth', toAudio', Len(toAudio')) = Depth(hostDepth', toAudio', n - 1)
  BY <1>1 DEF Depth
<1>10. QED  BY <1>1, <1>3, <1>7, <1>8, <1>9 DEF GestureInv

LEMMA GestureInvStep == TInv /\ GestureInv /\ [Next]_vars => GestureInv'
<1> SUFFICES ASSUME TInv, GestureInv, [Next]_vars PROVE GestureInv'
  OBVIOUS
<1> USE DEF rings, gui, load, proc, host
<1>1. CASE UNCHANGED vars
  BY <1>1 DEF GestureInv, Depth, CountTo, Open, vars
<1>2. CASE ~void /\ (MainStep \/ AudioStep)
  <2>0. ~void /\ TypeOK /\ abandoned \in Nat /\ dragging \in BOOLEAN /\ (dragging => guiOpen)
    BY <1>2 DEF TInv, TypeOK, GestureInv
  <2>1. CASE CreateGUI
    <3>1. Open' = Open /\ UNCHANGED <<toAudio, hostDepth>> /\ ~dragging'
      BY <2>0, <2>1 DEF CreateGUI, Open
    <3>2. QED  BY <2>0, <3>1, GesturesKept
  <2>2. CASE DestroyGUI
    <3>1. Open' = Open /\ UNCHANGED <<toAudio, hostDepth>> /\ ~dragging'
      BY <2>0, <2>2 DEF DestroyGUI, Open
    <3>2. QED  BY <2>0, <3>1, GesturesKept
  <2>3. CASE HandleMouseDown
    <3>1. Begin(0) \in Event /\ Begin(0).type = "BEGIN"
      BY EventType, FirstParam DEF Begin
    <3>2. Open' = Open + 1 /\ Open' \in Nat /\ Open \in Nat
      BY <2>0, <2>3 DEF HandleMouseDown, Open
    <3>3. SendParamEventFromMain(Begin(0)) /\ hostDepth' = hostDepth /\ guiOpen'
      BY <2>3 DEF HandleMouseDown
    <3>4. Open' = Open + (IF Begin(0).type = "BEGIN" THEN 1 ELSE 0)
                       - (IF Begin(0).type = "END" THEN 1 ELSE 0)
      BY <3>1, <3>2
    <3>5. Open' >= 0
      BY <3>2
    <3>6. QED  BY <2>0, <3>1, <3>3, <3>4, <3>5, SendGestures
  <2>4. CASE HandleMouseUp
    <3>1. End(0) \in Event /\ End(0).type = "END"
      BY EventType, FirstParam DEF End
    <3>2. Open' = Open - 1 /\ Open' \in Nat /\ Open \in Nat
      BY <2>0, <2>4 DEF HandleMouseUp, Open
    <3>3. SendParamEventFromMain(End(0)) /\ hostDepth' = hostDepth /\ ~dragging'
      BY <2>4 DEF HandleMouseUp
    <3>4. Open' = Open + (IF End(0).type = "BEGIN" THEN 1 ELSE 0)
                       - (IF End(0).type = "END" THEN 1 ELSE 0)
      BY <3>1, <3>2
    <3>5. Open' >= 0
      BY <3>2
    <3>6. QED  BY <2>0, <3>1, <3>3, <3>4, <3>5, SendGestures
  <2>5. ASSUME NEW p \in Param, NEW v \in Value, SendParamEventFromMain(Update(p, v)),
               UNCHANGED <<hostDepth, dragging, guiOpen, abandoned>>
        PROVE  GestureInv'
    <3>1. Update(p, v) \in Event /\ Update(p, v).type = "UPDATE"
      BY EventType DEF Update
    <3>2. Open' = Open /\ Open \in Nat
      BY <2>0, <2>5 DEF Open
    <3>3. Open' = Open + (IF Update(p, v).type = "BEGIN" THEN 1 ELSE 0)
                       - (IF Update(p, v).type = "END" THEN 1 ELSE 0)
      BY <3>1, <3>2
    <3>4. Open' >= 0 /\ (dragging' => guiOpen')
      BY <2>0, <2>5, <3>2
    <3>5. QED  BY <2>0, <2>5, <3>1, <3>3, <3>4, SendGestures
  <2>6. ASSUME NEW dy \in Delta, HandleMouseMove(dy) PROVE GestureInv'
    <3>1. Clamp(0, dragStart + dy) \in Value
      <4>1. dragStart + dy \in Value
        BY <2>0, ParamAssumption DEF TypeOK, Value
      <4>2. QED  BY <4>1, FirstParam, ClampInRange
    <3>2. /\ SendParamEventFromMain(Update(0, Clamp(0, dragStart + dy)))
          /\ UNCHANGED <<hostDepth, dragging, guiOpen, abandoned>>
      BY <2>6 DEF HandleMouseMove
    <3>3. QED  BY <2>5, <3>1, <3>2, FirstParam
  <2>7. CASE LoadStateSend
    <3>1. mi \in Param /\ vals[mi] \in Value
      BY <2>0, <2>7 DEF TypeOK, LoadStateSend
    <3>2. /\ SendParamEventFromMain(Update(mi, vals[mi]))
          /\ UNCHANGED <<hostDepth, dragging, guiOpen, abandoned>>
      BY <2>7 DEF LoadStateSend
    <3>3. QED  BY <2>5, <3>1, <3>2
  <2>8. CASE \/ TickGUI \/ (\E v \in {preset} \cup Presets : LoadStateBegin(v)) \/ LoadStateWrite
             \/ SaveStateBegin \/ SaveStateParam \/ ProcessBegin \/ DrainEnd \/ ProcessEnd
             \/ NormaliseFails
    <3>1. UNCHANGED <<toAudio, hostDepth, dragging, guiOpen, abandoned>>
      BY <2>8 DEF TickGUI, LoadStateBegin, LoadStateWrite, SaveStateBegin, SaveStateParam,
                  ProcessBegin, DrainEnd, ProcessEnd, NormaliseFails
    <3>2. Open' = Open
      BY <3>1 DEF Open
    <3>3. QED  BY <2>0, <3>1, <3>2, GesturesKept
  <2>9. CASE DrainEvent
    BY <2>0, <2>9, DrainGestures
  <2>10. ASSUME NEW p \in Param, NEW v \in HostValue, SetParameterValue(p, v) PROVE GestureInv'
    <3>1. UNCHANGED <<hostDepth, dragging, guiOpen, abandoned, toAudio>>
      BY <2>10 DEF SetParameterValue, SendParamEventFromAudio
    <3>2. Open' = Open
      BY <3>1 DEF Open
    <3>3. QED  BY <2>0, <3>1, <3>2, GesturesKept
  <2>11. QED
    BY <1>2, <2>1, <2>2, <2>3, <2>4, <2>6, <2>7, <2>8, <2>9, <2>10
       DEF MainStep, AudioStep, ProcessStep
<1>3. QED  BY <1>1, <1>2 DEF Next

(* The host never sees an END without its BEGIN, and the gestures it is left *)
(* with are the drag in progress and those given up.                         *)
THEOREM GesturesAccounted == Spec => []GestureAccounting
<1>1. TInv /\ GestureInv => GestureAccounting
  <2> SUFFICES ASSUME TInv, GestureInv, ~void
               PROVE  /\ hostDepth >= 0
                      /\ hostDepth + Count("BEGIN", toAudio) - Count("END", toAudio) = Open
    BY DEF GestureAccounting, Open
  <2>1. Len(toAudio) \in Nat /\ hostDepth \in Int
    BY DEF TInv, TypeOK
  <2>2. Depth(hostDepth, toAudio, 0) >= 0 /\ Depth(hostDepth, toAudio, Len(toAudio)) = Open
    BY <2>1 DEF GestureInv
  <2>3. CountTo("BEGIN", toAudio, 0) = 0 /\ CountTo("END", toAudio, 0) = 0
    BY CountIsNat
  <2>4. QED  BY <2>1, <2>2, <2>3 DEF Depth, CountTo, Count
<1>2. QED  BY <1>1, InitTypes, TypeStep, InitGestures, GestureInvStep, PTL DEF Spec
=============================================================================
