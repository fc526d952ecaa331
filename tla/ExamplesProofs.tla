--------------------------- MODULE ExamplesProofs ---------------------------
(* Theorems about the example programs: the blur, for every image, radius    *)
(* and number of jobs; the file search, for every tree and limit; the        *)
(* encrypted message, for every cipher of octets.                            *)
EXTENDS MCExamples, SequencesExt, Bags, SequenceTheorems, FiniteSetTheorems,
        NaturalsInduction, WellFoundedInduction, TLAPS

(* Rounding down keeps the order. *)
LEMMA DivMonotone ==
  ASSUME NEW a \in Nat, NEW b \in Nat, NEW n \in Nat \ {0}, a <= b
  PROVE  a \div n <= b \div n
<1>1. /\ a = n * (a \div n) + (a % n) /\ a % n \in 0 .. n - 1 /\ a \div n \in Nat
      /\ b = n * (b \div n) + (b % n) /\ b % n \in 0 .. n - 1 /\ b \div n \in Nat
  BY SMT
<1>2. SUFFICES ASSUME a \div n >= b \div n + 1 PROVE FALSE
  BY <1>1
<1>3. n * (a \div n) >= n * (b \div n) + n
  BY <1>1, <1>2, SMT
<1> QED
  BY <1>1, <1>3
-----------------------------------------------------------------------------
(* How the lines are divided: the jobs' ranges are consecutive and end at    *)
(* the last line.                                                            *)
LEMMA Sizes == LineLen \in Nat \ {0} /\ Count \in Nat \ {0} /\ Cores \in Nat \ {0}
BY SizesPositive DEF LineLen, Count

LEMMA JobRange ==
  ASSUME NEW c \in 0 .. Cores - 1
  PROVE  /\ FirstLine(c) \in Nat /\ LimitLine(c) \in Nat
         /\ FirstLine(c) <= LimitLine(c) /\ LimitLine(c) <= Count
<1> USE Sizes
<1>1. /\ c * Count \in Nat /\ (c + 1) * Count \in Nat /\ Cores * Count \in Nat
      /\ c * Count <= (c + 1) * Count /\ (c + 1) * Count <= Cores * Count
  BY SMT
<1>2. (Cores * Count) \div Cores = Count
  BY SMT
<1>3. (c * Count) \div Cores \in Nat /\ ((c + 1) * Count) \div Cores \in Nat
  BY <1>1
<1>4. /\ (c * Count) \div Cores <= ((c + 1) * Count) \div Cores
      /\ ((c + 1) * Count) \div Cores <= (Cores * Count) \div Cores
  BY <1>1, DivMonotone
<1> QED
  BY <1>2, <1>3, <1>4 DEF FirstLine, LimitLine

LEMMA JobsOrdered ==
  ASSUME NEW c \in 0 .. Cores - 1, NEW d \in 0 .. Cores - 1, c < d
  PROVE  LimitLine(c) <= FirstLine(d)
<1>1. /\ (c + 1) * Count \in Nat /\ d * Count \in Nat
      /\ (c + 1) * Count <= d * Count
  BY Sizes, SMT
<1> QED
  BY <1>1, DivMonotone, Sizes DEF FirstLine, LimitLine

LEMMA JobsDisjoint ==
  ASSUME NEW c \in 0 .. Cores - 1, NEW d \in 0 .. Cores - 1, NEW l \in Nat,
         l \in FirstLine(c) .. LimitLine(c) - 1,
         l \in FirstLine(d) .. LimitLine(d) - 1
  PROVE  c = d
BY JobsOrdered, JobRange

(* Every line belongs to a job, so that with JobsDisjoint it belongs to      *)
(* exactly one, whether or not Cores divides the number of lines.            *)
THEOREM JobsCover ==
  ASSUME NEW l \in 0 .. Count - 1
  PROVE  \E c \in 0 .. Cores - 1 : l \in FirstLine(c) .. LimitLine(c) - 1
<1> USE Sizes
<1> DEFINE n == (l + 1) * Cores - 1
           c == n \div Count
<1>1. n \in Nat /\ n < Count * Cores
  <2>1. (l + 1) * Cores \in Nat /\ (l + 1) * Cores >= 1 /\ (l + 1) * Cores <= Count * Cores
    BY SMT
  <2> QED
    BY <2>1
<1>2. c \in Nat /\ c * Count <= n /\ n < (c + 1) * Count
  <2>1. \A a \in Nat : a = Count * (a \div Count) + (a % Count) /\ a % Count \in 0 .. Count - 1
                         /\ a \div Count \in Nat
    BY SMT
  <2>2. n = Count * c + (n % Count) /\ n % Count \in 0 .. Count - 1 /\ c \in Nat
    BY <1>1, <2>1
  <2>3. Count * c = c * Count /\ (c + 1) * Count = c * Count + Count /\ c * Count \in Nat
    BY <2>2, SMT
  <2> QED
    BY <2>2, <2>3
<1> HIDE DEF c
<1>3. c \in 0 .. Cores - 1
  <2>1. c * Count < Cores * Count
    BY <1>1, <1>2, SMT
  <2> QED
    BY <1>2, <2>1, SMT
<1>4. FirstLine(c) <= l
  <2>1. c * Count \in Nat /\ c * Count < (l + 1) * Cores
    BY <1>1, <1>2, SMT
  <2>2. \A a \in Nat : a = Cores * (a \div Cores) + (a % Cores) /\ a % Cores \in 0 .. Cores - 1
                         /\ a \div Cores \in Nat
    BY SMT
  <2>3. /\ Cores * ((c * Count) \div Cores) <= c * Count /\ (c * Count) \div Cores \in Nat
    BY <2>1, <2>2, SMTT(30)
  <2> DEFINE q == (c * Count) \div Cores
  <2>4. Cores * q < (l + 1) * Cores /\ q \in Nat
    BY <2>1, <2>3, SMT
  <2> HIDE DEF q
  <2>5. q < l + 1
    BY <2>4, SMT
  <2> QED
    BY <2>4, <2>5 DEF q, FirstLine
<1>5. l + 1 <= LimitLine(c)
  <2>1. /\ (l + 1) * Cores \in Nat /\ (c + 1) * Count \in Nat
        /\ (l + 1) * Cores <= (c + 1) * Count
    BY <1>1, <1>2, SMT
  <2>2. ((l + 1) * Cores) \div Cores = l + 1
    BY SMT
  <2> QED
    BY <2>1, <2>2, DivMonotone DEF LimitLine
<1> QED
  BY <1>3, <1>4, <1>5, JobRange

-----------------------------------------------------------------------------
(* The indices, with the running job and the source position they depend on. *)
Position == IndicesOK /\ Running /\ Source

LEMMA InitPosition == ASSUME Init PROVE Position
<1>1. DOMAIN image = Cells /\ DOMAIN before = Cells
  BY ImagesAreBytes DEF Init
<1>2. DOMAIN stack = 0 .. 2 * radius /\ radius \in 2 .. 254
  BY RadiiAsDocumented DEF DocumentedRadii, Init
<1> QED
  BY <1>1, <1>2, Sizes DEF Init, Position, IndicesOK, Running, Source

(* The arguments do not change, nor what follows from them. *)
LEMMA ArgsKept ==
  ASSUME [Next]_vars
  PROVE  /\ step' = step /\ radius' = radius /\ before' = before
         /\ LineLen' = LineLen /\ Count' = Count /\ Div' = Div
         /\ \A c \in 0 .. Cores - 1 : FirstLine(c)' = FirstLine(c) /\ LimitLine(c)' = LimitLine(c)
         /\ \A l, k : Cell(l, k)' = Cell(l, k)
<1>1. UNCHANGED args
  BY DEF Next, vars, BeginJob, EndJob, BeginLine, FillLeft, FillRight, BlurPixel
<1> QED
  BY <1>1 DEF args, LineLen, Count, Div, FirstLine, LimitLine, Cell

LEMMA PositionStep == ASSUME Position, [Next]_vars PROVE Position'
<1> USE Sizes, ArgsKept DEF Position
<1>1. radius \in 2 .. 254
  BY RadiiAsDocumented DEF DocumentedRadii, IndicesOK
<1>2. ASSUME NEW c \in 0 .. Cores - 1, BeginJob(c) PROVE Position'
  BY <1>2, JobRange DEF BeginJob, args, sums, IndicesOK, Running, Source
<1>3. CASE EndJob
  BY <1>3 DEF EndJob, args, sums, IndicesOK, Running, Source
<1>4. CASE BeginLine
  BY <1>4, <1>1, JobRange DEF BeginLine, args, IndicesOK, Running, Source
<1>5. CASE FillLeft
  BY <1>5, <1>1 DEF FillLeft, args, IndicesOK, Running, Source, Clamp
<1>6. CASE FillRight
  <2>1. pos' = Clamp(i, LineLen) /\ pos' \in 0 .. LineLen - 1
    <3>1. i \in 1 .. radius /\ pos = Clamp(i - 1, LineLen) /\ pos' = IF i < LineLen THEN pos + 1 ELSE pos
      BY <1>6, <1>1 DEF FillRight, IndicesOK, Source
    <3> QED
      BY <3>1, <1>1 DEF Clamp
  <2>2. /\ image' = image /\ DOMAIN stack' = DOMAIN stack /\ pc = "right"
        /\ todo' = todo /\ core' = core /\ y' = y
        /\ \/ pc' = "blur" /\ x' = 0 /\ sp' = radius /\ i' = i /\ i = radius
           \/ pc' = pc /\ x' = x /\ sp' = sp /\ i' = i + 1 /\ i # radius
    BY <1>6 DEF FillRight
  <2>3. IndicesOK'
    BY <1>1, <2>1, <2>2, SMTT(30) DEF IndicesOK
  <2>4. Running' /\ Source'
    BY <1>1, <2>1, <2>2 DEF IndicesOK, Running, Source
  <2> QED
    BY <2>3, <2>4
<1>7. CASE BlurPixel
  <2>1. core' = core /\ LimitLine(core) <= Count /\ y < LimitLine(core) /\ core \in todo
    BY <1>7, JobRange DEF BlurPixel, IndicesOK, Running
  <2>2. pos' = Clamp(x + 1 + radius, LineLen) /\ pos' \in 0 .. LineLen - 1
    BY <1>7, <1>1 DEF BlurPixel, IndicesOK, Source, Clamp
  <2>3. sp' \in 0 .. 2 * radius
    BY <1>7, <1>1 DEF BlurPixel, IndicesOK, Wrap, Div
  <2>4. /\ DOMAIN image' = DOMAIN image /\ DOMAIN stack' = DOMAIN stack /\ pc = "blur"
        /\ todo' = todo /\ i' = i /\ x' = x + 1
        /\ \/ x' = LineLen /\ y' = y + 1 /\ pc' = "line"
           \/ x' # LineLen /\ y' = y /\ pc' = pc
    BY <1>7 DEF BlurPixel
  <2>5. IndicesOK'
    BY <1>1, <2>1, <2>2, <2>3, <2>4, SMTT(30) DEF IndicesOK
  <2>6. FirstLine(core)' = FirstLine(core) /\ LimitLine(core)' = LimitLine(core)
        /\ FirstLine(core) \in Nat
    BY <2>1, JobRange DEF IndicesOK
  <2>7. Running'
    BY <1>1, <2>1, <2>4, <2>6 DEF IndicesOK, Running
  <2>8. Source'
    BY <1>1, <2>2, <2>4 DEF Source
  <2> QED
    BY <2>5, <2>7, <2>8
<1>8. CASE UNCHANGED vars
  BY <1>8 DEF vars, args, sums, IndicesOK, Running, Source
<1> QED
  BY <1>2, <1>3, <1>4, <1>5, <1>6, <1>7, <1>8 DEF Next

(* For every size of image, number of jobs and documented radius: no index   *)
(* leaves what it indexes.                                                   *)
THEOREM IndicesCorrect == Spec => []IndicesOK
<1>1. Spec => []Position
  BY InitPosition, PositionStep, PTL DEF Spec
<1>2. Position => IndicesOK
  BY DEF Position
<1> QED
  BY <1>1, <1>2, PTL

-----------------------------------------------------------------------------
(* What is ahead in the running line has not been handled by any job. *)
LEMMA AheadUnhandled ==
  ASSUME Position, UnhandledKept, pc \in {"left", "right", "blur"},
         NEW k \in 0 .. LineLen - 1, pc = "blur" => k >= x
  PROVE  image[Cell(y, k)] = before[Cell(y, k)]
<1>1. core \in todo /\ y \in FirstLine(core) .. LimitLine(core) - 1 /\ y \in 0 .. Count - 1
  BY JobRange, Sizes DEF Position, IndicesOK, Running
<1>2. ~Handled(y, k)
  BY <1>1, JobsDisjoint DEF Position, IndicesOK, Handled
<1> QED
  BY <1>1, <1>2 DEF UnhandledKept

(* A step handles no pixel without writing it, and writes no other. *)
LEMMA KeptStep ==
  ASSUME Position, UnhandledKept, [Next]_vars PROVE UnhandledKept'
<1> USE Sizes, ArgsKept DEF Position, IndicesOK
<1> SUFFICES ASSUME NEW l \in 0 .. Count - 1, NEW k \in 0 .. LineLen - 1, ~Handled(l, k)'
             PROVE  image'[Cell(l, k)] = before[Cell(l, k)]
  BY DEF UnhandledKept
<1>1. (Handled(l, k) => Handled(l, k)') => image[Cell(l, k)] = before[Cell(l, k)]
  BY DEF UnhandledKept
<1>2. ASSUME NEW c \in 0 .. Cores - 1, BeginJob(c) PROVE Handled(l, k) => Handled(l, k)'
  BY <1>2 DEF BeginJob, Handled
<1>3. CASE EndJob
  <2>1. Handled(l, k) => Handled(l, k)'
    BY <1>3 DEF EndJob, Handled
  <2> QED
    BY <1>1, <2>1, <1>3 DEF EndJob
<1>4. CASE BeginLine
  <2>1. Handled(l, k) => Handled(l, k)'
    BY <1>4 DEF BeginLine, Handled
  <2> QED
    BY <1>1, <2>1, <1>4 DEF BeginLine
<1>5. CASE FillLeft
  <2>1. Handled(l, k) => Handled(l, k)'
    BY <1>5 DEF FillLeft, Handled
  <2> QED
    BY <1>1, <2>1, <1>5 DEF FillLeft
<1>6. CASE FillRight
  <2>1. Handled(l, k) => Handled(l, k)'
    BY <1>6 DEF FillRight, Handled
  <2> QED
    BY <1>1, <2>1, <1>6 DEF FillRight
<1>7. CASE BlurPixel
  <2>1. /\ pc = "blur" /\ todo' = todo /\ core' = core /\ x' = x + 1
        /\ \/ x' = LineLen /\ y' = y + 1 /\ pc' = "line"
           \/ x' # LineLen /\ y' = y /\ pc' = pc
        /\ image' = [image EXCEPT ![Cell(y, x)] = Scale(radius, sum)]
    BY <1>7 DEF BlurPixel
  <2>2. core \in todo /\ y \in FirstLine(core) .. LimitLine(core) - 1
    BY <2>1, JobRange DEF Running
  <2>3. Handled(l, k) => Handled(l, k)'
    BY <2>1 DEF Handled
  <2>4. ~(l = y /\ k = x)
    BY <2>1, <2>2 DEF Handled
  <2>5. Cell(l, k) # Cell(y, x)
    BY <2>4 DEF Cell
  <2>6. Cell(l, k) \in DOMAIN image
    BY DEF Cell, Cells, LineLen, Count
  <2> QED
    BY <1>1, <2>1, <2>3, <2>5, <2>6
<1>8. CASE UNCHANGED vars
  BY <1>1, <1>8 DEF vars, args, Handled
<1> QED
  BY <1>1, <1>2, <1>3, <1>4, <1>5, <1>6, <1>7, <1>8 DEF Next, BeginJob

(* The pixel that a step reads, behind the one it writes. *)
LEMMA NextPixel ==
  ASSUME Position, UnhandledKept, BlurPixel, x + 1 # LineLen
  PROVE  image'[Cell(y, pos')] = Original(y, x + 1 + radius)
<1> USE Sizes
<1>1. /\ pc = "blur" /\ image' = [image EXCEPT ![Cell(y, x)] = Scale(radius, sum)]
      /\ pos' = IF pos < LineLen - 1 THEN pos + 1 ELSE pos
      /\ x \in 0 .. LineLen - 2 /\ y \in 0 .. Count - 1 /\ DOMAIN image = Cells /\ radius \in 2 .. 254
      /\ pos = Clamp(x + radius, LineLen)
  BY RadiiAsDocumented DEF DocumentedRadii, BlurPixel, Position, IndicesOK, Source
<1>2. pos' = Clamp(x + 1 + radius, LineLen) /\ pos' \in x + 1 .. LineLen - 1
  BY <1>1 DEF Clamp
<1>3. Cell(y, pos') # Cell(y, x) /\ Cell(y, pos') \in Cells
  BY <1>1, <1>2 DEF Cell, Cells, LineLen, Count
<1>4. image'[Cell(y, pos')] = image[Cell(y, pos')]
  BY <1>1, <1>3
<1>5. image[Cell(y, pos')] = before[Cell(y, pos')]
  BY <1>1, <1>2, AheadUnhandled
<1> QED
  BY <1>2, <1>4, <1>5 DEF Original

-----------------------------------------------------------------------------
(* The fill loops leave the window of the first pixel, and each pixel step   *)
(* moves the window by one place.                                            *)
LEMMA WindowStep ==
  ASSUME Position, UnhandledKept, Filled, WindowInStack, [Next]_vars
  PROVE  Filled' /\ WindowInStack'
<1> USE Sizes, ArgsKept
<1>1. radius \in 2 .. 254
  BY RadiiAsDocumented DEF DocumentedRadii, Position, IndicesOK
<1>2. \A k : Original(y, k) = before[Cell(y, Clamp(k, LineLen))]
  BY DEF Original
<1>3. \A k \in Int : Clamp(k, LineLen) \in 0 .. LineLen - 1
  BY DEF Clamp
<1>4. ASSUME NEW c \in 0 .. Cores - 1, BeginJob(c) PROVE Filled' /\ WindowInStack'
  BY <1>4 DEF BeginJob, Filled, WindowInStack
<1>5. CASE EndJob
  BY <1>5 DEF EndJob, Filled, WindowInStack
<1>6. CASE BeginLine
  BY <1>6, <1>1 DEF BeginLine, Filled, WindowInStack
<1>7. CASE FillLeft
  <2>1. /\ pc = "left" /\ stack' = [stack EXCEPT ![i] = image[Cell(y, pos)]] /\ y' = y
        /\ \/ i = radius /\ i' = 1 /\ pc' = "right"
           \/ i # radius /\ i' = i + 1 /\ pc' = pc
    BY <1>7 DEF FillLeft
  <2>2. image[Cell(y, pos)] = Original(y, 0)
    BY <2>1, <1>2, AheadUnhandled DEF Position, IndicesOK, Source, Clamp
  <2>3. \A j \in 0 .. i : stack'[j] = Original(y, 0)
    <3>1. \A j \in 0 .. i - 1 : stack[j] = Original(y, 0)
      BY <2>1 DEF Filled
    <3>2. i \in 0 .. radius /\ DOMAIN stack = 0 .. 2 * radius
      BY DEF Position, IndicesOK
    <3>3. \A j \in 0 .. i : stack'[j] = IF j = i THEN image[Cell(y, pos)] ELSE stack[j]
      BY <2>1, <3>2, <1>1
    <3> QED
      BY <2>2, <3>1, <3>2, <3>3, <1>1
  <2>4. Original(y, 0)' = Original(y, 0)
    BY <2>1 DEF Original, Clamp
  <2> QED
    BY <2>1, <2>3, <2>4, <1>1 DEF Filled, WindowInStack, Position, IndicesOK
<1>8. CASE FillRight
  <2>1. /\ pc = "right" /\ stack' = [stack EXCEPT ![i + radius] = image[Cell(y, pos')]] /\ y' = y
        /\ \/ i = radius /\ i' = i /\ pc' = "blur" /\ x' = 0 /\ sp' = radius
           \/ i # radius /\ i' = i + 1 /\ pc' = pc
    BY <1>8 DEF FillRight
  <2>2. pos' = Clamp(i, LineLen)
    BY <1>8, <1>1 DEF FillRight, Position, IndicesOK, Source, Clamp
  <2>3. i \in 1 .. radius
    BY <2>1, <1>1 DEF Position, IndicesOK
  <2>4. image[Cell(y, pos')] = Original(y, i)
    BY <2>1, <2>2, <2>3, <1>1, <1>2, <1>3, AheadUnhandled
  <2>5. /\ \A j \in 0 .. radius : stack'[j] = Original(y, 0)
        /\ \A j \in 1 .. i : stack'[j + radius] = Original(y, j)
    BY <2>1, <2>3, <2>4, <1>1, SMTT(30) DEF Filled, Position, IndicesOK
  <2>6. \A k : Original(y, k)' = before[Cell(y, Clamp(k, LineLen))]
    BY <2>1 DEF Original, Clamp
  <2>7. CASE i # radius
    BY <2>1, <2>3, <2>5, <2>6, <2>7, <1>1, <1>2 DEF Filled, WindowInStack
  <2>8. CASE i = radius
    <3>1. Filled'
      BY <2>1, <2>8 DEF Filled
    <3>2. \A d \in -radius .. radius : Slot(d)' = radius + d
      BY <2>1, <2>8, <1>1 DEF Slot, Wrap, Div
    <3>3. \A d \in -radius .. 0 : Clamp(d, LineLen) = Clamp(0, LineLen)
      BY <1>1 DEF Clamp
    <3>4. \A d \in -radius .. radius : stack'[radius + d] = before[Cell(y, Clamp(d, LineLen))]
      <4>1. ASSUME NEW d \in -radius .. 0 PROVE stack'[radius + d] = before[Cell(y, Clamp(d, LineLen))]
        BY <2>5, <3>3, <1>1, <1>2
      <4>2. ASSUME NEW d \in 1 .. radius PROVE stack'[radius + d] = before[Cell(y, Clamp(d, LineLen))]
        BY <2>5, <2>8, <1>1, <1>2
      <4> QED
        BY <4>1, <4>2, <1>1
    <3> QED
      BY <2>1, <2>6, <2>8, <3>1, <3>2, <3>4, <1>1 DEF WindowInStack
  <2> QED
    BY <2>7, <2>8
<1>9. CASE BlurPixel
  <2>1. /\ pc = "blur" /\ x' = x + 1 /\ sp' = Wrap(sp + 1)
        /\ image' = [image EXCEPT ![Cell(y, x)] = Scale(radius, sum)]
        /\ stack' = [stack EXCEPT ![StackStart] = image'[Cell(y, pos')]]
        /\ \/ x' = LineLen /\ pc' = "line"
           \/ x' # LineLen /\ y' = y /\ pc' = pc
    BY <1>9 DEF BlurPixel
  <2>2. CASE x' = LineLen
    BY <2>1, <2>2 DEF Filled, WindowInStack
  <2>3. CASE x' # LineLen
    <3>1. /\ x \in 0 .. LineLen - 2 /\ sp \in 0 .. 2 * radius /\ DOMAIN stack = 0 .. 2 * radius
          /\ y \in 0 .. Count - 1 /\ DOMAIN image = Cells
      BY <2>1, <2>3 DEF Position, IndicesOK
    <3>2. image'[Cell(y, pos')] = Original(y, x + 1 + radius)
      BY <1>9, <2>1, <2>3, NextPixel
    <3>3. Slot(radius)' = StackStart /\ Slot(-radius) = StackStart
      BY <2>1, <3>1, <1>1 DEF Slot, StackStart, Wrap, Div
    <3>4. \A d \in -radius .. radius - 1 :
            Slot(d)' = Slot(d + 1) /\ Slot(d + 1) # StackStart
      BY <2>1, <3>1, <1>1 DEF Slot, StackStart, Wrap, Div
    <3>5. \A d \in -radius .. radius : Slot(d) \in 0 .. 2 * radius
      BY <3>1, <1>1 DEF Slot, Wrap, Div
    <3>6. \A k : Original(y, k)' = Original(y, k)
      BY <2>1, <2>3 DEF Original, Clamp
    <3>7. \A d \in -radius .. radius : stack'[Slot(d)'] = Original(y, x + 1 + d)
      <4>1. stack'[Slot(radius)'] = Original(y, x + 1 + radius)
        BY <2>1, <3>1, <3>2, <3>3, <3>5, <1>1
      <4>2. ASSUME NEW d \in -radius .. radius - 1
            PROVE  stack'[Slot(d)'] = Original(y, x + 1 + d)
        <5>1. d + 1 \in -radius .. radius /\ x + (d + 1) = x + 1 + d
          BY <3>1, <1>1
        <5>2. stack'[Slot(d + 1)] = stack[Slot(d + 1)]
          BY <2>1, <3>1, <3>4, <3>5, <5>1
        <5>3. stack[Slot(d + 1)] = Original(y, x + (d + 1))
          BY <2>1, <5>1 DEF WindowInStack
        <5> QED
          BY <3>4, <5>1, <5>2, <5>3
      <4> QED
        BY <4>1, <4>2, <1>1
    <3>8. WindowInStack'
      BY <2>1, <2>3, <3>6, <3>7 DEF WindowInStack
    <3> QED
      BY <2>1, <2>3, <3>8 DEF Filled
  <2> QED
    BY <2>2, <2>3
<1>10. CASE UNCHANGED vars
  BY <1>10 DEF vars, args, Filled, WindowInStack, Slot, Original, Wrap, Clamp
<1> QED
  BY <1>4, <1>5, <1>6, <1>7, <1>8, <1>9, <1>10 DEF Next

-----------------------------------------------------------------------------
(* Sums.                                                                     *)
(* Induction on 0 .. n for a set. *)
LEMMA SetInduction ==
  ASSUME NEW n \in Nat, NEW S, 0 \in S, \A d \in 0 .. n - 1 : d \in S => d + 1 \in S
  PROVE  \A d \in 0 .. n : d \in S
<1> DEFINE T == {d \in 0 .. n : d \notin S}
           R == {q \in Nat \X Nat : q[1] < q[2]}
<1>1. SUFFICES ASSUME T # {} PROVE FALSE
  OBVIOUS
<1>2. IsWellFoundedOn(R, Nat)
  BY NatLessThanWellFounded DEF OpToRel
<1>3. T \subseteq Nat
  OBVIOUS
<1>4. PICK m \in T : \A e \in T : ~(<<e, m>> \in R)
  BY <1>1, <1>2, <1>3, WFMin
<1>5. m \in 1 .. n /\ m - 1 \in 0 .. n - 1 /\ m \notin S
  OBVIOUS
<1>6. m - 1 \in S
  <2>1. <<m - 1, m>> \in R
    BY <1>5
  <2> QED  BY <1>4, <1>5, <2>1
<1> QED
  <2>1. (m - 1) + 1 \in S
    BY <1>5, <1>6
  <2> QED  BY <1>5, <2>1

(* Running sums exist, and are what their name says. *)
IsSums(s, g, n) == /\ s \in [0 .. n -> Int] /\ s[0] = g[0]
                   /\ \A d \in 1 .. n : s[d] = s[d - 1] + g[d]

LEMMA SumsExist ==
  ASSUME NEW n \in Nat, NEW g \in [0 .. n -> Int] PROVE \E s : IsSums(s, g, n)
<1> DEFINE S == {m \in 0 .. n : \E s : IsSums(s, g, m)}
<1>1. 0 \in S
  <2>1. IsSums([d \in 0 .. 0 |-> g[0]], g, 0)
    BY DEF IsSums
  <2> QED  BY <2>1
<1>2. ASSUME NEW m \in 0 .. n - 1, m \in S PROVE m + 1 \in S
  <2>1. PICK s : IsSums(s, g, m)
    BY <1>2
  <2> DEFINE t == [d \in 0 .. m + 1 |-> IF d = m + 1 THEN s[m] + g[m + 1] ELSE s[d]]
  <2>2. IsSums(t, g, m + 1)
    <3>1. s \in [0 .. m -> Int] /\ s[0] = g[0] /\ \A d \in 1 .. m : s[d] = s[d - 1] + g[d]
      BY <2>1 DEF IsSums
    <3>2. t \in [0 .. m + 1 -> Int] /\ t[0] = g[0]
      BY <3>1
    <3>3. ASSUME NEW d \in 1 .. m + 1 PROVE t[d] = t[d - 1] + g[d]
      <4>1. CASE d = m + 1
        BY <4>1
      <4>2. CASE d # m + 1
        BY <3>1, <4>2
      <4> QED  BY <4>1, <4>2
    <3> HIDE DEF t
    <3> QED  BY <3>2, <3>3 DEF IsSums
  <2> HIDE DEF t
  <2> QED  BY <2>2
<1> HIDE DEF S
<1>3. \A m \in 0 .. n : m \in S
  BY <1>1, <1>2, SetInduction
<1> QED
  BY <1>3 DEF S

LEMMA SumsDef ==
  ASSUME NEW n \in Nat, NEW g \in [0 .. n -> Int] PROVE IsSums(Sums(g), g, n)
<1>1. PICK t : IsSums(t, g, n)
  BY SumsExist
<1>2. t = [d \in DOMAIN g |-> IF d = 0 THEN g[0] ELSE t[d - 1] + g[d]]
  BY <1>1 DEF IsSums
<1>3. Sums(g) = [d \in DOMAIN g |-> IF d = 0 THEN g[0] ELSE Sums(g)[d - 1] + g[d]]
  BY <1>2 DEF Sums
<1> DEFINE s == Sums(g)
<1> HIDE DEF s
<1>4. s[0] = g[0] /\ \A d \in 1 .. n : s[d] = s[d - 1] + g[d]
  BY <1>3 DEF s
<1>5. DOMAIN s = 0 .. n /\ s = [d \in 0 .. n |-> s[d]]
  BY <1>3 DEF s
<1> DEFINE S == {d \in 0 .. n : s[d] \in Int}
<1>6. 0 \in S
  BY <1>4
<1>7. \A d \in 0 .. n - 1 : d \in S => d + 1 \in S
  <2> SUFFICES ASSUME NEW d \in 0 .. n - 1, s[d] \in Int PROVE s[d + 1] \in Int
    OBVIOUS
  <2>1. s[d + 1] = s[(d + 1) - 1] + g[d + 1]
    BY <1>4
  <2>2. s[(d + 1) - 1] = s[d]
    OBVIOUS
  <2> QED  BY <2>1, <2>2
<1> HIDE DEF S
<1>8. \A d \in 0 .. n : d \in S
  BY <1>6, <1>7, SetInduction
<1>9. s \in [0 .. n -> Int]
  BY <1>5, <1>8 DEF S
<1> QED
  BY <1>4, <1>9 DEF s, IsSums

(* The window g and the window one place on, g2, with the weights w that     *)
(* rise up to the middle and fall behind it, and the weighed pixels h, h2.   *)
Sliding(n, r, w, g, g2, h, h2) ==
  /\ r \in Nat \ {0} /\ n = 2 * r
  /\ \A f \in {w, g, g2, h, h2} : f \in [0 .. n -> Int]
  /\ \A d \in 0 .. n : w[d] = IF d <= r THEN d + 1 ELSE n + 1 - d
  /\ \A d \in 0 .. n : h[d] = w[d] * g[d] /\ h2[d] = w[d] * g2[d]
  /\ \A d \in 0 .. n - 1 : g2[d] = g[d + 1]

(* One place on, the pixels up to the middle lose one of their weight, those *)
(* behind it gain one, and one pixel is new: what BlurPixel does to its sums.*)
LEMMA Slide ==
  ASSUME NEW n, NEW r, NEW w, NEW g, NEW g2, NEW h, NEW h2, Sliding(n, r, w, g, g2, h, h2)
  PROVE  /\ Sums(h2)[n] = Sums(h)[n] - Sums(g)[r] + (Sums(g)[n] - Sums(g)[r]) + g2[n]
         /\ Sums(g2)[r] = Sums(g)[r] - g[0] + g2[r]
         /\ Sums(g2)[n] = Sums(g)[n] - g[0] + g2[n]
<1> DEFINE U == Sums(g)
           U2 == Sums(g2)
           P == Sums(h)
           P2 == Sums(h2)
<1>1. n \in Nat /\ r \in 1 .. n - 1 /\ n = r + r
  BY DEF Sliding
<1>2. IsSums(U, g, n) /\ IsSums(U2, g2, n) /\ IsSums(P, h, n) /\ IsSums(P2, h2, n)
  BY <1>1, SumsDef DEF Sliding
<1> HIDE DEF U, U2, P, P2
<1>3. /\ U \in [0 .. n -> Int] /\ U[0] = g[0] /\ \A d \in 1 .. n : U[d] = U[d - 1] + g[d]
      /\ U2 \in [0 .. n -> Int] /\ U2[0] = g2[0] /\ \A d \in 1 .. n : U2[d] = U2[d - 1] + g2[d]
      /\ P \in [0 .. n -> Int] /\ P[0] = h[0] /\ \A d \in 1 .. n : P[d] = P[d - 1] + h[d]
      /\ P2 \in [0 .. n -> Int] /\ P2[0] = h2[0] /\ \A d \in 1 .. n : P2[d] = P2[d - 1] + h2[d]
  BY <1>2 DEF IsSums
<1>4. \A d \in 0 .. n : /\ g[d] \in Int /\ g2[d] \in Int /\ h[d] \in Int /\ h2[d] \in Int
                        /\ U[d] \in Int /\ U2[d] \in Int /\ P[d] \in Int /\ P2[d] \in Int
                        /\ w[d] \in Int /\ w[d] = IF d <= r THEN d + 1 ELSE n + 1 - d
                        /\ h[d] = w[d] * g[d] /\ h2[d] = w[d] * g2[d]
  BY <1>1, <1>3 DEF Sliding
<1> DEFINE Follows(d, e) == d \in 0 .. n - 1 /\ e = d + 1
<1> HIDE DEF Follows
<1>5. ASSUME NEW d, NEW e, Follows(d, e)
      PROVE  /\ d \in 0 .. n /\ e \in 1 .. n /\ e \in 0 .. n /\ e = d + 1 /\ e - 1 = d /\ g2[d] = g[e]
             /\ U[e] = U[d] + g[e] /\ U2[e] = U2[d] + g2[e]
             /\ P[e] = P[d] + h[e] /\ P2[e] = P2[d] + h2[e]
  <2>1. /\ d \in 0 .. n /\ d \in 0 .. n - 1
        /\ e \in 1 .. n /\ e \in 0 .. n /\ e = d + 1 /\ e - 1 = d
    BY <1>1, <1>5 DEF Follows
  <2>2. g2[d] = g[e]
    BY <1>1, <2>1 DEF Sliding
  <2>3. /\ U[e] = U[e - 1] + g[e] /\ U2[e] = U2[e - 1] + g2[e]
        /\ P[e] = P[e - 1] + h[e] /\ P2[e] = P2[e - 1] + h2[e]
    BY <1>3, <2>1
  <2> QED  BY <2>1, <2>2, <2>3
<1>6. ASSUME NEW d, NEW e, Follows(d, e)
      PROVE  h[e] = IF e <= r THEN h2[d] + g[e] ELSE h2[d] - g[e]
  <2>1. d \in 0 .. n /\ e \in 0 .. n /\ e = d + 1 /\ g2[d] = g[e]
    BY <1>5, <1>6
  <2>2. h2[d] = w[d] * g[e] /\ h[e] = w[e] * g[e] /\ g[e] \in Int /\ w[d] \in Int /\ w[e] \in Int
    BY <1>4, <2>1
  <2>3. w[e] = IF e <= r THEN w[d] + 1 ELSE w[d] - 1
    <3>1. /\ w[d] = IF d <= r THEN d + 1 ELSE n + 1 - d
          /\ w[e] = IF e <= r THEN e + 1 ELSE n + 1 - e
      BY <1>4, <2>1
    <3> QED  BY <1>1, <2>1, <3>1
  <2>4. \A a, b \in Int : (a + 1) * b = a * b + b /\ (a - 1) * b = a * b - b
    OBVIOUS
  <2>5. CASE e <= r
    BY <2>2, <2>3, <2>4, <2>5
  <2>6. CASE ~(e <= r)
    BY <2>2, <2>3, <2>4, <2>6
  <2> QED
    BY <2>5, <2>6
<1>7. /\ h[0] = g[0] /\ h2[n] = g2[n]
      /\ U[0] = g[0] /\ P[0] = h[0] /\ U2[0] = g2[0] /\ P2[0] = h2[0]
      /\ Follows(0, 1) /\ Follows(n - 1, n) /\ Follows(r - 1, r)
  <2>1. w[0] = 1 /\ w[n] = 1 /\ 0 \in 0 .. n /\ n \in 0 .. n
    BY <1>1, <1>4
  <2>2. h[0] = 1 * g[0] /\ h2[n] = 1 * g2[n]
    BY <1>4, <2>1
  <2>3. Follows(0, 1) /\ Follows(n - 1, n) /\ Follows(r - 1, r)
    BY <1>1 DEF Follows
  <2>4. g[0] \in Int /\ g2[n] \in Int
    BY <1>4, <2>1
  <2>5. h[0] = g[0] /\ h2[n] = g2[n]
    BY <2>2, <2>4
  <2> QED  BY <1>3, <2>3, <2>5
<1>8. \A d \in 0 .. n - 1 : U2[d] = U[d + 1] - g[0]
  <2> DEFINE S == {d \in 0 .. n - 1 : U2[d] = U[d + 1] - g[0]}
  <2>1. 0 \in S
    <3>1. U[1] = U[0] + g[1] /\ g2[0] = g[1]
      BY <1>5, <1>7
    <3>2. 0 + 1 = 1 /\ 0 \in 0 .. n - 1 /\ 0 \in 0 .. n /\ 1 \in 0 .. n
      BY <1>1
    <3>3. g[0] \in Int /\ g[1] \in Int
      BY <1>4, <3>2
    <3>4. U2[0] = U[1] - g[0]
      BY <1>7, <3>1, <3>3
    <3> QED  BY <3>2, <3>4
  <2>2. ASSUME NEW d \in 0 .. (n - 1) - 1, d \in S PROVE d + 1 \in S
    <3> PICK e : e = d + 1
      OBVIOUS
    <3> PICK f : f = d + 2
      OBVIOUS
    <3>1. e = d + 1 /\ f = e + 1 /\ Follows(d, e) /\ Follows(e, f) /\ e \in 0 .. n - 1
      BY <1>1 DEF Follows
    <3>2. U2[d] = U[e] - g[0]
      BY <2>2, <3>1
    <3>3. U2[e] = U2[d] + g2[e] /\ U[f] = U[e] + g[f] /\ g2[e] = g[f]
      BY <1>5, <3>1
    <3>4. e \in 0 .. n /\ f \in 0 .. n /\ d \in 0 .. n /\ 0 \in 0 .. n
      BY <1>1, <1>5, <3>1
    <3>5. U[e] \in Int /\ g[0] \in Int /\ g[f] \in Int
      BY <1>4, <3>4
    <3>6. U2[e] = U[f] - g[0]
      BY <3>2, <3>3, <3>5
    <3> QED  BY <3>1, <3>6
  <2> HIDE DEF S
  <2>3. n - 1 \in Nat
    BY <1>1
  <2>4. \A d \in 0 .. n - 1 : d \in S
    BY <2>1, <2>2, <2>3, SetInduction
  <2> QED  BY <2>4 DEF S
<1>9. U2[n] = U[n] - g[0] + g2[n] /\ U2[r] = U[r] - g[0] + g2[r]
  <2>1. U2[n - 1] = U[n] - g[0] /\ U2[r - 1] = U[r] - g[0]
    <3>1. n - 1 \in 0 .. n - 1 /\ r - 1 \in 0 .. n - 1 /\ (n - 1) + 1 = n /\ (r - 1) + 1 = r
      BY <1>1
    <3> QED  BY <1>8, <3>1
  <2>2. U2[n] = U2[n - 1] + g2[n] /\ U2[r] = U2[r - 1] + g2[r]
    BY <1>5, <1>7
  <2>3. n \in 0 .. n /\ r \in 0 .. n /\ 0 \in 0 .. n
    BY <1>1
  <2> QED  BY <1>4, <2>1, <2>2, <2>3
<1> DEFINE Moved(d) == IF d <= r THEN P[d] - U[d] ELSE P[d] - U[r] + (U[d] - U[r])
<1>10. \A d \in 0 .. n - 1 : P2[d] = Moved(d + 1)
  <2> DEFINE S == {d \in 0 .. n - 1 : P2[d] = Moved(d + 1)}
  <2>1. 0 \in S
    <3>1. P[1] = P[0] + h[1] /\ U[1] = U[0] + g[1]
      BY <1>5, <1>7
    <3>2. 1 \in 0 .. n /\ 0 \in 0 .. n /\ 0 \in 0 .. n - 1 /\ 0 + 1 = 1 /\ 1 <= r
      BY <1>1
    <3>3. h[1] = h2[0] + g[1]
      BY <1>6, <1>7, <3>2
    <3>4. g[0] \in Int /\ g[1] \in Int /\ h2[0] \in Int
      BY <1>4, <3>2
    <3>5. P2[0] = P[1] - U[1]
      BY <3>1, <3>3, <3>4, <1>7
    <3> QED  BY <3>2, <3>5
  <2>2. ASSUME NEW d \in 0 .. (n - 1) - 1, d \in S PROVE d + 1 \in S
    <3> PICK e : e = d + 1
      OBVIOUS
    <3> PICK f : f = d + 2
      OBVIOUS
    <3>1. e = d + 1 /\ f = e + 1 /\ Follows(d, e) /\ Follows(e, f) /\ e \in 0 .. n - 1
      BY <1>1 DEF Follows
    <3>2. P2[d] = Moved(e)
      BY <2>2, <3>1
    <3>3. P2[e] = P2[d] + h2[e] /\ P[f] = P[e] + h[f] /\ U[f] = U[e] + g[f]
      BY <1>5, <3>1
    <3>4. h[f] = IF f <= r THEN h2[e] + g[f] ELSE h2[e] - g[f]
      BY <1>6, <3>1
    <3>5. e \in 0 .. n /\ f \in 0 .. n /\ d \in 0 .. n /\ r \in 0 .. n
      BY <1>1, <1>5, <3>1
    <3>6. /\ P[e] \in Int /\ P[f] \in Int /\ U[e] \in Int /\ U[f] \in Int /\ U[r] \in Int
          /\ g[f] \in Int /\ h[f] \in Int /\ h2[e] \in Int
      BY <1>4, <3>5
    <3>7. P2[e] = Moved(f)
      <4>1. CASE f <= r
        BY <4>1, <3>1, <3>2, <3>3, <3>4, <3>5, <3>6
      <4>2. CASE e = r
        <5>1. U[e] = U[r] /\ e <= r /\ ~(f <= r)
          BY <4>2, <1>1, <3>1
        <5>2. P2[d] = P[e] - U[e] /\ h[f] = h2[e] - g[f]
          BY <3>2, <3>4, <5>1
        <5> QED  BY <5>1, <5>2, <3>3, <3>6
      <4>3. CASE e > r
        BY <4>3, <3>1, <3>2, <3>3, <3>4, <3>5, <3>6
      <4> QED  BY <4>1, <4>2, <4>3, <1>1, <3>1, <3>5
    <3> QED  BY <3>1, <3>7
  <2> HIDE DEF S, Moved
  <2>3. n - 1 \in Nat
    BY <1>1
  <2>4. \A d \in 0 .. n - 1 : d \in S
    BY <2>1, <2>2, <2>3, SetInduction
  <2> QED  BY <2>4 DEF S
<1>11. P2[n] = P[n] - U[r] + (U[n] - U[r]) + g2[n]
  <2>1. P2[n] = P2[n - 1] + h2[n] /\ h2[n] = g2[n]
    BY <1>5, <1>7
  <2>2. n - 1 \in 0 .. n - 1 /\ (n - 1) + 1 = n /\ ~(n <= r)
    BY <1>1
  <2>3. P2[n - 1] = P[n] - U[r] + (U[n] - U[r])
    BY <1>10, <2>2
  <2> QED  BY <2>1, <2>3
<1> QED
  BY <1>9, <1>11 DEF U, U2, P, P2

-----------------------------------------------------------------------------
(* The windows of the running line.                                          *)
Bytes == before \in [Cells -> Byte]

LEMMA OriginalIsByte ==
  ASSUME Position, Bytes, NEW k \in Int, y \in 0 .. Count - 1
  PROVE  Original(y, k) \in Int
<1>1. Clamp(k, LineLen) \in 0 .. LineLen - 1
  BY Sizes DEF Clamp
<1>2. Cell(y, Clamp(k, LineLen)) \in Cells
  BY <1>1, Sizes DEF Cell, Cells, LineLen, Count, Position, IndicesOK
<1> QED
  BY <1>2 DEF Original, Bytes, Byte

LEMMA WindowSlides ==
  ASSUME Position, Bytes, NEW k \in Int, y \in 0 .. Count - 1
  PROVE  Sliding(2 * radius, radius, [d \in 0 .. 2 * radius |-> Weight(d - radius)],
                 Window(y, k), Window(y, k + 1), Weighing(y, k), Weighing(y, k + 1))
<1> DEFINE n == 2 * radius
           w == [d \in 0 .. n |-> Weight(d - radius)]
<1>1. radius \in 2 .. 254
  BY RadiiAsDocumented DEF DocumentedRadii, Position, IndicesOK
<1>2. \A d \in 0 .. n : /\ w[d] \in Int
                         /\ w[d] = IF d <= radius THEN d + 1 ELSE n + 1 - d
  BY <1>1 DEF Weight
<1>3. \A d \in 0 .. n : /\ Window(y, k)[d] = Original(y, k + d - radius)
                         /\ Window(y, k + 1)[d] = Original(y, k + 1 + d - radius)
                         /\ Weighing(y, k)[d] = w[d] * Window(y, k)[d]
                         /\ Weighing(y, k + 1)[d] = w[d] * Window(y, k + 1)[d]
  BY DEF Window, Weighing
<1>4. /\ w = [d \in 0 .. n |-> w[d]]
      /\ Window(y, k) = [d \in 0 .. n |-> Window(y, k)[d]]
      /\ Window(y, k + 1) = [d \in 0 .. n |-> Window(y, k + 1)[d]]
      /\ Weighing(y, k) = [d \in 0 .. n |-> Weighing(y, k)[d]]
      /\ Weighing(y, k + 1) = [d \in 0 .. n |-> Weighing(y, k + 1)[d]]
  BY DEF Window, Weighing
<1>5. \A d \in 0 .. n : Window(y, k)[d] \in Int /\ Window(y, k + 1)[d] \in Int
  <2> TAKE d \in 0 .. n
  <2>1. k + d - radius \in Int /\ k + 1 + d - radius \in Int
    BY <1>1
  <2>2. Original(y, k + d - radius) \in Int /\ Original(y, k + 1 + d - radius) \in Int
    BY <2>1, OriginalIsByte
  <2> QED  BY <1>3, <2>2
<1>6. \A d \in 0 .. n - 1 : Window(y, k + 1)[d] = Window(y, k)[d + 1]
  <2> TAKE d \in 0 .. n - 1
  <2>1. d \in 0 .. n /\ d + 1 \in 0 .. n /\ k + 1 + d - radius = k + (d + 1) - radius
    BY <1>1
  <2> QED  BY <1>3, <2>1
<1> HIDE DEF w
<1>7. \A d \in 0 .. n : Weighing(y, k)[d] \in Int /\ Weighing(y, k + 1)[d] \in Int
  <2> TAKE d \in 0 .. n
  <2>1. \A a, b \in Int : a * b \in Int
    OBVIOUS
  <2>2. w[d] \in Int /\ Window(y, k)[d] \in Int /\ Window(y, k + 1)[d] \in Int
    BY <1>2, <1>5
  <2>3. /\ Weighing(y, k)[d] = w[d] * Window(y, k)[d]
        /\ Weighing(y, k + 1)[d] = w[d] * Window(y, k + 1)[d]
    BY <1>3
  <2> QED  BY <2>1, <2>2, <2>3, Zenon
<1>8. n \in Nat /\ radius \in Nat \ {0} /\ n = 2 * radius
  BY <1>1
<1> HIDE DEF n
<1>9. \A f \in {w, Window(y, k), Window(y, k + 1), Weighing(y, k), Weighing(y, k + 1)} :
        f \in [0 .. n -> Int]
  <2>1. \A f : f = [d \in 0 .. n |-> f[d]] /\ (\A d \in 0 .. n : f[d] \in Int)
                 => f \in [0 .. n -> Int]
    OBVIOUS
  <2>2. w \in [0 .. n -> Int]
    BY <1>2, <1>4, <2>1, Zenon
  <2>3. Window(y, k) \in [0 .. n -> Int] /\ Window(y, k + 1) \in [0 .. n -> Int]
    BY <1>4, <1>5, <2>1, Zenon
  <2>4. Weighing(y, k) \in [0 .. n -> Int] /\ Weighing(y, k + 1) \in [0 .. n -> Int]
    BY <1>4, <1>7, <2>1, Zenon
  <2> QED  BY <2>2, <2>3, <2>4, Zenon
<1> QED
  BY <1>2, <1>3, <1>6, <1>8, <1>9 DEF Sliding, n, w

LEMMA WindowSummed ==
  ASSUME Position, Bytes, NEW k \in Int, y \in 0 .. Count - 1
  PROVE  /\ IsSums(Sums(Window(y, k)), Window(y, k), 2 * radius)
         /\ IsSums(Sums(Weighing(y, k)), Weighing(y, k), 2 * radius)
<1>1. 2 * radius \in Nat
  BY RadiiAsDocumented DEF DocumentedRadii, Position, IndicesOK
<1>2. Window(y, k) \in [0 .. 2 * radius -> Int] /\ Weighing(y, k) \in [0 .. 2 * radius -> Int]
  BY WindowSlides DEF Sliding
<1> QED
  BY <1>1, <1>2, SumsDef

LEMMA WindowKept ==
  ASSUME [Next]_vars
  PROVE  \A l, k : /\ Original(l, k)' = Original(l, k)
                   /\ Window(l, k)' = Window(l, k) /\ Weighing(l, k)' = Weighing(l, k)
                   /\ Weighted(l, k)' = Weighted(l, k)
<1>1. \A l, k : Original(l, k)' = Original(l, k)
  BY ArgsKept DEF Original, Clamp
<1>2. \A d : Weight(d)' = Weight(d)
  BY ArgsKept DEF Weight
<1>3. \A l, k : Window(l, k)' = Window(l, k) /\ Weighing(l, k)' = Weighing(l, k)
  BY <1>1, <1>2, ArgsKept DEF Window, Weighing
<1> QED
  BY <1>1, <1>3, ArgsKept DEF Weighted

-----------------------------------------------------------------------------
(* The fill loops add up the window of the first pixel, and each pixel step  *)
(* makes its sums those of the next window.                                  *)
LEMMA SumsStep ==
  ASSUME Position, Bytes, UnhandledKept, WindowInStack, WindowSums, [Next]_vars
  PROVE  WindowSums'
<1> DEFINE n == 2 * radius
           P(k) == Sums(Weighing(y, k))
           U(k) == Sums(Window(y, k))
<1>1. radius \in 2 .. 254 /\ n = radius + radius /\ 0 \in Int
  BY RadiiAsDocumented DEF DocumentedRadii, Position, IndicesOK
<1>2. radius' = radius /\ \A k : /\ Window(y, k)' = Window(y', k) /\ Weighing(y, k)' = Weighing(y', k)
                                 /\ Original(y, k)' = Original(y', k)
                                 /\ Weighted(y, k)' = Weighted(y', k)
  BY WindowKept, ArgsKept
<1>3. ASSUME NEW c \in 0 .. Cores - 1, BeginJob(c) PROVE WindowSums'
  BY <1>3 DEF BeginJob, WindowSums
<1>4. CASE EndJob
  BY <1>4 DEF EndJob, WindowSums
<1>5. CASE BeginLine
  BY <1>5 DEF BeginLine, WindowSums
<1>6. ASSUME pc \in {"left", "right", "blur"}
      PROVE  /\ IsSums(P(0), Weighing(y, 0), n) /\ IsSums(U(0), Window(y, 0), n)
             /\ y \in 0 .. Count - 1
  <2>1. y \in 0 .. Count - 1
    BY <1>6, Sizes DEF Position, IndicesOK
  <2> QED  BY <2>1, <1>1, WindowSummed
<1>7. \A d \in 0 .. n : /\ Window(y, 0)[d] = Original(y, d - radius)
                         /\ Weighing(y, 0)[d] = Weight(d - radius) * Original(y, d - radius)
  <2>1. \A d \in 0 .. n : 0 + d - radius = d - radius
    BY <1>1
  <2> QED  BY <2>1 DEF Window, Weighing
<1>8. CASE FillLeft
  <2> DEFINE v == image[Cell(y, pos)]
  <2>1. /\ pc = "left" /\ y' = y /\ sum' = sum + v * RampUp(i) /\ sumOut' = sumOut + v /\ sumIn' = sumIn
        /\ \/ i = radius /\ i' = 1 /\ pc' = "right"
           \/ i # radius /\ i' = i + 1 /\ pc' = pc
    BY <1>8 DEF FillLeft, sums
  <2>2. i \in 0 .. radius /\ pos = 0 /\ 0 \in 0 .. LineLen - 1
    BY <2>1, Sizes DEF Position, IndicesOK, Source
  <2>3. v = Original(y, i - radius) /\ v \in Int
    <3>1. v = before[Cell(y, 0)]
      BY <2>1, <2>2, AheadUnhandled
    <3>2. Clamp(i - radius, LineLen) = 0 /\ i - radius \in Int
      BY <2>2, <1>1, Sizes DEF Clamp
    <3> QED  BY <3>1, <3>2, <2>1, <1>6, OriginalIsByte DEF Original
  <2> HIDE DEF v
  <2>4. Window(y, 0)[i] = v /\ Weighing(y, 0)[i] = v * (i + 1)
    <3>1. i \in 0 .. n
      BY <2>2, <1>1
    <3>2. Weight(i - radius) = i + 1
      BY <2>2, <1>1 DEF Weight
    <3>3. (i + 1) * v = v * (i + 1)
      BY <2>2, <2>3
    <3> QED  BY <3>1, <3>2, <3>3, <2>3, <1>7
  <2>5. sum' = P(0)[i] /\ sumOut' = U(0)[i] /\ sumIn' = 0
    <3>1. /\ sum = IF i = 0 THEN 0 ELSE P(0)[i - 1]
          /\ sumOut = IF i = 0 THEN 0 ELSE U(0)[i - 1]
          /\ sumIn = 0
      BY <2>1 DEF WindowSums
    <3>2. v * RampUp(i) = v * (i + 1) /\ v * (i + 1) \in Int
      BY <2>2, <2>3 DEF RampUp
    <3>3. CASE i = 0
      <4>1. P(0)[0] = Weighing(y, 0)[0] /\ U(0)[0] = Window(y, 0)[0]
        BY <2>1, <1>6 DEF IsSums
      <4> QED  BY <4>1, <3>1, <3>2, <3>3, <2>1, <2>3, <2>4
    <3>4. CASE i # 0
      <4>1. i \in 1 .. n /\ i - 1 \in 0 .. n
        BY <3>4, <2>2, <1>1
      <4>2. /\ P(0)[i] = P(0)[i - 1] + Weighing(y, 0)[i]
            /\ U(0)[i] = U(0)[i - 1] + Window(y, 0)[i]
        BY <4>1, <2>1, <1>6 DEF IsSums
      <4> QED  BY <4>2, <3>1, <3>2, <3>4, <2>1, <2>4
    <3> QED  BY <3>3, <3>4
  <2>6. \A k : Window(y, k)' = Window(y, k) /\ Weighing(y, k)' = Weighing(y, k)
    BY <2>1, <1>2
  <2>7. CASE i # radius
    <3>1. i' - 1 = i /\ i' # 0 /\ pc' = "left"
      BY <2>1, <2>2, <2>7, <1>1
    <3> QED  BY <3>1, <2>5, <2>6 DEF WindowSums
  <2>8. CASE i = radius
    <3>1. radius' + i' - 1 = radius /\ pc' = "right" /\ radius' = radius
      BY <2>1, <2>8, <1>1, <1>2
    <3>2. U(0)[radius] \in Int
      <4>1. U(0) \in [0 .. n -> Int] /\ radius \in 0 .. n
        BY <2>1, <1>1, <1>6 DEF IsSums
      <4> QED  BY <4>1
    <3>3. sumIn' = U(0)[radius] - sumOut'
      BY <3>2, <2>5, <2>8
    <3> QED  BY <3>1, <3>3, <2>5, <2>6, <2>8 DEF WindowSums
  <2> QED  BY <2>7, <2>8
<1>9. CASE FillRight
  <2> DEFINE v == image[Cell(y, pos')]
  <2>1. /\ pc = "right" /\ y' = y /\ sum' = sum + v * RampDown(i) /\ sumIn' = sumIn + v /\ sumOut' = sumOut
        /\ \/ i = radius /\ i' = i /\ pc' = "blur" /\ x' = 0
           \/ i # radius /\ i' = i + 1 /\ pc' = pc
    BY <1>9 DEF FillRight
  <2>2. i \in 1 .. radius /\ pos' = Clamp(i, LineLen) /\ pos' \in 0 .. LineLen - 1
    <3>1. i \in 1 .. radius
      BY <2>1, <1>1 DEF Position, IndicesOK
    <3>2. pos' = Clamp(i, LineLen)
      BY <1>9, <3>1, <1>1, Sizes DEF FillRight, Position, IndicesOK, Source, Clamp
    <3> QED  BY <3>1, <3>2, Sizes DEF Clamp
  <2>3. v = Original(y, i) /\ v \in Int
    <3>1. v = before[Cell(y, pos')]
      BY <2>1, <2>2, AheadUnhandled
    <3>2. Original(y, i) \in Int
      BY <2>1, <2>2, <1>6, OriginalIsByte
    <3> QED  BY <3>1, <3>2, <2>2 DEF Original
  <2> HIDE DEF v
  <2> DEFINE e == radius + i
  <2>4. e \in 1 .. n /\ e \in 0 .. n /\ e - 1 \in 0 .. n /\ e - radius = i
    BY <2>2, <1>1
  <2>5. Window(y, 0)[e] = v /\ Weighing(y, 0)[e] = v * (radius + 1 - i)
    <3>1. Weight(e - radius) = radius + 1 - i
      BY <2>2, <2>4, <1>1 DEF Weight
    <3>2. (radius + 1 - i) * v = v * (radius + 1 - i)
      BY <2>2, <2>3, <1>1
    <3> QED  BY <3>1, <3>2, <2>3, <2>4, <1>7
  <2>6. /\ sum = P(0)[e - 1] /\ sumOut = U(0)[radius] /\ sumIn = U(0)[e - 1] - sumOut
    <3>1. radius + i - 1 = e - 1
      BY <2>2, <1>1
    <3> HIDE DEF e
    <3>2. sum = P(0)[radius + i - 1] /\ sumOut = U(0)[radius] /\ sumIn = U(0)[radius + i - 1] - sumOut
      BY <2>1, Zenon DEF WindowSums
    <3> QED  BY <3>1, <3>2, Zenon
  <2> HIDE DEF e
  <2>7. sum' = P(0)[e] /\ sumOut' = U(0)[radius] /\ sumIn' = U(0)[e] - sumOut'
    <3>1. /\ P(0)[e] = P(0)[e - 1] + Weighing(y, 0)[e]
          /\ U(0)[e] = U(0)[e - 1] + Window(y, 0)[e]
      BY <2>1, <2>4, <1>6 DEF IsSums
    <3>2. v * RampDown(i) = v * (radius + 1 - i)
      BY DEF RampDown
    <3>3. sum' = P(0)[e] /\ sumOut' = sumOut
      BY <3>1, <3>2, <2>1, <2>5, <2>6
    <3>4. U(0)[e - 1] \in Int /\ U(0)[radius] \in Int
      <4>1. U(0) \in [0 .. n -> Int] /\ radius \in 0 .. n
        BY <2>1, <1>1, <1>6 DEF IsSums
      <4> QED  BY <4>1, <2>4
    <3>5. sumIn' = (U(0)[e - 1] - U(0)[radius]) + v /\ U(0)[e] = U(0)[e - 1] + v
      BY <3>1, <2>1, <2>5, <2>6
    <3> QED  BY <3>3, <3>4, <3>5, <2>3, <2>6
  <2>8. \A k : Window(y, k)' = Window(y, k) /\ Weighing(y, k)' = Weighing(y, k)
    BY <2>1, <1>2
  <2>9. CASE i # radius
    <3>1. radius' + i' - 1 = e /\ pc' = "right" /\ radius' = radius
      BY <2>1, <2>2, <2>9, <1>1, <1>2 DEF e
    <3> QED  BY <3>1, <2>7, <2>8 DEF WindowSums
  <2>10. CASE i = radius
    <3>1. 2 * radius' = e /\ pc' = "blur" /\ radius' = radius /\ x' = 0
      BY <2>1, <2>10, <1>1, <1>2 DEF e
    <3> QED  BY <3>1, <2>7, <2>8 DEF WindowSums, Weighted
  <2> QED  BY <2>9, <2>10
<1>10. CASE BlurPixel
  <2> DEFINE v == image'[Cell(y, pos')]
  <2>1. /\ pc = "blur" /\ x' = x + 1 /\ sp' = Wrap(sp + 1)
        /\ stack' = [stack EXCEPT ![StackStart] = v]
        /\ sum' = sum - sumOut + sumIn + v
        /\ sumOut' = sumOut - stack[StackStart] + stack'[sp']
        /\ sumIn' = sumIn + v - stack'[sp']
        /\ \/ x' = LineLen /\ pc' = "line"
           \/ x' # LineLen /\ y' = y /\ pc' = pc
    BY <1>10 DEF BlurPixel
  <2> HIDE DEF v
  <2>2. CASE x' = LineLen
    BY <2>1, <2>2 DEF WindowSums
  <2>3. CASE x' # LineLen
    <3>1. /\ x \in Int /\ x + 1 \in Int /\ sp \in 0 .. n /\ DOMAIN stack = 0 .. n /\ y \in 0 .. Count - 1
          /\ y' = y /\ pc' = "blur" /\ x' = x + 1 /\ pc = "blur"
      BY <2>1, <2>3, Sizes DEF Position, IndicesOK
    <3>2. /\ Slot(-radius) = StackStart /\ Slot(1) = sp' /\ sp' # StackStart
          /\ StackStart \in 0 .. n /\ sp' \in 0 .. n
      BY <2>1, <3>1, <1>1 DEF Slot, StackStart, Wrap, Div
    <3>3. stack[StackStart] = Original(y, x - radius)
      <4>1. -radius \in -radius .. radius /\ x + (-radius) = x - radius
        BY <3>1, <1>1
      <4> QED  BY <4>1, <3>1, <3>2 DEF WindowInStack
    <3>4. stack'[sp'] = Original(y, x + 1) /\ v = Original(y, x + 1 + radius)
      <4>1. 1 \in -radius .. radius
        BY <1>1
      <4>2. stack'[sp'] = stack[Slot(1)]
        BY <2>1, <3>1, <3>2
      <4>3. stack[Slot(1)] = Original(y, x + 1)
        BY <4>1, <3>1 DEF WindowInStack
      <4>4. v = Original(y, x + 1 + radius)
        BY <1>10, <2>1, <2>3, NextPixel DEF v
      <4> QED  BY <4>2, <4>3, <4>4
    <3> DEFINE g == Window(y, x)
               g2 == Window(y, x + 1)
    <3>5. g[0] = stack[StackStart] /\ g2[radius] = stack'[sp'] /\ g2[n] = v
      <4>1. /\ 0 \in 0 .. n /\ radius \in 0 .. n /\ n \in 0 .. n /\ x + 0 - radius = x - radius
            /\ x + 1 + radius - radius = x + 1 /\ x + 1 + n - radius = x + 1 + radius
        BY <3>1, <1>1
      <4>2. \A d \in 0 .. n : g[d] = Original(y, x + d - radius) /\ g2[d] = Original(y, x + 1 + d - radius)
        BY DEF Window
      <4>3. g[0] = Original(y, x + 0 - radius) /\ g2[radius] = Original(y, x + 1 + radius - radius)
            /\ g2[n] = Original(y, x + 1 + n - radius)
        BY <4>1, <4>2
      <4> QED  BY <4>1, <4>3, <3>3, <3>4
    <3>6. /\ P(x + 1)[n] = P(x)[n] - U(x)[radius] + (U(x)[n] - U(x)[radius]) + g2[n]
          /\ U(x + 1)[radius] = U(x)[radius] - g[0] + g2[radius]
          /\ U(x + 1)[n] = U(x)[n] - g[0] + g2[n]
      <4>1. Sliding(n, radius, [d \in 0 .. n |-> Weight(d - radius)], g, g2,
                    Weighing(y, x), Weighing(y, x + 1))
        BY <3>1, WindowSlides
      <4> DEFINE w == [d \in 0 .. n |-> Weight(d - radius)]
                 h == Weighing(y, x)
                 h2 == Weighing(y, x + 1)
      <4> HIDE DEF n, g, g2, w, h, h2
      <4>2. /\ Sums(h2)[n] = Sums(h)[n] - Sums(g)[radius] + (Sums(g)[n] - Sums(g)[radius]) + g2[n]
            /\ Sums(g2)[radius] = Sums(g)[radius] - g[0] + g2[radius]
            /\ Sums(g2)[n] = Sums(g)[n] - g[0] + g2[n]
        <5>1. Sliding(n, radius, w, g, g2, h, h2)
          BY <4>1 DEF w, h, h2
        <5> QED  BY <5>1, Slide
      <4> QED  BY <4>2, Zenon DEF g, g2, h, h2
    <3>7. /\ sum = P(x)[n] /\ sumOut = U(x)[radius] /\ sumIn = U(x)[n] - sumOut
      BY <3>1 DEF WindowSums, Weighted
    <3>8. P(x)[n] \in Int /\ U(x)[n] \in Int /\ U(x)[radius] \in Int
          /\ g[0] \in Int /\ g2[radius] \in Int /\ g2[n] \in Int
      <4>1. radius \in 0 .. n /\ n \in 0 .. n /\ 0 \in 0 .. n
        BY <1>1
      <4>2. IsSums(P(x), Weighing(y, x), n) /\ IsSums(U(x), Window(y, x), n)
        BY <3>1, WindowSummed
      <4>3. P(x) \in [0 .. n -> Int] /\ U(x) \in [0 .. n -> Int]
        BY <4>2, Zenon DEF IsSums
      <4>4. g \in [0 .. n -> Int] /\ g2 \in [0 .. n -> Int]
        BY <3>1, WindowSlides DEF Sliding
      <4> QED  BY <4>3, <4>4, <4>1
    <3> HIDE DEF g, g2, n, U, P
    <3>9. /\ sum' = P(x + 1)[n] /\ sumOut' = U(x + 1)[radius]
          /\ sumIn' = U(x + 1)[n] - sumOut'
      <4>1. /\ sum' = sum - sumOut + sumIn + g2[n]
            /\ sumOut' = sumOut - g[0] + g2[radius]
            /\ sumIn' = sumIn + g2[n] - g2[radius]
        BY <2>1, <3>5
      <4> QED  BY <4>1, <3>6, <3>7, <3>8
    <3>10. \A k : Window(y, k)' = Window(y, k) /\ Weighing(y, k)' = Weighing(y, k)
      BY <3>1, <1>2
    <3> QED  BY <3>1, <3>9, <3>10, <1>2 DEF WindowSums, Weighted, n, U, P
  <2> QED  BY <2>2, <2>3
<1>11. CASE UNCHANGED vars
  <2>1. UNCHANGED <<pc, i, x, y, sum, sumOut, sumIn>>
    BY <1>11 DEF vars, sums
  <2> QED  BY <2>1, <1>2, WindowKept DEF WindowSums
<1> QED
  BY <1>3, <1>4, <1>5, <1>8, <1>9, <1>10, <1>11 DEF Next

(* A step handles no other pixel than the one it writes, and writes what the *)
(* sum of its window makes of it.                                            *)
LEMMA AveragedStep ==
  ASSUME Position, WindowSums, HandledAveraged, [Next]_vars
  PROVE  HandledAveraged'
<1> USE Sizes, ArgsKept
<1> SUFFICES ASSUME NEW l \in 0 .. Count - 1, NEW k \in 0 .. LineLen - 1, Handled(l, k)'
             PROVE  image'[Cell(l, k)] = Scale(radius, Weighted(l, k))
  BY WindowKept DEF HandledAveraged, Scale
<1>1. Handled(l, k) => image[Cell(l, k)] = Scale(radius, Weighted(l, k))
  BY DEF HandledAveraged
<1>2. k \in Int /\ l \in Int /\ k >= 0
  OBVIOUS
<1> USE DEF Position, IndicesOK
<1>3. ASSUME NEW c \in 0 .. Cores - 1, BeginJob(c) PROVE Handled(l, k) /\ image' = image
  BY <1>3, JobRange DEF BeginJob, Handled
<1>4. CASE EndJob
  <2>1. Handled(l, k) /\ image' = image
    BY <1>4, JobRange DEF EndJob, Handled
  <2> QED  BY <1>1, <2>1
<1>5. CASE BeginLine
  <2>1. Handled(l, k) /\ image' = image
    BY <1>5 DEF BeginLine, Handled
  <2> QED  BY <1>1, <2>1
<1>6. CASE FillLeft
  <2>1. Handled(l, k) /\ image' = image
    BY <1>6 DEF FillLeft, Handled
  <2> QED  BY <1>1, <2>1
<1>7. CASE FillRight
  <2>1. Handled(l, k) /\ image' = image
    BY <1>7, <1>2 DEF FillRight, Handled
  <2> QED  BY <1>1, <2>1
<1>8. CASE BlurPixel
  <2>1. /\ pc = "blur" /\ todo' = todo /\ core' = core /\ x' = x + 1
        /\ \/ x' = LineLen /\ y' = y + 1 /\ pc' = "line"
           \/ x' # LineLen /\ y' = y /\ pc' = pc
        /\ image' = [image EXCEPT ![Cell(y, x)] = Scale(radius, sum)]
    BY <1>8 DEF BlurPixel
  <2>2. sum = Weighted(y, x)
    BY <2>1 DEF WindowSums
  <2>3. Handled(l, k) \/ (l = y /\ k = x)
    BY <2>1, <1>2 DEF Handled
  <2>4. Cell(l, k) \in DOMAIN image
    BY DEF Cell, Cells, LineLen, Count
  <2>5. CASE l = y /\ k = x
    BY <2>1, <2>2, <2>4, <2>5
  <2>6. CASE ~(l = y /\ k = x)
    <3>1. Cell(l, k) # Cell(y, x)
      BY <2>6 DEF Cell
    <3> QED  BY <1>1, <2>1, <2>3, <2>4, <2>6, <3>1
  <2> QED  BY <2>5, <2>6
<1>9. CASE UNCHANGED vars
  <2>1. Handled(l, k) /\ image' = image
    BY <1>9 DEF vars, Handled
  <2> QED  BY <1>1, <2>1
<1> QED
  BY <1>1, <1>3, <1>4, <1>5, <1>6, <1>7, <1>8, <1>9 DEF Next

(* The inductive invariant. *)
THEOREM Inductive == Spec => []IInv
<1>1. Init => IInv
  <2> SUFFICES ASSUME Init PROVE IInv
    OBVIOUS
  <2>1. IndicesOK /\ Running /\ Source
    BY InitPosition DEF Position
  <2>2. before \in [Cells -> Byte] /\ UnhandledKept
    BY ImagesAreBytes DEF Init, UnhandledKept
  <2>3. Filled /\ WindowInStack /\ WindowSums
    BY DEF Init, Filled, WindowInStack, WindowSums
  <2>4. HandledAveraged
    BY DEF Init, HandledAveraged, Handled
  <2> QED  BY <2>1, <2>2, <2>3, <2>4 DEF IInv
<1>2. IInv /\ [Next]_vars => IInv'
  <2> SUFFICES ASSUME IInv, [Next]_vars PROVE IInv'
    OBVIOUS
  <2>1. /\ Position /\ Bytes /\ UnhandledKept /\ Filled
        /\ WindowInStack /\ WindowSums /\ HandledAveraged
    BY DEF IInv, Position, Bytes
  <2>2. Position' /\ UnhandledKept'
    BY <2>1, PositionStep, KeptStep
  <2>3. Filled' /\ WindowInStack'
    BY <2>1, WindowStep
  <2>4. WindowSums' /\ HandledAveraged'
    BY <2>1, SumsStep, AveragedStep
  <2>5. before' \in [Cells -> Byte]
    BY <2>1, ArgsKept DEF Bytes
  <2> QED  BY <2>2, <2>3, <2>4, <2>5 DEF IInv, Position
<1> QED
  BY <1>1, <1>2, PTL DEF Spec

(* For every image, radius and number of jobs, in place and with a stack     *)
(* that wraps, each pixel is computed from the original pixels around it.    *)
THEOREM WindowCorrect == Spec => []WindowInStack
<1>1. IInv => WindowInStack
  BY DEF IInv
<1> QED
  BY Inductive, <1>1, PTL

(* No job writes a pixel of another job, or one behind its own place again:  *)
(* until it is handled, a pixel keeps its original value.                    *)
THEOREM UnhandledCorrect == Spec => []UnhandledKept
<1>1. IInv => UnhandledKept
  BY DEF IInv
<1> QED
  BY Inductive, <1>1, PTL

(* When every job has ended, every pixel has been handled. *)
THEOREM NothingLeftOutCorrect == Spec => []NothingLeftOut
<1>1. IndicesOK => NothingLeftOut
  BY JobsCover DEF NothingLeftOut, Handled
<1> QED
  BY IndicesCorrect, <1>1, PTL

(* For every image, radius and number of jobs, in whatever order these run:  *)
(* each pixel is the weighted average of the original line around it, the    *)
(* sums that are carried along being those that a fresh sum would give.      *)
THEOREM BlurredCorrect == Spec => []Blurred
<1>1. IndicesOK => NothingLeftOut
  BY JobsCover DEF NothingLeftOut, Handled
<1>2. IInv /\ NothingLeftOut => Blurred
  BY DEF IInv, Blurred
<1> QED
  BY Inductive, IndicesCorrect, <1>1, <1>2, PTL

(* The blur is one of the programs of the examples: what is proved of it     *)
(* holds of every run of these.                                              *)
THEOREM ExamplesBlur == ExamplesSpec => Spec
<1>1. ExamplesInit => Init
  BY DEF ExamplesInit, BlurInit, FilesInit, NaclInit, NoBlur
<1>2. [ExamplesNext]_allVars => [Next]_vars
  BY DEF ExamplesNext, BlurStep, FilesStep, NaclStep, allVars, blurVars
<1> QED
  BY <1>1, <1>2, PTL DEF ExamplesSpec, Spec
-----------------------------------------------------------------------------
(* The file search. *)

(* The library's operators, reached through the instance, are those the      *)
(* library's theorems are about.                                             *)
LEMMA SameOperators ==
  /\ \A S : Files!Cardinality(S) = Cardinality(S)
  /\ \A s : Files!Last(s) = Last(s) /\ Files!Front(s) = Front(s) /\ Files!ToSet(s) = ToSet(s)
  /\ \A b, c : Files!(+)(b, c) = b (+) c 
  /\ \A S : Files!SetToBag(S) = SetToBag(S)
  /\ \A b : Files!BagToSet(b) = BagToSet(b)
<1>1. \A S : Files!Cardinality(S) = Cardinality(S)
  BY DEF Files!Cardinality, Cardinality
<1>2. \A s : Files!Last(s) = Last(s) /\ Files!Front(s) = Front(s) /\ Files!ToSet(s) = ToSet(s)
  BY DEF Files!Last, Files!Front, Files!ToSet, Last, Front, ToSet
<1>3. /\ \A b, c : Files!(+)(b, c) = b (+) c 
  BY DEF Files!(+), (+)
<1>4. \A S : Files!SetToBag(S) = SetToBag(S)
  BY DEF Files!SetToBag, SetToBag
<1>5. \A b : Files!BagToSet(b) = BagToSet(b)
  BY DEF Files!BagToSet, BagToSet
<1> QED
  BY <1>1, <1>2, <1>3, <1>4, <1>5

(* A sequence without its last element. *)
LEMMA FrontOf ==
  ASSUME NEW S, NEW s \in Seq(S), s # <<>>
  PROVE  /\ Len(s) \in Nat \ {0} /\ DOMAIN s = 1 .. Len(s) /\ Last(s) = s[Len(s)]
         /\ Front(s) \in Seq(S) /\ Len(Front(s)) = Len(s) - 1 /\ DOMAIN Front(s) = 1 .. Len(s) - 1
         /\ \A k \in 1 .. Len(s) - 1 : Front(s)[k] = s[k]
<1>1. Len(s) \in Nat \ {0} /\ DOMAIN s = 1 .. Len(s) /\ \A k \in 1 .. Len(s) : s[k] \in S
  BY EmptySeq, LenProperties, ElementOfSeq
<1>2. /\ Front(s) \in Seq(S) /\ Len(Front(s)) = Len(s) - 1
      /\ \A k \in 1 .. Len(s) - 1 : Front(s)[k] = s[k]
  BY <1>1, SubSeqProperties DEF Front
<1>3. DOMAIN Front(s) = 1 .. Len(Front(s))
  BY <1>2, LenProperties
<1> QED
  BY <1>1, <1>2, <1>3 DEF Last

(* A bag with one more of an element. *)
LEMMA BagAdd ==
  ASSUME NEW b, NEW e, NEW c, c = b (+) SetToBag({e})
  PROVE  /\ DOMAIN c = DOMAIN b \cup {e}
         /\ \A d \in DOMAIN b : d # e => c[d] = b[d] + 0
         /\ c[e] = (IF e \in DOMAIN b THEN b[e] ELSE 0) + 1
BY DEF (+), SetToBag

(* A path that can be followed can be followed in part, and when more is     *)
(* there.                                                                    *)
LEMMA ReachesPrefix ==
  ASSUME NEW p \in Seq(Files!Entries), NEW q \in Seq(Files!Entries), NEW S, NEW T, S \subseteq T,
         Len(q) <= Len(p), \A k \in 1 .. Len(q) : q[k] = p[k], Files!Reaches(p, S)
  PROVE  Files!Reaches(q, T)
<1> DEFINE L(t) == {k \in DOMAIN t : t[k] # "." /\ Target[t[k]] # t[k]}
<1>1. DOMAIN p = 1 .. Len(p) /\ DOMAIN q = 1 .. Len(q) /\ Len(p) \in Nat /\ Len(q) \in Nat
  BY LenProperties
<1>2. IsFiniteSet(1 .. Len(p))
  BY <1>1, FS_Interval
<1>3. IsFiniteSet(L(p)) /\ L(q) \subseteq L(p)
  <2>1. IsFiniteSet(L(p))
    BY <1>1, <1>2, FS_Subset
  <2>2. L(q) \subseteq L(p)
    BY <1>1
  <2> QED
    BY <2>1, <2>2
<1>4. IsFiniteSet(L(q)) /\ Cardinality(L(q)) <= Cardinality(L(p)) 
  BY <1>3, FS_Subset
<1>5. Cardinality(L(q)) \in Nat /\ Cardinality(L(p)) \in Nat
  BY <1>3, <1>4, FS_CardinalityType
<1>6. Files!LinksIn(q) = Cardinality(L(q)) /\ Files!LinksIn(p) = Cardinality(L(p))
  BY SameOperators, Zenon DEF Files!LinksIn
<1>7. Files!LinksIn(q) <= MaxLinks
  BY <1>4, <1>5, <1>6, FilesAssumption DEF Files!Reaches
<1>8. \A k \in DOMAIN q : q[k] # "." => q[k] \in T /\ Files!There(Target[q[k]], T)
  BY <1>1 DEF Files!Reaches, Files!There
<1> QED
  BY <1>7, <1>8 DEF Files!Reaches

(* Found, with the entries and the refusals as parameters. *)
RefusedIn(path, U, D) == \E k \in DOMAIN path : SubSeq(path, 1, k) \in U \/ SubSeq(path, 1, k - 1) \in D
FoundIn(path, S, U, D) ==
  /\ Files!Leading(path) /\ ~RefusedIn(path, U, D)
  /\ IF platform = "posix" THEN Files!Reaches(path, S)
     ELSE Files!Last(path) \in S /\ Files!Reaches(Files!Front(path), S)
PathsIn(S, U, D) == {path \in UNION {[1 .. k -> Names] : k \in 1 .. maxPath} : FoundIn(path, S, U, D)}

(* What it means for a path to be found: each entry lies in the directory    *)
(* the path before it leads to, and all but the last can be entered.         *)
LEMMA PathsInOf ==
  ASSUME Files!WorldOK, NEW S, NEW U, NEW D, NEW path \in PathsIn(S, U, D)
  PROVE  /\ ~RefusedIn(path, U, D)
         /\ path \in Seq(Names) /\ Len(path) \in Nat \ {0} /\ DOMAIN path = 1 .. Len(path)
         /\ \A k \in 1 .. Len(path) :
              /\ path[k] \in S /\ path[k] \in Names /\ Home[path[k]] = Files!DirOf(SubSeq(path, 1, k - 1))
              /\ Files!Reaches(SubSeq(path, 1, k - 1), S)
              /\ platform = "posix" => Files!Reaches(SubSeq(path, 1, k), S)
              /\ k < Len(path) => path[k] \notin Hidden
<1>1. PICK m \in 1 .. maxPath : path \in [1 .. m -> Names]
  BY DEF PathsIn
<1>2. m \in Nat \ {0} /\ maxPath \in Nat
  BY FilesAssumption DEF Files!WorldOK
<1>3. /\ path \in Seq(Names) /\ Len(path) = m /\ DOMAIN path = 1 .. m /\ path # <<>>
  <2>1. path \in Seq(Names) /\ DOMAIN path = 1 .. m
    BY <1>1, <1>2, SeqDef
  <2>2. Len(path) = m
    BY <2>1, <1>2, LenProperties
  <2> QED
    BY <2>1, <2>2, <1>2, EmptySeq
<1>4. \A t \in Seq(Names) : t \in Seq(Files!Entries)
  BY SeqMonotonic DEF Files!Entries
<1>5. /\ Front(path) \in Seq(Names) /\ Len(Front(path)) = m - 1 /\ DOMAIN Front(path) = 1 .. m - 1
      /\ Last(path) = path[m] /\ \A k \in 1 .. m - 1 : Front(path)[k] = path[k]
  BY <1>3, FrontOf
<1>6. /\ Files!Leading(path)
      /\ platform = "posix" => Files!Reaches(path, S)
      /\ platform # "posix" => Last(path) \in S /\ Files!Reaches(Front(path), S)
      /\ ~RefusedIn(path, U, D)
  <2>1. FoundIn(path, S, U, D)
    BY DEF PathsIn
  <2> QED
    BY <2>1, SameOperators, Zenon DEF FoundIn
<1>7. \A k \in 1 .. m : path[k] \in S /\ path[k] \in Names
  BY <1>1, <1>2, <1>3, <1>5, <1>6, FilesAssumption DEF Files!Reaches
<1>8. ASSUME NEW k \in 1 .. m
      PROVE /\ Home[path[k]] = Files!DirOf(SubSeq(path, 1, k - 1))
            /\ k < m => path[k] \notin Hidden
  <2>1. k \in DOMAIN path /\ (k < m => k \in DOMAIN Front(path) /\ path[k] = Front(path)[k])
    BY <1>2, <1>3, <1>5, <1>8
  <2>2. Home[path[k]] = Files!DirOf(SubSeq(path, 1, k - 1))
    BY <2>1, <1>6 DEF Files!Leading
  <2>3. k < m => path[k] \in ToSet(Front(path))
    BY <2>1 DEF ToSet
  <2> QED
    <3>1. ToSet(Front(path)) \cap Hidden = {}
      BY <1>6, SameOperators, Zenon DEF Files!Leading
    <3> QED
      BY <2>2, <2>3, <3>1
<1>9. ASSUME NEW j \in 0 .. m
      PROVE /\ SubSeq(path, 1, j) \in Seq(Names) /\ Len(SubSeq(path, 1, j)) = j
            /\ \A k \in 1 .. j : SubSeq(path, 1, j)[k] = path[k]
  BY <1>7, SubSeqProperties
<1>10. ASSUME NEW j \in 0 .. m, j < m \/ platform = "posix"
       PROVE Files!Reaches(SubSeq(path, 1, j), S)
  <2> DEFINE q == SubSeq(path, 1, j)
             front == Front(path)
  <2>1. /\ q \in Seq(Files!Entries) /\ path \in Seq(Files!Entries) /\ front \in Seq(Files!Entries)
        /\ Len(q) = j /\ \A k \in 1 .. j : q[k] = path[k]
        /\ Len(path) = m /\ Len(front) = m - 1 /\ \A k \in 1 .. m - 1 : front[k] = path[k]
    BY <1>3, <1>4, <1>5, <1>9
  <2>2. platform # "posix" => Files!Reaches(front, S)
    BY <1>6
  <2>3. SUFFICES Files!Reaches(q, S)
    OBVIOUS
  <2> HIDE DEF q, front
  <2>4. CASE platform = "posix"
    <3>1. Len(q) <= Len(path) /\ \A k \in 1 .. Len(q) : q[k] = path[k]
      BY <2>1, <1>2
    <3> QED
      BY <3>1, <2>1, <2>4, <1>6, ReachesPrefix
  <2>5. CASE platform # "posix"
    <3>1. Len(q) <= Len(front) /\ \A k \in 1 .. Len(q) : q[k] = front[k]
      BY <2>1, <2>5, <1>2, <1>10
    <3> QED
      BY <3>1, <2>1, <2>2, <2>5, ReachesPrefix
  <2> QED
    BY <2>4, <2>5
<1> QED
  BY <1>2, <1>3, <1>6, <1>7, <1>8, <1>10

(* The paths that are always there, as a set that depends on the steady      *)
(* entries and the refusals alone.                                           *)
LEMMA SteadyPathsIn ==
  /\ Files!SteadyPaths = PathsIn(steady, unseen, unlisted)
  /\ platform' = platform /\ maxPath' = maxPath
     => Files!SteadyPaths' = PathsIn(steady', unseen', unlisted')
BY DEF Files!SteadyPaths, Files!Found, Files!Refused, PathsIn, FoundIn, RefusedIn, Files!Reaches

(* They only become fewer, and none of them is refused. *)
LEMMA FewerPaths ==
  ASSUME platform' = platform, maxPath' = maxPath, steady' \subseteq steady,
         unseen \subseteq unseen', unlisted \subseteq unlisted'
  PROVE  /\ Files!SteadyPaths' \subseteq Files!SteadyPaths
         /\ Files!SteadyPaths' = PathsIn(steady', unseen', unlisted')
         /\ \A q \in Files!SteadyPaths' : ~RefusedIn(q, unseen', unlisted')
<1>1. ASSUME NEW p \in PathsIn(steady', unseen', unlisted')
      PROVE  p \in PathsIn(steady, unseen, unlisted) /\ ~RefusedIn(p, unseen', unlisted')
  <2>1. \A q : Files!Reaches(q, steady') => Files!Reaches(q, steady)
    BY DEF Files!Reaches, Files!There
  <2>2. RefusedIn(p, unseen, unlisted) => RefusedIn(p, unseen', unlisted')
    BY DEF RefusedIn
  <2> QED
    BY <2>1, <2>2 DEF PathsIn, FoundIn
<1> QED
  BY <1>1, SteadyPathsIn

(* The same for the paths of entries that are always there. *)
LEMMA SteadyPath ==
  ASSUME Files!WorldOK, NEW path \in Files!SteadyPaths
  PROVE  /\ path \in Seq(Names) /\ Len(path) \in Nat \ {0} /\ DOMAIN path = 1 .. Len(path)
         /\ \A k \in 1 .. Len(path) :
              /\ path[k] \in steady /\ path[k] \in Names /\ Home[path[k]] = Files!DirOf(SubSeq(path, 1, k - 1))
              /\ Files!Reaches(SubSeq(path, 1, k - 1), steady)
              /\ platform = "posix" => Files!Reaches(SubSeq(path, 1, k), steady)
              /\ k < Len(path) => path[k] \notin Hidden
BY SteadyPathsIn, PathsInOf

(* Comes, in the topmost call, and in one below it. *)
AtTop(q, k, listed, entry, a) ==
  \/ a \in Files!Listed /\ q[k] \in listed
  \/ a = "open"
  \/ q[k] = entry /\ (a = "read" \/ (a = "call" /\ k = Len(q)))
Below(q, k, listed, entry) == q[k] \in listed \/ (q[k] = entry /\ k = Len(q))
Due(q, k, listed, fs, a) ==
  /\ k <= Len(q) /\ \A j \in 1 .. k - 1 : q[j] = fs[j].entry
  /\ IF k = Len(fs) THEN AtTop(q, k, listed, fs[k].entry, a) ELSE Below(q, k, listed, fs[k].entry)
NoDue(q, fs, a) == \A k \in DOMAIN fs : ~Due(q, k, fs[k].may, fs, a)
OneDue(q, fs, a) == \E k \in DOMAIN fs : Due(q, k, fs[k].must, fs, a)

(* The frames of the calls in progress, and the topmost. *)
LEMMA Depth ==
  ASSUME Files!CallsNested
  PROVE  /\ Len(frames) \in Nat /\ DOMAIN frames = 1 .. Len(frames)
         /\ \A k \in 1 .. Len(frames) : frames[k] \in Files!Frames
         /\ frames # <<>> => /\ Len(frames) > 0 /\ Files!Top = frames[Len(frames)]
                             /\ Files!Top \in Files!Frames
         /\ Files!Top = Last(frames)
<1>1. frames \in Seq(Files!Frames)
  BY DEF Files!CallsNested
<1>2. Files!Top = Last(frames)
  BY SameOperators DEF Files!Top
<1>3. /\ Len(frames) \in Nat /\ DOMAIN frames = 1 .. Len(frames)
      /\ \A k \in 1 .. Len(frames) : frames[k] \in Files!Frames
  BY <1>1, LenProperties, ElementOfSeq
<1>4. frames # <<>> => Len(frames) > 0 /\ Last(frames) = frames[Len(frames)]
  BY <1>1, EmptySeq DEF Last
<1> QED
  BY <1>2, <1>3, <1>4

(* Comes, with the frames and the place as parameters: the two states of a   *)
(* step can be compared.                                                     *)
LEMMA ComesIsDue ==
  ASSUME NEW k \in 1 .. Len(frames), Len(frames) \in Nat, NEW q, NEW listed
  PROVE  Files!Comes(q, k, listed) <=> Due(q, k, listed, frames, at)
<1> DEFINE F == k <= Len(q) /\ \A j \in 1 .. k - 1 : q[j] = frames[j].entry
           C == \/ (k < Len(frames) \/ at \in Files!Listed) /\ q[k] \in listed
                \/ k = Len(frames) /\ at = "open"
                \/ /\ q[k] = frames[k].entry
                   /\ \/ k = Len(frames) /\ at = "read"
                      \/ (k < Len(frames) \/ at = "call") /\ k = Len(q)
           D == IF k = Len(frames) THEN AtTop(q, k, listed, frames[k].entry, at)
                ELSE Below(q, k, listed, frames[k].entry)
<1>1. Files!Comes(q, k, listed) <=> F /\ C
  BY DEF Files!Comes, Files!Follows, Files!InHand
<1>2. Due(q, k, listed, frames, at) <=> F /\ D
  BY DEF Due
<1>3. C <=> D
  BY DEF AtTop, Below
<1> HIDE DEF F, C, D
<1> QED
  BY <1>1, <1>2, <1>3

(* The same after a step. *)
LEMMA ComesIsDueNext ==
  ASSUME NEW k \in 1 .. Len(frames'), Len(frames') \in Nat, NEW q, NEW listed
  PROVE  Files!Comes(q, k, listed)' <=> Due(q, k, listed, frames', at')
<1> DEFINE F == k <= Len(q) /\ \A j \in 1 .. k - 1 : q[j] = frames'[j].entry
           C == \/ (k < Len(frames') \/ at' \in Files!Listed) /\ q[k] \in listed
                \/ k = Len(frames') /\ at' = "open"
                \/ /\ q[k] = frames'[k].entry
                   /\ \/ k = Len(frames') /\ at' = "read"
                      \/ (k < Len(frames') \/ at' = "call") /\ k = Len(q)
           D == IF k = Len(frames') THEN AtTop(q, k, listed, frames'[k].entry, at')
                ELSE Below(q, k, listed, frames'[k].entry)
<1>1. Files!Comes(q, k, listed)' <=> F /\ C
  BY DEF Files!Comes, Files!Follows, Files!InHand
<1>2. Due(q, k, listed, frames', at') <=> F /\ D
  BY DEF Due
<1>3. C <=> D
  BY DEF AtTop, Below
<1> HIDE DEF F, C, D
<1> QED
  BY <1>1, <1>2, <1>3

(* The invariant's two clauses about paths, in these terms. *)
LEMMA InTermsOfDue ==
  ASSUME Files!CallsNested
  PROVE  /\ Files!GivenOnce <=> \A q \in DOMAIN passed : ToSet(q) \subseteq steady \cup {"."} =>
                                  passed[q] = 1 /\ NoDue(q, frames, at)
         /\ Files!SteadyGiven <=> (at # "stopped" => \A q \in Files!SteadyPaths :
                                      q \in DOMAIN passed \/ OneDue(q, frames, at))
<1>1. \A q : NoDue(q, frames, at) <=> \A k \in DOMAIN frames : ~Files!Comes(q, k, frames[k].may)
  BY Depth, ComesIsDue DEF NoDue
<1>2. \A q : OneDue(q, frames, at) <=> \E k \in DOMAIN frames : Files!Comes(q, k, frames[k].must)
  BY Depth, ComesIsDue DEF OneDue
<1>3. \A q : Files!ToSet(q) = ToSet(q)
  BY SameOperators
<1> QED
  BY <1>1, <1>2, <1>3 DEF Files!GivenOnce, Files!SteadyGiven

(* The same after a step. *)
LEMMA InTermsOfDueNext ==
  ASSUME Len(frames') \in Nat, DOMAIN frames' = 1 .. Len(frames')
  PROVE  /\ Files!GivenOnce' <=> \A q \in DOMAIN passed' : ToSet(q) \subseteq steady' \cup {"."} =>
                                   passed'[q] = 1 /\ NoDue(q, frames', at')
         /\ Files!SteadyGiven' <=> (at' # "stopped" => \A q \in Files!SteadyPaths' :
                                       q \in DOMAIN passed' \/ OneDue(q, frames', at'))
<1>1. \A q : NoDue(q, frames', at') <=> \A k \in DOMAIN frames' : ~Files!Comes(q, k, frames[k].may)'
  BY ComesIsDueNext DEF NoDue
<1>2. \A q : OneDue(q, frames', at') <=> \E k \in DOMAIN frames' : Files!Comes(q, k, frames[k].must)'
  BY ComesIsDueNext DEF OneDue
<1>3. \A q : Files!ToSet(q) = ToSet(q)
  BY SameOperators
<1> QED
  BY <1>1, <1>2, <1>3 DEF Files!GivenOnce, Files!SteadyGiven

(* A step that gives nothing, lets no path come that did not, and keeps each *)
(* that must come, keeps both clauses.                                       *)
LEMMA PathsKept ==
  ASSUME Files!CallsNested, Len(frames') \in Nat, DOMAIN frames' = 1 .. Len(frames'),
         Files!GivenOnce, Files!SteadyGiven, at # "stopped", Files!WorldOK,
         passed' = passed, steady' \subseteq steady, Files!SteadyPaths' \subseteq Files!SteadyPaths,
         \A q \in Seq(Files!Entries) : /\ ToSet(q) \subseteq steady' \cup {"."}
                                      /\ NoDue(q, frames, at)
                                      => NoDue(q, frames', at'),
         at' # "stopped" => \A q \in Files!SteadyPaths' : OneDue(q, frames, at) => OneDue(q, frames', at')
  PROVE  Files!GivenOnce' /\ Files!SteadyGiven'
<1>1. DOMAIN passed \subseteq Seq(Files!Entries)
  BY DEF Files!WorldOK
<1>2. Files!GivenOnce'
  <2>1. SUFFICES ASSUME NEW q \in DOMAIN passed, ToSet(q) \subseteq steady' \cup {"."}
                 PROVE  passed[q] = 1 /\ NoDue(q, frames', at')
    BY InTermsOfDueNext
  <2>2. ToSet(q) \subseteq steady \cup {"."}
    BY <2>1
  <2> QED
    BY <2>1, <2>2, <1>1, InTermsOfDue
<1>3. Files!SteadyGiven'
  BY InTermsOfDue, InTermsOfDueNext
<1> QED
  BY <1>2, <1>3

(* The place below the last. *)
LEMMA NotLast ==
  ASSUME NEW n \in Nat, NEW k \in 1 .. n, k # n PROVE k \in 1 .. n - 1 /\ k < n
OBVIOUS

(* The topmost frame is replaced. *)
TopBecomes(f) == /\ Len(frames') = Len(frames) /\ DOMAIN frames' = DOMAIN frames
                 /\ frames'[Len(frames)] = f /\ frames' \in Seq(Files!Frames)
                 /\ \A k \in 1 .. Len(frames) - 1 : frames'[k] = frames[k]

(* A step that changes only the topmost frame: what may come below it is as  *)
(* before.                                                                   *)
LEMMA TopMay ==
  ASSUME Files!CallsNested, frames # <<>>, NEW f, TopBecomes(f), NEW q, NoDue(q, frames, at),
         Len(frames) <= Len(q) /\ AtTop(q, Len(frames), f.may, f.entry, at')
         => AtTop(q, Len(frames), Files!Top.may, Files!Top.entry, at)
  PROVE  NoDue(q, frames', at')
<1>1. SUFFICES ASSUME NEW k \in 1 .. Len(frames), Due(q, k, frames'[k].may, frames', at')
               PROVE  Due(q, k, frames[k].may, frames, at)
  BY Depth DEF NoDue, TopBecomes
<1>2. Len(frames) \in Nat /\ Files!Top = frames[Len(frames)]
  BY Depth
<1>3. \A j \in 1 .. k - 1 : frames'[j] = frames[j]
  BY <1>2 DEF TopBecomes
<1>4. CASE k = Len(frames)
  BY <1>1, <1>2, <1>3, <1>4 DEF Due, TopBecomes
<1>5. CASE k # Len(frames)
  <2>1. frames'[k] = frames[k] /\ k # Len(frames')
    <3>1. k \in 1 .. Len(frames) - 1
      BY <1>2, <1>5
    <3> QED
      BY <3>1, <1>5 DEF TopBecomes
  <2> QED
    BY <1>1, <1>3, <1>5, <2>1, Zenon DEF Due
<1> QED
  BY <1>4, <1>5

(* And what must come. *)
LEMMA TopMust ==
  ASSUME Files!CallsNested, frames # <<>>, NEW f, TopBecomes(f), NEW q, OneDue(q, frames, at),
         /\ Len(frames) <= Len(q) /\ \A j \in 1 .. Len(frames) - 1 : q[j] = frames[j].entry
         /\ AtTop(q, Len(frames), Files!Top.must, Files!Top.entry, at)
         => AtTop(q, Len(frames), f.must, f.entry, at')
  PROVE  OneDue(q, frames', at')
<1>1. PICK k \in 1 .. Len(frames) : Due(q, k, frames[k].must, frames, at)
  BY Depth DEF OneDue
<1>2. Len(frames) \in Nat /\ Files!Top = frames[Len(frames)] /\ DOMAIN frames = 1 .. Len(frames)
  BY Depth
<1>3. \A j \in 1 .. k - 1 : frames'[j] = frames[j]
  BY <1>2 DEF TopBecomes
<1>4. SUFFICES Due(q, k, frames'[k].must, frames', at')
  BY <1>2 DEF OneDue, TopBecomes
<1>5. CASE k = Len(frames)
  BY <1>1, <1>2, <1>3, <1>5 DEF Due, TopBecomes
<1>6. CASE k # Len(frames)
  <2>1. frames'[k] = frames[k] /\ k # Len(frames')
    <3>1. k \in 1 .. Len(frames) - 1
      BY <1>2, <1>6, NotLast
    <3> QED
      BY <3>1, <1>6, Zenon DEF TopBecomes
  <2> QED
    BY <1>1, <1>3, <1>6, <2>1, Zenon DEF Due
<1> QED
  BY <1>5, <1>6

(* A path that is always there, and agrees with the calls down to one of     *)
(* them, continues with an entry of that call's directory.                   *)
LEMMA Following ==
  ASSUME Files!WorldOK, Files!CallsNested, NEW q \in Files!SteadyPaths, NEW k \in 1 .. Len(frames),
         k <= Len(q), \A j \in 1 .. k - 1 : q[j] = frames[j].entry
  PROVE  /\ frames[k].path = SubSeq(q, 1, k - 1)
         /\ q[k] \in Files!Listing(Files!DirOf(frames[k].path))
         /\ Files!There(Files!DirOf(frames[k].path), present)
         /\ Files!Reaches(frames[k].path, present)
         /\ q[k] = frames[k].entry =>
              /\ Append(frames[k].path, frames[k].entry) = SubSeq(q, 1, k)
              /\ platform = "posix" => Files!Reaches(Append(frames[k].path, frames[k].entry), present)
              /\ k < Len(q) => /\ frames[k].entry \notin Hidden \cup {"."}
                               /\ Files!Leads(frames[k].entry, Root) \in Directories
<1> DEFINE p == frames[k].path
           w == SubSeq(q, 1, k - 1)
           e == q[k]
           r == SubSeq(q, 1, k)
<1>1. /\ q \in Seq(Names) /\ Len(q) \in Nat \ {0} /\ k \in 1 .. Len(q) /\ k \in Nat
      /\ \A j \in 1 .. Len(q) : q[j] \in steady /\ q[j] \in Names
  BY SteadyPath, Depth
<1>2. /\ Home[e] = Files!DirOf(w) /\ Files!Reaches(w, steady)
      /\ platform = "posix" => Files!Reaches(r, steady)
      /\ k < Len(q) => e \notin Hidden
  BY <1>1, SteadyPath
<1>3. k < Len(q) => Home[q[k + 1]] = Files!DirOf(r)
  <2>1. k < Len(q) => k + 1 \in 1 .. Len(q) /\ (k + 1) - 1 = k
    BY <1>1
  <2> QED
    BY <2>1, SteadyPath
<1>4. /\ w \in Seq(Names) /\ Len(w) = k - 1 /\ \A j \in 1 .. k - 1 : w[j] = q[j]
      /\ r \in Seq(Names) /\ Len(r) = k /\ \A j \in 1 .. k : r[j] = q[j]
  BY <1>1, SubSeqProperties
<1>5. p \in Seq(Files!Entries) /\ Len(p) = k - 1 /\ \A j \in 1 .. k - 1 : p[j] = frames[j].entry
  BY Depth DEF Files!CallsNested, Files!Nested, Files!Frames
<1>6. w \in Seq(Files!Entries) /\ r \in Seq(Files!Entries)
  BY <1>4, SeqMonotonic DEF Files!Entries
<1> HIDE DEF p, w, e, r
<1>7. p = w
  <2>1. \A j \in 1 .. Len(p) : p[j] = w[j]
    BY <1>4, <1>5
  <2> QED
    BY <1>4, <1>5, <1>6, <2>1, SeqEqual
<1>8. steady \subseteq present
  BY DEF Files!WorldOK
<1>9. e \in Names /\ e \in present /\ e # "."
  BY <1>1, <1>8, FilesAssumption DEF e
<1>10. e \in Files!Listing(Files!DirOf(w))
  BY <1>2, <1>8, <1>1 DEF Files!Listing, e
<1>11. Files!Reaches(w, present) /\ (platform = "posix" => Files!Reaches(r, present))
  BY <1>2, <1>4, <1>6, <1>8, ReachesPrefix
<1>12. Files!There(Files!DirOf(w), present)
  <2>1. CASE w = <<>>
    BY <2>1, SameOperators DEF Files!DirOf, Files!There
  <2>2. CASE w # <<>>
    <3>1. k - 1 \in 1 .. Len(w) /\ DOMAIN w = 1 .. Len(w) /\ Last(w) = w[k - 1] /\ w[k - 1] \in Names
      <4>1. Len(w) \in Nat \ {0} /\ DOMAIN w = 1 .. Len(w) /\ Last(w) = w[Len(w)]
        BY <2>2, <1>4, FrontOf
      <4>2. Len(w) = k - 1 /\ w[Len(w)] \in Names
        BY <4>1, <1>4, ElementOfSeq
      <4> QED
        BY <4>1, <4>2
    <3>2. Files!DirOf(w) = Target[w[k - 1]]
      BY <2>2, <3>1, SameOperators, FilesAssumption DEF Files!DirOf, Files!Leads
    <3> QED
      BY <3>1, <3>2, <1>11, FilesAssumption DEF Files!Reaches
  <2> QED
    BY <2>1, <2>2
<1>13. Append(w, e) = r
  <2>1. /\ Append(w, e) \in Seq(Names) /\ Len(Append(w, e)) = k
        /\ \A j \in 1 .. k - 1 : Append(w, e)[j] = w[j] /\ Append(w, e)[k] = e
    BY <1>1, <1>4, <1>9, AppendProperties
  <2>2. \A j \in 1 .. k : Append(w, e)[j] = r[j]
    BY <2>1, <1>1, <1>4 DEF e
  <2> QED
    BY <2>1, <2>2, <1>4, SeqEqual
<1>14. k < Len(q) => Files!Leads(e, Root) \in Directories
  <2>1. r # <<>> /\ Last(r) = e
    BY <1>1, <1>4, EmptySeq DEF Last, e
  <2>2. Files!DirOf(r) = Files!Leads(e, Root)
    BY <2>1, SameOperators DEF Files!DirOf
  <2>3. k < Len(q) => q[k + 1] \in Names
    BY <1>1
  <2> QED
    BY <2>2, <2>3, <1>3, FilesAssumption
<1> QED
  BY <1>2, <1>7, <1>9, <1>10, <1>11, <1>12, <1>13, <1>14 DEF p, w, e, r

(* Neither the listing of that call nor, if it is the path's, the entry in   *)
(* hand has been refused.                                                    *)
LEMMA NotRefused ==
  ASSUME Files!WorldOK, Files!CallsNested, NEW q \in Files!SteadyPaths, q \in Files!SteadyPaths',
         NEW k \in 1 .. Len(frames), k <= Len(q), \A j \in 1 .. k - 1 : q[j] = frames[j].entry,
         platform' = platform, maxPath' = maxPath, steady' \subseteq steady,
         unseen \subseteq unseen', unlisted \subseteq unlisted'
  PROVE  /\ frames[k].path \notin unlisted'
         /\ q[k] = frames[k].entry => Append(frames[k].path, frames[k].entry) \notin unseen'
<1>1. k \in DOMAIN q
  BY SteadyPath, Depth
<1>2. ~RefusedIn(q, unseen', unlisted')
  BY FewerPaths
<1>3. SubSeq(q, 1, k) \notin unseen' /\ SubSeq(q, 1, k - 1) \notin unlisted'
  BY <1>1, <1>2, Zenon DEF RefusedIn
<1>4. /\ frames[k].path = SubSeq(q, 1, k - 1)
      /\ q[k] = frames[k].entry => Append(frames[k].path, frames[k].entry) = SubSeq(q, 1, k)
  BY Following
<1> QED
  BY <1>3, <1>4

(* What a call that fails leaves: nothing refused is forgotten, and it has   *)
(* been refused if what it was to find is there.                             *)
LEMMA Refusals ==
  ASSUME NEW gone \in BOOLEAN, NEW F, NEW D, Files!Fails(gone, F, D)
  PROVE  /\ unseen \subseteq unseen' /\ unlisted \subseteq unlisted'
         /\ ~gone => F \subseteq unseen' /\ D \subseteq unlisted'
BY DEF Files!Fails, Files!refused

(* The paths that are always there, when the world stays as it is. *)
LEMMA SteadyPathsSame ==
  ASSUME platform' = platform, maxPath' = maxPath, steady' = steady, UNCHANGED Files!refused
  PROVE  Files!SteadyPaths' = Files!SteadyPaths
BY SteadyPathsIn DEF Files!refused

(* A topmost frame that keeps its path keeps the calls nested. *)
LEMMA NestedTop ==
  ASSUME Files!CallsNested, frames # <<>>, NEW f \in Files!Frames, TopBecomes(f), steady' \subseteq steady,
         f.path = Files!Top.path, f.entry \in steady \cup {"."} => f.entry \notin f.may
  PROVE  /\ \A k \in DOMAIN frames' : Files!Nested(k)'
         /\ frames' # <<>> /\ Files!Top' = f
<1>1. Len(frames) \in Nat \ {0} /\ DOMAIN frames = 1 .. Len(frames) /\ Files!Top = frames[Len(frames)]
  BY Depth
<1>2. ASSUME NEW k \in 1 .. Len(frames) PROVE Files!Nested(k)'
  <2>1. Files!Nested(k)
    BY <1>1 DEF Files!CallsNested
  <2>2. \A m \in 1 .. Len(frames) - 1 : frames'[m] = frames[m]
    BY DEF TopBecomes
  <2>3. \A m \in 1 .. k - 1 : frames'[m] = frames[m]
    BY <1>1, <2>2
  <2>4. Len(frames') = Len(frames) /\ frames'[Len(frames)] = f
    BY DEF TopBecomes
  <2>5. CASE k = Len(frames)
    <3>1. ~(k < Len(frames'))
      BY <2>4, <2>5, <1>1
    <3>2. frames'[k].path = frames[k].path
      BY <2>4, <2>5, <1>1
    <3>3. frames'[k].entry \in steady' \cup {"."} => frames'[k].entry \notin frames'[k].may
      BY <2>4, <2>5, <1>1
    <3> QED
      BY <2>1, <2>3, <3>1, <3>2, <3>3 DEF Files!Nested
  <2>6. CASE k # Len(frames)
    <3>1. frames'[k] = frames[k] /\ k < Len(frames)
      BY <2>2, <2>6, <1>1, NotLast
    <3> QED
      BY <2>1, <2>3, <2>4, <3>1, Zenon DEF Files!Nested
  <2> QED
    BY <2>5, <2>6, Zenon
<1>3. frames' # <<>> /\ Last(frames') = f
  BY <1>1, EmptySeq DEF TopBecomes, Last
<1>4. Files!Top' = Last(frames')
  BY SameOperators DEF Files!Top
<1> QED
  BY <1>1, <1>2, <1>3, <1>4 DEF TopBecomes

(* What the directory may give next: an entry still listed, or none when all *)
(* that must be listed are.                                                  *)
LEMMA GivenIs ==
  ASSUME NEW f \in Files!Frames, NEW g \in Files!Given(f)
  PROVE  /\ g \in Files!Frames /\ g.path = f.path /\ g.open = f.open /\ g.has_next = f.has_next
         /\ \/ /\ g.entry \in f.may /\ g.entry # Files!None
               /\ g.must = f.must \ {g.entry} /\ g.may = f.may \ {g.entry}
            \/ g.entry = Files!None /\ f.must = {} /\ g.must = {} /\ g.may = f.may
<1>1. CASE \E n \in f.may : g = [f EXCEPT !.entry = n, !.must = @ \ {n}, !.may = @ \ {n}]
  <2>1. PICK n \in f.may : g = [f EXCEPT !.entry = n, !.must = @ \ {n}, !.may = @ \ {n}]
    BY <1>1
  <2>2. n \in Files!Entries /\ n # Files!None
    BY FilesAssumption DEF Files!Frames, Files!Entries, Files!None
  <2>3. /\ g.path = f.path /\ g.open = f.open /\ g.has_next = f.has_next /\ g.entry = n
        /\ g.must = f.must \ {n} /\ g.may = f.may \ {n}
    BY <2>1 DEF Files!Frames
  <2>4. g \in Files!Frames
    BY <2>1, <2>2 DEF Files!Frames
  <2> QED
    BY <2>2, <2>3, <2>4
<1>2. CASE f.must = {} /\ g = [f EXCEPT !.entry = Files!None]
  BY <1>2 DEF Files!Frames
<1>3. g \in {[f EXCEPT !.entry = n, !.must = @ \ {n}, !.may = @ \ {n}] : n \in f.may}
      \/ (f.must = {} /\ g \in {[f EXCEPT !.entry = Files!None]})
  BY DEF Files!Given
<1> QED
  BY <1>1, <1>2, <1>3

(* A step of the topmost call keeps the invariant if it lets no path come    *)
(* that did not, and loses none that must.                                   *)
LEMMA TopStep ==
  ASSUME Files!IInv, frames # <<>>, at # "stopped", NEW f \in Files!Frames, TopBecomes(f),
         platform' = platform, maxPath' = maxPath, steady' = steady, passed' = passed,
         f.path = Files!Top.path, f.entry \in steady \cup {"."} => f.entry \notin f.may,
         at' \in Files!Listed \cup {"open", "close", "stopped"},
         at' \in {"open", "first"} => f.entry = Files!None, at' = "call" => f.entry # Files!None,
         at' = "open" => ~f.open, at' \in Files!Listed => f.open,
         handles' = IF f.open THEN Len(frames) ELSE Len(frames) - 1,
         \A q : /\ Len(frames) <= Len(q) /\ q[Len(frames)] \in steady \cup {"."}
                /\ AtTop(q, Len(frames), f.may, f.entry, at')
                => AtTop(q, Len(frames), Files!Top.may, Files!Top.entry, at),
         unseen \subseteq unseen', unlisted \subseteq unlisted',
         at' # "stopped" => \A q \in Files!SteadyPaths :
                /\ q \in Files!SteadyPaths'
                /\ Len(frames) <= Len(q) /\ \A j \in 1 .. Len(frames) - 1 : q[j] = frames[j].entry
                /\ AtTop(q, Len(frames), Files!Top.must, Files!Top.entry, at)
                => AtTop(q, Len(frames), f.must, f.entry, at')
  PROVE  Files!CallsNested' /\ Files!GivenOnce' /\ Files!SteadyGiven'
<1>1. Files!WorldOK /\ Files!CallsNested /\ Files!GivenOnce /\ Files!SteadyGiven
  BY DEF Files!IInv
<1>2. Len(frames) \in Nat \ {0} /\ DOMAIN frames = 1 .. Len(frames)
  BY <1>1, Depth
<1>3. Len(frames') = Len(frames) /\ DOMAIN frames' = DOMAIN frames /\ frames' \in Seq(Files!Frames)
  BY DEF TopBecomes
<1>4. (\A k \in DOMAIN frames' : Files!Nested(k)') /\ frames' # <<>> /\ Files!Top' = f
  BY <1>1, NestedTop
<1>5. Files!CallsNested'
  <2>1. at' # "done"
    BY DEF Files!Listed
  <2>2. handles' = IF frames' = <<>> THEN 0 ELSE IF Files!Top'.open THEN Len(frames') ELSE Len(frames') - 1
    BY <1>3, <1>4
  <2> QED
    BY <1>3, <1>4, <2>1, <2>2 DEF Files!CallsNested, Files!Listed, Files!None
<1>6. Files!SteadyPaths' \subseteq Files!SteadyPaths
  BY FewerPaths
<1>7. ASSUME NEW q \in Seq(Files!Entries), ToSet(q) \subseteq steady' \cup {"."}, NoDue(q, frames, at)
      PROVE  NoDue(q, frames', at')
  <2>1. Len(frames) <= Len(q) => q[Len(frames)] \in steady \cup {"."}
    BY <1>2, <1>7, LenProperties DEF ToSet
  <2> QED
    BY <2>1, <1>1, <1>7, TopMay
<1>8. ASSUME at' # "stopped", NEW q \in Files!SteadyPaths', OneDue(q, frames, at)
      PROVE  OneDue(q, frames', at')
  BY <1>1, <1>6, <1>8, TopMust
<1> QED
  BY <1>1, <1>2, <1>3, <1>5, <1>6, <1>7, <1>8, PathsKept

(* SetTop changes the topmost frame and no other. *)
LEMMA TopSet ==
  ASSUME Files!CallsNested, frames # <<>>, NEW f \in Files!Frames, Files!SetTop(f)
  PROVE  TopBecomes(f)
<1>1. frames \in Seq(Files!Frames) /\ frames' = Append(Front(frames), f)
  BY SameOperators DEF Files!SetTop, Files!CallsNested
<1>2. /\ Len(frames) \in Nat \ {0} /\ DOMAIN frames = 1 .. Len(frames)
      /\ Front(frames) \in Seq(Files!Frames) /\ Len(Front(frames)) = Len(frames) - 1
      /\ \A k \in 1 .. Len(frames) - 1 : Front(frames)[k] = frames[k]
  BY <1>1, FrontOf
<1>3. /\ frames' \in Seq(Files!Frames) /\ Len(frames') = Len(Front(frames)) + 1
      /\ frames'[Len(Front(frames)) + 1] = f
      /\ \A k \in 1 .. Len(Front(frames)) : frames'[k] = Front(frames)[k]
  <2> DEFINE w == Front(frames)
  <2>1. w \in Seq(Files!Frames) /\ frames' = Append(w, f)
    BY <1>1, <1>2
  <2> HIDE DEF w
  <2>2. /\ Append(w, f) \in Seq(Files!Frames) /\ Len(Append(w, f)) = Len(w) + 1
        /\ Append(w, f)[Len(w) + 1] = f /\ \A k \in 1 .. Len(w) : Append(w, f)[k] = w[k]
    BY <2>1, AppendProperties
  <2>3. /\ frames' \in Seq(Files!Frames) /\ Len(frames') = Len(w) + 1
        /\ frames'[Len(w) + 1] = f /\ \A k \in 1 .. Len(w) : frames'[k] = w[k]
    BY <2>1, <2>2
  <2> QED
    BY <2>3 DEF w
<1>4. Len(frames') = Len(frames) /\ frames'[Len(frames)] = f
  BY <1>2, <1>3
<1>5. DOMAIN frames' = 1 .. Len(frames')
  BY <1>3, LenProperties
<1> QED
  BY <1>2, <1>3, <1>4, <1>5 DEF TopBecomes

(* While the walk runs there is a topmost call. *)
LEMMA InACall ==
  ASSUME Files!IInv, at # "done"
  PROVE  /\ Files!WorldOK /\ Files!CallsNested /\ frames # <<>> /\ Len(frames) \in Nat \ {0}
         /\ Len(frames) \in 1 .. Len(frames) /\ Files!Top = frames[Len(frames)] /\ Files!Top \in Files!Frames
         /\ Files!Top.entry \in steady \cup {"."} => Files!Top.entry \notin Files!Top.may
         /\ frames' = frames => TopBecomes(Files!Top)
         /\ \A f \in Files!Frames : Files!SetTop(f) => TopBecomes(f)
         /\ handles = IF Files!Top.open THEN Len(frames) ELSE Len(frames) - 1
<1>1. Files!WorldOK /\ Files!CallsNested /\ frames # <<>> /\ frames \in Seq(Files!Frames)
  BY DEF Files!IInv, Files!CallsNested
<1>2. /\ Len(frames) \in Nat \ {0} /\ DOMAIN frames = 1 .. Len(frames)
      /\ Files!Top = frames[Len(frames)] /\ Files!Top \in Files!Frames
  BY <1>1, Depth
<1>3. Files!Top.entry \in steady \cup {"."} => Files!Top.entry \notin Files!Top.may
  <2>1. Files!Nested(Len(frames))
    <3>1. Len(frames) \in DOMAIN frames
      BY <1>2
    <3> QED
      BY <3>1, <1>1, Zenon DEF Files!CallsNested
  <2> QED
    BY <2>1, <1>2 DEF Files!Nested
<1>4. frames' = frames => TopBecomes(Files!Top)
  BY <1>1, <1>2 DEF TopBecomes
<1>5. \A f \in Files!Frames : Files!SetTop(f) => TopBecomes(f)
  BY <1>1, TopSet
<1>6. handles = IF Files!Top.open THEN Len(frames) ELSE Len(frames) - 1
  BY <1>1 DEF Files!CallsNested
<1> QED
  BY <1>1, <1>2, <1>3, <1>4, <1>5, <1>6

(* cf_dir_open with a directory that opens: its entries are listed, and the  *)
(* first is given.                                                           *)
LEMMA OpenStep ==
  ASSUME Files!IInv, Files!Open
  PROVE  Files!CallsNested' /\ Files!GivenOnce' /\ Files!SteadyGiven'
<1> DEFINE T == Files!Top
           n == Len(frames)
           o == Files!Opened
           L == Files!Listing(Files!DirOf(T.path))
<1>1. at = "open" /\ handles' = handles + 1
  BY DEF Files!Open
<1>2. /\ Files!WorldOK /\ Files!CallsNested /\ frames # <<>> /\ n \in Nat \ {0} /\ n \in 1 .. n
      /\ T = frames[n] /\ T \in Files!Frames
      /\ \A f \in Files!Frames : Files!SetTop(f) => TopBecomes(f)
      /\ handles = IF T.open THEN n ELSE n - 1
  BY <1>1, InACall
<1>3. T.entry = Files!None /\ ~T.open
  BY <1>1, <1>2 DEF Files!CallsNested
<1>4. /\ platform' = platform /\ maxPath' = maxPath /\ steady' = steady /\ passed' = passed
      /\ unseen' = unseen /\ unlisted' = unlisted
  BY DEF Files!Open, Files!build, Files!world, Files!refused
<1>5. L \in SUBSET Files!Entries
  BY <1>2 DEF Files!Listing, Files!WorldOK, Files!Entries
<1>6. o = [T EXCEPT !.open = TRUE, !.must = L, !.may = L]
  BY DEF Files!Opened
<1>7. o \in Files!Frames /\ o.path = T.path /\ o.entry = T.entry /\ o.open = TRUE /\ o.must = L /\ o.may = L
  BY <1>2, <1>5, <1>6 DEF Files!Frames
<1>8. \A q \in Files!SteadyPaths :
        n <= Len(q) /\ (\A j \in 1 .. n - 1 : q[j] = frames[j].entry) => q[n] \in L
  BY <1>2, Following
<1>9. handles' = n
  BY <1>1, <1>2, <1>3
<1>10. CASE platform = "posix"
  <2>1. Files!SetTop(o) /\ at' = "first"
    BY <1>10 DEF Files!Open
  <2>2. TopBecomes(o)
    BY <2>1, <1>2, <1>7
  <2>3. \A q : AtTop(q, n, T.may, T.entry, at)
    BY <1>1 DEF AtTop
  <2>4. \A q : q[n] \in L => AtTop(q, n, o.must, o.entry, at')
    BY <2>1, <1>7 DEF AtTop, Files!Listed
  <2>5. Files!None \notin steady \cup {"."}
    BY <1>2, FilesAssumption DEF Files!None, Files!WorldOK
  <2> HIDE DEF T, n, o, L
  <2> QED
    BY <2>1, <2>2, <2>3, <2>4, <2>5, <1>1, <1>2, <1>3, <1>4, <1>7, <1>8, <1>9, TopStep DEF T, n, Files!Listed
<1>11. CASE platform # "posix"
  <2>1. PICK g \in Files!Given(o) : g.entry # Files!None /\ Files!SetTop([g EXCEPT !.has_next = TRUE]) /\ at' = "read"
    BY <1>11 DEF Files!Open
  <2> DEFINE f == [g EXCEPT !.has_next = TRUE]
  <2>2. /\ g \in Files!Frames /\ g.path = T.path /\ g.open = TRUE
        /\ g.entry \in L /\ g.must = L \ {g.entry} /\ g.may = L \ {g.entry}
    BY <2>1, <1>7, GivenIs
  <2>3. /\ f \in Files!Frames /\ f.path = T.path /\ f.open = TRUE /\ f.entry = g.entry
        /\ f.must = L \ {g.entry} /\ f.may = L \ {g.entry}
    BY <2>2 DEF Files!Frames
  <2> HIDE DEF f
  <2>4. TopBecomes(f)
    BY <2>1, <2>3, <1>2 DEF f
  <2>5. \A q : AtTop(q, n, T.may, T.entry, at)
    BY <1>1 DEF AtTop
  <2>6. \A q : q[n] \in L => AtTop(q, n, f.must, f.entry, at')
    BY <2>1, <2>3 DEF AtTop, Files!Listed
  <2> HIDE DEF T, n, o, L
  <2> QED
    BY <2>1, <2>3, <2>4, <2>5, <2>6, <1>1, <1>2, <1>3, <1>4, <1>8, <1>9, TopStep DEF T, n, Files!Listed
<1> QED
  BY <1>10, <1>11

(* An entry is given by the directory: it leaves what is listed and is in    *)
(* hand.                                                                     *)
LEMMA GivenStep ==
  ASSUME Files!IInv, at \in {"first", "next"}, NEW g \in Files!Given(Files!Top), NEW b \in BOOLEAN,
         Files!SetTop([g EXCEPT !.has_next = b]),
         at' = "read" \/ (at' = "close" /\ g.entry = Files!None),
         UNCHANGED <<Files!build, Files!world, handles, passed, Files!refused>>
  PROVE  Files!CallsNested' /\ Files!GivenOnce' /\ Files!SteadyGiven'
<1> DEFINE T == Files!Top
           n == Len(frames)
           f == [g EXCEPT !.has_next = b]
<1>1. at \in Files!Listed /\ at \notin {"done", "open", "read", "call", "stopped"}
  BY DEF Files!Listed
<1>2. /\ Files!WorldOK /\ Files!CallsNested /\ frames # <<>> /\ n \in Nat \ {0} /\ n \in 1 .. n
      /\ T = frames[n] /\ T \in Files!Frames
      /\ \A h \in Files!Frames : Files!SetTop(h) => TopBecomes(h)
      /\ handles = IF T.open THEN n ELSE n - 1
  BY <1>1, InACall
<1>3. T.open = TRUE
  BY <1>1, <1>2 DEF Files!CallsNested, Files!Frames
<1>4. /\ platform' = platform /\ maxPath' = maxPath /\ steady' = steady /\ passed' = passed
      /\ handles' = handles /\ unseen' = unseen /\ unlisted' = unlisted
  BY DEF Files!build, Files!world, Files!refused
<1>5. /\ g \in Files!Frames /\ g.path = T.path /\ g.open = T.open
      /\ \/ /\ g.entry \in T.may /\ g.entry # Files!None
            /\ g.must = T.must \ {g.entry} /\ g.may = T.may \ {g.entry}
         \/ g.entry = Files!None /\ T.must = {} /\ g.must = {} /\ g.may = T.may
  BY <1>2, GivenIs
<1>6. /\ f \in Files!Frames /\ f.path = g.path /\ f.open = g.open /\ f.entry = g.entry
      /\ f.must = g.must /\ f.may = g.may
  BY <1>5 DEF Files!Frames
<1>7. TopBecomes(f)
  BY <1>2, <1>6
<1>8. Files!None \notin steady \cup {"."}
  BY <1>2, FilesAssumption DEF Files!None, Files!WorldOK
<1> HIDE DEF T, n, f
<1>9. f.entry \in steady \cup {"."} => f.entry \notin f.may
  BY <1>5, <1>6, <1>8
<1>10. ASSUME NEW q, q[n] \in steady \cup {"."}, AtTop(q, n, f.may, f.entry, at')
       PROVE  AtTop(q, n, T.may, T.entry, at)
  <2>1. q[n] \in f.may \/ q[n] = f.entry
    BY <1>10 DEF AtTop
  <2>2. q[n] \in T.may
    BY <2>1, <1>5, <1>6, <1>8, <1>10
  <2> QED
    BY <2>2, <1>1 DEF AtTop
<1>11. ASSUME NEW q, AtTop(q, n, T.must, T.entry, at)
       PROVE  AtTop(q, n, f.must, f.entry, at')
  <2>1. q[n] \in T.must
    BY <1>1, <1>11 DEF AtTop
  <2>2. q[n] \in f.must \/ q[n] = f.entry
    BY <2>1, <1>5, <1>6
  <2>3. at' = "read"
    BY <2>1, <1>5
  <2> QED
    BY <2>2, <2>3 DEF AtTop, Files!Listed
<1>12. f.open = TRUE /\ handles' = n /\ f.path = T.path
  BY <1>2, <1>3, <1>4, <1>5, <1>6
<1> QED
  BY <1>1, <1>2, <1>4, <1>6, <1>7, <1>9, <1>10, <1>11, <1>12, TopStep DEF T, n, Files!Listed

(* A step that changes no frame but only the place, and loses no path that   *)
(* must come.                                                                *)
LEMMA StillStep ==
  ASSUME Files!IInv, at \notin {"done", "stopped"}, NEW f \in Files!Frames, TopBecomes(f),
         f.path = Files!Top.path, f.entry = Files!Top.entry, f.open = Files!Top.open,
         f.may = Files!Top.may, f.must = Files!Top.must,
         UNCHANGED <<Files!build, Files!world, handles, passed>>,
         at' \in {"close", "stopped", "next", "call"}, at' = "call" => f.entry # Files!None,
         at' \in {"next", "call"} => at \in Files!Listed,
         \A q : AtTop(q, Len(frames), f.may, f.entry, at') => AtTop(q, Len(frames), f.may, f.entry, at),
         unseen \subseteq unseen', unlisted \subseteq unlisted',
         at' # "stopped" => \A q \in Files!SteadyPaths :
                /\ q \in Files!SteadyPaths'
                /\ Len(frames) <= Len(q) /\ \A j \in 1 .. Len(frames) - 1 : q[j] = frames[j].entry
                /\ AtTop(q, Len(frames), f.must, f.entry, at)
                => AtTop(q, Len(frames), f.must, f.entry, at')
  PROVE  Files!CallsNested' /\ Files!GivenOnce' /\ Files!SteadyGiven'
<1>1. /\ Files!CallsNested /\ frames # <<>>
      /\ handles = IF Files!Top.open THEN Len(frames) ELSE Len(frames) - 1
      /\ Files!Top.entry \in steady \cup {"."} => Files!Top.entry \notin Files!Top.may
  BY InACall
<1>2. platform' = platform /\ maxPath' = maxPath /\ steady' = steady /\ passed' = passed /\ handles' = handles
  BY DEF Files!build, Files!world
<1>3. at' \in Files!Listed => f.open
  BY <1>1 DEF Files!CallsNested, Files!Listed
<1>4. at' \in Files!Listed \cup {"open", "close", "stopped"} /\ at' \notin {"open", "first"}
  BY DEF Files!Listed
<1>5. /\ f.entry \in steady \cup {"."} => f.entry \notin f.may
      /\ handles' = IF f.open THEN Len(frames) ELSE Len(frames) - 1
  BY <1>1, <1>2
<1> QED
  BY <1>1, <1>2, <1>3, <1>4, <1>5, TopStep

(* The first entry, and the next. *)
LEMMA ListingStep ==
  ASSUME Files!IInv, Files!FirstEntry \/ Files!NextEntry
  PROVE  Files!CallsNested' /\ Files!GivenOnce' /\ Files!SteadyGiven'
<1>1. CASE Files!FirstEntry
  <2>1. PICK g \in Files!Given(Files!Top) : Files!SetTop([g EXCEPT !.has_next = TRUE])
    BY <1>1 DEF Files!FirstEntry
  <2>2. at = "first" /\ at' = "read" /\ UNCHANGED <<Files!build, Files!world, handles, passed, Files!refused>>
    BY <1>1 DEF Files!FirstEntry
  <2> QED
    BY <2>1, <2>2, GivenStep
<1>2. CASE Files!NextEntry
  <2>1. PICK g \in Files!Given(Files!Top) : /\ Files!SetTop([g EXCEPT !.has_next = g.entry # Files!None])
                                           /\ at' = (IF g.entry = Files!None THEN "close" ELSE "read")
    BY <1>2 DEF Files!NextEntry
  <2>2. at = "next" /\ UNCHANGED <<Files!build, Files!world, handles, passed, Files!refused>>
    BY <1>2 DEF Files!NextEntry
  <2> DEFINE b == g.entry # Files!None
  <2>3. b \in BOOLEAN /\ Files!SetTop([g EXCEPT !.has_next = b])
    BY <2>1
  <2> HIDE DEF b
  <2> QED
    BY <2>1, <2>2, <2>3, GivenStep
<1> QED
  BY <1>1, <1>2

(* The steps that leave the calls alone, or end the listing of the last. *)
(* The directory is no more, then none of its entries is always there; or    *)
(* its listing is refused, and they are not looked for.                      *)
LEMMA OpenFailsStep ==
  ASSUME Files!IInv, Files!OpenFails
  PROVE  Files!CallsNested' /\ Files!GivenOnce' /\ Files!SteadyGiven'
<1> DEFINE gone == ~Files!Reaches(Files!Top.path, present)
           D == {Files!Top.path}
<1>1. /\ at = "open" /\ Files!Fails(gone, {}, D) /\ at' \in {"close", "stopped"}
      /\ UNCHANGED <<Files!build, Files!world, frames, handles, passed>>
  BY DEF Files!OpenFails, Files!CanOpen
<1>2. /\ Files!WorldOK /\ Files!CallsNested /\ Files!Top = frames[Len(frames)] /\ Files!Top \in Files!Frames
      /\ Len(frames) \in 1 .. Len(frames) /\ TopBecomes(Files!Top)
  BY <1>1, InACall
<1>3. platform' = platform /\ maxPath' = maxPath /\ steady' \subseteq steady
  BY <1>1 DEF Files!build, Files!world
<1>4. gone \in BOOLEAN
  OBVIOUS
<1> HIDE DEF gone, D
<1>5. unseen \subseteq unseen' /\ unlisted \subseteq unlisted' /\ (~gone => D \subseteq unlisted')
  BY <1>1, <1>4, Refusals
<1>6. ASSUME NEW q \in Files!SteadyPaths, q \in Files!SteadyPaths', Len(frames) <= Len(q),
             \A j \in 1 .. Len(frames) - 1 : q[j] = frames[j].entry
      PROVE  FALSE
  <2>1. ~gone
    BY <1>2, <1>6, Following DEF gone
  <2>2. Files!Top.path \notin unlisted'
    BY <1>2, <1>3, <1>5, <1>6, NotRefused
  <2> QED
    BY <2>1, <2>2, <1>5 DEF D
<1>7. \A q, l, e : AtTop(q, Len(frames), l, e, at)
  BY <1>1 DEF AtTop
<1> QED
  BY <1>1, <1>2, <1>5, <1>6, <1>7, StillStep

(* cf_read_file fails, with the assertions on: the program stops. *)
LEMMA CannotReadStep ==
  ASSUME Files!IInv, Files!CannotRead
  PROVE  Files!CallsNested' /\ Files!GivenOnce' /\ Files!SteadyGiven'
<1>1. /\ at = "read" /\ at' = "stopped" /\ unseen' = unseen /\ unlisted' = unlisted
      /\ UNCHANGED <<Files!build, Files!world, frames, handles, passed>>
  BY DEF Files!CannotRead, Files!Stop, Files!refused
<1>2. Files!Top \in Files!Frames /\ TopBecomes(Files!Top)
  BY <1>1, InACall
<1>3. \A q, l, e : ~AtTop(q, Len(frames), l, e, at')
  BY <1>1 DEF AtTop, Files!Listed
<1> QED
  BY <1>1, <1>2, <1>3, StillStep

(* An entry that cannot be read is passed over: it is not always there, or   *)
(* is refused.                                                               *)
LEMMA SkipEntryStep ==
  ASSUME Files!IInv, Files!SkipEntry
  PROVE  Files!CallsNested' /\ Files!GivenOnce' /\ Files!SteadyGiven'
<1> DEFINE path == Append(Files!Top.path, Files!Top.entry)
           gone == ~Files!Reaches(path, present)
           F == {path}
<1>1. /\ at = "read" /\ at' = "next" /\ UNCHANGED <<Files!build, Files!world, frames, handles, passed>>
      /\ platform = "posix" /\ Files!Fails(gone, F, {})
  BY DEF Files!SkipEntry, Files!CanRead, Files!StatFails, Files!EntryPath
<1>2. /\ Files!WorldOK /\ Files!CallsNested /\ Files!Top = frames[Len(frames)] /\ Files!Top \in Files!Frames
      /\ Len(frames) \in 1 .. Len(frames) /\ TopBecomes(Files!Top)
  BY <1>1, InACall
<1>3. platform' = platform /\ maxPath' = maxPath /\ steady' \subseteq steady
  BY <1>1 DEF Files!build, Files!world
<1>4. gone \in BOOLEAN
  OBVIOUS
<1> HIDE DEF gone, F
<1>5. unseen \subseteq unseen' /\ unlisted \subseteq unlisted' /\ (~gone => F \subseteq unseen')
  BY <1>1, <1>4, Refusals
<1>6. ASSUME NEW q \in Files!SteadyPaths, q \in Files!SteadyPaths', Len(frames) <= Len(q),
             \A j \in 1 .. Len(frames) - 1 : q[j] = frames[j].entry,
             q[Len(frames)] = Files!Top.entry
      PROVE  FALSE
  <2>1. ~gone
    BY <1>1, <1>2, <1>6, Following DEF gone
  <2>2. path \notin unseen'
    BY <1>2, <1>3, <1>5, <1>6, NotRefused
  <2> QED
    BY <2>1, <2>2, <1>5 DEF F
<1> HIDE DEF path
<1>7. \A q, l, e : AtTop(q, Len(frames), l, e, at') <=> q[Len(frames)] \in l
  BY <1>1 DEF AtTop, Files!Listed
<1>8. \A q, l, e : AtTop(q, Len(frames), l, e, at) <=> q[Len(frames)] \in l \/ q[Len(frames)] = e
  BY <1>1 DEF AtTop, Files!Listed
<1>9. at \in Files!Listed
  BY <1>1 DEF Files!Listed
<1> QED
  BY <1>1, <1>2, <1>5, <1>6, <1>7, <1>8, <1>9, StillStep

(* An entry that is not entered goes to the callback. *)
LEMMA StayOutStep ==
  ASSUME Files!IInv, Files!StayOut
  PROVE  Files!CallsNested' /\ Files!GivenOnce' /\ Files!SteadyGiven'
<1>1. /\ at = "read" /\ at' = "call" /\ UNCHANGED <<Files!build, Files!world, frames, handles, passed>>
      /\ Files!Top.entry # Files!None
      /\ ~ /\ Files!Leads(Files!Top.entry, Root) \in Directories
           /\ Files!Top.entry \notin Hidden \cup {"."}
      /\ unseen' = unseen /\ unlisted' = unlisted
  BY DEF Files!StayOut, Files!IsRead, Files!CanRead, Files!Enters, Files!IsDir, Files!refused
<1>2. /\ Files!WorldOK /\ Files!CallsNested /\ Files!Top = frames[Len(frames)] /\ Files!Top \in Files!Frames
      /\ Len(frames) \in 1 .. Len(frames) /\ TopBecomes(Files!Top)
  BY <1>1, InACall
<1>3. \A q \in Files!SteadyPaths :
        /\ Len(frames) <= Len(q) /\ \A j \in 1 .. Len(frames) - 1 : q[j] = frames[j].entry
        /\ q[Len(frames)] = Files!Top.entry
        => Len(frames) = Len(q)
  <2>1. SUFFICES ASSUME NEW q \in Files!SteadyPaths, Len(frames) <= Len(q),
                        \A j \in 1 .. Len(frames) - 1 : q[j] = frames[j].entry,
                        q[Len(frames)] = Files!Top.entry, Len(frames) # Len(q)
                 PROVE  FALSE
    OBVIOUS
  <2>2. Len(frames) < Len(q)
    BY <2>1, <1>2, SteadyPath
  <2> QED
    BY <2>1, <2>2, <1>1, <1>2, Following
<1>4. \A q, l, e : AtTop(q, Len(frames), l, e, at')
        <=> q[Len(frames)] \in l \/ (q[Len(frames)] = e /\ Len(frames) = Len(q))
  BY <1>1 DEF AtTop, Files!Listed
<1>5. \A q, l, e : AtTop(q, Len(frames), l, e, at) <=> q[Len(frames)] \in l \/ q[Len(frames)] = e
  BY <1>1 DEF AtTop, Files!Listed
<1>6. at \in Files!Listed
  BY <1>1 DEF Files!Listed
<1> QED
  BY <1>1, <1>2, <1>3, <1>4, <1>5, <1>6, StillStep

(* The listing breaks off, of a directory that is no more or refused. *)
LEMMA NextFailsStep ==
  ASSUME Files!IInv, Files!NextFails
  PROVE  Files!CallsNested' /\ Files!GivenOnce' /\ Files!SteadyGiven'
<1> DEFINE f == [Files!Top EXCEPT !.has_next = FALSE]
           gone == platform = "windows" /\ ~Files!There(Files!DirOf(Files!Top.path), present)
           D == {Files!Top.path}
<1>1. /\ at = "next" /\ at' \in {"close", "stopped"} /\ UNCHANGED <<Files!build, Files!world, handles, passed>>
      /\ Files!Fails(gone, {}, D) /\ Files!SetTop(f)
  BY DEF Files!NextFails
<1>2. /\ Files!WorldOK /\ Files!CallsNested /\ Files!Top = frames[Len(frames)] /\ Files!Top \in Files!Frames
      /\ Len(frames) \in 1 .. Len(frames)
      /\ \A h \in Files!Frames : Files!SetTop(h) => TopBecomes(h)
  BY <1>1, InACall
<1>3. /\ f \in Files!Frames /\ f.path = Files!Top.path /\ f.entry = Files!Top.entry
      /\ f.open = Files!Top.open /\ f.may = Files!Top.may /\ f.must = Files!Top.must
  BY <1>2 DEF Files!Frames
<1>4. TopBecomes(f)
  BY <1>1, <1>2, <1>3
<1>5. platform' = platform /\ maxPath' = maxPath /\ steady' \subseteq steady
  BY <1>1 DEF Files!build, Files!world
<1>6. gone \in BOOLEAN
  OBVIOUS
<1> HIDE DEF gone, D, f
<1>7. unseen \subseteq unseen' /\ unlisted \subseteq unlisted' /\ (~gone => D \subseteq unlisted')
  BY <1>1, <1>6, Refusals
<1>8. ASSUME NEW q \in Files!SteadyPaths, q \in Files!SteadyPaths', Len(frames) <= Len(q),
             \A j \in 1 .. Len(frames) - 1 : q[j] = frames[j].entry
      PROVE  FALSE
  <2>1. ~gone
    BY <1>2, <1>8, Following DEF gone
  <2>2. Files!Top.path \notin unlisted'
    BY <1>2, <1>5, <1>7, <1>8, NotRefused
  <2> QED
    BY <2>1, <2>2, <1>7 DEF D
<1>9. \A q, l, e : ~AtTop(q, Len(frames), l, e, at')
  BY <1>1 DEF AtTop, Files!Listed
<1> QED
  BY <1>1, <1>3, <1>4, <1>7, <1>8, <1>9, StillStep

(* The path of the entry in hand is that of the calls. *)
LEMMA EntryPathIs ==
  ASSUME Files!CallsNested, frames # <<>>, Files!Top.entry # Files!None
  PROVE  /\ Files!EntryPath \in Seq(Files!Entries) /\ Len(Files!EntryPath) = Len(frames)
         /\ Files!Top.entry \in Files!Entries
         /\ \A j \in 1 .. Len(frames) : Files!EntryPath[j] = frames[j].entry
<1> DEFINE n == Len(frames)
           p == Files!Top.path
           e == Files!Top.entry
<1>1. /\ n \in Nat \ {0} /\ DOMAIN frames = 1 .. n /\ Files!Top = frames[n] /\ Files!Top \in Files!Frames
      /\ n \in DOMAIN frames
  BY Depth
<1>2. Files!Nested(n)
  BY <1>1, Zenon DEF Files!CallsNested
<1>3. p \in Seq(Files!Entries) /\ e \in Files!Entries
  BY <1>1, Zenon DEF Files!Frames
<1>4. Len(p) = n - 1 /\ \A j \in 1 .. n - 1 : p[j] = frames[j].entry
  BY <1>1, <1>2 DEF Files!Nested
<1>5. Files!EntryPath = Append(p, e) /\ e = frames[n].entry
  BY <1>1 DEF Files!EntryPath
<1> HIDE DEF p, e, n
<1>6. /\ Append(p, e) \in Seq(Files!Entries) /\ Len(Append(p, e)) = Len(p) + 1
      /\ Append(p, e)[Len(p) + 1] = e /\ \A j \in 1 .. Len(p) : Append(p, e)[j] = p[j]
  BY <1>3, AppendProperties
<1>7. Len(Append(p, e)) = n /\ Append(p, e)[n] = e /\ \A j \in 1 .. n - 1 : Append(p, e)[j] = frames[j].entry
  BY <1>1, <1>4, <1>6
<1>8. \A j \in 1 .. n : Append(p, e)[j] = frames[j].entry
  <2>1. SUFFICES ASSUME NEW j \in 1 .. n PROVE Append(p, e)[j] = frames[j].entry
    OBVIOUS
  <2>2. CASE j = n
    BY <2>2, <1>7, <1>5
  <2>3. CASE j # n
    BY <2>3, <1>1, <1>7, NotLast
  <2> QED
    BY <2>2, <2>3
<1> QED
  BY <1>3, <1>5, <1>6, <1>7, <1>8 DEF n, e

(* cf_traverse calls itself for a directory: the paths below the entry in    *)
(* hand are now those of the new call.                                       *)
LEMMA EnterStep ==
  ASSUME Files!IInv, Files!Enter
  PROVE  Files!CallsNested' /\ Files!GivenOnce' /\ Files!SteadyGiven'
<1> DEFINE n == Len(frames)
           f == Files!Frame(Files!EntryPath)
<1>1. /\ at = "read" /\ at' = "open" /\ frames' = Append(frames, f) /\ Files!Top.entry # Files!None
      /\ UNCHANGED <<Files!build, Files!world, handles, passed, Files!refused>>
  BY DEF Files!Enter, Files!IsRead, Files!CanRead
<1>2. /\ Files!WorldOK /\ Files!CallsNested /\ frames # <<>> /\ n \in Nat \ {0} /\ n \in 1 .. n
      /\ Files!Top = frames[n] /\ Files!Top \in Files!Frames /\ frames \in Seq(Files!Frames)
      /\ handles = IF Files!Top.open THEN n ELSE n - 1
      /\ Files!GivenOnce /\ Files!SteadyGiven
  BY <1>1, InACall DEF Files!CallsNested, Files!IInv
<1>3. /\ Files!EntryPath \in Seq(Files!Entries) /\ Len(Files!EntryPath) = n
      /\ \A j \in 1 .. n : Files!EntryPath[j] = frames[j].entry
  BY <1>1, <1>2, EntryPathIs
<1>4. /\ f \in Files!Frames /\ f.path = Files!EntryPath /\ f.entry = Files!None /\ f.open = FALSE
      /\ f.may = {} /\ f.must = {}
  BY <1>3 DEF Files!Frame, Files!Frames, Files!Entries
<1> HIDE DEF f
<1>5. /\ Append(frames, f) \in Seq(Files!Frames) /\ Len(Append(frames, f)) = n + 1
      /\ Append(frames, f)[n + 1] = f /\ \A j \in 1 .. n : Append(frames, f)[j] = frames[j]
  BY <1>2, <1>4, AppendProperties
<1>6. /\ frames' \in Seq(Files!Frames) /\ Len(frames') = n + 1 /\ frames'[n + 1] = f
      /\ \A j \in 1 .. n : frames'[j] = frames[j]
  BY <1>1, <1>5
<1>7. DOMAIN frames' = 1 .. n + 1 /\ frames' # <<>> /\ Len(frames') \in Nat
  BY <1>2, <1>6, LenProperties, EmptySeq
<1>8. Files!Top' = f
  <2>1. Files!Top' = Last(frames')
    BY SameOperators DEF Files!Top
  <2> QED
    BY <2>1, <1>6 DEF Last
<1>9. Files!Top.open = TRUE /\ handles' = n
  <2>1. Files!Top.open = TRUE
    BY <1>1, <1>2 DEF Files!CallsNested, Files!Listed, Files!Frames
  <2> QED
    BY <2>1, <1>1, <1>2
<1>10. platform' = platform /\ maxPath' = maxPath /\ steady' = steady /\ passed' = passed
  BY <1>1 DEF Files!build, Files!world
<1>11. Files!None \notin Files!Entries /\ steady \subseteq Files!Entries
  BY <1>2, FilesAssumption DEF Files!None, Files!Entries, Files!WorldOK
<1> HIDE DEF n
<1>12. ASSUME NEW k \in 1 .. n + 1 PROVE Files!Nested(k)'
  <2>1. CASE k = n + 1
    <3>1. /\ Len(frames'[k].path) = k - 1 /\ ~(k < Len(frames'))
          /\ frames'[k].entry \notin steady' \cup {"."}
      BY <2>1, <1>2, <1>3, <1>4, <1>6, <1>10, <1>11 DEF Files!Entries
    <3>2. \A j \in 1 .. k - 1 : frames'[k].path[j] = frames'[j].entry
      BY <2>1, <1>2, <1>3, <1>4, <1>6
    <3> QED
      BY <3>1, <3>2 DEF Files!Nested
  <2>2. CASE k # n + 1
    <3>1. k \in 1 .. n /\ k \in DOMAIN frames
      BY <2>2, <1>2, Depth DEF n
    <3>2. Files!Nested(k)
      BY <3>1, <1>2, Zenon DEF Files!CallsNested
    <3>3. frames'[k] = frames[k] /\ \A j \in 1 .. k - 1 : frames'[j] = frames[j]
      BY <3>1, <1>2, <1>6
    <3>4. frames[k].open /\ frames[k].entry # Files!None
      <4>1. CASE k = n
        BY <4>1, <1>1, <1>2, <1>9
      <4>2. CASE k # n
        <5>1. k < Len(frames)
          BY <4>2, <3>1, <1>2, NotLast DEF n
        <5> QED
          BY <5>1, <3>2 DEF Files!Nested
      <4> QED
        BY <4>1, <4>2
    <3> QED
      BY <3>2, <3>3, <3>4, <1>10 DEF Files!Nested
  <2> QED
    BY <2>1, <2>2
<1>13. Files!CallsNested'
  BY <1>1, <1>4, <1>6, <1>7, <1>8, <1>9, <1>12, <1>2 DEF Files!CallsNested, Files!Listed
<1>14. \A q, l, e : AtTop(q, n, l, e, at) <=> q[n] \in l \/ q[n] = e
  BY <1>1 DEF AtTop, Files!Listed
<1>15. \A q, l, e : AtTop(q, n + 1, l, e, at')
  BY <1>1 DEF AtTop
<1>16. ASSUME NEW k \in 1 .. n, NEW q, NEW l
       PROVE  Due(q, k, l, frames', at') <=>
                /\ k <= Len(q) /\ \A j \in 1 .. k - 1 : q[j] = frames[j].entry
                /\ Below(q, k, l, frames[k].entry)
  <2>1. k # Len(frames') /\ frames'[k] = frames[k] /\ \A j \in 1 .. k - 1 : frames'[j] = frames[j]
    BY <1>2, <1>6
  <2> QED
    BY <2>1 DEF Due
<1>17. ASSUME NEW q \in Seq(Files!Entries), NoDue(q, frames, at) PROVE NoDue(q, frames', at')
  <2>1. SUFFICES ASSUME NEW k \in 1 .. n + 1, Due(q, k, frames'[k].may, frames', at')
                 PROVE  \E j \in 1 .. n : Due(q, j, frames[j].may, frames, at)
    BY <1>2, <1>7, <1>17, Depth DEF NoDue, n
  <2>2. CASE k = n + 1
    <3>1. n + 1 <= Len(q) /\ \A j \in 1 .. n : q[j] = frames[j].entry
      BY <2>1, <2>2, <1>2, <1>6 DEF Due
    <3>2. n <= Len(q) /\ q[n] = frames[n].entry /\ \A j \in 1 .. n - 1 : q[j] = frames[j].entry
      BY <3>1, <1>2, LenProperties
    <3> QED
      BY <3>2, <1>2, <1>14 DEF Due, n
  <2>3. CASE k # n + 1
    <3>1. k \in 1 .. n /\ frames'[k] = frames[k]
      BY <2>3, <1>2, <1>6
    <3>2. Below(q, k, frames[k].may, frames[k].entry) /\ k <= Len(q)
          /\ \A j \in 1 .. k - 1 : q[j] = frames[j].entry
      BY <3>1, <2>1, <1>16
    <3>3. k = n => AtTop(q, k, frames[k].may, frames[k].entry, at)
      BY <3>2, <1>14 DEF Below
    <3> QED
      BY <3>1, <3>2, <3>3 DEF Due, n
  <2> QED
    BY <2>2, <2>3
<1>18. ASSUME NEW q \in Files!SteadyPaths, OneDue(q, frames, at) PROVE OneDue(q, frames', at')
  <2>1. PICK k \in 1 .. n : Due(q, k, frames[k].must, frames, at)
    BY <1>18, <1>2, Depth DEF OneDue, n
  <2>2. k <= Len(q) /\ (\A j \in 1 .. k - 1 : q[j] = frames[j].entry) /\ Len(q) \in Nat
    BY <2>1, <1>2, SteadyPath DEF Due
  <2>3. CASE Below(q, k, frames[k].must, frames[k].entry)
    <3>1. Due(q, k, frames'[k].must, frames', at') /\ k \in DOMAIN frames'
      BY <2>2, <2>3, <1>2, <1>6, <1>7, <1>16
    <3> QED
      BY <3>1 DEF OneDue
  <2>4. CASE ~Below(q, k, frames[k].must, frames[k].entry)
    <3>1. k = n /\ q[n] = frames[n].entry /\ n # Len(q)
      BY <2>1, <2>4, <1>14 DEF Due, Below, n
    <3>2. n + 1 <= Len(q)
      BY <3>1, <2>2, <1>2
    <3>3. \A j \in 1 .. n : q[j] = frames'[j].entry
      <4>1. SUFFICES ASSUME NEW j \in 1 .. n PROVE q[j] = frames[j].entry
        BY <1>6
      <4>2. CASE j = n
        BY <4>2, <3>1
      <4>3. CASE j # n
        BY <4>3, <3>1, <2>2, <1>2, NotLast
      <4> QED
        BY <4>2, <4>3
    <3>4. Due(q, n + 1, frames'[n + 1].must, frames', at')
      BY <3>2, <3>3, <1>2, <1>6, <1>15 DEF Due
    <3>5. n + 1 \in DOMAIN frames'
      BY <1>2, <1>7
    <3> QED
      BY <3>4, <3>5 DEF OneDue
  <2> QED
    BY <2>3, <2>4
<1>19. Files!SteadyPaths' = Files!SteadyPaths /\ at # "stopped"
  BY <1>1, <1>10, SteadyPathsSame
<1> QED
  BY <1>2, <1>6, <1>7, <1>10, <1>13, <1>17, <1>18, <1>19, PathsKept

(* A call returns when all its directory lists has been given: what is left  *)
(* is the directory itself, in the caller's hand.                            *)
LEMMA CloseStep ==
  ASSUME Files!IInv, Files!Close
  PROVE  Files!CallsNested' /\ Files!GivenOnce' /\ Files!SteadyGiven'
<1> DEFINE n == Len(frames)
<1>1. /\ at = "close" /\ frames' = Front(frames) /\ at' = (IF n = 1 THEN "done" ELSE "call")
      /\ handles' = (IF Files!Top.open THEN handles - 1 ELSE handles)
      /\ UNCHANGED <<Files!build, Files!world, passed, Files!refused>>
  BY SameOperators DEF Files!Close
<1>2. /\ Files!WorldOK /\ Files!CallsNested /\ frames # <<>> /\ n \in Nat \ {0} /\ n \in 1 .. n
      /\ Files!Top = frames[n] /\ Files!Top \in Files!Frames /\ frames \in Seq(Files!Frames)
      /\ handles = IF Files!Top.open THEN n ELSE n - 1
      /\ Files!GivenOnce /\ Files!SteadyGiven
  BY <1>1, InACall DEF Files!CallsNested, Files!IInv
<1>3. DOMAIN frames = 1 .. n
  BY <1>2, Depth
<1>4. /\ frames' \in Seq(Files!Frames) /\ Len(frames') = n - 1 /\ DOMAIN frames' = 1 .. n - 1
      /\ \A j \in 1 .. n - 1 : frames'[j] = frames[j]
  BY <1>1, <1>2, FrontOf
<1>5. platform' = platform /\ maxPath' = maxPath /\ steady' = steady /\ passed' = passed
  BY <1>1 DEF Files!build, Files!world
<1>6. frames' = <<>> <=> n = 1
  BY <1>2, <1>4, EmptySeq
<1>7. handles' = n - 1
  BY <1>1, <1>2
<1> HIDE DEF n
<1>8. ASSUME NEW k \in 1 .. n - 1
      PROVE  /\ k \in 1 .. n /\ k < n /\ Files!Nested(k)
             /\ frames'[k] = frames[k] /\ \A j \in 1 .. k - 1 : frames'[j] = frames[j]
  <2>1. k \in 1 .. n /\ k < n /\ \A j \in 1 .. k - 1 : j \in 1 .. n - 1
    BY <1>2
  <2>2. Files!Nested(k)
    BY <2>1, <1>2, <1>3 DEF Files!CallsNested
  <2> QED
    BY <2>1, <2>2, <1>4
<1>9. \A k \in 1 .. n - 1 : frames[k].open /\ frames[k].entry # Files!None
  BY <1>8 DEF Files!Nested, n
<1>10. ASSUME NEW k \in 1 .. n - 1 PROVE Files!Nested(k)'
  <2>1. /\ frames'[k].path = frames[k].path /\ frames'[k].entry = frames[k].entry
        /\ frames'[k].may = frames[k].may /\ frames'[k].open /\ frames'[k].entry # Files!None
        /\ \A j \in 1 .. k - 1 : frames'[j].entry = frames[j].entry
    BY <1>8, <1>9
  <2>2. Files!Nested(k)
    BY <1>8
  <2> QED
    BY <2>1, <2>2, <1>5 DEF Files!Nested
<1>11. n # 1 => Files!Top' = frames[n - 1] /\ n - 1 \in 1 .. n - 1
  <2>1. Files!Top' = Last(frames')
    BY SameOperators DEF Files!Top
  <2>2. n # 1 => n - 1 \in 1 .. n - 1
    BY <1>2
  <2> QED
    BY <2>1, <2>2, <1>4 DEF Last
<1>12. Files!CallsNested'
  <2>1. CASE n = 1
    BY <2>1, <1>1, <1>4, <1>6, <1>7, <1>10 DEF Files!CallsNested, Files!Listed
  <2>2. CASE n # 1
    <3>1. Files!Top'.open /\ Files!Top'.entry # Files!None /\ at' = "call" /\ frames' # <<>>
      BY <2>2, <1>1, <1>6, <1>9, <1>11
    <3> QED
      BY <3>1, <1>4, <1>7, <1>10 DEF Files!CallsNested, Files!Listed
  <2> QED
    BY <2>1, <2>2
<1>13. ASSUME NEW k \in 1 .. n - 1, NEW q, NEW l
       PROVE  Due(q, k, l, frames', at') <=> Due(q, k, l, frames, at)
  <2>1. Due(q, k, l, frames, at) <=>
          /\ k <= Len(q) /\ \A j \in 1 .. k - 1 : q[j] = frames[j].entry
          /\ Below(q, k, l, frames[k].entry)
    <3>1. k # Len(frames)
      BY <1>2, <1>8 DEF n
    <3> QED
      BY <3>1, Zenon DEF Due
  <2>2. k = n - 1 => (AtTop(q, k, l, frames[k].entry, at') <=> Below(q, k, l, frames[k].entry))
    <3>1. k = n - 1 => at' = "call"
      BY <1>1, <1>2
    <3> QED
      BY <3>1 DEF AtTop, Below, Files!Listed
  <2>3. Due(q, k, l, frames', at') <=>
          /\ k <= Len(q) /\ \A j \in 1 .. k - 1 : q[j] = frames[j].entry
          /\ IF k = n - 1 THEN AtTop(q, k, l, frames[k].entry, at') ELSE Below(q, k, l, frames[k].entry)
    BY <1>4, <1>8 DEF Due
  <2> QED
    BY <2>1, <2>2, <2>3
<1>14. ASSUME NEW q, NoDue(q, frames, at) PROVE NoDue(q, frames', at')
  BY <1>3, <1>4, <1>8, <1>13, <1>14 DEF NoDue
<1>15. ASSUME NEW q, OneDue(q, frames, at) PROVE OneDue(q, frames', at')
  <2>1. PICK k \in 1 .. n : Due(q, k, frames[k].must, frames, at)
    BY <1>15, <1>3 DEF OneDue
  <2>2. k # n
    <3>1. \A l, e : ~AtTop(q, n, l, e, at)
      BY <1>1 DEF AtTop, Files!Listed
    <3> QED
      BY <3>1, <2>1 DEF Due, n
  <2>3. k \in 1 .. n - 1
    BY <2>2, <1>2, NotLast
  <2> QED
    BY <2>1, <2>3, <1>4, <1>8, <1>13 DEF OneDue
<1>16. Files!SteadyPaths' = Files!SteadyPaths /\ at # "stopped" /\ n - 1 \in Nat
  BY <1>1, <1>2, <1>5, SteadyPathsSame
<1> QED
  BY <1>2, <1>4, <1>5, <1>12, <1>14, <1>15, <1>16, PathsKept

(* The callback gets the path in hand, which is not given again. *)
LEMMA CallStep ==
  ASSUME Files!IInv, Files!Call
  PROVE  Files!CallsNested' /\ Files!GivenOnce' /\ Files!SteadyGiven'
<1> DEFINE n == Len(frames)
           e == Files!EntryPath
           T == Files!Top
<1>1. /\ at = "call" /\ at' = "next" /\ frames' = frames /\ passed' = passed (+) SetToBag({e})
      /\ UNCHANGED <<Files!build, Files!world, handles, Files!refused>>
  BY SameOperators DEF Files!Call
<1>2. /\ Files!WorldOK /\ Files!CallsNested /\ frames # <<>> /\ n \in Nat \ {0} /\ n \in 1 .. n
      /\ T = frames[n] /\ T \in Files!Frames /\ TopBecomes(T)
      /\ Files!GivenOnce /\ Files!SteadyGiven
  BY <1>1, InACall DEF Files!IInv
<1>3. T.entry # Files!None /\ DOMAIN frames = 1 .. n
  BY <1>1, <1>2, Depth DEF Files!CallsNested
<1>4. /\ e \in Seq(Files!Entries) /\ Len(e) = n /\ \A j \in 1 .. n : e[j] = frames[j].entry
  BY <1>2, <1>3, EntryPathIs
<1>5. DOMAIN e = 1 .. n
  BY <1>4, LenProperties
<1>6. platform' = platform /\ maxPath' = maxPath /\ steady' = steady
  BY <1>1 DEF Files!build, Files!world
<1>7. /\ DOMAIN passed' = DOMAIN passed \cup {e}
      /\ \A q \in DOMAIN passed : q # e => passed'[q] = passed[q] + 0
      /\ e \notin DOMAIN passed => passed'[e] = 1
  <2>1. passed' = passed (+) SetToBag({e})
    BY <1>1
  <2> HIDE DEF e
  <2>2. passed'[e] = (IF e \in DOMAIN passed THEN passed[e] ELSE 0) + 1
    BY <2>1, BagAdd, ZenonT(60)
  <2>3. DOMAIN passed' = DOMAIN passed \cup {e}
    BY <2>1, BagAdd
  <2>4. ASSUME NEW q \in DOMAIN passed, q # e PROVE passed'[q] = passed[q] + 0
    BY <2>1, <2>4 DEF (+), SetToBag
  <2> QED
    BY <2>2, <2>3, <2>4
<1>8. Files!CallsNested'
  <2>1. \A k \in DOMAIN frames : Files!Nested(k)'
    BY <1>1, <1>2, <1>6 DEF Files!CallsNested, Files!Nested
  <2>2. Files!Top' = T
    BY <1>1 DEF Files!Top, Files!Last
  <2> QED
    BY <2>1, <2>2, <1>1, <1>2 DEF Files!CallsNested, Files!Listed
<1>9. \A q, l : AtTop(q, n, l, T.entry, at) <=> q[n] \in l \/ (q[n] = T.entry /\ n = Len(q))
  BY <1>1 DEF AtTop, Files!Listed
<1>10. \A q, l : AtTop(q, n, l, T.entry, at') <=> q[n] \in l
  BY <1>1 DEF AtTop, Files!Listed
<1> HIDE DEF n, e, T
<1>11. ASSUME NEW q \in DOMAIN passed', ToSet(q) \subseteq steady \cup {"."}, q # e
       PROVE  passed'[q] = 1 /\ NoDue(q, frames', at')
  <2>1. q \in DOMAIN passed
    BY <1>7, <1>11
  <2>2. passed[q] = 1 /\ NoDue(q, frames, at)
    BY <2>1, <1>2, <1>11, InTermsOfDue
  <2>3. NoDue(q, frames', at')
    BY <2>2, <1>2, <1>9, <1>10, TopMay DEF T, n
  <2> QED
    BY <2>1, <2>2, <2>3, <1>7, <1>11
<1>12. ASSUME ToSet(e) \subseteq steady \cup {"."}
       PROVE  passed'[e] = 1 /\ NoDue(e, frames', at')
  <2>1. e \notin DOMAIN passed
    <3>1. SUFFICES ASSUME NoDue(e, frames, at) PROVE FALSE
      BY <1>2, <1>12, InTermsOfDue
    <3>2. AtTop(e, n, T.may, T.entry, at)
      BY <1>2, <1>4, <1>9
    <3>3. n <= Len(e) /\ \A j \in 1 .. n - 1 : e[j] = frames[j].entry
      BY <1>2, <1>4
    <3>4. Due(e, n, frames[n].may, frames, at)
      BY <3>2, <3>3, <1>2 DEF Due, n
    <3> QED
      BY <3>1, <3>4, <1>2, <1>3 DEF NoDue
  <2>2. ASSUME NEW k \in 1 .. n PROVE ~Due(e, k, frames[k].may, frames, at')
    <3>1. e[k] = frames[k].entry /\ e[k] \in steady \cup {"."}
      BY <1>4, <1>5, <1>12 DEF ToSet
    <3>2. Files!Nested(k)
      BY <1>2, <1>3 DEF Files!CallsNested
    <3>3. e[k] \notin frames[k].may
      BY <3>1, <3>2 DEF Files!Nested
    <3>4. CASE k = n
      BY <3>3, <3>4, <1>2, <1>10 DEF Due, n
    <3>5. CASE k # n
      BY <3>3, <3>5, <1>4 DEF Due, Below, n
    <3> QED
      BY <3>4, <3>5
  <2> QED
    BY <2>1, <2>2, <1>1, <1>3, <1>7 DEF NoDue
<1>13. Files!GivenOnce'
  BY <1>1, <1>2, <1>3, <1>6, <1>11, <1>12, InTermsOfDueNext DEF n
<1>14. ASSUME NEW q \in Files!SteadyPaths, q # e, OneDue(q, frames, at)
       PROVE  OneDue(q, frames', at')
  <2>1. SUFFICES ASSUME n <= Len(q), \A j \in 1 .. n - 1 : q[j] = frames[j].entry,
                        q[n] = T.entry, n = Len(q)
                 PROVE  FALSE
    BY <1>2, <1>9, <1>10, <1>14, TopMust DEF T, n
  <2>2. q \in Seq(Files!Entries)
    BY <1>2, SteadyPath, SeqMonotonic DEF Files!Entries
  <2>3. ASSUME NEW j \in 1 .. n PROVE q[j] = e[j]
    <3>1. CASE j = n
      BY <3>1, <2>1, <1>2, <1>4
    <3>2. CASE j # n
      BY <3>2, <2>1, <1>2, <1>4, NotLast
    <3> QED
      BY <3>1, <3>2
  <2> QED
    BY <2>1, <2>2, <2>3, <1>4, <1>14, SeqEqual
<1>15. Files!SteadyGiven'
  <2>1. ASSUME NEW q \in Files!SteadyPaths PROVE q \in DOMAIN passed' \/ OneDue(q, frames', at')
    <3>1. q \in DOMAIN passed \/ OneDue(q, frames, at)
      BY <1>1, <1>2, InTermsOfDue
    <3> QED
      BY <3>1, <1>7, <1>14
  <2>2. Files!SteadyPaths' = Files!SteadyPaths
    BY <1>1, <1>6, SteadyPathsSame
  <2> QED
    BY <2>1, <2>2, <1>1, <1>2, <1>3, InTermsOfDueNext DEF n
<1> QED
  BY <1>8, <1>13, <1>15

(* Changes by other programs: the calls keep everything but what they list. *)
(* A change of the directory by another program: what comes of the steady    *)
(* paths stays the same.                                                     *)
LEMMA ChangeStep ==
  ASSUME Files!IInv, at \notin {"done", "stopped"}, at' = at, handles' = handles, passed' = passed,
         platform' = platform, maxPath' = maxPath, steady' \subseteq steady, UNCHANGED Files!refused,
         frames' \in Seq(Files!Frames), Len(frames') = Len(frames),
         \A k \in 1 .. Len(frames) :
           /\ frames'[k].path = frames[k].path /\ frames'[k].entry = frames[k].entry
           /\ frames'[k].open = frames[k].open
           /\ frames'[k].may \cap (steady \cup {"."}) \subseteq frames[k].may
           /\ frames[k].must \cap steady' \subseteq frames'[k].must
  PROVE  Files!CallsNested' /\ Files!GivenOnce' /\ Files!SteadyGiven'
<1> DEFINE n == Len(frames)
<1>1. /\ Files!WorldOK /\ Files!CallsNested /\ frames # <<>> /\ n \in Nat \ {0} /\ n \in 1 .. n
      /\ Files!Top = frames[n] /\ Files!GivenOnce /\ Files!SteadyGiven
      /\ handles = IF Files!Top.open THEN n ELSE n - 1
  BY InACall DEF Files!IInv
<1>2. DOMAIN frames = 1 .. n
  BY <1>1, Depth
<1>3. DOMAIN frames' = 1 .. n /\ frames' # <<>>
  BY <1>1, LenProperties, EmptySeq
<1>4. Files!Top'.open = Files!Top.open /\ Files!Top'.entry = Files!Top.entry
  <2>1. Files!Top' = Last(frames')
    BY SameOperators DEF Files!Top
  <2> QED
    BY <2>1, <1>1 DEF Last
<1>5. ASSUME NEW k \in 1 .. n PROVE Files!Nested(k)'
  <2>1. Files!Nested(k)
    BY <1>1, <1>2 DEF Files!CallsNested
  <2>2. \A j \in 1 .. k - 1 : frames'[j].entry = frames[j].entry
    BY <1>1
  <2>3. frames'[k].entry \in steady' \cup {"."} => frames'[k].entry \notin frames'[k].may
    BY <2>1, Zenon DEF Files!Nested
  <2> QED
    BY <2>1, <2>2, <2>3 DEF Files!Nested
<1>6. Files!CallsNested'
  <2>1. handles' = IF frames' = <<>> THEN 0 ELSE IF Files!Top'.open THEN Len(frames') ELSE Len(frames') - 1
    BY <1>1, <1>3, <1>4
  <2> QED
    BY <2>1, <1>1, <1>3, <1>4, <1>5 DEF Files!CallsNested
<1> HIDE DEF n
<1>7. ASSUME NEW k \in 1 .. n, NEW q, NEW l, NEW m, q[k] \in l => q[k] \in m
      PROVE  /\ Due(q, k, l, frames', at') => Due(q, k, m, frames, at)
             /\ Due(q, k, l, frames, at) => Due(q, k, m, frames', at')
  <2>1. \A j \in 1 .. k - 1 : frames'[j].entry = frames[j].entry
    BY <1>1 DEF n
  <2>2. frames'[k].entry = frames[k].entry
    BY DEF n
  <2> DEFINE F == k <= Len(q) /\ \A j \in 1 .. k - 1 : q[j] = frames[j].entry
             D(z) == IF k = n THEN AtTop(q, k, z, frames[k].entry, at) ELSE Below(q, k, z, frames[k].entry)
  <2>3. ASSUME NEW z PROVE /\ Due(q, k, z, frames', at') <=> F /\ D(z)
                           /\ Due(q, k, z, frames, at) <=> F /\ D(z)
    BY <2>1, <2>2 DEF Due, n
  <2>4. D(l) => D(m)
    <3>1. /\ AtTop(q, k, l, frames[k].entry, at) => AtTop(q, k, m, frames[k].entry, at)
          /\ Below(q, k, l, frames[k].entry) => Below(q, k, m, frames[k].entry)
      BY <1>7 DEF AtTop, Below
    <3> QED
      BY <3>1, Zenon
  <2> HIDE DEF F, D
  <2> QED
    BY <2>4, <2>3
<1>8. ASSUME NEW q \in Seq(Files!Entries), ToSet(q) \subseteq steady' \cup {"."}, NoDue(q, frames, at)
      PROVE  NoDue(q, frames', at')
  <2>1. SUFFICES ASSUME NEW k \in 1 .. n, Due(q, k, frames'[k].may, frames', at')
                 PROVE  Due(q, k, frames[k].may, frames, at)
    BY <1>2, <1>3, <1>8 DEF NoDue
  <2>2. k \in DOMAIN q
    BY <2>1, <1>1, LenProperties DEF Due, n
  <2>3. q[k] \in steady \cup {"."}
    BY <2>2, <1>8 DEF ToSet
  <2>4. q[k] \in frames'[k].may => q[k] \in frames[k].may
    BY <2>3 DEF n
  <2> QED
    BY <2>1, <2>4, <1>7
<1>9. Files!SteadyPaths' \subseteq Files!SteadyPaths /\ Files!SteadyPaths' = PathsIn(steady', unseen', unlisted')
  BY FewerPaths DEF Files!refused
<1>10. ASSUME NEW q \in Files!SteadyPaths', OneDue(q, frames, at) PROVE OneDue(q, frames', at')
  <2>1. PICK k \in 1 .. n : Due(q, k, frames[k].must, frames, at)
    BY <1>2, <1>10 DEF OneDue
  <2>2. k \in 1 .. Len(q) /\ Len(q) \in Nat
    BY <2>1, <1>1, <1>9, PathsInOf DEF Due, n
  <2>3. q[k] \in steady'
    BY <2>2, <1>1, <1>9, PathsInOf
  <2>4. q[k] \in frames[k].must => q[k] \in frames'[k].must
    BY <2>3 DEF n
  <2>5. Due(q, k, frames'[k].must, frames', at')
    BY <2>1, <2>4, <1>7
  <2> QED
    BY <2>5, <1>3 DEF OneDue
<1> QED
  BY <1>1, <1>3, <1>6, <1>8, <1>9, <1>10, PathsKept DEF n

(* An entry is deleted. *)
LEMMA DeleteStep ==
  ASSUME Files!IInv, NEW name \in Names, Files!Delete(name)
  PROVE  Files!CallsNested' /\ Files!GivenOnce' /\ Files!SteadyGiven'
<1>1. /\ at \notin {"done", "stopped"} /\ at' = at /\ handles' = handles /\ passed' = passed
      /\ platform' = platform /\ maxPath' = maxPath /\ steady' = steady \ {name}
      /\ UNCHANGED Files!refused
      /\ frames' = [k \in DOMAIN frames |->
           [frames[k] EXCEPT !.must = @ \ (IF Files!DirOf(frames[k].path) = name THEN {name, "."} ELSE {name})]]
  BY DEF Files!Delete, Files!Running, Files!build
<1>2. /\ Files!CallsNested /\ Files!WorldOK /\ Len(frames) \in Nat /\ DOMAIN frames = 1 .. Len(frames)
      /\ \A k \in 1 .. Len(frames) : frames[k] \in Files!Frames
  BY Depth DEF Files!IInv
<1>3. ASSUME NEW k \in 1 .. Len(frames)
      PROVE  /\ frames'[k].path = frames[k].path /\ frames'[k].entry = frames[k].entry
             /\ frames'[k].open = frames[k].open
             /\ frames'[k].may \cap (steady \cup {"."}) \subseteq frames[k].may
             /\ frames[k].must \cap steady' \subseteq frames'[k].must
             /\ frames'[k] \in Files!Frames
  <2> DEFINE out == IF Files!DirOf(frames[k].path) = name THEN {name, "."} ELSE {name}
             f == frames[k]
  <2>1. f \in Files!Frames /\ frames'[k] = [f EXCEPT !.must = @ \ out]
    BY <1>1, <1>2
  <2>2. out \cap steady' = {}
    BY <1>1, <1>2, FilesAssumption DEF Files!WorldOK
  <2> HIDE DEF out, f
  <2>3. /\ frames'[k].path = f.path /\ frames'[k].entry = f.entry /\ frames'[k].open = f.open
        /\ frames'[k].may = f.may /\ frames'[k].must = f.must \ out /\ frames'[k] \in Files!Frames
    BY <2>1 DEF Files!Frames
  <2> QED
    BY <2>2, <2>3 DEF f
<1>4. frames' \in Seq(Files!Frames) /\ Len(frames') = Len(frames)
  <2>1. frames' \in [1 .. Len(frames) -> Files!Frames]
    BY <1>1, <1>2, <1>3
  <2> QED
    BY <2>1, <1>2, SeqDef, LenProperties
<1> QED
  BY <1>1, <1>3, <1>4, ChangeStep

(* An entry is created, which directories that are open may or may not list. *)
LEMMA CreateStep ==
  ASSUME Files!IInv, NEW name \in Names, Files!Create(name)
  PROVE  Files!CallsNested' /\ Files!GivenOnce' /\ Files!SteadyGiven'
<1>1. /\ at \notin {"done", "stopped"} /\ at' = at /\ handles' = handles /\ passed' = passed
      /\ platform' = platform /\ maxPath' = maxPath /\ steady' = steady /\ name \notin present
      /\ UNCHANGED Files!refused
      /\ frames' = [k \in DOMAIN frames |->
           [frames[k] EXCEPT !.may = @ \cup (IF frames[k].open /\ Files!DirOf(frames[k].path) = Home[name]
                                             THEN {name} ELSE {})]]
  BY DEF Files!Create, Files!Running, Files!build
<1>2. /\ Files!CallsNested /\ Files!WorldOK /\ Len(frames) \in Nat /\ DOMAIN frames = 1 .. Len(frames)
      /\ \A k \in 1 .. Len(frames) : frames[k] \in Files!Frames
  BY Depth DEF Files!IInv
<1>3. ASSUME NEW k \in 1 .. Len(frames)
      PROVE  /\ frames'[k].path = frames[k].path /\ frames'[k].entry = frames[k].entry
             /\ frames'[k].open = frames[k].open
             /\ frames'[k].may \cap (steady \cup {"."}) \subseteq frames[k].may
             /\ frames[k].must \cap steady' \subseteq frames'[k].must
             /\ frames'[k] \in Files!Frames
  <2> DEFINE new == IF frames[k].open /\ Files!DirOf(frames[k].path) = Home[name] THEN {name} ELSE {}
             f == frames[k]
  <2>1. f \in Files!Frames /\ frames'[k] = [f EXCEPT !.may = @ \cup new]
    BY <1>1, <1>2
  <2>2. new \cap (steady \cup {"."}) = {} /\ new \subseteq Files!Entries
    BY <1>1, <1>2, FilesAssumption DEF Files!WorldOK, Files!Entries
  <2> HIDE DEF new, f
  <2>3. /\ frames'[k].path = f.path /\ frames'[k].entry = f.entry /\ frames'[k].open = f.open
        /\ frames'[k].must = f.must /\ frames'[k].may = f.may \cup new /\ frames'[k] \in Files!Frames
    BY <2>1, <2>2 DEF Files!Frames
  <2> QED
    BY <2>2, <2>3 DEF f
<1>4. frames' \in Seq(Files!Frames) /\ Len(frames') = Len(frames)
  <2>1. frames' \in [1 .. Len(frames) -> Files!Frames]
    BY <1>1, <1>2, <1>3
  <2> QED
    BY <2>1, <1>2, SeqDef, LenProperties
<1> QED
  BY <1>1, <1>3, <1>4, ChangeStep

(* No step adds to what is always there, and every step keeps the world's    *)
(* types.                                                                    *)
LEMMA WorldStep ==
  ASSUME Files!IInv, [Files!Next]_(Files!vars)
  PROVE  Files!WorldOK'
<1>1. /\ Files!WorldOK /\ platform \in {"posix", "windows"} /\ maxPath \in MaxPaths
      /\ steady \subseteq present /\ present \subseteq Names
      /\ passed \in [DOMAIN passed -> Nat \ {0}] /\ DOMAIN passed \subseteq Seq(Files!Entries)
  BY DEF Files!IInv, Files!WorldOK
<1>2. CASE Files!Call
  <2> DEFINE e == Files!EntryPath
  <2>1. /\ at = "call" /\ passed' = passed (+) SetToBag({e}) /\ UNCHANGED <<Files!build, Files!world>>
    BY <1>2, SameOperators DEF Files!Call
  <2>2. Files!CallsNested /\ frames # <<>> /\ Files!Top.entry # Files!None
    BY <2>1, InACall DEF Files!CallsNested
  <2>3. e \in Seq(Files!Entries)
    BY <2>2, EntryPathIs
  <2> HIDE DEF e
  <2>4. DOMAIN passed' = DOMAIN passed \cup {e} /\ passed' \in [DOMAIN passed' -> Nat \ {0}]
    BY <2>1, <1>1 DEF (+), SetToBag
  <2> QED
    BY <2>1, <2>3, <2>4, <1>1 DEF Files!WorldOK, Files!build, Files!world
<1>3. CASE \E name \in Names : Files!Delete(name) \/ Files!Create(name)
  BY <1>1, <1>3 DEF Files!Delete, Files!Create, Files!build, Files!WorldOK
<1>4. CASE UNCHANGED <<Files!build, Files!world, passed>>
  BY <1>1, <1>4 DEF Files!build, Files!world, Files!WorldOK
<1>5. CASE Files!Walk /\ ~Files!Call
  <2>1. UNCHANGED <<Files!build, Files!world, passed>>
    BY <1>5 DEF Files!Walk, Files!Open, Files!OpenFails, Files!FirstEntry, Files!CannotRead, Files!SkipEntry,
                Files!Enter, Files!StayOut, Files!NextEntry, Files!NextFails, Files!Close, Files!Stop
  <2> QED
    BY <2>1, <1>4
<1>6. CASE UNCHANGED Files!vars
  BY <1>6, <1>4 DEF Files!vars
<1> QED
  BY <1>2, <1>3, <1>5, <1>6 DEF Files!Next

(* Nothing happens to the walk. *)
LEMMA FilesStays ==
  ASSUME Files!IInv, UNCHANGED Files!vars
  PROVE  Files!IInv'
<1>1. /\ platform' = platform /\ maxPath' = maxPath /\ present' = present /\ steady' = steady
      /\ frames' = frames /\ at' = at /\ handles' = handles /\ passed' = passed /\ UNCHANGED Files!refused
  BY DEF Files!vars, Files!build, Files!world
<1>2. Files!WorldOK' /\ Files!WorldOK /\ Files!CallsNested /\ Files!GivenOnce /\ Files!SteadyGiven
  BY <1>1 DEF Files!IInv, Files!WorldOK
<1>3. Files!CallsNested'
  BY <1>1, <1>2 DEF Files!CallsNested, Files!Nested, Files!Top, Files!Last
<1>4. Files!GivenOnce' /\ Files!SteadyGiven'
  <2>1. Len(frames') \in Nat /\ DOMAIN frames' = 1 .. Len(frames')
    BY <1>1, <1>2, Depth
  <2>2. Files!SteadyPaths' = Files!SteadyPaths
    BY <1>1, SteadyPathsSame
  <2> QED
    BY <1>1, <1>2, <2>1, <2>2, InTermsOfDue, InTermsOfDueNext
<1> QED
  BY <1>2, <1>3, <1>4 DEF Files!IInv

(* The invariant of the walk is inductive. *)
LEMMA FilesInductive ==
  ASSUME Files!IInv, [Files!Next]_(Files!vars)
  PROVE  Files!IInv'
<1>1. CASE Files!Next
  <2>1. Files!WorldOK'
    BY <1>1, WorldStep
  <2>2. Files!CallsNested' /\ Files!GivenOnce' /\ Files!SteadyGiven'
    BY <1>1, OpenStep, OpenFailsStep, ListingStep, CannotReadStep, SkipEntryStep, EnterStep, StayOutStep,
       CallStep, NextFailsStep, CloseStep, DeleteStep, CreateStep DEF Files!Next, Files!Walk
  <2> QED
    BY <2>1, <2>2 DEF Files!IInv
<1> QED
  BY <1>1, FilesStays

(* The walk begins with a call for the root. *)
LEMMA FilesInitially ==
  ASSUME Files!Init
  PROVE  Files!IInv
<1> DEFINE f == Files!Frame(<<>>)
<1>1. f \in Files!Frames /\ f.path = <<>> /\ f.entry = Files!None /\ f.open = FALSE /\ f.may = {}
  <2>1. <<>> \in Seq(Files!Entries)
    BY EmptySeq
  <2> QED
    BY <2>1 DEF Files!Frame, Files!Frames, Files!Entries
<1>2. /\ frames = <<f>> /\ at = "open" /\ handles = 0 /\ steady = present /\ present \in Trees
      /\ platform \in {"posix", "windows"} /\ maxPath \in MaxPaths /\ passed = SetToBag({})
  BY SameOperators DEF Files!Init, Files!EmptyBag
<1> HIDE DEF f
<1>3. frames \in Seq(Files!Frames) /\ Len(frames) = 1 /\ DOMAIN frames = 1 .. 1 /\ frames[1] = f /\ frames # <<>>
  BY <1>1, <1>2
<1>4. Files!Top = f
  BY <1>3, SameOperators DEF Files!Top, Last
<1>5. present \subseteq Names /\ Files!None \notin steady \cup {"."}
  BY <1>2, FilesAssumption DEF Files!None
<1>6. Files!WorldOK
  BY <1>2, <1>5 DEF Files!WorldOK, SetToBag
<1>7. Files!Nested(1)
  BY <1>1, <1>3, <1>5 DEF Files!Nested
<1>8. Files!CallsNested
  BY <1>1, <1>2, <1>3, <1>4, <1>7 DEF Files!CallsNested, Files!Listed
<1>9. Files!GivenOnce
  BY <1>2 DEF Files!GivenOnce, SetToBag
<1>10. Files!SteadyGiven
  <2>1. ASSUME NEW q \in Files!SteadyPaths PROVE OneDue(q, frames, at)
    <3>1. Len(q) \in Nat \ {0}
      BY <1>6, SteadyPath
    <3>2. Due(q, 1, frames[1].must, frames, at)
      BY <3>1, <1>2, <1>3 DEF Due, AtTop
    <3> QED
      BY <3>2, <1>3 DEF OneDue
  <2> QED
    BY <2>1, <1>8, InTermsOfDue
<1> QED
  BY <1>6, <1>8, <1>9, <1>10 DEF Files!IInv

(* The handles that are open are those of the calls in progress. *)
LEMMA OpenHandles ==
  ASSUME Files!CallsNested
  PROVE  handles = Files!Cardinality({k \in DOMAIN frames : frames[k].open})
<1> DEFINE n == Len(frames)
           m == IF frames = <<>> THEN 0 ELSE IF Files!Top.open THEN n ELSE n - 1
<1>1. n \in Nat /\ DOMAIN frames = 1 .. n /\ (frames # <<>> => n > 0 /\ Files!Top = frames[n])
  BY Depth
<1>2. frames = <<>> => n = 0
  OBVIOUS
<1>3. ASSUME NEW k \in 1 .. n PROVE k < n => frames[k].open
  <2>1. Files!Nested(k)
    BY <1>1 DEF Files!CallsNested
  <2> QED
    BY <2>1 DEF Files!Nested
<1>4. {k \in DOMAIN frames : frames[k].open} = 1 .. m
  <2>1. CASE frames = <<>>
    BY <2>1, <1>1, <1>2
  <2>2. CASE frames # <<>> /\ Files!Top.open
    <3>1. \A k \in 1 .. n : frames[k].open
      BY <2>2, <1>1, <1>3, NotLast
    <3> QED
      BY <2>2, <3>1, <1>1
  <2>3. CASE frames # <<>> /\ ~Files!Top.open
    <3>1. \A k \in 1 .. n : frames[k].open <=> k # n
      BY <2>3, <1>1, <1>3, NotLast
    <3>2. m = n - 1
      BY <2>3
    <3> HIDE DEF n
    <3>3. \A k \in 1 .. n : k # n <=> k \in 1 .. n - 1
      BY <1>1
    <3>4. \A k \in 1 .. n - 1 : k \in 1 .. n
      BY <1>1
    <3> HIDE DEF m
    <3> QED
      BY <3>1, <3>2, <3>4, <3>3, <1>1
  <2> QED
    BY <2>1, <2>2, <2>3
<1>5. m \in Nat /\ handles = m
  <2>1. m \in Nat
    BY <1>1
  <2>2. handles = m
    BY DEF Files!CallsNested
  <2> QED
    BY <2>1, <2>2
<1> HIDE DEF m
<1>6. Cardinality(1 .. m) = m
  BY <1>5, FS_Interval
<1> QED
  BY <1>4, <1>5, <1>6, SameOperators

(* The invariant implies the property. *)
LEMMA WalkIsComplete ==
  ASSUME Files!IInv PROVE Files!WalkComplete
<1>1. Files!CallsNested /\ Files!GivenOnce /\ Files!SteadyGiven
  BY DEF Files!IInv
<1>2. \A q \in Files!BagToSet(passed) : passed[q] > 1 => ~(Files!ToSet(q) \subseteq steady \cup {"."})
  BY <1>1, SameOperators DEF Files!GivenOnce, BagToSet
<1>3. at = "done" => Files!SteadyPaths \subseteq Files!BagToSet(passed)
  <2>1. at = "done" => DOMAIN frames = {} /\ at # "stopped"
    BY <1>1 DEF Files!CallsNested
  <2> QED
    BY <2>1, <1>1, SameOperators DEF Files!SteadyGiven, BagToSet
<1> QED
  BY <1>1, <1>2, <1>3, OpenHandles DEF Files!WalkComplete

(* Whatever the tree, its links, the limits, the changes other programs make *)
(* meanwhile and what the system refuses to open, to list or to find: no     *)
(* path of entries that were always there is given twice, the directories    *)
(* open are those of the calls in progress, and a walk that returns has      *)
(* given every such path that was not refused, nor below one.                *)
THEOREM FilesFound == ExamplesSpec => []WalkComplete
<1> DEFINE I == program = "files" => Files!IInv
<1>1. ExamplesInit => I
  BY FilesInitially DEF ExamplesInit, BlurInit, FilesInit, NaclInit
<1>2. I /\ [ExamplesNext]_allVars => I'
  <2>1. SUFFICES ASSUME I, [ExamplesNext]_allVars, program' = "files" PROVE Files!IInv'
    OBVIOUS
  <2>2. program = "files"
    BY <2>1 DEF ExamplesNext, BlurStep, FilesStep, NaclStep, allVars
  <2>3. [Files!Next]_(Files!vars)
    <3>1. CASE FilesStep(Files!Next)
      BY <3>1 DEF FilesStep
    <3>2. CASE UNCHANGED allVars
      BY <3>2 DEF allVars, fileVars, Files!vars, Files!build, Files!world, Files!refused
    <3> QED
      BY <3>1, <3>2, <2>1, <2>2 DEF ExamplesNext, BlurStep, NaclStep
  <2> QED
    BY <2>1, <2>2, <2>3, FilesInductive
<1>3. I => WalkComplete
  BY WalkIsComplete DEF WalkComplete
<1> QED
  BY <1>1, <1>2, <1>3, PTL DEF ExamplesSpec
-----------------------------------------------------------------------------
(* The encrypted message. *)

(* A bit added twice is gone. *)
LEMMA ParityTwice ==
  ASSUME NEW m \in Nat, NEW n \in Nat, NEW u \in Nat, u % 2 = (m + n) % 2
  PROVE  (u + n) % 2 = m % 2
OBVIOUS

(* The lowest bit, and the others. *)
LEMMA Halved ==
  ASSUME NEW low \in 0 .. 1, NEW v \in Nat
  PROVE  (low + 2 * v) \div 2 = v /\ (low + 2 * v) % 2 = low
OBVIOUS

(* Xor with its digits written out. *)
LEMMA XorIs ==
  ASSUME NEW a \in Byte, NEW b \in Byte
  PROVE  Nacl!Xor(a, b) = (((a \div 1) + (b \div 1)) % 2) + 2 * (((a \div 2) + (b \div 2)) % 2)
           + 4 * (((a \div 4) + (b \div 4)) % 2) + 8 * (((a \div 8) + (b \div 8)) % 2)
           + 16 * (((a \div 16) + (b \div 16)) % 2) + 32 * (((a \div 32) + (b \div 32)) % 2)
           + 64 * (((a \div 64) + (b \div 64)) % 2) + 128 * (((a \div 128) + (b \div 128)) % 2)
BY DEF Nacl!Xor, Byte

(* Xor of octets is an octet, and its own inverse. *)
LEMMA SameDigits ==
  ASSUME NEW a \in Byte, NEW b \in Byte
  PROVE  Nacl!Xor(a, b) \in Byte /\ Nacl!Xor(Nacl!Xor(a, b), b) = a
<1> DEFINE d(p) == ((a \div p) + (b \div p)) % 2
           u == Nacl!Xor(a, b)
           c(p) == ((u \div p) + (b \div p)) % 2
<1>1. u = d(1) + 2 * d(2) + 4 * d(4) + 8 * d(8) + 16 * d(16) + 32 * d(32) + 64 * d(64) + 128 * d(128)
  BY XorIs
<1>2. /\ d(1) \in 0 .. 1 /\ d(2) \in 0 .. 1 /\ d(4) \in 0 .. 1 /\ d(8) \in 0 .. 1
      /\ d(16) \in 0 .. 1 /\ d(32) \in 0 .. 1 /\ d(64) \in 0 .. 1 /\ d(128) \in 0 .. 1
  BY DEF Byte
<1> HIDE DEF d, u
<1>3. u \in Byte
  BY <1>1, <1>2 DEF Byte
<1> DEFINE u128 == d(128)
           u64 == d(64) + 2 * u128
           u32 == d(32) + 2 * u64
           u16 == d(16) + 2 * u32
           u8 == d(8) + 2 * u16
           u4 == d(4) + 2 * u8
           u2 == d(2) + 2 * u4
<1>4. u = d(1) + 2 * u2
  BY <1>1, <1>2
<1>5. /\ u128 \in 0 .. 1 /\ u64 \in 0 .. 3 /\ u32 \in 0 .. 7 /\ u16 \in 0 .. 15
      /\ u8 \in 0 .. 31 /\ u4 \in 0 .. 63 /\ u2 \in 0 .. 127
  BY <1>2
<1>6. /\ u128 = d(128) /\ u64 = d(64) + 2 * u128 /\ u32 = d(32) + 2 * u64 /\ u16 = d(16) + 2 * u32
      /\ u8 = d(8) + 2 * u16 /\ u4 = d(4) + 2 * u8 /\ u2 = d(2) + 2 * u4
  OBVIOUS
<1> HIDE DEF u128, u64, u32, u16, u8, u4, u2
<1>7. u2 \in Nat /\ u4 \in Nat /\ u8 \in Nat /\ u16 \in Nat /\ u32 \in Nat /\ u64 \in Nat /\ u128 \in Nat
  BY <1>5
<1>8. /\ u \div 1 = u /\ u \div 2 = u2 /\ u2 \div 2 = u4 /\ u4 \div 2 = u8 /\ u8 \div 2 = u16
      /\ u16 \div 2 = u32 /\ u32 \div 2 = u64 /\ u64 \div 2 = u128
      /\ u % 2 = d(1) /\ u2 % 2 = d(2) /\ u4 % 2 = d(4) /\ u8 % 2 = d(8)
      /\ u16 % 2 = d(16) /\ u32 % 2 = d(32) /\ u64 % 2 = d(64)
  <2>1. u \div 2 = u2 /\ u % 2 = d(1)
    <3>1. u = d(1) + 2 * u2 /\ d(1) \in 0 .. 1 /\ u2 \in Nat
      BY <1>2, <1>4, <1>6, <1>7, Zenon
    <3> QED
      BY <3>1, Halved
  <2>2. u2 \div 2 = u4 /\ u2 % 2 = d(2)
    <3>1. u2 = d(2) + 2 * u4 /\ d(2) \in 0 .. 1 /\ u4 \in Nat
      BY <1>2, <1>4, <1>6, <1>7, Zenon
    <3> QED
      BY <3>1, Halved
  <2>3. u4 \div 2 = u8 /\ u4 % 2 = d(4)
    <3>1. u4 = d(4) + 2 * u8 /\ d(4) \in 0 .. 1 /\ u8 \in Nat
      BY <1>2, <1>4, <1>6, <1>7, Zenon
    <3> QED
      BY <3>1, Halved
  <2>4. u8 \div 2 = u16 /\ u8 % 2 = d(8)
    <3>1. u8 = d(8) + 2 * u16 /\ d(8) \in 0 .. 1 /\ u16 \in Nat
      BY <1>2, <1>4, <1>6, <1>7, Zenon
    <3> QED
      BY <3>1, Halved
  <2>5. u16 \div 2 = u32 /\ u16 % 2 = d(16)
    <3>1. u16 = d(16) + 2 * u32 /\ d(16) \in 0 .. 1 /\ u32 \in Nat
      BY <1>2, <1>4, <1>6, <1>7, Zenon
    <3> QED
      BY <3>1, Halved
  <2>6. u32 \div 2 = u64 /\ u32 % 2 = d(32)
    <3>1. u32 = d(32) + 2 * u64 /\ d(32) \in 0 .. 1 /\ u64 \in Nat
      BY <1>2, <1>4, <1>6, <1>7, Zenon
    <3> QED
      BY <3>1, Halved
  <2>7. u64 \div 2 = u128 /\ u64 % 2 = d(64)
    <3>1. u64 = d(64) + 2 * u128 /\ d(64) \in 0 .. 1 /\ u128 \in Nat
      BY <1>2, <1>4, <1>6, <1>7, Zenon
    <3> QED
      BY <3>1, Halved
  <2>8. u \div 1 = u
    BY <1>3 DEF Byte
  <2> QED
    BY <2>1, <2>2, <2>3, <2>4, <2>5, <2>6, <2>7, <2>8
<1>9. /\ u \div 4 = u4 /\ u \div 8 = u8 /\ u \div 16 = u16
      /\ u \div 32 = u32 /\ u \div 64 = u64 /\ u \div 128 = u128
  <2>1. u \in Nat
    BY <1>3 DEF Byte
  <2>2. u \div 4 = (u \div 2) \div 2 /\ u \div 8 = (u \div 4) \div 2
    BY <2>1
  <2>3. u \div 16 = (u \div 8) \div 2 /\ u \div 32 = (u \div 16) \div 2
    BY <2>1
  <2>4. u \div 64 = (u \div 32) \div 2 /\ u \div 128 = (u \div 64) \div 2
    BY <2>1
  <2> QED
    BY <1>8, <2>2, <2>3, <2>4
<1>10. u128 % 2 = d(128)
  BY <1>2, <1>6
<1>11. /\ (u \div 1) % 2 = d(1) /\ (u \div 2) % 2 = d(2) /\ (u \div 4) % 2 = d(4)
       /\ (u \div 8) % 2 = d(8) /\ (u \div 16) % 2 = d(16) /\ (u \div 32) % 2 = d(32)
       /\ (u \div 64) % 2 = d(64) /\ (u \div 128) % 2 = d(128)
  BY <1>8, <1>9, <1>10
<1>12. ASSUME NEW p \in {1, 2, 4, 8, 16, 32, 64, 128} PROVE c(p) = (a \div p) % 2
  <2>1. a \div p \in Nat /\ b \div p \in Nat /\ u \div p \in Nat
    BY <1>3 DEF Byte
  <2>2. (u \div p) % 2 = ((a \div p) + (b \div p)) % 2
    BY <1>11 DEF d
  <2> QED
    BY <2>1, <2>2, ParityTwice
<1>13. Nacl!Xor(u, b) = c(1) + 2 * c(2) + 4 * c(4) + 8 * c(8) + 16 * c(16) + 32 * c(32) + 64 * c(64) + 128 * c(128)
  BY <1>3, XorIs
<1>14. a = ((a \div 1) % 2) + 2 * ((a \div 2) % 2) + 4 * ((a \div 4) % 2) + 8 * ((a \div 8) % 2)
           + 16 * ((a \div 16) % 2) + 32 * ((a \div 32) % 2) + 64 * ((a \div 64) % 2) + 128 * ((a \div 128) % 2)
  BY DEF Byte
<1> HIDE DEF c
<1> QED
  BY <1>3, <1>12, <1>13, <1>14 DEF u

(* Three octets as four sextets, and back. *)
LEMMA SextetsAre ==
  ASSUME NEW f \in Byte, NEW g \in Byte, NEW h \in Byte
  PROVE  LET a == f \div 4
             b == ((f % 4) * 16) + (g \div 16)
             c == ((g % 16) * 4) + (h \div 64)
             d == h % 64
         IN /\ a \in 0 .. 63 /\ b \in 0 .. 63 /\ c \in 0 .. 63 /\ d \in 0 .. 63
            /\ (f % 4) * 16 \in 0 .. 63 /\ (g % 16) * 4 \in 0 .. 63
            /\ ((a * 4) + (b \div 16)) % 256 = f
            /\ ((b * 16) + (c \div 4)) % 256 = g
            /\ ((c * 64) + d) % 256 = h
<1> DEFINE a == f \div 4
           b == ((f % 4) * 16) + (g \div 16)
           c == ((g % 16) * 4) + (h \div 64)
           d == h % 64
           f1 == f % 4
           g0 == g \div 16
           g1 == g % 16
           h0 == h \div 64
<1>1. /\ a \in 0 .. 63 /\ f1 \in 0 .. 3 /\ f = 4 * a + f1
      /\ g0 \in 0 .. 15 /\ g1 \in 0 .. 15 /\ g = 16 * g0 + g1
      /\ h0 \in 0 .. 3 /\ d \in 0 .. 63 /\ h = 64 * h0 + d
  BY DEF Byte
<1>2. b = f1 * 16 + g0 /\ c = g1 * 4 + h0
  OBVIOUS
<1>3. b \in 0 .. 63 /\ c \in 0 .. 63 /\ f1 * 16 \in 0 .. 63 /\ g1 * 4 \in 0 .. 63
  BY <1>1, <1>2
<1> HIDE DEF a, b, c, d, f1, g0, g1, h0
<1>4. b \div 16 = f1 /\ c \div 4 = g1
  BY <1>1, <1>2
<1>5. (a * 4) + (b \div 16) = f
  BY <1>1, <1>4
<1>6. (((b * 16) + (c \div 4)) % 256) = g
  <2>1. (b * 16) + (c \div 4) = (256 * f1) + g
    BY <1>1, <1>2, <1>4
  <2> QED
    BY <2>1, <1>1 DEF Byte
<1>7. ((c * 64) + d) % 256 = h
  <2>1. (c * 64) + d = (256 * g1) + h
    BY <1>1, <1>2
  <2> QED
    BY <2>1, <1>1 DEF Byte
<1>8. ((a * 4) + (b \div 16)) % 256 = f
  BY <1>5 DEF Byte
<1> QED
  BY <1>1, <1>3, <1>6, <1>7, <1>8 DEF a, b, c, d, f1, g1

(* Count is the number of characters before the first that stands for        *)
(* nothing.                                                                  *)
LEMMA CountIs ==
  ASSUME NEW t, NEW m \in Nat, Len(t) \in Nat, m + 1 <= Len(t), t[m + 1] = Nacl!PAD,
         \A k \in 1 .. m : t[k] # Nacl!PAD
  PROVE  Nacl!Count(t) = m
<1> DEFINE I == {k \in 1 .. Len(t) : t[k] = Nacl!PAD}
<1>1. m + 1 \in I /\ \A k \in I : m + 1 <= k /\ k \in Nat
  BY DEF Nacl!PAD
<1>2. Nacl!SelectInSeq(t, LAMBDA c : c = Nacl!PAD) = IF I # {} THEN Nacl!Min(I) ELSE 0
  BY DEF Nacl!SelectInSeq
<1> HIDE DEF I
<1>3. Nacl!Min(I) = CHOOSE u \in I : \A v \in I : u =< v
  BY DEF Nacl!Min
<1>4. Nacl!Min(I) \in I /\ \A v \in I : Nacl!Min(I) =< v
  BY <1>1, <1>3
<1>5. Nacl!Min(I) = m + 1
  BY <1>1, <1>4
<1> QED
  BY <1>1, <1>2, <1>5 DEF Nacl!Count

(* A function of 1 .. n is a sequence of length n. *)
LEMMA SeqFunction ==
  ASSUME NEW S, NEW n \in Nat, NEW t \in [1 .. n -> S]
  PROVE  t \in Seq(S) /\ Len(t) = n
<1>1. t \in Seq(S)
  BY SeqDef
<1>2. Len(t) \in Nat /\ DOMAIN t = 1 .. Len(t) /\ DOMAIN t = 1 .. n
  BY <1>1, LenProperties
<1> QED
  BY <1>1, <1>2

(* Where the sextets of a character come from. *)
LEMMA Positions ==
  ASSUME NEW w \in Nat, NEW k \in 1 .. 4 * w
  PROVE  LET o == 3 * ((k - 1) \div 4) + 1
         IN (k - 1) \div 4 \in 0 .. w - 1 /\ o \in 1 .. 3 * w /\ o + 2 \in 1 .. 3 * w /\ ((k - 1) % 4) + 1 \in 1 .. 4
<1>1. (k - 1) \div 4 \in 0 .. w - 1 /\ ((k - 1) % 4) + 1 \in 1 .. 4
  OBVIOUS
<1> QED
  BY <1>1

(* The characters of whole groups of three octets are sextets. *)
LEMMA WholeGroups ==
  ASSUME NEW s \in Seq(Byte), NEW w \in Nat, 3 * w <= Len(s), NEW k \in 1 .. 4 * w
  PROVE  Nacl!Sextets(s, 3 * ((k - 1) \div 4) + 1)[((k - 1) % 4) + 1] \in 0 .. 63
<1> DEFINE o == 3 * ((k - 1) \div 4) + 1
           c == ((k - 1) % 4) + 1
<1>1. o \in Nat /\ o \in 1 .. Len(s) /\ o + 1 \in 1 .. Len(s) /\ o + 2 \in 1 .. Len(s) /\ c \in 1 .. 4
  BY Positions, LenProperties
<1>2. s[o] \in Byte /\ s[o + 1] \in Byte /\ s[o + 2] \in Byte
  BY <1>1, ElementOfSeq
<1> HIDE DEF o, c
<1>3. /\ s[o] \div 4 \in 0 .. 63 /\ ((s[o] % 4) * 16) + (s[o + 1] \div 16) \in 0 .. 63
      /\ ((s[o + 1] % 16) * 4) + (s[o + 2] \div 64) \in 0 .. 63 /\ s[o + 2] % 64 \in 0 .. 63
  <2> DEFINE f == s[o]
             g == s[o + 1]
             h == s[o + 2]
  <2>1. f \in Byte /\ g \in Byte /\ h \in Byte
    BY <1>2
  <2> HIDE DEF f, g, h
  <2>2. /\ f \div 4 \in 0 .. 63 /\ ((f % 4) * 16) + (g \div 16) \in 0 .. 63
        /\ ((g % 16) * 4) + (h \div 64) \in 0 .. 63 /\ h % 64 \in 0 .. 63
    BY <2>1, SextetsAre
  <2> QED
    BY <2>2 DEF f, g, h
<1>4. Nacl!Sextets(s, o)[c] \in 0 .. 63
  <2> DEFINE sextets == Nacl!Sextets(s, o)
  <2>1. /\ sextets[1] = s[o] \div 4 /\ sextets[2] = ((s[o] % 4) * 16) + (s[o + 1] \div 16)
        /\ sextets[3] = ((s[o + 1] % 16) * 4) + (s[o + 2] \div 64) /\ sextets[4] = s[o + 2] % 64
    BY DEF Nacl!Sextets
  <2>2. c = 1 \/ c = 2 \/ c = 3 \/ c = 4
    BY <1>1
  <2> HIDE DEF sextets
  <2>3. sextets[1] \in 0 .. 63 /\ sextets[2] \in 0 .. 63 /\ sextets[3] \in 0 .. 63 /\ sextets[4] \in 0 .. 63
    BY <2>1, <1>3
  <2>4. sextets[c] \in 0 .. 63
    BY <2>2, <2>3
  <2> QED
    BY <2>4 DEF sextets
<1> QED
  BY <1>4 DEF o, c

(* A group of four characters, with padding. *)
Quad(f, g, h) == <<f, g, h, Nacl!PAD>>
IsQuad(t, f, g, h) == /\ t \in Seq(0 .. 64) /\ Len(t) = 4
                      /\ t[1] = f /\ t[2] = g /\ t[3] = h /\ t[4] = Nacl!PAD

(* A group of four characters that ends in padding. *)
LEMMA Padded ==
  ASSUME NEW f \in 0 .. 63, NEW g \in 0 .. 63, NEW h \in 0 .. 64
  PROVE  IsQuad(Quad(f, g, h), f, g, h)
<1> DEFINE t == Quad(f, g, h)
<1>1. Nacl!PAD \in 0 .. 64 /\ f \in 0 .. 64 /\ g \in 0 .. 64
  BY DEF Nacl!PAD
<1>2. Len(t) = 4 /\ t[1] = f /\ t[2] = g /\ t[3] = h /\ t[4] = Nacl!PAD
  BY DEF Quad
<1>3. t \in Seq(0 .. 64)
  BY <1>1 DEF Quad
<1> QED
  BY <1>2, <1>3 DEF IsQuad

(* A sequence with one more element. *)
LEMMA Terminated ==
  ASSUME NEW S, NEW t \in Seq(S), NEW c \in S
  PROVE  LET u == t \o <<c>>
         IN u \in Seq(S) /\ Len(u) = Len(t) + 1 /\ u[Len(t) + 1] = c /\ \A k \in 1 .. Len(t) : u[k] = t[k]
<1>1. Append(t, c) = t \o <<c>>
  BY AppendIsConcat
<1>2. /\ Append(t, c) \in Seq(S) /\ Len(Append(t, c)) = Len(t) + 1 /\ Append(t, c)[Len(t) + 1] = c
      /\ \A k \in 1 .. Len(t) : Append(t, c)[k] = t[k]
  BY AppendProperties
<1> QED
  BY <1>1, <1>2

(* The octets left over, encoded; the text they end; what is known of both. *)
Ending(s, o, r) == IF r = 0 THEN <<>>
                   ELSE IF r = 1 THEN Quad(s[o] \div 4, (s[o] % 4) * 16, Nacl!PAD)
                   ELSE Quad(s[o] \div 4, ((s[o] % 4) * 16) + (s[o + 1] \div 16), (s[o + 1] % 16) * 4)
Line(groups, tail) == (groups \o tail) \o <<Nacl!PAD>>
IsLine(e, m, groups, tail) ==
  /\ e \in Seq(0 .. 64) /\ Len(e) = m + Len(tail) + 1 /\ e[m + Len(tail) + 1] = Nacl!PAD
  /\ \A k \in 1 .. m : e[k] = groups[k] /\ groups[k] \in 0 .. 63
  /\ \A k \in 1 .. Len(tail) : e[m + k] = tail[k]
EndsAs(t, r) == /\ t \in Seq(0 .. 64) /\ Len(t) = (IF r = 0 THEN 0 ELSE 4)
                /\ r # 0 => ((\A k \in 1 .. r + 1 : t[k] \in 0 .. 63) /\ t[r + 2] = Nacl!PAD)

(* The group for one or two octets left over. *)
LEMMA QuadEnds ==
  ASSUME NEW r \in 1 .. 2, NEW f \in 0 .. 63, NEW g \in 0 .. 63, NEW h \in 0 .. 64,
         r = 1 => h = Nacl!PAD, r = 2 => h \in 0 .. 63
  PROVE  EndsAs(Quad(f, g, h), r)
<1> DEFINE t == Quad(f, g, h)
<1>1. IsQuad(t, f, g, h)
  BY Padded
<1> HIDE DEF t
<1>2. t \in Seq(0 .. 64) /\ Len(t) = 4
  BY <1>1 DEF IsQuad
<1>3. t[1] = f /\ t[2] = g /\ t[3] = h /\ t[4] = Nacl!PAD
  BY <1>1 DEF IsQuad
<1>4. ASSUME NEW k \in 1 .. r + 1 PROVE t[k] \in 0 .. 63
  <2>1. k = 1 \/ k = 2 \/ (r = 2 /\ k = 3)
    OBVIOUS
  <2> QED
    BY <2>1, <1>3
<1>5. t[r + 2] = Nacl!PAD
  <2>1. (r = 1 /\ r + 2 = 3) \/ (r = 2 /\ r + 2 = 4)
    OBVIOUS
  <2> QED
    BY <2>1, <1>3
<1>6. r # 0
  OBVIOUS
<1> QED
  BY <1>2, <1>4, <1>5, <1>6, Zenon DEF EndsAs, t

(* What is left over of the octets, encoded. *)
LEMMA Tails ==
  ASSUME NEW s \in Seq(Byte), NEW w \in Nat, NEW r \in 0 .. 2, Len(s) = 3 * w + r, NEW o, o = 3 * w + 1
  PROVE  EndsAs(Ending(s, o, r), r)
<1>1. r = 0 \/ r = 1 \/ r = 2
  OBVIOUS
<1>2. CASE r = 0
  <2>1. Ending(s, o, r) = <<>>
    BY <1>2 DEF Ending
  <2>2. <<>> \in Seq(0 .. 64) /\ Len(<<>>) = 0
    BY EmptySeq, Zenon
  <2> QED
    <3> DEFINE t == Ending(s, o, r)
    <3>1. t \in Seq(0 .. 64) /\ Len(t) = 0
      BY <2>1, <2>2
    <3> HIDE DEF t
    <3>2. Len(t) = (IF r = 0 THEN 0 ELSE 4)
      BY <3>1, <1>2
    <3>3. EndsAs(t, r)
      BY <3>1, <3>2, <1>2, Zenon DEF EndsAs
    <3> QED
      BY <3>3 DEF t
<1>3. CASE r = 1
  <2> DEFINE b == s[o]
             f == b \div 4
             g == (b % 4) * 16
  <2>1. o \in 1 .. Len(s)
    BY <1>3
  <2>2. b \in Byte
    BY <2>1, ElementOfSeq
  <2>3. Ending(s, o, r) = Quad(f, g, Nacl!PAD)
    BY <1>3 DEF Ending
  <2>4. f \in 0 .. 63 /\ g \in 0 .. 63 /\ Nacl!PAD \in 0 .. 64
    <3> HIDE DEF b
    <3>1. b \in 0 .. 255
      BY <2>2 DEF Byte
    <3> QED
      BY <3>1 DEF Nacl!PAD
  <2>5. r \in 1 .. 2 /\ r # 2
    BY <1>3
  <2> HIDE DEF f, g
  <2> QED
    BY <2>3, <2>4, <2>5, QuadEnds
<1>4. CASE r = 2
  <2> DEFINE b == s[o]
             c == s[o + 1]
             f == b \div 4
             g == ((b % 4) * 16) + (c \div 16)
             h == (c % 16) * 4
  <2>1. o \in 1 .. Len(s) /\ o + 1 \in 1 .. Len(s)
    BY <1>4
  <2>2. b \in Byte /\ c \in Byte
    BY <2>1, ElementOfSeq
  <2>3. Ending(s, o, r) = Quad(f, g, h)
    BY <1>4 DEF Ending
  <2>4. f \in 0 .. 63 /\ g \in 0 .. 63 /\ h \in 0 .. 63 /\ h \in 0 .. 64
    <3> DEFINE b1 == b % 4
               c1 == c \div 16
               c2 == c % 16
    <3>1. b1 \in 0 .. 3 /\ c1 \in 0 .. 15 /\ c2 \in 0 .. 15 /\ f \in 0 .. 63
      <4> HIDE DEF b, c
      <4>1. b \in 0 .. 255 /\ c \in 0 .. 255
        BY <2>2 DEF Byte
      <4> QED
        BY <4>1
    <3>2. g = (b1 * 16) + c1 /\ h = c2 * 4
      OBVIOUS
    <3> HIDE DEF b1, c1, c2, f, g, h
    <3> QED
      BY <3>1, <3>2
  <2>5. r \in 1 .. 2 /\ r # 1
    BY <1>4
  <2> HIDE DEF f, g, h
  <2> QED
    BY <2>3, <2>4, <2>5, QuadEnds, ZenonT(40)
<1> QED
  BY <1>1, <1>2, <1>3, <1>4

(* The text: the groups, the padded group, the zero. *)
LEMMA Joined ==
  ASSUME NEW m \in Nat, NEW groups \in [1 .. m -> 0 .. 63], NEW tail \in Seq(0 .. 64)
  PROVE  IsLine(Line(groups, tail), m, groups, tail)
<1> DEFINE e == Line(groups, tail)
           S == 0 .. 64
           front == groups \o tail
<1>1. Nacl!PAD \in S /\ groups \in [1 .. m -> S]
  BY DEF Nacl!PAD
<1>2. groups \in Seq(S) /\ Len(groups) = m
  BY <1>1, SeqFunction
<1>3. tail \in Seq(S) /\ Len(tail) \in Nat
  BY LenProperties
<1> HIDE DEF S
<1>4. /\ front \in Seq(S) /\ Len(front) = Len(groups) + Len(tail)
      /\ \A k \in 1 .. Len(front) : front[k] = IF k <= Len(groups) THEN groups[k] ELSE tail[k - Len(groups)]
  BY <1>2, <1>3, ConcatProperties
<1> HIDE DEF front
<1>5. front \in Seq(S)
  BY <1>4
<1>6. e = front \o <<Nacl!PAD>>
  BY DEF front, Line
<1> HIDE DEF e
<1>7. /\ e \in Seq(S) /\ Len(e) = Len(front) + 1 /\ e[Len(front) + 1] = Nacl!PAD
      /\ \A k \in 1 .. Len(front) : e[k] = front[k]
  BY <1>1, <1>5, <1>6, Terminated
<1>8. \A k \in 1 .. m : e[k] = groups[k] /\ groups[k] \in 0 .. 63
  BY <1>2, <1>3, <1>4, <1>7, SMTT(30)
<1>9. ASSUME NEW k \in 1 .. Len(tail) PROVE e[m + k] = tail[k]
  <2> DEFINE j == m + k
  <2>1. j \in 1 .. Len(front) /\ ~(j <= m) /\ j - m = k
    BY <1>2, <1>3, <1>4
  <2> HIDE DEF j
  <2>2. e[j] = tail[j - m]
    BY <2>1, <1>2, <1>4, <1>7
  <2> QED
    BY <2>1, <2>2 DEF j
<1> QED
  <2>1. e \in Seq(0 .. 64)
    BY <1>7 DEF S
  <2>2. Len(e) = m + Len(tail) + 1 /\ e[m + Len(tail) + 1] = Nacl!PAD
    BY <1>2, <1>4, <1>7
  <2> QED
    BY <2>1, <2>2, <1>8, <1>9 DEF IsLine, e

(* A sextet is not padding. *)
LEMMA NotPad == \A v \in 0 .. 63 : v # Nacl!PAD
BY DEF Nacl!PAD

(* The encoding of octets, with one or two left over or none: the characters *)
(* up to the padding, and the groups.                                        *)
LEMMA Encoded ==
  ASSUME NEW s \in Seq(Byte), NEW w \in Nat, NEW r \in 0 .. 2, Len(s) = 3 * w + r
  PROVE  LET e == Nacl!Encode(s)
             n == IF r = 0 THEN 4 * w ELSE 4 * w + r + 1
         IN /\ e \in Seq(0 .. 64) /\ Nacl!Count(e) = n /\ 4 * w + 1 <= Len(e)
            /\ \A k \in 1 .. 4 * w : e[k] = Nacl!Sextets(s, 3 * ((k - 1) \div 4) + 1)[((k - 1) % 4) + 1]
            /\ Len(e) = (IF r = 0 THEN 4 * w ELSE 4 * w + 4) + 1 /\ e[Len(e)] = Nacl!PAD
            /\ \A k \in 1 .. (IF r = 0 THEN 0 ELSE 4) : e[4 * w + k] = Ending(s, 3 * w + 1, r)[k]
<1> DEFINE o == 3 * w + 1
           tail == Ending(s, o, r)
           groups == [k \in 1 .. 4 * w |-> Nacl!Sextets(s, 3 * ((k - 1) \div 4) + 1)[((k - 1) % 4) + 1]]
           e == Nacl!Encode(s)
           n == IF r = 0 THEN 4 * w ELSE 4 * w + r + 1
<1>1. Len(s) \div 3 = w /\ Len(s) % 3 = r
  OBVIOUS
<1>2. e = Line(groups, tail)
  BY <1>1 DEF Nacl!Encode, Ending, Line, Quad
<1>3. groups \in [1 .. 4 * w -> 0 .. 63]
  <2>1. ASSUME NEW k \in 1 .. 4 * w PROVE groups[k] \in 0 .. 63
    <3>1. groups[k] = Nacl!Sextets(s, 3 * ((k - 1) \div 4) + 1)[((k - 1) % 4) + 1]
      OBVIOUS
    <3> HIDE DEF groups
    <3>2. 3 * w <= Len(s)
      OBVIOUS
    <3> QED
      BY <3>1, <3>2, WholeGroups
  <2> QED
    BY <2>1
<1>4. \A k \in 1 .. 4 * w : groups[k] = Nacl!Sextets(s, 3 * ((k - 1) \div 4) + 1)[((k - 1) % 4) + 1]
  OBVIOUS
<1>5. o = 3 * w + 1 /\ tail = Ending(s, o, r)
  OBVIOUS
<1> HIDE DEF o, tail, groups, e
<1>6. EndsAs(tail, r)
  BY <1>5, Tails
<1>7. tail \in Seq(0 .. 64) /\ Len(tail) \in Nat
  BY <1>6, LenProperties DEF EndsAs
<1>8. /\ Len(tail) = (IF r = 0 THEN 0 ELSE 4)
      /\ r # 0 => ((\A k \in 1 .. r + 1 : tail[k] \in 0 .. 63) /\ tail[r + 2] = Nacl!PAD)
  BY <1>6 DEF EndsAs
<1> DEFINE m == 4 * w
<1>9. m \in Nat /\ groups \in [1 .. m -> 0 .. 63]
  BY <1>3
<1>10. m = 4 * w
  OBVIOUS
<1> HIDE DEF m
<1>11. IsLine(e, m, groups, tail)
  BY <1>2, <1>7, <1>9, Joined
<1>12. e \in Seq(0 .. 64) /\ Len(e) \in Nat
  BY <1>11, LenProperties DEF IsLine
<1>13. /\ Len(e) = m + Len(tail) + 1 /\ e[m + Len(tail) + 1] = Nacl!PAD
       /\ \A k \in 1 .. m : e[k] = groups[k] /\ groups[k] \in 0 .. 63
       /\ \A k \in 1 .. Len(tail) : e[m + k] = tail[k]
  BY <1>11 DEF IsLine
<1>14. Nacl!Count(e) = n
  <2>1. Len(e) \in Nat
    BY <1>12
  <2>2. \A k \in 1 .. m : e[k] # Nacl!PAD
    BY <1>13, NotPad
  <2>3. CASE r = 0
    <3>1. n = m /\ Len(tail) = 0 /\ m + Len(tail) + 1 = m + 1
      BY <2>3, <1>8, <1>9, <1>10
    <3>2. m + 1 <= Len(e) /\ e[m + 1] = Nacl!PAD
      BY <3>1, <1>9, <1>13
    <3> HIDE DEF n
    <3> QED
      BY <3>1, <3>2, <2>1, <2>2, <1>9, CountIs
  <2>4. CASE r # 0
    <3>1. Len(tail) = 4 /\ r + 2 \in 1 .. Len(tail) /\ n = m + (r + 1) /\ n + 1 = m + (r + 2) /\ n \in Nat
      BY <2>4, <1>8, <1>9, <1>10
    <3> HIDE DEF n
    <3>2. e[n + 1] = Nacl!PAD /\ n + 1 <= Len(e)
      BY <3>1, <2>4, <1>8, <1>9, <1>13
    <3>3. ASSUME NEW k \in 1 .. n PROVE e[k] # Nacl!PAD
      <4>1. CASE k <= m
        BY <4>1, <2>2, <3>1, <1>9
      <4>2. CASE k > m
        <5> DEFINE j == k - m
        <5>1. j \in 1 .. r + 1 /\ j \in 1 .. Len(tail) /\ k = m + j
          BY <4>2, <3>1, <2>4, <1>9
        <5> HIDE DEF j
        <5>2. e[k] = tail[j] /\ tail[j] \in 0 .. 63
          BY <5>1, <2>4, <1>8, <1>13
        <5> QED
          BY <5>2, NotPad
      <4> QED
        BY <4>1, <4>2, <3>1, <1>9
    <3> QED
      BY <3>1, <3>2, <3>3, <2>1, CountIs
  <2> QED
    BY <2>3, <2>4
<1>15. \A k \in 1 .. 4 * w : e[k] = Nacl!Sextets(s, 3 * ((k - 1) \div 4) + 1)[((k - 1) % 4) + 1]
  BY <1>4, <1>10, <1>13
<1>16. 4 * w + 1 <= Len(e)
  BY <1>9, <1>10, <1>7, <1>13
<1>17. Len(e) = (IF r = 0 THEN m ELSE m + 4) + 1
  BY <1>9, <1>8, <1>13
<1>18. e[Len(e)] = Nacl!PAD
  BY <1>13
<1>19. \A k \in 1 .. (IF r = 0 THEN 0 ELSE 4) : e[m + k] = tail[k]
  BY <1>8, <1>13
<1>20. \A k \in 1 .. (IF r = 0 THEN 0 ELSE 4) : e[4 * w + k] = Ending(s, 3 * w + 1, r)[k]
  BY <1>19, <1>10, <1>5, Zenon
<1>21. Len(e) = (IF r = 0 THEN 4 * w ELSE 4 * w + 4) + 1
  BY <1>17, <1>10
<1> QED
  BY <1>12, <1>14, <1>15, <1>16, <1>18, <1>20, <1>21 DEF e
(* The group of a character, and its place in it. *)
LEMMA Quarters ==
  ASSUME NEW g \in Nat, NEW c \in 1 .. 4
  PROVE  ((4 * g + c) - 1) \div 4 = g /\ (((4 * g + c) - 1) % 4) + 1 = c
OBVIOUS

(* The group of an octet, and its place in it. *)
LEMMA Thirds ==
  ASSUME NEW w \in Nat, NEW k \in 1 .. 3 * w
  PROVE  LET g == (k - 1) \div 3
             j == ((k - 1) % 3) + 1
         IN g \in 0 .. w - 1 /\ j \in 1 .. 3 /\ k = 3 * g + j
OBVIOUS

(* The whole groups of a text. *)
Groups(e, s, w) == \A k \in 1 .. 4 * w : e[k] = Nacl!Sextets(s, 3 * ((k - 1) \div 4) + 1)[((k - 1) % 4) + 1]

(* The decoder gives the three octets of a group. *)
LEMMA GroupRound ==
  ASSUME NEW s \in Seq(Byte), NEW w \in Nat, 3 * w <= Len(s), NEW e, Groups(e, s, w), NEW g \in 0 .. w - 1,
         NEW j \in 1 .. 3
  PROVE  Nacl!Octets(e, 4 * g + 1)[j] = s[3 * g + j]
<1> DEFINE o == 3 * g + 1
           i4 == 4 * g + 1
           f == s[o]
           h == s[o + 1]
           l == s[o + 2]
           sextets == Nacl!Sextets(s, o)
<1>1. o \in 1 .. Len(s) /\ o + 1 \in 1 .. Len(s) /\ o + 2 \in 1 .. Len(s)
  BY LenProperties
<1>2. f \in Byte /\ h \in Byte /\ l \in Byte
  BY <1>1, ElementOfSeq
<1>3. ASSUME NEW c \in 1 .. 4 PROVE e[4 * g + c] = sextets[c]
  <2> DEFINE k == 4 * g + c
  <2>1. k \in 1 .. 4 * w
    BY <1>3
  <2>2. (k - 1) \div 4 = g /\ ((k - 1) % 4) + 1 = c
    BY <1>3, Quarters
  <2> HIDE DEF k, sextets
  <2>3. e[k] = Nacl!Sextets(s, 3 * ((k - 1) \div 4) + 1)[((k - 1) % 4) + 1]
    BY <2>1 DEF Groups
  <2> QED
    BY <2>2, <2>3 DEF k, sextets
<1>4. i4 = 4 * g + 1 /\ i4 + 1 = 4 * g + 2 /\ i4 + 2 = 4 * g + 3 /\ i4 + 3 = 4 * g + 4
  OBVIOUS
<1>5. /\ sextets[1] = f \div 4 /\ sextets[2] = ((f % 4) * 16) + (h \div 16)
      /\ sextets[3] = ((h % 16) * 4) + (l \div 64) /\ sextets[4] = l % 64
  BY DEF Nacl!Sextets
<1>6. /\ s[3 * g + 1] = f /\ s[3 * g + 2] = h /\ s[3 * g + 3] = l
  <2>1. o = 3 * g + 1 /\ o + 1 = 3 * g + 2 /\ o + 2 = 3 * g + 3
    OBVIOUS
  <2> QED
    BY <2>1
<1> HIDE DEF sextets, o, f, h, l, i4
<1>7. /\ e[i4] = f \div 4 /\ e[i4 + 1] = ((f % 4) * 16) + (h \div 16)
      /\ e[i4 + 2] = ((h % 16) * 4) + (l \div 64) /\ e[i4 + 3] = l % 64
  BY <1>3, <1>4, <1>5
<1>8. /\ ((e[i4] * 4) + (e[i4 + 1] \div 16)) % 256 = f
      /\ ((e[i4 + 1] * 16) + (e[i4 + 2] \div 4)) % 256 = h
      /\ ((e[i4 + 2] * 64) + e[i4 + 3]) % 256 = l
  BY <1>2, <1>7, SextetsAre
<1> DEFINE octets == Nacl!Octets(e, i4)
<1>9. octets[1] = f /\ octets[2] = h /\ octets[3] = l
  BY <1>8 DEF Nacl!Octets
<1>10. j = 1 \/ j = 2 \/ j = 3
  OBVIOUS
<1> HIDE DEF octets
<1>11. octets[j] = s[3 * g + j]
  BY <1>6, <1>9, <1>10
<1> QED
  BY <1>11 DEF octets, i4
(* What is read beyond the text does not change the text. *)
LEMMA Zeroed ==
  ASSUME NEW e \in Seq(0 .. 64)
  PROVE  \A k \in 1 .. Len(e) : (e \o <<0, 0, 0>>)[k] = e[k]
<1> DEFINE z == <<0, 0, 0>>
           S == 0 .. 64
<1>1. z \in Seq(S) /\ Len(e) \in Nat /\ Len(z) \in Nat
  BY LenProperties
<1>2. e \in Seq(S)
  OBVIOUS
<1> HIDE DEF z, S
<1>3. \A k \in 1 .. Len(e) + Len(z) : (e \o z)[k] = IF k <= Len(e) THEN e[k] ELSE z[k - Len(e)]
  BY <1>1, <1>2, ConcatProperties
<1>4. \A k \in 1 .. Len(e) : (e \o z)[k] = e[k]
  BY <1>1, <1>3
<1> QED
  BY <1>4 DEF z

(* Part a of m elements and part b of three are those of s. *)
Parts(s, m, a, b) == /\ Len(s) = m + 3 /\ Len(b) = 3
                     /\ \A k \in 1 .. m : a[k] = s[k]
                     /\ \A j \in 1 .. 3 : b[j] = s[m + j]

(* A sequence is its first part and its last three elements. *)
LEMMA TwoParts ==
  ASSUME NEW s \in Seq(Byte), NEW m \in Nat, NEW a \in [1 .. m -> Byte], NEW b \in Seq(Byte), Parts(s, m, a, b)
  PROVE  a \o b = s
<1>1. /\ Len(s) = m + 3 /\ Len(b) = 3
      /\ \A k \in 1 .. m : a[k] = s[k]
      /\ \A j \in 1 .. 3 : b[j] = s[m + j]
  BY DEF Parts
<1>2. a \in Seq(Byte) /\ Len(a) = m
  BY SeqFunction
<1> DEFINE u == a \o b
<1>3. /\ u \in Seq(Byte) /\ Len(u) = Len(a) + Len(b)
      /\ \A k \in 1 .. Len(a) + Len(b) : u[k] = IF k <= Len(a) THEN a[k] ELSE b[k - Len(a)]
  BY <1>2, ConcatProperties
<1> HIDE DEF u
<1>4. ASSUME NEW k \in 1 .. Len(u) PROVE u[k] = s[k]
  <2>1. k \in 1 .. m + 3 /\ Len(u) = m + 3 /\ u[k] = IF k <= m THEN a[k] ELSE b[k - m]
    BY <1>1, <1>2, <1>3
  <2>2. CASE k <= m
    BY <1>1, <2>1, <2>2
  <2>3. CASE ~(k <= m)
    <3> DEFINE j == k - m
    <3>1. j \in 1 .. 3 /\ m + j = k
      BY <2>1, <2>3
    <3> HIDE DEF j
    <3>2. b[j] = s[k]
      BY <1>1, <3>1
    <3> QED
      BY <2>1, <2>3, <3>2 DEF j
  <2> QED
    BY <2>2, <2>3
<1>5. u = s
  BY <1>1, <1>2, <1>3, <1>4, SeqEqual
<1> QED
  BY <1>5 DEF u

(* Decoding undoes encoding, for every number of octets that is a multiple   *)
(* of 3.                                                                     *)
LEMMA RoundTrip ==
  ASSUME NEW s \in Seq(Byte), NEW w \in Nat, Len(s) = 3 * w
  PROVE  Nacl!Decode(Nacl!Encode(s)) = s
<1> DEFINE e == Nacl!Encode(s)
           z == e \o <<0, 0, 0>>
<1>1. e \in Seq(0 .. 64) /\ Nacl!Count(e) = 4 * w /\ 4 * w + 1 <= Len(e) /\ Groups(e, s, w)
  <2>1. Len(s) = 3 * w + 0 /\ 0 \in 0 .. 2
    OBVIOUS
  <2> QED
    BY <2>1, Encoded DEF Groups
<1>2. Len(e) \in Nat
  BY <1>1, LenProperties
<1>3. CASE w = 0
  <2>1. Nacl!Count(e) = 0 /\ s = <<>>
    BY <1>1, <1>3, EmptySeq
  <2>2. Nacl!Loops(e) = 0
    BY <2>1 DEF Nacl!Loops
  <2>3. Nacl!Decode(e) = [k \in 1 .. 0 |-> Nacl!Octets(e, 4 * ((k - 1) \div 3) + 1)[((k - 1) % 3) + 1]] \o <<>>
    BY <2>1, <2>2 DEF Nacl!Decode
  <2> QED
    BY <2>1, <2>3
<1>4. CASE w # 0
  <2> DEFINE l == w - 1
             i4 == 4 * l + 1
             a == [k \in 1 .. 3 * l |-> Nacl!Octets(e, 4 * ((k - 1) \div 3) + 1)[((k - 1) % 3) + 1]]
             octets == Nacl!Octets(z, i4)
             b == SubSeq(octets, 1, 3)
  <2>1. l \in Nat /\ w = l + 1 /\ (4 * w - 1) \div 4 = l /\ 4 * w - 4 * l = 4 /\ 4 * w # 0
    BY <1>4
  <2>2. Nacl!Loops(e) = l
    BY <1>1, <2>1 DEF Nacl!Loops
  <2>3. Nacl!Decode(e) = a \o b
    <3> DEFINE q == Nacl!Loops(e)
               c == Nacl!Count(e) - 4 * q
    <3>1. Nacl!Decode(e) = [k \in 1 .. 3 * q |-> Nacl!Octets(e, 4 * ((k - 1) \div 3) + 1)[((k - 1) % 3) + 1]]
                             \o (IF c > 1 THEN SubSeq(Nacl!Octets(z, 4 * q + 1), 1, c - 1) ELSE <<>>)
      BY DEF Nacl!Decode
    <3>2. q = l
      BY <2>2
    <3>3. Nacl!Count(e) = 4 * w
      BY <1>1
    <3> HIDE DEF e, z
    <3>4. c = 4 /\ c > 1 /\ c - 1 = 3
      BY <2>1, <3>2, <3>3
    <3> HIDE DEF c, q, l
    <3> QED
      BY <3>1, <3>2, <3>4, Zenon DEF a, b, octets, i4
  <2>4. ASSUME NEW k \in 1 .. 3 * l PROVE a[k] = s[k] /\ s[k] \in Byte
    <3> DEFINE g == (k - 1) \div 3
               j == ((k - 1) % 3) + 1
    <3>1. g \in 0 .. l - 1 /\ j \in 1 .. 3 /\ k = 3 * g + j
      BY <2>1, <2>4, Thirds
    <3>2. a[k] = Nacl!Octets(e, 4 * g + 1)[j]
      BY <2>4
    <3> HIDE DEF a, g, j, e
    <3>3. g \in 0 .. w - 1 /\ 3 * w <= Len(s) /\ k \in 1 .. Len(s)
      BY <2>1, <2>4, <3>1
    <3>4. Nacl!Octets(e, 4 * g + 1)[j] = s[3 * g + j]
      BY <1>1, <3>1, <3>3, GroupRound
    <3> QED
      BY <3>1, <3>2, <3>3, <3>4, ElementOfSeq
  <2>5. ASSUME NEW j \in 1 .. 3 PROVE octets[j] = s[3 * l + j] /\ s[3 * l + j] \in Byte
    <3>1. l \in 0 .. w - 1 /\ 3 * w <= Len(s) /\ 3 * l + j \in 1 .. Len(s)
      BY <2>1, <2>5
    <3>2. i4 \in 1 .. Len(e) /\ i4 + 1 \in 1 .. Len(e) /\ i4 + 2 \in 1 .. Len(e) /\ i4 + 3 \in 1 .. Len(e)
      <4>1. 4 * w + 1 <= Len(e)
        BY <1>1
      <4> HIDE DEF e
      <4> QED
        BY <4>1, <1>2, <2>1
    <3> HIDE DEF e
    <3>3. z[i4] = e[i4] /\ z[i4 + 1] = e[i4 + 1] /\ z[i4 + 2] = e[i4 + 2] /\ z[i4 + 3] = e[i4 + 3]
      BY <1>1, <3>2, Zeroed
    <3> HIDE DEF z, i4
    <3>4. octets = Nacl!Octets(e, i4)
      BY <3>3 DEF Nacl!Octets
    <3>5. Nacl!Octets(e, 4 * l + 1)[j] = s[3 * l + j]
      BY <1>1, <3>1, <2>5, GroupRound
    <3> QED
      BY <3>1, <3>4, <3>5, ElementOfSeq DEF i4
  <2>6. a \in [1 .. 3 * l -> Byte]
    <3>1. \A k \in 1 .. 3 * l : a[k] \in Byte
      BY <2>4
    <3> QED
      BY <3>1
  <2>7. \A k \in 1 .. 3 * l : a[k] = s[k]
    BY <2>4
  <2> HIDE DEF a, octets, e, z
  <2>8. b \in Seq(Byte) /\ Len(b) = 3 /\ \A j \in 1 .. 3 : b[j] = octets[j]
    <3>1. \A j \in 1 .. 3 : octets[j] \in Byte
      BY <2>5
    <3>2. /\ SubSeq(octets, 1, 3) \in Seq(Byte) /\ Len(SubSeq(octets, 1, 3)) = IF 1 <= 3 THEN 3 - 1 + 1 ELSE 0
          /\ \A j \in 1 .. 3 - 1 + 1 : SubSeq(octets, 1, 3)[j] = octets[1 + j - 1]
      BY <3>1, SubSeqProperties
    <3>3. \A j \in 1 .. 3 : j \in 1 .. 3 - 1 + 1 /\ 1 + j - 1 = j
      OBVIOUS
    <3>4. \A j \in 1 .. 3 : SubSeq(octets, 1, 3)[j] = octets[j]
      BY <3>2, <3>3
    <3> QED
      BY <3>2, <3>4
  <2> DEFINE m == 3 * l
  <2>9. m \in Nat /\ Len(s) = m + 3
    BY <2>1
  <2>10. \A j \in 1 .. 3 : b[j] = s[m + j]
    BY <2>5, <2>8
  <2>11. a \in [1 .. m -> Byte] /\ \A k \in 1 .. m : a[k] = s[k]
    BY <2>6, <2>7
  <2> HIDE DEF b, m, l
  <2>12. a \o b = s
    <3>1. Parts(s, m, a, b)
      BY <2>8, <2>9, <2>10, <2>11 DEF Parts
    <3> QED
      BY <2>8, <2>9, <2>11, <3>1, TwoParts
  <2> QED
    BY <2>3, <2>12 DEF e
<1> QED
  BY <1>3, <1>4

-----------------------------------------------------------------------------
(* Where a bit is: of the 24 bits of a group of three octets, or of four     *)
(* characters.                                                               *)
LEMMA BitPlaces ==
  ASSUME NEW g \in Nat, NEW bit \in 0 .. 23
  PROVE  LET n == 24 * g + bit + 1
         IN /\ (n - 1) \div 6 = 4 * g + (bit \div 6) /\ (n - 1) % 6 = bit % 6 /\ bit \div 6 \in 0 .. 3
            /\ (n - 1) \div 8 = 3 * g + (bit \div 8) /\ (n - 1) % 8 = bit % 8 /\ bit \div 8 \in 0 .. 2
            /\ n - 1 = 6 * (4 * g + (bit \div 6)) + (bit % 6) /\ bit % 6 \in 0 .. 5
            /\ n - 1 = 8 * (3 * g + (bit \div 8)) + (bit % 8) /\ bit % 8 \in 0 .. 7
<1> DEFINE n == 24 * g + bit + 1
           q6 == bit \div 6
           r6 == bit % 6
           q8 == bit \div 8
           r8 == bit % 8
<1>1. /\ bit = 6 * q6 + r6 /\ q6 \in 0 .. 3 /\ r6 \in 0 .. 5
      /\ bit = 8 * q8 + r8 /\ q8 \in 0 .. 2 /\ r8 \in 0 .. 7
  OBVIOUS
<1>2. n - 1 = 6 * (4 * g + q6) + r6 /\ n - 1 = 8 * (3 * g + q8) + r8 /\ n - 1 \in Nat
  BY <1>1
<1>3. 4 * g + q6 \in Nat /\ 3 * g + q8 \in Nat
  BY <1>1
<1> HIDE DEF n, q6, r6, q8, r8
<1>4. \A a \in Nat, q \in Nat, r \in 0 .. 5 : a = 6 * q + r => a \div 6 = q /\ a % 6 = r
  OBVIOUS
<1>5. \A a \in Nat, q \in Nat, r \in 0 .. 7 : a = 8 * q + r => a \div 8 = q /\ a % 8 = r
  OBVIOUS
<1>6. (n - 1) \div 6 = 4 * g + q6 /\ (n - 1) % 6 = r6
  BY <1>1, <1>2, <1>3, <1>4
<1>7. (n - 1) \div 8 = 3 * g + q8 /\ (n - 1) % 8 = r8
  BY <1>1, <1>2, <1>3, <1>5
<1> QED  BY <1>1, <1>2, <1>6, <1>7 DEF n, q6, r6, q8, r8

(* The quotient and the remainder by four.                                   *)
LEMMA ByFour == ASSUME NEW q \in Nat, NEW a \in 0 .. 3 PROVE (4 * q + a) \div 4 = q /\ (4 * q + a) % 4 = a
OBVIOUS

(* Octets are numbers.                                                       *)
LEMMA ByteIsNat == ASSUME NEW v \in Byte PROVE v \in Nat /\ v \in 0 .. 255
BY DEF Byte

(* Every bit belongs to a group.                                             *)
LEMMA BitGroup ==
  ASSUME NEW n \in Nat \ {0}
  PROVE  \E g \in Nat, bit \in 0 .. 23 : n = 24 * g + bit + 1
<1>1. (n - 1) \div 24 \in Nat /\ (n - 1) % 24 \in 0 .. 23
      /\ n = 24 * ((n - 1) \div 24) + ((n - 1) % 24) + 1
  OBVIOUS
<1> QED  BY <1>1

(* What a bit counts, by its place from the right.                           *)
LEMMA Weights ==
  /\ Nacl!Weight[1] = 1 /\ Nacl!Weight[2] = 2 /\ Nacl!Weight[3] = 4 /\ Nacl!Weight[4] = 8
  /\ Nacl!Weight[5] = 16 /\ Nacl!Weight[6] = 32 /\ Nacl!Weight[7] = 64 /\ Nacl!Weight[8] = 128
BY DEF Nacl!Weight

(* Weights are positive.                                                     *)
LEMMA WeightType == \A j \in 1 .. 8 : Nacl!Weight[j] \in Nat \ {0}
BY Weights

(* The sextets of three octets.                                              *)
Sextet(x1, x2, x3) == <<x1 \div 4, ((x1 % 4) * 16) + (x2 \div 16), ((x2 % 16) * 4) + (x3 \div 64), x3 % 64>>

(* The four sextets of three octets have their bits, one after the other.    *)
LEMMA SextetBits ==
  ASSUME NEW x1 \in Byte, NEW x2 \in Byte, NEW x3 \in Byte, NEW bit \in 0 .. 23
  PROVE  (Sextet(x1, x2, x3)[(bit \div 6) + 1] \div Nacl!Weight[6 - (bit % 6)]) % 2
           = (<<x1, x2, x3>>[(bit \div 8) + 1] \div Nacl!Weight[8 - (bit % 8)]) % 2
<1> DEFINE b == ((x1 % 4) * 16) + (x2 \div 16)
           c == ((x2 % 16) * 4) + (x3 \div 64)
           s == Sextet(x1, x2, x3)
           o == <<x1, x2, x3>>
<1>1. s[1] = x1 \div 4 /\ s[2] = b /\ s[3] = c /\ s[4] = x3 % 64 /\ o[1] = x1 /\ o[2] = x2 /\ o[3] = x3
  BY DEF Sextet
<1>2. x1 \in 0 .. 255 /\ x2 \in 0 .. 255 /\ x3 \in 0 .. 255
  BY DEF Byte
<1>3. /\ ((x1 \div 4) \div 32) % 2 = (x1 \div 128) % 2 /\ ((x1 \div 4) \div 16) % 2 = (x1 \div 64) % 2
      /\ ((x1 \div 4) \div 8) % 2 = (x1 \div 32) % 2 /\ ((x1 \div 4) \div 4) % 2 = (x1 \div 16) % 2
      /\ ((x1 \div 4) \div 2) % 2 = (x1 \div 8) % 2 /\ ((x1 \div 4) \div 1) % 2 = (x1 \div 4) % 2
  BY <1>2
<1>4. /\ (b \div 32) % 2 = (x1 \div 2) % 2 /\ (b \div 16) % 2 = (x1 \div 1) % 2
      /\ (b \div 8) % 2 = (x2 \div 128) % 2 /\ (b \div 4) % 2 = (x2 \div 64) % 2
      /\ (b \div 2) % 2 = (x2 \div 32) % 2 /\ (b \div 1) % 2 = (x2 \div 16) % 2
  <2> DEFINE u == x1 % 4
             v == x2 \div 16
  <2>1. u \in 0 .. 3 /\ v \in 0 .. 15 /\ b = 16 * u + v
    BY <1>2
  <2>2. /\ (x1 \div 2) % 2 = u \div 2 /\ (x1 \div 1) % 2 = u % 2
        /\ (x2 \div 128) % 2 = v \div 8 /\ (x2 \div 64) % 2 = (v \div 4) % 2
        /\ (x2 \div 32) % 2 = (v \div 2) % 2 /\ (x2 \div 16) % 2 = v % 2
    BY <1>2
  <2> HIDE DEF u, v, b
  <2>3. (b \div 32) % 2 = u \div 2 /\ (b \div 16) % 2 = u % 2
    BY <2>1
  <2>4. /\ (b \div 8) % 2 = v \div 8 /\ (b \div 4) % 2 = (v \div 4) % 2
        /\ (b \div 2) % 2 = (v \div 2) % 2 /\ (b \div 1) % 2 = v % 2
    BY <2>1
  <2> QED  BY <2>2, <2>3, <2>4
<1>5. /\ (c \div 32) % 2 = (x2 \div 8) % 2 /\ (c \div 16) % 2 = (x2 \div 4) % 2
      /\ (c \div 8) % 2 = (x2 \div 2) % 2 /\ (c \div 4) % 2 = (x2 \div 1) % 2
      /\ (c \div 2) % 2 = (x3 \div 128) % 2 /\ (c \div 1) % 2 = (x3 \div 64) % 2
  <2> DEFINE u == x2 % 16
             v == x3 \div 64
  <2>1. u \in 0 .. 15 /\ v \in 0 .. 3 /\ c = 4 * u + v
    BY <1>2
  <2>2. /\ (x2 \div 8) % 2 = u \div 8 /\ (x2 \div 4) % 2 = (u \div 4) % 2
        /\ (x2 \div 2) % 2 = (u \div 2) % 2 /\ (x2 \div 1) % 2 = u % 2
        /\ (x3 \div 128) % 2 = v \div 2 /\ (x3 \div 64) % 2 = v % 2
    BY <1>2
  <2> HIDE DEF u, v, c
  <2>3. /\ (c \div 32) % 2 = u \div 8 /\ (c \div 16) % 2 = (u \div 4) % 2
        /\ (c \div 8) % 2 = (u \div 2) % 2 /\ (c \div 4) % 2 = u % 2
    BY <2>1
  <2>4. (c \div 2) % 2 = v \div 2 /\ (c \div 1) % 2 = v % 2
    BY <2>1
  <2> QED  BY <2>2, <2>3, <2>4
<1>6. /\ ((x3 % 64) \div 32) % 2 = (x3 \div 32) % 2 /\ ((x3 % 64) \div 16) % 2 = (x3 \div 16) % 2
      /\ ((x3 % 64) \div 8) % 2 = (x3 \div 8) % 2 /\ ((x3 % 64) \div 4) % 2 = (x3 \div 4) % 2
      /\ ((x3 % 64) \div 2) % 2 = (x3 \div 2) % 2 /\ ((x3 % 64) \div 1) % 2 = (x3 \div 1) % 2
  BY <1>2
<1> HIDE DEF s, o, b, c
<1>7. bit \in 0 .. 5 => (s[(bit \div 6) + 1] \div Nacl!Weight[6 - (bit % 6)]) % 2
                        = (o[(bit \div 8) + 1] \div Nacl!Weight[8 - (bit % 8)]) % 2
  BY <1>1, <1>3, Weights
<1>8. bit \in 6 .. 11 => (s[(bit \div 6) + 1] \div Nacl!Weight[6 - (bit % 6)]) % 2
                        = (o[(bit \div 8) + 1] \div Nacl!Weight[8 - (bit % 8)]) % 2
  BY <1>1, <1>4, Weights
<1>9. bit \in 12 .. 17 => (s[(bit \div 6) + 1] \div Nacl!Weight[6 - (bit % 6)]) % 2
                        = (o[(bit \div 8) + 1] \div Nacl!Weight[8 - (bit % 8)]) % 2
  BY <1>1, <1>5, Weights
<1>10. bit \in 18 .. 23 => (s[(bit \div 6) + 1] \div Nacl!Weight[6 - (bit % 6)]) % 2
                         = (o[(bit \div 8) + 1] \div Nacl!Weight[8 - (bit % 8)]) % 2
  BY <1>1, <1>6, Weights
<1> QED
  BY <1>7, <1>8, <1>9, <1>10 DEF s, o

(* An octet, or zero behind the last.                                        *)
Octet(s, k) == IF k <= Len(s) THEN s[k] ELSE 0

(* Either is an octet.                                                       *)
LEMMA OctetType == ASSUME NEW s \in Seq(Byte), NEW k \in Nat \ {0} PROVE Octet(s, k) \in Byte
<1>1. Len(s) \in Nat
  BY LenProperties
<1>2. k <= Len(s) => s[k] \in Byte
  BY <1>1, ElementOfSeq
<1> QED  BY <1>2 DEF Octet, Byte

(* How many characters have bits, and how many do not.                       *)
LEMMA SextetCount ==
  ASSUME NEW l \in Nat, NEW w \in Nat, NEW r \in 0 .. 2, l = 3 * w + r
  PROVE  /\ (8 * l + 5) \div 6 = IF r = 0 THEN 4 * w ELSE 4 * w + r + 1
         /\ Nacl!EncodeLen(l) = (IF r = 0 THEN 4 * w ELSE 4 * w + 4) + 1
<1>1. r = 0 \/ r = 1 \/ r = 2
  OBVIOUS
<1>2. (8 * l + 5) \div 6 = IF r = 0 THEN 4 * w ELSE 4 * w + r + 1
  <2>1. 8 * l + 5 = 6 * (4 * w) + (8 * r + 5)
    OBVIOUS
  <2>2. (8 * l + 5) \div 6 = 4 * w + ((8 * r + 5) \div 6)
    BY <2>1
  <2> QED  BY <1>1, <2>2
<1>3. (l + 2) \div 3 = IF r = 0 THEN w ELSE w + 1
  BY <1>1
<1> QED  BY <1>2, <1>3 DEF Nacl!EncodeLen

(* A character that has bits is a sextet of its group, which ends in zeros.  *)
LEMMA EncodedSextet ==
  ASSUME NEW s \in Seq(Byte), NEW k \in 1 .. (8 * Len(s) + 5) \div 6
  PROVE  LET g == (k - 1) \div 4
         IN Nacl!Encode(s)[k] = Sextet(Octet(s, 3 * g + 1), Octet(s, 3 * g + 2),
                                       Octet(s, 3 * g + 3))[((k - 1) % 4) + 1]
<1> DEFINE w == Len(s) \div 3
           r == Len(s) % 3
           g == (k - 1) \div 4
           c == ((k - 1) % 4) + 1
           e == Nacl!Encode(s)
<1>1. Len(s) \in Nat
  BY LenProperties
<1>2. w \in Nat /\ r \in 0 .. 2 /\ Len(s) = 3 * w + r
  BY <1>1
<1>3. (8 * Len(s) + 5) \div 6 = IF r = 0 THEN 4 * w ELSE 4 * w + r + 1
  <2> HIDE DEF w, r
  <2> QED  BY <1>1, <1>2, SextetCount
<1> HIDE DEF w, r
<1>4. k \in Nat /\ k >= 1 /\ k <= (IF r = 0 THEN 4 * w ELSE 4 * w + r + 1)
  BY <1>1, <1>2, <1>3
<1>5. g \in Nat /\ c \in 1 .. 4 /\ k = 4 * g + c
  BY <1>4
<1>6. /\ \A j \in 1 .. 4 * w : e[j] = Nacl!Sextets(s, 3 * ((j - 1) \div 4) + 1)[((j - 1) % 4) + 1]
      /\ \A j \in 1 .. (IF r = 0 THEN 0 ELSE 4) : e[4 * w + j] = Ending(s, 3 * w + 1, r)[j]
  <2> HIDE DEF e
  <2> QED  BY <1>2, Encoded DEF e
<1> HIDE DEF e
<1> DEFINE x1 == Octet(s, 3 * g + 1)
           x2 == Octet(s, 3 * g + 2)
           x3 == Octet(s, 3 * g + 3)
<1>7. x1 \in Byte /\ x2 \in Byte /\ x3 \in Byte
  <2> HIDE DEF g
  <2> QED  BY <1>5, OctetType
<1>8. e[k] = Sextet(x1, x2, x3)[c]
  <2>1. CASE k <= 4 * w
    <3>1. k \in 1 .. 4 * w
      BY <1>2, <1>4, <2>1
    <3>2. e[k] = Nacl!Sextets(s, 3 * g + 1)[c]
      BY <3>1, <1>6
    <3> HIDE DEF g, c
    <3>3. g < w /\ 3 * g + 3 <= Len(s)
      BY <1>2, <1>5, <2>1
    <3>4. x1 = s[3 * g + 1] /\ x2 = s[3 * g + 2] /\ x3 = s[3 * g + 3]
      BY <1>1, <1>5, <3>3 DEF Octet
    <3>5. 3 * g + 1 + 1 = 3 * g + 2 /\ 3 * g + 1 + 2 = 3 * g + 3
      BY <1>5
    <3>6. Nacl!Sextets(s, 3 * g + 1) = Sextet(x1, x2, x3)
      BY <3>4, <3>5 DEF Nacl!Sextets, Sextet
    <3> QED  BY <3>2, <3>6
  <2>2. CASE k > 4 * w
    <3> HIDE DEF g, c
    <3>1. r \in 1 .. 2 /\ g = w /\ c \in 1 .. r + 1 /\ c \in 1 .. 4 /\ k = 4 * w + c
      BY <1>2, <1>4, <1>5, <2>2
    <3>2. e[k] = Ending(s, 3 * w + 1, r)[c]
      BY <3>1, <1>6
    <3>3. x1 = s[3 * w + 1] /\ x1 \in Byte
      BY <1>1, <1>2, <3>1, ElementOfSeq DEF Octet
    <3>4. CASE r = 1
      <4>1. x2 = 0
        BY <1>1, <1>2, <3>1, <3>4 DEF Octet
      <4> HIDE DEF x1, x2, x3
      <4>2. Ending(s, 3 * w + 1, r) = Quad(x1 \div 4, (x1 % 4) * 16, Nacl!PAD)
        BY <3>3, <3>4 DEF Ending
      <4>3. c = 1 \/ c = 2
        BY <3>1, <3>4
      <4>4. (x1 % 4) * 16 = ((x1 % 4) * 16) + (x2 \div 16)
        <5>1. x1 \in Nat
          BY <3>3, ByteIsNat, Zenon
        <5>2. (x1 % 4) * 16 \in Nat
          BY <5>1
        <5>3. x2 \div 16 = 0
          BY <4>1
        <5> QED  BY <5>2, <5>3
      <4>5. Quad(x1 \div 4, (x1 % 4) * 16, Nacl!PAD)[c] = Sextet(x1, x2, x3)[c]
        BY <4>3, <4>4 DEF Quad, Sextet
      <4> QED  BY <3>2, <4>2, <4>5
    <3>5. CASE r = 2
      <4>1. x3 = 0 /\ x2 = s[3 * w + 2] /\ x2 \in Byte
        BY <1>1, <1>2, <3>1, <3>5, ElementOfSeq DEF Octet
      <4>2. 3 * w + 1 + 1 = 3 * w + 2
        BY <1>2
      <4> HIDE DEF x1, x2, x3
      <4>3. Ending(s, 3 * w + 1, r) = Quad(x1 \div 4, ((x1 % 4) * 16) + (x2 \div 16), (x2 % 16) * 4)
        BY <3>3, <3>5, <4>1, <4>2 DEF Ending
      <4>4. c = 1 \/ c = 2 \/ c = 3
        BY <3>1, <3>5
      <4>5. (x2 % 16) * 4 = ((x2 % 16) * 4) + (x3 \div 64)
        <5>1. x2 \in Nat
          BY <4>1, ByteIsNat, Zenon
        <5>2. (x2 % 16) * 4 \in Nat
          BY <5>1
        <5>3. x3 \div 64 = 0
          BY <4>1
        <5> QED  BY <5>2, <5>3
      <4>6. Quad(x1 \div 4, ((x1 % 4) * 16) + (x2 \div 16), (x2 % 16) * 4)[c] = Sextet(x1, x2, x3)[c]
        BY <4>4, <4>5 DEF Quad, Sextet
      <4> QED  BY <3>2, <4>3, <4>6
    <3> QED  BY <3>1, <3>4, <3>5
  <2> QED  BY <1>4, <1>2, <2>1, <2>2
<1> QED  BY <1>8 DEF e

(* An encoding has the bits of the octets: for every number of octets.       *)
THEOREM EncodedBits == \A s \in Seq(Byte) : Nacl!EncodesBits(s)
<1> SUFFICES ASSUME NEW s \in Seq(Byte) PROVE Nacl!EncodesBits(s)
  OBVIOUS
<1> DEFINE e == Nacl!Encode(s)
           m == (8 * Len(s) + 5) \div 6
           w == Len(s) \div 3
           r == Len(s) % 3
<1>1. Len(s) \in Nat
  BY LenProperties
<1>2. w \in Nat /\ r \in 0 .. 2 /\ Len(s) = 3 * w + r
  BY <1>1
<1> HIDE DEF w, r
<1>3. /\ m = (IF r = 0 THEN 4 * w ELSE 4 * w + r + 1)
      /\ Nacl!EncodeLen(Len(s)) = (IF r = 0 THEN 4 * w ELSE 4 * w + 4) + 1
  BY <1>1, <1>2, SextetCount
<1>4. /\ Len(e) = (IF r = 0 THEN 4 * w ELSE 4 * w + 4) + 1 /\ e[Len(e)] = Nacl!PAD
      /\ \A k \in 1 .. (IF r = 0 THEN 0 ELSE 4) : e[4 * w + k] = Ending(s, 3 * w + 1, r)[k]
  <2> HIDE DEF e, m
  <2> QED  BY <1>2, Encoded DEF e
<1>5. ASSUME NEW k \in 1 .. m
      PROVE  LET g == (k - 1) \div 4
             IN e[k] = Sextet(Octet(s, 3 * g + 1), Octet(s, 3 * g + 2), Octet(s, 3 * g + 3))[((k - 1) % 4) + 1]
  BY EncodedSextet
<1> HIDE DEF e, m
<1>6. m \in Nat /\ 6 * m >= 8 * Len(s)
  BY <1>1, <1>2, <1>3
<1>7. ASSUME NEW k \in 1 .. m PROVE e[k] \in 0 .. 63
  <2> DEFINE g == (k - 1) \div 4
             c == ((k - 1) % 4) + 1
             x1 == Octet(s, 3 * g + 1)
             x2 == Octet(s, 3 * g + 2)
             x3 == Octet(s, 3 * g + 3)
  <2>1. g \in Nat /\ c \in 1 .. 4
    BY <1>6
  <2>2. e[k] = Sextet(x1, x2, x3)[c]
    BY <1>5
  <2>3. x1 \in Byte /\ x2 \in Byte /\ x3 \in Byte
    <3> HIDE DEF g
    <3> QED  BY <2>1, OctetType
  <2> HIDE DEF x1, x2, x3, g, c
  <2>4. /\ x1 \div 4 \in 0 .. 63 /\ ((x1 % 4) * 16) + (x2 \div 16) \in 0 .. 63
        /\ ((x2 % 16) * 4) + (x3 \div 64) \in 0 .. 63 /\ x3 % 64 \in 0 .. 63
    BY <2>3, SextetsAre
  <2>5. c = 1 \/ c = 2 \/ c = 3 \/ c = 4
    BY <2>1
  <2>6. Sextet(x1, x2, x3)[c] \in 0 .. 63
    <3>1. /\ Sextet(x1, x2, x3)[1] = x1 \div 4 /\ Sextet(x1, x2, x3)[2] = ((x1 % 4) * 16) + (x2 \div 16)
          /\ Sextet(x1, x2, x3)[3] = ((x2 % 16) * 4) + (x3 \div 64) /\ Sextet(x1, x2, x3)[4] = x3 % 64
      BY DEF Sextet
    <3>2. \A a \in {1, 2, 3, 4} : Sextet(x1, x2, x3)[a] \in 0 .. 63
      BY <2>4, <3>1, Zenon
    <3> QED  BY <2>5, <3>2, Zenon
  <2> QED  BY <2>2, <2>6
<1>8. ASSUME NEW n \in 1 .. 6 * m PROVE Nacl!Bit(e, 6, n) = IF n <= 8 * Len(s) THEN Nacl!Bit(s, 8, n) ELSE 0
  <2>1. n \in Nat \ {0} /\ n <= 6 * m
    BY <1>6
  <2>2. PICK g \in Nat, bit \in 0 .. 23 : n = 24 * g + bit + 1
    BY <2>1, BitGroup
  <2>3. /\ (n - 1) \div 6 = 4 * g + (bit \div 6) /\ (n - 1) % 6 = bit % 6 /\ bit \div 6 \in 0 .. 3
        /\ (n - 1) \div 8 = 3 * g + (bit \div 8) /\ (n - 1) % 8 = bit % 8 /\ bit \div 8 \in 0 .. 2
        /\ n - 1 = 6 * (4 * g + (bit \div 6)) + (bit % 6) /\ bit % 6 \in 0 .. 5
        /\ n - 1 = 8 * (3 * g + (bit \div 8)) + (bit % 8) /\ bit % 8 \in 0 .. 7
    BY <2>2, BitPlaces
  <2> DEFINE k == 4 * g + (bit \div 6) + 1
             j == 3 * g + (bit \div 8) + 1
             x1 == Octet(s, 3 * g + 1)
             x2 == Octet(s, 3 * g + 2)
             x3 == Octet(s, 3 * g + 3)
  <2>4. k \in 1 .. m /\ (k - 1) \div 4 = g /\ ((k - 1) % 4) + 1 = (bit \div 6) + 1
    <3> DEFINE a == bit \div 6
               b == bit % 6
    <3>1. a \in 0 .. 3 /\ b \in 0 .. 5 /\ n - 1 = 6 * (4 * g + a) + b
      BY <2>3
    <3> HIDE DEF a, b
    <3>2. 4 * g + a + 1 \in 1 .. m
      BY <1>6, <2>1, <2>2, <3>1
    <3>3. (4 * g + a) \div 4 = g /\ (4 * g + a) % 4 = a
      BY <2>2, <3>1, ByFour
    <3>4. (4 * g + a + 1) - 1 = 4 * g + a
      BY <2>2, <3>1
    <3> QED  BY <3>2, <3>3, <3>4 DEF a
  <2>5. x1 \in Byte /\ x2 \in Byte /\ x3 \in Byte
    BY <2>2, OctetType
  <2>6. e[k] = Sextet(x1, x2, x3)[(bit \div 6) + 1]
    <3> HIDE DEF k
    <3> QED  BY <1>5, <2>4
  <2> HIDE DEF x1, x2, x3
  <2>7. Nacl!Bit(e, 6, n) = (<<x1, x2, x3>>[(bit \div 8) + 1] \div Nacl!Weight[8 - (bit % 8)]) % 2
    <3>1. Nacl!Bit(e, 6, n) = (e[k] \div Nacl!Weight[6 - (bit % 6)]) % 2
      BY <2>3 DEF Nacl!Bit
    <3> HIDE DEF k
    <3>2. (Sextet(x1, x2, x3)[(bit \div 6) + 1] \div Nacl!Weight[6 - (bit % 6)]) % 2
            = (<<x1, x2, x3>>[(bit \div 8) + 1] \div Nacl!Weight[8 - (bit % 8)]) % 2
      BY <2>2, <2>5, SextetBits
    <3> QED  BY <3>1, <3>2, <2>6, Zenon
  <2>8. <<x1, x2, x3>>[(bit \div 8) + 1] = Octet(s, j)
    <3>1. bit \div 8 = 0 \/ bit \div 8 = 1 \/ bit \div 8 = 2
      BY <2>3
    <3>2. (bit \div 8 = 0 => j = 3 * g + 1) /\ (bit \div 8 = 1 => j = 3 * g + 2) /\ (bit \div 8 = 2 => j = 3 * g + 3)
      BY <2>2
    <3> HIDE DEF j
    <3> QED  BY <3>1, <3>2 DEF x1, x2, x3
  <2>9. j <= Len(s) <=> n <= 8 * Len(s)
    <3> DEFINE a == bit \div 8
               b == bit % 8
    <3>1. a \in 0 .. 2 /\ b \in 0 .. 7 /\ n - 1 = 8 * (3 * g + a) + b
      BY <2>3
    <3> HIDE DEF a, b
    <3>2. 3 * g + a + 1 <= Len(s) <=> n <= 8 * Len(s)
      BY <1>1, <2>1, <2>2, <3>1
    <3> QED  BY <3>2 DEF a
  <2>10. j = ((n - 1) \div 8) + 1 /\ (n - 1) % 8 = bit % 8
    BY <2>3
  <2> HIDE DEF j
  <2>11. CASE j <= Len(s)
    <3>1. Octet(s, j) = s[j]
      BY <2>11 DEF Octet
    <3>2. Nacl!Bit(s, 8, n) = (s[j] \div Nacl!Weight[8 - (bit % 8)]) % 2
      BY <2>10 DEF Nacl!Bit
    <3> QED  BY <3>1, <3>2, <2>7, <2>8, <2>9, <2>11
  <2>12. CASE ~(j <= Len(s))
    <3>1. Octet(s, j) = 0
      BY <2>12 DEF Octet
    <3>2. 8 - (bit % 8) \in 1 .. 8
      BY <2>2
    <3>3. \A v \in Nat \ {0} : (0 \div v) % 2 = 0
      OBVIOUS
    <3>4. (0 \div Nacl!Weight[8 - (bit % 8)]) % 2 = 0
      BY <3>2, <3>3, WeightType
    <3> QED  BY <3>1, <3>4, <2>7, <2>8, <2>9, <2>12
  <2> QED  BY <2>11, <2>12
<1>9. ASSUME NEW k \in m + 1 .. Len(e) PROVE e[k] = Nacl!PAD
  <2>1. CASE r = 0
    <3>1. k = Len(e)
      BY <1>2, <1>3, <1>4, <2>1
    <3> QED  BY <3>1, <1>4
  <2>2. CASE r # 0
    <3>1. k \in 4 * w + r + 2 .. 4 * w + 5 /\ Len(e) = 4 * w + 5
      BY <1>2, <1>3, <1>4, <2>2
    <3>2. CASE k = 4 * w + 5
      BY <3>1, <3>2, <1>4
    <3>3. CASE k # 4 * w + 5
      <4> DEFINE a == k - 4 * w
      <4>1. k = 4 * w + a /\ a \in 1 .. 4 /\ a \in r + 2 .. 4
        BY <1>2, <2>2, <3>1, <3>3
      <4> HIDE DEF a
      <4>2. e[k] = Ending(s, 3 * w + 1, r)[a]
        BY <1>4, <2>2, <4>1
      <4>3. CASE r = 1
        <5>1. a = 3 \/ a = 4
          BY <4>1, <4>3
        <5> QED  BY <4>2, <4>3, <5>1 DEF Ending, Quad
      <4>4. CASE r = 2
        <5>1. a = 4
          BY <4>1, <4>4
        <5> QED  BY <4>2, <4>4, <5>1 DEF Ending, Quad
      <4> QED  BY <1>2, <2>2, <4>3, <4>4
    <3> QED  BY <3>2, <3>3
  <2> QED  BY <2>1, <2>2
<1> QED  BY <1>3, <1>4, <1>7, <1>8, <1>9 DEF Nacl!EncodesBits, e, m

(* The octet in place j of its group, which characters p and q make.         *)
Pair(j, p, q) == IF j = 1 THEN ((p * 4) + (q \div 16)) % 256
                 ELSE IF j = 2 THEN ((p * 16) + (q \div 4)) % 256 ELSE ((p * 64) + q) % 256

(* Whatever the characters are, it is an octet.                              *)
LEMMA PairType == ASSUME NEW j, NEW p \in Nat, NEW q \in Nat PROVE Pair(j, p, q) \in Byte
<1>1. \A v \in Nat : v % 256 \in 0 .. 255
  OBVIOUS
<1>2. /\ (p * 4) + (q \div 16) \in Nat /\ (p * 16) + (q \div 4) \in Nat /\ (p * 64) + q \in Nat
  OBVIOUS
<1> QED  BY <1>1, <1>2 DEF Pair, Byte

(* Its bits are those of the characters, of place j and j + 1.               *)
LEMMA PairBits ==
  ASSUME NEW p \in 0 .. 63, NEW q \in 0 .. 63, NEW j \in 1 .. 3, NEW b \in 0 .. 7
  PROVE  LET bit == 8 * (j - 1) + b
         IN (Pair(j, p, q) \div Nacl!Weight[8 - b]) % 2
              = ((IF bit \div 6 = j - 1 THEN p ELSE q) \div Nacl!Weight[6 - (bit % 6)]) % 2
<1> DEFINE v == Pair(j, p, q)
           bit == 8 * (j - 1) + b
           f == IF bit \div 6 = j - 1 THEN p ELSE q
           Same == (v \div Nacl!Weight[8 - b]) % 2 = (f \div Nacl!Weight[6 - (bit % 6)]) % 2
<1>1. b = 0 \/ b = 1 \/ b = 2 \/ b = 3 \/ b = 4 \/ b = 5 \/ b = 6 \/ b = 7
  OBVIOUS
<1>2. CASE j = 1
  <2> DEFINE u == q \div 16
  <2>1. u \in 0 .. 3 /\ v = 4 * p + u
    BY <1>2 DEF Pair
  <2>2. (q \div 32) % 2 = u \div 2 /\ (q \div 16) % 2 = u % 2
    OBVIOUS
  <2>3. bit = b /\ (b \in 0 .. 5 => f = p /\ bit % 6 = b) /\ (b \in 6 .. 7 => f = q /\ bit % 6 = b - 6)
    BY <1>2
  <2> HIDE DEF u, v, bit, f
  <2>4. /\ (v \div 128) % 2 = (p \div 32) % 2 /\ (v \div 64) % 2 = (p \div 16) % 2
        /\ (v \div 32) % 2 = (p \div 8) % 2 /\ (v \div 16) % 2 = (p \div 4) % 2
        /\ (v \div 8) % 2 = (p \div 2) % 2 /\ (v \div 4) % 2 = (p \div 1) % 2
        /\ (v \div 2) % 2 = (q \div 32) % 2 /\ (v \div 1) % 2 = (q \div 16) % 2
    <3>1. v \div 128 = p \div 32 /\ v \div 64 = p \div 16 /\ v \div 32 = p \div 8
      BY <2>1
    <3>2. v \div 16 = p \div 4 /\ v \div 8 = p \div 2 /\ v \div 4 = p \div 1
      BY <2>1
    <3>3. (v \div 2) % 2 = u \div 2 /\ (v \div 1) % 2 = u % 2
      BY <2>1
    <3> QED  BY <2>2, <3>1, <3>2, <3>3
  <2>5. Same
    BY <1>1, <2>3, <2>4, Weights
  <2> QED  BY <2>5 DEF v, bit, f
<1>3. CASE j = 2
  <2> DEFINE u == q \div 4
             l == p % 16
  <2>1. u \in 0 .. 15 /\ l \in 0 .. 15 /\ v = 16 * l + u
    <3>1. p = 16 * (p \div 16) + l /\ p \div 16 \in 0 .. 3 /\ l \in 0 .. 15 /\ u \in 0 .. 15
      OBVIOUS
    <3>2. v = ((p * 16) + u) % 256
      BY <1>3 DEF Pair
    <3> HIDE DEF l, u, v
    <3>3. (p * 16) + u = 256 * (p \div 16) + (16 * l + u)
      BY <3>1
    <3> QED  BY <3>1, <3>2, <3>3
  <2>2. /\ (p \div 8) % 2 = l \div 8 /\ (p \div 4) % 2 = (l \div 4) % 2
        /\ (p \div 2) % 2 = (l \div 2) % 2 /\ (p \div 1) % 2 = l % 2
        /\ (q \div 32) % 2 = u \div 8 /\ (q \div 16) % 2 = (u \div 4) % 2
        /\ (q \div 8) % 2 = (u \div 2) % 2 /\ (q \div 4) % 2 = u % 2
    <3>1. (p \div 8) % 2 = l \div 8 /\ (p \div 4) % 2 = (l \div 4) % 2
      OBVIOUS
    <3>2. (p \div 2) % 2 = (l \div 2) % 2 /\ (p \div 1) % 2 = l % 2
      OBVIOUS
    <3>3. (q \div 32) % 2 = u \div 8 /\ (q \div 16) % 2 = (u \div 4) % 2
      OBVIOUS
    <3>4. (q \div 8) % 2 = (u \div 2) % 2 /\ (q \div 4) % 2 = u % 2
      OBVIOUS
    <3> QED  BY <3>1, <3>2, <3>3, <3>4
  <2>3. bit = 8 + b /\ (b \in 0 .. 3 => f = p /\ bit % 6 = b + 2) /\ (b \in 4 .. 7 => f = q /\ bit % 6 = b - 4)
    BY <1>3
  <2> HIDE DEF u, l, v, bit, f
  <2>4. /\ (v \div 128) % 2 = l \div 8 /\ (v \div 64) % 2 = (l \div 4) % 2
        /\ (v \div 32) % 2 = (l \div 2) % 2 /\ (v \div 16) % 2 = l % 2
    BY <2>1
  <2>5. /\ (v \div 8) % 2 = u \div 8 /\ (v \div 4) % 2 = (u \div 4) % 2
        /\ (v \div 2) % 2 = (u \div 2) % 2 /\ (v \div 1) % 2 = u % 2
    BY <2>1
  <2>6. /\ (v \div 128) % 2 = (p \div 8) % 2 /\ (v \div 64) % 2 = (p \div 4) % 2
        /\ (v \div 32) % 2 = (p \div 2) % 2 /\ (v \div 16) % 2 = (p \div 1) % 2
        /\ (v \div 8) % 2 = (q \div 32) % 2 /\ (v \div 4) % 2 = (q \div 16) % 2
        /\ (v \div 2) % 2 = (q \div 8) % 2 /\ (v \div 1) % 2 = (q \div 4) % 2
    BY <2>2, <2>4, <2>5
  <2>7. Same
    <3>1. CASE b \in 0 .. 3
      <4>1. b = 0 \/ b = 1 \/ b = 2 \/ b = 3
        BY <3>1
      <4>2. f = p /\ bit % 6 = b + 2
        BY <2>3, <3>1
      <4> QED  BY <2>6, <4>1, <4>2, Weights
    <3>2. CASE b \in 4 .. 7
      <4>1. b = 4 \/ b = 5 \/ b = 6 \/ b = 7
        BY <3>2
      <4>2. f = q /\ bit % 6 = b - 4
        BY <2>3, <3>2
      <4> QED  BY <2>6, <4>1, <4>2, Weights
    <3> QED  BY <1>1, <3>1, <3>2
  <2> QED  BY <2>7 DEF v, bit, f
<1>4. CASE j = 3
  <2> DEFINE l == p % 4
  <2>1. l \in 0 .. 3 /\ v = 64 * l + q
    <3>1. p = 4 * (p \div 4) + l /\ p \div 4 \in 0 .. 15 /\ l \in 0 .. 3
      OBVIOUS
    <3>2. v = ((p * 64) + q) % 256
      BY <1>4 DEF Pair
    <3> HIDE DEF l, v
    <3>3. (p * 64) + q = 256 * (p \div 4) + (64 * l + q)
      BY <3>1
    <3> QED  BY <3>1, <3>2, <3>3
  <2>2. (p \div 2) % 2 = l \div 2 /\ (p \div 1) % 2 = l % 2
    OBVIOUS
  <2>3. bit = 16 + b /\ (b \in 0 .. 1 => f = p /\ bit % 6 = b + 4) /\ (b \in 2 .. 7 => f = q /\ bit % 6 = b - 2)
    BY <1>4
  <2> HIDE DEF l, v, bit, f
  <2>4. (v \div 128) % 2 = l \div 2 /\ (v \div 64) % 2 = l % 2
    BY <2>1
  <2>5. /\ (v \div 32) % 2 = (q \div 32) % 2 /\ (v \div 16) % 2 = (q \div 16) % 2
        /\ (v \div 8) % 2 = (q \div 8) % 2 /\ (v \div 4) % 2 = (q \div 4) % 2
        /\ (v \div 2) % 2 = (q \div 2) % 2 /\ (v \div 1) % 2 = (q \div 1) % 2
    BY <2>1
  <2>6. (v \div 128) % 2 = (p \div 2) % 2 /\ (v \div 64) % 2 = (p \div 1) % 2
    BY <2>2, <2>4
  <2>7. Same
    BY <1>1, <2>3, <2>5, <2>6, Weights
  <2> QED  BY <2>7 DEF v, bit, f
<1>5. j = 1 \/ j = 2 \/ j = 3
  OBVIOUS
<1> QED  BY <1>2, <1>3, <1>4, <1>5

(* The octets of a group are made of its characters, two by two.             *)
LEMMA GroupPairs ==
  ASSUME NEW t, NEW g \in Nat, NEW j \in 1 .. 3
  PROVE  Nacl!Octets(t, 4 * g + 1)[j] = Pair(j, t[4 * g + j], t[4 * g + j + 1])
<1> DEFINE m == 4 * g + 1
           o == Nacl!Octets(t, m)
<1>1. m = 4 * g + 1 /\ m + 1 = 4 * g + 2 /\ m + 2 = 4 * g + 3 /\ m + 3 = 4 * g + 4
  OBVIOUS
<1>2. 4 * g + 1 + 1 = 4 * g + 2 /\ 4 * g + 2 + 1 = 4 * g + 3 /\ 4 * g + 3 + 1 = 4 * g + 4
  OBVIOUS
<1>3. /\ o[1] = ((t[m] * 4) + (t[m + 1] \div 16)) % 256
      /\ o[2] = ((t[m + 1] * 16) + (t[m + 2] \div 4)) % 256
      /\ o[3] = ((t[m + 2] * 64) + t[m + 3]) % 256
  BY DEF Nacl!Octets
<1> HIDE DEF o
<1>4. j = 1 \/ j = 2 \/ j = 3
  OBVIOUS
<1>5. o[j] = Pair(j, t[4 * g + j], t[4 * g + j + 1])
  <2>1. CASE j = 1
    BY <1>1, <1>2, <1>3, <2>1 DEF Pair
  <2>2. CASE j = 2
    BY <1>1, <1>2, <1>3, <2>2 DEF Pair
  <2>3. CASE j = 3
    BY <1>1, <1>2, <1>3, <2>3 DEF Pair
  <2> QED  BY <1>4, <2>1, <2>2, <2>3
<1> QED  BY <1>5 DEF o

(* A text with something that stands for nothing in it: before the first,    *)
(* there are only characters, which are counted.                             *)
LEMMA CountOf ==
  ASSUME NEW t \in Seq(0 .. 64), NEW p \in 1 .. Len(t), t[p] = Nacl!PAD
  PROVE  LET n == Nacl!Count(t)
         IN n \in Nat /\ n + 1 <= Len(t) /\ \A k \in 1 .. n : t[k] \in 0 .. 63
<1> DEFINE T == {k \in 1 .. Len(t) : t[k] = Nacl!PAD}
           R == {q \in Nat \X Nat : q[1] < q[2]}
<1>1. Len(t) \in Nat
  BY LenProperties
<1>2. IsWellFoundedOn(R, Nat)
  BY NatLessThanWellFounded DEF OpToRel
<1>3. T \subseteq Nat /\ T # {}
  BY <1>1
<1>4. PICK f \in T : \A e \in T : ~(<<e, f>> \in R)
  BY <1>2, <1>3, WFMin
<1>5. f \in 1 .. Len(t) /\ t[f] = Nacl!PAD /\ \A k \in 1 .. f - 1 : t[k] # Nacl!PAD
  <2>1. ASSUME NEW k \in 1 .. f - 1, t[k] = Nacl!PAD PROVE FALSE
    <3>1. k \in T /\ f \in Nat /\ k \in Nat /\ k < f
      BY <1>1, <1>3, <1>4, <2>1
    <3>2. <<k, f>> \in R
      BY <3>1
    <3> QED  BY <1>4, <3>1, <3>2
  <2> QED  BY <1>4, <2>1
<1> DEFINE m == f - 1
<1>6. m \in Nat /\ m + 1 = f /\ m + 1 <= Len(t)
  BY <1>1, <1>5
<1> HIDE DEF m
<1>7. t[m + 1] = Nacl!PAD /\ \A k \in 1 .. m : t[k] # Nacl!PAD
  BY <1>5, <1>6
<1>8. Nacl!Count(t) = m
  BY <1>1, <1>6, <1>7, CountIs
<1>9. ASSUME NEW k \in 1 .. m PROVE t[k] \in 0 .. 63
  <2>1. k \in 1 .. Len(t)
    BY <1>1, <1>6
  <2>2. t[k] \in 0 .. 64 /\ t[k] # 64
    BY <1>7, <2>1, ElementOfSeq DEF Nacl!PAD
  <2> QED  BY <2>2
<1> QED  BY <1>6, <1>8, <1>9

(* The loop, and what it leaves to the three ifs.                            *)
LEMMA LoopsIs ==
  ASSUME NEW t, NEW n \in Nat, Nacl!Count(t) = n
  PROVE  LET l == Nacl!Loops(t)
             rest == n - 4 * l
             left == IF rest > 1 THEN rest - 1 ELSE 0
         IN /\ l \in Nat /\ rest \in 0 .. 4 /\ n = 4 * l + rest /\ (rest = 0 => l = 0)
            /\ (6 * n) \div 8 = 3 * l + left /\ Nacl!Decoded(t) = 3 * l + left
            /\ 3 * l + left + 1 <= Nacl!DecodeLen(t)
<1> DEFINE l == Nacl!Loops(t)
           rest == n - 4 * l
           left == IF rest > 1 THEN rest - 1 ELSE 0
<1>1. l = IF n = 0 THEN 0 ELSE (n - 1) \div 4
  BY DEF Nacl!Loops
<1>2. Nacl!DecodeLen(t) = ((n + 3) \div 4) * 3 + 1 /\ Nacl!Decoded(t) = Nacl!DecodeLen(t) - 1 - ((4 - rest) % 4)
  BY DEF Nacl!DecodeLen, Nacl!Decoded
<1> HIDE DEF l
<1>3. l \in Nat /\ rest \in 0 .. 4 /\ n = 4 * l + rest /\ (rest = 0 => l = 0)
  BY <1>1
<1> HIDE DEF rest
<1>4. rest = 0 \/ rest = 1 \/ rest = 2 \/ rest = 3 \/ rest = 4
  BY <1>3
<1>5. (n + 3) \div 4 = IF rest = 0 THEN l ELSE l + 1
  BY <1>3, <1>4
<1>6. (6 * n) \div 8 = 3 * l + left
  <2>1. 6 * n = 8 * (3 * l) + 6 * rest
    BY <1>3
  <2>2. (6 * n) \div 8 = 3 * l + ((6 * rest) \div 8)
    BY <1>3, <2>1
  <2> QED  BY <1>4, <2>2
<1>7. Nacl!DecodeLen(t) = 3 * (IF rest = 0 THEN l ELSE l + 1) + 1
  BY <1>2, <1>3, <1>5
<1>8. Nacl!Decoded(t) = 3 * l + left
  BY <1>2, <1>3, <1>4, <1>7
<1>9. 3 * l + left + 1 <= Nacl!DecodeLen(t)
  BY <1>3, <1>4, <1>7
<1> QED  BY <1>3, <1>6, <1>8, <1>9 DEF l, rest

(* Of whole groups or of what is left over, the octets of a text are made of *)
(* its characters, two by two; there are as many as the characters fill.     *)
LEMMA DecodedAs ==
  ASSUME NEW t \in Seq(0 .. 64), NEW n \in Nat, Nacl!Count(t) = n, n + 1 <= Len(t)
  PROVE  LET d == Nacl!Decode(t)
         IN /\ Len(d) = (6 * n) \div 8 /\ Len(d) = Nacl!Decoded(t) /\ Len(d) + 1 <= Nacl!DecodeLen(t)
            /\ \A g \in Nat, j \in 1 .. 3 : 3 * g + j <= Len(d) =>
                 /\ 4 * g + j + 1 <= n
                 /\ d[3 * g + j] = Pair(j, t[4 * g + j], t[4 * g + j + 1])
<1> DEFINE l == Nacl!Loops(t)
           rest == n - 4 * l
           left == IF rest > 1 THEN rest - 1 ELSE 0
           z == t \o <<0, 0, 0>>
           octets == Nacl!Octets(z, 4 * l + 1)
           a == [k \in 1 .. 3 * l |-> Nacl!Octets(t, 4 * ((k - 1) \div 3) + 1)[((k - 1) % 3) + 1]]
           b == IF rest > 1 THEN SubSeq(octets, 1, rest - 1) ELSE <<>>
           d == Nacl!Decode(t)
<1>1. /\ l \in Nat /\ rest \in 0 .. 4 /\ n = 4 * l + rest /\ (rest = 0 => l = 0)
      /\ (6 * n) \div 8 = 3 * l + left /\ Nacl!Decoded(t) = 3 * l + left
      /\ 3 * l + left + 1 <= Nacl!DecodeLen(t)
  BY LoopsIs
<1>2. d = a \o b
  BY DEF Nacl!Decode
<1>3. Len(t) \in Nat
  BY LenProperties
<1> HIDE DEF l, rest, z, d
<1>4. left \in 0 .. 3
  BY <1>1
<1>5. ASSUME NEW k \in 1 .. n PROVE t[k] \in Nat /\ z[k] = t[k]
  <2>1. k \in 1 .. Len(t)
    BY <1>3
  <2>2. t[k] \in 0 .. 64
    BY <2>1, ElementOfSeq
  <2>3. z[k] = t[k]
    BY <2>1, Zeroed DEF z
  <2>4. t[k] \in Nat
    <3>1. \A v \in 0 .. 64 : v \in Nat
      OBVIOUS
    <3> QED  BY <2>2, <3>1, Zenon
  <2> QED  BY <2>3, <2>4, Zenon
<1>6. ASSUME NEW g \in Nat, NEW j \in 1 .. 3, 3 * g + j <= 3 * l + left
      PROVE  /\ 4 * g + j + 1 <= n /\ 4 * g + j \in 1 .. n /\ 4 * g + j + 1 \in 1 .. n
             /\ (3 * g + j <= 3 * l => g <= l - 1) /\ (3 * g + j > 3 * l => g = l /\ j <= left)
  BY <1>1, <1>4, <1>6
<1>7. ASSUME NEW g \in Nat, NEW j \in 1 .. 3, 3 * g + j <= 3 * l
      PROVE  /\ a[3 * g + j] = Pair(j, t[4 * g + j], t[4 * g + j + 1])
             /\ Pair(j, t[4 * g + j], t[4 * g + j + 1]) \in Byte
  <2> DEFINE k == 3 * g + j
  <2>1. k \in 1 .. 3 * l /\ (k - 1) \div 3 = g /\ ((k - 1) % 3) + 1 = j
    BY <1>1, <1>7
  <2>2. a[k] = Nacl!Octets(t, 4 * ((k - 1) \div 3) + 1)[((k - 1) % 3) + 1]
    BY <2>1
  <2> HIDE DEF k, a
  <2>3. a[k] = Nacl!Octets(t, 4 * g + 1)[j]
    BY <2>1, <2>2
  <2>4. a[k] = Pair(j, t[4 * g + j], t[4 * g + j + 1])
    BY <2>3, GroupPairs
  <2>5. 3 * g + j <= 3 * l + left
    BY <1>1, <1>4, <1>7
  <2>6. t[4 * g + j] \in Nat /\ t[4 * g + j + 1] \in Nat
    BY <1>5, <1>6, <2>5
  <2>7. Pair(j, t[4 * g + j], t[4 * g + j + 1]) \in Byte
    BY <2>6, PairType
  <2> QED  BY <2>4, <2>7 DEF k
<1>8. ASSUME NEW k \in 1 .. 3 * l PROVE a[k] \in Byte
  <2> DEFINE g == (k - 1) \div 3
             j == ((k - 1) % 3) + 1
  <2>1. l \in Nat /\ k \in 1 .. 3 * l
    BY <1>1
  <2>2. g \in 0 .. l - 1 /\ j \in 1 .. 3 /\ k = 3 * g + j
    BY <2>1, Thirds, Zenon
  <2> HIDE DEF g, j, a
  <2>3. g \in Nat /\ 3 * g + j <= 3 * l
    BY <2>1, <2>2
  <2>4. a[3 * g + j] \in Byte
    BY <1>7, <2>2, <2>3
  <2> QED  BY <2>2, <2>4
<1>9. a \in Seq(Byte) /\ Len(a) = 3 * l
  <2>1. a \in [1 .. 3 * l -> Byte] /\ 3 * l \in Nat
    BY <1>1, <1>8
  <2> HIDE DEF a
  <2> QED  BY <2>1, SeqFunction
<1>10. ASSUME NEW j \in 1 .. left
       PROVE  /\ octets[j] = Pair(j, t[4 * l + j], t[4 * l + j + 1])
              /\ Pair(j, t[4 * l + j], t[4 * l + j + 1]) \in Byte
  <2>1. j \in 1 .. 3 /\ 3 * l + j <= 3 * l + left
    BY <1>1, <1>4
  <2>2. 4 * l + j \in 1 .. n /\ 4 * l + j + 1 \in 1 .. n
    BY <1>1, <1>6, <2>1
  <2>3. octets[j] = Pair(j, z[4 * l + j], z[4 * l + j + 1])
    BY <1>1, <2>1, GroupPairs
  <2>4. Pair(j, t[4 * l + j], t[4 * l + j + 1]) \in Byte
    BY <1>5, <2>2, PairType
  <2> HIDE DEF octets
  <2> QED  BY <1>5, <2>2, <2>3, <2>4
<1>11. b \in Seq(Byte) /\ Len(b) = left /\ \A j \in 1 .. left : b[j] = octets[j]
  <2> HIDE DEF octets
  <2>1. CASE rest > 1
    <3> DEFINE m == rest - 1
    <3>1. m \in Int /\ 1 \in Int /\ 1 <= m /\ left = m /\ b = SubSeq(octets, 1, m)
      BY <1>1, <2>1
    <3>2. \A j \in 1 .. m : octets[j] \in Byte
      BY <1>10, <3>1
    <3> HIDE DEF m, b, left
    <3>3. /\ SubSeq(octets, 1, m) \in Seq(Byte) /\ Len(SubSeq(octets, 1, m)) = IF 1 <= m THEN m - 1 + 1 ELSE 0
          /\ \A j \in 1 .. m - 1 + 1 : SubSeq(octets, 1, m)[j] = octets[1 + j - 1]
      BY <3>1, <3>2, SubSeqProperties
    <3>4. m - 1 + 1 = m /\ \A j \in 1 .. m : 1 + j - 1 = j
      BY <3>1
    <3> QED  BY <3>1, <3>3, <3>4
  <2>2. CASE ~(rest > 1)
    <3>1. b = <<>> /\ left = 0
      BY <2>2
    <3> QED  BY <3>1
  <2> QED  BY <2>1, <2>2
<1> HIDE DEF a, b
<1>12. /\ Len(d) = 3 * l + left
       /\ \A k \in 1 .. 3 * l + left : d[k] = IF k <= 3 * l THEN a[k] ELSE b[k - 3 * l]
  <2> HIDE DEF left
  <2>1. /\ Len(a \o b) = Len(a) + Len(b)
        /\ \A k \in 1 .. Len(a) + Len(b) : (a \o b)[k] = IF k <= Len(a) THEN a[k] ELSE b[k - Len(a)]
    BY <1>9, <1>11, ConcatProperties
  <2> QED  BY <1>2, <1>9, <1>11, <2>1
<1>13. ASSUME NEW g \in Nat, NEW j \in 1 .. 3, 3 * g + j <= Len(d)
       PROVE  /\ 4 * g + j + 1 <= n
              /\ d[3 * g + j] = Pair(j, t[4 * g + j], t[4 * g + j + 1])
  <2> HIDE DEF left, octets
  <2>1. 3 * g + j <= 3 * l + left /\ 3 * g + j \in 1 .. 3 * l + left
    BY <1>1, <1>4, <1>12, <1>13
  <2>2. /\ 4 * g + j + 1 <= n
        /\ (3 * g + j > 3 * l => g = l /\ j <= left)
    BY <1>6, <2>1
  <2>3. CASE 3 * g + j <= 3 * l
    BY <1>7, <1>12, <2>1, <2>2, <2>3
  <2>4. CASE ~(3 * g + j <= 3 * l)
    <3>1. g = l /\ j \in 1 .. left /\ (3 * g + j) - 3 * l = j
      BY <1>1, <1>4, <2>2, <2>4
    <3>2. d[3 * g + j] = b[j]
      BY <1>12, <2>1, <2>4, <3>1
    <3> QED  BY <1>10, <1>11, <2>2, <3>1, <3>2
  <2> QED  BY <2>3, <2>4
<1> QED  BY <1>1, <1>12, <1>13 DEF d, left

(* The place of a bit in its group, of three octets and of four characters.  *)
LEMMA InGroup ==
  ASSUME NEW bit \in 0 .. 23
  PROVE  /\ bit = 8 * (bit \div 8) + (bit % 8) /\ bit \div 8 \in 0 .. 2 /\ bit % 8 \in 0 .. 7
         /\ bit = 6 * (bit \div 6) + (bit % 6) /\ bit \div 6 \in 0 .. 3 /\ bit % 6 \in 0 .. 5
OBVIOUS

(* A text of characters, of any number, is decoded to the octets its bits    *)
(* fill, whatever is behind the first padding: as many as are returned, and  *)
(* no more than announced.                                                   *)
THEOREM DecodedBits ==
  \A t \in Seq(0 .. 64) : (\E p \in 1 .. Len(t) : t[p] = Nacl!PAD) => Nacl!DecodesBits(t)
<1> SUFFICES ASSUME NEW t \in Seq(0 .. 64), NEW p \in 1 .. Len(t), t[p] = Nacl!PAD PROVE Nacl!DecodesBits(t)
  OBVIOUS
<1> DEFINE n == Nacl!Count(t)
           d == Nacl!Decode(t)
<1>1. n \in Nat /\ n + 1 <= Len(t) /\ \A k \in 1 .. n : t[k] \in 0 .. 63
  BY CountOf
<1>2. /\ Len(d) = (6 * n) \div 8 /\ Len(d) = Nacl!Decoded(t) /\ Len(d) + 1 <= Nacl!DecodeLen(t)
      /\ \A g \in Nat, j \in 1 .. 3 : 3 * g + j <= Len(d) =>
           /\ 4 * g + j + 1 <= n
           /\ d[3 * g + j] = Pair(j, t[4 * g + j], t[4 * g + j + 1])
  BY <1>1, DecodedAs
<1>3. Len(d) \in Nat
  BY <1>1, <1>2
<1> HIDE DEF n, d
<1>4. ASSUME NEW g \in Nat, NEW j \in 1 .. 3, 3 * g + j <= Len(d)
      PROVE  /\ t[4 * g + j] \in 0 .. 63 /\ t[4 * g + j + 1] \in 0 .. 63
             /\ d[3 * g + j] = Pair(j, t[4 * g + j], t[4 * g + j + 1])
  <2>1. 4 * g + j \in 1 .. n /\ 4 * g + j + 1 \in 1 .. n
    BY <1>1, <1>2, <1>4
  <2> QED  BY <1>1, <1>2, <1>4, <2>1
<1>5. ASSUME NEW k \in 1 .. Len(d) PROVE d[k] \in 0 .. 255
  <2> DEFINE g == (k - 1) \div 3
             j == ((k - 1) % 3) + 1
  <2>1. g \in Nat /\ j \in 1 .. 3 /\ k = 3 * g + j
    BY <1>3
  <2> HIDE DEF g, j
  <2>2. /\ t[4 * g + j] \in Nat /\ t[4 * g + j + 1] \in Nat
        /\ d[k] = Pair(j, t[4 * g + j], t[4 * g + j + 1])
    <3>1. 3 * g + j <= Len(d)
      BY <1>3, <2>1
    <3>2. \A v \in 0 .. 63 : v \in Nat
      OBVIOUS
    <3> QED  BY <1>4, <2>1, <3>1, <3>2
  <2> QED  BY <2>2, PairType DEF Byte
<1>6. ASSUME NEW m \in 1 .. 8 * Len(d) PROVE Nacl!Bit(d, 8, m) = Nacl!Bit(t, 6, m)
  <2>1. m \in Nat \ {0} /\ m <= 8 * Len(d)
    BY <1>3
  <2>2. PICK g \in Nat, bit \in 0 .. 23 : m = 24 * g + bit + 1
    BY <2>1, BitGroup
  <2> DEFINE q == bit \div 8
             b == bit % 8
             c == bit \div 6
             e == bit % 6
             j == q + 1
  <2>3. /\ (m - 1) \div 6 = 4 * g + c /\ (m - 1) % 6 = e /\ c \in 0 .. 3 /\ e \in 0 .. 5
        /\ (m - 1) \div 8 = 3 * g + q /\ (m - 1) % 8 = b /\ q \in 0 .. 2 /\ b \in 0 .. 7
        /\ m - 1 = 8 * (3 * g + q) + b
    BY <2>2, BitPlaces
  <2>4. bit = 8 * (j - 1) + b /\ j \in 1 .. 3 /\ (c = j - 1 \/ c = j)
    <3>1. bit = 8 * q + b /\ q \in 0 .. 2 /\ b \in 0 .. 7 /\ bit = 6 * c + e /\ c \in 0 .. 3 /\ e \in 0 .. 5
      BY InGroup, Zenon
    <3> HIDE DEF q, b, c, e
    <3>2. c = q \/ c = q + 1
      BY <3>1
    <3>3. j - 1 = q
      BY <3>1
    <3> QED  BY <3>1, <3>2, <3>3
  <2> DEFINE x1 == t[4 * g + j]
             x2 == t[4 * g + j + 1]
  <2>5. j - 1 = q
    BY <2>3
  <2>6. (Pair(j, x1, x2) \div Nacl!Weight[8 - b]) % 2 = ((IF c = j - 1 THEN x1 ELSE x2) \div Nacl!Weight[6 - e]) % 2
        /\ d[3 * g + j] = Pair(j, x1, x2)
    <3>1. 3 * g + j <= Len(d)
      <4>1. m - 1 = 8 * (3 * g + q) + b /\ q \in 0 .. 2 /\ b \in 0 .. 7
        BY <2>3, Zenon
      <4> HIDE DEF q, b
      <4> QED  BY <1>3, <2>1, <4>1
    <3>2. x1 \in 0 .. 63 /\ x2 \in 0 .. 63 /\ d[3 * g + j] = Pair(j, x1, x2)
      <4> HIDE DEF j
      <4> QED  BY <1>4, <2>4, <3>1
    <3>3. j \in 1 .. 3 /\ b \in 0 .. 7
      BY <2>3, <2>4
    <3> HIDE DEF j, b, x1, x2
    <3>4. LET o == 8 * (j - 1) + b
          IN (Pair(j, x1, x2) \div Nacl!Weight[8 - b]) % 2
               = ((IF o \div 6 = j - 1 THEN x1 ELSE x2) \div Nacl!Weight[6 - (o % 6)]) % 2
      BY <3>2, <3>3, PairBits
    <3> QED  BY <2>4, <3>2, <3>4
  <2> HIDE DEF q, b, c, e
  <2>7. (3 * g + q) + 1 = 3 * g + j
    BY <2>2, <2>3
  <2>8. Nacl!Bit(d, 8, m) = (Pair(j, x1, x2) \div Nacl!Weight[8 - b]) % 2
    <3> HIDE DEF x1, x2, j
    <3> QED  BY <2>3, <2>6, <2>7 DEF Nacl!Bit
  <2>9. t[(4 * g + c) + 1] = IF c = j - 1 THEN x1 ELSE x2
    <3>1. CASE c = j - 1
      <4>1. (4 * g + c) + 1 = 4 * g + j
        BY <2>2, <2>3, <3>1
      <4> QED  BY <3>1, <4>1
    <3>2. CASE c # j - 1
      <4>1. (4 * g + c) + 1 = 4 * g + j + 1
        BY <2>2, <2>3, <2>4, <3>2
      <4> QED  BY <3>2, <4>1
    <3> QED  BY <3>1, <3>2
  <2>10. Nacl!Bit(t, 6, m) = (t[(4 * g + c) + 1] \div Nacl!Weight[6 - e]) % 2
    BY <2>3 DEF Nacl!Bit
  <2> QED  BY <2>6, <2>8, <2>9, <2>10
<1> QED  BY <1>2, <1>5, <1>6 DEF Nacl!DecodesBits, n, d

(* b is in t, behind its first n elements. *)
PieceAt(t, n, b) == n + Len(b) <= Len(t) /\ \A k \in 1 .. Len(b) : t[n + k] = b[k]

(* A piece of a sequence, by its elements. *)
LEMMA PieceIs ==
  ASSUME NEW t \in Seq(Byte), NEW b \in Seq(Byte), NEW n \in Nat, PieceAt(t, n, b)
  PROVE  SubSeq(t, n + 1, n + Len(b)) = b
<1>1. Len(b) \in Nat /\ Len(t) \in Nat
  BY LenProperties
<1>2. n + Len(b) <= Len(t) /\ \A k \in 1 .. Len(b) : t[n + k] = b[k]
  BY DEF PieceAt
<1> DEFINE p == n + 1
           q == n + Len(b)
           u == SubSeq(t, p, q)
<1>3. p \in Int /\ q \in Int /\ \A k \in p .. q : t[k] \in Byte
  <2>1. p \in Int /\ q \in Int
    BY <1>1
  <2>2. ASSUME NEW k \in p .. q PROVE t[k] \in Byte
    <3>1. k \in 1 .. Len(t)
      BY <2>2, <1>1, <1>2
    <3> QED
      BY <3>1, ElementOfSeq
  <2> QED
    BY <2>1, <2>2
<1>4. /\ u \in Seq(Byte) /\ Len(u) = (IF p <= q THEN q - p + 1 ELSE 0)
      /\ \A k \in 1 .. q - p + 1 : u[k] = t[p + k - 1]
  <2> HIDE DEF p, q
  <2> QED
    BY <1>3, SubSeqProperties
<1> HIDE DEF u
<1>5. Len(u) = Len(b) /\ q - p + 1 = Len(b)
  BY <1>1, <1>4
<1>6. ASSUME NEW k \in 1 .. Len(u) PROVE u[k] = b[k]
  <2>1. k \in 1 .. q - p + 1 /\ k \in 1 .. Len(b)
    BY <1>5, <1>6
  <2>2. p + k - 1 = n + k
    BY <2>1, <1>1
  <2> HIDE DEF p, q
  <2>3. u[k] = t[n + k]
    BY <2>1, <2>2, <1>4
  <2>4. t[n + k] = b[k]
    BY <2>1, <1>2
  <2> QED
    BY <2>3, <2>4
<1>7. u \in Seq(Byte)
  BY <1>4
<1>8. u = b
  BY <1>5, <1>6, <1>7, SeqEqual
<1> QED
  BY <1>8 DEF u

(* The pieces of a concatenation. *)
LEMMA PiecesJoined ==
  ASSUME NEW a \in Seq(Byte), NEW b \in Seq(Byte)
  PROVE  /\ a \o b \in Seq(Byte) /\ Len(a \o b) = Len(a) + Len(b) /\ Len(a) \in Nat /\ Len(b) \in Nat
         /\ PieceAt(a \o b, 0, a) /\ PieceAt(a \o b, Len(a), b)
<1> DEFINE u == a \o b
<1>1. Len(a) \in Nat /\ Len(b) \in Nat
  BY LenProperties
<1>2. u \in Seq(Byte) /\ Len(u) = Len(a) + Len(b)
  BY ConcatProperties
<1>3. \A k \in 1 .. Len(a) + Len(b) : u[k] = IF k <= Len(a) THEN a[k] ELSE b[k - Len(a)]
  BY ConcatProperties
<1> HIDE DEF u
<1>4. PieceAt(u, 0, a)
  <2>1. ASSUME NEW k \in 1 .. Len(a) PROVE u[0 + k] = a[k]
    <3>1. 0 + k = k /\ k \in 1 .. Len(a) + Len(b) /\ k <= Len(a)
      BY <1>1, <2>1
    <3> QED
      BY <3>1, <1>3
  <2>2. 0 + Len(a) <= Len(u)
    BY <1>1, <1>2
  <2> QED
    BY <2>1, <2>2 DEF PieceAt
<1>5. PieceAt(u, Len(a), b)
  <2>1. ASSUME NEW k \in 1 .. Len(b) PROVE u[Len(a) + k] = b[k]
    <3> DEFINE j == Len(a) + k
    <3>1. j \in 1 .. Len(a) + Len(b) /\ ~(j <= Len(a)) /\ j - Len(a) = k
      BY <1>1, <2>1
    <3> HIDE DEF j
    <3>2. u[j] = b[k]
      BY <3>1, <1>3
    <3> QED
      BY <3>2 DEF j
  <2>2. Len(a) + Len(b) <= Len(u)
    BY <1>1, <1>2
  <2> QED
    BY <2>1, <2>2 DEF PieceAt
<1> QED
  BY <1>1, <1>2, <1>4, <1>5 DEF u

(* The parts of a concatenation. *)
LEMMA RestIs ==
  ASSUME NEW a \in Seq(Byte), NEW b \in Seq(Byte), NEW n \in Nat, n = Len(a)
  PROVE  Nacl!Rest(a \o b, n) = b /\ SubSeq(a \o b, 1, n) = a
<1> DEFINE u == a \o b
<1>1. /\ u \in Seq(Byte) /\ Len(u) = Len(a) + Len(b) /\ Len(a) \in Nat /\ Len(b) \in Nat
      /\ PieceAt(u, 0, a) /\ PieceAt(u, Len(a), b)
  BY PiecesJoined
<1> HIDE DEF u
<1>2. SubSeq(u, n + 1, n + Len(b)) = b
  BY <1>1, PieceIs
<1>3. SubSeq(u, 0 + 1, 0 + Len(a)) = a
  BY <1>1, PieceIs
<1>4. 0 + 1 = 1 /\ 0 + Len(a) = n /\ Len(u) = n + Len(b)
  BY <1>1
<1>5. SubSeq(u, 1, n) = a
  BY <1>3, <1>4
<1>6. SubSeq(u, n + 1, Len(u)) = b
  BY <1>2, <1>4
<1> QED
  BY <1>5, <1>6 DEF u, Nacl!Rest

(* The second of three parts, of which the first two are equally long. *)
LEMMA MiddleIs ==
  ASSUME NEW a \in Seq(Byte), NEW b \in Seq(Byte), NEW c \in Seq(Byte), NEW n \in Nat, n = Len(a), n = Len(b)
  PROVE  SubSeq((a \o b) \o c, n + 1, 2 * n) = b
<1> DEFINE u == a \o b
           v == u \o c
<1>1. /\ u \in Seq(Byte) /\ Len(u) = Len(a) + Len(b) /\ PieceAt(u, Len(a), b)
  BY PiecesJoined
<1> HIDE DEF u
<1>2. v \in Seq(Byte) /\ Len(v) = Len(u) + Len(c) /\ Len(c) \in Nat /\ Len(u) \in Nat /\ PieceAt(v, 0, u)
  BY <1>1, PiecesJoined
<1> HIDE DEF v
<1>3. \A k \in 1 .. Len(b) : u[n + k] = b[k]
  BY <1>1 DEF PieceAt
<1>4. \A k \in 1 .. Len(u) : v[0 + k] = u[k]
  BY <1>2 DEF PieceAt
<1>5. Len(u) = n + n /\ Len(b) = n /\ Len(v) = Len(u) + Len(c) /\ Len(c) \in Nat
  BY <1>1, <1>2
<1>6. ASSUME NEW k \in 1 .. Len(b) PROVE v[n + k] = b[k]
  <2> DEFINE j == n + k
  <2>1. j \in 1 .. Len(u) /\ 0 + j = j
    BY <1>5, <1>6
  <2>2. u[j] = b[k]
    BY <1>3, <1>6
  <2> HIDE DEF j
  <2>3. v[j] = b[k]
    BY <1>4, <2>1, <2>2
  <2> QED
    BY <2>3 DEF j
<1>7. n + Len(b) <= Len(v)
  BY <1>5
<1>8. PieceAt(v, n, b)
  BY <1>6, <1>7 DEF PieceAt
<1>9. SubSeq(v, n + 1, n + Len(b)) = b
  BY <1>2, <1>8, PieceIs
<1>10. n + Len(b) = 2 * n
  OBVIOUS
<1> QED
  BY <1>9, <1>10 DEF u, v
(* The shared key, the text of the box and the box, and what is sent. *)
BobsKey == {"Alice", "Bob"}
Written(m) == Nacl!Zeros(ZEROBYTES) \o m
Sealed(m) == Nacl!Box(Written(m), BobsKey, Nonce)

(* A text under the key stream. *)
LEMMA XoredIs ==
  ASSUME NEW m \in Seq(Byte), \A k \in 1 .. Len(m) : Stream(BobsKey, Nonce)[k] \in Byte
  PROVE  LET c == Nacl!Xored(m, BobsKey, Nonce)
         IN /\ c \in Seq(Byte) /\ Len(c) = Len(m)
            /\ \A k \in 1 .. Len(m) : c[k] = Nacl!Xor(m[k], Stream(BobsKey, Nonce)[k])
<1> DEFINE c == Nacl!Xored(m, BobsKey, Nonce)
           l == Len(m)
           st == Stream(BobsKey, Nonce)
<1>1. l \in Nat /\ DOMAIN m = 1 .. l
  BY LenProperties
<1>2. c = [k \in 1 .. l |-> Nacl!Xor(m[k], st[k])]
  BY <1>1 DEF Nacl!Xored
<1>3. ASSUME NEW k \in 1 .. l PROVE c[k] = Nacl!Xor(m[k], st[k]) /\ c[k] \in Byte
  <2>1. m[k] \in Byte /\ st[k] \in Byte
    BY <1>3, ElementOfSeq
  <2> HIDE DEF c, st
  <2>2. c[k] = Nacl!Xor(m[k], st[k])
    BY <1>2, <1>3
  <2>3. Nacl!Xor(m[k], st[k]) \in Byte
    BY <2>1, SameDigits
  <2> QED
    BY <2>2, <2>3
<1>4. c \in [1 .. l -> Byte]
  <2> HIDE DEF c, st
  <2>1. \A k \in 1 .. l : c[k] \in Byte
    BY <1>3
  <2>2. c = [k \in 1 .. l |-> c[k]]
    BY <1>2, <1>3
  <2> QED
    BY <2>1, <2>2
<1>5. c \in Seq(Byte) /\ Len(c) = l
  <2> HIDE DEF c, l
  <2> QED
    BY <1>1, <1>4, SeqFunction
<1> QED
  BY <1>3, <1>5

(* Zeros are octets. *)
LEMMA ZerosAre ==
  ASSUME NEW n \in Nat
  PROVE  Nacl!Zeros(n) \in Seq(Byte) /\ Len(Nacl!Zeros(n)) = n
<1> DEFINE z == Nacl!Zeros(n)
<1>1. z \in [1 .. n -> Byte]
  BY DEF Nacl!Zeros, Byte
<1> HIDE DEF z
<1>2. z \in Seq(Byte) /\ Len(z) = n
  BY <1>1, SeqFunction
<1> QED
  BY <1>2 DEF z

(* The buffer that Alice encrypts. *)
LEMMA WrittenIs ==
  ASSUME NEW m \in BoxMessages
  PROVE  /\ m \in Seq(Byte) /\ Written(m) \in Seq(Byte) /\ ZEROBYTES \in Nat /\ BOXZEROBYTES \in Nat
         /\ Len(Written(m)) = ZEROBYTES + Len(m) /\ Len(m) \in Nat
         /\ Nacl!Rest(Written(m), ZEROBYTES) = m
         /\ \A k \in 1 .. Len(Written(m)) : Stream(BobsKey, Nonce)[k] \in Byte
<1>1. m \in Seq(Byte) /\ ZEROBYTES \in Nat /\ BOXZEROBYTES \in Nat
  BY NaclAssumption
<1> DEFINE z == Nacl!Zeros(ZEROBYTES)
           in == Written(m)
<1>2. z \in Seq(Byte) /\ Len(z) = ZEROBYTES
  BY <1>1, ZerosAre
<1>3. in = z \o m
  BY DEF Written
<1>4. /\ z \o m \in Seq(Byte) /\ Len(z \o m) = Len(z) + Len(m) /\ Len(m) \in Nat
      /\ Nacl!Rest(z \o m, ZEROBYTES) = m
  <2> HIDE DEF z
  <2> QED
    BY <1>1, <1>2, PiecesJoined, RestIs
<1>5. \A k \in DOMAIN in : Stream(BobsKey, Nonce)[k] \in Byte
  BY CipherAssumption DEF Written, BobsKey
<1> HIDE DEF z, in
<1>6. in \in Seq(Byte)
  BY <1>3, <1>4
<1>7. DOMAIN in = 1 .. Len(in)
  BY <1>6, LenProperties
<1> QED
  BY <1>1, <1>2, <1>3, <1>4, <1>5, <1>6, <1>7 DEF in

(* The box has the length of its text, opens under the same key and nonce,   *)
(* and then gives the message: the stream added twice is gone.               *)
LEMMA BoxOpens ==
  ASSUME NEW m \in BoxMessages
  PROVE  LET b == Sealed(m)
         IN /\ b \in Seq(Byte) /\ Len(b) = ZEROBYTES + Len(m)
            /\ b = Nacl!Zeros(BOXZEROBYTES) \o Nacl!Rest(b, BOXZEROBYTES)
            /\ Nacl!Rest(b, BOXZEROBYTES) \in Seq(Byte)
            /\ Len(Nacl!Rest(b, BOXZEROBYTES)) = BOXZEROBYTES + Len(m)
            /\ Nacl!Opens(b, BobsKey, Nonce)
            /\ Nacl!Rest(Nacl!Xored(b, BobsKey, Nonce), ZEROBYTES) = m
<1> DEFINE in == Written(m)
           Z == ZEROBYTES
           B == BOXZEROBYTES
           st == Stream(BobsKey, Nonce)
           c == Nacl!Xored(in, BobsKey, Nonce)
           tag == Nacl!Tag(c, BobsKey, Nonce)
           r == Nacl!Rest(c, Z)
           z == Nacl!Zeros(B)
           b == Sealed(m)
           p == Nacl!Xored(b, BobsKey, Nonce)
<1>1. /\ m \in Seq(Byte) /\ in \in Seq(Byte) /\ Z \in Nat /\ B \in Nat /\ Len(in) = Z + Len(m) /\ Len(m) \in Nat
      /\ Nacl!Rest(in, Z) = m
  BY WrittenIs
<1>2. \A k \in 1 .. Len(in) : st[k] \in Byte
  BY WrittenIs
<1>3. Z = 2 * B
  BY NaclAssumption
<1>4. c \in Seq(Byte) /\ Len(c) = Len(in) /\ \A k \in 1 .. Len(in) : c[k] = Nacl!Xor(in[k], st[k])
  <2> HIDE DEF in
  <2> QED
    BY <1>1, <1>2, XoredIs
<1>5. z \in Seq(Byte) /\ Len(z) = B
  BY <1>1, ZerosAre
<1>6. tag \in Seq(Byte) /\ Len(tag) = B
  <2>1. tag \in [1 .. B -> Byte]
    BY CipherAssumption DEF Written, BobsKey
  <2> HIDE DEF tag, B
  <2> QED
    BY <2>1, <1>1, SeqFunction
<1>7. b = (z \o tag) \o r
  BY DEF Sealed, Nacl!Box
<1> HIDE DEF in, c, z, tag, b, st, Z, B, p
<1>8. r \in Seq(Byte) /\ Len(r) = Len(m) /\ \A k \in 1 .. Len(m) : r[k] = c[Z + k]
  <2> DEFINE f == Z + 1
             q == Len(c)
  <2>1. f \in Int /\ q \in Int /\ q = Z + Len(m)
    BY <1>1, <1>4
  <2>2. ASSUME NEW k \in f .. q PROVE c[k] \in Byte
    <3>1. k \in 1 .. Len(c)
      BY <2>1, <2>2, <1>1
    <3> QED
      BY <3>1, <1>4, ElementOfSeq
  <2>3. r = SubSeq(c, f, q)
    BY DEF Nacl!Rest
  <2>4. q - f + 1 = Len(m) /\ (IF f <= q THEN q - f + 1 ELSE 0) = Len(m) /\ \A k \in 1 .. Len(m) : f + k - 1 = Z + k
    BY <2>1, <1>1
  <2> HIDE DEF f, q, r
  <2>5. /\ SubSeq(c, f, q) \in Seq(Byte) /\ Len(SubSeq(c, f, q)) = (IF f <= q THEN q - f + 1 ELSE 0)
        /\ \A k \in 1 .. q - f + 1 : SubSeq(c, f, q)[k] = c[f + k - 1]
    BY <2>1, <2>2, SubSeqProperties
  <2> QED
    BY <2>3, <2>4, <2>5
<1> HIDE DEF r
<1> DEFINE front == z \o tag
           t == tag \o r
<1>9. front \in Seq(Byte) /\ Len(front) = Z
  <2>1. front \in Seq(Byte) /\ Len(front) = Len(z) + Len(tag)
    BY <1>5, <1>6, PiecesJoined
  <2> HIDE DEF front
  <2> QED
    BY <2>1, <1>1, <1>3, <1>5, <1>6
<1>10. t \in Seq(Byte) /\ Len(t) = B + Len(m)
  <2>1. t \in Seq(Byte) /\ Len(t) = Len(tag) + Len(r)
    BY <1>6, <1>8, PiecesJoined
  <2> HIDE DEF t
  <2> QED
    BY <2>1, <1>6, <1>8
<1>11. b = z \o t
  BY <1>5, <1>6, <1>7, <1>8, ConcatAssociative
<1>12. SubSeq(b, B + 1, 2 * B) = tag
  BY <1>1, <1>5, <1>6, <1>7, <1>8, MiddleIs
<1> HIDE DEF front, t
<1>13. b \in Seq(Byte) /\ Len(b) = Z + Len(m) /\ Nacl!Rest(b, Z) = r
  <2>1. b = front \o r
    BY <1>7 DEF front
  <2>2. front \o r \in Seq(Byte) /\ Len(front \o r) = Len(front) + Len(r)
    BY <1>8, <1>9, PiecesJoined
  <2>3. Nacl!Rest(front \o r, Z) = r
    BY <1>1, <1>8, <1>9, RestIs
  <2> QED
    BY <2>1, <2>2, <2>3, <1>8, <1>9
<1>14. Nacl!Rest(b, B) = t
  <2>1. Nacl!Rest(z \o t, B) = t
    BY <1>1, <1>5, <1>10, RestIs
  <2> QED
    BY <2>1, <1>11
<1>15. Nacl!Opens(b, BobsKey, Nonce)
  <2>1. Nacl!Tag(b, BobsKey, Nonce) = tag
    BY <1>13 DEF Nacl!Tag, tag, r, Z
  <2>2. Len(b) >= Z
    BY <1>1, <1>13
  <2>3. SubSeq(b, B + 1, Z) = tag
    BY <1>3, <1>12
  <2> QED
    BY <2>1, <2>2, <2>3 DEF Nacl!Opens, Z, B
<1>16. p \in Seq(Byte) /\ Len(p) = Len(b) /\ \A k \in 1 .. Len(b) : p[k] = Nacl!Xor(b[k], st[k])
  <2>1. Len(b) = Len(in)
    BY <1>1, <1>13
  <2>2. \A k \in 1 .. Len(b) : Stream(BobsKey, Nonce)[k] \in Byte
    BY <1>2, <2>1 DEF st
  <2> QED
    BY <1>13, <2>2, XoredIs DEF p, st
<1>17. ASSUME NEW k \in 1 .. Len(m) PROVE p[Z + k] = m[k]
  <2> DEFINE j == Z + k
  <2>1. j \in 1 .. Len(b) /\ j \in 1 .. Len(in)
    BY <1>1, <1>13, <1>17
  <2>2. b[j] = r[k]
    <3>1. b = front \o r /\ PieceAt(front \o r, Len(front), r)
      BY <1>7, <1>8, <1>9, PiecesJoined DEF front
    <3>2. \A l \in 1 .. Len(r) : b[Len(front) + l] = r[l]
      BY <3>1 DEF PieceAt
    <3> QED
      BY <3>2, <1>8, <1>9, <1>17
  <2>3. in[j] = m[k]
    <3> DEFINE a == Nacl!Zeros(Z)
    <3>1. a \in Seq(Byte) /\ Len(a) = Z
      BY <1>1, ZerosAre
    <3>2. in = a \o m
      BY DEF in, Written, Z
    <3> HIDE DEF a
    <3>3. PieceAt(a \o m, Len(a), m)
      BY <1>1, <3>1, PiecesJoined
    <3>4. \A l \in 1 .. Len(m) : in[Len(a) + l] = m[l]
      BY <3>2, <3>3 DEF PieceAt
    <3> QED
      BY <3>1, <3>4, <1>17
  <2>4. r[k] = c[j]
    BY <1>8, <1>17
  <2> HIDE DEF j
  <2>5. c[j] = Nacl!Xor(in[j], st[j]) /\ p[j] = Nacl!Xor(b[j], st[j])
    BY <2>1, <1>4, <1>16
  <2>6. in[j] \in Byte /\ st[j] \in Byte
    BY <2>1, <1>1, <1>2, ElementOfSeq
  <2>7. p[j] = Nacl!Xor(Nacl!Xor(in[j], st[j]), st[j])
    BY <2>2, <2>4, <2>5
  <2>8. p[j] = in[j]
    BY <2>6, <2>7, SameDigits
  <2> QED
    BY <2>3, <2>8 DEF j
<1>18. Nacl!Rest(p, Z) = m
  <2>1. Z + Len(m) <= Len(p)
    BY <1>1, <1>13, <1>16
  <2>2. PieceAt(p, Z, m)
    BY <1>17, <2>1 DEF PieceAt
  <2>3. SubSeq(p, Z + 1, Z + Len(m)) = m
    BY <1>1, <1>16, <2>2, PieceIs
  <2>4. Len(p) = Z + Len(m)
    BY <1>13, <1>16
  <2> QED
    BY <2>3, <2>4 DEF Nacl!Rest
<1> QED
  BY <1>10, <1>11, <1>13, <1>14, <1>15, <1>18 DEF b, z, Z, B, p
SentOf(m) == Nonce \o Nacl!Rest(Sealed(m), BOXZEROBYTES)

(* What is sent begins with the nonce, and goes on with the box. *)
LEMMA SentIs ==
  ASSUME NEW m \in BoxMessages
  PROVE  /\ SentOf(m) \in Seq(Byte) /\ Len(SentOf(m)) = Len(m) + ZEROBYTES - BOXZEROBYTES + NONCEBYTES
         /\ SubSeq(SentOf(m), 1, NONCEBYTES) = Nonce
         /\ Nacl!Rest(SentOf(m), NONCEBYTES) = Nacl!Rest(Sealed(m), BOXZEROBYTES)
<1> DEFINE r == Nacl!Rest(Sealed(m), BOXZEROBYTES)
<1>1. r \in Seq(Byte) /\ Len(r) = BOXZEROBYTES + Len(m)
  BY BoxOpens
<1>2. Nonce \in Seq(Byte) /\ Len(Nonce) = NONCEBYTES /\ NONCEBYTES \in Nat
  BY NaclAssumption, SeqFunction
<1>3. SentOf(m) = Nonce \o r
  BY DEF SentOf
<1> HIDE DEF r
<1>4. Nonce \o r \in Seq(Byte) /\ Len(Nonce \o r) = Len(Nonce) + Len(r)
  BY <1>1, <1>2, PiecesJoined
<1>5. Nacl!Rest(Nonce \o r, NONCEBYTES) = r /\ SubSeq(Nonce \o r, 1, NONCEBYTES) = Nonce
  BY <1>1, <1>2, RestIs
<1>6. Len(m) \in Nat /\ BOXZEROBYTES \in Nat /\ ZEROBYTES = 2 * BOXZEROBYTES
  BY WrittenIs, NaclAssumption
<1>7. Len(SentOf(m)) = Len(m) + ZEROBYTES - BOXZEROBYTES + NONCEBYTES
  <2>1. Len(SentOf(m)) = NONCEBYTES + (BOXZEROBYTES + Len(m))
    BY <1>1, <1>2, <1>3, <1>4
  <2> QED
    BY <2>1, <1>2, <1>6
<1> QED
  BY <1>3, <1>4, <1>5, <1>7 DEF r

(* The length announced is that of the octets exactly if these are a         *)
(* multiple of 3, and then they are decoded.                                 *)
LEMMA Announced ==
  ASSUME NEW s \in Seq(Byte)
  PROVE  /\ Nacl!DecodeLen(Nacl!Encode(s)) - 1 = Len(s) <=> Len(s) % 3 = 0
         /\ Len(s) % 3 = 0 => Nacl!Decode(Nacl!Encode(s)) = s
<1> DEFINE w == Len(s) \div 3
           r == Len(s) % 3
           e == Nacl!Encode(s)
           n == IF r = 0 THEN 4 * w ELSE 4 * w + r + 1
           d == Nacl!DecodeLen(e)
<1>1. Len(s) \in Nat
  BY LenProperties
<1>2. w \in Nat /\ r \in 0 .. 2 /\ Len(s) = 3 * w + r
  BY <1>1
<1> HIDE DEF w, r
<1>3. Nacl!Count(e) = n
  BY <1>2, Encoded
<1> HIDE DEF e
<1>4. d = ((n + 3) \div 4) * 3 + 1
  BY <1>3 DEF Nacl!DecodeLen
<1> HIDE DEF d
<1>5. d - 1 = Len(s) <=> r = 0
  <2>1. CASE r = 0
    <3>1. (4 * w + 3) \div 4 = w
      BY <1>2
    <3> QED
      BY <2>1, <3>1, <1>2, <1>4
  <2>2. CASE r # 0
    <3>1. (n + 3) \div 4 = w + 1
      <4>1. n + 3 = 4 * w + r + 4
        BY <2>2, <1>2
      <4> HIDE DEF n
      <4> QED
        BY <2>2, <4>1, <1>2
    <3> HIDE DEF n
    <3> QED
      BY <2>2, <3>1, <1>2, <1>4
  <2> QED
    BY <2>1, <2>2
<1>6. r = 0 => Nacl!Decode(e) = s
  <2>1. r = 0 => Len(s) = 3 * w
    BY <1>2
  <2> QED
    BY <2>1, <1>2, RoundTrip DEF e
<1> QED
  BY <1>5, <1>6 DEF r, e, d

(* The key Alice uses is the one Bob uses. *)
LEMMA SentIsTheMessage ==
  ASSUME message \in BoxMessages
  PROVE  Nacl!Boxed = Sealed(message) /\ Nacl!Sent = SentOf(message)
<1>1. Nacl!Shared("Bob", "Alice") = BobsKey
  BY DEF Nacl!Shared, BobsKey
<1>2. Nacl!Boxed = Sealed(message)
  BY <1>1 DEF Nacl!Boxed, Sealed, Written
<1> QED
  BY <1>2 DEF Nacl!Sent, SentOf

(* Nothing is drawn at first. *)
LEMMA NaclInitially ==
  ASSUME Nacl!Init
  PROVE  Nacl!IInv
<1>1. at = "random" /\ message \in BoxMessages /\ request = 1 /\ offset = 0 /\ filled = {}
  BY DEF Nacl!Init, Nacl!NoText
<1>2. filled = 0 .. offset - 1
  BY <1>1
<1> QED
  BY <1>1, <1>2 DEF Nacl!IInv, Nacl!MessageArrives

(* Drawing fills the buffer from where the last read ended. *)
LEMMA DrawStep ==
  ASSUME Nacl!IInv, NEW n \in Nat, Nacl!Draw(n)
  PROVE  Nacl!IInv'
<1>1. /\ at = "random" /\ at' = at /\ message' = message /\ request' = request
      /\ offset' = offset + n
  BY DEF Nacl!Draw, Nacl!Here
<1>2. filled' = filled \cup offset .. offset + n - 1
  BY DEF Nacl!Draw, Nacl!Fill
<1>3. filled = 0 .. offset - 1 /\ offset \in Nat /\ message \in BoxMessages /\ request \in 1 .. 3
  BY DEF Nacl!IInv
<1>4. filled' = 0 .. offset' - 1 /\ offset' \in Nat
  BY <1>1, <1>3, <1>2
<1> QED
  BY <1>1, <1>3, <1>4 DEF Nacl!IInv, Nacl!MessageArrives

(* The invariant of the exchange is inductive. *)
LEMMA NaclInductive ==
  ASSUME Nacl!IInv, [Nacl!Next]_(Nacl!vars)
  PROVE  Nacl!IInv'
<1>1. /\ filled = 0 .. offset - 1 /\ offset \in Nat /\ message \in BoxMessages /\ request \in 1 .. 3
      /\ at \in {"random", "box", "encode", "decode", "open", "read", "aborted"}
  BY DEF Nacl!IInv
<1>2. /\ at = "encode" => io = Nacl!Boxed
      /\ at \in {"decode", "open"} => wire = Nacl!Encode(Nacl!Sent)
      /\ at = "open" => (heard = Nacl!Decode(wire) /\ Nacl!BobLength = Nacl!EncryptLength)
      /\ Nacl!MessageArrives
  BY DEF Nacl!IInv
<1>3. Nacl!Boxed = Sealed(message) /\ Nacl!Sent = SentOf(message)
  BY <1>1, SentIsTheMessage
<1>4. /\ Nacl!Sent \in Seq(Byte) /\ Len(Nacl!Sent) = Nacl!EncryptLength
      /\ SubSeq(Nacl!Sent, 1, NONCEBYTES) = Nonce
      /\ Nacl!Rest(Nacl!Sent, NONCEBYTES) = Nacl!Rest(Sealed(message), BOXZEROBYTES)
  BY <1>1, <1>3, SentIs DEF Nacl!EncryptLength
<1>5. CASE Nacl!OpenDevice
  <2>1. /\ at' = at /\ message' = message /\ request' = request /\ offset' = offset /\ filled' = filled
        /\ at = "random"
    BY <1>5 DEF Nacl!OpenDevice, Nacl!Here, Nacl!texts
  <2> QED
    BY <2>1, <1>1 DEF Nacl!IInv, Nacl!MessageArrives
<1>6. ASSUME NEW n \in ReadSizes, Nacl!ReadDevice(n) PROVE Nacl!IInv'
  BY <1>6, DrawStep, NaclAssumption DEF Nacl!ReadDevice
<1>7. CASE Nacl!RandS
  <2> DEFINE n == Nacl!Least(4, Nacl!Requests[request] - offset)
  <2>1. Nacl!Draw(n) /\ offset < Nacl!Requests[request]
    BY <1>7 DEF Nacl!RandS, Nacl!Draw, Nacl!Here
  <2>2. Nacl!Requests[request] \in Nat
    <3>1. /\ Nacl!Requests[1] = KEYBYTES /\ Nacl!Requests[2] = KEYBYTES /\ Nacl!Requests[3] = NONCEBYTES
      BY DEF Nacl!Requests
    <3>2. request = 1 \/ request = 2 \/ request = 3
      BY <1>1
    <3> QED
      BY <3>1, <3>2, NaclAssumption
  <2>3. n \in Nat
    BY <2>1, <2>2, <1>1 DEF Nacl!Least
  <2> HIDE DEF n
  <2> QED
    BY <2>1, <2>3, DrawStep
<1>8. CASE Nacl!Drawn
  <2>1. at = "random" /\ message' = message
    BY <1>8 DEF Nacl!Drawn
  <2>2. CASE request < 3
    <3>1. request' = request + 1 /\ offset' = 0 /\ filled' = {} /\ at' = at
      BY <1>8, <2>2 DEF Nacl!Drawn
    <3>2. request' \in 1 .. 3 /\ offset' \in Nat /\ filled' = 0 .. offset' - 1
      BY <3>1, <2>2, <1>1
    <3> QED
      BY <2>1, <3>1, <3>2, <1>1 DEF Nacl!IInv, Nacl!MessageArrives
  <2>3. CASE ~(request < 3)
    <3>1. request' = request /\ offset' = offset /\ filled' = filled /\ at' = "box"
      BY <1>8, <2>3 DEF Nacl!Drawn
    <3> QED
      BY <2>1, <3>1, <1>1 DEF Nacl!IInv, Nacl!MessageArrives
  <2> QED
    BY <2>2, <2>3
<1>9. CASE Nacl!AliceBoxes
  <2>1. /\ at' = "encode" /\ message' = message /\ request' = request /\ offset' = offset /\ filled' = filled
        /\ io' = Nacl!Boxed
    BY <1>9 DEF Nacl!AliceBoxes, Nacl!drawing, Nacl!Boxed
  <2>2. io' = Nacl!Boxed'
    BY <2>1 DEF Nacl!Boxed
  <2> QED
    BY <2>1, <2>2, <1>1 DEF Nacl!IInv, Nacl!MessageArrives
<1>10. CASE Nacl!AliceEncodes
  <2>1. /\ at = "encode" /\ at' = "decode" /\ message' = message /\ request' = request
        /\ offset' = offset /\ filled' = filled
        /\ wire' = Nacl!Encode(Nonce \o Nacl!Rest(io, BOXZEROBYTES))
    BY <1>10 DEF Nacl!AliceEncodes, Nacl!drawing
  <2>2. wire' = Nacl!Encode(Nacl!Sent)
    BY <2>1, <1>2 DEF Nacl!Sent
  <2>3. wire' = Nacl!Encode(Nacl!Sent')
    BY <2>1, <2>2 DEF Nacl!Sent, Nacl!Boxed
  <2> QED
    BY <2>1, <2>3, <1>1 DEF Nacl!IInv, Nacl!MessageArrives
<1>11. CASE Nacl!BobDecodes
  <2>1. /\ at = "decode" /\ message' = message /\ request' = request /\ offset' = offset
        /\ filled' = filled /\ wire' = wire /\ heard' = Nacl!Decode(wire)
        /\ at' = IF Nacl!BobLength = Nacl!EncryptLength THEN "open" ELSE "aborted"
    BY <1>11 DEF Nacl!BobDecodes, Nacl!drawing
  <2>2. wire = Nacl!Encode(Nacl!Sent)
    BY <2>1, <1>2
  <2>3. Nacl!BobLength = Nacl!EncryptLength <=> Nacl!EncryptLength % 3 = 0
    BY <2>2, <1>4, Announced DEF Nacl!BobLength
  <2>4. wire' = Nacl!Encode(Nacl!Sent')
    BY <2>1, <2>2 DEF Nacl!Sent, Nacl!Boxed
  <2>5. Nacl!BobLength' = Nacl!BobLength /\ Nacl!EncryptLength' = Nacl!EncryptLength
    BY <2>1 DEF Nacl!BobLength, Nacl!EncryptLength
  <2>6. CASE Nacl!BobLength = Nacl!EncryptLength
    <3>1. at' = "open" /\ heard' = Nacl!Decode(wire')
      BY <2>1, <2>6
    <3> QED
      BY <2>1, <2>4, <2>5, <2>6, <3>1, <1>1 DEF Nacl!IInv, Nacl!MessageArrives
  <2>7. CASE Nacl!BobLength # Nacl!EncryptLength
    <3>1. at' = "aborted" /\ Nacl!EncryptLength' % 3 # 0
      BY <2>1, <2>3, <2>5, <2>7
    <3> QED
      BY <2>1, <3>1, <1>1 DEF Nacl!IInv, Nacl!MessageArrives
  <2> QED
    BY <2>6, <2>7
<1>12. CASE Nacl!BobOpens
  <2> DEFINE in == Nacl!Zeros(BOXZEROBYTES) \o SubSeq(heard, NONCEBYTES + 1, Nacl!BobLength)
             n == SubSeq(heard, 1, NONCEBYTES)
             key == Nacl!Shared("Alice", "Bob")
  <2>1. /\ at = "open" /\ message' = message /\ request' = request /\ offset' = offset /\ filled' = filled
        /\ IF Nacl!Opens(in, key, n)
           THEN plain' = Nacl!Rest(Nacl!Xored(in, key, n), ZEROBYTES) /\ at' = "read"
           ELSE at' = "aborted"
    BY <1>12 DEF Nacl!BobOpens, Nacl!drawing
  <2>2. /\ wire = Nacl!Encode(Nacl!Sent) /\ heard = Nacl!Decode(wire)
        /\ Nacl!BobLength = Nacl!EncryptLength
    BY <2>1, <1>2
  <2>3. Nacl!EncryptLength % 3 = 0
    BY <2>2, <1>4, Announced DEF Nacl!BobLength
  <2>4. heard = Nacl!Sent
    BY <2>2, <2>3, <1>4, Announced
  <2>5. n = Nonce
    BY <2>4, <1>4
  <2>6. in = Sealed(message)
    <3>1. SubSeq(heard, NONCEBYTES + 1, Nacl!BobLength) = Nacl!Rest(Nacl!Sent, NONCEBYTES)
      BY <2>2, <2>4, <1>4 DEF Nacl!Rest
    <3>2. Sealed(message) = Nacl!Zeros(BOXZEROBYTES) \o Nacl!Rest(Sealed(message), BOXZEROBYTES)
      BY <1>1, BoxOpens
    <3> QED
      BY <3>1, <3>2, <1>4
  <2>7. key = BobsKey
    BY DEF Nacl!Shared, BobsKey
  <2>8. Nacl!Opens(in, key, n) /\ Nacl!Rest(Nacl!Xored(in, key, n), ZEROBYTES) = message
    <3>1. /\ Nacl!Opens(Sealed(message), BobsKey, Nonce)
          /\ Nacl!Rest(Nacl!Xored(Sealed(message), BobsKey, Nonce), ZEROBYTES) = message
      BY <1>1, BoxOpens
    <3> HIDE DEF in, key, n
    <3> QED
      BY <2>5, <2>6, <2>7, <3>1
  <2> HIDE DEF in, key, n
  <2>9. at' = "read" /\ plain' = message'
    BY <2>1, <2>8
  <2> QED
    BY <2>1, <2>9, <1>1 DEF Nacl!IInv, Nacl!MessageArrives
<1>13. CASE UNCHANGED Nacl!vars
  <2>1. /\ at' = at /\ message' = message /\ request' = request /\ offset' = offset /\ filled' = filled
        /\ io' = io /\ wire' = wire /\ heard' = heard /\ plain' = plain
    BY <1>13 DEF Nacl!vars, Nacl!drawing, Nacl!texts
  <2> QED
    BY <2>1 DEF Nacl!IInv, Nacl!MessageArrives, Nacl!Boxed, Nacl!Sent, Nacl!BobLength, Nacl!EncryptLength
<1> QED
  BY <1>5, <1>6, <1>7, <1>8, <1>9, <1>10, <1>11, <1>12, <1>13 DEF Nacl!Next

(* What holds of the exchange while it is the program that runs.             *)
ExchangeInv == program = "nacl" => Nacl!IInv

(* It always holds.                                                          *)
THEOREM ExchangeInductive == ExamplesSpec => []ExchangeInv
<1>1. ExamplesInit => ExchangeInv
  BY NaclInitially DEF ExchangeInv, ExamplesInit, BlurInit, FilesInit, NaclInit
<1>2. ExchangeInv /\ [ExamplesNext]_allVars => ExchangeInv'
  <2>1. SUFFICES ASSUME ExchangeInv, [ExamplesNext]_allVars, program' = "nacl" PROVE Nacl!IInv'
    BY DEF ExchangeInv
  <2>2. program = "nacl" /\ Nacl!IInv
    BY <2>1 DEF ExchangeInv, ExamplesNext, BlurStep, FilesStep, NaclStep, allVars
  <2>3. [Nacl!Next]_(Nacl!vars)
    <3>1. CASE NaclStep
      BY <3>1 DEF NaclStep
    <3>2. CASE UNCHANGED allVars
      BY <3>2 DEF allVars, naclVars, Nacl!vars, Nacl!drawing, Nacl!texts
    <3> QED
      BY <3>1, <3>2, <2>1, <2>2 DEF ExamplesNext, BlurStep, FilesStep
  <2> QED
    BY <2>2, <2>3, NaclInductive
<1> QED
  BY <1>1, <1>2, PTL DEF ExamplesSpec

(* For every cipher that gives octets, every length of its parts and however *)
(* short the reads of the device: keys and nonce are drawn to the last       *)
(* octet, Bob reads what Alice wrote, and the example asserts only for       *)
(* messages whose text would have padding.                                   *)
THEOREM MessageRead == ExamplesSpec => []MessageArrives
<1>1. ExchangeInv => MessageArrives
  BY DEF ExchangeInv, MessageArrives, Nacl!IInv
<1> QED
  BY <1>1, ExchangeInductive, PTL

(* Encoding and decoding of any message are right by their bits, in every    *)
(* state of the exchange.                                                    *)
THEOREM CodecIsCorrect == ExamplesSpec => []CodecCorrect
<1>1. ExchangeInv => CodecCorrect
  <2>1. SUFFICES ASSUME ExchangeInv, program = "nacl" PROVE Nacl!CodecCorrect
    BY DEF CodecCorrect
  <2>2. message \in Seq(Byte)
    BY <2>1, NaclAssumption DEF ExchangeInv, Nacl!IInv
  <2>3. Nacl!EncodesBits(message)
    BY <2>2, EncodedBits
  <2> DEFINE f == [k \in DOMAIN message |-> message[k] % 65]
             t == f \o <<Nacl!PAD>>
  <2>4. f \in Seq(0 .. 64) /\ Len(f) = Len(message)
    <3>1. Len(message) \in Nat /\ DOMAIN message = 1 .. Len(message)
      BY <2>2, LenProperties
    <3>2. ASSUME NEW k \in 1 .. Len(message) PROVE message[k] % 65 \in 0 .. 64
      <4>1. message[k] \in Nat
        BY <2>2, <3>2, ElementOfSeq, ByteIsNat
      <4>2. \A v \in Nat : v % 65 \in 0 .. 64
        OBVIOUS
      <4> QED  BY <4>1, <4>2
    <3>3. f \in [1 .. Len(message) -> 0 .. 64]
      BY <3>1, <3>2
    <3> HIDE DEF f
    <3> QED  BY <3>1, <3>3, SeqFunction
  <2> HIDE DEF f
  <2>5. Nacl!PAD \in 0 .. 64 /\ Len(f) \in Nat
    BY <2>4, LenProperties DEF Nacl!PAD
  <2>6. t \in Seq(0 .. 64) /\ Len(t) = Len(f) + 1 /\ t[Len(f) + 1] = Nacl!PAD
    BY <2>4, <2>5, Terminated
  <2> HIDE DEF t
  <2>7. Len(f) + 1 \in 1 .. Len(t)
    BY <2>5, <2>6
  <2>8. Nacl!DecodesBits(t)
    BY <2>6, <2>7, DecodedBits
  <2> QED  BY <2>3, <2>8 DEF Nacl!CodecCorrect, f, t
<1> QED
  BY <1>1, ExchangeInductive, PTL
=============================================================================
