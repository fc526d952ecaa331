----------------------------- MODULE StackBlur -----------------------------
(* stackblurJob (examples/image_stack_blur/stackblur.c): a weighted moving   *)
(* average over the rows (step 1) or columns (step 2) of an image, in place. *)
(* The lines are divided among Cores jobs. A row and a column are handled by *)
(* the same code with another stride, here the operator Cell; of the four    *)
(* colour channels, which do not interact, one is modelled.                  *)
(*                                                                           *)
(* A job owns its lines and its stack, so jobs run one at a time here, in    *)
(* any order: Blurred says that no order makes a difference.                 *)
EXTENDS Integers, StackBlurTables

CONSTANTS Width, Height, Cores,
          Radii,        \* radii of the calls
          Images        \* images of the calls

Byte == 0..255
Cells == (0 .. Width - 1) \X (0 .. Height - 1)
ASSUME SizesPositive == /\ Width \in Nat \ {0} /\ Height \in Nat \ {0}
                        /\ Cores \in Nat \ {0}
DocumentedRadii == 2..254
ASSUME RadiiAsDocumented == Radii \subseteq DocumentedRadii
ASSUME ImagesAreBytes ==
  Images \subseteq [Cells -> Byte]

VARIABLES image, step, radius,     \* arguments of the call
          todo, core,              \* jobs not finished, job running
          pc, y, i, x,             \* line, and position in the three loops
          pos,                     \* src_ptr, as a position in the line
          stack, sp,
          sum, sumIn, sumOut,
          before                   \* history: the image when the call began

args  == <<step, radius, before>>
sums  == <<sum, sumIn, sumOut>>
vars  == <<image, args, todo, core, pc, y, i, x, pos, stack, sp, sums>>

Div == 2 * radius + 1
LineLen == IF step = 1 THEN Width ELSE Height
Count == IF step = 1 THEN Height ELSE Width

(* The pixel at position k of line l: the strides 4 and w4. *)
Cell(l, k) == IF step = 1 THEN <<k, l>> ELSE <<l, k>>

(* The lines of job c, FirstLine up to but not including LimitLine.          *)
FirstLine(c) == (c * Count) \div Cores
LimitLine(c) == ((c + 1) * Count) \div Cores

(* The sums and table products are kept in an unsigned long, which has 32    *)
(* bits on Windows: product is taken modulo 2^32, its low 12 bits left out   *)
(* (every shift from radius 2 on is at least 12).                            *)
High(s, m) == (s \div 4096) * m + ((s % 4096) * m) \div 4096
(* Mutant: the tables indexed from 1. *)
ScaleNext(r, s) == ((High(s, Mul[r]) % 2^20) \div 2^(Shr[r + 1] - 12)) % 256
Scale(r, s) == ((High(s, Mul[r + 1]) % 2^20) \div 2^(Shr[r + 1] - 12)) % 256

(* The stack's wrap-around, and the slot of the oldest pixel.                *)
(* Mutant: the oldest pixel is taken to be at sp.                            *)
Wrap(n) == IF n >= Div THEN n - Div ELSE n
StackStartAtTop == sp
StackStart == Wrap(sp + Div - radius)

(* The weights of the two fill loops. Mutant: they start at 2.               *)
RampUpFrom2(n) == n + 2
RampUp(n) == n + 1
RampDown(n) == radius + 1 - n

Init == /\ image \in Images /\ before = image
        /\ step \in {1, 2} /\ radius \in Radii
        /\ todo = 0 .. Cores - 1 /\ core = 0
        /\ pc = "jobs" /\ y = 0 /\ i = 0 /\ x = 0 /\ pos = 0
        /\ stack = [j \in 0 .. 2 * radius |-> 0] /\ sp = 0
        /\ sum = 0 /\ sumIn = 0 /\ sumOut = 0

BeginJob(c) == /\ pc = "jobs" /\ c \in todo
               /\ core' = c /\ y' = FirstLine(c) /\ pc' = "line"
               /\ UNCHANGED <<image, args, todo, i, x, pos, stack, sp, sums>>

EndJob == /\ pc = "line" /\ y >= LimitLine(core)
          /\ todo' = todo \ {core} /\ pc' = "jobs"
          /\ UNCHANGED <<image, args, core, y, i, x, pos, stack, sp, sums>>

BeginLine == /\ pc = "line" /\ y < LimitLine(core)
             /\ sum' = 0 /\ sumIn' = 0 /\ sumOut' = 0
             /\ pos' = 0 /\ i' = 0 /\ pc' = "left"
             /\ UNCHANGED <<image, args, todo, core, y, x, stack, sp>>

(* The first pixel stands for the pixels left of the line, and for itself. *)
FillLeft ==
  /\ pc = "left"
  /\ LET v == image[Cell(y, pos)] IN
       /\ stack' = [stack EXCEPT ![i] = v]
       /\ sum' = sum + v * RampUp(i)
       /\ sumOut' = sumOut + v
  /\ IF i = radius THEN i' = 1 /\ pc' = "right" ELSE i' = i + 1 /\ UNCHANGED pc
  /\ UNCHANGED <<image, args, todo, core, y, x, pos, sp, sumIn>>

(* It ends with pos at radius, or at the last pixel of a shorter line, which *)
(* is where src_ptr is then put.                                             *)
FillRight ==
  /\ pc = "right"
  /\ pos' = IF i < LineLen THEN pos + 1 ELSE pos
  /\ LET v == image[Cell(y, pos')] IN
       /\ stack' = [stack EXCEPT ![i + radius] = v]
       /\ sum' = sum + v * RampDown(i)
       /\ sumIn' = sumIn + v
  /\ IF i = radius THEN pc' = "blur" /\ x' = 0 /\ sp' = radius /\ UNCHANGED i
                   ELSE i' = i + 1 /\ UNCHANGED <<pc, x, sp>>
  /\ UNCHANGED <<image, args, todo, core, y, sumOut>>

(* One pixel written, the oldest one of the window replaced by the next of   *)
(* the line. The pixel is written before the next one is read.               *)
BlurPixel ==
  /\ pc = "blur"
  /\ image' = [image EXCEPT ![Cell(y, x)] = Scale(radius, sum)]
  /\ pos' = IF pos < LineLen - 1 THEN pos + 1 ELSE pos
  /\ sp' = Wrap(sp + 1)
  /\ LET v == image'[Cell(y, pos')] IN
       /\ stack' = [stack EXCEPT ![StackStart] = v]
       /\ sum' = sum - sumOut + sumIn + v
       /\ sumOut' = sumOut - stack[StackStart] + stack'[sp']
       /\ sumIn' = sumIn + v - stack'[sp']
  /\ x' = x + 1
  /\ IF x' = LineLen THEN y' = y + 1 /\ pc' = "line" ELSE UNCHANGED <<y, pc>>
  /\ UNCHANGED <<args, todo, core, i>>

Next == \/ \E c \in 0 .. Cores - 1 : BeginJob(c)
        \/ EndJob \/ BeginLine \/ FillLeft \/ FillRight \/ BlurPixel

Spec == Init /\ [][Next]_vars

-----------------------------------------------------------------------------
(* The stored values are bytes. *)
ValuesOK ==
  /\ image \in [Cells -> Byte] /\ before \in [Cells -> Byte]
  /\ stack \in [0 .. 2 * radius -> Byte]
  /\ sum \in Int /\ sumIn \in Int /\ sumOut \in Int

(* Every index is inside what it indexes: the stack pointer and the slots    *)
(* filled inside the 2 * radius + 1 entries, the source position inside the  *)
(* line however short it is, the line inside the image.                      *)
IndicesOK ==
  /\ DOMAIN image = Cells /\ DOMAIN before = Cells
  /\ DOMAIN stack = 0 .. 2 * radius
  /\ step \in {1, 2} /\ radius \in Radii
  /\ todo \subseteq 0 .. Cores - 1 /\ core \in 0 .. Cores - 1
  /\ pc \in {"jobs", "line", "left", "right", "blur"}
  /\ y \in 0 .. Count /\ pos \in 0 .. LineLen - 1
  /\ i \in 0 .. radius /\ sp \in 0 .. 2 * radius /\ x \in 0 .. LineLen
  /\ pc \in {"left", "right", "blur"} => y < Count
  /\ pc = "right" => i >= 1
  /\ pc = "blur" => x < LineLen

TypeOK == IndicesOK /\ ValuesOK

(* The pixel that stands for position k of a line of n pixels. *)
Clamp(k, n) == IF k < 0 THEN 0 ELSE IF k > n - 1 THEN n - 1 ELSE k

(* While pixel x is computed, the stack holds the original pixels from       *)
(* x - radius to x + radius, the one at distance d in the slot d places from *)
(* sp: although the image is overwritten behind x, and the stack wraps.      *)
Slot(d) == IF sp + d < 0 THEN sp + d + Div ELSE Wrap(sp + d)
Original(l, k) == before[Cell(l, Clamp(k, LineLen))]
WindowInStack ==
  pc = "blur" => \A d \in -radius .. radius : stack[Slot(d)] = Original(y, x + d)

(* Running sums of a function on 0, 1, ...: what a loop that adds has.       *)
Sums(g) == LET s[d \in DOMAIN g] == IF d = 0 THEN g[0] ELSE s[d - 1] + g[d] IN s

(* The window around position k, from its oldest pixel, and its weighted     *)
(* sum: weights falling off from the middle.                                 *)
Weight(d) == radius + 1 - (IF d < 0 THEN -d ELSE d)
Window(l, k) == [d \in 0 .. 2 * radius |-> Original(l, k + d - radius)]
Weighing(l, k) == [d \in 0 .. 2 * radius |-> Weight(d - radius) * Original(l, k + d - radius)]
Weighted(l, k) == Sums(Weighing(l, k))[2 * radius]

(* Pixels already handled, by a finished job or before the current place. *)
Handled(l, k) ==
  \/ \E c \in (0 .. Cores - 1) \ todo : l \in FirstLine(c) .. LimitLine(c) - 1
  \/ /\ pc # "jobs" /\ l \in FirstLine(core) .. LimitLine(core) - 1
     /\ \/ l < y
        \/ l = y /\ pc = "blur" /\ k < x

(* Pixels not handled yet are untouched. *)
UnhandledKept ==
  \A l \in 0 .. Count - 1, k \in 0 .. LineLen - 1 :
    ~Handled(l, k) => image[Cell(l, k)] = before[Cell(l, k)]

(* When all jobs have ended every pixel is handled, whatever the number of   *)
(* jobs, more than lines or not dividing them.                               *)
NothingLeftOut ==
  todo = {} => \A l \in 0 .. Count - 1, k \in 0 .. LineLen - 1 : Handled(l, k)

(* A handled pixel is the weighted average of the original line around it.   *)
HandledAveraged ==
  \A l \in 0 .. Count - 1, k \in 0 .. LineLen - 1 :
    Handled(l, k) => image[Cell(l, k)] = Scale(radius, Weighted(l, k))

(* In whatever order the jobs run, a handled pixel is the weighted average   *)
(* of the original line around it, blurred once, the others are untouched,   *)
(* and none is left out.                                                     *)
Blurred == UnhandledKept /\ NothingLeftOut /\ HandledAveraged

(* What keeps WindowInStack: the stack as the two fill loops leave it, the   *)
(* source position as a function of the loop variable, and a running job.    *)
Filled ==
  /\ pc \in {"left", "right"} =>
       \A j \in 0 .. (IF pc = "left" THEN i - 1 ELSE radius) : stack[j] = Original(y, 0)
  /\ pc = "right" => \A j \in 1 .. i - 1 : stack[j + radius] = Original(y, j)
Source == /\ pc = "left" => pos = 0
          /\ pc = "right" => pos = Clamp(i - 1, LineLen)
          /\ pc = "blur" => pos = Clamp(x + radius, LineLen)
Running == pc # "jobs" => /\ core \in todo /\ y >= FirstLine(core)
                          /\ pc # "line" => y < LimitLine(core)

(* The three sums in terms of the window: what has been weighed so far, the  *)
(* pixels up to the middle, and those behind it.                             *)
WindowSums ==
  LET weighed(k) == Sums(Weighing(y, k))
      summed(k)  == Sums(Window(y, k))
  IN /\ pc = "left" => /\ sum = IF i = 0 THEN 0 ELSE weighed(0)[i - 1]
                       /\ sumOut = IF i = 0 THEN 0 ELSE summed(0)[i - 1]
                       /\ sumIn = 0
     /\ pc = "right" => /\ sum = weighed(0)[radius + i - 1]
                        /\ sumOut = summed(0)[radius]
                        /\ sumIn = summed(0)[radius + i - 1] - sumOut
     /\ pc = "blur" => /\ sum = Weighted(y, x)
                       /\ sumOut = summed(x)[radius]
                       /\ sumIn = summed(x)[2 * radius] - sumOut

IInv == /\ IndicesOK /\ Running /\ Source /\ Filled /\ UnhandledKept /\ WindowInStack
        /\ before \in [Cells -> Byte] /\ WindowSums /\ HandledAveraged

(* When a call begins on an image of one colour, the sum of any window is    *)
(* that colour times (radius + 1)^2: the tables give the colour back, for    *)
(* each of their radii and 256 colours, without leaving 32 bits. As Scale    *)
(* grows with the sum, no pixel leaves the range of its window either.       *)
DividesExactly == \A r \in DocumentedRadii, v \in Byte : Scale(r, v * (r + 1)^2) = v
FlatColourKept == radius \in DocumentedRadii => DividesExactly
=============================================================================
