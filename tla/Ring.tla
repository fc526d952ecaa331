-------------------------------- MODULE Ring --------------------------------
(***************************************************************************)
(* Index arithmetic of the plugin's event rings                            *)
(* (templates/cplug_pugl_nanovg/src/plugin.c, MyPlugin).  A ring has       *)
(* CPLUG_EVENT_QUEUE_SIZE slots and an index is reduced with               *)
(* `& CPLUG_EVENT_QUEUE_MASK`, which is the remainder because the size is a *)
(* power of two.                                                           *)
(***************************************************************************)
EXTENDS Naturals

CONSTANT Size   \* CPLUG_EVENT_QUEUE_SIZE

ASSUME SizeAssumption == Size \in Nat /\ Size >= 2

(* What makes `& MASK` the remainder; only the reading of the code needs it. *)
ASSUME SizeIsPowerOfTwo == \E k \in 1..Size : Size = 2^k

Index == 0..(Size - 1)

(* Mutant: reduced by MASK instead of `& MASK`. *)
MaskByModulo(i) == i % (Size - 1)

(* i & CPLUG_EVENT_QUEUE_MASK *)
Mask(i) == i % Size

(* The same for an index that has run past the end at most once. *)
Wrap(i) == IF i >= Size THEN i - Size ELSE i

(* How many slots a reader at t passes before it meets h. *)
Unread(t, h) == IF h >= t THEN h - t ELSE h - t + Size
=============================================================================
