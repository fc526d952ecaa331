-------------------------- MODULE EventQueueProofs --------------------------
(***************************************************************************)
(* Proofs about EventQueue, for every ring size, every set of events and   *)
(* any number of sends.                                                    *)
(***************************************************************************)
EXTENDS EventQueue, SequenceTheorems, TLAPS

(* `& MASK` on an index of the ring, or on the one past its end. *)
LEMMA MaskOf == \A x \in 0..Size : Mask(x) = IF x = Size THEN 0 ELSE x
BY SizeAssumption DEF Mask

(* Every step keeps the indices in the ring and the program counters and    *)
(* histories in their sets.                                                *)
LEMMA TypeInvariance == ASSUME TypeOK, [Next]_vars PROVE TypeOK'
<1> USE SizeAssumption, MaskOf DEF TypeOK, Content, Index
<1>1. CASE \E e \in Event : SendBegin(e)
  BY <1>1 DEF SendBegin, cvars
<1>2. CASE WriteType
  BY <1>2 DEF WriteType, cvars
<1>3. CASE WriteRest
  BY <1>3 DEF WriteRest, cvars
<1>4. CASE FetchAdd
  BY <1>4 DEF FetchAdd, cvars
<1>5. CASE FetchAnd
  BY <1>5 DEF FetchAnd, cvars
<1>6. CASE DrainBegin
  BY <1>6 DEF DrainBegin, pvars
<1>7. CASE LoadTail
  BY <1>7 DEF LoadTail, pvars
<1>8. CASE DrainApply
  BY <1>8 DEF DrainApply, pvars
<1>9. CASE DrainForward
  BY <1>9 DEF DrainForward, pvars
<1>10. CASE DrainEnd
  BY <1>10 DEF DrainEnd, pvars
<1>11. CASE UNCHANGED vars
  BY <1>11 DEF vars, pvars, cvars
<1> QED
  BY <1>1, <1>2, <1>3, <1>4, <1>5, <1>6, <1>7, <1>8, <1>9, <1>10, <1>11
     DEF Next, Producer, Consumer

LEMMA InitType == ASSUME Init PROVE TypeOK
<1>1. <<>> \in Seq(Event) /\ <<>> \in Seq(Content)
  OBVIOUS
<1>2. 0 \in Index /\ 0 \in 0..Size /\ 0 # Size
  BY SizeAssumption DEF Index
<1> QED
  BY <1>1, <1>2 DEF Init, TypeOK, Content

(* TypeOK holds in every reachable state. *)
THEOREM TypeCorrect == Spec => []TypeOK
BY InitType, TypeInvariance, PTL DEF Spec

-----------------------------------------------------------------------------
(* The producer's own facts: the slot it fills is the one at the head.     *)
LEMMA ProducerStep ==
    ASSUME TypeOK, ProducerInv, [Next]_vars PROVE ProducerInv'
<1> USE SizeAssumption, MaskOf DEF TypeOK, ProducerInv, Index
<1>1. CASE \E e \in Event : SendBegin(e)
  BY <1>1 DEF SendBegin
<1>2. CASE WriteType
  BY <1>2 DEF WriteType
<1>3. CASE WriteRest
  BY <1>3 DEF WriteRest
<1>4. CASE FetchAdd
  BY <1>4 DEF FetchAdd
<1>5. CASE FetchAnd
  BY <1>5 DEF FetchAnd
<1>6. CASE Consumer
  BY <1>6 DEF Consumer, DrainBegin, LoadTail, DrainApply, DrainForward, DrainEnd, pvars
<1>7. CASE UNCHANGED vars
  BY <1>7 DEF vars, pvars
<1> QED
  BY <1>1, <1>2, <1>3, <1>4, <1>5, <1>6, <1>7 DEF Next, Producer

(* The slot the producer fills is none of those the consumer may read.     *)
LEMMA Apart ==
    ASSUME TypeOK, ProducerInv, PositionInv,
           ppc \in {"write", "rest", "add"}
    PROVE  /\ \A i \in Index : i < Window => pslot # Wrap(CPos + i)
           /\ cpc = "forward" => pslot # ctail
BY SizeAssumption, MaskOf
   DEF TypeOK, ProducerInv, PositionInv, Window, CPos, Unread, Wrap, Index

(* What the consumer is still to read is what was published and not        *)
(* received: each step keeps it so, or is the send that gets a lap ahead.  *)
LEMMA ReaderStep ==
    ASSUME TypeOK, ProducerInv, PositionInv, ContentInv, Next, ~lapped'
    PROVE  PositionInv' /\ ContentInv'
<1> USE SizeAssumption, MaskOf DEF TypeOK, Index
<1>0. /\ Mask(head) \in Index /\ CPos \in Index /\ Window \in Index
      /\ Unread(CPos, chead) \in Index
      /\ Len(sent) \in Nat /\ Len(received) \in Nat
  BY DEF CPos, Window, Unread
<1>1. CASE \E e \in Event : SendBegin(e)
  BY <1>1 DEF SendBegin, cvars, PositionInv, ContentInv, Window, CPos
<1>2. CASE WriteType \/ WriteRest
  <2>1. /\ \A i \in Index : i < Window => pslot # Wrap(CPos + i)
        /\ cpc = "forward" => pslot # ctail
    BY <1>2, Apart DEF WriteType, WriteRest
  <2>2. UNCHANGED <<head, tail, cvars, sent, received>>
    BY <1>2 DEF WriteType, WriteRest
  <2>3. \A i \in Index : i # pslot => slots'[i] = slots[i]
    BY <1>2 DEF WriteType, WriteRest
  <2>4. \A i \in Index : Wrap(CPos + i) \in Index
    BY DEF Wrap, CPos
  <2> QED
    BY <2>1, <2>2, <2>3, <2>4 DEF cvars, PositionInv, ContentInv, Window, CPos
<1>3. CASE FetchAdd
  <2>1. /\ head < Size /\ Mask(head) = head /\ pslot = head
        /\ Mask(head') = IF head + 1 = Size THEN 0 ELSE head + 1
    <3>1. head < Size /\ head' = head + 1 /\ head' \in 0..Size
      BY <1>3 DEF FetchAdd
    <3> QED
      BY <1>3, <3>1 DEF FetchAdd, ProducerInv
  <2>2. CPos \in Index /\ CPos' = CPos
    BY <1>3 DEF FetchAdd, cvars, CPos
  <2>3. Window < Size - 1
    <3>1. ~(Len(sent) + 1 - Len(received) >= Size)
      BY <1>3, Zenon DEF FetchAdd
    <3> QED
      BY <1>0, <3>1 DEF PositionInv
  <2>4. Window' = Window + 1 /\ Wrap(CPos + Window) = pslot
    BY <2>1, <2>2, <2>3 DEF Window, Unread, Wrap
  <2>5. /\ Len(sent') = Len(sent) + 1
        /\ sent'[Len(sent) + 1] = slots[pslot]
        /\ \A i \in 1..Len(sent) : sent'[i] = sent[i]
    BY <1>3 DEF FetchAdd, ProducerInv
  <2>6. PositionInv'
    BY <1>0, <1>3, <2>2, <2>4, <2>5 DEF FetchAdd, cvars, PositionInv
  <2>7. ASSUME NEW i \in Index, i < Window'
        PROVE  slots'[Wrap(CPos + i)] = sent'[Len(received) + i + 1]
    <3>1. CASE i < Window
      <4>1. Len(received) + i + 1 \in 1..Len(sent)
        BY <1>0, <3>1 DEF PositionInv
      <4>2. slots' = slots
        BY <1>3 DEF FetchAdd
      <4> QED
        BY <2>5, <3>1, <4>1, <4>2 DEF ContentInv
    <3>2. CASE i = Window
      BY <1>0, <1>3, <3>2, <2>4, <2>5 DEF FetchAdd, PositionInv
    <3> QED
      BY <1>0, <2>4, <2>7, <3>1, <3>2
  <2>8. ContentInv'
    <3>1. received' = received /\ Len(sent) >= Len(received)
      BY <1>0, <1>3 DEF FetchAdd, PositionInv
    <3>2. \A i \in 1..Len(received) : received'[i] = sent'[i]
      BY <1>0, <2>5, <3>1 DEF ContentInv
    <3> QED
      BY <2>2, <2>7, <3>1, <3>2 DEF ContentInv
  <2> QED
    BY <2>6, <2>8
<1>4. CASE FetchAnd
  <2>1. Mask(head') = Mask(head)
    BY <1>4 DEF FetchAnd
  <2> QED
    BY <1>4, <2>1 DEF FetchAnd, cvars, PositionInv, ContentInv, Window, CPos
<1>5. CASE DrainBegin
  BY <1>5 DEF DrainBegin, pvars, PositionInv, ContentInv, Window, CPos
<1>6. CASE LoadTail
  BY <1>6 DEF LoadTail, pvars, PositionInv, ContentInv, Window, CPos
<1>7. CASE DrainApply
  BY <1>7 DEF DrainApply, pvars, PositionInv, ContentInv, Window, CPos
<1>8. CASE DrainForward
  <2>1. Window > 0 /\ CPos = ctail /\ Mask(head) \in Index
    BY <1>8 DEF DrainForward, PositionInv, Window, CPos, Unread
  <2>2. CPos' = Wrap(CPos + 1)
    BY <1>8, <2>1 DEF DrainForward, CPos, Wrap
  <2>3. Window' = Window - 1
    <3>1. head' = head
      BY <1>8 DEF DrainForward
    <3> QED
      BY <1>0, <2>1, <2>2, <3>1 DEF Window, Unread, Wrap
  <2>4. Unread(CPos', chead) = Unread(CPos, chead) - 1
    BY <1>8, <2>1, <2>2 DEF DrainForward, PositionInv, Unread, Wrap
  <2>5. /\ Len(received') = Len(received) + 1
        /\ received'[Len(received) + 1] = slots[ctail]
        /\ \A i \in 1..Len(received) : received'[i] = received[i]
    BY <1>8 DEF DrainForward
  <2>6. PositionInv'
    BY <1>0, <1>8, <2>3, <2>4, <2>5 DEF DrainForward, pvars, PositionInv
  <2>7. slots[ctail] = sent[Len(received) + 1]
    <3>1. 0 \in Index /\ Wrap(CPos + 0) = ctail
      BY <2>1 DEF Wrap
    <3> QED
      BY <2>1, <3>1 DEF ContentInv
  <2>8. ASSUME NEW i \in Index, i < Window'
        PROVE  slots[Wrap(CPos' + i)] = sent[Len(received') + i + 1]
    <3>1. Wrap(CPos' + i) = Wrap(CPos + (i + 1))
      BY <2>1, <2>2, <2>3, <2>8 DEF Wrap, Window, Unread
    <3>2. i + 1 \in Index /\ i + 1 < Window
      BY <2>1, <2>3, <2>8 DEF Window, Unread
    <3> QED
      BY <2>5, <3>1, <3>2 DEF ContentInv
  <2>9. ContentInv'
    BY <1>8, <2>5, <2>7, <2>8 DEF DrainForward, pvars, ContentInv
  <2> QED
    BY <2>6, <2>9
<1>9. CASE DrainEnd
  BY <1>9 DEF DrainEnd, pvars, PositionInv, ContentInv, Window, CPos
<1> QED
  BY <1>1, <1>2, <1>3, <1>4, <1>5, <1>6, <1>7, <1>8, <1>9 DEF Next, Producer, Consumer

(* Counting on by one, the remainder goes on by one and starts again at 0. *)
LEMMA NextRemainder ==
    ASSUME NEW n \in Nat \ {0}, NEW a \in Nat
    PROVE  /\ a % n \in 0..(n - 1) /\ a % n <= a
           /\ (a + 1) % n = IF a % n = n - 1 THEN 0 ELSE (a % n) + 1
<1> DEFINE q == a \div n
           r == a % n
           u == (a + 1) \div n
           s == (a + 1) % n
<1>1. q \in Nat /\ r \in 0..(n - 1) /\ a = (n * q) + r
  BY SMT
<1>2. u \in Nat /\ s \in 0..(n - 1) /\ a + 1 = (n * u) + s
  BY SMT
<1> HIDE DEF q, r, u, s
<1>3. n * q \in Nat /\ n * u \in Nat /\ (n * u) + s = (n * q) + r + 1
  BY <1>1, <1>2
<1>4. u <= q + 1
  <2>1. SUFFICES ASSUME u >= q + 2 PROVE FALSE
    BY <1>1, <1>2
  <2>2. n * u >= n * (q + 2)
    BY <1>1, <1>2, <2>1
  <2>3. n * (q + 2) = (n * q) + (2 * n)
    BY <1>1
  <2>4. QED  BY <1>1, <1>2, <1>3, <2>2, <2>3
<1>5. u >= q
  <2>1. SUFFICES ASSUME q >= u + 1 PROVE FALSE
    BY <1>1, <1>2
  <2>2. n * q >= n * (u + 1)
    BY <1>1, <1>2, <2>1
  <2>3. n * (u + 1) = (n * u) + n
    BY <1>2
  <2>4. QED  BY <1>1, <1>2, <1>3, <2>2, <2>3
<1>6. n * (q + 1) = (n * q) + n
  BY <1>1
<1>7. s = IF r = n - 1 THEN 0 ELSE r + 1
  <2>1. CASE u = q
    BY <1>1, <1>2, <1>3, <2>1
  <2>2. CASE u = q + 1
    BY <1>1, <1>2, <1>3, <1>6, <2>2
  <2>3. QED  BY <1>1, <1>2, <1>4, <1>5, <2>1, <2>2
<1>8. r <= a
  BY <1>1, <1>3
<1> QED
  BY <1>1, <1>7, <1>8 DEF r, s

(* The same for the ring, as the provers can apply it. *)
LEMMA NextPlace ==
    \A a \in Nat : /\ a % Size \in Index /\ a % Size <= a
                   /\ (a + 1) % Size = IF a % Size = Size - 1 THEN 0 ELSE (a % Size) + 1
<1>1. Size \in Nat \ {0}
  BY SizeAssumption
<1> QED
  BY <1>1, NextRemainder, Zenon DEF Index

(* A reader that goes on by one slot has one less ahead of it, or a lap.   *)
LEMMA NextUnread ==
    \A t \in Index, h \in Index :
        /\ Unread(Wrap(t + 1), h) \in Index
        /\ Unread(t, h) = IF Unread(Wrap(t + 1), h) = Size - 1 THEN 0
                          ELSE Unread(Wrap(t + 1), h) + 1
BY SizeAssumption DEF Unread, Wrap, Index

(* Where the reader stands and how many events it is behind move together, *)
(* also after the producer has overtaken it.                               *)
LEMMA LapStep ==
    ASSUME TypeOK, ProducerInv, LapInv, [Next]_vars PROVE LapInv'
<1> DEFINE behind == Len(sent) - Len(received)
<1> USE SizeAssumption, MaskOf DEF TypeOK, Index
<1>0. /\ Mask(head) \in Index /\ CPos \in Index /\ Window \in Index
      /\ Len(sent) \in Nat /\ Len(received) \in Nat /\ behind \in Nat
      /\ Window = behind % Size
      /\ cpc # "idle" => Unread(CPos, chead) <= behind
      /\ cpc = "forward" => ctail # chead
  BY DEF CPos, Window, Unread, LapInv, LapLosesWholeRings
<1> HIDE DEF behind
<1>1. CASE FetchAdd
  <2>1. /\ head < Size /\ Mask(head) = head
        /\ Mask(head') = IF head + 1 = Size THEN 0 ELSE head + 1
    <3>1. head < Size /\ head' = head + 1 /\ head' \in 0..Size
      BY <1>1 DEF FetchAdd, ProducerInv
    <3> QED
      BY <1>1, <3>1 DEF FetchAdd
  <2>2. CPos' = CPos /\ cpc' = cpc /\ chead' = chead /\ ctail' = ctail
    BY <1>1 DEF FetchAdd, cvars, CPos
  <2>3. Window' = IF Window = Size - 1 THEN 0 ELSE Window + 1
    BY <1>0, <2>1, <2>2 DEF Window, Unread
  <2>4. received' = received /\ Len(sent') = Len(sent) + 1
    BY <1>1 DEF FetchAdd
  <2>5. Window' = (behind + 1) % Size
    <3>1. (behind + 1) % Size = IF behind % Size = Size - 1 THEN 0 ELSE (behind % Size) + 1
      BY <1>0, NextPlace, Zenon
    <3> QED
      BY <1>0, <2>3, <3>1
  <2>6. Len(sent') - Len(received') = behind + 1
    BY <1>0, <2>4 DEF behind
  <2>7. LapLosesWholeRings'
    BY <1>0, <2>4, <2>5, <2>6 DEF LapLosesWholeRings
  <2>8. cpc' # "idle" => Unread(CPos', chead') <= Len(sent') - Len(received')
    BY <1>0, <2>2, <2>6 DEF Unread
  <2> QED
    BY <1>0, <2>2, <2>7, <2>8 DEF LapInv
<1>2. CASE DrainForward
  <2>1. /\ CPos = ctail /\ CPos' = Wrap(CPos + 1) /\ ctail # chead
        /\ head' = head /\ chead' = chead /\ cpc' = "apply" /\ cpc # "idle"
        /\ sent' = sent /\ Len(received') = Len(received) + 1
    BY <1>0, <1>2 DEF DrainForward, CPos, Wrap
  <2>2. Unread(CPos, chead) > 0 /\ behind > 0
    BY <1>0, <2>1 DEF Unread
  <2>3. Unread(CPos', chead') = Unread(CPos, chead) - 1
    BY <1>0, <2>1 DEF Unread, Wrap
  <2>4. Window' = Unread(Wrap(CPos + 1), Mask(head)) /\ Window = Unread(CPos, Mask(head))
    BY <2>1 DEF Window
  <2>5. Window' \in Index /\ Window = IF Window' = Size - 1 THEN 0 ELSE Window' + 1
    BY <1>0, <2>4, NextUnread, Zenon
  <2>6. behind - 1 \in Nat /\ (behind - 1) + 1 = behind
    BY <1>0, <2>2
  <2>7. /\ (behind - 1) % Size \in Index
        /\ behind % Size = IF (behind - 1) % Size = Size - 1 THEN 0
                           ELSE ((behind - 1) % Size) + 1
    BY <2>6, NextPlace, Zenon
  <2>8. Window' = (behind - 1) % Size
    <3> DEFINE w == Window'
               r == (behind - 1) % Size
    <3>1. /\ w \in Index /\ r \in Index
          /\ (IF w = Size - 1 THEN 0 ELSE w + 1) = (IF r = Size - 1 THEN 0 ELSE r + 1)
      BY <1>0, <2>5, <2>7, Zenon
    <3> HIDE DEF w, r
    <3>2. w = r
      BY <3>1
    <3> QED
      BY <3>2 DEF w, r
  <2>9. Len(sent') - Len(received') = behind - 1
    BY <1>0, <2>1 DEF behind
  <2>10. LapLosesWholeRings'
    BY <1>0, <2>2, <2>8, <2>9, <2>1 DEF LapLosesWholeRings
  <2>11. Unread(CPos', chead') <= Len(sent') - Len(received')
    BY <1>0, <2>1, <2>3, <2>9 DEF Unread
  <2> QED
    BY <2>1, <2>10, <2>11 DEF LapInv
<1>3. CASE FetchAnd
  <2>1. Mask(head') = Mask(head) /\ UNCHANGED <<cvars, tail, sent, received>>
    BY <1>3 DEF FetchAnd
  <2>2. Window' = Window /\ CPos' = CPos
    BY <2>1 DEF cvars, Window, CPos
  <2> QED
    BY <2>1, <2>2 DEF cvars, LapInv, LapLosesWholeRings
<1>4. CASE DrainBegin
  <2>1. /\ UNCHANGED <<head, tail, ctail, sent, received>> /\ cpc' = "tail"
        /\ chead' = Mask(head) /\ CPos' = CPos /\ Window' = Window
    BY <1>4 DEF DrainBegin, CPos, Window
  <2>2. behind % Size <= behind
    BY <1>0, NextPlace, Zenon
  <2>3. Unread(CPos', chead') = Window
    BY <2>1 DEF Window
  <2> QED
    BY <1>0, <2>1, <2>2, <2>3 DEF LapInv, LapLosesWholeRings, behind
<1>5. CASE LoadTail \/ DrainApply \/ DrainEnd
  <2>1. /\ UNCHANGED <<head, chead, sent, received>> /\ CPos' = CPos /\ Window' = Window
        /\ cpc # "idle" /\ (cpc' = "forward" => ctail' # chead')
    BY <1>5 DEF LoadTail, DrainApply, DrainEnd, CPos, Window
  <2> QED
    BY <1>0, <2>1 DEF LapInv, LapLosesWholeRings, behind
<1>6. CASE (\E e \in Event : SendBegin(e)) \/ WriteType \/ WriteRest \/ UNCHANGED vars
  <2>1. UNCHANGED <<head, tail, cpc, chead, ctail, sent, received>>
    BY <1>6 DEF SendBegin, WriteType, WriteRest, vars, cvars
  <2>2. Window' = Window /\ CPos' = CPos
    BY <2>1 DEF Window, CPos
  <2> QED
    BY <2>1, <2>2 DEF LapInv, LapLosesWholeRings
<1> QED
  BY <1>1, <1>2, <1>3, <1>4, <1>5, <1>6 DEF Next, Producer, Consumer

(* Once a lap ahead, always a lap ahead: the history flag is never reset.  *)
LEMMA LapIsForever == ASSUME Next, ~lapped' PROVE ~lapped
BY Zenon DEF Next, Producer, Consumer, SendBegin, WriteType, WriteRest, FetchAdd,
   FetchAnd, DrainBegin, LoadTail, DrainApply, DrainForward, DrainEnd

(* IInv is inductive. *)
THEOREM InductiveInvariant == Spec => []IInv
<1>1. Init => IInv
  <2> SUFFICES ASSUME Init PROVE IInv
    OBVIOUS
  <2>1. TypeOK
    BY InitType
  <2>2. Mask(0) = 0 /\ Window = 0
    BY SizeAssumption, MaskOf DEF Init, Window, CPos, Unread
  <2>3. ProducerInv /\ PositionInv /\ ContentInv
    BY <2>2, SizeAssumption DEF Init, ProducerInv, PositionInv, ContentInv, Index
  <2>4. LapInv
    BY <2>2, SizeAssumption DEF Init, LapInv, LapLosesWholeRings, Mask
  <2> QED
    BY <2>1, <2>3, <2>4 DEF IInv
<1>2. IInv /\ [Next]_vars => IInv'
  <2> SUFFICES ASSUME IInv, [Next]_vars PROVE IInv'
    OBVIOUS
  <2>1. TypeOK' /\ ProducerInv' /\ LapInv'
    BY TypeInvariance, ProducerStep, LapStep DEF IInv
  <2>2. CASE Next
    BY <2>1, <2>2, LapIsForever, ReaderStep DEF IInv
  <2>3. CASE UNCHANGED vars
    BY <2>1, <2>3 DEF IInv, vars, cvars, pvars, PositionInv, ContentInv, Window, CPos
  <2> QED
    BY <2>2, <2>3
<1> QED
  BY <1>1, <1>2, PTL DEF Spec

-----------------------------------------------------------------------------
(* Events reach the host in order, once and whole, unless overtaken.       *)
THEOREM FifoCorrect == Spec => []Fifo
<1>1. IInv => Fifo
  BY SizeAssumption DEF IInv, TypeOK, PositionInv, ContentInv, Fifo, Window, Unread,
     CPos, Index, Mask
<1> QED
  BY <1>1, InductiveInvariant, PTL

(* The pointer given to the host still points to the event applied.        *)
THEOREM PointerStable == Spec => []SameEventToHost
<1>1. IInv => SameEventToHost
  BY DEF IInv, PositionInv, SameEventToHost
<1> QED
  BY <1>1, InductiveInvariant, PTL

(* The producer never writes a slot the consumer may be reading.           *)
THEOREM SlotsExclusive == Spec => []SlotExclusive
<1>1. IInv => SlotExclusive
  BY Apart DEF IInv, SlotExclusive
<1> QED
  BY <1>1, InductiveInvariant, PTL

(* An overtaken reader is off by whole rings, and never passes on more     *)
(* events than were sent.                                                  *)
THEOREM LapsAreWhole == Spec => []LapLosesWholeRings
<1>1. IInv => LapLosesWholeRings
  BY DEF IInv, LapInv
<1> QED
  BY <1>1, InductiveInvariant, PTL

-----------------------------------------------------------------------------
(* The ring implements the channel of capacity Size - 1.                   *)

(* What is pending after a step that moves neither reader nor head nor any *)
(* unread slot.                                                            *)
LEMMA SamePending ==
    ASSUME TypeOK, Window' = Window, CPos' = CPos,
           \A i \in Index : i < Window => slots'[Wrap(CPos + i)] = slots[Wrap(CPos + i)]
    PROVE  Pending' = Pending
<1>1. Window \in Index
  BY SizeAssumption, MaskOf DEF TypeOK, Window, CPos, Unread, Index
<1>2. \A i \in 1..Window : slots'[Wrap(CPos' + i - 1)] = slots[Wrap(CPos + i - 1)]
  <2> SUFFICES ASSUME NEW i \in 1..Window
               PROVE  slots'[Wrap(CPos' + i - 1)] = slots[Wrap(CPos + i - 1)]
    OBVIOUS
  <2>1. i - 1 \in Index /\ i - 1 < Window
    BY <1>1, SizeAssumption DEF Index
  <2>2. CPos + i - 1 = CPos + (i - 1)
    BY SizeAssumption DEF TypeOK, CPos, Index
  <2> QED
    BY <2>1, <2>2
<1> QED
  BY <1>2 DEF Pending

LEMMA PutStep ==
    ASSUME IInv, ~lapped, ~lapped', FetchAdd
    PROVE  Channel!Put(pevent)
<1> USE SizeAssumption DEF IInv, TypeOK, Index
<1>1. Len(sent) + 1 - Len(received) < Size
  <2>1. ~(Len(sent) + 1 - Len(received) >= Size)
    BY Zenon DEF FetchAdd
  <2> QED
    BY <2>1
<1>2. /\ head < Size /\ Mask(head) = head /\ pslot = head
      /\ Mask(head') = IF head + 1 = Size THEN 0 ELSE head + 1
  <2>1. head < Size /\ head' = head + 1 /\ head' \in 0..Size
    BY DEF FetchAdd
  <2> QED
    BY <2>1, MaskOf DEF FetchAdd, ProducerInv
<1>3. CPos \in Index /\ CPos' = CPos /\ Window \in Index
  BY <1>2 DEF FetchAdd, cvars, CPos, Window, Unread
<1>4. Window < Size - 1
  BY <1>1, <1>3 DEF PositionInv
<1>5. Window' = Window + 1 /\ Wrap(CPos + Window) = pslot
  BY <1>2, <1>3, <1>4 DEF Window, Unread, Wrap
<1>6. slots' = slots /\ slots[pslot] = pevent
  BY DEF FetchAdd, ProducerInv
<1>7. Pending' = Append(Pending, pevent)
  BY <1>3, <1>5, <1>6 DEF Pending
<1>8. Len(Pending) = Window
  BY <1>3 DEF Pending
<1> QED
  BY <1>4, <1>7, <1>8 DEF Channel!Put, FetchAdd

LEMMA OverflowStep ==
    ASSUME IInv, ~lapped, lapped', FetchAdd
    PROVE  Channel!Overflow
<1> USE SizeAssumption DEF IInv, TypeOK, Index
<1>1. Len(sent) + 1 - Len(received) >= Size
  BY Zenon DEF FetchAdd
<1>2. Window \in Index
  BY MaskOf DEF CPos, Window, Unread
<1>3. Window = Size - 1
  BY <1>1, <1>2 DEF PositionInv
<1>4. Len(Pending) = Window
  BY <1>2 DEF Pending
<1> QED
  BY <1>3, <1>4 DEF Channel!Overflow

LEMMA GetStep ==
    ASSUME IInv, ~lapped, DrainForward
    PROVE  Channel!Get
<1> USE SizeAssumption DEF IInv, TypeOK, Index
<1>1. Window \in Index /\ Window > 0 /\ CPos = ctail /\ Mask(head) \in Index
  BY MaskOf DEF DrainForward, PositionInv, Window, CPos, Unread
<1>2. CPos' = Wrap(CPos + 1)
  BY <1>1, MaskOf DEF DrainForward, CPos, Wrap
<1>3. Window' = Window - 1
  <2>1. head' = head
    BY DEF DrainForward
  <2> QED
    BY <1>1, <1>2, <2>1 DEF Window, Unread, Wrap
<1>4. slots' = slots /\ received' = Append(received, slots[ctail]) /\ lapped' = lapped
  BY DEF DrainForward
<1>5. Pending \in Seq(Content) /\ Len(Pending) = Window
  <2>1. \A i \in 1..Window : Wrap(CPos + i - 1) \in Index
    BY <1>1 DEF Wrap
  <2> QED
    BY <1>1, <2>1 DEF Pending
<1>6. Pending # <<>> /\ Head(Pending) = slots[ctail]
  <2>1. Pending[1] = slots[ctail]
    BY <1>1 DEF Pending, Wrap
  <2> QED
    BY <1>1, <1>5, <2>1
<1>7. Pending' \in Seq(Content) /\ Len(Pending') = Window - 1
  <2>1. \A i \in 1..(Window - 1) : Wrap(CPos' + i - 1) \in Index
    BY <1>1, <1>2 DEF Wrap
  <2> QED
    BY <1>1, <1>3, <1>4, <2>1 DEF Pending
<1>8. \A i \in 1..(Window - 1) : Pending'[i] = Pending[i + 1]
  <2>1. \A i \in 1..(Window - 1) : Wrap(CPos' + i - 1) = Wrap(CPos + (i + 1) - 1)
    BY <1>1, <1>2 DEF Wrap
  <2>2. \A i \in 1..(Window - 1) : Pending[i + 1] = slots[Wrap(CPos + (i + 1) - 1)]
    BY <1>1 DEF Pending
  <2> QED
    BY <1>3, <1>4, <2>1, <2>2 DEF Pending
<1>9. Pending' = Tail(Pending)
  <2>1. /\ Tail(Pending) \in Seq(Content) /\ Len(Tail(Pending)) = Window - 1
        /\ \A i \in 1..(Window - 1) : Tail(Pending)[i] = Pending[i + 1]
    BY <1>5, <1>6, HeadTailProperties
  <2> QED
    BY <1>7, <1>8, <2>1, SeqEqual
<1> QED
  BY <1>4, <1>6, <1>9 DEF Channel!Get

(* Every other step is a stutter of the channel.                           *)
LEMMA QuietStep ==
    ASSUME IInv, IInv', ~lapped, ~lapped', Next, ~FetchAdd, ~DrainForward
    PROVE  UNCHANGED Channel!vars
<1> USE DEF IInv
<1>1. received' = received /\ lapped' = lapped
  BY Zenon DEF Next, Producer, Consumer, SendBegin, WriteType, WriteRest, FetchAnd,
     DrainBegin, LoadTail, DrainApply, DrainEnd
<1>2. CASE WriteType \/ WriteRest
  <2>1. UNCHANGED <<head, tail, cvars>> /\ Window' = Window /\ CPos' = CPos
    BY <1>2 DEF WriteType, WriteRest, cvars, Window, CPos
  <2>2. \A i \in Index : i < Window => pslot # Wrap(CPos + i)
    BY <1>2, Apart DEF WriteType, WriteRest
  <2>3. \A i \in Index : i < Window => slots'[Wrap(CPos + i)] = slots[Wrap(CPos + i)]
    <3>1. \A i \in Index : Wrap(CPos + i) \in Index
      BY SizeAssumption DEF TypeOK, Wrap, CPos, Index
    <3> QED
      BY <1>2, <2>2, <3>1 DEF WriteType, WriteRest, TypeOK
  <2>4. Pending' = Pending
    BY <2>1, <2>3, SamePending
  <2> QED
    BY <1>1, <2>4 DEF Channel!vars
<1>3. CASE FetchAnd
  <2>1. Mask(head') = Mask(head)
    BY <1>3, MaskOf, SizeAssumption DEF FetchAnd, TypeOK
  <2> QED
    BY <1>1, <1>3, <2>1 DEF FetchAnd, cvars, Pending, Window, CPos, Channel!vars
<1>4. CASE \E e \in Event : SendBegin(e)
  BY <1>1, <1>4 DEF SendBegin, cvars, Pending, Window, CPos, Channel!vars
<1>5. CASE DrainBegin \/ LoadTail \/ DrainApply \/ DrainEnd
  <2>1. UNCHANGED <<head, slots, Window, CPos>>
    BY <1>5 DEF DrainBegin, LoadTail, DrainApply, DrainEnd, Window, CPos
  <2> QED
    BY <1>1, <2>1 DEF Pending, Channel!vars
<1> QED
  BY <1>2, <1>3, <1>4, <1>5 DEF Next, Producer, Consumer

(* Each behaviour of the ring is, through Pending, one of the channel.     *)
THEOREM RingImplementsChannel == Spec => ImplementsChannel
<1>1. Init => Channel!Init
  <2> SUFFICES ASSUME Init PROVE Channel!Init
    OBVIOUS
  <2>1. Window = 0
    BY MaskOf, SizeAssumption DEF Init, Window, CPos, Unread
  <2>2. Pending = <<>>
    BY <2>1 DEF Pending
  <2> QED
    BY <2>2 DEF Init, Channel!Init
<1>2. IInv /\ IInv' /\ [Next]_vars => [Channel!Next]_(Channel!vars)
  <2> SUFFICES ASSUME IInv, IInv', [Next]_vars
               PROVE  [Channel!Next]_(Channel!vars)
    OBVIOUS
  <2>1. CASE UNCHANGED vars
    BY <2>1 DEF vars, cvars, Pending, Window, CPos, Channel!vars
  <2>2. CASE Next /\ lapped
    <3>1. lapped'
      BY <2>2, Zenon DEF Next, Producer, Consumer, SendBegin, WriteType, WriteRest,
         FetchAdd, FetchAnd, DrainBegin, LoadTail, DrainApply, DrainForward, DrainEnd
    <3> QED
      BY <2>2, <3>1 DEF Channel!Next, Channel!Anything
  <2>3. CASE Next /\ ~lapped /\ lapped'
    <3>1. FetchAdd
      BY <2>3, Zenon DEF Next, Producer, Consumer, SendBegin, WriteType, WriteRest,
         FetchAnd, DrainBegin, LoadTail, DrainApply, DrainForward, DrainEnd
    <3> QED
      BY <2>3, <3>1, OverflowStep DEF Channel!Next
  <2>4. CASE Next /\ ~lapped /\ ~lapped'
    <3>1. CASE FetchAdd
      <4>1. pevent \in Event
        BY <3>1 DEF FetchAdd, IInv, TypeOK
      <4> QED
        BY <2>4, <3>1, <4>1, PutStep DEF Channel!Next
    <3>2. CASE DrainForward
      BY <2>4, <3>2, GetStep DEF Channel!Next
    <3>3. CASE ~FetchAdd /\ ~DrainForward
      BY <2>4, <3>3, QuietStep
    <3> QED
      BY <3>1, <3>2, <3>3
  <2> QED
    BY <2>1, <2>2, <2>3, <2>4
<1> QED
  BY <1>1, <1>2, InductiveInvariant, PTL DEF Spec, ImplementsChannel, Channel!Spec
=============================================================================
