----------------------------- MODULE EventQueue -----------------------------
(***************************************************************************)
(* The "single reader writer queue" of MyPlugin, one step per memory       *)
(* access: the main thread is the producer (sendParamEventFromMain), the   *)
(* audio thread the consumer (the drain at the top of cplug_process).  The *)
(* opposite ring is the same code with the roles exchanged                 *)
(* (cplug_setParameterValue, tickGUI).                                     *)
(*                                                                         *)
(* The producer never looks at the tail: nothing stops it from overtaking  *)
(* the consumer by a whole lap.                                            *)
(***************************************************************************)
EXTENDS Ring, Sequences

CONSTANTS
    Event,      \* events the main thread sends
    Blank,      \* content of a slot never written (calloc)
    Torn,       \* content of a slot whose fields are half written
    MaxSent     \* bound: sends of one behaviour

VARIABLES
    head, tail, slots,      \* mainToAudioHead, mainToAudioTail, mainToAudioQueue
    ppc, pslot, pevent,     \* producer: where it is, slot taken, event to send
    cpc, chead, ctail, cevent,  \* consumer: where it is, its locals, event applied
    sent, received,         \* history: events published, events passed to the host
    lapped                  \* history: some send left Size or more unread events

pvars == <<ppc, pslot, pevent>>
cvars == <<cpc, chead, ctail, cevent>>
vars  == <<head, tail, slots, pvars, cvars, sent, received, lapped>>

Content == Event \cup {Blank, Torn}

Init ==
    /\ head = 0 /\ tail = 0
    /\ slots = [i \in Index |-> Blank]
    /\ ppc = "idle" /\ pslot = 0 /\ pevent = Blank
    /\ cpc = "idle" /\ chead = 0 /\ ctail = 0 /\ cevent = Blank
    /\ sent = <<>> /\ received = <<>> /\ lapped = FALSE

-----------------------------------------------------------------------------
(* Producer *)

(* Mutant: the slot before the head. *)
SendBeginOneBack(e) ==
    /\ ppc = "idle"
    /\ Len(sent) < MaxSent
    /\ ppc' = "write" /\ pslot' = Mask(head + Size - 1) /\ pevent' = e
    /\ UNCHANGED <<head, tail, slots, cvars, sent, received, lapped>>

(* load head, mask it, take the address of the slot *)
SendBegin(e) ==
    /\ ppc = "idle"
    /\ Len(sent) < MaxSent
    /\ ppc' = "write" /\ pslot' = Mask(head) /\ pevent' = e
    /\ UNCHANGED <<head, tail, slots, cvars, sent, received, lapped>>

(* Mutant: published before the other fields are stored. *)
WriteTypeOnly ==
    /\ ppc = "write"
    /\ ppc' = "add" /\ slots' = [slots EXCEPT ![pslot] = Torn]
    /\ UNCHANGED <<head, tail, pslot, pevent, cvars, sent, received, lapped>>

(* the first field stores: the slot holds parts of two events *)
WriteType ==
    /\ ppc = "write"
    /\ ppc' = "rest" /\ slots' = [slots EXCEPT ![pslot] = Torn]
    /\ UNCHANGED <<head, tail, pslot, pevent, cvars, sent, received, lapped>>

(* the last field store completes the event *)
WriteRest ==
    /\ ppc = "rest"
    /\ ppc' = "add" /\ slots' = [slots EXCEPT ![pslot] = pevent]
    /\ UNCHANGED <<head, tail, pslot, pevent, cvars, sent, received, lapped>>

(* fetch_add publishes the slot; head may be Size until FetchAnd *)
FetchAdd ==
    /\ ppc = "add"
    /\ ppc' = "mask" /\ head' = head + 1
    /\ sent' = Append(sent, pevent)
    /\ lapped' = (lapped \/ Len(sent) + 1 - Len(received) >= Size)
    /\ UNCHANGED <<tail, slots, pslot, pevent, cvars, received>>

FetchAnd ==
    /\ ppc = "mask"
    /\ ppc' = "idle" /\ head' = Mask(head)
    /\ UNCHANGED <<tail, slots, pslot, pevent, cvars, sent, received, lapped>>

-----------------------------------------------------------------------------
(* Consumer *)

DrainBegin ==
    /\ cpc = "idle"
    /\ cpc' = "tail" /\ chead' = Mask(head)
    /\ UNCHANGED <<head, tail, slots, pvars, ctail, cevent, sent, received, lapped>>

(* Mutant: the head loaded in place of the tail. *)
LoadTailFromHead ==
    /\ cpc = "tail"
    /\ cpc' = "apply" /\ ctail' = chead
    /\ UNCHANGED <<head, tail, slots, pvars, chead, cevent, sent, received, lapped>>

LoadTail ==
    /\ cpc = "tail"
    /\ cpc' = "apply" /\ ctail' = tail
    /\ UNCHANGED <<head, tail, slots, pvars, chead, cevent, sent, received, lapped>>

(* Mutant: the tail is advanced before the event is passed on. *)
DrainApplyAdvances ==
    /\ cpc = "apply" /\ ctail # chead
    /\ cpc' = "forward" /\ cevent' = slots[ctail] /\ ctail' = Mask(ctail + 1)
    /\ UNCHANGED <<head, tail, slots, pvars, chead, sent, received, lapped>>

(* the audio thread reads the slot and applies an UPDATE to its own values *)
DrainApply ==
    /\ cpc = "apply" /\ ctail # chead
    /\ cpc' = "forward" /\ cevent' = slots[ctail]
    /\ UNCHANGED <<head, tail, slots, pvars, chead, ctail, sent, received, lapped>>

(* enqueueEvent is given a pointer into the ring: the slot is read again *)
DrainForward ==
    /\ cpc = "forward"
    /\ cpc' = "apply"
    /\ received' = Append(received, slots[ctail])
    /\ ctail' = Mask(ctail + 1)
    /\ UNCHANGED <<head, tail, slots, pvars, chead, cevent, sent, lapped>>

(* Mutant: the tail is set to the head of now, not to where the drain got. *)
DrainEndAtHead ==
    /\ cpc = "apply" /\ ctail = chead
    /\ cpc' = "idle" /\ tail' = Mask(head)
    /\ UNCHANGED <<head, slots, pvars, chead, ctail, cevent, sent, received, lapped>>

DrainEnd ==
    /\ cpc = "apply" /\ ctail = chead
    /\ cpc' = "idle" /\ tail' = ctail
    /\ UNCHANGED <<head, slots, pvars, chead, ctail, cevent, sent, received, lapped>>

-----------------------------------------------------------------------------
Producer == (\E e \in Event : SendBegin(e)) \/ WriteType \/ WriteRest
                \/ FetchAdd \/ FetchAnd
Consumer == DrainBegin \/ LoadTail \/ DrainApply \/ DrainForward \/ DrainEnd

Next == Producer \/ Consumer

Spec == Init /\ [][Next]_vars

(* The host keeps calling cplug_process and a call runs to its end; the    *)
(* main thread may stop anywhere, even between fetch_add and fetch_and.    *)
FairSpec == Spec /\ WF_vars(Consumer)

-----------------------------------------------------------------------------
(* Where the consumer really is: its local tail while it drains, the       *)
(* published tail otherwise.                                               *)
CPos == IF cpc \in {"apply", "forward"} THEN ctail ELSE tail

Window == Unread(CPos, Mask(head))

(* TypeOK: every index the code computes stays in the ring, except that    *)
(* head may equal Size between fetch_add and fetch_and.                    *)
TypeOK ==
    /\ head \in 0..Size /\ tail \in Index
    /\ slots \in [Index -> Content]
    /\ ppc \in {"idle", "write", "rest", "add", "mask"}
    /\ pslot \in Index /\ pevent \in Event \cup {Blank}
    /\ ppc \in {"write", "rest", "add"} => pevent \in Event
    /\ cpc \in {"idle", "tail", "apply", "forward"}
    /\ chead \in Index /\ ctail \in Index /\ cevent \in Content
    /\ sent \in Seq(Event) /\ received \in Seq(Content)
    /\ lapped \in BOOLEAN
    /\ head = Size => ppc = "mask"

(* Fifo: as long as no send found Size - 1 events unread, the host is      *)
(* given the events of the main thread in order, none lost, none twice and *)
(* none half written.                                                      *)
Fifo ==
    ~lapped =>
        /\ Len(received) <= Len(sent)
        /\ \A i \in 1..Len(received) : received[i] = sent[i]

(* SameEventToHost: the event applied to paramValuesAudio and the one the  *)
(* host reads through the pointer are the same, though the slot is read    *)
(* twice and the producer runs in between.                                 *)
SameEventToHost == (~lapped /\ cpc = "forward") => slots[ctail] = cevent

(* SlotExclusive: while it fills a slot the producer is outside the        *)
(* consumer's unread slots and away from the slot the consumer holds.      *)
SlotExclusive ==
    (~lapped /\ ppc \in {"write", "rest", "add"}) =>
        /\ \A i \in Index : i < Window => pslot # Wrap(CPos + i)
        /\ cpc = "forward" => pslot # ctail

(* LapLosesWholeRings: overtaken or not, the reader is off by whole rings  *)
(* only: exactly Size unread events look like none.                        *)
LapLosesWholeRings ==
    /\ Len(received) <= Len(sent)
    /\ Window = (Len(sent) - Len(received)) % Size

(* EventuallyReceived: with a consumer that keeps draining every published *)
(* event reaches the host, unless the producer got a lap ahead.            *)
EventuallyReceived ==
    \A n \in 1..MaxSent :
        (Len(sent) >= n) ~> (lapped \/ Len(received) >= n)

(* EverySendNotifiesHost: "Send update to queue so we notify host" (the    *)
(* comment in cplug_loadState), with no condition on how many events wait. *)
EverySendNotifiesHost ==
    \A n \in 1..MaxSent : (Len(sent) >= n) ~> (Len(received) >= n)

(* The inductive strengthening.  Unless overtaken, the unread slots hold   *)
(* the published and not yet received events in order, and the head the    *)
(* consumer has snapshotted is not ahead of the real one.                  *)
ProducerInv ==
    /\ ppc \in {"write", "rest", "add"} => pslot = head
    /\ ppc = "add" => slots[pslot] = pevent

PositionInv ==
    /\ Len(sent) = Len(received) + Window
    /\ cpc # "idle" => Unread(CPos, chead) <= Window
    /\ cpc = "forward" => ctail # chead /\ slots[ctail] = cevent

ContentInv ==
    /\ \A i \in Index : i < Window => slots[Wrap(CPos + i)] = sent[Len(received) + i + 1]
    /\ \A i \in 1..Len(received) : received[i] = sent[i]

(* Overtaken or not, a drain passes on no more than was sent.              *)
LapInv ==
    /\ LapLosesWholeRings
    /\ cpc # "idle" => Unread(CPos, chead) <= Len(sent) - Len(received)
    /\ cpc = "forward" => ctail # chead

IInv == TypeOK /\ ProducerInv /\ LapInv /\ (~lapped => PositionInv /\ ContentInv)

(* The ring is a FIFO channel of capacity Size - 1. *)
Pending == [i \in 1..Window |-> slots[Wrap(CPos + i - 1)]]

Channel ==
    INSTANCE EventChannel WITH
        Capacity  <- Size - 1,
        fifo      <- Pending,
        delivered <- received,
        void      <- lapped

(* ImplementsChannel: every step of the ring is a Put, a Get, the Overflow *)
(* or a stutter of EventChannel.                                           *)
ImplementsChannel == Channel!Spec
=============================================================================
