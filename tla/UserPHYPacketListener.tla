------------------------ MODULE UserPHYPacketListener ------------------------
(***************************************************************************)
(* IOFWUserPHYPacketListener and the library's PHYPacketListener: PHY      *)
(* packets of the bus go to the client one at a time; while it works on    *)
(* one, the others wait in a list of at most fMaxQueueCount elements, the  *)
(* last of which is kept for a count of the packets that found no room.    *)
(* fLock makes processPHYPacket and clientCommandIsComplete one action     *)
(* each; the library turns notification on and off in three calls.         *)
(***************************************************************************)
EXTENDS Integers, Sequences, SequencesExt

CONSTANTS
    queue_count,    \* as the client asks for it
    MaxPHYPackets,  \* bound: packets that arrive
    MaxSwitches,    \* bound: calls that turn notification on or off
    PHYRaces        \* what the client and the bus may do, see below

(* "dark": packets come while the callbacks are only partly set;           *)
(* "offEarly": the client turns notification off with packets waiting.     *)
PHYAssumption ==
    /\ queue_count \in Nat
    /\ MaxPHYPackets \in Nat
    /\ MaxSwitches \in Nat
    /\ PHYRaces \subseteq {"dark", "offEarly"}
ASSUME PHYAssumption

VARIABLES
    element,        \* what each element holds: a packet, or how many were
                    \* skipped; [type, first, count] of the packets it is about
    pool,           \* fFreeList and fAllocatedQueueCount
    fPendingList,
    fElementWaitingCompletion,
    callbacks,      \* the async references that are set
    active,         \* the controller has the listener in its set
    mNotifyIsOn,    \* the library's side of it, and how far a switch has got
    arrived,        \* history: packets given to the listener
    reported,       \* history: packets the client was told of
    switched        \* calls made to turn notification on or off

phyVars == <<element, pool, fPendingList, fElementWaitingCompletion,
             callbacks, active, mNotifyIsOn, arrived, reported, switched>>

fMaxQueueCount == IF queue_count < 2 THEN 2 ELSE queue_count
Elements == 1..fMaxQueueCount
NoElement == 0
AllCallbacks == {"packet", "skipped"}
AsyncRefOf(e) == IF e.type = "data" THEN "packet" ELSE "skipped"
LastOf(e) == e.first + e.count - 1
-----------------------------------------------------------------------------
(* The pool of elements, made on demand.                                   *)

Grown(p, limit) ==
    IF p.free = <<>> /\ p.allocated < limit
    THEN [free |-> <<p.allocated + 1>>, allocated |-> p.allocated + 1]
    ELSE p

Taken(p) == [p EXCEPT !.free = Tail(@)]

PutBack(p, e) == [p EXCEPT !.free = Append(@, e)]

(* allocateDataElement: whatever it makes stays in the pool, but the last  *)
(* element is not given to a packet.                                       *)
GrownForData == Grown(pool, fMaxQueueCount - 1)

HasDataElement ==
    /\ GrownForData.free # <<>>
    /\ Len(GrownForData.free) > 1 \/ GrownForData.allocated < fMaxQueueCount - 1

(* allocateElement, after allocateDataElement has refused.                 *)
GrownForSkipped == Grown(GrownForData, fMaxQueueCount)

-----------------------------------------------------------------------------
(* sendPacketNotification: the client works on e from now on, though it    *)
(* hears of it only if the callback is set.                                *)
sendPHYPacketNotification(elements, e) ==
    /\ fElementWaitingCompletion' = e
    /\ reported' = IF AsyncRefOf(elements[e]) \in callbacks
                   THEN LastOf(elements[e]) ELSE reported

Hold(e, type) ==
    [element EXCEPT ![e] = [type |-> type, first |-> arrived + 1, count |-> 1]]

QueueData ==
    LET e == Head(GrownForData.free)
    IN  /\ HasDataElement
        /\ pool' = Taken(GrownForData)
        /\ element' = Hold(e, "data")
        /\ IF fElementWaitingCompletion = NoElement
           THEN /\ sendPHYPacketNotification(element', e)
                /\ UNCHANGED fPendingList
           ELSE /\ fPendingList' = Append(fPendingList, e)
                /\ UNCHANGED <<fElementWaitingCompletion, reported>>

TailIsSkipped ==
    /\ fPendingList # <<>>
    /\ element[Last(fPendingList)].type = "skipped"

CountSkipped ==
    /\ ~HasDataElement
    /\ TailIsSkipped
    /\ element' = [element EXCEPT ![Last(fPendingList)].count = @ + 1]
    /\ pool' = GrownForData
    /\ UNCHANGED <<fPendingList, fElementWaitingCompletion, reported>>

(* The element goes to the list even when the client is not working on     *)
(* anything, and it is dropped without a word if there is none.            *)
QueueSkipped ==
    LET e == Head(GrownForSkipped.free)
    IN  /\ ~HasDataElement
        /\ ~TailIsSkipped
        /\ IF GrownForSkipped.free # <<>>
           THEN /\ element' = Hold(e, "skipped")
                /\ pool' = Taken(GrownForSkipped)
                /\ fPendingList' = Append(fPendingList, e)
           ELSE UNCHANGED <<element, pool, fPendingList>>
        /\ UNCHANGED <<fElementWaitingCompletion, reported>>

processPHYPacket ==
    /\ active
    /\ "dark" \in PHYRaces \/ callbacks = AllCallbacks
    /\ arrived < MaxPHYPackets
    /\ arrived' = arrived + 1
    /\ QueueData \/ CountSkipped \/ QueueSkipped
    /\ UNCHANGED <<callbacks, active, mNotifyIsOn, switched>>

CompleteOnly ==                                                  \* mutant
    /\ fElementWaitingCompletion # NoElement
    /\ reported >= LastOf(element[fElementWaitingCompletion])
    /\ pool' = PutBack(pool, fElementWaitingCompletion)
    /\ fElementWaitingCompletion' = NoElement
    /\ UNCHANGED <<element, fPendingList, reported, callbacks, active,
                   mNotifyIsOn, arrived, switched>>

(* clientCommandIsComplete: the client acknowledges what it was told of.   *)
PHYCommandIsComplete ==
    /\ fElementWaitingCompletion # NoElement
    /\ reported >= LastOf(element[fElementWaitingCompletion])
    /\ pool' = PutBack(pool, fElementWaitingCompletion)
    /\ IF fPendingList = <<>>
       THEN /\ fElementWaitingCompletion' = NoElement
            /\ UNCHANGED <<fPendingList, reported>>
       ELSE /\ sendPHYPacketNotification(element, Head(fPendingList))
            /\ fPendingList' = Tail(fPendingList)
    /\ UNCHANGED <<element, callbacks, active, mNotifyIsOn, arrived, switched>>

-----------------------------------------------------------------------------
(* The library, whose calls of one listener come one after another.        *)

Switch(from, to) ==
    /\ mNotifyIsOn = from
    /\ mNotifyIsOn' = to
    /\ UNCHANGED <<element, pool, fPendingList, fElementWaitingCompletion,
                   arrived, reported>>

TurnOnNotification ==
    /\ switched < MaxSwitches
    /\ switched' = switched + 1
    /\ Switch("off", "packetOn")
    /\ callbacks' = callbacks \cup {"packet"}
    /\ UNCHANGED active

TurnOffNotification ==
    /\ switched < MaxSwitches
    /\ "offEarly" \in PHYRaces \/ fPendingList = <<>>
    /\ switched' = switched + 1
    /\ Switch("on", "packetOff")
    /\ callbacks' = callbacks \ {"packet"}
    /\ UNCHANGED active

setSkippedCallback ==
    \/ /\ Switch("packetOn", "allOn")
       /\ callbacks' = callbacks \cup {"skipped"}
       /\ UNCHANGED <<active, switched>>
    \/ /\ Switch("packetOff", "allOff")
       /\ callbacks' = callbacks \ {"skipped"}
       /\ UNCHANGED <<active, switched>>

activatePHYPacketListener ==
    /\ Switch("allOn", "on")
    /\ active' = TRUE
    /\ UNCHANGED <<callbacks, switched>>

deactivatePHYPacketListener ==
    /\ Switch("allOff", "off")
    /\ active' = FALSE
    /\ UNCHANGED <<callbacks, switched>>

(* exporterCleanup and free: destroyAllElements returns the waiting        *)
(* elements to the pool and deletes the pool, but not the one the client   *)
(* works on.                                                               *)
PHYExporterCleanup ==
    /\ mNotifyIsOn \in {"off", "on"}
    /\ mNotifyIsOn' = "gone"
    /\ active' = FALSE
    /\ fPendingList' = <<>>
    /\ pool' = [free |-> <<>>,
                allocated |-> IF fElementWaitingCompletion = NoElement
                              THEN 0 ELSE 1]
    /\ fElementWaitingCompletion' = NoElement
    /\ UNCHANGED <<element, callbacks, arrived, reported, switched>>

PHYInit ==
    /\ element = [e \in Elements |->
                     [type |-> "none", first |-> 1, count |-> 0]]
    /\ pool = [free |-> <<>>, allocated |-> 0]
    /\ fPendingList = <<>>
    /\ fElementWaitingCompletion = NoElement
    /\ callbacks = {}
    /\ active = FALSE
    /\ mNotifyIsOn = "off"
    /\ arrived = 0
    /\ reported = 0
    /\ switched = 0

PHYNext == \/ processPHYPacket
           \/ PHYCommandIsComplete
           \/ TurnOnNotification
           \/ TurnOffNotification
           \/ setSkippedCallback
           \/ activatePHYPacketListener
           \/ deactivatePHYPacketListener
           \/ PHYExporterCleanup

PHYSpec == PHYInit /\ [][PHYNext]_phyVars /\ WF_phyVars(PHYCommandIsComplete)
-----------------------------------------------------------------------------
(* Properties.                                                             *)

(* The type invariant.                                                     *)
PHYTypeOK ==
    /\ element \in [Elements -> [type : {"none", "data", "skipped"},
                                 first : 1..MaxPHYPackets + 1,
                                 count : 0..MaxPHYPackets]]
    /\ pool.free \in Seq(Elements)
    /\ pool.allocated \in 0..fMaxQueueCount
    /\ fPendingList \in Seq(Elements)
    /\ fElementWaitingCompletion \in Elements \cup {NoElement}
    /\ callbacks \subseteq AllCallbacks
    /\ active \in BOOLEAN
    /\ arrived \in 0..MaxPHYPackets
    /\ reported \in 0..MaxPHYPackets
    /\ switched \in 0..MaxSwitches

InUse == (IF fElementWaitingCompletion = NoElement THEN <<>>
          ELSE <<fElementWaitingCompletion>>) \o fPendingList

EachInItsPlace ==
    /\ \A i \in DOMAIN fPendingList :
           element[fPendingList[i]].first =
               1 + IF i = 1 THEN reported ELSE LastOf(element[fPendingList[i - 1]])
    /\ arrived = IF fPendingList = <<>> THEN reported
                 ELSE LastOf(element[Last(fPendingList)])
    /\ IsInjective(pool.free \o InUse)
    /\ ToSet(pool.free \o InUse) = 1..pool.allocated

(* The packets that the client has not heard of are exactly those of the   *)
(* waiting elements, in the order in which they came: none is lost, told   *)
(* twice or out of order, whether it is queued or only counted; and every  *)
(* element is in one list.                                                 *)
NothingUncounted == PHYTypeOK /\ (mNotifyIsOn # "gone" => EachInItsPlace)

(* "if we're skipping, but user space isn't working on anything then we're *)
(* in trouble" (IOFWUserPHYPacketListener.cpp:219): what waits, waits for  *)
(* an acknowledgement of the client.                                       *)
ClientIsWorking == fPendingList # <<>> => fElementWaitingCompletion # NoElement

(* The client hears of every packet in the end, by itself or in a count.   *)
EveryPHYPacketIsTold ==
    \A n \in 1..MaxPHYPackets :
        arrived >= n ~> reported >= n \/ mNotifyIsOn = "gone"
=============================================================================
