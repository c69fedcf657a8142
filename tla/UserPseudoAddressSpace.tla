----------------------- MODULE UserPseudoAddressSpace -----------------------
(***************************************************************************)
(* IOFWUserPseudoAddressSpace: packets from the bus are stored in a ring   *)
(* buffer and described by packet headers in a circular list; the client   *)
(* is told of one at a time and acknowledges it with                       *)
(* clientCommandIsComplete.  fLock makes each call one action.             *)
(***************************************************************************)
EXTENDS Integers, Sequences, FiniteSets

CONSTANTS
    fBufferSize,
    ByteCounts,     \* how many values an IOByteCount has
    Headers,        \* bound: packet headers that can be allocated
    NoHeader,
    Sizes,          \* sizes of the packets that arrive
    EarlyPackets,   \* packets may arrive while notification is not all on
    MaxSwitches     \* bound: calls of setAsyncRef

BufferAssumption == /\ fBufferSize \in Nat \ {0}
                    /\ ByteCounts \in Nat
                    /\ ByteCounts > 2 * fBufferSize
ASSUME BufferAssumption

DataTypes == {"kIncomingPacket", "kLockPacket"}
PacketTypes == DataTypes \cup {"kReadPacket", "kSkippedPacket"}
Packets == [type : PacketTypes, size : 0..fBufferSize]

HeadersAssumption ==
    /\ NoHeader \notin Headers \cup Packets
    /\ Headers # {}
    /\ Sizes \subseteq 1..fBufferSize
    /\ EarlyPackets \in BOOLEAN
    /\ MaxSwitches \in Nat
ASSUME HeadersAssumption

VARIABLES
    hdr,                 \* the packet headers
    next,                \* their links
    fLastWrittenHeader,
    fLastReadHeader,     \* NoHeader once the address space is deactivated
    fPacketQueue,
    refs,                \* the notifications that are turned on
    told,                \* the header the client was told of and has not
                         \* acknowledged (fWaitingForUserCompletion)
    untold,              \* history: headers queued and not told of yet
    switches             \* calls of setAsyncRef left

listVars == <<hdr, next, fLastWrittenHeader, fLastReadHeader, fPacketQueue>>
pseudoVars == <<listVars, refs, told, untold, switches>>

HeaderRecords == [type : PacketTypes \cup {"kFree", "none"},
                  size : 0..fBufferSize, offset : 0..fBufferSize]

Empty(type) == [type |-> type, size |-> 0, offset |-> 0]
IsFree(h) == hdr[h].type = "kFree"
Allocated == {h \in Headers : hdr[h].type # "none"}
active == fLastReadHeader # NoHeader

AllRefs == {"packet", "skipped", "read"}

(* whichAsyncRef of a header.                                              *)
AsyncRef(type) == CASE type \in DataTypes -> "packet"
                    [] type = "kSkippedPacket" -> "skipped"
                    [] OTHER -> "read"

-----------------------------------------------------------------------------
(* IOFWRingBufferQ: a queue of entries, each stored contiguously in a ring *)
(* of fBufferSize bytes.  An entry that does not fit between the end of    *)
(* the queue and the end of the buffer goes to the start of the buffer,    *)
(* and the bytes left out count as padding.  The queue is a record         *)
(* [front, length]; the bytes themselves are left out.                     *)

EmptyQueue == [front |-> 0, length |-> 0]

(* Subtraction of IOByteCounts, which are unsigned.                        *)
Minus(a, b) == (a - b) % ByteCounts

EndOffset(q) == (q.front + q.length) % fBufferSize

-----------------------------------------------------------------------------
(* willFitAtEnd( size ): whether an entry has to go to the start of the    *)
(* buffer, the padding that costs, its offset, and whether it fits.        *)

GoesToStart(q, size) ==
    /\ q.length < fBufferSize
    /\ EndOffset(q) >= q.front
    /\ size > fBufferSize - EndOffset(q)

InsertPadding(q, size) ==
    IF GoesToStart(q, size) THEN fBufferSize - EndOffset(q) ELSE 0

InsertOffset(q, size) == IF GoesToStart(q, size) THEN 0 ELSE EndOffset(q)

FitsInAll(q, size) == size <= fBufferSize - q.length             \* mutant

Fits(q, size) ==
    /\ q.length < fBufferSize
    /\ GoesToStart(q, size) => size <= q.front
    /\ EndOffset(q) < q.front => size <= fBufferSize - q.length

Enqueued(q, size) ==
    [q EXCEPT !.length = @ + size + InsertPadding(q, size)]

-----------------------------------------------------------------------------
(* frontEntryOffset( size ): where the first entry is, if it has this size.*)

FrontIsAtStart(q, size) ==
    /\ q.length > 0
    /\ q.front >= EndOffset(q)
    /\ size > Minus(fBufferSize, q.front)

FrontPadding(q, size) ==
    IF FrontIsAtStart(q, size) THEN Minus(fBufferSize, q.front) ELSE 0

FrontEntryOffset(q, size) == IF FrontIsAtStart(q, size) THEN 0 ELSE q.front

(* dequeueBytes( size ): the front may come to be fBufferSize.             *)
Dequeued(q, size) ==
    [front |-> FrontEntryOffset(q, size) + size,
     length |-> Minus(q.length, FrontPadding(q, size) + size)]

-----------------------------------------------------------------------------
(* The headers that wait for their turn but h.                             *)
Without(waiting, h) ==
    IF \E i \in DOMAIN waiting : waiting[i] = h
    THEN LET i == CHOOSE i \in DOMAIN waiting : waiting[i] = h
         IN  SubSeq(waiting, 1, i - 1) \o SubSeq(waiting, i + 1, Len(waiting))
    ELSE waiting

(* sendPacketNotification for h, when the client works on busy.            *)
sendPacketNotification(headers, h, busy, waiting) ==
    IF busy = NoHeader /\ AsyncRef(headers[h].type) \in refs
    THEN told' = h /\ untold' = Without(waiting, h)
    ELSE told' = busy /\ untold' = waiting

NeedsNew == /\ ~IsFree(fLastWrittenHeader)
            /\ ~IsFree(next[fLastWrittenHeader])

NewHeader == CHOOSE h \in Headers : h \notin Allocated

NextHeader == IF NeedsNew THEN NewHeader ELSE next[fLastWrittenHeader]

Links == IF NeedsNew
         THEN [next EXCEPT ![NewHeader] = next[fLastWrittenHeader],
                           ![fLastWrittenHeader] = NewHeader]
         ELSE next

(* The header h, filled in, becomes the last written.                      *)
Write(h, links, header, queue) ==
    LET headers == [hdr EXCEPT ![h] = header]
    IN  /\ hdr' = headers
        /\ next' = links
        /\ fLastWrittenHeader' = h
        /\ fPacketQueue' = queue
        /\ sendPacketNotification(headers, h, told, Append(untold, h))

(* A packet that does not fit: the last header, if it is one of skipped    *)
(* packets, counts one more; else a free last header or the next is used.  *)
SkipPacket ==
    CASE hdr[fLastWrittenHeader].type = "kSkippedPacket" ->
            /\ sendPacketNotification(hdr, fLastWrittenHeader, told, untold)
            /\ UNCHANGED <<hdr, next, fLastWrittenHeader, fPacketQueue>>
      [] IsFree(fLastWrittenHeader) ->
            Write(fLastWrittenHeader, next, Empty("kSkippedPacket"),
                  fPacketQueue)
      [] OTHER ->
            Write(NextHeader, Links, Empty("kSkippedPacket"), fPacketQueue)

QueueAtLast(tag, size) ==                                        \* mutant
    Write(fLastWrittenHeader, next,
          [type |-> tag, size |-> size,
           offset |-> InsertOffset(fPacketQueue, size)],
          Enqueued(fPacketQueue, size))

QueuePacket(tag, size) ==
    IF tag = "kReadPacket"
    THEN Write(NextHeader, Links, Empty(tag), fPacketQueue)
    ELSE Write(NextHeader, Links,
               [type |-> tag, size |-> size,
                offset |-> InsertOffset(fPacketQueue, size)],
               Enqueued(fPacketQueue, size))

-----------------------------------------------------------------------------
(* completeInit; no notification is on.                                    *)
PseudoInit ==
    LET first == CHOOSE h \in Headers : TRUE
    IN  /\ hdr = [h \in Headers |-> IF h = first THEN Empty("kFree")
                                                 ELSE Empty("none")]
        /\ next = [h \in Headers |-> h]
        /\ fLastWrittenHeader = first
        /\ fLastReadHeader = first
        /\ fPacketQueue = EmptyQueue
        /\ refs = {}
        /\ told = NoHeader
        /\ untold = <<>>
        /\ switches = MaxSwitches

(* pseudoAddrSpaceWriter, pseudoAddrSpaceReader and doLock.                *)
doPacket(tag, size) ==
    /\ active
    /\ EarlyPackets \/ refs = AllRefs
    /\ tag = "kReadPacket" => "read" \in refs
    /\ NeedsNew => Allocated # Headers                            \* bound
    /\ IF tag \in DataTypes /\ ~Fits(fPacketQueue, size)
       THEN SkipPacket
       ELSE QueuePacket(tag, size)
    /\ UNCHANGED <<fLastReadHeader, refs, switches>>

(* The client acknowledges what it was told of.  Whatever that was, the    *)
(* header after the last acknowledged one is taken to be it: its response  *)
(* is sent, its bytes are dequeued, and the next one is told.              *)
clientCommandIsComplete ==
    /\ told # NoHeader
    /\ LET old == fLastReadHeader
           following == next[old]
           headers == [hdr EXCEPT ![old] = Empty("kFree")]
       IN  /\ hdr' = headers
           /\ fLastReadHeader' = following
           /\ fPacketQueue' = IF hdr[old].type \in DataTypes
                              THEN Dequeued(fPacketQueue, hdr[old].size)
                              ELSE fPacketQueue
           /\ IF headers[following].type # "kFree"
              THEN sendPacketNotification(headers, following, NoHeader, untold)
              ELSE told' = NoHeader /\ UNCHANGED untold
    /\ UNCHANGED <<next, fLastWrittenHeader, refs, switches>>

(* The library turns notification on, and off again, one kind at a time.   *)
setAsyncRef ==
    /\ switches > 0
    /\ switches' = switches - 1
    /\ refs' = CASE refs = {} -> {"packet"}
                 [] refs = {"packet"} -> {"packet", "skipped"}
                 [] refs = {"packet", "skipped"} -> AllRefs
                 [] refs = AllRefs -> {"skipped", "read"}
                 [] refs = {"skipped", "read"} -> {"read"}
                 [] OTHER -> {}
    /\ UNCHANGED <<listVars, told, untold>>

(* Every header but the last before fLastWrittenHeader is deleted.         *)
deactivate ==
    /\ active
    /\ LET last == CHOOSE h \in Allocated : next[h] = fLastWrittenHeader
       IN  /\ hdr' = [h \in Headers |->
                         IF h = last THEN hdr[h] ELSE Empty("none")]
           /\ fLastWrittenHeader' = last
    /\ next' = [h \in Headers |-> h]
    /\ fLastReadHeader' = NoHeader
    /\ told' = NoHeader
    /\ untold' = <<>>
    /\ UNCHANGED <<fPacketQueue, refs, switches>>

PseudoNext == \/ \E size \in Sizes : \E tag \in DataTypes : doPacket(tag, size)
        \/ doPacket("kReadPacket", 0)
        \/ clientCommandIsComplete
        \/ setAsyncRef
        \/ deactivate

(* The client's handlers return and acknowledge.                           *)
PseudoSpec == PseudoInit /\ [][PseudoNext]_pseudoVars /\ WF_pseudoVars(clientCommandIsComplete)
-----------------------------------------------------------------------------
(* Properties.                                                             *)

PseudoTypeOK ==
    /\ hdr \in [Headers -> HeaderRecords]
    /\ next \in [Headers -> Headers]
    /\ fLastWrittenHeader \in Allocated
    /\ fLastReadHeader \in Allocated \cup {NoHeader}
    /\ fPacketQueue \in [front : 0..fBufferSize, length : 0..fBufferSize]
    /\ refs \subseteq AllRefs
    /\ told \in Allocated \cup {NoHeader}
    /\ untold \in Seq(Allocated)
    /\ switches \in 0..MaxSwitches

(* A packet's header is freed, and its bytes given up, only when the client *)
(* was told of it: the write handler is "called to handle write requests   *)
(* to a pseudo address space" (IOFireWireLib.h:622).                       *)
PacketsAreTold == \A i \in DOMAIN untold : ~IsFree(untold[i])

(* The headers of packets not acknowledged yet, in the order of arrival,   *)
(* and where in it are packets that the buffer holds.                      *)
Kept == IF told = NoHeader THEN untold ELSE <<told>> \o untold
Stored == {i \in DOMAIN Kept : hdr[Kept[i]].type \in DataTypes}

Bytes(h) == hdr[h].offset .. hdr[h].offset + hdr[h].size - 1

(* No packet is stored over one that the client has not acknowledged, nor  *)
(* outside the buffer.                                                     *)
StoredApart ==
    \A i, j \in Stored :
        /\ Bytes(Kept[i]) \subseteq 0..fBufferSize - 1
        /\ i # j => Bytes(Kept[i]) \cap Bytes(Kept[j]) = {}

(* The queue, which keeps no record of its padding, finds its first entry  *)
(* where the oldest packet was stored, and is empty when there is none.    *)
FrontIsOldest == active =>
    /\ Stored = {} => fPacketQueue.length = 0
    /\ \A i \in Stored : (\A j \in Stored : i <= j) =>
          FrontEntryOffset(fPacketQueue, hdr[Kept[i]].size) = hdr[Kept[i]].offset

(* The list is one circle of all headers, so that each can be reused and   *)
(* deactivate deletes each: no part of it leads only to itself.            *)
OneCircle == active =>
    \A part \in SUBSET Allocated :
        part # {} /\ (\A h \in part : next[h] \in part) => part = Allocated

(* Whatever the order of packets and acknowledgements, a packet that the   *)
(* client does not know of yet keeps its header, its place in the buffer   *)
(* and its turn, and no header is lost to the list.                        *)
QueuedPacketsAreKept ==
    /\ PseudoTypeOK
    /\ PacketsAreTold
    /\ StoredApart
    /\ FrontIsOldest
    /\ OneCircle

Contents(h) == [type |-> hdr[h].type, size |-> hdr[h].size]

ToldPacket == IF told = NoHeader THEN NoHeader ELSE Contents(told)
WaitingPackets == [i \in DOMAIN untold |-> Contents(untold[i])]

Queue == INSTANCE PacketQueue WITH
             None <- NoHeader,
             waiting <- WaitingPackets,
             told <- ToldPacket,
             open <- active

QueueSteps == Queue!Init /\ [][Queue!Next]_(Queue!vars)

(* The list of headers is a queue: each packet is told once and in order,  *)
(* and the client is told of the next when it acknowledges the last, so    *)
(* that each is told in the end.                                           *)
ImplementsPacketQueue == Queue!Spec
=============================================================================
