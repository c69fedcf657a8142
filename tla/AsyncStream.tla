---------------------------- MODULE AsyncStream ----------------------------
(***************************************************************************)
(* Asynchronous streams: one IOFWAsyncStreamReceiver per channel, shared   *)
(* by the IOFWAsyncStreamListeners of that channel, and the packet queue   *)
(* of one listener that a user client has (IOFWUserAsyncStreamListener).   *)
(* The controller's gate makes each call about receivers one action, fLock *)
(* each call about the queue.                                              *)
(***************************************************************************)
EXTENDS Integers, Sequences, SequencesExt, FiniteSetsExt

CONSTANTS
    Channels, Receivers, NoReceiver,
    KernelListeners,    \* those of kernel clients
    User,               \* the one of the user client
    Headers, NoHeader,  \* bound: packet headers
    fBufferSize,        \* bytes of the client's queue
    Sizes,              \* sizes of the packets
    MaxPackets,         \* bound: packets for the user's listener
    StreamRaces         \* see StreamAssumption

Listeners == KernelListeners \cup {User}

(* "overflow": packets come that do not fit; "offEarly": the client turns  *)
(* notification off with packets waiting or coming; "leaveInHandler": a    *)
(* listener is removed by its own handler; "createFails": the user's       *)
(* listener cannot set up its queue.                                       *)
StreamAssumption ==
    /\ NoReceiver \notin Receivers
    /\ User \notin KernelListeners
    /\ NoHeader \notin Headers /\ Headers # {}
    /\ fBufferSize \in Nat \ {0} /\ Sizes \subseteq 1..fBufferSize
    /\ MaxPackets \in Nat
    /\ StreamRaces \subseteq {"overflow", "offEarly", "leaveInHandler",
                         "createFails"}
ASSUME StreamAssumption

VARIABLES
    receiver,           \* channel, place in fLocalAsyncStreamReceivers,
                        \* fAsyncStreamClients, listeners that retain it
    listener,           \* state, fReceiver, fNotify
    missed,             \* history: listeners that missed a packet
    hdr, next, fLastWrittenHeader, fLastReadHeader, fBufferAvailable,
    refs,               \* the callbacks that are set
    told,               \* what the client works on (fWaitingForUserCompletion)
    untold,             \* history: headers in use the client was not told of
    packets             \* packets the queue has been given

receiverVars == <<receiver, listener, missed>>
listVars == <<hdr, next, fLastWrittenHeader, fLastReadHeader, fBufferAvailable>>
queueVars == <<listVars, refs, told, untold, packets>>
streamVars == <<receiverVars, queueVars>>

NoSuchReceiver == [channel |-> 0, inSet |-> FALSE, clients |-> <<>>, held |-> {}]
NoSuchListener == [state |-> "none", receiver |-> NoReceiver, fNotify |-> FALSE]
Live(r) == receiver[r] # NoSuchReceiver

-----------------------------------------------------------------------------
(* Receivers and listeners.                                                *)

Allocatable == {r \in Receivers : ~Live(r)}
OnChannel(ch) == {r \in Receivers : receiver[r].inSet /\ receiver[r].channel = ch}

(* getAsyncStreamReceiver, else allocAsyncStreamReceiver.                  *)
ReceiverFor(ch) == IF OnChannel(ch) # {} THEN OnChannel(ch) ELSE Allocatable

(* initAll of a listener l: added to the receiver's clients and retaining  *)
(* the receiver, with notification off.                                    *)
initAll(l, ch, state) ==
    /\ listener[l].state = "none"
    /\ \E r \in ReceiverFor(ch) :
        /\ receiver' = [receiver EXCEPT ![r] =
                           [channel |-> ch, inSet |-> TRUE,
                            clients |-> Append(@.clients, l),
                            held |-> @.held \cup {l}]]
        /\ listener' = [listener EXCEPT ![l] =
                           [state |-> state, receiver |-> r, fNotify |-> FALSE]]

createAsyncStreamListener ==
    /\ \E l \in KernelListeners, ch \in Channels : initAll(l, ch, "live")
    /\ UNCHANGED <<missed, queueVars>>

(* asyncStreamListener_Create.  When the queue cannot be set up the object *)
(* is released, but the receiver's set of clients still retains it.        *)
asyncStreamListener_Create ==
    /\ \E ch \in Channels :
        \/ initAll(User, ch, "live")
        \/ "createFails" \in StreamRaces /\ initAll(User, ch, "lost")
    /\ UNCHANGED <<missed, queueVars>>

TurnNotification ==
    /\ \E l \in KernelListeners :
        /\ listener[l].state = "live"
        /\ listener' = [listener EXCEPT ![l].fNotify = ~@]
    /\ UNCHANGED <<receiver, missed, queueVars>>

WithoutClient(l) ==
    [receiver EXCEPT ![listener[l].receiver].clients =
        SelectSeq(@, LAMBDA c : c # l)]

removeAsyncStreamListener(l) ==
    /\ receiver' = WithoutClient(l)
    /\ listener' = [listener EXCEPT ![l].state = "removed"]

RemoveListener ==
    /\ \E l \in KernelListeners : /\ listener[l].state = "live"
                                  /\ removeAsyncStreamListener(l)
    /\ UNCHANGED <<missed, queueVars>>

AlwaysRemoved(l) ==                                              \* mutant
    LET r == listener[l].receiver
        left == [receiver[r] EXCEPT !.held = @ \ {l}, !.inSet = FALSE]
    IN  [receiver EXCEPT ![r] = IF left.inSet \/ left.held # {} THEN left
                                ELSE NoSuchReceiver]

(* What free of the listener l leaves: its receiver leaves the             *)
(* controller's set with its last client, and goes with its last holder.   *)
Released(l) ==
    LET r == listener[l].receiver
        left == [receiver[r] EXCEPT !.held = @ \ {l},
                                    !.inSet = @ /\ receiver[r].clients # <<>>]
    IN  [receiver EXCEPT ![r] = IF left.inSet \/ left.held # {} THEN left
                                ELSE NoSuchReceiver]

FreeListener ==
    /\ \E l \in Listeners :
        /\ listener[l].state = "removed"
        /\ receiver' = Released(l)
        /\ listener' = [listener EXCEPT ![l] =
               [NoSuchListener EXCEPT !.state = IF l = User THEN "gone"
                                                ELSE "none"]]
    /\ UNCHANGED <<missed, queueVars>>

-----------------------------------------------------------------------------
(* The user's queue.  args1 and args2 are the words that a header of a     *)
(* packet uses for its size and offset and one of skipped packets for its  *)
(* count; IOFWPacketHeaderGetSize and GetOffset choose by type.            *)

GetSize(h) == IF h.type = "kSkippedPacket" THEN h.headerSize ELSE h.args1
GetOffset(h) == IF h.type = "kSkippedPacket" THEN h.headerOffset ELSE h.args2

NewRecord == [type |-> "kFree", headerSize |-> 0, headerOffset |-> 0,
              args1 |-> 0, args2 |-> 0]
IsFree(h) == hdr[h].type = "kFree"
Allocated == {h \in Headers : hdr[h].type # "none"}
AsyncRef(h) == IF h.type = "kIncomingPacket" THEN "packet" ELSE "skipped"

(* sendPacketNotification; sending fails when the callback is not set.     *)
sendPacketNotification(headers, h, busy, waiting) ==
    IF busy = NoHeader /\ AsyncRef(headers[h]) \in refs
    THEN told' = h /\ untold' = SelectSeq(waiting, LAMBDA w : w # h)
    ELSE told' = busy /\ untold' = waiting

Current == hdr[fLastWrittenHeader]
SpaceAtEnd == fBufferSize - (GetOffset(Current) + GetSize(Current))

FitsAtEnd(len) == len <= fBufferAvailable /\ len <= SpaceAtEnd
FitsAtStart(len) == /\ len <= fBufferAvailable
                    /\ len > SpaceAtEnd
                    /\ len + SpaceAtEnd <= fBufferAvailable
WontFit(len) == ~FitsAtEnd(len) /\ ~FitsAtStart(len)

(* destOffset: 0 for a packet that exceeds what is available at all.       *)
DestOffset(len) ==
    CASE FitsAtEnd(len) -> GetOffset(Current) + GetSize(Current)
      [] WontFit(len) /\ len <= fBufferAvailable -> GetOffset(Current)
      [] OTHER -> 0

NeedsNew == ~IsFree(fLastWrittenHeader) /\ ~IsFree(next[fLastWrittenHeader])
NewHeader == CHOOSE h \in Headers : h \notin Allocated
NextHeader == IF NeedsNew THEN NewHeader ELSE next[fLastWrittenHeader]
Links == IF NeedsNew
         THEN [next EXCEPT ![NewHeader] = next[fLastWrittenHeader],
                           ![fLastWrittenHeader] = NewHeader]
         ELSE next

Write(h, links, record, available) ==
    LET headers == [hdr EXCEPT ![h] = record]
    IN  /\ hdr' = headers
        /\ next' = links
        /\ fLastWrittenHeader' = h
        /\ fBufferAvailable' = available
        /\ sendPacketNotification(headers, h, told, Append(untold, h))

StorePacket(len) ==
    Write(NextHeader, Links,
          [type |-> "kIncomingPacket", headerSize |-> hdr[NextHeader].headerSize,
           headerOffset |-> hdr[NextHeader].headerOffset,
           args1 |-> len, args2 |-> DestOffset(len)], fBufferAvailable - len)

Skipped(h, len) ==
    [type |-> "kSkippedPacket", headerSize |-> 0,
     headerOffset |-> DestOffset(len), args1 |-> 1, args2 |-> hdr[h].args2]

SkipPacket(len) ==
    CASE Current.type = "kSkippedPacket" ->
            /\ hdr' = [hdr EXCEPT ![fLastWrittenHeader].args1 = @ + 1]
            /\ sendPacketNotification(hdr, fLastWrittenHeader, told, untold)
            /\ UNCHANGED <<next, fLastWrittenHeader, fBufferAvailable>>
      [] Current.type = "kFree" ->
            Write(fLastWrittenHeader, next, Skipped(fLastWrittenHeader, len),
                  fBufferAvailable)
      [] OTHER ->
            Write(NextHeader, Links, Skipped(NextHeader, len), fBufferAvailable)

doPacket(len) ==
    /\ "offEarly" \in StreamRaces \/ refs = {"packet", "skipped"}
    /\ "overflow" \in StreamRaces \/ ~WontFit(len)
    /\ packets < MaxPackets
    /\ NeedsNew => Allocated # Headers                            \* bound
    /\ packets' = packets + 1
    /\ IF WontFit(len) THEN SkipPacket(len) ELSE StorePacket(len)
    /\ UNCHANGED <<fLastReadHeader, refs>>

(* receiveAsyncStream: every client of the receiver whose notification is  *)
(* on is called, in order; when one is removed by its handler the iterator *)
(* is no longer valid and those after it are not called.                   *)
Notified(r) == SelectSeq(receiver[r].clients, LAMBDA l : listener[l].fNotify)

receiveAsyncStream ==
    \E r \in Receivers, len \in Sizes :
        /\ Notified(r) # <<>>
        /\ \/ /\ UNCHANGED receiverVars
              /\ IF Contains(Notified(r), User) THEN doPacket(len)
                                                ELSE UNCHANGED queueVars
           \/ /\ "leaveInHandler" \in StreamRaces
              /\ Head(Notified(r)) \in KernelListeners
              /\ removeAsyncStreamListener(Head(Notified(r)))
              /\ missed' = missed \cup ToSet(Tail(Notified(r)))
              /\ UNCHANGED queueVars

(* What an acknowledged header gives back: its args1, whatever it is.      *)
GivenBack(h) == h.args1

HasFollowing(headers, following) == headers[following].type # "kFree"

(* The header after the last acknowledged one is taken to be acknowledged. *)
clientCommandIsComplete ==
    /\ fLastReadHeader # NoHeader
    /\ told # NoHeader
    /\ LET old == fLastReadHeader
           following == next[old]
           headers == [hdr EXCEPT ![old].type = "kFree"]
       IN  /\ hdr' = headers
           /\ fLastReadHeader' = following
           /\ fBufferAvailable' = fBufferAvailable + GivenBack(hdr[old])
           /\ IF HasFollowing(headers, following)
              THEN sendPacketNotification(headers, following, NoHeader, untold)
              ELSE told' = NoHeader /\ UNCHANGED untold
    /\ UNCHANGED <<receiverVars, next, fLastWrittenHeader, refs, packets>>

(* The library's TurnOnNotification and TurnOffNotification: the packets'  *)
(* callback, that of skipped packets, then fNotify.                        *)
SwitchCallback ==
    /\ listener[User].state = "live"
    /\ IF listener[User].fNotify
       THEN \/ /\ refs = {"packet", "skipped"}
               /\ "offEarly" \in StreamRaces \/ untold = <<>>
               /\ refs' = {"skipped"}
            \/ refs = {"skipped"} /\ refs' = {}
       ELSE \/ refs = {} /\ refs' = {"packet"}
            \/ refs = {"packet"} /\ refs' = {"packet", "skipped"}
    /\ UNCHANGED <<receiverVars, listVars, told, untold, packets>>

SwitchNotification ==
    /\ listener[User].state = "live"
    /\ fLastReadHeader # NoHeader
    /\ refs = IF listener[User].fNotify THEN {} ELSE {"packet", "skipped"}
    /\ listener' = [listener EXCEPT ![User].fNotify = ~@]
    /\ UNCHANGED <<receiver, missed, queueVars>>

(* exporterCleanup: deactivate, which deletes every header but the last    *)
(* before fLastWrittenHeader; then the listener leaves its receiver.       *)
deactivate ==
    /\ listener[User].state = "live"
    /\ fLastReadHeader # NoHeader
    /\ listener' = [listener EXCEPT ![User].fNotify = FALSE]
    /\ LET last == CHOOSE h \in Allocated : next[h] = fLastWrittenHeader
       IN  /\ hdr' = [h \in Headers |-> IF h = last THEN hdr[h]
                                        ELSE [NewRecord EXCEPT !.type = "none"]]
           /\ fLastWrittenHeader' = last
    /\ next' = [h \in Headers |-> h]
    /\ fBufferAvailable' = 0
    /\ fLastReadHeader' = NoHeader
    /\ told' = NoHeader
    /\ untold' = <<>>
    /\ UNCHANGED <<receiver, missed, refs, packets>>

exporterCleanup ==
    /\ listener[User].state = "live"
    /\ fLastReadHeader = NoHeader
    /\ removeAsyncStreamListener(User)
    /\ UNCHANGED <<missed, queueVars>>

StreamInit ==
    LET first == CHOOSE h \in Headers : TRUE
    IN  /\ receiver = [r \in Receivers |-> NoSuchReceiver]
        /\ listener = [l \in Listeners |-> NoSuchListener]
        /\ missed = {}
        /\ hdr = [h \in Headers |-> IF h = first THEN NewRecord
                                    ELSE [NewRecord EXCEPT !.type = "none"]]
        /\ next = [h \in Headers |-> h]
        /\ fLastWrittenHeader = first
        /\ fLastReadHeader = first
        /\ fBufferAvailable = fBufferSize
        /\ refs = {}
        /\ told = NoHeader
        /\ untold = <<>>
        /\ packets = 0

StreamNext == \/ createAsyncStreamListener
              \/ asyncStreamListener_Create
              \/ TurnNotification
              \/ RemoveListener
              \/ FreeListener
              \/ receiveAsyncStream
              \/ clientCommandIsComplete
              \/ SwitchCallback
              \/ SwitchNotification
              \/ deactivate
              \/ exporterCleanup

StreamSpec == StreamInit /\ [][StreamNext]_streamVars
                         /\ WF_streamVars(clientCommandIsComplete)
-----------------------------------------------------------------------------
(* Properties.                                                             *)

(* The type invariant.                                                     *)
StreamTypeOK ==
    /\ \A l \in Listeners :
        /\ listener[l].state \in {"none", "live", "removed", "lost", "gone"}
        /\ listener[l].receiver \in Receivers \cup {NoReceiver}
    /\ \A r \in Receivers : receiver[r].channel \in Channels \cup {0}
    /\ fLastWrittenHeader \in Allocated
    /\ fLastReadHeader \in Allocated \cup {NoHeader}
    /\ told \in Allocated \cup {NoHeader}
    /\ untold \in Seq(Allocated)
    /\ refs \subseteq {"packet", "skipped"}
    /\ packets \in 0..MaxPackets

(* A listener in use is a client of a receiver of the controller, and the  *)
(* only receiver of that channel with clients is this one; no packet is    *)
(* kept from it; and a receiver stays only while a listener needs it.      *)
ListenersAreServed ==
    /\ StreamTypeOK
    /\ missed = {}
    /\ \A l \in Listeners : listener[l].state = "live" =>
        /\ receiver[listener[l].receiver].inSet
        /\ Contains(receiver[listener[l].receiver].clients, l)
        /\ \A r \in Receivers \ {listener[l].receiver} :
               receiver[r].channel = receiver[listener[l].receiver].channel =>
                   receiver[r].clients = <<>>
    /\ \A r \in Receivers : Live(r) =>
        \E l \in Listeners : /\ listener[l].state \in {"live", "removed"}
                             /\ listener[l].receiver = r

(* The headers of packets that the client has not acknowledged.            *)
StoredPackets ==
    SelectSeq(IF told = NoHeader THEN untold ELSE <<told>> \o untold,
              LAMBDA h : hdr[h].type = "kIncomingPacket")

Bytes(h) == GetOffset(hdr[h]) .. GetOffset(hdr[h]) + GetSize(hdr[h]) - 1

(* Between packets i and j bytes at the end were left unused, which count  *)
(* as available all the same, and one of another size may have taken them. *)
EndWasCounted(i, j) ==
    /\ \E k \in i..j - 1 :
        LET h == hdr[StoredPackets[k]]
        IN  /\ GetOffset(h) + GetSize(h) < fBufferSize
            /\ GetOffset(hdr[StoredPackets[k + 1]]) = 0
    /\ \E k \in i..j - 1 :
        GetSize(hdr[StoredPackets[k]]) # GetSize(hdr[StoredPackets[k + 1]])

(* The packet the client is given is "the received data"                   *)
(* (IOFireWireLib.h:708): no packet is stored outside the buffer, nor over *)
(* one that is not acknowledged but by the count of a wrap before it (the  *)
(* code does that: :301-323 of the listener), what is available is what    *)
(* the packets leave, and each is told of, in order.                       *)
StreamStoredApart ==
    /\ \A i \in DOMAIN untold : ~IsFree(untold[i])
    /\ \A i, j \in DOMAIN StoredPackets :
        /\ Bytes(StoredPackets[i]) \subseteq 0..fBufferSize - 1
        /\ i < j /\ ~EndWasCounted(i, j)
           => Bytes(StoredPackets[i]) \cap Bytes(StoredPackets[j]) = {}
    /\ fLastReadHeader # NoHeader =>
        fBufferAvailable =
            fBufferSize - MapThenSumSet(LAMBDA h : GetSize(hdr[h]),
                                        ToSet(StoredPackets))

(* A packet of the queue is told to the client in the end.                 *)
EveryStreamPacketIsTold ==
    \A h \in Headers : Contains(untold, h) ~>
                           (told = h \/ fLastReadHeader = NoHeader)
=============================================================================
