------------------------------ MODULE UserLock ------------------------------
(***************************************************************************)
(* Reads, writes and locks of an address space that a client has made of a *)
(* backing store.  Each of reading and writing is done either by the       *)
(* kernel, at once, or by the client's handlers, which are called for one  *)
(* packet of the queue after the other.  A lock is then split: the library *)
(* calls the read handler, compares when the client acknowledges, and      *)
(* calls the write handler if the values are equal.  That packets fit into *)
(* the queue is the matter of UserPseudoAddressSpace.                      *)
(***************************************************************************)
EXTENDS Integers, SequencesExt

CONSTANTS
    Words, Values,     \* of the backing store
    LockModes,         \* who reads and writes, of LockModeNames
    MaxRequests,       \* bound: requests of other nodes
    MaxLockResets,     \* bound: bus resets
    LockRisks          \* see README

LockModeNames == {"user", "auto", "autoRead", "autoWrite"}

LockAssumption ==
    /\ 0 \in Values
    /\ LockModes \subseteq LockModeNames
    /\ MaxRequests \in Nat /\ MaxLockResets \in Nat
    /\ LockRisks \subseteq {"acksInWriter", "writesFirst", "refuses", "mixed"}
ASSUME LockAssumption

VARIABLES
    lockMode,        \* the kFWAddressSpaceAuto... flags
    backingStore,
    kernelSpace,     \* the kernel's: packets, fWaiting, and the calls sent
    contents,        \* history: what the space holds if each request that has
                     \* come takes effect before the next
    log,             \* history: the requests, what each finds in the space so,
                     \* and their answers
    mPendingLocks,   \* the library's locks by command ID, 0 for none
    served,          \* packets whose handler the client has not acknowledged
    busGeneration

lockVars == <<lockMode, backingStore, kernelSpace, contents, log, mPendingLocks,
              served, busGeneration>>

Headers == 1 .. MaxRequests
NoLock == [kind |-> "none"]
NoAnswer == [type |-> "none"]

Requests ==
    [kind : {"lock"}, word : Words, arg : Values, data : Values]
    \cup [kind : {"write"}, word : Words, data : Values]
    \cup [kind : {"read"}, word : Words]

LockInit ==
    /\ lockMode \in LockModes
    /\ backingStore = [w \in Words |-> 0]
    /\ kernelSpace = [packets |-> <<>>, fWaiting |-> FALSE, calls |-> <<>>]
    /\ contents = backingStore /\ log = <<>>
    /\ mPendingLocks = [h \in Headers |-> NoLock]
    /\ served = {} /\ busGeneration = 1

-----------------------------------------------------------------------------
(* Requests come in.                                                       *)

Entry(r, answer) == [request |-> r, before |-> contents, answer |-> answer]
Logged(r, type, value) == Append(log, Entry(r, [type |-> type, value |-> value]))
Awaiting(r) == Append(log, Entry(r, NoAnswer))

(* completeInit: locks go to the client if writes do.                      *)
fUserLocks == lockMode \in {"user", "autoRead"}

ByHandler(r) ==
    CASE r.kind = "lock" -> fUserLocks
      [] r.kind = "write" -> lockMode \in {"user", "autoRead"}
      [] OTHER -> lockMode \in {"user", "autoWrite"}

(* simpleReader and simpleWriter of the kernel's address space.            *)
simpleReader(r) ==
    /\ r.kind = "read"
    /\ log' = Logged(r, "read", backingStore[r.word])
    /\ UNCHANGED <<backingStore, kernelSpace>>

simpleWriter(r) ==
    /\ r.kind = "write"
    /\ backingStore' = [backingStore EXCEPT ![r.word] = r.data]
    /\ log' = Logged(r, "write", r.data)
    /\ UNCHANGED kernelSpace

(* IOFWAddressSpace::doLock, compare and swap by one read and one write.   *)
doLock(r) ==
    /\ r.kind = "lock" /\ lockMode = "auto"
    /\ backingStore' = IF backingStore[r.word] = r.arg
                 THEN [backingStore EXCEPT ![r.word] = r.data] ELSE backingStore
    /\ log' = Logged(r, "lock", backingStore[r.word])
    /\ UNCHANGED kernelSpace

(* sendPacketNotification, for the oldest packet.                          *)
Notify(s) ==
    IF s.fWaiting \/ s.packets = <<>> THEN s
    ELSE [s EXCEPT !.fWaiting = TRUE, !.calls = Append(@, Head(s.packets))]

(* A ring as short as can be, whose headers are soon used again.           *)
UsedHeaders == {kernelSpace.packets[i].commandID : i \in DOMAIN kernelSpace.packets}
FreeHeader == CHOOSE h \in Headers : h \notin UsedHeaders

(* The command ID is the header's address; a header that is free is used   *)
(* again.  A write is answered at once, the others when the client has     *)
(* acknowledged them.                                                      *)
doPacket(r, packet) ==
    /\ kernelSpace' = Notify([kernelSpace EXCEPT !.packets = Append(@,
                   [commandID |-> FreeHeader, request |-> packet,
                    number |-> Len(log) + 1, generation |-> busGeneration])])
    /\ log' = IF r.kind = "write" THEN Logged(r, "write", r.data) ELSE Awaiting(r)
    /\ UNCHANGED backingStore

(* Where only writes are automatic, doLock's read becomes a read packet,   *)
(* whose answer is taken for the lock's.                                   *)
LockByReading(r) ==
    /\ r.kind = "lock" /\ lockMode = "autoWrite" /\ "mixed" \in LockRisks
    /\ doPacket(r, [kind |-> "read", word |-> r.word])

(* An automatic read does not wait for the writes in the queue, nor does   *)
(* an automatic write for the reads: those are not looked at.              *)
Ordered(r) ==
    CASE r.kind = "read" -> lockMode # "autoRead"
      [] r.kind = "write" -> lockMode # "autoWrite"
      [] OTHER -> TRUE

(* What a request does to what the space holds.                            *)
Effect(store, r) ==
    CASE r.kind = "write" -> [store EXCEPT ![r.word] = r.data]
      [] r.kind = "lock" /\ store[r.word] = r.arg -> [store EXCEPT ![r.word] = r.data]
      [] OTHER -> store

Request ==
    \E r \in Requests :
        /\ Len(log) < MaxRequests /\ Ordered(r)
        /\ \/ ByHandler(r) /\ doPacket(r, r)
           \/ ~ByHandler(r) /\ (simpleReader(r) \/ simpleWriter(r))
           \/ ~ByHandler(r) /\ (doLock(r) \/ LockByReading(r))
        /\ contents' = Effect(contents, r)
        /\ UNCHANGED <<lockMode, mPendingLocks, served, busGeneration>>

BusResetOfSpace ==
    /\ busGeneration <= MaxLockResets
    /\ busGeneration' = busGeneration + 1
    /\ UNCHANGED <<lockMode, backingStore, kernelSpace, contents, log, mPendingLocks,
                   served>>

-----------------------------------------------------------------------------
(* The library hands packets to the client's handlers.                     *)

(* Adding to the dictionary does not replace a value that is there.        *)
WithLock(p) ==
    IF mPendingLocks[p.commandID] = NoLock
    THEN [mPendingLocks EXCEPT ![p.commandID] = p.request] ELSE mPendingLocks

(* Writer keeps a lock's arguments and calls the read handler; a write and *)
(* a read go to their handlers.                                            *)
Writer ==
    LET p == Head(kernelSpace.calls)
    IN  /\ kernelSpace.calls # <<>>
        /\ kernelSpace' = [kernelSpace EXCEPT !.calls = Tail(@)]
        /\ mPendingLocks' = IF p.request.kind = "lock" THEN WithLock(p) ELSE mPendingLocks
        /\ served' = served \cup {p}
        /\ UNCHANGED <<lockMode, backingStore, contents, log, busGeneration>>

-----------------------------------------------------------------------------
(* The client acknowledges.                                                *)

(* asyncLockResponse and asyncReadResponse read the backing store, and     *)
(* send nothing after a bus reset.                                         *)
Response(p, store) ==
    IF p.generation = busGeneration /\ p.request.kind # "write"
    THEN [type |-> p.request.kind, value |-> store[p.request.word]]
    ELSE NoAnswer

(* The kernel completes the oldest packet, whatever ID it is given, and    *)
(* notifies of the next.                                                   *)
Completed(s) ==
    Notify([s EXCEPT !.packets = Tail(@), !.fWaiting = FALSE])

(* clientCommandIsComplete.                                                *)
Acknowledged(k, store) ==
    IF ~k.space.fWaiting THEN k
    ELSE LET p == Head(k.space.packets)
             answer == Response(p, store)
         IN  [space |-> Completed(k.space),
              log |-> IF answer = NoAnswer THEN k.log
                      ELSE [k.log EXCEPT ![p.number].answer = answer]]

(* The kernel is called when the backing store holds what is given.        *)
KernelCompletes(store) ==
    LET k == Acknowledged([space |-> kernelSpace, log |-> log], store)
    IN  kernelSpace' = k.space /\ log' = k.log

KernelCompletesTwice(store) ==
    LET once == Acknowledged([space |-> kernelSpace, log |-> log], store)
        k == Acknowledged(once, store)
    IN  kernelSpace' = k.space /\ log' = k.log

ClientCompletes(p) ==
    /\ p \in served
    /\ served' = served \ {p}
    /\ UNCHANGED <<lockMode, contents, busGeneration>>

(* The client is done with a packet that it has read or, a write, copied.  *)
HandledPacket(p) ==
    LET store == IF p.request.kind = "write"
                 THEN [backingStore EXCEPT ![p.request.word] = p.request.data] ELSE backingStore
    IN  /\ p.request.kind # "lock" /\ ClientCompletes(p)
        /\ backingStore' = store
        /\ KernelCompletes(store)
        /\ UNCHANGED mPendingLocks

KeepsTheLock(p) == mPendingLocks                                   \* mutant
WithoutLock(p) == [mPendingLocks EXCEPT ![p.commandID] = NoLock]

(* The library compares and calls the write handler, which here copies     *)
(* when ClientCommandIsComplete has returned to the client; it may copy    *)
(* first, and it may acknowledge as for any other write.                   *)
HandledLock(p) ==
    LET lock == mPendingLocks[p.commandID]
        swapped == [backingStore EXCEPT ![lock.word] = lock.data]
        answered == IF "writesFirst" \in LockRisks THEN swapped ELSE backingStore
    IN  /\ p.request.kind = "lock" /\ ClientCompletes(p)
        /\ mPendingLocks' = WithoutLock(p)
        /\ IF backingStore[lock.word] = lock.arg
           THEN /\ backingStore' = swapped
                /\ IF "acksInWriter" \in LockRisks THEN KernelCompletesTwice(answered)
                                                    ELSE KernelCompletes(answered)
           ELSE UNCHANGED backingStore /\ KernelCompletes(backingStore)

(* A lock that the client refuses stays in mPendingLocks.                  *)
RefusedLock(p) ==
    /\ p.request.kind = "lock" /\ ClientCompletes(p)
    /\ KernelCompletes(backingStore)
    /\ UNCHANGED <<backingStore, mPendingLocks>>

Acknowledge ==
    \E p \in served :
        HandledPacket(p) \/ HandledLock(p) \/ ("refuses" \in LockRisks /\ RefusedLock(p))

LockNext == Request \/ BusResetOfSpace \/ Writer \/ Acknowledge

LockSpec == LockInit /\ [][LockNext]_lockVars

-----------------------------------------------------------------------------
(* Properties.                                                             *)

(* A read and a lock are answered what the address holds before them.      *)
AnswersAreInOrder ==
    \A i \in DOMAIN log : log[i].answer # NoAnswer =>
        LET r == log[i].request
        IN  /\ log[i].answer.type = r.kind
            /\ r.kind # "write" => log[i].answer.value = log[i].before[r.word]

(* The kernel waits for the packet that the client has, and for no other.  *)
OnePacketAtATime ==
    ToSet(kernelSpace.calls) \cup served =
        IF kernelSpace.fWaiting THEN {Head(kernelSpace.packets)} ELSE {}

(* Whoever reads and writes for the client, requests take effect one after *)
(* the other in the order they came, a lock as one step, and each gets one *)
(* answer unless a bus reset has come between.                             *)
UserLocksAreSound ==
    /\ AnswersAreInOrder /\ OnePacketAtATime
    /\ kernelSpace.packets = <<>> =>
          /\ backingStore = contents
          /\ busGeneration = 1 => \A i \in DOMAIN log : log[i].answer # NoAnswer
=============================================================================
