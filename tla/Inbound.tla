------------------------------ MODULE Inbound ------------------------------
(***************************************************************************)
(* Requests of other nodes to this one: the address spaces of the          *)
(* controller (fLocalAddresses, fAllocatedAddresses), the dispatch of a    *)
(* request to the first one that accepts it, its response, at once or from *)
(* a client that has deferred it, and bus resets in between.  Everything   *)
(* happens with the controller's gate closed.                              *)
(***************************************************************************)
EXTENDS Integers, Sequences, SequencesExt, FiniteSets

CONSTANTS
    Nodes, Labels,          \* senders and their transaction labels
    Spaces,                 \* bound: address space objects
    AddressSize,            \* 2^32: how many addressLo there are
    FullLength,             \* 0xfffe: what fAllocatedAddresses may grow to
    kCSRRegisterSpaceBaseAddressHi,
    PseudoShapes,           \* what clients ask for: [fLen, defers],
    FixedShapes,            \* [addressLo, fLen, fExclusive, defers]
    RequestShapes,          \* [kind, addressHi, addressLo, len, broadcast]
    MaxRequests, MaxInboundResets,   \* bounds
    InboundRaces            \* see InboundAssumption

(* "createFails": a space cannot be initialised; "enclose": a space is     *)
(* activated that has another one within it; "late": a node that has given *)
(* a request up uses its label again while the client still has it.        *)
InboundAssumption ==
    /\ AddressSize \in Nat \ {0, 1}
    /\ FullLength \in Nat \ {0}
    /\ kCSRRegisterSpaceBaseAddressHi \in Nat
    /\ kCSRRegisterSpaceBaseAddressHi > FullLength
    /\ PseudoShapes \subseteq [fLen : 1..AddressSize - 1, defers : BOOLEAN]
    /\ FixedShapes \subseteq [addressLo : 0..AddressSize - 1,
                              fLen : 1..AddressSize - 1,
                              fExclusive : BOOLEAN, defers : BOOLEAN]
    /\ RequestShapes \subseteq [kind : {"read", "write", "lock"},
                                addressHi : 0..kCSRRegisterSpaceBaseAddressHi,
                                addressLo : 0..AddressSize - 1,
                                len : 1..AddressSize - 1, broadcast : BOOLEAN]
    /\ MaxRequests \in Nat /\ MaxInboundResets \in Nat
    /\ InboundRaces \subseteq {"createFails", "enclose", "late"}
ASSUME InboundAssumption

VARIABLES
    space,                  \* the objects
    fAllocatedAddresses,    \* one entry for each addressHi from 0
    fLocalAddresses,        \* the active ones, in the order of activation
    fBusGeneration,
    request,                \* what a node awaits the answer of, by label
    deferred,               \* requests that clients are to answer
    requests,               \* requests sent so far
    astray,                 \* history: a response answered no request, or
                            \* another one
    outside                 \* history: what a space took without having
                            \* all of its bytes

inboundVars == <<space, fAllocatedAddresses, fLocalAddresses, fBusGeneration,
                 request, deferred, requests, astray, outside>>
spaceVars == <<space, fAllocatedAddresses, fLocalAddresses>>

NoSpace == [live |-> FALSE, addressHi |-> 0, addressLo |-> 0, fLen |-> 0,
            fExclusive |-> FALSE, defers |-> FALSE]
NoRequest == [id |-> 0, state |-> "none"]
requestVars == <<fBusGeneration, request, deferred, requests, astray, outside>>

Wrap(n) == n % AddressSize
-----------------------------------------------------------------------------
(* The upper halves of pseudo addresses: entry i + 1 is addressHi i.       *)

Allocations == IF fAllocatedAddresses = <<>> THEN <<1>>
               ELSE fAllocatedAddresses                \* physical: always

FreeEntries == {i \in DOMAIN Allocations : Allocations[i] = 0}
NoEntry == FreeEntries = {} /\ Len(Allocations) >= FullLength

FirstEntry == IF FreeEntries = {} THEN Len(Allocations) + 1
              ELSE Min(FreeEntries)

allocatePseudoAddress ==
    IF FreeEntries = {} THEN Append(Allocations, 1)
    ELSE [Allocations EXCEPT ![FirstEntry] = 1]

freePseudoAddress(addressHi) ==
    [fAllocatedAddresses EXCEPT ![addressHi + 1] = 0]

(* What free of the object leaves of the entries.                          *)
Freed(object) ==
    IF object.addressHi = kCSRRegisterSpaceBaseAddressHi
    THEN fAllocatedAddresses ELSE freePseudoAddress(object.addressHi)

New(hi, lo, exclusive, shape) ==
    [live |-> TRUE, addressHi |-> hi, addressLo |-> lo, fLen |-> shape.fLen,
     fExclusive |-> exclusive, defers |-> shape.defers]

(* initAll; an object whose initAll fails is released with the base 0.     *)
createPseudoAddressSpace ==
    /\ \E s \in Spaces, shape \in PseudoShapes :
        /\ ~space[s].live
        /\ \/ /\ ~NoEntry
              /\ fAllocatedAddresses' = allocatePseudoAddress
              /\ space' = [space EXCEPT
                     ![s] = New(FirstEntry - 1, 0, FALSE, shape)]
           \/ /\ NoEntry /\ "createFails" \in InboundRaces
              /\ fAllocatedAddresses' = Freed(NoSpace)
              /\ UNCHANGED space
    /\ UNCHANGED <<fLocalAddresses, requestVars>>

(* initFixed, for the controller's own spaces and those of user clients,   *)
(* who may ask for exclusive use, or for an address that is refused.       *)
createInitialAddressSpace ==
    /\ \E s \in Spaces, shape \in FixedShapes :
        /\ ~space[s].live
        /\ \/ /\ space' = [space EXCEPT ![s] =
                     New(kCSRRegisterSpaceBaseAddressHi, shape.addressLo,
                         shape.fExclusive, shape)]
              /\ UNCHANGED fAllocatedAddresses
           \/ /\ "createFails" \in InboundRaces
              /\ fAllocatedAddresses # <<>>
              /\ fAllocatedAddresses' = Freed(NoSpace)
              /\ UNCHANGED space
    /\ UNCHANGED <<fLocalAddresses, requestVars>>

(* The last release, of a space that the controller's set does not retain. *)
FreeSpace ==
    /\ \E s \in Spaces :
        /\ space[s].live
        /\ ~Contains(fLocalAddresses, s)
        /\ space' = [space EXCEPT ![s] = NoSpace]
        /\ fAllocatedAddresses' = Freed(space[s])
    /\ UNCHANGED <<fLocalAddresses, requestVars>>

-----------------------------------------------------------------------------
(* Activation.  contains is the number of bytes from the address to the    *)
(* end, intersects looks for the ends of the new space in the old one.     *)

contains(s, hi, lo) ==
    LET offset == lo - s.addressLo
    IN  IF hi = s.addressHi /\ offset >= 0 /\ offset <= s.fLen
        THEN s.fLen - offset ELSE 0

StartsIn(found, s) == contains(found, s.addressHi, s.addressLo) > 0  \* mutant

intersects(found, s) ==
    \/ contains(found, s.addressHi, s.addressLo) > 0
    \/ contains(found, s.addressHi, Wrap(s.addressLo + s.fLen - 1)) > 0

Conflict(s) ==
    \E t \in ToSet(fLocalAddresses) :
        /\ space[s].fExclusive \/ space[t].fExclusive
        /\ intersects(space[t], space[s])

Encloses(s, t) == /\ s.addressHi = t.addressHi
                  /\ s.addressLo < t.addressLo
                  /\ t.addressLo + t.fLen < s.addressLo + s.fLen

(* Activation: the set takes a space once.                                 *)
allocAddress ==
    /\ \E s \in Spaces :
        /\ space[s].live
        /\ ~Conflict(s)
        /\ ~Contains(fLocalAddresses, s)
        /\ \/ "enclose" \in InboundRaces
           \/ \A t \in ToSet(fLocalAddresses) : ~Encloses(space[s], space[t])
        /\ fLocalAddresses' = Append(fLocalAddresses, s)
    /\ UNCHANGED <<space, fAllocatedAddresses, requestVars>>

freeAddress ==
    /\ \E i \in DOMAIN fLocalAddresses :
        fLocalAddresses' = RemoveAt(fLocalAddresses, i)
    /\ UNCHANGED <<space, fAllocatedAddresses, requestVars>>

-----------------------------------------------------------------------------
(* Requests and responses.                                                 *)

(* A node sends a request; it waits for no response of a broadcast.        *)
SendRequest ==
    /\ requests < MaxRequests
    /\ requests' = requests + 1
    /\ \E n \in Nodes, l \in Labels, shape \in RequestShapes :
        /\ \/ request[<<n, l>>] = NoRequest
           \/ "late" \in InboundRaces /\ request[<<n, l>>].state = "givenUp"
        /\ request' = [request EXCEPT ![<<n, l>>] =
               [shape |-> shape, id |-> requests + 1, state |-> "sent"]]
    /\ UNCHANGED <<spaceVars, fBusGeneration, deferred, astray, outside>>

BytesOf(lo, len) == lo .. lo + len - 1

(* The end of the request is the end of the 32 bits or beyond it.          *)
Overflows(q) == Wrap(q.addressLo + q.len) < q.addressLo

(* doRead and doWrite: whether the space is the one, with sums of 32 bits. *)
Accepts(s, q) ==
    /\ q.addressHi = s.addressHi
    /\ q.addressLo >= s.addressLo
    /\ Wrap(q.addressLo + q.len) <= Wrap(s.addressLo + s.fLen)

NoOne == [NoSpace EXCEPT !.fLen = -1]

(* The space whose answer is not kFWResponseAddressError.                  *)
FirstToAccept(q) ==
    LET accepting == {i \in DOMAIN fLocalAddresses :
                          Accepts(space[fLocalAddresses[i]], q)}
    IN  IF accepting = {} THEN NoOne
        ELSE space[fLocalAddresses[Min(accepting)]]

(* The handler answers later: kFWResponsePending, of a read, or of the     *)
(* read that doLock begins with.                                           *)
IsPending(s, q) == s.defers /\ q.kind \in {"read", "lock"}

Respond(n, l, id) ==
    /\ astray' = (astray \/ request[<<n, l>>].id # id)
    /\ request' = [request EXCEPT ![<<n, l>>] = NoRequest]

processRcvPacket ==
    /\ \E n \in Nodes, l \in Labels :
        LET q == request[<<n, l>>].shape
            s == FirstToAccept(q)
        IN  /\ request[<<n, l>>].state = "sent"
            /\ outside' = IF \/ s = NoOne
                             \/ BytesOf(q.addressLo, q.len)
                                    \subseteq BytesOf(s.addressLo, s.fLen)
                          THEN outside ELSE outside \cup {q}
            /\ IF IsPending(s, q)
               THEN deferred' = deferred \cup
                        {[node |-> n, label |-> l, id |-> request[<<n, l>>].id,
                          generation |-> fBusGeneration]}
               ELSE UNCHANGED deferred
            /\ IF q.broadcast
               THEN request' = [request EXCEPT ![<<n, l>>] = NoRequest]
               ELSE IF IsPending(s, q)
                    THEN request' = [request EXCEPT ![<<n, l>>].state = "deferred"]
                    ELSE request' = [request EXCEPT ![<<n, l>>] = NoRequest]
    /\ UNCHANGED <<spaceVars, fBusGeneration, requests, astray>>

AnyGeneration(d) == TRUE                                         \* mutant

checkGeneration(d) == d.generation = fBusGeneration

(* asyncReadResponse and asyncLockResponse, called by the client; one of   *)
(* another generation is refused.                                          *)
asyncResponse ==
    /\ \E d \in deferred :
        /\ deferred' = deferred \ {d}
        /\ IF checkGeneration(d) THEN Respond(d.node, d.label, d.id)
                                 ELSE UNCHANGED <<request, astray>>
    /\ UNCHANGED <<spaceVars, fBusGeneration, requests, outside>>

(* The node's split timeout.                                               *)
NodeGivesUp ==
    /\ \E n \in Nodes, l \in Labels :
        /\ request[<<n, l>>].state = "deferred"
        /\ request' = [request EXCEPT ![<<n, l>>].state = "givenUp"]
    /\ UNCHANGED <<spaceVars, fBusGeneration, deferred, requests, astray,
                   outside>>

(* A bus reset ends the transactions of every node.                        *)
ResetBus ==
    /\ fBusGeneration < MaxInboundResets
    /\ fBusGeneration' = fBusGeneration + 1
    /\ request' = [nl \in Nodes \X Labels |-> NoRequest]
    /\ UNCHANGED <<spaceVars, deferred, requests, astray, outside>>

InboundInit ==
    /\ space = [s \in Spaces |-> NoSpace]
    /\ fAllocatedAddresses = <<>>
    /\ fLocalAddresses = <<>>
    /\ fBusGeneration = 0
    /\ request = [nl \in Nodes \X Labels |-> NoRequest]
    /\ deferred = {}
    /\ requests = 0
    /\ astray = FALSE
    /\ outside = {}

InboundNext == \/ createPseudoAddressSpace
               \/ createInitialAddressSpace
               \/ FreeSpace
               \/ allocAddress
               \/ freeAddress
               \/ SendRequest
               \/ processRcvPacket
               \/ asyncResponse
               \/ NodeGivesUp
               \/ ResetBus

InboundSpec == /\ InboundInit
               /\ [][InboundNext]_inboundVars
               /\ WF_inboundVars(processRcvPacket)
               /\ WF_inboundVars(asyncResponse)
-----------------------------------------------------------------------------
(* Properties.                                                             *)

(* The type invariant.                                                     *)
InboundTypeOK ==
    /\ \A s \in Spaces : /\ space[s].addressLo \in 0..AddressSize - 1
                          /\ space[s].fLen \in 0..AddressSize
                          /\ space[s].live \in BOOLEAN
    /\ fAllocatedAddresses \in Seq({0, 1})
    /\ fBusGeneration \in 0..MaxInboundResets
    /\ requests \in 0..MaxRequests
    /\ deferred \subseteq [node : Nodes, label : Labels, id : 1..MaxRequests,
                           generation : 0..MaxInboundResets]
    /\ astray \in BOOLEAN /\ outside \subseteq RequestShapes

(* Every pseudo space has an upper half of the address of its own, never   *)
(* the physical one ("Physical always allocated",                          *)
(* IOFireWireController.cpp:5679); an upper half is taken as long as a     *)
(* space has it; only live spaces are active, each once.                   *)
OwnAddresses ==
    /\ InboundTypeOK
    /\ \A s \in Spaces : space[s].live => space[s].addressHi # 0
    /\ \A s, t \in Spaces :
        /\ s # t /\ space[s].live /\ space[t].live
        /\ space[s].addressHi = space[t].addressHi
        => space[s].addressHi = kCSRRegisterSpaceBaseAddressHi
    /\ \A i \in DOMAIN Allocations :
        Allocations[i] = 1 <=>
            i = 1 \/ \E s \in Spaces : space[s].live /\ space[s].addressHi = i - 1
    /\ \A s \in ToSet(fLocalAddresses) : space[s].live
    /\ IsInjective(fLocalAddresses)

(* "enforce exclusivity" (IOFireWireController.cpp:5621): no active space  *)
(* has a byte of one that is exclusive.                                    *)
ExclusiveApart ==
    \A s, t \in ToSet(fLocalAddresses) :
        /\ s # t
        /\ space[s].fExclusive
        /\ space[s].addressHi = space[t].addressHi
        => BytesOf(space[s].addressLo, space[s].fLen)
               \cap BytesOf(space[t].addressLo, space[t].fLen) = {}

(* A request finds one address space at most that may answer it: allocated *)
(* where the client asked, apart from every exclusive one.                 *)
AddressesApart == OwnAddresses /\ ExclusiveApart

(* A response goes to the request it answers, no request is answered       *)
(* twice, and the space that takes one has all of its bytes, but for those *)
(* whose end doRead and doWrite cannot add up in 32 bits.                  *)
AnsweredByItsSpace == ~astray /\ \A q \in outside : Overflows(q)

(* Every request that is not a broadcast is answered, unless a bus reset   *)
(* or the node ends it.                                                    *)
EveryRequestIsAnswered ==
    \A nl \in Nodes \X Labels :
        request[nl].state = "sent" ~> request[nl] = NoRequest
=============================================================================
