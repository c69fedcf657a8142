------------------------ MODULE PhysicalAddressSpace ------------------------
(***************************************************************************)
(* A physical address space: memory of a process, or of a kernel driver,   *)
(* that other nodes read and write at its physical address.  The link      *)
(* hardware answers most of these requests; those it hands to software go  *)
(* through doRead and doWrite, which have to find the place of an address  *)
(* in memory that is scattered over segments.  A process learns of the     *)
(* segments once, through the library's object.                            *)
(*                                                                         *)
(* Lengths count cells; a layout lists the segments of a memory as the     *)
(* system gives them, where adjacent ones need not have been joined.       *)
(***************************************************************************)
EXTENDS Integers, SequencesExt

CONSTANTS
    Layouts,           \* how a memory may lie in physical memory
    AddressMask,       \* the FWIM reaches the addresses 0..AddressMask
    MapperShift,       \* what an I/O mapper adds to a physical address
    MaxChanges,        \* bound: times that a driver exchanges the memory
    PhysicalRisks      \* see README

ASSUME PhysicalAssumption ==
    /\ \A l \in Layouts : l \in Seq([at : Nat, length : Nat \ {0}]) /\ l # <<>>
    /\ AddressMask \in Nat /\ MapperShift \in Nat /\ MaxChanges \in Nat
    /\ PhysicalRisks \subseteq {"mapper", "prepareFails", "laterSegments"}

VARIABLES
    space,      \* the kernel's object, with its DMA command
    owner,      \* who made it: a "process" or a "driver"
    mSegments,  \* what the library's object says of it
    reply,      \* the last request and what became of it
    changes

physicalVars == <<space, owner, mSegments, reply, changes>>

Total(l) == FoldLeft(LAMBDA sum, segment : sum + segment.length, 0, l)
Start(l, i) == Total(SubSeq(l, 1, i - 1))
MemoryEnd(l) == FoldLeft(LAMBDA top, s : IF s.at + s.length > top
                                          THEN s.at + s.length ELSE top, 0, l)

NoReply == [op |-> "none"]
NoMemory == <<>>

PhysicalInit ==
    /\ space = [state |-> "unmade", layout |-> NoMemory, fDMACommandPrepared |-> FALSE,
                mapped |-> FALSE]
    /\ owner \in {"process", "driver"}
    /\ mSegments = <<>> /\ reply = NoReply /\ changes = MaxChanges

-----------------------------------------------------------------------------
(* The memory.                                                             *)

(* A DMA command gives the segment from an offset on, and there what an    *)
(* I/O mapper made of the physical address.                                *)
InSegment(l, pos) ==
    CHOOSE i \in DOMAIN l : Start(l, i) <= pos /\ pos < Start(l, i) + l[i].length

(* IOMemoryDescriptor::getPhysicalSegment.                                 *)
MemoryAt(l, pos) ==
    LET i == InSegment(l, pos)
        skipped == pos - Start(l, i)
    IN  [at |-> l[i].at + skipped, length |-> l[i].length - skipped]

getPhysicalSegment(s, pos) ==
    [MemoryAt(s.layout, pos) EXCEPT !.at = @ + (IF s.mapped THEN MapperShift ELSE 0)]

(* The addresses of all segments, and not where they end.                  *)
checkMemoryInRange(s) ==
    \A i \in DOMAIN s.layout :
        getPhysicalSegment(s, Start(s.layout, i)).at <= AddressMask

IsPrepared == space.state = "made" /\ space.fDMACommandPrepared

-----------------------------------------------------------------------------
(* Requests of other nodes.  The loops leave lengthOfSegment at the last   *)
(* segment they looked at.                                                 *)

NearestSegment(s, pos, address, n) ==                              \* mutant
    [found |-> pos < Total(s.layout), length |-> 0]

(* Whether the cells from address on, n of them, are those of the segments *)
(* from pos on.                                                            *)
ContiguousRanges(s, pos, address, n) ==
    LET Looked(found, length) == [found |-> found, length |-> length]
        from[p \in Nat] ==
            LET segment == getPhysicalSegment(s, p)
            IN  IF p >= Total(s.layout) THEN Looked(FALSE, 0)
                ELSE IF segment.at # address + (p - pos)
                     THEN Looked(FALSE, segment.length)
                ELSE IF n - (p - pos) <= segment.length
                     THEN Looked(TRUE, segment.length)
                ELSE from[p + segment.length]
    IN  from[pos]

NotFound == -1

(* The offset in memory of the n cells from address on.                    *)
OffsetOf(s, address, n) ==
    LET search[pos \in Nat] ==
            LET segment == getPhysicalSegment(s, pos)
                union_length == segment.at + segment.length - address
                inside == segment.at <= address /\ union_length > 0
                ahead == ContiguousRanges(s, pos + segment.length,
                                          address + union_length, n - union_length)
                looks == inside /\ n > union_length
            IN  IF pos >= Total(s.layout) THEN NotFound
                ELSE IF inside /\ (looks => ahead.found)
                     THEN pos + address - segment.at
                ELSE IF looks /\ ahead.length > 0 THEN search[pos + ahead.length]
                ELSE search[pos + segment.length]
    IN  search[0]

Answers(op, trusted, address, n) ==
    reply' = [op |-> op, trusted |-> trusted, address |-> address, n |-> n,
              offset |-> IF trusted /\ IsPrepared
                         THEN OffsetOf(space, address, n) ELSE NotFound]

MayRequest(address, n) ==
    /\ space.state = "made" /\ n > 0
    /\ address + n <= MemoryEnd(space.layout) + MapperShift + 1

doRead(trusted, address, n) ==
    /\ MayRequest(address, n)
    /\ Answers("read", trusted, address, n)
    /\ UNCHANGED <<space, owner, mSegments, changes>>

(* The bytes go into the memory and into what a DMA command keeps of it.   *)
doWrite(trusted, address, n) ==
    /\ MayRequest(address, n)
    /\ Answers("write", trusted, address, n)
    /\ UNCHANGED <<space, owner, mSegments, changes>>

-----------------------------------------------------------------------------
(* The life of a space.                                                    *)

(* Nobody looks at what prepare() returned.                                *)
Prepares(s) ==
    \/ space' = [s EXCEPT !.fDMACommandPrepared = TRUE]
    \/ "prepareFails" \in PhysicalRisks /\ space' = s

WithMemory(l, mapped) ==
    [state |-> "made", layout |-> l, fDMACommandPrepared |-> FALSE, mapped |-> mapped]

initWithDesc(l, mapped) ==
    /\ space.state = "unmade"
    /\ mapped => "mapper" \in PhysicalRisks
    /\ IF checkMemoryInRange(WithMemory(l, mapped))
       THEN Prepares(WithMemory(l, mapped))
       ELSE space' = [space EXCEPT !.state = "refused"]
    /\ reply' = NoReply
    /\ UNCHANGED <<owner, mSegments, changes>>

(* For a process, whose memory is wired first.                             *)
physicalAddressSpace_Create(l, mapped) ==
    owner = "process" /\ initWithDesc(l, mapped)

createPhysicalAddressSpace(l, mapped) ==
    owner = "driver" /\ initWithDesc(l, mapped)

(* The driver puts other memory behind the space, or none.                 *)
setMemoryDescriptor(l) ==
    /\ owner = "driver" /\ space.state = "made" /\ changes > 0
    /\ changes' = changes - 1
    /\ IF l = NoMemory THEN space' = WithMemory(l, space.mapped)
       ELSE Prepares(WithMemory(l, space.mapped))
    /\ reply' = NoReply
    /\ UNCHANGED <<owner, mSegments>>

complete ==
    /\ owner = "driver" /\ IsPrepared /\ changes > 0
    /\ changes' = changes - 1
    /\ space' = [space EXCEPT !.fDMACommandPrepared = FALSE]
    /\ reply' = NoReply
    /\ UNCHANGED <<owner, mSegments>>

prepare ==
    /\ owner = "driver" /\ space.state = "made" /\ ~IsPrepared
    /\ space.layout # NoMemory
    /\ Prepares(space)
    /\ reply' = NoReply
    /\ UNCHANGED <<owner, mSegments, changes>>

exporterCleanup ==
    /\ space.state = "made"
    /\ space' = [space EXCEPT !.state = "freed", !.fDMACommandPrepared = FALSE]
    /\ reply' = NoReply
    /\ UNCHANGED <<owner, mSegments, changes>>

-----------------------------------------------------------------------------
(* The library's object.                                                   *)

Segment(l, i) == MemoryAt(l, Start(l, i))
getSegments == [i \in DOMAIN space.layout |-> Segment(space.layout, i)]

physicalAddressSpace_GetSegments == getSegments

(* The constructor copies what the descriptor of the memory says.          *)
CopySegments ==
    /\ owner = "process" /\ space.state = "made" /\ mSegments = <<>>
    /\ mSegments' = physicalAddressSpace_GetSegments
    /\ UNCHANGED <<space, owner, reply, changes>>

(* traversed begins with the first segment, and the first turn of the loop *)
(* adds it again.                                                          *)
IndexOfOffset(offset) ==
    LET from[i \in Nat, traversed \in Nat] ==
            IF traversed <= offset /\ i <= Len(mSegments)
            THEN from[i + 1, traversed + mSegments[i].length]
            ELSE i
    IN  from[1, mSegments[1].length]

(* Past the last segment it reads what lies behind the array.              *)
GetPhysicalSegment(offset) ==
    /\ mSegments # <<>> /\ offset < Total(mSegments)
    /\ offset >= mSegments[1].length => "laterSegments" \in PhysicalRisks
    /\ LET i == IndexOfOffset(offset)
       IN  reply' = [op |-> "GetPhysicalSegment", offset |-> offset,
                     segment |-> IF i <= Len(mSegments) THEN mSegments[i]
                                 ELSE [at |-> 0, length |-> 0]]
    /\ UNCHANGED <<space, owner, mSegments, changes>>

PhysicalNext ==
    \/ \E l \in Layouts, mapped \in BOOLEAN :
          \/ physicalAddressSpace_Create(l, mapped)
          \/ createPhysicalAddressSpace(l, mapped)
    \/ \E l \in Layouts \cup {NoMemory} : setMemoryDescriptor(l)
    \/ complete \/ prepare \/ exporterCleanup \/ CopySegments
    \/ \E a \in 0..(AddressMask + MapperShift), n \in 1..3, trusted \in BOOLEAN :
          doRead(trusted, a, n) \/ doWrite(trusted, a, n)
    \/ \E offset \in 0..(Total(mSegments) - 1) : GetPhysicalSegment(offset)

PhysicalSpec == PhysicalInit /\ [][PhysicalNext]_physicalVars

-----------------------------------------------------------------------------
(* Properties.                                                             *)

(* The n cells at offset of a memory have, one by one, these addresses.    *)
LiesAt(s, offset, address, n) ==
    \A k \in 0..(n - 1) :
        /\ offset + k < Total(s.layout)
        /\ getPhysicalSegment(s, offset + k).at = address + k

(* A request is answered with the cells that have its addresses, all of    *)
(* them and in their order, however the segments are cut; it is refused    *)
(* only where the space does not have them, or is not prepared.            *)
RequestsFindTheirCells ==
    reply.op \in {"read", "write"} =>
        IF reply.offset # NotFound
        THEN LiesAt(space, reply.offset, reply.address, reply.n)
        ELSE \/ ~reply.trusted \/ ~IsPrepared
             \/ \A p \in 0..(Total(space.layout) - 1) :
                   ~LiesAt(space, p, reply.address, reply.n)

(* What the library tells a process of its space is where other nodes find *)
(* it: every cell at its address, and for an offset the segment that has   *)
(* it.                                                                     *)
ToldWhereItLies ==
    space.state = "made" /\ owner = "process" =>
        /\ IsPrepared
        /\ \A i \in DOMAIN mSegments :
              LiesAt(space, Start(mSegments, i), mSegments[i].at, mSegments[i].length)
        /\ reply.op = "GetPhysicalSegment" =>
              reply.segment = mSegments[InSegment(mSegments, reply.offset)]

(* Requests of other nodes and the process that made a space agree on      *)
(* where its cells are, and no space that is prepared is without memory.  *)
PhysicalSpacesAreReached ==
    /\ RequestsFindTheirCells /\ ToldWhereItLies
    /\ IsPrepared => space.layout # NoMemory
=============================================================================
