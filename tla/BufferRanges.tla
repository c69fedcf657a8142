---------------------------- MODULE BufferRanges ----------------------------
(***************************************************************************)
(* The memory of a DCL program.  The library collects the buffers of the   *)
(* program's commands in a tree of page ranges (CoalesceTree); the kernel  *)
(* maps the tree's ranges one after the other; an address of the program   *)
(* becomes an offset in that map (findOffsetInRanges).                     *)
(***************************************************************************)
EXTENDS Integers, Sequences, SequencesExt, FiniteSetsExt

CONSTANTS
    PageSize,
    LastAddress,        \* bound: addresses are 1..LastAddress
    MaxBuffers,         \* bound: buffers of a program
    BufferRisks         \* what programs may do, of AllBufferRisks

(* A buffer comes before one that the tree has already; it ends with the   *)
(* first byte of a page.                                                   *)
AllBufferRisks == {"unordered", "firstByteOfPage"}

BufferAssumption == /\ PageSize \in Nat \ {0} /\ LastAddress \in Nat
                    /\ MaxBuffers \in Nat /\ BufferRisks \subseteq AllBufferRisks
ASSUME BufferAssumption

VARIABLES nodes,        \* the tree: its nodes as they were made, 0 for nil
          buffers       \* the buffers that it was given

bufferVars == <<nodes, buffers>>

trunc_page(a) == a - (a % PageSize)
round_page(a) == trunc_page(a + PageSize - 1)

Larger(a, b) == IF a > b THEN a ELSE b

PagesOf(b) ==
    [address |-> trunc_page(b.address),
     length |-> round_page((b.address % PageSize) + b.length - 1)]

Node(r) == [address |-> r.address, length |-> r.length, left |-> 0, right |-> 0]

(* The range starts in or right after a node, or a node in or right after  *)
(* the range.                                                              *)
MergedUp(tree, n, r) ==
    [tree EXCEPT ![n].length = Larger(@, r.address + r.length - tree[n].address)]
MergedDown(tree, n, r) ==
    [tree EXCEPT ![n].address = r.address,
                 ![n].length = Larger(r.length, tree[n].address + @ - r.address)]

(* The tree with a range merged into the first node on the way down that   *)
(* it touches, or in a new leaf.                                           *)
CoalesceRange(tree, r) ==
    LET below[n \in DOMAIN tree] ==
            LET up == r.address > tree[n].address
                next == IF up THEN tree[n].right ELSE tree[n].left
            IN  IF up /\ r.address - tree[n].address <= tree[n].length
                THEN MergedUp(tree, n, r)
                ELSE IF ~up /\ tree[n].address - r.address <= r.length
                THEN MergedDown(tree, n, r)
                ELSE IF next # 0 THEN below[next]
                ELSE Append(IF up THEN [tree EXCEPT ![n].right = Len(tree) + 1]
                                  ELSE [tree EXCEPT ![n].left = Len(tree) + 1],
                            Node(r))
    IN  IF tree = <<>> THEN <<Node(r)>> ELSE below[1]

GetCoalesceList(tree) ==
    LET list[n \in 0..Len(tree)] ==
            IF n = 0 THEN <<>>
            ELSE list[tree[n].left]
                 \o <<[address |-> tree[n].address, length |-> tree[n].length]>>
                 \o list[tree[n].right]
    IN  IF tree = <<>> THEN <<>> ELSE list[1]

(* The offset of an address in a list of ranges: what the library and the  *)
(* kernel both compute.  An address that is in none of them gets the       *)
(* length of the list; only the kernel's version says so.                  *)
IsIn(a, r) == a \in r.address .. r.address + r.length - 1

LengthBefore(ranges, i) ==
    MapThenSumSet(LAMBDA j : ranges[j].length, {j \in DOMAIN ranges : j < i})

findOffsetInRanges(a, ranges) ==
    LET found == {i \in DOMAIN ranges : IsIn(a, ranges[i])}
    IN  IF found = {} THEN LengthBefore(ranges, Len(ranges) + 1)
        ELSE LET i == Min(found)
             IN  LengthBefore(ranges, i) + a - ranges[i].address

(* The address that the kernel's map has at an offset: its ranges one after *)
(* the other; 0 behind the end of the map.                                 *)
MappedAt(offset, ranges) ==
    LET of == {i \in DOMAIN ranges :
                  offset - LengthBefore(ranges, i) \in 0 .. ranges[i].length - 1}
    IN  IF of = {} THEN 0
        ELSE LET i == CHOOSE i \in of : TRUE
             IN  ranges[i].address + offset - LengthBefore(ranges, i)

-----------------------------------------------------------------------------
(* The buffers of the program's commands come one by one.                  *)

Covers(b, c) == /\ b.address <= c.address
                /\ c.address + c.length <= b.address + b.length

(* A client that keeps away from the risk gives its buffers in the order   *)
(* of their addresses, or all of them as the port's buffer ranges first.   *)
InOrder(b) ==
    \/ buffers # <<>> /\ Covers(Head(buffers), b)
    \/ \A i \in DOMAIN buffers : buffers[i].address <= b.address

EndsOnFirstByte(b) == (b.address + b.length) % PageSize = 1

CoalesceBuffer(b) ==
    /\ Len(buffers) < MaxBuffers
    /\ "unordered" \in BufferRisks \/ InOrder(b)
    /\ "firstByteOfPage" \in BufferRisks \/ ~EndsOnFirstByte(b)
    /\ buffers' = Append(buffers, b)
    /\ nodes' = CoalesceRange(nodes, PagesOf(b))

BufferInit == nodes = <<>> /\ buffers = <<>>

BufferNext ==
    \E a, n \in 1..LastAddress :
        /\ a + n - 1 <= LastAddress
        /\ CoalesceBuffer([address |-> a, length |-> n])

BufferSpec == BufferInit /\ [][BufferNext]_bufferVars

-----------------------------------------------------------------------------
(* Every byte of every buffer is where the kernel looks for it: the offset *)
(* that the library sends for the buffer's address leads, byte by byte, to *)
(* the buffer in the kernel's map, which is made of whole, separate pages. *)
BuffersAreMapped ==
    LET ranges == GetCoalesceList(nodes) IN
    /\ \A b \in ToSet(buffers) : \A k \in 0 .. b.length - 1 :
          MappedAt(findOffsetInRanges(b.address, ranges) + k, ranges) = b.address + k
    /\ \A i \in DOMAIN ranges :
          /\ ranges[i].address % PageSize = 0 /\ ranges[i].length % PageSize = 0
          /\ i > 1 => ranges[i - 1].address + ranges[i - 1].length < ranges[i].address
=============================================================================
