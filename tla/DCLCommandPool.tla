--------------------------- MODULE DCLCommandPool ---------------------------
(***************************************************************************)
(* The library's allocator of old DCL commands (TraditionalDCLCommandPool):*)
(* a block of storage, a list of its free blocks in the order of their     *)
(* addresses, first fit from the end of a block, neighbours merged when a  *)
(* command is freed.  Threads share the pool; the number of free blocks is *)
(* read before the lock is taken.                                          *)
(***************************************************************************)
EXTENDS Integers, Sequences, SequencesExt, FiniteSetsExt

CONSTANTS
    PoolThreads,
    StorageSize,
    CommandSizes,       \* sizes of commands
    GrownSize,          \* bound: what SetSize is called with
    PoolRisks           \* what clients may do, of AllPoolRisks

(* Allocate when nothing is free; use the pool in one thread while another *)
(* one allocates; grow the pool.                                           *)
AllPoolRisks == {"empty", "twoThreads", "grow"}

PoolAssumption == /\ StorageSize \in Nat \ {0} /\ GrownSize \in Nat
                  /\ CommandSizes \subseteq 1..StorageSize
                  /\ PoolRisks \subseteq AllPoolRisks
ASSUME PoolAssumption

VARIABLES
    storage,            \* its number (SetSize makes another) and size
    mFreeBlocks,        \* [in, at, size] in order
    mAllocatedBlocks,   \* the same, as they were allocated
    mBytesRemaining,
    counting,           \* per thread: the count it read, the size it wants
    poolFault           \* "none", or what went wrong

poolVars == <<storage, mFreeBlocks, mAllocatedBlocks, mBytesRemaining, counting,
              poolFault>>

NotAllocating == [count |-> -1, size |-> 0]
Block(in, at, size) == [in |-> in, at |-> at, size |-> size]

PoolInit ==
    /\ storage = [number |-> 1, size |-> StorageSize]
    /\ mFreeBlocks = <<Block(1, 0, StorageSize)>>
    /\ mAllocatedBlocks = <<>>
    /\ mBytesRemaining = StorageSize
    /\ counting = [t \in PoolThreads |-> NotAllocating]
    /\ poolFault = "none"

-----------------------------------------------------------------------------

NobodyAllocates == \A t \in PoolThreads : counting[t] = NotAllocating

BeginAllocate(t, size) ==
    /\ counting[t] = NotAllocating
    /\ "twoThreads" \in PoolRisks \/ NobodyAllocates
    /\ "empty" \in PoolRisks \/ mFreeBlocks # <<>>
    /\ counting' = [counting EXCEPT ![t] = [count |-> Len(mFreeBlocks), size |-> size]]
    /\ UNCHANGED <<storage, mFreeBlocks, mAllocatedBlocks, mBytesRemaining, poolFault>>

(* The loop looks at the blocks up to the count it was given, and at the    *)
(* first one without asking; it takes the first that is large enough.       *)
LastLookedAt(count) == IF count = 0 THEN 1 ELSE count

FirstFit(blocks, size, last) ==
    {i \in DOMAIN blocks : /\ i <= last /\ blocks[i].size >= size
                           /\ \A j \in 1 .. i - 1 : blocks[j].size < size}

ShrunkAtTheFront(blocks, i, size) ==                               \* mutant
    IF blocks[i].size = size THEN RemoveAt(blocks, i)
    ELSE [blocks EXCEPT ![i].size = @ - size, ![i].at = @ + size]

(* What is left of a block whose end was taken; nothing is no block.        *)
Shrunk(blocks, i, size) ==
    IF blocks[i].size = size THEN RemoveAt(blocks, i)
    ELSE [blocks EXCEPT ![i].size = @ - size]

TakenFrom(t, i) ==
    LET b == mFreeBlocks[i]
        new == Block(b.in, b.at + b.size - counting[t].size, counting[t].size)
    IN  /\ mAllocatedBlocks' = Append(mAllocatedBlocks, new)
        /\ mFreeBlocks' = Shrunk(mFreeBlocks, i, counting[t].size)
        /\ mBytesRemaining' = mBytesRemaining - counting[t].size

Allocate(t) ==
    LET last == LastLookedAt(counting[t].count)
        found == FirstFit(mFreeBlocks, counting[t].size, last)
    IN  /\ counting[t] # NotAllocating
        /\ \/ /\ \E i \in found : TakenFrom(t, i)
              /\ UNCHANGED poolFault
           \/ /\ found = {} /\ last <= Len(mFreeBlocks)
              /\ UNCHANGED <<mFreeBlocks, mAllocatedBlocks, mBytesRemaining, poolFault>>
           \/ /\ found = {} /\ last > Len(mFreeBlocks)
              /\ poolFault' = "past the list"
              /\ UNCHANGED <<mFreeBlocks, mAllocatedBlocks, mBytesRemaining>>
        /\ counting' = [counting EXCEPT ![t] = NotAllocating]
        /\ UNCHANGED storage

-----------------------------------------------------------------------------
Before(b, c) == b.in < c.in \/ (b.in = c.in /\ b.at < c.at)

Touch(b, c) == b.in = c.in /\ b.at + b.size = c.at

(* The list with every block merged into the one before it that it touches. *)
CoalesceFreeBlocks(blocks) ==
    FoldLeft(LAMBDA merged, b :
                 IF merged # <<>> /\ Touch(Last(merged), b)
                 THEN [merged EXCEPT ![Len(merged)].size = @ + b.size]
                 ELSE Append(merged, b),
             <<>>, blocks)

Free(i) ==
    LET b == mAllocatedBlocks[i]
        before == Cardinality({j \in DOMAIN mFreeBlocks : ~Before(b, mFreeBlocks[j])})
    IN  /\ i \in DOMAIN mAllocatedBlocks
        /\ "twoThreads" \in PoolRisks \/ NobodyAllocates
        /\ mFreeBlocks' = CoalesceFreeBlocks(InsertAt(mFreeBlocks, before + 1, b))
        /\ mAllocatedBlocks' = RemoveAt(mAllocatedBlocks, i)
        /\ mBytesRemaining' = mBytesRemaining + b.size
        /\ UNCHANGED <<storage, counting, poolFault>>

(* A smaller size is refused, the same one changes nothing; with a larger   *)
(* one the free blocks, and the commands, stay where the old storage was.   *)
SetSize(size) ==
    /\ size > storage.size => "grow" \in PoolRisks
    /\ IF size <= storage.size THEN UNCHANGED <<mFreeBlocks, mBytesRemaining, storage>>
       ELSE /\ mFreeBlocks' = CoalesceFreeBlocks(Append(mFreeBlocks,
                  Block(storage.number, storage.size, size - storage.size)))
            /\ mBytesRemaining' = mBytesRemaining + size - storage.size
            /\ storage' = [number |-> storage.number + 1, size |-> size]
    /\ UNCHANGED <<mAllocatedBlocks, counting, poolFault>>

PoolNext ==
    /\ poolFault = "none"
    /\ \/ \E t \in PoolThreads, size \in CommandSizes : BeginAllocate(t, size)
       \/ \E t \in PoolThreads : Allocate(t)
       \/ \E i \in 1..StorageSize : Free(i)
       \/ \E size \in {StorageSize, GrownSize} : SetSize(size)

PoolSpec == PoolInit /\ [][PoolNext]_poolVars

-----------------------------------------------------------------------------
(* The free blocks and the commands share the pool's storage without a gap  *)
(* or an overlap, whatever the order of allocating and freeing; the free    *)
(* ones are as large as they can be and sum up to what the pool says is     *)
(* left; and nobody reads past the list.                                    *)
Bytes(blocks) == {<<b.in, b.at + k>> : <<b, k>> \in
                    {<<b, k>> \in ToSet(blocks) \X (0 .. storage.size) : k < b.size}}

TotalSize(blocks) == MapThenSumSet(LAMBDA i : blocks[i].size, DOMAIN blocks)

PoolIsPartitioned ==
    LET all == mFreeBlocks \o mAllocatedBlocks IN
    /\ poolFault = "none"
    /\ Bytes(all) = {storage.number} \X (0 .. storage.size - 1)
    /\ TotalSize(all) = storage.size
    /\ TotalSize(mFreeBlocks) = mBytesRemaining
    /\ \A i, j \in DOMAIN mFreeBlocks :
          i < j => /\ Before(mFreeBlocks[i], mFreeBlocks[j])
                   /\ ~Touch(mFreeBlocks[i], mFreeBlocks[j])
=============================================================================
