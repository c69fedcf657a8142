-------------------------------- MODULE IRM --------------------------------
(***************************************************************************)
(* The registers of the bus's isochronous resource manager, which every    *)
(* node changes with compare and swap transactions, as seen from a node    *)
(* that claims isochronous resources.  A transaction is for a generation;  *)
(* a bus reset begins the next one, and frees what was claimed.            *)
(***************************************************************************)
EXTENDS Integers, FiniteSets

CONSTANTS
    Channels,
    Bandwidth,       \* all units of bandwidth
    OthersWant,      \* what the other nodes claim: a register of each kind
    MaxGeneration,   \* bound: the last generation
    MaxMoves         \* bound: claims and releases of the other nodes

Registers == [bandwidth : Int, channels : SUBSET Channels]
Nothing == [bandwidth |-> 0, channels |-> {}]
All == [bandwidth |-> Bandwidth, channels |-> Channels]

IRMAssumption == /\ IsFiniteSet(Channels)
                 /\ Bandwidth \in Nat
                 /\ OthersWant \in Registers
                 /\ OthersWant.bandwidth \in 0..Bandwidth
                 /\ MaxGeneration \in Nat \ {0}
                 /\ MaxMoves \in Nat
ASSUME IRMAssumption

VARIABLES
    fBusGeneration,
    reg,             \* what is available
    held,            \* history: what this node has taken out of the registers
    others,          \* what the other nodes hold
    moves            \* claims and releases the other nodes have left

irmVars == <<fBusGeneration, reg, held, others, moves>>

IRMInit == /\ fBusGeneration = 1      \* the reset that brought the bus up
           /\ reg = All
           /\ held = Nothing
           /\ others = Nothing
           /\ moves = MaxMoves

(* What a holder has after register r goes from old to new.                *)
Balance(holding, r, old, new) ==
    [holding EXCEPT ![r] = IF r = "bandwidth" THEN @ + old - new
                           ELSE (@ \cup (old \ new)) \ (new \ old)]

-----------------------------------------------------------------------------
(* This node's transactions in a generation.                               *)

InAnyGeneration(generation) == TRUE                              \* mutant

InGeneration(generation) == generation = fBusGeneration

(* A compare and swap that succeeds.                                       *)
Swap(r, new) ==
    /\ reg' = [reg EXCEPT ![r] = new]
    /\ held' = Balance(held, r, reg[r], new)
    /\ UNCHANGED <<fBusGeneration, others, moves>>

-----------------------------------------------------------------------------
(* The rest of the bus.                                                    *)

OtherSwaps(r, new) ==
    /\ moves > 0
    /\ moves' = moves - 1
    /\ reg' = [reg EXCEPT ![r] = new]
    /\ others' = Balance(others, r, reg[r], new)
    /\ UNCHANGED <<fBusGeneration, held>>

OtherNodesClaim ==
    \/ /\ reg.bandwidth >= OthersWant.bandwidth
       /\ others.bandwidth < OthersWant.bandwidth
       /\ OtherSwaps("bandwidth", reg.bandwidth - OthersWant.bandwidth)
    \/ \E c \in OthersWant.channels \cap reg.channels :
           OtherSwaps("channels", reg.channels \ {c})

OtherNodesRelease ==
    \/ /\ others.bandwidth > 0
       /\ OtherSwaps("bandwidth", reg.bandwidth + others.bandwidth)
    \/ \E c \in others.channels :
           OtherSwaps("channels", reg.channels \cup {c})

ResetRegisters ==
    /\ fBusGeneration < MaxGeneration
    /\ fBusGeneration' = fBusGeneration + 1
    /\ reg' = All
    /\ held' = Nothing
    /\ others' = Nothing
    /\ UNCHANGED moves
-----------------------------------------------------------------------------
(* What another node holds is never given back: this node releases no more *)
(* bandwidth than it has claimed, and no channel but its own.              *)
OthersKeepTheirs == /\ held.bandwidth >= 0
                    /\ reg.channels \cap others.channels = {}
=============================================================================
