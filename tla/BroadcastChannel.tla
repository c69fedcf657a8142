--------------------------- MODULE BroadcastChannel ---------------------------
(***************************************************************************)
(* IOFireWireIRM: the controller as the isochronous resource manager of    *)
(* the bus.  After each reset it allocates the broadcast channel in its    *)
(* own CHANNELS_AVAILABLE register by compare and swap, like any other     *)
(* node and in a race with all of them, and tells by the valid bit of its  *)
(* BROADCAST_CHANNEL register that others may use it.                      *)
(*                                                                         *)
(* External: CHANNELS_AVAILABLE is in the FWIM's hardware, which swaps for *)
(* all nodes and sets every channel free at a reset, before the controller *)
(* hears of it.  The lock of a local register is over when submit returns. *)
(***************************************************************************)
EXTENDS Integers

CONSTANTS
    ChannelNumbers,      \* the channels 0 to 31, or some of them
    Broadcast,           \* 31
    IDs,                 \* node IDs
    kFWBadNodeID,        \* the IRM's when there is no contender
    LockRetries,         \* 8
    MaxIRMResets         \* BOUND: resets of the bus

ASSUME BroadcastAssumption ==
    /\ Broadcast \in ChannelNumbers
    /\ LockRetries \in Nat
    /\ kFWBadNodeID \notin IDs /\ IDs \subseteq Nat

VARIABLES
    hardware,    \* the generation of the bus and CHANNELS_AVAILABLE, as a set
    claimed,     \* HISTORY: the channels other nodes have claimed
    irm,         \* what the controller was told: fOurNodeID, fIRMNodeID, fGeneration
    lockCmd,     \* fLockCmdInUse, fLockRetries, the old and the new channels
    valid,       \* the valid bit of fBroadcastChannelBuffer
    allocated    \* HISTORY: the generation in which the lock succeeded

broadcastVars == <<hardware, claimed, irm, lockCmd, valid, allocated>>

BroadcastInit ==
    /\ hardware = [generation |-> 0, channels |-> ChannelNumbers]
    /\ claimed = {}
    /\ irm = [fOurNodeID |-> kFWBadNodeID, fIRMNodeID |-> kFWBadNodeID, fGeneration |-> 0]
    /\ lockCmd = [fLockCmdInUse |-> FALSE, fLockRetries |-> 0, old |-> {}, new |-> {}]
    /\ valid = FALSE
    /\ allocated = -1
-----------------------------------------------------------------------------
(* The bus                                                                 *)

BusIsReset ==
    /\ hardware.generation < MaxIRMResets
    /\ hardware' = [generation |-> hardware.generation + 1, channels |-> ChannelNumbers]
    /\ claimed' = {}
    /\ UNCHANGED <<irm, lockCmd, valid, allocated>>

(* The broadcast channel is the IRM's to allocate                          *)
OtherNodeClaims(c) ==
    /\ c \in hardware.channels \ {Broadcast}
    /\ hardware' = [hardware EXCEPT !.channels = @ \ {c}]
    /\ claimed' = claimed \cup {c}
    /\ UNCHANGED <<irm, lockCmd, valid, allocated>>

OtherNodeReleases(c) ==
    /\ c \in claimed
    /\ hardware' = [hardware EXCEPT !.channels = @ \cup {c}]
    /\ claimed' = claimed \ {c}
    /\ UNCHANGED <<irm, lockCmd, valid, allocated>>
-----------------------------------------------------------------------------
(* The IRM                                                                 *)

(* Not when it is the only node                                            *)
isIRMActive(i) == i.fOurNodeID = i.fIRMNodeID /\ i.fOurNodeID # 0

KeepsNew(cmd) == [cmd EXCEPT !.fLockCmdInUse = TRUE]               \* mutant

allocateBroadcastChannel(cmd) ==
    [cmd EXCEPT !.fLockCmdInUse = TRUE, !.new = cmd.old \ {Broadcast}]

FirstLock ==
    allocateBroadcastChannel([fLockCmdInUse |-> FALSE, fLockRetries |-> LockRetries,
                              old |-> ChannelNumbers, new |-> ChannelNumbers \ {Broadcast}])

(* processSelfIDs tells of the reset.  A lock that were still in use would *)
(* be cancelled, which leaves it unused                                    *)
resetOfTheIRM(ourNodeID, irmNodeID) ==
    /\ irm.fGeneration < hardware.generation
    /\ ~lockCmd.fLockCmdInUse
    /\ irm' = [fOurNodeID |-> ourNodeID, fIRMNodeID |-> irmNodeID,
               fGeneration |-> hardware.generation]
    /\ IF isIRMActive(irm')
       THEN lockCmd' = FirstLock /\ UNCHANGED valid
       ELSE valid' = FALSE /\ UNCHANGED lockCmd
    /\ UNCHANGED <<hardware, claimed, allocated>>

(* The lock is performed: lockComplete tries again with the channels there *)
(* are, a few times, and else the broadcast channel is valid, allocated or *)
(* not.  Other nodes swap between two tries                                *)
LockSucceeds ==
    /\ lockCmd.fLockCmdInUse
    /\ hardware.channels = lockCmd.old
    /\ hardware' = [hardware EXCEPT !.channels = lockCmd.new]
    /\ lockCmd' = [lockCmd EXCEPT !.fLockCmdInUse = FALSE]
    /\ valid' = TRUE
    /\ allocated' = hardware.generation
    /\ UNCHANGED <<claimed, irm>>

LockIsTriedAgain ==
    /\ lockCmd.fLockCmdInUse
    /\ hardware.channels # lockCmd.old
    /\ lockCmd.fLockRetries # 0
    /\ lockCmd' = allocateBroadcastChannel(
          [lockCmd EXCEPT !.fLockRetries = @ - 1, !.old = hardware.channels])
    /\ UNCHANGED <<hardware, claimed, irm, valid, allocated>>

(* There is no label, or the register does not answer                      *)
LockFails ==
    /\ lockCmd.fLockCmdInUse
    /\ lockCmd' = [lockCmd EXCEPT !.fLockCmdInUse = FALSE]
    /\ valid' = TRUE
    /\ UNCHANGED <<hardware, claimed, irm, allocated>>

LockIsGivenUp ==
    /\ lockCmd.fLockCmdInUse
    /\ hardware.channels # lockCmd.old
    /\ lockCmd.fLockRetries = 0
    /\ lockCmd' = [lockCmd EXCEPT !.fLockCmdInUse = FALSE, !.old = hardware.channels,
                                  !.fLockRetries = -1]
    /\ valid' = TRUE
    /\ UNCHANGED <<hardware, claimed, irm, allocated>>

BroadcastNext ==
    \/ BusIsReset
    \/ \E c \in ChannelNumbers : OtherNodeClaims(c) \/ OtherNodeReleases(c)
    \/ \E our \in IDs, i \in IDs \cup {kFWBadNodeID} : resetOfTheIRM(our, i)
    \/ LockSucceeds \/ LockIsTriedAgain \/ LockFails \/ LockIsGivenUp

BroadcastSpec == BroadcastInit /\ [][BroadcastNext]_broadcastVars
-----------------------------------------------------------------------------
(* Properties                                                              *)

BroadcastTypeOK ==
    /\ hardware.channels \subseteq ChannelNumbers /\ hardware.generation \in Nat
    /\ lockCmd.fLockRetries \in -1 .. LockRetries
    /\ lockCmd.old \subseteq ChannelNumbers
    /\ irm.fGeneration <= hardware.generation

(* The allocation gives nothing back that another node has claimed, however*)
(* often it is tried (lockComplete)                                        *)
OthersKeepTheirChannels == claimed \cap hardware.channels = {}

(* The channel that was allocated in this generation of the bus is taken   *)
AllocatedIsTaken ==
    allocated = hardware.generation => Broadcast \notin hardware.channels

(* The valid bit is set at the IRM of the bus only, as far as the          *)
(* controller has been told                                                *)
OnlyTheIRMIsValid == valid \/ lockCmd.fLockCmdInUse => isIRMActive(irm)

BroadcastIsSound ==
    OthersKeepTheirChannels /\ AllocatedIsTaken /\ OnlyTheIRMIsValid /\ BroadcastTypeOK
=============================================================================
