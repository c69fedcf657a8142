--------------------------- MODULE IRMAllocation ---------------------------
(***************************************************************************)
(* IOFireWireIRMAllocation: a client allocates a channel and bandwidth; a  *)
(* thread for each bus reset claims them again.  The calls of the client,  *)
(* handleBusReset and the threads take fLock; startBusScan calls           *)
(* handleBusReset with the gate closed, and each transaction needs the     *)
(* gate.                                                                   *)
(***************************************************************************)
EXTENDS IRM, Sequences

CONSTANTS
    Requests,        \* what the client may ask for: registers
    Races            \* the races that may happen, of AllRaces

(* A reset comes between the last claim and the registration; the client   *)
(* calls before the thread of the last reset has run; it deallocates in    *)
(* another generation than it allocated in; a scan starts while the holder *)
(* of the lock still needs the gate.                                       *)
AllRaces == {"lateRegistration", "staleThread", "freeAfterReset", "lockOrder"}

Client == 0
Threads == 2..MaxGeneration      \* the thread of each generation
Procs == {Client} \cup Threads
NoGeneration == -1               \* 0xFFFFFFFF
Nobody == -1

AllocationAssumption ==
    /\ Requests \subseteq Registers
    /\ \A r \in Requests : r.bandwidth \in 0..Bandwidth /\ Cardinality(r.channels) <= 1
    /\ Races \subseteq AllRaces
ASSUME AllocationAssumption

VARIABLES
    isAllocated,
    resources,           \* fIsochChannel and fBandwidthUnits
    fAllocationGeneration,
    fLock,               \* its holder, or Nobody
    fIRMAllocations,     \* whether the controller's set has the allocation
    owned,               \* the client has not released its reference
    scan,                \* none, due, or closed: waiting for fLock with the
                         \* gate closed
    pc,
    want, generation,    \* locals of each process
    result,
    expectedOldVal, retries,
    forgotten            \* history: what this generation's failed give-backs
                         \* have left at the IRM

allocVars == <<isAllocated, resources, fAllocationGeneration>>
objVars == <<fIRMAllocations, owned>>
callVars == <<want, generation>>
procVars == <<pc, result, expectedOldVal, retries>>
vars == <<irmVars, allocVars, fLock, objVars, scan, callVars, procVars, forgotten>>

GateIsOpen == scan # "closed"

(* Whether a process holds fLock for no more than to let go of it: its next *)
(* step leaves the controller alone.                                       *)
NeedsNoGate(p) ==
    /\ pc[p] = "end"
    /\ IF p = Client THEN result[p] # "Success"
                     ELSE result[p] \in {"Success", "BusReset"}

Lock(p) == fLock = Nobody /\ fLock' = p
Unlock == fLock' = Nobody

Init ==
    /\ IRMInit
    /\ isAllocated = FALSE /\ resources = Nothing
    /\ fAllocationGeneration = NoGeneration
    /\ fLock = Nobody
    /\ fIRMAllocations = FALSE /\ owned = TRUE
    /\ scan = "none"
    /\ pc = [p \in Procs |-> "none"]
    /\ want = [p \in Procs |-> Nothing]
    /\ generation = [p \in Procs |-> 0]
    /\ result = [p \in Procs |-> "Success"]
    /\ expectedOldVal = [p \in Procs |-> Nothing]
    /\ retries = [p \in Procs |-> 2]
    /\ forgotten = Nothing

-----------------------------------------------------------------------------
(* allocateIRMChannelInGeneration and the three like it: two tries of a    *)
(* compare and swap, the first from the register's default.                *)

Claims == {"claimChannel", "claimBandwidth"}
Releases == {"undoChannel", "freeBandwidth", "freeChannel"}
Register(label) ==
    IF label \in {"claimBandwidth", "freeBandwidth"} THEN "bandwidth" ELSE "channels"

newVal(label, units, old) ==
    CASE label = "claimBandwidth" -> old - units.bandwidth
      [] label = "freeBandwidth" -> old + units.bandwidth
      [] label = "claimChannel" -> old \ units.channels
      [] OTHER -> old \cup units.channels

Possible(label, units, old) ==
    CASE label = "claimBandwidth" -> units.bandwidth <= old
      [] label = "freeBandwidth" -> TRUE
      [] label = "claimChannel" -> units.channels \subseteq old
      [] OTHER -> units.channels \cap old = {}

(* Process p goes to label, where the next transaction starts afresh.      *)
Go(p, label, status) ==
    /\ pc' = [pc EXCEPT ![p] = label]
    /\ result' = [result EXCEPT ![p] = status]
    /\ expectedOldVal' = [expectedOldVal EXCEPT ![p] =
                             IF label \in Claims THEN All ELSE Nothing]
    /\ retries' = [retries EXCEPT ![p] = 2]

LeaveWithoutUndo(p, status) ==                                   \* mutant
    CASE pc[p] = "claimChannel" ->
           Go(p, IF status = "Success" THEN "claimBandwidth" ELSE "end", status)
      [] pc[p] \in {"claimBandwidth", "undoChannel"} -> Go(p, "end", status)
      [] pc[p] = "freeBandwidth" -> Go(p, "freeChannel", "Success")
      [] OTHER -> Go(p, "freed", "Success")

(* allocateIsochResources and threadFunc claim the channel first and give  *)
(* it back if there is no bandwidth; deallocateIsochResources goes on      *)
(* whatever happens.                                                       *)
Leave(p, status) ==
    CASE pc[p] = "claimChannel" ->
           Go(p, IF status = "Success" THEN "claimBandwidth" ELSE "end", status)
      [] pc[p] = "claimBandwidth" ->
           Go(p, IF status = "Success" THEN "end" ELSE "undoChannel", status)
      [] pc[p] = "undoChannel" -> Go(p, "end", result[p])
      [] pc[p] = "freeBandwidth" -> Go(p, "freeChannel", "Success")
      [] OTHER -> Go(p, "freed", "Success")

(* A try ends without a swap; nobody looks at the result of a give-back.   *)
Ends(p, status) ==
    /\ Leave(p, status)
    /\ UNCHANGED irmVars
    /\ forgotten' =
          IF status = "NotAvailable" /\ pc[p] \in Releases /\ InGeneration(generation[p])
          THEN [forgotten EXCEPT ![Register(pc[p])] = newVal(pc[p], want[p], @)]
          ELSE forgotten

(* The last alternative: the register has changed once more, or the        *)
(* transaction times out or is refused (the second try compares with       *)
(* actualOldVal, which was then never set, and makes no difference).       *)
Transact(p) ==
    /\ pc[p] \in Claims \cup Releases
    /\ GateIsOpen
    /\ LET r == Register(pc[p])
           old == expectedOldVal[p][r]
       IN  CASE want[p][r] = Nothing[r] -> Ends(p, "Success")
             [] want[p][r] # Nothing[r] /\ retries[p] = 2 /\ ~InGeneration(generation[p]) ->
                  Ends(p, "BusReset")
             [] want[p][r] # Nothing[r] /\ ~Possible(pc[p], want[p], old) ->
                  Ends(p, "NotAvailable")
             [] OTHER ->
                  IF ~InGeneration(generation[p]) THEN Ends(p, "BusReset")
                  ELSE \/ /\ reg[r] = old
                          /\ Swap(r, newVal(pc[p], want[p], old))
                          /\ Leave(p, "Success")
                          /\ UNCHANGED forgotten
                       \/ /\ reg[r] # old /\ retries[p] = 2
                          /\ retries' = [retries EXCEPT ![p] = 1]
                          /\ expectedOldVal' = [expectedOldVal EXCEPT ![p] = reg]
                          /\ UNCHANGED <<irmVars, pc, result, forgotten>>
                       \/ Ends(p, "NotAvailable")
    /\ UNCHANGED <<allocVars, fLock, objVars, scan, callVars>>

-----------------------------------------------------------------------------
(* The client.                                                             *)

ThreadsHaveRun == \A p \in Threads : pc[p] # "thread"

ClientMayCall == /\ pc[Client] = "none" /\ owned
                 /\ "staleThread" \in Races \/ ThreadsHaveRun

allocateIsochResources ==
    /\ ClientMayCall /\ ~isAllocated /\ GateIsOpen
    /\ Lock(Client)
    /\ fAllocationGeneration' = NoGeneration
    /\ generation' = [generation EXCEPT ![Client] = fBusGeneration]
    /\ \E request \in Requests : want' = [want EXCEPT ![Client] = request]
    /\ Go(Client, "claimChannel", "Success")
    /\ UNCHANGED <<irmVars, isAllocated, resources, objVars, scan, forgotten>>

(* The allocation, if it was made, is registered with the controller.      *)
Allocated ==
    /\ pc[Client] = "end" /\ (GateIsOpen \/ NeedsNoGate(Client))
    /\ IF result[Client] = "Success"
       THEN /\ isAllocated' = TRUE
            /\ resources' = want[Client]
            /\ fAllocationGeneration' = generation[Client]
            /\ fIRMAllocations' = TRUE
       ELSE UNCHANGED <<allocVars, fIRMAllocations>>
    /\ Unlock
    /\ Go(Client, "none", "Success")
    /\ UNCHANGED <<irmVars, owned, scan, callVars, forgotten>>

deallocateIsochResources ==
    /\ ClientMayCall /\ isAllocated
    /\ "freeAfterReset" \in Races \/ fAllocationGeneration = fBusGeneration
    /\ Lock(Client)
    /\ generation' = [generation EXCEPT ![Client] = fAllocationGeneration]
    /\ want' = [want EXCEPT ![Client] = resources]
    /\ Go(Client, "freeBandwidth", "Success")
    /\ UNCHANGED <<irmVars, allocVars, objVars, scan, forgotten>>

Deallocated ==
    /\ pc[Client] = "freed" /\ GateIsOpen
    /\ fIRMAllocations' = FALSE
    /\ isAllocated' = FALSE
    /\ resources' = Nothing
    /\ fAllocationGeneration' = NoGeneration
    /\ Unlock
    /\ Go(Client, "none", "Success")
    /\ UNCHANGED <<irmVars, owned, scan, callVars, forgotten>>

(* References: the client's, one of each thread, one of the set of         *)
(* fIRMAllocations and one of fIRMAllocationsAllocated, which has every    *)
(* allocation from its init.                                               *)
RetainCount == 1 + Cardinality({p \in Threads : pc[p] # "none"})
                 + (IF owned THEN 1 ELSE 0) + (IF fIRMAllocations THEN 1 ELSE 0)

(* The client's release, which looks for a count of two.                   *)
release ==
    /\ ClientMayCall
    /\ fLock = Nobody
    /\ owned' = FALSE
    /\ fIRMAllocations' = (fIRMAllocations /\ ~(RetainCount = 2 /\ isAllocated))
    /\ UNCHANGED <<irmVars, allocVars, fLock, scan, callVars, procVars, forgotten>>

-----------------------------------------------------------------------------
(* The controller and the threads.                                         *)

HandleAnyGeneration ==                                           \* mutant
    /\ scan' = "none"
    /\ IF isAllocated
       THEN /\ want' = [want EXCEPT ![fBusGeneration] = resources]
            /\ generation' = [generation EXCEPT ![fBusGeneration] = fBusGeneration]
            /\ Go(fBusGeneration, "thread", "Success")
       ELSE UNCHANGED <<callVars, procVars>>

(* With fLock free: a thread is started with the fields as they are.       *)
HandleBusReset ==
    /\ scan' = "none"
    /\ IF isAllocated /\ fAllocationGeneration # fBusGeneration
       THEN /\ want' = [want EXCEPT ![fBusGeneration] = resources]
            /\ generation' = [generation EXCEPT ![fBusGeneration] = fBusGeneration]
            /\ Go(fBusGeneration, "thread", "Success")
       ELSE UNCHANGED <<callVars, procVars>>

startBusScan ==
    /\ scan = "due"
    /\ \/ "lockOrder" \in Races
       \/ ~fIRMAllocations
       \/ fLock # Nobody => NeedsNoGate(fLock)
    /\ CASE ~fIRMAllocations ->
              scan' = "none" /\ UNCHANGED <<callVars, procVars>>
         [] fIRMAllocations /\ fLock # Nobody ->
              scan' = "closed" /\ UNCHANGED <<callVars, procVars>>
         [] OTHER -> HandleBusReset
    /\ UNCHANGED <<irmVars, allocVars, fLock, objVars, forgotten>>

handleBusReset ==
    /\ scan = "closed" /\ fLock = Nobody
    /\ HandleBusReset
    /\ UNCHANGED <<irmVars, allocVars, fLock, objVars, forgotten>>

threadFunc(p) ==
    /\ pc[p] = "thread" /\ GateIsOpen
    /\ IF p = fBusGeneration /\ fAllocationGeneration # NoGeneration
       THEN Lock(p) /\ Go(p, "claimChannel", "Success")
       ELSE fLock = Nobody /\ UNCHANGED fLock /\ Go(p, "none", "Success")
    /\ UNCHANGED <<irmVars, allocVars, objVars, scan, callVars, forgotten>>

(* failedToRealloc, unless another reset has come.                         *)
Reallocated(p) ==
    /\ pc[p] = "end" /\ (GateIsOpen \/ NeedsNoGate(p))
    /\ IF result[p] \in {"Success", "BusReset"}
       THEN UNCHANGED <<allocVars, fIRMAllocations>>
       ELSE /\ fIRMAllocations' = FALSE
            /\ isAllocated' = FALSE
            /\ fAllocationGeneration' = NoGeneration
            /\ UNCHANGED resources
    /\ Unlock
    /\ Go(p, "none", "Success")
    /\ UNCHANGED <<irmVars, owned, scan, callVars, forgotten>>

(* The client's thread has made its last claim, and not yet registered it.  *)
LastClaimIsMade ==
    \/ pc[Client] = "end" /\ result[Client] = "Success"
    \/ pc[Client] = "claimBandwidth" /\ want[Client].bandwidth = 0

BusReset ==
    /\ GateIsOpen
    /\ "lateRegistration" \in Races \/ ~LastClaimIsMade
    /\ "staleThread" \in Races \/ ThreadsHaveRun
    /\ ResetRegisters
    /\ scan' = "due" /\ forgotten' = Nothing
    /\ UNCHANGED <<allocVars, fLock, objVars, callVars, procVars>>

OtherNodes ==
    /\ OtherNodesClaim \/ OtherNodesRelease
    /\ UNCHANGED <<allocVars, fLock, objVars, scan, callVars, procVars, forgotten>>

ClientStep == Transact(Client) \/ Allocated \/ Deallocated
ThreadStep(p) == threadFunc(p) \/ Transact(p) \/ Reallocated(p)
Scan == startBusScan \/ handleBusReset

Next == \/ allocateIsochResources \/ deallocateIsochResources \/ release
        \/ ClientStep
        \/ \E p \in Threads : ThreadStep(p)
        \/ Scan \/ BusReset \/ OtherNodes

Spec == /\ Init /\ [][Next]_vars
        /\ WF_vars(ClientStep) /\ WF_vars(Scan)
        /\ \A p \in Threads : WF_vars(ThreadStep(p))
-----------------------------------------------------------------------------
(* Properties.                                                             *)

TypeOK ==
    /\ fBusGeneration \in 1..MaxGeneration
    /\ reg \in Registers /\ held \in Registers /\ others \in Registers
    /\ reg.bandwidth \in 0..Bandwidth
    /\ resources \in Requests \cup {Nothing}
    /\ fAllocationGeneration \in 0..fBusGeneration \cup {NoGeneration}
    /\ fLock \in Procs \cup {Nobody}
    /\ want \in [Procs -> Requests \cup {Nothing}]
    /\ retries \in [Procs -> 1..2]
    /\ forgotten \in Registers

(* The registers and the fields of the allocation stay in their ranges,    *)
(* and nothing is given back that another node holds.                      *)
OwnResourcesOnly == TypeOK /\ OthersKeepTheirs

Quiet == scan = "none" /\ \A p \in Procs : pc[p] = "none"

(* This node holds these units, and besides them what it has forgotten.    *)
HoldsJust(units) ==
    /\ held.bandwidth = units.bandwidth + forgotten.bandwidth
    /\ held.channels = units.channels \cup forgotten.channels
    /\ units.channels \cap forgotten.channels = {}

(* When nothing is under way, the resources that the allocation records    *)
(* are what this node holds, and without an allocation it holds nothing,   *)
(* but for what it tried to give back in this generation and could not:    *)
(* deallocateIsochResources is to "free isoch resources previously         *)
(* allocated with a call to allocateIsochResources"                        *)
(* (IOFireWireIRMAllocation.h:60).                                         *)
HeldWhileAllocated ==
    Quiet => HoldsJust(IF isAllocated THEN resources ELSE Nothing)

(* The client is told that the allocation is lost only if a part of it is: *)
(* it is the callback "if reallocation after bus-reset is unsuccessful"    *)
(* (IOFireWireIRMAllocation.h:44).                                         *)
LostOnlyIfNotHeld ==
    [][\A p \in Threads : Reallocated(p) /\ ~isAllocated' => ~HoldsJust(resources)]_vars

(* What a reset took is claimed again, or the allocation is given up.      *)
Reallocates ==
    (isAllocated /\ ~HoldsJust(resources)) ~> (~isAllocated \/ HoldsJust(resources))

(* What a reset took is not just forgotten: it comes back, or the client   *)
(* hears of it.                                                            *)
LossesAreTold == LostOnlyIfNotHeld /\ Reallocates
=============================================================================
