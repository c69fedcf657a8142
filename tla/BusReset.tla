------------------------------ MODULE BusReset ------------------------------
(***************************************************************************)
(* The bus reset and bus scan state machine of IOFireWireController:       *)
(* resetBus, doBusReset, the two delayed commands that drive it            *)
(* (fDelayedStateChangeCmd and fBusResetStateChangeCmd), the interrupts of *)
(* the FWIM (processBusReset, processSelfIDs), the bus scan as a count of  *)
(* ROM reads, critical sections, and sleep and wake.                       *)
(*                                                                         *)
(* Every handler runs with the work loop's gate closed, so each is one     *)
(* action.  A handler is written as an operator on a record s of the       *)
(* controller's variables, so that the calls it makes are operator         *)
(* applications in the order of the code.                                  *)
(***************************************************************************)
EXTENDS Integers

CONSTANTS
    kScanBusDelay,             \* the delays of the controller, in ticks
    kBusResetStartTimeout,
    kBusResetTimeout,
    kSelfIDTimeout,
    kRepeatResetDelay,
    kNormalDevicePruneDelay,
    kOnlyNodeDevicePruneDelay,
    kWakeDevicePruneDelay,
    kWakeDevicePruneDelayBusy,
    kMaxWaitForValidSelfID,    \* self-ID timeouts before the FWIM is told
    MaxRemoteNodes,            \* bound: nodes on the bus besides this one
    MaxDisabled,               \* bound: critical sections open at once
    MaxTrouble,                \* bound: disturbances in a behaviour
    Faults                     \* what the hardware may do wrong

DelaysAssumption ==
    /\ {kScanBusDelay, kBusResetStartTimeout, kBusResetTimeout,
        kSelfIDTimeout, kRepeatResetDelay, kNormalDevicePruneDelay,
        kOnlyNodeDevicePruneDelay, kWakeDevicePruneDelay,
        kWakeDevicePruneDelayBusy} \subseteq Nat \ {0}
    /\ kMaxWaitForValidSelfID \in Nat
ASSUME DelaysAssumption

BoundsAssumption ==
    /\ {MaxRemoteNodes, MaxDisabled, MaxTrouble} \subseteq Nat
    /\ Faults \subseteq {"fail", "lose", "late", "noSelfIDs"}
ASSUME BoundsAssumption

VARIABLES
    fBusState,               \* enum busState
    fBusResetState,          \* enum ResetState
    fBusResetScheduled,      \* a reset is wanted once it is allowed
    fBusResetDisabledCount,  \* calls of disableSoftwareBusResets in force
    fDelayedStateChangeCmd,  \* [busy, timeout, left] of the state timer
    fBusResetStateChangeCmd, \* [busy, left] of the reset-disabled timer
    fDelayedStateChangeCmdNeedAbort,
    fWaitingForSelfID,       \* self-ID timeouts in a row
    fNumROMReads,            \* ROM reads the scan still counts on
    fDevicePruneDelay,
    scanReads,               \* ROM reads in flight
    missing,                 \* a device not terminated has no node ID
    phy,                     \* what the FWIM is about to report
    trouble                  \* disturbances left

timerVars == <<fDelayedStateChangeCmd, fBusResetStateChangeCmd,
               fDelayedStateChangeCmdNeedAbort>>
scanVars  == <<fWaitingForSelfID, fNumROMReads, fDevicePruneDelay,
               scanReads, missing>>
resetVars == <<fBusState, fBusResetState, fBusResetScheduled,
               fBusResetDisabledCount>>
vars == <<resetVars, timerVars, scanVars, phy, trouble>>

BusStates ==
    {"kStarting", "kAsleep", "kWaitingBusReset", "kWaitingSelfIDs",
     "kWaitingScan", "kScanning", "kWaitingPrune", "kRunning",
     "kWaitingBusResetStart"}
ResetStates == {"Resetting", "Disabled", "Arbitrated"}
PhyStates == {"quiet", "reset", "selfid"}
PruneDelays == {kNormalDevicePruneDelay, kOnlyNodeDevicePruneDelay,
                kWakeDevicePruneDelay, kWakeDevicePruneDelayBusy}

-----------------------------------------------------------------------------
(* The controller's state as a record, and the step to a new record.       *)

Now == [fBusState |-> fBusState,
        fBusResetState |-> fBusResetState,
        fBusResetScheduled |-> fBusResetScheduled,
        fBusResetDisabledCount |-> fBusResetDisabledCount,
        fDelayedStateChangeCmd |-> fDelayedStateChangeCmd,
        fBusResetStateChangeCmd |-> fBusResetStateChangeCmd,
        fDelayedStateChangeCmdNeedAbort |-> fDelayedStateChangeCmdNeedAbort,
        fWaitingForSelfID |-> fWaitingForSelfID,
        fNumROMReads |-> fNumROMReads,
        fDevicePruneDelay |-> fDevicePruneDelay,
        scanReads |-> scanReads,
        missing |-> missing,
        phy |-> phy]

Becomes(s) ==
    /\ fBusState' = s.fBusState
    /\ fBusResetState' = s.fBusResetState
    /\ fBusResetScheduled' = s.fBusResetScheduled
    /\ fBusResetDisabledCount' = s.fBusResetDisabledCount
    /\ fDelayedStateChangeCmd' = s.fDelayedStateChangeCmd
    /\ fBusResetStateChangeCmd' = s.fBusResetStateChangeCmd
    /\ fDelayedStateChangeCmdNeedAbort' = s.fDelayedStateChangeCmdNeedAbort
    /\ fWaitingForSelfID' = s.fWaitingForSelfID
    /\ fNumROMReads' = s.fNumROMReads
    /\ fDevicePruneDelay' = s.fDevicePruneDelay
    /\ scanReads' = s.scanReads
    /\ missing' = s.missing
    /\ phy' = s.phy

(* A step that uses up n disturbances of the environment.                  *)
Costs(n) == /\ n <= trouble
            /\ trouble' = trouble - n

(* What may come of fFWIM->resetBus: a reset, an error returned, or success *)
(* returned and no reset.                                                  *)
FWIMOutcomes == {"reset"} \cup (Faults \cap {"fail", "lose"})

PhyAfter(p, out) == IF out = "reset" THEN "reset" ELSE p

awake == fBusState \notin {"kStarting", "kAsleep"}

-----------------------------------------------------------------------------
(* The delayed commands.                                                   *)

InUseButForPrune(s) ==                                          \* mutant
    s.fBusState \in {"kWaitingBusReset", "kWaitingSelfIDs", "kWaitingScan"}

delayedStateCommandInUse(s) ==
    s.fBusState \in {"kWaitingBusReset", "kWaitingSelfIDs",
                     "kWaitingScan", "kWaitingPrune"}

(* IOFWCommand::cancel of a delay command: it leaves the timeout queue and *)
(* its callback, seeing an abort, does nothing.                            *)
Cancelled(cmd) == [cmd EXCEPT !.busy = FALSE, !.left = 0]

(* IOFWDelayCommand::reinit and submit: the reinit of a command that is    *)
(* still busy is refused and leaves its old delay; the submit then moves   *)
(* the command in the timeout queue by that delay.                         *)
Armed(cmd, delay) ==
    LET timeout == IF cmd.busy THEN cmd.timeout ELSE delay
    IN  [busy |-> TRUE, timeout |-> timeout, left |-> timeout]

CancelIfInUse(s) ==
    IF delayedStateCommandInUse(s)
    THEN [s EXCEPT !.fDelayedStateChangeCmd = Cancelled(@)]
    ELSE s

(* Cancel the state timer if its state uses it, enter a state, and start   *)
(* the timer of that state.                                                *)
WaitIn(s, state, delay) ==
    [CancelIfInUse(s) EXCEPT !.fBusState = state,
                             !.fDelayedStateChangeCmd = Armed(@, delay)]

-----------------------------------------------------------------------------
(* Software bus resets.                                                    *)

doBusReset(s, out) ==
    LET waiting == WaitIn([s EXCEPT !.fBusResetState = "Resetting"],
                          "kWaitingBusReset", kBusResetTimeout)
    IN  IF out # "fail"
        THEN [waiting EXCEPT !.phy = PhyAfter(@, out),
                             !.fWaitingForSelfID =
                                 IF @ > kMaxWaitForValidSelfID THEN 0 ELSE @]
        ELSE [waiting EXCEPT !.fDelayedStateChangeCmd = Cancelled(@),
                             !.fBusState = "kRunning"]

ResetBusInSections(s, out) ==                                   \* mutant
    CASE s.fBusResetState = "Disabled" ->
            [s EXCEPT !.fBusResetScheduled = TRUE]
      [] s.fBusResetState = "Arbitrated" -> doBusReset(s, out)
      [] OTHER -> s

resetBus(s, out) ==
    CASE s.fBusResetState = "Disabled" ->
            [s EXCEPT !.fBusResetScheduled = TRUE]
      [] s.fBusResetState = "Arbitrated" /\ s.fBusResetDisabledCount = 0 ->
            doBusReset(s, out)
      [] /\ s.fBusResetState = "Arbitrated"
         /\ s.fBusResetDisabledCount > 0
         /\ ~s.fBusResetScheduled ->
            WaitIn([s EXCEPT !.fBusResetScheduled = TRUE],
                   "kWaitingBusResetStart", kBusResetStartTimeout)
      [] OTHER -> s

DisabledWithoutTimer(s) == [s EXCEPT !.fBusResetState = "Disabled"] \* mutant

enterBusResetDisabledState(s) ==
    [s EXCEPT !.fBusResetState = "Disabled",
              !.fBusResetStateChangeCmd =
                  [busy |-> TRUE, left |-> kRepeatResetDelay]]

(* checkProgress may find that a device has been gone for too long; what   *)
(* it does to waiting commands is in the module of those commands.         *)
checkProgress(s, tooLong) ==
    [s EXCEPT !.missing = @ /\ ~tooLong]

-----------------------------------------------------------------------------
(* Bus resets seen, self-IDs, and the scan.                                *)

BusResetWithoutTimer(s, tooLong) ==                             \* mutant
    [CancelIfInUse(enterBusResetDisabledState(
         [s EXCEPT !.fBusResetScheduled = FALSE]))
     EXCEPT !.fBusState = "kWaitingSelfIDs"]

processBusReset(s, tooLong) ==
    LET disabled == CancelIfInUse(enterBusResetDisabledState(
                        [s EXCEPT !.fBusResetScheduled = FALSE]))
        progress == checkProgress([disabled EXCEPT
                                     !.fBusState = "kWaitingSelfIDs"], tooLong)
    IN  [progress EXCEPT !.fDelayedStateChangeCmd =
                             Armed(@, kSelfIDTimeout)]

SuspendKeepsReads(s) == [s EXCEPT !.missing = TRUE]             \* mutant

(* Every device loses its node ID, every pending transaction ends with a   *)
(* bus reset, and with them the ROM reads of the scan.                     *)
suspendBus(s) == [s EXCEPT !.missing = TRUE, !.scanReads = 0]

(* processSelfIDs up to the point where the self-IDs are looked at.        *)
SelfIDsArrived(s, tooLong) ==
    LET resetSeen == IF s.fBusState # "kWaitingSelfIDs"
                     THEN processBusReset(s, tooLong) ELSE s
        suspended == suspendBus(resetSeen)
    IN  [suspended EXCEPT !.fDelayedStateChangeCmd = Cancelled(@),
                          !.fBusState = "kWaitingScan",
                          !.phy = "quiet"]

(* Why a finished scan wants another reset of the bus, if it does.         *)
Verdicts == {"settled", "cycleMaster", "duplicateGUID", "busManager"}

PruneDelay(s, onlyNode) ==
    CASE ~s.missing -> kNormalDevicePruneDelay
      [] /\ s.missing /\ onlyNode
         /\ s.fDevicePruneDelay < kOnlyNodeDevicePruneDelay ->
            kOnlyNodeDevicePruneDelay
      [] OTHER -> s.fDevicePruneDelay

(* finishedBusScan: AssignCycleMaster resets the bus through the FWIM and  *)
(* not through resetBus; the bus manager's part is skipped when a reset is *)
(* scheduled already.                                                      *)
finishedBusScan(s, verdict, onlyNode, out) ==
    CASE verdict = "cycleMaster" ->
            [s EXCEPT !.phy = PhyAfter(@, out)]
      [] verdict \in {"duplicateGUID", "busManager"} -> resetBus(s, out)
      [] verdict = "settled" /\ s.fBusState = "kScanning" ->
            LET delay == PruneDelay(s, onlyNode)
            IN  [s EXCEPT !.fDevicePruneDelay = delay,
                          !.fBusState = "kWaitingPrune",
                          !.fDelayedStateChangeCmd = Armed(@, delay)]
      [] OTHER -> s

VerdictsFor(s, onlyNode) ==
    {v \in Verdicts :
        /\ v = "busManager" => ~s.fBusResetScheduled
        /\ onlyNode => v \notin {"duplicateGUID", "busManager"}}

startBusScan(s, nodes) ==
    [s EXCEPT !.fNumROMReads = nodes, !.scanReads = @ + nodes]

PruneKeepsDevices(s, again, out) ==                             \* mutant
    [s EXCEPT !.fDevicePruneDelay = kNormalDevicePruneDelay]

updatePlane(s, again, out) ==
    LET pruned == [s EXCEPT !.fDevicePruneDelay = kNormalDevicePruneDelay,
                            !.missing = FALSE]
    IN  IF again THEN resetBus(pruned, out) ELSE pruned

-----------------------------------------------------------------------------
(* Init is the controller that init() has built: zeroed, not powered yet.  *)

Init ==
    /\ fBusState = "kStarting"
    /\ fBusResetState = "Resetting"
    /\ fBusResetScheduled = FALSE
    /\ fBusResetDisabledCount = 0
    /\ fDelayedStateChangeCmd =
           [busy |-> FALSE, timeout |-> kScanBusDelay, left |-> 0]
    /\ fBusResetStateChangeCmd = [busy |-> FALSE, left |-> 0]
    /\ fDelayedStateChangeCmdNeedAbort = FALSE
    /\ fWaitingForSelfID = 0
    /\ fNumROMReads = 0
    /\ fDevicePruneDelay = kNormalDevicePruneDelay
    /\ scanReads = 0
    /\ missing = FALSE
    /\ phy = "quiet"
    /\ trouble = MaxTrouble

(* resetBus called by a client of the bus: a unit directory added or       *)
(* removed, makeRoot, a device whose ROM could not be read, a user client. *)
ClientResetBus ==
    /\ awake
    /\ Costs(1)
    /\ \E out \in FWIMOutcomes : Becomes(resetBus(Now, out))

disableSoftwareBusResets ==
    /\ awake
    /\ fBusResetDisabledCount < MaxDisabled
    /\ \/ fBusResetState = "Disabled"
       \/ fBusResetState = "Arbitrated" /\ ~fBusResetScheduled
    /\ fBusResetDisabledCount' = fBusResetDisabledCount + 1
    /\ UNCHANGED <<fBusState, fBusResetState, fBusResetScheduled,
                   timerVars, scanVars, phy, trouble>>

enableSoftwareBusResets ==
    /\ awake
    /\ fBusResetDisabledCount > 0
    /\ LET s == [Now EXCEPT !.fBusResetDisabledCount = @ - 1]
       IN  \E out \in FWIMOutcomes :
              Becomes(IF /\ s.fBusResetState = "Arbitrated"
                         /\ s.fBusResetDisabledCount = 0
                         /\ s.fBusResetScheduled
                      THEN doBusReset(s, out) ELSE s)
    /\ UNCHANGED trouble

-----------------------------------------------------------------------------
(* The timers.                                                             *)

StateTimerDue == /\ awake
                 /\ fDelayedStateChangeCmd.busy
                 /\ fDelayedStateChangeCmd.left = 0

(* delayedStateChange starts from the controller with its timer completed. *)
Fired == [Now EXCEPT !.fDelayedStateChangeCmd = Cancelled(@)]

(* A timer that beats an answer on its way is a disturbance.               *)
MayBeLate == IF phy = "quiet" THEN Costs(0)
             ELSE "late" \in Faults /\ Costs(1)

BusResetStartTimeout ==
    /\ StateTimerDue
    /\ fBusState = "kWaitingBusResetStart"
    /\ \E out \in FWIMOutcomes : Becomes(doBusReset(Fired, out))
    /\ UNCHANGED trouble

BusResetTimeout ==
    /\ StateTimerDue
    /\ fBusState = "kWaitingBusReset"
    /\ MayBeLate
    /\ \E out \in FWIMOutcomes, tooLong \in BOOLEAN :
          Becomes(resetBus([enterBusResetDisabledState(
                                checkProgress(Fired, tooLong))
                              EXCEPT !.fBusState = "kRunning"], out))

SelfIDTimeout ==
    /\ StateTimerDue
    /\ fBusState = "kWaitingSelfIDs"
    /\ MayBeLate
    /\ fWaitingForSelfID <= kMaxWaitForValidSelfID + 1   \* bound
    /\ \E out \in FWIMOutcomes :
          Becomes(resetBus([Fired EXCEPT !.fBusState = "kRunning",
                                         !.fWaitingForSelfID = @ + 1], out))

ScanDelayOver ==
    /\ StateTimerDue
    /\ fBusState = "kWaitingScan"
    /\ \E nodes \in 0..MaxRemoteNodes, out \in FWIMOutcomes :
       LET scanning == startBusScan([Fired EXCEPT !.fBusState = "kScanning",
                                                  !.fWaitingForSelfID = 0],
                                    nodes)
       IN  \/ nodes > 0 /\ Becomes(scanning) /\ UNCHANGED trouble
           \/ /\ nodes = 0
              /\ \E verdict \in VerdictsFor(scanning, TRUE) :
                    /\ Becomes(finishedBusScan(scanning, verdict, TRUE, out))
                    /\ Costs(IF verdict = "settled" THEN 0 ELSE 1)

PruneDelayOver ==
    /\ StateTimerDue
    /\ fBusState = "kWaitingPrune"
    /\ \E again \in BOOLEAN, out \in FWIMOutcomes :
          /\ Becomes(updatePlane([Fired EXCEPT !.fBusState = "kRunning"],
                                 again, out))
          /\ Costs(IF again THEN 1 ELSE 0)

(* The default case of delayedStateChange: the state has moved on.         *)
StrayTimeout ==
    /\ StateTimerDue
    /\ fBusState \in {"kScanning", "kRunning"}
    /\ Becomes(Fired)
    /\ UNCHANGED trouble

resetStateChange ==
    /\ awake
    /\ fBusResetStateChangeCmd.busy /\ fBusResetStateChangeCmd.left = 0
    /\ LET s == [Now EXCEPT !.fBusResetStateChangeCmd.busy = FALSE,
                            !.fBusResetState = "Arbitrated"]
       IN  \/ ~fBusResetScheduled /\ Becomes(s)
           \/ /\ fBusResetScheduled /\ fBusResetDisabledCount = 0
              /\ \E out \in FWIMOutcomes : Becomes(doBusReset(s, out))
           \/ /\ fBusResetScheduled /\ fBusResetDisabledCount > 0
              /\ Becomes(WaitIn(s, "kWaitingBusResetStart",
                                kBusResetStartTimeout))
    /\ UNCHANGED trouble

-----------------------------------------------------------------------------
(* The FWIM's interrupts and the completions of the ROM reads.             *)

BusResetInterrupt ==
    /\ awake
    /\ phy = "reset"
    /\ \E tooLong \in BOOLEAN :
          Becomes([processBusReset(Now, tooLong) EXCEPT !.phy = "selfid"])
    /\ UNCHANGED trouble

(* Self-IDs may come without an interrupt for their reset.                 *)
processSelfIDs ==
    /\ awake
    /\ phy # "quiet"
    /\ \E tooLong \in BOOLEAN :
       LET s == SelfIDsArrived(Now, tooLong)
       IN  \/ /\ Becomes([s EXCEPT !.fDelayedStateChangeCmd =
                                       Armed(@, kScanBusDelay)])
              /\ UNCHANGED trouble
           \/ /\ \E out \in FWIMOutcomes : Becomes(resetBus(s, out))
              /\ Costs(1)                       \* a bad or missing self-ID

(* A ROM read ends; a node that only answered busy after a wake gets more  *)
(* time before it is pruned.                                               *)
ROMRead(s, busyX) ==
    [s EXCEPT !.scanReads = @ - 1,
              !.fNumROMReads = @ - 1,
              !.fDevicePruneDelay =
                  IF /\ busyX
                     /\ @ >= kWakeDevicePruneDelay
                     /\ @ < kWakeDevicePruneDelayBusy
                  THEN kWakeDevicePruneDelayBusy ELSE @]

(* With the last read the scan ends; updateDevice has given every device   *)
(* it found its node ID back, and some may be gone.                        *)
ROMReadDone ==
    /\ awake
    /\ scanReads > 0
    /\ \E busyX, gone \in BOOLEAN, out \in FWIMOutcomes :
       LET s == ROMRead(Now, busyX)
           all == [s EXCEPT !.missing = @ /\ gone]
       IN  \/ s.fNumROMReads # 0 /\ Becomes(s) /\ UNCHANGED trouble
           \/ /\ s.fNumROMReads = 0
              /\ \E verdict \in VerdictsFor(all, FALSE) :
                    /\ Becomes(finishedBusScan(all, verdict, FALSE, out))
                    /\ Costs(IF verdict = "settled" THEN 0 ELSE 1)

(* A ROM read is failed by a reset whose self-IDs are not in yet.          *)
ROMReadBusReset ==
    /\ awake
    /\ scanReads > 0
    /\ phy # "quiet"
    /\ scanReads' = scanReads - 1
    /\ UNCHANGED <<resetVars, timerVars, fWaitingForSelfID, fNumROMReads,
                   fDevicePruneDelay, missing, phy, trouble>>

-----------------------------------------------------------------------------
(* Power.                                                                  *)

Wake ==
    /\ fBusState \in {"kStarting", "kAsleep"}
    /\ \E out \in FWIMOutcomes :
          Becomes([Now EXCEPT
              !.fDevicePruneDelay = kWakeDevicePruneDelay,
              !.fBusState = "kRunning",
              !.fDelayedStateChangeCmdNeedAbort = FALSE,
              !.fDelayedStateChangeCmd =
                  IF fDelayedStateChangeCmdNeedAbort THEN Cancelled(@) ELSE @,
              !.phy = PhyAfter(@, out)])
    /\ UNCHANGED trouble

(* The reset sent before the hardware is turned off may or may not be      *)
(* reported after the wake.                                                *)
Sleep ==
    /\ awake
    /\ Costs(1)
    /\ \E p \in PhyStates :
          Becomes([Now EXCEPT
              !.fDelayedStateChangeCmdNeedAbort =
                  IF delayedStateCommandInUse(Now) THEN TRUE ELSE @,
              !.fBusResetStateChangeCmd =
                  IF fBusResetState = "Disabled"
                  THEN [@ EXCEPT !.busy = FALSE] ELSE @,
              !.fBusResetState =
                  IF @ = "Disabled" THEN "Resetting" ELSE @,
              !.fBusResetScheduled = FALSE,
              !.fBusState = "kAsleep",
              !.phy = p])

-----------------------------------------------------------------------------
(* The environment: time, the other nodes of the bus, lost events.         *)

Elapsed(cmd) == IF cmd.busy THEN [cmd EXCEPT !.left = @ - 1] ELSE cmd
Due(cmd) == cmd.busy /\ cmd.left = 0

(* A timer that is due is served before time goes on; a Mac asleep stops   *)
(* its clock.                                                              *)
Tick ==
    /\ awake
    /\ fDelayedStateChangeCmd.busy \/ fBusResetStateChangeCmd.busy
    /\ ~Due(fDelayedStateChangeCmd) /\ ~Due(fBusResetStateChangeCmd)
    /\ fDelayedStateChangeCmd' = Elapsed(fDelayedStateChangeCmd)
    /\ fBusResetStateChangeCmd' = Elapsed(fBusResetStateChangeCmd)
    /\ UNCHANGED <<resetVars, fDelayedStateChangeCmdNeedAbort, scanVars,
                   phy, trouble>>

(* Another node, or an unsafe reset of a user client, resets the bus.      *)
OtherReset ==
    /\ awake
    /\ phy # "reset"
    /\ Costs(1)
    /\ phy' = "reset"
    /\ UNCHANGED <<resetVars, timerVars, scanVars>>

(* The self-IDs of a reset never arrive.                                   *)
LoseSelfIDs ==
    /\ awake
    /\ "noSelfIDs" \in Faults
    /\ phy = "selfid"
    /\ Costs(1)
    /\ phy' = "quiet"
    /\ UNCHANGED <<resetVars, timerVars, scanVars>>

-----------------------------------------------------------------------------
Timers == \/ BusResetStartTimeout \/ BusResetTimeout \/ SelfIDTimeout
          \/ ScanDelayOver \/ PruneDelayOver \/ StrayTimeout
          \/ resetStateChange

Next == \/ ClientResetBus
        \/ disableSoftwareBusResets
        \/ enableSoftwareBusResets
        \/ Timers
        \/ BusResetInterrupt
        \/ processSelfIDs
        \/ ROMReadDone
        \/ ROMReadBusReset
        \/ Wake
        \/ Sleep
        \/ Tick
        \/ OtherReset
        \/ LoseSelfIDs

Spec == Init /\ [][Next]_vars

(* Time passes, due timers are served, the FWIM's interrupts are handled   *)
(* and ROM reads end (each has a timeout of its own).  Nothing is assumed  *)
(* of clients: a critical section may never end.                           *)
Fairness == /\ WF_vars(Tick)
            /\ WF_vars(Timers)
            /\ WF_vars(BusResetInterrupt \/ processSelfIDs)
            /\ WF_vars(ROMReadDone)
            /\ WF_vars(Wake)

FairSpec == Spec /\ Fairness
-----------------------------------------------------------------------------
(* Properties.                                                             *)

StateTimers == [busy : BOOLEAN, timeout : Nat, left : Nat]
ResetTimers == [busy : BOOLEAN, left : Nat]

(* The values each variable takes; a controller never counts fewer ROM     *)
(* reads than are in flight, so fNumROMReads does not wrap.                *)
TypeOK ==
    /\ fBusState \in BusStates
    /\ fBusResetState \in ResetStates
    /\ fBusResetScheduled \in BOOLEAN
    /\ fBusResetDisabledCount \in 0..MaxDisabled
    /\ fDelayedStateChangeCmd \in StateTimers
    /\ fBusResetStateChangeCmd \in ResetTimers
    /\ fDelayedStateChangeCmdNeedAbort \in BOOLEAN
    /\ fWaitingForSelfID \in Nat
    /\ fNumROMReads \in 0..MaxRemoteNodes
    /\ fDevicePruneDelay \in PruneDelays
    /\ scanReads \in 0..fNumROMReads
    /\ missing \in BOOLEAN
    /\ phy \in PhyStates
    /\ trouble \in 0..MaxTrouble

(* A reset that was asked for and not sent always has a timer that will    *)
(* send it: in the two seconds after a reset (kResetStateDisabled) the     *)
(* timer that ends them, afterwards kBusResetStartTimeout, whatever the    *)
(* open critical sections do.                                              *)
ScheduledResetHasATimer ==
    fBusResetScheduled /\ awake =>
        CASE fBusResetState = "Disabled" -> fBusResetStateChangeCmd.busy
          [] fBusResetState = "Arbitrated" ->
                /\ fBusState = "kWaitingBusResetStart"
                /\ fDelayedStateChangeCmd.busy
                /\ fDelayedStateChangeCmd.timeout = kBusResetStartTimeout
          [] OTHER -> TRUE

(* The controller never waits in a state nothing will end: every waiting   *)
(* state has its timer running, except a scan delay that bad self-IDs cut  *)
(* short, where a scheduled reset will end it.                             *)
WaitIsTimed ==
    /\ fBusState \in {"kWaitingBusReset", "kWaitingSelfIDs",
                      "kWaitingPrune", "kWaitingBusResetStart"} =>
           fDelayedStateChangeCmd.busy
    /\ fBusState = "kWaitingScan" =>
           fDelayedStateChangeCmd.busy \/ fBusResetScheduled

(* A state never gets a delay shorter than its own, nor any other than its *)
(* own or the one of kWaitingBusResetStart that reinit failed to replace.  *)
DelayFits ==
    LET timeout == fDelayedStateChangeCmd.timeout
    IN  /\ fBusState = "kWaitingBusReset" =>
               timeout \in {kBusResetTimeout, kBusResetStartTimeout}
        /\ fBusState = "kWaitingSelfIDs" =>
               timeout \in {kSelfIDTimeout, kBusResetStartTimeout}
        /\ fBusState = "kWaitingPrune" => timeout = fDevicePruneDelay
        /\ fBusState = "kWaitingScan" /\ fDelayedStateChangeCmd.busy =>
               timeout = kScanBusDelay

(* A controller that waits, for a reset it has been asked for or in a      *)
(* state of a reset, has the timer that ends the wait, with a delay that   *)
(* is right for it (processBusReset, fDelayedStateChangeCmd).              *)
ResetsAreTimed == TypeOK /\ ScheduledResetHasATimer /\ WaitIsTimed /\ DelayFits

(* Devices are pruned only for a scan that has read every node: no ROM     *)
(* read of an earlier generation is in flight when the prune delay runs.   *)
PruneAfterScan == fBusState = "kWaitingPrune" => scanReads = 0

(* Once resets are arbitrated, software resets the bus inside a critical   *)
(* section only when the section has held a wanted reset off for           *)
(* kBusResetStartTimeout.                                                  *)
ResetsRespectCriticalSections ==
    [][/\ fBusResetState = "Arbitrated"
       /\ fBusResetState' = "Resetting"
       /\ fBusResetDisabledCount' > 0
       => /\ fBusState = "kWaitingBusResetStart"
          /\ Due(fDelayedStateChangeCmd)
          /\ fDelayedStateChangeCmd.timeout = kBusResetStartTimeout]_vars

(* When the disturbances end, the controller finds its way to kRunning,    *)
(* or stays asleep, even if clients never leave their critical sections.   *)
Settles == <>[](fBusState \in {"kRunning", "kAsleep"})

(* A device that a reset left without a node ID does not stay so: a scan   *)
(* finds it or the end of the prune delay terminates it.                   *)
MissingDevicesPruned == <>[](missing => fBusState = "kAsleep")

(* "1000 mSec delay for a bus reset to occur after one was requested"      *)
(* (IOFireWireController.cpp:148).                                         *)
BusResetWaitsItsDelay ==
    fBusState = "kWaitingBusReset" =>
        fDelayedStateChangeCmd.timeout = kBusResetTimeout

=============================================================================
