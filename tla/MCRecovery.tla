----------------------------- MODULE MCRecovery -----------------------------
(***************************************************************************)
(* What a bus reset leaves to be done: the controller finds its way back,  *)
(* devices that are gone are pruned, readers of a configuration ROM find   *)
(* out whether theirs is still good, the IRM allocates the broadcast       *)
(* channel anew; and what sleep leaves to be done at the gate of the work  *)
(* loop.  They do not share state, so each is explored with the others at  *)
(* rest.                                                                   *)
(***************************************************************************)
EXTENDS BusReset, ConfigROM, WorkLoop, BroadcastChannel

VARIABLE way

MCInit ==
    /\ way \in {"bus", "rom", "loop", "broadcast"}
    /\ Init /\ ROMInit /\ LoopInit /\ BroadcastInit
    /\ way # "loop" => risks = {}

MCBus == way = "bus" /\ Next /\ UNCHANGED <<romVars, loopVars, broadcastVars>>
MCROM == way = "rom" /\ ROMNext /\ UNCHANGED <<vars, loopVars, broadcastVars>>
MCLoop == way = "loop" /\ LoopNext /\ UNCHANGED <<vars, romVars, broadcastVars>>
MCBroadcast == way = "broadcast" /\ BroadcastNext
               /\ UNCHANGED <<vars, romVars, loopVars>>

MCNext == UNCHANGED way /\ (MCBus \/ MCROM \/ MCLoop \/ MCBroadcast)

(* Fairness and ROMFairness of the two, each in its own behaviours.        *)
MCFairness ==
    /\ WF_vars(way = "bus" /\ Tick) /\ WF_vars(way = "bus" /\ Timers)
    /\ WF_vars(way = "bus" /\ (BusResetInterrupt \/ processSelfIDs))
    /\ WF_vars(way = "bus" /\ ROMReadDone) /\ WF_vars(way = "bus" /\ Wake)
    /\ WF_romVars(way = "rom" /\ FinishUpdate(TRUE))
    /\ WF_romVars(way = "rom" /\ resetAsked /\ BusReset)
    /\ WF_romVars(way = "rom" /\ SuspendROM) /\ WF_romVars(way = "rom" /\ SetNodeROM)
    /\ \A r \in Readers : WF_romVars(way = "rom" /\ ReaderStep(r))

MCSpec == MCInit /\ [][MCNext]_<<way, vars, romVars, loopVars, broadcastVars>> /\ MCFairness

-----------------------------------------------------------------------------
(* What readers of a ROM, threads at the gate and the IRM leave behind is  *)
(* sound: see the modules (getKeyValue, closeGate, lockComplete)     *)
RecoveryIsSound == ROMsAreSound /\ GateIsKept /\ BroadcastIsSound

(* The controller reaches kRunning, or sleeps, and no device stays without *)
(* a node ID (processBusReset, finishedBusScan, updatePlane); every reader *)
(* of a ROM has in the end read what was published last (hasROMChanged and *)
(* updateROMCache).                                                        *)
BusRecovers ==
    <>[](/\ way = "bus" => /\ fBusState \in {"kRunning", "kAsleep"}
                           /\ missing => fBusState = "kAsleep"
         /\ way = "rom" => CaughtUp)
=============================================================================
