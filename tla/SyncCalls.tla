------------------------------ MODULE SyncCalls ------------------------------
(***************************************************************************)
(* The synchronous transactions of the user space library: Device::Read,    *)
(* ReadQuadlet, Write, WriteQuadlet, CompareSwap and CompareSwap64, the     *)
(* user client's functions that make a command for each, submit it and      *)
(* block the client's thread in an IOFWSyncer, and what becomes of the      *)
(* command on a bus that is reset meanwhile.                                *)
(*                                                                          *)
(* The command is made outside the gate: the node ID is the nub's of that   *)
(* moment, the generation the caller's.  It is submitted with the gate      *)
(* closed, after whatever the work loop was doing.                          *)
(*                                                                          *)
(* Abstracted: what is read and written and where (module Transfer), the    *)
(* queues and labels (module AsyncCommand), a client of the local node.     *)
(***************************************************************************)
EXTENDS Integers

CONSTANTS
    Threads,                 \* the client's threads, each in one call at a time
    NodeIDs,                 \* the IDs nodes can have on the bus
    MaxGenerations,          \* BOUND: the generations of the bus
    kFWCmdDefaultRetries,    \* fMaxRetries of a command
    LearnsEarly              \* the client uses a generation in which its device
                             \* has not been found yet; see the README

kFWBadNodeID == 65535

ASSUME BadNodeIDAssumption == kFWBadNodeID \notin NodeIDs
ASSUME RetriesAssumption == kFWCmdDefaultRetries \in Nat

VARIABLES
    thread,   \* the call each thread is in
    command,      \* the command that is made for it
    bus,      \* the generation, the state of the scan and the node IDs
    fNub,     \* the nub of the client's device: its generation and node ID
    quad      \* HISTORY: the quadlet of the device that the threads lock

syncVars == <<thread, command, bus, fNub, quad>>

Devices == {"mine", "other"}     \* the client's device, and one that is not
Free == "free"                   \* the quadlet when nobody has locked it
Rival == "rival"                 \* and when another node has

Success == "kIOReturnSuccess"

ASSUME CallersAssumption ==
    /\ Threads \cap {Free, Rival} = {}
    /\ MaxGenerations \in Nat \ {0}

(* doneIn, swaps and astray are history: the generations in which the       *)
(* device performed the call, how often it swapped, and whether another     *)
(* device performed it                                                      *)
AtRest == [pc |-> "idle", op |-> "none", isAbs |-> FALSE, failOnReset |-> FALSE,
           generation |-> 0, nodeID |-> kFWBadNodeID, err |-> Success,
           doneIn |-> {}, swaps |-> 0, astray |-> FALSE]

(* onWire: is a request out, or has its answer been lost?                   *)
NoCommand == [fStatus |-> "none", fFailOnReset |-> FALSE, fGeneration |-> 0,
              fNodeID |-> kFWBadNodeID, fCurRetries |-> 0, fOldVal |-> "none",
              threadMustStop |-> TRUE, fResult |-> Success, onWire |-> "nothing"]

(* Every assignment of node IDs.  The client's device may leave the bus, and *)
(* the other take its place                                                 *)
Assignments ==
    {at \in [Devices -> NodeIDs \cup {kFWBadNodeID}] :
        at["mine"] # at["other"] /\ at["other"] # kFWBadNodeID}

(* told: for each generation, the node ID that the nub had in it            *)
SyncInit ==
    /\ thread = [t \in Threads |-> AtRest]
    /\ command = [t \in Threads |-> NoCommand]
    /\ \E at \in Assignments :
          /\ at["mine"] # kFWBadNodeID
          /\ bus = [generation |-> 1, phase |-> "settled", at |-> at,
                    told |-> [g \in 1 .. MaxGenerations |->
                                 IF g = 1 THEN at["mine"] ELSE kFWBadNodeID]]
          /\ fNub = [fGeneration |-> 1, fNodeID |-> at["mine"]]
    /\ quad = Free

(* The work loop holds the gate while it suspends the bus                   *)
GateIsOpen == bus.phase # "suspending"
scanningBus == bus.phase \in {"suspending", "scanning"}
-----------------------------------------------------------------------------
(* The library                                                              *)

MayUse(g) == LearnsEarly \/ bus.told[g] # kFWBadNodeID

(* What each of the calls begins with: the client has opened the device and *)
(* the call is for it, or for an absolute address (device 0), which has the *)
(* node ID of the device in the generation that is named                    *)
Call(t, op) ==
    /\ thread[t].pc = "idle"
    /\ \/ /\ \E status \in {"kIOReturnNotOpen", "kIOReturnBadArgument"} :
                thread' = [thread EXCEPT ![t].pc = "returned", ![t].op = op, ![t].err = status]
       \/ \E g \in 1 .. bus.generation, failOnReset, isAbs \in BOOLEAN :
             /\ MayUse(g)
             /\ isAbs => bus.told[g] # kFWBadNodeID
             /\ thread' = [thread EXCEPT ![t] =
                   [AtRest EXCEPT !.pc = "called", !.op = op, !.isAbs = isAbs,
                                  !.failOnReset = failOnReset, !.generation = g,
                                  !.nodeID = IF isAbs THEN bus.told[g] ELSE kFWBadNodeID]]
    /\ UNCHANGED <<command, bus, fNub, quad>>

DeviceRead(t) == Call(t, "read")
DeviceReadQuadlet(t) == Call(t, "readQuad")
DeviceWrite(t) == Call(t, "write")
DeviceWriteQuadlet(t) == Call(t, "writeQuad")
DeviceCompareSwap(t) == Call(t, "lock")
-----------------------------------------------------------------------------
(* The user client makes the command                                        *)

(* MUTANT of NubCommand: the caller's generation is not used                *)
NubsGeneration(c) ==
    [NoCommand EXCEPT !.fStatus = "kIOReturnNotReady", !.fFailOnReset = c.failOnReset,
                      !.fNodeID = fNub.fNodeID, !.fGeneration = fNub.fGeneration,
                      !.fCurRetries = kFWCmdDefaultRetries]

(* initAll with a device takes the nub's node ID and generation, and the    *)
(* user client replaces the generation by the caller's                      *)
NubCommand(c) ==
    [NoCommand EXCEPT !.fStatus = "kIOReturnNotReady", !.fFailOnReset = c.failOnReset,
                      !.fNodeID = fNub.fNodeID, !.fGeneration = c.generation,
                      !.fCurRetries = kFWCmdDefaultRetries]

(* initAll with an absolute address: failOnReset, whatever was asked        *)
AbsoluteCommand(c) ==
    [NoCommand EXCEPT !.fStatus = "kIOReturnNotReady", !.fFailOnReset = TRUE,
                      !.fNodeID = c.nodeID, !.fGeneration = c.generation,
                      !.fCurRetries = kFWCmdDefaultRetries]

CreateCommand(t) ==
    /\ thread[t].pc = "called"
    /\ command' = [command EXCEPT ![t] = IF thread[t].isAbs THEN AbsoluteCommand(thread[t])
                                 ELSE NubCommand(thread[t])]
    /\ thread' = [thread EXCEPT ![t].pc = "created"]
    /\ UNCHANGED <<bus, fNub, quad>>

(* The client's memory cannot be described or wired (read and write), or    *)
(* there is none for a command.  writeQuad does not look, unless the        *)
(* address is absolute                                                      *)
CannotCreate(t) ==
    LET c == thread[t]
    IN  /\ c.pc = "called"
        /\ \E status \in {"kIOReturnNoMemory", "kIOReturnVMError"} :
              /\ status = "kIOReturnVMError" => c.op \in {"read", "write"}
              /\ c.op = "writeQuad" => c.isAbs
              /\ thread' = [thread EXCEPT ![t].pc = "answered", ![t].err = status]
        /\ UNCHANGED <<command, bus, fNub, quad>>
-----------------------------------------------------------------------------
(* The command                                                              *)

(* MUTANT of Signalled: only a success wakes the thread                     *)
OnlySuccessSignalled(c, status) ==
    [c EXCEPT !.fStatus = status, !.fResult = status, !.threadMustStop = status # Success,
              !.onWire = "nothing"]

(* The end of complete: the syncer has the result and its thread may go on  *)
Signalled(c, status) ==
    [c EXCEPT !.fStatus = status, !.fResult = status, !.threadMustStop = FALSE,
              !.onWire = "nothing"]

(* complete( kIOFireWireBusReset ): unless failOnReset, a command waits for *)
(* the end of the scan.  If it has waited too long already, what            *)
(* checkProgress says of that is lost                                       *)
ResetCompletion(c, scanning, tooLong) ==
    IF c.fFailOnReset \/ tooLong THEN Signalled(c, "kIOFireWireBusReset")
    ELSE IF scanning THEN [c EXCEPT !.fStatus = "kIOFireWirePending", !.onWire = "nothing"]
    ELSE Signalled(c, "kIOReturnOffline")

(* execute: unless failOnReset the nub is asked again                       *)
Asked(c, nub) ==
    IF c.fFailOnReset THEN c
    ELSE [c EXCEPT !.fGeneration = nub.fGeneration, !.fNodeID = nub.fNodeID]

(* ... there may be no label, and checkGeneration refuses what is of        *)
(* another generation.  luck says what the moment brings                    *)
Luck == [label : BOOLEAN, tooLong : BOOLEAN]

Executed(c, nub, scanning, luck) ==
    LET a == Asked(c, nub)
    IN  IF ~luck.label THEN Signalled(a, "kIOFireWireOutOfTLabels")
        ELSE IF a.fGeneration # bus.generation THEN ResetCompletion(a, scanning, luck.tooLong)
        ELSE [a EXCEPT !.fStatus = "kIOReturnBusy", !.onWire = "request"]

(* IOFWCommand::submit: without a syncer nothing is executed; an error      *)
(* comes back at once; else the thread waits                                *)
SubmitCommand(t) ==
    /\ thread[t].pc = "created"
    /\ \/ /\ thread' = [thread EXCEPT ![t].pc = "submitted", ![t].err = "kIOReturnNoMemory"]
          /\ UNCHANGED command
       \/ /\ GateIsOpen
          /\ \E luck \in Luck :
                LET c == Executed(command[t], fNub, scanningBus, luck)
                IN  /\ command' = [command EXCEPT ![t] = c]
                    /\ thread' = [thread EXCEPT ![t] =
                          IF c.fStatus \in {"kIOReturnBusy", "kIOFireWirePending"}
                          THEN [@ EXCEPT !.pc = "waits"]
                          ELSE [@ EXCEPT !.pc = "submitted", !.err = c.fStatus]]
    /\ UNCHANGED <<bus, fNub, quad>>

(* The device with the node ID takes the request, if it came that far.  A   *)
(* write to the bad node ID is one to all nodes                             *)
Reaches(t, d) ==
    /\ command[t].onWire = "request"
    /\ bus.at[d] # kFWBadNodeID
    /\ \/ command[t].fNodeID = bus.at[d]
       \/ command[t].fNodeID = kFWBadNodeID /\ thread[t].op \in {"write", "writeQuad"}

(* What the device does that performs the transaction                       *)
PerformedBy(t, d) ==
    IF d = "other" THEN [thread[t] EXCEPT !.astray = TRUE]
    ELSE [thread[t] EXCEPT !.doneIn = @ \cup {bus.generation},
                           !.swaps = IF thread[t].op = "lock" /\ quad = Free THEN @ + 1 ELSE @]

LockedBy(t, d) == IF d = "mine" /\ thread[t].op = "lock" /\ quad = Free THEN t ELSE quad

(* gotPacket: the device has performed the transaction, if perhaps with an  *)
(* answer of the wrong length, or refuses it                                *)
GotPacket(t, d) ==
    /\ GateIsOpen
    /\ Reaches(t, d)
    /\ command[t].fNodeID = bus.at[d]
    /\ \/ /\ \E status \in {Success, "kIOFireWireInvalidResponseLength"} :
                command' = [command EXCEPT ![t] = [Signalled(@, status) EXCEPT !.fOldVal = quad]]
          /\ thread' = [thread EXCEPT ![t] = PerformedBy(t, d)]
          /\ quad' = LockedBy(t, d)
       \/ /\ command' = [command EXCEPT ![t] = Signalled(@, "kIOFireWireResponseBase")]
          /\ UNCHANGED <<thread, quad>>
    /\ UNCHANGED <<bus, fNub>>

(* The answer is lost: the transaction has been performed all the same      *)
AnswerIsLost(t, d) ==
    /\ GateIsOpen
    /\ Reaches(t, d)
    /\ command' = [command EXCEPT ![t].onWire = "lost"]
    /\ thread' = [thread EXCEPT ![t] = PerformedBy(t, d)]
    /\ quad' = LockedBy(t, d)
    /\ UNCHANGED <<bus, fNub>>

(* complete( kIOReturnTimeout ): while retries are left, the command is     *)
(* executed again if the node was busy, it is a read of the ROM or the FWIM *)
(* agrees                                                                   *)
TimesOut(t) ==
    LET c == [command[t] EXCEPT !.fCurRetries = @ - 1]
    IN  /\ GateIsOpen
        /\ command[t].onWire # "nothing"
        /\ \/ /\ command[t].fCurRetries > 0
              /\ \E luck \in Luck :
                    command' = [command EXCEPT ![t] = Executed(c, fNub, scanningBus, luck)]
           \/ command' = [command EXCEPT ![t] = Signalled(c, "kIOReturnTimeout")]
        /\ UNCHANGED <<thread, bus, fNub, quad>>
-----------------------------------------------------------------------------
(* The thread goes on                                                       *)

(* IOFWSyncer::wait                                                         *)
Wakes(t) ==
    /\ thread[t].pc = "waits"
    /\ ~command[t].threadMustStop
    /\ thread' = [thread EXCEPT ![t].pc = "submitted", ![t].err = command[t].fResult]
    /\ UNCHANGED <<command, bus, fNub, quad>>

(* The user client asks the command for its status: writeQuad if submit     *)
(* failed, the others if it did not                                         *)
StatusOf(t) ==
    IF thread[t].op = "writeQuad"
    THEN IF thread[t].err # Success THEN command[t].fStatus ELSE Success
    ELSE IF thread[t].err = Success THEN command[t].fStatus ELSE thread[t].err

(* MUTANT of Judged: the kernel's word is taken for it                      *)
KernelsWord(t, status) == {status}

(* CompareSwap judges by the old value, which compareSwap gives it when it  *)
(* succeeds.  If not, what it looks at has never been written               *)
Judged(t, status) ==
    IF thread[t].op # "lock" THEN {status}
    ELSE IF thread[t].err = Success
         THEN {IF command[t].fOldVal = Free THEN status ELSE "kIOReturnCannotLock"}
    ELSE {status, "kIOReturnCannotLock"}

(* The command is released and the calls come back                          *)
Return(t) ==
    /\ thread[t].pc \in {"submitted", "answered"}
    /\ \E err \in Judged(t, IF thread[t].pc = "submitted" THEN StatusOf(t) ELSE thread[t].err) :
          thread' = [thread EXCEPT ![t].pc = "returned", ![t].err = err]
    /\ command' = [command EXCEPT ![t] = NoCommand]
    /\ UNCHANGED <<bus, fNub, quad>>

(* The client goes on; a lock that it knows it has, it gives back           *)
GoesOn(t) ==
    /\ thread[t].pc = "returned"
    /\ thread' = [thread EXCEPT ![t] = AtRest]
    /\ quad' = IF thread[t].op = "lock" /\ thread[t].err = Success THEN Free ELSE quad
    /\ UNCHANGED <<command, bus, fNub>>
-----------------------------------------------------------------------------
(* The bus                                                                  *)

(* suspendBus counts the generation up, before it comes to the nub          *)
CountsUp ==
    /\ GateIsOpen
    /\ bus.generation < MaxGenerations
    /\ bus' = [bus EXCEPT !.generation = @ + 1, !.phase = "suspending"]
    /\ UNCHANGED <<thread, command, fNub, quad>>

(* ... the nub gets the old generation and loses its node ID, and what is   *)
(* outstanding ends                                                         *)
suspendBusNub ==
    /\ bus.phase = "suspending"
    /\ \E at \in Assignments : bus' = [bus EXCEPT !.phase = "scanning", !.at = at]
    /\ fNub' = [fGeneration |-> bus.generation - 1, fNodeID |-> kFWBadNodeID]
    /\ \E tooLong \in [Threads -> BOOLEAN] :
          command' = [t \in Threads |->
                     IF command[t].onWire # "nothing"
                     THEN ResetCompletion(command[t], TRUE, tooLong[t]) ELSE command[t]]
    /\ UNCHANGED <<thread, quad>>

(* Another node, or another client of the device, locks the quadlet or      *)
(* gives it back                                                            *)
RivalLocks ==
    /\ quad \in {Free, Rival}
    /\ quad' = IF quad = Free THEN Rival ELSE Free
    /\ UNCHANGED <<thread, command, bus, fNub>>

(* setNodeROM: the scan has found the device                                *)
setNodeROM ==
    /\ bus.phase = "scanning"
    /\ bus.at["mine"] # kFWBadNodeID
    /\ fNub' = [fGeneration |-> bus.generation, fNodeID |-> bus.at["mine"]]
    /\ bus' = [bus EXCEPT !.told[bus.generation] = bus.at["mine"]]
    /\ UNCHANGED <<thread, command, quad>>

(* finishedBusScan executes the commands that waited.  None is left for it  *)
(* to cancel after that                                                     *)
ScanIsFinished ==
    /\ bus.phase = "scanning"
    /\ bus' = [bus EXCEPT !.phase = "settled"]
    /\ \E luck \in [Threads -> Luck] :
          command' = [t \in Threads |->
                     IF command[t].fStatus = "kIOFireWirePending"
                     THEN Executed(command[t], fNub, FALSE, luck[t]) ELSE command[t]]
    /\ UNCHANGED <<thread, fNub, quad>>
-----------------------------------------------------------------------------
SyncNext ==
    \/ \E t \in Threads :
          \/ DeviceRead(t) \/ DeviceReadQuadlet(t) \/ DeviceWrite(t) \/ DeviceWriteQuadlet(t) \/ DeviceCompareSwap(t)
          \/ CreateCommand(t) \/ CannotCreate(t) \/ SubmitCommand(t) \/ TimesOut(t)
          \/ Wakes(t) \/ Return(t) \/ GoesOn(t)
          \/ \E d \in Devices : GotPacket(t, d) \/ AnswerIsLost(t, d)
    \/ CountsUp \/ suspendBusNub \/ setNodeROM \/ ScanIsFinished \/ RivalLocks

SyncSpec == SyncInit /\ [][SyncNext]_syncVars

-----------------------------------------------------------------------------
(* Properties                                                               *)

SyncTypeOK ==
    /\ \A t \in Threads : /\ command[t].fNodeID \in NodeIDs \cup {kFWBadNodeID}
                          /\ command[t].fGeneration \in 0 .. bus.generation
                          /\ command[t].fCurRetries \in -1 .. kFWCmdDefaultRetries
    /\ bus.generation \in 1 .. MaxGenerations
    /\ fNub.fGeneration \in 1 .. bus.generation
    /\ quad \in Threads \cup {Free, Rival}

(* Whatever resets come between the steps of a call, only the device that   *)
(* the client means performs it                                             *)
RightDevice == \A t \in Threads : ~thread[t].astray

(* IOFireWireLib.h on failOnReset: the call is performed in the generation  *)
(* that was named, or not at all                                            *)
RightGeneration ==
    \A t \in Threads : thread[t].failOnReset => thread[t].doneIn \subseteq {thread[t].generation}

(* A call that returns success has been performed, and a compare and swap   *)
(* that does has swapped, exactly once: no other thread holds the lock.     *)
(* Nothing of a call is left behind when it returns                         *)
SuccessIsTrue ==
    \A t \in Threads : thread[t].pc = "returned" =>
        /\ thread[t].err = Success =>
              /\ thread[t].doneIn # {}
              /\ thread[t].op = "lock" => thread[t].swaps = 1 /\ quad = t
        /\ command[t] = NoCommand

(* A thread that is blocked has something to wait for: its command will be   *)
(* answered or time out, or it waits for the end of a scan that is going on *)
WaitsForSomething ==
    \A t \in Threads : thread[t].pc = "waits" /\ command[t].threadMustStop =>
        \/ command[t].fStatus = "kIOReturnBusy" /\ command[t].onWire # "nothing"
        \/ command[t].fStatus = "kIOFireWirePending" /\ bus.phase # "settled"

(* A call that waits is performed by the device and in the generation that  *)
(* it is meant for, a thread that takes a lock by compare and swap has it,  *)
(* and none is blocked for nothing (createReadCommand, wait).               *)
CallsAreTrue ==
    RightDevice /\ RightGeneration /\ SuccessIsTrue /\ WaitsForSomething /\ SyncTypeOK
=============================================================================
