------------------------------- MODULE Device -------------------------------
(***************************************************************************)
(* The nubs of one node (one GUID) of the bus and of its units: the        *)
(* controller suspends, resumes, creates and terminates the nub of the     *)
(* device as resets come and go, a thread per configuration ROM reads it   *)
(* and attaches and terminates the units, and clients open and close both. *)
(* A nub that is gone while somebody has it open is terminated when it is  *)
(* closed, or resumed if the node comes back first.                        *)
(***************************************************************************)
EXTENDS Naturals, FiniteSets, Sequences

CONSTANTS
    Nubs, Units,     \* the objects there are for nubs of devices and units
    NoNub,
    Kinds,           \* what distinguishes units of a device
    ROMs,            \* what the node may present, each a set of entries
    GenerationZero,  \* the ROMs whose generation is 0
    Absent,
    Reads,           \* what a reader reads after the bus information block
    Retries,         \* fROMReadRetry of a new nub (4 in the code)
    MaxResets,       \* bus resets that nobody here asks for
    MaxReadErrors,   \* reads that fail without a reset
    Races            \* the races that may happen, of AllRaces

(* A nub is opened between its kTerminated and its thread; it is opened or *)
(* closed between the controller's isOpen() and its setTerminationState(); *)
(* a reader suspends a ROM that was resumed since it looked; a reader that *)
(* is out of date gives up the registration.                               *)
AllRaces == {"lateOpen", "staleIsOpen", "lateSuspend", "staleReader"}

DeviceAssumption ==
    /\ GenerationZero \subseteq ROMs
    /\ Absent \notin ROMs /\ NoNub \notin Nubs
    /\ Reads \in Nat \ {0} /\ Retries \in Nat
    /\ MaxResets \in Nat /\ MaxReadErrors \in Nat
    /\ Races \subseteq AllRaces
ASSUME DeviceAssumption

VARIABLES
    fBusGeneration,
    phase,       \* how far the controller is with the last reset
    node,        \* the ROM of the node, or Absent
    resetDue,    \* somebody has called resetBus()
    resets, readErrors,    \* how many there have been
    pruning,     \* [nub, wasOpen]: the controller is in terminateDevice()
    nub, roms,   \* of each device: its state, its ROM caches with their readers
    unit

busVars == <<fBusGeneration, phase, node>>
faultVars == <<resetDue, resets, readErrors>>
vars == <<busVars, faultVars, pruning, nub, roms, unit>>

NoDevice == [state |-> "none", onBus |-> FALSE, term |-> "kNotTerminated",
             fOpenFromDevice |-> FALSE, fOpenUnits |-> {}, dying |-> FALSE,
             fRegistrationState |-> "kDeviceNotRegistered", busy |-> 0,
             fROMReadRetry |-> 0, fDirectory |-> Absent]

NoUnit == [device |-> NoNub, kind |-> Absent, state |-> "none",
           term |-> "kNotTerminated", open |-> FALSE, dying |-> FALSE]

Idle == [nub |-> NoNub, wasOpen |-> FALSE]
GateOpen == pruning = Idle

Attached(d) == nub[d].state = "attached"
UnitsAt(d) == {u \in Units : unit[u].device = d}
IsOpen(d) == nub[d].fOpenFromDevice \/ nub[d].fOpenUnits # {}

Init ==
    /\ fBusGeneration = 0 /\ phase = "down" /\ node \in ROMs
    /\ resetDue = FALSE /\ resets = 0 /\ readErrors = 0
    /\ pruning = Idle
    /\ nub = [d \in Nubs |-> NoDevice]
    /\ roms = [d \in Nubs |-> <<>>]
    /\ unit = [u \in Units |-> NoUnit]

-----------------------------------------------------------------------------
(* The ROM cache of a device and its states.                               *)

(* The unit directories of a root directory.                               *)
UnitsOf(image) == image \cap Kinds

fROMGeneration(d) == Len(roms[d])
fDeviceROM(d) == roms[d][fROMGeneration(d)]

(* There is no coming back from kROMStateInvalid.                          *)
setROMState(rom, state, generation) ==
    IF rom.state = "Invalid" THEN rom
    ELSE [rom EXCEPT !.state = state,
                     !.generation = IF state = "Resumed" THEN generation ELSE @]

hasROMChanged(d) ==
    \/ fDeviceROM(d).image # node
    \/ node \in GenerationZero /\ (nub[d].fDirectory = Absent
                                     \/ UnitsOf(nub[d].fDirectory) = {})
    \/ fDeviceROM(d).state = "Invalid"

(* A cache that holds the bus information block only, and the thread that  *)
(* will read the rest.                                                     *)
NewROM == [image |-> node, state |-> "Resumed", generation |-> fBusGeneration,
           read |-> 0, pc |-> "thread", latched |-> 0]

(* What is left of a cache that is neither read nor current.               *)
DeadROM == [image |-> Absent, state |-> "Invalid", generation |-> 0,
            read |-> 0, pc |-> "done", latched |-> 0]

Replaced(rom) == IF rom.pc = "done" THEN DeadROM
                 ELSE setROMState(rom, "Invalid", 0)

(* The current cache is replaced, or is the first.                         *)
withOwnerAndBytes(d) ==
    roms' = [roms EXCEPT ![d] =
        [g \in 1..(Len(@) + 1) |->
            IF g = Len(@) + 1 THEN NewROM
            ELSE IF g = Len(@) THEN Replaced(@[g]) ELSE @[g]]]

SetCurrentROM(d, state) ==
    roms' = [roms EXCEPT ![d][fROMGeneration(d)] = setROMState(@, state, fBusGeneration)]

-----------------------------------------------------------------------------
(* The bus: resets, the controller's suspendBus, updateDevice, updatePlane *)
(* and checkProgress.                                                      *)

BusReset ==
    /\ phase # "down" /\ GateOpen
    /\ phase' = "down"
    /\ \/ /\ resetDue
          /\ resetDue' = FALSE
          /\ UNCHANGED <<node, resets>>
       \/ /\ resets < MaxResets
          /\ node' \in ROMs \cup {Absent}
          /\ resets' = resets + 1
          /\ resetDue' = FALSE
    /\ UNCHANGED <<fBusGeneration, readErrors, pruning, nub, roms, unit>>

Suspended(d) == Attached(d) /\ nub[d].term = "kNotTerminated"

suspendBus ==
    /\ phase = "down" /\ GateOpen
    /\ phase' = "suspended"
    /\ fBusGeneration' = fBusGeneration + 1
    /\ nub' = [d \in Nubs |-> IF Suspended(d) THEN [nub[d] EXCEPT !.onBus = FALSE]
                                              ELSE nub[d]]
    /\ roms' = [d \in Nubs |->
           IF Suspended(d)
           THEN [roms[d] EXCEPT ![Len(roms[d])] = setROMState(@, "Suspended", 0)]
           ELSE roms[d]]
    /\ UNCHANGED <<node, faultVars, pruning, unit>>

(* setNodeROM with the ROM that the scan has read.                         *)
setNodeROM(d) ==
    LET found == [nub[d] EXCEPT !.onBus = TRUE, !.term = "kNotTerminated"]
        again == found.fRegistrationState = "kDeviceNotRegistered"
    IN  IF hasROMChanged(d)
        THEN /\ withOwnerAndBytes(d)
             /\ nub' = [nub EXCEPT ![d] =
                   IF again
                   THEN [found EXCEPT
                           !.fRegistrationState = "kDeviceNeedsRegisterService",
                           !.busy = @ + 1]
                   ELSE found]
        ELSE /\ SetCurrentROM(d, "Resumed")
             /\ nub' = [nub EXCEPT ![d] = found]

createDeviceNub(d) ==
    /\ nub' = [nub EXCEPT ![d] =
          [NoDevice EXCEPT !.state = "attached", !.onBus = TRUE, !.busy = 1,
                           !.fRegistrationState = "kDeviceNeedsRegisterService",
                           !.fROMReadRetry = Retries]]
    /\ withOwnerAndBytes(d)

FoundRunning == {d \in Nubs : Suspended(d)}                      \* mutant

(* The nubs that updateDevice finds for the node.                          *)
Found == {d \in Nubs : nub[d].state # "none" /\ nub[d].term # "kTerminated"}

Unused == {d \in Nubs : nub[d].state = "none"}

InTime == "lateSuspend" \in Races
             \/ \A d \in Nubs : \A g \in DOMAIN roms[d] : roms[d][g].pc # "suspend"

updateDevice ==
    /\ phase = "suspended" /\ GateOpen /\ InTime
    /\ phase' = "scanned"
    /\ IF node = Absent THEN UNCHANGED <<nub, roms>>
       ELSE IF Found # {} THEN \E d \in Found : setNodeROM(d)
       ELSE IF Unused # {} THEN createDeviceNub(CHOOSE d \in Unused : TRUE)
       ELSE UNCHANGED <<nub, roms>>
    /\ UNCHANGED <<fBusGeneration, node, faultVars, pruning, unit>>

Missing == {d \in Nubs : Suspended(d) /\ ~nub[d].onBus}

(* The controller begins to terminate a missing device: updatePlane when   *)
(* it prunes, checkProgress of a device that has been gone too long.       *)
isOpen(d) ==
    /\ phase \in {"scanned", "down"} /\ GateOpen
    /\ d \in Missing
    /\ pruning' = [nub |-> d, wasOpen |-> IsOpen(d)]
    /\ UNCHANGED <<busVars, faultVars, nub, roms, unit>>

updatePlane ==
    /\ phase = "scanned" /\ GateOpen
    /\ Missing = {}
    /\ phase' = "pruned"
    /\ UNCHANGED <<fBusGeneration, node, faultVars, pruning, nub, roms, unit>>

-----------------------------------------------------------------------------
(* Termination.                                                            *)

(* Every unit of a device that is terminated is.                           *)
UnitsTerminated(d) == [u \in Units |->
    IF unit[u].device = d THEN [unit[u] EXCEPT !.term = "kTerminated"] ELSE unit[u]]

(* What is left of a unit once it is closed and inactive.                  *)
Released(u) == IF u.state = "inactive" /\ ~u.open /\ ~u.dying THEN NoUnit ELSE u

(* IOFireWireDevice::terminateDevice checks again, with the device and the *)
(* units as its caller has left them, and terminates.                      *)
DeviceTerminates(d, nubs, us) ==
    LET dies == ~nubs[d].onBus /\ Attached(d) /\ ~IsOpen(d) IN
    IF dies
    THEN /\ nub' = [nubs EXCEPT ![d].state = "inactive"]
         /\ roms' = [roms EXCEPT ![d][fROMGeneration(d)] = setROMState(@, "Invalid", 0)]
         /\ unit' = [u \in Units |->
               IF us[u].device = d THEN Released([us[u] EXCEPT !.state = "inactive"])
                                   ELSE us[u]]
    ELSE nub' = nubs /\ roms' = roms /\ unit' = us

AskToClose ==                                                     \* mutant
    LET d == pruning.nub IN
    /\ ~GateOpen
    /\ IF pruning.wasOpen
       THEN /\ nub' = [nub EXCEPT ![d].term = "kNeedsTermination"]
            /\ UNCHANGED <<roms, unit>>
       ELSE DeviceTerminates(d, [nub EXCEPT ![d].term = "kTerminated"],
                             UnitsTerminated(d))
    /\ pruning' = Idle
    /\ UNCHANGED <<busVars, faultVars>>

(* An open device is asked to close, and its ROM is given up; one that is  *)
(* closed is terminated.                                                   *)
terminateDevice ==
    LET d == pruning.nub IN
    /\ ~GateOpen
    /\ IF pruning.wasOpen
       THEN /\ nub' = [nub EXCEPT ![d].term = "kNeedsTermination"]
            /\ roms' = [roms EXCEPT ![d][fROMGeneration(d)] = setROMState(@, "Invalid", 0)]
            /\ UNCHANGED unit
       ELSE DeviceTerminates(d, [nub EXCEPT ![d].term = "kTerminated"],
                             UnitsTerminated(d))
    /\ pruning' = Idle
    /\ UNCHANGED <<busVars, faultVars>>

TerminateThread(d) ==
    /\ nub[d].dying /\ GateOpen
    /\ DeviceTerminates(d, [nub EXCEPT ![d].dying = FALSE], unit)
    /\ UNCHANGED <<busVars, faultVars, pruning>>

terminateUnitThreadFunc(u) ==
    /\ unit[u].dying /\ GateOpen
    /\ unit' = [unit EXCEPT ![u] = Released([unit[u] EXCEPT
           !.dying = FALSE,
           !.state = IF unit[u].term = "kTerminated" /\ ~unit[u].open
                     THEN "inactive" ELSE @])]
    /\ UNCHANGED <<busVars, faultVars, pruning, nub, roms>>

(* A nub nobody refers to any more is freed.                               *)
free(d) ==
    /\ nub[d].state = "inactive" /\ ~IsOpen(d) /\ ~nub[d].dying
    /\ UnitsAt(d) = {}
    /\ \A g \in DOMAIN roms[d] : roms[d][g].pc = "done"
    /\ nub' = [nub EXCEPT ![d] = NoDevice]
    /\ roms' = [roms EXCEPT ![d] = <<>>]
    /\ UNCHANGED <<busVars, faultVars, pruning, unit>>

-----------------------------------------------------------------------------
(* Clients.  The arbitration lock makes each of these one step.            *)

MayOpen(d, term) ==
    /\ "lateOpen" \in Races \/ (term # "kTerminated" /\ nub[d].term # "kTerminated")
    /\ "staleIsOpen" \in Races \/ pruning.nub # d

OpenDevice(d) ==
    /\ Attached(d) /\ MayOpen(d, nub[d].term)
    /\ ~nub[d].fOpenFromDevice /\ nub[d].fOpenUnits = {}
    /\ nub' = [nub EXCEPT ![d].fOpenFromDevice = TRUE]
    /\ UNCHANGED <<busVars, faultVars, pruning, roms, unit>>

OpenUnit(u) ==
    LET d == unit[u].device IN
    /\ unit[u].state = "attached" /\ ~unit[u].open
    /\ Attached(d) /\ MayOpen(d, unit[u].term) /\ ~nub[d].fOpenFromDevice
    /\ unit' = [unit EXCEPT ![u].open = TRUE]
    /\ nub' = [nub EXCEPT ![d].fOpenUnits = @ \cup {u}]
    /\ UNCHANGED <<busVars, faultVars, pruning, roms>>

(* What becomes of a device when the last one closes it.                   *)
ClosedOf(closed) ==
    IF ~closed.fOpenFromDevice /\ closed.fOpenUnits = {}
         /\ closed.term = "kNeedsTermination"
    THEN [closed EXCEPT !.term = "kTerminated", !.dying = TRUE]
    ELSE closed

MayClose(d) == "staleIsOpen" \in Races \/ pruning.nub # d

CloseDevice(d) ==
    LET closed == ClosedOf([nub[d] EXCEPT !.fOpenFromDevice = FALSE]) IN
    /\ nub[d].fOpenFromDevice /\ MayClose(d)
    /\ nub' = [nub EXCEPT ![d] = closed]
    /\ unit' = IF closed.term = "kTerminated" THEN UnitsTerminated(d) ELSE unit
    /\ UNCHANGED <<busVars, faultVars, pruning, roms>>

CloseUnit(u) ==
    LET d == unit[u].device
        closed == ClosedOf([nub[d] EXCEPT !.fOpenUnits = @ \ {u}])
        us == IF closed.term # nub[d].term THEN UnitsTerminated(d) ELSE unit
        needs == us[u].term = "kNeedsTermination"
    IN  /\ unit[u].open /\ MayClose(d)
        /\ nub' = [nub EXCEPT ![d] = closed]
        /\ unit' = [us EXCEPT ![u] = Released([us[u] EXCEPT
               !.open = FALSE,
               !.term = IF needs THEN "kTerminated" ELSE @,
               !.dying = @ \/ needs])]
        /\ UNCHANGED <<busVars, faultVars, pruning, roms>>

-----------------------------------------------------------------------------
(* The readers.  fROMLock is held by the reader between "thread" and       *)
(* "done", so that one at a time reads a device.                           *)

Working(d, g) == roms[d][g].pc \notin {"thread", "done"}

Jump(d, g, label) == roms' = [roms EXCEPT ![d][g].pc = label]

(* A reader ends; its cache is of no more use unless it is current.        *)
Ends(d, g) == roms' = [roms EXCEPT ![d][g] =
    IF g = fROMGeneration(d) THEN [@ EXCEPT !.pc = "done", !.latched = 0] ELSE DeadROM]

readROMThreadFunc(d, g) ==
    /\ roms[d][g].pc = "thread" /\ GateOpen
    /\ \A h \in DOMAIN roms[d] : ~Working(d, h)
    /\ Jump(d, g, IF g = fROMGeneration(d) THEN "check" ELSE "failed")
    /\ UNCHANGED <<busVars, faultVars, pruning, nub, unit>>

(* Each key that the reader gets checks the state first, and sleeps while  *)
(* the ROM is suspended.                                                   *)
checkROMState(d, g) ==
    LET rom == roms[d][g] IN
    /\ rom.pc = "check" /\ rom.state # "Suspended"
    /\ IF rom.state = "Invalid" THEN Jump(d, g, "failed")
       ELSE roms' = [roms EXCEPT
               ![d][g].latched = rom.generation,
               ![d][g].pc = IF rom.read = Reads THEN "commit" ELSE "read"]
    /\ UNCHANGED <<busVars, faultVars, pruning, nub, unit>>

Readable(d, g) == phase # "down" /\ roms[d][g].latched = fBusGeneration

updateROMCache(d, g) ==
    /\ roms[d][g].pc = "read"
    /\ \/ /\ Readable(d, g)
          /\ roms' = [roms EXCEPT ![d][g].read = @ + 1, ![d][g].pc = "check"]
          /\ UNCHANGED readErrors
       \/ /\ Readable(d, g) /\ readErrors < MaxReadErrors
          /\ roms' = [roms EXCEPT
                 ![d][g] = [setROMState(@, "Invalid", 0) EXCEPT !.pc = "failed"]]
          /\ readErrors' = readErrors + 1
       \/ /\ ~Readable(d, g)
          /\ Jump(d, g, "reset")
          /\ UNCHANGED readErrors
    /\ UNCHANGED <<busVars, resetDue, resets, pruning, nub, unit>>

(* The read met a bus reset.  The generation has not changed: the ROM is   *)
(* not suspended yet, and the reader does that itself.                     *)
ResetMet(d, g) ==
    LET rom == roms[d][g] IN
    /\ rom.pc = "reset" /\ rom.state # "Suspended"
    /\ IF rom.state = "Invalid" THEN Jump(d, g, "failed")
       ELSE IF rom.generation # rom.latched
       THEN roms' = [roms EXCEPT ![d][g].latched = rom.generation,
                                 ![d][g].pc = "read"]
       ELSE Jump(d, g, "suspend")
    /\ UNCHANGED <<busVars, faultVars, pruning, nub, unit>>

SuspendROM(d, g) ==
    /\ roms[d][g].pc = "suspend"
    /\ roms' = [roms EXCEPT
           ![d][g] = [setROMState(@, "Suspended", 0) EXCEPT !.pc = "read"]]
    /\ UNCHANGED <<busVars, faultVars, pruning, nub, unit>>

Matching(d, kinds) ==
    {u \in UnitsAt(d) : unit[u].term # "kTerminated" /\ unit[u].kind \in kinds}

AskAnyUnit(u) ==                                                  \* mutant
    IF u.term # "kNotTerminated" THEN u
    ELSE [u EXCEPT !.term = "kNeedsTermination"]

terminateUnit(u) ==
    IF u.term # "kNotTerminated" THEN u
    ELSE IF u.open THEN [u EXCEPT !.term = "kNeedsTermination"]
    ELSE [u EXCEPT !.term = "kTerminated", !.dying = TRUE]

(* The unit directories that nothing is there for.                         *)
Lacking(d, kinds) ==
    IF Attached(d) THEN kinds \ {unit[u].kind : u \in Matching(d, kinds)} ELSE {}

(* A free object for each of them: Units bounds how many there can be.     *)
Placements(kinds) ==
    {f \in [kinds -> {u \in Units : unit[u].device = NoNub}] :
        \A k, l \in kinds : f[k] = f[l] => k = l}

processUnitDirectories(d, kinds) ==
    LET lacking == Lacking(d, kinds)
        new == CHOOSE f \in Placements(lacking) : TRUE
    IN  /\ Placements(lacking) # {}
        /\ unit' = [u \in Units |->
                IF u \in Matching(d, kinds) THEN [unit[u] EXCEPT
                     !.term = IF @ = "kNeedsTermination" THEN "kNotTerminated" ELSE @]
                ELSE IF \E k \in lacking : new[k] = u
                THEN [NoUnit EXCEPT !.device = d, !.state = "attached",
                        !.kind = CHOOSE k \in lacking : new[k] = u]
                ELSE IF u \in UnitsAt(d) THEN terminateUnit(unit[u])
                ELSE unit[u]]

(* The device is registered, and no longer busy, the first time.           *)
processRootDirectory(device) ==
    IF device.fRegistrationState = "kDeviceNeedsRegisterService"
    THEN [device EXCEPT !.fRegistrationState = "kDeviceRegistered", !.busy = @ - 1]
    ELSE device

Commit(d, g) ==
    LET image == roms[d][g].image IN
    /\ roms[d][g].pc = "commit" /\ GateOpen
    /\ nub' = [nub EXCEPT ![d] =
                  [processRootDirectory(@) EXCEPT !.fDirectory = image]]
    /\ processUnitDirectories(d, UnitsOf(image))
    /\ Ends(d, g)
    /\ UNCHANGED <<busVars, faultVars, pruning>>

GivesUp(d, g) == "staleReader" \in Races \/ g = fROMGeneration(d)

(* A reader that failed asks for a bus reset, a limited number of times;   *)
(* then the device will not be registered.                                 *)
Failed(d, g) ==
    /\ roms[d][g].pc = "failed" /\ GateOpen
    /\ IF nub[d].fROMReadRetry > 0
       THEN /\ nub' = [nub EXCEPT ![d].fROMReadRetry = @ - 1]
            /\ resetDue' = TRUE
       ELSE /\ nub' = IF nub[d].fRegistrationState = "kDeviceNeedsRegisterService"
                            /\ GivesUp(d, g)
                      THEN [nub EXCEPT
                              ![d].fRegistrationState = "kDeviceNotRegistered",
                              ![d].busy = @ - 1]
                      ELSE nub
            /\ UNCHANGED resetDue
    /\ Ends(d, g)
    /\ UNCHANGED <<busVars, resets, readErrors, pruning, unit>>

-----------------------------------------------------------------------------
Controller == suspendBus \/ updateDevice \/ updatePlane \/ terminateDevice
                \/ \E d \in Nubs : isOpen(d)

ReaderStep(d, g) ==
    \/ readROMThreadFunc(d, g) \/ checkROMState(d, g) \/ updateROMCache(d, g)
    \/ ResetMet(d, g) \/ SuspendROM(d, g) \/ Commit(d, g) \/ Failed(d, g)

Reader(d) == \E g \in DOMAIN roms[d] : ReaderStep(d, g)

Terminator == \/ \E d \in Nubs : TerminateThread(d)
              \/ \E u \in Units : terminateUnitThreadFunc(u)

Client == \/ \E d \in Nubs : OpenDevice(d) \/ CloseDevice(d)
          \/ \E u \in Units : OpenUnit(u) \/ CloseUnit(u)

Next == \/ BusReset \/ Controller \/ Terminator \/ Client
        \/ \E d \in Nubs : Reader(d) \/ free(d)

(* The work loop and the threads go on, and a reset that somebody asks for *)
(* comes.  No client need open or close anything.                          *)
Fairness ==
    /\ WF_vars(Controller) /\ WF_vars(BusReset /\ resetDue)
    /\ \A d \in Nubs : WF_vars(TerminateThread(d)) /\ WF_vars(Reader(d))
    /\ \A u \in Units : WF_vars(terminateUnitThreadFunc(u))

Spec == Init /\ [][Next]_vars /\ Fairness

-----------------------------------------------------------------------------
(* Properties.                                                             *)

TerminationStates == {"kNotTerminated", "kNeedsTermination", "kTerminated"}
Current(d) == Attached(d) /\ nub[d].term # "kTerminated"
LiveUnits(d) == {u \in UnitsAt(d) : unit[u].state = "attached"
                                      /\ unit[u].term = "kNotTerminated"}

TypeOK ==
    /\ fBusGeneration \in Nat
    /\ phase \in {"down", "suspended", "scanned", "pruned"}
    /\ node \in ROMs \cup {Absent}
    /\ nub \in [Nubs ->
          [state : {"none", "attached", "inactive"}, onBus : BOOLEAN,
           term : TerminationStates, fOpenFromDevice : BOOLEAN,
           fOpenUnits : SUBSET Units, dying : BOOLEAN,
           fRegistrationState : {"kDeviceNotRegistered", "kDeviceRegistered",
                                 "kDeviceNeedsRegisterService"},
           busy : {0, 1}, fROMReadRetry : 0..Retries,
           fDirectory : ROMs \cup {Absent}]]
    /\ unit \in [Units ->
          [device : Nubs \cup {NoNub}, kind : Kinds \cup {Absent},
           state : {"none", "attached", "inactive"}, term : TerminationStates,
           open : BOOLEAN, dying : BOOLEAN]]

(* The registry has one nub for the node that is not on its way out,       *)
(* however the node comes and goes while it is open (updateDevice).        *)
OneNub == \A d, e \in Nubs : Current(d) /\ Current(e) => d = e

(* The units of a device are those of the directory that was read last,    *)
(* one nub each: a unit that has gone and come back while it was open, or  *)
(* is opened or closed while the ROM is read, is neither lost nor twice    *)
(* there (processUnitDirectories, terminateUnit, the units' handleClose).  *)
UnitsMatchROM == \A d \in Nubs :
    Current(d) /\ nub[d].fDirectory # Absent =>
        /\ {unit[u].kind : u \in LiveUnits(d)} = UnitsOf(nub[d].fDirectory)
        /\ \A u, v \in LiveUnits(d) : unit[u].kind = unit[v].kind => u = v

(* A device holds up the registry exactly until it is registered or given  *)
(* up: while it does a reader or a bus reset is on its way, and one whose  *)
(* ROM has been read is registered (setNodeROM, processROM).               *)
BusyUntilRegistered == \A d \in Nubs : Attached(d) =>
    LET needs == nub[d].fRegistrationState = "kDeviceNeedsRegisterService" IN
    /\ nub[d].busy = IF needs THEN 1 ELSE 0
    /\ needs /\ nub[d].term = "kNotTerminated" =>
          resetDue \/ phase # "pruned" \/ \E g \in DOMAIN roms[d] : roms[d][g].pc # "done"
    /\ nub[d].fDirectory # Absent => nub[d].fRegistrationState = "kDeviceRegistered"

Registry == TypeOK /\ OneNub /\ UnitsMatchROM /\ BusyUntilRegistered

(* The device knows which of its units are open, it is open itself or some *)
(* of its units are, and a nub that waits for its last close is open, so   *)
(* that the close comes (handleOpen, handleClose of both).                 *)
OpenAgrees == \A d \in Nubs :
    /\ nub[d].fOpenUnits = {u \in UnitsAt(d) : unit[u].open}
    /\ ~(nub[d].fOpenFromDevice /\ nub[d].fOpenUnits # {})
    /\ nub[d].term = "kNeedsTermination" => IsOpen(d)
    /\ \A u \in UnitsAt(d) : unit[u].term = "kNeedsTermination" => unit[u].open

(* A device that has gone does not stay in the registry with nobody who    *)
(* has it open: it is terminated, or closing it terminates it.             *)
GoneIsTerminated == \A d \in Nubs :
    []<>~(Attached(d) /\ ~nub[d].onBus /\ ~IsOpen(d))

(* No reader sleeps for good, with fROMLock, on a ROM that nobody resumes. *)
ReadersFinish == \A d \in Nubs :
    (\E g \in DOMAIN roms[d] : Working(d, g))
        ~> (\A g \in DOMAIN roms[d] : ~Working(d, g))

(* Neither a device that has gone nor a thread that reads its ROM stays.   *)
NothingLingers == GoneIsTerminated /\ ReadersFinish
=============================================================================
