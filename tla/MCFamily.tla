------------------------------ MODULE MCFamily ------------------------------
(***************************************************************************)
(* Parts of the family whose promises are about every moment and none      *)
(* about the end: the bus reset machine under every fault of the hardware, *)
(* what a single command transfers, the memory of a physical address       *)
(* space, how the library lets its clients hear of things, locks of a      *)
(* client's backing store, what clients are told about the bus, the calls  *)
(* in which their threads wait for the bus, and those that read            *)
(* directories.  None of them touches another one's state, so each is      *)
(* explored with the others at rest.                                       *)
(***************************************************************************)
EXTENDS BusReset, Transfer, PhysicalAddressSpace, LibNotification, UserLock,
        BusInformation, SyncCalls, DirectoryAccess

CONSTANTS d1, d2        \* threads that read directories

MCCallsOf == [t \in {d1, d2} |-> IF t = d1 THEN DirectoryCalls ELSE {"data"}]

(* Segments in and out of order, that touch, that leave gaps, and one that *)
(* the FWIM does not reach.                                                *)
MCLayouts ==
    {<<[at |-> 1, length |-> 2], [at |-> 3, length |-> 1], [at |-> 5, length |-> 2]>>,
     <<[at |-> 4, length |-> 1], [at |-> 5, length |-> 2], [at |-> 1, length |-> 2]>>,
     <<[at |-> 2, length |-> 2]>>,
     <<[at |-> 5, length |-> 1], [at |-> 3, length |-> 2]>>,
     <<[at |-> 8, length |-> 2], [at |-> 1, length |-> 1]>>}

VARIABLE way

familyVars == <<way, vars, transferVars, physicalVars, notificationVars, lockVars,
                queryVars, syncVars, accessVars>>

MCInit == /\ way \in {"bus", "transfer", "physical", "notification", "lock", "query",
                     "calls", "directories"}
          /\ Init /\ TransferInit /\ PhysicalInit /\ NotificationInit
          /\ LockInit /\ QueryInit /\ SyncInit /\ AccessInit
          /\ way # "transfer" =>
                kind = "Read" /\ pack = [speed |-> 2, device |-> 1]
          /\ way # "physical" => owner = "driver"
          /\ way # "notification" => notifier = "Device"
          /\ way # "lock" => lockMode = "user"
          /\ way # "calls" => bus.at["mine"] = 0

MCBus ==
    /\ way = "bus" /\ Next
    /\ UNCHANGED <<transferVars, physicalVars, notificationVars, lockVars, queryVars,
                   syncVars, accessVars>>
MCTransfer ==
    /\ way = "transfer" /\ TransferNext
    /\ UNCHANGED <<vars, physicalVars, notificationVars, lockVars, queryVars,
                   syncVars, accessVars>>
MCPhysical ==
    /\ way = "physical" /\ PhysicalNext
    /\ UNCHANGED <<vars, transferVars, notificationVars, lockVars, queryVars,
                   syncVars, accessVars>>
MCNotification ==
    /\ way = "notification" /\ NotificationNext
    /\ UNCHANGED <<vars, transferVars, physicalVars, lockVars, queryVars,
                   syncVars, accessVars>>
MCLock ==
    /\ way = "lock" /\ LockNext
    /\ UNCHANGED <<vars, transferVars, physicalVars, notificationVars, queryVars,
                   syncVars, accessVars>>
MCQuery ==
    /\ way = "query" /\ QueryNext
    /\ UNCHANGED <<vars, transferVars, physicalVars, notificationVars, lockVars,
                   syncVars, accessVars>>
MCCalls ==
    /\ way = "calls" /\ SyncNext
    /\ UNCHANGED <<vars, transferVars, physicalVars, notificationVars, lockVars,
                   queryVars, accessVars>>
MCDirectories ==
    /\ way = "directories" /\ AccessNext
    /\ UNCHANGED <<vars, transferVars, physicalVars, notificationVars, lockVars,
                   queryVars, syncVars>>

MCNext ==
    /\ UNCHANGED way
    /\ MCBus \/ MCTransfer \/ MCPhysical \/ MCNotification \/ MCLock \/ MCQuery
       \/ MCCalls \/ MCDirectories

MCSpec == MCInit /\ [][MCNext]_familyVars
-----------------------------------------------------------------------------
(* A client's threads get what they called for: see the two modules        *)
(* (createReadCommand, wait; getOSStringData, CreateCFDataWithOSDataRef)   *)
CallersAreServed == CallsAreTrue /\ DirectoriesAreSound
=============================================================================
