---------------------------- MODULE AsyncCommand ----------------------------
(***************************************************************************)
(* The life of an asynchronous command: IOFWCommand::submit, the pending,  *)
(* timeout and after-reset-handled queues of the controller, execute() and *)
(* gotPacket() of the read, write and lock commands, the transaction       *)
(* labels, IOFWAsyncCommand::complete with its retries, and what a bus     *)
(* reset, the end of a bus scan and a cancel do to the commands.           *)
(*                                                                         *)
(* The work loop's gate is closed during each handler, so each is one      *)
(* action.  Handlers are operators on a record s of the variables that     *)
(* the calls they make may change.  Deadlines are left out: any command in *)
(* the timeout queue may time out.                                         *)
(***************************************************************************)
EXTENDS Integers, FiniteSets

CONSTANTS
    Commands,          \* the command objects
    Devices,
    fDevice,           \* the device a command is for
    FailOnReset,       \* commands that may be made with failOnReset
    Reads,             \* IOFWReadCommands: may fall back to quadlets
    UserCommands,      \* commands of a user client, cancelled by its free
    Labels,            \* the transaction labels
    NoLabel,
    NoCommand,
    fMaxRetries,
    MaxPackets,        \* bound: packets of each command
    MaxTrouble         \* bound: resets and failures in a behaviour

CommandsAssumption ==
    /\ fDevice \in [Commands -> Devices]
    /\ FailOnReset \subseteq Commands
    /\ Reads \subseteq Commands
    /\ UserCommands \subseteq Commands
    /\ NoCommand \notin Commands
    /\ NoLabel \notin Labels
ASSUME CommandsAssumption

CountsAssumption ==
    /\ fMaxRetries \in Nat
    /\ MaxPackets \in [Commands -> Nat \ {0}]
    /\ MaxTrouble \in Nat
ASSUME CountsAssumption

VARIABLES
    cmd,                  \* the fields of each command
    fTrans,               \* the command that owns each label
    fAfterResetHandledQ,  \* the commands its list reaches
    fQueueNext,           \* where commands that it no longer reaches lead
    strayHead,            \* its head no longer leads to all that waits on it
    resumed,              \* devices with a node ID in this generation
    busPhase,             \* what fBusState means to a command
    unscanned,            \* the scan of this generation is not over
    cancelling,           \* user commands found busy and about to be cancelled
    trouble               \* resets and failures left

busVars == <<resumed, busPhase, unscanned>>
listVars == <<fQueueNext, strayHead>>
vars == <<cmd, fTrans, fAfterResetHandledQ, listVars, busVars, cancelling,
          trouble>>

(* The bus state as scanningBus() sees it.  "settled" and "owed" are the   *)
(* states that are no part of a scan; in "owed" another reset is coming.   *)
Phases == {"settled", "owed", "kWaitingSelfIDs", "kScanning"}
scanningBus(phase) == phase \in {"kWaitingSelfIDs", "kScanning"}

Results == {"kIOReturnSuccess", "kIOReturnTimeout", "kIOFireWireBusReset",
            "kIOReturnOffline", "kIOReturnAborted",
            "kIOFireWireOutOfTLabels", "error"}
Statuses == Results \cup {"kIOReturnBusy", "kIOFireWirePending"}
Waiting(r) == r.fStatus \in {"kIOReturnBusy", "kIOFireWirePending"}

CommandRecords ==
    [fStatus : Statuses,
     fQueue : {"none", "pendingQ", "timeoutQ", "afterResetHandledQ"},
     fTrans : Labels \cup {NoLabel},
     fSize : Nat,                  \* packets still to transfer
     smallPackets : BOOLEAN,       \* fMaxPack is down to 4 bytes
     fCurRetries : 0..fMaxRetries,
     fFailOnReset : BOOLEAN,
     current : BOOLEAN,            \* fGeneration is the bus's
     tooOld : BOOLEAN,             \* started more than 30 seconds ago
     nestedFailed : BOOLEAN,       \* see CompletedTwice
     calls : 0..3]                 \* completions since it was submitted

Now == [cmd |-> cmd, fTrans |-> fTrans,
        fAfterResetHandledQ |-> fAfterResetHandledQ]

Becomes(s) == /\ cmd' = s.cmd
              /\ fTrans' = s.fTrans
              /\ fAfterResetHandledQ' = s.fAfterResetHandledQ

Costs(n) == /\ n <= trouble
            /\ trouble' = trouble - n

-----------------------------------------------------------------------------
(* IOFWAsyncCommand::complete, by what becomes of the command.             *)

(* The command leaves its queue, gives its label back, and its completion  *)
(* is called or its submitter woken.  What only its next execution would   *)
(* look at, and reinit sets before, is forgotten.                          *)
Answered(r, result) ==
    [r EXCEPT !.fStatus = result, !.fQueue = "none", !.fTrans = NoLabel,
              !.fCurRetries = fMaxRetries, !.smallPackets = FALSE,
              !.current = FALSE, !.calls = @ + 1]

RequeuedAndCalled(r) ==                                         \* mutant
    [r EXCEPT !.fStatus = "kIOFireWirePending", !.calls = @ + 1,
              !.fQueue = "afterResetHandledQ", !.fTrans = NoLabel]

RequeuedBusy(r) ==                                              \* mutant
    [r EXCEPT !.fStatus = "kIOReturnBusy",
              !.fQueue = "afterResetHandledQ", !.fTrans = NoLabel]

Requeued(r) ==
    [r EXCEPT !.fStatus = "kIOFireWirePending",
              !.fQueue = "afterResetHandledQ", !.fTrans = NoLabel]

(* complete( kIOFireWireBusReset ).                                        *)
EndedByReset(r, phase) ==
    CASE r.fFailOnReset \/ r.tooOld -> Answered(r, "kIOFireWireBusReset")
      [] ~r.fFailOnReset /\ ~r.tooOld /\ scanningBus(phase) -> Requeued(r)
      [] OTHER -> Answered(r, "kIOReturnOffline")

(* gotPacket when bytes are left: the next packet, or the same again as    *)
(* quadlets.                                                               *)
NextPacket(c, r) ==
    {next \in {[r EXCEPT !.fSize = @ - 1, !.fCurRetries = fMaxRetries]} :
        r.fSize > 1}
    \cup
    {next \in {[r EXCEPT !.smallPackets = TRUE, !.fCurRetries = fMaxRetries]} :
        c \in Reads /\ ~r.smallPackets}

(* complete() tells the FWIM, by handleAsyncCompletion, that a command     *)
(* completes, and the FWIM may have its answer: gotPacket is called inside *)
(* of complete().  The last packet, or an error, replaces the status.  The *)
(* guard against completing twice is fStatus, which the execute() of a     *)
(* next packet overwrites: when that fails it completes the command, and   *)
(* the outer complete() does so again.                                     *)
CompletedTwice(r) == [r EXCEPT !.calls = @ + 1, !.nestedFailed = TRUE]

Response(r) ==
    {Answered(r, "error")}
    \cup {Answered(last, "kIOReturnSuccess") :
              last \in {x \in {[r EXCEPT !.fSize = 0]} : r.fSize = 1}}

LateAnswers(c, r) ==
    Response(r)
    \cup {CompletedTwice(Answered(next, "error")) : next \in NextPacket(c, r)}

(* The next packet went out: complete() frees its label and goes on.       *)
GoesOn(c, r) == {r} \cup NextPacket(c, r)

(* In suspendBus the generation has changed and execute() is refused.      *)
RefusedTwice(r) ==
    LET ended == EndedByReset(r, "kWaitingSelfIDs")
    IN  IF Waiting(ended) THEN ended ELSE CompletedTwice(ended)

Suspended(c, r) ==
    {EndedByReset(r, "kWaitingSelfIDs")}
    \cup Response(r)
    \cup {RefusedTwice(next) : next \in NextPacket(c, r)}

WithoutLabel(table, gone) ==
    [l \in Labels |-> IF table[l] \in gone THEN NoCommand ELSE table[l]]

(* s once the command c is r, in no queue and without a label.             *)
Put(s, c, r) ==
    [cmd |-> [s.cmd EXCEPT ![c] = r],
     fTrans |-> WithoutLabel(s.fTrans, {c}),
     fAfterResetHandledQ |-> s.fAfterResetHandledQ \ {c}]

-----------------------------------------------------------------------------
(* startExecution of a set of commands, one after the other: each takes a  *)
(* free label and sends its packet.                                        *)

Fates ==
    {"sent",       \* the packet is with the FWIM
     "answered",   \* the node is the local one
     "refused",    \* checkGeneration failed
     "failed",     \* the FWIM returned an error
     "noLabel"}    \* allocTrans found no label

FreeLabels(s) == {l \in Labels : s.fTrans[l] = NoCommand}

(* execute() takes the device's generation unless failOnReset.             *)
Current(c, r) == IF r.fFailOnReset THEN r.current ELSE fDevice[c] \in resumed

StartedWithoutTimer(c, r) ==                                    \* mutant
    [r EXCEPT !.fStatus = "kIOReturnBusy", !.current = Current(c, r)]

(* updateTimer puts the command in the timeout queue.                      *)
Started(c, r) ==
    [r EXCEPT !.fStatus = "kIOReturnBusy", !.fQueue = "timeoutQ",
              !.current = Current(c, r)]

Sent(r, label) == [r EXCEPT !.fTrans = label]

Executed(c, r, fate, label, phase) ==
    LET started == Started(c, r)
    IN  CASE fate = "sent" -> Sent(started, label)
          [] fate = "answered" ->
                Answered([started EXCEPT !.fSize = 0], "kIOReturnSuccess")
          [] fate = "refused" -> EndedByReset(started, phase)
          [] fate = "failed" -> Answered(started, "error")
          [] OTHER -> Answered(started, "kIOFireWireOutOfTLabels")

(* The fates that labels and generations allow the commands Q: a command   *)
(* goes without a label only when the others have taken the last.          *)
MayExecute(s, Q, fate, label) ==
    LET taken == {label[c] : c \in Q} \ {NoLabel}
    IN  /\ taken \subseteq FreeLabels(s)
        /\ \A c, d \in Q : label[c] = label[d] /\ label[c] # NoLabel => c = d
        /\ \A c \in Q :
              /\ fate[c] = "sent" <=> label[c] # NoLabel
              /\ fate[c] = "noLabel" => taken = FreeLabels(s)
              /\ fate[c] # "noLabel" =>
                    /\ FreeLabels(s) # {}
                    /\ fate[c] = "refused" <=> ~Current(c, s.cmd[c])

Execute(s, Q, fate, label, phase) ==
    LET cmds == [c \in Commands |->
                    IF c \in Q
                    THEN Executed(c, s.cmd[c], fate[c], label[c], phase)
                    ELSE s.cmd[c]]
    IN  [cmd |-> cmds,
         fTrans |-> [l \in Labels |->
                        IF \E c \in Q : label[c] = l
                        THEN CHOOSE c \in Q : label[c] = l
                        ELSE s.fTrans[l]],
         fAfterResetHandledQ |->
             s.fAfterResetHandledQ
                 \cup {c \in Q : cmds[c].fQueue = "afterResetHandledQ"}]

Assignments(Q) == [Q -> Labels \cup {NoLabel}]

Runs(s, Q) ==
    \E fate \in [Q -> Fates], label \in Assignments(Q) :
        /\ MayExecute(s, Q, fate, label)
        /\ Becomes(Execute(s, Q, fate, label, busPhase))

-----------------------------------------------------------------------------
Init ==
    /\ cmd \in [Commands ->
                  {[fStatus |-> "kIOReturnSuccess", fQueue |-> "none",
                    fTrans |-> NoLabel, fSize |-> 0, smallPackets |-> FALSE,
                    fCurRetries |-> fMaxRetries, fFailOnReset |-> FALSE,
                    current |-> FALSE, tooOld |-> FALSE,
                    nestedFailed |-> FALSE, calls |-> 1]}]
    /\ fTrans = [l \in Labels |-> NoCommand]
    /\ fAfterResetHandledQ = {}
    /\ fQueueNext = [c \in Commands |-> NoCommand]
    /\ strayHead = FALSE
    /\ resumed = Devices
    /\ busPhase = "settled"
    /\ unscanned = FALSE
    /\ cancelling = {}
    /\ trouble = MaxTrouble

(* reinit and submit, to run at once or by the work loop.  A failOnReset   *)
(* command keeps the generation reinit saw, maybe before a reset.          *)
submit(c, queue) ==
    /\ ~Waiting(cmd[c])
    /\ c \notin cancelling
    /\ \E packets \in 1..MaxPackets[c], failOnReset, current \in BOOLEAN :
       LET r == [cmd[c] EXCEPT !.fSize = packets, !.smallPackets = FALSE,
                               !.fCurRetries = fMaxRetries,
                               !.fFailOnReset = failOnReset,
                               !.current = current, !.tooOld = FALSE,
                               !.nestedFailed = FALSE, !.calls = 0]
       IN  /\ failOnReset => c \in FailOnReset
           /\ current => failOnReset /\ fDevice[c] \in resumed
           /\ IF queue
              THEN Becomes(Put(Now, c, [r EXCEPT
                                          !.fStatus = "kIOFireWirePending",
                                          !.fQueue = "pendingQ"]))
              ELSE Runs(Put(Now, c, r), {c})
    /\ UNCHANGED <<listVars, busVars, cancelling, trouble>>

(* The work loop runs a command of the pending queue.                      *)
checkForWork(c) ==
    /\ cmd[c].fQueue = "pendingQ"
    /\ Runs(Put(Now, c, cmd[c]), {c})
    /\ UNCHANGED <<listVars, busVars, cancelling, trouble>>

(* A response packet for the label of c, or an ack that ends it.           *)
gotPacket(c) ==
    /\ cmd[c].fTrans # NoLabel
    /\ \/ \E done \in Response(cmd[c]) : Becomes(Put(Now, c, done))
       \/ \E next \in NextPacket(c, cmd[c]) : Runs(Put(Now, c, next), {c})
    /\ UNCHANGED <<listVars, busVars, cancelling, trouble>>

(* complete( kIOReturnTimeout ): a command with retries left is tried      *)
(* again if its acks, its address or the FWIM allow.                       *)
Retry(s, c, r) ==
    /\ r.fCurRetries > 0
    /\ Runs(Put(s, c, [r EXCEPT !.fCurRetries = @ - 1]), {c})

processTimeout(c) ==
    /\ cmd[c].fQueue = "timeoutQ"
    /\ \/ \E done \in LateAnswers(c, cmd[c]) : Becomes(Put(Now, c, done))
       \/ \E r \in GoesOn(c, cmd[c]) :
             \/ Becomes(Put(Now, c, Answered(r, "kIOReturnTimeout")))
             \/ Retry(Now, c, r)
    /\ UNCHANGED <<listVars, busVars, cancelling, trouble>>

(* IOFWUserCommand::free looks at the status of its command outside the    *)
(* gate, and cancels it if it was busy.                                    *)
UserCommandFree(c) ==
    /\ c \in UserCommands \ cancelling
    /\ Waiting(cmd[c])
    /\ cancelling' = cancelling \cup {c}
    /\ UNCHANGED <<cmd, fTrans, fAfterResetHandledQ, listVars, busVars, trouble>>

(* A command that its queue's list no longer reaches, though it says that  *)
(* it is on the queue.                                                     *)
Dropped(c) ==
    cmd[c].fQueue = "afterResetHandledQ" /\ c \notin fAfterResetHandledQ

(* removeFromQ.  A dropped command has no previous one: the head becomes   *)
(* the command that followed it when it was dropped.  If that is on the    *)
(* list again, the ones before it are lost; if not, the list is, and the   *)
(* head is a command of another queue or of none.                          *)
removeFromQ(c) ==
    /\ fQueueNext' = [fQueueNext EXCEPT ![c] = NoCommand]
    /\ \/ /\ ~Dropped(c)
          /\ fAfterResetHandledQ' = fAfterResetHandledQ \ {c}
          /\ UNCHANGED strayHead
       \/ /\ Dropped(c) /\ fQueueNext[c] \in fAfterResetHandledQ
          /\ \E list \in SUBSET fAfterResetHandledQ :
                /\ fQueueNext[c] \in list
                /\ fAfterResetHandledQ' = list
                /\ strayHead' = (list # fAfterResetHandledQ)
       \/ /\ Dropped(c) /\ fQueueNext[c] \notin fAfterResetHandledQ
          /\ fAfterResetHandledQ' = {}
          /\ strayHead' = TRUE

Completed(c, done) ==
    /\ cmd' = [cmd EXCEPT ![c] = done]
    /\ fTrans' = WithoutLabel(fTrans, {c})

cancel(c) ==
    /\ c \in cancelling
    /\ cancelling' = cancelling \ {c}
    /\ IF cmd[c].fTrans = NoLabel
       THEN Completed(c, Answered(cmd[c], "kIOReturnAborted"))
       ELSE \/ \E done \in LateAnswers(c, cmd[c]) : Completed(c, done)
            \/ \E r \in GoesOn(c, cmd[c]) :
                  Completed(c, Answered(r, "kIOReturnAborted"))
    /\ removeFromQ(c)
    /\ UNCHANGED <<busVars, trouble>>

(* kIOFWAsyncCommandMaxExecutionTime passes.                               *)
GrowsTooOld(c) ==
    /\ cmd[c].fQueue \in {"timeoutQ", "afterResetHandledQ"}
    /\ ~cmd[c].tooOld
    /\ Costs(1)
    /\ cmd' = [cmd EXCEPT ![c].tooOld = TRUE]
    /\ UNCHANGED <<fTrans, fAfterResetHandledQ, listVars, busVars, cancelling>>

-----------------------------------------------------------------------------
(* The bus.                                                                *)

TooOld(s) == {c \in s.fAfterResetHandledQ : s.cmd[c].tooOld}

(* checkProgress completes with a timeout the commands that have waited    *)
(* too long, those in gone at once; the others have a retry left.          *)
GivenUp(s, gone) ==
    LET old == TooOld(s)
    IN  [cmd |-> [c \in Commands |->
                     CASE c \in gone -> Answered(s.cmd[c], "kIOReturnTimeout")
                       [] c \in old \ gone ->
                             [s.cmd[c] EXCEPT !.fCurRetries = @ - 1]
                       [] OTHER -> s.cmd[c]],
         fTrans |-> s.fTrans,
         fAfterResetHandledQ |-> s.fAfterResetHandledQ \ old]

MayCheckProgress(s, gone, fate, label) ==
    LET again == TooOld(s) \ gone
    IN  /\ \A c \in again : s.cmd[c].fCurRetries > 0
        /\ MayExecute(GivenUp(s, gone), again, fate, label)

checkProgress(s, gone, fate, label) ==
    Execute(GivenUp(s, gone), TooOld(s) \ gone, fate, label,
            "kWaitingSelfIDs")

(* Every outstanding transaction ends with a bus reset, and no device has  *)
(* a node ID of the new generation.                                        *)
Suspend(r) == [r EXCEPT !.current = FALSE]

suspendBus(s, ended) ==
    [cmd |-> [c \in Commands |->
                 IF c \in DOMAIN ended THEN ended[c] ELSE Suspend(s.cmd[c])],
     fTrans |-> [l \in Labels |-> NoCommand],
     fAfterResetHandledQ |->
         s.fAfterResetHandledQ
             \cup {c \in DOMAIN ended : ended[c].fQueue = "afterResetHandledQ"}]

(* What may become of the commands with a label, which it ends.            *)
Outstanding(s) == {c \in Commands : s.cmd[c].fTrans # NoLabel}
Suspensions(s) ==
    LET Ends(c) == Suspended(c, Suspend(s.cmd[c]))
    IN  {ended \in [Outstanding(s) -> UNION {Ends(c) : c \in Outstanding(s)}] :
            \A c \in Outstanding(s) : ended[c] \in Ends(c)}

(* Another reset is coming: the controller has asked for it.               *)
ResetOwed == \/ busPhase = "owed"
             \/ busPhase = "kScanning" /\ ~unscanned

(* A reset of the bus: one that was on its way, or a new one.              *)
processBusReset ==
    /\ IF ResetOwed THEN Costs(0) ELSE Costs(1)
    /\ busPhase' = "kWaitingSelfIDs"
    /\ \E gone \in SUBSET TooOld(Now) :
       \E fate \in [TooOld(Now) \ gone -> Fates],
          label \in Assignments(TooOld(Now) \ gone) :
             /\ MayCheckProgress(Now, gone, fate, label)
             /\ Becomes(checkProgress(Now, gone, fate, label))
    /\ UNCHANGED <<listVars, resumed, unscanned, cancelling>>

(* processSelfIDs does what processBusReset does if that was not called.   *)
processSelfIDs ==
    /\ IF ResetOwed \/ busPhase = "kWaitingSelfIDs"
       THEN Costs(0) ELSE Costs(1)
    /\ resumed' = {}
    /\ unscanned' = TRUE
    /\ busPhase' = "kScanning"
    /\ IF busPhase = "kWaitingSelfIDs"
       THEN \E ended \in Suspensions(Now) : Becomes(suspendBus(Now, ended))
       ELSE \E gone \in SUBSET TooOld(Now) :
            \E fate \in [TooOld(Now) \ gone -> Fates],
               label \in Assignments(TooOld(Now) \ gone) :
               LET s == checkProgress(Now, gone, fate, label)
               IN  /\ MayCheckProgress(Now, gone, fate, label)
                   /\ \E ended \in Suspensions(s) : Becomes(suspendBus(s, ended))
    /\ UNCHANGED <<listVars, cancelling>>

(* The ROM of a node of this generation was read and is that of d.         *)
updateDevice(d) ==
    /\ unscanned
    /\ d \notin resumed
    /\ resumed' = resumed \cup {d}
    /\ UNCHANGED <<cmd, fTrans, fAfterResetHandledQ, listVars, busPhase,
                   unscanned, cancelling, trouble>>

(* The controller leaves the scan for another reset: a self-ID timeout, a  *)
(* reset that had been scheduled, sleep.                                   *)
LeaveScan ==
    /\ scanningBus(busPhase)
    /\ Costs(1)
    /\ busPhase' = "owed"
    /\ UNCHANGED <<cmd, fTrans, fAfterResetHandledQ, listVars, resumed,
                   unscanned, cancelling>>

NoneStaysInQueue(s, last, fate, label, phase) ==                \* mutant
    [Execute([s EXCEPT !.fAfterResetHandledQ = {}],
             s.fAfterResetHandledQ, fate, label, phase)
     EXCEPT !.fAfterResetHandledQ = {}]

(* executeQueue( true ) holds on to the next command while one executes: a *)
(* command that comes back to the head of the list meanwhile is unlinked   *)
(* when the list moves on to the next.  Only the last stays.               *)
executeQueue(s, last, fate, label, phase) ==
    LET run == Execute([s EXCEPT !.fAfterResetHandledQ = {}],
                       s.fAfterResetHandledQ, fate, label, phase)
    IN  [run EXCEPT !.fAfterResetHandledQ = @ \cap {last}]

(* What the last, cancelled with a timeout until it leaves the queue, is   *)
(* told in the end.                                                        *)
DrainResults(s, c) ==
    {"kIOReturnTimeout"} \cup
    IF s.cmd[c].fCurRetries > 0 /\ FreeLabels(s) = {}
    THEN {"kIOFireWireOutOfTLabels"} ELSE {}

(* The list in some order: each command's successor, none for the last.    *)
Orders(Q) ==
    {next \in [Q -> Q \cup {NoCommand}] :
        /\ \A c, d \in Q : next[c] = next[d] => c = d
        /\ \A S \in SUBSET Q : S # {} => \E c \in S : next[c] \notin S}

(* finishedBusScan ends the scan, or asks for another reset; a scan that a *)
(* reset has overtaken changes no state.  Then it runs the commands that   *)
(* wait.                                                                   *)
finishedBusScan ==
    /\ unscanned
    /\ unscanned' = FALSE
    /\ \/ busPhase = "kScanning" /\ busPhase' = "settled" /\ Costs(0)
       \/ busPhase = "kScanning" /\ busPhase' \in {"kScanning", "owed"}
          /\ Costs(1)
       \/ busPhase # "kScanning" /\ UNCHANGED <<busPhase, trouble>>
    /\ \/ /\ fAfterResetHandledQ = {}
          /\ Becomes(Now)
          /\ UNCHANGED fQueueNext
       \/ \E last \in fAfterResetHandledQ,
             fate \in [fAfterResetHandledQ -> Fates],
             label \in Assignments(fAfterResetHandledQ) :
          LET s == executeQueue(Now, last, fate, label, busPhase')
          IN  /\ MayExecute(Now, fAfterResetHandledQ, fate, label)
              /\ IF s.fAfterResetHandledQ = {}
                 THEN Becomes(s)
                 ELSE \E result \in DrainResults(s, last) :
                         Becomes(Put(s, last, Answered(s.cmd[last], result)))
              /\ \E next \in Orders(fAfterResetHandledQ) :
                    /\ next[last] = NoCommand
                    /\ fQueueNext' =
                          [c \in Commands |->
                              IF c \in fAfterResetHandledQ
                                   /\ cmd'[c].fQueue = "afterResetHandledQ"
                              THEN next[c] ELSE fQueueNext[c]]
    /\ UNCHANGED <<strayHead, resumed, cancelling>>

-----------------------------------------------------------------------------
(* What the program does once a queue begins with a command that is not on *)
(* it is beyond this specification.                                        *)
Next ==
    /\ ~strayHead
    /\ \/ \E c \in Commands :
             \/ \E queue \in BOOLEAN : submit(c, queue)
             \/ checkForWork(c)
             \/ gotPacket(c)
             \/ processTimeout(c)
             \/ UserCommandFree(c)
             \/ cancel(c)
             \/ GrowsTooOld(c)
       \/ processBusReset
       \/ processSelfIDs
       \/ \E d \in Devices : updateDevice(d)
       \/ LeaveScan
       \/ finishedBusScan

Spec == Init /\ [][Next]_vars

(* Deadlines pass, the work loop runs what it is signalled for, and the    *)
(* controller sees its resets through to the end of a scan.  Nothing is    *)
(* assumed of the nodes: a request may never be answered.                  *)
Fairness ==
    /\ \A c \in Commands : WF_vars(checkForWork(c)) /\ WF_vars(processTimeout(c))
    /\ WF_vars(ResetOwed /\ processBusReset)
    /\ WF_vars(busPhase = "kWaitingSelfIDs" /\ processSelfIDs)
    /\ WF_vars(busPhase = "kScanning" /\ finishedBusScan)

FairSpec == Spec /\ Fairness
-----------------------------------------------------------------------------
(* Properties.                                                             *)

TypeOK ==
    /\ cmd \in [Commands -> CommandRecords]
    /\ \A c \in Commands : cmd[c].fSize <= MaxPackets[c]
    /\ fTrans \in [Labels -> Commands \cup {NoCommand}]
    /\ fAfterResetHandledQ \subseteq Commands
    /\ fQueueNext \in [Commands -> Commands \cup {NoCommand}]
    /\ strayHead \in BOOLEAN
    /\ resumed \subseteq Devices
    /\ busPhase \in Phases
    /\ unscanned \in BOOLEAN
    /\ cancelling \subseteq UserCommands
    /\ trouble \in 0..MaxTrouble

(* The table of labels and the commands agree, so that a response finds    *)
(* its command, and a label whose command is done is free again.           *)
LabelsOwned ==
    \A c \in Commands, l \in Labels : fTrans[l] = c <=> cmd[c].fTrans = l

(* A command that is busy holds a label and has a deadline; one that is    *)
(* pending is on one of the queues that run commands; one that is done is  *)
(* on no queue and has no label.                                           *)
WaitsAreServed ==
    \A c \in Commands :
        LET r == cmd[c]
        IN  /\ r.fStatus = "kIOReturnBusy" <=> r.fQueue = "timeoutQ"
            /\ r.fStatus = "kIOReturnBusy" <=> r.fTrans # NoLabel
            /\ r.fStatus = "kIOFireWirePending" <=>
                   r.fQueue \in {"pendingQ", "afterResetHandledQ"}

(* The statuses, the table of labels and the queues say the same, so that  *)
(* a response, a deadline or a cancellation finds the command it is for.   *)
LabelsAndQueues == TypeOK /\ LabelsOwned /\ WaitsAreServed

(* No request of an earlier generation is outstanding once the self-IDs of *)
(* a reset are in: node IDs may mean other nodes now.                      *)
NoStaleRequest ==
    \A c \in Commands : cmd[c].fTrans # NoLabel => cmd[c].current

(* Every submission is answered once, whatever happens to the bus, unless  *)
(* the packet after a response that came while it completed could not be   *)
(* sent: then it is answered twice.                                        *)
AnsweredOnce ==
    \A c \in Commands \ UserCommands :
        cmd[c].calls = CASE Waiting(cmd[c]) -> 0
                         [] ~Waiting(cmd[c]) /\ ~cmd[c].nestedFailed -> 1
                         [] OTHER -> 2

(* A command ends with success if and only if every packet of it has been  *)
(* transferred, through retries, resets and answers that come late; only a *)
(* second answer may say otherwise.                                        *)
SuccessIsComplete ==
    \A c \in Commands :
        /\ cmd[c].fStatus = "kIOReturnSuccess" => cmd[c].fSize = 0
        /\ cmd[c].fSize = 0 =>
              cmd[c].fStatus = "kIOReturnSuccess" \/ cmd[c].calls > 1

(* A command that is to survive resets is told of one only when it has     *)
(* been at it for more than 30 seconds.                                    *)
ToldOfResets ==
    \A c \in Commands : cmd[c].fStatus = "kIOFireWireBusReset" =>
                             cmd[c].fFailOnReset \/ cmd[c].tooOld

(* A submission is answered once, but for a failure inside its completion, *)
(* and with the truth; no reset leaves a request of the old bus out, and   *)
(* none ends a command that is to outlast it.                              *)
AnsweredTruly ==
    /\ AnsweredOnce /\ SuccessIsComplete
    /\ NoStaleRequest /\ ToldOfResets

(* A command that waits for the end of the scan leaves the queue to be     *)
(* executed or answered.  There are two exceptions: a scan ends while the  *)
(* bus still counts as being scanned, other commands wait too, and the     *)
(* device was not found; or a command that was dropped so is cancelled.    *)
DroppedOnlyUnsettled ==
    [][\A c \in fAfterResetHandledQ \ fAfterResetHandledQ' :
          cmd'[c].fQueue = "afterResetHandledQ" =>
              \/ /\ unscanned /\ ~unscanned'
                 /\ scanningBus(busPhase')
                 /\ fDevice[c] \notin resumed
                 /\ fAfterResetHandledQ # {c}
              \/ /\ \E d \in cancelling \ cancelling' : Dropped(d)
                 /\ strayHead']_vars

(* Every command that was submitted is answered, unless it is dropped from *)
(* the queue that waits for the end of a scan.                             *)
Answers ==
    \A c \in Commands :
        Waiting(cmd[c]) ~> ~Waiting(cmd[c]) \/ Dropped(c) \/ strayHead

=============================================================================
