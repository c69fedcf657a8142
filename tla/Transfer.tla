------------------------------ MODULE Transfer ------------------------------
(***************************************************************************)
(* What one asynchronous command moves: how IOFWReadCommand,               *)
(* IOFWReadQuadCommand, IOFWWriteCommand, IOFWWriteQuadCommand and         *)
(* IOFWCompareAndSwapCommand split their bytes into packets, count them,   *)
(* fall back to quadlets, retry, and go on after a bus reset; and the PHY  *)
(* and asynchronous stream packets, which nobody answers.  AsyncCommand    *)
(* has the queues and labels that many commands share.                     *)
(*                                                                         *)
(* Addresses and sizes count quadlets.  The node is there for the length   *)
(* of the behaviour; it may refuse, be busy, or answer a part of a read,   *)
(* and the bus may lose a request or its answer.                           *)
(***************************************************************************)
EXTENDS Integers

CONSTANTS
    TransferKinds,     \* the classes of command explored
    LastQuadlet,       \* the node has quadlets 0 to this
    Packs,             \* packet sizes of the node's speed, in quadlets
    DevicePacks,       \* and of its bus information block
    TransferRetries,   \* kFWCmdDefaultRetries
    MaxSubmits,        \* bound: submissions of the command
    MaxLosses,         \* bound: resets, refusals, losses and busy answers
    TransferRisks      \* what the code leaves to its callers, see README

TransferKindNames ==
    {"Read", "ReadQuad", "Write", "WriteQuad", "CompareAndSwap", "PHY",
     "Stream"}

ASSUME TransferAssumption ==
    /\ TransferKinds \subseteq TransferKindNames
    /\ LastQuadlet \in Nat
    /\ Packs \subseteq Nat \ {0} /\ DevicePacks \subseteq Nat \ {0}
    /\ TransferRetries \in Nat /\ MaxSubmits \in Nat /\ MaxLosses \in Nat
    /\ TransferRisks \subseteq {"splitQuads", "lostLock", "phyReset"}

VARIABLES
    kind,          \* the class of the command
    asked,         \* what the client asked for: address, size, inROM
    cmd,             \* the command's fields
    wire,          \* the packet that the FWIM holds
    memory,        \* the node's quadlets
    host,          \* the client's quadlets
    quads,         \* fOldVal of a compare and swap
    swapped,       \* this command's swap was done, for the property
    pack,          \* 1 << maxPackLog of the node's speed, and the device's
    phase,         \* what the bus does: scanningBus() is phase = "scan"
    submits, losses

transferVars == <<kind, asked, cmd, wire, memory, host, quads, swapped, pack,
                  phase, submits, losses>>
nodeVars == <<memory, swapped>>
clientVars == <<kind, asked, submits>>

Addresses == 0..LastQuadlet

Reading == kind \in {"Read", "ReadQuad"}
Writing == kind \in {"Write", "WriteQuad"}
Unanswered == kind \in {"PHY", "Stream"}

(* Quadlet i of what the client writes, and of what the node has at first. *)
Data(i) == 100 + i
Found(a) == 10 + a
NothingYet == 0
Compared == Found(0)          \* cmpVal of a compare and swap of quadlet 0
NewVal == 99
Foreign == 55                 \* what another node leaves there

NoPacket == [op |-> "none"]
Packet(op, to, n, data) == [op |-> op, to |-> to, n |-> n, data |-> data]

Loses == losses > 0 /\ losses' = losses - 1
Small(a, b) == IF a < b THEN a ELSE b

-----------------------------------------------------------------------------
(* Commands.                                                               *)

Idle ==
    [fStatus |-> "new", fSize |-> 0, fAddressLo |-> 0,
     fBytesTransferred |-> 0, fPackSize |-> 0, fMaxPack |-> 1,
     fCurRetries |-> 0, busy |-> FALSE, current |-> TRUE,
     fFailOnReset |-> FALSE, tooOld |-> FALSE]

TransferInit ==
    /\ kind \in TransferKinds
    /\ pack \in [speed : Packs, device : DevicePacks]
    /\ asked = [to |-> 0, size |-> 0, inROM |-> FALSE]
    /\ cmd = Idle /\ wire = NoPacket
    /\ memory = [a \in Addresses |-> Found(a)]
    /\ host = [a \in Addresses |-> NothingYet]
    /\ quads = NothingYet /\ swapped = FALSE
    /\ phase = "running" /\ submits = MaxSubmits /\ losses = MaxLosses

(* What the classes accept: the write of more than one quadlet from the    *)
(* internal buffer of IOFWWriteQuadCommand sends the first packet's data   *)
(* again, and so does no harm only where one packet takes it all.          *)
Fits(size, inROM) ==
    IF kind = "WriteQuad"
    THEN \/ size <= Small(pack.device, pack.speed) /\ ~inROM
         \/ "splitQuads" \in TransferRisks
    ELSE kind \in {"CompareAndSwap", "PHY", "Stream"} => size = 1

(* reinit, and initAll before it.                                          *)
ReinitKeepingCount(to, size, failOnReset) ==                    \* mutant
    [cmd EXCEPT !.fSize = size, !.fAddressLo = to,
              !.fPackSize = 0, !.fMaxPack = Small(pack.device, pack.speed),
              !.fCurRetries = TransferRetries, !.busy = FALSE,
              !.current = TRUE, !.fFailOnReset = failOnReset,
              !.tooOld = FALSE]

reinit(to, size, failOnReset) ==
    [ReinitKeepingCount(to, size, failOnReset)
        EXCEPT !.fBytesTransferred = 0]

-----------------------------------------------------------------------------
(* execute() and complete(), on the record y of the command's fields.      *)

(* Results of a handler: the command and the packet it leaves with the     *)
(* FWIM.                                                                   *)
Result(y, packet) == [cmd |-> y, wire |-> packet]

Ended(y, status) == Result([y EXCEPT !.fStatus = status], NoPacket)

(* complete( kIOFireWireBusReset ): only IOFWAsyncCommand turns the status *)
(* into kIOReturnOffline, and only it gives up what was submitted more     *)
(* than 30 seconds ago, with the status that it has.                       *)
EndedByTheReset(y, scanning) ==
    CASE ~y.fFailOnReset /\ ~y.tooOld /\ scanning ->
            Ended(y, "kIOFireWirePending")
      [] ~y.fFailOnReset /\ ~y.tooOld /\ ~scanning /\ ~Unanswered ->
            Ended(y, "kIOReturnOffline")
      [] OTHER -> Ended(y, "kIOFireWireBusReset")

(* Every class but PHY takes the node ID and the generation of the device, *)
(* or of the bus, each time it executes.                                   *)
Refreshed(y) ==
    [y EXCEPT !.current = @ \/ (~y.fFailOnReset /\ kind # "PHY"),
              !.fStatus = "kIOReturnBusy"]

(* The packet of a write carries fMemDesc from fBytesTransferred on; that  *)
(* of IOFWWriteQuadCommand its fMemory from 0.                             *)
FirstOf(y) == IF kind = "WriteQuad" THEN 0 ELSE y.fBytesTransferred

PacketOf(y, n) ==
    CASE Reading -> Packet("read", y.fAddressLo, n, 0)
      [] Writing -> Packet("write", y.fAddressLo, n, FirstOf(y))
      [] OTHER -> Packet(kind, y.fAddressLo, 1, 0)

execute(y) ==
    LET z == Refreshed(y)
        n == Small(z.fSize, Small(z.fMaxPack, pack.speed))
    IN  IF ~z.current THEN EndedByTheReset(z, phase = "scan")
        ELSE Result([z EXCEPT !.fPackSize = n], PacketOf(z, n))

(* handleAsyncTimeout: whether the FWIM wants another try.                 *)
completeTimeout(y, fwim) ==
    LET retry == [y EXCEPT !.fCurRetries = @ - 1, !.busy = FALSE]
    IN  IF Unanswered \/ y.fCurRetries = 0
        THEN Ended(y, "kIOReturnTimeout")
        ELSE CASE y.busy -> execute(retry)
               [] ~y.busy /\ y.fMaxPack > 1 /\ asked.inROM ->
                    execute([retry EXCEPT !.fMaxPack = 1])
               [] OTHER -> IF fwim THEN execute(retry)
                           ELSE Ended(retry, "kIOReturnTimeout")

(* gotPacket of a good answer of n quadlets.                               *)
Advanced(y, n) ==
    LET z == [y EXCEPT !.fSize = @ - n, !.fBytesTransferred = @ + n]
    IN  IF z.fSize > 0
        THEN execute([z EXCEPT !.fAddressLo = @ + n,
                               !.fCurRetries = TransferRetries])
        ELSE Ended(z, "kIOReturnSuccess")

(* gotPacket of an error: reads try again with quadlets.                   *)
FallsBack(y, rcode) ==
    /\ y.fMaxPack > 1
    /\ \/ kind = "Read" /\ rcode = "TypeError"
       \/ kind = "ReadQuad" /\ rcode \in {"TypeError", "AddressError"}

RefusedFor(y, rcode) ==
    IF FallsBack(y, rcode)
    THEN execute([y EXCEPT !.fMaxPack = 1,
                           !.fCurRetries = TransferRetries])
    ELSE Ended(y, rcode)

Leaves(r) == cmd' = r.cmd /\ wire' = r.wire

Waits == cmd.fStatus \in {"kIOReturnBusy", "kIOFireWirePending"}

-----------------------------------------------------------------------------
(* The client.                                                             *)

Submit(to, size, inROM, failOnReset) ==
    /\ ~Waits
    /\ submits > 0 /\ submits' = submits - 1
    /\ to + size - 1 \in Addresses /\ Fits(size, inROM)
    /\ kind = "CompareAndSwap" => to = 0
    /\ kind = "PHY" => failOnReset \/ "phyReset" \in TransferRisks
    /\ asked' = [to |-> to, size |-> size, inROM |-> inROM]
    /\ memory' = [a \in Addresses |-> Found(a)]
    /\ host' = [a \in Addresses |-> NothingYet]
    /\ quads' = NothingYet /\ swapped' = FALSE
    /\ Leaves(execute(reinit(to, size, failOnReset)))
    /\ UNCHANGED <<kind, pack, phase, losses>>

-----------------------------------------------------------------------------
(* The node serves the packet; it answers with what gotPacket is told.     *)

WrittenFrom(m, p) ==
    [a \in Addresses |-> IF a \in p.to..(p.to + p.n - 1)
                         THEN Data(p.data + a - p.to) ELSE m[a]]

Performed ==
    CASE wire.op = "write" ->
            /\ memory' = WrittenFrom(memory, wire)
            /\ UNCHANGED swapped
      [] wire.op = "CompareAndSwap" ->
            /\ memory' = IF memory[0] = Compared
                         THEN [memory EXCEPT ![0] = NewVal] ELSE memory
            /\ swapped' = (swapped \/ memory[0] = Compared)
      [] OTHER -> UNCHANGED nodeVars

(* gotPacket of the read commands: n quadlets, of which the node may send  *)
(* fewer than it was asked for.                                            *)
gotReadPacket(n) ==
    /\ wire.op = "read" /\ n \in 1..wire.n
    /\ n < wire.n => losses > 0
    /\ losses' = losses - (IF n < wire.n THEN 1 ELSE 0)
    /\ host' = [a \in Addresses |->
                    IF a \in cmd.fBytesTransferred..(cmd.fBytesTransferred + n - 1)
                    THEN memory[wire.to + a - cmd.fBytesTransferred]
                    ELSE host[a]]
    /\ Leaves(Advanced(cmd, n))
    /\ UNCHANGED <<clientVars, nodeVars, quads, pack, phase>>

(* gotPacket of the write commands, or gotAck( kFWAckComplete ).           *)
gotWritePacket ==
    /\ wire.op = "write" /\ Performed
    /\ Leaves(Advanced(cmd, cmd.fPackSize))
    /\ UNCHANGED <<clientVars, host, quads, pack, phase, losses>>

LockResults == {"kIOReturnSuccess", "kIOFireWireInvalidResponseLength"}

(* gotPacket of a compare and swap: a wrong length is told, after the      *)
(* values are taken.                                                       *)
gotLockPacket(result) ==
    /\ wire.op = "CompareAndSwap" /\ Performed
    /\ quads' = memory[0]
    /\ Leaves(Ended(cmd, result))
    /\ UNCHANGED <<clientVars, host, pack, phase, losses>>

locked == quads = Compared

(* gotAck of the packets that have no answer.                              *)
gotAckOfPacket(ack) ==
    /\ wire.op \in {"PHY", "Stream"}
    /\ Leaves(Ended(cmd, IF ack = "kFWAckComplete" THEN "kIOReturnSuccess"
                        ELSE "kIOReturnTimeout"))
    /\ UNCHANGED <<clientVars, nodeVars, host, quads, pack, phase, losses>>

(* The node does nothing and answers with an error, or gotAck turned a bad *)
(* acknowledgement into kFWResponseTypeError.                              *)
gotError(rcode) ==
    /\ wire.op \notin {"none", "lost", "PHY", "Stream"} /\ Loses
    /\ Leaves(RefusedFor(cmd, rcode))
    /\ UNCHANGED <<clientVars, nodeVars, host, quads, pack, phase>>

(* gotAck( kFWAckBusyX ) and the like: kept for when the command times     *)
(* out.                                                                    *)
gotAckBusy ==
    /\ wire.op \notin {"none", "lost", "PHY", "Stream"} /\ Loses
    /\ cmd' = [cmd EXCEPT !.busy = TRUE]
    /\ wire' = [op |-> "lost"]
    /\ UNCHANGED <<clientVars, nodeVars, host, quads, pack, phase>>

(* The request, or the answer to it, is lost.                              *)
LoseRequest ==
    /\ wire.op \notin {"none", "lost"} /\ Loses
    /\ wire' = [op |-> "lost"]
    /\ UNCHANGED <<clientVars, cmd, nodeVars, host, quads, pack, phase>>

LoseAnswer ==
    /\ wire.op \in {"read", "write", "CompareAndSwap"} /\ Loses
    /\ wire.op = "CompareAndSwap" => "lostLock" \in TransferRisks
    /\ Performed
    /\ wire' = [op |-> "lost"]
    /\ UNCHANGED <<clientVars, cmd, host, quads, pack, phase>>

Timeout(fwim) ==
    /\ wire.op = "lost"
    /\ Leaves(completeTimeout(cmd, fwim))
    /\ UNCHANGED <<clientVars, nodeVars, host, quads, pack, phase, losses>>

-----------------------------------------------------------------------------
(* The bus.                                                                *)

(* Another node writes the quadlet that is compared.                       *)
OtherNodeWrites ==
    /\ kind = "CompareAndSwap" /\ memory[0] = Compared /\ ~swapped /\ Loses
    /\ memory' = [memory EXCEPT ![0] = Foreign]
    /\ UNCHANGED <<clientVars, cmd, wire, host, quads, swapped, pack, phase>>

(* kIOFWAsyncCommandMaxExecutionTime passes.                               *)
GrowsTooOld ==
    /\ Waits /\ ~Unanswered /\ ~cmd.tooOld /\ Loses
    /\ cmd' = [cmd EXCEPT !.tooOld = TRUE]
    /\ UNCHANGED <<clientVars, nodeVars, wire, host, quads, pack, phase>>

(* IOFWCmdQ::checkProgress: a command that waits since too long times out. *)
CheckedProgress(y, fwim) ==
    IF y.fStatus = "kIOFireWirePending" /\ y.tooOld
    THEN completeTimeout(y, fwim).cmd ELSE y

(* A bus reset ends every command that waits for an answer, and may change *)
(* the speed of the node; a packet on its way may have been served.        *)
BusResets(served, speed, fwim) ==
    /\ Loses
    /\ phase' = "scan" /\ pack' = [pack EXCEPT !.speed = speed]
    /\ kind = "WriteQuad" /\ "splitQuads" \notin TransferRisks =>
            speed >= pack.speed
    /\ IF served /\ wire.op \in {"write", "CompareAndSwap"}
       THEN /\ wire.op = "CompareAndSwap" => "lostLock" \in TransferRisks
            /\ Performed
       ELSE UNCHANGED nodeVars
    /\ LET y == [CheckedProgress(cmd, fwim) EXCEPT !.current = FALSE]
       IN  cmd' = IF y.fStatus = "kIOReturnBusy"
                  THEN EndedByTheReset(y, TRUE).cmd ELSE y
    /\ wire' = NoPacket
    /\ UNCHANGED <<clientVars, host, quads>>

ScanEnds ==
    /\ phase = "scan" /\ phase' = "running"
    /\ UNCHANGED <<clientVars, nodeVars, cmd, wire, host, quads, pack, losses>>

(* The commands of the after-reset-handled queue start again.              *)
Resume ==
    /\ phase = "running" /\ cmd.fStatus = "kIOFireWirePending"
    /\ Leaves(execute(cmd))
    /\ UNCHANGED <<clientVars, nodeVars, host, quads, pack, phase, losses>>

TransferNext ==
    \/ \E to \in Addresses, size \in 1..(LastQuadlet + 1),
          inROM, failOnReset \in BOOLEAN : Submit(to, size, inROM, failOnReset)
    \/ \E n \in 1..(LastQuadlet + 1) : gotReadPacket(n)
    \/ gotWritePacket
    \/ \E result \in LockResults : gotLockPacket(result)
    \/ \E ack \in {"kFWAckComplete", "kFWAckTimeout"} : gotAckOfPacket(ack)
    \/ \E rcode \in {"TypeError", "AddressError", "DataError"} :
            gotError(rcode)
    \/ gotAckBusy \/ LoseRequest \/ LoseAnswer
    \/ \E fwim \in BOOLEAN : Timeout(fwim)
    \/ OtherNodeWrites
    \/ GrowsTooOld
    \/ \E served, fwim \in BOOLEAN, speed \in Packs :
            BusResets(served, speed, fwim)
    \/ ScanEnds \/ Resume

TransferSpec == TransferInit /\ [][TransferNext]_transferVars

-----------------------------------------------------------------------------
(* What has been counted as read or written is at its place, nothing       *)
(* beside it is touched, and success means all of it, however often        *)
(* packets were refused, lost, cut short or interrupted by bus resets      *)
(* (gotPacket and execute of the read and write commands).                 *)
Moved == 0..(cmd.fBytesTransferred - 1)
TransfersAreWhole ==
    /\ Reading => \A a \in Addresses :
            host[a] = IF a \in Moved THEN Found(asked.to + a) ELSE NothingYet
    /\ Writing => \A a \in Addresses :
            LET i == a - asked.to
            IN  IF i \in 0..(asked.size - 1)
                THEN /\ i \in Moved => memory[a] = Data(i)
                     /\ memory[a] \in {Found(a), Data(i)}
                ELSE memory[a] = Found(a)
    /\ (Reading \/ Writing) /\ cmd.fStatus = "kIOReturnSuccess" =>
            cmd.fBytesTransferred = asked.size

(* A compare and swap that ends well tells its client truly whether this   *)
(* command has changed the quadlet (locked).                               *)
LocksAreTold ==
    kind = "CompareAndSwap" /\ cmd.fStatus = "kIOReturnSuccess" =>
        locked = swapped

(* A command that is to survive bus resets ends with one only when it has  *)
(* been at it for more than 30 seconds (complete: "put it on the 'after    *)
(* reset queue'").                                                         *)
ResetsAreNoAnswer ==
    cmd.fStatus = "kIOFireWireBusReset" => cmd.fFailOnReset \/ cmd.tooOld

TransfersAreTrue == TransfersAreWhole /\ LocksAreTold /\ ResetsAreNoAnswer
=============================================================================
