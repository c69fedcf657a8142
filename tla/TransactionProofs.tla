-------------------------- MODULE TransactionProofs --------------------------
(***************************************************************************)
(* Proofs about transactions with other nodes: those this node begins      *)
(* (Transfer), for any sizes, packets, retries and disturbances, and those *)
(* that others begin (Inbound), for any nodes, spaces and requests.  What  *)
(* breaks their promises is named by the modules, so the theorems assume   *)
(* that there are no such risks and races.                                 *)
(***************************************************************************)
EXTENDS Transfer, Inbound, FiniteSetTheorems, SequenceTheorems, TLAPS

-----------------------------------------------------------------------------
(* Transfer: the inductive invariant.                                      *)

Statuses == {"new", "kIOReturnBusy", "kIOFireWirePending", "kIOReturnOffline",
             "kIOFireWireBusReset", "kIOReturnTimeout", "kIOReturnSuccess",
             "kIOFireWireInvalidResponseLength", "TypeError", "AddressError",
             "DataError"}

Cmds == [fStatus : Statuses, fSize : Nat, fAddressLo : Nat,
         fBytesTransferred : Nat, fPackSize : Nat, fMaxPack : Nat \ {0},
         fCurRetries : Int, busy : BOOLEAN, current : BOOLEAN,
         fFailOnReset : BOOLEAN, tooOld : BOOLEAN]

Asked == [to : Addresses, size : Nat, inROM : BOOLEAN]
PackSizes == [speed : Packs, device : DevicePacks]

Active(y) == y.fStatus \in {"kIOReturnBusy", "kIOFireWirePending"}

(* A command that has something left to move, and where it will go.  A     *)
(* quadlet write goes in one packet, and a PHY command ends with a reset.  *)
Ready(y, a, p) ==
    /\ y.fSize >= 1
    /\ y.fSize + y.fBytesTransferred = a.size
    /\ y.fAddressLo = a.to + y.fBytesTransferred
    /\ a.to + a.size <= LastQuadlet + 1
    /\ kind = "WriteQuad" =>
          /\ y.fBytesTransferred = 0 /\ ~a.inROM
          /\ y.fSize <= y.fMaxPack /\ y.fSize <= p.speed
    /\ kind = "PHY" => y.fFailOnReset

(* The packet that the FWIM has of it.                                     *)
OnTheWire(y, w) ==
    \/ w = [op |-> "lost"]
    \/ /\ w = PacketOf(y, y.fPackSize)
       /\ y.fPackSize \in 1..y.fSize
       /\ kind = "WriteQuad" => y.fPackSize = y.fSize

Sound(y, w, a, p) ==
    /\ y \in Cmds
    /\ Active(y) => Ready(y, a, p)
    /\ y.fSize + y.fBytesTransferred = a.size
    /\ y.fStatus = "kIOReturnBusy" => OnTheWire(y, w)
    /\ y.fStatus # "kIOReturnBusy" => w = NoPacket
    /\ y.fStatus = "kIOReturnSuccess" /\ (Reading \/ Writing) => y.fSize = 0
    /\ y.fStatus = "kIOFireWireBusReset" => y.fFailOnReset \/ y.tooOld

TransferTypes ==
    /\ kind \in TransferKindNames
    /\ pack \in PackSizes
    /\ asked \in Asked
    /\ memory \in [Addresses -> Int]
    /\ host \in [Addresses -> Int]
    /\ swapped \in BOOLEAN

(* What the client and the node have of it.                                *)
HostSound == Reading => \A a \in Addresses :
    host[a] = IF a \in Moved THEN Found(asked.to + a) ELSE NothingYet

MemorySound ==
    /\ Reading => \A a \in Addresses : memory[a] = Found(a)
    /\ Writing => \A a \in Addresses :
          LET i == a - asked.to
          IN  IF i \in 0..(asked.size - 1)
              THEN /\ i \in Moved => memory[a] = Data(i)
                   /\ memory[a] \in {Found(a), Data(i)}
              ELSE memory[a] = Found(a)

SwapSound == kind = "CompareAndSwap" =>
    /\ Active(cmd) => ~swapped
    /\ cmd.fStatus = "kIOReturnSuccess" => (locked <=> swapped)

TransferInv == /\ TransferTypes
               /\ Sound(cmd, wire, asked, pack)
               /\ HostSound /\ MemorySound /\ SwapSound

-----------------------------------------------------------------------------
(* Transfer: what the operators do with a command.                         *)

LEMMA Constants ==
    /\ Packs \subseteq Nat \ {0} /\ DevicePacks \subseteq Nat \ {0}
    /\ LastQuadlet \in Nat /\ TransferRetries \in Nat
    /\ TransferKinds \subseteq TransferKindNames
    BY TransferAssumption DEF TransferAssumption

LEMMA SmallOf ==
    ASSUME NEW a \in Nat \ {0}, NEW b \in Nat \ {0}
    PROVE  /\ Small(a, b) \in Nat \ {0}
           /\ Small(a, b) <= a /\ Small(a, b) <= b
           /\ Small(a, b) = a \/ Small(a, b) = b
           /\ \A c \in Nat : c <= a /\ c <= b => c <= Small(a, b)
    BY DEF Small

(* Executing a command that is ready leaves it as it was, with a packet on *)
(* the wire or a reset to tell of.                                         *)
LEMMA ExecuteSound ==
    ASSUME NEW y \in Cmds, NEW a \in Asked, pack \in PackSizes,
           kind \in TransferKindNames, Ready(y, a, pack)
    PROVE  /\ execute(y) = [cmd |-> execute(y).cmd, wire |-> execute(y).wire]
           /\ Sound(execute(y).cmd, execute(y).wire, a, pack)
           /\ execute(y).cmd.fBytesTransferred = y.fBytesTransferred
           /\ execute(y).cmd.fStatus # "kIOReturnSuccess"
  <1> DEFINE z == Refreshed(y)
             n == Small(z.fSize, Small(z.fMaxPack, pack.speed))
  <1>1. /\ z \in Cmds /\ z.fStatus = "kIOReturnBusy"
        /\ z.fSize = y.fSize /\ z.fBytesTransferred = y.fBytesTransferred
        /\ z.fAddressLo = y.fAddressLo /\ z.fMaxPack = y.fMaxPack
        /\ z.fFailOnReset = y.fFailOnReset
    BY DEF Refreshed, Cmds, Statuses
  <1>2. ~z.current => z.fFailOnReset
    BY DEF Refreshed, Cmds, Ready
  <1>3. Ready(z, a, pack)
    BY <1>1 DEF Ready
  <1> HIDE DEF z
  <1>4. n \in 1..z.fSize /\ (kind = "WriteQuad" => n = z.fSize)
    <2>1. z.fSize \in Nat \ {0} /\ z.fMaxPack \in Nat \ {0}
      BY <1>1, <1>3 DEF Ready, Cmds
    <2>2. pack.speed \in Nat \ {0}
      BY Constants DEF PackSizes
    <2>3. kind = "WriteQuad" => z.fSize <= z.fMaxPack /\ z.fSize <= pack.speed
      BY <1>3 DEF Ready
    <2> QED
      BY <2>1, <2>2, <2>3 DEF Small
  <1> DEFINE x == [z EXCEPT !.fPackSize = n]
  <1>5. CASE z.current
    <2>1. execute(y) = Result(x, PacketOf(z, n))
      BY <1>5 DEF execute, z
    <2>2. /\ x \in Cmds /\ x.fStatus = "kIOReturnBusy" /\ x.fPackSize = n
          /\ x.fSize = z.fSize /\ x.fBytesTransferred = z.fBytesTransferred
          /\ x.fAddressLo = z.fAddressLo /\ x.fMaxPack = z.fMaxPack
          /\ x.fFailOnReset = z.fFailOnReset
      BY <1>1, <1>4 DEF Cmds
    <2> HIDE DEF x, n
    <2>3. PacketOf(x, n) = PacketOf(z, n)
      BY <2>2 DEF PacketOf, FirstOf
    <2>4. Ready(x, a, pack)
      BY <1>3, <2>2 DEF Ready
    <2>5. OnTheWire(x, PacketOf(z, n))
      BY <2>2, <2>3, <1>4 DEF OnTheWire
    <2>6. Sound(x, PacketOf(z, n), a, pack)
      BY <2>2, <2>4, <2>5 DEF Sound, Ready
    <2> QED
      BY <1>1, <2>1, <2>2, <2>6 DEF Result
  <1>6. CASE ~z.current
    <2>1. z.fFailOnReset
      BY <1>2, <1>6
    <2>2. execute(y) = Ended(z, "kIOFireWireBusReset")
      BY <1>6, <2>1 DEF execute, EndedByTheReset, z
    <2> DEFINE e == [z EXCEPT !.fStatus = "kIOFireWireBusReset"]
    <2>3. /\ e \in Cmds /\ e.fStatus = "kIOFireWireBusReset"
          /\ e.fSize = z.fSize /\ e.fBytesTransferred = z.fBytesTransferred
          /\ e.fFailOnReset
      BY <1>1, <2>1 DEF Cmds, Statuses
    <2>4. Sound(e, NoPacket, a, pack)
      BY <2>3, <1>3 DEF Sound, Active, Ready
    <2>5. execute(y) = [cmd |-> e, wire |-> NoPacket]
      BY <2>2 DEF Ended, Result
    <2> HIDE DEF e
    <2>6. execute(y).cmd = e /\ execute(y).wire = NoPacket
      BY <2>5
    <2> QED
      BY <1>1, <2>3, <2>4, <2>5, <2>6
  <1> QED
    BY <1>5, <1>6

(* What a handler may leave of the command y that had moved y's bytes and  *)
(* then n more.                                                            *)
Outcome(r, y, n, a) ==
    /\ r = [cmd |-> r.cmd, wire |-> r.wire]
    /\ Sound(r.cmd, r.wire, a, pack)
    /\ r.cmd.fBytesTransferred = y.fBytesTransferred + n

LEMMA ExecuteOutcome ==
    ASSUME NEW y \in Cmds, NEW a \in Asked, pack \in PackSizes,
           kind \in TransferKindNames, Ready(y, a, pack)
    PROVE  /\ Outcome(execute(y), y, 0, a)
           /\ execute(y).cmd.fStatus # "kIOReturnSuccess"
  <1>1. y.fBytesTransferred + 0 = y.fBytesTransferred
    BY DEF Cmds
  <1> QED
    BY <1>1, ExecuteSound DEF Outcome

LEMMA EndedSound ==
    ASSUME NEW y \in Cmds, NEW a \in Asked, NEW status \in Statuses,
           y.fSize + y.fBytesTransferred = a.size,
           ~Active([y EXCEPT !.fStatus = status]),
           status = "kIOReturnSuccess" /\ (Reading \/ Writing) => y.fSize = 0,
           status # "kIOFireWireBusReset"
    PROVE  /\ Outcome(Ended(y, status), y, 0, a)
           /\ Ended(y, status).cmd.fStatus = status
  <1> DEFINE e == [y EXCEPT !.fStatus = status]
  <1>1. /\ e \in Cmds /\ e.fStatus = status /\ e.fSize = y.fSize
        /\ e.fBytesTransferred = y.fBytesTransferred
    BY DEF Cmds
  <1>2. ~Active(e)
    OBVIOUS
  <1>3. Ended(y, status) = [cmd |-> e, wire |-> NoPacket]
    BY DEF Ended, Result
  <1> HIDE DEF e
  <1>4. e.fStatus # "kIOReturnBusy"
    BY <1>2 DEF Active
  <1>5. Sound(e, NoPacket, a, pack)
    BY <1>1, <1>2, <1>4 DEF Sound
  <1>6. y.fBytesTransferred + 0 = y.fBytesTransferred
    BY DEF Cmds
  <1>7. Ended(y, status).cmd = e /\ Ended(y, status).wire = NoPacket
    BY <1>3
  <1> QED
    BY <1>1, <1>3, <1>5, <1>6, <1>7 DEF Outcome

(* gotPacket of a good answer of n quadlets.                               *)
LEMMA AdvancedSound ==
    ASSUME NEW y \in Cmds, NEW a \in Asked, pack \in PackSizes,
           kind \in TransferKindNames, Ready(y, a, pack),
           NEW n \in 1..y.fSize, kind = "WriteQuad" => n = y.fSize
    PROVE  Outcome(Advanced(y, n), y, n, a)
  <1> DEFINE z == [y EXCEPT !.fSize = @ - n, !.fBytesTransferred = @ + n]
             x == [z EXCEPT !.fAddressLo = @ + n, !.fCurRetries = TransferRetries]
  <1>1. /\ y.fSize \in Nat /\ y.fBytesTransferred \in Nat /\ y.fAddressLo \in Nat
        /\ n \in Nat /\ a.size \in Nat /\ a.to \in Nat
        /\ y.fSize - n \in Nat /\ y.fBytesTransferred + n \in Nat
        /\ y.fAddressLo + n \in Nat
    BY Constants DEF Cmds, Asked, Addresses
  <1>2. /\ z \in Cmds /\ z.fSize = y.fSize - n
        /\ z.fBytesTransferred = y.fBytesTransferred + n
        /\ z.fAddressLo = y.fAddressLo /\ z.fMaxPack = y.fMaxPack
        /\ z.fFailOnReset = y.fFailOnReset
    BY <1>1 DEF Cmds
  <1>3. z.fSize + z.fBytesTransferred = a.size
    BY <1>1, <1>2 DEF Ready
  <1>4. z.fBytesTransferred = y.fBytesTransferred + n
    BY <1>2
  <1>5. CASE z.fSize > 0
    <2>1. Advanced(y, n) = execute(x)
      BY <1>5 DEF Advanced
    <2>2. TransferRetries \in Int
      BY Constants
    <2> HIDE DEF z
    <2>3. /\ x \in Cmds /\ x.fSize = z.fSize
          /\ x.fBytesTransferred = z.fBytesTransferred
          /\ x.fAddressLo = z.fAddressLo + n /\ x.fMaxPack = z.fMaxPack
          /\ x.fFailOnReset = z.fFailOnReset
      BY <1>1, <1>2, <2>2 DEF Cmds
    <2> HIDE DEF x
    <2>4. kind # "WriteQuad"
      BY <1>1, <1>2, <1>5
    <2>5. Ready(x, a, pack)
      BY <1>1, <1>2, <1>3, <1>5, <2>3, <2>4 DEF Ready
    <2>6. Outcome(execute(x), x, 0, a)
      BY <2>3, <2>5, ExecuteOutcome
    <2>7. x.fBytesTransferred + 0 = y.fBytesTransferred + n
      BY <1>1, <1>4, <2>3
    <2> QED
      BY <2>1, <2>6, <2>7 DEF Outcome
  <1>6. CASE z.fSize = 0
    <2>1. Advanced(y, n) = Ended(z, "kIOReturnSuccess")
      BY <1>6 DEF Advanced
    <2> HIDE DEF z
    <2>2. ~Active([z EXCEPT !.fStatus = "kIOReturnSuccess"])
      BY <1>2 DEF Active, Cmds
    <2>3. "kIOReturnSuccess" \in Statuses
      BY DEF Statuses
    <2>4. Outcome(Ended(z, "kIOReturnSuccess"), z, 0, a)
      BY <1>2, <1>3, <1>6, <2>2, <2>3, EndedSound
    <2>5. z.fBytesTransferred + 0 = y.fBytesTransferred + n
      BY <1>1, <1>4
    <2> QED
      BY <2>1, <2>4, <2>5 DEF Outcome
  <1>7. z.fSize > 0 \/ z.fSize = 0
    BY <1>1, <1>2
  <1> QED
    BY <1>5, <1>6, <1>7

(* gotPacket of an error.                                                  *)
LEMMA RefusedSound ==
    ASSUME NEW y \in Cmds, NEW a \in Asked, pack \in PackSizes,
           kind \in TransferKindNames, Ready(y, a, pack),
           NEW rcode \in {"TypeError", "AddressError", "DataError"}
    PROVE  /\ Outcome(RefusedFor(y, rcode), y, 0, a)
           /\ RefusedFor(y, rcode).cmd.fStatus # "kIOReturnSuccess"
  <1> DEFINE x == [y EXCEPT !.fMaxPack = 1, !.fCurRetries = TransferRetries]
  <1>1. CASE FallsBack(y, rcode)
    <2>1. RefusedFor(y, rcode) = execute(x)
      BY <1>1 DEF RefusedFor
    <2>2. kind # "WriteQuad"
      BY <1>1 DEF FallsBack
    <2>3. /\ x \in Cmds /\ x.fSize = y.fSize
          /\ x.fBytesTransferred = y.fBytesTransferred
          /\ x.fAddressLo = y.fAddressLo /\ x.fFailOnReset = y.fFailOnReset
      <3>1. 1 \in Nat \ {0} /\ TransferRetries \in Int
        BY Constants
      <3> QED
        BY <3>1 DEF Cmds
    <2> HIDE DEF x
    <2>4. Ready(x, a, pack)
      BY <2>2, <2>3 DEF Ready
    <2> QED
      BY <2>1, <2>3, <2>4, ExecuteOutcome DEF Outcome
  <1>2. CASE ~FallsBack(y, rcode)
    <2>1. RefusedFor(y, rcode) = Ended(y, rcode)
      BY <1>2 DEF RefusedFor
    <2>2. rcode \in Statuses /\ rcode # "kIOReturnSuccess"
          /\ rcode # "kIOFireWireBusReset"
      BY DEF Statuses
    <2>3. ~Active([y EXCEPT !.fStatus = rcode])
      BY DEF Active, Cmds
    <2>4. y.fSize + y.fBytesTransferred = a.size
      BY DEF Ready
    <2>5. /\ Outcome(Ended(y, rcode), y, 0, a)
          /\ Ended(y, rcode).cmd.fStatus = rcode
      BY <2>2, <2>3, <2>4, EndedSound
    <2> QED
      BY <2>1, <2>2, <2>5
  <1> QED
    BY <1>1, <1>2

(* The command timed out: it is tried again, smaller perhaps, or ends.     *)
LEMMA TimeoutSound ==
    ASSUME NEW y \in Cmds, asked \in Asked, pack \in PackSizes,
           kind \in TransferKindNames, Ready(y, asked, pack),
           NEW fwim \in BOOLEAN
    PROVE  /\ Outcome(completeTimeout(y, fwim), y, 0, asked)
           /\ completeTimeout(y, fwim).cmd.fStatus # "kIOReturnSuccess"
  <1> DEFINE retry == [y EXCEPT !.fCurRetries = @ - 1, !.busy = FALSE]
             small == [retry EXCEPT !.fMaxPack = 1]
  <1>1. /\ retry \in Cmds /\ retry.fSize = y.fSize
        /\ retry.fBytesTransferred = y.fBytesTransferred
        /\ retry.fAddressLo = y.fAddressLo /\ retry.fFailOnReset = y.fFailOnReset
        /\ retry.fMaxPack = y.fMaxPack
    <2>1. y.fCurRetries - 1 \in Int
      BY DEF Cmds
    <2> QED
      BY <2>1 DEF Cmds
  <1>2. Ready(retry, asked, pack)
    BY <1>1 DEF Ready
  <1>3. /\ Outcome(execute(retry), y, 0, asked)
        /\ execute(retry).cmd.fStatus # "kIOReturnSuccess"
    <2> HIDE DEF retry
    <2> QED
      BY <1>1, <1>2, ExecuteOutcome DEF Outcome
  <1>4. asked.inROM =>
           /\ Outcome(execute(small), y, 0, asked)
           /\ execute(small).cmd.fStatus # "kIOReturnSuccess"
    <2> SUFFICES ASSUME asked.inROM
                 PROVE  /\ Outcome(execute(small), y, 0, asked)
                        /\ execute(small).cmd.fStatus # "kIOReturnSuccess"
      OBVIOUS
    <2> HIDE DEF retry
    <2>1. kind # "WriteQuad"
      BY DEF Ready
    <2>2. /\ small \in Cmds /\ small.fSize = retry.fSize
          /\ small.fBytesTransferred = retry.fBytesTransferred
          /\ small.fAddressLo = retry.fAddressLo
          /\ small.fFailOnReset = retry.fFailOnReset
      BY <1>1 DEF Cmds
    <2> HIDE DEF small
    <2>3. Ready(small, asked, pack)
      BY <1>2, <2>1, <2>2 DEF Ready
    <2> QED
      BY <1>1, <2>2, <2>3, ExecuteOutcome DEF Outcome
  <1>5. ASSUME NEW e \in {y, retry}
        PROVE  /\ Outcome(Ended(e, "kIOReturnTimeout"), y, 0, asked)
               /\ Ended(e, "kIOReturnTimeout").cmd.fStatus # "kIOReturnSuccess"
    <2>1. e \in Cmds /\ e.fSize = y.fSize /\ e.fBytesTransferred = y.fBytesTransferred
      BY <1>1
    <2> HIDE DEF retry
    <2>2. ~Active([e EXCEPT !.fStatus = "kIOReturnTimeout"])
      BY <2>1 DEF Active, Cmds
    <2>3. e.fSize + e.fBytesTransferred = asked.size
      BY <2>1 DEF Ready
    <2>4. "kIOReturnTimeout" \in Statuses
      BY DEF Statuses
    <2>5. /\ Outcome(Ended(e, "kIOReturnTimeout"), e, 0, asked)
          /\ Ended(e, "kIOReturnTimeout").cmd.fStatus = "kIOReturnTimeout"
      BY <2>1, <2>2, <2>3, <2>4, EndedSound
    <2> QED
      BY <2>1, <2>5 DEF Outcome
  <1>6. completeTimeout(y, fwim) \in
            {Ended(y, "kIOReturnTimeout"), Ended(retry, "kIOReturnTimeout"),
             execute(retry)}
        \/ (asked.inROM /\ completeTimeout(y, fwim) = execute(small))
    BY DEF completeTimeout
  <1> HIDE DEF retry, small
  <1> QED
    BY <1>3, <1>4, <1>5, <1>6

(* A command that is set up for what it accepts is ready.                  *)
LEMMA ReinitSound ==
    ASSUME NEW to \in Addresses, NEW size \in 1..(LastQuadlet + 1),
           NEW inROM \in BOOLEAN, NEW failOnReset \in BOOLEAN,
           cmd \in Cmds, pack \in PackSizes, kind \in TransferKindNames,
           TransferRisks = {}, Fits(size, inROM), to + size - 1 \in Addresses,
           kind = "PHY" => failOnReset
    PROVE  LET y == reinit(to, size, failOnReset)
               a == [to |-> to, size |-> size, inROM |-> inROM]
           IN  /\ y \in Cmds /\ a \in Asked /\ Ready(y, a, pack)
               /\ y.fBytesTransferred = 0
  <1> DEFINE y == reinit(to, size, failOnReset)
             a == [to |-> to, size |-> size, inROM |-> inROM]
             m == Small(pack.device, pack.speed)
  <1>1. pack.speed \in Nat \ {0} /\ pack.device \in Nat \ {0}
    BY Constants DEF PackSizes
  <1>2. m \in Nat \ {0} /\ m <= pack.speed
    BY <1>1, SmallOf
  <1>3. to \in Nat /\ size \in Nat \ {0} /\ to + size <= LastQuadlet + 1
    BY Constants DEF Addresses
  <1>4. kind = "WriteQuad" => size <= m /\ ~inROM
    BY DEF Fits
  <1> HIDE DEF m
  <1>5. /\ y \in Cmds /\ y.fSize = size /\ y.fBytesTransferred = 0
        /\ y.fAddressLo = to /\ y.fMaxPack = m /\ y.fFailOnReset = failOnReset
    <2> DEFINE k == ReinitKeepingCount(to, size, failOnReset)
    <2>1. 0 \in Nat /\ size \in Nat /\ TransferRetries \in Int
      BY <1>3, Constants
    <2>2. /\ k \in Cmds /\ k.fSize = size /\ k.fAddressLo = to
          /\ k.fMaxPack = m /\ k.fFailOnReset = failOnReset
      BY <1>2, <1>3, <2>1 DEF ReinitKeepingCount, Cmds, m
    <2>3. y = [k EXCEPT !.fBytesTransferred = 0]
      BY DEF reinit
    <2> HIDE DEF k, y
    <2> QED
      BY <2>1, <2>2, <2>3 DEF Cmds
  <1>6. a \in Asked /\ a.to = to /\ a.size = size /\ a.inROM = inROM
    BY <1>3 DEF Asked
  <1> HIDE DEF y, a
  <1>7. kind = "WriteQuad" => size <= pack.speed
    BY <1>1, <1>2, <1>3, <1>4
  <1>8. Ready(y, a, pack)
    BY <1>3, <1>4, <1>5, <1>6, <1>7 DEF Ready
  <1> QED
    BY <1>5, <1>6, <1>8 DEF y, a

-----------------------------------------------------------------------------
(* Transfer: the steps.                                                    *)

Numbers == /\ cmd.fBytesTransferred \in Nat /\ cmd.fSize \in Nat
           /\ asked.to \in Nat /\ asked.size \in Nat

LEMMA NumbersAre == TransferInv => Numbers
    BY Constants DEF TransferInv, TransferTypes, Sound, Cmds, Asked, Addresses, Numbers

(* What the FWIM holds says what the command is and does.                  *)
LEMMA WireSays ==
    ASSUME TransferInv
    PROVE  /\ wire.op # "none" => cmd.fStatus = "kIOReturnBusy" /\ Active(cmd)
           /\ wire.op \notin {"none", "lost"} =>
                 /\ wire = PacketOf(cmd, cmd.fPackSize)
                 /\ cmd.fPackSize \in 1..cmd.fSize
                 /\ kind = "WriteQuad" => cmd.fPackSize = cmd.fSize
           /\ wire.op = "read" =>
                 Reading /\ wire = Packet("read", cmd.fAddressLo, cmd.fPackSize, 0)
           /\ wire.op = "write" =>
                 /\ Writing
                 /\ wire = Packet("write", cmd.fAddressLo, cmd.fPackSize,
                                  cmd.fBytesTransferred)
           /\ wire.op = "CompareAndSwap" => kind = "CompareAndSwap"
           /\ wire.op \in {"PHY", "Stream"} => kind = wire.op
  <1>1. wire.op # "none" => cmd.fStatus = "kIOReturnBusy" /\ Active(cmd)
    BY DEF TransferInv, Sound, NoPacket, Active
  <1>2. wire.op \notin {"none", "lost"} =>
           /\ wire = PacketOf(cmd, cmd.fPackSize)
           /\ cmd.fPackSize \in 1..cmd.fSize
           /\ kind = "WriteQuad" => cmd.fPackSize = cmd.fSize
    BY <1>1 DEF TransferInv, Sound, OnTheWire
  <1>3. /\ Reading => PacketOf(cmd, cmd.fPackSize)
                        = Packet("read", cmd.fAddressLo, cmd.fPackSize, 0)
        /\ Writing => PacketOf(cmd, cmd.fPackSize)
                        = Packet("write", cmd.fAddressLo, cmd.fPackSize, FirstOf(cmd))
        /\ ~Reading /\ ~Writing => PacketOf(cmd, cmd.fPackSize)
                        = Packet(kind, cmd.fAddressLo, 1, 0)
    BY DEF PacketOf, Reading, Writing
  <1>4. ~Reading /\ ~Writing => kind \in {"CompareAndSwap", "PHY", "Stream"}
    BY DEF TransferInv, TransferTypes, TransferKindNames, Reading, Writing
  <1>5. Active(cmd) => FirstOf(cmd) = cmd.fBytesTransferred
    BY DEF FirstOf, TransferInv, Sound, Ready
  <1> QED
    BY <1>1, <1>2, <1>3, <1>4, <1>5 DEF Packet

LEMMA IsReady ==
    ASSUME TransferInv, Active(cmd)
    PROVE  /\ Ready(cmd, asked, pack) /\ cmd \in Cmds
           /\ asked \in Asked /\ pack \in PackSizes /\ kind \in TransferKindNames
    BY DEF TransferInv, Sound, TransferTypes

LEMMA SoundNext ==
    ASSUME kind' = kind, Sound(cmd', wire', asked', pack')
    PROVE  Sound(cmd, wire, asked, pack)'
    BY DEF Sound, Ready, OnTheWire, Active, PacketOf, Packet, FirstOf, Reading, Writing,
           NoPacket, Cmds, Statuses

LEMMA LeavesSound ==
    ASSUME NEW r, NEW y, NEW n, kind' = kind, pack' = pack,
           Leaves(r), Outcome(r, y, n, asked')
    PROVE  /\ Sound(cmd, wire, asked, pack)'
           /\ cmd'.fBytesTransferred = y.fBytesTransferred + n
           /\ cmd'.fStatus = r.cmd.fStatus
  <1>1. cmd' = r.cmd /\ wire' = r.wire
    BY DEF Leaves
  <1>2. Sound(cmd', wire', asked', pack')
    BY <1>1 DEF Outcome
  <1> QED
    BY <1>1, <1>2, SoundNext DEF Outcome

(* Nothing moves.                                                          *)
LEMMA QuietStep ==
    ASSUME TransferInv, UNCHANGED <<kind, asked, nodeVars, host, quads>>,
           Sound(cmd, wire, asked, pack)', pack' \in PackSizes,
           cmd'.fBytesTransferred = cmd.fBytesTransferred,
           Active(cmd)' => Active(cmd),
           \/ cmd'.fStatus # "kIOReturnSuccess"
           \/ cmd.fStatus = "kIOReturnSuccess"
           \/ kind # "CompareAndSwap"
    PROVE  TransferInv'
  <1>1. TransferTypes'
    BY DEF TransferInv, TransferTypes, nodeVars, Asked, PackSizes, TransferKindNames
  <1>2. Moved' = Moved /\ Reading' = Reading /\ Writing' = Writing
    BY DEF Moved, Reading, Writing
  <1>3. HostSound'
    BY <1>2 DEF TransferInv, HostSound, Found, NothingYet
  <1>4. MemorySound'
    BY <1>2 DEF TransferInv, MemorySound, nodeVars, Found, Data
  <1>5. SwapSound'
    BY DEF TransferInv, SwapSound, nodeVars, locked, Compared, Found
  <1> QED
    BY <1>1, <1>3, <1>4, <1>5 DEF TransferInv

LEMMA TransferStart == TransferInit => TransferInv
  <1> SUFFICES ASSUME TransferInit PROVE TransferInv
    OBVIOUS
  <1>1. kind \in TransferKindNames
    BY Constants DEF TransferInit
  <1>2. /\ cmd \in Cmds /\ cmd.fStatus = "new" /\ cmd.fSize = 0
        /\ cmd.fBytesTransferred = 0
    BY DEF TransferInit, Idle, Cmds, Statuses
  <1>3. asked \in Asked /\ asked.size = 0
    BY Constants DEF TransferInit, Asked, Addresses
  <1>4. Sound(cmd, wire, asked, pack)
    BY <1>2, <1>3 DEF TransferInit, Sound, Active
  <1>5. \A a \in Addresses : Found(a) \in Int
    BY DEF Found, Addresses
  <1>6. NothingYet \in Int
    BY DEF NothingYet
  <1>7. TransferTypes
    BY <1>1, <1>3, <1>5, <1>6 DEF TransferInit, TransferTypes, PackSizes
  <1>8. Moved = {}
    BY <1>2 DEF Moved
  <1>9. HostSound
    BY <1>8 DEF TransferInit, HostSound
  <1>10. MemorySound
    BY <1>3, <1>8 DEF TransferInit, MemorySound
  <1>11. SwapSound
    BY <1>2 DEF SwapSound, Active
  <1> QED
    BY <1>4, <1>7, <1>9, <1>10, <1>11 DEF TransferInv

LEMMA SubmitStep ==
    ASSUME TransferInv, TransferRisks = {}, NEW to \in Addresses,
           NEW size \in 1..(LastQuadlet + 1), NEW inROM \in BOOLEAN,
           NEW failOnReset \in BOOLEAN, Submit(to, size, inROM, failOnReset)
    PROVE  TransferInv'
  <1> DEFINE y == reinit(to, size, failOnReset)
             a == [to |-> to, size |-> size, inROM |-> inROM]
  <1>1. cmd \in Cmds /\ pack \in PackSizes /\ kind \in TransferKindNames
    BY DEF TransferInv, Sound, TransferTypes
  <1>2. /\ y \in Cmds /\ a \in Asked /\ Ready(y, a, pack)
        /\ y.fBytesTransferred = 0
    <2>1. Fits(size, inROM) /\ to + size - 1 \in Addresses
          /\ (kind = "PHY" => failOnReset)
      BY DEF Submit
    <2> HIDE DEF y, a
    <2> QED
      BY <1>1, <2>1, ReinitSound DEF y, a
  <1>3. kind' = kind /\ pack' = pack /\ asked' = a /\ Leaves(execute(y))
    BY DEF Submit
  <1>4. /\ memory' = [b \in Addresses |-> Found(b)]
        /\ host' = [b \in Addresses |-> NothingYet]
        /\ swapped' = FALSE
    BY DEF Submit
  <1> HIDE DEF y, a
  <1>5. /\ Outcome(execute(y), y, 0, a)
        /\ execute(y).cmd.fStatus # "kIOReturnSuccess"
    BY <1>1, <1>2, ExecuteOutcome
  <1>6. /\ Sound(cmd, wire, asked, pack)'
        /\ cmd'.fBytesTransferred = 0 /\ cmd'.fStatus # "kIOReturnSuccess"
    BY <1>2, <1>3, <1>5, LeavesSound
  <1>7. Moved' = {}
    BY <1>6 DEF Moved
  <1>8. TransferTypes'
    <2>1. \A b \in Addresses : Found(b) \in Int
      BY DEF Found, Addresses
    <2>2. NothingYet \in Int
      BY DEF NothingYet
    <2>3. memory' \in [Addresses -> Int] /\ host' \in [Addresses -> Int]
      BY <1>4, <2>1, <2>2
    <2> QED
      BY <1>1, <1>2, <1>3, <1>4, <2>3
         DEF TransferTypes, TransferKindNames, PackSizes, Asked
  <1>9. HostSound'
    BY <1>4, <1>7 DEF HostSound, NothingYet
  <1>10. MemorySound'
    BY <1>4, <1>7 DEF MemorySound, Found
  <1>11. SwapSound'
    BY <1>4, <1>6 DEF SwapSound
  <1> QED
    BY <1>6, <1>8, <1>9, <1>10, <1>11 DEF TransferInv

(* What a write has left on the node when it has been served.              *)
LEMMA WriteServed ==
    ASSUME TransferInv, wire.op = "write", Performed
    PROVE  /\ swapped' = swapped /\ memory' \in [Addresses -> Int]
           /\ \A a \in Addresses :
                LET i == a - asked.to
                IN  IF i \in 0..(asked.size - 1)
                    THEN /\ i \in 0..(cmd.fBytesTransferred + cmd.fPackSize - 1)
                              => memory'[a] = Data(i)
                         /\ memory'[a] \in {Found(a), Data(i)}
                    ELSE memory'[a] = Found(a)
  <1>1. /\ Writing /\ Active(cmd) /\ cmd.fPackSize \in 1..cmd.fSize
        /\ wire.to = cmd.fAddressLo /\ wire.n = cmd.fPackSize
        /\ wire.data = cmd.fBytesTransferred
    BY WireSays DEF Packet
  <1>2. Numbers /\ Ready(cmd, asked, pack)
    BY <1>1, NumbersAre, IsReady
  <1> DEFINE t == asked.to  b == cmd.fBytesTransferred  n == cmd.fPackSize  s == asked.size
  <1>3. /\ t \in Nat /\ b \in Nat /\ n \in Nat /\ s \in Nat /\ n >= 1
        /\ b + n <= s /\ wire.to = t + b /\ wire.n = n /\ wire.data = b
    BY <1>1, <1>2 DEF Numbers, Ready
  <1>4. memory' = WrittenFrom(memory, wire) /\ swapped' = swapped
    BY DEF Performed
  <1>5. memory \in [Addresses -> Int]
    BY DEF TransferInv, TransferTypes
  <1>6. \A a \in Addresses : Data(b + a - (t + b)) = Data(a - t)
    BY <1>3, Constants DEF Data, Addresses
  <1>7. \A a \in Addresses :
           memory'[a] = IF a \in (t + b)..(t + b + n - 1) THEN Data(a - t)
                        ELSE memory[a]
    BY <1>3, <1>4, <1>6 DEF WrittenFrom
  <1>8. memory' \in [Addresses -> Int]
    <2>1. \A a \in Addresses : Data(b + a - (t + b)) \in Int
      BY <1>3, Constants DEF Data, Addresses
    <2> QED
      BY <1>3, <1>4, <1>5, <2>1 DEF WrittenFrom
  <1>9. \A a \in Addresses :
          LET i == a - t
          IN  IF i \in 0..(s - 1)
              THEN /\ i \in 0..(b - 1) => memory[a] = Data(i)
                   /\ memory[a] \in {Found(a), Data(i)}
              ELSE memory[a] = Found(a)
    BY <1>1 DEF TransferInv, MemorySound, Moved
  <1>10. \A a \in Addresses : a \in Int
    BY DEF Addresses
  <1> HIDE DEF t, b, n, s
  <1>11. ASSUME NEW a \in Addresses
         PROVE  IF a - t \in 0..(s - 1)
                THEN /\ a - t \in 0..(b + n - 1) => memory'[a] = Data(a - t)
                     /\ memory'[a] \in {Found(a), Data(a - t)}
                ELSE memory'[a] = Found(a)
    <2>1. a \in Int
      BY <1>10
    <2>2. CASE a \in (t + b)..(t + b + n - 1)
      <3>1. memory'[a] = Data(a - t)
        BY <1>7, <2>2
      <3>2. a - t \in 0..(s - 1)
        BY <1>3, <2>1, <2>2
      <3> QED
        BY <3>1, <3>2
    <2>3. CASE a \notin (t + b)..(t + b + n - 1)
      <3>1. memory'[a] = memory[a]
        BY <1>7, <2>3
      <3>2. a - t \in 0..(b + n - 1) => a - t \in 0..(b - 1)
        BY <1>3, <2>1, <2>3
      <3> QED
        BY <1>9, <3>1, <3>2
    <2> QED
      BY <2>2, <2>3
  <1> QED
    BY <1>4, <1>8, <1>11 DEF t, b, n, s

(* A step that serves a write, or has just heard that one was served.      *)
LEMMA WriteStep ==
    ASSUME TransferInv, wire.op = "write", Performed,
           UNCHANGED <<kind, asked, host>>,
           pack' \in PackSizes, Sound(cmd, wire, asked, pack)',
           cmd'.fBytesTransferred \in
              {cmd.fBytesTransferred, cmd.fBytesTransferred + cmd.fPackSize}
    PROVE  TransferInv'
  <1>1. Writing /\ Active(cmd) /\ cmd.fPackSize \in 1..cmd.fSize
    BY WireSays
  <1>2. Numbers
    BY NumbersAre
  <1>3. ~Reading /\ kind # "CompareAndSwap"
    BY <1>1 DEF Writing, Reading
  <1>4. Moved' \subseteq 0..(cmd.fBytesTransferred + cmd.fPackSize - 1)
    BY <1>1, <1>2 DEF Moved, Numbers
  <1>5. MemorySound'
    BY <1>3, <1>4, WriteServed DEF MemorySound, Reading, Found, Data
  <1>6. TransferTypes'
    BY WriteServed
       DEF TransferInv, TransferTypes, Asked, PackSizes, TransferKindNames
  <1>7. HostSound' /\ SwapSound'
    BY <1>3 DEF HostSound, SwapSound, Reading
  <1> QED
    BY <1>5, <1>6, <1>7 DEF TransferInv

LEMMA ReadStep ==
    ASSUME TransferInv, NEW n \in 1..(LastQuadlet + 1), gotReadPacket(n)
    PROVE  TransferInv'
  <1>1. /\ Reading /\ Active(cmd) /\ cmd.fPackSize \in 1..cmd.fSize
        /\ wire.to = cmd.fAddressLo /\ wire.n = cmd.fPackSize
    BY WireSays DEF gotReadPacket, Packet
  <1>2. /\ Ready(cmd, asked, pack) /\ cmd \in Cmds /\ asked \in Asked
        /\ pack \in PackSizes /\ kind \in TransferKindNames
    BY <1>1, IsReady
  <1>3. Numbers
    BY NumbersAre
  <1>4. n \in 1..cmd.fSize
    BY <1>1, <1>3, Constants DEF gotReadPacket, Numbers
  <1>5. kind # "WriteQuad"
    BY <1>1 DEF Reading
  <1>6. Outcome(Advanced(cmd, n), cmd, n, asked)
    BY <1>2, <1>4, <1>5, AdvancedSound
  <1>7. /\ kind' = kind /\ pack' = pack /\ asked' = asked
        /\ Leaves(Advanced(cmd, n))
        /\ memory' = memory /\ swapped' = swapped
    BY DEF gotReadPacket, clientVars, nodeVars
  <1>8. /\ Sound(cmd, wire, asked, pack)'
        /\ cmd'.fBytesTransferred = cmd.fBytesTransferred + n
    BY <1>6, <1>7, LeavesSound
  <1> DEFINE t == asked.to  b == cmd.fBytesTransferred
  <1>9. /\ t \in Nat /\ b \in Nat /\ n \in Nat /\ n >= 1 /\ wire.to = t + b
        /\ t + b + n <= LastQuadlet + 1
    <2>1. /\ cmd.fAddressLo = asked.to + cmd.fBytesTransferred
          /\ asked.to + asked.size <= LastQuadlet + 1
          /\ cmd.fSize + cmd.fBytesTransferred = asked.size
      BY <1>2 DEF Ready
    <2> QED
      BY <1>1, <1>3, <1>4, <2>1, Constants DEF Numbers
  <1>10. host' = [a \in Addresses |-> IF a \in b..(b + n - 1)
                                      THEN memory[wire.to + a - b] ELSE host[a]]
    BY DEF gotReadPacket
  <1>11. Moved' = 0..(b + n - 1) /\ Moved = 0..(b - 1)
    <2>1. cmd'.fBytesTransferred = b + n
      BY <1>8
    <2> QED
      BY <1>3, <1>4, <2>1 DEF Moved, Numbers
  <1>12. memory \in [Addresses -> Int] /\ host \in [Addresses -> Int]
    BY DEF TransferInv, TransferTypes
  <1>13. /\ \A a \in Addresses : memory[a] = Found(a)
         /\ \A a \in Addresses :
                host[a] = IF a \in Moved THEN Found(t + a) ELSE NothingYet
    BY <1>1 DEF TransferInv, MemorySound, HostSound
  <1> HIDE DEF t, b
  <1>14. ASSUME NEW a \in Addresses
         PROVE  /\ host'[a] = IF a \in 0..(b + n - 1) THEN Found(t + a) ELSE NothingYet
                /\ host'[a] \in Int
    <2>1. a \in Nat
      BY Constants DEF Addresses
    <2>2. CASE a \in b..(b + n - 1)
      <3>1. wire.to + a - b = t + a /\ t + a \in Addresses
        BY <1>9, <2>1, <2>2, Constants DEF Addresses
      <3>2. host'[a] = memory[t + a]
        BY <1>10, <2>2, <3>1
      <3>3. a \in 0..(b + n - 1)
        BY <1>9, <2>1, <2>2
      <3> QED
        BY <1>12, <1>13, <3>1, <3>2, <3>3
    <2>3. CASE a \notin b..(b + n - 1)
      <3>1. host'[a] = host[a]
        BY <1>10, <2>3
      <3>2. a \in 0..(b + n - 1) <=> a \in 0..(b - 1)
        BY <1>9, <2>1, <2>3
      <3> QED
        BY <1>11, <1>12, <1>13, <3>1, <3>2
    <2> QED
      BY <2>2, <2>3
  <1>15. host' \in [Addresses -> Int]
    BY <1>10, <1>14
  <1>16. TransferTypes'
    BY <1>7, <1>15 DEF TransferInv, TransferTypes, Asked, PackSizes, TransferKindNames
  <1>17. HostSound'
    BY <1>7, <1>11, <1>14 DEF HostSound, Found, NothingYet, t
  <1>18. MemorySound'
    BY <1>1, <1>7, <1>13 DEF MemorySound, Reading, Writing, Found
  <1>19. SwapSound'
    BY <1>1, <1>7 DEF SwapSound, Reading
  <1> QED
    BY <1>8, <1>16, <1>17, <1>18, <1>19 DEF TransferInv

LEMMA WrittenStep == ASSUME TransferInv, gotWritePacket PROVE TransferInv'
  <1>1. /\ wire.op = "write" /\ Performed /\ kind' = kind /\ asked' = asked
        /\ host' = host /\ pack' = pack /\ Leaves(Advanced(cmd, cmd.fPackSize))
    BY DEF gotWritePacket, clientVars
  <1>2. /\ Writing /\ Active(cmd) /\ cmd.fPackSize \in 1..cmd.fSize
        /\ kind = "WriteQuad" => cmd.fPackSize = cmd.fSize
    BY <1>1, WireSays
  <1>3. /\ Ready(cmd, asked, pack) /\ cmd \in Cmds /\ asked \in Asked
        /\ pack \in PackSizes /\ kind \in TransferKindNames
    BY <1>2, IsReady
  <1>4. Outcome(Advanced(cmd, cmd.fPackSize), cmd, cmd.fPackSize, asked)
    BY <1>2, <1>3, AdvancedSound
  <1>5. /\ Sound(cmd, wire, asked, pack)'
        /\ cmd'.fBytesTransferred = cmd.fBytesTransferred + cmd.fPackSize
    BY <1>1, <1>4, LeavesSound
  <1> QED
    BY <1>1, <1>3, <1>5, WriteStep

LEMMA LockStep ==
    ASSUME TransferInv, NEW result \in LockResults, gotLockPacket(result)
    PROVE  TransferInv'
  <1>1. /\ kind = "CompareAndSwap" /\ Active(cmd) /\ wire.op = "CompareAndSwap"
    BY WireSays DEF gotLockPacket
  <1>2. /\ Ready(cmd, asked, pack) /\ cmd \in Cmds /\ asked \in Asked
        /\ pack \in PackSizes /\ kind \in TransferKindNames
    BY <1>1, IsReady
  <1>3. /\ kind' = kind /\ asked' = asked /\ host' = host /\ pack' = pack
        /\ Leaves(Ended(cmd, result)) /\ quads' = memory[0]
    BY DEF gotLockPacket, clientVars
  <1>4. /\ memory' = IF memory[0] = Compared
                     THEN [memory EXCEPT ![0] = NewVal] ELSE memory
        /\ swapped' = (swapped \/ memory[0] = Compared)
    BY <1>1 DEF gotLockPacket, Performed
  <1>5. result \in Statuses /\ result # "kIOFireWireBusReset"
        /\ result \notin {"kIOReturnBusy", "kIOFireWirePending"}
    BY DEF LockResults, Statuses
  <1>6. ~Reading /\ ~Writing
    BY <1>1 DEF Reading, Writing
  <1>7. ~Active([cmd EXCEPT !.fStatus = result])
    BY <1>2, <1>5 DEF Active, Cmds
  <1>8. Outcome(Ended(cmd, result), cmd, 0, asked)
    BY <1>2, <1>5, <1>6, <1>7, EndedSound DEF Ready
  <1>9. Ended(cmd, result).cmd.fStatus = result
    BY <1>2, <1>5, <1>6, <1>7, EndedSound DEF Ready
  <1>10. Sound(cmd, wire, asked, pack)' /\ cmd'.fStatus = result
    BY <1>3, <1>8, <1>9, LeavesSound
  <1>11. TransferTypes'
    <2>1. memory' \in [Addresses -> Int]
      <3>1. memory \in [Addresses -> Int] /\ NewVal \in Int
        BY DEF TransferInv, TransferTypes, NewVal
      <3>2. [memory EXCEPT ![0] = NewVal] \in [Addresses -> Int]
        BY <3>1
      <3> QED
        BY <1>4, <3>1, <3>2
    <2>2. swapped' \in BOOLEAN
      BY <1>4 DEF TransferInv, TransferTypes
    <2> QED
      BY <1>3, <2>1, <2>2
         DEF TransferInv, TransferTypes, Asked, PackSizes, TransferKindNames
  <1>12. HostSound' /\ MemorySound'
    BY <1>3, <1>6 DEF HostSound, MemorySound, Reading, Writing
  <1>13. SwapSound'
    <2>1. ~swapped
      BY <1>1 DEF TransferInv, SwapSound
    <2>2. locked' <=> swapped'
      BY <1>3, <1>4, <2>1 DEF locked, Compared, Found
    <2>3. ~Active(cmd)'
      BY <1>5, <1>10 DEF Active
    <2> QED
      BY <2>2, <2>3 DEF SwapSound
  <1> QED
    BY <1>10, <1>11, <1>12, <1>13 DEF TransferInv

LEMMA AckStep ==
    ASSUME TransferInv, NEW ack, gotAckOfPacket(ack)
    PROVE  TransferInv'
  <1> DEFINE s == IF ack = "kFWAckComplete" THEN "kIOReturnSuccess"
                  ELSE "kIOReturnTimeout"
  <1>1. /\ kind \in {"PHY", "Stream"} /\ Active(cmd)
    BY WireSays DEF gotAckOfPacket
  <1>2. /\ Ready(cmd, asked, pack) /\ cmd \in Cmds /\ asked \in Asked
        /\ pack \in PackSizes /\ kind \in TransferKindNames
    BY <1>1, IsReady
  <1>3. /\ UNCHANGED <<kind, asked, nodeVars, host, quads>> /\ pack' = pack
        /\ Leaves(Ended(cmd, s))
    BY DEF gotAckOfPacket, clientVars
  <1>4. s \in {"kIOReturnSuccess", "kIOReturnTimeout"}
    OBVIOUS
  <1> HIDE DEF s
  <1>5. s \in Statuses
    BY <1>4 DEF Statuses
  <1>6. ~Reading /\ ~Writing /\ kind # "CompareAndSwap"
    BY <1>1 DEF Reading, Writing
  <1>7. ~Active([cmd EXCEPT !.fStatus = s])
    BY <1>2, <1>4 DEF Active, Cmds
  <1>8. Outcome(Ended(cmd, s), cmd, 0, asked)
    BY <1>2, <1>4, <1>5, <1>6, <1>7, EndedSound DEF Ready
  <1>9. Sound(cmd, wire, asked, pack)'
    BY <1>3, <1>8, LeavesSound
  <1>10. cmd'.fBytesTransferred = cmd.fBytesTransferred
    BY <1>2, <1>3, <1>8, LeavesSound DEF Cmds
  <1> QED
    BY <1>1, <1>2, <1>3, <1>6, <1>9, <1>10, QuietStep

LEMMA ErrorStep ==
    ASSUME TransferInv, NEW rcode \in {"TypeError", "AddressError", "DataError"},
           gotError(rcode)
    PROVE  TransferInv'
  <1>1. Active(cmd)
    BY WireSays DEF gotError
  <1>2. /\ Ready(cmd, asked, pack) /\ cmd \in Cmds /\ asked \in Asked
        /\ pack \in PackSizes /\ kind \in TransferKindNames
    BY <1>1, IsReady
  <1>3. /\ UNCHANGED <<kind, asked, nodeVars, host, quads>> /\ pack' = pack
        /\ Leaves(RefusedFor(cmd, rcode))
    BY DEF gotError, clientVars
  <1>4. /\ Outcome(RefusedFor(cmd, rcode), cmd, 0, asked)
        /\ RefusedFor(cmd, rcode).cmd.fStatus # "kIOReturnSuccess"
    BY <1>2, RefusedSound
  <1>5. Sound(cmd, wire, asked, pack)' /\ cmd'.fStatus # "kIOReturnSuccess"
    BY <1>3, <1>4, LeavesSound
  <1>6. cmd'.fBytesTransferred = cmd.fBytesTransferred
    BY <1>2, <1>3, <1>4, LeavesSound DEF Cmds
  <1> QED
    BY <1>1, <1>2, <1>3, <1>5, <1>6, QuietStep

LEMMA TimeoutStep ==
    ASSUME TransferInv, NEW fwim \in BOOLEAN, Timeout(fwim)
    PROVE  TransferInv'
  <1>1. Active(cmd)
    BY WireSays DEF Timeout
  <1>2. /\ Ready(cmd, asked, pack) /\ cmd \in Cmds /\ asked \in Asked
        /\ pack \in PackSizes /\ kind \in TransferKindNames
    BY <1>1, IsReady
  <1>3. /\ UNCHANGED <<kind, asked, nodeVars, host, quads>> /\ pack' = pack
        /\ Leaves(completeTimeout(cmd, fwim))
    BY DEF Timeout, clientVars
  <1>4. /\ Outcome(completeTimeout(cmd, fwim), cmd, 0, asked)
        /\ completeTimeout(cmd, fwim).cmd.fStatus # "kIOReturnSuccess"
    BY <1>2, TimeoutSound
  <1>5. Sound(cmd, wire, asked, pack)' /\ cmd'.fStatus # "kIOReturnSuccess"
    BY <1>3, <1>4, LeavesSound
  <1>6. cmd'.fBytesTransferred = cmd.fBytesTransferred
    BY <1>2, <1>3, <1>4, LeavesSound DEF Cmds
  <1> QED
    BY <1>1, <1>2, <1>3, <1>5, <1>6, QuietStep

LEMMA ResumeStep == ASSUME TransferInv, Resume PROVE TransferInv'
  <1>1. Active(cmd)
    BY DEF Resume, Active
  <1>2. /\ Ready(cmd, asked, pack) /\ cmd \in Cmds /\ asked \in Asked
        /\ pack \in PackSizes /\ kind \in TransferKindNames
    BY <1>1, IsReady
  <1>3. /\ UNCHANGED <<kind, asked, nodeVars, host, quads>> /\ pack' = pack
        /\ Leaves(execute(cmd))
    BY DEF Resume, clientVars
  <1>4. /\ Outcome(execute(cmd), cmd, 0, asked)
        /\ execute(cmd).cmd.fStatus # "kIOReturnSuccess"
    BY <1>2, ExecuteOutcome
  <1>5. Sound(cmd, wire, asked, pack)' /\ cmd'.fStatus # "kIOReturnSuccess"
    BY <1>3, <1>4, LeavesSound
  <1>6. cmd'.fBytesTransferred = cmd.fBytesTransferred
    BY <1>2, <1>3, <1>4, LeavesSound DEF Cmds
  <1> QED
    BY <1>1, <1>2, <1>3, <1>5, <1>6, QuietStep

(* The packet is lost on its way: the command waits to time out.           *)
LEMMA LostStep ==
    ASSUME TransferInv, wire.op # "none", wire' = [op |-> "lost"],
           UNCHANGED <<kind, asked, pack>>,
           cmd' = cmd \/ cmd' = [cmd EXCEPT !.busy = TRUE]
    PROVE  /\ Sound(cmd, wire, asked, pack)' /\ Active(cmd)
           /\ cmd'.fBytesTransferred = cmd.fBytesTransferred
           /\ cmd'.fStatus # "kIOReturnSuccess"
  <1>1. cmd.fStatus = "kIOReturnBusy" /\ Active(cmd)
    BY WireSays
  <1>2. /\ Ready(cmd, asked, pack) /\ cmd \in Cmds /\ asked \in Asked
        /\ pack \in PackSizes /\ kind \in TransferKindNames
    BY <1>1, IsReady
  <1>3. /\ cmd' \in Cmds /\ cmd'.fStatus = cmd.fStatus /\ cmd'.fSize = cmd.fSize
        /\ cmd'.fBytesTransferred = cmd.fBytesTransferred
        /\ cmd'.fAddressLo = cmd.fAddressLo /\ cmd'.fMaxPack = cmd.fMaxPack
        /\ cmd'.fFailOnReset = cmd.fFailOnReset
    BY <1>2 DEF Cmds
  <1>4. Ready(cmd', asked, pack)
    BY <1>2, <1>3 DEF Ready
  <1>5. Sound(cmd', wire', asked', pack')
    BY <1>1, <1>2, <1>3, <1>4 DEF Sound, OnTheWire, Ready
  <1> QED
    BY <1>1, <1>3, <1>5, SoundNext

LEMMA BusyStep == ASSUME TransferInv, gotAckBusy PROVE TransferInv'
  <1>1. /\ wire.op # "none" /\ wire' = [op |-> "lost"]
        /\ cmd' = [cmd EXCEPT !.busy = TRUE] /\ pack' = pack
        /\ UNCHANGED <<kind, asked, nodeVars, host, quads>>
    BY DEF gotAckBusy, clientVars
  <1>2. pack \in PackSizes
    BY DEF TransferInv, TransferTypes
  <1> QED
    BY <1>1, <1>2, LostStep, QuietStep

LEMMA LoseRequestStep == ASSUME TransferInv, LoseRequest PROVE TransferInv'
  <1>1. /\ wire.op # "none" /\ wire' = [op |-> "lost"] /\ cmd' = cmd
        /\ pack' = pack /\ UNCHANGED <<kind, asked, nodeVars, host, quads>>
    BY DEF LoseRequest, clientVars
  <1>2. pack \in PackSizes
    BY DEF TransferInv, TransferTypes
  <1> QED
    BY <1>1, <1>2, LostStep, QuietStep

LEMMA LoseAnswerStep ==
    ASSUME TransferInv, TransferRisks = {}, LoseAnswer
    PROVE  TransferInv'
  <1>1. /\ wire.op \in {"read", "write"} /\ wire' = [op |-> "lost"] /\ cmd' = cmd
        /\ UNCHANGED <<kind, asked, pack, host, quads>> /\ Performed
    BY DEF LoseAnswer, clientVars
  <1>2. pack \in PackSizes
    BY DEF TransferInv, TransferTypes
  <1>3. /\ Sound(cmd, wire, asked, pack)' /\ Active(cmd)
        /\ cmd'.fBytesTransferred = cmd.fBytesTransferred
        /\ cmd'.fStatus # "kIOReturnSuccess"
    BY <1>1, LostStep
  <1>4. CASE wire.op = "read"
    <2>1. UNCHANGED nodeVars
      BY <1>1, <1>4 DEF Performed
    <2> QED
      BY <1>1, <1>2, <1>3, <2>1, QuietStep
  <1>5. CASE wire.op = "write"
    BY <1>1, <1>2, <1>3, <1>5, WriteStep
  <1> QED
    BY <1>1, <1>4, <1>5

LEMMA OtherNodeStep == ASSUME TransferInv, OtherNodeWrites PROVE TransferInv'
  <1>1. /\ kind = "CompareAndSwap" /\ ~swapped
        /\ memory' = [memory EXCEPT ![0] = Foreign]
        /\ UNCHANGED <<kind, asked, cmd, wire, host, quads, swapped, pack>>
    BY DEF OtherNodeWrites, clientVars
  <1>2. ~Reading /\ ~Writing
    BY <1>1 DEF Reading, Writing
  <1>3. Sound(cmd, wire, asked, pack)'
    BY <1>1, SoundNext DEF TransferInv
  <1>4. TransferTypes'
    <2>1. memory \in [Addresses -> Int] /\ Foreign \in Int
      BY DEF TransferInv, TransferTypes, Foreign
    <2>2. memory' \in [Addresses -> Int]
      BY <1>1, <2>1
    <2> QED
      BY <1>1, <2>2
         DEF TransferInv, TransferTypes, Asked, PackSizes, TransferKindNames
  <1>5. HostSound' /\ MemorySound'
    BY <1>1, <1>2 DEF HostSound, MemorySound, Reading, Writing
  <1>6. SwapSound'
    BY <1>1 DEF TransferInv, SwapSound, Active, locked, Compared, Found
  <1> QED
    BY <1>3, <1>4, <1>5, <1>6 DEF TransferInv

LEMMA ScanStep == ASSUME TransferInv, ScanEnds PROVE TransferInv'
  <1>1. /\ cmd' = cmd /\ wire' = wire /\ pack' = pack
        /\ UNCHANGED <<kind, asked, nodeVars, host, quads>>
    BY DEF ScanEnds, clientVars
  <1>2. Sound(cmd, wire, asked, pack)' /\ pack \in PackSizes
    BY <1>1, SoundNext DEF TransferInv, TransferTypes
  <1> QED
    BY <1>1, <1>2, QuietStep DEF Active

(* A command grows too old: nothing else of it changes.                    *)
LEMMA GrowsStep == ASSUME TransferInv, GrowsTooOld PROVE TransferInv'
  <1>1. /\ Active(cmd) /\ cmd' = [cmd EXCEPT !.tooOld = TRUE]
        /\ wire' = wire /\ pack' = pack
        /\ UNCHANGED <<kind, asked, nodeVars, host, quads>>
    BY DEF GrowsTooOld, clientVars, Waits, Active
  <1>2. /\ Ready(cmd, asked, pack) /\ cmd \in Cmds /\ asked \in Asked
        /\ pack \in PackSizes /\ kind \in TransferKindNames
    BY <1>1, IsReady
  <1>3. /\ cmd' \in Cmds /\ cmd'.fStatus = cmd.fStatus /\ cmd'.fSize = cmd.fSize
        /\ cmd'.fBytesTransferred = cmd.fBytesTransferred
        /\ cmd'.fAddressLo = cmd.fAddressLo /\ cmd'.fMaxPack = cmd.fMaxPack
        /\ cmd'.fPackSize = cmd.fPackSize
        /\ cmd'.fFailOnReset = cmd.fFailOnReset /\ cmd'.tooOld
    BY <1>1, <1>2 DEF Cmds
  <1>4. Ready(cmd', asked, pack)
    BY <1>2, <1>3 DEF Ready
  <1>5. OnTheWire(cmd, wire) => OnTheWire(cmd', wire')
    BY <1>1, <1>3 DEF OnTheWire, PacketOf, FirstOf
  <1>6. Sound(cmd', wire', asked', pack')
    BY <1>1, <1>3, <1>4, <1>5 DEF Sound, TransferInv
  <1>7. Sound(cmd, wire, asked, pack)'
    BY <1>1, <1>6, SoundNext
  <1> QED
    BY <1>1, <1>2, <1>3, <1>7, QuietStep DEF Active

(* checkProgress leaves a command sound, with nothing more moved.          *)
LEMMA CheckedSound ==
    ASSUME TransferInv, NEW fwim \in BOOLEAN
    PROVE  LET x == CheckedProgress(cmd, fwim)
           IN  /\ \E w : Sound(x, w, asked, pack)
               /\ x.fBytesTransferred = cmd.fBytesTransferred
               /\ x.fStatus = "kIOReturnSuccess" => cmd.fStatus = "kIOReturnSuccess"
               /\ Active(x) => Active(cmd)
  <1> DEFINE r == completeTimeout(cmd, fwim)
  <1>1. CASE cmd.fStatus = "kIOFireWirePending" /\ cmd.tooOld
    <2>1. Active(cmd)
      BY <1>1 DEF Active
    <2>2. /\ Ready(cmd, asked, pack) /\ cmd \in Cmds /\ asked \in Asked
          /\ pack \in PackSizes /\ kind \in TransferKindNames
      BY <2>1, IsReady
    <2>3. Outcome(r, cmd, 0, asked) /\ r.cmd.fStatus # "kIOReturnSuccess"
      BY <2>2, TimeoutSound
    <2>4. CheckedProgress(cmd, fwim) = r.cmd
      BY <1>1 DEF CheckedProgress
    <2> HIDE DEF r
    <2>5. r.cmd.fBytesTransferred = cmd.fBytesTransferred
      BY <2>2, <2>3 DEF Outcome, Cmds
    <2> QED
      BY <2>1, <2>3, <2>4, <2>5 DEF Outcome
  <1>2. CASE ~(cmd.fStatus = "kIOFireWirePending" /\ cmd.tooOld)
    <2>1. CheckedProgress(cmd, fwim) = cmd
      BY <1>2 DEF CheckedProgress
    <2> QED
      BY <2>1 DEF TransferInv
  <1> QED
    BY <1>1, <1>2

LEMMA ResetStep ==
    ASSUME TransferInv, TransferRisks = {}, NEW served \in BOOLEAN,
           NEW speed \in Packs, NEW fwim \in BOOLEAN,
           BusResets(served, speed, fwim)
    PROVE  TransferInv'
  <1> DEFINE x == CheckedProgress(cmd, fwim)
             now == [x EXCEPT !.current = FALSE]
             s == IF x.fStatus # "kIOReturnBusy" THEN x.fStatus
                  ELSE IF x.fFailOnReset \/ x.tooOld THEN "kIOFireWireBusReset"
                  ELSE "kIOFireWirePending"
             p == [pack EXCEPT !.speed = speed]
             y == [now EXCEPT !.fStatus = s]
  <1>1. pack \in PackSizes /\ kind \in TransferKindNames
    BY DEF TransferInv, TransferTypes
  <1>2. /\ \E w : Sound(x, w, asked, pack)
        /\ x.fBytesTransferred = cmd.fBytesTransferred
        /\ x.fStatus = "kIOReturnSuccess" => cmd.fStatus = "kIOReturnSuccess"
        /\ Active(x) => Active(cmd)
    BY CheckedSound
  <1>3. /\ cmd' = IF now.fStatus = "kIOReturnBusy"
                  THEN EndedByTheReset(now, TRUE).cmd ELSE now
        /\ wire' = NoPacket /\ pack' = p
        /\ UNCHANGED <<kind, asked, host, quads>>
    BY DEF BusResets, clientVars
  <1>4. kind = "WriteQuad" => speed >= pack.speed
    BY DEF BusResets
  <1>5. /\ p \in PackSizes /\ p.speed = speed
        /\ pack.speed \in Nat /\ speed \in Nat
    BY <1>1, Constants DEF PackSizes
  <1> HIDE DEF x, p
  <1>6. /\ x \in Cmds /\ x.fSize + x.fBytesTransferred = asked.size
        /\ Active(x) => Ready(x, asked, pack)
        /\ x.fStatus = "kIOReturnSuccess" /\ (Reading \/ Writing) => x.fSize = 0
        /\ x.fStatus = "kIOFireWireBusReset" => x.fFailOnReset \/ x.tooOld
    BY <1>2 DEF Sound
  <1>7. /\ now \in Cmds /\ now.fStatus = x.fStatus /\ now.fSize = x.fSize
        /\ now.fBytesTransferred = x.fBytesTransferred
        /\ now.fAddressLo = x.fAddressLo /\ now.fMaxPack = x.fMaxPack
        /\ now.fFailOnReset = x.fFailOnReset /\ now.tooOld = x.tooOld
    BY <1>6 DEF Cmds
  <1>8. now = [now EXCEPT !.fStatus = now.fStatus]
    BY <1>7 DEF Cmds
  <1> HIDE DEF now
  <1>9. cmd' = y
    <2>1. CASE x.fStatus = "kIOReturnBusy"
      <3>1. now.fFailOnReset \in BOOLEAN /\ now.tooOld \in BOOLEAN
        BY <1>7 DEF Cmds
      <3>2. EndedByTheReset(now, TRUE) = Ended(now, s)
        BY <1>7, <2>1, <3>1 DEF EndedByTheReset
      <3>3. Ended(now, s).cmd = y
        BY DEF Ended, Result
      <3> QED
        BY <1>3, <1>7, <2>1, <3>2, <3>3
    <2>2. CASE x.fStatus # "kIOReturnBusy"
      BY <1>3, <1>7, <1>8, <2>2
    <2> QED
      BY <2>1, <2>2
  <1>10. /\ s \in Statuses /\ s # "kIOReturnBusy"
         /\ s = "kIOReturnSuccess" <=> x.fStatus = "kIOReturnSuccess"
         /\ s = "kIOFireWirePending" => Active(x)
         /\ s = "kIOFireWireBusReset" => x.fFailOnReset \/ x.tooOld
    BY <1>6 DEF Statuses, Active, Cmds
  <1> HIDE DEF s
  <1>11. /\ y \in Cmds /\ y.fStatus = s /\ y.fSize = x.fSize
         /\ y.fBytesTransferred = x.fBytesTransferred
         /\ y.fAddressLo = x.fAddressLo /\ y.fMaxPack = x.fMaxPack
         /\ y.fFailOnReset = x.fFailOnReset /\ y.tooOld = x.tooOld
    BY <1>7, <1>10 DEF Cmds
  <1> HIDE DEF y
  <1>12. Active(y) => Active(x)
    BY <1>10, <1>11 DEF Active
  <1>13. Active(y) => Ready(y, asked, p)
    <2> SUFFICES ASSUME Active(x) PROVE Ready(y, asked, p)
      BY <1>12
    <2>1. Ready(x, asked, pack)
      BY <1>6
    <2>2. x.fSize \in Nat
      BY <1>6 DEF Cmds
    <2> QED
      BY <1>4, <1>5, <1>11, <2>1, <2>2 DEF Ready
  <1>14. Sound(y, NoPacket, asked, p)
    BY <1>6, <1>10, <1>11, <1>13 DEF Sound
  <1>15. Sound(cmd, wire, asked, pack)'
    BY <1>3, <1>9, <1>14, SoundNext
  <1>16. Active(cmd)' => Active(cmd)
    BY <1>2, <1>9, <1>12 DEF Active
  <1>17. cmd'.fBytesTransferred = cmd.fBytesTransferred
    BY <1>2, <1>9, <1>11
  <1>18. CASE served /\ wire.op \in {"write", "CompareAndSwap"}
    <2>1. wire.op = "write" /\ Performed
      BY <1>18 DEF BusResets
    <2> QED
      BY <1>3, <1>5, <1>15, <1>17, <2>1, WriteStep
  <1>19. CASE ~(served /\ wire.op \in {"write", "CompareAndSwap"})
    <2>1. UNCHANGED nodeVars
      BY <1>19 DEF BusResets
    <2>2. cmd'.fStatus = "kIOReturnSuccess" => cmd.fStatus = "kIOReturnSuccess"
      BY <1>2, <1>9, <1>10, <1>11
    <2> QED
      BY <1>3, <1>5, <1>15, <1>16, <1>17, <2>1, <2>2, QuietStep
  <1> QED
    BY <1>18, <1>19

LEMMA TransferIdle ==
    ASSUME TransferInv, UNCHANGED transferVars
    PROVE  TransferInv'
  <1>1. /\ cmd' = cmd /\ wire' = wire /\ pack' = pack
        /\ UNCHANGED <<kind, asked, nodeVars, host, quads>>
    BY DEF transferVars, nodeVars
  <1>2. Sound(cmd, wire, asked, pack)' /\ pack \in PackSizes
    BY <1>1, SoundNext DEF TransferInv, TransferTypes
  <1> QED
    BY <1>1, <1>2, QuietStep DEF Active

LEMMA TransferStep ==
    ASSUME TransferInv, TransferRisks = {}, [TransferNext]_transferVars
    PROVE  TransferInv'
  <1>1. ASSUME TransferNext PROVE TransferInv'
    BY <1>1, SubmitStep, ReadStep, WrittenStep, LockStep, AckStep, ErrorStep,
       BusyStep, LoseRequestStep, LoseAnswerStep, TimeoutStep, OtherNodeStep,
       ResetStep, GrowsStep, ScanStep, ResumeStep DEF TransferNext
  <1> QED
    BY <1>1, TransferIdle

LEMMA TransferSafe == TransferInv => TransfersAreTrue
  <1> SUFFICES ASSUME TransferInv PROVE TransfersAreTrue
    OBVIOUS
  <1>1. TransfersAreWhole
    <2>1. (Reading \/ Writing) /\ cmd.fStatus = "kIOReturnSuccess" =>
              cmd.fBytesTransferred = asked.size
      BY NumbersAre DEF TransferInv, Sound, Numbers
    <2> QED
      BY <2>1 DEF TransferInv, HostSound, MemorySound, TransfersAreWhole
  <1>2. LocksAreTold
    <2>1. swapped \in BOOLEAN
      BY DEF TransferInv, TransferTypes
    <2> QED
      BY <2>1 DEF TransferInv, SwapSound, LocksAreTold, locked
  <1>3. ResetsAreNoAnswer
    BY DEF TransferInv, Sound, ResetsAreNoAnswer
  <1> QED
    BY <1>1, <1>2, <1>3 DEF TransfersAreTrue

(* What a command has counted as read or written is at its place and       *)
(* nothing beside it is touched, success means all of it, a lock tells     *)
(* truly whether it swapped, and a command that survives resets ends with  *)
(* one only after 30 seconds (gotPacket, execute and complete of the       *)
(* asynchronous commands): for any sizes, packet sizes, retries, losses    *)
(* and resets, if callers keep to what the code leaves to them (no         *)
(* TransferRisks).                                                         *)
THEOREM TransfersWhole ==
    TransferRisks = {} => (TransferSpec => []TransfersAreTrue)
  <1> SUFFICES ASSUME TransferRisks = {} PROVE TransferSpec => []TransfersAreTrue
    OBVIOUS
  <1>1. TransferInv /\ [TransferNext]_transferVars => TransferInv'
    BY TransferStep
  <1> QED
    BY TransferStart, TransferSafe, <1>1, PTL DEF TransferSpec

-----------------------------------------------------------------------------
(* Inbound: the inductive invariant.                                       *)

(* Fixed spaces that end within 32 bits, and broadcasts that only write.   *)
(* Requests may end beyond: their sums wrap.                               *)
Ordinary ==
    /\ InboundRaces = {}
    /\ \A shape \in FixedShapes : shape.addressLo + shape.fLen <= AddressSize
    /\ \A shape \in RequestShapes : shape.broadcast => shape.kind = "write"

SpaceRecords == [live : BOOLEAN, addressHi : Nat, addressLo : 0..AddressSize - 1,
                 fLen : 0..AddressSize, fExclusive : BOOLEAN, defers : BOOLEAN]
Requests == [shape : RequestShapes, id : 1..MaxRequests,
             state : {"sent", "deferred", "givenUp"}]
Deferred == [node : Nodes, label : Labels, id : 1..MaxRequests,
             generation : 0..MaxInboundResets]

InboundTypes ==
    /\ space \in [Spaces -> SpaceRecords]
    /\ fAllocatedAddresses \in Seq({0, 1})
    /\ fLocalAddresses \in Seq(Spaces)
    /\ fBusGeneration \in 0..MaxInboundResets
    /\ request \in [Nodes \X Labels -> Requests \cup {NoRequest}]
    /\ deferred \subseteq Deferred
    /\ requests \in 0..MaxRequests

(* The space and the entry that it has of the upper halves.                *)
Pseudo(s) == /\ space[s].live
             /\ space[s].addressHi # kCSRRegisterSpaceBaseAddressHi

SpacesSound ==
    \A s \in Spaces : space[s].live =>
        /\ space[s].fLen >= 1
        /\ space[s].addressLo + space[s].fLen <= AddressSize

EntriesSound ==
    /\ Len(fAllocatedAddresses) <= FullLength
    /\ fAllocatedAddresses # <<>> => fAllocatedAddresses[1] = 1
    /\ \A s \in Spaces : Pseudo(s) =>
        /\ space[s].addressHi + 1 \in DOMAIN fAllocatedAddresses
        /\ space[s].addressHi # 0
        /\ fAllocatedAddresses[space[s].addressHi + 1] = 1
    /\ \A s, t \in Spaces :
        s # t /\ Pseudo(s) /\ Pseudo(t) => space[s].addressHi # space[t].addressHi
    /\ \A i \in DOMAIN fAllocatedAddresses : fAllocatedAddresses[i] = 1 =>
        i = 1 \/ \E s \in Spaces : Pseudo(s) /\ space[s].addressHi = i - 1

(* Neither has a byte of the other, if one is exclusive.                   *)
Apart(s, t) ==
    /\ s.fExclusive \/ t.fExclusive
    /\ s.addressHi = t.addressHi
    => BytesOf(s.addressLo, s.fLen) \cap BytesOf(t.addressLo, t.fLen) = {}

ActiveSound ==
    /\ \A i \in DOMAIN fLocalAddresses : space[fLocalAddresses[i]].live
    /\ \A i, j \in DOMAIN fLocalAddresses :
        fLocalAddresses[i] = fLocalAddresses[j] => i = j
    /\ \A i, j \in DOMAIN fLocalAddresses :
        i # j => Apart(space[fLocalAddresses[i]], space[fLocalAddresses[j]])

(* A deferred request of this generation is still the one that the node    *)
(* has of this label.                                                      *)
AnswersSound ==
    /\ astray = FALSE
    /\ outside \subseteq RequestShapes /\ \A q \in outside : Overflows(q)
    /\ \A d \in deferred :
        /\ d.generation <= fBusGeneration
        /\ d.generation = fBusGeneration =>
             /\ request[<<d.node, d.label>>].id = d.id
             /\ request[<<d.node, d.label>>].state \in {"deferred", "givenUp"}

InboundInv == /\ InboundTypes /\ SpacesSound /\ EntriesSound /\ ActiveSound
              /\ AnswersSound

-----------------------------------------------------------------------------
(* Inbound: numbers and sequences.                                         *)

LEMMA InboundConstants ==
    /\ AddressSize \in Nat \ {0, 1} /\ FullLength \in Nat \ {0}
    /\ kCSRRegisterSpaceBaseAddressHi \in Nat
    /\ kCSRRegisterSpaceBaseAddressHi > FullLength
    /\ MaxRequests \in Nat /\ MaxInboundResets \in Nat
    /\ \A shape \in PseudoShapes :
          shape.fLen \in 1..AddressSize - 1 /\ shape.defers \in BOOLEAN
    /\ \A shape \in FixedShapes :
          /\ shape.addressLo \in 0..AddressSize - 1
          /\ shape.fLen \in 1..AddressSize - 1
          /\ shape.fExclusive \in BOOLEAN /\ shape.defers \in BOOLEAN
    /\ \A shape \in RequestShapes :
          /\ shape.addressLo \in 0..AddressSize - 1
          /\ shape.len \in 1..AddressSize - 1
          /\ shape.kind \in {"read", "write", "lock"}
          /\ shape.broadcast \in BOOLEAN
    BY InboundAssumption DEF InboundAssumption

(* Sums of 32 bits, of what does not reach beyond them.                    *)
LEMMA WrapOf ==
    ASSUME NEW n \in 0..AddressSize
    PROVE  /\ n < AddressSize => Wrap(n) = n
           /\ n = AddressSize => Wrap(n) = 0
  <1> DEFINE k == n \div AddressSize  r == n % AddressSize
  <1>1. AddressSize \in Nat \ {0, 1} /\ n \in Nat
    BY InboundConstants
  <1>2. k \in Int /\ r \in 0..AddressSize - 1 /\ n = AddressSize * k + r
    BY <1>1
  <1> HIDE DEF k, r
  <1>3. k >= 1 => AddressSize * k >= AddressSize
    BY <1>1, <1>2
  <1>4. k <= -1 => AddressSize * k + AddressSize <= 0
    BY <1>1, <1>2
  <1>5. k >= 2 => AddressSize * k >= AddressSize + AddressSize
    BY <1>1, <1>2
  <1>6. k \in {0, 1}
    BY <1>1, <1>2, <1>4, <1>5
  <1>7. AddressSize * 0 = 0 /\ AddressSize * 1 = AddressSize
    BY <1>1
  <1>8. n < AddressSize => r = n
    BY <1>1, <1>2, <1>6, <1>7
  <1>9. n = AddressSize => r = 0
    BY <1>1, <1>2, <1>6, <1>7
  <1> QED
    BY <1>8, <1>9 DEF Wrap, r

LEMMA WrapOver ==
    ASSUME NEW n \in Nat, n >= AddressSize, n < AddressSize + AddressSize
    PROVE  Wrap(n) = n - AddressSize
  <1> DEFINE k == n \div AddressSize  r == n % AddressSize
  <1>1. AddressSize \in Nat \ {0, 1}
    BY InboundConstants
  <1>2. k \in Int /\ r \in 0..AddressSize - 1 /\ n = AddressSize * k + r
    BY <1>1
  <1> HIDE DEF k, r
  <1>3. k <= 0 => AddressSize * k <= 0
    BY <1>1, <1>2
  <1>4. k >= 2 => AddressSize * k >= AddressSize + AddressSize
    BY <1>1, <1>2
  <1>5. k = 1
    BY <1>1, <1>2, <1>3, <1>4
  <1>6. AddressSize * 1 = AddressSize
    BY <1>1
  <1>7. r = n - AddressSize
    BY <1>1, <1>2, <1>5, <1>6
  <1> QED
    BY <1>7 DEF Wrap, r

LEMMA LeastOf ==
    ASSUME NEW S, S \subseteq Nat, S # {}
    PROVE  Min(S) \in S /\ \A n \in S : Min(S) <= n
  <1> DEFINE R == OpToRel(<, Nat)
  <1>1. \E x \in S : \A y \in S : ~(<<y, x>> \in R)
    <2>1. IsWellFoundedOn(R, Nat)
      BY NatLessThanWellFounded
    <2> HIDE DEF R
    <2> QED
      BY <2>1, WFMin
  <1>2. \A x, y \in S : ~(<<y, x>> \in R) => x <= y
    BY DEF OpToRel
  <1>3. \E x \in S : \A y \in S : x <= y
    BY <1>1, <1>2
  <1> QED
    BY <1>3 DEF Min

LEMMA RemovedFrom ==
    ASSUME NEW S, NEW s \in Seq(S), NEW i \in DOMAIN s
    PROVE  /\ RemoveAt(s, i) \in Seq(S)
           /\ Len(RemoveAt(s, i)) = Len(s) - 1
           /\ \A j \in 1..Len(s) - 1 :
                 /\ j < i => RemoveAt(s, i)[j] = s[j]
                 /\ j >= i => RemoveAt(s, i)[j] = s[j + 1]
  <1> DEFINE a == SubSeq(s, 1, i - 1)  b == SubSeq(s, i + 1, Len(s))
  <1>1. Len(s) \in Nat /\ i \in 1..Len(s) /\ \A j \in 1..Len(s) : s[j] \in S
    BY LenProperties, ElementOfSeq
  <1>2. /\ a \in Seq(S) /\ Len(a) = i - 1
        /\ \A j \in 1..i - 1 : a[j] = s[j]
    <2>1. \A j \in 1..i - 1 : s[j] \in S
      BY <1>1
    <2>2. 1 \in Int /\ i - 1 \in Int /\ i - 1 >= 0
      BY <1>1
    <2>3. /\ a \in Seq(S) /\ Len(a) = IF 1 <= i - 1 THEN (i - 1) - 1 + 1 ELSE 0
          /\ \A j \in 1..(i - 1) - 1 + 1 : a[j] = s[1 + j - 1]
      BY <2>1, <2>2, SubSeqProperties
    <2> QED
      BY <1>1, <2>3
  <1>3. /\ b \in Seq(S) /\ Len(b) = Len(s) - i
        /\ \A j \in 1..Len(s) - i : b[j] = s[i + j]
    <2>1. \A j \in i + 1..Len(s) : s[j] \in S
      BY <1>1
    <2>2. i + 1 \in Int /\ Len(s) \in Int
      BY <1>1
    <2>3. /\ b \in Seq(S)
          /\ Len(b) = IF i + 1 <= Len(s) THEN Len(s) - (i + 1) + 1 ELSE 0
          /\ \A j \in 1..Len(s) - (i + 1) + 1 : b[j] = s[(i + 1) + j - 1]
      BY <2>1, <2>2, SubSeqProperties
    <2> QED
      BY <1>1, <2>3
  <1>4. RemoveAt(s, i) = a \o b
    BY DEF RemoveAt
  <1> HIDE DEF a, b
  <1>5. /\ a \o b \in Seq(S) /\ Len(a \o b) = Len(a) + Len(b)
        /\ \A j \in 1..Len(a) + Len(b) :
              (a \o b)[j] = IF j <= Len(a) THEN a[j] ELSE b[j - Len(a)]
    BY <1>2, <1>3, ConcatProperties
  <1>6. ASSUME NEW j \in 1..Len(s) - 1
        PROVE  /\ j < i => (a \o b)[j] = s[j]
               /\ j >= i => (a \o b)[j] = s[j + 1]
    <2>1. j \in 1..Len(a) + Len(b)
      BY <1>1, <1>2, <1>3
    <2>2. (a \o b)[j] = IF j <= i - 1 THEN a[j] ELSE b[j - (i - 1)]
      BY <1>2, <1>5, <2>1
    <2>3. j < i => a[j] = s[j]
      BY <1>1, <1>2
    <2>4. j >= i => b[j - (i - 1)] = s[i + (j - (i - 1))]
      BY <1>1, <1>3
    <2> QED
      BY <1>1, <2>2, <2>3, <2>4
  <1>7. Len(a \o b) = Len(s) - 1
    BY <1>1, <1>2, <1>3, <1>5
  <1> QED
    BY <1>4, <1>5, <1>6, <1>7

-----------------------------------------------------------------------------
(* Inbound: the address spaces.                                            *)

(* A new entry of the upper halves, and what it leaves of the others.      *)
LEMMA EntryAllocated ==
    ASSUME InboundTypes, EntriesSound, ~NoEntry
    PROVE  /\ allocatePseudoAddress \in Seq({0, 1})
           /\ Len(allocatePseudoAddress) <= FullLength
           /\ FirstEntry \in 2..Len(allocatePseudoAddress)
           /\ allocatePseudoAddress[1] = 1
           /\ allocatePseudoAddress[FirstEntry] = 1
           /\ \A i \in DOMAIN fAllocatedAddresses :
                 /\ i \in DOMAIN allocatePseudoAddress
                 /\ i # FirstEntry =>
                       allocatePseudoAddress[i] = fAllocatedAddresses[i]
                 /\ i = FirstEntry => fAllocatedAddresses[i] = 0
           /\ \A i \in DOMAIN allocatePseudoAddress :
                 i \notin {1, FirstEntry} => i \in DOMAIN fAllocatedAddresses
  <1> DEFINE A == Allocations  B == allocatePseudoAddress
  <1>1. /\ fAllocatedAddresses \in Seq({0, 1})
        /\ Len(fAllocatedAddresses) <= FullLength
        /\ fAllocatedAddresses # <<>> => fAllocatedAddresses[1] = 1
    BY DEF InboundTypes, EntriesSound
  <1>2. /\ A \in Seq({0, 1}) /\ Len(A) >= 1 /\ A[1] = 1
        /\ Len(A) <= FullLength
        /\ \A i \in DOMAIN fAllocatedAddresses :
              i \in DOMAIN A /\ A[i] = fAllocatedAddresses[i]
        /\ \A i \in DOMAIN A : i # 1 => i \in DOMAIN fAllocatedAddresses
    <2>1. CASE fAllocatedAddresses = <<>>
      <3>1. A = <<1>>
        BY <2>1 DEF Allocations
      <3> QED
        BY <2>1, <3>1, InboundConstants
    <2>2. CASE fAllocatedAddresses # <<>>
      <3>1. A = fAllocatedAddresses
        BY <2>2 DEF Allocations
      <3>2. Len(fAllocatedAddresses) >= 1
        BY <1>1, <2>2, EmptySeq, LenProperties
      <3> QED
        BY <1>1, <2>2, <3>1, <3>2
    <2> QED
      BY <2>1, <2>2
  <1> HIDE DEF A
  <1>3. Len(A) \in Nat /\ DOMAIN A = 1..Len(A)
    BY <1>2, LenProperties
  <1>4. FreeEntries = {i \in 1..Len(A) : A[i] = 0}
    BY <1>3 DEF FreeEntries, A
  <1>5. CASE FreeEntries = {}
    <2>1. B = Append(A, 1) /\ FirstEntry = Len(A) + 1
      BY <1>5 DEF allocatePseudoAddress, FirstEntry, A
    <2>2. Len(A) < FullLength
      BY <1>3, <1>5, InboundConstants DEF NoEntry, A
    <2> HIDE DEF B
    <2>3. /\ B \in Seq({0, 1}) /\ Len(B) = Len(A) + 1 /\ B[Len(A) + 1] = 1
          /\ \A i \in 1..Len(A) : B[i] = A[i]
      <3>1. 1 \in {0, 1}
        OBVIOUS
      <3> QED
        BY <1>2, <2>1, <3>1, AppendProperties
    <2>4. DOMAIN B = 1..Len(A) + 1
      BY <2>3, LenProperties
    <2>5. Len(B) <= FullLength /\ FirstEntry \in 2..Len(B) /\ B[1] = 1
      BY <1>2, <1>3, <2>1, <2>2, <2>3, InboundConstants
    <2>6. \A i \in DOMAIN fAllocatedAddresses :
             i \in 1..Len(A) /\ i \in DOMAIN B /\ i # FirstEntry
             /\ B[i] = fAllocatedAddresses[i]
      BY <1>2, <1>3, <2>1, <2>3, <2>4
    <2>7. \A i \in DOMAIN B : i \notin {1, FirstEntry} =>
             i \in DOMAIN fAllocatedAddresses
      BY <1>2, <1>3, <2>1, <2>4
    <2> QED
      BY <2>1, <2>3, <2>5, <2>6, <2>7 DEF B
  <1>6. CASE FreeEntries # {}
    <2>1. B = [A EXCEPT ![FirstEntry] = 1] /\ FirstEntry = Min(FreeEntries)
      BY <1>6 DEF allocatePseudoAddress, FirstEntry, A
    <2>2. FirstEntry \in 1..Len(A) /\ A[FirstEntry] = 0
      <3>1. FreeEntries \subseteq Nat
        BY <1>3, <1>4
      <3> QED
        BY <1>4, <1>6, <2>1, <3>1, LeastOf
    <2>3. FirstEntry # 1
      BY <1>2, <2>2
    <2> HIDE DEF B
    <2>4. /\ B \in Seq({0, 1}) /\ Len(B) = Len(A) /\ B[FirstEntry] = 1
          /\ \A i \in 1..Len(A) : i # FirstEntry => B[i] = A[i]
      <3>1. 1 \in {0, 1}
        OBVIOUS
      <3> QED
        BY <1>2, <2>1, <2>2, <3>1, ExceptSeq
    <2>5. DOMAIN B = 1..Len(A)
      BY <2>4, LenProperties
    <2>6. Len(B) <= FullLength /\ FirstEntry \in 2..Len(B) /\ B[1] = 1
      BY <1>2, <1>3, <2>2, <2>3, <2>4
    <2> QED
      BY <1>2, <1>3, <2>2, <2>4, <2>5, <2>6 DEF B
  <1> QED
    BY <1>5, <1>6

(* What becomes of an object that is not active is nothing to those that   *)
(* are.                                                                    *)
LEMMA OthersActive ==
    ASSUME InboundTypes, ActiveSound, UNCHANGED fLocalAddresses, NEW s \in Spaces,
           \A t \in Spaces : t # s => space'[t] = space[t],
           \A i \in DOMAIN fLocalAddresses : fLocalAddresses[i] # s
    PROVE  ActiveSound'
  <1>1. \A i \in DOMAIN fLocalAddresses :
            space'[fLocalAddresses[i]] = space[fLocalAddresses[i]]
    <2>1. \A i \in DOMAIN fLocalAddresses : fLocalAddresses[i] \in Spaces
      BY ElementOfSeq, LenProperties DEF InboundTypes
    <2> QED
      BY <2>1
  <1> QED
    BY <1>1 DEF ActiveSound, Apart, BytesOf

LEMMA PseudoCreated ==
    ASSUME InboundTypes, SpacesSound, EntriesSound, ActiveSound, Ordinary,
           createPseudoAddressSpace
    PROVE  /\ space' \in [Spaces -> SpaceRecords]
           /\ fAllocatedAddresses' \in Seq({0, 1})
           /\ SpacesSound' /\ EntriesSound' /\ ActiveSound'
  <1>1. PICK s \in Spaces, shape \in PseudoShapes :
            /\ ~space[s].live /\ ~NoEntry
            /\ fAllocatedAddresses' = allocatePseudoAddress
            /\ space' = [space EXCEPT ![s] = New(FirstEntry - 1, 0, FALSE, shape)]
    BY DEF createPseudoAddressSpace, Ordinary
  <1> DEFINE n == New(FirstEntry - 1, 0, FALSE, shape)
             A == fAllocatedAddresses  B == allocatePseudoAddress
  <1>2. /\ B \in Seq({0, 1}) /\ Len(B) <= FullLength
        /\ FirstEntry \in 2..Len(B) /\ B[1] = 1 /\ B[FirstEntry] = 1
        /\ \A i \in DOMAIN A : /\ i \in DOMAIN B
                               /\ i # FirstEntry => B[i] = A[i]
                               /\ i = FirstEntry => A[i] = 0
        /\ \A i \in DOMAIN B : i \notin {1, FirstEntry} => i \in DOMAIN A
    BY <1>1, EntryAllocated
  <1>3. Len(B) \in Nat /\ DOMAIN B = 1..Len(B)
    BY <1>2, LenProperties
  <1> HIDE DEF B
  <1>4. /\ FirstEntry \in Nat /\ FirstEntry >= 2 /\ FirstEntry - 1 \in Nat
        /\ FirstEntry - 1 # kCSRRegisterSpaceBaseAddressHi
    BY <1>2, <1>3, InboundConstants
  <1>5. /\ shape.fLen \in 1..AddressSize - 1 /\ shape.defers \in BOOLEAN
        /\ AddressSize \in Nat
    BY InboundConstants
  <1>6. /\ n \in SpaceRecords /\ n.live /\ n.addressHi = FirstEntry - 1
        /\ n.addressLo = 0 /\ n.fLen = shape.fLen
    BY <1>4, <1>5 DEF New, SpaceRecords
  <1>7. space \in [Spaces -> SpaceRecords]
    BY DEF InboundTypes
  <1> HIDE DEF n
  <1>8. /\ space' \in [Spaces -> SpaceRecords]
        /\ \A t \in Spaces : space'[t] = IF t = s THEN n ELSE space[t]
    BY <1>1, <1>6, <1>7 DEF n
  <1>9. SpacesSound'
    BY <1>5, <1>6, <1>8 DEF SpacesSound
  <1>10. ActiveSound'
    <2>1. UNCHANGED fLocalAddresses
      BY DEF createPseudoAddressSpace
    <2>2. \A i \in DOMAIN fLocalAddresses : fLocalAddresses[i] # s
      BY <1>1 DEF ActiveSound
    <2> QED
      BY <1>8, <2>1, <2>2, OthersActive
  <1>11. fAllocatedAddresses' = B
    BY <1>1 DEF B
  <1>12. \A t \in Spaces : t # s =>
            /\ Pseudo(t)' <=> Pseudo(t)
            /\ space'[t].addressHi = space[t].addressHi
    BY <1>8 DEF Pseudo
  <1>13. Pseudo(s)' /\ ~Pseudo(s) /\ space'[s].addressHi = FirstEntry - 1
    BY <1>1, <1>4, <1>6, <1>8 DEF Pseudo
  <1>14. \A t \in Spaces : space[t].addressHi \in Nat
    BY <1>7 DEF SpaceRecords
  <1>15. ASSUME NEW t \in Spaces, Pseudo(t)'
         PROVE  /\ space'[t].addressHi + 1 \in DOMAIN B
                /\ space'[t].addressHi # 0
                /\ B[space'[t].addressHi + 1] = 1
                /\ t # s => space'[t].addressHi # FirstEntry - 1
    <2>1. CASE t = s
      <3>1. space'[t].addressHi + 1 = FirstEntry
        BY <1>4, <1>13, <2>1
      <3> QED
        BY <1>2, <1>3, <1>4, <1>13, <2>1, <3>1
    <2>2. CASE t # s
      <3>1. /\ space[t].addressHi + 1 \in DOMAIN A /\ space[t].addressHi # 0
            /\ A[space[t].addressHi + 1] = 1
        BY <1>12, <1>15, <2>2 DEF EntriesSound
      <3>2. space[t].addressHi + 1 # FirstEntry
        BY <1>2, <3>1
      <3> QED
        BY <1>2, <1>4, <1>12, <1>14, <2>2, <3>1, <3>2
    <2> QED
      BY <2>1, <2>2
  <1>16. ASSUME NEW t \in Spaces, NEW u \in Spaces, t # u, Pseudo(t)', Pseudo(u)'
         PROVE  space'[t].addressHi # space'[u].addressHi
    <2>1. CASE t # s /\ u # s
      BY <1>12, <1>16, <2>1 DEF EntriesSound
    <2>2. CASE t = s \/ u = s
      BY <1>13, <1>15, <1>16, <2>2
    <2> QED
      BY <2>1, <2>2
  <1>17. ASSUME NEW i \in DOMAIN B, B[i] = 1, i # 1
         PROVE  \E t \in Spaces : Pseudo(t)' /\ space'[t].addressHi = i - 1
    <2>1. CASE i = FirstEntry
      BY <1>13, <2>1
    <2>2. CASE i # FirstEntry
      <3>1. i \in DOMAIN A /\ A[i] = 1
        BY <1>2, <1>17, <2>2
      <3>2. PICK t \in Spaces : Pseudo(t) /\ space[t].addressHi = i - 1
        BY <1>17, <3>1 DEF EntriesSound
      <3> QED
        BY <1>12, <1>13, <3>2
    <2> QED
      BY <2>1, <2>2
  <1>18. EntriesSound'
    BY <1>2, <1>11, <1>15, <1>16, <1>17 DEF EntriesSound
  <1> QED
    BY <1>2, <1>8, <1>9, <1>10, <1>11, <1>18

LEMMA InitialCreated ==
    ASSUME InboundTypes, SpacesSound, EntriesSound, ActiveSound, Ordinary,
           createInitialAddressSpace
    PROVE  /\ space' \in [Spaces -> SpaceRecords]
           /\ fAllocatedAddresses' \in Seq({0, 1})
           /\ SpacesSound' /\ EntriesSound' /\ ActiveSound'
  <1>1. PICK s \in Spaces, shape \in FixedShapes :
            /\ ~space[s].live
            /\ space' = [space EXCEPT ![s] =
                     New(kCSRRegisterSpaceBaseAddressHi, shape.addressLo,
                         shape.fExclusive, shape)]
            /\ UNCHANGED fAllocatedAddresses
    BY DEF createInitialAddressSpace, Ordinary
  <1> DEFINE n == New(kCSRRegisterSpaceBaseAddressHi, shape.addressLo,
                      shape.fExclusive, shape)
  <1>2. /\ shape.addressLo \in 0..AddressSize - 1
        /\ shape.fLen \in 1..AddressSize - 1
        /\ shape.addressLo + shape.fLen <= AddressSize
        /\ shape.fExclusive \in BOOLEAN /\ shape.defers \in BOOLEAN
        /\ AddressSize \in Nat /\ kCSRRegisterSpaceBaseAddressHi \in Nat
    BY InboundConstants DEF Ordinary
  <1>3. /\ n \in SpaceRecords /\ n.live
        /\ n.addressHi = kCSRRegisterSpaceBaseAddressHi
        /\ n.addressLo = shape.addressLo /\ n.fLen = shape.fLen
    BY <1>2 DEF New, SpaceRecords
  <1>4. space \in [Spaces -> SpaceRecords] /\ fAllocatedAddresses \in Seq({0, 1})
    BY DEF InboundTypes
  <1> HIDE DEF n
  <1>5. /\ space' \in [Spaces -> SpaceRecords]
        /\ \A t \in Spaces : space'[t] = IF t = s THEN n ELSE space[t]
    BY <1>1, <1>3, <1>4 DEF n
  <1>6. SpacesSound'
    BY <1>2, <1>3, <1>5 DEF SpacesSound
  <1>7. ActiveSound'
    <2>1. UNCHANGED fLocalAddresses
      BY DEF createInitialAddressSpace
    <2>2. \A i \in DOMAIN fLocalAddresses : fLocalAddresses[i] # s
      BY <1>1 DEF ActiveSound
    <2> QED
      BY <1>5, <2>1, <2>2, OthersActive
  <1>8. \A t \in Spaces : /\ Pseudo(t)' <=> Pseudo(t)
                          /\ Pseudo(t) => space'[t].addressHi = space[t].addressHi
    BY <1>1, <1>3, <1>5 DEF Pseudo
  <1>9. EntriesSound'
    BY <1>1, <1>8 DEF EntriesSound
  <1> QED
    BY <1>1, <1>4, <1>5, <1>6, <1>7, <1>9

LEMMA SpaceFreed ==
    ASSUME InboundTypes, SpacesSound, EntriesSound, ActiveSound, FreeSpace
    PROVE  /\ space' \in [Spaces -> SpaceRecords]
           /\ fAllocatedAddresses' \in Seq({0, 1})
           /\ SpacesSound' /\ EntriesSound' /\ ActiveSound'
  <1>1. PICK s \in Spaces :
            /\ space[s].live /\ ~Contains(fLocalAddresses, s)
            /\ space' = [space EXCEPT ![s] = NoSpace]
            /\ fAllocatedAddresses' = Freed(space[s])
    BY DEF FreeSpace
  <1> DEFINE A == fAllocatedAddresses  B == fAllocatedAddresses'
             hi == space[s].addressHi
  <1>2. /\ space \in [Spaces -> SpaceRecords] /\ A \in Seq({0, 1})
        /\ fLocalAddresses \in Seq(Spaces)
    BY DEF InboundTypes
  <1>3. Len(A) \in Nat /\ DOMAIN A = 1..Len(A)
    BY <1>2, LenProperties
  <1>4. NoSpace \in SpaceRecords /\ ~NoSpace.live
    BY InboundConstants DEF NoSpace, SpaceRecords
  <1>5. /\ space' \in [Spaces -> SpaceRecords]
        /\ \A t \in Spaces : space'[t] = IF t = s THEN NoSpace ELSE space[t]
    BY <1>1, <1>2, <1>4
  <1>6. SpacesSound'
    BY <1>4, <1>5 DEF SpacesSound
  <1>7. ActiveSound'
    <2>1. UNCHANGED fLocalAddresses
      BY DEF FreeSpace
    <2>2. \A i \in DOMAIN fLocalAddresses : fLocalAddresses[i] # s
      BY <1>1, <1>2, LenProperties DEF Contains
    <2> QED
      BY <1>5, <2>1, <2>2, OthersActive
  <1>8. \A t \in Spaces : /\ Pseudo(t)' <=> t # s /\ Pseudo(t)
                          /\ t # s => space'[t].addressHi = space[t].addressHi
    BY <1>4, <1>5 DEF Pseudo
  <1>9. \A t \in Spaces : space[t].addressHi \in Nat
    BY <1>2 DEF SpaceRecords
  <1>10. CASE ~Pseudo(s)
    <2>1. B = A
      BY <1>1, <1>10 DEF Freed, Pseudo
    <2>2. EntriesSound'
      BY <1>8, <1>10, <2>1 DEF EntriesSound
    <2> QED
      BY <1>2, <1>5, <1>6, <1>7, <2>1, <2>2
  <1>11. CASE Pseudo(s)
    <2>1. B = [A EXCEPT ![hi + 1] = 0]
      BY <1>1, <1>11 DEF Freed, Pseudo, freePseudoAddress
    <2>2. hi + 1 \in 1..Len(A) /\ hi # 0 /\ hi \in Nat
      BY <1>3, <1>9, <1>11 DEF EntriesSound
    <2>3. /\ B \in Seq({0, 1}) /\ Len(B) = Len(A)
          /\ \A i \in 1..Len(A) : B[i] = IF i = hi + 1 THEN 0 ELSE A[i]
      <3>1. 0 \in {0, 1}
        OBVIOUS
      <3> QED
        BY <1>2, <2>1, <2>2, <3>1, ExceptSeq
    <2>4. DOMAIN B = DOMAIN A
      BY <1>3, <2>3, LenProperties
    <2> HIDE DEF hi
    <2>5. B # <<>> /\ B[1] = 1 /\ Len(B) <= FullLength
      <3>1. A # <<>> /\ Len(A) >= 1
        BY <1>3, <2>2
      <3>2. A[1] = 1 /\ Len(A) <= FullLength
        BY <3>1 DEF EntriesSound
      <3> QED
        BY <1>3, <2>2, <2>3, <3>1, <3>2
    <2>6. ASSUME NEW t \in Spaces, Pseudo(t)'
          PROVE  /\ space'[t].addressHi + 1 \in DOMAIN B
                 /\ space'[t].addressHi # 0
                 /\ B[space'[t].addressHi + 1] = 1
      <3>1. t # s /\ Pseudo(t) /\ space'[t].addressHi = space[t].addressHi
        BY <1>8, <2>6
      <3>2. /\ space[t].addressHi + 1 \in DOMAIN A /\ space[t].addressHi # 0
            /\ A[space[t].addressHi + 1] = 1 /\ space[t].addressHi # hi
        BY <1>11, <3>1 DEF EntriesSound, hi
      <3> QED
        BY <1>3, <1>9, <2>2, <2>3, <2>4, <3>1, <3>2
    <2>7. ASSUME NEW i \in DOMAIN B, B[i] = 1, i # 1
          PROVE  \E t \in Spaces : Pseudo(t)' /\ space'[t].addressHi = i - 1
      <3>1. i \in DOMAIN A /\ A[i] = 1 /\ i # hi + 1 /\ i \in Nat
        BY <1>3, <2>3, <2>4, <2>7
      <3>2. PICK t \in Spaces : Pseudo(t) /\ space[t].addressHi = i - 1
        BY <2>7, <3>1 DEF EntriesSound
      <3>3. t # s
        BY <2>2, <3>1, <3>2 DEF hi
      <3> QED
        BY <1>8, <3>2, <3>3
    <2>8. \A t, u \in Spaces : t # u /\ Pseudo(t)' /\ Pseudo(u)' =>
              space'[t].addressHi # space'[u].addressHi
      BY <1>8 DEF EntriesSound
    <2>9. EntriesSound'
      BY <2>5, <2>6, <2>7, <2>8 DEF EntriesSound
    <2> QED
      BY <1>5, <1>6, <1>7, <2>3, <2>9
  <1> QED
    BY <1>10, <1>11

(* Whoever has a byte of both has an end of one in the other, or has it    *)
(* within.                                                                 *)
LEMMA EndsTell ==
    ASSUME NEW s \in SpaceRecords, NEW t \in SpaceRecords,
           s.fLen >= 1, s.addressLo + s.fLen <= AddressSize,
           t.fLen >= 1, t.addressLo + t.fLen <= AddressSize,
           (s.fExclusive \/ t.fExclusive) => ~intersects(t, s), ~Encloses(s, t)
    PROVE  Apart(s, t) /\ Apart(t, s)
  <1>1. /\ s.addressLo \in Nat /\ s.fLen \in Nat /\ t.addressLo \in Nat
        /\ t.fLen \in Nat /\ AddressSize \in Nat
    BY InboundConstants DEF SpaceRecords
  <1> SUFFICES ASSUME s.fExclusive \/ t.fExclusive, s.addressHi = t.addressHi,
                      NEW b \in BytesOf(s.addressLo, s.fLen)
                                \cap BytesOf(t.addressLo, t.fLen)
               PROVE  FALSE
    BY DEF Apart
  <1> DEFINE e == s.addressLo + s.fLen - 1
  <1>2. /\ b \in s.addressLo..e
        /\ b \in t.addressLo..t.addressLo + t.fLen - 1
    BY DEF BytesOf
  <1>3. e \in 0..AddressSize /\ e < AddressSize
    BY <1>1
  <1>4. Wrap(e) = e
    BY <1>3, WrapOf
  <1>5. /\ contains(t, s.addressHi, s.addressLo) <= 0
        /\ contains(t, s.addressHi, e) <= 0
    <2>1. /\ ~(contains(t, s.addressHi, s.addressLo) > 0)
          /\ ~(contains(t, s.addressHi, e) > 0)
      BY <1>4 DEF intersects
    <2>2. \A lo \in Int : contains(t, s.addressHi, lo) \in Int
      BY <1>1 DEF contains
    <2> QED
      BY <1>1, <1>3, <2>1, <2>2
  <1>6. ASSUME NEW lo \in Int, contains(t, s.addressHi, lo) <= 0
        PROVE  lo < t.addressLo \/ lo >= t.addressLo + t.fLen
    <2>1. CASE lo - t.addressLo >= 0 /\ lo - t.addressLo <= t.fLen
      <3>1. contains(t, s.addressHi, lo) = t.fLen - (lo - t.addressLo)
        BY <2>1 DEF contains
      <3> QED
        BY <1>1, <1>6, <3>1
    <2>2. CASE ~(lo - t.addressLo >= 0 /\ lo - t.addressLo <= t.fLen)
      BY <1>1, <2>2
    <2> QED
      BY <2>1, <2>2
  <1>7. /\ s.addressLo < t.addressLo \/ s.addressLo >= t.addressLo + t.fLen
        /\ e < t.addressLo \/ e >= t.addressLo + t.fLen
    BY <1>1, <1>3, <1>5, <1>6
  <1>8. s.addressLo < t.addressLo /\ t.addressLo + t.fLen < s.addressLo + s.fLen
    BY <1>1, <1>2, <1>7
  <1> QED
    BY <1>8 DEF Encloses

LEMMA Activated ==
    ASSUME InboundTypes, SpacesSound, ActiveSound, Ordinary, allocAddress
    PROVE  fLocalAddresses' \in Seq(Spaces) /\ ActiveSound'
  <1> DEFINE L == fLocalAddresses
  <1>1. PICK s \in Spaces :
            /\ space[s].live /\ ~Conflict(s) /\ ~Contains(L, s)
            /\ \A t \in ToSet(L) : ~Encloses(space[s], space[t])
            /\ L' = Append(L, s)
    BY DEF allocAddress, Ordinary
  <1>2. L \in Seq(Spaces) /\ space \in [Spaces -> SpaceRecords] /\ space' = space
    BY DEF InboundTypes, allocAddress
  <1>3. /\ Len(L) \in Nat /\ DOMAIN L = 1..Len(L)
        /\ \A i \in DOMAIN L : L[i] \in Spaces
    BY <1>2, LenProperties, ElementOfSeq
  <1>4. /\ L' \in Seq(Spaces) /\ Len(L') = Len(L) + 1
        /\ \A i \in 1..Len(L) : L'[i] = L[i]
        /\ L'[Len(L) + 1] = s
    BY <1>1, <1>2, AppendProperties
  <1>5. DOMAIN L' = 1..Len(L) + 1
    BY <1>2, <1>4, LenProperties
  <1>6. ASSUME NEW i \in DOMAIN L
        PROVE  /\ L[i] # s /\ space[L[i]].live
               /\ Apart(space[s], space[L[i]]) /\ Apart(space[L[i]], space[s])
    <2>1. L[i] # s
      BY <1>1, <1>3 DEF Contains
    <2>2. L[i] \in Spaces /\ space[L[i]].live /\ L[i] \in ToSet(L)
      BY <1>3 DEF ActiveSound, ToSet
    <2>3. /\ space[s].fLen >= 1
          /\ space[s].addressLo + space[s].fLen <= AddressSize
          /\ space[L[i]].fLen >= 1
          /\ space[L[i]].addressLo + space[L[i]].fLen <= AddressSize
      BY <1>1, <2>2 DEF SpacesSound
    <2>4. (space[s].fExclusive \/ space[L[i]].fExclusive) =>
              ~intersects(space[L[i]], space[s])
      BY <1>1, <2>2 DEF Conflict
    <2>5. ~Encloses(space[s], space[L[i]])
      BY <1>1, <2>2
    <2>6. space[s] \in SpaceRecords /\ space[L[i]] \in SpaceRecords
      BY <1>2, <2>2
    <2> QED
      BY <2>1, <2>2, <2>3, <2>4, <2>5, <2>6, EndsTell
  <1> HIDE DEF L
  <1>7. \A i \in DOMAIN L' : \/ i \in DOMAIN L /\ L'[i] = L[i]
                             \/ i = Len(L) + 1 /\ L'[i] = s
    BY <1>3, <1>4, <1>5
  <1>8. /\ \A i \in DOMAIN L : space[L[i]].live
        /\ \A i, j \in DOMAIN L : L[i] = L[j] => i = j
        /\ \A i, j \in DOMAIN L : i # j => Apart(space[L[i]], space[L[j]])
    BY DEF ActiveSound, L
  <1>9. /\ \A i \in DOMAIN L' : space[L'[i]].live
        /\ \A i, j \in DOMAIN L' : L'[i] = L'[j] => i = j
        /\ \A i, j \in DOMAIN L' : i # j => Apart(space[L'[i]], space[L'[j]])
    BY <1>1, <1>6, <1>7, <1>8
  <1> QED
    BY <1>2, <1>4, <1>9 DEF ActiveSound, L, Apart, BytesOf

LEMMA Deactivated ==
    ASSUME InboundTypes, ActiveSound, freeAddress
    PROVE  fLocalAddresses' \in Seq(Spaces) /\ ActiveSound'
  <1> DEFINE L == fLocalAddresses
  <1>1. PICK k \in DOMAIN L : L' = RemoveAt(L, k)
    BY DEF freeAddress
  <1>2. L \in Seq(Spaces) /\ space' = space
    BY DEF InboundTypes, freeAddress
  <1>3. Len(L) \in Nat /\ DOMAIN L = 1..Len(L)
    BY <1>2, LenProperties
  <1>4. /\ L' \in Seq(Spaces) /\ Len(L') = Len(L) - 1
        /\ \A j \in 1..Len(L) - 1 : /\ j < k => L'[j] = L[j]
                                    /\ j >= k => L'[j] = L[j + 1]
    BY <1>1, <1>2, RemovedFrom
  <1>5. DOMAIN L' = 1..Len(L) - 1
    BY <1>2, <1>4, LenProperties
  <1> DEFINE old(j) == IF j < k THEN j ELSE j + 1
  <1>6. /\ \A j \in DOMAIN L' : old(j) \in DOMAIN L /\ L'[j] = L[old(j)]
        /\ \A i, j \in DOMAIN L' : old(i) = old(j) => i = j
    BY <1>3, <1>4, <1>5
  <1>7. /\ \A i \in DOMAIN L : space[L[i]].live
        /\ \A i, j \in DOMAIN L : L[i] = L[j] => i = j
        /\ \A i, j \in DOMAIN L : i # j => Apart(space[L[i]], space[L[j]])
    BY DEF ActiveSound
  <1> HIDE DEF L, old
  <1>8. /\ \A i \in DOMAIN L' : space[L'[i]].live
        /\ \A i, j \in DOMAIN L' : L'[i] = L'[j] => i = j
        /\ \A i, j \in DOMAIN L' : i # j => Apart(space[L'[i]], space[L'[j]])
    BY <1>6, <1>7
  <1> QED
    BY <1>2, <1>4, <1>8 DEF ActiveSound, L, Apart, BytesOf

-----------------------------------------------------------------------------
(* Inbound: the requests.                                                  *)

RequestTypes == /\ fBusGeneration \in 0..MaxInboundResets
                /\ request \in [Nodes \X Labels -> Requests \cup {NoRequest}]
                /\ deferred \subseteq Deferred
                /\ requests \in 0..MaxRequests

LEMMA RequestSent ==
    ASSUME InboundTypes, AnswersSound, Ordinary, SendRequest
    PROVE  RequestTypes' /\ AnswersSound'
  <1>1. PICK n \in Nodes, l \in Labels, shape \in RequestShapes :
            /\ request[<<n, l>>] = NoRequest
            /\ request' = [request EXCEPT ![<<n, l>>] =
                   [shape |-> shape, id |-> requests + 1, state |-> "sent"]]
    BY DEF SendRequest, Ordinary
  <1>2. /\ requests < MaxRequests /\ requests' = requests + 1
        /\ UNCHANGED <<fBusGeneration, deferred, astray, outside>>
    BY DEF SendRequest
  <1> DEFINE q == [shape |-> shape, id |-> requests + 1, state |-> "sent"]
  <1>3. /\ request \in [Nodes \X Labels -> Requests \cup {NoRequest}]
        /\ requests \in 0..MaxRequests
    BY DEF InboundTypes
  <1>4. requests + 1 \in 1..MaxRequests
    BY <1>2, <1>3, InboundConstants
  <1>5. q \in Requests
    BY <1>4 DEF Requests
  <1> HIDE DEF q
  <1>6. /\ request' \in [Nodes \X Labels -> Requests \cup {NoRequest}]
        /\ \A nl \in Nodes \X Labels :
              nl # <<n, l>> => request'[nl] = request[nl]
    BY <1>1, <1>3, <1>5 DEF q
  <1>7. RequestTypes'
    <2>1. requests' \in 0..MaxRequests
      BY <1>2, <1>4, InboundConstants
    <2> QED
      BY <1>2, <1>6, <2>1 DEF InboundTypes, RequestTypes, Deferred
  <1>8. ASSUME NEW d \in deferred, d.generation = fBusGeneration
        PROVE  request'[<<d.node, d.label>>] = request[<<d.node, d.label>>]
    <2>1. <<d.node, d.label>> \in Nodes \X Labels
      BY DEF InboundTypes, Deferred
    <2>2. request[<<d.node, d.label>>].state \in {"deferred", "givenUp"}
      BY <1>8 DEF AnswersSound
    <2>3. request[<<n, l>>].state = "none"
      BY <1>1 DEF NoRequest
    <2>4. <<d.node, d.label>> # <<n, l>>
      BY <2>2, <2>3
    <2> QED
      BY <1>6, <2>1, <2>4
  <1>9. AnswersSound'
    BY <1>2, <1>8 DEF AnswersSound
  <1> QED
    BY <1>7, <1>9

(* The space that takes a request has all of its bytes, unless the sum of  *)
(* the request has wrapped.                                                *)
LEMMA TakenWhole ==
    ASSUME NEW s \in SpaceRecords, NEW q \in RequestShapes,
           s.addressLo + s.fLen <= AddressSize, s.fLen >= 1, Accepts(s, q),
           ~Overflows(q)
    PROVE  BytesOf(q.addressLo, q.len) \subseteq BytesOf(s.addressLo, s.fLen)
  <1>0. /\ s.addressLo \in Nat /\ s.fLen \in Nat /\ AddressSize \in Nat
        /\ q.addressLo \in Nat /\ q.len \in Nat /\ q.len >= 1
        /\ q.addressLo < AddressSize /\ q.len < AddressSize
    BY InboundConstants DEF SpaceRecords
  <1>1. q.addressLo + q.len < AddressSize
    <2> SUFFICES ASSUME q.addressLo + q.len >= AddressSize PROVE FALSE
      BY <1>0
    <2>1. PICK n \in Nat : n = q.addressLo + q.len
      BY <1>0
    <2>2. Wrap(n) = n - AddressSize
      BY <1>0, <2>1, WrapOver
    <2>3. Wrap(n) < q.addressLo
      BY <1>0, <2>1, <2>2
    <2> QED
      BY <2>1, <2>3 DEF Overflows
  <1>2. /\ q.addressLo >= s.addressLo
        /\ Wrap(q.addressLo + q.len) <= Wrap(s.addressLo + s.fLen)
    BY DEF Accepts
  <1>3. Wrap(q.addressLo + q.len) = q.addressLo + q.len
    BY <1>0, <1>1, WrapOf
  <1>4. \/ Wrap(s.addressLo + s.fLen) = s.addressLo + s.fLen
        \/ Wrap(s.addressLo + s.fLen) = 0
    BY <1>0, <1>1, WrapOf
  <1>5. q.addressLo + q.len <= s.addressLo + s.fLen
    BY <1>0, <1>1, <1>2, <1>3, <1>4
  <1> QED
    BY <1>0, <1>2, <1>5 DEF BytesOf

LEMMA FirstOnesOwn ==
    ASSUME InboundTypes, SpacesSound, ActiveSound,
           NEW q \in RequestShapes, FirstToAccept(q) # NoOne, ~Overflows(q)
    PROVE  BytesOf(q.addressLo, q.len) \subseteq
               BytesOf(FirstToAccept(q).addressLo, FirstToAccept(q).fLen)
  <1> DEFINE A == {i \in DOMAIN fLocalAddresses :
                       Accepts(space[fLocalAddresses[i]], q)}
  <1>1. A # {} /\ FirstToAccept(q) = space[fLocalAddresses[Min(A)]]
    BY DEF FirstToAccept
  <1>2. A \subseteq Nat
    BY LenProperties DEF InboundTypes
  <1>3. Min(A) \in A
    BY <1>1, <1>2, LeastOf
  <1> DEFINE s == space[fLocalAddresses[Min(A)]]
  <1>4. Accepts(s, q) /\ fLocalAddresses[Min(A)] \in Spaces /\ s.live
    BY <1>3, LenProperties, ElementOfSeq DEF InboundTypes, ActiveSound
  <1> HIDE DEF A
  <1>5. /\ s \in SpaceRecords /\ s.fLen >= 1
        /\ s.addressLo + s.fLen <= AddressSize
    BY <1>4 DEF InboundTypes, SpacesSound
  <1> QED
    BY <1>1, <1>4, <1>5, TakenWhole

LEMMA RequestServed ==
    ASSUME InboundTypes, SpacesSound, ActiveSound, AnswersSound, Ordinary,
           processRcvPacket
    PROVE  RequestTypes' /\ AnswersSound'
  <1>1. PICK n \in Nodes, l \in Labels :
        LET q == request[<<n, l>>].shape
            s == FirstToAccept(q)
        IN  /\ request[<<n, l>>].state = "sent"
            /\ outside' = IF \/ s = NoOne
                             \/ BytesOf(q.addressLo, q.len)
                                    \subseteq BytesOf(s.addressLo, s.fLen)
                          THEN outside ELSE outside \cup {q}
            /\ IF IsPending(s, q)
               THEN deferred' = deferred \cup
                        {[node |-> n, label |-> l, id |-> request[<<n, l>>].id,
                          generation |-> fBusGeneration]}
               ELSE UNCHANGED deferred
            /\ IF q.broadcast
               THEN request' = [request EXCEPT ![<<n, l>>] = NoRequest]
               ELSE IF IsPending(s, q)
                    THEN request' = [request EXCEPT ![<<n, l>>].state = "deferred"]
                    ELSE request' = [request EXCEPT ![<<n, l>>] = NoRequest]
    BY DEF processRcvPacket
  <1> DEFINE r == request[<<n, l>>]
             new == [node |-> n, label |-> l, id |-> r.id,
                     generation |-> fBusGeneration]
             pends == IsPending(FirstToAccept(r.shape), r.shape)
  <1>2. /\ request \in [Nodes \X Labels -> Requests \cup {NoRequest}]
        /\ fBusGeneration \in 0..MaxInboundResets /\ deferred \subseteq Deferred
        /\ requests \in 0..MaxRequests
        /\ UNCHANGED <<fBusGeneration, requests, astray>>
    BY DEF InboundTypes, processRcvPacket
  <1>3. r \in Requests /\ r.shape \in RequestShapes /\ r.id \in 1..MaxRequests
    <2>1. r.state = "sent"
      BY <1>1
    <2>2. r # NoRequest
      BY <2>1 DEF NoRequest
    <2> QED
      BY <1>2, <2>2 DEF Requests
  <1>4. outside' \subseteq RequestShapes /\ \A q \in outside' : Overflows(q)
    <2>1. CASE Overflows(r.shape)
      <3>1. outside' = outside \/ outside' = outside \cup {r.shape}
        BY <1>1
      <3> QED
        BY <1>3, <2>1, <3>1 DEF AnswersSound
    <2>2. CASE ~Overflows(r.shape)
      <3>1. FirstToAccept(r.shape) # NoOne =>
               BytesOf(r.shape.addressLo, r.shape.len) \subseteq
                   BytesOf(FirstToAccept(r.shape).addressLo,
                           FirstToAccept(r.shape).fLen)
        BY <1>3, <2>2, FirstOnesOwn
      <3>2. outside' = outside
        BY <1>1, <3>1
      <3> QED
        BY <3>2 DEF AnswersSound
    <2> QED
      BY <2>1, <2>2
  <1>5. r.shape.broadcast => ~pends
    BY <1>3 DEF IsPending, Ordinary
  <1>6. \/ /\ pends /\ deferred' = deferred \cup {new}
           /\ request' = [request EXCEPT ![<<n, l>>].state = "deferred"]
        \/ /\ deferred' = deferred
           /\ request' = [request EXCEPT ![<<n, l>>] = NoRequest]
    BY <1>1, <1>5
  <1>7. \A nl \in Nodes \X Labels :
            nl # <<n, l>> => request'[nl] = request[nl]
    BY <1>2, <1>6
  <1>8. ASSUME NEW d \in deferred, d.generation = fBusGeneration
        PROVE  request'[<<d.node, d.label>>] = request[<<d.node, d.label>>]
    <2>1. <<d.node, d.label>> \in Nodes \X Labels
      BY <1>2 DEF Deferred
    <2>2. request[<<d.node, d.label>>].state \in {"deferred", "givenUp"}
      BY <1>8 DEF AnswersSound
    <2>3. <<d.node, d.label>> # <<n, l>>
      BY <1>1, <2>2
    <2> QED
      BY <1>7, <2>1, <2>3
  <1>9. CASE /\ pends /\ deferred' = deferred \cup {new}
             /\ request' = [request EXCEPT ![<<n, l>>].state = "deferred"]
    <2> DEFINE x == [r EXCEPT !.state = "deferred"]
    <2>1. x \in Requests /\ x.id = r.id /\ x.state = "deferred"
      BY <1>3 DEF Requests
    <2> HIDE DEF x
    <2>2. request' \in [Nodes \X Labels -> Requests \cup {NoRequest}]
          /\ request'[<<n, l>>] = x
      BY <1>2, <1>9, <2>1 DEF x
    <2>3. new \in Deferred
      BY <1>2, <1>3 DEF Deferred
    <2>4. RequestTypes'
      BY <1>2, <1>9, <2>2, <2>3 DEF RequestTypes, Deferred, Requests
    <2>5. /\ new.generation = fBusGeneration /\ new.id = r.id
          /\ new.node = n /\ new.label = l
      OBVIOUS
    <2>6. fBusGeneration <= fBusGeneration
      BY <1>2, InboundConstants
    <2> HIDE DEF new
    <2>7. AnswersSound'
      BY <1>2, <1>4, <1>8, <1>9, <2>1, <2>2, <2>5, <2>6 DEF AnswersSound
    <2> QED
      BY <2>4, <2>7
  <1>10. CASE /\ deferred' = deferred
              /\ request' = [request EXCEPT ![<<n, l>>] = NoRequest]
    <2>1. RequestTypes'
      BY <1>2, <1>10 DEF RequestTypes, Deferred, Requests, NoRequest
    <2>2. AnswersSound'
      BY <1>2, <1>4, <1>8, <1>10 DEF AnswersSound
    <2> QED
      BY <2>1, <2>2
  <1> QED
    BY <1>6, <1>9, <1>10

LEMMA Answered ==
    ASSUME InboundTypes, AnswersSound, asyncResponse
    PROVE  RequestTypes' /\ AnswersSound'
  <1>1. PICK d \in deferred :
            /\ deferred' = deferred \ {d}
            /\ IF checkGeneration(d) THEN Respond(d.node, d.label, d.id)
                                     ELSE UNCHANGED <<request, astray>>
    BY DEF asyncResponse
  <1>2. /\ request \in [Nodes \X Labels -> Requests \cup {NoRequest}]
        /\ fBusGeneration \in 0..MaxInboundResets /\ deferred \subseteq Deferred
        /\ requests \in 0..MaxRequests
        /\ UNCHANGED <<fBusGeneration, requests, outside>>
    BY DEF InboundTypes, asyncResponse
  <1>3. CASE d.generation # fBusGeneration
    <2>1. UNCHANGED <<request, astray>>
      BY <1>1, <1>3 DEF checkGeneration
    <2> QED
      BY <1>1, <1>2, <2>1
         DEF AnswersSound, RequestTypes, Requests, Deferred, NoRequest
  <1>4. CASE d.generation = fBusGeneration
    <2>1. /\ astray' = (astray \/ request[<<d.node, d.label>>].id # d.id)
          /\ request' = [request EXCEPT ![<<d.node, d.label>>] = NoRequest]
      BY <1>1, <1>4 DEF checkGeneration, Respond
    <2>2. astray' = FALSE
      BY <1>4, <2>1 DEF AnswersSound
    <2>3. RequestTypes'
      BY <1>1, <1>2, <2>1 DEF RequestTypes, Requests, Deferred, NoRequest
    <2>4. ASSUME NEW e \in deferred \ {d}, e.generation = fBusGeneration
          PROVE  request'[<<e.node, e.label>>] = request[<<e.node, e.label>>]
      <3>1. e \in Deferred /\ d \in Deferred
        BY <1>2
      <3>2. /\ request[<<d.node, d.label>>].id = d.id
            /\ request[<<e.node, e.label>>].id = e.id
        BY <1>4, <2>4 DEF AnswersSound
      <3>3. ~(e.node = d.node /\ e.label = d.label)
        <4>1. e.id = d.id /\ e.node = d.node /\ e.label = d.label => e = d
          BY <1>4, <2>4, <3>1 DEF Deferred
        <4> QED
          BY <2>4, <3>2, <4>1
      <3>4. <<e.node, e.label>> # <<d.node, d.label>>
        BY <3>3
      <3>5. <<e.node, e.label>> \in Nodes \X Labels
        BY <3>1 DEF Deferred
      <3> QED
        BY <1>2, <2>1, <3>4, <3>5
    <2>5. AnswersSound'
      BY <1>1, <1>2, <2>2, <2>4 DEF AnswersSound
    <2> QED
      BY <2>3, <2>5
  <1> QED
    BY <1>3, <1>4

LEMMA GivenUp ==
    ASSUME InboundTypes, AnswersSound, NodeGivesUp
    PROVE  RequestTypes' /\ AnswersSound'
  <1>1. PICK n \in Nodes, l \in Labels :
            /\ request[<<n, l>>].state = "deferred"
            /\ request' = [request EXCEPT ![<<n, l>>].state = "givenUp"]
    BY DEF NodeGivesUp
  <1> DEFINE r == request[<<n, l>>]
             x == [r EXCEPT !.state = "givenUp"]
  <1>2. /\ request \in [Nodes \X Labels -> Requests \cup {NoRequest}]
        /\ UNCHANGED <<fBusGeneration, requests, deferred, astray, outside>>
    BY DEF InboundTypes, NodeGivesUp
  <1>3. r \in Requests
    <2>1. r # NoRequest
      BY <1>1 DEF NoRequest
    <2> QED
      BY <1>2, <2>1
  <1>4. x \in Requests /\ x.id = r.id /\ x.state = "givenUp"
    BY <1>3 DEF Requests
  <1> HIDE DEF x
  <1>5. /\ request' \in [Nodes \X Labels -> Requests \cup {NoRequest}]
        /\ \A nl \in Nodes \X Labels :
              request'[nl] = IF nl = <<n, l>> THEN x ELSE request[nl]
    BY <1>1, <1>2, <1>4 DEF x
  <1>6. RequestTypes'
    BY <1>2, <1>5 DEF InboundTypes, RequestTypes, Deferred
  <1>7. \A d \in deferred : <<d.node, d.label>> \in Nodes \X Labels
    BY DEF InboundTypes, Deferred
  <1>8. AnswersSound'
    BY <1>2, <1>4, <1>5, <1>7 DEF AnswersSound
  <1> QED
    BY <1>6, <1>8

LEMMA ResetSeen ==
    ASSUME InboundTypes, AnswersSound, ResetBus
    PROVE  RequestTypes' /\ AnswersSound'
  <1>1. /\ fBusGeneration < MaxInboundResets
        /\ fBusGeneration' = fBusGeneration + 1
        /\ request' = [nl \in Nodes \X Labels |-> NoRequest]
        /\ UNCHANGED <<deferred, requests, astray, outside>>
    BY DEF ResetBus
  <1>2. /\ fBusGeneration \in Nat /\ fBusGeneration' \in 0..MaxInboundResets
    BY <1>1, InboundConstants DEF InboundTypes
  <1>3. RequestTypes'
    BY <1>1, <1>2 DEF InboundTypes, RequestTypes, Deferred, Requests, NoRequest
  <1>4. \A d \in deferred :
            d.generation <= fBusGeneration /\ d.generation \in Nat
    <2>1. \A d \in deferred : d.generation \in 0..MaxInboundResets
      BY DEF InboundTypes, Deferred
    <2>2. \A d \in deferred : d.generation \in Nat
      BY <2>1, InboundConstants
    <2>3. \A d \in deferred : d.generation <= fBusGeneration
      BY DEF AnswersSound
    <2> QED
      BY <2>2, <2>3
  <1>5. \A d \in deferred :
            d.generation <= fBusGeneration' /\ d.generation # fBusGeneration'
    BY <1>1, <1>2, <1>4
  <1>6. AnswersSound'
    BY <1>1, <1>5 DEF AnswersSound
  <1> QED
    BY <1>3, <1>6

-----------------------------------------------------------------------------
(* Inbound: the theorems.                                                  *)

LEMMA InboundStart == InboundInit => InboundInv
  <1> SUFFICES ASSUME InboundInit PROVE InboundInv
    OBVIOUS
  <1>1. NoSpace \in SpaceRecords /\ ~NoSpace.live
    BY InboundConstants DEF NoSpace, SpaceRecords
  <1>2. /\ space \in [Spaces -> SpaceRecords]
        /\ \A s \in Spaces : ~space[s].live
    BY <1>1 DEF InboundInit
  <1>3. /\ 0 \in 0..MaxInboundResets /\ 0 \in 0..MaxRequests
        /\ <<>> \in Seq({0, 1}) /\ <<>> \in Seq(Spaces) /\ Len(<<>>) = 0
    BY InboundConstants, EmptySeq
  <1>4. InboundTypes
    BY <1>2, <1>3 DEF InboundInit, InboundTypes
  <1>5. SpacesSound
    BY <1>2 DEF SpacesSound
  <1>6. EntriesSound
    BY <1>2, InboundConstants DEF InboundInit, EntriesSound, Pseudo
  <1>7. ActiveSound
    BY DEF InboundInit, ActiveSound
  <1>8. AnswersSound
    BY DEF InboundInit, AnswersSound
  <1> QED
    BY <1>4, <1>5, <1>6, <1>7, <1>8 DEF InboundInv

LEMMA InboundStep ==
    ASSUME InboundInv, Ordinary, [InboundNext]_inboundVars
    PROVE  InboundInv'
  <1>1. /\ InboundTypes /\ SpacesSound /\ EntriesSound /\ ActiveSound
        /\ AnswersSound
    BY DEF InboundInv
  <1>2. ASSUME UNCHANGED requestVars,
               space' \in [Spaces -> SpaceRecords],
               fAllocatedAddresses' \in Seq({0, 1}),
               fLocalAddresses' \in Seq(Spaces),
               SpacesSound', EntriesSound', ActiveSound'
        PROVE  InboundInv'
    <2>1. InboundTypes'
      BY <1>1, <1>2
         DEF InboundTypes, requestVars, Requests, Deferred, NoRequest, SpaceRecords
    <2>2. AnswersSound'
      BY <1>1, <1>2 DEF AnswersSound, requestVars
    <2> QED
      BY <1>2, <2>1, <2>2 DEF InboundInv
  <1>3. ASSUME UNCHANGED spaceVars, RequestTypes', AnswersSound'
        PROVE  InboundInv'
    <2>1. InboundTypes'
      BY <1>1, <1>3 DEF InboundTypes, RequestTypes, spaceVars, SpaceRecords
    <2>2. SpacesSound' /\ EntriesSound' /\ ActiveSound'
      BY <1>1, <1>3
         DEF SpacesSound, EntriesSound, ActiveSound, spaceVars, Pseudo, Apart, BytesOf
    <2> QED
      BY <1>3, <2>1, <2>2 DEF InboundInv
  <1>4. fLocalAddresses \in Seq(Spaces)
    BY <1>1 DEF InboundTypes
  <1>5. CASE createPseudoAddressSpace
    <2>1. UNCHANGED <<fLocalAddresses, requestVars>>
      BY <1>5 DEF createPseudoAddressSpace
    <2> QED
      BY <1>1, <1>2, <1>4, <1>5, <2>1, PseudoCreated
  <1>6. CASE createInitialAddressSpace
    <2>1. UNCHANGED <<fLocalAddresses, requestVars>>
      BY <1>6 DEF createInitialAddressSpace
    <2> QED
      BY <1>1, <1>2, <1>4, <1>6, <2>1, InitialCreated
  <1>7. CASE FreeSpace
    <2>1. UNCHANGED <<fLocalAddresses, requestVars>>
      BY <1>7 DEF FreeSpace
    <2> QED
      BY <1>1, <1>2, <1>4, <1>7, <2>1, SpaceFreed
  <1>8. ASSUME UNCHANGED <<space, fAllocatedAddresses, requestVars>>,
               fLocalAddresses' \in Seq(Spaces), ActiveSound'
        PROVE  InboundInv'
    <2>1. SpacesSound' /\ EntriesSound'
      BY <1>1, <1>8 DEF SpacesSound, EntriesSound, Pseudo
    <2>2. /\ space' \in [Spaces -> SpaceRecords]
          /\ fAllocatedAddresses' \in Seq({0, 1})
      BY <1>1, <1>8 DEF InboundTypes
    <2> QED
      BY <1>2, <1>8, <2>1, <2>2
  <1>9. CASE allocAddress
    <2>1. UNCHANGED <<space, fAllocatedAddresses, requestVars>>
      BY <1>9 DEF allocAddress
    <2> QED
      BY <1>1, <1>8, <1>9, <2>1, Activated
  <1>10. CASE freeAddress
    <2>1. UNCHANGED <<space, fAllocatedAddresses, requestVars>>
      BY <1>10 DEF freeAddress
    <2> QED
      BY <1>1, <1>8, <1>10, <2>1, Deactivated
  <1>11. CASE SendRequest
    <2>1. UNCHANGED spaceVars
      BY <1>11 DEF SendRequest
    <2> QED
      BY <1>1, <1>3, <1>11, <2>1, RequestSent
  <1>12. CASE processRcvPacket
    <2>1. UNCHANGED spaceVars
      BY <1>12 DEF processRcvPacket
    <2> QED
      BY <1>1, <1>3, <1>12, <2>1, RequestServed
  <1>13. CASE asyncResponse
    <2>1. UNCHANGED spaceVars
      BY <1>13 DEF asyncResponse
    <2> QED
      BY <1>1, <1>3, <1>13, <2>1, Answered
  <1>14. CASE NodeGivesUp
    <2>1. UNCHANGED spaceVars
      BY <1>14 DEF NodeGivesUp
    <2> QED
      BY <1>1, <1>3, <1>14, <2>1, GivenUp
  <1>15. CASE ResetBus
    <2>1. UNCHANGED spaceVars
      BY <1>15 DEF ResetBus
    <2> QED
      BY <1>1, <1>3, <1>15, <2>1, ResetSeen
  <1>16. CASE UNCHANGED inboundVars
    <2>1. UNCHANGED spaceVars /\ UNCHANGED requestVars
      BY <1>16 DEF inboundVars, spaceVars, requestVars
    <2>2. RequestTypes' /\ AnswersSound'
      BY <1>1, <2>1
         DEF InboundTypes, RequestTypes, AnswersSound, requestVars, Requests,
             Deferred, NoRequest
    <2> QED
      BY <1>3, <2>1, <2>2
  <1> QED
    BY <1>5, <1>6, <1>7, <1>9, <1>10, <1>11, <1>12, <1>13, <1>14, <1>15, <1>16
       DEF InboundNext

LEMMA InboundSafe == InboundInv => AddressesApart /\ AnsweredByItsSpace
  <1> SUFFICES ASSUME InboundInv PROVE AddressesApart /\ AnsweredByItsSpace
    OBVIOUS
  <1>1. /\ InboundTypes /\ SpacesSound /\ EntriesSound /\ ActiveSound
        /\ AnswersSound
    BY DEF InboundInv
  <1>2. /\ space \in [Spaces -> SpaceRecords] /\ fLocalAddresses \in Seq(Spaces)
        /\ DOMAIN fLocalAddresses = 1..Len(fLocalAddresses)
        /\ \A i \in DOMAIN fLocalAddresses : fLocalAddresses[i] \in Spaces
        /\ fAllocatedAddresses \in Seq({0, 1})
        /\ DOMAIN fAllocatedAddresses = 1..Len(fAllocatedAddresses)
        /\ Len(fAllocatedAddresses) \in Nat
    BY <1>1, LenProperties, ElementOfSeq DEF InboundTypes
  <1>3. InboundTypeOK
    BY <1>1, <1>2
       DEF InboundTypes, InboundTypeOK, SpaceRecords, AnswersSound, Deferred
  <1>4. \A s \in Spaces : space[s].live => space[s].addressHi # 0
    BY <1>1, InboundConstants DEF EntriesSound, Pseudo
  <1>5. \A s, t \in Spaces :
            /\ s # t /\ space[s].live /\ space[t].live
            /\ space[s].addressHi = space[t].addressHi
            => space[s].addressHi = kCSRRegisterSpaceBaseAddressHi
    BY <1>1 DEF EntriesSound, Pseudo
  <1>6. ASSUME NEW i \in DOMAIN Allocations
        PROVE  Allocations[i] = 1 <=>
                 i = 1 \/ \E s \in Spaces : space[s].live /\ space[s].addressHi = i - 1
    <2>1. CASE fAllocatedAddresses = <<>>
      <3>1. Allocations = <<1>>
        BY <2>1 DEF Allocations
      <3> QED
        BY <3>1
    <2>2. CASE fAllocatedAddresses # <<>>
      <3>1. Allocations = fAllocatedAddresses /\ i \in 1..Len(fAllocatedAddresses)
        BY <1>2, <2>2 DEF Allocations
      <3>2. Allocations[i] = 1 /\ i # 1 =>
               \E s \in Spaces : space[s].live /\ space[s].addressHi = i - 1
        BY <1>1, <3>1 DEF EntriesSound, Pseudo
      <3>3. Allocations[1] = 1
        BY <1>1, <2>2, <3>1 DEF EntriesSound
      <3>4. ASSUME NEW s \in Spaces, space[s].live, space[s].addressHi = i - 1
            PROVE  Allocations[i] = 1
        <4>1. Len(fAllocatedAddresses) <= FullLength
          BY <1>1 DEF EntriesSound
        <4>2. i - 1 # kCSRRegisterSpaceBaseAddressHi
          BY <1>2, <3>1, <4>1, InboundConstants
        <4>3. Pseudo(s)
          BY <3>4, <4>2 DEF Pseudo
        <4>4. fAllocatedAddresses[space[s].addressHi + 1] = 1
          BY <1>1, <4>3 DEF EntriesSound
        <4>5. space[s].addressHi + 1 = i
          BY <3>1, <3>4
        <4> QED
          BY <3>1, <4>4, <4>5
      <3> QED
        BY <3>2, <3>3, <3>4
    <2> QED
      BY <2>1, <2>2
  <1>7. \A s \in ToSet(fLocalAddresses) : s \in Spaces /\ space[s].live
    BY <1>1, <1>2 DEF ToSet, ActiveSound
  <1>8. IsInjective(fLocalAddresses)
    BY <1>1 DEF IsInjective, ActiveSound
  <1>9. OwnAddresses
    BY <1>3, <1>4, <1>5, <1>6, <1>7, <1>8 DEF OwnAddresses
  <1>10. ExclusiveApart
    <2> SUFFICES ASSUME NEW s \in ToSet(fLocalAddresses),
                        NEW t \in ToSet(fLocalAddresses),
                        s # t, space[s].fExclusive,
                        space[s].addressHi = space[t].addressHi
                 PROVE  BytesOf(space[s].addressLo, space[s].fLen)
                            \cap BytesOf(space[t].addressLo, space[t].fLen) = {}
      BY DEF ExclusiveApart
    <2>1. PICK i \in DOMAIN fLocalAddresses, j \in DOMAIN fLocalAddresses :
              s = fLocalAddresses[i] /\ t = fLocalAddresses[j]
      BY DEF ToSet
    <2>2. Apart(space[s], space[t])
      BY <1>1, <2>1 DEF ActiveSound
    <2> QED
      BY <2>2 DEF Apart
  <1>11. AnsweredByItsSpace
    BY <1>1 DEF AnswersSound, AnsweredByItsSpace
  <1> QED
    BY <1>9, <1>10, <1>11 DEF AddressesApart

(* Every pseudo address space has an address of its own and every exclusive *)
(* one is apart from all others that are active, in whatever order they are *)
(* created, activated, deactivated and freed (allocatePseudoAddress,        *)
(* freePseudoAddress, allocAddress and freeAddress of the controller), where*)
(* no space reaches beyond the sums of 32 bits.                             *)
THEOREM SpacesApart == Ordinary => (InboundSpec => []AddressesApart)
  <1> SUFFICES ASSUME Ordinary PROVE InboundSpec => []AddressesApart
    OBVIOUS
  <1>1. InboundInv /\ [InboundNext]_inboundVars => InboundInv'
    BY InboundStep
  <1>2. InboundInv => AddressesApart
    BY InboundSafe
  <1> QED
    BY InboundStart, <1>1, <1>2, PTL DEF InboundSpec

(* A response goes to the request it answers, though a client gives it after*)
(* bus resets and new requests, and the space that takes a request has all  *)
(* of its bytes, wherever the request lies, unless its end is beyond 32 bits*)
(* (processRcvPacket, doRead and doWrite, asyncReadResponse with its        *)
(* generation).                                                             *)
THEOREM AnsweredOnce == Ordinary => (InboundSpec => []AnsweredByItsSpace)
  <1> SUFFICES ASSUME Ordinary PROVE InboundSpec => []AnsweredByItsSpace
    OBVIOUS
  <1>1. InboundInv /\ [InboundNext]_inboundVars => InboundInv'
    BY InboundStep
  <1>2. InboundInv => AnsweredByItsSpace
    BY InboundSafe
  <1> QED
    BY InboundStart, <1>1, <1>2, PTL DEF InboundSpec
=============================================================================
