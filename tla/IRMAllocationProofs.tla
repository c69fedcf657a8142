------------------------ MODULE IRMAllocationProofs ------------------------
(***************************************************************************)
(* Proofs about IRMAllocation, for any bandwidth, channels, requests and   *)
(* bounds.  Whatever the races: the registers stay within their ranges,    *)
(* and this node never gives back what another node holds.  Without the    *)
(* races that lose an allocation: what it records is what this node holds, *)
(* and the client is told of no loss that is not one.                      *)
(* BroadcastChannel, the controller's own claim when it is the IRM: its    *)
(* locks give nothing back that another node has claimed.                  *)
(***************************************************************************)
EXTENDS IRMAllocation, BroadcastChannel, FiniteSetTheorems, TLAPS

Labels == {"none", "thread", "end", "freed"} \cup Claims \cup Releases

Types ==
    /\ fBusGeneration \in 1..MaxGeneration
    /\ reg \in Registers /\ held \in Registers /\ others \in Registers
    /\ isAllocated \in BOOLEAN
    /\ resources \in Requests \cup {Nothing}
    /\ fAllocationGeneration \in 0..fBusGeneration \cup {NoGeneration}
    /\ fLock \in Procs \cup {Nobody}
    /\ scan \in {"none", "due", "closed"}
    /\ scan # "none" => fBusGeneration \in Threads
    /\ pc \in [Procs -> Labels]
    /\ want \in [Procs -> Requests \cup {Nothing}]
    /\ generation \in [Procs -> 0..fBusGeneration]
    /\ result \in [Procs -> {"Success", "BusReset", "NotAvailable"}]
    /\ expectedOldVal \in [Procs -> Registers]
    /\ retries \in [Procs -> 1..2]
    /\ forgotten \in Registers

(* Bandwidth and channels change hands, and none appears or disappears.    *)
Conserved ==
    /\ reg.bandwidth + held.bandwidth + others.bandwidth = Bandwidth
    /\ reg.bandwidth >= 0 /\ held.bandwidth >= 0 /\ others.bandwidth >= 0
    /\ reg.channels \cap held.channels = {}
    /\ reg.channels \cap others.channels = {}
    /\ held.channels \cap others.channels = {}

(* One process at a time is between its first transaction and its last.    *)
OneAtATime ==
    /\ \A p \in Procs : pc[p] \notin {"none", "thread"} => fLock = p
    /\ pc[Client] # "thread"
    /\ \A p \in Threads : pc[p] \notin {"freeBandwidth", "freeChannel", "freed"}

(* The client allocates what it has not, and frees what it has.            *)
Freeing == {"freeBandwidth", "freeChannel", "freed"}
ClientKnows ==
    /\ isAllocated => fAllocationGeneration # NoGeneration
    /\ pc[Client] \in Claims \cup {"undoChannel", "end"} => ~isAllocated
    /\ pc[Client] \in Freeing =>
          /\ isAllocated
          /\ want[Client] = resources
          /\ generation[Client] = fAllocationGeneration

(* What a process has claimed and may give back is held.                   *)
ClaimIsHeld(p) ==
    /\ pc[p] = "undoChannel" => result[p] # "Success"
    /\ InGeneration(generation[p]) =>
          /\ pc[p] \in {"claimBandwidth", "undoChannel"} =>
                want[p].channels \subseteq held.channels
          /\ pc[p] = "end" /\ result[p] = "Success" =>
                /\ want[p].channels \subseteq held.channels
                /\ want[p].bandwidth <= held.bandwidth

(* So is what is allocated, until it is freed; a late thread has claimed   *)
(* another channel.                                                        *)
AllocationIsHeld ==
    isAllocated /\ InGeneration(fAllocationGeneration) =>
       /\ pc[Client] \notin {"freeChannel", "freed"} =>
             resources.bandwidth <= held.bandwidth
       /\ pc[Client] # "freed" => resources.channels \subseteq held.channels
       /\ \A p \in Threads :
             pc[p] \in {"claimBandwidth", "undoChannel"} /\ InGeneration(generation[p])
                => want[p].channels \cap resources.channels = {}

Inv == /\ Types
       /\ Conserved
       /\ OneAtATime
       /\ ClientKnows
       /\ \A p \in Procs : ClaimIsHeld(p)
       /\ AllocationIsHeld

-----------------------------------------------------------------------------
LEMMA Constants ==
    /\ Nothing \in Registers /\ All \in Registers
    /\ Requests \cup {Nothing} \subseteq Registers
    /\ \A r \in Requests \cup {Nothing} : r.bandwidth \in 0..Bandwidth
    /\ Bandwidth \in Nat /\ OthersWant \in Registers
    /\ OthersWant.bandwidth \in 0..Bandwidth
    /\ MaxGeneration \in Nat \ {0}
    /\ Client \in Procs /\ Client \notin Threads /\ Threads \subseteq Procs
    /\ Threads \subseteq Nat
BY IRMAssumption, AllocationAssumption
   DEF IRMAssumption, AllocationAssumption, Registers, Nothing, All, Procs,
       Threads, Client

LEMMA InitInv == Init => Inv
<1> SUFFICES ASSUME Init PROVE Inv
    OBVIOUS
<1>1. Types
  <2>1. fBusGeneration \in 1..MaxGeneration /\ fBusGeneration \in Nat
      BY Constants DEF Init, IRMInit
  <2>2. reg \in Registers /\ held \in Registers /\ others \in Registers
      BY Constants DEF Init, IRMInit
  <2>3. generation \in [Procs -> 0..fBusGeneration]
      BY <2>1 DEF Init
  <2>4. retries \in [Procs -> 1..2] /\ want \in [Procs -> Requests \cup {Nothing}]
      BY Constants DEF Init
  <2>5. expectedOldVal \in [Procs -> Registers]
      BY Constants DEF Init
  <2>6. pc \in [Procs -> Labels] /\ fLock \in Procs \cup {Nobody}
      BY Constants DEF Init, Labels
  <2> QED
      BY <2>1, <2>2, <2>3, <2>4, <2>5, <2>6, Constants DEF Init, Types
<1>2. Conserved
    BY Constants DEF Init, IRMInit, Conserved, Nothing, All, Registers
<1>3. OneAtATime /\ ClientKnows
    BY Constants DEF Init, OneAtATime, ClientKnows, Freeing, Claims
<1>4. AllocationIsHeld /\ \A p \in Procs : ClaimIsHeld(p)
    BY Constants DEF Init, AllocationIsHeld, ClaimIsHeld
<1> QED
    BY <1>1, <1>2, <1>3, <1>4 DEF Inv

-----------------------------------------------------------------------------
(* A swap of each kind of register: what leaves it is held.                *)
LEMMA SwapBandwidth ==
    ASSUME reg \in Registers, held \in Registers, NEW new \in Int,
           Swap("bandwidth", new)
    PROVE  /\ reg' \in Registers /\ held' \in Registers
           /\ reg'.bandwidth = new /\ reg'.channels = reg.channels
           /\ held'.bandwidth = held.bandwidth + reg.bandwidth - new
           /\ held'.channels = held.channels
BY DEF Swap, Balance, Registers

LEMMA SwapChannels ==
    ASSUME reg \in Registers, held \in Registers, NEW new \in SUBSET Channels,
           Swap("channels", new)
    PROVE  /\ reg' \in Registers /\ held' \in Registers
           /\ reg'.channels = new /\ reg'.bandwidth = reg.bandwidth
           /\ held'.channels = (held.channels \cup (reg.channels \ new))
                                  \ (new \ reg.channels)
           /\ held'.bandwidth = held.bandwidth
<1>1. held' = [held EXCEPT !["channels"] =
                  (held.channels \cup (reg.channels \ new)) \ (new \ reg.channels)]
    BY DEF Swap, Balance, Registers
<1> QED
    BY <1>1 DEF Swap, Registers

-----------------------------------------------------------------------------
(* How a try of a transaction may end.                                     *)
Statuses == {"Success", "BusReset", "NotAvailable"}

TriesAgain(p) == UNCHANGED <<irmVars, pc, result, forgotten>>
Fails(p) == \E status \in Statuses \ {"Success"} : Ends(p, status)
HasNothingToDo(p) == /\ want[p][Register(pc[p])] = Nothing[Register(pc[p])]
                     /\ Ends(p, "Success")
Succeeds(p, r) ==
    /\ InGeneration(generation[p])
    /\ want[p][r] # Nothing[r]
    /\ Possible(pc[p], want[p], reg[r])
    /\ Swap(r, newVal(pc[p], want[p], reg[r]))
    /\ Leave(p, "Success")
    /\ UNCHANGED forgotten

(* What is forgotten stays in its range.                                   *)
LEMMA ForgottenTypes ==
    ASSUME Types, NEW p \in Procs, pc[p] \in Claims \cup Releases, NEW status,
           Ends(p, status)
    PROVE  forgotten' \in Registers
<1>1. /\ want[p] \in Registers /\ forgotten \in Registers
    BY Constants DEF Types
<1>2. CASE forgotten' = forgotten
    BY <1>1, <1>2
<1>3. CASE /\ forgotten' = [forgotten EXCEPT ![Register(pc[p])] =
                               newVal(pc[p], want[p], forgotten[Register(pc[p])])]
           /\ pc[p] \in Releases
  <2>1. CASE pc[p] = "freeBandwidth"
    <3>1. forgotten' = [forgotten EXCEPT !["bandwidth"] =
                           forgotten.bandwidth + want[p].bandwidth]
        BY <1>3, <2>1 DEF Register, newVal
    <3> QED
        BY <1>1, <3>1 DEF Registers
  <2>2. CASE pc[p] \in {"undoChannel", "freeChannel"}
    <3>1. forgotten' = [forgotten EXCEPT !["channels"] =
                           forgotten.channels \cup want[p].channels]
        BY <1>3, <2>2 DEF Register, newVal
    <3> QED
        BY <1>1, <3>1 DEF Registers
  <2> QED
      BY <1>3, <2>1, <2>2 DEF Releases
<1> QED
    BY <1>2, <1>3 DEF Ends

LEMMA LeaveTypes ==
    ASSUME Types, NEW p \in Procs, pc[p] \in Claims \cup Releases,
           NEW status \in Statuses, Leave(p, status)
    PROVE  /\ pc' = [pc EXCEPT ![p] = pc'[p]]
           /\ result' = [result EXCEPT ![p] = result'[p]]
           /\ pc'[p] \in Labels \ {"none", "thread"} /\ result'[p] \in Statuses
           /\ expectedOldVal' \in [Procs -> Registers]
           /\ retries' \in [Procs -> 1..2]
<1> DEFINE GoesTo(label, s) == label \in Labels \ {"none", "thread"} /\ s \in Statuses
<1>1. ASSUME NEW label, NEW s, GoesTo(label, s), Go(p, label, s)
      PROVE  /\ pc' = [pc EXCEPT ![p] = pc'[p]]
             /\ result' = [result EXCEPT ![p] = result'[p]]
             /\ pc'[p] \in Labels \ {"none", "thread"} /\ result'[p] \in Statuses
             /\ expectedOldVal' \in [Procs -> Registers]
             /\ retries' \in [Procs -> 1..2]
    BY <1>1, Constants DEF Go, Types
<1>2. result[p] \in Statuses
    BY DEF Types, Statuses
<1>3. \E label, s : GoesTo(label, s) /\ Go(p, label, s)
    BY <1>2 DEF Leave, Labels, Claims, Releases, Statuses
<1> QED
    BY <1>1, <1>3

LEMMA TransactEnds ==
    ASSUME Types, NEW p \in Procs, Transact(p)
    PROVE  /\ TriesAgain(p) \/ Fails(p) \/ HasNothingToDo(p)
                 \/ Succeeds(p, Register(pc[p]))
           /\ expectedOldVal' \in [Procs -> Registers]
           /\ retries' \in [Procs -> 1..2]
           /\ forgotten' \in Registers
<1> DEFINE r == Register(pc[p])
           old == expectedOldVal[p][r]
<1>0. /\ pc[p] \in Claims \cup Releases /\ "Success" \in Statuses
      /\ forgotten \in Registers
    BY DEF Transact, Statuses, Types
<1>1. CASE Ends(p, "Success") /\ want[p][r] = Nothing[r]
  <2>1. Leave(p, "Success")
      BY <1>1 DEF Ends
  <2> QED
      BY <1>0, <1>1, <2>1, LeaveTypes, ForgottenTypes DEF HasNothingToDo
<1>2. CASE \E status \in Statuses \ {"Success"} : Ends(p, status)
  <2>1. PICK status \in Statuses \ {"Success"} : Ends(p, status)
      BY <1>2
  <2>2. Leave(p, status)
      BY <2>1 DEF Ends
  <2>3. Fails(p)
      BY <1>2 DEF Fails
  <2>4. forgotten' \in Registers
      BY <1>0, <2>1, ForgottenTypes
  <2> QED
      BY <1>0, <2>2, <2>3, <2>4, LeaveTypes
<1>3. CASE /\ InGeneration(generation[p]) /\ want[p][r] # Nothing[r]
           /\ Possible(pc[p], want[p], old)
           /\ reg[r] = old
           /\ Swap(r, newVal(pc[p], want[p], old))
           /\ Leave(p, "Success")
           /\ UNCHANGED forgotten
    BY <1>0, <1>3, LeaveTypes DEF Succeeds
<1>4. CASE /\ retries' = [retries EXCEPT ![p] = 1]
           /\ expectedOldVal' = [expectedOldVal EXCEPT ![p] = reg]
           /\ UNCHANGED <<irmVars, pc, result, forgotten>>
    BY <1>0, <1>4 DEF TriesAgain, Types
<1> HIDE DEF r, old
<1>5. \/ Ends(p, "Success") /\ want[p][r] = Nothing[r]
      \/ Ends(p, "BusReset")
      \/ Ends(p, "NotAvailable")
      \/ /\ InGeneration(generation[p]) /\ want[p][r] # Nothing[r]
         /\ Possible(pc[p], want[p], old)
         /\ reg[r] = old
         /\ Swap(r, newVal(pc[p], want[p], old))
         /\ Leave(p, "Success")
         /\ UNCHANGED forgotten
      \/ /\ retries' = [retries EXCEPT ![p] = 1]
         /\ expectedOldVal' = [expectedOldVal EXCEPT ![p] = reg]
         /\ UNCHANGED <<irmVars, pc, result, forgotten>>
    BY DEF Transact, r, old
<1> QED
    BY <1>1, <1>2, <1>3, <1>4, <1>5 DEF Statuses

-----------------------------------------------------------------------------
(* What moves between the registers and this node in a transaction.        *)
LEMMA Moves ==
    ASSUME Types, NEW p \in Procs, pc[p] \in Claims \cup Releases,
           Succeeds(p, Register(pc[p]))
    PROVE  /\ reg' \in Registers /\ held' \in Registers
           /\ pc[p] \in {"claimBandwidth", "freeBandwidth"} =>
                 reg'.channels = reg.channels /\ held'.channels = held.channels
           /\ pc[p] \in {"claimChannel", "undoChannel", "freeChannel"} =>
                 reg'.bandwidth = reg.bandwidth /\ held'.bandwidth = held.bandwidth
           /\ pc[p] = "claimBandwidth" =>
                 /\ want[p].bandwidth <= reg.bandwidth
                 /\ reg'.bandwidth = reg.bandwidth - want[p].bandwidth
                 /\ held'.bandwidth = held.bandwidth + want[p].bandwidth
           /\ pc[p] = "freeBandwidth" =>
                 /\ reg'.bandwidth = reg.bandwidth + want[p].bandwidth
                 /\ held'.bandwidth = held.bandwidth - want[p].bandwidth
           /\ pc[p] = "claimChannel" =>
                 /\ want[p].channels \subseteq reg.channels
                 /\ reg'.channels = reg.channels \ want[p].channels
                 /\ held'.channels = held.channels \cup want[p].channels
           /\ pc[p] \in {"undoChannel", "freeChannel"} =>
                 /\ reg'.channels = reg.channels \cup want[p].channels
                 /\ held'.channels = held.channels \ want[p].channels
<1>1. /\ reg \in Registers /\ held \in Registers /\ want[p] \in Registers
      /\ reg.bandwidth \in Int /\ held.bandwidth \in Int /\ want[p].bandwidth \in Int
      /\ reg.channels \in SUBSET Channels /\ want[p].channels \in SUBSET Channels
    BY Constants DEF Types, Registers
<1>2. CASE pc[p] = "claimBandwidth"
  <2>1. Swap("bandwidth", reg.bandwidth - want[p].bandwidth)
      BY <1>2 DEF Succeeds, Register, newVal
  <2>2. want[p].bandwidth <= reg.bandwidth
      BY <1>2 DEF Succeeds, Register, Possible
  <2> QED
      BY <1>1, <1>2, <2>1, <2>2, SwapBandwidth
<1>3. CASE pc[p] = "freeBandwidth"
  <2>1. Swap("bandwidth", reg.bandwidth + want[p].bandwidth)
      BY <1>3 DEF Succeeds, Register, newVal
  <2>2. /\ reg' \in Registers /\ held' \in Registers
        /\ reg'.bandwidth = reg.bandwidth + want[p].bandwidth
        /\ held'.bandwidth =
              held.bandwidth + reg.bandwidth - (reg.bandwidth + want[p].bandwidth)
        /\ reg'.channels = reg.channels /\ held'.channels = held.channels
      BY <1>1, <2>1, SwapBandwidth
  <2>3. held'.bandwidth = held.bandwidth - want[p].bandwidth
      BY <1>1, <2>2
  <2> QED
      BY <1>3, <2>2, <2>3
<1>4. CASE pc[p] = "claimChannel"
  <2>1. Swap("channels", reg.channels \ want[p].channels)
      BY <1>4 DEF Succeeds, Register, newVal
  <2>2. want[p].channels \subseteq reg.channels
      BY <1>4 DEF Succeeds, Register, Possible
  <2> QED
      BY <1>1, <1>4, <2>1, <2>2, SwapChannels
<1>5. CASE pc[p] \in {"undoChannel", "freeChannel"}
  <2>1. Swap("channels", reg.channels \cup want[p].channels)
      BY <1>5 DEF Succeeds, Register, newVal
  <2>2. want[p].channels \cap reg.channels = {}
      BY <1>5 DEF Succeeds, Register, Possible
  <2> QED
      BY <1>1, <1>5, <2>1, <2>2, SwapChannels
<1> QED
    BY <1>2, <1>3, <1>4, <1>5 DEF Claims, Releases

(* Where a process goes from each transaction.                             *)
LEMMA LeavesFor ==
    ASSUME Types, NEW p \in Procs, pc[p] \in Claims \cup Releases,
           NEW status \in Statuses, Leave(p, status)
    PROVE  /\ pc[p] = "claimChannel" =>
                 /\ pc'[p] = IF status = "Success" THEN "claimBandwidth" ELSE "end"
                 /\ result'[p] = status
           /\ pc[p] = "claimBandwidth" =>
                 /\ pc'[p] = IF status = "Success" THEN "end" ELSE "undoChannel"
                 /\ result'[p] = status
           /\ pc[p] = "undoChannel" => pc'[p] = "end" /\ result'[p] = result[p]
           /\ pc[p] = "freeBandwidth" => pc'[p] = "freeChannel"
           /\ pc[p] = "freeChannel" => pc'[p] = "freed"
BY DEF Leave, Go, Types, Claims, Releases

(* What a transaction gives back is held.                                  *)
LEMMA GivesBackItsOwn ==
    ASSUME Inv, NEW p \in Procs, pc[p] \in Releases, InGeneration(generation[p])
    PROVE  /\ pc[p] = "freeBandwidth" => want[p].bandwidth <= held.bandwidth
           /\ pc[p] \in {"undoChannel", "freeChannel"} =>
                 want[p].channels \subseteq held.channels
<1>1. CASE pc[p] = "undoChannel"
    BY <1>1 DEF Inv, ClaimIsHeld
<1>2. CASE pc[p] \in {"freeBandwidth", "freeChannel"}
  <2>1. p = Client
      BY <1>2 DEF Inv, OneAtATime, Procs
  <2>2. isAllocated /\ want[p] = resources /\ InGeneration(fAllocationGeneration)
      BY <1>2, <2>1 DEF Inv, ClientKnows, Freeing
  <2> QED
      BY <1>2, <2>1, <2>2 DEF Inv, AllocationIsHeld
<1> QED
    BY <1>1, <1>2 DEF Releases

LEMMA TransactInv ==
    ASSUME Inv, NEW p \in Procs, Transact(p)
    PROVE  Inv'
<1>1. /\ pc[p] \in Claims \cup Releases
      /\ UNCHANGED <<allocVars, fLock, objVars, scan, callVars>>
    BY DEF Transact
<1>2. Types
    BY DEF Inv
<1>3. fLock = p /\ \A q \in Procs \ {p} : pc[q] \in {"none", "thread"}
    BY <1>1, Constants DEF Inv, OneAtATime, Claims, Releases
<1>4. /\ expectedOldVal' \in [Procs -> Registers]
      /\ retries' \in [Procs -> 1..2]
      /\ forgotten' \in Registers
      /\ TriesAgain(p) \/ Fails(p) \/ HasNothingToDo(p) \/ Succeeds(p, Register(pc[p]))
    BY <1>2, TransactEnds
<1>5. TriesAgain(p) \/ \E status \in Statuses : Leave(p, status)
    BY <1>4 DEF Ends, Fails, HasNothingToDo, Succeeds, Statuses
<1>6. /\ pc' = [pc EXCEPT ![p] = pc'[p]] /\ result' = [result EXCEPT ![p] = result'[p]]
      /\ pc'[p] \in Labels \ {"none", "thread"} /\ result'[p] \in Statuses
  <2>1. CASE TriesAgain(p)
      BY <1>1, <1>2, <2>1 DEF TriesAgain, Types, Labels, Claims, Releases, Statuses
  <2>2. CASE \E status \in Statuses : Leave(p, status)
      BY <1>1, <1>2, <2>2, LeaveTypes
  <2> QED
      BY <1>5, <2>1, <2>2
<1>7. pc'[p] \in Freeing <=> pc[p] \in Freeing
  <2>1. CASE TriesAgain(p)
      BY <2>1 DEF TriesAgain
  <2>2. CASE \E status \in Statuses : Leave(p, status)
      BY <1>1, <1>2, <2>2, LeavesFor DEF Claims, Releases, Freeing
  <2> QED
      BY <1>5, <2>1, <2>2
<1>8. /\ fBusGeneration' = fBusGeneration /\ others' = others
      /\ reg' \in Registers /\ held' \in Registers
  <2>1. CASE UNCHANGED irmVars
      BY <1>2, <2>1 DEF irmVars, Types
  <2>2. CASE Succeeds(p, Register(pc[p]))
      BY <1>1, <1>2, <2>2, Moves DEF Succeeds, Swap
  <2> QED
      BY <1>4, <2>1, <2>2 DEF TriesAgain, Ends, Fails, HasNothingToDo
<1>9. Types'
    BY <1>1, <1>2, <1>4, <1>6, <1>8 DEF Types, allocVars, callVars, Statuses
<1>10. OneAtATime'
    BY <1>1, <1>3, <1>6, <1>7, Constants
       DEF Inv, OneAtATime, Types, Freeing
<1>11. ClientKnows'
  <2>1. CASE p = Client
      BY <1>1, <1>6, <1>7, <2>1
         DEF Inv, ClientKnows, Types, Freeing, Claims, Releases, Labels, allocVars, callVars
  <2>2. CASE p # Client
      BY <1>1, <1>3, <1>6, <2>2, Constants
         DEF Inv, ClientKnows, Types, Freeing, Claims, allocVars, callVars
  <2> QED
      BY <2>1, <2>2
<1>12. /\ want[p] \in Registers /\ want[p].bandwidth \in Nat
       /\ want[p].channels \subseteq Channels
       /\ reg.bandwidth \in Int /\ held.bandwidth \in Int /\ others.bandwidth \in Int
    BY <1>2, Constants DEF Types, Registers
<1>13. Conserved'
  <2>1. CASE UNCHANGED irmVars
      BY <2>1 DEF Inv, Conserved, irmVars
  <2>2. CASE Succeeds(p, Register(pc[p]))
    <3>1. InGeneration(generation[p])
        BY <2>2 DEF Succeeds
    <3>2. Conserved
        BY DEF Inv
    <3>3. CASE pc[p] = "claimBandwidth"
        BY <1>1, <1>2, <1>8, <1>12, <2>2, <3>2, <3>3, Moves DEF Conserved
    <3>4. CASE pc[p] = "freeBandwidth"
      <4>1. want[p].bandwidth <= held.bandwidth
          BY <3>1, <3>4, GivesBackItsOwn DEF Releases
      <4> QED
          BY <1>1, <1>2, <1>8, <1>12, <2>2, <3>2, <3>4, <4>1, Moves DEF Conserved
    <3>5. CASE pc[p] = "claimChannel"
        BY <1>1, <1>2, <1>8, <2>2, <3>2, <3>5, Moves DEF Conserved
    <3>6. CASE pc[p] \in {"undoChannel", "freeChannel"}
      <4>1. want[p].channels \subseteq held.channels
          BY <3>1, <3>6, GivesBackItsOwn DEF Releases
      <4> QED
          BY <1>1, <1>2, <1>8, <2>2, <3>2, <3>6, <4>1, Moves DEF Conserved
    <3> QED
        BY <1>1, <3>3, <3>4, <3>5, <3>6 DEF Claims, Releases
  <2> QED
      BY <1>4, <2>1, <2>2 DEF TriesAgain, Ends, Fails, HasNothingToDo
<1>14. /\ want' = want /\ generation' = generation /\ resources' = resources
       /\ isAllocated' = isAllocated /\ fAllocationGeneration' = fAllocationGeneration
       /\ \A q \in Procs \ {p} : pc'[q] = pc[q]
       /\ \A g : InGeneration(g)' <=> InGeneration(g)
    BY <1>1, <1>2, <1>6, <1>8 DEF callVars, allocVars, Types, InGeneration
<1>15. ClaimIsHeld(p)'
  <2>1. ClaimIsHeld(p) /\ 0 <= held.bandwidth
      BY DEF Inv, Conserved
  <2>2. CASE TriesAgain(p)
      BY <1>14, <2>1, <2>2 DEF TriesAgain, irmVars, ClaimIsHeld
  <2>3. CASE Fails(p)
    <3>1. PICK status \in Statuses \ {"Success"} : Leave(p, status) /\ UNCHANGED irmVars
        BY <2>3 DEF Fails, Ends
    <3> QED
        BY <1>1, <1>2, <1>14, <2>1, <3>1, LeavesFor
           DEF ClaimIsHeld, irmVars, Claims, Releases
  <2>4. CASE HasNothingToDo(p)
    <3>1. pc[p] = "claimChannel" => want[p].channels = {}
        BY <2>4 DEF HasNothingToDo, Register, Nothing
    <3>2. pc[p] = "claimBandwidth" => want[p].bandwidth = 0
        BY <2>4 DEF HasNothingToDo, Register, Nothing
    <3>3. Leave(p, "Success") /\ held' = held /\ "Success" \in Statuses
        BY <2>4 DEF HasNothingToDo, Ends, irmVars, Statuses
    <3> QED
        BY <1>1, <1>2, <1>14, <2>1, <3>1, <3>2, <3>3, LeavesFor
           DEF ClaimIsHeld, Claims, Releases
  <2>5. CASE Succeeds(p, Register(pc[p]))
    <3>1. Leave(p, "Success") /\ "Success" \in Statuses
        BY <2>5 DEF Succeeds, Statuses
    <3>2. CASE pc[p] = "claimChannel"
        BY <1>1, <1>2, <1>14, <2>5, <3>1, <3>2, LeavesFor, Moves DEF ClaimIsHeld
    <3>3. CASE pc[p] = "claimBandwidth"
        BY <1>1, <1>2, <1>12, <1>14, <2>1, <2>5, <3>1, <3>3, LeavesFor, Moves
           DEF ClaimIsHeld
    <3>4. CASE pc[p] \in Releases
        BY <1>1, <1>2, <1>14, <2>1, <3>1, <3>4, LeavesFor DEF ClaimIsHeld, Releases
    <3> QED
        BY <1>1, <3>2, <3>3, <3>4 DEF Claims
  <2> QED
      BY <1>4, <2>2, <2>3, <2>4, <2>5
<1>16. \A q \in Procs : ClaimIsHeld(q)'
    BY <1>3, <1>14, <1>15 DEF ClaimIsHeld
<1>17. AllocationIsHeld'
  <2> SUFFICES ASSUME isAllocated, InGeneration(fAllocationGeneration)
               PROVE  AllocationIsHeld'
      BY <1>14 DEF AllocationIsHeld
  <2>1. CASE p = Client
    <3>1. pc[p] \in {"freeBandwidth", "freeChannel"} /\ want[p] = resources
        BY <1>1, <2>1 DEF Inv, ClientKnows, Freeing, Claims, Releases
    <3>2. \A q \in Threads : pc'[q] \notin {"claimBandwidth", "undoChannel"}
        BY <1>3, <1>14, <2>1, Constants
    <3>3. CASE pc[p] = "freeChannel"
      <4>1. pc'[p] \in {"freeChannel", "freed"}
          BY <1>1, <1>2, <1>5, <3>3, LeavesFor DEF TriesAgain
      <4>2. pc'[p] = "freed" \/ held' = held
          BY <1>1, <1>2, <1>4, <3>3, LeavesFor
             DEF TriesAgain, Ends, Fails, HasNothingToDo, Succeeds, irmVars, Statuses
      <4> QED
          BY <1>14, <2>1, <3>2, <3>3, <4>1, <4>2 DEF Inv, AllocationIsHeld
    <3>4. CASE pc[p] = "freeBandwidth"
      <4>1. pc'[p] = "freeChannel" \/ (held' = held /\ pc'[p] = pc[p])
        <5>1. CASE TriesAgain(p)
            BY <5>1 DEF TriesAgain, irmVars
        <5>2. CASE \E status \in Statuses : Leave(p, status)
            BY <1>1, <1>2, <3>4, <5>2, LeavesFor
        <5> QED
            BY <1>5, <5>1, <5>2
      <4>2. held'.channels = held.channels
        <5>1. CASE UNCHANGED irmVars
            BY <5>1 DEF irmVars
        <5>2. CASE Succeeds(p, Register(pc[p]))
            BY <1>1, <1>2, <3>4, <5>2, Moves
        <5> QED
            BY <1>4, <5>1, <5>2 DEF TriesAgain, Ends, Fails, HasNothingToDo
      <4> QED
          BY <1>14, <2>1, <3>2, <3>4, <4>1, <4>2 DEF Inv, AllocationIsHeld
    <3> QED
        BY <3>1, <3>3, <3>4
  <2>2. CASE p # Client
    <3>1. /\ p \in Threads /\ pc'[Client] = pc[Client] /\ pc[Client] = "none"
          /\ pc[p] \notin Freeing
        BY <1>3, <1>14, <2>2, Constants DEF Inv, OneAtATime, Procs, Freeing
    <3>2. resources.bandwidth <= held.bandwidth /\ resources.channels \subseteq held.channels
        BY <3>1 DEF Inv, AllocationIsHeld
    <3>3. /\ resources.bandwidth \in Int /\ resources.channels \subseteq Channels
        BY <1>2, Constants DEF Types, Registers
    <3>4. \A q \in Threads \ {p} : pc'[q] \notin {"claimBandwidth", "undoChannel"}
        BY <1>3, <1>14, Constants
    <3>5. CASE TriesAgain(p) \/ Fails(p) \/ HasNothingToDo(p)
      <4>0. UNCHANGED irmVars
          BY <3>5 DEF TriesAgain, Ends, Fails, HasNothingToDo
      <4>1. pc'[p] \in {"claimBandwidth", "undoChannel"} =>
               pc[p] \in {"claimBandwidth", "undoChannel"} \/ want[p].channels = {}
        <5>1. CASE TriesAgain(p)
            BY <5>1 DEF TriesAgain
        <5>2. CASE Fails(p)
            BY <1>1, <1>2, <3>1, <5>2, LeavesFor DEF Fails, Ends, Claims, Releases, Freeing
        <5>3. CASE HasNothingToDo(p)
          <6>1. pc[p] = "claimChannel" => want[p].channels = {}
              BY <5>3 DEF HasNothingToDo, Register, Nothing
          <6>2. Leave(p, "Success") /\ "Success" \in Statuses
              BY <5>3 DEF HasNothingToDo, Ends, Statuses
          <6> QED
              BY <1>1, <1>2, <3>1, <6>1, <6>2, LeavesFor DEF Claims, Releases, Freeing
        <5> QED
            BY <3>5, <5>1, <5>2, <5>3
      <4>2. \A q \in Threads : pc'[q] \in {"claimBandwidth", "undoChannel"} /\ InGeneration(generation[q])
               => want[q].channels \cap resources.channels = {}
          BY <3>4, <4>1 DEF Inv, AllocationIsHeld
      <4> QED
          BY <1>14, <3>1, <3>2, <4>0, <4>2 DEF AllocationIsHeld, irmVars
    <3>6. CASE Succeeds(p, Register(pc[p]))
      <4>1. Leave(p, "Success") /\ "Success" \in Statuses /\ InGeneration(generation[p])
          BY <3>6 DEF Succeeds, Statuses
      <4>2. CASE pc[p] = "claimChannel"
        <5>1. want[p].channels \cap resources.channels = {}
            BY <1>1, <1>2, <3>2, <3>6, <4>2, Moves DEF Inv, Conserved
        <5>2. /\ resources.bandwidth <= held'.bandwidth
              /\ resources.channels \subseteq held'.channels
            BY <1>1, <1>2, <3>2, <3>6, <4>2, Moves
        <5> QED
            BY <1>14, <3>4, <5>1, <5>2 DEF AllocationIsHeld
      <4>3. CASE pc[p] = "claimBandwidth"
        <5>1. pc'[p] = "end"
            BY <1>1, <1>2, <4>1, <4>3, LeavesFor
        <5>2. /\ resources.bandwidth <= held'.bandwidth
              /\ resources.channels \subseteq held'.channels
            BY <1>1, <1>2, <1>12, <3>2, <3>3, <3>6, <4>3, Moves
        <5> QED
            BY <1>14, <3>4, <5>1, <5>2 DEF AllocationIsHeld
      <4>4. CASE pc[p] = "undoChannel"
        <5>1. pc'[p] = "end"
            BY <1>1, <1>2, <4>1, <4>4, LeavesFor
        <5>2. want[p].channels \cap resources.channels = {}
            BY <3>1, <4>1, <4>4 DEF Inv, AllocationIsHeld
        <5>3. /\ resources.bandwidth <= held'.bandwidth
              /\ resources.channels \subseteq held'.channels
            BY <1>1, <1>2, <3>2, <3>6, <4>4, <5>2, Moves
        <5> QED
            BY <1>14, <3>4, <5>1, <5>3 DEF AllocationIsHeld
      <4> QED
          BY <1>1, <3>1, <4>2, <4>3, <4>4 DEF Claims, Releases, Freeing
    <3> QED
        BY <1>4, <3>5, <3>6
  <2> QED
      BY <2>1, <2>2
<1> QED
    BY <1>9, <1>10, <1>11, <1>13, <1>16, <1>17 DEF Inv

-----------------------------------------------------------------------------
(* The other actions.                                                      *)

(* The facts that an action leaves alone.                                  *)
LEMMA Quiescent ==
    ASSUME Inv, fLock = Nobody
    PROVE  \A p \in Procs : pc[p] \in {"none", "thread"}
BY DEF Inv, OneAtATime, Nobody, Procs, Threads, Client

LEMMA GoFrom ==
    ASSUME Types, NEW p \in Procs, NEW label \in Labels, NEW status \in Statuses,
           Go(p, label, status)
    PROVE  /\ pc' = [pc EXCEPT ![p] = label]
           /\ result' = [result EXCEPT ![p] = status]
           /\ pc' \in [Procs -> Labels] /\ result' \in [Procs -> Statuses]
           /\ expectedOldVal' \in [Procs -> Registers]
           /\ retries' \in [Procs -> 1..2]
BY Constants DEF Go, Types, Statuses

LEMMA AllocateInv == ASSUME Inv, allocateIsochResources PROVE Inv'
<1>1. Types /\ ~isAllocated /\ fLock = Nobody /\ fLock' = Client
    BY DEF Inv, allocateIsochResources, Lock
<1>2. /\ pc' = [pc EXCEPT ![Client] = "claimChannel"]
      /\ pc' \in [Procs -> Labels] /\ result' \in [Procs -> Statuses]
      /\ expectedOldVal' \in [Procs -> Registers]
      /\ retries' \in [Procs -> 1..2]
    BY <1>1, GoFrom, Constants DEF allocateIsochResources, Labels, Claims, Statuses
<1>3. \A p \in Procs \ {Client} : pc'[p] \in {"none", "thread"}
    BY <1>1, <1>2, Quiescent DEF Types
<1>4. Types'
    BY <1>1, <1>2, Constants
       DEF Types, allocateIsochResources, irmVars, objVars, Statuses
<1>5. OneAtATime' /\ ClientKnows' /\ AllocationIsHeld'
    BY <1>1, <1>2, <1>3, Constants
       DEF Types, OneAtATime, ClientKnows, AllocationIsHeld, Freeing, Claims,
           allocateIsochResources
<1>6. Conserved' /\ \A p \in Procs : ClaimIsHeld(p)'
    BY <1>1, <1>2, <1>3
       DEF Inv, Types, Conserved, ClaimIsHeld, allocateIsochResources, irmVars
<1> QED
    BY <1>4, <1>5, <1>6 DEF Inv

LEMMA AllocatedInv == ASSUME Inv, Allocated PROVE Inv'
<1>1. /\ Types /\ pc[Client] = "end" /\ fLock' = Nobody
      /\ UNCHANGED <<irmVars, scan, callVars, forgotten>>
    BY DEF Inv, Allocated, Unlock
<1>2. /\ pc' = [pc EXCEPT ![Client] = "none"]
      /\ pc' \in [Procs -> Labels] /\ result' \in [Procs -> Statuses]
      /\ expectedOldVal' \in [Procs -> Registers]
      /\ retries' \in [Procs -> 1..2]
    BY <1>1, GoFrom, Constants DEF Allocated, Labels, Statuses
<1>3. \A p \in Procs : pc'[p] \in {"none", "thread"}
    BY <1>1, <1>2, Constants DEF Inv, Types, OneAtATime
<1>4. \/ /\ result[Client] = "Success" /\ isAllocated' = TRUE
         /\ resources' = want[Client]
         /\ fAllocationGeneration' = generation[Client]
      \/ ~isAllocated' /\ UNCHANGED allocVars
    BY <1>1 DEF Inv, Allocated, ClientKnows, allocVars
<1>5. /\ isAllocated' \in BOOLEAN /\ resources' \in Requests \cup {Nothing}
      /\ fAllocationGeneration' \in 0..fBusGeneration \cup {NoGeneration}
      /\ isAllocated' => fAllocationGeneration' # NoGeneration
  <2>1. /\ generation[Client] \in 0..fBusGeneration
        /\ generation[Client] # NoGeneration
        /\ want[Client] \in Requests \cup {Nothing}
      BY <1>1, Constants DEF Types, NoGeneration
  <2> QED
      BY <1>1, <1>4, <2>1 DEF Types, allocVars
<1>6. Types'
    BY <1>1, <1>2, <1>5, Constants
       DEF Types, irmVars, callVars, Statuses
<1>7. OneAtATime' /\ ClientKnows' /\ \A p \in Procs : ClaimIsHeld(p)'
    BY <1>1, <1>2, <1>3, <1>5, Constants
       DEF Inv, Types, OneAtATime, ClientKnows, ClaimIsHeld, Freeing, Claims
<1>8. Conserved'
    BY <1>1 DEF Inv, Conserved, irmVars
<1>9. AllocationIsHeld'
    BY <1>1, <1>3, <1>4, Constants
       DEF Inv, AllocationIsHeld, ClaimIsHeld, InGeneration, irmVars
<1> QED
    BY <1>6, <1>7, <1>8, <1>9 DEF Inv

LEMMA DeallocateInv == ASSUME Inv, deallocateIsochResources PROVE Inv'
<1>1. /\ Types /\ isAllocated /\ fLock = Nobody /\ fLock' = Client
      /\ pc[Client] = "none" /\ fAllocationGeneration \in Int
      /\ UNCHANGED <<irmVars, allocVars, objVars, scan, forgotten>>
    BY DEF Inv, Types, deallocateIsochResources, Lock, ClientMayCall, NoGeneration
<1>2. /\ pc' = [pc EXCEPT ![Client] = "freeBandwidth"]
      /\ pc' \in [Procs -> Labels] /\ result' \in [Procs -> Statuses]
      /\ expectedOldVal' \in [Procs -> Registers]
      /\ retries' \in [Procs -> 1..2]
    BY <1>1, GoFrom, Constants
       DEF deallocateIsochResources, Labels, Releases, Statuses
<1>3. \A p \in Procs \ {Client} : pc'[p] \in {"none", "thread"}
    BY <1>1, <1>2, Quiescent DEF Types
<1>4. Types'
    BY <1>1, <1>2, Constants
       DEF Inv, Types, ClientKnows, deallocateIsochResources, irmVars, allocVars,
           objVars, Statuses
<1>5. OneAtATime' /\ ClientKnows'
    BY <1>1, <1>2, <1>3, Constants
       DEF Inv, Types, OneAtATime, ClientKnows, Freeing, Claims, allocVars,
           deallocateIsochResources
<1>6. Conserved' /\ \A p \in Procs : ClaimIsHeld(p)'
    BY <1>1, <1>2, <1>3
       DEF Inv, Types, Conserved, ClaimIsHeld, irmVars
<1>7. AllocationIsHeld'
    BY <1>1, <1>2, <1>3, Constants
       DEF Inv, Types, AllocationIsHeld, InGeneration, irmVars, allocVars
<1> QED
    BY <1>4, <1>5, <1>6, <1>7 DEF Inv

(* Deallocated and the end of a thread leave nothing under way.            *)
LEMMA DeallocatedInv == ASSUME Inv, Deallocated PROVE Inv'
<1>1. /\ Types /\ pc[Client] = "freed" /\ fLock' = Nobody /\ ~isAllocated'
      /\ resources' = Nothing /\ fAllocationGeneration' = NoGeneration
      /\ UNCHANGED <<irmVars, scan, callVars, forgotten>>
    BY DEF Inv, Deallocated, Unlock
<1>2. /\ pc' = [pc EXCEPT ![Client] = "none"]
      /\ pc' \in [Procs -> Labels] /\ result' \in [Procs -> Statuses]
      /\ expectedOldVal' \in [Procs -> Registers]
      /\ retries' \in [Procs -> 1..2]
    BY <1>1, GoFrom, Constants DEF Deallocated, Labels, Statuses
<1>3. \A p \in Procs : pc'[p] \in {"none", "thread"}
    BY <1>1, <1>2, Constants DEF Inv, Types, OneAtATime
<1>4. Types'
    BY <1>1, <1>2, Constants DEF Types, Deallocated, irmVars, callVars, Statuses
<1>5. OneAtATime' /\ ClientKnows' /\ \A p \in Procs : ClaimIsHeld(p)'
    BY <1>1, <1>2, <1>3, Constants
       DEF Inv, Types, OneAtATime, ClientKnows, ClaimIsHeld, Freeing, Claims
<1>6. Conserved' /\ AllocationIsHeld'
    BY <1>1 DEF Inv, Conserved, AllocationIsHeld, irmVars
<1> QED
    BY <1>4, <1>5, <1>6 DEF Inv

LEMMA ReallocatedInv ==
    ASSUME Inv, NEW p \in Threads, Reallocated(p) PROVE Inv'
<1>1. /\ Types /\ p \in Procs /\ p # Client /\ pc[p] = "end" /\ fLock' = Nobody
      /\ \/ UNCHANGED allocVars
         \/ /\ ~isAllocated' /\ isAllocated' \in BOOLEAN /\ resources' = resources
            /\ fAllocationGeneration' = NoGeneration
      /\ UNCHANGED <<irmVars, owned, scan, callVars, forgotten>>
    BY Constants DEF Inv, Reallocated, Unlock
<1>2. /\ pc' = [pc EXCEPT ![p] = "none"]
      /\ pc' \in [Procs -> Labels] /\ result' \in [Procs -> Statuses]
      /\ expectedOldVal' \in [Procs -> Registers]
      /\ retries' \in [Procs -> 1..2]
    BY <1>1, GoFrom DEF Reallocated, Labels, Statuses
<1>3. /\ \A q \in Procs : pc'[q] \in {"none", "thread"}
      /\ pc[Client] = "none" /\ pc'[Client] = "none"
    BY <1>1, <1>2, Constants DEF Inv, Types, OneAtATime
<1>4. Types'
    BY <1>1, <1>2, Constants DEF Types, irmVars, callVars, allocVars, Statuses
<1>5. OneAtATime' /\ ClientKnows' /\ \A q \in Procs : ClaimIsHeld(q)'
    BY <1>1, <1>3, Constants
       DEF Inv, OneAtATime, ClientKnows, ClaimIsHeld, Freeing, Claims, allocVars
<1>6. Conserved'
    BY <1>1 DEF Inv, Conserved, irmVars
<1>7. AllocationIsHeld'
    BY <1>1, <1>3, Constants
       DEF Inv, AllocationIsHeld, InGeneration, irmVars, allocVars
<1> QED
    BY <1>4, <1>5, <1>6, <1>7 DEF Inv

LEMMA StutterInv ==
    ASSUME Inv, UNCHANGED <<irmVars, allocVars, fLock, callVars, procVars, forgotten>>,
           scan' \in {"none", "due", "closed"}, scan' \in {"none", scan} \/ scan # "none"
    PROVE  Inv'
<1>1. Types' /\ Conserved'
    BY DEF Inv, Types, Conserved, irmVars, allocVars, callVars, procVars
<1>2. OneAtATime' /\ ClientKnows'
    BY DEF Inv, OneAtATime, ClientKnows, allocVars, callVars, procVars
<1>3. AllocationIsHeld' /\ \A p \in Procs : ClaimIsHeld(p)'
    BY DEF Inv, AllocationIsHeld, ClaimIsHeld, InGeneration, irmVars, allocVars,
           callVars, procVars
<1> QED
    BY <1>1, <1>2, <1>3 DEF Inv

LEMMA HandleBusResetInv ==
    ASSUME Inv, fLock = Nobody, fBusGeneration \in Threads, HandleBusReset,
           UNCHANGED <<irmVars, allocVars, fLock, objVars, forgotten>>
    PROVE  Inv'
<1>1. CASE UNCHANGED <<callVars, procVars>>
    BY <1>1, StutterInv DEF HandleBusReset
<1>2. CASE /\ want' = [want EXCEPT ![fBusGeneration] = resources]
           /\ generation' = [generation EXCEPT ![fBusGeneration] = fBusGeneration]
           /\ Go(fBusGeneration, "thread", "Success")
  <2>1. /\ Types /\ fBusGeneration \in Procs /\ fBusGeneration # Client
        /\ fBusGeneration \in 0..fBusGeneration /\ fLock' = Nobody
      BY Constants DEF Inv, Types
  <2>2. /\ pc' = [pc EXCEPT ![fBusGeneration] = "thread"]
        /\ pc' \in [Procs -> Labels] /\ result' \in [Procs -> Statuses]
        /\ expectedOldVal' \in [Procs -> Registers]
        /\ retries' \in [Procs -> 1..2]
      BY <1>2, <2>1, GoFrom DEF Labels, Statuses
  <2>3. Types'
      BY <1>2, <2>1, <2>2 DEF Types, HandleBusReset, irmVars, allocVars, Statuses
  <2>4. /\ \A p \in Procs : pc'[p] \in {"none", "thread"}
        /\ pc[Client] = "none" /\ pc'[Client] = "none"
      BY <2>1, <2>2, Quiescent, Constants DEF Inv, Types, OneAtATime
  <2>5. OneAtATime' /\ ClientKnows' /\ \A p \in Procs : ClaimIsHeld(p)'
      BY <2>4, Constants DEF Inv, OneAtATime, ClientKnows, ClaimIsHeld, Freeing,
                             Claims, allocVars
  <2>6. Conserved' /\ AllocationIsHeld'
      BY <2>4, Constants DEF Inv, Conserved, AllocationIsHeld, InGeneration,
                             irmVars, allocVars
  <2> QED
      BY <2>3, <2>5, <2>6 DEF Inv
<1> QED
    BY <1>1, <1>2 DEF HandleBusReset

LEMMA ScanInv == ASSUME Inv, Scan PROVE Inv'
<1>1. CASE startBusScan
  <2>1. fBusGeneration \in Threads
      BY <1>1 DEF Inv, Types, startBusScan
  <2>2. CASE fIRMAllocations /\ fLock = Nobody
      BY <1>1, <2>1, <2>2, HandleBusResetInv DEF startBusScan
  <2>3. CASE ~fIRMAllocations \/ fLock # Nobody
    <3>1. /\ scan' \in {"none", "closed"} /\ scan # "none"
          /\ UNCHANGED <<irmVars, allocVars, fLock, callVars, procVars, forgotten>>
        BY <1>1, <2>3 DEF startBusScan
    <3> QED
        BY <3>1, StutterInv
  <2> QED
      BY <2>2, <2>3
<1>2. CASE handleBusReset
  <2>1. fBusGeneration \in Threads /\ fLock = Nobody
      BY <1>2 DEF Inv, Types, handleBusReset
  <2> QED
      BY <1>2, <2>1, HandleBusResetInv DEF handleBusReset
<1> QED
    BY <1>1, <1>2 DEF Scan

LEMMA ThreadFuncInv ==
    ASSUME Inv, NEW p \in Threads, threadFunc(p) PROVE Inv'
<1>1. /\ Types /\ p \in Procs /\ p # Client /\ pc[p] = "thread" /\ fLock = Nobody
      /\ UNCHANGED <<irmVars, allocVars, objVars, scan, callVars, forgotten>>
    BY Constants DEF Inv, threadFunc, Lock
<1>2. PICK label \in {"claimChannel", "none"} :
         /\ Go(p, label, "Success")
         /\ label = "claimChannel" => fLock' = p
         /\ fLock' \in {p, Nobody}
    BY <1>1 DEF threadFunc, Lock
<1>3. /\ pc' = [pc EXCEPT ![p] = label]
      /\ pc' \in [Procs -> Labels] /\ result' \in [Procs -> Statuses]
      /\ expectedOldVal' \in [Procs -> Registers]
      /\ retries' \in [Procs -> 1..2]
    BY <1>1, <1>2, GoFrom DEF Labels, Claims, Statuses
<1>4. /\ \A q \in Procs \ {p} : pc'[q] \in {"none", "thread"}
      /\ pc'[p] = label
      /\ pc[Client] = "none" /\ pc'[Client] = "none"
    BY <1>1, <1>3, Quiescent, Constants DEF Inv, Types, OneAtATime
<1>5. Types'
    BY <1>1, <1>2, <1>3 DEF Types, irmVars, callVars, allocVars, Statuses
<1>6. OneAtATime' /\ ClientKnows' /\ \A q \in Procs : ClaimIsHeld(q)'
    BY <1>1, <1>2, <1>4, Constants
       DEF Inv, OneAtATime, ClientKnows, ClaimIsHeld, Freeing, Claims, allocVars
<1>7. Conserved'
    BY <1>1 DEF Inv, Conserved, irmVars
<1>8. AllocationIsHeld'
    BY <1>1, <1>4, Constants
       DEF Inv, AllocationIsHeld, InGeneration, irmVars, allocVars
<1> QED
    BY <1>5, <1>6, <1>7, <1>8 DEF Inv

(* A reset ends the generation of every claim.                             *)
LEMMA BusResetInv == ASSUME Inv, BusReset PROVE Inv'
<1>1. /\ Types /\ fBusGeneration < MaxGeneration
      /\ fBusGeneration' = fBusGeneration + 1 /\ fBusGeneration \in 1..MaxGeneration
      /\ reg' = All /\ held' = Nothing /\ others' = Nothing /\ scan' = "due"
      /\ forgotten' = Nothing
      /\ UNCHANGED <<allocVars, fLock, callVars, procVars>>
    BY DEF Inv, BusReset, ResetRegisters, Types
<1>2. /\ fBusGeneration' \in 1..MaxGeneration /\ fBusGeneration' \in Threads
      /\ \A g \in 0..fBusGeneration \cup {NoGeneration} : ~InGeneration(g)'
      /\ 0..fBusGeneration \subseteq 0..fBusGeneration'
    BY <1>1, Constants DEF Threads, InGeneration, NoGeneration
<1>3. Types'
    BY <1>1, <1>2, Constants DEF Types, allocVars, callVars, procVars
<1>4. OneAtATime' /\ ClientKnows'
    BY <1>1 DEF Inv, OneAtATime, ClientKnows, allocVars, callVars, procVars
<1>5. Conserved'
    BY <1>1, Constants DEF Conserved, All, Nothing, Registers
<1>6. AllocationIsHeld'
    BY <1>1, <1>2 DEF Types, AllocationIsHeld, allocVars
<1>7. \A p \in Procs : ClaimIsHeld(p)'
    BY <1>1, <1>2 DEF Inv, Types, ClaimIsHeld, callVars, procVars
<1> QED
    BY <1>3, <1>4, <1>5, <1>6, <1>7 DEF Inv

(* The other nodes take what is available and give back what they have.    *)
LEMMA OtherNodesInv == ASSUME Inv, OtherNodes PROVE Inv'
<1>1. /\ Types /\ Conserved /\ held' = held /\ fBusGeneration' = fBusGeneration
      /\ UNCHANGED <<allocVars, fLock, objVars, scan, callVars, procVars, forgotten>>
    BY DEF Inv, OtherNodes, OtherNodesClaim, OtherNodesRelease, OtherSwaps
<1>2. /\ reg.bandwidth \in Int /\ others.bandwidth \in Int /\ held.bandwidth \in Int
      /\ OthersWant.bandwidth \in Nat
      /\ reg.channels \subseteq Channels /\ others.channels \subseteq Channels
      /\ reg = [bandwidth |-> reg.bandwidth, channels |-> reg.channels]
      /\ others = [bandwidth |-> others.bandwidth, channels |-> others.channels]
    BY <1>1, Constants DEF Types, Registers
<1>3. ASSUME NEW new \in Int, OtherSwaps("bandwidth", new), 0 <= new,
             0 <= others.bandwidth + reg.bandwidth - new
      PROVE  reg' \in Registers /\ others' \in Registers /\ Conserved'
  <2>1. /\ reg'.bandwidth = new /\ reg'.channels = reg.channels
        /\ others'.bandwidth = others.bandwidth + reg.bandwidth - new
        /\ others'.channels = others.channels
        /\ reg' \in Registers /\ others' \in Registers
      BY <1>1, <1>2, <1>3 DEF OtherSwaps, Balance, Registers
  <2> QED
      BY <1>1, <1>2, <1>3, <2>1 DEF Conserved
<1>4. ASSUME NEW new \in SUBSET Channels, OtherSwaps("channels", new),
             new \cap held.channels = {}
      PROVE  reg' \in Registers /\ others' \in Registers /\ Conserved'
  <2>1. others' = [others EXCEPT !["channels"] =
            (others.channels \cup (reg.channels \ new)) \ (new \ reg.channels)]
      BY <1>4 DEF OtherSwaps, Balance
  <2>2. /\ reg'.channels = new /\ reg'.bandwidth = reg.bandwidth
        /\ others'.bandwidth = others.bandwidth
        /\ others'.channels = (others.channels \cup (reg.channels \ new))
                                 \ (new \ reg.channels)
        /\ reg' \in Registers /\ others' \in Registers
      BY <1>1, <1>2, <1>4, <2>1 DEF OtherSwaps, Registers
  <2> QED
      BY <1>1, <1>2, <1>4, <2>2 DEF Conserved
<1>5. reg' \in Registers /\ others' \in Registers /\ Conserved'
  <2>1. CASE OtherNodesClaim
    <3>1. CASE /\ reg.bandwidth >= OthersWant.bandwidth
               /\ others.bandwidth < OthersWant.bandwidth
               /\ OtherSwaps("bandwidth", reg.bandwidth - OthersWant.bandwidth)
      <4> DEFINE new == reg.bandwidth - OthersWant.bandwidth
      <4>1. /\ new \in Int /\ 0 <= new
            /\ 0 <= others.bandwidth + reg.bandwidth - new
          BY <1>1, <1>2, <3>1 DEF Conserved
      <4> HIDE DEF new
      <4> QED
          BY <1>3, <3>1, <4>1 DEF new
    <3>2. ASSUME NEW c \in OthersWant.channels \cap reg.channels,
                 OtherSwaps("channels", reg.channels \ {c})
          PROVE  reg' \in Registers /\ others' \in Registers /\ Conserved'
      <4>1. /\ reg.channels \ {c} \in SUBSET Channels
            /\ (reg.channels \ {c}) \cap held.channels = {}
          BY <1>1, <1>2 DEF Conserved
      <4> QED
          BY <1>4, <3>2, <4>1
    <3> QED
        BY <2>1, <3>1, <3>2 DEF OtherNodesClaim
  <2>2. CASE OtherNodesRelease
    <3>1. CASE OtherSwaps("bandwidth", reg.bandwidth + others.bandwidth)
      <4> DEFINE new == reg.bandwidth + others.bandwidth
      <4>1. /\ new \in Int /\ 0 <= new
            /\ 0 <= others.bandwidth + reg.bandwidth - new
          BY <1>1, <1>2 DEF Conserved
      <4> HIDE DEF new
      <4> QED
          BY <1>3, <3>1, <4>1 DEF new
    <3>2. ASSUME NEW c \in others.channels,
                 OtherSwaps("channels", reg.channels \cup {c})
          PROVE  reg' \in Registers /\ others' \in Registers /\ Conserved'
      <4>1. /\ reg.channels \cup {c} \in SUBSET Channels
            /\ (reg.channels \cup {c}) \cap held.channels = {}
          BY <1>1, <1>2 DEF Conserved
      <4> QED
          BY <1>4, <3>2, <4>1
    <3> QED
        BY <2>2, <3>1, <3>2 DEF OtherNodesRelease
  <2> QED
      BY <2>1, <2>2 DEF OtherNodes
<1>6. Types'
    BY <1>1, <1>5 DEF Types, allocVars, callVars, procVars
<1>7. OneAtATime' /\ ClientKnows'
    BY <1>1 DEF Inv, OneAtATime, ClientKnows, allocVars, callVars, procVars
<1>8. AllocationIsHeld' /\ \A p \in Procs : ClaimIsHeld(p)'
    BY <1>1 DEF Inv, AllocationIsHeld, ClaimIsHeld, InGeneration, allocVars,
                callVars, procVars
<1> QED
    BY <1>5, <1>6, <1>7, <1>8 DEF Inv

-----------------------------------------------------------------------------
LEMMA NextInv == ASSUME Inv, [Next]_vars PROVE Inv'
<1>1. CASE UNCHANGED vars
  <2>1. scan' = scan /\ scan \in {"none", "due", "closed"}
      BY <1>1 DEF vars, Inv, Types
  <2>2. UNCHANGED <<irmVars, allocVars, fLock, callVars, procVars, forgotten>>
      BY <1>1 DEF vars
  <2> QED
      BY <2>1, <2>2, StutterInv
<1>2. CASE allocateIsochResources
    BY <1>2, AllocateInv
<1>3. CASE deallocateIsochResources
    BY <1>3, DeallocateInv
<1>4. CASE release
  <2>1. scan' = scan /\ scan \in {"none", "due", "closed"}
      BY <1>4 DEF release, Inv, Types
  <2>2. UNCHANGED <<irmVars, allocVars, fLock, callVars, procVars, forgotten>>
      BY <1>4 DEF release
  <2> QED
      BY <2>1, <2>2, StutterInv
<1>5. CASE ClientStep
    BY <1>5, TransactInv, AllocatedInv, DeallocatedInv, Constants DEF ClientStep
<1>6. CASE \E p \in Threads : ThreadStep(p)
    BY <1>6, ThreadFuncInv, TransactInv, ReallocatedInv, Constants DEF ThreadStep
<1>7. CASE Scan
    BY <1>7, ScanInv
<1>8. CASE BusReset
    BY <1>8, BusResetInv
<1>9. CASE OtherNodes
    BY <1>9, OtherNodesInv
<1> QED
    BY <1>1, <1>2, <1>3, <1>4, <1>5, <1>6, <1>7, <1>8, <1>9 DEF Next

LEMMA InvHolds == Spec => []Inv
<1> QED
    BY InitInv, NextInv, PTL DEF Spec

(* The registers, the fields of the allocation and the locals of each      *)
(* process stay in their ranges; the bandwidth available at the resource   *)
(* manager, which releaseIRMBandwidthInGeneration raises without looking   *)
(* at its limit, never passes it (IOFireWireController.cpp:6353).          *)
THEOREM TypeCorrect == Spec => []TypeOK
<1>1. ASSUME Inv PROVE TypeOK
  <2>1. Types /\ Conserved
      BY <1>1 DEF Inv
  <2>2. reg.bandwidth \in 0..Bandwidth
    <3>1. /\ reg.bandwidth \in Int /\ held.bandwidth \in Int
          /\ others.bandwidth \in Int
        BY <2>1 DEF Types, Registers
    <3> QED
        BY <2>1, <3>1, Constants DEF Conserved
  <2> QED
      BY <2>1, <2>2 DEF Types, TypeOK
<1> QED
    BY <1>1, InvHolds, PTL

(* An allocation never gives back what another node holds: whatever resets *)
(* come between its transactions, what deallocateIsochResources and the    *)
(* undo of a failed claim add to a register is in the generation in which  *)
(* this node claimed it (IOFireWireIRMAllocation.cpp).                     *)
THEOREM AllocationGivesBackItsOwn == Spec => []OthersKeepTheirs
<1>1. ASSUME Inv PROVE OthersKeepTheirs
    BY <1>1 DEF Inv, Conserved, OthersKeepTheirs
<1> QED
    BY <1>1, InvHolds, PTL

(* In its ranges, and never more than its own.                             *)
THEOREM AllocationIsHonest == Spec => []OwnResourcesOnly
BY TypeCorrect, AllocationGivesBackItsOwn, PTL DEF OwnResourcesOnly
-----------------------------------------------------------------------------
(***************************************************************************)
(* What the allocation records is what this node holds                     *)
(***************************************************************************)

Busy(p) == pc[p] \notin {"none", "thread"}
HasBoth(p) == pc[p] = "freeBandwidth" \/ (pc[p] = "end" /\ result[p] = "Success")
HasChannel(p) == HasBoth(p) \/ pc[p] \in {"claimBandwidth", "undoChannel", "freeChannel"}

(* These units and, besides them, what was forgotten.                      *)
Holds(bandwidth, channels) ==
    /\ held.bandwidth = bandwidth + forgotten.bandwidth
    /\ held.channels = channels \cup forgotten.channels
    /\ channels \cap forgotten.channels = {}

(* In the middle of a call, what it has claimed and not given back, unless *)
(* a reset has taken it                                                    *)
BusyHolds(p) ==
    Busy(p) => IF InGeneration(generation[p])
               THEN Holds(IF HasBoth(p) THEN want[p].bandwidth ELSE 0,
                          IF HasChannel(p) THEN want[p].channels ELSE {})
               ELSE Holds(0, {})

(* The scan after the last reset has been answered: its thread has run, or *)
(* was not needed                                                          *)
Answered == \/ fAllocationGeneration = fBusGeneration
            \/ scan = "none" /\ \A p \in Threads : p = fBusGeneration => pc[p] = "none"

IdleHolds ==
    (\A p \in Procs : ~Busy(p)) =>
        IF isAllocated /\ Answered THEN Holds(resources.bandwidth, resources.channels)
        ELSE Holds(0, {})

(* A thread begins when the scan has handled the reset of its generation,  *)
(* with an allocation that is older                                        *)
ThreadKnows(p) ==
    /\ pc[p] # "none" => p <= fBusGeneration /\ generation[p] = p
    /\ pc[p] # "none" /\ p = fBusGeneration => scan = "none"
    /\ Busy(p) \/ (pc[p] = "thread" /\ p = fBusGeneration) =>
          /\ isAllocated /\ fAllocationGeneration < p
          /\ want[p] = resources
    /\ Busy(p) /\ p # fBusGeneration => scan # "none"

(* A reset that comes after the client's last claim finds it registered    *)
ClientIsHeard ==
    /\ isAllocated => fAllocationGeneration >= 1
    /\ fIRMAllocations = isAllocated
    /\ pc[Client] # "none" => generation[Client] >= 1
    /\ pc[Client] \in Freeing /\ ~InGeneration(generation[Client]) => scan # "none"
    /\ Busy(Client) /\ ~InGeneration(generation[Client]) =>
          /\ pc[Client] = "claimBandwidth" =>
                want[Client].bandwidth # 0 \/ want[Client].channels = {}
          /\ pc[Client] = "end" /\ result[Client] = "Success" =>
                want[Client].bandwidth = 0 /\ want[Client].channels = {}

(* No reset was seen in the current generation.                            *)
ResultIsOfNoReset(p) ==
    Busy(p) /\ InGeneration(generation[p]) => result[p] # "BusReset"

HeldInv ==
    /\ Inv
    /\ \A p \in Procs : BusyHolds(p) /\ ResultIsOfNoReset(p)
    /\ \A p \in Threads : ThreadKnows(p)
    /\ IdleHolds /\ ClientIsHeard

LEMMA WantIsTyped ==
    ASSUME Types, NEW p \in Procs
    PROVE  /\ want[p].bandwidth \in Nat /\ want[p].channels \subseteq Channels
           /\ resources.bandwidth \in Nat /\ resources.channels \subseteq Channels
           /\ held.bandwidth \in Int /\ held.channels \subseteq Channels
           /\ reg.bandwidth \in Int /\ reg.channels \subseteq Channels
           /\ Nothing.bandwidth = 0 /\ Nothing.channels = {}
           /\ forgotten.bandwidth \in Int /\ forgotten.channels \subseteq Channels
           /\ DOMAIN forgotten = {"bandwidth", "channels"}
<1>1. /\ want[p] \in Requests \cup {Nothing} /\ resources \in Requests \cup {Nothing}
      /\ held \in Registers /\ reg \in Registers /\ forgotten \in Registers
    BY DEF Types
<1>2. want[p] \in Registers /\ resources \in Registers
      /\ want[p].bandwidth \in 0..Bandwidth /\ resources.bandwidth \in 0..Bandwidth
    BY <1>1, Constants
<1> QED
    BY <1>1, <1>2, Constants DEF Registers, Nothing

(* A transaction that ends lets the next one start afresh.                 *)
LEMMA LeavesAfresh ==
    ASSUME Types, NEW p \in Procs, pc[p] \in Claims \cup Releases,
           NEW status, Leave(p, status)
    PROVE  /\ retries'[p] = 2
           /\ pc'[p] \in Releases => expectedOldVal'[p] = Nothing
           /\ pc[p] \in {"freeBandwidth", "freeChannel"} => result'[p] = "Success"
  BY DEF Leave, Go, Types, Claims, Releases

(* How a transaction ends, in its generation or after it.                  *)
LEMMA TransactEndsWell ==
    ASSUME NEW p \in Procs, Transact(p)
    PROVE  \/ UNCHANGED <<irmVars, pc, result, forgotten>>
           \/ Ends(p, "BusReset") /\ ~InGeneration(generation[p])
           \/ Ends(p, "NotAvailable") /\ want[p][Register(pc[p])] # Nothing[Register(pc[p])]
           \/ HasNothingToDo(p)
           \/ Succeeds(p, Register(pc[p]))
<1> DEFINE r == Register(pc[p])
           old == expectedOldVal[p][r]
<1>1. CASE Ends(p, "Success") /\ want[p][r] = Nothing[r]
    BY <1>1 DEF HasNothingToDo
<1>2. CASE /\ InGeneration(generation[p]) /\ want[p][r] # Nothing[r]
           /\ Possible(pc[p], want[p], old)
           /\ reg[r] = old
           /\ Swap(r, newVal(pc[p], want[p], old))
           /\ Leave(p, "Success")
           /\ UNCHANGED forgotten
    BY <1>2 DEF Succeeds
<1>3. \/ Ends(p, "Success") /\ want[p][r] = Nothing[r]
      \/ Ends(p, "BusReset") /\ ~InGeneration(generation[p])
      \/ Ends(p, "NotAvailable") /\ want[p][r] # Nothing[r]
      \/ /\ InGeneration(generation[p]) /\ want[p][r] # Nothing[r]
         /\ Possible(pc[p], want[p], old)
         /\ reg[r] = old
         /\ Swap(r, newVal(pc[p], want[p], old))
         /\ Leave(p, "Success")
         /\ UNCHANGED forgotten
      \/ UNCHANGED <<irmVars, pc, result, forgotten>>
  <2> HIDE DEF r, old
  <2> QED
      BY DEF Transact, r, old
<1> QED
    BY <1>1, <1>2, <1>3

(* What a transaction takes and gives back is what the process then holds. *)
LEMMA TransactHolds ==
    ASSUME HeldInv, NEW p \in Procs, Transact(p)
    PROVE  BusyHolds(p)'
<1>1. /\ Types /\ Conserved /\ pc[p] \in Claims \cup Releases /\ BusyHolds(p)
      /\ UNCHANGED callVars
    BY DEF HeldInv, Inv, Transact
<1>2. /\ Busy(p) /\ want' = want /\ generation' = generation
      /\ pc[p] = "undoChannel" => result[p] # "Success"
    BY <1>1 DEF Busy, Claims, Releases, HeldInv, Inv, ClaimIsHeld, callVars
<1>3. CASE UNCHANGED <<irmVars, pc, result, forgotten>>
    BY <1>1, <1>3 DEF BusyHolds, Busy, HasBoth, HasChannel, Holds, InGeneration, irmVars, callVars
<1>4. CASE UNCHANGED <<irmVars, forgotten>> /\ ~InGeneration(generation[p])
    BY <1>1, <1>2, <1>4 DEF BusyHolds, Holds, InGeneration, irmVars, callVars
<1>5. CASE Ends(p, "NotAvailable") /\ InGeneration(generation[p])
  <2>1. /\ pc[p] = "claimChannel" => pc'[p] = "end" /\ result'[p] = "NotAvailable"
        /\ pc[p] = "claimBandwidth" => pc'[p] = "undoChannel" /\ result'[p] = "NotAvailable"
        /\ pc[p] = "undoChannel" => pc'[p] = "end" /\ result'[p] # "Success"
        /\ pc[p] = "freeBandwidth" => pc'[p] = "freeChannel"
        /\ pc[p] = "freeChannel" => pc'[p] = "freed"
    <3>1. Leave(p, "NotAvailable") /\ "NotAvailable" \in Statuses
        BY <1>5 DEF Ends, Statuses
    <3> QED
        BY <1>1, <1>2, <3>1, LeavesFor
  <2>2. /\ held' = held /\ InGeneration(generation[p])'
        /\ pc[p] \in {"claimChannel", "claimBandwidth", "undoChannel", "freeBandwidth", "freeChannel"}
      BY <1>1, <1>2, <1>5 DEF Ends, InGeneration, irmVars, Claims, Releases
  <2>3. /\ want[p].bandwidth \in Nat /\ want[p].channels \subseteq Channels
        /\ held.bandwidth \in Int /\ forgotten.bandwidth \in Int
        /\ DOMAIN forgotten = {"bandwidth", "channels"}
      BY <1>1, WantIsTyped
  <2>4. /\ pc[p] \in Claims => forgotten' = forgotten
        /\ pc[p] = "freeBandwidth" =>
              forgotten' = [forgotten EXCEPT !["bandwidth"] =
                               forgotten.bandwidth + want[p].bandwidth]
        /\ pc[p] \in {"undoChannel", "freeChannel"} =>
              forgotten' = [forgotten EXCEPT !["channels"] =
                               forgotten.channels \cup want[p].channels]
      BY <1>5, <2>2 DEF Ends, Register, newVal, Releases, Claims
  <2>5. /\ pc[p] \in Claims => forgotten' = forgotten
        /\ pc[p] = "freeBandwidth" =>
              /\ forgotten'.bandwidth = forgotten.bandwidth + want[p].bandwidth
              /\ forgotten'.channels = forgotten.channels
        /\ pc[p] \in {"undoChannel", "freeChannel"} =>
              /\ forgotten'.channels = forgotten.channels \cup want[p].channels
              /\ forgotten'.bandwidth = forgotten.bandwidth
      BY <2>3, <2>4
  <2>6. Holds(IF HasBoth(p) THEN want[p].bandwidth ELSE 0,
              IF HasChannel(p) THEN want[p].channels ELSE {})
      BY <1>1, <1>2, <1>5 DEF BusyHolds
  <2>7. Holds(IF HasBoth(p) THEN want[p].bandwidth ELSE 0,
              IF HasChannel(p) THEN want[p].channels ELSE {})'
    <3> USE DEF HasBoth, HasChannel, Holds
    <3>1. CASE pc[p] = "claimChannel"
        BY <1>2, <2>1, <2>2, <2>5, <2>6, <3>1 DEF Claims
    <3>2. CASE pc[p] = "claimBandwidth"
        BY <1>2, <2>1, <2>2, <2>5, <2>6, <3>2 DEF Claims
    <3>3. CASE pc[p] = "undoChannel"
        BY <1>2, <2>1, <2>2, <2>3, <2>5, <2>6, <3>3
    <3>4. CASE pc[p] = "freeBandwidth"
        BY <1>2, <2>1, <2>2, <2>3, <2>5, <2>6, <3>4
    <3>5. CASE pc[p] = "freeChannel"
        BY <1>2, <2>1, <2>2, <2>3, <2>5, <2>6, <3>5
    <3> QED
        BY <2>2, <3>1, <3>2, <3>3, <3>4, <3>5
  <2> QED
      BY <2>2, <2>7 DEF BusyHolds
<1>6. ASSUME HasNothingToDo(p) \/ Succeeds(p, Register(pc[p])), InGeneration(generation[p])
      PROVE  BusyHolds(p)'
  <2>1. /\ Leave(p, "Success") /\ InGeneration(generation[p])'
        /\ pc[p] \in {"claimChannel", "claimBandwidth", "undoChannel", "freeBandwidth", "freeChannel"}
      BY <1>1, <1>6 DEF HasNothingToDo, Ends, Succeeds, Swap, InGeneration, irmVars,
                        callVars, Claims, Releases
  <2>2. /\ pc[p] = "claimChannel" => pc'[p] = "claimBandwidth" /\ result'[p] = "Success"
        /\ pc[p] = "claimBandwidth" => pc'[p] = "end" /\ result'[p] = "Success"
        /\ pc[p] = "undoChannel" => pc'[p] = "end" /\ result'[p] # "Success"
        /\ pc[p] = "freeBandwidth" => pc'[p] = "freeChannel"
        /\ pc[p] = "freeChannel" => pc'[p] = "freed"
    <3>. "Success" \in Statuses
        BY DEF Statuses
    <3> QED
        BY <1>1, <1>2, <2>1, LeavesFor
  <2>3. /\ want' = want /\ want[p].bandwidth \in Nat /\ want[p].channels \subseteq Channels
        /\ held.bandwidth \in Int /\ forgotten.bandwidth \in Int
        /\ forgotten' = forgotten
      BY <1>1, <1>6, WantIsTyped DEF callVars, HasNothingToDo, Succeeds, Ends
  <2>4. /\ pc[p] = "claimChannel" => /\ held'.bandwidth = held.bandwidth
                                     /\ held'.channels = held.channels \cup want[p].channels
        /\ pc[p] = "claimBandwidth" => /\ held'.channels = held.channels
                                       /\ held'.bandwidth = held.bandwidth + want[p].bandwidth
        /\ pc[p] \in {"undoChannel", "freeChannel"} =>
              /\ held'.bandwidth = held.bandwidth
              /\ held'.channels = held.channels \ want[p].channels
        /\ pc[p] = "freeBandwidth" => /\ held'.channels = held.channels
                                      /\ held'.bandwidth = held.bandwidth - want[p].bandwidth
    <3>1. CASE Succeeds(p, Register(pc[p]))
        BY <1>1, <3>1, Moves
    <3>2. CASE HasNothingToDo(p)
      <4>1. /\ held' = held
            /\ pc[p] \in {"claimBandwidth", "freeBandwidth"} => want[p].bandwidth = 0
            /\ pc[p] \in {"claimChannel", "undoChannel", "freeChannel"} => want[p].channels = {}
          BY <1>1, <3>2, WantIsTyped DEF HasNothingToDo, Ends, irmVars, Register
      <4> QED
          BY <2>3, <4>1
    <3> QED
        BY <1>6, <3>1, <3>2
  <2>5. Holds(IF HasBoth(p) THEN want[p].bandwidth ELSE 0,
              IF HasChannel(p) THEN want[p].channels ELSE {})
      BY <1>1, <1>2, <1>6 DEF BusyHolds
  <2>6. Holds(IF HasBoth(p) THEN want[p].bandwidth ELSE 0,
              IF HasChannel(p) THEN want[p].channels ELSE {})'
    <3> USE DEF HasBoth, HasChannel, Holds
    <3>0. pc[p] = "claimChannel" => want[p].channels \cap held.channels = {}
      <4>1. Succeeds(p, "channels") /\ pc[p] = "claimChannel" =>
               want[p].channels \subseteq reg.channels
          BY DEF Succeeds, Possible
      <4>2. pc[p] = "claimChannel" /\ HasNothingToDo(p) => want[p].channels = {}
          BY <1>1, WantIsTyped DEF HasNothingToDo, Register
      <4> QED
          BY <1>1, <1>6, <4>1, <4>2 DEF Conserved, Register
    <3>1. CASE pc[p] = "claimChannel"
        BY <3>0, <1>2, <2>2, <2>3, <2>4, <2>5, <3>1
    <3>2. CASE pc[p] = "claimBandwidth"
        BY <1>2, <2>2, <2>3, <2>4, <2>5, <3>2
    <3>3. CASE pc[p] = "undoChannel"
        BY <1>2, <2>2, <2>3, <2>4, <2>5, <3>3
    <3>4. CASE pc[p] = "freeBandwidth"
        BY <1>2, <2>2, <2>3, <2>4, <2>5, <3>4
    <3>5. CASE pc[p] = "freeChannel"
        BY <1>2, <2>2, <2>3, <2>4, <2>5, <3>5
    <3> QED
        BY <2>1, <3>1, <3>2, <3>3, <3>4, <3>5
  <2> QED
      BY <2>1, <2>6 DEF BusyHolds
<1>7. Succeeds(p, Register(pc[p])) => InGeneration(generation[p])
    BY DEF Succeeds
<1>8. ~InGeneration(generation[p]) =>
         \/ UNCHANGED <<irmVars, forgotten>>
         \/ Succeeds(p, Register(pc[p]))
    BY TransactEndsWell DEF HasNothingToDo, Ends
<1> QED
    BY <1>1, <1>3, <1>4, <1>5, <1>6, <1>7, <1>8, TransactEndsWell

LEMMA OneIsBusy ==
    ASSUME Inv, NEW p \in Procs, fLock = p
    PROVE  \A q \in Procs \ {p} : ~Busy(q)
  BY DEF Inv, OneAtATime, Busy

LEMMA NobodyIsBusy ==
    ASSUME Inv, fLock = Nobody
    PROVE  \A q \in Procs : ~Busy(q)
  BY Quiescent DEF Busy

(* The transactions of a process leave the rest alone.                     *)
LEMMA TransactKeepsHeld ==
    ASSUME HeldInv, NEW p \in Procs, Transact(p)
    PROVE  HeldInv'
<1>1. /\ Inv /\ Types /\ pc[p] \in Claims \cup Releases /\ Busy(p) /\ fLock = p
      /\ UNCHANGED <<allocVars, fLock, objVars, scan, callVars>>
      /\ want' = want /\ generation' = generation
    BY DEF HeldInv, Inv, Transact, OneAtATime, Claims, Releases, Busy, callVars
<1>2. Inv'
    BY <1>1, TransactInv
<1>3. \A q \in Procs \ {p} : ~Busy(q)
    BY <1>1, OneIsBusy
<1>4. \/ UNCHANGED <<irmVars, pc, result>>
      \/ \E status \in Statuses :
            /\ Leave(p, status)
            /\ status = "BusReset" => ~InGeneration(generation[p])
    BY TransactEndsWell DEF HasNothingToDo, Ends, Succeeds, Statuses
<1>5. /\ fBusGeneration' = fBusGeneration /\ pc'[p] \notin {"none", "thread"}
      /\ \A q \in Procs \ {p} : pc'[q] = pc[q]
      /\ Busy(p)' /\ \A q \in Procs \ {p} : ~Busy(q)'
  <2>1. fBusGeneration' = fBusGeneration
      BY TransactEndsWell DEF HasNothingToDo, Ends, Succeeds, Swap, irmVars
  <2>2. pc'[p] \notin {"none", "thread"} /\ \A q \in Procs \ {p} : pc'[q] = pc[q]
    <3>1. CASE UNCHANGED <<irmVars, pc, result>>
        BY <1>1, <3>1 DEF Busy
    <3>2. CASE \E status \in Statuses : Leave(p, status)
      <4>1. pc' = [pc EXCEPT ![p] = pc'[p]] /\ pc'[p] \in Labels \ {"none", "thread"}
          BY <1>1, <3>2, LeaveTypes
      <4> QED
          BY <1>1, <4>1 DEF Types
    <3> QED
        BY <1>4, <3>1, <3>2
  <2> QED
      BY <1>3, <2>1, <2>2 DEF Busy
<1>6. \A q \in Procs : BusyHolds(q)'
    BY <1>5, TransactHolds DEF BusyHolds
<1>7. ResultIsOfNoReset(p)'
  <2>1. CASE UNCHANGED <<irmVars, pc, result>>
      BY <1>1, <2>1 DEF HeldInv, ResultIsOfNoReset, Busy, InGeneration, irmVars
  <2>2. CASE \E status \in Statuses :
                /\ Leave(p, status)
                /\ status = "BusReset" => ~InGeneration(generation[p])
    <3>1. PICK status \in Statuses :
                /\ Leave(p, status)
                /\ status = "BusReset" => ~InGeneration(generation[p])
        BY <2>2
    <3>2. pc[p] \in {"freeBandwidth", "freeChannel"} => result'[p] = "Success"
        BY <1>1, <3>1, LeavesAfresh
    <3>3. InGeneration(generation[p])' <=> InGeneration(generation[p])
        BY <1>1, <1>5 DEF InGeneration
    <3>4. /\ pc[p] \in Claims => result'[p] = status
          /\ pc[p] = "undoChannel" => result'[p] = result[p]
        BY <1>1, <3>1, LeavesFor DEF Claims, Releases
    <3>5. InGeneration(generation[p]) => result'[p] # "BusReset"
        BY <1>1, <3>1, <3>2, <3>4 DEF HeldInv, ResultIsOfNoReset, Releases
    <3> QED
        BY <3>3, <3>5 DEF ResultIsOfNoReset
  <2> QED
      BY <1>4, <2>1, <2>2
<1>8. \A q \in Procs \ {p} : ResultIsOfNoReset(q)'
    BY <1>5 DEF ResultIsOfNoReset, Busy, Releases
<1>9. \A q \in Threads : ThreadKnows(q)'
  <2> SUFFICES ASSUME NEW q \in Threads PROVE ThreadKnows(q)'
      OBVIOUS
  <2>1. ThreadKnows(q) /\ q \in Procs
      BY Constants DEF HeldInv
  <2>2. CASE q = p
      BY <1>1, <1>5, <2>1, <2>2 DEF ThreadKnows, Busy, allocVars
  <2>3. CASE q # p
      BY <1>1, <1>5, <2>1, <2>3 DEF ThreadKnows, Busy, allocVars
  <2> QED
      BY <2>2, <2>3
<1>10. IdleHolds'
    BY <1>5 DEF IdleHolds
<1>11. ClientIsHeard'
  <2>1. ClientIsHeard
      BY DEF HeldInv
  <2>2. /\ isAllocated' = isAllocated /\ fAllocationGeneration' = fAllocationGeneration
        /\ fIRMAllocations' = fIRMAllocations
        /\ InGeneration(generation[Client])' <=> InGeneration(generation[Client])
      BY <1>1, <1>5 DEF allocVars, objVars, InGeneration
  <2>3. CASE p # Client
      BY <1>1, <1>3, <1>5, <2>1, <2>2, <2>3, Constants DEF ClientIsHeard, Busy
  <2>4. CASE p = Client /\ InGeneration(generation[Client])
      BY <1>1, <1>5, <2>1, <2>2, <2>4, Constants DEF ClientIsHeard, Busy
  <2>5. CASE p = Client /\ ~InGeneration(generation[Client])
    <3>1. want[p].bandwidth \in Nat /\ Nothing.bandwidth = 0 /\ Nothing.channels = {}
        BY <1>1, WantIsTyped
    <3>2. \/ UNCHANGED <<pc, result>>
          \/ \E status \in Statuses \ {"Success"} : Leave(p, status)
          \/ /\ Leave(p, "Success")
             /\ pc[p] = "claimChannel" => want[p].channels = {}
             /\ pc[p] = "claimBandwidth" => want[p].bandwidth = 0
        BY <1>1, <2>5, <3>1, TransactEndsWell
           DEF HasNothingToDo, Ends, Succeeds, Statuses, Register
    <3>3. CASE UNCHANGED <<pc, result>>
        BY <1>1, <2>1, <2>2, <2>5, <3>3 DEF ClientIsHeard, Busy
    <3>4. CASE \E status \in Statuses \ {"Success"} : Leave(p, status)
      <4>1. /\ pc'[p] # "claimBandwidth"
            /\ pc'[p] = "end" => result'[p] # "Success"
            /\ pc'[p] \in Freeing => pc[p] \in Freeing
          BY <1>1, <3>4, LeavesFor
             DEF Claims, Releases, Statuses, HeldInv, Inv, ClaimIsHeld, Freeing
      <4> QED
          BY <1>1, <1>5, <2>1, <2>2, <2>5, <4>1 DEF ClientIsHeard, Busy
    <3>5. CASE /\ Leave(p, "Success")
               /\ pc[p] = "claimChannel" => want[p].channels = {}
               /\ pc[p] = "claimBandwidth" => want[p].bandwidth = 0
      <4>. "Success" \in Statuses
          BY DEF Statuses
      <4>1. /\ pc'[p] = "claimBandwidth" => pc[p] = "claimChannel"
            /\ pc'[p] = "end" /\ result'[p] = "Success" => pc[p] = "claimBandwidth"
            /\ pc'[p] \in Freeing => pc[p] \in Freeing
          BY <1>1, <3>5, LeavesFor
             DEF Claims, Releases, HeldInv, Inv, ClaimIsHeld, Freeing
      <4> QED
          BY <1>1, <1>5, <2>1, <2>2, <2>5, <3>5, <4>1 DEF ClientIsHeard, Busy
    <3> QED
        BY <3>2, <3>3, <3>4, <3>5
  <2> QED
      BY <2>3, <2>4, <2>5
<1> QED
    BY <1>2, <1>6, <1>7, <1>8, <1>9, <1>10, <1>11 DEF HeldInv

LEMMA AllocateKeepsHeld == ASSUME HeldInv, allocateIsochResources PROVE HeldInv'
<1>1. /\ Inv /\ Types /\ ~isAllocated /\ fLock = Nobody /\ fBusGeneration \in 1..MaxGeneration
      /\ isAllocated' = FALSE /\ fIRMAllocations' = fIRMAllocations
      /\ UNCHANGED <<irmVars, scan, forgotten>>
      /\ generation' = [generation EXCEPT ![Client] = fBusGeneration]
      /\ \E request \in Requests : want' = [want EXCEPT ![Client] = request]
      /\ Go(Client, "claimChannel", "Success")
    BY DEF HeldInv, Inv, Types, allocateIsochResources, Lock, objVars
<1>2. Inv'
    BY <1>1, AllocateInv
<1>3. \A q \in Procs : ~Busy(q)
    BY <1>1, NobodyIsBusy
<1>4. /\ pc' = [pc EXCEPT ![Client] = "claimChannel"]
      /\ result' = [result EXCEPT ![Client] = "Success"]
      /\ fBusGeneration' = fBusGeneration /\ held' = held /\ forgotten' = forgotten
    BY <1>1 DEF Go, irmVars
<1>5. Holds(0, {}) /\ Client \in Procs
    BY <1>1, <1>3, Constants DEF HeldInv, IdleHolds
<1>6. /\ \A q \in Procs \ {Client} :
            pc'[q] = pc[q] /\ want'[q] = want[q] /\ generation'[q] = generation[q]
      /\ pc'[Client] = "claimChannel" /\ generation'[Client] = fBusGeneration
      /\ result'[Client] = "Success"
    BY <1>1, <1>4, Constants DEF Types
<1>7. \A q \in Procs : BusyHolds(q)'
    BY <1>3, <1>4, <1>5, <1>6 DEF BusyHolds, Busy, HasBoth, HasChannel, Holds
<1>8. \A q \in Procs : ResultIsOfNoReset(q)'
    BY <1>3, <1>6 DEF ResultIsOfNoReset, Busy, Releases
<1>9. \A q \in Threads : ThreadKnows(q)'
  <2> SUFFICES ASSUME NEW q \in Threads PROVE ThreadKnows(q)'
      OBVIOUS
  <2>1. q \in Procs \ {Client} /\ ThreadKnows(q) /\ ~Busy(q)
      BY <1>3, Constants DEF HeldInv
  <2>2. ~(pc[q] = "thread" /\ q = fBusGeneration)
      BY <1>1, <2>1 DEF ThreadKnows
  <2> QED
      BY <1>1, <1>4, <1>6, <2>1, <2>2 DEF ThreadKnows, Busy
<1>10. IdleHolds'
    BY <1>5, <1>6 DEF IdleHolds, Busy
<1>11. ClientIsHeard'
  <2>1. generation'[Client] = fBusGeneration' /\ generation'[Client] >= 1
      BY <1>1, <1>4, <1>6
  <2>2. fIRMAllocations' = isAllocated' /\ isAllocated' = FALSE
      BY <1>1 DEF HeldInv, Types, ClientIsHeard
  <2> QED
      BY <1>6, <2>1, <2>2 DEF ClientIsHeard, InGeneration, Freeing
<1> QED
    BY <1>2, <1>7, <1>8, <1>9, <1>10, <1>11 DEF HeldInv

LEMMA AllocatedKeepsHeld == ASSUME HeldInv, Allocated PROVE HeldInv'
<1>1. /\ Inv /\ Types /\ pc[Client] = "end" /\ fLock = Client
      /\ UNCHANGED <<irmVars, scan, callVars, forgotten>>
      /\ Go(Client, "none", "Success")
    BY Constants DEF HeldInv, Inv, Allocated, OneAtATime
<1>2. Inv'
    BY <1>1, AllocatedInv
<1>3. /\ Client \in Procs /\ Client \notin Threads
      /\ \A q \in Procs \ {Client} : ~Busy(q)
    BY <1>1, OneIsBusy, Constants
<1>4. /\ \A q \in Procs \ {Client} : pc'[q] = pc[q]
      /\ pc'[Client] = "none"
      /\ fBusGeneration' = fBusGeneration /\ held' = held /\ forgotten' = forgotten /\ scan' = scan
      /\ want' = want /\ generation' = generation
    BY <1>1, <1>3 DEF Go, irmVars, Types, callVars
<1>5. \A q \in Procs : ~Busy(q)'
    BY <1>3, <1>4 DEF Busy
<1>6. /\ ~isAllocated /\ ~fIRMAllocations
      /\ generation[Client] \in 1..fBusGeneration
    BY <1>1, <1>3 DEF HeldInv, Inv, ClientKnows, ClientIsHeard, Types
<1>7. \A q \in Threads : pc[q] # "none" => q <= fBusGeneration /\ generation[q] = q
                                          /\ ~(pc[q] = "thread" /\ q = fBusGeneration)
                                          /\ (q = fBusGeneration => scan = "none")
    BY <1>6 DEF HeldInv, ThreadKnows
<1>8. \A q \in Procs : BusyHolds(q)' /\ ResultIsOfNoReset(q)'
    BY <1>5 DEF BusyHolds, ResultIsOfNoReset, Busy, Releases
<1>9. \A q \in Threads : ThreadKnows(q)'
    BY <1>3, <1>4, <1>5, <1>7, Constants DEF ThreadKnows
<1>10. BusyHolds(Client) /\ Busy(Client) /\ ClientIsHeard
    BY <1>1, <1>3 DEF HeldInv, Busy
<1>11. CASE result[Client] = "Success"
  <2>1. /\ isAllocated' = TRUE /\ resources' = want[Client] /\ fIRMAllocations' = TRUE
        /\ fAllocationGeneration' = generation[Client]
      BY <1>11 DEF Allocated
  <2>2. Holds(want[Client].bandwidth, want[Client].channels)
      BY <1>1, <1>10, <1>11 DEF BusyHolds, HasBoth, HasChannel, Holds, ClientIsHeard
  <2>3. ~InGeneration(generation[Client]) => Holds(0, {})
      BY <1>10 DEF BusyHolds
  <2>4. IdleHolds'
    <3>1. CASE InGeneration(generation[Client])
        BY <1>4, <2>1, <2>2, <3>1 DEF IdleHolds, Answered, Holds, InGeneration
    <3>2. CASE ~InGeneration(generation[Client])
        BY <1>4, <2>1, <2>2, <2>3, <3>2 DEF IdleHolds, Holds
    <3> QED
        BY <3>1, <3>2
  <2>5. ClientIsHeard'
      BY <1>4, <1>5, <1>6, <2>1 DEF ClientIsHeard, Busy, Freeing
  <2> QED
      BY <1>2, <1>8, <1>9, <2>4, <2>5 DEF HeldInv
<1>12. CASE result[Client] # "Success"
  <2>1. UNCHANGED <<isAllocated, resources, fAllocationGeneration, fIRMAllocations>>
      BY <1>12 DEF Allocated, allocVars
  <2>2. Holds(0, {})
      BY <1>1, <1>10, <1>12 DEF BusyHolds, HasBoth, HasChannel, Holds
  <2>3. IdleHolds'
      BY <1>4, <1>6, <2>1, <2>2 DEF IdleHolds, Holds
  <2>4. ClientIsHeard'
      BY <1>4, <1>5, <1>6, <2>1 DEF HeldInv, ClientIsHeard, Busy, Freeing
  <2> QED
      BY <1>2, <1>8, <1>9, <2>3, <2>4 DEF HeldInv
<1> QED
    BY <1>11, <1>12

(* Without the race, an allocation is given back in its own generation.    *)
LEMMA DeallocateKeepsHeld ==
    ASSUME HeldInv, "freeAfterReset" \notin Races, deallocateIsochResources
    PROVE  HeldInv'
<1>1. /\ Inv /\ Types /\ isAllocated /\ fLock = Nobody
      /\ fAllocationGeneration = fBusGeneration
      /\ UNCHANGED <<irmVars, allocVars, objVars, scan, forgotten>>
      /\ generation' = [generation EXCEPT ![Client] = fAllocationGeneration]
      /\ want' = [want EXCEPT ![Client] = resources]
      /\ Go(Client, "freeBandwidth", "Success")
    BY DEF HeldInv, Inv, deallocateIsochResources, Lock
<1>2. Inv'
    BY <1>1, DeallocateInv
<1>3. \A q \in Procs : ~Busy(q)
    BY <1>1, NobodyIsBusy
<1>4. /\ fBusGeneration' = fBusGeneration /\ held' = held /\ forgotten' = forgotten /\ resources' = resources
      /\ isAllocated' = isAllocated /\ fAllocationGeneration' = fAllocationGeneration
      /\ fIRMAllocations' = fIRMAllocations /\ scan' = scan
    BY <1>1 DEF irmVars, allocVars, objVars
<1>5. Holds(resources.bandwidth, resources.channels) /\ Client \in Procs
    BY <1>1, <1>3, Constants DEF HeldInv, IdleHolds, Answered
<1>6. /\ \A q \in Procs \ {Client} :
            pc'[q] = pc[q] /\ want'[q] = want[q] /\ generation'[q] = generation[q]
      /\ pc'[Client] = "freeBandwidth" /\ generation'[Client] = fBusGeneration
      /\ result'[Client] = "Success" /\ want'[Client] = resources
      /\ expectedOldVal'[Client] = Nothing /\ retries'[Client] = 2
    BY <1>1, <1>5, Constants DEF Types, Go, Claims
<1>7. \A q \in Procs : BusyHolds(q)'
    BY <1>3, <1>4, <1>5, <1>6 DEF BusyHolds, Busy, HasBoth, HasChannel, Holds, InGeneration
<1>8. \A q \in Procs : ResultIsOfNoReset(q)'
    BY <1>3, <1>6 DEF ResultIsOfNoReset, Busy, Releases
<1>9. \A q \in Threads : ThreadKnows(q)'
  <2> SUFFICES ASSUME NEW q \in Threads PROVE ThreadKnows(q)'
      OBVIOUS
  <2>1. q \in Procs \ {Client} /\ ThreadKnows(q)
      BY Constants DEF HeldInv
  <2> QED
      BY <1>4, <1>6, <2>1 DEF ThreadKnows, Busy
<1>10. IdleHolds'
    BY <1>5, <1>6 DEF IdleHolds, Busy
<1>11. ClientIsHeard'
    BY <1>1, <1>4, <1>6 DEF HeldInv, Inv, Types, ClientIsHeard, InGeneration
<1> QED
    BY <1>2, <1>7, <1>8, <1>9, <1>10, <1>11 DEF HeldInv

LEMMA DeallocatedKeepsHeld == ASSUME HeldInv, Deallocated PROVE HeldInv'
<1>1. /\ Inv /\ Types /\ pc[Client] = "freed" /\ fLock = Client
      /\ UNCHANGED <<irmVars, scan, callVars, forgotten>>
      /\ Go(Client, "none", "Success")
      /\ isAllocated' = FALSE /\ fIRMAllocations' = FALSE
    BY Constants DEF HeldInv, Inv, Deallocated, OneAtATime
<1>2. Inv'
    BY <1>1, DeallocatedInv
<1>3. /\ Client \in Procs /\ Client \notin Threads
      /\ \A q \in Procs \ {Client} : ~Busy(q)
    BY <1>1, OneIsBusy, Constants
<1>4. /\ \A q \in Procs \ {Client} : pc'[q] = pc[q]
      /\ pc'[Client] = "none"
      /\ fBusGeneration' = fBusGeneration /\ held' = held /\ forgotten' = forgotten /\ scan' = scan
      /\ want' = want /\ generation' = generation
    BY <1>1, <1>3 DEF Go, irmVars, Types, callVars
<1>5. \A q \in Procs : ~Busy(q)'
    BY <1>3, <1>4 DEF Busy
<1>6. fAllocationGeneration = generation[Client] /\ generation[Client] \in Int
      /\ fBusGeneration \in Int
    BY <1>1, Constants DEF HeldInv, Inv, ClientKnows, Freeing, Types
<1>7. Holds(0, {})
    BY <1>1, <1>3 DEF HeldInv, BusyHolds, Busy, HasBoth, HasChannel, Holds
<1>8. \A q \in Threads : ~(pc[q] = "thread" /\ q = fBusGeneration)
  <2> SUFFICES ASSUME NEW q \in Threads, pc[q] = "thread", q = fBusGeneration PROVE FALSE
      OBVIOUS
  <2>1. fAllocationGeneration < q /\ scan = "none"
      BY DEF HeldInv, ThreadKnows
  <2>2. ~InGeneration(generation[Client])
      BY <1>6, <2>1 DEF InGeneration
  <2> QED
      BY <1>1, <2>1, <2>2 DEF HeldInv, ClientIsHeard, Freeing
<1>9. \A q \in Procs : BusyHolds(q)' /\ ResultIsOfNoReset(q)'
    BY <1>5 DEF BusyHolds, ResultIsOfNoReset, Busy, Releases
<1>10. \A q \in Threads : ThreadKnows(q)'
    BY <1>3, <1>4, <1>5, <1>8, Constants DEF ThreadKnows, HeldInv
<1>11. IdleHolds' /\ ClientIsHeard'
    BY <1>1, <1>4, <1>5, <1>7 DEF IdleHolds, Holds, ClientIsHeard, Busy, Freeing
<1> QED
    BY <1>2, <1>9, <1>10, <1>11 DEF HeldInv

(* The client's release never takes an allocation out of the controller's  *)
(* set: the client's own reference, the set's and that of                  *)
(* fIRMAllocationsAllocated make three.                                    *)
LEMMA ReleaseKeepsHeld == ASSUME HeldInv, release PROVE HeldInv'
<1>1. /\ UNCHANGED <<irmVars, allocVars, fLock, scan, callVars, procVars, forgotten>>
      /\ Inv /\ Types /\ owned
    BY DEF HeldInv, Inv, release, ClientMayCall
<1>2. Inv'
  <2>1. scan' = scan /\ scan \in {"none", "due", "closed"}
      BY <1>1 DEF Types
  <2> QED
      BY <1>1, <2>1, StutterInv
<1>3. fIRMAllocations' = fIRMAllocations
  <2> DEFINE T == {p \in Threads : pc[p] # "none"}
  <2>1. IsFiniteSet(Threads)
      BY Constants, FS_Interval DEF Threads
  <2>2. T \subseteq Threads
      OBVIOUS
  <2>3. Cardinality(T) \in Nat
      BY <2>1, <2>2, FS_Subset, FS_CardinalityType
  <2>4. fIRMAllocations => RetainCount = 3 + Cardinality(T)
      BY <1>1, <2>3 DEF RetainCount
  <2> HIDE DEF T
  <2>5. fIRMAllocations => RetainCount # 2
      BY <2>3, <2>4
  <2>6. fIRMAllocations \in BOOLEAN
      BY <1>1 DEF HeldInv, ClientIsHeard, Types
  <2> QED
      BY <2>5, <2>6 DEF release
<1>4. /\ pc' = pc /\ want' = want /\ generation' = generation /\ result' = result
      /\ retries' = retries /\ expectedOldVal' = expectedOldVal
      /\ held' = held /\ forgotten' = forgotten /\ reg' = reg /\ fBusGeneration' = fBusGeneration /\ scan' = scan
      /\ isAllocated' = isAllocated /\ resources' = resources
      /\ fAllocationGeneration' = fAllocationGeneration
    BY <1>1 DEF irmVars, allocVars, callVars, procVars
<1> QED
    BY <1>2, <1>3, <1>4
       DEF HeldInv, BusyHolds, Busy, HasBoth, HasChannel, Holds, InGeneration, IdleHolds,
           Answered, ThreadKnows, ClientIsHeard, ResultIsOfNoReset

(* The scan starts a thread for an allocation of an older generation, of   *)
(* which nothing is held.                                                  *)
LEMMA HandleBusResetKeepsHeld ==
    ASSUME HeldInv, fLock = Nobody, scan # "none", HandleBusReset,
           UNCHANGED <<irmVars, allocVars, fLock, objVars, forgotten>>
    PROVE  HeldInv'
<1>1. /\ Inv /\ Types /\ fBusGeneration \in Threads /\ fBusGeneration \in Procs
      /\ fBusGeneration # Client
    BY Constants DEF HeldInv, Inv, Types
<1>2. Inv'
    BY <1>1, HandleBusResetInv
<1>3. \A q \in Procs : ~Busy(q) /\ pc[Client] = "none"
    BY NobodyIsBusy, Constants DEF HeldInv, Inv, OneAtATime, Busy
<1>4. pc[fBusGeneration] = "none"
    BY <1>1 DEF HeldInv, ThreadKnows
<1>5. /\ fBusGeneration' = fBusGeneration /\ held' = held /\ forgotten' = forgotten /\ scan' = "none"
      /\ isAllocated' = isAllocated /\ fAllocationGeneration' = fAllocationGeneration
      /\ resources' = resources /\ fIRMAllocations' = fIRMAllocations
    BY DEF irmVars, allocVars, objVars, HandleBusReset
<1>6. CASE isAllocated /\ fAllocationGeneration # fBusGeneration
  <2>1. /\ want' = [want EXCEPT ![fBusGeneration] = resources]
        /\ generation' = [generation EXCEPT ![fBusGeneration] = fBusGeneration]
        /\ pc' = [pc EXCEPT ![fBusGeneration] = "thread"]
      BY <1>6 DEF HandleBusReset, Go
  <2>2. /\ \A q \in Procs \ {fBusGeneration} :
              pc'[q] = pc[q] /\ want'[q] = want[q] /\ generation'[q] = generation[q]
        /\ pc'[fBusGeneration] = "thread" /\ want'[fBusGeneration] = resources
        /\ generation'[fBusGeneration] = fBusGeneration
      BY <1>1, <2>1 DEF Types
  <2>3. \A q \in Procs : ~Busy(q)'
      BY <1>3, <2>2 DEF Busy
  <2>4. \A q \in Procs : BusyHolds(q)' /\ ResultIsOfNoReset(q)'
      BY <2>3 DEF BusyHolds, ResultIsOfNoReset, Busy, Releases
  <2>5. fAllocationGeneration < fBusGeneration /\ fBusGeneration <= fBusGeneration
      BY <1>1, <1>6, Constants DEF Types, NoGeneration
  <2>6. \A q \in Threads : ThreadKnows(q)'
    <3> SUFFICES ASSUME NEW q \in Threads PROVE ThreadKnows(q)'
        OBVIOUS
    <3>1. ThreadKnows(q) /\ q \in Procs /\ ~Busy(q)'
        BY <2>3, Constants DEF HeldInv
    <3> QED
        BY <1>5, <1>6, <2>2, <2>5, <3>1 DEF ThreadKnows
  <2>7. IdleHolds'
    <3>1. ~Answered /\ ~Answered'
        BY <1>1, <1>5, <1>6, <2>2 DEF Answered
    <3> QED
        BY <1>3, <1>5, <3>1 DEF IdleHolds, HeldInv, Holds
  <2>8. ClientIsHeard'
      BY <1>1, <1>3, <1>5, <2>2, <2>3, Constants DEF ClientIsHeard, HeldInv, Freeing
  <2> QED
      BY <1>2, <2>4, <2>6, <2>7, <2>8 DEF HeldInv
<1>7. CASE ~(isAllocated /\ fAllocationGeneration # fBusGeneration)
  <2>1. /\ pc' = pc /\ want' = want /\ generation' = generation
      BY <1>7 DEF HandleBusReset, callVars, procVars
  <2>2. \A q \in Procs : ~Busy(q)'
      BY <1>3, <2>1 DEF Busy
  <2>3. \A q \in Procs : BusyHolds(q)' /\ ResultIsOfNoReset(q)'
      BY <2>2 DEF BusyHolds, ResultIsOfNoReset, Busy, Releases
  <2>4. \A q \in Threads : ThreadKnows(q)'
    <3> SUFFICES ASSUME NEW q \in Threads PROVE ThreadKnows(q)'
        OBVIOUS
    <3>1. ThreadKnows(q) /\ q \in Procs /\ ~Busy(q)'
        BY <2>2, Constants DEF HeldInv
    <3> QED
        BY <1>4, <1>5, <2>1, <3>1 DEF ThreadKnows
  <2>5. IdleHolds'
    <3>1. CASE isAllocated
      <4>1. Answered /\ Answered'
          BY <1>5, <1>7, <3>1 DEF Answered
      <4> QED
          BY <1>3, <1>5, <3>1, <4>1 DEF IdleHolds, HeldInv, Holds
    <3>2. CASE ~isAllocated
        BY <1>3, <1>5, <3>2 DEF IdleHolds, HeldInv, Holds
    <3> QED
        BY <3>1, <3>2
  <2>6. ClientIsHeard'
      BY <1>3, <1>5, <2>1, <2>2, Constants DEF ClientIsHeard, HeldInv, Freeing
  <2> QED
      BY <1>2, <2>3, <2>4, <2>5, <2>6 DEF HeldInv
<1> QED
    BY <1>6, <1>7

LEMMA ScanKeepsHeld == ASSUME HeldInv, Scan PROVE HeldInv'
<1>1. CASE handleBusReset
    BY <1>1, HandleBusResetKeepsHeld DEF handleBusReset
<1>2. CASE startBusScan /\ fIRMAllocations /\ fLock = Nobody
    BY <1>2, HandleBusResetKeepsHeld DEF startBusScan
<1>3. CASE startBusScan /\ ~(fIRMAllocations /\ fLock = Nobody)
  <2>1. Inv'
      BY <1>3, ScanInv DEF HeldInv
  <2>2. /\ scan = "due" /\ UNCHANGED <<irmVars, allocVars, fLock, objVars, callVars, procVars, forgotten>>
        /\ \/ scan' = "closed"
           \/ scan' = "none" /\ ~fIRMAllocations
      BY <1>3 DEF startBusScan
  <2>3. /\ pc' = pc /\ want' = want /\ generation' = generation /\ result' = result
        /\ retries' = retries /\ expectedOldVal' = expectedOldVal
        /\ held' = held /\ forgotten' = forgotten /\ reg' = reg /\ fBusGeneration' = fBusGeneration
        /\ isAllocated' = isAllocated /\ resources' = resources
        /\ fAllocationGeneration' = fAllocationGeneration
        /\ fIRMAllocations' = fIRMAllocations
      BY <2>2 DEF irmVars, allocVars, objVars, callVars, procVars
  <2>4. \A q \in Procs : BusyHolds(q)' /\ ResultIsOfNoReset(q)'
      BY <2>3 DEF HeldInv, BusyHolds, Busy, HasBoth, HasChannel, Holds, InGeneration,
                  ResultIsOfNoReset
  <2>5. scan' = "none" => ~isAllocated
      BY <2>2 DEF HeldInv, ClientIsHeard
  <2>6. \A q \in Threads : ThreadKnows(q)'
    <3> SUFFICES ASSUME NEW q \in Threads PROVE ThreadKnows(q)'
        OBVIOUS
    <3>1. ThreadKnows(q)
        BY DEF HeldInv
    <3> QED
        BY <2>2, <2>3, <2>5, <3>1 DEF ThreadKnows, Busy
  <2>7. IdleHolds'
    <3>1. CASE scan' = "none"
        BY <2>3, <2>5, <3>1 DEF HeldInv, IdleHolds, Busy, Holds
    <3>2. CASE scan' = "closed"
        BY <2>2, <2>3, <3>2 DEF HeldInv, IdleHolds, Busy, Holds, Answered
    <3> QED
        BY <2>2, <3>1, <3>2
  <2>8. ClientIsHeard'
    <3>1. pc[Client] \in Freeing => isAllocated
        BY DEF HeldInv, Inv, ClientKnows
    <3> QED
        BY <2>2, <2>3, <2>5, <3>1 DEF HeldInv, ClientIsHeard, Busy, InGeneration
  <2> QED
      BY <2>1, <2>4, <2>6, <2>7, <2>8 DEF HeldInv
<1> QED
    BY <1>1, <1>2, <1>3 DEF Scan

(* A thread claims for an allocation of which the reset has taken all; one *)
(* that a later reset overtook leaves.                                     *)
LEMMA ThreadFuncKeepsHeld ==
    ASSUME HeldInv, NEW p \in Threads, threadFunc(p) PROVE HeldInv'
<1>1. /\ Inv /\ Types /\ pc[p] = "thread" /\ fLock = Nobody /\ p \in Procs /\ p # Client
      /\ UNCHANGED <<irmVars, allocVars, objVars, scan, callVars, forgotten>>
    BY Constants DEF HeldInv, Inv, threadFunc, Lock
<1>2. Inv'
    BY ThreadFuncInv DEF HeldInv
<1>3. \A q \in Procs : ~Busy(q)
    BY <1>1, NobodyIsBusy
<1>4. /\ fBusGeneration' = fBusGeneration /\ held' = held /\ forgotten' = forgotten /\ scan' = scan
      /\ isAllocated' = isAllocated /\ fAllocationGeneration' = fAllocationGeneration
      /\ resources' = resources /\ fIRMAllocations' = fIRMAllocations
      /\ want' = want /\ generation' = generation
    BY <1>1 DEF irmVars, allocVars, objVars, callVars
<1>5. p = fBusGeneration => /\ isAllocated /\ fAllocationGeneration < p /\ want[p] = resources
                            /\ fAllocationGeneration # NoGeneration /\ generation[p] = p
                            /\ ~Answered
  <2> SUFFICES ASSUME p = fBusGeneration
               PROVE  /\ isAllocated /\ fAllocationGeneration < p /\ want[p] = resources
                      /\ fAllocationGeneration # NoGeneration /\ generation[p] = p
                      /\ ~Answered
      OBVIOUS
  <2>1. /\ isAllocated /\ fAllocationGeneration < p /\ want[p] = resources
        /\ generation[p] = p /\ fAllocationGeneration >= 1
      BY <1>1 DEF HeldInv, ThreadKnows, ClientIsHeard
  <2>2. fAllocationGeneration # p
      BY <2>1, Constants
  <2> QED
      BY <1>1, <2>1, <2>2 DEF NoGeneration, Answered
<1>6. CASE p = fBusGeneration
  <2>1. Go(p, "claimChannel", "Success")
      BY <1>5, <1>6 DEF threadFunc
  <2>2. /\ \A q \in Procs \ {p} : pc'[q] = pc[q]
        /\ pc'[p] = "claimChannel" /\ result'[p] = "Success"
      BY <1>1, <2>1 DEF Go, Types
  <2>3. Holds(0, {})
      BY <1>3, <1>5, <1>6 DEF HeldInv, IdleHolds
  <2>4. \A q \in Procs : BusyHolds(q)' /\ ResultIsOfNoReset(q)'
      BY <1>3, <1>4, <2>2, <2>3
         DEF BusyHolds, ResultIsOfNoReset, Busy, HasBoth, HasChannel, Holds, Releases
  <2>5. \A q \in Threads : ThreadKnows(q)'
    <3> SUFFICES ASSUME NEW q \in Threads PROVE ThreadKnows(q)'
        OBVIOUS
    <3>1. ThreadKnows(q) /\ q \in Procs /\ ~Busy(q)
        BY <1>3, Constants DEF HeldInv
    <3>2. CASE q = p
        BY <1>1, <1>4, <1>5, <1>6, <2>2, <3>1, <3>2 DEF ThreadKnows
    <3>3. CASE q # p
        BY <1>4, <2>2, <3>1, <3>3 DEF ThreadKnows, Busy
    <3> QED
        BY <3>2, <3>3
  <2>6. IdleHolds'
      BY <1>1, <2>2 DEF IdleHolds, Busy
  <2>7. ClientIsHeard'
      BY <1>1, <1>3, <1>4, <2>2, Constants DEF HeldInv, ClientIsHeard, Busy, Freeing
  <2> QED
      BY <1>2, <2>4, <2>5, <2>6, <2>7 DEF HeldInv
<1>7. CASE p # fBusGeneration
  <2>1. Go(p, "none", "Success")
      BY <1>7 DEF threadFunc
  <2>2. /\ \A q \in Procs \ {p} : pc'[q] = pc[q]
        /\ pc'[p] = "none"
      BY <1>1, <2>1 DEF Go, Types
  <2>3. \A q \in Procs : ~Busy(q)'
      BY <1>3, <2>2 DEF Busy
  <2>4. \A q \in Procs : BusyHolds(q)' /\ ResultIsOfNoReset(q)'
      BY <2>3 DEF BusyHolds, ResultIsOfNoReset, Busy, Releases
  <2>5. \A q \in Threads : ThreadKnows(q)'
    <3> SUFFICES ASSUME NEW q \in Threads PROVE ThreadKnows(q)'
        OBVIOUS
    <3>1. ThreadKnows(q) /\ q \in Procs /\ ~Busy(q)'
        BY <2>3, Constants DEF HeldInv
    <3> QED
        BY <1>4, <2>2, <3>1 DEF ThreadKnows
  <2>6. IdleHolds'
    <3>1. Answered' <=> Answered
        BY <1>1, <1>4, <1>7, <2>2, Constants DEF Answered
    <3> QED
        BY <1>3, <1>4, <3>1 DEF HeldInv, IdleHolds, Holds
  <2>7. ClientIsHeard'
      BY <1>1, <1>3, <1>4, <2>2, Constants DEF HeldInv, ClientIsHeard, Busy, Freeing
  <2> QED
      BY <1>2, <2>4, <2>5, <2>6, <2>7 DEF HeldInv
<1> QED
    BY <1>6, <1>7

(* A thread that succeeds holds what is allocated, or a later reset has    *)
(* come and its scan is due; one that fails gives the allocation up.       *)
LEMMA ReallocatedKeepsHeld ==
    ASSUME HeldInv, NEW p \in Threads, Reallocated(p) PROVE HeldInv'
<1>1. /\ Inv /\ Types /\ pc[p] = "end" /\ p \in Procs /\ p # Client /\ Busy(p)
      /\ UNCHANGED <<irmVars, owned, scan, callVars, forgotten>>
      /\ Go(p, "none", "Success")
    BY Constants DEF HeldInv, Inv, Reallocated, Busy
<1>2. Inv'
    BY ReallocatedInv DEF HeldInv
<1>3. \A q \in Procs \ {p} : ~Busy(q)
    BY <1>1, OneIsBusy DEF Inv, OneAtATime
<1>4. /\ \A q \in Procs \ {p} : pc'[q] = pc[q]
      /\ pc'[p] = "none"
      /\ fBusGeneration' = fBusGeneration /\ held' = held /\ forgotten' = forgotten /\ scan' = scan
      /\ want' = want /\ generation' = generation
    BY <1>1 DEF Go, irmVars, Types, callVars
<1>5. \A q \in Procs : ~Busy(q)'
    BY <1>3, <1>4 DEF Busy
<1>6. \A q \in Procs : BusyHolds(q)' /\ ResultIsOfNoReset(q)'
    BY <1>5 DEF BusyHolds, ResultIsOfNoReset, Busy, Releases
<1>7. /\ isAllocated /\ fAllocationGeneration < p /\ want[p] = resources
      /\ generation[p] = p /\ p <= fBusGeneration
      /\ p = fBusGeneration => scan = "none"
      /\ p # fBusGeneration => scan # "none"
      /\ fAllocationGeneration >= 1
    BY <1>1 DEF HeldInv, ThreadKnows, ClientIsHeard
<1>8. fAllocationGeneration # fBusGeneration /\ fAllocationGeneration \in Int
      /\ fBusGeneration \in Int
    BY <1>1, <1>7, Constants DEF Types
<1>9. \A q \in Threads \ {p} : ~(pc[q] = "thread" /\ q = fBusGeneration)
    BY <1>7 DEF HeldInv, ThreadKnows
<1>10. \A q \in Threads : ThreadKnows(q)'
  <2> SUFFICES ASSUME NEW q \in Threads PROVE ThreadKnows(q)'
      OBVIOUS
  <2>1. ThreadKnows(q) /\ q \in Procs /\ ~Busy(q)'
      BY <1>5, Constants DEF HeldInv
  <2> QED
      BY <1>4, <1>9, <2>1 DEF ThreadKnows
<1>11. BusyHolds(p) /\ ResultIsOfNoReset(p)
    BY <1>1 DEF HeldInv
<1>12. ASSUME result[p] \in {"Success", "BusReset"} PROVE IdleHolds' /\ ClientIsHeard'
  <2>1. /\ isAllocated' = isAllocated /\ fAllocationGeneration' = fAllocationGeneration
        /\ resources' = resources /\ fIRMAllocations' = fIRMAllocations
      BY <1>12 DEF Reallocated, allocVars
  <2>2. CASE p = fBusGeneration
    <3>1. InGeneration(generation[p]) /\ result[p] = "Success"
        BY <1>1, <1>7, <1>11, <1>12, <2>2 DEF InGeneration, ResultIsOfNoReset
    <3>2. Holds(resources.bandwidth, resources.channels)
        BY <1>1, <1>7, <1>11, <3>1 DEF BusyHolds, HasBoth, HasChannel
    <3>3. Answered'
        BY <1>4, <1>7, <2>2 DEF Answered
    <3> QED
        BY <1>4, <1>5, <1>7, <2>1, <3>2, <3>3, <1>1, Constants
           DEF IdleHolds, Holds, HeldInv, ClientIsHeard, Freeing, Busy
  <2>3. CASE p # fBusGeneration
    <3>1. Holds(0, {})
        BY <1>1, <1>7, <1>11, <2>3 DEF BusyHolds, InGeneration
    <3>2. ~Answered'
        BY <1>4, <1>7, <1>8, <2>1, <2>3 DEF Answered
    <3>3. IdleHolds'
        BY <1>4, <3>1, <3>2 DEF IdleHolds, Holds
    <3>4. ~Busy(Client) /\ ~Busy(Client)'
        BY <1>1, <1>3, <1>5, Constants
    <3>5. ClientIsHeard'
        BY <1>1, <1>4, <2>1, <3>4, Constants DEF HeldInv, ClientIsHeard, Freeing, Busy
    <3> QED
        BY <3>3, <3>5
  <2> QED
      BY <2>2, <2>3
<1>13. ASSUME result[p] \notin {"Success", "BusReset"} PROVE IdleHolds' /\ ClientIsHeard'
  <2>1. isAllocated' = FALSE /\ fIRMAllocations' = FALSE
      BY <1>13 DEF Reallocated
  <2>2. Holds(0, {})
      BY <1>1, <1>11, <1>13 DEF BusyHolds, HasBoth, HasChannel, Holds
  <2>3. ~Busy(Client) /\ ~Busy(Client)' /\ pc'[Client] = pc[Client]
      BY <1>1, <1>3, <1>4, <1>5, Constants
  <2> QED
      BY <1>4, <1>5, <2>1, <2>2, <2>3
         DEF IdleHolds, Holds, HeldInv, ClientIsHeard, Freeing, Busy
<1> QED
    BY <1>2, <1>6, <1>10, <1>12, <1>13 DEF HeldInv

(* A reset that does not come between the client's last claim and its      *)
(* registration takes everything, and a scan is due.                       *)
LEMMA BusResetKeepsHeld ==
    ASSUME HeldInv, "lateRegistration" \notin Races, BusReset
    PROVE  HeldInv'
<1>1. /\ Inv /\ Types /\ ~LastClaimIsMade
      /\ fBusGeneration' = fBusGeneration + 1 /\ fBusGeneration \in 1..MaxGeneration
      /\ held' = Nothing /\ forgotten' = Nothing /\ scan' = "due"
      /\ UNCHANGED <<allocVars, fLock, objVars, callVars, procVars>>
    BY DEF HeldInv, Inv, Types, BusReset, ResetRegisters
<1>2. Inv'
    BY BusResetInv DEF HeldInv
<1>3. /\ pc' = pc /\ want' = want /\ generation' = generation /\ result' = result
      /\ retries' = retries /\ expectedOldVal' = expectedOldVal
      /\ isAllocated' = isAllocated /\ resources' = resources
      /\ fAllocationGeneration' = fAllocationGeneration
      /\ fIRMAllocations' = fIRMAllocations
    BY <1>1 DEF allocVars, objVars, callVars, procVars
<1>4. Holds(0, {})'
    BY <1>1, WantIsTyped, Constants DEF Holds, Nothing
<1>5. /\ \A q \in Procs : generation[q] \in Int /\ generation[q] < fBusGeneration + 1
      /\ fAllocationGeneration \in Int /\ fAllocationGeneration < fBusGeneration + 1
    BY <1>1, Constants DEF Types, NoGeneration
<1>6. \A q \in Procs : ~InGeneration(generation[q])'
    BY <1>1, <1>3, <1>5 DEF InGeneration
<1>7. \A q \in Procs : BusyHolds(q)'
    BY <1>4, <1>6 DEF BusyHolds
<1>8. \A q \in Procs : ResultIsOfNoReset(q)'
    BY <1>3, <1>6 DEF HeldInv, ResultIsOfNoReset
<1>9. \A q \in Threads : ThreadKnows(q)'
  <2> SUFFICES ASSUME NEW q \in Threads PROVE ThreadKnows(q)'
      OBVIOUS
  <2>1. ThreadKnows(q) /\ q \in Int
      BY Constants DEF HeldInv
  <2>2. pc[q] # "none" => q <= fBusGeneration /\ q # fBusGeneration + 1
                          /\ q <= fBusGeneration + 1
      BY <1>1, <2>1 DEF ThreadKnows
  <2> QED
      BY <1>1, <1>3, <2>1, <2>2 DEF ThreadKnows, Busy
<1>10. IdleHolds'
  <2>1. ~Answered'
      BY <1>1, <1>3, <1>5 DEF Answered
  <2> QED
      BY <1>4, <2>1 DEF IdleHolds
<1>11. ClientIsHeard'
    BY <1>1, <1>3 DEF HeldInv, ClientIsHeard, LastClaimIsMade, Busy, InGeneration
<1> QED
    BY <1>2, <1>7, <1>8, <1>9, <1>10, <1>11 DEF HeldInv

(* Other nodes leave what this node holds, and its releases, alone.        *)
LEMMA OtherNodesKeepHeld ==
    ASSUME HeldInv, OtherNodes
    PROVE  HeldInv'
<1>1. /\ Inv /\ fBusGeneration' = fBusGeneration /\ held' = held /\ forgotten' = forgotten
      /\ UNCHANGED <<allocVars, fLock, objVars, scan, callVars, procVars, forgotten>>
    BY DEF HeldInv, OtherNodes, OtherNodesClaim, OtherNodesRelease, OtherSwaps
<1>2. Inv'
    BY OtherNodesInv DEF HeldInv
<1>3. /\ pc' = pc /\ want' = want /\ generation' = generation /\ result' = result
      /\ retries' = retries /\ expectedOldVal' = expectedOldVal
      /\ isAllocated' = isAllocated /\ resources' = resources
      /\ fAllocationGeneration' = fAllocationGeneration
      /\ fIRMAllocations' = fIRMAllocations /\ scan' = scan
    BY <1>1 DEF allocVars, objVars, callVars, procVars
<1> QED
    BY <1>1, <1>2, <1>3
       DEF HeldInv, BusyHolds, Busy, HasBoth, HasChannel, Holds, InGeneration, IdleHolds,
           Answered, ThreadKnows, ClientIsHeard, ResultIsOfNoReset

LEMMA InitHeld == Init => HeldInv
<1> SUFFICES ASSUME Init PROVE HeldInv
    OBVIOUS
<1>1. Inv
    BY InitInv
<1>2. /\ \A p \in Procs : pc[p] = "none" /\ result[p] = "Success"
      /\ held.bandwidth = 0 /\ held.channels = {} /\ Client \in Procs
      /\ forgotten.bandwidth = 0 /\ forgotten.channels = {}
      /\ isAllocated = FALSE /\ fIRMAllocations = FALSE
    BY Constants DEF Init, IRMInit, Nothing
<1>3. Holds(0, {})
    BY <1>2 DEF Holds
<1> QED
    BY <1>1, <1>2, <1>3, Constants
       DEF HeldInv, BusyHolds, Busy, IdleHolds, ThreadKnows, ClientIsHeard,
           ResultIsOfNoReset, Releases, Freeing

LEMMA NextKeepsHeld ==
    ASSUME HeldInv, Races \subseteq {"staleThread", "lockOrder"}, [Next]_vars
    PROVE  HeldInv'
<1>1. /\ "freeAfterReset" \notin Races /\ "lateRegistration" \notin Races
    OBVIOUS
<1>2. CASE UNCHANGED vars
  <2>1. Inv'
      BY <1>2, NextInv DEF HeldInv
  <2>2. /\ pc' = pc /\ want' = want /\ generation' = generation /\ result' = result
        /\ retries' = retries /\ expectedOldVal' = expectedOldVal
        /\ held' = held /\ forgotten' = forgotten /\ reg' = reg /\ fBusGeneration' = fBusGeneration
        /\ isAllocated' = isAllocated /\ resources' = resources
        /\ fAllocationGeneration' = fAllocationGeneration
        /\ fIRMAllocations' = fIRMAllocations /\ scan' = scan
      BY <1>2 DEF vars, irmVars, allocVars, objVars, callVars, procVars
  <2> QED
      BY <2>1, <2>2
         DEF HeldInv, BusyHolds, Busy, HasBoth, HasChannel, Holds, InGeneration, IdleHolds,
             Answered, ThreadKnows, ClientIsHeard, ResultIsOfNoReset
<1>3. CASE allocateIsochResources
    BY <1>3, AllocateKeepsHeld
<1>4. CASE deallocateIsochResources
    BY <1>1, <1>4, DeallocateKeepsHeld
<1>5. CASE release
    BY <1>5, ReleaseKeepsHeld
<1>6. CASE ClientStep
    BY <1>6, TransactKeepsHeld, AllocatedKeepsHeld, DeallocatedKeepsHeld, Constants
       DEF ClientStep
<1>7. CASE \E p \in Threads : ThreadStep(p)
    BY <1>7, ThreadFuncKeepsHeld, TransactKeepsHeld, ReallocatedKeepsHeld, Constants
       DEF ThreadStep
<1>8. CASE Scan
    BY <1>8, ScanKeepsHeld
<1>9. CASE BusReset
    BY <1>1, <1>9, BusResetKeepsHeld
<1>10. CASE OtherNodes
    BY <1>10, OtherNodesKeepHeld
<1> QED
    BY <1>2, <1>3, <1>4, <1>5, <1>6, <1>7, <1>8, <1>9, <1>10 DEF Next

(* When nothing is under way, what this node holds is what the allocation  *)
(* records and what its failed give-backs of this generation have left:    *)
(* however the client's calls, failing transactions, resets, their scans,  *)
(* the threads that claim again and the other nodes' claims come between   *)
(* each other, but for the races in which the code loses it.  A reset may  *)
(* find the thread of the last one, and the scan may find the lock taken   *)
(* (IOFireWireIRM.cpp:380-700).                                            *)
THEOREM AllocationIsHeldInEveryGeneration ==
    ASSUME Races \subseteq {"staleThread", "lockOrder"}
    PROVE  Spec => []HeldWhileAllocated
<1>1. Init => HeldInv
    BY InitHeld
<1>2. HeldInv /\ [Next]_vars => HeldInv'
    BY NextKeepsHeld
<1>3. ASSUME HeldInv PROVE HeldWhileAllocated
  <2> SUFFICES ASSUME Quiet
               PROVE  HoldsJust(IF isAllocated THEN resources ELSE Nothing)
      BY DEF HeldWhileAllocated
  <2>1. /\ \A p \in Procs : ~Busy(p) /\ pc[p] = "none"
        /\ scan = "none" /\ Answered
      BY Constants DEF Quiet, Busy, Answered
  <2>2. Nothing.bandwidth = 0 /\ Nothing.channels = {}
      BY DEF Nothing
  <2>3. IF isAllocated THEN Holds(resources.bandwidth, resources.channels) ELSE Holds(0, {})
      BY <1>3, <2>1 DEF HeldInv, IdleHolds
  <2> QED
      BY <2>2, <2>3 DEF Holds, HoldsJust
<1> QED
    BY <1>1, <1>2, <1>3, PTL DEF Spec

(* A reallocation is refused for something that it asked for.              *)
RefusedSomething ==
    \A p \in Procs : Busy(p) /\ result[p] = "NotAvailable" =>
                        want[p].bandwidth # 0 \/ want[p].channels # {}

LEMMA NextRefuses ==
    ASSUME Inv, RefusedSomething, [Next]_vars PROVE RefusedSomething'
<1> SUFFICES ASSUME NEW p \in Procs, Busy(p)', result'[p] = "NotAvailable"
             PROVE  (want[p].bandwidth # 0 \/ want[p].channels # {})'
    BY DEF RefusedSomething
<1>1. Types /\ p \in Procs
    BY DEF Inv
<1>2. CASE UNCHANGED <<pc, result, want>>
    BY <1>2 DEF RefusedSomething, Busy
<1>3. CASE Transact(p)
  <2>1. pc[p] \in Claims \cup Releases /\ want' = want /\ Busy(p)
      BY <1>3 DEF Transact, callVars, Busy, Claims, Releases
  <2>2. CASE UNCHANGED <<pc, result>>
      BY <2>1, <2>2 DEF RefusedSomething
  <2>3. CASE want[p][Register(pc[p])] # Nothing[Register(pc[p])]
      BY <1>1, <2>1, <2>3, WantIsTyped DEF Register
  <2>4. CASE pc[p] \in Claims \cup {"undoChannel", "freeBandwidth", "freeChannel"}
             /\ want[p][Register(pc[p])] = Nothing[Register(pc[p])]
    <3>1. Leave(p, "Success")
        BY <1>3, <2>4 DEF Transact, Ends
    <3>2. "Success" \in Statuses
        BY DEF Statuses
    <3>3. pc[p] \in Claims => result'[p] = "Success"
        BY <1>1, <2>1, <3>1, <3>2, LeavesFor DEF Claims
    <3>4. pc[p] \in {"freeBandwidth", "freeChannel"} => result'[p] = "Success"
        BY <1>1, <2>1, <3>1, LeavesAfresh
    <3>5. pc[p] = "undoChannel" => result'[p] = result[p]
        BY <1>1, <2>1, <3>1, <3>2, LeavesFor
    <3> QED
        BY <2>1, <2>4, <3>3, <3>4, <3>5 DEF RefusedSomething
  <2> QED
      BY <2>1, <2>3, <2>4 DEF Releases
<1>4. ASSUME NEW q \in Procs \ {p}, Transact(q)
      PROVE  (want[p].bandwidth # 0 \/ want[p].channels # {})'
  <2>1. pc[q] \in Claims \cup Releases /\ want' = want
      BY <1>4 DEF Transact, callVars
  <2>2. UNCHANGED <<pc, result>> \/ \E status \in Statuses : Leave(q, status)
      BY <1>1, <1>4, TransactEnds
         DEF TriesAgain, Ends, Fails, HasNothingToDo, Succeeds, Statuses
  <2>3. pc'[p] = pc[p] /\ result'[p] = result[p]
      BY <1>1, <1>4, <2>1, <2>2, LeaveTypes DEF Types
  <2> QED
      BY <2>1, <2>3 DEF RefusedSomething, Busy
<1>5. ASSUME NEW q \in Procs, NEW label, Go(q, label, "Success"),
             \A r \in Procs \ {q} : want'[r] = want[r]
      PROVE  (want[p].bandwidth # 0 \/ want[p].channels # {})'
  <2>1. /\ result'[q] = "Success"
        /\ \A r \in Procs \ {q} : result'[r] = result[r] /\ pc'[r] = pc[r]
      BY <1>1, <1>5 DEF Go, Types
  <2>2. p # q
      BY <2>1
  <2> QED
      BY <1>5, <2>1, <2>2 DEF RefusedSomething, Busy
<1>6. CASE allocateIsochResources \/ deallocateIsochResources
  <2>1. /\ \E label : Go(Client, label, "Success")
        /\ \A r \in Procs \ {Client} : want'[r] = want[r]
      BY <1>1, <1>6, Constants DEF allocateIsochResources, deallocateIsochResources, Types
  <2> QED
      BY <1>5, <2>1, Constants
<1>7. CASE Allocated \/ Deallocated
  <2>1. Go(Client, "none", "Success") /\ want' = want
      BY <1>7 DEF Allocated, Deallocated, callVars
  <2> QED
      BY <1>5, <2>1, Constants
<1>8. ASSUME NEW q \in Threads, threadFunc(q) \/ Reallocated(q)
      PROVE  (want[p].bandwidth # 0 \/ want[p].channels # {})'
  <2>1. /\ \E label : Go(q, label, "Success")
        /\ want' = want
      BY <1>8 DEF threadFunc, Reallocated, callVars
  <2> QED
      BY <1>5, <2>1, Constants
<1>9. CASE Scan
  <2>1. CASE UNCHANGED <<callVars, procVars>>
      BY <1>2, <2>1 DEF callVars, procVars
  <2>2. CASE HandleBusReset /\ ~UNCHANGED <<callVars, procVars>>
    <3>1. fBusGeneration \in Procs
        BY <1>1, <1>9, Constants DEF Types, Scan, startBusScan, handleBusReset
    <3>2. /\ want' = [want EXCEPT ![fBusGeneration] = resources]
          /\ Go(fBusGeneration, "thread", "Success")
        BY <2>2 DEF HandleBusReset
    <3> QED
        BY <1>1, <1>5, <3>1, <3>2 DEF Types
  <2> QED
      BY <1>9, <2>1, <2>2 DEF Scan, startBusScan, handleBusReset
<1>10. CASE BusReset \/ OtherNodes \/ release \/ UNCHANGED vars
    BY <1>2, <1>10 DEF BusReset, OtherNodes, release, vars, callVars, procVars
<1>11. CASE \E q \in Procs : Transact(q)
    BY <1>3, <1>4, <1>11
<1> QED
    BY <1>6, <1>7, <1>8, <1>9, <1>10, <1>11, Constants DEF Next, ClientStep, ThreadStep

(* The client is told of a loss only if it is one: a thread that gives the *)
(* allocation up holds no part of it (threadFunc,                          *)
(* IOFireWireIRM.cpp:640-700), under the same races.                       *)
THEOREM LossIsReal ==
    ASSUME Races \subseteq {"staleThread", "lockOrder"}
    PROVE  Spec => LostOnlyIfNotHeld
<1>1. Init => HeldInv /\ RefusedSomething
    BY InitHeld DEF Init, RefusedSomething, Busy
<1>2. HeldInv /\ RefusedSomething /\ [Next]_vars => HeldInv' /\ RefusedSomething'
    BY NextKeepsHeld, NextRefuses DEF HeldInv
<1>3. ASSUME HeldInv, RefusedSomething, NEW p \in Threads, Reallocated(p), ~isAllocated'
      PROVE  ~HoldsJust(resources)
  <2>1. /\ pc[p] = "end" /\ p \in Procs /\ Busy(p) /\ Types
        /\ isAllocated /\ want[p] = resources /\ BusyHolds(p)
      BY <1>3, Constants DEF HeldInv, Inv, Reallocated, ThreadKnows, Busy
  <2>2. result[p] = "NotAvailable"
      BY <1>3, <2>1 DEF Reallocated, allocVars, Types
  <2>3. Holds(0, {})
      BY <2>1, <2>2 DEF BusyHolds, HasBoth, HasChannel, Holds
  <2>4. /\ resources.bandwidth # 0 \/ resources.channels # {}
        /\ resources.bandwidth \in Int /\ forgotten.bandwidth \in Int
      BY <1>3, <2>1, <2>2, WantIsTyped DEF RefusedSomething
  <2> QED
      BY <2>3, <2>4 DEF Holds, HoldsJust
<1>4. HeldInv /\ RefusedSomething =>
         [\A p \in Threads : Reallocated(p) /\ ~isAllocated' => ~HoldsJust(resources)]_vars
    BY <1>3
<1> QED
    BY <1>1, <1>2, <1>4, PTL DEF Spec, LostOnlyIfNotHeld

-----------------------------------------------------------------------------
(***************************************************************************)
(* The broadcast channel                                                   *)
(***************************************************************************)

LockCommands ==
    [fLockCmdInUse : BOOLEAN, fLockRetries : -1 .. LockRetries,
     old : SUBSET ChannelNumbers, new : SUBSET ChannelNumbers]

(* The other nodes leave the broadcast channel to the IRM; a lock in use   *)
(* takes nothing but the broadcast channel out of what it expects          *)
BroadcastInv ==
    /\ hardware \in [generation : Nat, channels : SUBSET ChannelNumbers]
    /\ claimed \subseteq ChannelNumbers \ {Broadcast}
    /\ claimed \cap hardware.channels = {}
    /\ irm.fGeneration \in Nat /\ irm.fGeneration <= hardware.generation
    /\ lockCmd \in LockCommands
    /\ lockCmd.fLockCmdInUse => /\ lockCmd.new = lockCmd.old \ {Broadcast}
                                /\ lockCmd.fLockRetries >= 0
    /\ valid \in BOOLEAN
    /\ allocated \in Int /\ allocated <= hardware.generation
    /\ AllocatedIsTaken
    /\ OnlyTheIRMIsValid

(* A lock that is made ready.                                              *)
LEMMA LockIsMadeReady ==
    ASSUME NEW cmd \in LockCommands
    PROVE  /\ allocateBroadcastChannel(cmd) \in LockCommands
           /\ allocateBroadcastChannel(cmd).fLockRetries = cmd.fLockRetries
           /\ allocateBroadcastChannel(cmd).old = cmd.old
           /\ allocateBroadcastChannel(cmd).new = cmd.old \ {Broadcast}
  BY DEF allocateBroadcastChannel, LockCommands

LEMMA BroadcastInitInv == BroadcastInit => BroadcastInv
<1> SUFFICES ASSUME BroadcastInit PROVE BroadcastInv
    OBVIOUS
<1>1. LockRetries \in Nat
    BY BroadcastAssumption DEF BroadcastAssumption
<1>2. lockCmd \in LockCommands
    BY <1>1 DEF BroadcastInit, LockCommands
<1>3. /\ hardware = [generation |-> 0, channels |-> ChannelNumbers] /\ claimed = {}
      /\ irm.fGeneration = 0 /\ lockCmd.fLockCmdInUse = FALSE
      /\ valid = FALSE /\ allocated = -1
    BY DEF BroadcastInit
<1>4. /\ hardware.generation = 0
      /\ hardware \in [generation : Nat, channels : SUBSET ChannelNumbers]
    BY <1>3
<1>5. AllocatedIsTaken /\ OnlyTheIRMIsValid
    BY <1>3, <1>4 DEF AllocatedIsTaken, OnlyTheIRMIsValid
<1>6. irm.fGeneration \in Nat /\ irm.fGeneration <= hardware.generation
    BY <1>3, <1>4
<1>7. allocated \in Int /\ allocated <= hardware.generation
    BY <1>3, <1>4
<1>8. claimed \subseteq ChannelNumbers \ {Broadcast} /\ claimed \cap hardware.channels = {}
    BY <1>3
<1> QED
    BY <1>2, <1>3, <1>4, <1>5, <1>6, <1>7, <1>8 DEF BroadcastInv

(* What the bus does leaves the controller alone.                          *)
LEMMA BusKeepsBroadcast ==
    ASSUME BroadcastInv,
           \/ BusIsReset
           \/ \E c \in ChannelNumbers : OtherNodeClaims(c) \/ OtherNodeReleases(c)
    PROVE  BroadcastInv'
<1> USE DEF BroadcastInv
<1>1. UNCHANGED <<irm, lockCmd, valid, allocated>>
    BY DEF BusIsReset, OtherNodeClaims, OtherNodeReleases
<1>2. /\ hardware' \in [generation : Nat, channels : SUBSET ChannelNumbers]
      /\ claimed' \subseteq ChannelNumbers \ {Broadcast}
      /\ claimed' \cap hardware'.channels = {}
      /\ hardware'.generation >= hardware.generation
      /\ hardware'.generation = hardware.generation =>
            (Broadcast \notin hardware.channels => Broadcast \notin hardware'.channels)
      /\ allocated = hardware'.generation => hardware'.generation = hardware.generation
  <2>1. CASE BusIsReset
    <3>1. hardware' = [generation |-> hardware.generation + 1, channels |-> ChannelNumbers]
          /\ claimed' = {}
        BY <2>1 DEF BusIsReset
    <3> QED
        BY <3>1
  <2>2. ASSUME NEW c \in ChannelNumbers, OtherNodeClaims(c)
        PROVE  /\ hardware' \in [generation : Nat, channels : SUBSET ChannelNumbers]
               /\ claimed' \subseteq ChannelNumbers \ {Broadcast}
               /\ claimed' \cap hardware'.channels = {}
               /\ hardware'.generation = hardware.generation
               /\ hardware'.channels \subseteq hardware.channels
    <3>1. /\ hardware'.generation = hardware.generation
          /\ hardware'.channels = hardware.channels \ {c}
          /\ hardware' \in [generation : Nat, channels : SUBSET ChannelNumbers]
          /\ claimed' = claimed \cup {c} /\ c # Broadcast
        BY <2>2 DEF OtherNodeClaims
    <3> QED
        BY <3>1
  <2>3. ASSUME NEW c \in ChannelNumbers, OtherNodeReleases(c)
        PROVE  /\ hardware' \in [generation : Nat, channels : SUBSET ChannelNumbers]
               /\ claimed' \subseteq ChannelNumbers \ {Broadcast}
               /\ claimed' \cap hardware'.channels = {}
               /\ hardware'.generation = hardware.generation
               /\ hardware'.channels \subseteq hardware.channels \cup {c} /\ c # Broadcast
    <3>1. /\ hardware'.generation = hardware.generation
          /\ hardware'.channels = hardware.channels \cup {c}
          /\ hardware' \in [generation : Nat, channels : SUBSET ChannelNumbers]
          /\ claimed' = claimed \ {c} /\ c \in claimed
        BY <2>3 DEF OtherNodeReleases
    <3> QED
        BY <3>1
  <2> QED
      BY <2>1, <2>2, <2>3
<1> QED
    BY <1>1, <1>2 DEF AllocatedIsTaken, OnlyTheIRMIsValid

LEMMA ResetKeepsBroadcast ==
    ASSUME BroadcastInv, NEW our \in IDs, NEW i \in IDs \cup {kFWBadNodeID},
           resetOfTheIRM(our, i)
    PROVE  BroadcastInv'
<1>1. LockRetries \in Nat
    BY BroadcastAssumption DEF BroadcastAssumption
<1>2. /\ irm'.fGeneration = hardware.generation
      /\ ~lockCmd.fLockCmdInUse
      /\ UNCHANGED <<hardware, claimed, allocated>>
    BY DEF resetOfTheIRM
<1>3. CASE isIRMActive(irm')
  <2>1. lockCmd' = FirstLock /\ valid' = valid
      BY <1>3 DEF resetOfTheIRM
  <2>2. /\ FirstLock \in LockCommands
        /\ FirstLock.new = FirstLock.old \ {Broadcast} /\ FirstLock.fLockRetries >= 0
    <3> DEFINE first == [fLockCmdInUse |-> FALSE, fLockRetries |-> LockRetries,
                         old |-> ChannelNumbers, new |-> ChannelNumbers \ {Broadcast}]
    <3>1. first \in LockCommands /\ first.fLockRetries = LockRetries
        BY <1>1 DEF LockCommands
    <3>2. FirstLock = allocateBroadcastChannel(first)
        BY DEF FirstLock
    <3> HIDE DEF first
    <3>3. /\ FirstLock \in LockCommands /\ FirstLock.fLockRetries = LockRetries
          /\ FirstLock.old = first.old /\ FirstLock.new = first.old \ {Broadcast}
        BY <3>1, <3>2, LockIsMadeReady
    <3> QED
        BY <1>1, <3>3
  <2> HIDE DEF FirstLock
  <2> QED
      BY <1>2, <1>3, <2>1, <2>2
         DEF BroadcastInv, AllocatedIsTaken, OnlyTheIRMIsValid, isIRMActive
<1>4. CASE ~isIRMActive(irm')
  <2>1. lockCmd' = lockCmd /\ valid' = FALSE
      BY <1>4 DEF resetOfTheIRM
  <2> QED
    <3>1. OnlyTheIRMIsValid'
        BY <1>2, <2>1 DEF OnlyTheIRMIsValid
    <3>2. valid' \in BOOLEAN /\ lockCmd' \in LockCommands /\ ~lockCmd'.fLockCmdInUse
        BY <1>2, <2>1 DEF BroadcastInv
    <3>3. irm'.fGeneration \in Nat /\ irm'.fGeneration <= hardware'.generation
        BY <1>2 DEF BroadcastInv
    <3>4. AllocatedIsTaken' /\ allocated' \in Int /\ allocated' <= hardware'.generation
        BY <1>2 DEF BroadcastInv, AllocatedIsTaken
    <3> QED
        BY <1>2, <3>1, <3>2, <3>3, <3>4 DEF BroadcastInv
<1> QED
    BY <1>3, <1>4

LEMMA LockKeepsBroadcast ==
    ASSUME BroadcastInv, LockSucceeds \/ LockIsTriedAgain \/ LockFails \/ LockIsGivenUp
    PROVE  BroadcastInv'
<1>1. LockRetries \in Nat
    BY BroadcastAssumption DEF BroadcastAssumption
<1>2. /\ lockCmd.fLockCmdInUse /\ isIRMActive(irm) /\ isIRMActive(irm)' /\ irm' = irm
    BY DEF BroadcastInv, OnlyTheIRMIsValid, LockSucceeds, LockIsTriedAgain, LockFails,
           LockIsGivenUp, isIRMActive
<1>3. CASE LockSucceeds
  <2>1. /\ hardware'.channels = lockCmd.old \ {Broadcast}
        /\ hardware'.generation = hardware.generation
        /\ hardware' \in [generation : Nat, channels : SUBSET ChannelNumbers]
        /\ hardware.channels = lockCmd.old
      BY <1>2, <1>3 DEF BroadcastInv, LockSucceeds, LockCommands
  <2>2. /\ lockCmd' \in LockCommands
        /\ lockCmd'.fLockCmdInUse = FALSE
      BY <1>3 DEF BroadcastInv, LockSucceeds, LockCommands
  <2> QED
      BY <1>2, <1>3, <2>1, <2>2
         DEF BroadcastInv, LockSucceeds, AllocatedIsTaken, OnlyTheIRMIsValid
<1>4. CASE LockIsTriedAgain
  <2> DEFINE again == [lockCmd EXCEPT !.fLockRetries = @ - 1, !.old = hardware.channels]
  <2>1. /\ lockCmd.fLockRetries \in 1 .. LockRetries
        /\ hardware.channels \subseteq ChannelNumbers
    <3>1. lockCmd.fLockRetries \in -1 .. LockRetries /\ hardware.channels \subseteq ChannelNumbers
        BY DEF BroadcastInv, LockCommands
    <3>2. lockCmd.fLockRetries >= 0 /\ lockCmd.fLockRetries # 0
        BY <1>2, <1>4 DEF BroadcastInv, LockIsTriedAgain
    <3> QED
        BY <1>1, <3>1, <3>2
  <2>2. again \in LockCommands
    <3>1. lockCmd.fLockRetries - 1 \in -1 .. LockRetries /\ lockCmd \in LockCommands
        BY <1>1, <2>1 DEF BroadcastInv
    <3> QED
        BY <2>1, <3>1 DEF LockCommands
  <2>3. again.fLockRetries = lockCmd.fLockRetries - 1 /\ again.old = hardware.channels
      BY DEF BroadcastInv, LockCommands
  <2>4. lockCmd' = allocateBroadcastChannel(again)
      BY <1>4 DEF LockIsTriedAgain
  <2> HIDE DEF again
  <2>5. /\ lockCmd' \in LockCommands
        /\ lockCmd'.new = lockCmd'.old \ {Broadcast}
        /\ lockCmd'.fLockRetries = lockCmd.fLockRetries - 1
      BY <2>2, <2>3, <2>4, LockIsMadeReady
  <2> QED
      BY <1>1, <1>2, <1>4, <2>1, <2>5
         DEF BroadcastInv, LockIsTriedAgain, AllocatedIsTaken, OnlyTheIRMIsValid
<1>5. CASE LockFails \/ LockIsGivenUp
  <2>1. /\ lockCmd' \in LockCommands
        /\ lockCmd'.fLockCmdInUse = FALSE
    <3>1. CASE LockFails
        BY <3>1 DEF BroadcastInv, LockFails, LockCommands
    <3>2. CASE LockIsGivenUp
      <4>1. hardware.channels \in SUBSET ChannelNumbers /\ -1 \in -1 .. LockRetries
          BY <1>1 DEF BroadcastInv
      <4> QED
          BY <3>2, <4>1 DEF BroadcastInv, LockIsGivenUp, LockCommands
    <3> QED
        BY <1>5, <3>1, <3>2
  <2>2. valid' = TRUE /\ UNCHANGED <<hardware, claimed, irm, allocated>>
      BY <1>5 DEF LockFails, LockIsGivenUp
  <2> QED
      BY <1>2, <2>1, <2>2 DEF BroadcastInv, AllocatedIsTaken, OnlyTheIRMIsValid
<1> QED
    BY <1>3, <1>4, <1>5

(* The controller as the IRM: its locks give nothing back that another     *)
(* node has claimed; the broadcast channel that a lock has allocated is    *)
(* taken for the rest of the generation; and its valid bit is set, or a    *)
(* lock under way, only while the controller believes itself the IRM       *)
(* (IOFireWireIRM::lockComplete, processBusReset).                         *)
THEOREM BroadcastChannelIsSound == BroadcastSpec => []BroadcastIsSound
<1>1. BroadcastInit => BroadcastInv
    BY BroadcastInitInv
<1>2. BroadcastInv /\ [BroadcastNext]_broadcastVars => BroadcastInv'
  <2> SUFFICES ASSUME BroadcastInv, [BroadcastNext]_broadcastVars PROVE BroadcastInv'
      OBVIOUS
  <2>1. CASE UNCHANGED broadcastVars
      BY <2>1 DEF broadcastVars, BroadcastInv, AllocatedIsTaken, OnlyTheIRMIsValid, isIRMActive
  <2>2. CASE BroadcastNext
      BY <2>2, BusKeepsBroadcast, ResetKeepsBroadcast, LockKeepsBroadcast DEF BroadcastNext
  <2> QED
      BY <2>1, <2>2
<1>3. BroadcastInv => BroadcastIsSound
    BY DEF BroadcastInv, LockCommands, BroadcastIsSound, OthersKeepTheirChannels, BroadcastTypeOK
<1> QED
    BY <1>1, <1>2, <1>3, PTL DEF BroadcastSpec
=============================================================================
