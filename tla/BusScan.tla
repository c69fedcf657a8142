------------------------------ MODULE BusScan ------------------------------
(***************************************************************************)
(* What a scan of the bus finds and decides: processSelfIDs, startBusScan, *)
(* the ROM reads of each node (readDeviceROM), and finishedBusScan with    *)
(* its choice of root, isochronous resource manager and gap count, each of *)
(* which may reset the bus and have it scanned again.  The module BusReset *)
(* has the timers of a reset; here a reset is one step.                    *)
(*                                                                         *)
(* The PHYs of the bus are external: they obey PHY configuration packets,  *)
(* and their gap counts go to 63 at a reset that no such packet precedes.  *)
(***************************************************************************)
EXTENDS Integers, FiniteSets, FiniteSetsExt, Sequences, SequencesExt

CONSTANTS
    Peers,           \* the other nodes there may be
    Local, NoNode,
    Makes,           \* what each peer may be, of PeerMakes
    Delegates,       \* the values fDelegateCycleMaster may have
    fDSLimited,      \* the FWIM has "FWDSLimit"
    Ignored,         \* the peers that fDebugIgnoreNode names
    PingGaps,        \* the gap counts that ping times may ask for
    kFWSpeedReserved,     \* what a beta PHY reports as its speed
    kFWSpeed800MBit,      \* speeds are 0 (100 MBit) .. this
    MaxTrouble       \* bound: plugs, calls of clients, reads that fail

-----------------------------------------------------------------------------
(* The tree of a bus as the controller builds it from self-IDs: its speed  *)
(* map (buildTopology), hop counts (hopCount), and what is read from them. *)
(* A bus is the sequence of its self-IDs ids, a function on 0..root of     *)
(* records [children, speed]; a node's ID comes after those of the nodes   *)
(* below it, which is what lets child counts alone give the tree.          *)

(* A speed of the map: a speed code and whether it is only a guess         *)
(* (kFWSpeedUnknownMask).                                                  *)
Known(code) == [code |-> code, unknown |-> FALSE]
Guess(code) == [code |-> code, unknown |-> TRUE]

Root(ids) == Cardinality(DOMAIN ids) - 1
Lower(a, b) == IF a < b THEN a ELSE b

-----------------------------------------------------------------------------
(* The walk down from the root: scanList, with level its last element.     *)

(* Up over the nodes whose children have all been met, then down one level: *)
(* the empty list when the self-IDs are no tree.                           *)
NextLevel(list) ==
    LET next[l \in Seq([nodeID : Nat, childrenRemaining : Int])] ==
            IF l = <<>> THEN <<>>
            ELSE IF l[Len(l)].childrenRemaining # 0 THEN l
            ELSE LET up == SubSeq(l, 1, Len(l) - 1)
                 IN  IF up = <<>> THEN <<>>
                     ELSE next[[up EXCEPT ![Len(up)].childrenRemaining = @ - 1]]
    IN  next[list]

(* scanList when node i has been added to it.                              *)
ScanList(ids) ==
    LET at[i \in DOMAIN ids] ==
            LET above == IF i = Root(ids) THEN <<>> ELSE NextLevel(at[i + 1])
            IN  Append(above, [nodeID |-> i,
                               childrenRemaining |-> ids[i].children])
    IN  at

ParentNodeNum(ids, i) ==
    LET list == ScanList(ids)[i] IN list[Len(list) - 1].nodeID

SpeedCode(ids, i, limited) ==
    LET code == IF ids[i].speed = kFWSpeedReserved
                THEN Guess(kFWSpeed800MBit) ELSE Known(ids[i].speed)
    IN  IF limited /\ ~code.unknown THEN Known(0) ELSE code

OwnSpeedOnly(a, b) == [code |-> a.code, unknown |-> a.unknown]     \* mutant

SlowerOf(a, b) == [code |-> Lower(a.code, b.code),
                   unknown |-> a.unknown \/ b.unknown]

(* A node's speed to a higher one is the lower of its own and that of its  *)
(* parent to it.                                                           *)
buildTopology(ids, limited) ==
    LET speed[i \in DOMAIN ids, j \in DOMAIN ids] ==
            IF i > j THEN speed[j, i]
            ELSE IF i = j THEN SpeedCode(ids, i, limited)
            ELSE SlowerOf(SpeedCode(ids, i, limited),
                          speed[ParentNodeNum(ids, i), j])
    IN  speed

hopCount(ids, a, b) ==
    LET hops[i \in DOMAIN ids, j \in DOMAIN ids] ==
            IF i > j THEN hops[j, i]
            ELSE IF i = j THEN 0
            ELSE 1 + hops[ParentNodeNum(ids, i), j]
    IN  hops[a, b]

-----------------------------------------------------------------------------
(* What a tree is: every node but the root has a parent of a higher ID,    *)
(* and the nodes below a node have the IDs just before its own.            *)

Trees(n) ==
    {parent \in [0..n - 2 -> 1..n - 1] :
        \A i \in 0..n - 2 :
            /\ i < parent[i]
            /\ \A k \in i + 1..parent[i] - 1 : parent[k] <= parent[i]}

SelfIDsOf(parent, speed) ==
    [i \in DOMAIN speed |->
        [children |-> Cardinality({k \in DOMAIN parent : parent[k] = i}),
         speed |-> speed[i]]]

Ancestors(parent, i) ==
    LET up[j \in Nat] == {j} \cup IF j \in DOMAIN parent THEN up[parent[j]]
                                  ELSE {}
    IN  up[i]

(* The nodes between two nodes, both included: what is above one of them   *)
(* and not above both, and the lowest of what is above both.               *)
Path(parent, a, b) ==
    LET both == Ancestors(parent, a) \cap Ancestors(parent, b)
        apart == (Ancestors(parent, a) \cup Ancestors(parent, b)) \ both
    IN  apart \cup {CHOOSE m \in both : \A k \in both : m <= k}

RightFor(parent, speed) ==
    LET ids == SelfIDsOf(parent, speed)
        map == buildTopology(ids, FALSE)
        code == [i \in DOMAIN ids |-> SpeedCode(ids, i, FALSE)]
    IN  /\ \A i \in DOMAIN parent : ParentNodeNum(ids, i) = parent[i]
        /\ \A a, b \in DOMAIN ids :
              LET path == Path(parent, a, b)
              IN  /\ hopCount(ids, a, b) = Cardinality(path) - 1
                  /\ \A k \in path : map[a, b].code <= code[k].code
                  /\ \E k \in path : map[a, b].code = code[k].code
                  /\ map[a, b].unknown = \E k \in path : code[k].unknown

(* On every bus of at most n nodes the child counts of the self-IDs give   *)
(* back its tree, a hop count is the number of cables between two nodes,   *)
(* and the speed between them is that of the slowest node on the way, a    *)
(* guess exactly when one of these is.                                     *)
TopologyIsRight(n, Speeds) ==
    \A size \in 1..n : \A parent \in Trees(size) :
        \A speed \in [0..size - 1 -> Speeds] : RightFor(parent, speed)

-----------------------------------------------------------------------------
(* The scan                                                                *)

PeerMakes ==
    [contender : BOOLEAN,    \* its C and L bits
     irmWorks : BOOLEAN,     \* its IRM registers answer
     busMgr : BOOLEAN,       \* kFWBIBBmc
     rom : {"none", "minimal", "full"},
     slow : BOOLEAN,         \* does not answer the first try
     speed : 0..kFWSpeed800MBit,
     guess : BOOLEAN,        \* its PHY reports kFWSpeedReserved
     guid : Nat,
     flags : SUBSET {"kIOFWMustBeRoot", "kIOFWMustNotBeRoot",
                     "kIOFWMustHaveGap63"}]

BadIRM(m) == m.contender /\ ~m.irmWorks

(* A device that must be root and is a bad isochronous resource manager    *)
(* would have the bus reset for ever, by turns for one and the other.      *)
BusScanAssumption ==
    /\ IsFiniteSet(Peers)
    /\ Makes \in [Peers -> SUBSET PeerMakes]
    /\ \A m \in UNION Range(Makes) :
          "kIOFWMustBeRoot" \in m.flags => ~BadIRM(m)
    /\ Local \notin Peers /\ NoNode \notin Peers \cup {Local}
    /\ Delegates \subseteq BOOLEAN /\ fDSLimited \in BOOLEAN
    /\ Ignored \subseteq Peers /\ PingGaps \subseteq 1..63
    /\ MaxTrouble \in Nat
ASSUME BusScanAssumption

VARIABLES
    make,        \* of each peer
    bus,         \* the PHYs: see NewBus
    ids,         \* the nodes by node ID, from ids[1]
    selfIDs,     \* of the last reset: [gap, contender], the latter Local's
    ctl,         \* the controller: see NewController
    scan,        \* of each peer: its IOFWNodeScan
    nubs,        \* of each GUID: the peer its nub is for, its node flags
    trouble

vars == <<make, bus, ids, selfIDs, ctl, scan, nubs, trouble>>

Nodes == Peers \cup {Local}
GUIDs == {m.guid : m \in UNION Range(Makes)} \ {0}
NoScan == [state |-> "none"]
NoPacket == [root |-> 0, gap |-> 0]

NewBus == [nodes |-> {Local}, rhb |-> NoNode, contender |-> TRUE,
           gap |-> [n \in Nodes |-> 63], configured |-> FALSE]

(* mustBeRoot is fNodeMustBeRootFlag with fForcedRootNodeID; reset is what *)
(* there is of a bus reset to come; finished counts the finishedBusScan of *)
(* this generation.                                                        *)
NewController(delegate) ==
    [state |-> "kStarting", reset |-> "issued", finished |-> 0,
     fDelegateCycleMaster |-> delegate, fBadIRMsKnown |-> FALSE,
     mustBeRoot |-> NoNode, fNodeMustNotBeRootFlag |-> FALSE,
     fForcedGapFlag |-> FALSE, fPreviousGap |-> 0,
     fDelayedPhyPacket |-> NoPacket, fBusMgr |-> FALSE,
     fNumROMReads |-> 0, dups |-> {}]

Init ==
    /\ make \in [Peers -> UNION Range(Makes)]
    /\ \A p \in Peers : make[p] \in Makes[p]
    /\ bus = NewBus /\ ids = <<Local>>
    /\ selfIDs = [gap |-> NewBus.gap, contender |-> TRUE]
    /\ \E delegate \in Delegates : ctl = NewController(delegate)
    /\ scan = [p \in Peers |-> NoScan]
    /\ nubs = [g \in GUIDs |-> [node |-> NoNode, flags |-> {}]]
    /\ trouble = MaxTrouble

(* The handlers are operators on what they change.                         *)
Now == [bus |-> bus, ctl |-> ctl, scan |-> scan, nubs |-> nubs]
Becomes(s) == /\ bus' = s.bus /\ ctl' = s.ctl
              /\ scan' = s.scan /\ nubs' = s.nubs
Costs(n) == n <= trouble /\ trouble' = trouble - n

RootNode == ids[Len(ids)]
OnlyNode == Len(ids) = 1

Contender(n) == IF n = Local THEN selfIDs.contender ELSE make[n].contender

LastOf(S) ==
    IF S = {} THEN NoNode
    ELSE ids[Max({i \in DOMAIN ids : ids[i] \in S})]

Contenders == {n \in Range(ids) : Contender(n)}
IRMNode == LastOf(Contenders)

-----------------------------------------------------------------------------
(* The FWIM and the PHYs.                                                  *)

(* A PHY configuration packet: the node with the root ID gets the root     *)
(* hold off bit and all others lose it, or, with 0, all keep theirs; with  *)
(* a gap of 0 the gap counts stay.                                         *)
sendPHYPacket(s, packet) ==
    LET rooted == [s EXCEPT !.bus.rhb =
                      IF packet.root = 0 THEN @
                      ELSE IF packet.root \in DOMAIN ids
                      THEN ids[packet.root] ELSE NoNode]
    IN  IF packet.gap = 0 THEN rooted
        ELSE [rooted EXCEPT !.bus.gap = [n \in Nodes |-> packet.gap],
                            !.bus.configured = TRUE]

IDOf(n) == CHOOSE i \in DOMAIN ids : ids[i] = n
ForceRoot(s, n) == sendPHYPacket(s, [root |-> IDOf(n), gap |-> 0])
setContender(s, c) == [s EXCEPT !.bus.contender = c]
FWIMReset(s) == [s EXCEPT !.ctl.reset = "issued"]

(* Module BusReset says when a scheduled reset is done.                    *)
resetBus(s) == [s EXCEPT !.ctl.reset = IF @ = "none" THEN "scheduled" ELSE @]

SendsDelayed(s) ==
    IF s.ctl.fDelayedPhyPacket = NoPacket THEN s
    ELSE [sendPHYPacket(s, s.ctl.fDelayedPhyPacket)
          EXCEPT !.ctl.fDelayedPhyPacket = NoPacket]

doBusReset ==
    /\ ctl.reset = "scheduled"
    /\ Becomes(FWIMReset([SendsDelayed(Now)
                          EXCEPT !.ctl.state = "kWaitingBusReset"]))
    /\ UNCHANGED <<make, ids, selfIDs, trouble>>

-----------------------------------------------------------------------------
(* The end of a scan.                                                      *)

(* Contenders that were scanned and can be root and manager.               *)
OtherContenders(s) ==
    {p \in Contenders \ {Local} :
        /\ s.scan[p].state = "done"
        /\ ~s.scan[p].fMustNotBeRoot /\ ~s.scan[p].fIRMisBad}

(* AssignCycleMaster's first two decisions, each to a new root.            *)
RootFor(s) ==
    LET other == OtherContenders(s)
    IN  CASE RootNode = Local /\ s.ctl.mustBeRoot # NoNode ->
                s.ctl.mustBeRoot
          [] /\ ~(RootNode = Local /\ s.ctl.mustBeRoot # NoNode)
             /\ \/ s.ctl.fDelegateCycleMaster \/ s.ctl.fBadIRMsKnown
                \/ s.ctl.fNodeMustNotBeRootFlag
             /\ IF other # {}
                THEN RootNode = Local /\ s.ctl.fDelegateCycleMaster
                ELSE /\ RootNode # Local /\ selfIDs.contender
                     /\ ~s.ctl.fDelegateCycleMaster ->
                IF other # {} THEN LastOf(other) ELSE Local
          [] OTHER -> NoNode

(* Its third: an isochronous resource manager that does not answer is      *)
(* replaced by a new root.  With no manager at all the code reads past the *)
(* end of fScans, which decides no more than a line of the log.            *)
BadIRMFound(s) ==
    /\ IRMNode \notin {Local, NoNode}
    /\ s.scan[IRMNode].state = "done" => s.scan[IRMNode].fIRMisBad

ManagerFor(s) ==
    LET other == OtherContenders(s)
    IN  IF /\ s.ctl.fBadIRMsKnown
           /\ ~(RootNode = Local /\ s.ctl.mustBeRoot # NoNode)
           /\ BadIRMFound(s) \/ (~selfIDs.contender /\ other = {})
        THEN IF s.ctl.fDelegateCycleMaster /\ other # {} THEN LastOf(other)
             ELSE Local
        ELSE NoNode

(* A node made root by either; a Mac that gives the root away is no        *)
(* contender any more.                                                     *)
AssignCycleMaster(s) ==
    LET root == RootFor(s)
        manager == ManagerFor(s)
        rooted == IF root = NoNode THEN s
                  ELSE ForceRoot(setContender(s, root = Local), root)
        managed == IF manager = NoNode THEN rooted
                   ELSE ForceRoot(IF manager = Local
                                  THEN setContender(rooted, TRUE) ELSE rooted,
                                  manager)
    IN  FWIMReset(managed)

NeedReset(s) == RootFor(s) # NoNode \/ ManagerFor(s) # NoNode

(* The GUIDs read in this scan; a minimal ROM has none.                    *)
GUIDRead(s, n) ==
    IF n \in Peers /\ s.scan[n].state = "done" /\ make[n].rom = "full"
    THEN make[n].guid ELSE 0

NeverDuplicate(s, i) == FALSE                                   \* mutant

checkForDuplicateGUID(s, i) ==
    /\ GUIDRead(s, ids[i]) \notin {0} \cup s.ctl.dups
    /\ \E j \in 1..i - 1 : GUIDRead(s, ids[j]) = GUIDRead(s, ids[i])

ScansFreed(s, S) ==
    [s EXCEPT !.scan = [p \in Peers |->
        IF p \in S /\ s.scan[p].state = "done"
        THEN [state |-> "freed", speed |-> s.scan[p].speed] ELSE s.scan[p]]]

(* P1394a's gap counts by hops, for the buses here.                        *)
gaps == <<5, 7, 8, 10>>
HopGap == IF OnlyNode THEN 63 ELSE gaps[Len(ids) - 1]

newGap(s, ping) ==
    IF s.ctl.fForcedGapFlag THEN 63 ELSE Max({HopGap, ping})

OnlyNewGap(s, gap) ==                                           \* mutant
    \E n \in Range(ids) : selfIDs.gap[n] # gap

(* Gap counts stay when they agree and are the ones set last or the new    *)
(* ones, so that ping times that jitter reset nothing.                     *)
retoolGap(s, gap) ==
    \/ s.ctl.fForcedGapFlag /\ s.ctl.fPreviousGap # 63
    \/ \E m, n \in Range(ids) : selfIDs.gap[m] # selfIDs.gap[n]
    \/ /\ ~fDSLimited
       /\ \E n \in Range(ids) : selfIDs.gap[n] \notin {s.ctl.fPreviousGap, gap}

ManagesBus(s) == /\ s.ctl.reset # "scheduled" /\ ~s.ctl.fBusMgr
                 /\ IRMNode = Local

Unmanaged(s, ping) ==
    \/ RootNode # Local
    \/ ~OnlyNode /\ retoolGap(s, newGap(s, ping))

(* Alone, the Mac drops its root hold off bit; else it is to be root, and  *)
(* then sets the gap count, with the packet to go out before the reset.    *)
ManageBus(s, ping) ==
    LET root == IF OnlyNode
                THEN [s EXCEPT !.bus.rhb = IF @ = Local THEN NoNode ELSE @]
                ELSE ForceRoot(s, Local)
        gap == newGap(s, ping)
    IN  IF RootNode = Local /\ ~OnlyNode /\ retoolGap(s, gap)
        THEN [root EXCEPT !.ctl.fPreviousGap = gap,
                          !.ctl.fDelayedPhyPacket =
                              [root |-> IDOf(Local), gap |-> gap]]
        ELSE root

finishedBusScan(s0, ping) ==
    LET s == [s0 EXCEPT !.ctl.finished = @ + 1]
        happy == [s EXCEPT !.ctl.fBadIRMsKnown = FALSE]
        dup == {i \in DOMAIN ids : checkForDuplicateGUID(s, i)}
        freed == ScansFreed(happy, Peers)
        managed == IF ManagesBus(s) THEN ManageBus(freed, ping) ELSE freed
    IN  CASE NeedReset(s) -> AssignCycleMaster(s)
          [] ~NeedReset(s) /\ dup # {} ->
                resetBus([ScansFreed(happy, {ids[j] : j \in 1..Min(dup) - 1})
                          EXCEPT !.ctl.dups =
                              @ \cup {GUIDRead(s, ids[Min(dup)])}])
          [] /\ ~NeedReset(s) /\ dup = {}
             /\ ManagesBus(s) /\ Unmanaged(s, ping) -> resetBus(managed)
          [] OTHER ->
                IF s.ctl.state = "kScanning"
                THEN [managed EXCEPT !.ctl.state = "kWaitingPrune"]
                ELSE managed

-----------------------------------------------------------------------------
(* The ROM of a node.                                                      *)

configureNode(s, p) ==
    LET nodeFlags == s.nubs[make[p].guid].flags
        notRoot == /\ "kIOFWMustNotBeRoot" \in nodeFlags
                   /\ ~s.ctl.fDelegateCycleMaster
                   /\ s.scan[p].state = "done"
    IN  [s EXCEPT
           !.ctl.mustBeRoot =
               IF "kIOFWMustBeRoot" \in nodeFlags THEN p ELSE @,
           !.ctl.fNodeMustNotBeRootFlag = @ \/ notRoot,
           !.ctl.fForcedGapFlag = @ \/ "kIOFWMustHaveGap63" \in nodeFlags,
           !.scan[p] = IF notRoot THEN [@ EXCEPT !.fMustNotBeRoot = TRUE]
                       ELSE @]

(* A node gets the nub of its GUID, unless it has none that can be used.   *)
(* The bus manager bit of a minimal ROM has not been read.                 *)
updateDevice(s, p, garbage) ==
    LET guid == GUIDRead(s, p)
        t == [s EXCEPT !.ctl.fBusMgr =
                @ \/ IF make[p].rom = "full" THEN make[p].busMgr ELSE garbage]
    IN  IF guid \in {0} \cup s.ctl.dups THEN t
        ELSE configureNode([t EXCEPT !.nubs[guid].node = p], p)

NewScan(p, speedChecking) ==
    [state |-> "reading", fRead |-> 0, fRetriesBumped |-> FALSE,
     speed |-> IF speedChecking THEN kFWSpeed800MBit
               ELSE IF fDSLimited THEN 0 ELSE make[p].speed,
     speedChecking |-> speedChecking,
     fContenderNeedsChecking |-> make[p].contender,
     fIRMCheckingRead |-> FALSE, fIRMCheckingLock |-> FALSE,
     fIRMisBad |-> FALSE, fMustNotBeRoot |-> FALSE]

OneNodeLess(s, ping) ==
    LET t == [s EXCEPT !.ctl.fNumROMReads = @ - 1]
    IN  IF t.ctl.fNumROMReads = 0 THEN finishedBusScan(t, ping) ELSE t

DummyNotCounted(s, p, ping) ==                                  \* mutant
    [s EXCEPT !.scan[p] = [state |-> "dummy"]]

(* A node that does not answer is known as a node and no more.             *)
DummyEntry(s, p, ping) ==
    OneNodeLess([s EXCEPT !.ctl.fBadIRMsKnown = @ \/ p = IRMNode,
                          !.scan[p] = [state |-> "dummy"]], ping)

Scanned(s, p, garbage, ping) ==
    OneNodeLess(updateDevice([s EXCEPT !.scan[p].state = "done"],
                             p, garbage), ping)

IRMChecked(s, p) ==
    p = IRMNode \/ s.ctl.fDelegateCycleMaster

(* readDeviceROM of a read that has worked: the next quadlet, then the     *)
(* registers of a resource manager at more than 100 MBit, then the device. *)
NextRead(s, p, garbage, ping) ==
    LET r == s.scan[p]
    IN  CASE r.fRead = 0 /\ make[p].rom = "full" ->
                [s EXCEPT !.scan[p].fRead = 8]
          [] r.fRead \in {8, 12} -> [s EXCEPT !.scan[p].fRead = @ + 4]
          [] /\ r.fRead = 16 /\ r.fContenderNeedsChecking
             /\ r.speed > 0 /\ IRMChecked(s, p) ->
                IF ~r.fIRMCheckingRead
                THEN [s EXCEPT !.scan[p].fIRMCheckingRead = TRUE]
                ELSE [s EXCEPT !.scan[p].fIRMCheckingLock = TRUE,
                               !.scan[p].fContenderNeedsChecking = FALSE]
          [] OTHER -> Scanned(s, p, garbage, ping)

StepsDown(s, p) ==
    [s EXCEPT !.scan[p].speed = IF fDSLimited THEN 0 ELSE @ - 1,
              !.scan[p].fRetriesBumped = FALSE]

(* readDeviceROM of a read that has failed.                                *)
readDeviceROM(s, p, status, garbage, ping) ==
    LET r == s.scan[p]
        checking == r.fIRMCheckingRead \/ r.fIRMCheckingLock
    IN  CASE status = "success" -> NextRead(s, p, garbage, ping)
          [] status # "success" /\ checking ->
                NextRead([s EXCEPT
                            !.ctl.fBadIRMsKnown = @ \/ p = IRMNode,
                            !.scan[p].fIRMisBad = TRUE,
                            !.scan[p].fContenderNeedsChecking = FALSE],
                         p, garbage, ping)
          [] status = "timeout" /\ ~checking /\ ~r.fRetriesBumped ->
                [s EXCEPT !.scan[p].fRetriesBumped = TRUE]
          [] /\ status # "success" /\ ~checking
             /\ status = "timeout" => r.fRetriesBumped ->
                IF r.speedChecking /\ r.speed > 0
                THEN StepsDown(s, p) ELSE DummyEntry(s, p, ping)

(* What may come of a node's answer, but for the trouble that any may have. *)
Answers(p) ==
    LET r == scan[p]
        there == /\ make[p].rom # "none"
                 /\ r.fRead = 0 /\ r.speedChecking => r.speed <= make[p].speed
                 /\ r.fIRMCheckingRead \/ r.fIRMCheckingLock =>
                       make[p].irmWorks
        late == r.fRead = 0 /\ make[p].slow /\ ~r.fRetriesBumped
    IN  CASE ~there -> {"timeout", "error"}
          [] there /\ late -> {"timeout"}
          [] there /\ ~late -> {"success"}

readROMGlue(p) ==
    /\ scan[p].state = "reading"
    /\ \E status \in {"success", "timeout", "error"},
          garbage \in BOOLEAN, ping \in PingGaps :
          /\ status = "success" => "success" \in Answers(p)
          /\ Costs(IF status \in Answers(p) THEN 0 ELSE 1)
          /\ Becomes(readDeviceROM(Now, p, status, garbage, ping))
    /\ UNCHANGED <<make, ids, selfIDs>>

-----------------------------------------------------------------------------
(* Bus resets and the start of a scan.                                     *)

SuspendBus(s) ==
    [s EXCEPT !.ctl.mustBeRoot = NoNode,
              !.ctl.fNodeMustNotBeRootFlag = FALSE,
              !.ctl.fForcedGapFlag = FALSE,
              !.ctl.reset = "none", !.ctl.finished = 0,
              !.ctl.fBusMgr = FALSE,
              !.scan = [p \in Peers |-> NoScan],
              !.nubs = [g \in GUIDs |-> [s.nubs[g] EXCEPT !.node = NoNode]]]

(* The PHYs at a reset: a new node has a gap count of 63, the others their *)
(* own if a packet has set it since the last reset.                        *)
PHYsAfter(nodes) ==
    [bus EXCEPT !.nodes = nodes,
                !.rhb = IF @ \in nodes THEN @ ELSE NoNode,
                !.gap = [n \in Nodes |-> IF bus.configured /\ n \in bus.nodes
                                         THEN bus.gap[n] ELSE 63],
                !.configured = FALSE]

(* processSelfIDs on self-IDs that say the nodes in an order the PHYs may  *)
(* take: one that holds off is the root.  Gap counts that differ are set   *)
(* to 63.  With bad self-IDs the bus is reset again.                       *)
processSelfIDs(nodes, good) ==
    LET phys == PHYsAfter(nodes)
        s == SuspendBus([Now EXCEPT !.bus = phys])
        mismatch == \E m, n \in nodes : phys.gap[m] # phys.gap[n]
        gapSet == IF mismatch THEN sendPHYPacket(s, [root |-> 0, gap |-> 63])
                  ELSE s
    IN  /\ ids' \in {order \in SetToSeqs(nodes) :
                       phys.rhb # NoNode => order[Len(order)] = phys.rhb}
        /\ selfIDs' = [gap |-> phys.gap, contender |-> bus.contender]
        /\ Becomes(IF good THEN [gapSet EXCEPT !.ctl.state = "kWaitingScan"]
                   ELSE [resetBus(gapSet) EXCEPT !.ctl.state = "badSelfIDs"])
        /\ UNCHANGED make

BusReset ==
    /\ ctl.reset = "issued"
    /\ processSelfIDs(bus.nodes, TRUE)
    /\ UNCHANGED trouble

BadSelfIDs ==
    /\ ctl.reset = "issued"
    /\ processSelfIDs(bus.nodes, FALSE)
    /\ Costs(1)

Plug ==
    /\ \E p \in Peers :
          LET nodes == IF p \in bus.nodes THEN bus.nodes \ {p}
                       ELSE bus.nodes \cup {p}
          IN  processSelfIDs(nodes, TRUE)
    /\ Costs(1)

(* startBusScan's loop: every node is counted, but this one and those that *)
(* are ignored are not waited for.                                         *)
ReadsStarted ==
    LET read == Range(ids) \ ({Local} \cup Ignored)
    IN  [Now EXCEPT
           !.ctl.state = "kScanning",
           !.ctl.fNumROMReads =
               Len(ids) - Cardinality({i \in DOMAIN ids : ids[i] \notin read}),
           !.ctl.fBadIRMsKnown = @ \/ IRMNode \in Ignored,
           !.scan = [p \in Peers |->
               IF p \in read THEN NewScan(p, make[p].guess)
               ELSE IF p \in Range(ids) THEN [state |-> "dummy"] ELSE scan[p]]]

(* With nothing to read the scan ends at once, and once more before that   *)
(* if the last node is an ignored one.                                     *)
startBusScan ==
    /\ ctl.state = "kWaitingScan"
    /\ \E ping \in PingGaps :
          LET s == ReadsStarted
              t == IF RootNode \in Ignored THEN finishedBusScan(s, ping) ELSE s
          IN  Becomes(IF s.ctl.fNumROMReads = 0
                      THEN finishedBusScan(t, ping) ELSE s)
    /\ UNCHANGED <<make, ids, selfIDs, trouble>>

(* updatePlane: nubs whose node did not come back are gone, and with them  *)
(* the flags their drivers set.                                            *)
updatePlane ==
    /\ ctl.state = "kWaitingPrune"
    /\ ctl' = [ctl EXCEPT !.state = "kRunning"]
    /\ nubs' = [g \in GUIDs |-> IF nubs[g].node # NoNode THEN nubs[g]
                                 ELSE [nubs[g] EXCEPT !.flags = {}]]
    /\ UNCHANGED <<make, bus, ids, selfIDs, scan, trouble>>

-----------------------------------------------------------------------------
(* What clients of the bus call.                                           *)

setNodeFlags(g) ==
    LET p == nubs[g].node
    IN  /\ p # NoNode /\ nubs[g].flags # make[p].flags
        /\ Becomes(configureNode([Now EXCEPT !.nubs[g].flags = make[p].flags],
                                 p))
        /\ UNCHANGED <<make, ids, selfIDs, trouble>>

ClientResetBus ==
    /\ ctl.state \notin {"kStarting", "badSelfIDs"}
    /\ Becomes(resetBus(Now))
    /\ Costs(1)
    /\ UNCHANGED <<make, ids, selfIDs>>

makeRoot(n) ==
    /\ ctl.state \notin {"kStarting", "badSelfIDs"}
    /\ n \in Range(ids) /\ n # RootNode
    /\ Becomes(resetBus(ForceRoot(Now, n)))
    /\ Costs(1)
    /\ UNCHANGED <<make, ids, selfIDs>>

Works ==
    \/ doBusReset \/ BusReset \/ startBusScan \/ updatePlane
    \/ \E p \in Peers : readROMGlue(p)

Next ==
    \/ Works
    \/ BadSelfIDs \/ Plug \/ ClientResetBus
    \/ \E g \in GUIDs : setNodeFlags(g)
    \/ \E n \in Nodes : makeRoot(n)

Spec == Init /\ [][Next]_vars

(* Weak fairness of Works, a scheduled reset among it, with what enables    *)
(* the rest written out: timers run out, the hardware resets the bus that  *)
(* it is told to reset, and a read is answered or given up.                *)
WorkLeft ==
    \/ ctl.reset = "issued" \/ ctl.state \in {"kWaitingScan", "kWaitingPrune"}
    \/ \E p \in Peers : scan[p].state = "reading"

FairSpec == /\ Spec
            /\ []<>~WorkLeft \/ []<><<Works>>_vars
            /\ WF_vars(doBusReset)

-----------------------------------------------------------------------------
(* Properties.                                                             *)

TypeOK ==
    /\ bus.nodes \subseteq Nodes /\ bus.rhb \in bus.nodes \cup {NoNode}
    /\ ctl.reset \in {"none", "scheduled", "issued"}
    /\ ctl.fNumROMReads \in 0..Cardinality(Peers)
    /\ \A g \in GUIDs : nubs[g].node \in Peers \cup {NoNode}

(* A scan waits for the reads of exactly the nodes whose ROM it is         *)
(* reading, and ends once, when the last of them has: not a node is        *)
(* forgotten, on which the scan would wait for ever, and none is counted   *)
(* twice, which would end the scan with the ROM of a node not read yet     *)
(* (fNumROMReads, readDeviceROM).  Nothing is of another type.             *)
ScanEndsOnce ==
    LET reading == {p \in Peers : scan[p].state = "reading"}
    IN  /\ TypeOK
        /\ ctl.state = "kScanning" =>
              /\ ctl.fNumROMReads = Cardinality(reading)
              /\ (ctl.finished = 0) = (reading # {})
        /\ ctl.finished <= 1

Settled == ctl.state \in {"kWaitingPrune", "kRunning"} /\ ctl.reset = "none"

(* This Mac is to manage a bus with others on it: none of the ROMs it has  *)
(* read is that of a bus manager, or a minimal one, for which the code     *)
(* looks at memory that it has not written.                                *)
ManagerHere ==
    /\ Settled /\ IRMNode = Local /\ ~OnlyNode
    /\ \A p \in Peers \cap Range(ids) :
          scan[p].state = "freed" => make[p].rom = "full" /\ ~make[p].busMgr

(* On a bus that has settled with this Mac as its manager, the Mac is      *)
(* root, so that it is cycle master, and all PHYs have one gap count       *)
(* (finishedBusScan).                                                      *)
ManagedBus ==
    ManagerHere => /\ RootNode = Local
                   /\ \A n \in Range(ids) : bus.gap[n] = bus.gap[Local]

(* ... and that gap count is no lower than the hops of the bus need.  It   *)
(* may be: a packet for a smaller bus, kept for a reset that another one   *)
(* came before, goes out with a later reset (fDelayedPhyPacket).           *)
GapFits == ManagerHere /\ ~fDSLimited => bus.gap[Local] >= HopGap

(* No bus settles with another node as resource manager that has not been  *)
(* read, or one that does not answer as such at the speeds at which the    *)
(* code asks it.                                                           *)
NoBadIRM ==
    Settled /\ IRMNode \in Peers =>
        /\ scan[IRMNode].state = "freed"
        /\ make[IRMNode].rom = "full" /\ scan[IRMNode].speed > 0 =>
              ~BadIRM(make[IRMNode])

SameGUID(p, q) ==
    /\ p # q /\ make[p].guid = make[q].guid /\ make[p].guid # 0
    /\ \A n \in {p, q} : scan[n].state = "freed" /\ make[n].rom = "full"

(* Two nodes of one GUID that this scan has read are not both behind the   *)
(* one nub, nor is one of them: the GUID is known as a duplicate.          *)
DuplicatesApart ==
    \A p, q \in Peers : Settled /\ SameGUID(p, q) =>
        nubs[make[p].guid].node = NoNode

BusesOfFour == TopologyIsRight(4, {0, 2, kFWSpeedReserved})

(* How a bus settles: well managed, without a bad resource manager, and    *)
(* with duplicates told apart.                                             *)
SettlesWell == ManagedBus /\ NoBadIRM /\ DuplicatesApart

(* The child counts of the self-IDs give back the tree of the bus, the     *)
(* number of hops and the lowest speed between any two nodes of it: every  *)
(* bus of up to four nodes (buildTopology, hopCount).                      *)
TopologyFromSelfIDs == ctl.state = "kStarting" => BusesOfFour

(* A bus that nobody disturbs comes to rest: the resets the driver asks    *)
(* for, for a new root, a resource manager, a gap count or a duplicate     *)
(* GUID, do not call for one another for ever.                             *)
Settles == <>[](ctl.state = "kRunning" /\ ctl.reset = "none")
=============================================================================
