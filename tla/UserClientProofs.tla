-------------------------- MODULE UserClientProofs --------------------------
(***************************************************************************)
(* Proofs about the user clients of a nub, for any clients, threads,       *)
(* objects and capacities of the tables: every reference to an object is   *)
(* accounted for, so that none is freed in use or left behind, and the     *)
(* client that has the nub open is, at every step of its opens and closes, *)
(* the one the session table and its own fields name, but for those that   *)
(* cannot close it.  Applications release no object that they call or copy *)
(* out meanwhile; they may open a nub again after they were told to close. *)
(*                                                                         *)
(* Then, of the scan of the bus (BusScan), for any peers of any makes: it  *)
(* ends once, when all its reads have, and the bus settles well.           *)
(***************************************************************************)
EXTENDS UserClient, BusScan, FiniteSetTheorems, SequenceTheorems, WellFoundedInduction,
        TLAPS

-----------------------------------------------------------------------------
(* The inductive invariant.                                                *)

Tables(S) == UNION {[1..n -> S \cup {NoObject}] : n \in 0..MaxCapacity}

(* What a thread does with a reference to its object of its own; in the    *)
(* calls of ByHandle the handle's reference keeps it.                      *)
Keeping == {"adding", "calling", "copying", "removing"}

Calls == [op : {"none", "seizing"} \cup Keeping \cup ByHandle,
          client : Clients \cup {NoClient},
          obj : Objects \cup {NoObject},
          handle : 0..MaxCapacity]

Steps == {"none", "opened", "listed", "found", "closing", "unlisted", "closed"}
Connections == [state : {"started", "inactive", "stopped", "freed"},
                connected : BOOLEAN, mIsOpen : BOOLEAN,
                fOpenClient : Clients \cup {NoClient},
                fSelfOpenCount : 0..1, fSessionRef : 0..MaxCapacity,
                step : Steps, found : Clients \cup {NoClient, OtherNub}]

ObjectRecords == [state : {"unmade", "made", "freed"}, kind : ObjectKinds,
                  refs : Nat, active : BOOLEAN]

NubTypes ==
    /\ client \in [Clients -> Connections]
    /\ opener \in Clients \cup {NoClient}
    /\ sessions \in Tables(Clients \cup {OtherNub})
    /\ unclosable \subseteq Clients

TableTypes ==
    /\ fExporter \in [Clients -> Tables(Objects)]
    /\ obj \in [Objects -> ObjectRecords]
    /\ call \in [Threads -> Calls]
    /\ unreleasable \subseteq Objects /\ raced = {}

(* No open or close of a client that does not have the nub is half done,   *)
(* and no session names it.                                                *)
Unlisted(c) == \A i \in DOMAIN sessions : sessions[i] # c
Listed(c) == /\ client[c].fSessionRef \in DOMAIN sessions
             /\ \A i \in DOMAIN sessions : sessions[i] = c <=> i = client[c].fSessionRef

Without(c) ==
    /\ client[c].step \in {"none", "found", "closed"}
    /\ client[c].fSelfOpenCount = 0 /\ client[c].found # c /\ Unlisted(c)
    /\ client[c].step # "closed" => client[c].fOpenClient # c
    /\ c \notin unclosable

(* Who has it without being able to close it was stopped, or does not know *)
(* that it has it.                                                         *)
Stuck(c) ==
    \/ /\ client[c].state = "stopped"
       /\ client[c].step \in {"none", "opened", "listed", "found"}
    \/ client[c].state = "freed" /\ client[c].step = "none"
    \/ /\ client[c].step \in {"none", "found"} /\ Unlisted(c)
       /\ client[c].fOpenClient # c /\ client[c].found # c

(* All others have it, at each step of their opens and closes, as they     *)
(* know.                                                                   *)
Has(c) ==
    /\ client[c].state \in {"started", "inactive"} /\ client[c].found # c
    /\ \/ /\ client[c].step = "opened" /\ client[c].connected /\ Unlisted(c)
          /\ client[c].fSelfOpenCount = 0 /\ client[c].fOpenClient # c
       \/ /\ client[c].step = "listed" /\ client[c].connected /\ Listed(c)
          /\ client[c].fSelfOpenCount = 0
       \/ /\ client[c].step = "none" /\ client[c].connected /\ client[c].mIsOpen
          /\ Listed(c) /\ client[c].fSelfOpenCount = 1 /\ client[c].fOpenClient = c
       \/ /\ client[c].step = "closing" /\ Listed(c) /\ client[c].fSelfOpenCount = 0
       \/ /\ client[c].step = "unlisted" /\ Unlisted(c) /\ client[c].fSelfOpenCount = 0

Phase(c) == IF c # opener THEN Without(c)
            ELSE IF c \in unclosable THEN Stuck(c) ELSE Has(c)

NubInv == NubTypes /\ \A c \in Clients : Phase(c)

(* The handle i of client c is that of object o.                           *)
Holds(c, i, o) == i \in DOMAIN fExporter[c] /\ fExporter[c][i] = o
HasHandle(o) == \E c \in Clients, i \in AllHandles : Holds(c, i, o)
Keepers(o) == {t \in Threads : call[t].obj = o /\ call[t].op \in Keeping}

(* The count of an object is that of the references there are: the         *)
(* handle's, the controller's set's, and those of threads; it is freed     *)
(* with the last.                                                          *)
Counted == \A o \in Objects :
    /\ obj[o].refs = (IF HasHandle(o) THEN 1 ELSE 0)
                     + (IF obj[o].active THEN 1 ELSE 0) + Cardinality(Keepers(o))
    /\ obj[o].state = "made" <=> obj[o].refs > 0

OneHandle == \A o \in Objects : \A c, d \in Clients : \A i, j \in AllHandles :
    Holds(c, i, o) /\ Holds(d, j, o) => c = d /\ i = j

(* An object in the controller's set has a handle, or a thread is about to *)
(* give it one or to take it out of the set; but for physical spaces that  *)
(* found the table full.                                                   *)
ActiveIsHeld == \A o \in Objects : obj[o].active /\ o \notin unreleasable =>
    \/ HasHandle(o)
    \/ \E t \in Threads : call[t].obj = o /\ call[t].op \in {"adding", "removing"}

(* An object is known to no other thread before it has a handle.           *)
AddedByOne == \A t \in Threads : call[t].op = "adding" =>
    /\ ~HasHandle(call[t].obj)
    /\ \A s \in Threads : call[s].obj = call[t].obj => s = t

(* A handle is not released while an object is called by it.               *)
HandleStays == \A t \in Threads : call[t].op \in ByHandle \cup {"copying"} =>
    /\ call[t].handle \in AllHandles
    /\ Holds(call[t].client, call[t].handle, call[t].obj)

(* Data are copied out by one thread, which alone knows them by the handle. *)
CopiedByOne == \A t \in Threads :
    /\ call[t].op \in ByHandle => obj[call[t].obj].kind # "data"
    /\ call[t].op = "copying" =>
          /\ obj[call[t].obj].kind = "data"
          /\ \A s \in Threads :
                call[s].obj = call[t].obj /\ call[s].op = "copying" => s = t

(* A thread works with an object, for a client.                            *)
WorksWith == \A t \in Threads :
    IF call[t].op \in {"none", "seizing"}
    THEN call[t].obj = NoObject
    ELSE call[t].obj \in Objects /\ call[t].client \in Clients

FreedAreEmpty == \A c \in Clients : client[c].state = "freed" =>
    /\ ~client[c].connected
    /\ fExporter[c] = EmptyExporter
    /\ \A t \in Threads : call[t].client # c

TableInv == /\ TableTypes /\ Counted /\ OneHandle /\ ActiveIsHeld
            /\ AddedByOne /\ HandleStays /\ CopiedByOne /\ WorksWith

ClientInv == NubInv /\ TableInv /\ FreedAreEmpty

-----------------------------------------------------------------------------
(* The table of handles.                                                   *)

(* A set of natural numbers has a first element.                           *)
LEMMA HasFirst ==
    ASSUME NEW S, S \subseteq Nat, S # {}
    PROVE  \E i \in S : \A j \in S : i <= j
<1>1. PICK i \in S : \A j \in S : ~(<<j, i>> \in OpToRel(<, Nat))
  BY NatLessThanWellFounded, WFMin
<1>2. \A j \in S : <<j, i>> \in Nat \X Nat
  BY <1>1
<1>3. \A j \in S : ~(j < i)
  BY <1>1, <1>2 DEF OpToRel
<1>4. i \in Nat /\ \A j \in S : j \in Nat
  BY <1>1
<1>5. \A j \in S : i <= j
  <2> SUFFICES ASSUME NEW j \in S PROVE i <= j
    OBVIOUS
  <2>1. QED
    BY <1>3, <1>4
<1>6. QED
  BY <1>1, <1>5

LEMMA TableIsSequence ==
    ASSUME NEW S, NEW T \in Tables(S)
    PROVE  /\ Len(T) \in 0..MaxCapacity
           /\ DOMAIN T = 1..Len(T)
           /\ \A i \in 1..Len(T) : T[i] \in S \cup {NoObject}
<1>1. PICK n \in 0..MaxCapacity : T \in [1..n -> S \cup {NoObject}]
  BY DEF Tables
<1>2. T \in Seq(S \cup {NoObject})
  BY <1>1, SeqDef
<1>3. Len(T) = n
  BY <1>1, <1>2, LenProperties
<1>4. QED
  BY <1>1, <1>3

LEMMA Capacities ==
    ASSUME NEW n \in 1..MaxCapacity
    PROVE  newCapacity(n) \in n..MaxCapacity
BY ExporterAssumption DEF newCapacity, ExporterAssumption

LEMMA GrownTable ==
    ASSUME NEW S, NEW T \in Tables(S)
    PROVE  /\ Grown(T) \in Tables(S)
           /\ 1 \in DOMAIN Grown(T) /\ DOMAIN Grown(T) \subseteq AllHandles
           /\ DOMAIN T \subseteq DOMAIN Grown(T)
           /\ \A i \in DOMAIN Grown(T) :
                 Grown(T)[i] = IF i \in DOMAIN T THEN T[i] ELSE NoObject
<1> DEFINE capacity == IF T = EmptyExporter THEN InitialCapacity
                       ELSE IF FreeSlots(T) = {} THEN newCapacity(Len(T))
                       ELSE Len(T)
<1>1. /\ Len(T) \in 0..MaxCapacity /\ DOMAIN T = 1..Len(T)
      /\ \A i \in 1..Len(T) : T[i] \in S \cup {NoObject}
  BY TableIsSequence
<1>2. T # EmptyExporter => Len(T) # 0
  <2>1. ASSUME Len(T) = 0 PROVE T = <<>>
    <3>1. T \in Seq(S \cup {NoObject})
      BY SeqDef DEF Tables
    <3>2. QED
      BY <2>1, <3>1, EmptySeq
  <2>2. QED
    BY <2>1 DEF EmptyExporter
<1>3. T = EmptyExporter => Len(T) = 0
  BY DEF EmptyExporter
<1>4. capacity \in 1..MaxCapacity /\ Len(T) <= capacity
  <2>1. CASE T = EmptyExporter
    BY <2>1, <1>3, ExporterAssumption DEF ExporterAssumption
  <2>2. CASE T # EmptyExporter /\ FreeSlots(T) = {}
    BY <2>2, <1>1, <1>2, Capacities
  <2>3. CASE T # EmptyExporter /\ FreeSlots(T) # {}
    BY <2>3, <1>1, <1>2
  <2>4. QED
    BY <2>1, <2>2, <2>3
<1>5. Grown(T) = [i \in 1..capacity |-> IF i \in DOMAIN T THEN T[i] ELSE NoObject]
  BY DEF Grown
<1> HIDE DEF capacity
<1>6. Grown(T) \in [1..capacity -> S \cup {NoObject}]
  BY <1>1, <1>5
<1>7. DOMAIN Grown(T) = 1..capacity
  BY <1>5
<1>8. capacity \in 0..MaxCapacity
  BY <1>4
<1>9. Grown(T) \in Tables(S)
  BY <1>6, <1>8 DEF Tables
<1>10. 1 \in 1..capacity /\ 1..capacity \subseteq AllHandles
       /\ 1..Len(T) \subseteq 1..capacity
  BY <1>1, <1>4, ExporterAssumption DEF AllHandles, ExporterAssumption
<1>11. \A i \in 1..capacity :
          Grown(T)[i] = IF i \in DOMAIN T THEN T[i] ELSE NoObject
  BY <1>5
<1>12. QED
  BY <1>1, <1>7, <1>9, <1>10, <1>11

(* A new object gets a free slot, if there is one, and nothing else moves. *)
LEMMA AddedTable ==
    ASSUME NEW S, NoObject \notin S, NEW T \in Tables(S), NEW x \in S
    PROVE  /\ addObject(T, x) \in Tables(S)
           /\ NewHandle(T) \in {0} \cup AllHandles
           /\ NewHandle(T) = 0 => addObject(T, x) = T
           /\ NewHandle(T) # 0 =>
                 /\ NewHandle(T) \in DOMAIN addObject(T, x)
                 /\ addObject(T, x)[NewHandle(T)] = x
                 /\ NewHandle(T) \in DOMAIN T => T[NewHandle(T)] = NoObject
                 /\ DOMAIN T \subseteq DOMAIN addObject(T, x)
                 /\ \A i \in DOMAIN addObject(T, x) : i # NewHandle(T) =>
                       addObject(T, x)[i] = IF i \in DOMAIN T THEN T[i] ELSE NoObject
<1> DEFINE G == Grown(T)
           new == NewHandle(T)
<1>1. /\ G \in Tables(S)
      /\ 1 \in DOMAIN G /\ DOMAIN G \subseteq AllHandles
      /\ DOMAIN T \subseteq DOMAIN G
      /\ \A i \in DOMAIN G : G[i] = IF i \in DOMAIN T THEN T[i] ELSE NoObject
  BY GrownTable
<1>2. FreeSlots(G) \subseteq DOMAIN G /\ FreeSlots(G) \subseteq Nat
  BY <1>1 DEF FreeSlots, AllHandles
<1>3. FreeSlots(G) # {} => new \in FreeSlots(G)
  <2>1. SUFFICES ASSUME FreeSlots(G) # {} PROVE new \in FreeSlots(G)
    OBVIOUS
  <2>2. \E i \in FreeSlots(G) : \A j \in FreeSlots(G) : i <= j
    BY <2>1, <1>2, HasFirst
  <2>3. new = CHOOSE i \in FreeSlots(G) : \A j \in FreeSlots(G) : i <= j
    BY <2>1 DEF NewHandle
  <2>4. QED
    BY <2>2, <2>3
<1>4. FreeSlots(G) = {} => new = 0
  BY DEF NewHandle
<1>5. new # 0 => new \in DOMAIN G /\ G[new] = NoObject
  BY <1>3, <1>4 DEF FreeSlots
<1>6. new \in {0} \cup AllHandles
  BY <1>1, <1>5
<1>7. new = 0 => addObject(T, x) = T
  BY DEF addObject
<1>8. new # 0 => addObject(T, x) = [G EXCEPT ![new] = x]
  BY DEF addObject
<1>9. PICK n \in 0..MaxCapacity : G \in [1..n -> S \cup {NoObject}]
  BY <1>1 DEF Tables
<1> HIDE DEF G, new
<1>10. addObject(T, x) \in Tables(S)
  BY <1>7, <1>8, <1>9 DEF Tables
<1>11. new # 0 =>
          /\ new \in DOMAIN addObject(T, x)
          /\ addObject(T, x)[new] = x
          /\ new \in DOMAIN T => T[new] = NoObject
          /\ DOMAIN T \subseteq DOMAIN addObject(T, x)
          /\ \A i \in DOMAIN addObject(T, x) : i # new =>
                addObject(T, x)[i] = IF i \in DOMAIN T THEN T[i] ELSE NoObject
  BY <1>1, <1>5, <1>8, <1>9
<1>12. QED
  BY <1>6, <1>7, <1>10, <1>11 DEF new

(* An empty table, and one whose slots are all free, takes an object.      *)
LEMMA FreeTableTakes ==
    ASSUME NEW S, NEW T \in Tables(S), \A i \in DOMAIN T : T[i] = NoObject
    PROVE  NewHandle(T) # 0
<1>1. /\ 1 \in DOMAIN Grown(T) /\ DOMAIN Grown(T) \subseteq AllHandles
      /\ Grown(T)[1] = NoObject
  BY GrownTable
<1>2. 1 \in FreeSlots(Grown(T)) /\ FreeSlots(Grown(T)) \subseteq 1..MaxCapacity
  BY <1>1 DEF FreeSlots, AllHandles
<1>3. \E i \in FreeSlots(Grown(T)) : \A j \in FreeSlots(Grown(T)) : i <= j
  BY <1>2
<1>4. NewHandle(T) \in FreeSlots(Grown(T))
  BY <1>2, <1>3 DEF NewHandle
<1>5. QED
  BY <1>2, <1>4

LEMMA RemovedTable ==
    ASSUME NEW S, NEW T \in Tables(S), NEW h
    PROVE  /\ removeObject(T, h) \in Tables(S)
           /\ DOMAIN removeObject(T, h) = DOMAIN T
           /\ \A i \in DOMAIN T :
                 removeObject(T, h)[i] = IF i = h THEN NoObject ELSE T[i]
<1>1. PICK n \in 0..MaxCapacity : T \in [1..n -> S \cup {NoObject}]
  BY DEF Tables
<1>2. QED
  BY <1>1 DEF Tables, removeObject

LEMMA FoundInTable ==
    ASSUME NEW S, NEW T \in Tables(S), NEW h
    PROVE  /\ lookupObject(T, h) \in S \cup {NoObject}
           /\ lookupObject(T, h) # NoObject =>
                 /\ h \in DOMAIN T /\ T[h] = lookupObject(T, h)
                 /\ lookupObject(T, h) \in S
<1>1. PICK n \in 0..MaxCapacity : T \in [1..n -> S \cup {NoObject}]
  BY DEF Tables
<1>2. QED
  BY <1>1 DEF lookupObject

LEMMA EmptyTable ==
    ASSUME NEW S PROVE EmptyExporter \in Tables(S) /\ DOMAIN EmptyExporter = {}
<1>1. <<>> \in Seq(S \cup {NoObject}) /\ Len(<<>>) = 0
  BY EmptySeq
<1>2. <<>> \in [1..0 -> S \cup {NoObject}] /\ DOMAIN <<>> = 1..0
  BY <1>1, LenProperties
<1>3. 0 \in 0..MaxCapacity /\ 1..0 = {}
  BY ExporterAssumption DEF ExporterAssumption
<1>4. QED
  BY <1>2, <1>3 DEF EmptyExporter, Tables

-----------------------------------------------------------------------------
(* Opening and closing the nub.                                            *)

(* Two connections agree but for the fields listed.                        *)
Agree(r, s, fields) ==
    /\ "state" \in fields \/ (s.state = r.state)
    /\ "connected" \in fields \/ (s.connected <=> r.connected)
    /\ "mIsOpen" \in fields \/ (s.mIsOpen <=> r.mIsOpen)
    /\ "fOpenClient" \in fields \/ (s.fOpenClient = r.fOpenClient)
    /\ "fSelfOpenCount" \in fields \/ (s.fSelfOpenCount = r.fSelfOpenCount)
    /\ "fSessionRef" \in fields \/ (s.fSessionRef = r.fSessionRef)
    /\ "step" \in fields \/ (s.step = r.step)
    /\ "found" \in fields \/ (s.found = r.found)

(* The fields of a connection, set one at a time.                          *)
LEMMA StateSet ==
    ASSUME NEW r \in Connections, NEW v \in {"started", "inactive", "stopped", "freed"}
    PROVE  LET s == [r EXCEPT !.state = v]
           IN  s \in Connections /\ (s.state = v) /\ Agree(r, s, {"state"})
BY DEF Connections, Agree

LEMMA ConnectedSet ==
    ASSUME NEW r \in Connections, NEW v \in BOOLEAN
    PROVE  LET s == [r EXCEPT !.connected = v]
           IN  s \in Connections /\ (s.connected <=> v) /\ Agree(r, s, {"connected"})
BY DEF Connections, Agree

LEMMA OpenSet ==
    ASSUME NEW r \in Connections, NEW v \in BOOLEAN
    PROVE  LET s == [r EXCEPT !.mIsOpen = v]
           IN  s \in Connections /\ (s.mIsOpen <=> v) /\ Agree(r, s, {"mIsOpen"})
BY DEF Connections, Agree

LEMMA OpenClientSet ==
    ASSUME NEW r \in Connections, NEW v \in Clients \cup {NoClient}
    PROVE  LET s == [r EXCEPT !.fOpenClient = v]
           IN  s \in Connections /\ (s.fOpenClient = v) /\ Agree(r, s, {"fOpenClient"})
BY DEF Connections, Agree

LEMMA CountSet ==
    ASSUME NEW r \in Connections, NEW v \in 0..1
    PROVE  LET s == [r EXCEPT !.fSelfOpenCount = v]
           IN  s \in Connections /\ (s.fSelfOpenCount = v) /\ Agree(r, s, {"fSelfOpenCount"})
BY DEF Connections, Agree

LEMMA SessionRefSet ==
    ASSUME NEW r \in Connections, NEW v \in 0..MaxCapacity
    PROVE  LET s == [r EXCEPT !.fSessionRef = v]
           IN  s \in Connections /\ (s.fSessionRef = v) /\ Agree(r, s, {"fSessionRef"})
BY DEF Connections, Agree

LEMMA StepSet ==
    ASSUME NEW r \in Connections, NEW v \in Steps
    PROVE  LET s == [r EXCEPT !.step = v]
           IN  s \in Connections /\ (s.step = v) /\ Agree(r, s, {"step"})
BY DEF Connections, Agree

LEMMA FoundSet ==
    ASSUME NEW r \in Connections, NEW v \in Clients \cup {NoClient, OtherNub}
    PROVE  LET s == [r EXCEPT !.found = v]
           IN  s \in Connections /\ (s.found = v) /\ Agree(r, s, {"found"})
BY DEF Connections, Agree

(* No client is freed, and none that was closed is connected again.        *)
NoneEnds == \A d \in Clients :
    /\ client'[d].state = "freed" => client[d].state = "freed"
    /\ client'[d].connected => client[d].connected

(* Who is connected is not freed.                                          *)
ConnectedLive == \A c \in Clients : client[c].connected => client[c].state # "freed"

(* The slots of a client in the session table.                             *)
SameSlots(d) == \A i : i \in DOMAIN sessions' /\ sessions'[i] = d
                       <=> i \in DOMAIN sessions /\ sessions[i] = d

LEMMA PhaseKept ==
    ASSUME NEW d \in Clients, Phase(d), client'[d] = client[d], SameSlots(d),
           (opener' = d) <=> (opener = d), (d \in unclosable') <=> (d \in unclosable)
    PROVE  Phase(d)'
<1>1. Unlisted(d)' <=> Unlisted(d)
  BY DEF SameSlots, Unlisted
<1>2. Listed(d)' <=> Listed(d)
  BY DEF SameSlots, Listed
<1>3. Without(d)' <=> Without(d)
  BY <1>1 DEF Without
<1>4. Stuck(d)' <=> Stuck(d)
  BY <1>1 DEF Stuck
<1>5. Has(d)' <=> Has(d)
  BY <1>1, <1>2 DEF Has
<1>6. (d # opener') <=> (d # opener)
  OBVIOUS
<1>7. QED
  BY <1>3, <1>4, <1>5, <1>6 DEF Phase

(* A step of one client leaves the others as they are.                     *)
LEMMA OneClientGoesOn ==
    ASSUME NubInv, NEW c \in Clients, NEW r \in Connections,
           client' = [client EXCEPT ![c] = r],
           opener' \in {opener, c, NoClient}, opener \in {opener', c, NoClient},
           unclosable' \in {unclosable, unclosable \cup {c}},
           sessions' \in Tables(Clients \cup {OtherNub}),
           \A d \in Clients \ {c} : SameSlots(d),
           Phase(c)'
    PROVE  /\ NubInv'
           /\ /\ r.state = "freed" => client[c].state = "freed"
              /\ r.connected => client[c].connected
              => NoneEnds
<1> USE UserClientAssumption DEF UserClientAssumption
<1>1. NubTypes /\ client \in [Clients -> Connections]
  BY DEF NubInv, NubTypes
<1>2. client'[c] = r /\ \A d \in Clients \ {c} : client'[d] = client[d]
  BY <1>1
<1>3. NubTypes'
  <2>1. client' \in [Clients -> Connections]
    BY <1>1
  <2>2. opener' \in Clients \cup {NoClient} /\ unclosable' \subseteq Clients
    BY <1>1 DEF NubTypes
  <2>3. QED
    BY <2>1, <2>2 DEF NubTypes, Tables, Connections, Steps
<1>4. ASSUME NEW d \in Clients PROVE Phase(d)'
  <2>1. CASE d = c
    BY <2>1
  <2>2. CASE d # c
    <3>1. Phase(d) /\ client'[d] = client[d] /\ SameSlots(d)
      BY <1>2, <2>2 DEF NubInv
    <3>2. ((opener' = d) <=> (opener = d)) /\ ((d \in unclosable') <=> (d \in unclosable))
      BY <2>2
    <3>3. QED
      BY <3>1, <3>2, PhaseKept
  <2>3. QED
    BY <2>1, <2>2
<1>5. NubInv'
  BY <1>3, <1>4 DEF NubInv
<1>6. QED
  BY <1>2, <1>5 DEF NoneEnds

LEMMA SameSlotsSame ==
    ASSUME sessions' = sessions PROVE \A d : SameSlots(d)
BY DEF SameSlots

(* The session table, when a client is put in or taken out.                *)
LEMMA SlotAdded ==
    ASSUME NubInv, NEW c \in Clients \cup {OtherNub}, NewHandle(sessions) # 0,
           sessions' = addObject(sessions, c)
    PROVE  /\ sessions' \in Tables(Clients \cup {OtherNub})
           /\ NewHandle(sessions) \in 0..MaxCapacity
           /\ NewHandle(sessions) \in DOMAIN sessions'
           /\ \A d \in Clients \ {c} : SameSlots(d)
           /\ (\A i \in DOMAIN sessions : sessions[i] # c) =>
                 \A i \in DOMAIN sessions' : sessions'[i] = c <=> i = NewHandle(sessions)
<1> USE UserClientAssumption DEF UserClientAssumption
<1> DEFINE ref == NewHandle(sessions)
<1>1. /\ sessions \in Tables(Clients \cup {OtherNub})
      /\ NoObject \notin Clients \cup {OtherNub}
  BY DEF NubInv, NubTypes
<1>2. /\ addObject(sessions, c) \in Tables(Clients \cup {OtherNub})
      /\ ref \in {0} \cup AllHandles
      /\ ref \in DOMAIN addObject(sessions, c)
      /\ addObject(sessions, c)[ref] = c
      /\ ref \in DOMAIN sessions => sessions[ref] = NoObject
      /\ DOMAIN sessions \subseteq DOMAIN addObject(sessions, c)
      /\ \A i \in DOMAIN addObject(sessions, c) : i # ref =>
            addObject(sessions, c)[i] = IF i \in DOMAIN sessions THEN sessions[i] ELSE NoObject
  BY <1>1, AddedTable
<1> HIDE DEF ref
<1>3. /\ ref \in DOMAIN sessions' /\ sessions'[ref] = c
      /\ DOMAIN sessions \subseteq DOMAIN sessions'
      /\ \A i \in DOMAIN sessions' : i # ref =>
            sessions'[i] = IF i \in DOMAIN sessions THEN sessions[i] ELSE NoObject
  BY <1>2
<1>4. ref \in 0..MaxCapacity
  BY <1>2, ExporterAssumption DEF AllHandles, ExporterAssumption
<1>5. ASSUME NEW d \in Clients \ {c} PROVE SameSlots(d)
  <2> SUFFICES ASSUME NEW i
               PROVE  i \in DOMAIN sessions' /\ sessions'[i] = d
                      <=> i \in DOMAIN sessions /\ sessions[i] = d
    BY DEF SameSlots
  <2>1. d # NoObject /\ d # c
    OBVIOUS
  <2>2. CASE i = ref
    BY <1>2, <1>3, <2>1, <2>2
  <2>3. CASE i # ref
    BY <1>3, <2>1, <2>3
  <2>4. QED
    BY <2>2, <2>3
<1>6. ASSUME \A i \in DOMAIN sessions : sessions[i] # c
      PROVE  \A i \in DOMAIN sessions' : sessions'[i] = c <=> i = ref
  <2>1. c # NoObject
    OBVIOUS
  <2>2. QED
    BY <1>3, <1>6, <2>1
<1>7. QED
  BY <1>2, <1>3, <1>4, <1>5, <1>6 DEF ref

LEMMA SlotRemoved ==
    ASSUME NubInv, NEW h, h \in DOMAIN sessions, sessions' = removeObject(sessions, h)
    PROVE  /\ sessions' \in Tables(Clients \cup {OtherNub})
           /\ \A d \in Clients : sessions[h] # d => SameSlots(d)
           /\ \A d \in Clients : (\A i \in DOMAIN sessions : sessions[i] = d => i = h)
                                    => Unlisted(d)'
<1> USE UserClientAssumption DEF UserClientAssumption
<1>1. sessions \in Tables(Clients \cup {OtherNub})
  BY DEF NubInv, NubTypes
<1>2. /\ sessions' \in Tables(Clients \cup {OtherNub})
      /\ DOMAIN sessions' = DOMAIN sessions
      /\ \A i \in DOMAIN sessions : sessions'[i] = IF i = h THEN NoObject ELSE sessions[i]
  BY <1>1, RemovedTable
<1>3. \A d \in Clients : d # NoObject
  OBVIOUS
<1>4. ASSUME NEW d \in Clients, sessions[h] # d PROVE SameSlots(d)
  BY <1>2, <1>3, <1>4 DEF SameSlots
<1>5. ASSUME NEW d \in Clients, \A i \in DOMAIN sessions : sessions[i] = d => i = h
      PROVE  Unlisted(d)'
  BY <1>2, <1>3, <1>5 DEF Unlisted
<1>6. QED
  BY <1>2, <1>4, <1>5

LEMMA InitialNub ==
    ASSUME ClientInit PROVE NubInv
<1> USE UserClientAssumption DEF UserClientAssumption
<1>1. sessions \in Tables(Clients \cup {OtherNub}) /\ DOMAIN sessions = {}
  BY EmptyTable DEF ClientInit
<1>2. /\ NotOpened("started", TRUE) \in Connections
      /\ NotOpened("started", TRUE).step = "none"
      /\ NotOpened("started", TRUE).fSelfOpenCount = 0
      /\ NotOpened("started", TRUE).fOpenClient = NoClient
      /\ NotOpened("started", TRUE).found = NoClient
  BY ExporterAssumption DEF NotOpened, Connections, Steps, ExporterAssumption
<1>3. NubTypes
  BY <1>1, <1>2 DEF ClientInit, NubTypes
<1>4. ASSUME NEW c \in Clients PROVE Phase(c)
  <2>1. c # opener /\ c # NoClient /\ c \notin unclosable
        /\ client[c] = NotOpened("started", TRUE)
    BY DEF ClientInit
  <2>2. QED
    BY <1>1, <1>2, <2>1 DEF Phase, Without, Unlisted
<1>5. QED
  BY <1>3, <1>4 DEF NubInv

LEMMA userOpenKeepsNub ==
    ASSUME NubInv, ConnectedLive, NEW c \in Clients, userOpen(c)
    PROVE  NubInv' /\ NoneEnds
<1> USE UserClientAssumption DEF UserClientAssumption
<1> DEFINE r == [client[c] EXCEPT !.step = "opened"]
<1>1. /\ opener = NoClient /\ opener' = c /\ sessions' = sessions
      /\ unclosable' = IF client[c].state = "stopped" THEN unclosable \cup {c}
                                                      ELSE unclosable
      /\ client' = [client EXCEPT ![c] = r]
      /\ client[c].connected
  BY DEF userOpen, MayOpenNub
<1>2. client \in [Clients -> Connections] /\ client[c] \in Connections
      /\ sessions \in Tables(Clients \cup {OtherNub})
  BY DEF NubInv, NubTypes
<1>3. r \in Connections /\ r.step = "opened" /\ Agree(client[c], r, {"step"})
  BY <1>2, StepSet DEF Steps
<1> HIDE DEF r
<1>4. c # opener /\ Without(c)
  BY <1>1 DEF NubInv, Phase
<1>5. client'[c] = r
  BY <1>1, <1>2
<1>6. r.state = client[c].state /\ r.fSelfOpenCount = 0 /\ r.fOpenClient # c
      /\ r.found # c /\ (r.connected <=> client[c].connected) /\ Unlisted(c)
      /\ c \notin unclosable
  <2>1. client[c].step = "none"
    BY DEF userOpen, MayOpenNub, Idle
  <2>2. QED
    BY <1>3, <1>4, <2>1 DEF Agree, Without
<1>7. Unlisted(c)'
  BY <1>1, <1>6 DEF Unlisted
<1>8. Phase(c)'
  <2>1. CASE client[c].state = "stopped"
    <3>1. Stuck(c)'
      BY <1>3, <1>5, <1>6, <2>1 DEF Stuck
    <3>2. QED
      BY <1>1, <2>1, <3>1 DEF Phase
  <2>2. CASE client[c].state # "stopped"
    <3>1. client[c].state \in {"started", "inactive"}
      BY <1>1, <1>2, <2>2 DEF ConnectedLive, Connections
    <3>2. Has(c)'
      BY <1>1, <1>3, <1>5, <1>6, <1>7, <3>1 DEF Has
    <3>3. QED
      BY <1>1, <1>6, <2>2, <3>2 DEF Phase
  <2>3. QED
    BY <2>1, <2>2
<1>9. /\ opener' \in {opener, c, NoClient} /\ opener \in {opener', c, NoClient}
      /\ unclosable' \in {unclosable, unclosable \cup {c}}
      /\ sessions' \in Tables(Clients \cup {OtherNub})
  BY <1>1, <1>2
<1>10. \A d \in Clients \ {c} : SameSlots(d)
  BY <1>1, SameSlotsSame
<1>11. r.state = "freed" => client[c].state = "freed"
  BY <1>6
<1>12. r.connected => client[c].connected
  BY <1>6
<1>13. QED
  BY <1>1, <1>3, <1>8, <1>9, <1>10, <1>11, <1>12, OneClientGoesOn

LEMMA AddsSessionKeepsNub ==
    ASSUME NubInv, NEW c \in Clients, AddsSession(c)
    PROVE  NubInv' /\ NoneEnds
<1> USE UserClientAssumption DEF UserClientAssumption
<1> DEFINE ref == NewHandle(sessions)
           none == [client[c] EXCEPT !.step = "none"]
           listed == [client[c] EXCEPT !.step = "listed"]
           r == [listed EXCEPT !.fSessionRef = ref]
<1>1. /\ opener' = opener /\ sessions' = addObject(sessions, c)
      /\ client[c].step = "opened"
  BY DEF AddsSession
<1>2. client \in [Clients -> Connections] /\ client[c] \in Connections
      /\ sessions \in Tables(Clients \cup {OtherNub})
  BY DEF NubInv, NubTypes
<1>3. /\ c = opener /\ (c \in unclosable => client[c].state = "stopped")
      /\ c \notin unclosable => Has(c)
  BY <1>1 DEF NubInv, Phase, Without, Stuck
<1>4. Has(c) => /\ client[c].state \in {"started", "inactive"} /\ client[c].found # c
                /\ client[c].connected /\ Unlisted(c)
                /\ client[c].fSelfOpenCount = 0 /\ client[c].fOpenClient # c
  BY <1>1 DEF Has
<1>5. opener' \in {opener, c, NoClient} /\ opener \in {opener', c, NoClient}
  BY <1>1
<1>6. CASE ref = 0
  <2>1. /\ client' = [client EXCEPT ![c] = none] /\ unclosable' = unclosable \cup {c}
    BY <1>6 DEF AddsSession
  <2>2. none \in Connections /\ none.step = "none" /\ Agree(client[c], none, {"step"})
    BY <1>2, StepSet DEF Steps
  <2> HIDE DEF none, ref
  <2>3. sessions' = sessions
    BY <1>1, <1>6 DEF addObject, ref
  <2>4. client'[c] = none
    BY <1>2, <2>1
  <2>5. /\ none.state = client[c].state /\ none.fOpenClient = client[c].fOpenClient
        /\ none.found = client[c].found /\ (none.connected <=> client[c].connected)
    BY <2>2 DEF Agree
  <2>6. Stuck(c)'
    <3>1. CASE client[c].state = "stopped"
      BY <2>2, <2>4, <2>5, <3>1 DEF Stuck
    <3>2. CASE client[c].state # "stopped"
      <4>1. Unlisted(c)' /\ none.fOpenClient # c /\ none.found # c
        BY <1>3, <1>4, <2>3, <2>5, <3>2 DEF Unlisted
      <4>2. QED
        BY <2>2, <2>4, <4>1 DEF Stuck
    <3>3. QED
      BY <3>1, <3>2
  <2>7. Phase(c)'
    BY <1>1, <1>3, <2>1, <2>6 DEF Phase
  <2>8. /\ unclosable' \in {unclosable, unclosable \cup {c}}
        /\ sessions' \in Tables(Clients \cup {OtherNub})
        /\ \A d \in Clients \ {c} : SameSlots(d)
    BY <1>2, <2>1, <2>3, SameSlotsSame
  <2>9. none.state = "freed" => client[c].state = "freed"
    BY <2>5
  <2>10. none.connected => client[c].connected
    BY <2>5
  <2>11. QED
    BY <1>5, <2>1, <2>2, <2>7, <2>8, <2>9, <2>10, OneClientGoesOn
<1>7. CASE ref # 0
  <2>1. client' = [client EXCEPT ![c] = r] /\ unclosable' = unclosable
    BY <1>2, <1>7 DEF AddsSession
  <2>2. /\ sessions' \in Tables(Clients \cup {OtherNub})
        /\ ref \in 0..MaxCapacity /\ ref \in DOMAIN sessions'
        /\ \A d \in Clients \ {c} : SameSlots(d)
        /\ Unlisted(c) => \A i \in DOMAIN sessions' : sessions'[i] = c <=> i = ref
    BY <1>1, <1>7, SlotAdded DEF Unlisted
  <2>3. listed \in Connections /\ listed.step = "listed"
        /\ Agree(client[c], listed, {"step"})
    BY <1>2, StepSet DEF Steps
  <2> HIDE DEF listed, ref
  <2>4. r \in Connections /\ r.fSessionRef = ref /\ Agree(listed, r, {"fSessionRef"})
    BY <2>2, <2>3, SessionRefSet
  <2> HIDE DEF r
  <2>5. client'[c] = r
    BY <1>2, <2>1
  <2>6. /\ r.step = "listed" /\ r.state = client[c].state
        /\ r.fSelfOpenCount = client[c].fSelfOpenCount
        /\ r.found = client[c].found /\ (r.connected <=> client[c].connected)
    BY <2>3, <2>4 DEF Agree
  <2>7. Phase(c)'
    <3>1. CASE c \in unclosable
      <4>1. Stuck(c)'
        BY <1>3, <2>5, <2>6, <3>1 DEF Stuck
      <4>2. QED
        BY <1>1, <1>3, <2>1, <3>1, <4>1 DEF Phase
    <3>2. CASE c \notin unclosable
      <4>1. client'[c].fSessionRef = ref
        BY <2>4, <2>5
      <4>2. Listed(c)'
        BY <1>3, <1>4, <2>2, <3>2, <4>1 DEF Listed
      <4>3. Has(c)'
        BY <1>3, <1>4, <2>5, <2>6, <3>2, <4>2 DEF Has
      <4>4. QED
        BY <1>1, <1>3, <2>1, <3>2, <4>3 DEF Phase
    <3>3. QED
      BY <3>1, <3>2
  <2>8. r.state = "freed" => client[c].state = "freed"
    BY <2>6
  <2>9. r.connected => client[c].connected
    BY <2>6
  <2>10. unclosable' \in {unclosable, unclosable \cup {c}}
    BY <2>1
  <2>11. QED
    BY <1>5, <2>1, <2>2, <2>4, <2>7, <2>8, <2>9, <2>10, OneClientGoesOn
<1>8. QED
  BY <1>6, <1>7

LEMMA KnowsItIsOpenKeepsNub ==
    ASSUME NubInv, NEW c \in Clients, KnowsItIsOpen(c)
    PROVE  NubInv' /\ NoneEnds
<1> DEFINE r1 == [client[c] EXCEPT !.step = "none"]
           r2 == [r1 EXCEPT !.mIsOpen = TRUE]
           r3 == [r2 EXCEPT !.fSelfOpenCount = 1]
           r == [r3 EXCEPT !.fOpenClient = c]
<1>1. client \in [Clients -> Connections] /\ client[c] \in Connections
      /\ sessions \in Tables(Clients \cup {OtherNub})
  BY DEF NubInv, NubTypes
<1>2. /\ opener' = opener /\ sessions' = sessions /\ unclosable' = unclosable
      /\ client[c].step = "listed" /\ client' = [client EXCEPT ![c] = r]
  BY <1>1 DEF KnowsItIsOpen
<1>3. r1 \in Connections /\ r1.step = "none" /\ Agree(client[c], r1, {"step"})
  BY <1>1, StepSet DEF Steps
<1> HIDE DEF r1
<1>4. r2 \in Connections /\ r2.mIsOpen /\ Agree(r1, r2, {"mIsOpen"})
  BY <1>3, OpenSet
<1> HIDE DEF r2
<1>5. r3 \in Connections /\ r3.fSelfOpenCount = 1 /\ Agree(r2, r3, {"fSelfOpenCount"})
  <2>1. 1 \in 0..1
    OBVIOUS
  <2>2. QED
    BY <1>4, <2>1, CountSet
<1> HIDE DEF r3
<1>6. r \in Connections /\ r.fOpenClient = c /\ Agree(r3, r, {"fOpenClient"})
  BY <1>5, OpenClientSet
<1> HIDE DEF r
<1>7. /\ r.step = "none" /\ r.mIsOpen /\ r.fSelfOpenCount = 1
      /\ r.state = client[c].state /\ r.found = client[c].found
      /\ r.fSessionRef = client[c].fSessionRef
      /\ (r.connected <=> client[c].connected)
  BY <1>3, <1>4, <1>5, <1>6 DEF Agree
<1>8. client'[c] = r
  BY <1>1, <1>2
<1>9. /\ c = opener /\ (c \in unclosable => client[c].state = "stopped")
      /\ c \notin unclosable => Has(c)
  BY <1>2 DEF NubInv, Phase, Without, Stuck
<1>10. Phase(c)'
  <2>1. CASE c \in unclosable
    <3>1. Stuck(c)'
      BY <1>7, <1>8, <1>9, <2>1 DEF Stuck
    <3>2. QED
      BY <1>2, <1>9, <2>1, <3>1 DEF Phase
  <2>2. CASE c \notin unclosable
    <3>1. /\ client[c].state \in {"started", "inactive"} /\ client[c].found # c
          /\ client[c].connected /\ Listed(c)
      BY <1>2, <1>9, <2>2 DEF Has
    <3>2. Listed(c)'
      BY <1>2, <1>7, <1>8, <3>1 DEF Listed
    <3>3. Has(c)'
      BY <1>6, <1>7, <1>8, <3>1, <3>2 DEF Has
    <3>4. QED
      BY <1>2, <1>9, <2>2, <3>3 DEF Phase
  <2>3. QED
    BY <2>1, <2>2
<1>11. r.state = "freed" => client[c].state = "freed"
  BY <1>7
<1>12. r.connected => client[c].connected
  BY <1>7
<1>13. /\ opener' \in {opener, c, NoClient} /\ opener \in {opener', c, NoClient}
       /\ unclosable' \in {unclosable, unclosable \cup {c}}
       /\ sessions' \in Tables(Clients \cup {OtherNub})
       /\ \A d \in Clients \ {c} : SameSlots(d)
  BY <1>1, <1>2, SameSlotsSame
<1>14. QED
  BY <1>2, <1>6, <1>10, <1>11, <1>12, <1>13, OneClientGoesOn

(* What a session names is not the client itself, unless that was stopped. *)
LEMMA userOpenWithSessionRefKeepsNub ==
    ASSUME NubInv, ConnectedLive, NEW c \in Clients, NEW ref,
           userOpenWithSessionRef(c, ref)
    PROVE  NubInv' /\ NoneEnds
<1> USE UserClientAssumption DEF UserClientAssumption
<1> DEFINE d == lookupObject(sessions, ref)
           r1 == [client[c] EXCEPT !.step = "found"]
           r == [r1 EXCEPT !.found = d]
<1>1. client \in [Clients -> Connections] /\ client[c] \in Connections
      /\ sessions \in Tables(Clients \cup {OtherNub})
  BY DEF NubInv, NubTypes
<1>2. /\ opener' = opener /\ sessions' = sessions /\ unclosable' = unclosable
      /\ d # NoObject /\ client' = [client EXCEPT ![c] = r]
      /\ client[c].connected /\ ~client[c].mIsOpen /\ client[c].step = "none"
  BY <1>1 DEF userOpenWithSessionRef, MayOpenNub, Idle
<1>3. d \in Clients \cup {OtherNub} /\ ref \in DOMAIN sessions /\ sessions[ref] = d
  BY <1>1, <1>2, FoundInTable
<1>4. r1 \in Connections /\ r1.step = "found" /\ Agree(client[c], r1, {"step"})
  BY <1>1, StepSet DEF Steps
<1> HIDE DEF r1, d
<1>5. r \in Connections /\ r.found = d /\ Agree(r1, r, {"found"})
  BY <1>3, <1>4, FoundSet
<1> HIDE DEF r
<1>6. /\ r.step = "found" /\ r.state = client[c].state
      /\ r.fSelfOpenCount = client[c].fSelfOpenCount
      /\ r.fOpenClient = client[c].fOpenClient
      /\ (r.connected <=> client[c].connected)
  BY <1>4, <1>5 DEF Agree
<1>7. client'[c] = r
  BY <1>1, <1>2
<1>8. Unlisted(c) => Unlisted(c)' /\ d # c
  BY <1>2, <1>3 DEF Unlisted
<1>9. Phase(c)'
  <2>1. CASE c # opener
    <3>1. Without(c)
      BY <2>1 DEF NubInv, Phase
    <3>2. Without(c)'
      BY <1>2, <1>5, <1>6, <1>7, <1>8, <3>1 DEF Without
    <3>3. QED
      BY <1>2, <2>1, <3>2 DEF Phase
  <2>2. CASE c = opener /\ c \in unclosable
    <3>1. Stuck(c) /\ client[c].state # "freed"
      BY <1>2, <2>2 DEF NubInv, Phase, ConnectedLive
    <3>2. CASE client[c].state = "stopped"
      <4>1. Stuck(c)'
        BY <1>6, <1>7, <3>2 DEF Stuck
      <4>2. QED
        BY <1>2, <2>2, <4>1 DEF Phase
    <3>3. CASE client[c].state # "stopped"
      <4>1. Unlisted(c) /\ client[c].fOpenClient # c
        BY <3>1, <3>3 DEF Stuck
      <4>2. Stuck(c)'
        BY <1>5, <1>6, <1>7, <1>8, <4>1 DEF Stuck
      <4>3. QED
        BY <1>2, <2>2, <4>2 DEF Phase
    <3>4. QED
      BY <3>2, <3>3
  <2>3. CASE c = opener /\ c \notin unclosable
    BY <1>2, <2>3 DEF NubInv, Phase, Has
  <2>4. QED
    BY <2>1, <2>2, <2>3
<1>10. r.state = "freed" => client[c].state = "freed"
  BY <1>6
<1>11. r.connected => client[c].connected
  BY <1>6
<1>12. /\ opener' \in {opener, c, NoClient} /\ opener \in {opener', c, NoClient}
       /\ unclosable' \in {unclosable, unclosable \cup {c}}
       /\ sessions' \in Tables(Clients \cup {OtherNub})
       /\ \A e \in Clients \ {c} : SameSlots(e)
  BY <1>1, <1>2, SameSlotsSame
<1>13. QED
  BY <1>2, <1>5, <1>9, <1>10, <1>11, <1>12, OneClientGoesOn

LEMMA SharesOpenKeepsNub ==
    ASSUME NubInv, NEW c \in Clients, SharesOpen(c)
    PROVE  NubInv' /\ NoneEnds
<1> USE UserClientAssumption DEF UserClientAssumption
<1> DEFINE d == client[c].found
           met == d \in Clients /\ client[d].state # "stopped"
           r1 == [client[c] EXCEPT !.step = "none"]
           r2 == [r1 EXCEPT !.found = NoClient]
           r3 == [r2 EXCEPT !.mIsOpen = TRUE]
           o == IF met THEN d ELSE client[c].fOpenClient
           r == [r3 EXCEPT !.fOpenClient = o]
<1>1. client \in [Clients -> Connections] /\ client[c] \in Connections
      /\ sessions \in Tables(Clients \cup {OtherNub})
  BY DEF NubInv, NubTypes
<1>2. client[c].step = "found" /\ (met => d # c)
  BY DEF SharesOpen, NubInv, Phase, Without, Stuck, Has
<1>3. /\ opener' = opener /\ sessions' = sessions /\ unclosable' = unclosable
      /\ client' = [client EXCEPT ![c] = r]
  <2>1. /\ client' = [client EXCEPT
              ![c].step = "none", ![c].found = NoClient, ![c].mIsOpen = TRUE,
              ![c].fOpenClient = IF met THEN d ELSE @,
              ![c].fSelfOpenCount = IF met /\ d = c THEN @ + 1 ELSE @]
        /\ opener' = opener /\ sessions' = sessions /\ unclosable' = unclosable
    BY DEF SharesOpen
  <2>2. (met /\ d = c) = FALSE
    BY <1>2
  <2> HIDE DEF met, d
  <2>3. client' = [client EXCEPT ![c] = r]
    BY <1>1, <2>1, <2>2 DEF Connections
  <2>4. QED
    BY <2>1, <2>3
<1>4. o \in Clients \cup {NoClient} /\ (client[c].fOpenClient # c => o # c)
  BY <1>1, <1>2 DEF Connections
<1>5. r1 \in Connections /\ r1.step = "none" /\ Agree(client[c], r1, {"step"})
  BY <1>1, StepSet DEF Steps
<1> HIDE DEF r1, o, d, met
<1>6. r2 \in Connections /\ r2.found = NoClient /\ Agree(r1, r2, {"found"})
  BY <1>5, FoundSet
<1> HIDE DEF r2
<1>7. r3 \in Connections /\ Agree(r2, r3, {"mIsOpen"})
  BY <1>6, OpenSet
<1> HIDE DEF r3
<1>8. r \in Connections /\ r.fOpenClient = o /\ Agree(r3, r, {"fOpenClient"})
  BY <1>4, <1>7, OpenClientSet
<1> HIDE DEF r
<1>9. /\ r.step = "none" /\ r.found = NoClient /\ r.state = client[c].state
      /\ r.fSelfOpenCount = client[c].fSelfOpenCount
      /\ (r.connected <=> client[c].connected)
  BY <1>5, <1>6, <1>7, <1>8 DEF Agree
<1>10. client'[c] = r /\ (Unlisted(c) => Unlisted(c)') /\ c # NoClient
  BY <1>1, <1>3 DEF Unlisted
<1>11. Phase(c)'
  <2>1. CASE c # opener
    <3>1. Without(c) /\ client[c].fOpenClient # c
      BY <1>2, <2>1 DEF NubInv, Phase, Without
    <3>2. Without(c)'
      BY <1>3, <1>4, <1>8, <1>9, <1>10, <3>1 DEF Without
    <3>3. QED
      BY <1>3, <2>1, <3>2 DEF Phase
  <2>2. CASE c = opener
    <3>1. c \in unclosable /\ Stuck(c)
      BY <1>2, <2>2 DEF NubInv, Phase, Has
    <3>2. CASE client[c].state = "stopped"
      <4>1. Stuck(c)'
        BY <1>9, <1>10, <3>2 DEF Stuck
      <4>2. QED
        BY <1>3, <2>2, <3>1, <4>1 DEF Phase
    <3>3. CASE client[c].state # "stopped"
      <4>1. Unlisted(c) /\ client[c].fOpenClient # c
        BY <1>2, <3>1, <3>3 DEF Stuck
      <4>2. Stuck(c)'
        BY <1>4, <1>8, <1>9, <1>10, <4>1 DEF Stuck
      <4>3. QED
        BY <1>3, <2>2, <3>1, <4>2 DEF Phase
    <3>4. QED
      BY <3>2, <3>3
  <2>3. QED
    BY <2>1, <2>2
<1>12. r.state = "freed" => client[c].state = "freed"
  BY <1>9
<1>13. r.connected => client[c].connected
  BY <1>9
<1>14. /\ opener' \in {opener, c, NoClient} /\ opener \in {opener', c, NoClient}
       /\ unclosable' \in {unclosable, unclosable \cup {c}}
       /\ sessions' \in Tables(Clients \cup {OtherNub})
       /\ \A e \in Clients \ {c} : SameSlots(e)
  BY <1>1, <1>3, SameSlotsSame
<1>15. QED
  BY <1>3, <1>8, <1>11, <1>12, <1>13, <1>14, OneClientGoesOn

(* The records that closing returns or leaves under way.                   *)
LEMMA ReturnedRecord ==
    ASSUME NEW q \in Connections
    PROVE  LET s == Returned(q)
           IN  /\ s \in Connections /\ s.step = "none"
               /\ s.state \in {q.state, Terminated(q.state)}
               /\ Agree(q, s, {"step", "mIsOpen", "state"})
<1> DEFINE x == IF q.connected THEN q.state ELSE Terminated(q.state)
           r1 == [q EXCEPT !.step = "none"]
           r2 == [r1 EXCEPT !.mIsOpen = FALSE]
           r3 == [r2 EXCEPT !.state = x]
<1>1. x \in {"started", "inactive", "stopped", "freed"}
      /\ x \in {q.state, Terminated(q.state)}
  BY DEF Connections, Terminated
<1>2. Returned(q) = r3
  BY DEF Returned, Connections
<1> HIDE DEF x
<1>3. r1 \in Connections /\ r1.step = "none" /\ Agree(q, r1, {"step"})
  BY StepSet DEF Steps
<1> HIDE DEF r1
<1>4. r2 \in Connections /\ Agree(r1, r2, {"mIsOpen"})
  BY <1>3, OpenSet
<1> HIDE DEF r2
<1>5. r3 \in Connections /\ r3.state = x /\ Agree(r2, r3, {"state"})
  BY <1>1, <1>4, StateSet
<1> HIDE DEF r3
<1>6. QED
  BY <1>1, <1>2, <1>3, <1>4, <1>5 DEF Agree

(* A close that begins on q, which is the client's record or says that it  *)
(* is not connected any more.                                              *)
LEMMA ClosesKeepsNub ==
    ASSUME NubInv, ConnectedLive, NEW c \in Clients, NEW q \in Connections,
           client[c].connected, client[c].step = "none",
           Agree(client[c], q, {"connected"}), q.connected => client[c].connected,
           Closes(c, q), opener' = opener, sessions' = sessions,
           unclosable' = unclosable
    PROVE  NubInv' /\ NoneEnds
<1> DEFINE whole == ~HasNub(c) \/ q.fSelfOpenCount = 0
           few == [q EXCEPT !.fSelfOpenCount = 0]
           closing == [few EXCEPT !.step = "closing"]
           r == IF whole THEN Returned(q) ELSE closing
<1>1. client \in [Clients -> Connections] /\ client[c] \in Connections
      /\ sessions \in Tables(Clients \cup {OtherNub})
  BY DEF NubInv, NubTypes
<1>2. /\ q.step = "none" /\ q.state = client[c].state /\ q.found = client[c].found
      /\ q.fOpenClient = client[c].fOpenClient
      /\ q.fSessionRef = client[c].fSessionRef
      /\ q.fSelfOpenCount = client[c].fSelfOpenCount
      /\ q.fSelfOpenCount \in {0, 1}
  <2>1. q.fSelfOpenCount \in 0..1
    BY DEF Connections
  <2>2. QED
    BY <2>1 DEF Agree
<1>3. client[c].state # "freed"
  BY DEF ConnectedLive
<1>4. client' = [client EXCEPT ![c] = r]
  <2>1. ~(q.fSelfOpenCount > 1)
    BY <1>2
  <2>2. [q EXCEPT !.fSelfOpenCount = 0, !.step = "closing"] = closing
    BY DEF Connections
  <2>3. QED
    BY <2>1, <2>2 DEF Closes
<1>5. /\ few \in Connections /\ few.fSelfOpenCount = 0
      /\ Agree(q, few, {"fSelfOpenCount"})
  <2>1. 0 \in 0..1
    OBVIOUS
  <2>2. QED
    BY <2>1, CountSet
<1> HIDE DEF few
<1>6. /\ closing \in Connections /\ closing.step = "closing"
      /\ Agree(few, closing, {"step"})
  BY <1>5, StepSet DEF Steps
<1> HIDE DEF closing
<1>7. /\ closing.state = q.state /\ closing.found = q.found
      /\ closing.fSessionRef = q.fSessionRef /\ closing.fSelfOpenCount = 0
      /\ (closing.connected <=> q.connected)
  BY <1>5, <1>6 DEF Agree
<1>8. /\ Returned(q) \in Connections /\ Returned(q).step = "none"
      /\ Returned(q).state \in {q.state, Terminated(q.state)}
      /\ Returned(q).found = q.found /\ Returned(q).fOpenClient = q.fOpenClient
      /\ Returned(q).fSelfOpenCount = q.fSelfOpenCount
      /\ (Returned(q).connected <=> q.connected)
  BY ReturnedRecord DEF Agree
<1>9. r \in Connections
  BY <1>6, <1>8
<1>10. client'[c] = r /\ (Unlisted(c) => Unlisted(c)')
  BY <1>1, <1>4 DEF Unlisted
<1>11. Phase(c)'
  <2>1. CASE c # opener
    <3>1. Without(c) /\ whole
      BY <2>1 DEF NubInv, Phase, HasNub
    <3>2. client'[c] = Returned(q)
      BY <1>10, <3>1
    <3>3. Without(c)'
      BY <1>2, <1>8, <1>10, <3>1, <3>2 DEF Without
    <3>4. QED
      BY <2>1, <3>3 DEF Phase
  <2>2. CASE c = opener /\ c \in unclosable
    <3>1. Stuck(c)
      BY <2>2 DEF NubInv, Phase
    <3>2. whole
      BY <1>3, <3>1 DEF Stuck, HasNub
    <3>3. client'[c] = Returned(q)
      BY <1>10, <3>2
    <3>4. client[c].state = "stopped" => Returned(q).state = "stopped"
      BY <1>2, <1>8 DEF Terminated
    <3>5. Stuck(c)'
      BY <1>2, <1>3, <1>8, <1>10, <3>1, <3>3, <3>4 DEF Stuck
    <3>6. QED
      BY <2>2, <3>5 DEF Phase
  <2>3. CASE c = opener /\ c \notin unclosable
    <3>1. Has(c)
      BY <2>3 DEF NubInv, Phase
    <3>2. /\ client[c].state \in {"started", "inactive"} /\ client[c].found # c
          /\ Listed(c) /\ client[c].fSelfOpenCount = 1 /\ client[c].fOpenClient = c
      BY <3>1 DEF Has
    <3>3. ~whole
      BY <1>2, <2>3, <3>2 DEF HasNub
    <3>4. client'[c] = closing
      BY <1>10, <3>3
    <3>5. Listed(c)'
      BY <1>2, <1>7, <3>2, <3>4 DEF Listed
    <3>6. Has(c)'
      BY <1>2, <1>6, <1>7, <3>2, <3>4, <3>5 DEF Has
    <3>7. QED
      BY <2>3, <3>6 DEF Phase
  <2>4. QED
    BY <2>1, <2>2, <2>3
<1>12. /\ r.state = "freed" => client[c].state = "freed"
       /\ r.connected => client[c].connected
  BY <1>2, <1>3, <1>7, <1>8 DEF Terminated
<1>13. /\ opener' \in {opener, c, NoClient} /\ opener \in {opener', c, NoClient}
       /\ unclosable' \in {unclosable, unclosable \cup {c}}
       /\ sessions' \in Tables(Clients \cup {OtherNub})
       /\ \A d \in Clients \ {c} : SameSlots(d)
  BY <1>1, SameSlotsSame
<1> HIDE DEF r
<1>14. QED
  BY <1>4, <1>9, <1>11, <1>12, <1>13, OneClientGoesOn

LEMMA EndsSessionKeepsNub ==
    ASSUME NubInv, NEW c \in Clients, EndsSession(c)
    PROVE  NubInv' /\ NoneEnds
<1> DEFINE r1 == [client[c] EXCEPT !.step = "unlisted"]
           r == [r1 EXCEPT !.fSessionRef = 0]
           ref == client[c].fSessionRef
<1>1. client \in [Clients -> Connections] /\ client[c] \in Connections
  BY DEF NubInv, NubTypes
<1>2. /\ opener' = opener /\ sessions' = removeObject(sessions, ref)
      /\ unclosable' = unclosable
      /\ client[c].step = "closing" /\ client' = [client EXCEPT ![c] = r]
  BY <1>1 DEF EndsSession
<1>3. c = opener /\ c \notin unclosable /\ Has(c)
  BY <1>2 DEF NubInv, Phase, Without, Stuck
<1>4. /\ client[c].state \in {"started", "inactive"} /\ client[c].found # c
      /\ Listed(c) /\ client[c].fSelfOpenCount = 0
  BY <1>2, <1>3 DEF Has
<1>5. ref \in DOMAIN sessions /\ sessions[ref] = c
      /\ \A i \in DOMAIN sessions : sessions[i] = c => i = ref
  BY <1>4 DEF Listed
<1> HIDE DEF ref
<1>6. /\ sessions' \in Tables(Clients \cup {OtherNub})
      /\ \A d \in Clients \ {c} : SameSlots(d)
      /\ Unlisted(c)'
  BY <1>2, <1>5, SlotRemoved
<1>7. r1 \in Connections /\ r1.step = "unlisted" /\ Agree(client[c], r1, {"step"})
  BY <1>1, StepSet DEF Steps
<1> HIDE DEF r1
<1>8. r \in Connections /\ Agree(r1, r, {"fSessionRef"})
  <2>1. 0 \in 0..MaxCapacity
    BY ExporterAssumption DEF ExporterAssumption
  <2>2. QED
    BY <1>7, <2>1, SessionRefSet
<1> HIDE DEF r
<1>9. /\ r.step = "unlisted" /\ r.state = client[c].state
      /\ r.found = client[c].found /\ r.fSelfOpenCount = client[c].fSelfOpenCount
      /\ (r.connected <=> client[c].connected)
  BY <1>7, <1>8 DEF Agree
<1>10. client'[c] = r
  BY <1>1, <1>2
<1>11. Phase(c)'
  <2>1. Has(c)'
    BY <1>4, <1>6, <1>9, <1>10 DEF Has
  <2>2. QED
    BY <1>2, <1>3, <2>1 DEF Phase
<1>12. r.state = "freed" => client[c].state = "freed"
  BY <1>9
<1>13. r.connected => client[c].connected
  BY <1>9
<1>14. /\ opener' \in {opener, c, NoClient} /\ opener \in {opener', c, NoClient}
       /\ unclosable' \in {unclosable, unclosable \cup {c}}
  BY <1>2
<1>15. QED
  BY <1>2, <1>6, <1>8, <1>11, <1>12, <1>13, <1>14, OneClientGoesOn

LEMMA ClosesNubKeepsNub ==
    ASSUME NubInv, NEW c \in Clients, ClosesNub(c)
    PROVE  NubInv' /\ NoneEnds
<1> USE UserClientAssumption DEF UserClientAssumption
<1> DEFINE r == [client[c] EXCEPT !.step = "closed"]
<1>1. client \in [Clients -> Connections] /\ client[c] \in Connections
      /\ sessions \in Tables(Clients \cup {OtherNub})
  BY DEF NubInv, NubTypes
<1>2. /\ opener' = NoClient /\ sessions' = sessions /\ unclosable' = unclosable
      /\ client[c].step = "unlisted" /\ client' = [client EXCEPT ![c] = r]
  BY DEF ClosesNub
<1>3. c = opener /\ c \notin unclosable /\ Has(c)
  BY <1>2 DEF NubInv, Phase, Without, Stuck
<1>4. client[c].found # c /\ Unlisted(c) /\ client[c].fSelfOpenCount = 0
  BY <1>2, <1>3 DEF Has
<1>5. r \in Connections /\ r.step = "closed" /\ Agree(client[c], r, {"step"})
  BY <1>1, StepSet DEF Steps
<1> HIDE DEF r
<1>6. /\ r.state = client[c].state /\ r.found = client[c].found
      /\ r.fSelfOpenCount = client[c].fSelfOpenCount
      /\ (r.connected <=> client[c].connected)
  BY <1>5 DEF Agree
<1>7. client'[c] = r /\ Unlisted(c)'
  BY <1>1, <1>2, <1>4 DEF Unlisted
<1>8. Phase(c)'
  <2>1. Without(c)'
    BY <1>2, <1>3, <1>4, <1>5, <1>6, <1>7 DEF Without
  <2>2. c # opener'
    BY <1>2
  <2>3. QED
    BY <2>1, <2>2 DEF Phase
<1>9. r.state = "freed" => client[c].state = "freed"
  BY <1>6
<1>10. r.connected => client[c].connected
  BY <1>6
<1>11. /\ opener' \in {opener, c, NoClient} /\ opener \in {opener', c, NoClient}
       /\ unclosable' \in {unclosable, unclosable \cup {c}}
       /\ sessions' \in Tables(Clients \cup {OtherNub})
       /\ \A d \in Clients \ {c} : SameSlots(d)
  BY <1>1, <1>2, <1>3, SameSlotsSame
<1>12. QED
  BY <1>2, <1>5, <1>8, <1>9, <1>10, <1>11, OneClientGoesOn

LEMMA ForgetsOpenKeepsNub ==
    ASSUME NubInv, NEW c \in Clients, ForgetsOpen(c)
    PROVE  NubInv' /\ NoneEnds
<1> USE UserClientAssumption DEF UserClientAssumption
<1> DEFINE q == [client[c] EXCEPT !.fOpenClient = NoClient]
           r == Returned(q)
<1>1. client \in [Clients -> Connections] /\ client[c] \in Connections
      /\ sessions \in Tables(Clients \cup {OtherNub})
  BY DEF NubInv, NubTypes
<1>2. /\ opener' = opener /\ sessions' = sessions /\ unclosable' = unclosable
      /\ client[c].step = "closed" /\ client' = [client EXCEPT ![c] = r]
  BY <1>1 DEF ForgetsOpen
<1>3. q \in Connections /\ q.fOpenClient = NoClient
      /\ Agree(client[c], q, {"fOpenClient"})
  BY <1>1, OpenClientSet
<1> HIDE DEF q
<1>4. /\ r \in Connections /\ r.step = "none"
      /\ r.state \in {q.state, Terminated(q.state)}
      /\ Agree(q, r, {"step", "mIsOpen", "state"})
  BY <1>3, ReturnedRecord
<1> HIDE DEF r
<1>5. /\ r.fOpenClient = NoClient /\ r.found = client[c].found
      /\ r.fSelfOpenCount = client[c].fSelfOpenCount
      /\ (r.connected <=> client[c].connected)
      /\ r.state \in {client[c].state, Terminated(client[c].state)}
  BY <1>3, <1>4 DEF Agree
<1>6. c # opener /\ Without(c)
  BY <1>2 DEF NubInv, Phase, Stuck, Has
<1>7. client'[c] = r /\ (Unlisted(c) => Unlisted(c)')
  BY <1>1, <1>2 DEF Unlisted
<1>8. Phase(c)'
  <2>1. Without(c)'
    BY <1>2, <1>4, <1>5, <1>6, <1>7 DEF Without
  <2>2. QED
    BY <1>2, <1>6, <2>1 DEF Phase
<1>9. r.state = "freed" => client[c].state = "freed"
  BY <1>5 DEF Terminated
<1>10. r.connected => client[c].connected
  BY <1>5
<1>11. /\ opener' \in {opener, c, NoClient} /\ opener \in {opener', c, NoClient}
       /\ unclosable' \in {unclosable, unclosable \cup {c}}
       /\ sessions' \in Tables(Clients \cup {OtherNub})
       /\ \A d \in Clients \ {c} : SameSlots(d)
  BY <1>1, <1>2, SameSlotsSame
<1>12. QED
  BY <1>2, <1>4, <1>8, <1>9, <1>10, <1>11, OneClientGoesOn

(* Who has no session, and whose connection does not change, sees nothing  *)
(* of the others.                                                          *)
LEMMA OthersKeepNub ==
    ASSUME NubInv, OtherOpens \/ OtherCloses PROVE NubInv' /\ NoneEnds
<1> USE UserClientAssumption DEF UserClientAssumption
<1>1. client' = client /\ opener' = opener /\ unclosable' = unclosable
  BY DEF OtherOpens, OtherCloses
<1>2. sessions' \in Tables(Clients \cup {OtherNub})
      /\ \A d \in Clients : SameSlots(d)
  <2>1. CASE OtherOpens
    <3>1. NewHandle(sessions) # 0 /\ sessions' = addObject(sessions, OtherNub)
      BY <2>1 DEF OtherOpens
    <3>2. \A d \in Clients : d # OtherNub
      OBVIOUS
    <3>3. QED
      BY <3>1, <3>2, SlotAdded
  <2>2. CASE OtherCloses
    <3>1. PICK ref \in Handles(sessions, OtherNub) :
             sessions' = removeObject(sessions, ref)
      BY <2>2 DEF OtherCloses
    <3>2. ref \in DOMAIN sessions /\ sessions[ref] = OtherNub
      BY DEF Handles
    <3>3. \A d \in Clients : sessions[ref] # d
      BY <3>2
    <3>4. QED
      BY <3>1, <3>2, <3>3, SlotRemoved
  <2>3. QED
    BY <2>1, <2>2
<1>3. NubTypes'
  BY <1>1, <1>2 DEF NubInv, NubTypes, Tables, Connections, Steps
<1>4. ASSUME NEW d \in Clients PROVE Phase(d)'
  <2>1. Phase(d) /\ client'[d] = client[d] /\ SameSlots(d)
    BY <1>1, <1>2 DEF NubInv
  <2>2. ((opener' = d) <=> (opener = d)) /\ ((d \in unclosable') <=> (d \in unclosable))
    BY <1>1
  <2>3. QED
    BY <2>1, <2>2, PhaseKept
<1>5. QED
  BY <1>1, <1>3, <1>4 DEF NubInv, NoneEnds

LEMMA StopKeepsNub ==
    ASSUME NubInv, NEW c \in Clients, Stop(c)
    PROVE  NubInv' /\ NoneEnds
<1> DEFINE r == [client[c] EXCEPT !.state = "stopped"]
<1>1. client \in [Clients -> Connections] /\ client[c] \in Connections
      /\ sessions \in Tables(Clients \cup {OtherNub})
  BY DEF NubInv, NubTypes
<1>2. /\ opener' = opener /\ sessions' = sessions /\ unclosable' = unclosable
      /\ c # opener /\ client' = [client EXCEPT ![c] = r]
  BY DEF Stop
<1>3. r \in Connections /\ r.state = "stopped" /\ Agree(client[c], r, {"state"})
  BY <1>1, StateSet
<1> HIDE DEF r
<1>4. /\ r.step = client[c].step /\ r.found = client[c].found
      /\ r.fSelfOpenCount = client[c].fSelfOpenCount
      /\ r.fOpenClient = client[c].fOpenClient
      /\ (r.connected <=> client[c].connected)
  BY <1>3 DEF Agree
<1>5. Without(c) /\ client'[c] = r /\ (Unlisted(c) => Unlisted(c)')
  BY <1>1, <1>2 DEF NubInv, Phase, Unlisted
<1>6. Phase(c)'
  <2>1. Without(c)'
    BY <1>2, <1>4, <1>5 DEF Without
  <2>2. QED
    BY <1>2, <2>1 DEF Phase
<1>7. /\ r.state = "freed" => client[c].state = "freed"
      /\ r.connected => client[c].connected
  BY <1>3, <1>4
<1>8. /\ opener' \in {opener, c, NoClient} /\ opener \in {opener', c, NoClient}
      /\ unclosable' \in {unclosable, unclosable \cup {c}}
      /\ sessions' \in Tables(Clients \cup {OtherNub})
      /\ \A d \in Clients \ {c} : SameSlots(d)
  BY <1>1, <1>2, SameSlotsSame
<1>9. QED
  BY <1>2, <1>3, <1>6, <1>7, <1>8, OneClientGoesOn

LEMMA freeClientKeepsNub ==
    ASSUME NubInv, NEW c \in Clients, freeClient(c)
    PROVE  NubInv'
<1> USE UserClientAssumption DEF UserClientAssumption
<1> DEFINE r == NotOpened("freed", FALSE)
<1>1. client \in [Clients -> Connections] /\ client[c] \in Connections
      /\ sessions \in Tables(Clients \cup {OtherNub})
  BY DEF NubInv, NubTypes
<1>2. /\ opener' = opener /\ sessions' = sessions /\ unclosable' = unclosable
      /\ client[c].state = "stopped" /\ Handles(sessions, c) = {}
      /\ client' = [client EXCEPT ![c] = r]
  BY DEF freeClient, Unreferenced
<1>3. /\ r \in Connections /\ r.state = "freed" /\ r.step = "none"
      /\ r.fSelfOpenCount = 0 /\ r.fOpenClient = NoClient /\ r.found = NoClient
  BY ExporterAssumption DEF NotOpened, Connections, Steps, ExporterAssumption
<1> HIDE DEF r
<1>4. client'[c] = r /\ Unlisted(c)'
  BY <1>1, <1>2 DEF Unlisted, Handles
<1>5. Phase(c)'
  <2>1. CASE c # opener
    <3>1. Without(c)' /\ c # opener'
      BY <1>2, <1>3, <1>4, <2>1 DEF NubInv, Phase, Without
    <3>2. QED
      BY <3>1 DEF Phase
  <2>2. CASE c = opener
    <3>1. c \in unclosable
      BY <1>2, <2>2 DEF NubInv, Phase, Has
    <3>2. Stuck(c)'
      BY <1>3, <1>4 DEF Stuck
    <3>3. QED
      BY <1>2, <2>2, <3>1, <3>2 DEF Phase
  <2>3. QED
    BY <2>1, <2>2
<1>6. /\ opener' \in {opener, c, NoClient} /\ opener \in {opener', c, NoClient}
      /\ unclosable' \in {unclosable, unclosable \cup {c}}
      /\ sessions' \in Tables(Clients \cup {OtherNub})
      /\ \A d \in Clients \ {c} : SameSlots(d)
  BY <1>1, <1>2, SameSlotsSame
<1>7. QED
  BY <1>2, <1>3, <1>5, <1>6, OneClientGoesOn

(* A termination changes the state of connections alone.                   *)
LEMMA TerminationKeepsNub ==
    ASSUME NubInv, NEW cs, TerminateAll(cs), opener' = opener, sessions' = sessions,
           unclosable' = unclosable
    PROVE  NubInv' /\ NoneEnds
<1>1. client \in [Clients -> Connections]
  BY DEF NubInv, NubTypes
<1>2. ASSUME NEW d \in Clients
      PROVE  /\ client'[d] \in Connections
             /\ client'[d].state \in {client[d].state, Terminated(client[d].state)}
             /\ Agree(client[d], client'[d], {"state"})
  <2>1. CASE d \in cs
    <3> DEFINE x == Terminated(client[d].state)
    <3>1. x \in {"started", "inactive", "stopped", "freed"}
      BY <1>1 DEF Terminated, Connections
    <3> DEFINE s == [client[d] EXCEPT !.state = x]
    <3>2. client'[d] = s
      BY <2>1 DEF TerminateAll
    <3> HIDE DEF x
    <3>3. s \in Connections /\ s.state = x /\ Agree(client[d], s, {"state"})
      BY <1>1, <3>1, StateSet
    <3> HIDE DEF s
    <3>4. QED
      BY <3>2, <3>3 DEF x
  <2>2. CASE d \notin cs
    BY <1>1, <2>2 DEF TerminateAll, Agree
  <2>3. QED
    BY <2>1, <2>2
<1>3. ASSUME NEW d \in Clients PROVE Phase(d)'
  <2>1. /\ client'[d].step = client[d].step /\ client'[d].found = client[d].found
        /\ client'[d].fSelfOpenCount = client[d].fSelfOpenCount
        /\ client'[d].fOpenClient = client[d].fOpenClient
        /\ client'[d].fSessionRef = client[d].fSessionRef
        /\ (client'[d].connected <=> client[d].connected)
        /\ (client'[d].mIsOpen <=> client[d].mIsOpen)
        /\ client[d].state \in {"stopped", "freed"} =>
              client'[d].state = client[d].state
        /\ client[d].state \in {"started", "inactive"} =>
              client'[d].state \in {"started", "inactive"}
    BY <1>2 DEF Agree, Terminated
  <2>2. (Unlisted(d)' <=> Unlisted(d)) /\ (Listed(d)' <=> Listed(d))
    BY <2>1 DEF Unlisted, Listed
  <2>3. Without(d) => Without(d)'
    BY <2>1, <2>2 DEF Without
  <2>4. Stuck(d) => Stuck(d)'
    BY <2>1, <2>2 DEF Stuck
  <2>5. Has(d) => Has(d)'
    BY <2>1, <2>2 DEF Has
  <2>6. QED
    BY <2>3, <2>4, <2>5 DEF NubInv, Phase
<1>4. NubTypes'
  <2>1. client' \in [Clients -> Connections]
    BY <1>2 DEF TerminateAll
  <2>2. QED
    BY <2>1 DEF NubInv, NubTypes, Tables, Connections, Steps
<1>5. NoneEnds
  BY <1>2 DEF NoneEnds, Agree, Terminated
<1>6. QED
  BY <1>3, <1>4, <1>5 DEF NubInv

(* Calls on objects do not touch the nub.                                  *)
LEMMA SameNub ==
    ASSUME NubInv, UNCHANGED nubVars PROVE NubInv' /\ NoneEnds
<1>1. /\ client' = client /\ opener' = opener /\ sessions' = sessions
      /\ unclosable' = unclosable
  BY DEF nubVars
<1>2. \A d \in Clients : Phase(d)'
  <2> SUFFICES ASSUME NEW d \in Clients PROVE Phase(d)'
    OBVIOUS
  <2>1. SameSlots(d) /\ Phase(d)
    BY <1>1, SameSlotsSame DEF NubInv
  <2>2. QED
    BY <1>1, <2>1, PhaseKept
<1>3. NubTypes'
  BY <1>1 DEF NubInv, NubTypes, Tables, Connections, Steps
<1>4. QED
  BY <1>1, <1>2, <1>3 DEF NubInv, NoneEnds

-----------------------------------------------------------------------------
(* Objects and their references.                                           *)

LEMMA DroppedRecord ==
    ASSUME NEW r \in ObjectRecords, r.refs > 0, r.state = "made"
    PROVE  /\ Dropped(r) \in ObjectRecords
           /\ Dropped(r).refs = r.refs - 1
           /\ Dropped(r).active <=> r.active
           /\ Dropped(r).state = "made" <=> Dropped(r).refs > 0
           /\ Dropped(r).refs > 0 => Dropped(r).kind = r.kind
<1>1. CASE r.refs = 1
  <2>1. Freed \in ObjectRecords
    BY DEF Freed, ObjectRecords, ObjectKinds
  <2>2. Dropped(r) = [Freed EXCEPT !.active = r.active]
    BY <1>1 DEF Dropped
  <2>3. QED
    BY <1>1, <2>1, <2>2 DEF Freed, ObjectRecords
<1>2. CASE r.refs # 1
  <2>1. Dropped(r) = [r EXCEPT !.refs = r.refs - 1]
    BY <1>2 DEF Dropped
  <2>2. r.refs - 1 \in Nat /\ r.refs - 1 > 0
    BY <1>2 DEF ObjectRecords
  <2>3. QED
    BY <2>1, <2>2 DEF ObjectRecords
<1>3. QED
  BY <1>1, <1>2

LEMMA DeactivatedRecord ==
    ASSUME NEW r \in ObjectRecords, r.active => r.refs > 0
    PROVE  /\ Deactivated(r) \in ObjectRecords
           /\ Deactivated(r).refs = r.refs - (IF r.active THEN 1 ELSE 0)
           /\ ~Deactivated(r).active
           /\ Deactivated(r).state = r.state /\ Deactivated(r).kind = r.kind
<1>1. CASE r.active
  <2> DEFINE r1 == [r EXCEPT !.active = FALSE]
  <2>1. r1 \in ObjectRecords /\ ~r1.active /\ r1.refs = r.refs /\ r1.state = r.state
        /\ r1.kind = r.kind
    BY DEF ObjectRecords
  <2>2. Deactivated(r) = [r1 EXCEPT !.refs = @ - 1]
    BY <1>1 DEF Deactivated
  <2>3. r.refs - 1 \in Nat
    BY <1>1 DEF ObjectRecords
  <2> HIDE DEF r1
  <2>4. QED
    BY <1>1, <2>1, <2>2, <2>3 DEF ObjectRecords
<1>2. CASE ~r.active
  BY <1>2 DEF Deactivated, ObjectRecords
<1>3. QED
  BY <1>1, <1>2

LEMMA ActivatedRecord ==
    ASSUME NEW r \in ObjectRecords
    PROVE  /\ Activated(r) \in ObjectRecords
           /\ Activated(r).refs = r.refs + (IF r.active THEN 0 ELSE 1)
           /\ Activated(r).active
           /\ Activated(r).state = r.state /\ Activated(r).kind = r.kind
<1>1. CASE ~r.active
  <2> DEFINE r1 == [r EXCEPT !.active = TRUE]
  <2>1. r1 \in ObjectRecords /\ r1.active /\ r1.refs = r.refs /\ r1.state = r.state
        /\ r1.kind = r.kind
    BY DEF ObjectRecords
  <2>2. Activated(r) = [r1 EXCEPT !.refs = @ + 1]
    BY <1>1 DEF Activated
  <2> HIDE DEF r1
  <2>3. QED
    BY <1>1, <2>1, <2>2 DEF ObjectRecords
<1>2. CASE r.active
  BY <1>2 DEF Activated, ObjectRecords
<1>3. QED
  BY <1>1, <1>2

LEMMA RetainedRecord ==
    ASSUME NEW r \in ObjectRecords
    PROVE  LET s == [r EXCEPT !.refs = @ + 1]
           IN  /\ s \in ObjectRecords /\ s.refs = r.refs + 1
               /\ (s.active <=> r.active) /\ s.state = r.state /\ s.kind = r.kind
BY DEF ObjectRecords

LEMMA KeepersAreFinite ==
    \A o : /\ IsFiniteSet(Keepers(o)) /\ Cardinality(Keepers(o)) \in Nat
           /\ Cardinality(Keepers(o)) <= Cardinality(Threads)
           /\ Cardinality(Keepers(o)) = 0 <=> Keepers(o) = {}
<1> SUFFICES ASSUME NEW o
             PROVE  /\ IsFiniteSet(Keepers(o)) /\ Cardinality(Keepers(o)) \in Nat
                    /\ Cardinality(Keepers(o)) <= Cardinality(Threads)
                    /\ Cardinality(Keepers(o)) = 0 <=> Keepers(o) = {}
  OBVIOUS
<1>1. IsFiniteSet(Threads)
  BY UserClientAssumption DEF UserClientAssumption
<1>2. Keepers(o) \in SUBSET Threads
  BY DEF Keepers
<1>3. IsFiniteSet(Keepers(o)) /\ Cardinality(Keepers(o)) <= Cardinality(Threads)
  BY <1>1, <1>2, FS_Subset
<1>4. QED
  BY <1>3, FS_CardinalityType, FS_EmptySet

LEMMA KeepersStayFinite ==
    \A o : Cardinality(Keepers(o)') \in Nat
<1> SUFFICES ASSUME NEW o PROVE Cardinality(Keepers(o)') \in Nat
  OBVIOUS
<1>1. Keepers(o)' \in SUBSET Threads
  BY DEF Keepers
<1>2. IsFiniteSet(Threads)
  BY UserClientAssumption DEF UserClientAssumption
<1>3. QED
  BY <1>1, <1>2, FS_Subset, FS_CardinalityType

(* A thread takes a reference to r.obj.                                    *)
LEMMA KeeperMore ==
    ASSUME TableTypes, NEW t \in Threads, call[t].op \notin Keeping,
           NEW r, r.op \in Keeping, call' = [call EXCEPT ![t] = r]
    PROVE  \A o : Cardinality(Keepers(o)') =
                     Cardinality(Keepers(o)) + (IF r.obj = o THEN 1 ELSE 0)
<1> SUFFICES ASSUME NEW o
             PROVE  Cardinality(Keepers(o)') =
                       Cardinality(Keepers(o)) + (IF r.obj = o THEN 1 ELSE 0)
  OBVIOUS
<1>1. IsFiniteSet(Keepers(o)) /\ Cardinality(Keepers(o)) \in Nat /\ t \notin Keepers(o)
  BY KeepersAreFinite DEF Keepers
<1>2. CASE r.obj = o
  <2>1. Keepers(o)' = Keepers(o) \cup {t}
    BY <1>2 DEF Keepers, TableTypes
  <2>2. QED
    BY <1>1, <1>2, <2>1, FS_AddElement
<1>3. CASE r.obj # o
  <2>1. Keepers(o)' = Keepers(o)
    BY <1>3 DEF Keepers, TableTypes
  <2>2. QED
    BY <1>1, <1>3, <2>1
<1>4. QED
  BY <1>2, <1>3

(* A thread gives up its reference.                                        *)
LEMMA KeeperLess ==
    ASSUME TableTypes, NEW t \in Threads, call[t].op \in Keeping,
           NEW r, r.op \notin Keeping, call' = [call EXCEPT ![t] = r]
    PROVE  \A o : Cardinality(Keepers(o)') =
                     Cardinality(Keepers(o)) - (IF call[t].obj = o THEN 1 ELSE 0)
<1> SUFFICES ASSUME NEW o
             PROVE  Cardinality(Keepers(o)') =
                       Cardinality(Keepers(o)) - (IF call[t].obj = o THEN 1 ELSE 0)
  OBVIOUS
<1>1. IsFiniteSet(Keepers(o)) /\ Cardinality(Keepers(o)) \in Nat
  BY KeepersAreFinite
<1>2. CASE call[t].obj = o
  <2>1. Keepers(o)' = Keepers(o) \ {t} /\ t \in Keepers(o)
    BY <1>2 DEF Keepers, TableTypes
  <2>2. QED
    BY <1>1, <1>2, <2>1, FS_RemoveElement
<1>3. CASE call[t].obj # o
  <2>1. Keepers(o)' = Keepers(o)
    BY <1>3 DEF Keepers, TableTypes
  <2>2. QED
    BY <1>1, <1>3, <2>1
<1>4. QED
  BY <1>2, <1>3

LEMMA KeepersSame ==
    ASSUME TableTypes, NEW t \in Threads, call[t].op \notin Keeping,
           NEW r, r.op \notin Keeping, call' = [call EXCEPT ![t] = r]
    PROVE  \A o : Keepers(o)' = Keepers(o)
BY DEF Keepers, TableTypes

-----------------------------------------------------------------------------
(* Who holds what after the tables change.                                 *)

LEMMA SameHandles ==
    ASSUME fExporter' = fExporter
    PROVE  /\ \A c, i, o : Holds(c, i, o)' <=> Holds(c, i, o)
           /\ \A o : HasHandle(o)' <=> HasHandle(o)
           /\ OneHandle => OneHandle'
BY DEF Holds, HasHandle, OneHandle

LEMMA MoreHandles ==
    ASSUME TableTypes, OneHandle, NEW c \in Clients, NEW o \in Objects,
           ~HasHandle(o), NewHandle(fExporter[c]) # 0,
           fExporter' = [fExporter EXCEPT ![c] = addObject(@, o)]
    PROVE  /\ fExporter' \in [Clients -> Tables(Objects)]
           /\ \A d \in Clients, i \in AllHandles, p \in Objects :
                 Holds(d, i, p) => Holds(d, i, p)'
           /\ \A p \in Objects : HasHandle(p)' <=> HasHandle(p) \/ p = o
           /\ OneHandle'
<1> DEFINE new == NewHandle(fExporter[c])
<1>1. NoObject \notin Objects
  BY UserClientAssumption DEF UserClientAssumption
<1>2. fExporter[c] \in Tables(Objects) /\ fExporter'[c] = addObject(fExporter[c], o)
      /\ \A d \in Clients \ {c} : fExporter'[d] = fExporter[d]
  BY DEF TableTypes
<1>3. /\ fExporter'[c] \in Tables(Objects)
      /\ new \in AllHandles /\ new \in DOMAIN fExporter'[c]
      /\ fExporter'[c][new] = o
      /\ new \in DOMAIN fExporter[c] => fExporter[c][new] = NoObject
      /\ DOMAIN fExporter[c] \subseteq DOMAIN fExporter'[c]
      /\ \A i \in DOMAIN fExporter'[c] : i # new =>
            fExporter'[c][i] =
               IF i \in DOMAIN fExporter[c] THEN fExporter[c][i] ELSE NoObject
  BY <1>1, <1>2, AddedTable
<1>4. fExporter' \in [Clients -> Tables(Objects)]
  BY <1>2, <1>3 DEF TableTypes
<1> HIDE DEF new
<1>5. \A d \in Clients, i \in AllHandles, p \in Objects :
         Holds(d, i, p)' <=> Holds(d, i, p) \/ (d = c /\ i = new /\ p = o)
  <2> SUFFICES ASSUME NEW d \in Clients, NEW i \in AllHandles, NEW p \in Objects
               PROVE  Holds(d, i, p)' <=> Holds(d, i, p) \/ (d = c /\ i = new /\ p = o)
    OBVIOUS
  <2>1. CASE d # c
    BY <1>2, <2>1 DEF Holds
  <2>2. CASE d = c /\ i = new
    BY <1>1, <1>3, <2>2 DEF Holds
  <2>3. CASE d = c /\ i # new
    BY <1>1, <1>3, <2>3 DEF Holds
  <2>4. QED
    BY <2>1, <2>2, <2>3
<1>6. \A p \in Objects : HasHandle(p)' <=> HasHandle(p) \/ p = o
  BY <1>3, <1>5 DEF HasHandle
<1>7. OneHandle'
  BY <1>5 DEF OneHandle, HasHandle
<1>8. QED
  BY <1>4, <1>5, <1>6, <1>7

LEMMA FewerHandles ==
    ASSUME TableTypes, OneHandle, NEW c \in Clients, NEW h \in AllHandles,
           NEW o \in Objects, Holds(c, h, o),
           fExporter' = [fExporter EXCEPT ![c] = removeObject(@, h)]
    PROVE  /\ fExporter' \in [Clients -> Tables(Objects)]
           /\ \A d \in Clients, i \in AllHandles, p \in Objects :
                 Holds(d, i, p) /\ p # o => Holds(d, i, p)'
           /\ \A p \in Objects : HasHandle(p)' <=> HasHandle(p) /\ p # o
           /\ OneHandle'
<1>1. NoObject \notin Objects
  BY UserClientAssumption DEF UserClientAssumption
<1>2. fExporter[c] \in Tables(Objects) /\ fExporter'[c] = removeObject(fExporter[c], h)
      /\ \A d \in Clients \ {c} : fExporter'[d] = fExporter[d]
  BY DEF TableTypes
<1>3. /\ fExporter'[c] \in Tables(Objects)
      /\ DOMAIN fExporter'[c] = DOMAIN fExporter[c]
      /\ \A i \in DOMAIN fExporter[c] :
            fExporter'[c][i] = IF i = h THEN NoObject ELSE fExporter[c][i]
  BY <1>2, RemovedTable
<1>4. fExporter' \in [Clients -> Tables(Objects)]
  BY <1>2, <1>3 DEF TableTypes
<1>5. \A d \in Clients, i \in AllHandles, p \in Objects :
         Holds(d, i, p)' <=> Holds(d, i, p) /\ ~(d = c /\ i = h)
  <2> SUFFICES ASSUME NEW d \in Clients, NEW i \in AllHandles, NEW p \in Objects
               PROVE  Holds(d, i, p)' <=> Holds(d, i, p) /\ ~(d = c /\ i = h)
    OBVIOUS
  <2>1. CASE d # c
    BY <1>2, <2>1 DEF Holds
  <2>2. CASE d = c
    BY <1>1, <1>3, <2>2 DEF Holds
  <2>3. QED
    BY <2>1, <2>2
<1>6. \A d \in Clients, i \in AllHandles, p \in Objects :
         Holds(d, i, p) => (p = o <=> d = c /\ i = h)
  BY DEF OneHandle, Holds
<1>7. \A d \in Clients, i \in AllHandles, p \in Objects :
         Holds(d, i, p)' <=> Holds(d, i, p) /\ p # o
  BY <1>5, <1>6
<1>8. \A p \in Objects : HasHandle(p)' <=> HasHandle(p) /\ p # o
  BY <1>7 DEF HasHandle
<1>9. OneHandle'
  BY <1>5 DEF OneHandle
<1>10. QED
  BY <1>4, <1>7, <1>8, <1>9

LEMMA NoHandles ==
    ASSUME TableTypes, OneHandle, NEW c \in Clients,
           fExporter' = [fExporter EXCEPT ![c] = EmptyExporter]
    PROVE  /\ fExporter' \in [Clients -> Tables(Objects)]
           /\ \A d \in Clients, i \in AllHandles, p \in Objects :
                 Holds(d, i, p) /\ d # c => Holds(d, i, p)'
           /\ \A p \in Objects : HasHandle(p)' <=>
                 HasHandle(p) /\ p \notin Exported(fExporter[c])
           /\ \A p \in Exported(fExporter[c]) : p \in Objects /\ HasHandle(p)
           /\ OneHandle'
<1>1. NoObject \notin Objects
  BY UserClientAssumption DEF UserClientAssumption
<1>2. fExporter[c] \in Tables(Objects) /\ fExporter'[c] = EmptyExporter
      /\ \A d \in Clients \ {c} : fExporter'[d] = fExporter[d]
  BY DEF TableTypes
<1>3. EmptyExporter \in Tables(Objects) /\ DOMAIN EmptyExporter = {}
  BY EmptyTable
<1>4. fExporter' \in [Clients -> Tables(Objects)]
  BY <1>2, <1>3 DEF TableTypes
<1>5. \A d \in Clients, i \in AllHandles, p \in Objects :
         Holds(d, i, p)' <=> Holds(d, i, p) /\ d # c
  BY <1>2, <1>3 DEF Holds
<1>6. DOMAIN fExporter[c] \subseteq AllHandles
  <2>1. /\ Len(fExporter[c]) \in 0..MaxCapacity
        /\ DOMAIN fExporter[c] = 1..Len(fExporter[c])
    BY <1>2, TableIsSequence
  <2>2. QED
    BY <2>1, ExporterAssumption DEF AllHandles, ExporterAssumption
<1>7. \A p : p \in Exported(fExporter[c]) <=>
               p # NoObject /\ \E i \in AllHandles : Holds(c, i, p)
  BY <1>6 DEF Exported, Holds
<1>8. \A p \in Exported(fExporter[c]) : p \in Objects /\ HasHandle(p)
  <2>1. \A i \in DOMAIN fExporter[c] : fExporter[c][i] \in Objects \cup {NoObject}
    BY <1>2 DEF Tables
  <2>2. QED
    BY <1>7, <2>1 DEF HasHandle, Holds
<1>9. \A p \in Objects : HasHandle(p)' <=>
                            HasHandle(p) /\ p \notin Exported(fExporter[c])
  <2> SUFFICES ASSUME NEW p \in Objects
               PROVE  HasHandle(p)' <=> HasHandle(p) /\ p \notin Exported(fExporter[c])
    OBVIOUS
  <2>1. HasHandle(p)' <=>
           \E d \in Clients, i \in AllHandles : Holds(d, i, p) /\ d # c
    BY <1>5 DEF HasHandle
  <2>2. p \in Exported(fExporter[c]) <=> \E i \in AllHandles : Holds(c, i, p)
    BY <1>1, <1>7
  <2>3. QED
    BY <2>1, <2>2 DEF HasHandle, OneHandle
<1>10. OneHandle'
  BY <1>5 DEF OneHandle
<1>11. QED
  BY <1>4, <1>5, <1>8, <1>9, <1>10

-----------------------------------------------------------------------------
(* Each action on objects keeps the tables sound.                          *)

TablesAreSound == TableInv /\ FreedAreEmpty

LEMMA FoundObject ==
    ASSUME TableTypes, NEW c \in Clients, NEW h, ObjectOf(c, h) # NoObject
    PROVE  ObjectOf(c, h) \in Objects /\ Holds(c, h, ObjectOf(c, h))
<1>1. fExporter[c] \in Tables(Objects)
  BY DEF TableTypes
<1>2. QED
  BY <1>1, FoundInTable DEF ObjectOf, Holds

(* What the counts say of one object.                                      *)
LEMMA ReferenceFacts ==
    ASSUME TableInv, NEW o \in Objects
    PROVE  /\ obj[o] \in ObjectRecords /\ obj[o].refs \in Nat
           /\ HasHandle(o) => obj[o].refs > 0 /\ obj[o].state = "made"
           /\ obj[o].active => obj[o].refs > 0 /\ obj[o].state = "made"
           /\ \A t \in Threads : call[t].obj = o =>
                 obj[o].refs > 0 /\ obj[o].state = "made"
           /\ \A t \in Threads : call[t].obj = o /\ call[t].op \in Keeping =>
                 obj[o].refs >= 1 + (IF HasHandle(o) THEN 1 ELSE 0)
                                  + (IF obj[o].active THEN 1 ELSE 0)
           /\ HasHandle(o) =>
                 obj[o].refs >= 1 + (IF obj[o].active THEN 1 ELSE 0)
<1>1. obj[o] \in ObjectRecords /\ obj[o].refs \in Nat
  BY DEF TableInv, TableTypes, ObjectRecords
<1> DEFINE K == Cardinality(Keepers(o))
<1>2. /\ obj[o].refs = (IF HasHandle(o) THEN 1 ELSE 0)
                       + (IF obj[o].active THEN 1 ELSE 0) + K
      /\ obj[o].state = "made" <=> obj[o].refs > 0
  BY DEF TableInv, Counted
<1>3. K \in Nat /\ (K = 0 <=> Keepers(o) = {})
  BY KeepersAreFinite
<1> HIDE DEF K
<1>4. \A t \in Threads : call[t].obj = o /\ call[t].op \in Keeping => K > 0
  BY <1>3 DEF Keepers
<1>5. \A t \in Threads : call[t].obj = o =>
         call[t].op \in Keeping \/ HasHandle(o)
  <2> SUFFICES ASSUME NEW t \in Threads, call[t].obj = o, call[t].op \notin Keeping
               PROVE  HasHandle(o)
    OBVIOUS
  <2>1. call[t].op \in ByHandle /\ call[t].client \in Clients
    BY UserClientAssumption
       DEF TableInv, TableTypes, Calls, WorksWith, UserClientAssumption
  <2>2. call[t].handle \in AllHandles /\ Holds(call[t].client, call[t].handle, o)
    BY <2>1 DEF TableInv, HandleStays
  <2>3. QED
    BY <2>1, <2>2 DEF HasHandle
<1>6. HasHandle(o) => obj[o].refs > 0
  BY <1>2, <1>3
<1>7. obj[o].active => obj[o].refs > 0
  BY <1>2, <1>3
<1>8. \A t \in Threads : call[t].obj = o => obj[o].refs > 0
  BY <1>2, <1>3, <1>4, <1>5
<1>9. K > 0 => obj[o].refs >= 1 + (IF HasHandle(o) THEN 1 ELSE 0)
                                + (IF obj[o].active THEN 1 ELSE 0)
  BY <1>2, <1>3
<1>10. HasHandle(o) => obj[o].refs >= 1 + (IF obj[o].active THEN 1 ELSE 0)
  BY <1>2, <1>3
<1>11. QED
  BY <1>1, <1>2, <1>4, <1>6, <1>7, <1>8, <1>9, <1>10

(* Threads but t go on as before, t perhaps to a call by handle, and no    *)
(* object changes its kind while it lives.                                 *)
LEMMA CopyingStays ==
    ASSUME TableInv, NEW t, \A s \in Threads : s # t => call'[s] = call[s],
           \A p \in Objects : obj[p].state = "made" /\ obj'[p].state = "made"
                                 => obj'[p].kind = obj[p].kind,
           Counted', HandleStays', WorksWith',
           \A p \in Objects : obj'[p].refs \in Nat,
           \/ call'[t] = call[t]
           \/ call'[t].op \notin ByHandle \cup {"copying"}
           \/ /\ HasHandle(call'[t].obj)
              /\ call'[t].op \in ByHandle => obj[call'[t].obj].kind # "data"
              /\ call'[t].op = "copying" =>
                    /\ obj[call'[t].obj].kind = "data"
                    /\ \A s \in Threads :
                          ~(call[s].obj = call'[t].obj /\ call[s].op = "copying")
    PROVE  CopiedByOne'
<1> SUFFICES ASSUME NEW u \in Threads, call'[u].op \in ByHandle \cup {"copying"}
             PROVE  /\ call'[u].op \in ByHandle => obj'[call'[u].obj].kind # "data"
                    /\ call'[u].op = "copying" =>
                          /\ obj'[call'[u].obj].kind = "data"
                          /\ \A s \in Threads :
                                call'[s].obj = call'[u].obj /\ call'[s].op = "copying"
                                   => s = u
  BY DEF CopiedByOne
<1> DEFINE p == call'[u].obj
<1>1. p \in Objects /\ call'[u].client \in Clients
  BY DEF WorksWith, ByHandle
<1>2. HasHandle(call[u].obj)'
  <2>1. call'[u].handle \in AllHandles
        /\ Holds(call[u].client, call[u].handle, call[u].obj)'
    BY DEF HandleStays
  <2>2. QED
    BY <1>1, <2>1 DEF HasHandle, Holds
<1>3. obj'[p].state = "made"
  <2>1. Cardinality(Keepers(call[u].obj)') \in Nat
    BY KeepersStayFinite DEF Keepers
  <2>2. obj'[p].refs > 0
    BY <1>1, <1>2, <2>1 DEF Counted, HasHandle, Keepers, Holds
  <2>3. QED
    BY <1>1, <2>2 DEF Counted
<1>4. CASE call'[u] = call[u]
  <2>1. obj[p].state = "made"
    BY <1>1, <1>4, ReferenceFacts
  <2>2. obj'[p].kind = obj[p].kind
    BY <1>1, <1>3, <2>1
  <2>3. QED
    BY <1>1, <1>4, <2>2 DEF TableInv, CopiedByOne
<1>5. CASE call'[u] # call[u]
  <2>1. u = t /\ HasHandle(p)
    BY <1>5
  <2>2. obj[p].state = "made"
    BY <1>1, <2>1, ReferenceFacts
  <2>3. obj'[p].kind = obj[p].kind
    BY <1>1, <1>3, <2>2
  <2>4. QED
    BY <1>1, <1>5, <2>1, <2>3 DEF TableInv, CopiedByOne
<1>6. QED
  BY <1>4, <1>5

LEMMA CreateKeepsTables ==
    ASSUME NubTypes, TablesAreSound, NEW t \in Threads, NEW c \in Clients,
           NEW o \in Objects, Create(t, c, o)
    PROVE  TablesAreSound'
<1> DEFINE r == [op |-> "adding", client |-> c, obj |-> o, handle |-> 0]
<1>0. unreleasable' = unreleasable /\ raced' = raced
  BY DEF Create
<1>1. /\ call[t] = InUserSpace /\ client[c].connected /\ obj[o].state = "unmade"
      /\ fExporter' = fExporter /\ client' = client
      /\ call' = [call EXCEPT ![t] = r]
  BY DEF Create, MayCall, Enters, nubVars
<1>2. PICK kind \in ObjectKinds : obj' = [obj EXCEPT ![o] =
          [state |-> "made", kind |-> kind, active |-> IsSpace(kind),
           refs |-> IF IsSpace(kind) THEN 2 ELSE 1]]
  BY DEF Create
<1>3. TableTypes /\ TableInv /\ FreedAreEmpty
  BY DEF TablesAreSound, TableInv
<1>4. /\ ~HasHandle(o) /\ \A s \in Threads : call[s].obj # o
      /\ ~obj[o].active /\ obj[o].refs = 0
  BY <1>1, <1>3, ReferenceFacts DEF TableInv, Counted
<1>5. /\ obj'[o] \in ObjectRecords /\ obj'[o].state = "made" /\ obj'[o].refs \in {1, 2}
      /\ obj'[o].active <=> obj'[o].refs = 2
      /\ \A p \in Objects \ {o} : obj'[p] = obj[p]
  <2> DEFINE made == [state |-> "made", kind |-> kind, active |-> IsSpace(kind),
                      refs |-> IF IsSpace(kind) THEN 2 ELSE 1]
  <2>1. made \in ObjectRecords /\ made.state = "made" /\ made.refs \in {1, 2}
    BY DEF ObjectRecords, IsSpace
  <2>2. made.active <=> made.refs = 2
    <3>1. CASE IsSpace(kind)
      <4>1. made = [state |-> "made", kind |-> kind, active |-> TRUE, refs |-> 2]
        BY <3>1, Zenon
      <4> HIDE DEF made
      <4>2. QED
        BY <4>1
    <3>2. CASE ~IsSpace(kind)
      <4>1. IsSpace(kind) = FALSE
        BY <3>2 DEF IsSpace
      <4>2. made = [state |-> "made", kind |-> kind, active |-> FALSE, refs |-> 1]
        BY <3>2, <4>1, Zenon
      <4> HIDE DEF made
      <4>3. QED
        BY <4>2
    <3>3. QED
      BY <3>1, <3>2
  <2>3. obj'[o] = made /\ \A p \in Objects \ {o} : obj'[p] = obj[p]
    BY <1>2, <1>3 DEF TableTypes
  <2> HIDE DEF made
  <2>4. QED
    BY <2>1, <2>2, <2>3
<1>6. /\ \A d, i, p : Holds(d, i, p)' <=> Holds(d, i, p)
      /\ \A p : HasHandle(p)' <=> HasHandle(p)
      /\ OneHandle'
  BY <1>1, <1>3, SameHandles DEF TableInv
<1>7. /\ call[t].op = "none" /\ call[t].op \notin Keeping /\ call[t].obj = NoObject
      /\ r.op \in Keeping /\ r.obj = o
  BY <1>1 DEF InUserSpace, Keeping
<1>8. \A p : Cardinality(Keepers(p)') =
                Cardinality(Keepers(p)) + (IF o = p THEN 1 ELSE 0)
  BY <1>1, <1>3, <1>7, KeeperMore
<1>9. TableTypes'
  <2>1. r \in Calls
    BY UserClientAssumption, ExporterAssumption
       DEF Calls, Keeping, ExporterAssumption
  <2>2. obj' \in [Objects -> ObjectRecords]
    BY <1>2, <1>3, <1>5 DEF TableTypes
  <2>3. QED
    BY <1>0, <1>1, <1>3, <2>1, <2>2 DEF TableTypes, Tables, Calls
<1> HIDE DEF r
<1>10. Counted'
  <2> SUFFICES ASSUME NEW p \in Objects
               PROVE  /\ obj'[p].refs = (IF HasHandle(p)' THEN 1 ELSE 0)
                            + (IF obj'[p].active THEN 1 ELSE 0)
                            + Cardinality(Keepers(p)')
                      /\ obj'[p].state = "made" <=> obj'[p].refs > 0
    BY DEF Counted
  <2>1. CASE p = o
    <3>1. Keepers(o) = {}
      BY <1>4 DEF Keepers
    <3>2. Cardinality(Keepers(o)') = 1
      BY <1>8, <3>1, KeepersAreFinite
    <3>3. QED
      BY <1>4, <1>5, <1>6, <2>1, <3>2
  <2>2. CASE p # o
    <3>1. Cardinality(Keepers(p)') = Cardinality(Keepers(p))
      BY <1>8, <2>2, KeepersAreFinite
    <3>2. QED
      BY <1>3, <1>5, <1>6, <2>2, <3>1 DEF TableInv, Counted
  <2>3. QED
    BY <2>1, <2>2
<1>11. call'[t].op = "adding" /\ call'[t].obj = o /\ call'[t].client = c
       /\ \A s \in Threads \ {t} : call'[s] = call[s]
  BY <1>1, <1>3 DEF TableTypes, r
<1>12. ActiveIsHeld'
  <2> SUFFICES ASSUME NEW p \in Objects, obj'[p].active,
                      p \notin unreleasable'
               PROVE  \/ HasHandle(p)'
                      \/ \E s \in Threads : call'[s].obj = p
                                         /\ call'[s].op \in {"adding", "removing"}
    BY DEF ActiveIsHeld
  <2>1. QED
    BY <1>0, <1>3, <1>5, <1>6, <1>7, <1>11 DEF TableInv, ActiveIsHeld
<1>13. AddedByOne'
  BY <1>3, <1>4, <1>6, <1>11 DEF TableInv, AddedByOne
<1>14. HandleStays'
  BY <1>3, <1>6, <1>11 DEF TableInv, HandleStays, ByHandle
<1>15. WorksWith'
  BY <1>3, <1>11 DEF TableInv, WorksWith
<1>16. FreedAreEmpty'
  BY <1>1, <1>3, <1>11 DEF FreedAreEmpty
<1>17. CopiedByOne'
  <2>1. \A p \in Objects : obj[p].state = "made" /\ obj'[p].state = "made"
                              => obj'[p].kind = obj[p].kind
    BY <1>1, <1>5
  <2>2. \A p \in Objects : obj'[p].refs \in Nat
    BY <1>9 DEF TableTypes, ObjectRecords
  <2>3. call'[t].op \notin ByHandle \cup {"copying"}
    BY <1>11 DEF ByHandle
  <2>4. QED
    BY <1>3, <1>10, <1>11, <1>14, <1>15, <2>1, <2>2, <2>3, CopyingStays
<1>18. QED
  BY <1>6, <1>9, <1>10, <1>12, <1>13, <1>14, <1>15, <1>16, <1>17
     DEF TablesAreSound, TableInv

(* A new object that finds no slot is taken back: its creator alone has it. *)
LEMMA ExportKeepsTables ==
    ASSUME NubTypes, TablesAreSound, NEW t \in Threads, Export(t)
    PROVE  TablesAreSound'
<1> DEFINE c == call[t].client
           o == call[t].obj
<1>1. /\ call[t].op = "adding" /\ client' = client
      /\ fExporter' = [fExporter EXCEPT ![c] = addObject(@, o)]
      /\ obj' = [obj EXCEPT ![o] = IF NewHandle(fExporter[c]) # 0 THEN @
                                   ELSE IF obj[o].kind = "physical" THEN Dropped(@)
                                   ELSE Dropped(Deactivated(@))]
      /\ unreleasable' = IF NewHandle(fExporter[c]) = 0 /\ obj[o].kind = "physical"
                         THEN unreleasable \cup {o} ELSE unreleasable
      /\ call' = [call EXCEPT ![t] = InUserSpace] /\ raced' = raced
  BY DEF Export, Leaves, nubVars
<1>2. TableTypes /\ TableInv /\ FreedAreEmpty
  BY DEF TablesAreSound, TableInv
<1>3. /\ o \in Objects /\ c \in Clients /\ ~HasHandle(o)
      /\ \A s \in Threads : call[s].obj = o => s = t
  BY <1>1, <1>2 DEF TableInv, WorksWith, AddedByOne
<1>4. /\ call[t].op \in Keeping /\ InUserSpace.op \notin Keeping
      /\ InUserSpace.op = "none" /\ InUserSpace.obj = NoObject
      /\ InUserSpace.client = NoClient /\ InUserSpace \in Calls
  BY <1>1, ExporterAssumption DEF Keeping, InUserSpace, Calls, ExporterAssumption
<1>5. /\ obj[o] \in ObjectRecords /\ obj[o].state = "made"
      /\ obj[o].refs >= 1 + (IF obj[o].active THEN 1 ELSE 0)
      /\ obj[o].refs = 1 + (IF obj[o].active THEN 1 ELSE 0)
  <2>1. Keepers(o) = {t}
    BY <1>3, <1>4 DEF Keepers
  <2>2. Cardinality(Keepers(o)) = 1
    BY <2>1, FS_Singleton
  <2>3. QED
    BY <1>2, <1>3, <2>2, ReferenceFacts DEF TableInv, Counted
<1>6. \A p : Cardinality(Keepers(p)') =
                Cardinality(Keepers(p)) - (IF o = p THEN 1 ELSE 0)
  BY <1>1, <1>2, <1>4, KeeperLess
<1>7. call'[t] = InUserSpace /\ \A s \in Threads \ {t} : call'[s] = call[s]
  BY <1>1, <1>2 DEF TableTypes
<1>8. call' \in [Threads -> Calls]
  BY <1>1, <1>2, <1>4 DEF TableTypes
<1>9. fExporter[c] \in Tables(Objects)
  BY <1>2, <1>3 DEF TableTypes
<1>10. FreedAreEmpty'
  BY <1>1, <1>2, <1>3, <1>4, <1>7, UserClientAssumption
     DEF FreedAreEmpty, UserClientAssumption
<1>11. WorksWith'
  BY <1>2, <1>4, <1>7 DEF TableInv, WorksWith
<1> HIDE DEF c, o
<1>12. CASE NewHandle(fExporter[c]) # 0
  <2>1. obj' = obj /\ unreleasable' = unreleasable
    BY <1>1, <1>2, <1>3, <1>12 DEF TableTypes
  <2>2. /\ fExporter' \in [Clients -> Tables(Objects)]
        /\ \A d \in Clients, i \in AllHandles, p \in Objects :
              Holds(d, i, p) => Holds(d, i, p)'
        /\ \A p \in Objects : HasHandle(p)' <=> HasHandle(p) \/ p = o
        /\ OneHandle'
    BY <1>1, <1>2, <1>3, <1>12, MoreHandles DEF TableInv
  <2>3. TableTypes'
    BY <1>1, <1>2, <1>8, <2>1, <2>2 DEF TableTypes, Tables, Calls
  <2>4. Counted'
    <3> SUFFICES ASSUME NEW p \in Objects
                 PROVE  /\ obj'[p].refs = (IF HasHandle(p)' THEN 1 ELSE 0)
                              + (IF obj'[p].active THEN 1 ELSE 0)
                              + Cardinality(Keepers(p)')
                        /\ obj'[p].state = "made" <=> obj'[p].refs > 0
      BY DEF Counted
    <3>1. Cardinality(Keepers(p)) \in Nat
      BY KeepersAreFinite
    <3>2. QED
      BY <1>2, <1>3, <1>6, <2>1, <2>2, <3>1 DEF TableInv, Counted
  <2>5. ActiveIsHeld'
    BY <1>2, <1>3, <1>7, <2>1, <2>2 DEF TableInv, ActiveIsHeld, o
  <2>6. AddedByOne'
    <3> SUFFICES ASSUME NEW s \in Threads, call'[s].op = "adding"
                 PROVE  /\ ~HasHandle(call[s].obj)'
                        /\ \A u \in Threads : call'[u].obj = call'[s].obj => u = s
      BY DEF AddedByOne
    <3>1. s # t /\ call'[s] = call[s]
      BY <1>4, <1>7
    <3>2. call[s].obj \in Objects /\ ~HasHandle(call[s].obj) /\ call[s].obj # o
      BY <1>2, <1>3, <3>1 DEF TableInv, AddedByOne, WorksWith
    <3>3. ~HasHandle(call[s].obj)'
      BY <2>2, <3>1, <3>2 DEF HasHandle, Holds
    <3>4. \A u \in Threads : call'[u].obj = call'[s].obj => u = s
      BY <1>2, <1>4, <1>7, <3>1, <3>2, UserClientAssumption
         DEF TableInv, AddedByOne, UserClientAssumption
    <3>5. QED
      BY <3>3, <3>4
  <2>7. HandleStays'
    <3> SUFFICES ASSUME NEW s \in Threads,
                        call'[s].op \in ByHandle \cup {"copying"}
                 PROVE  /\ call'[s].handle \in AllHandles
                        /\ Holds(call[s].client, call[s].handle, call[s].obj)'
      BY DEF HandleStays
    <3>1. s # t /\ call'[s] = call[s]
      BY <1>4, <1>7 DEF ByHandle
    <3>2. /\ call[s].handle \in AllHandles /\ call[s].client \in Clients
          /\ call[s].obj \in Objects
          /\ Holds(call[s].client, call[s].handle, call[s].obj)
      BY <1>2, <3>1 DEF TableInv, HandleStays, WorksWith, ByHandle
    <3>3. QED
      BY <2>2, <3>1, <3>2 DEF Holds
  <2>8. CopiedByOne'
    <3>1. \A p \in Objects : obj'[p].refs \in Nat /\ obj'[p].kind = obj[p].kind
      BY <2>1, <2>3 DEF TableTypes, ObjectRecords
    <3>2. call'[t].op \notin ByHandle \cup {"copying"}
      BY <1>4, <1>7 DEF ByHandle
    <3>3. QED
      BY <1>2, <1>7, <1>11, <2>4, <2>7, <3>1, <3>2, CopyingStays
  <2>9. QED
    BY <1>10, <1>11, <2>2, <2>3, <2>4, <2>5, <2>6, <2>7, <2>8
       DEF TablesAreSound, TableInv
<1>13. CASE NewHandle(fExporter[c]) = 0
  <2>1. fExporter' = fExporter
    BY <1>1, <1>2, <1>3, <1>9, <1>13 DEF TableTypes, addObject
  <2>2. /\ \A d, i, p : Holds(d, i, p)' <=> Holds(d, i, p)
        /\ \A p : HasHandle(p)' <=> HasHandle(p)
        /\ OneHandle'
    BY <1>2, <2>1, SameHandles DEF TableInv
  <2> DEFINE r == IF obj[o].kind = "physical" THEN obj[o] ELSE Deactivated(obj[o])
  <2>3. /\ r \in ObjectRecords /\ r.refs = 1 + (IF r.active THEN 1 ELSE 0)
        /\ r.state = "made" /\ r.kind = obj[o].kind
        /\ r.active => o \in unreleasable'
    <3>1. CASE obj[o].kind = "physical"
      BY <1>1, <1>5, <1>13, <3>1 DEF ObjectRecords
    <3>2. CASE obj[o].kind # "physical"
      BY <1>5, <3>2, DeactivatedRecord DEF ObjectRecords
    <3>3. QED
      BY <3>1, <3>2
  <2>4. obj' = [obj EXCEPT ![o] = Dropped(r)]
    BY <1>1, <1>13
  <2> HIDE DEF r
  <2>5. /\ Dropped(r) \in ObjectRecords
        /\ Dropped(r).refs = (IF Dropped(r).active THEN 1 ELSE 0)
        /\ Dropped(r).active => o \in unreleasable'
        /\ Dropped(r).state = "made" <=> Dropped(r).refs > 0
        /\ Dropped(r).state = "made" => Dropped(r).kind = obj[o].kind
    <3>1. r.refs \in Nat /\ r.refs > 0
      BY <2>3 DEF ObjectRecords
    <3>2. QED
      BY <2>3, <3>1, DroppedRecord
  <2>14. unreleasable \subseteq unreleasable' /\ unreleasable' \subseteq Objects
    BY <1>1, <1>2, <1>3 DEF TableTypes
  <2>6. /\ obj'[o] = Dropped(r) /\ \A p \in Objects \ {o} : obj'[p] = obj[p]
        /\ obj' \in [Objects -> ObjectRecords]
    BY <1>2, <1>3, <2>4, <2>5 DEF TableTypes
  <2>7. TableTypes'
    BY <1>1, <1>2, <1>8, <2>1, <2>6, <2>14 DEF TableTypes, Tables, Calls
  <2>8. Counted'
    <3> SUFFICES ASSUME NEW p \in Objects
                 PROVE  /\ obj'[p].refs = (IF HasHandle(p)' THEN 1 ELSE 0)
                              + (IF obj'[p].active THEN 1 ELSE 0)
                              + Cardinality(Keepers(p)')
                        /\ obj'[p].state = "made" <=> obj'[p].refs > 0
      BY DEF Counted
    <3>1. Cardinality(Keepers(p)) \in Nat
      BY KeepersAreFinite
    <3>2. CASE p = o
      <4>1. Cardinality(Keepers(o)) = 1
        BY <1>2, <1>3, <1>5, KeepersAreFinite DEF TableInv, Counted
      <4>2. QED
        BY <1>3, <1>6, <2>2, <2>5, <2>6, <3>2, <4>1
    <3>3. CASE p # o
      BY <1>2, <1>6, <2>2, <2>6, <3>1, <3>3 DEF TableInv, Counted
    <3>4. QED
      BY <3>2, <3>3
  <2>9. ActiveIsHeld'
    BY <1>2, <1>3, <1>7, <2>2, <2>5, <2>6, <2>14 DEF TableInv, ActiveIsHeld, o
  <2>10. AddedByOne'
    <3> SUFFICES ASSUME NEW s \in Threads, call'[s].op = "adding"
                 PROVE  /\ ~HasHandle(call[s].obj)'
                        /\ \A u \in Threads : call'[u].obj = call'[s].obj => u = s
      BY DEF AddedByOne
    <3>1. s # t /\ call'[s] = call[s]
      BY <1>4, <1>7
    <3>2. call[s].obj \in Objects /\ ~HasHandle(call[s].obj)
      BY <1>2, <3>1 DEF TableInv, AddedByOne, WorksWith
    <3>3. ~HasHandle(call[s].obj)'
      BY <2>2, <3>1, <3>2 DEF HasHandle, Holds
    <3>4. \A u \in Threads : call'[u].obj = call'[s].obj => u = s
      BY <1>2, <1>4, <1>7, <3>1, <3>2, UserClientAssumption
         DEF TableInv, AddedByOne, UserClientAssumption
    <3>5. QED
      BY <3>3, <3>4
  <2>11. HandleStays'
    BY <1>2, <1>4, <1>7, <2>2 DEF TableInv, HandleStays, ByHandle
  <2>12. CopiedByOne'
    <3>1. \A p \in Objects : obj[p].state = "made" /\ obj'[p].state = "made"
                                => obj'[p].kind = obj[p].kind
      BY <2>5, <2>6
    <3>2. \A p \in Objects : obj'[p].refs \in Nat
      BY <2>6 DEF ObjectRecords
    <3>3. call'[t].op \notin ByHandle \cup {"copying"}
      BY <1>4, <1>7 DEF ByHandle
    <3>4. QED
      BY <1>2, <1>7, <1>11, <2>8, <2>11, <3>1, <3>2, <3>3, CopyingStays
  <2>13. QED
    BY <1>10, <1>11, <2>2, <2>7, <2>8, <2>9, <2>10, <2>11, <2>12
       DEF TablesAreSound, TableInv
<1>14. QED
  BY <1>12, <1>13

(* A thread that goes on to r, which knows an object by a handle if at     *)
(* all, while no handle changes.                                           *)
LEMMA ThreadGoesOn ==
    ASSUME TablesAreSound, NEW t \in Threads, NEW r \in Calls,
           call' = [call EXCEPT ![t] = r], fExporter' = fExporter,
           unreleasable' = unreleasable, raced' = raced,
           call[t].op # "adding", r.op # "adding",
           IF r.op \in {"none", "seizing"} THEN r.obj = NoObject
           ELSE r.obj \in Objects /\ r.client \in Clients /\ HasHandle(r.obj),
           r.op \in ByHandle \cup {"copying"} =>
              r.handle \in AllHandles /\ Holds(r.client, r.handle, r.obj),
           r.op \in ByHandle => obj[r.obj].kind # "data",
           r.op = "copying" =>
              /\ obj[r.obj].kind = "data"
              /\ \A s \in Threads : ~(call[s].obj = r.obj /\ call[s].op = "copying"),
           \A p \in Objects : obj[p].state = "made" /\ obj'[p].state = "made"
                                 => obj'[p].kind = obj[p].kind,
           r.client \in Clients => client[r.client].connected,
           \A c \in Clients : /\ client'[c].state = "freed" => client[c].state = "freed"
                              /\ client'[c].connected => client[c].connected,
           obj' \in [Objects -> ObjectRecords], Counted', ActiveIsHeld'
    PROVE  TablesAreSound'
<1>1. TableTypes /\ TableInv /\ FreedAreEmpty
  BY DEF TablesAreSound, TableInv
<1>2. /\ \A d, i, p : Holds(d, i, p)' <=> Holds(d, i, p)
      /\ \A p : HasHandle(p)' <=> HasHandle(p)
      /\ OneHandle'
  BY <1>1, SameHandles DEF TableInv
<1>3. call'[t] = r /\ \A s \in Threads \ {t} : call'[s] = call[s]
  BY <1>1 DEF TableTypes
<1>4. TableTypes'
  BY <1>1 DEF TableTypes, Tables, Calls
<1>5. WorksWith'
  BY <1>1, <1>3 DEF TableInv, WorksWith
<1>6. AddedByOne'
  <2> SUFFICES ASSUME NEW s \in Threads, call'[s].op = "adding"
               PROVE  /\ ~HasHandle(call[s].obj)'
                      /\ \A u \in Threads : call'[u].obj = call'[s].obj => u = s
    BY DEF AddedByOne
  <2>1. s # t /\ call'[s] = call[s]
    BY <1>3
  <2>2. call[s].obj \in Objects /\ ~HasHandle(call[s].obj)
        /\ \A u \in Threads : call[u].obj = call[s].obj => u = s
    BY <1>1, <2>1 DEF TableInv, AddedByOne, WorksWith
  <2>3. ~HasHandle(call[s].obj)'
    BY <2>1, <2>2 DEF HasHandle, Holds
  <2>4. r.obj # call[s].obj
    BY <2>2, UserClientAssumption DEF UserClientAssumption
  <2>5. QED
    BY <1>3, <2>1, <2>2, <2>3, <2>4
<1>7. HandleStays'
  <2> SUFFICES ASSUME NEW s \in Threads,
                      call'[s].op \in ByHandle \cup {"copying"}
               PROVE  /\ call'[s].handle \in AllHandles
                      /\ Holds(call[s].client, call[s].handle, call[s].obj)'
    BY DEF HandleStays
  <2>1. CASE s = t
    BY <1>3, <2>1 DEF Holds
  <2>2. CASE s # t
    BY <1>1, <1>3, <2>2 DEF TableInv, HandleStays, Holds
  <2>3. QED
    BY <2>1, <2>2
<1>8. FreedAreEmpty'
  BY <1>1, <1>3 DEF FreedAreEmpty
<1>9. CopiedByOne'
  <2>1. \A p \in Objects : obj'[p].refs \in Nat
    BY DEF ObjectRecords
  <2>2. r.op \in ByHandle \cup {"copying"} => HasHandle(r.obj)
    BY DEF ByHandle
  <2>3. CASE t \in Threads
    BY <1>1, <1>3, <1>5, <1>7, <2>1, <2>2, <2>3, CopyingStays
  <2>4. QED
    BY <2>3
<1>10. QED
  BY <1>2, <1>4, <1>5, <1>6, <1>7, <1>8, <1>9 DEF TablesAreSound, TableInv

(* A method keeps its object until it returns.                             *)
LEMMA KeepsObjectKeepsTables ==
    ASSUME NubTypes, TablesAreSound, NEW t \in Threads, NEW c \in Clients,
           NEW h \in AllHandles, NEW op \in {"calling", "copying"},
           MayCall(t, c), ObjectOf(c, h) # NoObject,
           op = "copying" =>
              /\ obj[ObjectOf(c, h)].kind = "data"
              /\ \A s \in Threads : ~(call[s].obj = ObjectOf(c, h)
                                         /\ call[s].op = "copying"),
           obj' = [obj EXCEPT ![ObjectOf(c, h)] = Retain(ObjectOf(c, h), 1)],
           Enters(t, op, c, ObjectOf(c, h), h),
           fExporter' = fExporter, client' = client,
           unreleasable' = unreleasable, raced' = raced
    PROVE  TablesAreSound'
<1> DEFINE o == ObjectOf(c, h)
           r == [op |-> op, client |-> c, obj |-> o, handle |-> h]
<1>1. TableTypes /\ TableInv
  BY DEF TablesAreSound, TableInv
<1>2. o \in Objects /\ Holds(c, h, o) /\ HasHandle(o)
  <2>1. o \in Objects /\ Holds(c, h, o)
    BY <1>1, FoundObject
  <2>2. QED
    BY <2>1 DEF HasHandle
<1>3. call[t] = InUserSpace /\ client[c].connected /\ call' = [call EXCEPT ![t] = r]
  BY DEF MayCall, Enters
<1>4. r \in Calls /\ r.op = op /\ r.obj = o /\ r.client = c /\ r.handle = h
      /\ r.op \in Keeping
  BY <1>2 DEF Calls, Keeping, AllHandles
<1> HIDE DEF r, o
<1>5. call[t].op = "none" /\ call[t].op \notin Keeping
  BY <1>3 DEF InUserSpace, Keeping
<1>6. \A p : Cardinality(Keepers(p)') =
                Cardinality(Keepers(p)) + (IF o = p THEN 1 ELSE 0)
  BY <1>1, <1>3, <1>4, <1>5, KeeperMore
<1>7. obj' = [obj EXCEPT ![o] = [obj[o] EXCEPT !.refs = @ + 1]]
  BY DEF Retain, o
<1>8. obj[o] \in ObjectRecords /\ obj[o].refs \in Nat /\ obj[o].state = "made"
      /\ obj[o].refs > 0
  BY <1>1, <1>2, ReferenceFacts
<1>9. /\ obj'[o] \in ObjectRecords /\ obj'[o].refs = obj[o].refs + 1
      /\ (obj'[o].active <=> obj[o].active) /\ obj'[o].state = "made"
      /\ obj'[o].kind = obj[o].kind
      /\ \A p \in Objects \ {o} : obj'[p] = obj[p]
      /\ obj' \in [Objects -> ObjectRecords]
  <2> DEFINE kept == [obj[o] EXCEPT !.refs = @ + 1]
  <2>1. /\ kept \in ObjectRecords /\ kept.refs = obj[o].refs + 1
        /\ (kept.active <=> obj[o].active) /\ kept.state = "made"
        /\ kept.kind = obj[o].kind
    BY <1>8, RetainedRecord
  <2>2. obj' = [obj EXCEPT ![o] = kept]
    BY <1>7
  <2> HIDE DEF kept
  <2>3. QED
    BY <1>1, <1>2, <2>1, <2>2 DEF TableTypes
<1>10. \A p : HasHandle(p)' <=> HasHandle(p)
  BY SameHandles
<1>11. Counted'
  <2> SUFFICES ASSUME NEW p \in Objects
               PROVE  /\ obj'[p].refs = (IF HasHandle(p)' THEN 1 ELSE 0)
                            + (IF obj'[p].active THEN 1 ELSE 0)
                            + Cardinality(Keepers(p)')
                      /\ obj'[p].state = "made" <=> obj'[p].refs > 0
    BY DEF Counted
  <2>1. Cardinality(Keepers(p)) \in Nat
    BY KeepersAreFinite
  <2>2. CASE p = o
    BY <1>1, <1>2, <1>6, <1>8, <1>9, <1>10, <2>1, <2>2 DEF TableInv, Counted
  <2>3. CASE p # o
    BY <1>1, <1>6, <1>9, <1>10, <2>1, <2>3 DEF TableInv, Counted
  <2>4. QED
    BY <2>2, <2>3
<1>12. ActiveIsHeld'
  <2> SUFFICES ASSUME NEW p \in Objects, obj'[p].active,
                      p \notin unreleasable'
               PROVE  \/ HasHandle(p)'
                      \/ \E s \in Threads : call'[s].obj = p
                                         /\ call'[s].op \in {"adding", "removing"}
    BY DEF ActiveIsHeld
  <2>1. obj[p].active
    BY <1>9
  <2>2. QED
    BY <1>1, <1>3, <1>5, <1>10, <2>1 DEF TableInv, ActiveIsHeld, TableTypes
<1>13. QED
  <2>1. r.op \notin {"none", "seizing", "adding"} \cup ByHandle /\ call[t].op # "adding"
    BY <1>4, <1>5 DEF ByHandle
  <2>2. r.op = "copying" =>
           /\ obj[r.obj].kind = "data"
           /\ \A s \in Threads : ~(call[s].obj = r.obj /\ call[s].op = "copying")
    BY <1>4 DEF o
  <2>3. \A p \in Objects : obj'[p].kind = obj[p].kind
    BY <1>9
  <2>4. QED
    BY <1>2, <1>3, <1>4, <1>9, <1>11, <1>12, <2>1, <2>2, <2>3, ThreadGoesOn
       DEF TablesAreSound

(* A call by handle takes no reference.                                    *)
LEMMA externalMethodKeepsTables ==
    ASSUME NubTypes, TablesAreSound, NEW t \in Threads, NEW c \in Clients,
           NEW h \in AllHandles, externalMethod(t, c, h)
    PROVE  TablesAreSound'
<1> DEFINE o == ObjectOf(c, h)
<1>1. TableTypes /\ TableInv
  BY DEF TablesAreSound, TableInv
<1>2. /\ call[t] = InUserSpace /\ client[c].connected
      /\ fExporter' = fExporter /\ obj' = obj /\ client' = client /\ o # NoObject
      /\ unreleasable' = unreleasable /\ raced' = raced
      /\ obj[o].kind # "data"
  BY DEF externalMethod, MayCall, tables, nubVars, IsTarget
<1>3. PICK op \in ByHandle :
         call' = [call EXCEPT ![t] = [op |-> op, client |-> c, obj |-> o, handle |-> h]]
  BY DEF externalMethod, Enters, ByHandle
<1> DEFINE r == [op |-> op, client |-> c, obj |-> o, handle |-> h]
<1>4. o \in Objects /\ Holds(c, h, o) /\ HasHandle(o)
  <2>1. o \in Objects /\ Holds(c, h, o)
    BY <1>1, <1>2, FoundObject
  <2>2. QED
    BY <2>1 DEF HasHandle
<1>5. r \in Calls /\ r.op = op /\ r.obj = o /\ r.client = c /\ r.handle = h
      /\ r.op \notin Keeping /\ r.op \notin {"none", "seizing", "adding"}
      /\ r.op # "copying" /\ obj[r.obj].kind # "data"
  BY <1>2, <1>4 DEF Calls, Keeping, AllHandles, ByHandle
<1>6. call' = [call EXCEPT ![t] = r]
  BY <1>3
<1> HIDE DEF r, o
<1>7. call[t].op = "none" /\ call[t].op \notin Keeping
  BY <1>2 DEF InUserSpace, Keeping
<1>8. \A p : Keepers(p)' = Keepers(p)
  BY <1>1, <1>5, <1>6, <1>7, KeepersSame
<1>9. \A p : HasHandle(p)' <=> HasHandle(p)
  BY <1>2, SameHandles
<1>10. Counted'
  BY <1>1, <1>2, <1>8, <1>9 DEF TableInv, Counted
<1>11. ActiveIsHeld'
  BY <1>1, <1>2, <1>6, <1>7, <1>9 DEF TableInv, ActiveIsHeld, TableTypes
<1>12. obj' \in [Objects -> ObjectRecords]
  BY <1>1, <1>2 DEF TableTypes
<1>13. QED
  BY <1>2, <1>4, <1>5, <1>6, <1>7, <1>10, <1>11, <1>12, ThreadGoesOn
     DEF TablesAreSound

(* The call of a thread that returns may make its object known to the bus, *)
(* or unknown, or give its reference up.                                   *)
LEMMA ReturnKeepsTables ==
    ASSUME NubTypes, TablesAreSound, NEW t \in Threads, Return(t)
    PROVE  TablesAreSound'
<1> DEFINE o == call[t].obj
           op == call[t].op
           r == InUserSpace
<1>1. TableTypes /\ TableInv
  BY DEF TablesAreSound, TableInv
<1>2. /\ op \in {"calling"} \cup ByHandle
      /\ obj' = [obj EXCEPT ![o] = CASE op = "calling" -> Dropped(@)
                                     [] op = "activate" -> Activated(@)
                                     [] op = "deactivate" -> Deactivated(@)
                                     [] OTHER -> @]
      /\ call' = [call EXCEPT ![t] = r]
      /\ fExporter' = fExporter /\ client' = client
      /\ unreleasable' = unreleasable /\ raced' = raced
  BY DEF Return, Leaves, nubVars
<1>3. o \in Objects /\ (op \in ByHandle => HasHandle(o))
  <2>1. o \in Objects /\ call[t].client \in Clients
    BY <1>1, <1>2 DEF TableInv, WorksWith, ByHandle
  <2>2. op \in ByHandle => /\ call[t].handle \in AllHandles
                           /\ Holds(call[t].client, call[t].handle, o)
    BY <1>1 DEF TableInv, HandleStays
  <2>3. QED
    BY <2>1, <2>2 DEF HasHandle
<1>4. /\ r \in Calls /\ r.op = "none" /\ r.obj = NoObject /\ r.client = NoClient
      /\ r.op \notin Keeping
  BY ExporterAssumption DEF Calls, InUserSpace, Keeping, ExporterAssumption
<1> HIDE DEF r, o, op
<1>5. /\ obj[o] \in ObjectRecords /\ obj[o].refs \in Nat
      /\ obj[o].refs > 0 /\ obj[o].state = "made"
  BY <1>1, <1>3, ReferenceFacts DEF o
<1>6. op = "calling" <=> op \in Keeping
  BY <1>2 DEF Keeping, ByHandle
<1>7. \A p : Cardinality(Keepers(p)') = Cardinality(Keepers(p)) -
                                (IF op = "calling" /\ o = p THEN 1 ELSE 0)
  <2>1. CASE op = "calling"
    BY <1>1, <1>2, <1>4, <1>6, <2>1, KeeperLess DEF o, op
  <2>2. CASE op # "calling"
    <3>1. \A p : Keepers(p)' = Keepers(p)
      BY <1>1, <1>2, <1>4, <1>6, <2>2, KeepersSame DEF op
    <3>2. QED
      BY <2>2, <3>1, KeepersAreFinite
  <2>3. QED
    BY <2>1, <2>2
<1>8. \A p : HasHandle(p)' <=> HasHandle(p)
  BY <1>2, SameHandles
<1> DEFINE after == obj'[o]
<1>9. /\ after \in ObjectRecords
      /\ after.state = "made" <=> after.refs > 0
      /\ after.state = "made" => after.kind = obj[o].kind
      /\ op = "calling" => /\ after.refs = obj[o].refs - 1
                           /\ after.active <=> obj[o].active
      /\ op # "calling" =>
            /\ after.refs = obj[o].refs - (IF obj[o].active THEN 1 ELSE 0)
                                        + (IF after.active THEN 1 ELSE 0)
            /\ after.active => HasHandle(o)
      /\ \A p \in Objects \ {o} : obj'[p] = obj[p]
      /\ obj' \in [Objects -> ObjectRecords]
  <2>1. \A p \in Objects \ {o} : obj'[p] = obj[p]
    BY <1>1, <1>2, <1>3 DEF TableTypes
  <2>2. CASE op = "calling"
    <3>1. after = Dropped(obj[o]) /\ obj' = [obj EXCEPT ![o] = Dropped(obj[o])]
      BY <1>1, <1>2, <1>3, <2>2 DEF TableTypes
    <3>2. QED
      BY <1>1, <1>3, <1>5, <2>1, <2>2, <3>1, DroppedRecord DEF TableTypes
  <2>3. CASE op = "activate"
    <3>1. after = Activated(obj[o]) /\ obj' = [obj EXCEPT ![o] = Activated(obj[o])]
      BY <1>1, <1>2, <1>3, <2>3 DEF TableTypes
    <3>2. /\ after \in ObjectRecords /\ after.active /\ after.state = "made"
          /\ after.kind = obj[o].kind
          /\ after.refs = obj[o].refs + (IF obj[o].active THEN 0 ELSE 1)
      BY <1>5, <3>1, ActivatedRecord
    <3> HIDE DEF after
    <3>3. HasHandle(o) /\ op # "calling"
      BY <1>2, <1>3, <2>3
    <3>4. obj' \in [Objects -> ObjectRecords]
      BY <1>1, <1>3, <3>1, <3>2 DEF TableTypes
    <3>5. QED
      BY <1>5, <2>1, <3>2, <3>3, <3>4
  <2>4. CASE op = "deactivate"
    <3>1. after = Deactivated(obj[o]) /\ obj' = [obj EXCEPT ![o] = Deactivated(obj[o])]
      BY <1>1, <1>2, <1>3, <2>4 DEF TableTypes
    <3>2. /\ after \in ObjectRecords /\ ~after.active /\ after.state = "made"
          /\ after.kind = obj[o].kind
          /\ after.refs = obj[o].refs - (IF obj[o].active THEN 1 ELSE 0)
      BY <1>5, <3>1, DeactivatedRecord
    <3> HIDE DEF after
    <3>3. HasHandle(o) /\ op # "calling"
      BY <1>2, <1>3, <2>4
    <3>4. obj[o].refs >= 1 + (IF obj[o].active THEN 1 ELSE 0)
      BY <1>1, <1>3, <3>3, ReferenceFacts
    <3>5. obj' \in [Objects -> ObjectRecords]
      BY <1>1, <1>3, <3>1, <3>2 DEF TableTypes
    <3>6. QED
      BY <1>5, <2>1, <3>2, <3>3, <3>4, <3>5
  <2>5. CASE op = "dispatched"
    <3>1. obj' = obj
      BY <1>1, <1>2, <1>3, <2>5 DEF TableTypes
    <3>2. HasHandle(o) /\ op # "calling"
      BY <1>2, <1>3, <2>5
    <3>3. QED
      BY <1>1, <1>5, <2>1, <3>1, <3>2 DEF TableTypes
  <2>6. QED
    BY <1>2, <2>2, <2>3, <2>4, <2>5 DEF ByHandle
<1> HIDE DEF after
<1>10. Counted'
  <2> SUFFICES ASSUME NEW p \in Objects
               PROVE  /\ obj'[p].refs = (IF HasHandle(p)' THEN 1 ELSE 0)
                            + (IF obj'[p].active THEN 1 ELSE 0)
                            + Cardinality(Keepers(p)')
                      /\ obj'[p].state = "made" <=> obj'[p].refs > 0
    BY DEF Counted
  <2>1. Cardinality(Keepers(p)) \in Nat
    BY KeepersAreFinite
  <2>2. CASE p = o
    BY <1>1, <1>3, <1>5, <1>7, <1>8, <1>9, <2>1, <2>2 DEF TableInv, Counted, after
  <2>3. CASE p # o
    BY <1>1, <1>7, <1>8, <1>9, <2>1, <2>3 DEF TableInv, Counted
  <2>4. QED
    BY <2>2, <2>3
<1>11. ActiveIsHeld'
  <2> SUFFICES ASSUME NEW p \in Objects, obj'[p].active,
                      p \notin unreleasable'
               PROVE  \/ HasHandle(p)'
                      \/ \E s \in Threads : call'[s].obj = p
                                         /\ call'[s].op \in {"adding", "removing"}
    BY DEF ActiveIsHeld
  <2>1. obj[p].active \/ HasHandle(p)
    BY <1>9 DEF after
  <2>2. op \notin {"adding", "removing"}
    BY <1>2 DEF ByHandle
  <2>3. QED
    BY <1>1, <1>2, <1>8, <2>1, <2>2 DEF TableInv, ActiveIsHeld, TableTypes, op
<1>12. op # "adding"
  BY <1>2 DEF ByHandle
<1>13. r.op \notin {"adding", "copying"} \cup ByHandle /\ r.client \notin Clients
  BY <1>4, UserClientAssumption DEF ByHandle, UserClientAssumption
<1>14. \A p \in Objects : obj[p].state = "made" /\ obj'[p].state = "made"
                             => obj'[p].kind = obj[p].kind
  BY <1>9 DEF after
<1>15. QED
  BY <1>2, <1>4, <1>9, <1>10, <1>11, <1>12, <1>13, <1>14, ThreadGoesOn
     DEF TablesAreSound, op

(* A released object is taken from the bus and loses the handle's          *)
(* reference, which the thread had since the handle went.                  *)
LEMMA CleanedUpKeepsTables ==
    ASSUME NubTypes, TablesAreSound, NEW t \in Threads, CleanedUp(t)
    PROVE  TablesAreSound'
<1> DEFINE o == call[t].obj
           r == InUserSpace
           d == Deactivated(obj[o])
<1>1. TableTypes /\ TableInv
  BY DEF TablesAreSound, TableInv
<1>2. /\ call[t].op = "removing" /\ obj' = [obj EXCEPT ![o] = Dropped(d)]
      /\ call' = [call EXCEPT ![t] = r]
      /\ fExporter' = fExporter /\ client' = client
      /\ unreleasable' = unreleasable /\ raced' = raced
  BY DEF CleanedUp, Leaves, nubVars
<1>3. o \in Objects /\ call[t].op \in Keeping
  BY <1>1, <1>2 DEF TableInv, WorksWith, Keeping
<1>4. /\ r \in Calls /\ r.op = "none" /\ r.obj = NoObject /\ r.client = NoClient
      /\ r.op \notin Keeping
  BY ExporterAssumption DEF Calls, InUserSpace, Keeping, ExporterAssumption
<1>5. /\ obj[o] \in ObjectRecords /\ obj[o].refs \in Nat /\ obj[o].state = "made"
      /\ obj[o].refs >= 1 + (IF HasHandle(o) THEN 1 ELSE 0)
                          + (IF obj[o].active THEN 1 ELSE 0)
  BY <1>1, <1>3, ReferenceFacts
<1>6. \A p : Cardinality(Keepers(p)') =
                Cardinality(Keepers(p)) - (IF o = p THEN 1 ELSE 0)
  BY <1>1, <1>2, <1>3, <1>4, KeeperLess
<1>7. \A p : HasHandle(p)' <=> HasHandle(p)
  BY <1>2, SameHandles
<1> HIDE DEF r
<1>8. /\ d \in ObjectRecords /\ d.refs > 0 /\ d.state = "made" /\ ~d.active
      /\ d.refs = obj[o].refs - (IF obj[o].active THEN 1 ELSE 0)
      /\ d.kind = obj[o].kind
  BY <1>5, DeactivatedRecord
<1> HIDE DEF d
<1>9. /\ Dropped(d) \in ObjectRecords /\ Dropped(d).refs = d.refs - 1
      /\ ~Dropped(d).active
      /\ Dropped(d).state = "made" <=> Dropped(d).refs > 0
      /\ Dropped(d).refs > 0 => Dropped(d).kind = d.kind
  BY <1>8, DroppedRecord
<1>10. /\ obj'[o] = Dropped(d) /\ \A p \in Objects \ {o} : obj'[p] = obj[p]
       /\ obj' \in [Objects -> ObjectRecords]
  BY <1>1, <1>2, <1>3, <1>9 DEF TableTypes
<1> HIDE DEF o
<1>11. Counted'
  <2> SUFFICES ASSUME NEW p \in Objects
               PROVE  /\ obj'[p].refs = (IF HasHandle(p)' THEN 1 ELSE 0)
                            + (IF obj'[p].active THEN 1 ELSE 0)
                            + Cardinality(Keepers(p)')
                      /\ obj'[p].state = "made" <=> obj'[p].refs > 0
    BY DEF Counted
  <2>1. Cardinality(Keepers(p)) \in Nat
    BY KeepersAreFinite
  <2>2. CASE p = o
    BY <1>1, <1>3, <1>5, <1>6, <1>7, <1>8, <1>9, <1>10, <2>1, <2>2
       DEF TableInv, Counted
  <2>3. CASE p # o
    BY <1>1, <1>6, <1>7, <1>10, <2>1, <2>3 DEF TableInv, Counted
  <2>4. QED
    BY <2>2, <2>3
<1>12. ActiveIsHeld'
  <2> SUFFICES ASSUME NEW p \in Objects, obj'[p].active,
                      p \notin unreleasable'
               PROVE  \/ HasHandle(p)'
                      \/ \E s \in Threads : call'[s].obj = p
                                         /\ call'[s].op \in {"adding", "removing"}
    BY DEF ActiveIsHeld
  <2>1. p # o /\ obj[p].active
    BY <1>9, <1>10
  <2>2. QED
    BY <1>1, <1>2, <1>7, <2>1 DEF TableInv, ActiveIsHeld, TableTypes, o
<1>13. r.op \notin {"adding", "copying"} \cup ByHandle /\ r.client \notin Clients
  BY <1>4, UserClientAssumption DEF ByHandle, UserClientAssumption
<1>14. \A p \in Objects : obj[p].state = "made" /\ obj'[p].state = "made"
                             => obj'[p].kind = obj[p].kind
  BY <1>8, <1>9, <1>10
<1>15. QED
  BY <1>2, <1>4, <1>10, <1>11, <1>12, <1>13, <1>14, ThreadGoesOn
     DEF TablesAreSound

(* A thread that takes a handle away from an object nobody uses by it goes *)
(* on to r.                                                                *)
LEMMA HandleGoes ==
    ASSUME TablesAreSound, NEW t \in Threads, NEW r \in Calls,
           NEW c \in Clients, NEW h \in AllHandles, NEW o \in Objects, Holds(c, h, o),
           fExporter' = [fExporter EXCEPT ![c] = removeObject(@, h)],
           call' = [call EXCEPT ![t] = r], client' = client,
           unreleasable' = unreleasable, raced' = raced,
           client[c].state # "freed", call[t].op # "adding",
           r.op \notin {"adding", "copying"} \cup ByHandle,
           IF r.op \in {"none", "seizing"} THEN r.obj = NoObject
           ELSE r.obj = o /\ r.client \in Clients,
           r.client \in Clients => client[r.client].connected,
           \A s \in Threads \ {t} :
              ~(call[s].op \in ByHandle \cup {"copying"} /\ call[s].obj = o),
           obj' \in [Objects -> ObjectRecords], Counted', ActiveIsHeld',
           \A p \in Objects : obj[p].state = "made" /\ obj'[p].state = "made"
                                 => obj'[p].kind = obj[p].kind
    PROVE  TablesAreSound'
<1>1. TableTypes /\ TableInv /\ FreedAreEmpty
  BY DEF TablesAreSound, TableInv
<1>2. /\ fExporter' \in [Clients -> Tables(Objects)]
      /\ \A d \in Clients, i \in AllHandles, p \in Objects :
            Holds(d, i, p) /\ p # o => Holds(d, i, p)'
      /\ \A p \in Objects : HasHandle(p)' <=> HasHandle(p) /\ p # o
      /\ OneHandle'
  BY <1>1, FewerHandles DEF TableInv
<1>3. call'[t] = r /\ \A s \in Threads \ {t} : call'[s] = call[s]
  BY <1>1 DEF TableTypes
<1>4. TableTypes'
  BY <1>1, <1>2 DEF TableTypes, Tables, Calls
<1>5. WorksWith'
  BY <1>1, <1>3 DEF TableInv, WorksWith
<1>6. AddedByOne'
  <2> SUFFICES ASSUME NEW s \in Threads, call'[s].op = "adding"
               PROVE  /\ ~HasHandle(call[s].obj)'
                      /\ \A u \in Threads : call'[u].obj = call'[s].obj => u = s
    BY DEF AddedByOne
  <2>1. s # t /\ call'[s] = call[s]
    BY <1>3
  <2>2. call[s].obj \in Objects /\ ~HasHandle(call[s].obj)
        /\ \A u \in Threads : call[u].obj = call[s].obj => u = s
    BY <1>1, <2>1 DEF TableInv, AddedByOne, WorksWith
  <2>3. ~HasHandle(call[s].obj)'
    BY <1>2, <2>1, <2>2 DEF HasHandle, Holds
  <2>4. HasHandle(o)
    BY DEF HasHandle
  <2>5. r.obj # call[s].obj
    BY <2>2, <2>4, UserClientAssumption DEF UserClientAssumption
  <2>6. QED
    BY <1>3, <2>1, <2>2, <2>3, <2>5
<1>7. HandleStays'
  <2> SUFFICES ASSUME NEW s \in Threads,
                      call'[s].op \in ByHandle \cup {"copying"}
               PROVE  /\ call'[s].handle \in AllHandles
                      /\ Holds(call[s].client, call[s].handle, call[s].obj)'
    BY DEF HandleStays
  <2>1. s # t /\ call'[s] = call[s]
    BY <1>3
  <2>2. /\ call[s].handle \in AllHandles /\ call[s].client \in Clients
        /\ call[s].obj \in Objects /\ call[s].obj # o
        /\ Holds(call[s].client, call[s].handle, call[s].obj)
    BY <1>1, <2>1 DEF TableInv, HandleStays, WorksWith, ByHandle
  <2>3. QED
    BY <1>2, <2>1, <2>2 DEF Holds
<1>8. CopiedByOne'
  <2>1. \A p \in Objects : obj'[p].refs \in Nat
    BY DEF ObjectRecords
  <2>2. call'[t].op \notin ByHandle \cup {"copying"}
    BY <1>3
  <2>3. QED
    BY <1>1, <1>3, <1>5, <1>7, <2>1, <2>2, CopyingStays
<1>9. FreedAreEmpty'
  <2> SUFFICES ASSUME NEW e \in Clients, client'[e].state = "freed"
               PROVE  /\ ~client'[e].connected /\ fExporter'[e] = EmptyExporter
                      /\ \A s \in Threads : call'[s].client # e
    BY DEF FreedAreEmpty
  <2>1. /\ e # c /\ ~client[e].connected /\ fExporter[e] = EmptyExporter
        /\ \A s \in Threads : call[s].client # e
    BY <1>1 DEF FreedAreEmpty
  <2>2. QED
    BY <1>1, <1>3, <2>1 DEF TableTypes
<1>10. QED
  BY <1>2, <1>4, <1>5, <1>6, <1>7, <1>8, <1>9 DEF TablesAreSound, TableInv

LEMMA releaseUserObjectKeepsTables ==
    ASSUME NubTypes, TablesAreSound, "callDuringRelease" \notin ClientRaces, NEW t \in Threads,
           NEW c \in Clients, NEW h \in AllHandles, releaseUserObject(t, c, h)
    PROVE  TablesAreSound'
<1> DEFINE o == ObjectOf(c, h)
           r == [op |-> "removing", client |-> c, obj |-> o, handle |-> h]
<1>1. TableTypes /\ TableInv /\ FreedAreEmpty
  BY DEF TablesAreSound, TableInv
<1>2. /\ call[t] = InUserSpace /\ client[c].connected /\ o # NoObject
      /\ fExporter' = [fExporter EXCEPT ![c] = removeObject(@, h)]
      /\ call' = [call EXCEPT ![t] = r] /\ client' = client /\ obj' = obj
      /\ \A s \in Threads :
            ~(call[s].op \in ByHandle \cup {"copying"} /\ call[s].obj = o)
      /\ unreleasable' = unreleasable /\ raced' = raced
  BY DEF releaseUserObject, MayCall, Enters, TakesHandle, InUse, nubVars
<1>3. o \in Objects /\ Holds(c, h, o) /\ HasHandle(o)
  <2>1. o \in Objects /\ Holds(c, h, o)
    BY <1>1, <1>2, FoundObject
  <2>2. QED
    BY <2>1 DEF HasHandle
<1>4. r \in Calls /\ r.op = "removing" /\ r.obj = o /\ r.client = c
      /\ r.op \in Keeping /\ r.op \notin ByHandle
  BY <1>3 DEF Calls, Keeping, AllHandles, ByHandle
<1> HIDE DEF r, o
<1>5. call[t].op = "none" /\ call[t].op \notin Keeping
  BY <1>2 DEF InUserSpace, Keeping
<1>6. \A p : Cardinality(Keepers(p)') =
                Cardinality(Keepers(p)) + (IF o = p THEN 1 ELSE 0)
  BY <1>1, <1>2, <1>4, <1>5, KeeperMore
<1>7. \A p \in Objects : HasHandle(p)' <=> HasHandle(p) /\ p # o
  BY <1>1, <1>2, <1>3, FewerHandles DEF TableInv
<1>8. Counted'
  <2> SUFFICES ASSUME NEW p \in Objects
               PROVE  /\ obj'[p].refs = (IF HasHandle(p)' THEN 1 ELSE 0)
                            + (IF obj'[p].active THEN 1 ELSE 0)
                            + Cardinality(Keepers(p)')
                      /\ obj'[p].state = "made" <=> obj'[p].refs > 0
    BY DEF Counted
  <2>1. Cardinality(Keepers(p)) \in Nat
    BY KeepersAreFinite
  <2>2. QED
    BY <1>1, <1>2, <1>3, <1>6, <1>7, <2>1 DEF TableInv, Counted
<1>9. call'[t] = r /\ \A s \in Threads \ {t} : call'[s] = call[s]
  BY <1>1, <1>2 DEF TableTypes
<1>10. ActiveIsHeld'
  <2> SUFFICES ASSUME NEW p \in Objects, obj'[p].active,
                      p \notin unreleasable'
               PROVE  \/ HasHandle(p)'
                      \/ \E s \in Threads : call'[s].obj = p
                                         /\ call'[s].op \in {"adding", "removing"}
    BY DEF ActiveIsHeld
  <2>1. CASE p = o
    BY <1>4, <1>9, <2>1
  <2>2. CASE p # o
    BY <1>1, <1>2, <1>5, <1>7, <1>9, <2>2 DEF TableInv, ActiveIsHeld
  <2>3. QED
    BY <2>1, <2>2
<1>11. client[c].state # "freed"
  BY <1>1, <1>2 DEF FreedAreEmpty
<1>12. obj' \in [Objects -> ObjectRecords]
  BY <1>1, <1>2 DEF TableTypes
<1>13. /\ call[t].op # "adding" /\ r.op \notin {"adding", "copying"} \cup ByHandle
       /\ IF r.op \in {"none", "seizing"} THEN r.obj = NoObject
          ELSE r.obj = o /\ r.client \in Clients
       /\ r.client \in Clients => client[r.client].connected
       /\ \A p \in Objects : obj[p].state = "made" /\ obj'[p].state = "made"
                                => obj'[p].kind = obj[p].kind
  BY <1>2, <1>4, <1>5
<1>14. /\ fExporter' = [fExporter EXCEPT ![c] = removeObject(@, h)]
       /\ call' = [call EXCEPT ![t] = r] /\ client' = client
       /\ unreleasable' = unreleasable /\ raced' = raced
       /\ \A s \in Threads \ {t} :
             ~(call[s].op \in ByHandle \cup {"copying"} /\ call[s].obj = o)
  BY <1>2
<1>15. o \in Objects /\ c \in Clients /\ h \in AllHandles /\ Holds(c, h, o)
       /\ r \in Calls
  BY <1>3, <1>4
<1> HIDE DEF TablesAreSound
<1>16. QED
  BY <1>8, <1>10, <1>11, <1>12, <1>13, <1>14, <1>15, HandleGoes

LEMMA CopiedKeepsTables ==
    ASSUME NubTypes, TablesAreSound, NEW t \in Threads, Copied(t)
    PROVE  TablesAreSound'
<1> DEFINE c == call[t].client
           o == call[t].obj
           h == call[t].handle
           r == InUserSpace
           left == Dropped(obj[o])
           d == Deactivated(left)
<1>1. TableTypes /\ TableInv /\ FreedAreEmpty
  BY DEF TablesAreSound, TableInv
<1>2. call[t].op = "copying" /\ client' = client
      /\ fExporter' = [fExporter EXCEPT ![c] = removeObject(@, h)]
      /\ call' = [call EXCEPT ![t] = r]
  BY DEF Copied, Leaves, nubVars
<1>3. o \in Objects /\ c \in Clients /\ h \in AllHandles /\ Holds(c, h, o)
      /\ call[t].op \in Keeping /\ HasHandle(o)
  <2>1. o \in Objects /\ c \in Clients
    BY <1>1, <1>2 DEF TableInv, WorksWith
  <2>2. h \in AllHandles /\ Holds(c, h, o)
    BY <1>1, <1>2 DEF TableInv, HandleStays
  <2>3. QED
    BY <1>2, <2>1, <2>2 DEF Keeping, HasHandle
<1>4. ObjectOf(c, h) = o
  BY <1>3 DEF ObjectOf, Holds, lookupObject
<1>5. obj' = [obj EXCEPT ![o] = Dropped(d)]
  <2>1. obj' = [p \in Objects |->
               LET l == IF p = o THEN Dropped(obj[p]) ELSE obj[p]
               IN  IF p = ObjectOf(c, h) THEN Dropped(Deactivated(l)) ELSE l]
    BY DEF Copied
  <2>2. QED
    BY <1>1, <1>3, <1>4, <2>1 DEF TableTypes
<1>6. /\ r \in Calls /\ r.op = "none" /\ r.obj = NoObject /\ r.client = NoClient
      /\ r.op \notin Keeping
  BY ExporterAssumption DEF Calls, InUserSpace, Keeping, ExporterAssumption
<1>7. /\ obj[o] \in ObjectRecords /\ obj[o].refs \in Nat /\ obj[o].state = "made"
      /\ obj[o].refs >= 2 + (IF obj[o].active THEN 1 ELSE 0)
  BY <1>1, <1>3, ReferenceFacts
<1>8. \A p : Cardinality(Keepers(p)') =
                Cardinality(Keepers(p)) - (IF o = p THEN 1 ELSE 0)
  BY <1>1, <1>2, <1>3, <1>6, KeeperLess
<1>9. \A p \in Objects : HasHandle(p)' <=> HasHandle(p) /\ p # o
  BY <1>1, <1>2, <1>3, FewerHandles DEF TableInv
<1>0. unreleasable' = unreleasable /\ raced' = raced
  BY <1>3, <1>4, UserClientAssumption DEF Copied, UserClientAssumption
<1> HIDE DEF r, o, c, h
<1>10. /\ left \in ObjectRecords /\ left.refs = obj[o].refs - 1 /\ left.state = "made"
       /\ (left.active <=> obj[o].active) /\ left.refs > 0
       /\ left.kind = obj[o].kind
  BY <1>7, DroppedRecord
<1> HIDE DEF left
<1>11. /\ d \in ObjectRecords /\ d.refs > 0 /\ d.state = "made" /\ ~d.active
       /\ d.refs = left.refs - (IF left.active THEN 1 ELSE 0)
       /\ d.kind = left.kind
  BY <1>7, <1>10, DeactivatedRecord DEF ObjectRecords
<1> HIDE DEF d
<1>12. /\ Dropped(d) \in ObjectRecords /\ Dropped(d).refs = d.refs - 1
       /\ ~Dropped(d).active
       /\ Dropped(d).state = "made" <=> Dropped(d).refs > 0
       /\ Dropped(d).refs > 0 => Dropped(d).kind = d.kind
  BY <1>11, DroppedRecord
<1>13. /\ obj'[o] = Dropped(d) /\ \A p \in Objects \ {o} : obj'[p] = obj[p]
       /\ obj' \in [Objects -> ObjectRecords]
  BY <1>1, <1>3, <1>5, <1>12 DEF TableTypes
<1>14. Counted'
  <2> SUFFICES ASSUME NEW p \in Objects
               PROVE  /\ obj'[p].refs = (IF HasHandle(p)' THEN 1 ELSE 0)
                            + (IF obj'[p].active THEN 1 ELSE 0)
                            + Cardinality(Keepers(p)')
                      /\ obj'[p].state = "made" <=> obj'[p].refs > 0
    BY DEF Counted
  <2>1. Cardinality(Keepers(p)) \in Nat
    BY KeepersAreFinite
  <2>2. CASE p = o
    BY <1>1, <1>3, <1>7, <1>8, <1>9, <1>10, <1>11, <1>12, <1>13, <2>1, <2>2
       DEF TableInv, Counted
  <2>3. CASE p # o
    BY <1>1, <1>8, <1>9, <1>13, <2>1, <2>3 DEF TableInv, Counted
  <2>4. QED
    BY <2>2, <2>3
<1>15. ActiveIsHeld'
  <2> SUFFICES ASSUME NEW p \in Objects, obj'[p].active,
                      p \notin unreleasable'
               PROVE  \/ HasHandle(p)'
                      \/ \E s \in Threads : call'[s].obj = p
                                         /\ call'[s].op \in {"adding", "removing"}
    BY DEF ActiveIsHeld
  <2>1. p # o /\ obj[p].active
    BY <1>12, <1>13
  <2>2. QED
    BY <1>0, <1>1, <1>2, <1>9, <2>1 DEF TableInv, ActiveIsHeld, TableTypes, o
<1>16. r.op \notin {"adding", "copying"} \cup ByHandle /\ r.client \notin Clients
  BY <1>6, UserClientAssumption DEF ByHandle, UserClientAssumption
<1>17. \A p \in Objects : obj[p].state = "made" /\ obj'[p].state = "made"
                             => obj'[p].kind = obj[p].kind
  BY <1>10, <1>11, <1>12, <1>13
<1>18. client[c].state # "freed"
  BY <1>1, <1>3 DEF FreedAreEmpty, c
<1>19. \A s \in Threads \ {t} :
          ~(call[s].op \in ByHandle \cup {"copying"} /\ call[s].obj = o)
  BY <1>1, <1>2 DEF TableInv, CopiedByOne, o
<1>20. /\ call[t].op # "adding"
       /\ IF r.op \in {"none", "seizing"} THEN r.obj = NoObject
          ELSE r.obj = o /\ r.client \in Clients
       /\ r.client \in Clients => client[r.client].connected
  BY <1>2, <1>6, <1>16
<1>21. /\ fExporter' = [fExporter EXCEPT ![c] = removeObject(@, h)]
       /\ call' = [call EXCEPT ![t] = r] /\ client' = client
       /\ obj' \in [Objects -> ObjectRecords]
       /\ unreleasable' = unreleasable /\ raced' = raced
  BY <1>0, <1>2, <1>13
<1>22. o \in Objects /\ c \in Clients /\ h \in AllHandles /\ Holds(c, h, o)
       /\ r \in Calls
  BY <1>3, <1>6
<1> HIDE DEF TablesAreSound
<1>23. QED
  BY <1>14, <1>15, <1>16, <1>17, <1>18, <1>19, <1>20, <1>21, <1>22, HandleGoes

(* A client that goes takes its handles with it; what it had is freed when *)
(* no thread keeps it.                                                     *)
LEMMA freeClientKeepsTables ==
    ASSUME NubTypes, TablesAreSound, NEW c \in Clients, freeClient(c)
    PROVE  TablesAreSound'
<1> DEFINE E == Exported(fExporter[c])
<1>1. TableTypes /\ TableInv /\ FreedAreEmpty
  BY DEF TablesAreSound, TableInv
<1>2. /\ client' = [client EXCEPT ![c] = NotOpened("freed", FALSE)]
      /\ unreleasable' = unreleasable /\ raced' = raced
      /\ \A t \in Threads : call[t].client # c
      /\ fExporter' = [fExporter EXCEPT ![c] = EmptyExporter] /\ call' = call
      /\ obj' = [o \in Objects |-> IF o \in E THEN Dropped(Deactivated(obj[o]))
                                   ELSE obj[o]]
  BY DEF freeClient, Unreferenced, removeAllObjects
<1>3. /\ fExporter' \in [Clients -> Tables(Objects)]
      /\ \A d \in Clients, i \in AllHandles, p \in Objects :
            Holds(d, i, p) /\ d # c => Holds(d, i, p)'
      /\ \A p \in Objects : HasHandle(p)' <=> HasHandle(p) /\ p \notin E
      /\ \A p \in E : p \in Objects /\ HasHandle(p)
      /\ OneHandle'
  BY <1>1, <1>2, NoHandles DEF TableInv
<1> HIDE DEF E
<1>4. \A p \in E : /\ obj'[p] \in ObjectRecords /\ ~obj'[p].active
                   /\ obj'[p].refs = obj[p].refs - 1
                                       - (IF obj[p].active THEN 1 ELSE 0)
                   /\ obj'[p].state = "made" <=> obj'[p].refs > 0
                   /\ obj'[p].state = "made" => obj'[p].kind = obj[p].kind
  <2> SUFFICES ASSUME NEW p \in E
               PROVE  /\ obj'[p] \in ObjectRecords /\ ~obj'[p].active
                      /\ obj'[p].refs = obj[p].refs - 1
                                          - (IF obj[p].active THEN 1 ELSE 0)
                      /\ obj'[p].state = "made" <=> obj'[p].refs > 0
                      /\ obj'[p].state = "made" => obj'[p].kind = obj[p].kind
    OBVIOUS
  <2> DEFINE d == Deactivated(obj[p])
  <2>1. p \in Objects /\ HasHandle(p)
    BY <1>3
  <2>2. /\ obj[p] \in ObjectRecords /\ obj[p].refs \in Nat /\ obj[p].state = "made"
        /\ obj[p].refs >= 1 + (IF obj[p].active THEN 1 ELSE 0)
    BY <1>1, <2>1, ReferenceFacts
  <2>3. obj'[p] = Dropped(d)
    BY <1>2, <2>1
  <2>4. /\ d \in ObjectRecords /\ d.refs > 0 /\ d.state = "made" /\ ~d.active
        /\ d.refs = obj[p].refs - (IF obj[p].active THEN 1 ELSE 0)
        /\ d.kind = obj[p].kind
    BY <2>2, DeactivatedRecord
  <2> HIDE DEF d
  <2>5. /\ Dropped(d) \in ObjectRecords /\ Dropped(d).refs = d.refs - 1
        /\ ~Dropped(d).active
        /\ Dropped(d).state = "made" <=> Dropped(d).refs > 0
        /\ Dropped(d).refs > 0 => Dropped(d).kind = d.kind
    BY <2>4, DroppedRecord
  <2>6. QED
    BY <2>2, <2>3, <2>4, <2>5
<1>5. \A p \in Objects \ E : obj'[p] = obj[p]
  BY <1>2
<1>6. obj' \in [Objects -> ObjectRecords]
  <2>1. \A p \in Objects : obj'[p] \in ObjectRecords
    BY <1>1, <1>4, <1>5 DEF TableTypes
  <2>2. QED
    BY <1>2, <2>1
<1>7. TableTypes'
  BY <1>1, <1>2, <1>3, <1>6 DEF TableTypes, Tables, Calls
<1>8. \A p : Keepers(p)' = Keepers(p)
  BY <1>2 DEF Keepers
<1>9. Counted'
  <2> SUFFICES ASSUME NEW p \in Objects
               PROVE  /\ obj'[p].refs = (IF HasHandle(p)' THEN 1 ELSE 0)
                            + (IF obj'[p].active THEN 1 ELSE 0)
                            + Cardinality(Keepers(p)')
                      /\ obj'[p].state = "made" <=> obj'[p].refs > 0
    BY DEF Counted
  <2>1. Cardinality(Keepers(p)') = Cardinality(Keepers(p))
        /\ Cardinality(Keepers(p)) \in Nat
    BY <1>8, KeepersAreFinite
  <2>2. CASE p \in E
    BY <1>1, <1>3, <1>4, <2>1, <2>2 DEF TableInv, Counted
  <2>3. CASE p \notin E
    BY <1>1, <1>3, <1>5, <2>1, <2>3 DEF TableInv, Counted
  <2>4. QED
    BY <2>2, <2>3
<1>10. ActiveIsHeld'
  <2> SUFFICES ASSUME NEW p \in Objects, obj'[p].active,
                      p \notin unreleasable'
               PROVE  \/ HasHandle(p)'
                      \/ \E s \in Threads : call'[s].obj = p
                                         /\ call'[s].op \in {"adding", "removing"}
    BY DEF ActiveIsHeld
  <2>1. p \notin E
    BY <1>4
  <2>2. QED
    BY <1>1, <1>2, <1>3, <1>5, <2>1 DEF TableInv, ActiveIsHeld
<1>11. WorksWith'
  BY <1>1, <1>2 DEF TableInv, WorksWith
<1>12. AddedByOne'
  <2> SUFFICES ASSUME NEW s \in Threads, call[s].op = "adding"
               PROVE  /\ ~HasHandle(call[s].obj)'
                      /\ \A u \in Threads : call[u].obj = call[s].obj => u = s
    BY <1>2 DEF AddedByOne, HasHandle, Holds
  <2>1. call[s].obj \in Objects /\ ~HasHandle(call[s].obj)
    BY <1>1 DEF TableInv, AddedByOne, WorksWith
  <2>2. ~HasHandle(call[s].obj)'
    BY <1>2, <1>3, <2>1 DEF HasHandle, Holds
  <2>3. QED
    BY <1>1, <2>2 DEF TableInv, AddedByOne
<1>13. HandleStays'
  <2> SUFFICES ASSUME NEW s \in Threads, call[s].op \in ByHandle \cup {"copying"}
               PROVE  /\ call[s].handle \in AllHandles
                      /\ Holds(call[s].client, call[s].handle, call[s].obj)'
    BY <1>2 DEF HandleStays, Holds
  <2>1. /\ call[s].handle \in AllHandles /\ call[s].client \in Clients \ {c}
        /\ call[s].obj \in Objects
        /\ Holds(call[s].client, call[s].handle, call[s].obj)
    BY <1>1, <1>2 DEF TableInv, HandleStays, WorksWith, ByHandle
  <2>2. QED
    BY <1>2, <1>3, <2>1 DEF Holds
<1>14. CopiedByOne'
  <2>1. \A p \in Objects : obj[p].state = "made" /\ obj'[p].state = "made"
                              => obj'[p].kind = obj[p].kind
    BY <1>4, <1>5
  <2>2. \A p \in Objects : obj'[p].refs \in Nat
    BY <1>6 DEF ObjectRecords
  <2>3. QED
    BY <1>1, <1>2, <1>9, <1>11, <1>13, <2>1, <2>2, CopyingStays
<1>15. FreedAreEmpty'
  <2> SUFFICES ASSUME NEW e \in Clients, client'[e].state = "freed"
               PROVE  /\ ~client'[e].connected /\ fExporter'[e] = EmptyExporter
                      /\ \A s \in Threads : call[s].client # e
    BY <1>2 DEF FreedAreEmpty
  <2>1. CASE e = c
    BY <1>1, <1>2, <2>1 DEF NubTypes, NotOpened, TableTypes
  <2>2. CASE e # c
    BY <1>1, <1>2, <2>2 DEF NubTypes, FreedAreEmpty, TableTypes
  <2>3. QED
    BY <2>1, <2>2
<1>16. QED
  BY <1>3, <1>7, <1>9, <1>10, <1>11, <1>12, <1>13, <1>14, <1>15
     DEF TablesAreSound, TableInv

(* What only opens and closes connections leaves the tables alone.         *)
LEMMA OthersKeepTables ==
    ASSUME TablesAreSound, UNCHANGED <<tables, call>>, NoneEnds
    PROVE  TablesAreSound'
<1>1. /\ fExporter' = fExporter /\ obj' = obj /\ call' = call
      /\ unreleasable' = unreleasable /\ raced' = raced
  BY DEF tables
<1>2. TableTypes' /\ WorksWith' /\ CopiedByOne'
  BY <1>1 DEF TablesAreSound, TableInv, TableTypes, Tables, Calls, WorksWith, CopiedByOne
<1>3. OneHandle' /\ AddedByOne' /\ HandleStays' /\ ActiveIsHeld'
  BY <1>1 DEF TablesAreSound, TableInv, HasHandle, Holds, OneHandle, ActiveIsHeld,
              AddedByOne, HandleStays
<1>4. Counted'
  BY <1>1 DEF TablesAreSound, TableInv, HasHandle, Holds, Keepers, Counted
<1>5. FreedAreEmpty'
  BY <1>1 DEF TablesAreSound, FreedAreEmpty, NoneEnds
<1>6. QED
  BY <1>2, <1>3, <1>4, <1>5 DEF TablesAreSound, TableInv

-----------------------------------------------------------------------------
(* The invariant holds at first, is kept by each step, and says what is    *)
(* wanted.                                                                 *)

LEMMA InvInit ==
    ASSUME ClientInit PROVE ClientInv
<1>1. NubInv
  BY InitialNub
<1>2. TableTypes
  <2>1. EmptyExporter \in Tables(Objects)
    BY EmptyTable
  <2>2. InUserSpace \in Calls
    BY ExporterAssumption DEF InUserSpace, Calls, ExporterAssumption
  <2>3. [state |-> "unmade", kind |-> "data", refs |-> 0, active |-> FALSE]
           \in ObjectRecords
    BY DEF ObjectRecords, ObjectKinds
  <2>4. QED
    BY <2>1, <2>2, <2>3 DEF ClientInit, TableTypes
<1>3. \A o : ~HasHandle(o)
  <2>1. DOMAIN EmptyExporter = {}
    BY EmptyTable
  <2>2. QED
    BY <2>1 DEF ClientInit, HasHandle, Holds
<1>4. \A t \in Threads : call[t].op = "none" /\ call[t].obj = NoObject
                         /\ call[t].client = NoClient
  BY DEF ClientInit, InUserSpace
<1>5. \A o \in Objects : Cardinality(Keepers(o)) = 0
  <2>1. \A o \in Objects : Keepers(o) = {}
    BY <1>4 DEF Keepers, Keeping
  <2>2. QED
    BY <2>1, FS_EmptySet
<1>6. \A o \in Objects : obj[o].refs = 0 /\ ~obj[o].active /\ obj[o].state = "unmade"
  BY DEF ClientInit
<1>7. Counted /\ ActiveIsHeld
  BY <1>3, <1>5, <1>6 DEF Counted, ActiveIsHeld
<1>8. OneHandle
  BY <1>3 DEF OneHandle, HasHandle
<1>9. AddedByOne /\ HandleStays /\ CopiedByOne /\ WorksWith
  BY <1>4 DEF AddedByOne, HandleStays, CopiedByOne, WorksWith, ByHandle
<1>10. FreedAreEmpty
  <2>1. \A c \in Clients : client[c].state = "started"
    BY DEF ClientInit, NotOpened
  <2>2. QED
    BY <2>1 DEF FreedAreEmpty
<1>11. QED
  BY <1>1, <1>2, <1>7, <1>8, <1>9, <1>10 DEF ClientInv, TableInv

(* Opens and closes, and their steps.                                      *)
LEMMA OpeningKeepsInv ==
    ASSUME ClientInv, OtherOpens \/ OtherCloses
                      \/ \E c \in Clients : Opening(c) \/ Proceeds(c) \/ Stop(c)
    PROVE  ClientInv'
<1>1. NubInv /\ TablesAreSound /\ FreedAreEmpty
  BY DEF ClientInv, TablesAreSound
<1>2. client \in [Clients -> Connections]
  BY <1>1 DEF NubInv, NubTypes
<1>3. ConnectedLive
  BY <1>1 DEF FreedAreEmpty, ConnectedLive
<1>4. UNCHANGED <<tables, call>>
  BY DEF OtherOpens, OtherCloses, Opening, userOpen, userClose, clientClose,
         userOpenWithSessionRef, Proceeds, AddsSession, KnowsItIsOpen, SharesOpen,
         EndsSession, ClosesNub, ForgetsOpen, Stop
<1> SUFFICES NubInv' /\ NoneEnds
  BY <1>1, <1>4, OthersKeepTables DEF ClientInv, TablesAreSound
<1>5. CASE OtherOpens \/ OtherCloses
  BY <1>1, <1>5, OthersKeepNub
<1>6. ASSUME NEW c \in Clients, Opening(c) PROVE NubInv' /\ NoneEnds
  <2>1. CASE userOpen(c)
    BY <1>1, <1>3, <2>1, userOpenKeepsNub
  <2>2. CASE \E ref \in AllHandles : userOpenWithSessionRef(c, ref)
    BY <1>1, <1>3, <2>2, userOpenWithSessionRefKeepsNub
  <2>3. CASE userClose(c)
    <3>1. /\ client[c] \in Connections /\ Agree(client[c], client[c], {"connected"})
          /\ client[c].connected /\ client[c].step = "none"
          /\ Closes(c, client[c])
          /\ opener' = opener /\ sessions' = sessions /\ unclosable' = unclosable
      BY <1>2, <2>3 DEF userClose, Idle, Agree
    <3>2. PICK q \in Connections : q = client[c]
      BY <3>1
    <3>3. QED
      BY <1>1, <1>3, <3>1, <3>2, ClosesKeepsNub
  <2>4. CASE clientClose(c)
    <3> DEFINE q == [client[c] EXCEPT !.connected = FALSE]
    <3>1. /\ client[c].connected /\ client[c].step = "none" /\ Closes(c, q)
          /\ opener' = opener /\ sessions' = sessions /\ unclosable' = unclosable
      BY <2>4 DEF clientClose, Idle
    <3>2. /\ q \in Connections /\ ~q.connected
          /\ Agree(client[c], q, {"connected"})
      BY <1>2, ConnectedSet
    <3> HIDE DEF q
    <3>3. QED
      BY <1>1, <1>3, <3>1, <3>2, ClosesKeepsNub
  <2>5. QED
    BY <1>6, <2>1, <2>2, <2>3, <2>4 DEF Opening
<1>7. ASSUME NEW c \in Clients, Proceeds(c) PROVE NubInv' /\ NoneEnds
  BY <1>1, <1>7, AddsSessionKeepsNub, KnowsItIsOpenKeepsNub, SharesOpenKeepsNub,
     EndsSessionKeepsNub, ClosesNubKeepsNub, ForgetsOpenKeepsNub DEF Proceeds
<1>8. ASSUME NEW c \in Clients, Stop(c) PROVE NubInv' /\ NoneEnds
  BY <1>1, <1>8, StopKeepsNub
<1>9. QED
  BY <1>5, <1>6, <1>7, <1>8

LEMMA EndsKeepInv ==
    ASSUME ClientInv, NEW c \in Clients, freeClient(c)
    PROVE  ClientInv'
<1>1. NubInv /\ TablesAreSound /\ NubTypes
  BY DEF ClientInv, TablesAreSound, NubInv
<1>2. QED
  BY <1>1, freeClientKeepsNub, freeClientKeepsTables DEF ClientInv, TablesAreSound

(* A thread that seizes the nub, or comes back from it, has no object.     *)
LEMMA SeizingKeepsTables ==
    ASSUME TablesAreSound, NEW t \in Threads, NEW r \in Calls,
           call[t].op \in {"none", "seizing"},
           r.op \in {"none", "seizing"}, r.obj = NoObject,
           r.client \in Clients => client[r.client].connected,
           call' = [call EXCEPT ![t] = r], UNCHANGED tables, NoneEnds
    PROVE  TablesAreSound'
<1>1. TableTypes /\ TableInv
  BY DEF TablesAreSound, TableInv
<1>2. /\ fExporter' = fExporter /\ obj' = obj
      /\ unreleasable' = unreleasable /\ raced' = raced
  BY DEF tables
<1>3. call[t].op \notin Keeping /\ r.op \notin Keeping
      /\ r.op \notin {"adding", "copying"} \cup ByHandle
      /\ call[t].op \notin {"adding", "removing"}
  BY DEF Keeping, ByHandle
<1>4. \A p : Keepers(p)' = Keepers(p)
  BY <1>1, <1>3, KeepersSame
<1>5. \A p : HasHandle(p)' <=> HasHandle(p)
  BY <1>2, SameHandles
<1>6. Counted'
  BY <1>1, <1>2, <1>4, <1>5 DEF TableInv, Counted
<1>7. ActiveIsHeld'
  BY <1>1, <1>2, <1>3, <1>5 DEF TableInv, ActiveIsHeld, TableTypes
<1>8. obj' \in [Objects -> ObjectRecords]
  BY <1>1, <1>2 DEF TableTypes
<1>9. \A c \in Clients : /\ client'[c].state = "freed" => client[c].state = "freed"
                         /\ client'[c].connected => client[c].connected
  BY DEF NoneEnds
<1>10. QED
  BY <1>2, <1>3, <1>6, <1>7, <1>8, <1>9, ThreadGoesOn

LEMMA CallingKeepsInv ==
    ASSUME ClientInv, "callDuringRelease" \notin ClientRaces, NEW t \in Threads, NEW c \in Clients,
           Calling(t, c)
    PROVE  ClientInv'
<1>1. NubInv /\ TablesAreSound /\ NubTypes /\ TableTypes
  BY DEF ClientInv, TablesAreSound, NubInv, TableInv
<1>2. CASE seize(t, c)
  <2> DEFINE r == [op |-> "seizing", client |-> c, obj |-> NoObject, handle |-> 0]
  <2>1. /\ call[t] = InUserSpace /\ client[c].connected
        /\ TerminateAll({opener} \ {c}) /\ call' = [call EXCEPT ![t] = r]
        /\ opener' = opener /\ sessions' = sessions /\ unclosable' = unclosable
        /\ UNCHANGED tables
    BY <1>2 DEF seize, MayCall, Enters
  <2>2. r \in Calls /\ r.op = "seizing" /\ r.obj = NoObject /\ r.client = c
    BY ExporterAssumption DEF Calls, ExporterAssumption
  <2> HIDE DEF r
  <2>3. NubInv' /\ NoneEnds
    BY <1>1, <2>1, TerminationKeepsNub
  <2>4. call[t].op = "none"
    BY <2>1 DEF InUserSpace
  <2>5. TablesAreSound'
    BY <1>1, <2>1, <2>2, <2>3, <2>4, SeizingKeepsTables
  <2>6. QED
    BY <2>3, <2>5 DEF ClientInv, TablesAreSound
<1>3. CASE \E o \in Objects : Create(t, c, o)
  <2>1. UNCHANGED nubVars
    BY <1>3 DEF Create
  <2>2. QED
    BY <1>1, <1>3, <2>1, SameNub, CreateKeepsTables DEF ClientInv, TablesAreSound
<1>4. ASSUME NEW h \in AllHandles, CallMethod(t, c, h) PROVE ClientInv'
  <2>1. /\ MayCall(t, c) /\ ObjectOf(c, h) # NoObject
        /\ obj' = [obj EXCEPT ![ObjectOf(c, h)] = Retain(ObjectOf(c, h), 1)]
        /\ Enters(t, "calling", c, ObjectOf(c, h), h)
        /\ UNCHANGED nubVars /\ fExporter' = fExporter /\ client' = client
        /\ unreleasable' = unreleasable /\ raced' = raced
    BY <1>4 DEF CallMethod, IsTarget, KeepsObject, nubVars
  <2>2. QED
    BY <1>1, <2>1, SameNub, KeepsObjectKeepsTables DEF ClientInv, TablesAreSound
<1>5. ASSUME NEW h \in AllHandles, externalMethod(t, c, h) PROVE ClientInv'
  <2>1. UNCHANGED nubVars
    BY <1>5 DEF externalMethod
  <2>2. QED
    BY <1>1, <1>5, <2>1, SameNub, externalMethodKeepsTables
       DEF ClientInv, TablesAreSound
<1>6. ASSUME NEW h \in AllHandles, releaseUserObject(t, c, h) PROVE ClientInv'
  <2>1. UNCHANGED nubVars
    BY <1>6 DEF releaseUserObject
  <2>2. QED
    BY <1>1, <1>6, <2>1, SameNub, releaseUserObjectKeepsTables
       DEF ClientInv, TablesAreSound
<1>7. ASSUME NEW h \in AllHandles, getOSStringData(t, c, h) PROVE ClientInv'
  <2>1. /\ MayCall(t, c) /\ ObjectOf(c, h) # NoObject
        /\ obj[ObjectOf(c, h)].kind = "data"
        /\ obj' = [obj EXCEPT ![ObjectOf(c, h)] = Retain(ObjectOf(c, h), 1)]
        /\ Enters(t, "copying", c, ObjectOf(c, h), h)
        /\ UNCHANGED nubVars /\ fExporter' = fExporter /\ client' = client
        /\ unreleasable' = unreleasable /\ raced' = raced
        /\ ~InUse(ObjectOf(c, h))
    BY <1>7 DEF getOSStringData, nubVars, TakesHandle
  <2>2. \A s \in Threads : ~(call[s].obj = ObjectOf(c, h) /\ call[s].op = "copying")
    BY <2>1 DEF InUse
  <2>3. QED
    BY <1>1, <2>1, <2>2, SameNub, KeepsObjectKeepsTables DEF ClientInv, TablesAreSound
<1>8. QED
  BY <1>2, <1>3, <1>4, <1>5, <1>6, <1>7 DEF Calling

LEMMA GoesKeepsInv ==
    ASSUME ClientInv, NEW t \in Threads, Goes(t)
    PROVE  ClientInv'
<1>1. NubInv /\ TablesAreSound /\ NubTypes /\ TableTypes
  BY DEF ClientInv, TablesAreSound, NubInv, TableInv
<1>2. CASE SeizedFromAll(t)
  <2> DEFINE cs == IF opener = NoClient THEN {} ELSE Clients \ {call[t].client}
  <2>1. /\ call[t].op = "seizing" /\ TerminateAll(cs)
        /\ call' = [call EXCEPT ![t] = InUserSpace]
        /\ opener' = opener /\ sessions' = sessions /\ unclosable' = unclosable
        /\ UNCHANGED tables
    BY <1>2 DEF SeizedFromAll, Leaves
  <2> HIDE DEF cs
  <2>2. /\ InUserSpace \in Calls /\ InUserSpace.op = "none"
        /\ InUserSpace.obj = NoObject /\ InUserSpace.client \notin Clients
    BY ExporterAssumption, UserClientAssumption
       DEF Calls, InUserSpace, ExporterAssumption, UserClientAssumption
  <2>3. NubInv' /\ NoneEnds
    BY <1>1, <2>1, TerminationKeepsNub
  <2>4. TablesAreSound'
    BY <1>1, <2>1, <2>2, <2>3, SeizingKeepsTables
  <2>5. QED
    BY <2>3, <2>4 DEF ClientInv, TablesAreSound
<1>3. CASE Export(t) \/ Return(t) \/ Copied(t) \/ CleanedUp(t)
  <2>1. NubInv'
    <3>1. UNCHANGED nubVars
      BY <1>3 DEF Export, Return, Copied, CleanedUp
    <3>2. QED
      BY <1>1, <3>1, SameNub
  <2>2. TablesAreSound'
    BY <1>1, <1>3, ExportKeepsTables, ReturnKeepsTables, CopiedKeepsTables,
       CleanedUpKeepsTables
  <2>3. QED
    BY <2>1, <2>2 DEF ClientInv, TablesAreSound
<1>4. QED
  BY <1>2, <1>3 DEF Goes

LEMMA InvStep ==
    ASSUME ClientInv, "callDuringRelease" \notin ClientRaces, [ClientNext]_clientVars
    PROVE  ClientInv'
<1>1. CASE ClientNext
  BY <1>1, OpeningKeepsInv, EndsKeepInv, CallingKeepsInv, GoesKeepsInv DEF ClientNext
<1>2. CASE UNCHANGED clientVars
  <2>1. UNCHANGED nubVars /\ UNCHANGED <<tables, call>>
    BY <1>2 DEF clientVars
  <2>2. NubInv' /\ TablesAreSound'
    BY <2>1, SameNub, OthersKeepTables DEF ClientInv, TablesAreSound
  <2>3. QED
    BY <2>2 DEF ClientInv, TablesAreSound
<1>3. QED
  BY <1>1, <1>2

(* What has a handle is in the table of one client, once.                  *)
LEMMA OwnersAndHandles ==
    ASSUME TableInv, NEW o \in Objects
    PROVE  /\ HasHandle(o) <=> OwnerOf(o) # {}
           /\ \A c \in OwnerOf(o) :
                 /\ OwnerOf(o) = {c}
                 /\ Cardinality(Handles(fExporter[c], o)) = 1
<1>1. o # NoObject
  BY UserClientAssumption DEF UserClientAssumption
<1>2. \A c \in Clients : DOMAIN fExporter[c] \subseteq AllHandles
  <2> SUFFICES ASSUME NEW c \in Clients PROVE DOMAIN fExporter[c] \subseteq AllHandles
    OBVIOUS
  <2>1. fExporter[c] \in Tables(Objects)
    BY DEF TableInv, TableTypes
  <2>2. /\ Len(fExporter[c]) \in 0..MaxCapacity
        /\ DOMAIN fExporter[c] = 1..Len(fExporter[c])
    BY <2>1, TableIsSequence
  <2>3. QED
    BY <2>2, ExporterAssumption DEF AllHandles, ExporterAssumption
<1>3. \A c \in Clients :
         o \in Exported(fExporter[c]) <=> \E i \in AllHandles : Holds(c, i, o)
  BY <1>1, <1>2 DEF Exported, Holds
<1>4. OwnerOf(o) = {c \in Clients : \E i \in AllHandles : Holds(c, i, o)}
  BY <1>3 DEF OwnerOf
<1>5. HasHandle(o) <=> OwnerOf(o) # {}
  BY <1>4 DEF HasHandle
<1>6. ASSUME NEW c \in OwnerOf(o)
      PROVE  OwnerOf(o) = {c} /\ Cardinality(Handles(fExporter[c], o)) = 1
  <2>1. c \in Clients
    BY <1>4
  <2>2. PICK i \in AllHandles : Holds(c, i, o)
    BY <1>4
  <2>3. OwnerOf(o) = {c}
    BY <1>4, <2>1, <2>2 DEF TableInv, OneHandle
  <2>4. Handles(fExporter[c], o) = {i}
    BY <1>2, <2>1, <2>2 DEF TableInv, OneHandle, Handles, Holds
  <2>5. QED
    BY <2>3, <2>4, FS_Singleton
<1>7. QED
  BY <1>5, <1>6

LEMMA InvMeans ==
    ASSUME ClientInv PROVE OwnersAreKnown
<1>1. TableInv /\ NubInv /\ FreedAreEmpty
  BY DEF ClientInv
<1> USE UserClientAssumption DEF UserClientAssumption
<1>2. ClientTypeOK
  <2>1. \A o \in Objects : obj[o].refs <= Cardinality(Threads) + 2
    <3> SUFFICES ASSUME NEW o \in Objects
                 PROVE  obj[o].refs <= Cardinality(Threads) + 2
      OBVIOUS
    <3>1. Cardinality(Keepers(o)) \in Nat /\ Cardinality(Threads) \in Nat
          /\ Cardinality(Keepers(o)) <= Cardinality(Threads)
      BY KeepersAreFinite, FS_CardinalityType
    <3>2. PICK h \in {0, 1}, a \in {0, 1} :
             obj[o].refs = h + a + Cardinality(Keepers(o))
      BY <1>1 DEF TableInv, Counted
    <3>3. h <= 1 /\ a <= 1 /\ h \in Nat /\ a \in Nat
      OBVIOUS
    <3>4. PICK k \in Nat, m \in Nat :
             k = Cardinality(Keepers(o)) /\ m = Cardinality(Threads)
      BY <3>1
    <3>5. k <= m /\ obj[o].refs = h + a + k
      BY <3>1, <3>2, <3>4
    <3>6. QED
      BY <3>3, <3>4, <3>5
  <2>2. \A o \in Objects : obj[o].refs \in 0..(Cardinality(Threads) + 2)
    <3>1. \A o \in Objects : obj[o].refs \in Nat
      BY <1>1 DEF TableInv, TableTypes, ObjectRecords
    <3>2. PICK m \in Nat : m = Cardinality(Threads)
      BY FS_CardinalityType
    <3>3. \A o \in Objects : obj[o].refs <= m + 2
      BY <2>1, <3>2
    <3>4. \A o \in Objects : obj[o].refs \in 0..(m + 2)
      BY <3>1, <3>3
    <3>5. QED
      BY <3>2, <3>4
  <2>3. obj \in [Objects -> [state : {"unmade", "made", "freed"}, kind : ObjectKinds,
                             refs : 0..(Cardinality(Threads) + 2), active : BOOLEAN]]
    BY <1>1, <2>2 DEF TableInv, TableTypes, ObjectRecords
  <2>4. client \in [Clients -> Connections]
    BY <1>1 DEF NubInv, NubTypes
  <2>5. /\ opener \in Clients \cup {NoClient} /\ unclosable \subseteq Clients
        /\ sessions \in UNION {[1..n -> Clients \cup {NoObject, OtherNub}] :
                                n \in 0..MaxCapacity}
    <3>1. \A n \in 0..MaxCapacity :
             [1..n -> (Clients \cup {OtherNub}) \cup {NoObject}]
                = [1..n -> Clients \cup {NoObject, OtherNub}]
      <4>1. (Clients \cup {OtherNub}) \cup {NoObject} = Clients \cup {NoObject, OtherNub}
        OBVIOUS
      <4>2. QED
        BY <4>1
    <3>2. QED
      BY <1>1, <3>1 DEF NubInv, NubTypes, Tables
  <2>6. /\ unreleasable \subseteq Objects /\ raced \subseteq Objects
        /\ \A c \in Clients : fExporter[c] \in
              UNION {[1..n -> Objects \cup {NoObject}] : n \in 0..MaxCapacity}
    BY <1>1 DEF TableInv, TableTypes, Tables
  <2>7. QED
    BY <2>3, <2>4, <2>5, <2>6 DEF ClientTypeOK, Connections, Steps
<1>3. ObjectsInUseLive
  <2> SUFFICES ASSUME NEW o \in Objects,
                      OwnerOf(o) # {} \/ obj[o].active \/ \E t \in Threads : Uses(t, o)
               PROVE  obj[o].state = "made"
    BY DEF ObjectsInUseLive
  <2>1. QED
    BY <1>1, OwnersAndHandles, ReferenceFacts DEF Uses
<1>4. NothingIsLeft
  <2> SUFFICES ASSUME NEW o \in Objects, obj[o].state = "made",
                      ~ \E t \in Threads : Uses(t, o)
               PROVE  \/ \E c \in OwnerOf(o) :
                            /\ client[c].state # "freed" /\ OwnerOf(o) = {c}
                            /\ Cardinality(Handles(fExporter[c], o)) = 1
                      \/ o \in unreleasable /\ OwnerOf(o) = {} /\ obj[o].refs = 1
    BY DEF NothingIsLeft
  <2>1. Keepers(o) = {}
    BY DEF Keepers, Uses
  <2>2. Cardinality(Keepers(o)) = 0
    BY <2>1, FS_EmptySet
  <2>3. HasHandle(o) \/ obj[o].active
    <3>1. SUFFICES ASSUME ~HasHandle(o), ~obj[o].active PROVE FALSE
      OBVIOUS
    <3>2. /\ obj[o].refs = 0 + 0 + Cardinality(Keepers(o))
          /\ obj[o].refs > 0
      BY <1>1, <3>1 DEF TableInv, Counted
    <3>3. QED
      BY <2>2, <3>2
  <2>4. CASE HasHandle(o)
    <3>1. PICK c \in OwnerOf(o) : TRUE
      BY <1>1, <2>4, OwnersAndHandles
    <3>2. OwnerOf(o) = {c} /\ Cardinality(Handles(fExporter[c], o)) = 1
      BY <1>1, OwnersAndHandles
    <3>3. client[c].state # "freed"
      <4>1. c \in Clients /\ o \in Exported(fExporter[c])
        BY DEF OwnerOf
      <4>2. DOMAIN EmptyExporter = {}
        BY EmptyTable
      <4>3. fExporter[c] # EmptyExporter
        BY <4>1, <4>2 DEF Exported
      <4>4. QED
        BY <1>1, <4>1, <4>3 DEF FreedAreEmpty
    <3>4. QED
      BY <3>2, <3>3
  <2>5. CASE ~HasHandle(o)
    <3>1. o \in unreleasable
      BY <1>1, <2>3, <2>5 DEF TableInv, ActiveIsHeld, Uses
    <3>2. obj[o].refs = 1
      BY <1>1, <2>2, <2>3, <2>5 DEF TableInv, Counted
    <3>3. OwnerOf(o) = {}
      BY <1>1, <2>5, OwnersAndHandles
    <3>4. QED
      BY <3>1, <3>2, <3>3
  <2>6. QED
    BY <2>4, <2>5
<1>5. NubIsOwned
  <2>1. NubIsReleased
    BY <1>1 DEF NubInv, Phase, Has, NubIsReleased, Idle
  <2>2. \A c \in Clients : Idle(c) /\ opener = c /\ c \notin unclosable =>
           /\ client[c].fOpenClient = c /\ client[c].fSelfOpenCount = 1
           /\ Handles(sessions, c) = {client[c].fSessionRef}
    <3> SUFFICES ASSUME NEW c \in Clients, Idle(c), opener = c, c \notin unclosable
                 PROVE  /\ client[c].fOpenClient = c /\ client[c].fSelfOpenCount = 1
                        /\ Handles(sessions, c) = {client[c].fSessionRef}
      OBVIOUS
    <3>1. /\ client[c].fOpenClient = c /\ client[c].fSelfOpenCount = 1 /\ Listed(c)
      BY <1>1 DEF NubInv, Phase, Has, Idle
    <3>2. QED
      BY <3>1 DEF Listed, Handles
  <2>3. Exported(sessions) \subseteq {opener, OtherNub}
    <3> SUFFICES ASSUME NEW i \in DOMAIN sessions, sessions[i] # NoObject
                 PROVE  sessions[i] \in {opener, OtherNub}
      BY DEF Exported
    <3>1. sessions \in Tables(Clients \cup {OtherNub})
      BY <1>1 DEF NubInv, NubTypes
    <3>2. sessions[i] \in Clients \cup {OtherNub}
      BY <3>1, TableIsSequence
    <3>3. \A c \in Clients : sessions[i] = c => c = opener
      BY <1>1 DEF NubInv, Phase, Without, Unlisted
    <3>4. QED
      BY <3>2, <3>3
  <2>4. QED
    BY <2>1, <2>2, <2>3 DEF NubIsOwned
<1>6. QED
  BY <1>2, <1>3, <1>4, <1>5 DEF OwnersAreKnown, UserObjectsKept

(* Whatever clients open, share, seize and close, also after they were     *)
(* stopped and when the session table is full, and however the threads of  *)
(* their programs make, call, copy out and release objects: no object is   *)
(* freed while something reaches it; none is left that nobody can release, *)
(* but physical spaces that found the table of handles full; and when no   *)
(* open or close is under way, a client that has the nub open is named by  *)
(* its fields and by the session table, so that its close closes the nub,  *)
(* but for those that found the session table full or opened the nub when  *)
(* they were stopped (IOFireWireUserClient.cpp,                            *)
(* IOFWUserObjectExporter.cpp).                                            *)
THEOREM OwnersKnown ==
    "callDuringRelease" \notin ClientRaces => (ClientSpec => []OwnersAreKnown)
<1> SUFFICES ASSUME "callDuringRelease" \notin ClientRaces
             PROVE  ClientSpec => []OwnersAreKnown
  OBVIOUS
<1>1. ClientInit => ClientInv
  BY InvInit
<1>2. ClientInv /\ [ClientNext]_clientVars => ClientInv'
  BY InvStep
<1>3. ClientInv => OwnersAreKnown
  BY InvMeans
<1>4. QED
  BY <1>1, <1>2, <1>3, PTL DEF ClientSpec

-----------------------------------------------------------------------------
(* The scan of the bus: its inductive invariant, on the record that the    *)
(* handlers work on.                                                       *)

CtlFields == {"state", "reset", "finished", "fDelegateCycleMaster", "fBadIRMsKnown",
              "mustBeRoot", "fNodeMustNotBeRootFlag", "fForcedGapFlag", "fPreviousGap",
              "fDelayedPhyPacket", "fBusMgr", "fNumROMReads", "dups"}
BusFields == {"nodes", "rhb", "contender", "gap", "configured"}
ReadFields == {"state", "fRead", "fRetriesBumped", "speed", "speedChecking",
               "fContenderNeedsChecking", "fIRMCheckingRead", "fIRMCheckingLock",
               "fIRMisBad", "fMustNotBeRoot"}
ScanStates == {"none", "reading", "dummy", "done", "freed"}
BeforeScan == {"kStarting", "kWaitingScan", "badSelfIDs"}
AfterScan == {"kWaitingPrune", "kRunning"}
OnTheBus == Peers \cap Range(ids)

(* A node's record has what the state of its reading calls for.            *)
ScanFits(r) ==
    /\ "state" \in DOMAIN r /\ r.state \in ScanStates
    /\ r.state \in {"reading", "done"} => DOMAIN r = ReadFields
    /\ r.state = "reading" => r.fRead \in {0, 8, 12, 16}
    /\ r.state = "freed" => "speed" \in DOMAIN r

Fits(s) ==
    /\ DOMAIN s = {"bus", "ctl", "scan", "nubs"}
    /\ DOMAIN s.bus = BusFields /\ DOMAIN s.ctl = CtlFields
    /\ DOMAIN s.scan = Peers /\ \A p \in Peers : ScanFits(s.scan[p])
    /\ DOMAIN s.nubs = GUIDs
    /\ \A g \in GUIDs : /\ DOMAIN s.nubs[g] = {"node", "flags"}
                        /\ s.nubs[g].node \in Peers \cup {NoNode}
    /\ s.bus.nodes = Range(ids) /\ s.bus.rhb \in Range(ids) \cup {NoNode}
    /\ s.ctl.reset \in {"none", "scheduled", "issued"}
    /\ s.ctl.mustBeRoot \in Peers \cup {NoNode}
    /\ s.ctl.fBadIRMsKnown \in BOOLEAN /\ s.ctl.fBusMgr \in BOOLEAN
    /\ s.ctl.fNumROMReads \in 0..Cardinality(Peers)
    /\ s.ctl.finished \in {0, 1}
    /\ s.ctl.state \in BeforeScan \cup AfterScan \cup {"kWaitingBusReset", "kScanning"}

Reading(s) == {p \in Peers : s.scan[p].state = "reading"}

(* Reads are counted as long as there are any, whatever else happens; none *)
(* is left over by a scan that has ended.                                  *)
Counts(s) ==
    /\ Reading(s) # {} => /\ s.ctl.finished = 0
                          /\ s.ctl.fNumROMReads = Cardinality(Reading(s))
    /\ s.ctl.state \in BeforeScan => /\ s.ctl.finished = 0
                                     /\ \A p \in Peers : s.scan[p].state = "none"
    /\ s.ctl.state \in AfterScan => Reading(s) = {}
    /\ \A p \in Peers : s.scan[p].state # "none" => p \in Range(ids)
    /\ s.ctl.state = "kScanning" /\ s.ctl.finished = 0 =>
          \A p \in OnTheBus : s.scan[p].state \in {"reading", "done", "dummy"}

(* The resource manager of the bus is read, and if it is a bad one then    *)
(* this is known when its reading is over.                                 *)
ManagerIsRead(s) ==
    IRMNode \in Peers /\ s.ctl.finished = 0 =>
        LET r == s.scan[IRMNode]
            known == r.fIRMisBad /\ s.ctl.fBadIRMsKnown
        IN  /\ r.state = "reading" =>
                  /\ r.fRead # 0 => make[IRMNode].rom = "full"
                  /\ BadIRM(make[IRMNode]) => r.fContenderNeedsChecking \/ known
            /\ /\ r.state = "done" /\ r.speed > 0
                  /\ make[IRMNode].rom = "full" /\ BadIRM(make[IRMNode])
               => known
            /\ r.state = "dummy" => s.ctl.fBadIRMsKnown

SameGaps == \A m, n \in Range(ids) : selfIDs.gap[m] = selfIDs.gap[n]

(* What the decisions at the end of a scan are made from is what the scan  *)
(* has found.                                                              *)
FoundOut(s) ==
    /\ s.ctl.fBusMgr => \E p \in OnTheBus :
                           /\ s.scan[p].state \in {"done", "freed"}
                           /\ make[p].rom # "full" \/ make[p].busMgr
    /\ s.ctl.state # "kWaitingBusReset" /\ SameGaps =>
          \A n \in Range(ids) : s.bus.gap[n] = selfIDs.gap[n]
    /\ s.ctl.reset = "none" =>
          \A g \in GUIDs \cap s.ctl.dups : s.nubs[g].node = NoNode

Twins(s, p, q) ==
    /\ p # q /\ make[p].guid = make[q].guid /\ make[p].guid # 0
    /\ \A n \in {p, q} : s.scan[n].state = "freed" /\ make[n].rom = "full"

(* What they were when the bus settled.                                    *)
Decided(s) ==
    s.ctl.state \in AfterScan =>
        /\ s.ctl.finished = 1
        /\ \A p \in Peers : s.scan[p].state # "done"
        /\ s.ctl.reset = "none" /\ ~s.ctl.fBusMgr /\ IRMNode = Local /\ ~OnlyNode =>
              RootNode = Local /\ SameGaps
        /\ IRMNode \in Peers =>
              /\ s.scan[IRMNode].state = "freed"
              /\ make[IRMNode].rom = "full" /\ s.scan[IRMNode].speed > 0 =>
                    ~BadIRM(make[IRMNode])
        /\ \A p, q \in Peers : Twins(s, p, q) => make[p].guid \in s.ctl.dups

ScanSound(s) == Fits(s) /\ Counts(s) /\ ManagerIsRead(s) /\ FoundOut(s) /\ Decided(s)

(* A scan has ended when nothing is left to read.                          *)
ScanOver(s) == s.ctl.state = "kScanning" /\ Reading(s) = {} =>
                   s.ctl.finished = 1 /\ s.ctl.fNumROMReads = 0

(* The nodes of the bus, each with one ID, this one among them.            *)
BusSound ==
    /\ make \in [Peers -> UNION Range(Makes)]
    /\ ids \in Seq(Nodes) /\ Len(ids) > 0
    /\ \A i, j \in DOMAIN ids : ids[i] = ids[j] => i = j
    /\ Local \in Range(ids)

ScanInv == BusSound /\ ScanSound(Now) /\ ScanOver(Now)

-----------------------------------------------------------------------------
(* The nodes of the bus.                                                   *)

LEMMA NodesOfTheBus ==
    ASSUME BusSound
    PROVE  /\ Len(ids) \in Nat \ {0} /\ DOMAIN ids = 1..Len(ids)
           /\ \A i \in 1..Len(ids) : ids[i] \in Range(ids)
           /\ \A n \in Range(ids) : \E i \in 1..Len(ids) : n = ids[i]
           /\ RootNode \in Range(ids) /\ Range(ids) \subseteq Nodes
           /\ NoNode \notin Nodes
  BY BusScanAssumption DEF BusSound, Range, RootNode, BusScanAssumption, Nodes

LEMMA LastThere ==
    ASSUME NEW n \in Nat, NEW T \in SUBSET (1..n), T # {}
    PROVE  Max(T) \in T
<1> DEFINE U == {n - i : i \in T}
<1>1. U \subseteq Nat /\ U # {}
  <2>1. \A i \in 1..n : n - i \in Nat
    OBVIOUS
  <2> QED BY <2>1
<1> HIDE DEF U
<1>2. PICK x \in U : \A y \in U : x <= y
  BY <1>1, HasFirst
<1> USE DEF U
<1>3. PICK m \in T : x = n - m
  BY <1>2
<1>4. \A i \in T : m >= i
  <2> TAKE i \in T
  <2>1. n - m <= n - i
    BY <1>2, <1>3
  <2> QED BY <2>1
<1> QED BY <1>4 DEF Max

LEMMA LastIsThere ==
    ASSUME BusSound, NEW S \in SUBSET Range(ids), S # {}
    PROVE  LastOf(S) \in S
<1> DEFINE T == {i \in DOMAIN ids : ids[i] \in S}
<1>1. T \subseteq 1..Len(ids) /\ T # {} /\ Len(ids) \in Nat
  BY NodesOfTheBus
<1>2. Max(T) \in T
  BY <1>1, LastThere
<1>3. LastOf(S) = ids[Max(T)]
  BY DEF LastOf
<1> QED BY <1>2, <1>3

LEMMA ManagerIsThere ==
    ASSUME BusSound
    PROVE  IRMNode \in Range(ids) \cup {NoNode}
<1>1. CASE Contenders = {}
  BY <1>1 DEF IRMNode, LastOf
<1>2. CASE Contenders # {}
  BY <1>2, LastIsThere DEF IRMNode, Contenders
<1> QED BY <1>1, <1>2

(* A PHY configuration packet leaves a root, and, with a gap of 0, the gap *)
(* counts.                                                                 *)
LEMMA PacketSent ==
    ASSUME BusSound, NEW s, Fits(s), NEW packet, NEW R, R = sendPHYPacket(s, packet)
    PROVE  /\ DOMAIN R = DOMAIN s /\ DOMAIN R.bus = BusFields
           /\ R.ctl = s.ctl /\ R.scan = s.scan /\ R.nubs = s.nubs
           /\ R.bus.nodes = s.bus.nodes /\ R.bus.rhb \in Range(ids) \cup {NoNode}
           /\ packet.gap = 0 => R.bus.gap = s.bus.gap
<1> DEFINE r == IF packet.root = 0 THEN s.bus.rhb
                ELSE IF packet.root \in DOMAIN ids THEN ids[packet.root] ELSE NoNode
           rooted == [s EXCEPT !.bus.rhb = r]
<1>1. r \in Range(ids) \cup {NoNode}
  BY NodesOfTheBus DEF Fits
<1>2. /\ DOMAIN rooted = DOMAIN s /\ DOMAIN rooted.bus = BusFields
      /\ rooted.ctl = s.ctl /\ rooted.scan = s.scan /\ rooted.nubs = s.nubs
      /\ rooted.bus.nodes = s.bus.nodes /\ rooted.bus.rhb = r
      /\ rooted.bus.gap = s.bus.gap
  BY DEF Fits, BusFields
<1>3. R = IF packet.gap = 0 THEN rooted
          ELSE [rooted EXCEPT !.bus.gap = [n \in Nodes |-> packet.gap],
                              !.bus.configured = TRUE]
  BY DEF sendPHYPacket
<1>4. DOMAIN rooted = {"bus", "ctl", "scan", "nubs"}
  BY <1>2 DEF Fits
<1> HIDE DEF rooted, r
<1>5. CASE packet.gap = 0
  BY <1>5, <1>1, <1>2, <1>3
<1>6. CASE packet.gap # 0
  <2> DEFINE counts == [n \in Nodes |-> packet.gap]
             set == [rooted EXCEPT !.bus.gap = counts]
  <2>1. R = [set EXCEPT !.bus.configured = TRUE]
    BY <1>3, <1>6
  <2> HIDE DEF counts
  <2>2. /\ DOMAIN set = DOMAIN s /\ DOMAIN set.bus = BusFields
        /\ set.ctl = s.ctl /\ set.scan = s.scan /\ set.nubs = s.nubs
        /\ set.bus.nodes = s.bus.nodes /\ set.bus.rhb = r
    BY <1>2, <1>4 DEF BusFields
  <2> HIDE DEF set
  <2> QED BY <1>1, <1>4, <1>2, <1>6, <2>1, <2>2 DEF BusFields
<1> QED BY <1>5, <1>6

LEMMA RootForced ==
    ASSUME BusSound, NEW s, Fits(s), NEW n, NEW R, R = ForceRoot(s, n)
    PROVE  /\ DOMAIN R = DOMAIN s /\ DOMAIN R.bus = BusFields
           /\ R.ctl = s.ctl /\ R.scan = s.scan /\ R.nubs = s.nubs
           /\ R.bus.nodes = s.bus.nodes /\ R.bus.rhb \in Range(ids) \cup {NoNode}
           /\ R.bus.gap = s.bus.gap /\ Fits(R)
<1>1. R = sendPHYPacket(s, [root |-> IDOf(n), gap |-> 0])
  BY DEF ForceRoot
<1> DEFINE packet == [root |-> IDOf(n), gap |-> 0]
<1>2. packet.gap = 0
  OBVIOUS
<1> HIDE DEF packet
<1>3. /\ DOMAIN R = DOMAIN s /\ DOMAIN R.bus = BusFields
      /\ R.ctl = s.ctl /\ R.scan = s.scan /\ R.nubs = s.nubs
      /\ R.bus.nodes = s.bus.nodes /\ R.bus.rhb \in Range(ids) \cup {NoNode}
      /\ R.bus.gap = s.bus.gap
  BY <1>1, <1>2, PacketSent DEF packet
<1> QED BY <1>3 DEF Fits

LEMMA ContenderSet ==
    ASSUME NEW s, Fits(s), NEW c, NEW R, R = setContender(s, c)
    PROVE  /\ Fits(R) /\ R.ctl = s.ctl /\ R.scan = s.scan /\ R.nubs = s.nubs
           /\ R.bus.gap = s.bus.gap
  BY DEF Fits, BusFields, setContender

LEMMA ControlSet ==
    ASSUME NEW s, Fits(s), NEW c, DOMAIN c = CtlFields,
           NEW R, R = [s EXCEPT !.ctl = c]
    PROVE  /\ DOMAIN R = DOMAIN s /\ R.bus = s.bus /\ R.ctl = c
           /\ R.scan = s.scan /\ R.nubs = s.nubs
  BY DEF Fits

LEMMA ResetIssued ==
    ASSUME NEW s, Fits(s), NEW R, R = FWIMReset(s)
    PROVE  /\ Fits(R) /\ R.bus = s.bus /\ R.scan = s.scan /\ R.nubs = s.nubs
           /\ R.ctl = [s.ctl EXCEPT !.reset = "issued"]
  BY DEF Fits, CtlFields, FWIMReset

LEMMA ResetAsked ==
    ASSUME NEW s, Fits(s), NEW R, R = resetBus(s)
    PROVE  /\ Fits(R) /\ R.bus = s.bus /\ R.scan = s.scan /\ R.nubs = s.nubs
           /\ R.ctl = [s.ctl EXCEPT !.reset = IF @ = "none" THEN "scheduled" ELSE @]
           /\ R.ctl.reset # "none"
<1>1. R.ctl = [s.ctl EXCEPT !.reset = IF @ = "none" THEN "scheduled" ELSE @]
  BY DEF Fits, resetBus
<1> QED BY <1>1 DEF Fits, CtlFields, resetBus

LEMMA CycleMasterAssigned ==
    ASSUME BusSound, NEW s, Fits(s), NEW R, R = AssignCycleMaster(s)
    PROVE  /\ Fits(R) /\ R.scan = s.scan /\ R.nubs = s.nubs /\ R.bus.gap = s.bus.gap
           /\ R.ctl = [s.ctl EXCEPT !.reset = "issued"]
<1> DEFINE root == RootFor(s)
           manager == ManagerFor(s)
           rooted == IF root = NoNode THEN s
                     ELSE ForceRoot(setContender(s, root = Local), root)
           managed == IF manager = NoNode THEN rooted
                      ELSE ForceRoot(IF manager = Local
                                     THEN setContender(rooted, TRUE) ELSE rooted,
                                     manager)
<1> HIDE DEF root, manager
<1>1. /\ Fits(rooted) /\ rooted.ctl = s.ctl /\ rooted.scan = s.scan
      /\ rooted.nubs = s.nubs /\ rooted.bus.gap = s.bus.gap
  <2>1. CASE root = NoNode
    BY <2>1
  <2>2. CASE root # NoNode
    <3> DEFINE t == setContender(s, root = Local)
    <3>1. /\ Fits(t) /\ t.ctl = s.ctl /\ t.scan = s.scan /\ t.nubs = s.nubs
          /\ t.bus.gap = s.bus.gap
      BY ContenderSet
    <3>2. rooted = ForceRoot(t, root)
      BY <2>2
    <3> HIDE DEF t, rooted
    <3> QED BY <3>1, <3>2, RootForced
  <2> QED BY <2>1, <2>2
<1> HIDE DEF rooted
<1>2. /\ Fits(managed) /\ managed.ctl = s.ctl /\ managed.scan = s.scan
      /\ managed.nubs = s.nubs /\ managed.bus.gap = s.bus.gap
  <2>1. CASE manager = NoNode
    BY <2>1, <1>1
  <2>2. CASE manager # NoNode
    <3> DEFINE t == IF manager = Local THEN setContender(rooted, TRUE) ELSE rooted
    <3>1. /\ Fits(t) /\ t.ctl = s.ctl /\ t.scan = s.scan /\ t.nubs = s.nubs
          /\ t.bus.gap = s.bus.gap
      <4>1. CASE manager = Local
        <5> DEFINE yes == TRUE
        <5>1. t = setContender(rooted, yes)
          BY <4>1
        <5> HIDE DEF t, yes
        <5> QED BY <5>1, <1>1, ContenderSet
      <4>2. CASE manager # Local
        <5>1. t = rooted
          BY <4>2
        <5> QED BY <5>1, <1>1
      <4> QED BY <4>1, <4>2
    <3>2. managed = ForceRoot(t, manager)
      BY <2>2
    <3> HIDE DEF t, managed
    <3> QED BY <3>1, <3>2, RootForced
  <2> QED BY <2>1, <2>2
<1>3. R = FWIMReset(managed)
  BY DEF AssignCycleMaster, managed, rooted, manager, root
<1> HIDE DEF managed
<1> QED BY <1>2, <1>3, ResetIssued

LEMMA FreedScans ==
    ASSUME NEW s, Fits(s), NEW S, NEW R, R = ScansFreed(s, S)
    PROVE  /\ Fits(R) /\ R.bus = s.bus /\ R.ctl = s.ctl /\ R.nubs = s.nubs
           /\ \A p \in Peers :
                 /\ p \in S /\ s.scan[p].state = "done" =>
                       /\ R.scan[p].state = "freed" /\ R.scan[p].speed = s.scan[p].speed
                 /\ ~(p \in S /\ s.scan[p].state = "done") => R.scan[p] = s.scan[p]
<1> DEFINE scans == [p \in Peers |->
              IF p \in S /\ s.scan[p].state = "done"
              THEN [state |-> "freed", speed |-> s.scan[p].speed] ELSE s.scan[p]]
<1>1. R = [s EXCEPT !.scan = scans]
  BY DEF ScansFreed
<1>2. \A p \in Peers :
         /\ p \in S /\ s.scan[p].state = "done" =>
               scans[p] = [state |-> "freed", speed |-> s.scan[p].speed]
         /\ ~(p \in S /\ s.scan[p].state = "done") => scans[p] = s.scan[p]
  OBVIOUS
<1>3. DOMAIN scans = Peers
  OBVIOUS
<1> HIDE DEF scans
<1>4. /\ R.bus = s.bus /\ R.ctl = s.ctl /\ R.nubs = s.nubs /\ R.scan = scans
      /\ DOMAIN R = DOMAIN s
  BY <1>1 DEF Fits
<1>5. \A p \in Peers : ScanFits(scans[p])
  <2> TAKE p \in Peers
  <2>1. CASE p \in S /\ s.scan[p].state = "done"
    <3>1. scans[p] = [state |-> "freed", speed |-> s.scan[p].speed]
      BY <1>2, <2>1
    <3> HIDE DEF scans
    <3> QED BY <3>1 DEF ScanFits, ScanStates
  <2>2. CASE ~(p \in S /\ s.scan[p].state = "done")
    BY <1>2, <2>2 DEF Fits
  <2> QED BY <2>1, <2>2
<1>6. \A p \in Peers : p \in S /\ s.scan[p].state = "done" =>
         scans[p].state = "freed" /\ scans[p].speed = s.scan[p].speed
  <2> TAKE p \in Peers
  <2> HAVE p \in S /\ s.scan[p].state = "done"
  <2>1. scans[p] = [state |-> "freed", speed |-> s.scan[p].speed]
    BY <1>2
  <2> QED BY <2>1
<1> QED BY <1>2, <1>3, <1>4, <1>5, <1>6 DEF Fits

LEMMA BusManaged ==
    ASSUME BusSound, NEW s, Fits(s), NEW ping, NEW R, R = ManageBus(s, ping)
    PROVE  /\ Fits(R) /\ R.scan = s.scan /\ R.nubs = s.nubs /\ R.bus.gap = s.bus.gap
           /\ \A x \in CtlFields \ {"fPreviousGap", "fDelayedPhyPacket"} :
                 R.ctl[x] = s.ctl[x]
<1> DEFINE root == IF OnlyNode
                   THEN [s EXCEPT !.bus.rhb = IF @ = Local THEN NoNode ELSE @]
                   ELSE ForceRoot(s, Local)
           gap == newGap(s, ping)
           packet == [root |-> IDOf(Local), gap |-> gap]
<1> HIDE DEF gap, packet
<1>1. /\ Fits(root) /\ root.ctl = s.ctl /\ root.scan = s.scan /\ root.nubs = s.nubs
      /\ root.bus.gap = s.bus.gap
  <2>1. CASE OnlyNode
    <3>1. root = [s EXCEPT !.bus.rhb = IF s.bus.rhb = Local THEN NoNode ELSE s.bus.rhb]
      BY <2>1
    <3> HIDE DEF root
    <3> QED BY <3>1 DEF Fits, BusFields
  <2>2. CASE ~OnlyNode
    <3>1. root = ForceRoot(s, Local)
      BY <2>2
    <3> HIDE DEF root
    <3> QED BY <3>1, RootForced
  <2> QED BY <2>1, <2>2
<1>2. R = root \/ R = [root EXCEPT !.ctl.fPreviousGap = gap,
                                   !.ctl.fDelayedPhyPacket = packet]
  BY DEF ManageBus, gap, packet
<1> HIDE DEF root
<1>3. CASE R = root
  BY <1>1, <1>3
<1>4. CASE R = [root EXCEPT !.ctl.fPreviousGap = gap, !.ctl.fDelayedPhyPacket = packet]
  <2> DEFINE c == [root.ctl EXCEPT !.fPreviousGap = gap, !.fDelayedPhyPacket = packet]
  <2>1. /\ DOMAIN c = CtlFields
        /\ \A x \in CtlFields \ {"fPreviousGap", "fDelayedPhyPacket"} : c[x] = s.ctl[x]
    BY <1>1 DEF Fits, CtlFields
  <2>2. R = [root EXCEPT !.ctl = c]
    BY <1>4, <1>1 DEF Fits
  <2> HIDE DEF c
  <2>3. /\ R.ctl = c /\ R.bus = root.bus /\ R.scan = root.scan /\ R.nubs = root.nubs
        /\ DOMAIN R = DOMAIN root
    BY <2>1, <2>2, <1>1, ControlSet
  <2>4. Fits(R)
    BY <2>1, <2>3, <1>1 DEF Fits, CtlFields
  <2> QED BY <1>1, <2>1, <2>3, <2>4
<1> QED BY <1>2, <1>3, <1>4

-----------------------------------------------------------------------------
(* The end of a scan.                                                      *)

(* What the end of a scan leaves alone, and what it does to the records of *)
(* the nodes.                                                              *)
Ended(s, t) ==
    /\ Fits(t) /\ t.ctl.finished = 1 /\ t.ctl.fNumROMReads = 0
    /\ t.bus.gap = s.bus.gap /\ t.nubs = s.nubs /\ t.ctl.fBusMgr = s.ctl.fBusMgr
    /\ \A p \in Peers : \/ t.scan[p] = s.scan[p]
                        \/ /\ s.scan[p].state = "done" /\ t.scan[p].state = "freed"
                           /\ t.scan[p].speed = s.scan[p].speed
    /\ t.ctl.reset = "none" => t.ctl.dups = s.ctl.dups /\ s.ctl.reset = "none"

(* Nothing is read any more, and the scan has not ended.                   *)
AboutToEnd(s) ==
    /\ ScanSound(s) /\ Reading(s) = {}
    /\ s.ctl.finished = 0 /\ s.ctl.fNumROMReads = 0
    /\ s.ctl.state \in {"kScanning", "kWaitingBusReset"}

LEMMA EndedStates ==
    ASSUME NEW s, AboutToEnd(s), NEW R, Ended(s, R)
    PROVE  /\ Reading(R) = {}
           /\ \A p \in Peers : R.scan[p].state # "none" => p \in Range(ids)
           /\ R.ctl.fBusMgr => \E p \in OnTheBus :
                                  /\ R.scan[p].state \in {"done", "freed"}
                                  /\ make[p].rom # "full" \/ make[p].busMgr
<1>1. \A p \in Peers : /\ \/ R.scan[p].state = s.scan[p].state
                          \/ s.scan[p].state = "done" /\ R.scan[p].state = "freed"
                       /\ s.scan[p].state # "reading"
  BY DEF Ended, AboutToEnd, Reading
<1>2. Reading(R) = {}
  BY <1>1 DEF Reading
<1>3. \A p \in Peers : R.scan[p].state # "none" => p \in Range(ids)
  BY <1>1 DEF AboutToEnd, ScanSound, Counts
<1>4. ASSUME R.ctl.fBusMgr
      PROVE  \E p \in OnTheBus : /\ R.scan[p].state \in {"done", "freed"}
                                 /\ make[p].rom # "full" \/ make[p].busMgr
  <2>1. s.ctl.fBusMgr
    BY <1>4 DEF Ended
  <2>2. PICK p \in OnTheBus : /\ s.scan[p].state \in {"done", "freed"}
                              /\ make[p].rom # "full" \/ make[p].busMgr
    BY <2>1 DEF AboutToEnd, ScanSound, FoundOut
  <2> QED BY <1>1, <2>2 DEF OnTheBus
<1> QED BY <1>2, <1>3, <1>4

LEMMA EndedWithReset ==
    ASSUME NEW s, AboutToEnd(s), NEW R, Ended(s, R), R.ctl.state = s.ctl.state
    PROVE  ScanSound(R) /\ ScanOver(R)
<1>1. Counts(R)
  BY EndedStates DEF Counts, AboutToEnd, Ended, BeforeScan, AfterScan
<1>2. ManagerIsRead(R)
  BY DEF ManagerIsRead, Ended
<1>3. FoundOut(R)
  BY EndedStates DEF FoundOut, AboutToEnd, ScanSound, Ended
<1>4. Decided(R) /\ ScanOver(R)
  BY DEF Decided, AboutToEnd, AfterScan, ScanOver, Ended
<1> QED BY <1>1, <1>2, <1>3, <1>4 DEF ScanSound, Ended

(* When all nodes have been read and freed.                                *)
LEMMA EndedWithoutReset ==
    ASSUME BusSound, NEW s, AboutToEnd(s), s.ctl.state = "kScanning",
           NEW R, Ended(s, R), R.ctl.state = "kWaitingPrune",
           R.ctl.dups = s.ctl.dups, R.ctl.reset = s.ctl.reset,
           \A p \in Peers : R.scan[p].state # "done",
           NEW now, DOMAIN now = DOMAIN s, now.scan = s.scan,
           \A x \in CtlFields \ {"finished"} : now.ctl[x] = s.ctl[x],
           ~NeedReset(now),
           \A i \in DOMAIN ids : ~checkForDuplicateGUID(now, i),
           NEW ping, ~(ManagesBus(now) /\ Unmanaged(now, ping))
    PROVE  ScanSound(R) /\ ScanOver(R)
<1>1. Counts(R)
  BY EndedStates DEF Counts, Ended, BeforeScan
<1>2. ManagerIsRead(R) /\ ScanOver(R)
  BY DEF ManagerIsRead, Ended, ScanOver
<1>3. FoundOut(R)
  BY EndedStates DEF FoundOut, AboutToEnd, ScanSound, Ended
<1>4. \A p \in Peers : R.scan[p].state = "freed" =>
         s.scan[p].state = "done" /\ R.scan[p].speed = s.scan[p].speed
  BY DEF Ended, AboutToEnd, ScanSound, Counts, OnTheBus
<1>5. \A p \in OnTheBus : s.scan[p].state \in {"done", "dummy"}
  BY DEF AboutToEnd, ScanSound, Counts, OnTheBus, Reading
<1>6. ASSUME R.ctl.reset = "none", ~R.ctl.fBusMgr, IRMNode = Local, ~OnlyNode
      PROVE  RootNode = Local /\ SameGaps
  <2>1. ManagesBus(now)
    BY <1>6 DEF ManagesBus, Ended, CtlFields
  <2>2. RootNode = Local /\ ~retoolGap(now, newGap(now, ping))
    BY <2>1, <1>6 DEF Unmanaged
  <2> QED BY <2>2 DEF retoolGap, SameGaps
<1>7. ASSUME IRMNode \in Peers
      PROVE  /\ R.scan[IRMNode].state = "freed"
             /\ make[IRMNode].rom = "full" /\ R.scan[IRMNode].speed > 0 =>
                   ~BadIRM(make[IRMNode])
  <2>1. IRMNode \in OnTheBus /\ IRMNode \notin {Local, NoNode}
    BY <1>7, ManagerIsThere, BusScanAssumption DEF OnTheBus, BusScanAssumption
  <2>2. ~(s.ctl.fBadIRMsKnown /\ BadIRMFound(now))
    <3>1. ~(RootNode = Local /\ now.ctl.mustBeRoot # NoNode)
      BY DEF NeedReset, RootFor
    <3>2. ManagerFor(now) = NoNode
      BY DEF NeedReset
    <3>3. ~(now.ctl.fBadIRMsKnown /\ BadIRMFound(now))
      <4> SUFFICES ASSUME now.ctl.fBadIRMsKnown, BadIRMFound(now) PROVE FALSE
        OBVIOUS
      <4> DEFINE other == OtherContenders(now)
      <4>1. ManagerFor(now) = IF now.ctl.fDelegateCycleMaster /\ other # {}
                              THEN LastOf(other) ELSE Local
        BY <3>1 DEF ManagerFor
      <4>2. other \subseteq Contenders
        BY DEF OtherContenders
      <4>3. other \subseteq Range(ids)
        BY <4>2 DEF Contenders
      <4>4. other # {} => LastOf(other) # NoNode
        BY <4>3, LastIsThere, NodesOfTheBus
      <4>5. Local # NoNode
        BY BusScanAssumption DEF BusScanAssumption
      <4> HIDE DEF other
      <4> QED BY <3>2, <4>1, <4>4, <4>5
    <3> QED BY <3>3 DEF CtlFields
  <2>3. s.scan[IRMNode].state # "dummy"
    BY <2>1, <2>2, <1>7 DEF AboutToEnd, ScanSound, ManagerIsRead, BadIRMFound
  <2>4. s.scan[IRMNode].state = "done"
    BY <2>1, <2>3, <1>5
  <2>5. R.scan[IRMNode].state = "freed" /\ R.scan[IRMNode].speed = s.scan[IRMNode].speed
    BY <2>4, <1>7 DEF Ended
  <2>6. ~(s.scan[IRMNode].fIRMisBad /\ s.ctl.fBadIRMsKnown)
    BY <2>1, <2>2 DEF BadIRMFound
  <2> QED BY <1>7, <2>4, <2>5, <2>6 DEF AboutToEnd, ScanSound, ManagerIsRead
<1>8. ASSUME NEW p \in Peers, NEW q \in Peers, Twins(R, p, q)
      PROVE  make[p].guid \in R.ctl.dups
  <2>1. /\ s.scan[p].state = "done" /\ s.scan[q].state = "done"
        /\ make[p].rom = "full" /\ make[q].rom = "full" /\ p # q
        /\ make[p].guid = make[q].guid /\ make[p].guid # 0
    BY <1>4, <1>8 DEF Twins
  <2>2. p \in Range(ids) /\ q \in Range(ids)
    BY <2>1 DEF AboutToEnd, ScanSound, Counts
  <2>3. PICK i \in 1..Len(ids), j \in 1..Len(ids) : ids[i] = p /\ ids[j] = q
    BY <2>2, NodesOfTheBus
  <2>4. GUIDRead(now, p) = make[p].guid /\ GUIDRead(now, q) = make[p].guid
    BY <2>1 DEF GUIDRead
  <2>5. i # j
    BY <2>1, <2>3
  <2>6. CASE i > j
    <3>1. j \in 1..i - 1 /\ i \in DOMAIN ids
      BY <2>6, NodesOfTheBus
    <3>2. GUIDRead(now, ids[i]) \in {0} \cup now.ctl.dups
      BY <3>1, <2>3, <2>4 DEF checkForDuplicateGUID
    <3> QED BY <3>2, <2>1, <2>3, <2>4 DEF CtlFields
  <2>7. CASE j > i
    <3>1. i \in 1..j - 1 /\ j \in DOMAIN ids
      BY <2>7, NodesOfTheBus
    <3>2. GUIDRead(now, ids[j]) \in {0} \cup now.ctl.dups
      BY <3>1, <2>3, <2>4 DEF checkForDuplicateGUID
    <3> QED BY <3>2, <2>1, <2>3, <2>4 DEF CtlFields
  <2> QED BY <2>5, <2>6, <2>7
<1>9. Decided(R)
  BY <1>6, <1>7, <1>8 DEF Decided, Ended
<1> QED BY <1>1, <1>2, <1>3, <1>9 DEF ScanSound, Ended

LEMMA finishedBusScanKeeps ==
    ASSUME BusSound, NEW s0, AboutToEnd(s0), NEW ping,
           NEW R, R = finishedBusScan(s0, ping)
    PROVE  ScanSound(R) /\ ScanOver(R)
<1> DEFINE s == [s0 EXCEPT !.ctl.finished = @ + 1]
           happy == [s EXCEPT !.ctl.fBadIRMsKnown = FALSE]
           dup == {i \in DOMAIN ids : checkForDuplicateGUID(s, i)}
           freed == ScansFreed(happy, Peers)
           managed == IF ManagesBus(s) THEN ManageBus(freed, ping) ELSE freed
<1>f. Fits(s0) /\ DOMAIN s0 = {"bus", "ctl", "scan", "nubs"} /\ DOMAIN s0.ctl = CtlFields
  BY DEF AboutToEnd, ScanSound, Fits
<1>1. /\ Fits(s) /\ s.bus = s0.bus /\ s.scan = s0.scan /\ s.nubs = s0.nubs
      /\ s.ctl.finished = 1 /\ \A x \in CtlFields \ {"finished"} : s.ctl[x] = s0.ctl[x]
      /\ DOMAIN s = DOMAIN s0 /\ DOMAIN s.ctl = CtlFields
  <2> DEFINE c == [s0.ctl EXCEPT !.finished = 1]
  <2>1. /\ DOMAIN c = CtlFields /\ c.finished = 1
        /\ \A x \in CtlFields \ {"finished"} : c[x] = s0.ctl[x]
    BY <1>f DEF CtlFields
  <2>2. s = [s0 EXCEPT !.ctl = c]
    BY <1>f DEF AboutToEnd
  <2> HIDE DEF c, s
  <2>3. /\ DOMAIN s = DOMAIN s0 /\ s.bus = s0.bus /\ s.ctl = c
        /\ s.scan = s0.scan /\ s.nubs = s0.nubs
    BY <1>f, <2>1, <2>2, ControlSet
  <2> QED BY <1>f, <2>1, <2>3 DEF Fits, CtlFields
<1> HIDE DEF s
<1>2. /\ Fits(happy) /\ happy.bus = s.bus /\ happy.scan = s.scan /\ happy.nubs = s.nubs
      /\ \A x \in CtlFields \ {"fBadIRMsKnown"} : happy.ctl[x] = s.ctl[x]
      /\ DOMAIN happy = DOMAIN s /\ DOMAIN happy.ctl = CtlFields
  <2> DEFINE c == [s.ctl EXCEPT !.fBadIRMsKnown = FALSE]
  <2>1. /\ DOMAIN c = CtlFields /\ c.fBadIRMsKnown = FALSE
        /\ \A x \in CtlFields \ {"fBadIRMsKnown"} : c[x] = s.ctl[x]
    BY <1>1 DEF CtlFields
  <2>2. happy = [s EXCEPT !.ctl = c]
    BY <1>1, <1>f
  <2> HIDE DEF c, happy
  <2>3. /\ DOMAIN happy = DOMAIN s /\ happy.bus = s.bus /\ happy.ctl = c
        /\ happy.scan = s.scan /\ happy.nubs = s.nubs
    BY <1>1, <2>1, <2>2, ControlSet
  <2> QED BY <1>1, <2>1, <2>3 DEF Fits, CtlFields
<1> HIDE DEF happy, dup
<1>3. CASE NeedReset(s)
  <2>1. R = AssignCycleMaster(s)
    BY <1>3 DEF finishedBusScan, s
  <2>2. /\ Fits(R) /\ R.scan = s.scan /\ R.nubs = s.nubs /\ R.bus.gap = s.bus.gap
        /\ R.ctl = [s.ctl EXCEPT !.reset = "issued"]
    BY <2>1, <1>1, CycleMasterAssigned
  <2>3. Ended(s0, R) /\ R.ctl.state = s0.ctl.state
    BY <2>2, <1>1 DEF Ended, CtlFields, AboutToEnd
  <2> QED BY <2>3, EndedWithReset
<1>4. CASE ~NeedReset(s) /\ dup # {}
  <2> DEFINE S == {ids[j] : j \in 1..Min(dup) - 1}
             more == happy.ctl.dups \cup {GUIDRead(s, ids[Min(dup)])}
             t == ScansFreed(happy, S)
             u == [t EXCEPT !.ctl.dups = more]
  <2>1. R = resetBus([ScansFreed(happy, S) EXCEPT
                         !.ctl.dups = @ \cup {GUIDRead(s, ids[Min(dup)])}])
    BY <1>4 DEF finishedBusScan, s, happy, dup
  <2> HIDE DEF S
  <2>2. /\ Fits(t) /\ t.bus = happy.bus /\ t.ctl = happy.ctl /\ t.nubs = happy.nubs
        /\ \A p \in Peers :
              \/ t.scan[p] = happy.scan[p]
              \/ /\ happy.scan[p].state = "done" /\ t.scan[p].state = "freed"
                 /\ t.scan[p].speed = happy.scan[p].speed
    BY <1>2, FreedScans
  <2> HIDE DEF t
  <2>3. R = resetBus(u)
    BY <2>1, <2>2 DEF t
  <2> HIDE DEF more
  <2>4. /\ Fits(u) /\ u.bus = t.bus /\ u.scan = t.scan /\ u.nubs = t.nubs
        /\ \A x \in CtlFields \ {"dups"} : u.ctl[x] = t.ctl[x]
    <3> DEFINE c == [t.ctl EXCEPT !.dups = more]
    <3>1. /\ DOMAIN c = CtlFields
          /\ \A x \in CtlFields \ {"dups"} : c[x] = t.ctl[x]
      BY <2>2 DEF CtlFields, Fits
    <3>2. u = [t EXCEPT !.ctl = c]
      BY <2>2 DEF Fits
    <3> HIDE DEF c, u
    <3>3. /\ DOMAIN u = DOMAIN t /\ u.bus = t.bus /\ u.ctl = c
          /\ u.scan = t.scan /\ u.nubs = t.nubs
      BY <2>2, <3>1, <3>2, ControlSet
    <3> QED BY <2>2, <3>1, <3>3 DEF Fits, CtlFields
  <2> HIDE DEF u
  <2>5. /\ Fits(R) /\ R.bus = u.bus /\ R.scan = u.scan /\ R.nubs = u.nubs
        /\ R.ctl = [u.ctl EXCEPT !.reset = IF @ = "none" THEN "scheduled" ELSE @]
        /\ R.ctl.reset # "none"
    BY <2>3, <2>4, ResetAsked
  <2>6. DOMAIN u.ctl = CtlFields
    BY <2>4 DEF Fits
  <2>7. \A x \in CtlFields \ {"reset"} : R.ctl[x] = u.ctl[x]
    BY <2>5, <2>6 DEF CtlFields
  <2>8. \A x \in CtlFields \ {"reset", "dups", "fBadIRMsKnown", "finished"} :
           R.ctl[x] = s0.ctl[x]
    BY <2>7, <2>4, <2>2, <1>2, <1>1
  <2>9. R.ctl.finished = 1
    BY <2>7, <2>4, <2>2, <1>2, <1>1 DEF CtlFields
  <2>10. Ended(s0, R) /\ R.ctl.state = s0.ctl.state
    BY <2>5, <2>4, <2>2, <2>8, <2>9, <1>2, <1>1 DEF Ended, CtlFields, AboutToEnd
  <2> QED BY <2>10, EndedWithReset
<1>5. CASE ~NeedReset(s) /\ dup = {}
  <2>1. /\ Fits(freed) /\ freed.bus = happy.bus /\ freed.ctl = happy.ctl
        /\ freed.nubs = happy.nubs
        /\ \A p \in Peers :
              /\ freed.scan[p].state # "done"
              /\ \/ freed.scan[p] = happy.scan[p]
                 \/ /\ happy.scan[p].state = "done" /\ freed.scan[p].state = "freed"
                    /\ freed.scan[p].speed = happy.scan[p].speed
    BY <1>2, FreedScans
  <2> HIDE DEF freed
  <2>2. /\ Fits(managed) /\ managed.scan = freed.scan /\ managed.nubs = freed.nubs
        /\ managed.bus.gap = freed.bus.gap
        /\ \A x \in CtlFields \ {"fPreviousGap", "fDelayedPhyPacket"} :
              managed.ctl[x] = freed.ctl[x]
    BY <2>1, BusManaged
  <2>3. CASE ManagesBus(s) /\ Unmanaged(s, ping)
    <3>1. R = resetBus(managed)
      BY <1>5, <2>3 DEF finishedBusScan, s, happy, dup, freed, managed
    <3> HIDE DEF managed
    <3>2. /\ Fits(R) /\ R.bus = managed.bus /\ R.scan = managed.scan
          /\ R.nubs = managed.nubs /\ R.ctl.reset # "none"
          /\ R.ctl = [managed.ctl EXCEPT !.reset = IF @ = "none" THEN "scheduled" ELSE @]
      BY <3>1, <2>2, ResetAsked
    <3>3. DOMAIN managed.ctl = CtlFields
      BY <2>2 DEF Fits
    <3>4. \A x \in CtlFields \ {"reset"} : R.ctl[x] = managed.ctl[x]
      BY <3>2, <3>3 DEF CtlFields
    <3>5. R.ctl.finished = 1 /\ R.ctl.fNumROMReads = 0 /\ R.ctl.fBusMgr = s0.ctl.fBusMgr
          /\ R.ctl.state = s0.ctl.state
      BY <3>4, <2>2, <2>1, <1>2, <1>1 DEF CtlFields, AboutToEnd
    <3>6. Ended(s0, R)
      BY <3>2, <3>5, <2>2, <2>1, <1>2, <1>1 DEF Ended
    <3> QED BY <3>5, <3>6, EndedWithReset
  <2>4. CASE ~(ManagesBus(s) /\ Unmanaged(s, ping))
    <3>1. R = IF s.ctl.state = "kScanning"
              THEN [managed EXCEPT !.ctl.state = "kWaitingPrune"] ELSE managed
      BY <1>5, <2>4 DEF finishedBusScan, s, happy, dup, freed, managed
    <3> HIDE DEF managed
    <3>2. /\ managed.ctl.finished = 1 /\ managed.ctl.fNumROMReads = 0
          /\ managed.ctl.fBusMgr = s0.ctl.fBusMgr /\ managed.ctl.dups = s0.ctl.dups
          /\ managed.ctl.reset = s0.ctl.reset /\ managed.ctl.state = s0.ctl.state
          /\ s.ctl.state = s0.ctl.state
      BY <2>2, <2>1, <1>2, <1>1 DEF CtlFields, AboutToEnd
    <3>3. Ended(s0, managed)
      BY <3>2, <2>2, <2>1, <1>2, <1>1 DEF Ended
    <3>4. CASE s0.ctl.state # "kScanning"
      <4>1. R = managed
        BY <3>1, <3>2, <3>4
      <4> QED BY <4>1, <3>3, <3>2, EndedWithReset
    <3>5. CASE s0.ctl.state = "kScanning"
      <4> DEFINE c == [managed.ctl EXCEPT !.state = "kWaitingPrune"]
      <4>0. DOMAIN managed.ctl = CtlFields /\ DOMAIN managed = DOMAIN s
        BY <2>2, <1>1 DEF Fits
      <4>1. /\ DOMAIN c = CtlFields /\ c.state = "kWaitingPrune"
            /\ \A x \in CtlFields \ {"state"} : c[x] = managed.ctl[x]
        BY <4>0 DEF CtlFields
      <4>2. R = [managed EXCEPT !.ctl = c]
        BY <3>1, <3>2, <3>5, <4>0, <1>1, <1>f
      <4> HIDE DEF c
      <4>3. /\ DOMAIN R = DOMAIN managed /\ R.bus = managed.bus /\ R.ctl = c
            /\ R.scan = managed.scan /\ R.nubs = managed.nubs
        BY <2>2, <4>1, <4>2, ControlSet
      <4>4. Fits(R)
        BY <2>2, <4>1, <4>3 DEF Fits, CtlFields, AfterScan
      <4>5. /\ R.ctl.finished = 1 /\ R.ctl.fNumROMReads = 0
            /\ R.ctl.fBusMgr = s0.ctl.fBusMgr /\ R.ctl.dups = s0.ctl.dups
            /\ R.ctl.reset = s0.ctl.reset /\ R.ctl.state = "kWaitingPrune"
        BY <4>1, <4>3, <3>2 DEF CtlFields
      <4>6. Ended(s0, R)
        BY <4>3, <4>4, <4>5, <3>3 DEF Ended
      <4>7. \A p \in Peers : R.scan[p].state # "done"
        BY <4>3, <2>2, <2>1
      <4>8. \A i \in DOMAIN ids : ~checkForDuplicateGUID(s, i)
        BY <1>5 DEF dup
      <4> QED BY <1>1, <1>5, <2>4, <3>5, <4>5, <4>6, <4>7, <4>8, EndedWithoutReset
    <3> QED BY <3>4, <3>5
  <2> QED BY <2>3, <2>4
<1> QED BY <1>3, <1>4, <1>5

-----------------------------------------------------------------------------
(* The reading of a node.                                                  *)

LEMMA PeersAreFinite ==
    /\ Cardinality(Peers) \in Nat
    /\ \A S \in SUBSET Peers : /\ IsFiniteSet(S) /\ Cardinality(S) \in Nat
                               /\ Cardinality(S) <= Cardinality(Peers)
                               /\ Cardinality(S) = 0 <=> S = {}
  BY BusScanAssumption, FS_Subset, FS_CardinalityType, FS_EmptySet DEF BusScanAssumption

(* A node has been read and is still counted.                              *)
Uncounted(s) ==
    /\ Fits(s) /\ ManagerIsRead(s) /\ FoundOut(s)
    /\ s.ctl.finished = 0 /\ s.ctl.state \in {"kScanning", "kWaitingBusReset"}
    /\ s.ctl.fNumROMReads = Cardinality(Reading(s)) + 1
    /\ \A p \in Peers : s.scan[p].state # "none" => p \in Range(ids)
    /\ s.ctl.state = "kScanning" =>
          \A p \in OnTheBus : s.scan[p].state \in {"reading", "done", "dummy"}

LEMMA OneNodeLessKeeps ==
    ASSUME BusSound, NEW s, Uncounted(s), NEW ping, NEW R, R = OneNodeLess(s, ping)
    PROVE  ScanSound(R) /\ ScanOver(R)
<1> DEFINE c == [s.ctl EXCEPT !.fNumROMReads = @ - 1]
           t == [s EXCEPT !.ctl.fNumROMReads = @ - 1]
<1>f. /\ Fits(s) /\ DOMAIN s = {"bus", "ctl", "scan", "nubs"} /\ DOMAIN s.ctl = CtlFields
      /\ s.ctl.fNumROMReads = Cardinality(Reading(s)) + 1
  BY DEF Uncounted, Fits
<1>n. /\ Cardinality(Reading(s)) \in 0..Cardinality(Peers)
      /\ Cardinality(Reading(s)) = 0 <=> Reading(s) = {}
  BY PeersAreFinite DEF Reading
<1>1. /\ DOMAIN c = CtlFields /\ c.fNumROMReads = Cardinality(Reading(s))
      /\ \A x \in CtlFields \ {"fNumROMReads"} : c[x] = s.ctl[x]
  BY <1>f, <1>n DEF CtlFields
<1>2. t = [s EXCEPT !.ctl = c]
  BY <1>f
<1>3. R = IF t.ctl.fNumROMReads = 0 THEN finishedBusScan(t, ping) ELSE t
  BY DEF OneNodeLess
<1> HIDE DEF c, t
<1>4. /\ DOMAIN t = DOMAIN s /\ t.bus = s.bus /\ t.ctl = c
      /\ t.scan = s.scan /\ t.nubs = s.nubs
  BY <1>f, <1>1, <1>2, ControlSet
<1>5. Fits(t) /\ Reading(t) = Reading(s)
  BY <1>f, <1>n, <1>1, <1>4 DEF Fits, CtlFields, Reading
<1>6. /\ t.ctl.finished = 0 /\ t.ctl.state = s.ctl.state
      /\ t.ctl.state \in {"kScanning", "kWaitingBusReset"}
      /\ t.ctl.fBadIRMsKnown = s.ctl.fBadIRMsKnown /\ t.ctl.fBusMgr = s.ctl.fBusMgr
      /\ t.ctl.reset = s.ctl.reset /\ t.ctl.dups = s.ctl.dups
      /\ t.ctl.fNumROMReads = Cardinality(Reading(t))
  BY <1>1, <1>4, <1>5 DEF CtlFields, Uncounted
<1>7. ManagerIsRead(t) /\ FoundOut(t)
  BY <1>4, <1>6 DEF ManagerIsRead, FoundOut, Uncounted
<1>8. Counts(t) /\ Decided(t)
  BY <1>4, <1>5, <1>6 DEF Counts, Decided, Uncounted, BeforeScan, AfterScan
<1>9. ScanSound(t)
  BY <1>5, <1>7, <1>8 DEF ScanSound
<1>10. CASE t.ctl.fNumROMReads = 0
  <2>1. AboutToEnd(t)
    BY <1>5, <1>6, <1>9, <1>10, <1>n DEF AboutToEnd
  <2> QED BY <1>3, <1>10, <2>1, finishedBusScanKeeps
<1>11. CASE t.ctl.fNumROMReads # 0
  <2>1. R = t /\ ScanOver(t)
    BY <1>3, <1>11, <1>5, <1>6, <1>n DEF ScanOver
  <2> QED BY <2>1, <1>9
<1> QED BY <1>10, <1>11

(* A node that is being read.                                              *)
LEMMA BeingRead ==
    ASSUME BusSound, NEW s, ScanSound(s), NEW p \in Peers, s.scan[p].state = "reading"
    PROVE  /\ DOMAIN s = {"bus", "ctl", "scan", "nubs"} /\ DOMAIN s.ctl = CtlFields
           /\ DOMAIN s.scan = Peers /\ DOMAIN s.scan[p] = ReadFields
           /\ s.scan[p].fRead \in {0, 8, 12, 16} /\ p \in Reading(s)
           /\ s.ctl.finished = 0 /\ s.ctl.state \in {"kScanning", "kWaitingBusReset"}
           /\ s.ctl.fNumROMReads = Cardinality(Reading(s))
           /\ p \in Range(ids) /\ p \in OnTheBus
<1>1. p \in Reading(s)
  BY DEF Reading
<1>2. Fits(s) /\ Counts(s) /\ ScanFits(s.scan[p])
  BY DEF ScanSound, Fits
<1>3. s.ctl.state \notin BeforeScan \cup AfterScan
  BY <1>1, <1>2 DEF Counts
<1> QED BY <1>1, <1>2, <1>3 DEF Counts, Fits, ScanFits, OnTheBus, AfterScan, BeforeScan

(* It goes on being read; of the controller, only whether bad managers are *)
(* known may change.                                                       *)
LEMMA ReadGoesOn ==
    ASSUME BusSound, NEW s, ScanSound(s), NEW p \in Peers, s.scan[p].state = "reading",
           NEW R, DOMAIN R = DOMAIN s, R.bus = s.bus, R.nubs = s.nubs,
           DOMAIN R.scan = Peers, \A q \in Peers \ {p} : R.scan[q] = s.scan[q],
           DOMAIN R.scan[p] = ReadFields, R.scan[p].state = "reading",
           R.scan[p].fRead \in {0, 8, 12, 16},
           DOMAIN R.ctl = CtlFields, R.ctl.fBadIRMsKnown \in BOOLEAN,
           s.ctl.fBadIRMsKnown => R.ctl.fBadIRMsKnown,
           \A x \in CtlFields \ {"fBadIRMsKnown"} : R.ctl[x] = s.ctl[x],
           p = IRMNode =>
               /\ R.scan[p].fRead # 0 => make[p].rom = "full"
               /\ BadIRM(make[p]) => \/ R.scan[p].fContenderNeedsChecking
                                     \/ R.scan[p].fIRMisBad /\ R.ctl.fBadIRMsKnown
    PROVE  ScanSound(R) /\ ScanOver(R)
<1> DEFINE r == R.scan[p]
           known == R.ctl.fBadIRMsKnown
<1>1. /\ DOMAIN s = {"bus", "ctl", "scan", "nubs"} /\ DOMAIN s.ctl = CtlFields
      /\ DOMAIN s.scan = Peers /\ s.ctl.finished = 0 /\ p \in Range(ids)
      /\ s.ctl.state \in {"kScanning", "kWaitingBusReset"}
      /\ s.ctl.fNumROMReads = Cardinality(Reading(s))
  BY BeingRead
<1>2. /\ DOMAIN R.ctl = CtlFields /\ R.ctl.fBadIRMsKnown = known
      /\ \A x \in CtlFields \ {"fBadIRMsKnown"} : R.ctl[x] = s.ctl[x]
  OBVIOUS
<1>3. /\ DOMAIN R.scan = Peers /\ R.scan[p] = r
      /\ \A q \in Peers \ {p} : R.scan[q] = s.scan[q]
  OBVIOUS
<1>4. ScanFits(r)
  BY DEF ScanFits, ScanStates, ReadFields
<1>5. \A q \in Peers : ScanFits(R.scan[q])
  BY <1>3, <1>4 DEF ScanSound, Fits
<1>6. \A q \in Peers : R.scan[q].state = s.scan[q].state
  BY <1>3
<1>7. Reading(R) = Reading(s) /\ Reading(R) # {}
  BY <1>6 DEF Reading
<1>8. Fits(R)
  BY <1>1, <1>2, <1>3, <1>5 DEF ScanSound, Fits, CtlFields
<1>9. Counts(R)
  BY <1>1, <1>2, <1>6, <1>7 DEF ScanSound, Counts, CtlFields, BeforeScan, AfterScan, OnTheBus
<1>10. ManagerIsRead(R)
  <2>1. CASE IRMNode = p
    BY <1>2, <1>3, <2>1 DEF ManagerIsRead
  <2>2. CASE IRMNode \in Peers /\ IRMNode # p
    BY <1>1, <1>2, <1>3, <2>2 DEF ManagerIsRead, ScanSound, CtlFields
  <2> QED BY <2>1, <2>2 DEF ManagerIsRead
<1>11. FoundOut(R)
  BY <1>2, <1>6 DEF FoundOut, ScanSound, CtlFields, OnTheBus
<1>12. Decided(R)
  BY <1>1, <1>2 DEF Decided, AfterScan, CtlFields
<1>13. ScanOver(R)
  BY <1>7 DEF ScanOver
<1> QED BY <1>8, <1>9, <1>10, <1>11, <1>12, <1>13 DEF ScanSound

(* It is not read any more.                                                *)
LEMMA ReadIsOver ==
    ASSUME BusSound, NEW s, ScanSound(s), NEW p \in Peers, s.scan[p].state = "reading",
           NEW r, ScanFits(r), r.state \in {"dummy", "done"},
           NEW known \in BOOLEAN, s.ctl.fBadIRMsKnown => known,
           p = IRMNode =>
               /\ r.state = "dummy" => known
               /\ /\ r.state = "done" /\ r.speed > 0
                     /\ make[p].rom = "full" /\ BadIRM(make[p])
                  => r.fIRMisBad /\ known,
           NEW R, Fits(R), R.bus = s.bus,
           R.scan[p] = r, \A q \in Peers \ {p} : R.scan[q] = s.scan[q],
           R.ctl.fBadIRMsKnown = known,
           \A x \in {"state", "reset", "finished", "fNumROMReads", "dups"} :
               R.ctl[x] = s.ctl[x],
           \/ R.ctl.fBusMgr = s.ctl.fBusMgr
           \/ r.state = "done" /\ (make[p].rom # "full" \/ make[p].busMgr),
           \A g \in GUIDs : \/ R.nubs[g].node = s.nubs[g].node
                            \/ g \notin s.ctl.dups
    PROVE  Uncounted(R)
<1>1. /\ DOMAIN s.ctl = CtlFields /\ p \in OnTheBus /\ p \in Reading(s)
      /\ s.ctl.finished = 0 /\ p \in Range(ids)
      /\ s.ctl.state \in {"kScanning", "kWaitingBusReset"}
      /\ s.ctl.fNumROMReads = Cardinality(Reading(s))
  BY BeingRead
<1>2. Reading(R) = Reading(s) \ {p}
  BY DEF Reading
<1>3. Cardinality(Reading(s)) = Cardinality(Reading(R)) + 1
  <2>1. IsFiniteSet(Reading(s)) /\ Cardinality(Reading(s)) \in Nat
    BY PeersAreFinite DEF Reading
  <2>2. Cardinality(Reading(s) \ {p}) = Cardinality(Reading(s)) - 1
    <3> DEFINE S == Reading(s)
    <3>1. IsFiniteSet(S) /\ p \in S
      BY <1>1, <2>1
    <3> HIDE DEF S
    <3>2. Cardinality(S \ {p}) = Cardinality(S) - 1
      BY <3>1, FS_RemoveElement
    <3> QED BY <3>2 DEF S
  <2>3. Cardinality(Reading(R)) = Cardinality(Reading(s)) - 1
    BY <1>2, <2>2
  <2> HIDE DEF Reading
  <2> QED BY <2>1, <2>3
<1>4. /\ R.ctl.state = s.ctl.state /\ R.ctl.reset = s.ctl.reset /\ R.ctl.finished = 0
      /\ R.ctl.fNumROMReads = s.ctl.fNumROMReads /\ R.ctl.dups = s.ctl.dups
  BY <1>1
<1>5. \A q \in Peers : R.scan[q].state # "none" => q \in Range(ids)
  BY <1>1 DEF ScanSound, Counts
<1>6. R.ctl.state = "kScanning" =>
         \A q \in OnTheBus : R.scan[q].state \in {"reading", "done", "dummy"}
  BY <1>1, <1>4 DEF ScanSound, Counts, OnTheBus
<1>7. ManagerIsRead(R)
  <2>1. CASE IRMNode = p
    BY <2>1 DEF ManagerIsRead
  <2>2. CASE IRMNode \in Peers /\ IRMNode # p
    BY <1>1, <1>4, <2>2 DEF ManagerIsRead, ScanSound
  <2> QED BY <2>1, <2>2 DEF ManagerIsRead
<1>8. FoundOut(R)
  <2>1. ASSUME R.ctl.fBusMgr
        PROVE  \E q \in OnTheBus : /\ R.scan[q].state \in {"done", "freed"}
                                   /\ make[q].rom # "full" \/ make[q].busMgr
    <3>1. CASE s.ctl.fBusMgr
      <4>1. PICK q \in OnTheBus : /\ s.scan[q].state \in {"done", "freed"}
                                  /\ make[q].rom # "full" \/ make[q].busMgr
        BY <3>1 DEF ScanSound, FoundOut
      <4>2. q # p /\ q \in Peers
        BY <4>1 DEF OnTheBus
      <4> QED BY <4>1, <4>2
    <3>2. CASE ~s.ctl.fBusMgr
      BY <1>1, <2>1, <3>2 DEF Fits, ScanSound
    <3> QED BY <3>1, <3>2
  <2>2. R.ctl.state # "kWaitingBusReset" /\ SameGaps =>
           \A n \in Range(ids) : R.bus.gap[n] = selfIDs.gap[n]
    BY <1>4 DEF ScanSound, FoundOut
  <2>3. R.ctl.reset = "none" => \A g \in GUIDs \cap R.ctl.dups : R.nubs[g].node = NoNode
    BY <1>4 DEF ScanSound, FoundOut
  <2> QED BY <2>1, <2>2, <2>3 DEF FoundOut
<1> QED BY <1>1, <1>3, <1>4, <1>5, <1>6, <1>7, <1>8 DEF Uncounted

LEMMA OneScanSet ==
    ASSUME NEW s, Fits(s), NEW p \in Peers, NEW r, NEW scans, scans = [s.scan EXCEPT ![p] = r],
           NEW R, R = [s EXCEPT !.scan = scans]
    PROVE  /\ DOMAIN R = DOMAIN s /\ R.bus = s.bus /\ R.ctl = s.ctl /\ R.nubs = s.nubs
           /\ R.scan = scans /\ DOMAIN R.scan = Peers
           /\ R.scan[p] = r /\ \A q \in Peers \ {p} : R.scan[q] = s.scan[q]
           /\ ScanFits(r) => Fits(R)
<1>1. /\ DOMAIN R = DOMAIN s /\ R.bus = s.bus /\ R.ctl = s.ctl /\ R.nubs = s.nubs
      /\ R.scan = scans
  BY DEF Fits
<1>2. /\ DOMAIN R.scan = Peers /\ R.scan[p] = r
      /\ \A q \in Peers \ {p} : R.scan[q] = s.scan[q]
  BY <1>1 DEF Fits
<1>3. ASSUME ScanFits(r) PROVE Fits(R)
  <2>1. \A q \in Peers : ScanFits(R.scan[q])
    BY <1>2, <1>3 DEF Fits
  <2> QED BY <1>1, <1>2, <2>1 DEF Fits
<1> QED BY <1>1, <1>2, <1>3

LEMMA DummyEntryKeeps ==
    ASSUME BusSound, NEW s, ScanSound(s), NEW p \in Peers, s.scan[p].state = "reading",
           NEW ping, NEW R, R = DummyEntry(s, p, ping)
    PROVE  ScanSound(R) /\ ScanOver(R)
<1> DEFINE known == s.ctl.fBadIRMsKnown \/ p = IRMNode
           r == [state |-> "dummy"]
           c == [s.ctl EXCEPT !.fBadIRMsKnown = known]
           t == [s EXCEPT !.ctl = c]
           u == [t EXCEPT !.scan[p] = r]
<1>f. /\ Fits(s) /\ DOMAIN s = {"bus", "ctl", "scan", "nubs"} /\ DOMAIN s.ctl = CtlFields
      /\ known \in BOOLEAN /\ DOMAIN s.scan = Peers
  BY DEF ScanSound, Fits
<1>1. R = OneNodeLess(u, ping)
  <2>1. u = [s EXCEPT !.ctl.fBadIRMsKnown = @ \/ p = IRMNode, !.scan[p] = [state |-> "dummy"]]
    BY <1>f
  <2> HIDE DEF u
  <2> QED BY <2>1 DEF DummyEntry
<1>2. ScanFits(r) /\ r.state = "dummy"
  BY DEF ScanFits, ScanStates
<1> HIDE DEF known, r
<1>3. /\ DOMAIN c = CtlFields /\ c.fBadIRMsKnown = known
      /\ \A x \in CtlFields \ {"fBadIRMsKnown"} : c[x] = s.ctl[x]
  BY <1>f DEF CtlFields
<1> HIDE DEF c
<1>4. /\ DOMAIN t = DOMAIN s /\ t.bus = s.bus /\ t.ctl = c /\ t.scan = s.scan
      /\ t.nubs = s.nubs
  BY <1>f, <1>3, ControlSet
<1> HIDE DEF t
<1>5. Fits(t)
  BY <1>f, <1>3, <1>4 DEF Fits, CtlFields
<1>u. u = [t EXCEPT !.scan[p] = r]
  OBVIOUS
<1> HIDE DEF u
<1>6. /\ Fits(u) /\ u.bus = s.bus /\ u.ctl = c /\ u.nubs = s.nubs
      /\ u.scan[p] = r /\ \A q \in Peers \ {p} : u.scan[q] = s.scan[q]
  <2> HIDE DEF u
  <2> DEFINE scans == [t.scan EXCEPT ![p] = r]
  <2>u. u = [t EXCEPT !.scan = scans]
    BY <1>u
  <2>s. scans = [t.scan EXCEPT ![p] = r]
    OBVIOUS
  <2> HIDE DEF scans
  <2>1. /\ u.bus = t.bus /\ u.ctl = t.ctl /\ u.nubs = t.nubs
        /\ u.scan[p] = r /\ \A q \in Peers \ {p} : u.scan[q] = t.scan[q]
        /\ ScanFits(r) => Fits(u)
    BY <1>5, <2>u, <2>s, OneScanSet
  <2> QED BY <2>1, <1>2, <1>4
<1>7. \A x \in {"state", "reset", "finished", "fNumROMReads", "dups", "fBusMgr"} :
         u.ctl[x] = s.ctl[x]
  BY <1>3, <1>6 DEF CtlFields
<1>8. (s.ctl.fBadIRMsKnown => known) /\ (p = IRMNode => known)
  BY DEF known
<1>9. Uncounted(u)
  <2>1. /\ u.ctl.fBadIRMsKnown = known /\ u.ctl.fBusMgr = s.ctl.fBusMgr
        /\ \A x \in {"state", "reset", "finished", "fNumROMReads", "dups"} :
              u.ctl[x] = s.ctl[x]
    BY <1>3, <1>6, <1>7
  <2> QED BY <1>2, <1>6, <1>8, <1>f, <2>1, ReadIsOver
<1> QED BY <1>1, <1>9, OneNodeLessKeeps

(* What a device's node flags ask of the controller, and of its scan.      *)
LEMMA Configured ==
    ASSUME NEW s, Fits(s), NEW p \in Peers, NEW R, R = configureNode(s, p)
    PROVE  /\ Fits(R) /\ R.bus = s.bus /\ R.nubs = s.nubs
           /\ \A q \in Peers \ {p} : R.scan[q] = s.scan[q]
           /\ \A x \in CtlFields \ {"mustBeRoot", "fNodeMustNotBeRootFlag",
                                    "fForcedGapFlag"} : R.ctl[x] = s.ctl[x]
           /\ R.scan[p] = s.scan[p] \/ s.scan[p].state = "done"
           /\ s.scan[p].state = "done" =>
                 \A x \in ReadFields \ {"fMustNotBeRoot"} : R.scan[p][x] = s.scan[p][x]
<1> DEFINE nodeFlags == s.nubs[make[p].guid].flags
           notRoot == /\ "kIOFWMustNotBeRoot" \in nodeFlags
                      /\ ~s.ctl.fDelegateCycleMaster
                      /\ s.scan[p].state = "done"
           root == IF "kIOFWMustBeRoot" \in nodeFlags THEN p ELSE s.ctl.mustBeRoot
           not == s.ctl.fNodeMustNotBeRootFlag \/ notRoot
           gap == s.ctl.fForcedGapFlag \/ "kIOFWMustHaveGap63" \in nodeFlags
           r == IF notRoot THEN [s.scan[p] EXCEPT !.fMustNotBeRoot = TRUE] ELSE s.scan[p]
           c == [s.ctl EXCEPT !.mustBeRoot = root, !.fNodeMustNotBeRootFlag = not,
                              !.fForcedGapFlag = gap]
           t == [s EXCEPT !.ctl = c]
<1>f. /\ DOMAIN s = {"bus", "ctl", "scan", "nubs"} /\ DOMAIN s.ctl = CtlFields
      /\ DOMAIN s.scan = Peers /\ ScanFits(s.scan[p]) /\ root \in Peers \cup {NoNode}
  BY DEF Fits
<1>1. R = [t EXCEPT !.scan[p] = r]
  <2>1. R = [s EXCEPT !.ctl.mustBeRoot = root, !.ctl.fNodeMustNotBeRootFlag = not,
                      !.ctl.fForcedGapFlag = gap, !.scan[p] = r]
    BY DEF configureNode
  <2> HIDE DEF root, not, gap, r
  <2> QED BY <2>1, <1>f DEF CtlFields
<1>2. /\ notRoot => s.scan[p].state = "done"
      /\ notRoot \in BOOLEAN
  OBVIOUS
<1> HIDE DEF notRoot
<1>3. /\ ScanFits(r)
      /\ r = s.scan[p] \/ s.scan[p].state = "done"
      /\ s.scan[p].state = "done" =>
            \A x \in ReadFields \ {"fMustNotBeRoot"} : r[x] = s.scan[p][x]
  <2>1. CASE ~notRoot
    BY <2>1, <1>f
  <2>2. CASE notRoot
    <3>1. s.scan[p].state = "done" /\ DOMAIN s.scan[p] = ReadFields
      BY <1>2, <2>2, <1>f DEF ScanFits
    <3>2. r = [s.scan[p] EXCEPT !.fMustNotBeRoot = TRUE]
      BY <2>2
    <3> HIDE DEF r
    <3>3. /\ DOMAIN r = ReadFields
          /\ \A x \in ReadFields \ {"fMustNotBeRoot"} : r[x] = s.scan[p][x]
      BY <3>1, <3>2
    <3> QED BY <3>1, <3>3, <1>f DEF ScanFits, ReadFields
  <2> QED BY <2>1, <2>2
<1>4. /\ DOMAIN c = CtlFields /\ c.mustBeRoot \in Peers \cup {NoNode}
      /\ \A x \in CtlFields \ {"mustBeRoot", "fNodeMustNotBeRootFlag",
                               "fForcedGapFlag"} : c[x] = s.ctl[x]
  <2> HIDE DEF root, not, gap
  <2> QED BY <1>f DEF CtlFields
<1> HIDE DEF c, r
<1>5. /\ DOMAIN t = DOMAIN s /\ t.bus = s.bus /\ t.ctl = c /\ t.scan = s.scan
      /\ t.nubs = s.nubs
  BY <1>4, ControlSet
<1>6. Fits(t)
  BY <1>4, <1>5 DEF Fits, CtlFields
<1> HIDE DEF t
<1>7. /\ Fits(R) /\ R.bus = t.bus /\ R.ctl = c /\ R.nubs = t.nubs
      /\ R.scan[p] = r /\ \A q \in Peers \ {p} : R.scan[q] = t.scan[q]
  <2> DEFINE scans == [t.scan EXCEPT ![p] = r]
  <2>u. R = [t EXCEPT !.scan = scans]
    BY <1>1
  <2>s. scans = [t.scan EXCEPT ![p] = r]
    OBVIOUS
  <2> HIDE DEF scans
  <2>1. /\ R.bus = t.bus /\ R.ctl = t.ctl /\ R.nubs = t.nubs
        /\ R.scan[p] = r /\ \A q \in Peers \ {p} : R.scan[q] = t.scan[q]
        /\ ScanFits(r) => Fits(R)
    BY <1>6, <2>u, <2>s, OneScanSet
  <2> QED BY <2>1, <1>3, <1>5
<1> QED BY <1>3, <1>4, <1>5, <1>7

(* What is known of what a peer may be.                                    *)
LEMMA MakeOfPeer ==
    ASSUME BusSound, NEW p \in Peers
    PROVE  /\ make[p].contender \in BOOLEAN /\ make[p].irmWorks \in BOOLEAN
           /\ make[p].busMgr \in BOOLEAN /\ make[p].speed \in 0..kFWSpeed800MBit
           /\ make[p].guid # 0 => make[p].guid \in GUIDs
<1>1. make[p] \in UNION Range(Makes)
  BY DEF BusSound
<1>2. UNION Range(Makes) \subseteq PeerMakes
  BY BusScanAssumption DEF BusScanAssumption, Range
<1>3. make[p].guid # 0 => make[p].guid \in GUIDs
  BY <1>1 DEF GUIDs
<1>4. make[p] \in PeerMakes
  BY <1>1, <1>2
<1> QED BY <1>3, <1>4 DEF PeerMakes

(* A device that has been read, and its nub.                               *)
LEMMA DeviceUpdated ==
    ASSUME BusSound, NEW s, Fits(s), NEW p \in Peers, s.scan[p].state = "done",
           NEW garbage \in BOOLEAN, NEW R, R = updateDevice(s, p, garbage)
    PROVE  /\ Fits(R) /\ R.bus = s.bus
           /\ \A q \in Peers \ {p} : R.scan[q] = s.scan[q]
           /\ \A x \in ReadFields \ {"fMustNotBeRoot"} : R.scan[p][x] = s.scan[p][x]
           /\ \A x \in CtlFields \ {"mustBeRoot", "fNodeMustNotBeRootFlag",
                                    "fForcedGapFlag", "fBusMgr"} : R.ctl[x] = s.ctl[x]
           /\ \/ R.ctl.fBusMgr = s.ctl.fBusMgr
              \/ make[p].rom # "full" \/ make[p].busMgr
           /\ \A g \in GUIDs : R.nubs[g].node = s.nubs[g].node \/ g \notin s.ctl.dups
<1> DEFINE guid == GUIDRead(s, p)
           manager == s.ctl.fBusMgr \/ IF make[p].rom = "full" THEN make[p].busMgr
                                       ELSE garbage
           c == [s.ctl EXCEPT !.fBusMgr = manager]
           t == [s EXCEPT !.ctl = c]
           nub == [t.nubs[guid] EXCEPT !.node = p]
           all == [t.nubs EXCEPT ![guid] = nub]
           u == [t EXCEPT !.nubs = all]
<1>f. /\ DOMAIN s = {"bus", "ctl", "scan", "nubs"} /\ DOMAIN s.ctl = CtlFields
      /\ DOMAIN s.nubs = GUIDs
      /\ \A g \in GUIDs : DOMAIN s.nubs[g] = {"node", "flags"}
      /\ s.ctl.fBusMgr \in BOOLEAN
  BY DEF Fits
<1>1. /\ manager \in BOOLEAN
      /\ \/ manager = s.ctl.fBusMgr
         \/ make[p].rom # "full" \/ make[p].busMgr
  BY <1>f, MakeOfPeer
<1>2. guid # 0 => guid \in GUIDs
  BY MakeOfPeer DEF GUIDRead
<1> HIDE DEF manager
<1>3. /\ DOMAIN c = CtlFields /\ c.fBusMgr = manager
      /\ \A x \in CtlFields \ {"fBusMgr"} : c[x] = s.ctl[x]
  BY <1>f DEF CtlFields
<1>4. t = [s EXCEPT !.ctl.fBusMgr = @ \/ IF make[p].rom = "full" THEN make[p].busMgr
                                         ELSE garbage]
  BY <1>f DEF manager
<1>u. u = [t EXCEPT !.nubs[guid].node = p]
  OBVIOUS
<1>5. R = IF guid \in {0} \cup s.ctl.dups THEN t ELSE configureNode(u, p)
  <2> HIDE DEF t, u
  <2> QED BY <1>4, <1>u DEF updateDevice
<1> HIDE DEF c
<1>6. /\ DOMAIN t = DOMAIN s /\ t.bus = s.bus /\ t.ctl = c /\ t.scan = s.scan
      /\ t.nubs = s.nubs
  BY <1>3, ControlSet
<1>7. Fits(t)
  BY <1>1, <1>3, <1>6 DEF Fits, CtlFields
<1> HIDE DEF t
<1>8. CASE guid \in {0} \cup s.ctl.dups
  BY <1>1, <1>3, <1>5, <1>6, <1>7, <1>8
<1>9. CASE guid \notin {0} \cup s.ctl.dups
  <2>1. guid \in GUIDs
    BY <1>2, <1>9
  <2>2. /\ DOMAIN nub = {"node", "flags"} /\ nub.node = p
    BY <1>6, <1>f, <2>1
  <2> HIDE DEF nub, guid
  <2>3. /\ DOMAIN all = GUIDs /\ all[guid] = nub
        /\ \A g \in GUIDs \ {guid} : all[g] = s.nubs[g]
    BY <1>6, <1>f, <2>1
  <2> HIDE DEF all
  <2>4. /\ DOMAIN u = DOMAIN t /\ u.bus = t.bus /\ u.ctl = t.ctl /\ u.scan = t.scan
        /\ u.nubs = all
    BY <1>6, <1>f
  <2> HIDE DEF u
  <2>5. \A g \in GUIDs : /\ DOMAIN all[g] = {"node", "flags"}
                         /\ all[g].node \in Peers \cup {NoNode}
    BY <2>2, <2>3 DEF Fits
  <2>6. Fits(u)
    BY <1>7, <2>3, <2>4, <2>5 DEF Fits
  <2>7. R = configureNode(u, p)
    BY <1>5, <1>9
  <2>8. u.scan[p].state = "done"
    BY <2>4, <1>6
  <2>9. /\ Fits(R) /\ R.bus = u.bus /\ R.nubs = u.nubs
        /\ \A q \in Peers \ {p} : R.scan[q] = u.scan[q]
        /\ \A x \in CtlFields \ {"mustBeRoot", "fNodeMustNotBeRootFlag",
                                 "fForcedGapFlag"} : R.ctl[x] = u.ctl[x]
        /\ \A x \in ReadFields \ {"fMustNotBeRoot"} : R.scan[p][x] = u.scan[p][x]
    BY <2>6, <2>7, <2>8, Configured
  <2>10. R.ctl.fBusMgr = manager
    BY <2>9, <2>4, <1>6, <1>3 DEF CtlFields
  <2>11. \A x \in CtlFields \ {"mustBeRoot", "fNodeMustNotBeRootFlag",
                               "fForcedGapFlag", "fBusMgr"} : R.ctl[x] = s.ctl[x]
    BY <2>9, <2>4, <1>6, <1>3
  <2>12. \A g \in GUIDs : R.nubs[g].node = s.nubs[g].node \/ g \notin s.ctl.dups
    BY <2>9, <2>4, <2>3, <1>9
  <2> QED BY <2>9, <2>10, <2>11, <2>12, <2>4, <1>6, <1>1
<1> QED BY <1>8, <1>9

LEMMA ScannedKeeps ==
    ASSUME BusSound, NEW s, ScanSound(s), NEW p \in Peers, s.scan[p].state = "reading",
           NEW garbage \in BOOLEAN, NEW ping,
           /\ p = IRMNode /\ s.scan[p].speed > 0
           /\ make[p].rom = "full" /\ BadIRM(make[p])
           => s.scan[p].fIRMisBad /\ s.ctl.fBadIRMsKnown,
           NEW R, R = Scanned(s, p, garbage, ping)
    PROVE  ScanSound(R) /\ ScanOver(R)
<1> DEFINE r == [s.scan[p] EXCEPT !.state = "done"]
           scans == [s.scan EXCEPT ![p] = r]
           t == [s EXCEPT !.scan = scans]
           u == updateDevice(t, p, garbage)
<1>f. /\ Fits(s) /\ DOMAIN s = {"bus", "ctl", "scan", "nubs"} /\ DOMAIN s.ctl = CtlFields
      /\ DOMAIN s.scan = Peers /\ DOMAIN s.scan[p] = ReadFields
  BY DEF ScanSound, Fits, ScanFits
<1>1. R = OneNodeLess(u, ping)
  <2>1. t = [s EXCEPT !.scan[p].state = "done"]
    OBVIOUS
  <2> HIDE DEF t
  <2> QED BY <2>1 DEF Scanned
<1>2. /\ DOMAIN r = ReadFields /\ r.state = "done"
      /\ \A x \in ReadFields \ {"state"} : r[x] = s.scan[p][x]
  BY <1>f DEF ReadFields
<1> HIDE DEF r
<1>3. ScanFits(r)
  BY <1>2 DEF ScanFits, ScanStates, ReadFields
<1>4. scans = [s.scan EXCEPT ![p] = r]
  OBVIOUS
<1> HIDE DEF scans
<1>5. t = [s EXCEPT !.scan = scans]
  OBVIOUS
<1> HIDE DEF t
<1>6. /\ Fits(t) /\ t.bus = s.bus /\ t.ctl = s.ctl /\ t.nubs = s.nubs
      /\ t.scan[p] = r /\ \A q \in Peers \ {p} : t.scan[q] = s.scan[q]
  BY <1>f, <1>3, <1>4, <1>5, OneScanSet
<1>7. u = updateDevice(t, p, garbage) /\ t.scan[p].state = "done"
  BY <1>2, <1>6
<1> HIDE DEF u
<1>8. /\ Fits(u) /\ u.bus = t.bus
      /\ \A q \in Peers \ {p} : u.scan[q] = t.scan[q]
      /\ \A x \in ReadFields \ {"fMustNotBeRoot"} : u.scan[p][x] = t.scan[p][x]
      /\ \A x \in CtlFields \ {"mustBeRoot", "fNodeMustNotBeRootFlag",
                               "fForcedGapFlag", "fBusMgr"} : u.ctl[x] = t.ctl[x]
      /\ \/ u.ctl.fBusMgr = t.ctl.fBusMgr
         \/ make[p].rom # "full" \/ make[p].busMgr
      /\ \A g \in GUIDs : u.nubs[g].node = t.nubs[g].node \/ g \notin t.ctl.dups
  BY <1>6, <1>7, DeviceUpdated
<1>9. /\ u.scan[p].state = "done" /\ u.scan[p].speed = s.scan[p].speed
      /\ u.scan[p].fIRMisBad = s.scan[p].fIRMisBad
  BY <1>2, <1>6, <1>8 DEF ReadFields
<1>10. /\ u.ctl.fBadIRMsKnown = s.ctl.fBadIRMsKnown
       /\ \A x \in {"state", "reset", "finished", "fNumROMReads", "dups"} :
             u.ctl[x] = s.ctl[x]
  BY <1>6, <1>8 DEF CtlFields
<1>11. s.ctl.fBadIRMsKnown \in BOOLEAN /\ ScanFits(u.scan[p])
  BY <1>f, <1>8 DEF Fits
<1>12. Uncounted(u)
  <2> DEFINE known == s.ctl.fBadIRMsKnown
             q0 == u.scan[p]
  <2>1. /\ ScanFits(q0) /\ q0.state \in {"dummy", "done"} /\ known \in BOOLEAN
        /\ p = IRMNode =>
              /\ q0.state = "dummy" => known
              /\ /\ q0.state = "done" /\ q0.speed > 0
                    /\ make[p].rom = "full" /\ BadIRM(make[p])
                 => q0.fIRMisBad /\ known
    BY <1>9, <1>11
  <2>2. \A q \in Peers \ {p} : u.scan[q] = s.scan[q]
    BY <1>6, <1>8
  <2>3. \/ u.ctl.fBusMgr = s.ctl.fBusMgr
        \/ q0.state = "done" /\ (make[p].rom # "full" \/ make[p].busMgr)
    BY <1>6, <1>8, <1>9
  <2>4. \A g \in GUIDs : u.nubs[g].node = s.nubs[g].node \/ g \notin s.ctl.dups
    BY <1>6, <1>8
  <2>5. u.bus = s.bus /\ u.ctl.fBadIRMsKnown = known /\ u.scan[p] = q0
    BY <1>6, <1>8, <1>10
  <2> HIDE DEF known, q0
  <2>6. s.ctl.fBadIRMsKnown => known
    BY DEF known
  <2>7. /\ Fits(u)
        /\ \A x \in {"state", "reset", "finished", "fNumROMReads", "dups"} :
              u.ctl[x] = s.ctl[x]
    BY <1>8, <1>10
  <2> QED BY <2>1, <2>2, <2>3, <2>4, <2>5, <2>6, <2>7, ReadIsOver
<1> QED BY <1>1, <1>12, OneNodeLessKeeps

(* A read that has worked: no answer of a bad resource manager to the code *)
(* that checks it is one.                                                  *)
LEMMA NextReadKeeps ==
    ASSUME BusSound, NEW s, ScanSound(s), NEW p \in Peers, s.scan[p].state = "reading",
           NEW garbage \in BOOLEAN, NEW ping,
           p = IRMNode /\ BadIRM(make[p]) /\ s.scan[p].fContenderNeedsChecking =>
               ~s.scan[p].fIRMCheckingRead,
           NEW R, R = NextRead(s, p, garbage, ping)
    PROVE  ScanSound(R) /\ ScanOver(R)
<1> DEFINE r == s.scan[p]
<1>f. /\ DOMAIN s = {"bus", "ctl", "scan", "nubs"} /\ DOMAIN s.scan = Peers
      /\ DOMAIN r = ReadFields /\ r.fRead \in {0, 8, 12, 16} /\ r.state = "reading"
      /\ s.ctl.finished = 0
  BY BeingRead
<1>m. p = IRMNode =>
         /\ r.fRead # 0 => make[p].rom = "full"
         /\ BadIRM(make[p]) =>
               r.fContenderNeedsChecking \/ (r.fIRMisBad /\ s.ctl.fBadIRMsKnown)
  BY <1>f DEF ScanSound, ManagerIsRead
<1>c. Fits(s) /\ DOMAIN s.ctl = CtlFields /\ s.ctl.fBadIRMsKnown \in BOOLEAN
  BY DEF ScanSound, Fits
<1>1. ASSUME NEW v, DOMAIN v = ReadFields, v.state = "reading", v.fRead \in {0, 8, 12, 16},
             p = IRMNode =>
                 /\ v.fRead # 0 => make[p].rom = "full"
                 /\ BadIRM(make[p]) =>
                       v.fContenderNeedsChecking \/ (v.fIRMisBad /\ s.ctl.fBadIRMsKnown),
             R = [s EXCEPT !.scan = [s.scan EXCEPT ![p] = v]]
      PROVE  ScanSound(R) /\ ScanOver(R)
  <2> DEFINE scans == [s.scan EXCEPT ![p] = v]
  <2>1. scans = [s.scan EXCEPT ![p] = v] /\ R = [s EXCEPT !.scan = scans]
    BY <1>1
  <2> HIDE DEF scans
  <2>2. /\ DOMAIN R = DOMAIN s /\ R.bus = s.bus /\ R.nubs = s.nubs /\ R.ctl = s.ctl
        /\ DOMAIN R.scan = Peers /\ R.scan[p] = v
        /\ \A q \in Peers \ {p} : R.scan[q] = s.scan[q]
    BY <2>1, <1>c, OneScanSet
  <2>3. /\ DOMAIN R.scan[p] = ReadFields /\ R.scan[p].state = "reading"
        /\ R.scan[p].fRead \in {0, 8, 12, 16}
        /\ p = IRMNode =>
              /\ R.scan[p].fRead # 0 => make[p].rom = "full"
              /\ BadIRM(make[p]) => \/ R.scan[p].fContenderNeedsChecking
                                    \/ R.scan[p].fIRMisBad /\ R.ctl.fBadIRMsKnown
    BY <1>1, <2>2
  <2>4. /\ DOMAIN R.ctl = CtlFields /\ R.ctl.fBadIRMsKnown \in BOOLEAN
        /\ s.ctl.fBadIRMsKnown => R.ctl.fBadIRMsKnown
        /\ \A x \in CtlFields \ {"fBadIRMsKnown"} : R.ctl[x] = s.ctl[x]
    BY <2>2, <1>c
  <2> QED BY <2>2, <2>3, <2>4, ReadGoesOn
<1> DEFINE checks == /\ r.fRead = 16 /\ r.fContenderNeedsChecking
                     /\ r.speed > 0 /\ IRMChecked(s, p)
<1>2. CASE r.fRead = 0 /\ make[p].rom = "full"
  <2> DEFINE v == [r EXCEPT !.fRead = 8]
  <2>1. R = [s EXCEPT !.scan = [s.scan EXCEPT ![p] = v]]
    BY <1>2 DEF NextRead
  <2>2. /\ DOMAIN v = ReadFields /\ v.fRead = 8
        /\ \A x \in ReadFields \ {"fRead"} : v[x] = r[x]
    BY <1>f DEF ReadFields
  <2> HIDE DEF v
  <2>3. /\ v.state = "reading" /\ v.fRead \in {0, 8, 12, 16}
        /\ v.fContenderNeedsChecking = r.fContenderNeedsChecking
        /\ v.fIRMisBad = r.fIRMisBad
    BY <2>2, <1>f DEF ReadFields
  <2> HIDE DEF r
  <2> QED BY <1>1, <1>2, <1>m, <2>1, <2>2, <2>3
<1>3. CASE r.fRead \in {8, 12}
  <2> DEFINE v == [r EXCEPT !.fRead = @ + 4]
  <2>1. R = [s EXCEPT !.scan = [s.scan EXCEPT ![p] = v]]
    BY <1>3 DEF NextRead
  <2>2. /\ DOMAIN v = ReadFields /\ v.fRead \in {12, 16}
        /\ \A x \in ReadFields \ {"fRead"} : v[x] = r[x]
    BY <1>f, <1>3 DEF ReadFields
  <2> HIDE DEF v
  <2>3. /\ v.state = "reading" /\ v.fRead \in {0, 8, 12, 16}
        /\ v.fContenderNeedsChecking = r.fContenderNeedsChecking
        /\ v.fIRMisBad = r.fIRMisBad
    BY <2>2, <1>f DEF ReadFields
  <2>4. r.fRead # 0
    BY <1>3
  <2> HIDE DEF r
  <2> QED BY <1>1, <1>m, <2>1, <2>2, <2>3, <2>4
<1>4. CASE checks /\ ~r.fIRMCheckingRead
  <2> DEFINE v == [r EXCEPT !.fIRMCheckingRead = TRUE]
  <2>1. R = [s EXCEPT !.scan = [s.scan EXCEPT ![p] = v]]
    BY <1>4 DEF NextRead
  <2>2. /\ DOMAIN v = ReadFields
        /\ \A x \in ReadFields \ {"fIRMCheckingRead"} : v[x] = r[x]
    BY <1>f DEF ReadFields
  <2> HIDE DEF v
  <2>3. /\ v.state = "reading" /\ v.fRead = r.fRead
        /\ v.fContenderNeedsChecking = r.fContenderNeedsChecking
        /\ v.fIRMisBad = r.fIRMisBad
    BY <2>2, <1>f DEF ReadFields
  <2> HIDE DEF r
  <2> QED BY <1>1, <1>f, <1>m, <2>1, <2>2, <2>3
<1>5. CASE checks /\ r.fIRMCheckingRead
  <2> DEFINE w == [r EXCEPT !.fIRMCheckingLock = TRUE]
             v == [w EXCEPT !.fContenderNeedsChecking = FALSE]
  <2>1. R = [s EXCEPT !.scan[p].fIRMCheckingLock = TRUE,
                      !.scan[p].fContenderNeedsChecking = FALSE]
    BY <1>5 DEF NextRead
  <2>2. R = [s EXCEPT !.scan = [s.scan EXCEPT ![p] = v]]
    BY <2>1, <1>f
  <2>3. /\ DOMAIN v = ReadFields
        /\ \A x \in ReadFields \ {"fIRMCheckingLock", "fContenderNeedsChecking"} :
              v[x] = r[x]
    BY <1>f DEF ReadFields
  <2> HIDE DEF v
  <2>4. /\ v.state = "reading" /\ v.fRead = r.fRead /\ v.fIRMisBad = r.fIRMisBad
    BY <2>3, <1>f DEF ReadFields
  <2>5. p = IRMNode /\ BadIRM(make[p]) => r.fIRMisBad /\ s.ctl.fBadIRMsKnown
    BY <1>5, <1>m
  <2> HIDE DEF r
  <2> QED BY <1>1, <1>f, <1>m, <2>2, <2>3, <2>4, <2>5
<1>6. CASE ~(r.fRead = 0 /\ make[p].rom = "full") /\ r.fRead \notin {8, 12} /\ ~checks
  <2>1. R = Scanned(s, p, garbage, ping)
    BY <1>6 DEF NextRead
  <2>2. /\ p = IRMNode /\ r.speed > 0 /\ make[p].rom = "full" /\ BadIRM(make[p])
        => r.fIRMisBad /\ s.ctl.fBadIRMsKnown
    BY <1>6, <1>f, <1>m DEF IRMChecked
  <2> QED BY <2>1, <2>2, ScannedKeeps
<1> QED BY <1>2, <1>3, <1>4, <1>5, <1>6

LEMMA readDeviceROMKeeps ==
    ASSUME BusSound, NEW s, ScanSound(s), NEW p \in Peers, s.scan[p].state = "reading",
           NEW status \in {"success", "timeout", "error"},
           NEW garbage \in BOOLEAN, NEW ping,
           status = "success" /\ p = IRMNode /\ BadIRM(make[p]) =>
               ~s.scan[p].fIRMCheckingRead,
           NEW R, R = readDeviceROM(s, p, status, garbage, ping)
    PROVE  ScanSound(R) /\ ScanOver(R)
<1> DEFINE r == s.scan[p]
           checking == r.fIRMCheckingRead \/ r.fIRMCheckingLock
<1>f. /\ DOMAIN s = {"bus", "ctl", "scan", "nubs"} /\ DOMAIN s.scan = Peers
      /\ DOMAIN s.ctl = CtlFields /\ DOMAIN r = ReadFields /\ r.fRead \in {0, 8, 12, 16}
      /\ s.ctl.finished = 0 /\ r.state = "reading"
  BY BeingRead
<1>m. p = IRMNode =>
         /\ r.fRead # 0 => make[p].rom = "full"
         /\ BadIRM(make[p]) =>
               r.fContenderNeedsChecking \/ (r.fIRMisBad /\ s.ctl.fBadIRMsKnown)
  BY <1>f DEF ScanSound, ManagerIsRead
<1>c. Fits(s) /\ s.ctl.fBadIRMsKnown \in BOOLEAN
  BY DEF ScanSound, Fits
<1>1. ASSUME NEW v, DOMAIN v = ReadFields, v.state = "reading", v.fRead = r.fRead,
             v.fContenderNeedsChecking = r.fContenderNeedsChecking,
             v.fIRMisBad = r.fIRMisBad,
             R = [s EXCEPT !.scan = [s.scan EXCEPT ![p] = v]]
      PROVE  ScanSound(R) /\ ScanOver(R)
  <2> DEFINE scans == [s.scan EXCEPT ![p] = v]
  <2>1. scans = [s.scan EXCEPT ![p] = v] /\ R = [s EXCEPT !.scan = scans]
    BY <1>1
  <2> HIDE DEF scans
  <2>2. /\ DOMAIN R = DOMAIN s /\ R.bus = s.bus /\ R.nubs = s.nubs /\ R.ctl = s.ctl
        /\ DOMAIN R.scan = Peers /\ R.scan[p] = v
        /\ \A q \in Peers \ {p} : R.scan[q] = s.scan[q]
    BY <2>1, <1>c, OneScanSet
  <2>3. /\ DOMAIN R.scan[p] = ReadFields /\ R.scan[p].state = "reading"
        /\ R.scan[p].fRead \in {0, 8, 12, 16}
        /\ p = IRMNode =>
              /\ R.scan[p].fRead # 0 => make[p].rom = "full"
              /\ BadIRM(make[p]) => \/ R.scan[p].fContenderNeedsChecking
                                    \/ R.scan[p].fIRMisBad /\ R.ctl.fBadIRMsKnown
    BY <1>1, <1>f, <1>m, <2>2
  <2>4. /\ DOMAIN R.ctl = CtlFields /\ R.ctl.fBadIRMsKnown \in BOOLEAN
        /\ s.ctl.fBadIRMsKnown => R.ctl.fBadIRMsKnown
        /\ \A x \in CtlFields \ {"fBadIRMsKnown"} : R.ctl[x] = s.ctl[x]
    BY <2>2, <1>c, <1>f
  <2> QED BY <2>2, <2>3, <2>4, ReadGoesOn
<1>2. CASE status = "success"
  <2>1. R = NextRead(s, p, garbage, ping)
    BY <1>2 DEF readDeviceROM
  <2> QED BY <1>2, <2>1, NextReadKeeps
<1>3. CASE status # "success" /\ checking
  <2> DEFINE known == s.ctl.fBadIRMsKnown \/ p = IRMNode
             c == [s.ctl EXCEPT !.fBadIRMsKnown = known]
             w == [r EXCEPT !.fIRMisBad = TRUE]
             v == [w EXCEPT !.fContenderNeedsChecking = FALSE]
             scans == [s.scan EXCEPT ![p] = v]
             t == [s EXCEPT !.ctl = c]
             u == [t EXCEPT !.scan = scans]
  <2>1. R = NextRead(u, p, garbage, ping)
    <3>1. u = [s EXCEPT !.ctl.fBadIRMsKnown = @ \/ p = IRMNode,
                        !.scan[p].fIRMisBad = TRUE,
                        !.scan[p].fContenderNeedsChecking = FALSE]
      BY <1>f
    <3> HIDE DEF u
    <3> QED BY <1>3, <3>1 DEF readDeviceROM
  <2>2. /\ DOMAIN v = ReadFields /\ v.state = "reading" /\ v.fRead = r.fRead
        /\ v.fIRMisBad /\ ~v.fContenderNeedsChecking
    BY <1>f DEF ReadFields
  <2>k. known \in BOOLEAN /\ (s.ctl.fBadIRMsKnown => known) /\ (p = IRMNode => known)
    BY <1>c
  <2> HIDE DEF known
  <2>3. /\ DOMAIN c = CtlFields /\ c.fBadIRMsKnown = known
        /\ \A x \in CtlFields \ {"fBadIRMsKnown"} : c[x] = s.ctl[x]
    BY <1>f DEF CtlFields
  <2> HIDE DEF c, v
  <2>4. /\ DOMAIN scans = Peers /\ scans[p] = v
        /\ \A q \in Peers \ {p} : scans[q] = s.scan[q]
    BY <1>f
  <2> HIDE DEF scans
  <2>5. /\ DOMAIN u = DOMAIN s /\ u.bus = s.bus /\ u.nubs = s.nubs
        /\ u.ctl = c /\ u.scan = scans
    BY <1>f
  <2> HIDE DEF u, t
  <2>6. /\ DOMAIN u.scan = Peers /\ \A q \in Peers \ {p} : u.scan[q] = s.scan[q]
        /\ DOMAIN u.scan[p] = ReadFields /\ u.scan[p].state = "reading"
        /\ u.scan[p].fRead \in {0, 8, 12, 16}
        /\ DOMAIN u.ctl = CtlFields /\ u.ctl.fBadIRMsKnown \in BOOLEAN
        /\ s.ctl.fBadIRMsKnown => u.ctl.fBadIRMsKnown
        /\ \A x \in CtlFields \ {"fBadIRMsKnown"} : u.ctl[x] = s.ctl[x]
    BY <1>f, <2>2, <2>k, <2>3, <2>4, <2>5
  <2>7. p = IRMNode =>
           /\ u.scan[p].fRead # 0 => make[p].rom = "full"
           /\ BadIRM(make[p]) => \/ u.scan[p].fContenderNeedsChecking
                                 \/ u.scan[p].fIRMisBad /\ u.ctl.fBadIRMsKnown
    BY <1>m, <2>2, <2>k, <2>3, <2>4, <2>5
  <2>8. ScanSound(u)
    BY <2>5, <2>6, <2>7, ReadGoesOn
  <2>9. ~u.scan[p].fContenderNeedsChecking
    BY <2>2, <2>4, <2>5
  <2> QED BY <2>1, <2>6, <2>8, <2>9, NextReadKeeps
<1>4. CASE status = "timeout" /\ ~checking /\ ~r.fRetriesBumped
  <2> DEFINE v == [r EXCEPT !.fRetriesBumped = TRUE]
  <2>1. R = [s EXCEPT !.scan = [s.scan EXCEPT ![p] = v]]
    BY <1>4 DEF readDeviceROM
  <2>2. /\ DOMAIN v = ReadFields /\ v.state = "reading" /\ v.fRead = r.fRead
        /\ v.fContenderNeedsChecking = r.fContenderNeedsChecking
        /\ v.fIRMisBad = r.fIRMisBad
    BY <1>f DEF ReadFields
  <2> HIDE DEF v, r
  <2> QED BY <1>1, <2>1, <2>2
<1>5. CASE /\ status # "success" /\ ~checking
           /\ status = "timeout" => r.fRetriesBumped
  <2>1. R = IF r.speedChecking /\ r.speed > 0
            THEN StepsDown(s, p) ELSE DummyEntry(s, p, ping)
    BY <1>5 DEF readDeviceROM
  <2>2. CASE ~(r.speedChecking /\ r.speed > 0)
    BY <2>1, <2>2, DummyEntryKeeps
  <2>3. CASE r.speedChecking /\ r.speed > 0
    <3> DEFINE slower == IF fDSLimited THEN 0 ELSE r.speed - 1
               w == [r EXCEPT !.speed = slower]
               v == [w EXCEPT !.fRetriesBumped = FALSE]
    <3>1. R = [s EXCEPT !.scan[p].speed = slower,
                        !.scan[p].fRetriesBumped = FALSE]
      BY <2>1, <2>3 DEF StepsDown
    <3> HIDE DEF slower
    <3>2. R = [s EXCEPT !.scan = [s.scan EXCEPT ![p] = v]]
      BY <3>1, <1>f
    <3>3. /\ DOMAIN v = ReadFields /\ v.state = "reading" /\ v.fRead = r.fRead
          /\ v.fContenderNeedsChecking = r.fContenderNeedsChecking
          /\ v.fIRMisBad = r.fIRMisBad
      BY <1>f DEF ReadFields
    <3> HIDE DEF v, r
    <3> QED BY <1>1, <3>2, <3>3
  <2> QED BY <2>2, <2>3
<1> QED BY <1>2, <1>3, <1>4, <1>5

-----------------------------------------------------------------------------
(* The steps.                                                              *)

LEMMA NowIs ==
    /\ DOMAIN Now = {"bus", "ctl", "scan", "nubs"}
    /\ Now.bus = bus /\ Now.ctl = ctl /\ Now.scan = scan /\ Now.nubs = nubs
  BY DEF Now

LEMMA ManagerStays ==
    ASSUME UNCHANGED <<make, ids, selfIDs>>
    PROVE  IRMNode' = IRMNode /\ Contenders' = Contenders
<1>1. Contenders' = Contenders
  BY DEF Contenders, Contender
<1> QED BY <1>1 DEF IRMNode, LastOf

LEMMA Handled ==
    ASSUME BusSound, NEW R, ScanSound(R), ScanOver(R), Becomes(R),
           UNCHANGED <<make, ids, selfIDs>>
    PROVE  ScanInv'
<1>1. /\ bus' = R.bus /\ ctl' = R.ctl /\ scan' = R.scan /\ nubs' = R.nubs
      /\ make' = make /\ ids' = ids /\ selfIDs' = selfIDs
      /\ IRMNode' = IRMNode /\ OnTheBus' = OnTheBus /\ SameGaps' = SameGaps
      /\ RootNode' = RootNode /\ OnlyNode' = OnlyNode
  BY ManagerStays DEF Becomes, OnTheBus, SameGaps, RootNode, OnlyNode
<1>2. BusSound'
  BY <1>1 DEF BusSound
<1>3. Fits(Now)'
  BY <1>1 DEF Fits, Now, ScanSound
<1>4. (Reading(Now))' = Reading(R)
  BY <1>1 DEF Reading, Now
<1>5. Counts(Now)'
  BY <1>1, <1>4 DEF Counts, Now, ScanSound
<1>6. ManagerIsRead(Now)'
  BY <1>1 DEF ManagerIsRead, Now, ScanSound
<1>7. FoundOut(Now)'
  BY <1>1 DEF FoundOut, Now, ScanSound
<1>8. Decided(Now)'
  BY <1>1 DEF Decided, Now, ScanSound, Twins
<1>9. ScanOver(Now)'
  BY <1>1, <1>4 DEF ScanOver, Now
<1> QED BY <1>2, <1>3, <1>5, <1>6, <1>7, <1>8, <1>9 DEF ScanInv, ScanSound

LEMMA readROMGlueKeeps ==
    ASSUME ScanInv, NEW p \in Peers, readROMGlue(p)
    PROVE  ScanInv'
<1>1. PICK status \in {"success", "timeout", "error"},
           garbage \in BOOLEAN, ping \in PingGaps :
              /\ status = "success" => "success" \in Answers(p)
              /\ Becomes(readDeviceROM(Now, p, status, garbage, ping))
  BY DEF readROMGlue
<1>2. /\ BusSound /\ ScanSound(Now) /\ Now.scan[p].state = "reading"
      /\ UNCHANGED <<make, ids, selfIDs>>
  BY DEF ScanInv, readROMGlue, Now
<1> DEFINE R == readDeviceROM(Now, p, status, garbage, ping)
<1>3. status = "success" /\ p = IRMNode /\ BadIRM(make[p]) =>
         ~Now.scan[p].fIRMCheckingRead
  <2> SUFFICES ASSUME status = "success", BadIRM(make[p]), scan[p].fIRMCheckingRead
               PROVE  FALSE
    BY NowIs
  <2>1. "success" \in Answers(p)
    BY <1>1
  <2> QED BY <2>1 DEF Answers, BadIRM
<1>4. ScanSound(R) /\ ScanOver(R)
  BY <1>2, <1>3, readDeviceROMKeeps
<1>5. Becomes(R)
  BY <1>1
<1> HIDE DEF R
<1> QED BY <1>2, <1>4, <1>5, Handled

(* What asks for a reset of the bus keeps a sound scan sound.              *)
LEMMA AskedKeeps ==
    ASSUME BusSound, NEW s, ScanSound(s), ScanOver(s), NEW R, Fits(R),
           R.scan = s.scan, R.nubs = s.nubs, R.bus.gap = s.bus.gap,
           R.ctl.reset # "none",
           \A x \in CtlFields \ {"reset", "mustBeRoot", "fNodeMustNotBeRootFlag",
                                 "fForcedGapFlag"} : R.ctl[x] = s.ctl[x]
    PROVE  ScanSound(R) /\ ScanOver(R)
<1>1. \A x \in {"state", "finished", "fBadIRMsKnown", "fBusMgr", "fNumROMReads", "dups"} :
         R.ctl[x] = s.ctl[x]
  BY DEF CtlFields
<1>2. Reading(R) = Reading(s)
  BY DEF Reading
<1>3. Counts(R)
  BY <1>1, <1>2 DEF Counts, ScanSound
<1>4. ManagerIsRead(R)
  BY <1>1 DEF ManagerIsRead, ScanSound
<1>5. FoundOut(R)
  BY <1>1 DEF FoundOut, ScanSound
<1>6. Decided(R)
  BY <1>1 DEF Decided, ScanSound, Twins
<1>7. ScanOver(R)
  BY <1>1, <1>2 DEF ScanOver
<1> QED BY <1>3, <1>4, <1>5, <1>6, <1>7 DEF ScanSound

LEMMA ClientResetBusKeeps ==
    ASSUME ScanInv, ClientResetBus
    PROVE  ScanInv'
<1> DEFINE R == resetBus(Now)
<1>1. /\ BusSound /\ ScanSound(Now) /\ ScanOver(Now) /\ Fits(Now) /\ Becomes(R)
      /\ UNCHANGED <<make, ids, selfIDs>>
  BY DEF ScanInv, ScanSound, ClientResetBus
<1>2. R = resetBus(Now)
  OBVIOUS
<1> HIDE DEF R
<1>3. /\ Fits(R) /\ R.bus = bus /\ R.scan = scan /\ R.nubs = nubs
      /\ R.ctl = [ctl EXCEPT !.reset = IF @ = "none" THEN "scheduled" ELSE @]
      /\ R.ctl.reset # "none"
  BY <1>1, <1>2, ResetAsked, NowIs
<1>4. \A x \in CtlFields \ {"reset"} : R.ctl[x] = Now.ctl[x]
  BY <1>1, <1>3, NowIs DEF Fits
<1>5. /\ R.scan = Now.scan /\ R.nubs = Now.nubs /\ R.bus.gap = Now.bus.gap
      /\ \A x \in CtlFields \ {"reset", "mustBeRoot", "fNodeMustNotBeRootFlag",
                               "fForcedGapFlag"} : R.ctl[x] = Now.ctl[x]
  BY <1>3, <1>4, NowIs
<1>6. ScanSound(R) /\ ScanOver(R)
  BY <1>1, <1>3, <1>5, AskedKeeps
<1> QED BY <1>1, <1>6, Handled

LEMMA makeRootKeeps ==
    ASSUME ScanInv, NEW n \in Nodes, makeRoot(n)
    PROVE  ScanInv'
<1> DEFINE T == ForceRoot(Now, n)
           R == resetBus(T)
<1>1. /\ BusSound /\ ScanSound(Now) /\ ScanOver(Now) /\ Fits(Now) /\ Becomes(R)
      /\ UNCHANGED <<make, ids, selfIDs>>
  BY DEF ScanInv, ScanSound, makeRoot
<1>2. T = ForceRoot(Now, n)
  OBVIOUS
<1> HIDE DEF T
<1>3. /\ Fits(T) /\ T.ctl = ctl /\ T.scan = scan /\ T.nubs = nubs /\ T.bus.gap = bus.gap
  BY <1>1, <1>2, RootForced, NowIs
<1>r. R = resetBus(T)
  OBVIOUS
<1> HIDE DEF R
<1>4. /\ Fits(R) /\ R.bus = T.bus /\ R.scan = scan /\ R.nubs = nubs
      /\ R.ctl = [ctl EXCEPT !.reset = IF @ = "none" THEN "scheduled" ELSE @]
      /\ R.ctl.reset # "none"
  BY <1>3, <1>r, ResetAsked
<1>5. \A x \in CtlFields \ {"reset"} : R.ctl[x] = Now.ctl[x]
  BY <1>1, <1>4, NowIs DEF Fits
<1>6. /\ R.scan = Now.scan /\ R.nubs = Now.nubs /\ R.bus.gap = Now.bus.gap
      /\ \A x \in CtlFields \ {"reset", "mustBeRoot", "fNodeMustNotBeRootFlag",
                               "fForcedGapFlag"} : R.ctl[x] = Now.ctl[x]
  BY <1>3, <1>4, <1>5, NowIs
<1>7. ScanSound(R) /\ ScanOver(R)
  BY <1>1, <1>4, <1>6, AskedKeeps
<1> QED BY <1>1, <1>7, Handled

LEMMA updatePlaneKeeps ==
    ASSUME ScanInv, updatePlane
    PROVE  ScanInv'
<1> DEFINE c == [ctl EXCEPT !.state = "kRunning"]
           all == [g \in GUIDs |-> IF nubs[g].node # NoNode THEN nubs[g]
                                   ELSE [nubs[g] EXCEPT !.flags = {}]]
           R == [bus |-> bus, ctl |-> c, scan |-> scan, nubs |-> all]
<1>1. /\ BusSound /\ ScanSound(Now) /\ Fits(Now) /\ Becomes(R)
      /\ UNCHANGED <<make, ids, selfIDs>> /\ ctl.state = "kWaitingPrune"
  BY DEF ScanInv, ScanSound, updatePlane, Becomes
<1>2. /\ DOMAIN ctl = CtlFields /\ DOMAIN nubs = GUIDs
      /\ \A g \in GUIDs : /\ DOMAIN nubs[g] = {"node", "flags"}
                          /\ nubs[g].node \in Peers \cup {NoNode}
  BY <1>1, NowIs DEF Fits
<1>3. /\ DOMAIN c = CtlFields /\ c.state = "kRunning"
      /\ \A x \in CtlFields \ {"state"} : c[x] = ctl[x]
  BY <1>2 DEF CtlFields
<1>4. /\ DOMAIN all = GUIDs
      /\ \A g \in GUIDs : /\ DOMAIN all[g] = {"node", "flags"}
                          /\ all[g].node = nubs[g].node
  BY <1>2
<1> HIDE DEF c, all
<1>5. /\ DOMAIN R = DOMAIN Now /\ R.bus = bus /\ R.ctl = c /\ R.scan = scan /\ R.nubs = all
  BY NowIs
<1> HIDE DEF R
<1>6. Fits(R)
  BY <1>1, <1>2, <1>3, <1>4, <1>5, NowIs DEF Fits, CtlFields, AfterScan
<1>7. Reading(R) = Reading(Now)
  BY <1>5, NowIs DEF Reading
<1>8. Counts(R) /\ ScanOver(R)
  BY <1>1, <1>3, <1>5, <1>7, NowIs DEF ScanSound, Counts, ScanOver, CtlFields, BeforeScan, AfterScan
<1>9. ManagerIsRead(R)
  BY <1>1, <1>3, <1>5, NowIs DEF ScanSound, ManagerIsRead, CtlFields
<1>10. FoundOut(R)
  BY <1>1, <1>3, <1>4, <1>5, NowIs DEF ScanSound, FoundOut, CtlFields
<1>11. Decided(R)
  BY <1>1, <1>3, <1>5, NowIs DEF ScanSound, Decided, Twins, CtlFields, AfterScan
<1>12. ScanSound(R)
  BY <1>6, <1>8, <1>9, <1>10, <1>11 DEF ScanSound
<1> QED BY <1>1, <1>8, <1>12, Handled

LEMMA doBusResetKeeps ==
    ASSUME ScanInv, doBusReset
    PROVE  ScanInv'
<1> DEFINE s == SendsDelayed(Now)
           t == [s EXCEPT !.ctl.state = "kWaitingBusReset"]
           R == FWIMReset(t)
           sent == sendPHYPacket(Now, ctl.fDelayedPhyPacket)
<1>1. /\ BusSound /\ ScanSound(Now) /\ Fits(Now) /\ Becomes(R)
      /\ UNCHANGED <<make, ids, selfIDs>>
  BY DEF ScanInv, ScanSound, doBusReset
<1>2. /\ DOMAIN s = DOMAIN Now /\ DOMAIN s.bus = BusFields /\ DOMAIN s.ctl = CtlFields
      /\ s.bus.nodes = bus.nodes /\ s.bus.rhb \in Range(ids) \cup {NoNode}
      /\ s.scan = scan /\ s.nubs = nubs
      /\ \A x \in CtlFields \ {"fDelayedPhyPacket"} : s.ctl[x] = ctl[x]
  <2>1. CASE ctl.fDelayedPhyPacket = NoPacket
    <3>1. s = Now
      BY <2>1, NowIs DEF SendsDelayed
    <3> QED BY <3>1, <1>1, NowIs DEF Fits
  <2>2. CASE ctl.fDelayedPhyPacket # NoPacket
    <3>1. s = [sent EXCEPT !.ctl.fDelayedPhyPacket = NoPacket]
      BY <2>2, NowIs DEF SendsDelayed
    <3>2. sent = sendPHYPacket(Now, ctl.fDelayedPhyPacket)
      OBVIOUS
    <3> HIDE DEF sent, s
    <3>3. /\ DOMAIN sent = DOMAIN Now /\ DOMAIN sent.bus = BusFields
          /\ sent.ctl = ctl /\ sent.scan = scan /\ sent.nubs = nubs
          /\ sent.bus.nodes = bus.nodes /\ sent.bus.rhb \in Range(ids) \cup {NoNode}
      BY <1>1, <3>2, PacketSent, NowIs
    <3>4. DOMAIN ctl = CtlFields
      BY <1>1, NowIs DEF Fits
    <3> QED BY <3>1, <3>3, <3>4, NowIs DEF CtlFields
  <2> QED BY <2>1, <2>2
<1> HIDE DEF s
<1>3. /\ DOMAIN t = DOMAIN Now /\ t.bus = s.bus /\ t.scan = scan /\ t.nubs = nubs
      /\ DOMAIN t.ctl = CtlFields /\ t.ctl.state = "kWaitingBusReset"
      /\ \A x \in CtlFields \ {"fDelayedPhyPacket", "state"} : t.ctl[x] = ctl[x]
  BY <1>2, NowIs DEF CtlFields
<1> HIDE DEF t
<1>4. R = [t EXCEPT !.ctl.reset = "issued"]
  BY DEF FWIMReset
<1> HIDE DEF R
<1>5. /\ DOMAIN R = DOMAIN Now /\ R.bus = s.bus /\ R.scan = scan /\ R.nubs = nubs
      /\ DOMAIN R.ctl = CtlFields /\ R.ctl.state = "kWaitingBusReset"
      /\ R.ctl.reset = "issued"
      /\ \A x \in CtlFields \ {"fDelayedPhyPacket", "state", "reset"} : R.ctl[x] = ctl[x]
  BY <1>3, <1>4, NowIs DEF CtlFields
<1>6. /\ R.ctl.mustBeRoot = ctl.mustBeRoot /\ R.ctl.fBadIRMsKnown = ctl.fBadIRMsKnown
      /\ R.ctl.fBusMgr = ctl.fBusMgr /\ R.ctl.fNumROMReads = ctl.fNumROMReads
      /\ R.ctl.finished = ctl.finished /\ R.ctl.dups = ctl.dups
  BY <1>5 DEF CtlFields
<1>7. Fits(R)
  BY <1>1, <1>2, <1>5, <1>6, NowIs DEF Fits
<1>8. Reading(R) = Reading(Now)
  BY <1>5, NowIs DEF Reading
<1>9. Counts(R) /\ ScanOver(R)
  BY <1>1, <1>5, <1>6, <1>8, NowIs DEF ScanSound, Counts, ScanOver, BeforeScan, AfterScan
<1>10. ManagerIsRead(R)
  BY <1>1, <1>5, <1>6, NowIs DEF ScanSound, ManagerIsRead
<1>11. FoundOut(R)
  BY <1>1, <1>5, <1>6, NowIs DEF ScanSound, FoundOut
<1>12. Decided(R)
  BY <1>5 DEF Decided, AfterScan
<1>13. ScanSound(R)
  BY <1>7, <1>9, <1>10, <1>11, <1>12 DEF ScanSound
<1> QED BY <1>1, <1>9, <1>13, Handled

LEMMA setNodeFlagsKeeps ==
    ASSUME ScanInv, NEW g \in GUIDs, setNodeFlags(g)
    PROVE  ScanInv'
<1> DEFINE p == nubs[g].node
           nub == [nubs[g] EXCEPT !.flags = make[p].flags]
           all == [nubs EXCEPT ![g] = nub]
           t == [Now EXCEPT !.nubs = all]
           R == configureNode(t, p)
<1>1. /\ BusSound /\ ScanSound(Now) /\ ScanOver(Now) /\ Fits(Now) /\ p # NoNode
      /\ UNCHANGED <<make, ids, selfIDs>>
  BY DEF ScanInv, ScanSound, setNodeFlags
<1>2. Becomes(R)
  <2>1. t = [Now EXCEPT !.nubs[g].flags = make[p].flags]
    BY NowIs
  <2> HIDE DEF t
  <2> QED BY <2>1 DEF setNodeFlags
<1>3. /\ DOMAIN nubs = GUIDs
      /\ \A h \in GUIDs : /\ DOMAIN nubs[h] = {"node", "flags"}
                          /\ nubs[h].node \in Peers \cup {NoNode}
  BY <1>1, NowIs DEF Fits
<1>4. p \in Peers
  BY <1>1, <1>3
<1>5. DOMAIN nub = {"node", "flags"} /\ nub.node = nubs[g].node
  BY <1>3
<1> HIDE DEF nub
<1>6. /\ DOMAIN all = GUIDs
      /\ \A h \in GUIDs : DOMAIN all[h] = {"node", "flags"} /\ all[h].node = nubs[h].node
  BY <1>3, <1>5
<1> HIDE DEF all
<1>7. /\ DOMAIN t = DOMAIN Now /\ t.bus = bus /\ t.ctl = ctl /\ t.scan = scan
      /\ t.nubs = all
  BY NowIs
<1>8. Fits(t)
  BY <1>1, <1>3, <1>6, <1>7, NowIs DEF Fits
<1>r. R = configureNode(t, p)
  OBVIOUS
<1> HIDE DEF R, t, p
<1>9. /\ Fits(R) /\ R.bus = bus /\ R.nubs = all
      /\ \A q \in Peers \ {p} : R.scan[q] = scan[q]
      /\ \A x \in CtlFields \ {"mustBeRoot", "fNodeMustNotBeRootFlag",
                               "fForcedGapFlag"} : R.ctl[x] = ctl[x]
      /\ R.scan[p] = scan[p] \/ scan[p].state = "done"
      /\ scan[p].state = "done" =>
            \A x \in ReadFields \ {"fMustNotBeRoot"} : R.scan[p][x] = scan[p][x]
  BY <1>4, <1>7, <1>8, <1>r, Configured
<1>10. \A q \in Peers :
          /\ R.scan[q].state = scan[q].state
          /\ \/ R.scan[q] = scan[q]
             \/ /\ scan[q].state = "done" /\ R.scan[q].speed = scan[q].speed
                /\ R.scan[q].fIRMisBad = scan[q].fIRMisBad
  BY <1>9 DEF ReadFields
<1>11. \A x \in {"state", "reset", "finished", "fBadIRMsKnown", "fBusMgr",
                 "fNumROMReads", "dups"} : R.ctl[x] = ctl[x]
  BY <1>9 DEF CtlFields
<1>12. Reading(R) = Reading(Now)
  BY <1>10, NowIs DEF Reading
<1>13. Counts(R) /\ ScanOver(R)
  BY <1>1, <1>10, <1>11, <1>12, NowIs DEF ScanSound, Counts, ScanOver, OnTheBus
<1>14. ManagerIsRead(R)
  BY <1>1, <1>10, <1>11, NowIs DEF ScanSound, ManagerIsRead
<1>15. FoundOut(R)
  BY <1>1, <1>6, <1>9, <1>10, <1>11, NowIs DEF ScanSound, FoundOut, OnTheBus
<1>16. Decided(R)
  BY <1>1, <1>10, <1>11, NowIs DEF ScanSound, Decided, Twins, AfterScan
<1>17. ScanSound(R)
  BY <1>9, <1>13, <1>14, <1>15, <1>16 DEF ScanSound
<1> QED BY <1>1, <1>2, <1>13, <1>17, Handled

LEMMA SelfIDsInOrder ==
    ASSUME NEW nodes, IsFiniteSet(nodes), nodes # {}, NEW order \in SetToSeqs(nodes)
    PROVE  /\ order \in Seq(nodes) /\ Len(order) > 0
           /\ \A i, j \in DOMAIN order : order[i] = order[j] => i = j
           /\ Range(order) = nodes
<1> DEFINE n == Cardinality(nodes)
<1>1. n \in Nat /\ n # 0
  BY FS_CardinalityType, FS_EmptySet
<1>2. /\ order \in [1..n -> nodes]
      /\ \A i, j \in 1..n : order[i] = order[j] => i = j
  BY DEF SetToSeqs
<1> HIDE DEF n
<1>3. order \in Injection(1..n, nodes)
  BY <1>2 DEF Injection, IsInjective
<1>4. IsFiniteSet(1..n) /\ Cardinality(1..n) = n
  BY <1>1, FS_Interval
<1>5. order \in Surjection(1..n, nodes)
  BY <1>3, <1>4, FS_Injection DEF n
<1>6. \A m \in nodes : \E i \in 1..n : order[i] = m
  BY <1>5 DEF Surjection
<1>7. Range(order) = nodes
  BY <1>2, <1>6 DEF Range
<1>8. order \in Seq(nodes) /\ Len(order) = n
  BY <1>1, <1>2
<1> QED BY <1>1, <1>2, <1>7, <1>8

LEMMA BusSuspended ==
    ASSUME NEW s, DOMAIN s = {"bus", "ctl", "scan", "nubs"}, DOMAIN s.ctl = CtlFields,
           DOMAIN s.nubs = GUIDs, \A g \in GUIDs : DOMAIN s.nubs[g] = {"node", "flags"},
           NEW R, R = SuspendBus(s)
    PROVE  /\ DOMAIN R = DOMAIN s /\ R.bus = s.bus /\ DOMAIN R.ctl = CtlFields
           /\ R.ctl.mustBeRoot = NoNode /\ R.ctl.reset = "none" /\ R.ctl.finished = 0
           /\ ~R.ctl.fBusMgr /\ R.ctl.fBusMgr \in BOOLEAN
           /\ R.ctl.fBadIRMsKnown = s.ctl.fBadIRMsKnown
           /\ R.ctl.fNumROMReads = s.ctl.fNumROMReads
           /\ DOMAIN R.scan = Peers /\ \A p \in Peers : R.scan[p] = NoScan
           /\ DOMAIN R.nubs = GUIDs
           /\ \A g \in GUIDs : /\ DOMAIN R.nubs[g] = {"node", "flags"}
                               /\ R.nubs[g].node = NoNode
<1> DEFINE c == [s.ctl EXCEPT !.mustBeRoot = NoNode,
                              !.fNodeMustNotBeRootFlag = FALSE,
                              !.fForcedGapFlag = FALSE,
                              !.reset = "none", !.finished = 0, !.fBusMgr = FALSE]
           scans == [p \in Peers |-> NoScan]
           all == [g \in GUIDs |-> [s.nubs[g] EXCEPT !.node = NoNode]]
<1>1. R = [s EXCEPT !.ctl = c, !.scan = scans, !.nubs = all]
  <2>1. R = [s EXCEPT !.ctl.mustBeRoot = NoNode,
                      !.ctl.fNodeMustNotBeRootFlag = FALSE,
                      !.ctl.fForcedGapFlag = FALSE,
                      !.ctl.reset = "none", !.ctl.finished = 0,
                      !.ctl.fBusMgr = FALSE, !.scan = scans, !.nubs = all]
    BY DEF SuspendBus
  <2> HIDE DEF scans, all
  <2> QED BY <2>1 DEF CtlFields
<1>2. /\ DOMAIN c = CtlFields /\ c.mustBeRoot = NoNode /\ c.reset = "none"
      /\ c.finished = 0 /\ ~c.fBusMgr /\ c.fBusMgr \in BOOLEAN
      /\ c.fBadIRMsKnown = s.ctl.fBadIRMsKnown /\ c.fNumROMReads = s.ctl.fNumROMReads
  BY DEF CtlFields
<1>3. DOMAIN scans = Peers /\ \A p \in Peers : scans[p] = NoScan
  OBVIOUS
<1>4. /\ DOMAIN all = GUIDs
      /\ \A g \in GUIDs : DOMAIN all[g] = {"node", "flags"} /\ all[g].node = NoNode
  OBVIOUS
<1> HIDE DEF c, scans, all
<1>5. /\ DOMAIN R = DOMAIN s /\ R.bus = s.bus /\ R.ctl = c /\ R.scan = scans
      /\ R.nubs = all
  BY <1>1
<1> QED BY <1>2, <1>3, <1>4, <1>5

LEMMA processSelfIDsKeeps ==
    ASSUME ScanInv, NEW nodes \in SUBSET Nodes, Local \in nodes, NEW good \in BOOLEAN,
           processSelfIDs(nodes, good)
    PROVE  ScanInv'
<1> DEFINE phys == PHYsAfter(nodes)
           now == [Now EXCEPT !.bus = phys]
           s == SuspendBus(now)
           mismatch == \E m, n \in nodes : phys.gap[m] # phys.gap[n]
           gapSet == IF mismatch THEN sendPHYPacket(s, [root |-> 0, gap |-> 63]) ELSE s
           R == IF good THEN [gapSet EXCEPT !.ctl.state = "kWaitingScan"]
                ELSE [resetBus(gapSet) EXCEPT !.ctl.state = "badSelfIDs"]
<1>1. /\ BusSound /\ Fits(Now) /\ Becomes(R) /\ make' = make
      /\ ids' \in SetToSeqs(nodes) /\ selfIDs' = [gap |-> phys.gap, contender |-> bus.contender]
  BY DEF ScanInv, ScanSound, processSelfIDs
<1>2. IsFiniteSet(nodes)
  <2>1. IsFiniteSet(Nodes)
    BY BusScanAssumption, FS_AddElement DEF BusScanAssumption, Nodes
  <2> QED BY <2>1, FS_Subset
<1>3. /\ ids' \in Seq(nodes) /\ Len(ids') > 0 /\ Range(ids') = nodes
      /\ \A i, j \in DOMAIN ids' : ids'[i] = ids'[j] => i = j
  BY <1>1, <1>2, SelfIDsInOrder
<1>4. BusSound'
  BY <1>1, <1>3 DEF BusSound, Nodes
<1>5. /\ DOMAIN bus = BusFields /\ DOMAIN ctl = CtlFields
      /\ DOMAIN nubs = GUIDs /\ \A g \in GUIDs : DOMAIN nubs[g] = {"node", "flags"}
      /\ ctl.fBadIRMsKnown \in BOOLEAN /\ ctl.fNumROMReads \in 0..Cardinality(Peers)
  BY <1>1, NowIs DEF Fits
<1>6. /\ DOMAIN phys = BusFields /\ phys.nodes = nodes
      /\ phys.rhb \in nodes \cup {NoNode}
  BY <1>5 DEF PHYsAfter, BusFields
<1> HIDE DEF phys
<1>7. /\ DOMAIN now = {"bus", "ctl", "scan", "nubs"} /\ now.bus = phys
      /\ now.ctl = ctl /\ now.nubs = nubs
  BY NowIs
<1> HIDE DEF now
<1>s. s = SuspendBus(now)
  OBVIOUS
<1> HIDE DEF s
<1>8. /\ DOMAIN s = {"bus", "ctl", "scan", "nubs"} /\ s.bus = phys
      /\ DOMAIN s.ctl = CtlFields
      /\ s.ctl.mustBeRoot = NoNode /\ s.ctl.reset = "none" /\ s.ctl.finished = 0
      /\ ~s.ctl.fBusMgr /\ s.ctl.fBusMgr \in BOOLEAN
      /\ s.ctl.fBadIRMsKnown = ctl.fBadIRMsKnown
      /\ s.ctl.fNumROMReads = ctl.fNumROMReads
      /\ DOMAIN s.scan = Peers /\ \A p \in Peers : s.scan[p] = NoScan
      /\ DOMAIN s.nubs = GUIDs
      /\ \A g \in GUIDs : /\ DOMAIN s.nubs[g] = {"node", "flags"}
                          /\ s.nubs[g].node = NoNode
  BY <1>5, <1>7, <1>s, BusSuspended
<1>9. /\ DOMAIN gapSet = {"bus", "ctl", "scan", "nubs"} /\ DOMAIN gapSet.bus = BusFields
      /\ gapSet.bus.nodes = nodes /\ gapSet.bus.rhb \in nodes \cup {NoNode}
      /\ ~mismatch => gapSet.bus.gap = phys.gap
      /\ gapSet.ctl = s.ctl /\ gapSet.scan = s.scan /\ gapSet.nubs = s.nubs
  <2>1. CASE ~mismatch
    <3>1. gapSet = s
      BY <2>1
    <3> HIDE DEF gapSet, mismatch
    <3> QED BY <3>1, <1>6, <1>8
  <2>2. CASE mismatch
    <3> DEFINE rooted == [s EXCEPT !.bus.rhb = s.bus.rhb]
               counts == [n \in Nodes |-> 63]
    <3>1. gapSet = [rooted EXCEPT !.bus.gap = counts, !.bus.configured = TRUE]
      BY <2>2 DEF sendPHYPacket
    <3> HIDE DEF counts, gapSet, mismatch
    <3> QED BY <2>2, <3>1, <1>6, <1>8 DEF BusFields
  <2> QED BY <2>1, <2>2
<1> HIDE DEF gapSet
<1>10. /\ bus' = gapSet.bus /\ scan' = gapSet.scan /\ nubs' = gapSet.nubs
       /\ DOMAIN ctl' = CtlFields /\ ctl'.state \in {"kWaitingScan", "badSelfIDs"}
       /\ ctl'.reset \in {"none", "scheduled"}
       /\ \A x \in CtlFields \ {"state", "reset"} : ctl'[x] = gapSet.ctl[x]
  <2>1. CASE good
    <3>1. R = [gapSet EXCEPT !.ctl.state = "kWaitingScan"]
      BY <2>1
    <3> HIDE DEF R
    <3> QED BY <1>1, <1>8, <1>9, <3>1 DEF Becomes, CtlFields
  <2>2. CASE ~good
    <3> DEFINE T == resetBus(gapSet)
    <3>1. R = [T EXCEPT !.ctl.state = "badSelfIDs"]
      BY <2>2
    <3>2. T = [gapSet EXCEPT !.ctl.reset = "scheduled"]
      BY <1>8, <1>9 DEF resetBus
    <3> HIDE DEF R, T
    <3>3. /\ DOMAIN T = {"bus", "ctl", "scan", "nubs"} /\ T.bus = gapSet.bus
          /\ T.scan = gapSet.scan /\ T.nubs = gapSet.nubs /\ DOMAIN T.ctl = CtlFields
          /\ T.ctl.reset = "scheduled"
          /\ \A x \in CtlFields \ {"reset"} : T.ctl[x] = gapSet.ctl[x]
      BY <1>8, <1>9, <3>2 DEF CtlFields
    <3> QED BY <1>1, <3>1, <3>3 DEF Becomes, CtlFields
  <2> QED BY <2>1, <2>2
<1> HIDE DEF R
<1>11. /\ ctl'.mustBeRoot = NoNode /\ ctl'.finished = 0 /\ ~ctl'.fBusMgr
       /\ ctl'.fBusMgr \in BOOLEAN /\ ctl'.fBadIRMsKnown = ctl.fBadIRMsKnown
       /\ ctl'.fNumROMReads = ctl.fNumROMReads
  BY <1>8, <1>9, <1>10 DEF CtlFields
<1>12. /\ DOMAIN scan' = Peers /\ \A p \in Peers : scan'[p].state = "none" /\ ScanFits(scan'[p])
  <2>1. ScanFits(NoScan) /\ NoScan.state = "none"
    BY DEF NoScan, ScanFits, ScanStates
  <2> QED BY <2>1, <1>8, <1>9, <1>10
<1>13. Fits(Now)'
  <2>1. /\ DOMAIN nubs' = GUIDs
        /\ \A g \in GUIDs : /\ DOMAIN nubs'[g] = {"node", "flags"}
                            /\ nubs'[g].node = NoNode
    BY <1>8, <1>9, <1>10
  <2>2. /\ DOMAIN bus' = BusFields /\ bus'.nodes = Range(ids')
        /\ bus'.rhb \in Range(ids') \cup {NoNode}
    BY <1>3, <1>9, <1>10
  <2> QED BY <1>5, <1>10, <1>11, <1>12, <2>1, <2>2 DEF Fits, Now, BeforeScan
<1>14. (Reading(Now))' = {}
  BY <1>12 DEF Reading, Now
<1>15. Counts(Now)' /\ ScanOver(Now)'
  BY <1>10, <1>11, <1>12, <1>14 DEF Counts, ScanOver, Now, AfterScan
<1>16. ManagerIsRead(Now)'
  BY <1>12 DEF ManagerIsRead, Now
<1>17. FoundOut(Now)'
  <2>1. selfIDs'.gap = phys.gap
    BY <1>1
  <2>2. SameGaps' => ~mismatch
    BY <1>3, <2>1 DEF SameGaps
  <2>3. SameGaps' => \A n \in Range(ids') : bus'.gap[n] = selfIDs'.gap[n]
    BY <2>1, <2>2, <1>9, <1>10
  <2>4. \A g \in GUIDs : nubs'[g].node = NoNode
    BY <1>8, <1>9, <1>10
  <2> QED BY <1>11, <2>3, <2>4 DEF FoundOut, Now
<1>18. Decided(Now)'
  BY <1>10 DEF Decided, Now, AfterScan
<1> QED BY <1>4, <1>13, <1>15, <1>16, <1>17, <1>18 DEF ScanInv, ScanSound

LEMMA ResetsKeep ==
    ASSUME ScanInv, BusReset \/ BadSelfIDs \/ Plug
    PROVE  ScanInv'
<1> DEFINE yes == TRUE
           no == FALSE
<1>1. yes \in BOOLEAN /\ no \in BOOLEAN
  OBVIOUS
<1>2. bus.nodes \subseteq Nodes /\ Local \in bus.nodes
  <2>1. BusSound /\ bus.nodes = Range(ids)
    BY NowIs DEF ScanInv, ScanSound, Fits
  <2> QED BY <2>1, NodesOfTheBus DEF BusSound
<1>3. CASE BusReset
  <2>1. processSelfIDs(bus.nodes, yes)
    BY <1>3 DEF BusReset
  <2> HIDE DEF yes
  <2> QED BY <1>1, <1>2, <2>1, processSelfIDsKeeps
<1>4. CASE BadSelfIDs
  <2>1. processSelfIDs(bus.nodes, no)
    BY <1>4 DEF BadSelfIDs
  <2> HIDE DEF no
  <2> QED BY <1>1, <1>2, <2>1, processSelfIDsKeeps
<1>5. CASE Plug
  <2>1. PICK p \in Peers :
           processSelfIDs(IF p \in bus.nodes THEN bus.nodes \ {p}
                          ELSE bus.nodes \cup {p}, yes)
    BY <1>5 DEF Plug
  <2> DEFINE nodes == IF p \in bus.nodes THEN bus.nodes \ {p} ELSE bus.nodes \cup {p}
  <2>2. nodes \subseteq Nodes /\ Local \in nodes
    BY <1>2, BusScanAssumption DEF BusScanAssumption, Nodes
  <2>3. processSelfIDs(nodes, yes)
    BY <2>1
  <2> HIDE DEF nodes, yes
  <2> QED BY <1>1, <2>2, <2>3, processSelfIDsKeeps
<1> QED BY <1>3, <1>4, <1>5

(* As many peers as self-IDs, but for this node's.                         *)
LEMMA PeersOfTheBus ==
    ASSUME BusSound
    PROVE  Cardinality(OnTheBus) = Len(ids) - 1 /\ OnTheBus = Range(ids) \ {Local}
<1> DEFINE n == Len(ids)
           S == Range(ids)
<1>1. n \in Nat \ {0} /\ DOMAIN ids = 1..n /\ ids \in Seq(Nodes)
  BY NodesOfTheBus DEF BusSound
<1>2. ids \in [1..n -> S] /\ \A m \in S : \E i \in 1..n : ids[i] = m
  BY <1>1 DEF Range
<1>3. \A i, j \in 1..n : ids[i] = ids[j] => i = j
  BY <1>1 DEF BusSound
<1>4. IsFiniteSet(1..n) /\ Cardinality(1..n) = n
  BY <1>1, FS_Interval
<1>5. Local \in S
  BY DEF BusSound
<1> HIDE DEF n, S
<1>6. ids \in Bijection(1..n, S)
  BY <1>1, <1>2, <1>3 DEF Bijection, Injection, Surjection, IsInjective
<1>7. IsFiniteSet(S) /\ Cardinality(S) = n
  <2>1. ExistsBijection(1..n, S)
    BY <1>6 DEF ExistsBijection
  <2> QED BY <1>4, <2>1, FS_Bijection
<1>8. Cardinality(S \ {Local}) = n - 1
  BY <1>5, <1>7, FS_RemoveElement
<1>9. OnTheBus = S \ {Local}
  BY NodesOfTheBus, BusScanAssumption DEF OnTheBus, Nodes, BusScanAssumption, S
<1> QED BY <1>8, <1>9 DEF n, S

LEMMA startBusScanKeeps ==
    ASSUME ScanInv, Ignored = {}, startBusScan
    PROVE  ScanInv'
<1> DEFINE s == ReadsStarted
<1>1. /\ BusSound /\ ScanSound(Now) /\ Fits(Now) /\ ctl.state = "kWaitingScan"
      /\ UNCHANGED <<make, ids, selfIDs>>
  BY DEF ScanInv, ScanSound, startBusScan
<1>2. PICK ping \in PingGaps :
         Becomes(IF s.ctl.fNumROMReads = 0 THEN finishedBusScan(s, ping) ELSE s)
  BY DEF startBusScan
<1> DEFINE read == Range(ids) \ ({Local} \cup Ignored)
           count == Len(ids) - Cardinality({i \in DOMAIN ids : ids[i] \notin read})
           known == ctl.fBadIRMsKnown \/ IRMNode \in Ignored
           c == [ctl EXCEPT !.state = "kScanning", !.fNumROMReads = count,
                            !.fBadIRMsKnown = known]
           scans == [p \in Peers |->
               IF p \in read THEN NewScan(p, make[p].guess)
               ELSE IF p \in Range(ids) THEN [state |-> "dummy"] ELSE scan[p]]
<1>f. /\ DOMAIN ctl = CtlFields /\ ctl.fBadIRMsKnown \in BOOLEAN /\ ctl.finished = 0
      /\ \A p \in Peers : scan[p].state = "none"
      /\ Cardinality(Peers) \in Nat
  BY <1>1, NowIs, PeersAreFinite DEF ScanSound, Fits, Counts, BeforeScan
<1>3. s = [Now EXCEPT !.ctl = c, !.scan = scans]
  <2>1. s = [Now EXCEPT !.ctl.state = "kScanning", !.ctl.fNumROMReads = count,
                        !.ctl.fBadIRMsKnown = known, !.scan = scans]
    BY NowIs DEF ReadsStarted
  <2> HIDE DEF count, known, scans
  <2> QED BY <2>1, <1>f, NowIs DEF CtlFields
<1>4. read = OnTheBus
  BY <1>1, PeersOfTheBus
<1>5. count = Cardinality(OnTheBus) /\ count \in 0..Cardinality(Peers)
  <2>1. PICK k \in DOMAIN ids : ids[k] = Local
    BY <1>1 DEF BusSound, Range
  <2>2. {i \in DOMAIN ids : ids[i] \notin read} = {k}
    <3>1. \A i \in DOMAIN ids : ids[i] \in Range(ids)
      BY DEF Range
    <3>2. \A i \in DOMAIN ids : ids[i] \notin read <=> ids[i] = Local
      BY <3>1
    <3>3. \A i \in DOMAIN ids : ids[i] = Local <=> i = k
      BY <1>1, <2>1 DEF BusSound
    <3> QED BY <2>1, <3>2, <3>3
  <2>3. Cardinality({k}) = 1
    BY FS_Singleton
  <2>4. count = Len(ids) - 1
    BY <2>2, <2>3
  <2> HIDE DEF count
  <2>5. count = Cardinality(OnTheBus)
    BY <1>1, <2>4, PeersOfTheBus
  <2>6. Cardinality(OnTheBus) \in Nat /\ Cardinality(OnTheBus) <= Cardinality(Peers)
    BY PeersAreFinite DEF OnTheBus
  <2> QED BY <2>5, <2>6, <1>f
<1>6. known \in BOOLEAN
  OBVIOUS
<1>7. \A p \in Peers :
         /\ p \in OnTheBus => scans[p] = NewScan(p, make[p].guess)
         /\ p \notin OnTheBus => scans[p] = scan[p]
  BY <1>4 DEF OnTheBus
<1>8. DOMAIN scans = Peers
  OBVIOUS
<1> HIDE DEF count, known, scans, read
<1>9. /\ DOMAIN c = CtlFields /\ c.state = "kScanning" /\ c.fNumROMReads = count
      /\ c.fBadIRMsKnown = known
      /\ \A x \in CtlFields \ {"state", "fNumROMReads", "fBadIRMsKnown"} : c[x] = ctl[x]
  BY <1>f DEF CtlFields
<1> HIDE DEF c, s
<1>10. /\ DOMAIN s = DOMAIN Now /\ s.bus = bus /\ s.ctl = c /\ s.scan = scans
       /\ s.nubs = nubs
  BY <1>3, NowIs
<1>11. \A p \in OnTheBus :
          /\ s.scan[p].state = "reading" /\ DOMAIN s.scan[p] = ReadFields
          /\ s.scan[p].fRead = 0
          /\ s.scan[p].fContenderNeedsChecking = make[p].contender
  <2>1. \A p \in OnTheBus : s.scan[p] = NewScan(p, make[p].guess)
    BY <1>7, <1>10 DEF OnTheBus
  <2> TAKE p \in OnTheBus
  <2> DEFINE r == NewScan(p, make[p].guess)
  <2>2. /\ DOMAIN r = ReadFields /\ r.state = "reading" /\ r.fRead = 0
        /\ r.fContenderNeedsChecking = make[p].contender
    BY DEF NewScan, ReadFields
  <2>3. s.scan[p] = r
    BY <2>1
  <2> HIDE DEF r
  <2> QED BY <2>2, <2>3
<1>12. \A p \in Peers : p \notin OnTheBus =>
          s.scan[p].state = "none" /\ s.scan[p] = scan[p]
  BY <1>7, <1>10, <1>f
<1>13. \A p \in Peers : ScanFits(s.scan[p])
  <2> TAKE p \in Peers
  <2>1. CASE p \in OnTheBus
    BY <1>11, <2>1 DEF ScanFits, ScanStates, ReadFields
  <2>2. CASE p \notin OnTheBus
    BY <1>12, <2>2, <1>1, NowIs DEF Fits
  <2> QED BY <2>1, <2>2
<1>14. /\ s.ctl.finished = 0 /\ s.ctl.state = "kScanning" /\ s.ctl.fNumROMReads = count
       /\ s.ctl.fBusMgr = ctl.fBusMgr /\ s.ctl.reset = ctl.reset
       /\ s.ctl.mustBeRoot = ctl.mustBeRoot /\ s.ctl.dups = ctl.dups
       /\ s.ctl.fBadIRMsKnown \in BOOLEAN
  BY <1>6, <1>9, <1>10, <1>f DEF CtlFields
<1>15. Fits(s)
  BY <1>1, <1>5, <1>8, <1>9, <1>10, <1>13, <1>14, NowIs DEF Fits
<1>16. Reading(s) = OnTheBus
  BY <1>11, <1>12 DEF Reading, OnTheBus
<1>17. Counts(s)
  BY <1>5, <1>11, <1>12, <1>14, <1>16 DEF Counts, BeforeScan, AfterScan, OnTheBus
<1>18. ManagerIsRead(s)
  <2> SUFFICES ASSUME IRMNode \in Peers PROVE ManagerIsRead(s)
    BY DEF ManagerIsRead
  <2>1. IRMNode \in OnTheBus
    BY <1>1, ManagerIsThere, BusScanAssumption DEF OnTheBus, BusScanAssumption
  <2> QED BY <1>11, <2>1 DEF ManagerIsRead, BadIRM
<1>19. FoundOut(s)
  <2>1. ~ctl.fBusMgr
    BY <1>1, <1>f, NowIs DEF ScanSound, FoundOut, OnTheBus
  <2> QED BY <2>1, <1>1, <1>10, <1>14, NowIs DEF ScanSound, FoundOut
<1>20. Decided(s)
  BY <1>14 DEF Decided, AfterScan
<1>21. ScanSound(s)
  BY <1>15, <1>17, <1>18, <1>19, <1>20 DEF ScanSound
<1>22. CASE count = 0
  <2>1. Reading(s) = {}
    BY <1>5, <1>16, <1>22, PeersAreFinite DEF OnTheBus
  <2>2. AboutToEnd(s)
    BY <1>14, <1>21, <1>22, <2>1 DEF AboutToEnd
  <2> DEFINE R == finishedBusScan(s, ping)
  <2>3. ScanSound(R) /\ ScanOver(R)
    BY <1>1, <2>2, finishedBusScanKeeps
  <2>4. Becomes(R)
    BY <1>2, <1>14, <1>22
  <2> HIDE DEF R
  <2> QED BY <1>1, <2>3, <2>4, Handled
<1>23. CASE count # 0
  <2>1. Reading(s) # {}
    BY <1>5, <1>16, <1>23, PeersAreFinite DEF OnTheBus
  <2>2. ScanOver(s)
    BY <2>1 DEF ScanOver
  <2>3. Becomes(s)
    BY <1>2, <1>14, <1>23
  <2> QED BY <1>1, <1>21, <2>2, <2>3, Handled
<1> QED BY <1>22, <1>23

LEMMA StartsSound == Init => ScanInv
<1> SUFFICES ASSUME Init PROVE ScanInv
  OBVIOUS
<1>1. PICK delegate \in Delegates : ctl = NewController(delegate)
  BY DEF Init
<1>2. /\ make \in [Peers -> UNION Range(Makes)] /\ bus = NewBus /\ ids = <<Local>>
      /\ selfIDs = [gap |-> NewBus.gap, contender |-> TRUE]
      /\ scan = [p \in Peers |-> NoScan]
      /\ nubs = [g \in GUIDs |-> [node |-> NoNode, flags |-> {}]]
  BY DEF Init
<1>3. Range(ids) = {Local} /\ Local \in Nodes
  BY <1>2 DEF Range, Nodes
<1>4. BusSound
  BY <1>2, <1>3 DEF BusSound
<1>5. /\ DOMAIN ctl = CtlFields /\ ctl.state = "kStarting" /\ ctl.reset = "issued"
      /\ ctl.finished = 0 /\ ctl.fBadIRMsKnown = FALSE /\ ctl.mustBeRoot = NoNode
      /\ ctl.fBusMgr = FALSE /\ ctl.fNumROMReads = 0
  BY <1>1 DEF NewController, CtlFields
<1>6. /\ DOMAIN bus = BusFields /\ bus.nodes = {Local} /\ bus.rhb = NoNode
      /\ bus.gap = selfIDs.gap
  BY <1>2 DEF NewBus, BusFields
<1>7. DOMAIN scan = Peers /\ \A p \in Peers : ScanFits(scan[p]) /\ scan[p].state = "none"
  <2>1. ScanFits(NoScan) /\ NoScan.state = "none"
    BY DEF NoScan, ScanFits, ScanStates
  <2> QED BY <1>2, <2>1
<1>8. /\ DOMAIN nubs = GUIDs
      /\ \A g \in GUIDs : DOMAIN nubs[g] = {"node", "flags"} /\ nubs[g].node = NoNode
  BY <1>2
<1>9. Fits(Now)
  <2>1. /\ ctl.fBadIRMsKnown \in BOOLEAN /\ ctl.fBusMgr \in BOOLEAN
        /\ ctl.fNumROMReads \in 0..Cardinality(Peers)
        /\ bus.nodes = Range(ids) /\ bus.rhb \in Range(ids) \cup {NoNode}
    <3>1. ctl.fBadIRMsKnown \in BOOLEAN /\ ctl.fBusMgr \in BOOLEAN
      BY <1>5
    <3>2. 0 \in 0..Cardinality(Peers)
      BY PeersAreFinite
    <3>3. ctl.fNumROMReads \in 0..Cardinality(Peers)
      BY <1>5, <3>2
    <3>4. bus.nodes = Range(ids) /\ bus.rhb \in Range(ids) \cup {NoNode}
      BY <1>3, <1>6
    <3> QED BY <3>1, <3>3, <3>4
  <2> QED BY <2>1, <1>3, <1>5, <1>6, <1>7, <1>8, PeersAreFinite, NowIs DEF Fits, BeforeScan
<1>10. Reading(Now) = {}
  BY <1>7, NowIs DEF Reading
<1>11. Counts(Now) /\ ManagerIsRead(Now) /\ ScanOver(Now)
  BY <1>5, <1>7, <1>10, NowIs DEF Counts, ManagerIsRead, ScanOver, AfterScan
<1>12. FoundOut(Now) /\ Decided(Now)
  BY <1>5, <1>6, <1>8, NowIs DEF FoundOut, Decided, AfterScan
<1> QED BY <1>4, <1>9, <1>11, <1>12 DEF ScanInv, ScanSound

LEMMA StepsKeep ==
    ASSUME ScanInv, Ignored = {}, [Next]_vars
    PROVE  ScanInv'
<1>1. CASE doBusReset
  BY <1>1, doBusResetKeeps
<1>2. CASE BusReset \/ BadSelfIDs \/ Plug
  BY <1>2, ResetsKeep
<1>3. CASE startBusScan
  BY <1>3, startBusScanKeeps
<1>4. CASE updatePlane
  BY <1>4, updatePlaneKeeps
<1>5. CASE \E p \in Peers : readROMGlue(p)
  BY <1>5, readROMGlueKeeps
<1>6. CASE ClientResetBus
  BY <1>6, ClientResetBusKeeps
<1>7. CASE \E g \in GUIDs : setNodeFlags(g)
  BY <1>7, setNodeFlagsKeeps
<1>8. CASE \E n \in Nodes : makeRoot(n)
  BY <1>8, makeRootKeeps
<1>9. CASE UNCHANGED vars
  <2>1. Becomes(Now) /\ UNCHANGED <<make, ids, selfIDs>>
    BY <1>9, NowIs DEF Becomes, vars
  <2> QED BY <2>1, Handled DEF ScanInv
<1> QED BY <1>1, <1>2, <1>3, <1>4, <1>5, <1>6, <1>7, <1>8, <1>9 DEF Next, Works

LEMMA ScanSoundGives ==
    ASSUME ScanInv
    PROVE  ScanEndsOnce /\ SettlesWell
<1>1. /\ BusSound /\ Fits(Now) /\ Counts(Now) /\ FoundOut(Now) /\ Decided(Now)
      /\ ScanOver(Now)
  BY DEF ScanInv, ScanSound
<1>2. TypeOK
  BY <1>1, NodesOfTheBus, NowIs DEF TypeOK, Fits
<1>3. ScanEndsOnce
  <2> DEFINE reading == {p \in Peers : scan[p].state = "reading"}
  <2>1. reading = Reading(Now)
    BY NowIs DEF Reading
  <2>2. ctl.finished <= 1 /\ ctl.finished \in {0, 1}
    BY <1>1, NowIs DEF Fits
  <2>3. ASSUME ctl.state = "kScanning"
        PROVE  ctl.fNumROMReads = Cardinality(reading) /\ (ctl.finished = 0) = (reading # {})
    <3>1. CASE reading = {}
      <4>1. ctl.finished = 1 /\ ctl.fNumROMReads = 0
        BY <1>1, <2>1, <2>3, <3>1, NowIs DEF ScanOver
      <4>2. Cardinality(reading) = 0
        BY <3>1, FS_EmptySet
      <4> HIDE DEF reading
      <4> QED BY <4>1, <4>2, <3>1
    <3>2. CASE reading # {}
      <4>1. ctl.finished = 0 /\ ctl.fNumROMReads = Cardinality(reading)
        BY <1>1, <2>1, <3>2, NowIs DEF Counts
      <4> HIDE DEF reading
      <4> QED BY <4>1, <3>2
    <3> QED BY <3>1, <3>2
  <2> QED BY <1>2, <2>2, <2>3 DEF ScanEndsOnce
<1>4. ManagedBus
  <2> SUFFICES ASSUME ManagerHere
               PROVE  RootNode = Local /\ \A n \in Range(ids) : bus.gap[n] = bus.gap[Local]
    BY DEF ManagedBus
  <2>1. ctl.state \in AfterScan /\ ctl.reset = "none" /\ IRMNode = Local /\ ~OnlyNode
    BY DEF ManagerHere, Settled, AfterScan
  <2>2. \A p \in Peers : scan[p].state # "done"
    BY <1>1, <2>1, NowIs DEF Decided
  <2>3. ~ctl.fBusMgr
    BY <1>1, <2>2, NowIs DEF FoundOut, OnTheBus, ManagerHere
  <2>4. RootNode = Local /\ SameGaps
    BY <1>1, <2>1, <2>3, NowIs DEF Decided
  <2>5. \A n \in Range(ids) : bus.gap[n] = selfIDs.gap[n]
    BY <1>1, <2>1, <2>4, NowIs DEF FoundOut, AfterScan
  <2>6. Local \in Range(ids)
    BY <1>1 DEF BusSound
  <2> QED BY <2>4, <2>5, <2>6 DEF SameGaps
<1>5. NoBadIRM
  BY <1>1, NowIs DEF NoBadIRM, Settled, Decided, AfterScan
<1>6. DuplicatesApart
  <2> SUFFICES ASSUME NEW p \in Peers, NEW q \in Peers, Settled, SameGUID(p, q)
               PROVE  nubs[make[p].guid].node = NoNode
    BY DEF DuplicatesApart
  <2>1. ctl.state \in AfterScan /\ ctl.reset = "none"
    BY DEF Settled, AfterScan
  <2>2. Twins(Now, p, q)
    BY NowIs DEF SameGUID, Twins
  <2>3. make[p].guid \in ctl.dups
    BY <1>1, <2>1, <2>2, NowIs DEF Decided
  <2>4. make[p].guid \in GUIDs
    BY <1>1, <2>2, MakeOfPeer DEF Twins
  <2> QED BY <1>1, <2>1, <2>3, <2>4, NowIs DEF FoundOut
<1> QED BY <1>3, <1>4, <1>5, <1>6 DEF SettlesWell

(* Whatever nodes come, go, answer late, wrongly or not at all, and whoever *)
(* resets the bus meanwhile: a scan waits for the reads of just the nodes  *)
(* it is reading and ends once, when the last of them has ended, on a bus  *)
(* of any size (startBusScan, readDeviceROM, finishedBusScan).  With nodes *)
(* that fDebugIgnoreNode names it may end twice.                           *)
THEOREM ScanEnds == Ignored = {} => (Spec => []ScanEndsOnce)
<1> SUFFICES ASSUME Ignored = {} PROVE Spec => []ScanEndsOnce
  OBVIOUS
<1>1. ScanInv /\ [Next]_vars => ScanInv'
  BY StepsKeep
<1> QED BY <1>1, StartsSound, ScanSoundGives, PTL DEF Spec

(* On every bus, however often it is reset and read again: when it has     *)
(* settled it has no bad resource manager that could be told, a bus that   *)
(* this Mac manages has it as its root and one gap count at all its nodes, *)
(* and no nub stands for one of two devices of one GUID                    *)
(* (AssignCycleMaster, checkForDuplicateGUID, finishedBusScan).            *)
THEOREM BusSettlesWell == Ignored = {} => (Spec => []SettlesWell)
<1> SUFFICES ASSUME Ignored = {} PROVE Spec => []SettlesWell
  OBVIOUS
<1>1. ScanInv /\ [Next]_vars => ScanInv'
  BY StepsKeep
<1> QED BY <1>1, StartsSound, ScanSoundGives, PTL DEF Spec
=============================================================================
