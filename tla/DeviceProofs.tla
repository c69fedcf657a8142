---------------------------- MODULE DeviceProofs ----------------------------
(***************************************************************************)
(* Proofs about the nubs of a device and of its units, for any number of   *)
(* nubs, units, ROMs and bus resets: at most one nub of the node is not on *)
(* its way out, the units of a device are those of the directory that was  *)
(* read last, a device and its units agree on who has them open, and one   *)
(* that holds up the registry is still being read.  The invariant has a    *)
(* part for each object: the nub by itself, its ROM caches with their      *)
(* readers, the units, and what ties them together.                        *)
(***************************************************************************)
EXTENDS Device, SequenceTheorems, TLAPS

RegistrationStates == {"kDeviceNotRegistered", "kDeviceRegistered",
                       "kDeviceNeedsRegisterService"}

Devices == [state : {"none", "attached", "inactive"}, onBus : BOOLEAN,
            term : TerminationStates, fOpenFromDevice : BOOLEAN,
            fOpenUnits : SUBSET Units, dying : BOOLEAN,
            fRegistrationState : RegistrationStates,
            busy : {0, 1}, fROMReadRetry : 0..Retries,
            fDirectory : ROMs \cup {Absent}]

UnitNubs == [device : Nubs \cup {NoNub}, kind : Kinds \cup {Absent},
             state : {"none", "attached", "inactive"}, term : TerminationStates,
             open : BOOLEAN, dying : BOOLEAN]

Labels == {"thread", "check", "read", "reset", "suspend", "commit", "failed", "done"}

ROMCaches == [image : ROMs \cup {Absent}, state : {"Resumed", "Suspended", "Invalid"},
              generation : Nat, read : Nat, pc : Labels, latched : Nat]

Types ==
    /\ fBusGeneration \in Nat
    /\ phase \in {"down", "suspended", "scanned", "pruned"}
    /\ node \in ROMs \cup {Absent}
    /\ resetDue \in BOOLEAN
    /\ pruning \in [nub : Nubs \cup {NoNub}, wasOpen : BOOLEAN]
    /\ nub \in [Nubs -> Devices]
    /\ roms \in [Nubs -> Seq(ROMCaches)]
    /\ unit \in [Units -> UnitNubs]

(* What is true of a nub by itself.                                        *)
Held(n) == n.fOpenFromDevice \/ n.fOpenUnits # {}
Needs(n) == n.fRegistrationState = "kDeviceNeedsRegisterService"

NubIsSound(n) ==
    /\ n.busy = IF Needs(n) THEN 1 ELSE 0
    /\ n.state = "none" => n = NoDevice
    /\ n.state = "inactive" => n.term = "kTerminated" /\ ~Held(n)
    /\ n.dying => n.term = "kTerminated"
    /\ ~(n.fOpenFromDevice /\ n.fOpenUnits # {})
    /\ "staleReader" \notin Races /\ n.fDirectory # Absent =>
          n.fRegistrationState = "kDeviceRegistered"
    /\ "staleIsOpen" \notin Races /\ n.term = "kNeedsTermination" => Held(n)

(* The caches of a nub and their readers: one reads at a time, only the    *)
(* current cache may be of use, and who gives up leaves it invalid.        *)
Reading(r) == r.pc \notin {"thread", "done"}
Passive(r) == r.pc \in {"thread", "failed", "done"}
Latest(rs) == rs[Len(rs)]

ReadersAreSound(n, rs) ==
    /\ n.state # "none" => rs # <<>>
    /\ n.state = "none" => rs = <<>>
    /\ \A g, h \in DOMAIN rs : Reading(rs[g]) /\ Reading(rs[h]) => g = h
    /\ \A g \in DOMAIN rs : g # Len(rs) \/ rs[g].pc = "failed" => rs[g].state = "Invalid"
    /\ "staleReader" \notin Races /\ n.state # "none"
         /\ n.fRegistrationState = "kDeviceNotRegistered" =>
            /\ Latest(rs).pc = "done"
            /\ \A g \in DOMAIN rs : Passive(rs[g])
    /\ n.state # "none" /\ Needs(n) /\ Latest(rs).pc = "done" => Latest(rs).state = "Invalid"

(* A unit by itself.                                                       *)
UnitIsSound(u) ==
    /\ u.device = NoNub => u = NoUnit
    /\ u.device # NoNub => u.state # "none"
    /\ u.dying => u.term = "kTerminated"
    /\ u.term = "kNeedsTermination" => u.open

(* A device and its units.                                                 *)
UnitsAreSound == \A d \in Nubs :
    /\ nub[d].fOpenUnits = {u \in UnitsAt(d) : unit[u].open}
    /\ nub[d].state = "none" => UnitsAt(d) = {}
    /\ \A u \in UnitsAt(d) :
          unit[u].term # "kTerminated" /\ nub[d].term # "kTerminated" =>
              unit[u].state = "attached"
    /\ \A u, v \in UnitsAt(d) :
          unit[u].term # "kTerminated" /\ unit[v].term # "kTerminated"
            /\ unit[u].kind = unit[v].kind => u = v

OneFound == \A d, e \in Found : d = e

(* Between its isOpen() and its setTerminationState() the controller finds *)
(* the missing device as it was.                                           *)
PruningIsSound ==
    ~GateOpen =>
        /\ pruning.nub \in Nubs
        /\ Suspended(pruning.nub) /\ ~nub[pruning.nub].onBus
        /\ "staleIsOpen" \notin Races => pruning.wasOpen = IsOpen(pruning.nub)

SuspendedIsOff == phase = "suspended" => \A d \in Nubs : Suspended(d) => ~nub[d].onBus

(* A device whose ROM could not be read and that is to be tried again: the *)
(* reset that was asked for has still to be handled.                       *)
Waiting(d) ==
    /\ Suspended(d) /\ Needs(nub[d])
    /\ Latest(roms[d]).pc = "done"

WaitsForReset == \A d \in Nubs : Waiting(d) =>
    \/ resetDue \/ phase \in {"down", "suspended"}
    \/ phase = "scanned" /\ ~nub[d].onBus

DeviceInv ==
    /\ Types
    /\ \A d \in Nubs : NubIsSound(nub[d])
    /\ \A d \in Nubs : ReadersAreSound(nub[d], roms[d])
    /\ \A u \in Units : UnitIsSound(unit[u])
    /\ UnitsAreSound
    /\ OneFound
    /\ PruningIsSound
    /\ SuspendedIsOff
    /\ WaitsForReset
    /\ UnitsMatchROM

-----------------------------------------------------------------------------
(* The sequence of ROM caches.                                             *)

(* One cache is replaced by another.                                       *)
LEMMA MoveOf ==
    ASSUME NEW rs \in Seq(ROMCaches), NEW g \in DOMAIN rs, NEW r \in ROMCaches
    PROVE  LET moved == [rs EXCEPT ![g] = r] IN
           /\ moved \in Seq(ROMCaches)
           /\ Len(moved) = Len(rs) /\ DOMAIN moved = DOMAIN rs
           /\ moved[g] = r
           /\ \A h \in DOMAIN rs : h # g => moved[h] = rs[h]
<1>1. DOMAIN rs = 1..Len(rs)  BY LenProperties
<1> DEFINE moved == [rs EXCEPT ![g] = r]
<1>2. /\ moved \in Seq(ROMCaches) /\ Len(moved) = Len(rs)
      /\ \A j \in 1..Len(rs) : moved[j] = IF j = g THEN r ELSE rs[j]
    BY <1>1, ExceptSeq
<1>3. DOMAIN moved = 1..Len(moved)  BY <1>2, LenProperties
<1> QED BY <1>1, <1>2, <1>3

(* A sequence that is not empty has a last element.                        *)
LEMMA LatestIs ==
    ASSUME NEW rs \in Seq(ROMCaches), rs # <<>>
    PROVE  /\ Len(rs) \in DOMAIN rs /\ Len(rs) \in Nat \ {0}
           /\ Latest(rs) \in ROMCaches
           /\ DOMAIN rs = 1..Len(rs)
<1>1. Len(rs) \in Nat \ {0}  BY EmptySeq
<1>2. DOMAIN rs = 1..Len(rs)  BY LenProperties
<1>3. Len(rs) \in 1..Len(rs)  BY <1>1
<1>4. rs[Len(rs)] \in ROMCaches  BY <1>3, ElementOfSeq
<1> QED BY <1>1, <1>2, <1>3, <1>4 DEF Latest

(* Every cache of a sequence is a cache.                                   *)
LEMMA CacheOf ==
    ASSUME NEW rs \in Seq(ROMCaches), NEW g \in DOMAIN rs
    PROVE  rs[g] \in ROMCaches
BY LenProperties, ElementOfSeq

(* Setting the state of a cache: an invalid one stays so.                  *)
LEMMA StateSet ==
    ASSUME NEW rom \in ROMCaches, NEW generation \in Nat,
           NEW state \in {"Resumed", "Suspended", "Invalid"}
    PROVE  LET set == setROMState(rom, state, generation) IN
           /\ set \in ROMCaches
           /\ set.pc = rom.pc /\ set.image = rom.image
           /\ set.latched = rom.latched /\ set.read = rom.read
           /\ set.state = IF rom.state = "Invalid" THEN "Invalid" ELSE state
BY DEF setROMState, ROMCaches

(* The readers of a nub stay sound when one of its caches is replaced, if  *)
(* the new one is not more alive than the old one.                         *)
LEMMA ReaderMoves ==
    ASSUME NEW rs \in Seq(ROMCaches), NEW g \in DOMAIN rs, NEW r \in ROMCaches,
           NEW n, ReadersAreSound(n, rs),
           rs[g].state = "Invalid" \/ r.pc = "failed" => r.state = "Invalid",
           Reading(r) => Reading(rs[g]) \/ \A h \in DOMAIN rs : ~Reading(rs[h]),
           rs[g].pc = "done" => r.pc = "done",
           Passive(rs[g]) /\ g # Len(rs) => Passive(r),
           g = Len(rs) /\ r.pc = "done" => rs[g].pc = "done" \/ r.state = "Invalid"
    PROVE  ReadersAreSound(n, [rs EXCEPT ![g] = r])
<1> DEFINE moved == [rs EXCEPT ![g] = r]
<1>1. /\ moved \in Seq(ROMCaches)
      /\ Len(moved) = Len(rs) /\ DOMAIN moved = DOMAIN rs
      /\ moved[g] = r
      /\ \A h \in DOMAIN rs : h # g => moved[h] = rs[h]
    BY MoveOf
<1>2. rs # <<>> /\ moved # <<>>
  <2>1. Len(rs) # 0  BY LenProperties
  <2> QED BY <2>1, <1>1, EmptySeq
<1>3. Len(rs) \in DOMAIN rs  BY <1>2, LatestIs
<1> HIDE DEF moved
<1>4. ASSUME NEW h \in DOMAIN moved, NEW j \in DOMAIN moved,
             Reading(moved[h]), Reading(moved[j])
      PROVE  h = j
    BY <1>1, <1>4 DEF ReadersAreSound
<1>5. \A h \in DOMAIN moved :
          h # Len(moved) \/ moved[h].pc = "failed" => moved[h].state = "Invalid"
    BY <1>1 DEF ReadersAreSound
<1>6. CASE g = Len(rs)
  <2>1. ASSUME "staleReader" \notin Races, n.state # "none",
               n.fRegistrationState = "kDeviceNotRegistered"
        PROVE  Latest(moved).pc = "done" /\ \A h \in DOMAIN moved : Passive(moved[h])
      BY <1>1, <1>3, <1>6, <2>1 DEF ReadersAreSound, Latest, Passive
  <2>2. n.state # "none" /\ Needs(n) /\ Latest(moved).pc = "done" =>
            Latest(moved).state = "Invalid"
      BY <1>1, <1>3, <1>6 DEF ReadersAreSound, Latest
  <2> QED BY <1>1, <1>2, <1>4, <1>5, <2>1, <2>2 DEF ReadersAreSound, moved
<1>7. CASE g # Len(rs)
  <2>1. ASSUME "staleReader" \notin Races, n.state # "none",
               n.fRegistrationState = "kDeviceNotRegistered"
        PROVE  Latest(moved).pc = "done" /\ \A h \in DOMAIN moved : Passive(moved[h])
      BY <1>1, <1>3, <1>7, <2>1 DEF ReadersAreSound, Latest, Passive
  <2>2. n.state # "none" /\ Needs(n) /\ Latest(moved).pc = "done" =>
            Latest(moved).state = "Invalid"
      BY <1>1, <1>3, <1>7 DEF ReadersAreSound, Latest
  <2> QED BY <1>1, <1>2, <1>4, <1>5, <2>1, <2>2 DEF ReadersAreSound, moved
<1> QED BY <1>6, <1>7

-----------------------------------------------------------------------------
(* The parts of the invariant under changes that leave them alone.         *)

(* The nubs of units, and what a device knows of them, are as they were.   *)
LEMMA SameUnits ==
    ASSUME UnitsAreSound, unit' = unit,
           \A d \in Nubs : /\ nub'[d].fOpenUnits = nub[d].fOpenUnits
                           /\ nub'[d].state = "none" => nub[d].state = "none"
                           /\ nub[d].term = "kTerminated" => nub'[d].term = "kTerminated"
    PROVE  UnitsAreSound'
BY DEF UnitsAreSound, UnitsAt

LEMMA SameMatch ==
    ASSUME UnitsMatchROM, unit' = unit,
           \A d \in Nubs : Current(d)' /\ nub'[d].fDirectory # Absent =>
               Current(d) /\ nub[d].fDirectory = nub'[d].fDirectory
    PROVE  UnitsMatchROM'
<1> SUFFICES ASSUME NEW d \in Nubs, Current(d)', nub'[d].fDirectory # Absent
             PROVE  /\ {unit'[u].kind : u \in LiveUnits(d)'} = UnitsOf(nub'[d].fDirectory)
                    /\ \A u, v \in LiveUnits(d)' : unit'[u].kind = unit'[v].kind => u = v
    BY DEF UnitsMatchROM
<1>1. LiveUnits(d)' = LiveUnits(d)  BY DEF LiveUnits, UnitsAt
<1> QED BY <1>1 DEF UnitsMatchROM

(* Nothing but a reader and its cache changes.                             *)
LEMMA ReaderOnly ==
    ASSUME DeviceInv, NEW d \in Nubs, NEW g \in DOMAIN roms[d], NEW r \in ROMCaches,
           roms' = [roms EXCEPT ![d] = [roms[d] EXCEPT ![g] = r]],
           UNCHANGED <<busVars, resetDue, pruning, nub, unit>>,
           roms[d][g].state = "Invalid" \/ r.pc = "failed" => r.state = "Invalid",
           Reading(r) => Reading(roms[d][g]) \/ \A h \in DOMAIN roms[d] : ~Reading(roms[d][h]),
           roms[d][g].pc # "done", r.pc # "done",
           Passive(roms[d][g]) /\ g # Len(roms[d]) => Passive(r)
    PROVE  DeviceInv'
<1>0. Types  BY DEF DeviceInv
<1>1. roms[d] \in Seq(ROMCaches)  BY <1>0 DEF Types
<1> DEFINE moved == [roms[d] EXCEPT ![g] = r]
<1>2. /\ moved \in Seq(ROMCaches)
      /\ Len(moved) = Len(roms[d]) /\ DOMAIN moved = DOMAIN roms[d]
      /\ moved[g] = r
      /\ \A h \in DOMAIN roms[d] : h # g => moved[h] = roms[d][h]
    BY <1>1, MoveOf
<1>3. /\ roms' \in [Nubs -> Seq(ROMCaches)]
      /\ roms'[d] = moved
      /\ \A e \in Nubs : e # d => roms'[e] = roms[e]
    BY <1>0, <1>2 DEF Types
<1>4. Types'  BY <1>0, <1>3 DEF Types, busVars
<1>5. ReadersAreSound(nub[d], moved)
  <2>1. ReadersAreSound(nub[d], roms[d])  BY DEF DeviceInv
  <2> QED BY <1>1, <2>1, ReaderMoves
<1>6. \A e \in Nubs : ReadersAreSound(nub[e], roms[e])'
    BY <1>3, <1>5 DEF DeviceInv
<1>7. WaitsForReset'
  <2> SUFFICES ASSUME NEW e \in Nubs, Waiting(e)'
               PROVE  Waiting(e)
      BY DEF DeviceInv, WaitsForReset, busVars
  <2>1. CASE e # d
      BY <1>3, <2>1 DEF Waiting, Suspended, Attached
  <2>2. CASE e = d
    <3>1. roms[d] # <<>>
      <4>1. Len(roms[d]) # 0  BY <1>1, LenProperties
      <4> QED BY <4>1
    <3>2. Len(roms[d]) \in DOMAIN roms[d]  BY <1>1, <3>1, LatestIs
    <3>3. Latest(roms[d]).pc = "done"
        BY <1>2, <1>3, <2>2, <3>2 DEF Waiting, Latest
    <3> QED BY <2>2, <3>3 DEF Waiting, Suspended, Attached
  <2> QED BY <2>1, <2>2
<1>8. /\ \A e \in Nubs : NubIsSound(nub[e])'
      /\ \A u \in Units : UnitIsSound(unit[u])'
    BY DEF DeviceInv
<1>9. UnitsAreSound'  BY SameUnits DEF DeviceInv
<1>10. /\ OneFound' /\ SuspendedIsOff'
    BY DEF DeviceInv, OneFound, Found, SuspendedIsOff, Suspended, Attached, busVars
<1>11. PruningIsSound'
    BY DEF DeviceInv, PruningIsSound, Suspended, Attached, GateOpen, IsOpen
<1>12. UnitsMatchROM'
    BY SameMatch DEF DeviceInv, Current, Attached
<1> QED BY <1>4, <1>6, <1>7, <1>8, <1>9, <1>10, <1>11, <1>12 DEF DeviceInv

-----------------------------------------------------------------------------
(* The steps of a reader.                                                  *)

LEMMA ReadROMThreadFuncKeeps ==
    ASSUME DeviceInv, NEW d \in Nubs, NEW g \in DOMAIN roms[d], readROMThreadFunc(d, g)
    PROVE  DeviceInv'
<1> DEFINE r == [roms[d][g] EXCEPT
                    !.pc = IF g = fROMGeneration(d) THEN "check" ELSE "failed"]
<1>1. roms[d] \in Seq(ROMCaches)  BY DEF DeviceInv, Types
<1>2. roms[d][g] \in ROMCaches  BY <1>1, CacheOf
<1>3. r \in ROMCaches  BY <1>2 DEF ROMCaches, Labels
<1>4. roms' = [roms EXCEPT ![d] = [roms[d] EXCEPT ![g] = r]]
    BY DEF readROMThreadFunc, Jump
<1>5. r.state = roms[d][g].state
    BY <1>2 DEF ROMCaches
<1>6. r.pc = IF g = Len(roms[d]) THEN "check" ELSE "failed"
    BY <1>2 DEF ROMCaches, fROMGeneration
<1>7. roms[d][g].pc = "thread" /\ \A h \in DOMAIN roms[d] : ~Reading(roms[d][h])
    BY DEF readROMThreadFunc, Working, Reading
<1>8. roms[d][g].state = "Invalid" \/ r.pc = "failed" => r.state = "Invalid"
    BY <1>5, <1>6 DEF DeviceInv, ReadersAreSound
<1> HIDE DEF r
<1>9. UNCHANGED <<busVars, resetDue, pruning, nub, unit>>
    BY DEF readROMThreadFunc, faultVars
<1> QED BY <1>3, <1>4, <1>6, <1>7, <1>8, <1>9, ReaderOnly DEF Passive, Reading

LEMMA CheckROMStateKeeps ==
    ASSUME DeviceInv, NEW d \in Nubs, NEW g \in DOMAIN roms[d], checkROMState(d, g)
    PROVE  DeviceInv'
<1> DEFINE rom == roms[d][g]
           r == IF rom.state = "Invalid" THEN [rom EXCEPT !.pc = "failed"]
                ELSE [rom EXCEPT !.latched = rom.generation,
                                 !.pc = IF rom.read = Reads THEN "commit" ELSE "read"]
<1>1. roms[d] \in Seq(ROMCaches)  BY DEF DeviceInv, Types
<1>2. rom \in ROMCaches  BY <1>1, CacheOf
<1>3. r \in ROMCaches  BY <1>2 DEF ROMCaches, Labels
<1>4. roms' = [roms EXCEPT ![d] = [roms[d] EXCEPT ![g] = r]]
    BY DEF checkROMState, Jump
<1>5. r.state = rom.state /\ r.pc \in {"failed", "commit", "read"}
      /\ (r.pc = "failed" => rom.state = "Invalid")
    BY <1>2 DEF ROMCaches
<1>6. rom.pc = "check"  BY DEF checkROMState
<1>7. UNCHANGED <<busVars, resetDue, pruning, nub, unit>>
    BY DEF checkROMState, faultVars
<1> HIDE DEF r
<1> QED BY <1>3, <1>4, <1>5, <1>6, <1>7, ReaderOnly DEF Passive, Reading

LEMMA UpdateROMCacheKeeps ==
    ASSUME DeviceInv, NEW d \in Nubs, NEW g \in DOMAIN roms[d], updateROMCache(d, g)
    PROVE  DeviceInv'
<1> DEFINE rom == roms[d][g]
           r1 == [rom EXCEPT !.read = @ + 1, !.pc = "check"]
           r2 == [setROMState(rom, "Invalid", 0) EXCEPT !.pc = "failed"]
           r3 == [rom EXCEPT !.pc = "reset"]
<1>1. roms[d] \in Seq(ROMCaches)  BY DEF DeviceInv, Types
<1>2. rom \in ROMCaches  BY <1>1, CacheOf
<1>3. rom.pc = "read"  BY DEF updateROMCache
<1>4. UNCHANGED <<busVars, resetDue, pruning, nub, unit>>
    BY DEF updateROMCache
<1>5. \/ roms' = [roms EXCEPT ![d] = [roms[d] EXCEPT ![g] = r1]]
      \/ roms' = [roms EXCEPT ![d] = [roms[d] EXCEPT ![g] = r2]]
      \/ roms' = [roms EXCEPT ![d] = [roms[d] EXCEPT ![g] = r3]]
    BY DEF updateROMCache, Jump
<1>6. r1 \in ROMCaches /\ r1.pc = "check" /\ r1.state = rom.state
  <2>1. rom.read \in Nat  BY <1>2 DEF ROMCaches
  <2>2. rom.read + 1 \in Nat  BY <2>1
  <2>3. \A n \in Nat : [rom EXCEPT !.read = n, !.pc = "check"] \in ROMCaches
      BY <1>2 DEF ROMCaches, Labels
  <2>4. r1 = [rom EXCEPT !.read = rom.read + 1, !.pc = "check"]  OBVIOUS
  <2>5. r1.pc = "check" /\ r1.state = rom.state  BY <1>2 DEF ROMCaches
  <2> QED BY <2>2, <2>3, <2>4, <2>5
<1>7. r2 \in ROMCaches /\ r2.pc = "failed" /\ r2.state = "Invalid"
  <2>1. setROMState(rom, "Invalid", 0) \in ROMCaches
        /\ setROMState(rom, "Invalid", 0).state = "Invalid"
      BY <1>2, StateSet
  <2> QED BY <2>1 DEF ROMCaches, Labels
<1>8. r3 \in ROMCaches /\ r3.pc = "reset" /\ r3.state = rom.state
    BY <1>2 DEF ROMCaches, Labels
<1> HIDE DEF r1, r2, r3
<1>9. CASE roms' = [roms EXCEPT ![d] = [roms[d] EXCEPT ![g] = r1]]
    BY <1>3, <1>4, <1>6, <1>9, ReaderOnly DEF Passive, Reading
<1>10. CASE roms' = [roms EXCEPT ![d] = [roms[d] EXCEPT ![g] = r2]]
    BY <1>3, <1>4, <1>7, <1>10, ReaderOnly DEF Passive, Reading
<1>11. CASE roms' = [roms EXCEPT ![d] = [roms[d] EXCEPT ![g] = r3]]
    BY <1>3, <1>4, <1>8, <1>11, ReaderOnly DEF Passive, Reading
<1> QED BY <1>5, <1>9, <1>10, <1>11

LEMMA ResetMetKeeps ==
    ASSUME DeviceInv, NEW d \in Nubs, NEW g \in DOMAIN roms[d], ResetMet(d, g)
    PROVE  DeviceInv'
<1> DEFINE rom == roms[d][g]
           r == IF rom.state = "Invalid" THEN [rom EXCEPT !.pc = "failed"]
                ELSE IF rom.generation # rom.latched
                THEN [rom EXCEPT !.latched = rom.generation, !.pc = "read"]
                ELSE [rom EXCEPT !.pc = "suspend"]
<1>1. roms[d] \in Seq(ROMCaches)  BY DEF DeviceInv, Types
<1>2. rom \in ROMCaches  BY <1>1, CacheOf
<1>3. r \in ROMCaches  BY <1>2 DEF ROMCaches, Labels
<1>4. roms' = [roms EXCEPT ![d] = [roms[d] EXCEPT ![g] = r]]
    BY DEF ResetMet, Jump
<1>5. r.state = rom.state /\ r.pc \in {"failed", "read", "suspend"}
      /\ (r.pc = "failed" => rom.state = "Invalid")
    BY <1>2 DEF ROMCaches
<1>6. rom.pc = "reset"  BY DEF ResetMet
<1>7. UNCHANGED <<busVars, resetDue, pruning, nub, unit>>
    BY DEF ResetMet, faultVars
<1> HIDE DEF r
<1> QED BY <1>3, <1>4, <1>5, <1>6, <1>7, ReaderOnly DEF Passive, Reading

LEMMA SuspendROMKeeps ==
    ASSUME DeviceInv, NEW d \in Nubs, NEW g \in DOMAIN roms[d], SuspendROM(d, g)
    PROVE  DeviceInv'
<1> DEFINE rom == roms[d][g]
           r == [setROMState(rom, "Suspended", 0) EXCEPT !.pc = "read"]
<1>1. roms[d] \in Seq(ROMCaches)  BY DEF DeviceInv, Types
<1>2. rom \in ROMCaches  BY <1>1, CacheOf
<1>3. r \in ROMCaches /\ r.pc = "read" /\ (rom.state = "Invalid" => r.state = "Invalid")
  <2>1. setROMState(rom, "Suspended", 0) \in ROMCaches
        /\ (rom.state = "Invalid" => setROMState(rom, "Suspended", 0).state = "Invalid")
      BY <1>2, StateSet
  <2> QED BY <2>1 DEF ROMCaches, Labels
<1>4. roms' = [roms EXCEPT ![d] = [roms[d] EXCEPT ![g] = r]]
    BY DEF SuspendROM
<1>5. rom.pc = "suspend"  BY DEF SuspendROM
<1>6. UNCHANGED <<busVars, resetDue, pruning, nub, unit>>
    BY DEF SuspendROM, faultVars
<1> HIDE DEF r
<1> QED BY <1>3, <1>4, <1>5, <1>6, ReaderOnly DEF Passive, Reading

-----------------------------------------------------------------------------
(* The bus and the controller.                                             *)

(* A sequence of caches after the state of the current one is set, and     *)
(* after a new one has taken its place.                                    *)
WithState(rs, state, generation) ==
    [rs EXCEPT ![Len(rs)] = setROMState(rs[Len(rs)], state, generation)]

WithNew(rs) == [g \in 1..(Len(rs) + 1) |->
    IF g = Len(rs) + 1 THEN NewROM
    ELSE IF g = Len(rs) THEN Replaced(rs[g]) ELSE rs[g]]

(* The state of the current cache is set.                                  *)
LEMMA LatestSet ==
    ASSUME NEW rs \in Seq(ROMCaches), rs # <<>>, NEW n, ReadersAreSound(n, rs),
           NEW state \in {"Resumed", "Suspended", "Invalid"}, NEW generation \in Nat
    PROVE  /\ WithState(rs, state, generation) \in Seq(ROMCaches)
           /\ ReadersAreSound(n, WithState(rs, state, generation))
           /\ Latest(WithState(rs, state, generation)).pc = Latest(rs).pc
<1> DEFINE r == setROMState(rs[Len(rs)], state, generation)
           set == [rs EXCEPT ![Len(rs)] = r]
<1>1. Len(rs) \in DOMAIN rs /\ Len(rs) \in Nat \ {0}  BY LatestIs
<1>2. rs[Len(rs)] \in ROMCaches  BY <1>1, CacheOf
<1>3. r \in ROMCaches /\ r.pc = rs[Len(rs)].pc
      /\ (rs[Len(rs)].state = "Invalid" => r.state = "Invalid")
    BY <1>2, StateSet
<1> HIDE DEF r
<1>4. set \in Seq(ROMCaches) /\ Len(set) = Len(rs) /\ set[Len(rs)] = r
    BY <1>1, <1>3, MoveOf
<1>6. rs[Len(rs)].state = "Invalid" \/ r.pc = "failed" => r.state = "Invalid"
    BY <1>1, <1>3 DEF ReadersAreSound
<1>7. ReadersAreSound(n, set)
    BY <1>1, <1>3, <1>6, ReaderMoves DEF Reading, Passive
<1>8. Latest(set).pc = Latest(rs).pc  BY <1>3, <1>4 DEF Latest
<1> QED BY <1>4, <1>7, <1>8 DEF r, WithState

(* What the readers rest on of the nub is what they rested on.             *)
LEMMA SameReaders ==
    ASSUME NEW rs, NEW n, NEW m, ReadersAreSound(n, rs),
           m.state = n.state, m.fRegistrationState = n.fRegistrationState
    PROVE  ReadersAreSound(m, rs)
BY DEF ReadersAreSound, Needs

(* A new cache replaces the current one.                                   *)
LEMMA LatestReplaced ==
    ASSUME NEW rs \in Seq(ROMCaches), NEW n, ReadersAreSound(n, rs),
           NEW m, m.state # "none", m.fRegistrationState # "kDeviceNotRegistered",
           fBusGeneration \in Nat, node \in ROMs
    PROVE  /\ WithNew(rs) \in Seq(ROMCaches)
           /\ ReadersAreSound(m, WithNew(rs))
           /\ Latest(WithNew(rs)).pc = "thread"
<1> DEFINE new == [g \in 1..(Len(rs) + 1) |->
                      IF g = Len(rs) + 1 THEN NewROM
                      ELSE IF g = Len(rs) THEN Replaced(rs[g]) ELSE rs[g]]
<1>1. Len(rs) \in Nat /\ DOMAIN rs = 1..Len(rs)  BY LenProperties
<1>2. NewROM \in ROMCaches /\ NewROM.pc = "thread"
    BY DEF NewROM, ROMCaches, Labels
<1>3. \A g \in DOMAIN rs :
          /\ rs[g] \in ROMCaches
          /\ Replaced(rs[g]) \in ROMCaches
          /\ Replaced(rs[g]).pc = rs[g].pc
          /\ Replaced(rs[g]).state = "Invalid"
  <2> SUFFICES ASSUME NEW g \in DOMAIN rs
               PROVE  /\ rs[g] \in ROMCaches
                      /\ Replaced(rs[g]) \in ROMCaches
                      /\ Replaced(rs[g]).pc = rs[g].pc
                      /\ Replaced(rs[g]).state = "Invalid"
      OBVIOUS
  <2>1. rs[g] \in ROMCaches  BY CacheOf
  <2>2. LET set == setROMState(rs[g], "Invalid", 0) IN
            set \in ROMCaches /\ set.pc = rs[g].pc /\ set.state = "Invalid"
    <3>1. 0 \in Nat /\ "Invalid" \in {"Resumed", "Suspended", "Invalid"}  OBVIOUS
    <3>2. setROMState(rs[g], "Invalid", 0).state = "Invalid"
        BY <2>1, <3>1, StateSet
    <3> QED BY <2>1, <3>1, <3>2, StateSet
  <2>3. DeadROM \in ROMCaches /\ DeadROM.pc = "done" /\ DeadROM.state = "Invalid"
      BY DEF DeadROM, ROMCaches, Labels
  <2> QED BY <2>1, <2>2, <2>3 DEF Replaced
<1> HIDE DEF ROMCaches
<1>4. \A g \in 1..(Len(rs) + 1) : g # Len(rs) + 1 => g \in DOMAIN rs
    BY <1>1
<1>5. new \in [1..(Len(rs) + 1) -> ROMCaches]
    BY <1>2, <1>3, <1>4
<1>6. new \in Seq(ROMCaches)
  <2>1. Len(rs) + 1 \in Nat  BY <1>1
  <2> QED BY <2>1, <1>5, SeqDef
<1>7. DOMAIN new = 1..(Len(rs) + 1)  OBVIOUS
<1>8. Len(new) = Len(rs) + 1
  <2>1. DOMAIN new = 1..Len(new) /\ Len(new) \in Nat  BY <1>6, LenProperties
  <2>2. 1..Len(new) = 1..(Len(rs) + 1)  BY <1>7, <2>1
  <2> QED BY <1>1, <2>1, <2>2
<1>9. new[Len(rs) + 1] = NewROM
  <2>1. Len(rs) + 1 \in 1..(Len(rs) + 1)  BY <1>1
  <2> QED BY <2>1
<1>10. \A g \in DOMAIN new : g # Len(rs) + 1 =>
          /\ g \in DOMAIN rs
          /\ new[g].pc = rs[g].pc
          /\ new[g].state = IF g = Len(rs) THEN "Invalid" ELSE rs[g].state
    BY <1>3, <1>4, <1>7
<1>11. new # <<>>
  <2>1. Len(new) # 0  BY <1>1, <1>8
  <2> QED BY <2>1, <1>6, EmptySeq
<1> HIDE DEF new
<1>12. ASSUME NEW g \in DOMAIN new, NEW h \in DOMAIN new, Reading(new[g]), Reading(new[h])
       PROVE  g = h
  <2>1. g # Len(rs) + 1 /\ h # Len(rs) + 1
      BY <1>2, <1>9, <1>12 DEF Reading
  <2> QED BY <1>10, <1>12, <2>1 DEF Reading, ReadersAreSound
<1>13. \A g \in DOMAIN new : g # Len(new) \/ new[g].pc = "failed" => new[g].state = "Invalid"
    BY <1>2, <1>8, <1>9, <1>10 DEF ReadersAreSound
<1>14. Latest(new).pc = "thread"  BY <1>2, <1>8, <1>9 DEF Latest
<1>15. ReadersAreSound(m, new)
    BY <1>11, <1>12, <1>13, <1>14 DEF ReadersAreSound
<1> QED BY <1>6, <1>14, <1>15 DEF new, WithNew

LEMMA BusResetKeeps ==
    ASSUME DeviceInv, BusReset
    PROVE  DeviceInv'
<1>1. UNCHANGED <<fBusGeneration, pruning, nub, roms, unit>> /\ GateOpen /\ phase' = "down"
    BY DEF BusReset
<1>2. Types'  BY <1>1 DEF DeviceInv, Types, BusReset
<1>3. /\ \A e \in Nubs : NubIsSound(nub[e])'
      /\ \A e \in Nubs : ReadersAreSound(nub[e], roms[e])'
      /\ \A u \in Units : UnitIsSound(unit[u])'
    BY <1>1 DEF DeviceInv
<1>4. UnitsAreSound' /\ UnitsMatchROM'
    BY <1>1, SameUnits, SameMatch DEF DeviceInv, Current, Attached
<1>5. OneFound' /\ SuspendedIsOff' /\ PruningIsSound' /\ WaitsForReset'
    BY <1>1 DEF DeviceInv, OneFound, Found, SuspendedIsOff, PruningIsSound, GateOpen,
                WaitsForReset
<1> QED BY <1>2, <1>3, <1>4, <1>5 DEF DeviceInv

LEMMA IsOpenKeeps ==
    ASSUME DeviceInv, NEW d \in Nubs, isOpen(d)
    PROVE  DeviceInv'
<1>1. UNCHANGED <<busVars, faultVars, nub, roms, unit>> /\ d \in Missing
      /\ pruning' = [nub |-> d, wasOpen |-> IsOpen(d)]
    BY DEF isOpen
<1>2. Types'
  <2>1. IsOpen(d) \in BOOLEAN  BY DEF IsOpen, DeviceInv, Types, Devices
  <2> QED BY <1>1, <2>1 DEF DeviceInv, Types, busVars, faultVars
<1>3. /\ \A e \in Nubs : NubIsSound(nub[e])'
      /\ \A e \in Nubs : ReadersAreSound(nub[e], roms[e])'
      /\ \A u \in Units : UnitIsSound(unit[u])'
    BY <1>1 DEF DeviceInv
<1>4. UnitsAreSound' /\ UnitsMatchROM'
    BY <1>1, SameUnits, SameMatch DEF DeviceInv, Current, Attached
<1>5. OneFound' /\ SuspendedIsOff' /\ WaitsForReset'
    BY <1>1 DEF DeviceInv, OneFound, Found, SuspendedIsOff, Suspended, Attached,
                WaitsForReset, Waiting, busVars, faultVars
<1>6. PruningIsSound'
    BY <1>1 DEF PruningIsSound, Missing, Suspended, Attached, IsOpen
<1> QED BY <1>2, <1>3, <1>4, <1>5, <1>6 DEF DeviceInv

LEMMA UpdatePlaneKeeps ==
    ASSUME DeviceInv, updatePlane
    PROVE  DeviceInv'
<1>1. UNCHANGED <<fBusGeneration, node, faultVars, pruning, nub, roms, unit>>
      /\ phase = "scanned" /\ phase' = "pruned" /\ Missing = {} /\ GateOpen
    BY DEF updatePlane
<1>2. Types'  BY <1>1 DEF DeviceInv, Types, faultVars
<1>3. /\ \A e \in Nubs : NubIsSound(nub[e])'
      /\ \A e \in Nubs : ReadersAreSound(nub[e], roms[e])'
      /\ \A u \in Units : UnitIsSound(unit[u])'
    BY <1>1 DEF DeviceInv
<1>4. UnitsAreSound' /\ UnitsMatchROM'
    BY <1>1, SameUnits, SameMatch DEF DeviceInv, Current, Attached
<1>5. OneFound' /\ SuspendedIsOff' /\ PruningIsSound'
    BY <1>1 DEF DeviceInv, OneFound, Found, SuspendedIsOff, PruningIsSound, GateOpen
<1>6. WaitsForReset'
    BY <1>1 DEF DeviceInv, WaitsForReset, Waiting, Suspended, Attached, Missing, faultVars
<1> QED BY <1>2, <1>3, <1>4, <1>5, <1>6 DEF DeviceInv

LEMMA SuspendBusKeeps ==
    ASSUME DeviceInv, suspendBus
    PROVE  DeviceInv'
<1>0. Types  BY DEF DeviceInv
<1>1. UNCHANGED <<node, faultVars, pruning, unit>> /\ phase' = "suspended" /\ GateOpen
      /\ fBusGeneration' = fBusGeneration + 1
    BY DEF suspendBus
<1>2. \A d \in Nubs : nub'[d] = IF Suspended(d) THEN [nub[d] EXCEPT !.onBus = FALSE] ELSE nub[d]
    BY DEF suspendBus
<1>3. \A d \in Nubs :
          /\ nub[d] \in Devices /\ nub'[d] \in Devices
          /\ nub'[d].state = nub[d].state /\ nub'[d].term = nub[d].term
          /\ nub'[d].dying = nub[d].dying /\ nub'[d].busy = nub[d].busy
          /\ nub'[d].fOpenFromDevice = nub[d].fOpenFromDevice
          /\ nub'[d].fOpenUnits = nub[d].fOpenUnits
          /\ nub'[d].fRegistrationState = nub[d].fRegistrationState
          /\ nub'[d].fDirectory = nub[d].fDirectory
          /\ Suspended(d) => nub'[d].onBus = FALSE
          /\ nub[d].state = "none" => nub'[d] = nub[d]
  <2> SUFFICES ASSUME NEW d \in Nubs
               PROVE  /\ nub[d] \in Devices /\ nub'[d] \in Devices
                      /\ nub'[d].state = nub[d].state /\ nub'[d].term = nub[d].term
                      /\ nub'[d].dying = nub[d].dying /\ nub'[d].busy = nub[d].busy
                      /\ nub'[d].fOpenFromDevice = nub[d].fOpenFromDevice
                      /\ nub'[d].fOpenUnits = nub[d].fOpenUnits
                      /\ nub'[d].fRegistrationState = nub[d].fRegistrationState
                      /\ nub'[d].fDirectory = nub[d].fDirectory
                      /\ Suspended(d) => nub'[d].onBus = FALSE
                      /\ nub[d].state = "none" => nub'[d] = nub[d]
      OBVIOUS
  <2>1. nub[d] \in Devices  BY <1>0 DEF Types
  <2>2. CASE Suspended(d)
    <3>1. nub'[d] = [nub[d] EXCEPT !.onBus = FALSE]  BY <1>2, <2>2
    <3>2. nub[d].state = "attached"  BY <2>2 DEF Suspended, Attached
    <3> QED BY <2>1, <3>1, <3>2 DEF Devices
  <2> QED BY <1>2, <2>1, <2>2
<1>4. \A d \in Nubs : roms'[d] =
          IF Suspended(d)
          THEN WithState(roms[d], "Suspended", 0) ELSE roms[d]
    BY DEF suspendBus, WithState
<1>5. \A d \in Nubs : roms'[d] \in Seq(ROMCaches) /\ ReadersAreSound(nub[d], roms'[d])
  <2> SUFFICES ASSUME NEW d \in Nubs
               PROVE  roms'[d] \in Seq(ROMCaches) /\ ReadersAreSound(nub[d], roms'[d])
      OBVIOUS
  <2>1. roms[d] \in Seq(ROMCaches) /\ ReadersAreSound(nub[d], roms[d])
      BY DEF DeviceInv, Types
  <2>2. CASE Suspended(d)
    <3>1. roms[d] # <<>>  BY <2>1, <2>2 DEF ReadersAreSound, Suspended, Attached
    <3>2. 0 \in Nat /\ "Suspended" \in {"Resumed", "Suspended", "Invalid"}  OBVIOUS
    <3>3. roms'[d] = WithState(roms[d], "Suspended", 0)
        BY <1>4, <2>2
    <3> HIDE DEF ROMCaches
    <3> QED BY <2>1, <3>1, <3>2, <3>3, LatestSet
  <2> QED BY <1>4, <2>1, <2>2
<1>6. Types'
  <2>1. nub' \in [Nubs -> Devices]
    <3>1. nub' = [d \in Nubs |-> nub'[d]]  BY DEF suspendBus
    <3> QED BY <1>3, <3>1
  <2>2. roms' \in [Nubs -> Seq(ROMCaches)]
    <3>1. roms' = [d \in Nubs |-> roms'[d]]  BY DEF suspendBus
    <3> QED BY <1>5, <3>1
  <2>3. fBusGeneration' \in Nat  BY <1>0, <1>1 DEF Types
  <2> QED BY <1>0, <1>1, <2>1, <2>2, <2>3 DEF Types, faultVars
<1>7. \A e \in Nubs : NubIsSound(nub[e])'
    BY <1>3 DEF DeviceInv, NubIsSound, Needs, Held
<1>8. \A e \in Nubs : ReadersAreSound(nub[e], roms[e])'
    BY <1>3, <1>5, SameReaders
<1>9. \A u \in Units : UnitIsSound(unit[u])'
    BY <1>1 DEF DeviceInv
<1>10. UnitsAreSound' /\ UnitsMatchROM'
    BY <1>1, <1>3, SameUnits, SameMatch DEF DeviceInv, Current, Attached
<1>11. OneFound'
    BY <1>3 DEF DeviceInv, OneFound, Found
<1>12. SuspendedIsOff'
    BY <1>3 DEF SuspendedIsOff, Suspended, Attached
<1>13. PruningIsSound' /\ WaitsForReset'
    BY <1>1 DEF PruningIsSound, GateOpen, WaitsForReset
<1> QED BY <1>6, <1>7, <1>8, <1>9, <1>10, <1>11, <1>12, <1>13 DEF DeviceInv

(* The controller finds the node's nub, or makes one: only that nub and    *)
(* its caches change, it is on the bus, and its current cache is read or   *)
(* of use.                                                                 *)
LEMMA UpdateKeeps ==
    ASSUME DeviceInv, NEW d \in Nubs, NEW m \in Devices, NEW rs \in Seq(ROMCaches),
           phase = "suspended", phase' = "scanned", GateOpen,
           UNCHANGED <<fBusGeneration, node, faultVars, pruning, unit>>,
           nub' = [nub EXCEPT ![d] = m], roms' = [roms EXCEPT ![d] = rs],
           NubIsSound(m), ReadersAreSound(m, rs),
           m.state = "attached", m.term = "kNotTerminated", m.onBus,
           nub[d].term # "kTerminated",
           m.fOpenUnits = nub[d].fOpenUnits,
           Found \subseteq {d},
           nub[d].state = "attached" => m.fDirectory = nub[d].fDirectory,
           nub[d].state # "attached" => m.fDirectory = Absent,
           ~(Needs(m) /\ Latest(rs).pc = "done")
    PROVE  DeviceInv'
<1>0. Types  BY DEF DeviceInv
<1>1. /\ nub' \in [Nubs -> Devices] /\ nub'[d] = m
      /\ \A e \in Nubs : e # d => nub'[e] = nub[e]
    BY <1>0 DEF Types
<1>2. /\ roms' \in [Nubs -> Seq(ROMCaches)] /\ roms'[d] = rs
      /\ \A e \in Nubs : e # d => roms'[e] = roms[e]
    BY <1>0 DEF Types
<1>3. Types'  BY <1>0, <1>1, <1>2 DEF Types, faultVars
<1>4. /\ \A e \in Nubs : NubIsSound(nub[e])'
      /\ \A e \in Nubs : ReadersAreSound(nub[e], roms[e])'
      /\ \A u \in Units : UnitIsSound(unit[u])'
    BY <1>1, <1>2 DEF DeviceInv
<1>5. UnitsAreSound'
  <2>1. \A e \in Nubs : /\ nub'[e].fOpenUnits = nub[e].fOpenUnits
                        /\ nub'[e].state = "none" => nub[e].state = "none"
                        /\ nub[e].term = "kTerminated" => nub'[e].term = "kTerminated"
      BY <1>1
  <2> QED BY <2>1, SameUnits DEF DeviceInv
<1>6. UnitsMatchROM'
  <2>1. \A e \in Nubs : Current(e)' /\ nub'[e].fDirectory # Absent =>
            Current(e) /\ nub[e].fDirectory = nub'[e].fDirectory
      BY <1>1 DEF Current, Attached
  <2> QED BY <2>1, SameMatch DEF DeviceInv
<1>7. OneFound'
  <2>1. Found' \subseteq {d}  BY <1>1 DEF Found
  <2> QED BY <2>1 DEF OneFound
<1>8. SuspendedIsOff' /\ PruningIsSound'
    BY DEF SuspendedIsOff, PruningIsSound, GateOpen
<1>9. WaitsForReset'
  <2> SUFFICES ASSUME NEW e \in Nubs, Waiting(e)'
               PROVE  ~nub'[e].onBus
      BY DEF WaitsForReset
  <2>1. e # d  BY <1>1, <1>2 DEF Waiting, Needs
  <2>2. Suspended(e)  BY <1>1, <2>1 DEF Waiting, Suspended, Attached
  <2>3. ~nub[e].onBus  BY <2>2 DEF DeviceInv, SuspendedIsOff
  <2> QED BY <1>1, <2>1, <2>3
<1> QED BY <1>3, <1>4, <1>5, <1>6, <1>7, <1>8, <1>9 DEF DeviceInv

LEMMA SetNodeROMKeeps ==
    ASSUME DeviceInv, NEW d \in Found, node \in ROMs, setNodeROM(d),
           phase = "suspended", phase' = "scanned", GateOpen,
           UNCHANGED <<fBusGeneration, node, faultVars, pruning, unit>>
    PROVE  DeviceInv'
<1>1. /\ d \in Nubs /\ nub[d].state # "none" /\ nub[d].term # "kTerminated"
      /\ nub[d] \in Devices /\ roms[d] \in Seq(ROMCaches)
      /\ fBusGeneration \in Nat
      /\ NubIsSound(nub[d]) /\ ReadersAreSound(nub[d], roms[d])
    BY DEF Found, DeviceInv, Types
<1>2. nub[d].state = "attached" /\ ~nub[d].dying /\ roms[d] # <<>>
    BY <1>1 DEF Devices, NubIsSound, ReadersAreSound
<1>3. Found \subseteq {d}  BY DEF DeviceInv, OneFound
<1> DEFINE found == [nub[d] EXCEPT !.onBus = TRUE, !.term = "kNotTerminated"]
           again == [found EXCEPT !.fRegistrationState = "kDeviceNeedsRegisterService",
                                  !.busy = @ + 1]
<1>4. /\ found \in Devices /\ found.state = "attached" /\ found.onBus
      /\ found.term = "kNotTerminated" /\ found.dying = nub[d].dying
      /\ found.fOpenUnits = nub[d].fOpenUnits
      /\ found.fOpenFromDevice = nub[d].fOpenFromDevice
      /\ found.fDirectory = nub[d].fDirectory
      /\ found.fRegistrationState = nub[d].fRegistrationState
      /\ found.busy = nub[d].busy
    BY <1>1, <1>2 DEF Devices, TerminationStates
<1>5. NubIsSound(found)
    BY <1>1, <1>2, <1>4 DEF NubIsSound, Needs, Held
<1>6. CASE ~hasROMChanged(d)
  <2>1. nub' = [nub EXCEPT ![d] = found]
      BY <1>6 DEF setNodeROM
  <2>2. roms' = [roms EXCEPT ![d] = WithState(roms[d], "Resumed", fBusGeneration)]
      BY <1>6 DEF setNodeROM, SetCurrentROM, WithState, fROMGeneration
  <2>3. "Resumed" \in {"Resumed", "Suspended", "Invalid"}  OBVIOUS
  <2>4. /\ WithState(roms[d], "Resumed", fBusGeneration) \in Seq(ROMCaches)
        /\ ReadersAreSound(nub[d], WithState(roms[d], "Resumed", fBusGeneration))
        /\ Latest(WithState(roms[d], "Resumed", fBusGeneration)).pc = Latest(roms[d]).pc
      BY <1>1, <1>2, <2>3, LatestSet
  <2>5. Latest(roms[d]).state # "Invalid"
      BY <1>6 DEF hasROMChanged, fDeviceROM, fROMGeneration, Latest
  <2>6. ~(Needs(nub[d]) /\ Latest(roms[d]).pc = "done")
      BY <1>1, <2>5 DEF ReadersAreSound
  <2>7. ~(Needs(found) /\ Latest(WithState(roms[d], "Resumed", fBusGeneration)).pc = "done")
      BY <1>4, <2>4, <2>6 DEF Needs
  <2>8. ReadersAreSound(found, WithState(roms[d], "Resumed", fBusGeneration))
      BY <1>2, <1>4, <2>4, SameReaders
  <2> HIDE DEF found
  <2> QED BY <1>1, <1>2, <1>3, <1>4, <1>5, <2>1, <2>2, <2>4, <2>7, <2>8, UpdateKeeps
<1>7. CASE hasROMChanged(d)
  <2> DEFINE m == IF found.fRegistrationState = "kDeviceNotRegistered" THEN again ELSE found
  <2>1. nub' = [nub EXCEPT ![d] = m]
      BY <1>7 DEF setNodeROM
  <2>2. roms' = [roms EXCEPT ![d] = WithNew(roms[d])]
      BY <1>7 DEF setNodeROM, withOwnerAndBytes, WithNew
  <2>3. /\ m \in Devices /\ m.state = "attached" /\ m.onBus
        /\ m.term = "kNotTerminated"
        /\ m.fOpenUnits = nub[d].fOpenUnits
        /\ m.fDirectory = nub[d].fDirectory
        /\ m.fRegistrationState # "kDeviceNotRegistered"
        /\ NubIsSound(m)
    <3>1. CASE found.fRegistrationState = "kDeviceNotRegistered"
      <4>1. found.busy = 0  BY <1>5, <3>1 DEF NubIsSound, Needs
      <4>2. again = [found EXCEPT !.fRegistrationState = "kDeviceNeedsRegisterService",
                                  !.busy = 1]
        <5>1. again = [found EXCEPT !.fRegistrationState = "kDeviceNeedsRegisterService",
                                    !.busy = found.busy + 1]
            OBVIOUS
        <5>2. found.busy + 1 = 1  BY <4>1
        <5> QED BY <5>1, <5>2
      <4> HIDE DEF found
      <4>3. /\ again \in Devices /\ again.state = "attached" /\ again.onBus
            /\ again.term = "kNotTerminated" /\ again.dying = found.dying
            /\ again.fOpenUnits = found.fOpenUnits
            /\ again.fOpenFromDevice = found.fOpenFromDevice
            /\ again.fDirectory = found.fDirectory
            /\ again.fRegistrationState = "kDeviceNeedsRegisterService"
            /\ again.busy = 1
          BY <1>4, <4>2 DEF Devices, RegistrationStates
      <4> HIDE DEF again
      <4>4. "staleReader" \in Races \/ again.fDirectory = Absent
          BY <1>5, <3>1, <4>3 DEF NubIsSound
      <4>5. NubIsSound(again)
          BY <1>4, <1>5, <4>3, <4>4 DEF NubIsSound, Needs, Held
      <4> QED BY <1>4, <3>1, <4>3, <4>5
    <3>2. CASE found.fRegistrationState # "kDeviceNotRegistered"
      <4> HIDE DEF found
      <4> QED BY <1>4, <1>5, <3>2
    <3> QED BY <3>1, <3>2
  <2> HIDE DEF m
  <2>4. /\ WithNew(roms[d]) \in Seq(ROMCaches)
        /\ ReadersAreSound(m, WithNew(roms[d]))
        /\ Latest(WithNew(roms[d])).pc = "thread"
    <3>1. m.state # "none"  BY <2>3
    <3> QED BY <1>1, <2>3, <3>1, LatestReplaced
  <2>5. ~(Needs(m) /\ Latest(WithNew(roms[d])).pc = "done")
      BY <2>4
  <2> QED BY <1>1, <1>2, <1>3, <2>1, <2>2, <2>3, <2>4, <2>5, UpdateKeeps
<1> QED BY <1>6, <1>7

LEMMA CreateDeviceNubKeeps ==
    ASSUME DeviceInv, NEW d \in Unused, node \in ROMs, Found = {}, createDeviceNub(d),
           phase = "suspended", phase' = "scanned", GateOpen,
           UNCHANGED <<fBusGeneration, node, faultVars, pruning, unit>>
    PROVE  DeviceInv'
<1>1. /\ d \in Nubs /\ nub[d].state = "none"
      /\ roms[d] \in Seq(ROMCaches) /\ fBusGeneration \in Nat
      /\ NubIsSound(nub[d]) /\ ReadersAreSound(nub[d], roms[d])
    BY DEF Unused, DeviceInv, Types
<1>2. nub[d] = NoDevice  BY <1>1 DEF NubIsSound
<1> DEFINE m == [NoDevice EXCEPT !.state = "attached", !.onBus = TRUE, !.busy = 1,
                     !.fRegistrationState = "kDeviceNeedsRegisterService",
                     !.fROMReadRetry = Retries]
<1>3. nub' = [nub EXCEPT ![d] = m]  BY DEF createDeviceNub
<1>4. roms' = [roms EXCEPT ![d] = WithNew(roms[d])]
    BY DEF createDeviceNub, withOwnerAndBytes, WithNew
<1>5. /\ m.state = "attached" /\ m.onBus /\ m.term = "kNotTerminated"
      /\ m.fOpenUnits = {} /\ m.fOpenFromDevice = FALSE /\ m.dying = FALSE
      /\ m.fDirectory = Absent /\ m.busy = 1
      /\ m.fRegistrationState = "kDeviceNeedsRegisterService"
    BY DEF NoDevice
<1>6. m \in Devices
  <2>1. Retries \in 0..Retries  BY DeviceAssumption DEF DeviceAssumption
  <2> QED BY <2>1 DEF NoDevice, Devices, TerminationStates, RegistrationStates
<1>7. nub[d].term = "kNotTerminated" /\ nub[d].fOpenUnits = {}
    BY <1>2 DEF NoDevice
<1> HIDE DEF m
<1>8. NubIsSound(m)  BY <1>5 DEF NubIsSound, Needs, Held
<1>9. /\ WithNew(roms[d]) \in Seq(ROMCaches)
      /\ ReadersAreSound(m, WithNew(roms[d]))
      /\ Latest(WithNew(roms[d])).pc = "thread"
  <2>1. m.state # "none" /\ m.fRegistrationState # "kDeviceNotRegistered"  BY <1>5
  <2> QED BY <1>1, <2>1, LatestReplaced
<1>10. /\ m.fOpenUnits = nub[d].fOpenUnits /\ nub[d].term # "kTerminated"
       /\ nub[d].state # "attached" /\ ~(Needs(m) /\ Latest(WithNew(roms[d])).pc = "done")
    BY <1>1, <1>5, <1>7, <1>9
<1> QED BY <1>1, <1>3, <1>4, <1>5, <1>6, <1>8, <1>9, <1>10, UpdateKeeps

(* No nub is for the node, or there is no object left for one.             *)
LEMMA UpdateDeviceKeeps ==
    ASSUME DeviceInv, updateDevice
    PROVE  DeviceInv'
<1>1. UNCHANGED <<fBusGeneration, node, faultVars, pruning, unit>>
      /\ phase = "suspended" /\ phase' = "scanned" /\ GateOpen
    BY DEF updateDevice
<1>2. node \in ROMs \cup {Absent}  BY DEF DeviceInv, Types
<1>3. CASE UNCHANGED <<nub, roms>>
  <2>1. Types'  BY <1>1, <1>3 DEF DeviceInv, Types, faultVars
  <2>2. /\ \A e \in Nubs : NubIsSound(nub[e])'
        /\ \A e \in Nubs : ReadersAreSound(nub[e], roms[e])'
        /\ \A u \in Units : UnitIsSound(unit[u])'
      BY <1>1, <1>3 DEF DeviceInv
  <2>3. UnitsAreSound' /\ UnitsMatchROM'
      BY <1>1, <1>3, SameUnits, SameMatch DEF DeviceInv, Current, Attached
  <2>4. OneFound' /\ SuspendedIsOff' /\ PruningIsSound'
      BY <1>1, <1>3 DEF DeviceInv, OneFound, Found, SuspendedIsOff, PruningIsSound, GateOpen
  <2>5. WaitsForReset'
      BY <1>1, <1>3 DEF DeviceInv, WaitsForReset, Waiting, Suspended, Attached, SuspendedIsOff
  <2> QED BY <2>1, <2>2, <2>3, <2>4, <2>5 DEF DeviceInv
<1>4. CASE node # Absent /\ Found # {} /\ \E d \in Found : setNodeROM(d)
    BY <1>1, <1>2, <1>4, SetNodeROMKeeps
<1>5. CASE node # Absent /\ Found = {} /\ Unused # {}
           /\ createDeviceNub(CHOOSE d \in Unused : TRUE)
  <2>1. (CHOOSE d \in Unused : TRUE) \in Unused  BY <1>5
  <2> QED BY <1>1, <1>2, <1>5, <2>1, CreateDeviceNubKeeps
<1> QED BY <1>3, <1>4, <1>5 DEF updateDevice

-----------------------------------------------------------------------------
(* Clients and termination.                                                *)

(* The units of one device change, none comes to it, and it knows which    *)
(* are open.                                                               *)
LEMMA UnitsOfOne ==
    ASSUME DeviceInv, NEW d \in Nubs,
           \A e \in Nubs : e # d => nub'[e] = nub[e],
           \A u \in Units : unit[u].device # d => unit'[u] = unit[u],
           \A u \in Units : unit[u].device = d =>
               \/ unit'[u] = NoUnit
               \/ /\ unit'[u].device = d /\ unit'[u].kind = unit[u].kind
                  /\ unit'[u].term # "kTerminated" =>
                        /\ unit[u].term # "kTerminated"
                        /\ unit'[u].state = unit[u].state \/ nub'[d].term = "kTerminated",
           nub'[d].fOpenUnits = {u \in Units : unit'[u].device = d /\ unit'[u].open},
           nub'[d].state # "none",
           nub[d].term = "kTerminated" => nub'[d].term = "kTerminated"
    PROVE  UnitsAreSound'
<1>0. UnitsAreSound /\ NoNub \notin Nubs
    BY DeviceAssumption DEF DeviceInv, DeviceAssumption
<1>1. NoUnit.device = NoNub  BY DEF NoUnit
<1>2. UnitsAt(d)' \subseteq UnitsAt(d)
  <2> SUFFICES ASSUME NEW u \in Units, unit'[u].device = d PROVE unit[u].device = d
      BY DEF UnitsAt
  <2> QED OBVIOUS
<1>3. \A e \in Nubs : e # d =>
          UnitsAt(e)' = UnitsAt(e) /\ \A u \in UnitsAt(e) : unit'[u] = unit[u]
  <2> SUFFICES ASSUME NEW e \in Nubs, e # d, NEW u \in Units
               PROVE  /\ unit'[u].device = e <=> unit[u].device = e
                      /\ unit[u].device = e => unit'[u] = unit[u]
      BY DEF UnitsAt
  <2>1. CASE unit[u].device # d  BY <2>1
  <2>2. CASE unit[u].device = d
    <3>1. unit'[u].device \in {d, NoNub}  BY <1>1, <2>2
    <3> QED BY <1>0, <2>2, <3>1
  <2> QED BY <2>1, <2>2
<1> SUFFICES ASSUME NEW e \in Nubs
    PROVE  /\ nub'[e].fOpenUnits = {u \in UnitsAt(e)' : unit'[u].open}
           /\ nub'[e].state = "none" => UnitsAt(e)' = {}
           /\ \A u \in UnitsAt(e)' :
                 unit'[u].term # "kTerminated" /\ nub'[e].term # "kTerminated" =>
                     unit'[u].state = "attached"
           /\ \A u, v \in UnitsAt(e)' :
                 unit'[u].term # "kTerminated" /\ unit'[v].term # "kTerminated"
                   /\ unit'[u].kind = unit'[v].kind => u = v
    BY DEF UnitsAreSound
<1>4. CASE e # d
  <2>1. nub'[e] = nub[e] /\ UnitsAt(e)' = UnitsAt(e)
        /\ \A u \in UnitsAt(e) : unit'[u] = unit[u]
      BY <1>3, <1>4
  <2> QED BY <1>0, <2>1 DEF UnitsAreSound
<1>5. CASE e = d
  <2>1. \A u \in UnitsAt(d)' :
            /\ u \in UnitsAt(d) /\ unit'[u].kind = unit[u].kind
            /\ unit'[u].term # "kTerminated" =>
                  /\ unit[u].term # "kTerminated"
                  /\ unit'[u].state = unit[u].state \/ nub'[d].term = "kTerminated"
    <3> SUFFICES ASSUME NEW u \in UnitsAt(d)'
                 PROVE  /\ u \in UnitsAt(d) /\ unit'[u].kind = unit[u].kind
                        /\ unit'[u].term # "kTerminated" =>
                              /\ unit[u].term # "kTerminated"
                              /\ unit'[u].state = unit[u].state \/ nub'[d].term = "kTerminated"
        OBVIOUS
    <3>1. u \in Units /\ unit'[u].device = d /\ unit[u].device = d
        BY <1>2 DEF UnitsAt
    <3>2. unit'[u] # NoUnit  BY <1>0, <1>1, <3>1
    <3> QED BY <3>1, <3>2 DEF UnitsAt
  <2>2. nub'[d].fOpenUnits = {u \in UnitsAt(d)' : unit'[u].open}
      BY DEF UnitsAt
  <2>3. \A u \in UnitsAt(d)' :
            unit'[u].term # "kTerminated" /\ nub'[d].term # "kTerminated" =>
                unit'[u].state = "attached"
      BY <1>0, <2>1 DEF UnitsAreSound
  <2>4. \A u, v \in UnitsAt(d)' :
            unit'[u].term # "kTerminated" /\ unit'[v].term # "kTerminated"
              /\ unit'[u].kind = unit'[v].kind => u = v
      BY <1>0, <2>1 DEF UnitsAreSound
  <2> QED BY <1>5, <2>2, <2>3, <2>4
<1> QED BY <1>4, <1>5

(* The units of one device change, those that are live do not.             *)
LEMMA MatchOfOne ==
    ASSUME DeviceInv, NEW d \in Nubs,
           \A e \in Nubs : e # d => nub'[e] = nub[e],
           \A u \in Units : unit[u].device # d => unit'[u] = unit[u],
           \A u \in Units : unit[u].device = d => unit'[u].device \in {d, NoNub},
           Current(d)' => Current(d) /\ nub'[d].fDirectory = nub[d].fDirectory,
           Current(d)' => \A u \in Units : unit[u].device = d =>
               /\ unit'[u].kind = unit[u].kind \/ unit'[u].device = NoNub
               /\ (unit'[u].device = d /\ unit'[u].state = "attached"
                      /\ unit'[u].term = "kNotTerminated")
                    <=> (unit[u].state = "attached" /\ unit[u].term = "kNotTerminated")
    PROVE  UnitsMatchROM'
<1>0. UnitsMatchROM /\ NoNub \notin Nubs
    BY DeviceAssumption DEF DeviceInv, DeviceAssumption
<1> SUFFICES ASSUME NEW e \in Nubs, Current(e)', nub'[e].fDirectory # Absent
             PROVE  /\ {unit'[u].kind : u \in LiveUnits(e)'} = UnitsOf(nub'[e].fDirectory)
                    /\ \A u, v \in LiveUnits(e)' : unit'[u].kind = unit'[v].kind => u = v
    BY DEF UnitsMatchROM
<1>1. Current(e) /\ nub'[e].fDirectory = nub[e].fDirectory
    BY DEF Current, Attached
<1>2. \A u \in Units : u \in LiveUnits(e)' <=> u \in LiveUnits(e)
  <2> SUFFICES ASSUME NEW u \in Units
               PROVE  u \in LiveUnits(e)' <=> u \in LiveUnits(e)
      OBVIOUS
  <2>1. CASE unit[u].device # d
    <3>1. unit'[u] = unit[u]  BY <2>1
    <3> QED BY <3>1 DEF LiveUnits, UnitsAt
  <2>2. CASE unit[u].device = d /\ e = d
      BY <2>2 DEF LiveUnits, UnitsAt
  <2>3. CASE unit[u].device = d /\ e # d
    <3>1. unit'[u].device # e  BY <1>0, <2>3
    <3> QED BY <2>3, <3>1 DEF LiveUnits, UnitsAt
  <2> QED BY <2>1, <2>2, <2>3
<1>3. LiveUnits(e)' = LiveUnits(e)
  <2>1. LiveUnits(e) \subseteq Units /\ LiveUnits(e)' \subseteq Units
      BY DEF LiveUnits, UnitsAt
  <2> QED BY <1>2, <2>1
<1>4. \A u \in LiveUnits(e) : unit'[u].kind = unit[u].kind
  <2> SUFFICES ASSUME NEW u \in LiveUnits(e) PROVE unit'[u].kind = unit[u].kind
      OBVIOUS
  <2>1. u \in Units /\ unit[u].device = e /\ unit'[u].device = e
      BY <1>3 DEF LiveUnits, UnitsAt
  <2> QED BY <1>0, <2>1
<1> QED BY <1>0, <1>1, <1>3, <1>4 DEF UnitsMatchROM

(* A device and its units change under the arbitration lock: it may begin  *)
(* to die, and nothing else of it changes but who has it open.             *)
LEMMA ClientKeeps ==
    ASSUME DeviceInv, NEW d \in Nubs, NEW m \in Devices,
           UNCHANGED <<busVars, faultVars, pruning, roms>>,
           nub' = [nub EXCEPT ![d] = m],
           m.state = nub[d].state, m.onBus = nub[d].onBus,
           m.fRegistrationState = nub[d].fRegistrationState,
           m.term = nub[d].term \/ (nub[d].term = "kNeedsTermination" /\ m.term = "kTerminated"),
           "staleIsOpen" \in Races \/ GateOpen \/ pruning.nub # d \/ Held(m) = Held(nub[d]),
           NubIsSound(m),
           unit' \in [Units -> UnitNubs],
           \A u \in Units : UnitIsSound(unit'[u]),
           UnitsAreSound', UnitsMatchROM'
    PROVE  DeviceInv'
<1>0. Types  BY DEF DeviceInv
<1>1. /\ nub' \in [Nubs -> Devices] /\ nub'[d] = m
      /\ \A e \in Nubs : e # d => nub'[e] = nub[e]
    BY <1>0 DEF Types
<1>2. Types'  BY <1>0, <1>1 DEF Types, busVars, faultVars
<1>3. /\ \A e \in Nubs : NubIsSound(nub[e])'
      /\ \A u \in Units : UnitIsSound(unit[u])'
    BY <1>1 DEF DeviceInv
<1>4. \A e \in Nubs : ReadersAreSound(nub[e], roms[e])'
    BY <1>1, SameReaders DEF DeviceInv
<1>5. OneFound'
  <2>1. Found' \subseteq Found  BY <1>1 DEF Found
  <2> QED BY <2>1 DEF DeviceInv, OneFound
<1>6. \A e \in Nubs : Suspended(e)' <=> Suspended(e)
    BY <1>1 DEF Suspended, Attached
<1>7. \A e \in Nubs : nub'[e].onBus = nub[e].onBus /\ Needs(nub'[e]) = Needs(nub[e])
    BY <1>1 DEF Needs
<1>8. SuspendedIsOff' /\ WaitsForReset'
    BY <1>6, <1>7 DEF DeviceInv, SuspendedIsOff, WaitsForReset, Waiting, busVars, faultVars
<1>9. PruningIsSound'
  <2> SUFFICES ASSUME ~GateOpen
               PROVE  /\ pruning.nub \in Nubs
                      /\ Suspended(pruning.nub)' /\ ~nub'[pruning.nub].onBus
                      /\ "staleIsOpen" \notin Races => pruning.wasOpen = IsOpen(pruning.nub)'
      BY DEF PruningIsSound, GateOpen
  <2>1. /\ pruning.nub \in Nubs
        /\ Suspended(pruning.nub) /\ ~nub[pruning.nub].onBus
        /\ "staleIsOpen" \notin Races => pruning.wasOpen = IsOpen(pruning.nub)
      BY DEF DeviceInv, PruningIsSound
  <2>2. "staleIsOpen" \notin Races => IsOpen(pruning.nub)' = IsOpen(pruning.nub)
      BY <1>1, <2>1 DEF IsOpen, Held
  <2> QED BY <1>6, <1>7, <2>1, <2>2
<1> QED BY <1>2, <1>3, <1>4, <1>5, <1>8, <1>9 DEF DeviceInv

LEMMA OpenDeviceKeeps ==
    ASSUME DeviceInv, NEW d \in Nubs, OpenDevice(d)
    PROVE  DeviceInv'
<1> DEFINE m == [nub[d] EXCEPT !.fOpenFromDevice = TRUE]
<1>1. nub[d] \in Devices /\ NubIsSound(nub[d])  BY DEF DeviceInv, Types
<1>2. nub[d].state = "attached" /\ nub[d].fOpenUnits = {}
      /\ ("staleIsOpen" \in Races \/ pruning.nub # d)
    BY DEF OpenDevice, Attached, MayOpen
<1>3. nub' = [nub EXCEPT ![d] = m] /\ UNCHANGED <<busVars, faultVars, pruning, roms, unit>>
    BY DEF OpenDevice
<1>4. /\ m \in Devices /\ m.state = nub[d].state /\ m.onBus = nub[d].onBus
      /\ m.fRegistrationState = nub[d].fRegistrationState /\ m.term = nub[d].term
      /\ m.fOpenUnits = nub[d].fOpenUnits /\ m.fOpenFromDevice = TRUE
      /\ m.fDirectory = nub[d].fDirectory /\ m.busy = nub[d].busy
      /\ m.dying = nub[d].dying
    BY <1>1 DEF Devices
<1> HIDE DEF m
<1>5. NubIsSound(m)  BY <1>1, <1>2, <1>4 DEF NubIsSound, Needs, Held
<1>6. /\ nub'[d] = m /\ \A e \in Nubs : e # d => nub'[e] = nub[e]
    BY <1>3 DEF DeviceInv, Types
<1>7. UnitsAreSound' /\ UnitsMatchROM'
    BY <1>3, <1>4, <1>6, SameUnits, SameMatch DEF DeviceInv, Current, Attached
<1>8. unit' \in [Units -> UnitNubs] /\ \A u \in Units : UnitIsSound(unit'[u])
    BY <1>3 DEF DeviceInv, Types
<1>9. m.term = nub[d].term \/ (nub[d].term = "kNeedsTermination" /\ m.term = "kTerminated")
    BY <1>4
<1>10. "staleIsOpen" \in Races \/ GateOpen \/ pruning.nub # d \/ Held(m) = Held(nub[d])
    BY <1>2
<1> QED BY <1>3, <1>4, <1>5, <1>7, <1>8, <1>9, <1>10, ClientKeeps

(* A unit that is in use belongs to a device.                              *)
LEMMA DeviceOfUnit ==
    ASSUME DeviceInv, NEW u \in Units, unit[u].state # "none" \/ unit[u].open \/ unit[u].dying
    PROVE  unit[u].device \in Nubs /\ unit[u].device # NoNub
<1>1. unit[u] \in UnitNubs /\ UnitIsSound(unit[u])  BY DEF DeviceInv, Types
<1>2. NoUnit.state = "none" /\ NoUnit.open = FALSE /\ NoUnit.dying = FALSE
    BY DEF NoUnit
<1>3. unit[u].device # NoNub  BY <1>1, <1>2 DEF UnitIsSound
<1> QED BY <1>1, <1>3 DEF UnitNubs

LEMMA OpenUnitKeeps ==
    ASSUME DeviceInv, NEW u \in Units, OpenUnit(u)
    PROVE  DeviceInv'
<1>0. PICK d \in Nubs : d = unit[u].device /\ d # NoNub
    BY DeviceOfUnit DEF OpenUnit
<1> DEFINE m == [nub[d] EXCEPT !.fOpenUnits = @ \cup {u}]
           opened == [unit[u] EXCEPT !.open = TRUE]
<1>1. nub[d] \in Devices /\ NubIsSound(nub[d]) /\ unit[u] \in UnitNubs
      /\ UnitIsSound(unit[u]) /\ UnitsAreSound
    BY <1>0 DEF DeviceInv, Types
<1>2. nub[d].state = "attached" /\ nub[d].fOpenFromDevice = FALSE
      /\ ("staleIsOpen" \in Races \/ pruning.nub # d)
      /\ unit[u].state = "attached"
    BY <1>0, <1>1 DEF OpenUnit, Attached, MayOpen, Devices
<1>3. /\ nub' = [nub EXCEPT ![d] = m] /\ unit' = [unit EXCEPT ![u] = opened]
      /\ UNCHANGED <<busVars, faultVars, pruning, roms>>
    BY <1>0 DEF OpenUnit
<1>4. /\ m \in Devices /\ m.state = nub[d].state /\ m.onBus = nub[d].onBus
      /\ m.fRegistrationState = nub[d].fRegistrationState /\ m.term = nub[d].term
      /\ m.fOpenUnits = nub[d].fOpenUnits \cup {u}
      /\ m.fOpenFromDevice = nub[d].fOpenFromDevice
      /\ m.fDirectory = nub[d].fDirectory /\ m.busy = nub[d].busy
      /\ m.dying = nub[d].dying
  <2>1. nub[d].fOpenUnits \cup {u} \in SUBSET Units  BY <1>1 DEF Devices
  <2> QED BY <1>1, <2>1 DEF Devices
<1>5. /\ opened \in UnitNubs /\ opened.device = d /\ opened.kind = unit[u].kind
      /\ opened.state = unit[u].state /\ opened.term = unit[u].term
      /\ opened.open = TRUE /\ opened.dying = unit[u].dying
    BY <1>0, <1>1 DEF UnitNubs
<1> HIDE DEF m, opened
<1>6. NubIsSound(m)  BY <1>1, <1>2, <1>4 DEF NubIsSound, Needs, Held
<1>7. /\ nub'[d] = m /\ \A e \in Nubs : e # d => nub'[e] = nub[e]
    BY <1>0, <1>3 DEF DeviceInv, Types
<1>8. /\ unit' \in [Units -> UnitNubs] /\ unit'[u] = opened
      /\ \A v \in Units : v # u => unit'[v] = unit[v]
    BY <1>3, <1>5 DEF DeviceInv, Types
<1>9. \A v \in Units : UnitIsSound(unit'[v])
    BY <1>0, <1>1, <1>2, <1>5, <1>8 DEF DeviceInv, UnitIsSound
<1>10. UnitsAreSound'
  <2>1. nub[d].fOpenUnits = {v \in Units : unit[v].device = d /\ unit[v].open}
      BY <1>0, <1>1 DEF UnitsAreSound, UnitsAt
  <2>2. nub'[d].fOpenUnits = {v \in Units : unit'[v].device = d /\ unit'[v].open}
      BY <1>4, <1>5, <1>7, <1>8, <2>1
  <2>3. \A v \in Units : /\ unit[v].device # d => unit'[v] = unit[v]
                         /\ unit[v].device = d =>
                               /\ unit'[v].device = d /\ unit'[v].kind = unit[v].kind
                               /\ unit'[v].term = unit[v].term
                               /\ unit'[v].state = unit[v].state
      BY <1>0, <1>5, <1>8
  <2> QED BY <1>0, <1>2, <1>4, <1>7, <2>2, <2>3, UnitsOfOne
<1>11. UnitsMatchROM'
  <2>1. \A v \in Units : /\ unit[v].device # d => unit'[v] = unit[v]
                         /\ unit[v].device = d =>
                               /\ unit'[v].device = d /\ unit'[v].kind = unit[v].kind
                               /\ unit'[v].term = unit[v].term
                               /\ unit'[v].state = unit[v].state
      BY <1>0, <1>5, <1>8
  <2>2. Current(d)' => Current(d) /\ nub'[d].fDirectory = nub[d].fDirectory
      BY <1>4, <1>7 DEF Current, Attached
  <2> QED BY <1>0, <1>7, <2>1, <2>2, MatchOfOne
<1>12. m.term = nub[d].term \/ (nub[d].term = "kNeedsTermination" /\ m.term = "kTerminated")
    BY <1>4
<1>13. "staleIsOpen" \in Races \/ GateOpen \/ pruning.nub # d \/ Held(m) = Held(nub[d])
    BY <1>2
<1> QED BY <1>3, <1>4, <1>6, <1>8, <1>9, <1>10, <1>11, <1>12, <1>13, ClientKeeps

(* What the last close makes of a device.                                  *)
LEMMA ClosedIs ==
    ASSUME NEW n \in Devices, NubIsSound(n), n.state = "attached", NEW x \in Devices,
           x.state = n.state, x.onBus = n.onBus, x.term = n.term, x.dying = n.dying,
           x.fRegistrationState = n.fRegistrationState, x.busy = n.busy,
           x.fDirectory = n.fDirectory,
           x.fOpenFromDevice => n.fOpenFromDevice, x.fOpenUnits \subseteq n.fOpenUnits
    PROVE  /\ ClosedOf(x) \in Devices /\ NubIsSound(ClosedOf(x))
           /\ ClosedOf(x).state = n.state /\ ClosedOf(x).onBus = n.onBus
           /\ ClosedOf(x).fRegistrationState = n.fRegistrationState
           /\ ClosedOf(x).fDirectory = n.fDirectory
           /\ ClosedOf(x).fOpenUnits = x.fOpenUnits
           /\ \/ ClosedOf(x).term = n.term
              \/ n.term = "kNeedsTermination" /\ ClosedOf(x).term = "kTerminated"
<1>2. CASE ~x.fOpenFromDevice /\ x.fOpenUnits = {} /\ x.term = "kNeedsTermination"
  <2> DEFINE m == [x EXCEPT !.term = "kTerminated", !.dying = TRUE]
  <2>1. ClosedOf(x) = m  BY <1>2 DEF ClosedOf
  <2>2. /\ m \in Devices /\ m.state = n.state /\ m.onBus = n.onBus
        /\ m.term = "kTerminated"
        /\ m.fOpenFromDevice = x.fOpenFromDevice /\ m.fOpenUnits = x.fOpenUnits
        /\ m.fRegistrationState = n.fRegistrationState
        /\ m.busy = n.busy /\ m.fDirectory = n.fDirectory
      BY DEF Devices, TerminationStates
  <2> HIDE DEF m
  <2>3. NubIsSound(m)  BY <1>2, <2>2 DEF NubIsSound, Needs, Held
  <2> QED BY <1>2, <2>1, <2>2, <2>3
<1>3. CASE ~(~x.fOpenFromDevice /\ x.fOpenUnits = {} /\ x.term = "kNeedsTermination")
  <2>1. ClosedOf(x) = x  BY <1>3 DEF ClosedOf
  <2>2. NubIsSound(x)  BY <1>3 DEF NubIsSound, Needs, Held
  <2> QED BY <2>1, <2>2
<1> QED BY <1>2, <1>3

LEMMA CloseDeviceKeeps ==
    ASSUME DeviceInv, NEW d \in Nubs, CloseDevice(d)
    PROVE  DeviceInv'
<1> DEFINE x == [nub[d] EXCEPT !.fOpenFromDevice = FALSE]
           m == ClosedOf(x)
<1>1. nub[d] \in Devices /\ NubIsSound(nub[d]) /\ UnitsAreSound
    BY DEF DeviceInv, Types
<1>2. /\ nub[d].fOpenFromDevice /\ nub[d].state = "attached"
      /\ "staleIsOpen" \in Races \/ pruning.nub # d
  <2>1. nub[d].fOpenFromDevice /\ ("staleIsOpen" \in Races \/ pruning.nub # d)
      BY DEF CloseDevice, MayClose
  <2>2. nub[d].state # "none"
      BY <1>1, <2>1 DEF NubIsSound, NoDevice
  <2> QED BY <1>1, <2>1, <2>2 DEF NubIsSound, Held, Devices
<1>3. /\ nub' = [nub EXCEPT ![d] = m]
      /\ unit' = IF m.term = "kTerminated" THEN UnitsTerminated(d) ELSE unit
      /\ UNCHANGED <<busVars, faultVars, pruning, roms>>
    BY DEF CloseDevice
<1>4. /\ x \in Devices /\ x.state = nub[d].state /\ x.onBus = nub[d].onBus
      /\ x.fRegistrationState = nub[d].fRegistrationState /\ x.term = nub[d].term
      /\ x.fOpenUnits = nub[d].fOpenUnits /\ x.fOpenFromDevice = FALSE
      /\ x.fDirectory = nub[d].fDirectory /\ x.busy = nub[d].busy
      /\ x.dying = nub[d].dying
    BY <1>1 DEF Devices
<1> HIDE DEF x
<1>5. /\ m \in Devices /\ NubIsSound(m)
      /\ m.state = nub[d].state /\ m.onBus = nub[d].onBus
      /\ m.fRegistrationState = nub[d].fRegistrationState
      /\ m.fDirectory = nub[d].fDirectory
      /\ m.fOpenUnits = nub[d].fOpenUnits
      /\ \/ m.term = nub[d].term
         \/ nub[d].term = "kNeedsTermination" /\ m.term = "kTerminated"
    BY <1>1, <1>2, <1>4, ClosedIs
<1> HIDE DEF m
<1>6. /\ nub'[d] = m /\ \A e \in Nubs : e # d => nub'[e] = nub[e]
    BY <1>3 DEF DeviceInv, Types
<1>7. \A u \in Units : /\ unit'[u] \in UnitNubs /\ UnitIsSound(unit'[u])
                       /\ unit[u].device # d => unit'[u] = unit[u]
                       /\ unit[u].device = d =>
                             /\ unit'[u].device = d /\ unit'[u].kind = unit[u].kind
                             /\ unit'[u].state = unit[u].state
                             /\ unit'[u].open = unit[u].open
                             /\ unit'[u].term = IF m.term = "kTerminated" THEN "kTerminated"
                                                ELSE unit[u].term
  <2> SUFFICES ASSUME NEW u \in Units
               PROVE  /\ unit'[u] \in UnitNubs /\ UnitIsSound(unit'[u])
                      /\ unit[u].device # d => unit'[u] = unit[u]
                      /\ unit[u].device = d =>
                            /\ unit'[u].device = d /\ unit'[u].kind = unit[u].kind
                            /\ unit'[u].state = unit[u].state
                            /\ unit'[u].open = unit[u].open
                            /\ unit'[u].term = IF m.term = "kTerminated" THEN "kTerminated"
                                               ELSE unit[u].term
      OBVIOUS
  <2>1. unit[u] \in UnitNubs /\ UnitIsSound(unit[u])  BY DEF DeviceInv, Types
  <2>2. CASE m.term = "kTerminated" /\ unit[u].device = d
    <3> DEFINE t == [unit[u] EXCEPT !.term = "kTerminated"]
    <3>1. unit'[u] = t  BY <1>3, <2>2 DEF UnitsTerminated
    <3>2. /\ t \in UnitNubs /\ t.device = d /\ t.kind = unit[u].kind
          /\ t.state = unit[u].state /\ t.open = unit[u].open /\ t.term = "kTerminated"
          /\ t.dying = unit[u].dying
        BY <2>1, <2>2 DEF UnitNubs, TerminationStates
    <3>3. d # NoNub  BY DeviceAssumption DEF DeviceAssumption
    <3> HIDE DEF t
    <3>4. UnitIsSound(t)  BY <2>1, <2>2, <3>2, <3>3 DEF UnitIsSound
    <3> QED BY <2>2, <3>1, <3>2, <3>4
  <2>3. CASE ~(m.term = "kTerminated" /\ unit[u].device = d)
    <3>1. unit'[u] = unit[u]  BY <1>3, <2>3 DEF UnitsTerminated
    <3> QED BY <2>1, <2>3, <3>1
  <2> QED BY <2>2, <2>3
<1>8. unit' \in [Units -> UnitNubs]
  <2>1. CASE m.term = "kTerminated"
    <3>1. unit' = [u \in Units |-> unit'[u]]  BY <1>3, <2>1 DEF UnitsTerminated
    <3> QED BY <1>7, <3>1
  <2>2. CASE m.term # "kTerminated"  BY <1>3, <2>2 DEF DeviceInv, Types
  <2> QED BY <2>1, <2>2
<1>9. UnitsAreSound'
  <2>1. nub[d].fOpenUnits = {v \in Units : unit[v].device = d /\ unit[v].open}
      BY <1>1 DEF UnitsAreSound, UnitsAt
  <2>2. \A u \in Units :
            unit'[u].device = d /\ unit'[u].open <=> unit[u].device = d /\ unit[u].open
      BY <1>7
  <2>3. nub'[d].fOpenUnits = {v \in Units : unit'[v].device = d /\ unit'[v].open}
      BY <1>5, <1>6, <2>1, <2>2
  <2>4. \A u \in Units : unit[u].device = d =>
            /\ unit'[u].device = d /\ unit'[u].kind = unit[u].kind
            /\ unit'[u].term # "kTerminated" =>
                  /\ unit[u].term # "kTerminated" /\ unit'[u].state = unit[u].state
      BY <1>7
  <2>5. nub'[d].state # "none" /\ (nub[d].term = "kTerminated" => nub'[d].term = "kTerminated")
      BY <1>2, <1>5, <1>6
  <2> QED BY <1>6, <1>7, <2>3, <2>4, <2>5, UnitsOfOne
<1>10. UnitsMatchROM'
  <2>1. Current(d)' => /\ Current(d) /\ nub'[d].fDirectory = nub[d].fDirectory
                       /\ m.term # "kTerminated"
      BY <1>5, <1>6 DEF Current, Attached
  <2> QED BY <1>6, <1>7, <2>1, MatchOfOne
<1>11. m.term = nub[d].term \/ (nub[d].term = "kNeedsTermination" /\ m.term = "kTerminated")
    BY <1>5
<1>12. "staleIsOpen" \in Races \/ GateOpen \/ pruning.nub # d \/ Held(m) = Held(nub[d])
    BY <1>2
<1> QED BY <1>3, <1>5, <1>7, <1>8, <1>9, <1>10, <1>11, <1>12, ClientKeeps

(* What is left of a unit: it is gone, or it is there as it was.           *)
LEMMA ReleasedIs ==
    ASSUME NEW u \in UnitNubs, u.device \in Nubs, u.dying => u.term = "kTerminated",
           u.term = "kNeedsTermination" => u.open, u.state # "none"
    PROVE  /\ Released(u) \in UnitNubs /\ UnitIsSound(Released(u))
           /\ Released(u) = NoUnit \/ Released(u) = u
           /\ Released(u) = NoUnit => u.state = "inactive" /\ ~u.open
<1>1. NoUnit \in UnitNubs /\ UnitIsSound(NoUnit) /\ NoUnit.state = "none"
    BY DEF NoUnit, UnitNubs, UnitIsSound, TerminationStates
<1>2. UnitIsSound(u)
  <2>1. u.device # NoNub  BY DeviceAssumption DEF DeviceAssumption
  <2> QED BY <2>1 DEF UnitIsSound
<1> QED BY <1>1, <1>2 DEF Released

LEMMA TerminateUnitKeeps ==
    ASSUME DeviceInv, NEW u \in Units, terminateUnitThreadFunc(u)
    PROVE  DeviceInv'
<1>0. PICK d \in Nubs : d = unit[u].device /\ d # NoNub
    BY DeviceOfUnit DEF terminateUnitThreadFunc
<1>1. nub[d] \in Devices /\ NubIsSound(nub[d]) /\ unit[u] \in UnitNubs
      /\ UnitIsSound(unit[u]) /\ UnitsAreSound
    BY DEF DeviceInv, Types
<1> DEFINE t == [unit[u] EXCEPT !.dying = FALSE,
                     !.state = IF unit[u].term = "kTerminated" /\ ~unit[u].open
                               THEN "inactive" ELSE @]
           r == Released(t)
<1>2. /\ unit' = [unit EXCEPT ![u] = r] /\ unit[u].dying
      /\ UNCHANGED <<busVars, faultVars, pruning, nub, roms>>
  <2>1. unit' = [unit EXCEPT ![u] = r]  BY DEF terminateUnitThreadFunc
  <2>2. unit[u].dying /\ UNCHANGED <<busVars, faultVars, pruning, nub, roms>>
      BY DEF terminateUnitThreadFunc
  <2> QED BY <2>1, <2>2
<1>3. unit[u].term = "kTerminated" /\ unit[u].state # "none"
    BY <1>0, <1>1, <1>2 DEF UnitIsSound
<1>4. /\ t \in UnitNubs /\ t.device = d /\ t.kind = unit[u].kind
      /\ t.open = unit[u].open /\ t.term = "kTerminated" /\ t.state # "none"
    BY <1>0, <1>1, <1>3 DEF UnitNubs
<1> HIDE DEF t
<1>5. /\ r \in UnitNubs /\ UnitIsSound(r)
      /\ r = NoUnit \/ r = t
      /\ r = NoUnit => ~t.open
    BY <1>4, ReleasedIs
<1>6. /\ r = NoUnit => r.device = NoNub /\ r.term = "kNotTerminated"
    BY DEF NoUnit
<1> HIDE DEF r
<1>7. /\ unit' \in [Units -> UnitNubs] /\ unit'[u] = r
      /\ \A v \in Units : v # u => unit'[v] = unit[v]
    BY <1>2, <1>5 DEF DeviceInv, Types
<1>8. \A v \in Units : UnitIsSound(unit'[v])
    BY <1>5, <1>7 DEF DeviceInv
<1>9. \A e \in Nubs : e # d => nub'[e] = nub[e]  BY <1>2
<1>10. UnitsAreSound'
  <2>1. nub[d].fOpenUnits = {v \in Units : unit[v].device = d /\ unit[v].open}
      BY <1>1 DEF UnitsAreSound, UnitsAt
  <2>2. \A v \in Units :
            unit'[v].device = d /\ unit'[v].open <=> unit[v].device = d /\ unit[v].open
      BY <1>0, <1>4, <1>5, <1>6, <1>7
  <2>3. nub'[d].fOpenUnits = {v \in Units : unit'[v].device = d /\ unit'[v].open}
      BY <1>2, <2>1, <2>2
  <2>4. \A v \in Units : unit[v].device # d => unit'[v] = unit[v]
      BY <1>0, <1>7
  <2>5. \A v \in Units : unit[v].device = d =>
            \/ unit'[v] = NoUnit
            \/ /\ unit'[v].device = d /\ unit'[v].kind = unit[v].kind
               /\ unit'[v].term # "kTerminated" =>
                     /\ unit[v].term # "kTerminated" /\ unit'[v].state = unit[v].state
      BY <1>4, <1>5, <1>7
  <2>6. nub'[d].state # "none" /\ (nub[d].term = "kTerminated" => nub'[d].term = "kTerminated")
    <3>1. u \in UnitsAt(d)  BY <1>0 DEF UnitsAt
    <3> QED BY <1>1, <1>2, <3>1 DEF UnitsAreSound
  <2> QED BY <1>9, <2>3, <2>4, <2>5, <2>6, UnitsOfOne
<1>11. UnitsMatchROM'
  <2>1. Current(d)' => Current(d) /\ nub'[d].fDirectory = nub[d].fDirectory
      BY <1>2 DEF Current, Attached
  <2>2. \A v \in Units : unit[v].device # d => unit'[v] = unit[v]
      BY <1>0, <1>7
  <2>3. \A v \in Units : unit[v].device = d =>
            /\ unit'[v].device \in {d, NoNub}
            /\ unit'[v].kind = unit[v].kind \/ unit'[v].device = NoNub
            /\ (unit'[v].device = d /\ unit'[v].state = "attached"
                   /\ unit'[v].term = "kNotTerminated")
                 <=> (unit[v].state = "attached" /\ unit[v].term = "kNotTerminated")
      BY <1>0, <1>3, <1>4, <1>5, <1>6, <1>7
  <2> QED BY <1>9, <2>1, <2>2, <2>3, MatchOfOne
<1>12. nub' = [nub EXCEPT ![d] = nub[d]]  BY <1>2 DEF DeviceInv, Types
<1> QED BY <1>1, <1>2, <1>7, <1>8, <1>10, <1>11, <1>12, ClientKeeps

LEMMA CloseUnitKeeps ==
    ASSUME DeviceInv, NEW u \in Units, CloseUnit(u)
    PROVE  DeviceInv'
<1>0. PICK d \in Nubs : d = unit[u].device /\ d # NoNub
    BY DeviceOfUnit DEF CloseUnit
<1>1. nub[d] \in Devices /\ NubIsSound(nub[d]) /\ unit[u] \in UnitNubs
      /\ UnitIsSound(unit[u]) /\ UnitsAreSound
    BY DEF DeviceInv, Types
<1> DEFINE x == [nub[d] EXCEPT !.fOpenUnits = @ \ {u}]
           m == ClosedOf(x)
           dies == m.term # nub[d].term
           us == IF dies THEN UnitsTerminated(d) ELSE unit
           needs == us[u].term = "kNeedsTermination"
           t == [us[u] EXCEPT !.open = FALSE,
                              !.term = IF needs THEN "kTerminated" ELSE @,
                              !.dying = @ \/ needs]
           r == Released(t)
<1>2. /\ nub' = [nub EXCEPT ![d] = m] /\ unit' = [us EXCEPT ![u] = r]
      /\ unit[u].open /\ ("staleIsOpen" \in Races \/ pruning.nub # d)
      /\ UNCHANGED <<busVars, faultVars, pruning, roms>>
  <2>1. nub' = [nub EXCEPT ![d] = m]  BY <1>0 DEF CloseUnit
  <2>2. unit' = [us EXCEPT ![u] = r]  BY <1>0 DEF CloseUnit
  <2>3. /\ unit[u].open /\ ("staleIsOpen" \in Races \/ pruning.nub # d)
        /\ UNCHANGED <<busVars, faultVars, pruning, roms>>
      BY <1>0 DEF CloseUnit, MayClose
  <2> QED BY <2>1, <2>2, <2>3
<1>3. u \in nub[d].fOpenUnits
    BY <1>0, <1>1, <1>2 DEF UnitsAreSound, UnitsAt
<1>4. nub[d].state = "attached"
  <2>1. nub[d].state # "none"
    <3>1. u \in UnitsAt(d)  BY <1>0 DEF UnitsAt
    <3> QED BY <1>1, <3>1 DEF UnitsAreSound
  <2> QED BY <1>1, <1>3, <2>1 DEF NubIsSound, Held, Devices
<1>5. /\ x \in Devices /\ x.state = nub[d].state /\ x.onBus = nub[d].onBus
      /\ x.fRegistrationState = nub[d].fRegistrationState /\ x.term = nub[d].term
      /\ x.fOpenUnits = nub[d].fOpenUnits \ {u}
      /\ x.fOpenFromDevice = nub[d].fOpenFromDevice
      /\ x.fDirectory = nub[d].fDirectory /\ x.busy = nub[d].busy
      /\ x.dying = nub[d].dying
  <2>1. nub[d].fOpenUnits \ {u} \in SUBSET Units  BY <1>1 DEF Devices
  <2> QED BY <1>1, <2>1 DEF Devices
<1> HIDE DEF x
<1>6. /\ m \in Devices /\ NubIsSound(m)
      /\ m.state = nub[d].state /\ m.onBus = nub[d].onBus
      /\ m.fRegistrationState = nub[d].fRegistrationState
      /\ m.fDirectory = nub[d].fDirectory
      /\ m.fOpenUnits = nub[d].fOpenUnits \ {u}
      /\ \/ m.term = nub[d].term
         \/ nub[d].term = "kNeedsTermination" /\ m.term = "kTerminated"
  <2>1. x.fOpenUnits \subseteq nub[d].fOpenUnits  BY <1>5
  <2> QED BY <1>1, <1>4, <1>5, <2>1, ClosedIs
<1> HIDE DEF m
<1>7. /\ nub'[d] = m /\ \A e \in Nubs : e # d => nub'[e] = nub[e]
    BY <1>2 DEF DeviceInv, Types
<1>8. dies => m.term = "kTerminated"  BY <1>6
<1> HIDE DEF dies
<1>9. \A v \in Units : /\ us[v] \in UnitNubs /\ UnitIsSound(us[v])
                       /\ us[v].device = unit[v].device /\ us[v].kind = unit[v].kind
                       /\ us[v].state = unit[v].state /\ us[v].open = unit[v].open
                       /\ \/ us[v] = unit[v]
                          \/ /\ dies /\ unit[v].device = d /\ us[v].term = "kTerminated"
                             /\ us[v].dying = unit[v].dying
  <2> SUFFICES ASSUME NEW v \in Units
               PROVE  /\ us[v] \in UnitNubs /\ UnitIsSound(us[v])
                      /\ us[v].device = unit[v].device /\ us[v].kind = unit[v].kind
                      /\ us[v].state = unit[v].state /\ us[v].open = unit[v].open
                      /\ \/ us[v] = unit[v]
                         \/ /\ dies /\ unit[v].device = d /\ us[v].term = "kTerminated"
                            /\ us[v].dying = unit[v].dying
      OBVIOUS
  <2>1. unit[v] \in UnitNubs /\ UnitIsSound(unit[v])  BY DEF DeviceInv, Types
  <2>2. CASE dies /\ unit[v].device = d
    <3> DEFINE k == [unit[v] EXCEPT !.term = "kTerminated"]
    <3>1. us[v] = k  BY <2>2 DEF UnitsTerminated
    <3>2. /\ k \in UnitNubs /\ k.device = d /\ k.kind = unit[v].kind
          /\ k.state = unit[v].state /\ k.open = unit[v].open /\ k.term = "kTerminated"
          /\ k.dying = unit[v].dying
        BY <2>1, <2>2 DEF UnitNubs, TerminationStates
    <3> HIDE DEF k, us
    <3>3. UnitIsSound(k)  BY <1>0, <2>1, <2>2, <3>2 DEF UnitIsSound
    <3> QED BY <2>2, <3>1, <3>2, <3>3
  <2>3. CASE ~(dies /\ unit[v].device = d)
    <3>1. us[v] = unit[v]  BY <2>3 DEF UnitsTerminated
    <3> HIDE DEF us
    <3> QED BY <2>1, <3>1
  <2> QED BY <2>2, <2>3
<1>10. us \in [Units -> UnitNubs]
  <2>1. CASE dies
    <3>1. us = [v \in Units |-> us[v]]  BY <2>1 DEF UnitsTerminated
    <3> QED BY <1>9, <3>1
  <2>2. CASE ~dies  BY <2>2 DEF DeviceInv, Types
  <2> QED BY <2>1, <2>2
<1> HIDE DEF us
<1>11. /\ t \in UnitNubs /\ t.device = d /\ t.kind = unit[u].kind
       /\ t.state = unit[u].state /\ t.open = FALSE
       /\ t.term = IF needs THEN "kTerminated" ELSE us[u].term
       /\ t.dying => us[u].dying \/ needs
    BY <1>0, <1>9 DEF UnitNubs, TerminationStates
<1>12. t.term # "kNeedsTermination" /\ (t.dying => t.term = "kTerminated") /\ t.state # "none"
    BY <1>0, <1>1, <1>9, <1>11 DEF UnitIsSound
<1>13. t.term # "kTerminated" => us[u] = unit[u] /\ unit[u].term = t.term
    BY <1>9, <1>11
<1>14. unit[u].term = "kNotTerminated" /\ us[u] = unit[u] => t.term = "kNotTerminated"
    BY <1>11
<1> HIDE DEF t
<1>15. /\ r \in UnitNubs /\ UnitIsSound(r)
       /\ r = NoUnit \/ r = t
       /\ r = NoUnit => t.state = "inactive" /\ ~t.open
    BY <1>11, <1>12, ReleasedIs
<1>16. r = NoUnit => r.device = NoNub /\ r.term = "kNotTerminated"
    BY DEF NoUnit
<1> HIDE DEF r
<1>17. /\ unit' \in [Units -> UnitNubs] /\ unit'[u] = r
       /\ \A v \in Units : v # u => unit'[v] = us[v]
    BY <1>2, <1>10, <1>15
<1>18. \A v \in Units : UnitIsSound(unit'[v])
    BY <1>9, <1>15, <1>17
<1>19. \A v \in Units : unit[v].device # d => unit'[v] = unit[v]
    BY <1>0, <1>9, <1>17
<1>20. UnitsAreSound'
  <2>1. nub[d].fOpenUnits = {v \in Units : unit[v].device = d /\ unit[v].open}
      BY <1>1 DEF UnitsAreSound, UnitsAt
  <2>2. \A v \in Units : unit'[v].device = d /\ unit'[v].open
                            <=> v # u /\ unit[v].device = d /\ unit[v].open
    <3> SUFFICES ASSUME NEW v \in Units
                 PROVE  unit'[v].device = d /\ unit'[v].open
                            <=> v # u /\ unit[v].device = d /\ unit[v].open
        OBVIOUS
    <3>1. CASE v = u  BY <1>0, <1>11, <1>15, <1>16, <1>17, <3>1
    <3>2. CASE v # u  BY <1>9, <1>17, <3>2
    <3> QED BY <3>1, <3>2
  <2>3. nub'[d].fOpenUnits = {v \in Units : unit'[v].device = d /\ unit'[v].open}
      BY <1>6, <1>7, <2>1, <2>2
  <2>4. \A v \in Units : unit[v].device = d =>
            \/ unit'[v] = NoUnit
            \/ /\ unit'[v].device = d /\ unit'[v].kind = unit[v].kind
               /\ unit'[v].term # "kTerminated" =>
                     /\ unit[v].term # "kTerminated" /\ unit'[v].state = unit[v].state
    <3> SUFFICES ASSUME NEW v \in Units, unit[v].device = d, unit'[v] # NoUnit
                 PROVE  /\ unit'[v].device = d /\ unit'[v].kind = unit[v].kind
                        /\ unit'[v].term # "kTerminated" =>
                              /\ unit[v].term # "kTerminated" /\ unit'[v].state = unit[v].state
        OBVIOUS
    <3>1. CASE v = u  BY <1>11, <1>13, <1>15, <1>17, <3>1
    <3>2. CASE v # u  BY <1>9, <1>17, <3>2
    <3> QED BY <3>1, <3>2
  <2>5. nub'[d].state # "none" /\ (nub[d].term = "kTerminated" => nub'[d].term = "kTerminated")
      BY <1>4, <1>6, <1>7
  <2> QED BY <1>7, <1>19, <2>3, <2>4, <2>5, UnitsOfOne
<1>21. UnitsMatchROM'
  <2>1. Current(d)' => /\ Current(d) /\ nub'[d].fDirectory = nub[d].fDirectory
                       /\ ~dies
      BY <1>6, <1>7, <1>8 DEF Current, Attached
  <2>2. \A v \in Units : unit[v].device = d => unit'[v].device \in {d, NoNub}
      BY <1>9, <1>11, <1>15, <1>16, <1>17
  <2>3. ASSUME ~dies, NEW v \in Units, unit[v].device = d
        PROVE  /\ unit'[v].kind = unit[v].kind \/ unit'[v].device = NoNub
               /\ (unit'[v].device = d /\ unit'[v].state = "attached"
                      /\ unit'[v].term = "kNotTerminated")
                    <=> (unit[v].state = "attached" /\ unit[v].term = "kNotTerminated")
    <3>1. us[v] = unit[v]  BY <1>9, <2>3
    <3>2. CASE v # u  BY <1>17, <2>3, <3>1, <3>2
    <3>3. CASE v = u
      <4>1. CASE r = NoUnit
          BY <1>0, <1>11, <1>15, <1>16, <1>17, <3>3, <4>1
      <4>2. CASE r = t
          BY <1>11, <1>12, <1>13, <1>14, <1>17, <3>1, <3>3, <4>2
      <4> QED BY <1>15, <4>1, <4>2
    <3> QED BY <3>2, <3>3
  <2> QED BY <1>7, <1>19, <2>1, <2>2, <2>3, MatchOfOne
<1>22. m.term = nub[d].term \/ (nub[d].term = "kNeedsTermination" /\ m.term = "kTerminated")
    BY <1>6
<1>23. "staleIsOpen" \in Races \/ GateOpen \/ pruning.nub # d \/ Held(m) = Held(nub[d])
    BY <1>2
<1> QED BY <1>2, <1>6, <1>17, <1>18, <1>20, <1>21, <1>22, <1>23, ClientKeeps

(* A device is terminated, now that nobody has it open, or was opened      *)
(* again: m is the device as its caller leaves it, us are its units.       *)
LEMMA DeviceTerminatesKeeps ==
    ASSUME DeviceInv, NEW d \in Nubs, NEW m \in Devices, NEW us \in [Units -> UnitNubs],
           DeviceTerminates(d, [nub EXCEPT ![d] = m], us),
           UNCHANGED <<busVars, faultVars>>, GateOpen',
           m.state = nub[d].state, nub[d].state # "none",
           m.onBus = nub[d].onBus, m.term = "kTerminated",
           m.fOpenUnits = nub[d].fOpenUnits, m.fOpenFromDevice = nub[d].fOpenFromDevice,
           m.fRegistrationState = nub[d].fRegistrationState,
           NubIsSound(m),
           \A u \in Units : /\ UnitIsSound(us[u])
                            /\ us[u].device = unit[u].device /\ us[u].kind = unit[u].kind
                            /\ us[u].state = unit[u].state /\ us[u].open = unit[u].open
                            /\ \/ us[u] = unit[u]
                               \/ unit[u].device = d /\ us[u].term = "kTerminated"
    PROVE  DeviceInv'
<1>0. Types /\ UnitsAreSound /\ d # NoNub
    BY DeviceAssumption DEF DeviceInv, DeviceAssumption
<1> DEFINE dies == ~m.onBus /\ Attached(d) /\ ~IsOpen(d)
           n == IF dies THEN [m EXCEPT !.state = "inactive"] ELSE m
           rs == IF dies THEN WithState(roms[d], "Invalid", 0) ELSE roms[d]
<1>1. [nub EXCEPT ![d] = m][d] = m  BY <1>0 DEF Types
<1>2. nub' = [nub EXCEPT ![d] = n]
  <2>1. [[nub EXCEPT ![d] = m] EXCEPT ![d].state = "inactive"]
            = [nub EXCEPT ![d] = [m EXCEPT !.state = "inactive"]]
      BY <1>0 DEF Types
  <2> QED BY <1>1, <2>1 DEF DeviceTerminates
<1>3. roms' = [roms EXCEPT ![d] = rs]
  <2>1. CASE dies  BY <1>1, <2>1 DEF DeviceTerminates, WithState, fROMGeneration
  <2>2. CASE ~dies
    <3>1. roms' = roms  BY <1>1, <2>2 DEF DeviceTerminates
    <3> QED BY <1>0, <2>2, <3>1 DEF Types
  <2> QED BY <2>1, <2>2
<1>4. unit' = IF dies
              THEN [u \in Units |->
                       IF us[u].device = d THEN Released([us[u] EXCEPT !.state = "inactive"])
                                           ELSE us[u]]
              ELSE us
    BY <1>1 DEF DeviceTerminates
<1>5. dies => /\ nub[d].state = "attached"
              /\ nub[d].fOpenFromDevice = FALSE /\ nub[d].fOpenUnits = {}
    BY <1>0 DEF Attached, IsOpen, Types, Devices
<1> HIDE DEF dies
<1>6. /\ n \in Devices /\ n.onBus = m.onBus /\ n.term = "kTerminated"
      /\ n.state = IF dies THEN "inactive" ELSE m.state
      /\ n.fOpenUnits = m.fOpenUnits /\ n.fOpenFromDevice = m.fOpenFromDevice
      /\ n.fRegistrationState = m.fRegistrationState
      /\ n.fDirectory = m.fDirectory /\ n.busy = m.busy /\ n.dying = m.dying
    BY DEF Devices
<1> HIDE DEF n
<1>7. NubIsSound(n)
    BY <1>5, <1>6 DEF NubIsSound, Needs, Held
<1>8. rs \in Seq(ROMCaches) /\ ReadersAreSound(n, rs)
  <2>1. /\ roms[d] \in Seq(ROMCaches) /\ ReadersAreSound(nub[d], roms[d])
        /\ roms[d] # <<>>
      BY <1>0 DEF DeviceInv, Types, ReadersAreSound
  <2>2. 0 \in Nat /\ "Invalid" \in {"Resumed", "Suspended", "Invalid"}  OBVIOUS
  <2>3. /\ WithState(roms[d], "Invalid", 0) \in Seq(ROMCaches)
        /\ ReadersAreSound(nub[d], WithState(roms[d], "Invalid", 0))
      BY <2>1, <2>2, LatestSet
  <2>4. rs \in Seq(ROMCaches) /\ ReadersAreSound(nub[d], rs)
      BY <2>1, <2>3
  <2> HIDE DEF rs
  <2>5. n.state # "none"  BY <1>6
  <2> QED BY <1>6, <2>4, <2>5 DEF ReadersAreSound, Needs
<1> HIDE DEF rs
<1>9. /\ nub' \in [Nubs -> Devices] /\ nub'[d] = n
      /\ \A e \in Nubs : e # d => nub'[e] = nub[e]
    BY <1>0, <1>2, <1>6 DEF Types
<1>10. /\ roms' \in [Nubs -> Seq(ROMCaches)] /\ roms'[d] = rs
       /\ \A e \in Nubs : e # d => roms'[e] = roms[e]
    BY <1>0, <1>3, <1>8 DEF Types
<1>11. \A u \in Units : unit[u].device = d /\ dies => unit[u].open = FALSE
  <2> SUFFICES ASSUME NEW u \in Units, unit[u].device = d, dies PROVE unit[u].open = FALSE
      OBVIOUS
  <2>1. u \notin nub[d].fOpenUnits  BY <1>5
  <2>2. unit[u] \in UnitNubs  BY <1>0 DEF Types
  <2> QED BY <1>0, <2>1, <2>2 DEF UnitsAreSound, UnitsAt, UnitNubs
<1>12. \A u \in Units :
          /\ unit'[u] \in UnitNubs /\ UnitIsSound(unit'[u])
          /\ unit[u].device # d => unit'[u] = unit[u]
          /\ unit[u].device = d =>
                \/ unit'[u] = NoUnit /\ ~unit[u].open
                \/ /\ unit'[u].device = d /\ unit'[u].kind = unit[u].kind
                   /\ unit'[u].open = unit[u].open
                   /\ unit'[u].term = us[u].term
  <2> SUFFICES ASSUME NEW u \in Units
               PROVE  /\ unit'[u] \in UnitNubs /\ UnitIsSound(unit'[u])
                      /\ unit[u].device # d => unit'[u] = unit[u]
                      /\ unit[u].device = d =>
                            \/ unit'[u] = NoUnit /\ ~unit[u].open
                            \/ /\ unit'[u].device = d /\ unit'[u].kind = unit[u].kind
                               /\ unit'[u].open = unit[u].open
                               /\ unit'[u].term = us[u].term
      OBVIOUS
  <2>1. us[u] \in UnitNubs /\ UnitIsSound(us[u])  OBVIOUS
  <2>2. CASE dies /\ unit[u].device = d
    <3> DEFINE t == [us[u] EXCEPT !.state = "inactive"]
    <3>1. unit'[u] = Released(t)  BY <1>4, <2>2
    <3>2. /\ t \in UnitNubs /\ t.device = d /\ t.kind = unit[u].kind
          /\ t.state = "inactive" /\ t.open = unit[u].open /\ t.term = us[u].term
          /\ t.dying = us[u].dying
        BY <2>1, <2>2 DEF UnitNubs
    <3> HIDE DEF t
    <3>3. (t.dying => t.term = "kTerminated") /\ (t.term = "kNeedsTermination" => t.open)
        BY <2>1, <3>2 DEF UnitIsSound
    <3>4. /\ Released(t) \in UnitNubs /\ UnitIsSound(Released(t))
          /\ Released(t) = NoUnit \/ Released(t) = t
        BY <3>2, <3>3, ReleasedIs
    <3> QED BY <1>11, <2>2, <3>1, <3>2, <3>4
  <2>3. CASE ~(dies /\ unit[u].device = d)
    <3>1. unit'[u] = us[u]  BY <1>4, <2>3
    <3> QED BY <2>1, <2>3, <3>1
  <2> QED BY <2>2, <2>3
<1>13. unit' \in [Units -> UnitNubs]
  <2>1. CASE dies
    <3>1. unit' = [u \in Units |-> unit'[u]]  BY <1>4, <2>1
    <3> QED BY <1>12, <3>1
  <2>2. CASE ~dies  BY <1>4, <2>2
  <2> QED BY <2>1, <2>2
<1>14. Types'
  <2>1. pruning' = Idle  BY DEF GateOpen
  <2>2. Idle \in [nub : Nubs \cup {NoNub}, wasOpen : BOOLEAN]  BY DEF Idle
  <2> QED BY <1>0, <1>9, <1>10, <1>13, <2>1, <2>2 DEF Types, busVars, faultVars
<1>15. /\ \A e \in Nubs : NubIsSound(nub[e])'
       /\ \A e \in Nubs : ReadersAreSound(nub[e], roms[e])'
       /\ \A u \in Units : UnitIsSound(unit[u])'
    BY <1>7, <1>8, <1>9, <1>10, <1>12 DEF DeviceInv
<1>16. UnitsAreSound'
  <2>1. nub[d].fOpenUnits = {v \in Units : unit[v].device = d /\ unit[v].open}
      BY <1>0 DEF UnitsAreSound, UnitsAt
  <2>2. NoUnit.open = FALSE  BY DEF NoUnit
  <2>3. \A v \in Units :
            unit'[v].device = d /\ unit'[v].open <=> unit[v].device = d /\ unit[v].open
    <3> SUFFICES ASSUME NEW v \in Units
                 PROVE  unit'[v].device = d /\ unit'[v].open
                            <=> unit[v].device = d /\ unit[v].open
        OBVIOUS
    <3>1. CASE unit[v].device = d  BY <1>12, <2>2, <3>1
    <3>2. CASE unit[v].device # d  BY <1>12, <3>2
    <3> QED BY <3>1, <3>2
  <2>4. nub'[d].fOpenUnits = {v \in Units : unit'[v].device = d /\ unit'[v].open}
      BY <1>6, <1>9, <2>1, <2>3
  <2>5. \A v \in Units : unit[v].device = d =>
            \/ unit'[v] = NoUnit
            \/ /\ unit'[v].device = d /\ unit'[v].kind = unit[v].kind
               /\ unit'[v].term # "kTerminated" =>
                     /\ unit[v].term # "kTerminated"
                     /\ unit'[v].state = unit[v].state \/ nub'[d].term = "kTerminated"
      BY <1>6, <1>9, <1>12
  <2>6. nub'[d].state # "none" /\ nub'[d].term = "kTerminated"
      BY <1>6, <1>9
  <2> QED BY <1>9, <1>12, <2>4, <2>5, <2>6, UnitsOfOne
<1>17. UnitsMatchROM'
  <2>1. ~Current(d)'  BY <1>6, <1>9 DEF Current
  <2>2. \A v \in Units : unit[v].device = d => unit'[v].device \in {d, NoNub}
    <3>1. NoUnit.device = NoNub  BY DEF NoUnit
    <3> QED BY <1>12, <3>1
  <2> QED BY <1>9, <1>12, <2>1, <2>2, MatchOfOne
<1>18. OneFound'
  <2>1. Found' \subseteq Found  BY <1>6, <1>9 DEF Found
  <2> QED BY <2>1 DEF DeviceInv, OneFound
<1>19. \A e \in Nubs : Suspended(e)' => e # d /\ Suspended(e)
    BY <1>6, <1>9 DEF Suspended, Attached
<1>20. SuspendedIsOff' /\ WaitsForReset'
    BY <1>9, <1>10, <1>19 DEF DeviceInv, SuspendedIsOff, WaitsForReset, Waiting, busVars, faultVars
<1>21. PruningIsSound'  BY DEF PruningIsSound
<1> QED BY <1>14, <1>15, <1>16, <1>17, <1>18, <1>20, <1>21 DEF DeviceInv

LEMMA TerminateThreadKeeps ==
    ASSUME DeviceInv, NEW d \in Nubs, TerminateThread(d)
    PROVE  DeviceInv'
<1> DEFINE m == [nub[d] EXCEPT !.dying = FALSE]
<1>1. /\ nub[d] \in Devices /\ NubIsSound(nub[d]) /\ unit \in [Units -> UnitNubs]
      /\ \A u \in Units : UnitIsSound(unit[u])
    BY DEF DeviceInv, Types
<1>2. /\ nub[d].dying /\ DeviceTerminates(d, [nub EXCEPT ![d] = m], unit)
      /\ UNCHANGED <<busVars, faultVars>> /\ GateOpen'
    BY DEF TerminateThread, GateOpen
<1>3. nub[d].term = "kTerminated" /\ nub[d].state # "none"
    BY <1>1, <1>2 DEF NubIsSound, NoDevice
<1>4. /\ m \in Devices /\ m.state = nub[d].state /\ m.onBus = nub[d].onBus
      /\ m.term = nub[d].term /\ m.dying = FALSE
      /\ m.fOpenUnits = nub[d].fOpenUnits /\ m.fOpenFromDevice = nub[d].fOpenFromDevice
      /\ m.fRegistrationState = nub[d].fRegistrationState
      /\ m.busy = nub[d].busy /\ m.fDirectory = nub[d].fDirectory
    BY <1>1 DEF Devices
<1> HIDE DEF m
<1>5. NubIsSound(m)  BY <1>1, <1>3, <1>4 DEF NubIsSound, Needs, Held
<1> QED BY <1>1, <1>2, <1>3, <1>4, <1>5, DeviceTerminatesKeeps

LEMMA TerminateDeviceKeeps ==
    ASSUME DeviceInv, terminateDevice
    PROVE  DeviceInv'
<1>1. PICK d \in Nubs : d = pruning.nub
    BY DEF DeviceInv, PruningIsSound, terminateDevice
<1>2. /\ Types /\ nub[d] \in Devices /\ NubIsSound(nub[d])
      /\ unit \in [Units -> UnitNubs] /\ \A u \in Units : UnitIsSound(unit[u])
    BY DEF DeviceInv, Types
<1>3. /\ nub[d].state = "attached" /\ nub[d].term = "kNotTerminated"
      /\ "staleIsOpen" \notin Races => pruning.wasOpen = IsOpen(d)
    BY <1>1 DEF terminateDevice, DeviceInv, PruningIsSound, Suspended, Attached
<1>4. pruning' = Idle /\ UNCHANGED <<busVars, faultVars>> /\ GateOpen'
    BY DEF terminateDevice, GateOpen
<1>5. CASE pruning.wasOpen
  <2> DEFINE m == [nub[d] EXCEPT !.term = "kNeedsTermination"]
             rs == WithState(roms[d], "Invalid", 0)
  <2>1. /\ nub' = [nub EXCEPT ![d] = m] /\ roms' = [roms EXCEPT ![d] = rs]
        /\ unit' = unit
      BY <1>1, <1>5 DEF terminateDevice, WithState, fROMGeneration
  <2>2. /\ m \in Devices /\ m.state = nub[d].state /\ m.onBus = nub[d].onBus
        /\ m.term = "kNeedsTermination" /\ m.dying = nub[d].dying
        /\ m.fOpenUnits = nub[d].fOpenUnits /\ m.fOpenFromDevice = nub[d].fOpenFromDevice
        /\ m.fRegistrationState = nub[d].fRegistrationState
        /\ m.busy = nub[d].busy /\ m.fDirectory = nub[d].fDirectory
      BY <1>2 DEF Devices, TerminationStates
  <2> HIDE DEF m
  <2>3. "staleIsOpen" \notin Races => Held(m)
      BY <1>3, <1>5, <2>2 DEF IsOpen, Held
  <2>4. NubIsSound(m)
      BY <1>2, <1>3, <2>2, <2>3 DEF NubIsSound, Needs, Held
  <2>5. rs \in Seq(ROMCaches) /\ ReadersAreSound(m, rs)
    <3>1. /\ roms[d] \in Seq(ROMCaches) /\ ReadersAreSound(nub[d], roms[d])
          /\ roms[d] # <<>>
        BY <1>2, <1>3 DEF DeviceInv, Types, ReadersAreSound
    <3>2. 0 \in Nat /\ "Invalid" \in {"Resumed", "Suspended", "Invalid"}  OBVIOUS
    <3>3. rs \in Seq(ROMCaches) /\ ReadersAreSound(nub[d], rs)
        BY <3>1, <3>2, LatestSet
    <3> HIDE DEF rs
    <3> QED BY <1>3, <2>2, <3>3, SameReaders
  <2> HIDE DEF rs
  <2>6. /\ nub' \in [Nubs -> Devices] /\ nub'[d] = m
        /\ \A e \in Nubs : e # d => nub'[e] = nub[e]
      BY <1>2, <2>1, <2>2 DEF Types
  <2>7. /\ roms' \in [Nubs -> Seq(ROMCaches)] /\ roms'[d] = rs
        /\ \A e \in Nubs : e # d => roms'[e] = roms[e]
      BY <1>2, <2>1, <2>5 DEF Types
  <2>8. Types'
    <3>1. Idle \in [nub : Nubs \cup {NoNub}, wasOpen : BOOLEAN]  BY DEF Idle
    <3> QED BY <1>2, <1>4, <2>1, <2>6, <2>7, <3>1 DEF Types, busVars, faultVars
  <2>9. /\ \A e \in Nubs : NubIsSound(nub[e])'
        /\ \A e \in Nubs : ReadersAreSound(nub[e], roms[e])'
        /\ \A u \in Units : UnitIsSound(unit[u])'
      BY <2>1, <2>4, <2>5, <2>6, <2>7 DEF DeviceInv
  <2>10. UnitsAreSound'
    <3>1. \A e \in Nubs : /\ nub'[e].fOpenUnits = nub[e].fOpenUnits
                          /\ nub'[e].state = "none" => nub[e].state = "none"
                          /\ nub[e].term = "kTerminated" => nub'[e].term = "kTerminated"
        BY <1>3, <2>2, <2>6
    <3> QED BY <2>1, <3>1, SameUnits DEF DeviceInv
  <2>11. UnitsMatchROM'
    <3>1. \A e \in Nubs : Current(e)' /\ nub'[e].fDirectory # Absent =>
              Current(e) /\ nub[e].fDirectory = nub'[e].fDirectory
        BY <1>3, <2>2, <2>6 DEF Current, Attached
    <3> QED BY <2>1, <3>1, SameMatch DEF DeviceInv
  <2>12. OneFound'
    <3>1. Found' \subseteq Found  BY <1>3, <2>2, <2>6 DEF Found
    <3> QED BY <3>1 DEF DeviceInv, OneFound
  <2>13. \A e \in Nubs : Suspended(e)' => e # d /\ Suspended(e)
      BY <2>2, <2>6 DEF Suspended, Attached
  <2>14. SuspendedIsOff' /\ WaitsForReset'
      BY <1>4, <2>6, <2>7, <2>13
      DEF DeviceInv, SuspendedIsOff, WaitsForReset, Waiting, busVars, faultVars
  <2>15. PruningIsSound'  BY <1>4 DEF PruningIsSound
  <2> QED BY <2>8, <2>9, <2>10, <2>11, <2>12, <2>14, <2>15 DEF DeviceInv
<1>6. CASE ~pruning.wasOpen
  <2> DEFINE m == [nub[d] EXCEPT !.term = "kTerminated"]
             us == UnitsTerminated(d)
  <2>1. DeviceTerminates(d, [nub EXCEPT ![d] = m], us)
      BY <1>1, <1>6 DEF terminateDevice
  <2>2. /\ m \in Devices /\ m.state = nub[d].state /\ m.onBus = nub[d].onBus
        /\ m.term = "kTerminated" /\ m.dying = nub[d].dying
        /\ m.fOpenUnits = nub[d].fOpenUnits /\ m.fOpenFromDevice = nub[d].fOpenFromDevice
        /\ m.fRegistrationState = nub[d].fRegistrationState
        /\ m.busy = nub[d].busy /\ m.fDirectory = nub[d].fDirectory
      BY <1>2 DEF Devices, TerminationStates
  <2> HIDE DEF m
  <2>3. NubIsSound(m)
      BY <1>2, <1>3, <2>2 DEF NubIsSound, Needs, Held
  <2>4. \A u \in Units : /\ us[u] \in UnitNubs /\ UnitIsSound(us[u])
                         /\ us[u].device = unit[u].device /\ us[u].kind = unit[u].kind
                         /\ us[u].state = unit[u].state /\ us[u].open = unit[u].open
                         /\ \/ us[u] = unit[u]
                            \/ unit[u].device = d /\ us[u].term = "kTerminated"
    <3> SUFFICES ASSUME NEW u \in Units
                 PROVE  /\ us[u] \in UnitNubs /\ UnitIsSound(us[u])
                        /\ us[u].device = unit[u].device /\ us[u].kind = unit[u].kind
                        /\ us[u].state = unit[u].state /\ us[u].open = unit[u].open
                        /\ \/ us[u] = unit[u]
                           \/ unit[u].device = d /\ us[u].term = "kTerminated"
        OBVIOUS
    <3>1. unit[u] \in UnitNubs /\ UnitIsSound(unit[u])  BY <1>2
    <3>2. CASE unit[u].device = d
      <4> DEFINE t == [unit[u] EXCEPT !.term = "kTerminated"]
      <4>1. us[u] = t  BY <3>2 DEF UnitsTerminated
      <4>2. /\ t \in UnitNubs /\ t.device = d /\ t.kind = unit[u].kind
            /\ t.state = unit[u].state /\ t.open = unit[u].open /\ t.term = "kTerminated"
            /\ t.dying = unit[u].dying
          BY <3>1, <3>2 DEF UnitNubs, TerminationStates
      <4>3. d # NoNub  BY DeviceAssumption DEF DeviceAssumption
      <4> HIDE DEF t, us
      <4>4. UnitIsSound(t)  BY <3>1, <3>2, <4>2, <4>3 DEF UnitIsSound
      <4> QED BY <3>2, <4>1, <4>2, <4>4
    <3>3. CASE unit[u].device # d
      <4>1. us[u] = unit[u]  BY <3>3 DEF UnitsTerminated
      <4> HIDE DEF us
      <4> QED BY <3>1, <4>1
    <3> QED BY <3>2, <3>3
  <2>5. us \in [Units -> UnitNubs]
    <3>1. us = [u \in Units |-> us[u]]  BY DEF UnitsTerminated
    <3> HIDE DEF us
    <3> QED BY <2>4, <3>1
  <2> HIDE DEF us
  <2> QED BY <1>3, <1>4, <2>1, <2>2, <2>3, <2>4, <2>5, DeviceTerminatesKeeps
<1> QED
  <2>1. pruning.wasOpen \in BOOLEAN  BY <1>2 DEF Types
  <2> QED BY <1>5, <1>6, <2>1

LEMMA FreeKeeps ==
    ASSUME DeviceInv, NEW d \in Nubs, free(d)
    PROVE  DeviceInv'
<1>1. /\ Types /\ UnitsAreSound /\ nub[d] \in Devices
    BY DEF DeviceInv, Types
<1>2. /\ nub' = [nub EXCEPT ![d] = NoDevice] /\ roms' = [roms EXCEPT ![d] = <<>>]
      /\ UNCHANGED <<busVars, faultVars, pruning, unit>>
      /\ nub[d].state = "inactive" /\ UnitsAt(d) = {}
    BY DEF free
<1>3. NoDevice \in Devices /\ NoDevice.term = "kNotTerminated" /\ NoDevice.state = "none"
      /\ NoDevice.fOpenUnits = {}
  <2>1. 0 \in 0..Retries  BY DeviceAssumption DEF DeviceAssumption
  <2> QED BY <2>1 DEF NoDevice, Devices, TerminationStates, RegistrationStates
<1>4. NubIsSound(NoDevice)
    BY DEF NoDevice, NubIsSound, Needs, Held
<1>5. <<>> \in Seq(ROMCaches) /\ ReadersAreSound(NoDevice, <<>>)
  <2>1. <<>> \in Seq(ROMCaches)  BY EmptySeq
  <2>2. \A g \in DOMAIN <<>> : FALSE
    <3>1. DOMAIN <<>> = 1..Len(<<>>) /\ Len(<<>>) = 0  BY <2>1, LenProperties, EmptySeq
    <3> QED BY <3>1
  <2> QED BY <1>3, <2>1, <2>2 DEF ReadersAreSound
<1>6. /\ nub' \in [Nubs -> Devices] /\ nub'[d] = NoDevice
      /\ \A e \in Nubs : e # d => nub'[e] = nub[e]
    BY <1>1, <1>2, <1>3 DEF Types
<1>7. /\ roms' \in [Nubs -> Seq(ROMCaches)] /\ roms'[d] = <<>>
      /\ \A e \in Nubs : e # d => roms'[e] = roms[e]
    BY <1>1, <1>2, <1>5 DEF Types
<1>8. Types'  BY <1>1, <1>2, <1>6, <1>7 DEF Types, busVars, faultVars
<1>9. /\ \A e \in Nubs : NubIsSound(nub[e])'
      /\ \A e \in Nubs : ReadersAreSound(nub[e], roms[e])'
      /\ \A u \in Units : UnitIsSound(unit[u])'
    BY <1>2, <1>4, <1>5, <1>6, <1>7 DEF DeviceInv
<1>10. UnitsAreSound'
  <2> SUFFICES ASSUME NEW e \in Nubs
      PROVE  /\ nub'[e].fOpenUnits = {u \in UnitsAt(e) : unit[u].open}
             /\ nub'[e].state = "none" => UnitsAt(e) = {}
             /\ \A u \in UnitsAt(e) :
                   unit[u].term # "kTerminated" /\ nub'[e].term # "kTerminated" =>
                       unit[u].state = "attached"
             /\ \A u, v \in UnitsAt(e) :
                   unit[u].term # "kTerminated" /\ unit[v].term # "kTerminated"
                     /\ unit[u].kind = unit[v].kind => u = v
      BY <1>2 DEF UnitsAreSound, UnitsAt
  <2>1. CASE e = d  BY <1>2, <1>3, <1>6, <2>1
  <2>2. CASE e # d
    <3>1. nub'[e] = nub[e]  BY <1>6, <2>2
    <3> QED BY <1>1, <3>1 DEF UnitsAreSound
  <2> QED BY <2>1, <2>2
<1>11. UnitsMatchROM'
  <2>1. \A e \in Nubs : Current(e)' /\ nub'[e].fDirectory # Absent =>
            Current(e) /\ nub[e].fDirectory = nub'[e].fDirectory
      BY <1>3, <1>6 DEF Current, Attached
  <2> QED BY <1>2, <2>1, SameMatch DEF DeviceInv
<1>12. OneFound'
  <2>1. Found' \subseteq Found  BY <1>3, <1>6 DEF Found
  <2> QED BY <2>1 DEF DeviceInv, OneFound
<1>13. \A e \in Nubs : /\ Suspended(e)' => e # d /\ Suspended(e)
                       /\ Suspended(e) => e # d /\ Suspended(e)'
    BY <1>2, <1>3, <1>6 DEF Suspended, Attached
<1>14. SuspendedIsOff' /\ WaitsForReset'
    BY <1>2, <1>6, <1>7, <1>13
    DEF DeviceInv, SuspendedIsOff, WaitsForReset, Waiting, busVars, faultVars
<1>15. PruningIsSound'
  <2> SUFFICES ASSUME ~GateOpen
               PROVE  /\ pruning.nub \in Nubs
                      /\ Suspended(pruning.nub)' /\ ~nub'[pruning.nub].onBus
                      /\ "staleIsOpen" \notin Races => pruning.wasOpen = IsOpen(pruning.nub)'
      BY <1>2 DEF PruningIsSound, GateOpen
  <2>1. pruning.nub \in Nubs /\ Suspended(pruning.nub)
      BY DEF DeviceInv, PruningIsSound
  <2>2. pruning.nub # d /\ Suspended(pruning.nub)' /\ nub'[pruning.nub] = nub[pruning.nub]
      BY <1>2, <1>6, <1>13, <2>1
  <2> QED BY <1>2, <2>1, <2>2 DEF DeviceInv, PruningIsSound, IsOpen
<1> QED BY <1>8, <1>9, <1>10, <1>11, <1>12, <1>14, <1>15 DEF DeviceInv

-----------------------------------------------------------------------------
(* The ends of a reader.                                                   *)

(* The cache of a reader that ends: dead unless it is the current one.     *)
EndOf(rs, g) == IF g = Len(rs) THEN [rs[g] EXCEPT !.pc = "done", !.latched = 0] ELSE DeadROM

LEMMA EndIs ==
    ASSUME NEW rs \in Seq(ROMCaches), NEW g \in DOMAIN rs
    PROVE  /\ EndOf(rs, g) \in ROMCaches /\ EndOf(rs, g).pc = "done"
           /\ EndOf(rs, g).state = IF g = Len(rs) THEN rs[g].state ELSE "Invalid"
           /\ [rs EXCEPT ![g] = EndOf(rs, g)] \in Seq(ROMCaches)
           /\ Len([rs EXCEPT ![g] = EndOf(rs, g)]) = Len(rs)
           /\ DOMAIN [rs EXCEPT ![g] = EndOf(rs, g)] = DOMAIN rs
           /\ [rs EXCEPT ![g] = EndOf(rs, g)][g] = EndOf(rs, g)
           /\ \A h \in DOMAIN rs : h # g => [rs EXCEPT ![g] = EndOf(rs, g)][h] = rs[h]
           /\ rs # <<>> /\ [rs EXCEPT ![g] = EndOf(rs, g)] # <<>>
           /\ Len(rs) \in DOMAIN rs
<1>1. rs[g] \in ROMCaches  BY CacheOf
<1>2. DeadROM \in ROMCaches /\ DeadROM.pc = "done" /\ DeadROM.state = "Invalid"
    BY DEF DeadROM, ROMCaches, Labels
<1>3. /\ EndOf(rs, g) \in ROMCaches /\ EndOf(rs, g).pc = "done"
      /\ EndOf(rs, g).state = IF g = Len(rs) THEN rs[g].state ELSE "Invalid"
  <2>1. CASE g = Len(rs)
    <3> DEFINE r == [rs[g] EXCEPT !.pc = "done", !.latched = 0]
    <3>1. EndOf(rs, g) = r  BY <2>1 DEF EndOf
    <3>2. r \in ROMCaches /\ r.pc = "done" /\ r.state = rs[g].state
        BY <1>1 DEF ROMCaches, Labels
    <3> HIDE DEF r
    <3> QED BY <2>1, <3>1, <3>2
  <2>2. CASE g # Len(rs)  BY <1>2, <2>2 DEF EndOf
  <2> QED BY <2>1, <2>2
<1> DEFINE ended == [rs EXCEPT ![g] = EndOf(rs, g)]
<1>4. /\ ended \in Seq(ROMCaches)
      /\ Len(ended) = Len(rs) /\ DOMAIN ended = DOMAIN rs
      /\ ended[g] = EndOf(rs, g)
      /\ \A h \in DOMAIN rs : h # g => ended[h] = rs[h]
    BY <1>3, MoveOf
<1>5. Len(rs) # 0  BY LenProperties
<1> HIDE DEF ended
<1>6. rs # <<>> /\ ended # <<>>
    BY <1>4, <1>5, EmptySeq
<1>7. Len(rs) \in DOMAIN rs  BY <1>6, LatestIs
<1> QED BY <1>3, <1>4, <1>6, <1>7 DEF ended

LEMMA FailedKeeps ==
    ASSUME DeviceInv, NEW d \in Nubs, NEW g \in DOMAIN roms[d], Failed(d, g)
    PROVE  DeviceInv'
<1>1. /\ Types /\ nub[d] \in Devices /\ NubIsSound(nub[d])
      /\ roms[d] \in Seq(ROMCaches) /\ ReadersAreSound(nub[d], roms[d])
    BY DEF DeviceInv, Types
<1> DEFINE rs == [roms[d] EXCEPT ![g] = EndOf(roms[d], g)]
           retries == [nub[d] EXCEPT !.fROMReadRetry = @ - 1]
           givesUp == [nub[d] EXCEPT !.fRegistrationState = "kDeviceNotRegistered",
                                     !.busy = @ - 1]
           gives == Needs(nub[d]) /\ GivesUp(d, g)
           m == IF nub[d].fROMReadRetry > 0 THEN retries
                ELSE IF gives THEN givesUp ELSE nub[d]
<1>2. /\ roms[d][g].pc = "failed" /\ GateOpen
      /\ nub' = [nub EXCEPT ![d] = m]
      /\ resetDue' = IF nub[d].fROMReadRetry > 0 THEN TRUE ELSE resetDue
      /\ UNCHANGED <<busVars, resets, readErrors, pruning, unit>>
  <2>1. nub' = [nub EXCEPT ![d] = m]
    <3>1. CASE nub[d].fROMReadRetry > 0  BY <3>1 DEF Failed
    <3>2. CASE ~(nub[d].fROMReadRetry > 0) /\ gives  BY <3>2 DEF Failed, Needs
    <3>3. CASE ~(nub[d].fROMReadRetry > 0) /\ ~gives
        BY <1>1, <3>3 DEF Failed, Needs, Types
    <3> QED BY <3>1, <3>2, <3>3
  <2>2. resetDue' = IF nub[d].fROMReadRetry > 0 THEN TRUE ELSE resetDue
      BY DEF Failed
  <2>3. /\ roms[d][g].pc = "failed" /\ GateOpen
        /\ UNCHANGED <<busVars, resets, readErrors, pruning, unit>>
      BY DEF Failed
  <2> QED BY <2>1, <2>2, <2>3
<1>3. roms' = [roms EXCEPT ![d] = rs]
    BY DEF Failed, Ends, EndOf, fROMGeneration
<1>4. /\ rs \in Seq(ROMCaches) /\ Len(rs) = Len(roms[d]) /\ DOMAIN rs = DOMAIN roms[d]
      /\ rs[g] = EndOf(roms[d], g) /\ rs[g].pc = "done" /\ rs[g] \in ROMCaches
      /\ rs[g].state = IF g = Len(roms[d]) THEN roms[d][g].state ELSE "Invalid"
      /\ \A h \in DOMAIN roms[d] : h # g => rs[h] = roms[d][h]
      /\ roms[d] # <<>> /\ rs # <<>> /\ Len(roms[d]) \in DOMAIN roms[d]
    BY <1>1, EndIs
<1>5. ReadersAreSound(nub[d], rs)
  <2>1. roms[d][g].state = "Invalid"
      BY <1>1, <1>2 DEF ReadersAreSound
  <2>2. EndOf(roms[d], g).pc = "done" /\ EndOf(roms[d], g).state = "Invalid"
        /\ EndOf(roms[d], g) \in ROMCaches
      BY <1>4, <2>1
  <2> QED BY <1>1, <1>2, <2>1, <2>2, ReaderMoves DEF Reading, Passive
<1> HIDE DEF rs
<1>6. nub[d].state # "none"
    BY <1>1, <1>4 DEF ReadersAreSound
<1>7. /\ m \in Devices /\ m.state = nub[d].state /\ m.onBus = nub[d].onBus
      /\ m.term = nub[d].term /\ m.dying = nub[d].dying
      /\ m.fOpenUnits = nub[d].fOpenUnits /\ m.fOpenFromDevice = nub[d].fOpenFromDevice
      /\ m.fDirectory = nub[d].fDirectory
      /\ \/ m.fRegistrationState = nub[d].fRegistrationState /\ m.busy = nub[d].busy
         \/ /\ gives /\ nub[d].fROMReadRetry = 0
            /\ m.fRegistrationState = "kDeviceNotRegistered" /\ m.busy = 0
  <2>1. nub[d].fROMReadRetry \in 0..Retries /\ Retries \in Nat
      BY <1>1, DeviceAssumption DEF Devices, DeviceAssumption
  <2>2. CASE nub[d].fROMReadRetry > 0
    <3>1. nub[d].fROMReadRetry - 1 \in 0..Retries  BY <2>1, <2>2
    <3>2. m = [nub[d] EXCEPT !.fROMReadRetry = nub[d].fROMReadRetry - 1]  BY <2>2
    <3> HIDE DEF m
    <3> QED BY <1>1, <3>1, <3>2 DEF Devices
  <2>3. CASE ~(nub[d].fROMReadRetry > 0) /\ gives
    <3>1. nub[d].busy = 1  BY <1>1, <2>3 DEF NubIsSound, Needs
    <3>2. nub[d].busy - 1 = 0  BY <3>1
    <3>3. nub[d].fROMReadRetry = 0  BY <2>1, <2>3
    <3>4. m = [nub[d] EXCEPT !.fRegistrationState = "kDeviceNotRegistered", !.busy = 0]
      <4>1. m = [nub[d] EXCEPT !.fRegistrationState = "kDeviceNotRegistered",
                               !.busy = nub[d].busy - 1]
          BY <2>3
      <4> QED BY <3>2, <4>1
    <3> HIDE DEF m, gives
    <3> QED BY <1>1, <2>3, <3>3, <3>4 DEF Devices, RegistrationStates
  <2>4. CASE ~(nub[d].fROMReadRetry > 0) /\ ~gives  BY <1>1, <2>4
  <2> QED BY <2>2, <2>3, <2>4
<1> HIDE DEF m
<1>8. NubIsSound(m)
  <2>1. CASE m.fRegistrationState = nub[d].fRegistrationState /\ m.busy = nub[d].busy
    <3> HIDE DEF gives
    <3> QED BY <1>1, <1>6, <1>7, <2>1 DEF NubIsSound, Needs, Held
  <2>2. CASE gives /\ m.fRegistrationState = "kDeviceNotRegistered" /\ m.busy = 0
    <3>1. "staleReader" \in Races \/ nub[d].fDirectory = Absent
        BY <1>1, <2>2 DEF NubIsSound, Needs
    <3> HIDE DEF gives
    <3> QED BY <1>1, <1>6, <1>7, <2>2, <3>1 DEF NubIsSound, Needs, Held
  <2> QED BY <1>7, <2>1, <2>2
<1>9. ReadersAreSound(m, rs)
  <2>1. CASE m.fRegistrationState = nub[d].fRegistrationState
    <3> HIDE DEF gives
    <3> QED BY <1>5, <1>7, <2>1, SameReaders
  <2>2. CASE gives /\ m.fRegistrationState = "kDeviceNotRegistered"
    <3>1. ASSUME "staleReader" \notin Races
          PROVE  Latest(rs).pc = "done" /\ \A h \in DOMAIN rs : Passive(rs[h])
      <4>1. g = Len(roms[d])  BY <2>2, <3>1 DEF GivesUp, fROMGeneration
      <4>2. Latest(rs).pc = "done"  BY <1>4, <4>1 DEF Latest
      <4>3. \A h \in DOMAIN roms[d] : h # g => ~Reading(roms[d][h])
          BY <1>1, <1>2 DEF ReadersAreSound, Reading
      <4> QED BY <1>4, <4>2, <4>3 DEF Reading, Passive
    <3>2. ~Needs(m)  BY <2>2 DEF Needs
    <3> HIDE DEF gives
    <3> QED BY <1>5, <1>6, <1>7, <3>1, <3>2 DEF ReadersAreSound
  <2> QED BY <1>7, <2>1, <2>2
<1>10. /\ nub' \in [Nubs -> Devices] /\ nub'[d] = m
       /\ \A e \in Nubs : e # d => nub'[e] = nub[e]
    BY <1>1, <1>2, <1>7 DEF Types
<1>11. /\ roms' \in [Nubs -> Seq(ROMCaches)] /\ roms'[d] = rs
       /\ \A e \in Nubs : e # d => roms'[e] = roms[e]
    BY <1>1, <1>3, <1>4 DEF Types
<1>12. Types'
  <2>1. resetDue' \in BOOLEAN  BY <1>1, <1>2 DEF Types
  <2> QED BY <1>1, <1>2, <1>10, <1>11, <2>1 DEF Types, busVars
<1>13. /\ \A e \in Nubs : NubIsSound(nub[e])'
       /\ \A e \in Nubs : ReadersAreSound(nub[e], roms[e])'
       /\ \A u \in Units : UnitIsSound(unit[u])'
    BY <1>2, <1>8, <1>9, <1>10, <1>11 DEF DeviceInv
<1>14. UnitsAreSound'
  <2>1. \A e \in Nubs : /\ nub'[e].fOpenUnits = nub[e].fOpenUnits
                        /\ nub'[e].state = "none" => nub[e].state = "none"
                        /\ nub[e].term = "kTerminated" => nub'[e].term = "kTerminated"
      BY <1>7, <1>10
  <2> QED BY <1>2, <2>1, SameUnits DEF DeviceInv
<1>15. UnitsMatchROM'
  <2>1. \A e \in Nubs : Current(e)' /\ nub'[e].fDirectory # Absent =>
            Current(e) /\ nub[e].fDirectory = nub'[e].fDirectory
      BY <1>7, <1>10 DEF Current, Attached
  <2> QED BY <1>2, <2>1, SameMatch DEF DeviceInv
<1>16. OneFound'
  <2>1. Found' \subseteq Found  BY <1>7, <1>10 DEF Found
  <2> QED BY <2>1 DEF DeviceInv, OneFound
<1>17. \A e \in Nubs : (Suspended(e)' <=> Suspended(e)) /\ nub'[e].onBus = nub[e].onBus
    BY <1>7, <1>10 DEF Suspended, Attached
<1>18. SuspendedIsOff' /\ PruningIsSound'
    BY <1>2, <1>17 DEF DeviceInv, SuspendedIsOff, PruningIsSound, GateOpen, busVars
<1>19. WaitsForReset'
  <2> SUFFICES ASSUME NEW e \in Nubs, Waiting(e)', ~resetDue'
               PROVE  \/ phase' \in {"down", "suspended"}
                      \/ phase' = "scanned" /\ ~nub'[e].onBus
      BY DEF WaitsForReset
  <2>1. resetDue = FALSE /\ ~(nub[d].fROMReadRetry > 0)
      BY <1>1, <1>2 DEF Types
  <2>2. Waiting(e)
    <3>1. CASE e # d
        BY <1>10, <1>11, <1>17, <3>1 DEF Waiting
    <3>2. CASE e = d
      <4>1. Needs(m)  BY <1>10, <3>2 DEF Waiting
      <4>2. m.fRegistrationState # "kDeviceNotRegistered"  BY <4>1 DEF Needs
      <4>3. m.fRegistrationState = nub[d].fRegistrationState  BY <1>7, <4>2
      <4>4. Needs(nub[d]) /\ ~gives
        <5>1. Needs(nub[d])  BY <4>1, <4>3 DEF Needs
        <5>2. ~gives
          <6>1. gives => m = givesUp  BY <2>1 DEF m
          <6>2. givesUp.fRegistrationState = "kDeviceNotRegistered"  BY <1>1 DEF Devices
          <6> HIDE DEF gives, givesUp
          <6> QED BY <4>2, <6>1, <6>2
        <5> QED BY <5>1, <5>2
      <4>5. g # Len(roms[d])  BY <4>4 DEF GivesUp, fROMGeneration
      <4>6. Latest(rs) = Latest(roms[d])  BY <1>4, <4>5 DEF Latest
      <4> QED BY <1>11, <1>17, <3>2, <4>4, <4>6 DEF Waiting
    <3> QED BY <3>1, <3>2
  <2> QED BY <1>2, <1>17, <2>1, <2>2 DEF DeviceInv, WaitsForReset, busVars
<1> QED BY <1>12, <1>13, <1>14, <1>15, <1>16, <1>18, <1>19 DEF DeviceInv

(* What becomes of each unit when the directories of a ROM are processed:  *)
(* it is found again, it is new, it is missing, or it is another device's. *)
UnitFound(d, kinds, u) ==
    /\ unit[u].device = d /\ unit[u].term # "kTerminated" /\ unit[u].kind \in kinds
    /\ unit'[u].device = d /\ unit'[u].kind = unit[u].kind
    /\ unit'[u].state = unit[u].state /\ unit'[u].open = unit[u].open
    /\ unit'[u].term = "kNotTerminated"

UnitNew(d, kinds, new, u) ==
    /\ Attached(d) /\ unit[u] = NoUnit
    /\ unit'[u].kind \in Lacking(d, kinds) /\ new[unit'[u].kind] = u
    /\ unit'[u].device = d /\ unit'[u].state = "attached"
    /\ unit'[u].open = FALSE /\ unit'[u].term = "kNotTerminated"

UnitMissing(d, kinds, u) ==
    /\ unit[u].device = d
    /\ unit[u].term = "kTerminated" \/ unit[u].kind \notin kinds
    /\ unit'[u].device = d /\ unit'[u].kind = unit[u].kind
    /\ unit'[u].state = unit[u].state /\ unit'[u].open = unit[u].open
    /\ unit'[u].term # "kNotTerminated"
    /\ unit'[u].term # "kTerminated" => unit[u].term # "kTerminated"

UnitOther(d, u) == unit[u].device # d /\ unit'[u] = unit[u]

LEMMA UnitsProcessed ==
    ASSUME DeviceInv, NEW d \in Nubs, NEW kinds \in SUBSET Kinds,
           processUnitDirectories(d, kinds)
    PROVE  /\ unit' \in [Units -> UnitNubs]
           /\ \A u \in Units : UnitIsSound(unit'[u])
           /\ \E new \in Placements(Lacking(d, kinds)) :
                 /\ \A u \in Units : UnitFound(d, kinds, u) \/ UnitNew(d, kinds, new, u)
                                       \/ UnitMissing(d, kinds, u) \/ UnitOther(d, u)
                 /\ \A k \in Lacking(d, kinds) : UnitNew(d, kinds, new, new[k])
<1> DEFINE lacking == Lacking(d, kinds)
           new == CHOOSE f \in Placements(lacking) : TRUE
<1>0. d # NoNub /\ \A u \in Units : unit[u] \in UnitNubs /\ UnitIsSound(unit[u])
    BY DeviceAssumption DEF DeviceInv, Types, DeviceAssumption
<1>1. new \in Placements(lacking)  BY DEF processUnitDirectories
<1>2. unit' = [u \in Units |->
                IF u \in Matching(d, kinds) THEN [unit[u] EXCEPT
                     !.term = IF @ = "kNeedsTermination" THEN "kNotTerminated" ELSE @]
                ELSE IF \E k \in lacking : new[k] = u
                THEN [NoUnit EXCEPT !.device = d, !.state = "attached",
                        !.kind = CHOOSE k \in lacking : new[k] = u]
                ELSE IF u \in UnitsAt(d) THEN terminateUnit(unit[u])
                ELSE unit[u]]
    BY DEF processUnitDirectories
<1>3. /\ lacking \subseteq kinds
      /\ lacking # {} => Attached(d)
    BY DEF Lacking
<1> HIDE DEF lacking, new
<1>4. /\ \A k \in lacking : new[k] \in Units /\ unit[new[k]].device = NoNub
      /\ \A k, l \in lacking : new[k] = new[l] => k = l
    BY <1>1 DEF Placements
<1>5. ASSUME NEW u \in Units
      PROVE  /\ unit'[u] \in UnitNubs /\ UnitIsSound(unit'[u])
             /\ UnitFound(d, kinds, u) \/ UnitNew(d, kinds, new, u)
                  \/ UnitMissing(d, kinds, u) \/ UnitOther(d, u)
             /\ (\E k \in lacking : new[k] = u) => UnitNew(d, kinds, new, u)
  <2>1. unit[u] \in UnitNubs /\ UnitIsSound(unit[u])  BY <1>0
  <2>2. (\E k \in lacking : new[k] = u) => unit[u].device = NoNub /\ unit[u] = NoUnit
      BY <1>4, <2>1 DEF UnitIsSound
  <2>3. CASE u \in Matching(d, kinds)
    <3> DEFINE f == [unit[u] EXCEPT
                        !.term = IF @ = "kNeedsTermination" THEN "kNotTerminated" ELSE @]
    <3>1. unit'[u] = f  BY <1>2, <2>3
    <3>2. unit[u].device = d /\ unit[u].term # "kTerminated" /\ unit[u].kind \in kinds
        BY <2>3 DEF Matching, UnitsAt
    <3>3. /\ f \in UnitNubs /\ f.device = d /\ f.kind = unit[u].kind
          /\ f.state = unit[u].state /\ f.open = unit[u].open
          /\ f.term = "kNotTerminated" /\ f.dying = unit[u].dying
        BY <2>1, <3>2 DEF UnitNubs, TerminationStates
    <3> HIDE DEF f
    <3>4. UnitIsSound(f)  BY <1>0, <2>1, <3>2, <3>3 DEF UnitIsSound
    <3>5. UnitFound(d, kinds, u)  BY <3>1, <3>2, <3>3 DEF UnitFound
    <3>6. ~\E k \in lacking : new[k] = u  BY <1>0, <2>2, <3>2
    <3> QED BY <3>1, <3>3, <3>4, <3>5, <3>6
  <2>4. CASE u \notin Matching(d, kinds) /\ \E k \in lacking : new[k] = u
    <3> DEFINE kind == CHOOSE k \in lacking : new[k] = u
               n == [NoUnit EXCEPT !.device = d, !.state = "attached", !.kind = kind]
    <3>1. unit'[u] = n  BY <1>2, <2>4
    <3>2. kind \in lacking /\ new[kind] = u  BY <2>4
    <3> HIDE DEF kind
    <3>3. /\ n.device = d /\ n.kind = kind /\ n.state = "attached"
          /\ n.open = FALSE /\ n.term = "kNotTerminated" /\ n.dying = FALSE
        BY DEF NoUnit
    <3>4. n \in UnitNubs
      <4>1. kind \in Kinds  BY <1>3, <3>2
      <4> QED BY <4>1 DEF NoUnit, UnitNubs, TerminationStates
    <3> HIDE DEF n
    <3>5. UnitIsSound(n)  BY <1>0, <3>3 DEF UnitIsSound
    <3>6. UnitNew(d, kinds, new, u)
        BY <1>3, <2>2, <2>4, <3>1, <3>2, <3>3 DEF UnitNew, lacking
    <3> QED BY <3>1, <3>4, <3>5, <3>6
  <2>5. CASE /\ u \notin Matching(d, kinds) /\ ~\E k \in lacking : new[k] = u
             /\ u \in UnitsAt(d)
    <3> DEFINE t == terminateUnit(unit[u])
    <3>1. unit'[u] = t  BY <1>2, <2>5
    <3>2. unit[u].device = d /\ (unit[u].term = "kTerminated" \/ unit[u].kind \notin kinds)
        BY <2>5 DEF Matching, UnitsAt
    <3>3. /\ t \in UnitNubs /\ t.device = d /\ t.kind = unit[u].kind
          /\ t.state = unit[u].state /\ t.open = unit[u].open
          /\ t.term # "kNotTerminated"
          /\ t.term # "kTerminated" => unit[u].term # "kTerminated"
          /\ (t.dying => t.term = "kTerminated")
          /\ (t.term = "kNeedsTermination" => t.open)
      <4>1. CASE unit[u].term # "kNotTerminated"
        <5>1. t = unit[u]  BY <4>1 DEF terminateUnit
        <5> HIDE DEF t
        <5> QED BY <2>1, <3>2, <4>1, <5>1 DEF UnitIsSound
      <4>2. CASE unit[u].term = "kNotTerminated" /\ unit[u].open
        <5> DEFINE x == [unit[u] EXCEPT !.term = "kNeedsTermination"]
        <5>1. t = x  BY <4>2 DEF terminateUnit
        <5> HIDE DEF t
        <5>2. /\ x \in UnitNubs /\ x.device = unit[u].device /\ x.kind = unit[u].kind
              /\ x.state = unit[u].state /\ x.open = unit[u].open
              /\ x.term = "kNeedsTermination" /\ x.dying = unit[u].dying
            BY <2>1 DEF UnitNubs, TerminationStates
        <5> HIDE DEF x
        <5> QED BY <2>1, <3>2, <4>2, <5>1, <5>2 DEF UnitIsSound
      <4>3. CASE unit[u].term = "kNotTerminated" /\ ~unit[u].open
        <5> DEFINE x == [unit[u] EXCEPT !.term = "kTerminated", !.dying = TRUE]
        <5>1. t = x  BY <4>3 DEF terminateUnit
        <5> HIDE DEF t
        <5>2. /\ x \in UnitNubs /\ x.device = unit[u].device /\ x.kind = unit[u].kind
              /\ x.state = unit[u].state /\ x.open = unit[u].open
              /\ x.term = "kTerminated"
            BY <2>1 DEF UnitNubs, TerminationStates
        <5> HIDE DEF x
        <5> QED BY <3>2, <4>3, <5>1, <5>2
      <4> QED BY <4>1, <4>2, <4>3
    <3> HIDE DEF t
    <3>4. UnitIsSound(t)  
      <4>1. unit[u].state # "none"  BY <1>0, <2>1, <3>2 DEF UnitIsSound
      <4> QED BY <1>0, <3>3, <4>1 DEF UnitIsSound
    <3>5. UnitMissing(d, kinds, u)  BY <3>1, <3>2, <3>3 DEF UnitMissing
    <3> QED BY <2>5, <3>1, <3>3, <3>4, <3>5
  <2>6. CASE /\ u \notin Matching(d, kinds) /\ ~\E k \in lacking : new[k] = u
             /\ u \notin UnitsAt(d)
    <3>1. unit'[u] = unit[u]  BY <1>2, <2>6
    <3>2. UnitOther(d, u)  BY <2>6, <3>1 DEF UnitOther, UnitsAt
    <3> QED BY <2>1, <2>6, <3>1, <3>2
  <2> QED BY <2>3, <2>4, <2>5, <2>6
<1>6. unit' \in [Units -> UnitNubs]
  <2>1. unit' = [u \in Units |-> unit'[u]]  BY <1>2
  <2> QED BY <1>5, <2>1
<1>7. \A k \in lacking : UnitNew(d, kinds, new, new[k])
    BY <1>4, <1>5
<1> QED BY <1>1, <1>5, <1>6, <1>7 DEF lacking

(* The units of a device are those of the directory that was read.         *)
LEMMA ProcessedMatch ==
    ASSUME DeviceInv, NEW d \in Nubs, NEW kinds \in SUBSET Kinds,
           processUnitDirectories(d, kinds),
           \A e \in Nubs : e # d => nub'[e] = nub[e],
           nub[d].state # "none", nub'[d].state = nub[d].state,
           nub'[d].term = nub[d].term,
           nub'[d].fOpenUnits = nub[d].fOpenUnits,
           UnitsOf(nub'[d].fDirectory) = kinds
    PROVE  UnitsAreSound' /\ UnitsMatchROM'
<1>0. UnitsAreSound /\ UnitsMatchROM /\ d # NoNub /\ NoNub \notin Nubs
    BY DeviceAssumption DEF DeviceInv, DeviceAssumption
<1>1. PICK new \in Placements(Lacking(d, kinds)) :
          /\ \A u \in Units : UnitFound(d, kinds, u) \/ UnitNew(d, kinds, new, u)
                                \/ UnitMissing(d, kinds, u) \/ UnitOther(d, u)
          /\ \A k \in Lacking(d, kinds) : UnitNew(d, kinds, new, new[k])
    BY UnitsProcessed
<1>2. \A k \in Lacking(d, kinds) : new[k] \in Units
    BY DEF Placements
<1>3. NoUnit.device = NoNub /\ NoUnit.open = FALSE  BY DEF NoUnit
<1>4. ASSUME NEW e \in Nubs, e # d
      PROVE  UnitsAt(e)' = UnitsAt(e) /\ \A u \in UnitsAt(e) : unit'[u] = unit[u]
  <2> SUFFICES ASSUME NEW u \in Units
               PROVE  /\ unit'[u].device = e <=> unit[u].device = e
                      /\ unit[u].device = e => unit'[u] = unit[u]
      BY DEF UnitsAt
  <2>1. CASE UnitFound(d, kinds, u)  BY <1>4, <2>1 DEF UnitFound
  <2>2. CASE UnitNew(d, kinds, new, u)  BY <1>0, <1>3, <1>4, <2>2 DEF UnitNew
  <2>3. CASE UnitMissing(d, kinds, u)  BY <1>4, <2>3 DEF UnitMissing
  <2>4. CASE UnitOther(d, u)  BY <2>4 DEF UnitOther
  <2> QED BY <1>1, <2>1, <2>2, <2>3, <2>4
<1>5. \A u \in UnitsAt(d)' : UnitFound(d, kinds, u) \/ UnitNew(d, kinds, new, u)
                               \/ UnitMissing(d, kinds, u)
    BY <1>1 DEF UnitsAt, UnitOther
<1>6. nub'[d].fOpenUnits = {u \in UnitsAt(d)' : unit'[u].open}
  <2>1. \A u \in Units : unit'[u].device = d /\ unit'[u].open
                            <=> unit[u].device = d /\ unit[u].open
    <3> SUFFICES ASSUME NEW u \in Units
                 PROVE  unit'[u].device = d /\ unit'[u].open
                            <=> unit[u].device = d /\ unit[u].open
        OBVIOUS
    <3>1. CASE UnitFound(d, kinds, u)  BY <3>1 DEF UnitFound
    <3>2. CASE UnitNew(d, kinds, new, u)  BY <1>0, <1>3, <3>2 DEF UnitNew
    <3>3. CASE UnitMissing(d, kinds, u)  BY <3>3 DEF UnitMissing
    <3>4. CASE UnitOther(d, u)  BY <3>4 DEF UnitOther
    <3> QED BY <1>1, <3>1, <3>2, <3>3, <3>4
  <2>2. nub[d].fOpenUnits = {u \in Units : unit[u].device = d /\ unit[u].open}
      BY <1>0 DEF UnitsAreSound, UnitsAt
  <2> QED BY <2>1, <2>2 DEF UnitsAt
<1>7. ASSUME NEW u \in UnitsAt(d)', unit'[u].term # "kTerminated", nub'[d].term # "kTerminated"
      PROVE  unit'[u].state = "attached"
  <2>1. CASE UnitFound(d, kinds, u)
    <3>1. u \in UnitsAt(d)  BY <2>1 DEF UnitFound, UnitsAt
    <3> QED BY <1>0, <1>7, <2>1, <3>1 DEF UnitFound, UnitsAreSound
  <2>2. CASE UnitNew(d, kinds, new, u)  BY <2>2 DEF UnitNew
  <2>3. CASE UnitMissing(d, kinds, u)
    <3>1. u \in UnitsAt(d)  BY <2>3 DEF UnitMissing, UnitsAt
    <3> QED BY <1>0, <1>7, <2>3, <3>1 DEF UnitMissing, UnitsAreSound
  <2> QED BY <1>5, <2>1, <2>2, <2>3
<1>8. ASSUME NEW u \in UnitsAt(d)', unit'[u].term # "kTerminated"
      PROVE  \/ /\ u \in UnitsAt(d) /\ unit[u].term # "kTerminated"
                /\ unit'[u].kind = unit[u].kind
                /\ unit[u].kind \in kinds => u \in Matching(d, kinds)
             \/ UnitNew(d, kinds, new, u)
  <2>1. CASE UnitFound(d, kinds, u)  BY <2>1 DEF UnitFound, UnitsAt, Matching
  <2>2. CASE UnitMissing(d, kinds, u)
      BY <1>8, <2>2 DEF UnitMissing, UnitsAt, Matching
  <2> QED BY <1>5, <2>1, <2>2
<1>9. \A k \in Lacking(d, kinds) : k \in kinds /\ \A u \in Matching(d, kinds) : unit[u].kind # k
    BY DEF Lacking
<1>10. ASSUME NEW u \in UnitsAt(d)', NEW v \in UnitsAt(d)',
              unit'[u].term # "kTerminated", unit'[v].term # "kTerminated",
              unit'[u].kind = unit'[v].kind
       PROVE  u = v
  <2>1. CASE UnitNew(d, kinds, new, u) /\ UnitNew(d, kinds, new, v)
      BY <1>10, <2>1 DEF UnitNew
  <2>2. CASE UnitNew(d, kinds, new, u) /\ ~UnitNew(d, kinds, new, v)
    <3>1. unit'[u].kind \in Lacking(d, kinds)  BY <2>2 DEF UnitNew
    <3> QED BY <1>8, <1>9, <1>10, <2>2, <3>1
  <2>3. CASE ~UnitNew(d, kinds, new, u) /\ UnitNew(d, kinds, new, v)
    <3>1. unit'[v].kind \in Lacking(d, kinds)  BY <2>3 DEF UnitNew
    <3> QED BY <1>8, <1>9, <1>10, <2>3, <3>1
  <2>4. CASE ~UnitNew(d, kinds, new, u) /\ ~UnitNew(d, kinds, new, v)
      BY <1>0, <1>8, <1>10, <2>4 DEF UnitsAreSound
  <2> QED BY <2>1, <2>2, <2>3, <2>4
<1>11. UnitsAreSound'
  <2> SUFFICES ASSUME NEW e \in Nubs
      PROVE  /\ nub'[e].fOpenUnits = {u \in UnitsAt(e)' : unit'[u].open}
             /\ nub'[e].state = "none" => UnitsAt(e)' = {}
             /\ \A u \in UnitsAt(e)' :
                   unit'[u].term # "kTerminated" /\ nub'[e].term # "kTerminated" =>
                       unit'[u].state = "attached"
             /\ \A u, v \in UnitsAt(e)' :
                   unit'[u].term # "kTerminated" /\ unit'[v].term # "kTerminated"
                     /\ unit'[u].kind = unit'[v].kind => u = v
      BY DEF UnitsAreSound
  <2>1. CASE e = d  BY <1>6, <1>7, <1>10, <2>1
  <2>2. CASE e # d
    <3>1. nub'[e] = nub[e] /\ UnitsAt(e)' = UnitsAt(e)
          /\ \A u \in UnitsAt(e) : unit'[u] = unit[u]
        BY <1>4, <2>2
    <3> QED BY <1>0, <3>1 DEF UnitsAreSound
  <2> QED BY <2>1, <2>2
<1>12. UnitsMatchROM'
  <2> SUFFICES ASSUME NEW e \in Nubs, Current(e)', nub'[e].fDirectory # Absent
               PROVE  /\ {unit'[u].kind : u \in LiveUnits(e)'} = UnitsOf(nub'[e].fDirectory)
                      /\ \A u, v \in LiveUnits(e)' : unit'[u].kind = unit'[v].kind => u = v
      BY DEF UnitsMatchROM
  <2>1. CASE e # d
    <3>1. nub'[e] = nub[e] /\ UnitsAt(e)' = UnitsAt(e)
          /\ \A u \in UnitsAt(e) : unit'[u] = unit[u]
        BY <1>4, <2>1
    <3>2. LiveUnits(e)' = LiveUnits(e) /\ LiveUnits(e) \subseteq UnitsAt(e)
        BY <3>1 DEF LiveUnits
    <3>3. Current(e)  BY <3>1 DEF Current, Attached
    <3> QED BY <1>0, <3>1, <3>2, <3>3 DEF UnitsMatchROM
  <2>2. CASE e = d
    <3>1. Attached(d) /\ nub'[d].term # "kTerminated"  BY <2>2 DEF Current, Attached
    <3>2. \A u \in LiveUnits(d)' : u \in UnitsAt(d)' /\ unit'[u].term = "kNotTerminated"
        BY DEF LiveUnits
    <3>3. \A u \in LiveUnits(d)' : unit'[u].kind \in kinds
      <4> SUFFICES ASSUME NEW u \in LiveUnits(d)' PROVE unit'[u].kind \in kinds
          OBVIOUS
      <4>1. CASE UnitFound(d, kinds, u)  BY <4>1 DEF UnitFound
      <4>2. CASE UnitNew(d, kinds, new, u)  BY <1>9, <4>2 DEF UnitNew
      <4>3. ~UnitMissing(d, kinds, u)  BY <3>2 DEF UnitMissing
      <4> QED BY <1>5, <3>2, <4>1, <4>2, <4>3
    <3>4. ASSUME NEW k \in kinds
          PROVE  \E u \in LiveUnits(d)' : unit'[u].kind = k
      <4>1. CASE k \in Lacking(d, kinds)
        <5>1. new[k] \in Units /\ UnitNew(d, kinds, new, new[k])  BY <1>1, <1>2, <4>1
        <5>2. new[k] \in LiveUnits(d)'  BY <5>1 DEF UnitNew, LiveUnits, UnitsAt
        <5>3. unit'[new[k]].kind = k
          <6>1. unit'[new[k]].kind \in Lacking(d, kinds) /\ new[unit'[new[k]].kind] = new[k]
              BY <5>1 DEF UnitNew
          <6> QED BY <4>1, <6>1 DEF Placements
        <5> QED BY <5>2, <5>3
      <4>2. CASE k \notin Lacking(d, kinds)
        <5>1. PICK u \in Matching(d, kinds) : unit[u].kind = k
            BY <3>1, <4>2 DEF Lacking
        <5>2. u \in Units /\ unit[u].device = d /\ unit[u].term # "kTerminated"
            BY DEF Matching, UnitsAt
        <5>3. UnitFound(d, kinds, u)
            BY <1>0, <1>1, <1>3, <5>1, <5>2 DEF UnitNew, UnitMissing, UnitOther
        <5>4. u \in UnitsAt(d)'  BY <5>2, <5>3 DEF UnitFound, UnitsAt
        <5>5. unit'[u].state = "attached"
            BY <1>7, <3>1, <5>3, <5>4 DEF UnitFound
        <5>6. u \in LiveUnits(d)'  BY <5>3, <5>4, <5>5 DEF LiveUnits, UnitFound
        <5> QED BY <5>1, <5>3, <5>6 DEF UnitFound
      <4> QED BY <4>1, <4>2
    <3>5. {unit'[u].kind : u \in LiveUnits(d)'} = kinds  BY <3>3, <3>4
    <3>6. \A u, v \in LiveUnits(d)' : unit'[u].kind = unit'[v].kind => u = v
        BY <1>10, <3>2
    <3> QED BY <2>2, <3>5, <3>6
  <2> QED BY <2>1, <2>2
<1> QED BY <1>11, <1>12

LEMMA CommitKeeps ==
    ASSUME DeviceInv, NEW d \in Nubs, NEW g \in DOMAIN roms[d], Commit(d, g)
    PROVE  DeviceInv'
<1>1. /\ Types /\ nub[d] \in Devices /\ NubIsSound(nub[d])
      /\ roms[d] \in Seq(ROMCaches) /\ ReadersAreSound(nub[d], roms[d])
      /\ roms[d][g] \in ROMCaches
    BY CacheOf DEF DeviceInv, Types
<1> DEFINE rs == [roms[d] EXCEPT ![g] = EndOf(roms[d], g)]
           image == roms[d][g].image
           p == processRootDirectory(nub[d])
           m == [p EXCEPT !.fDirectory = image]
<1>2. /\ roms[d][g].pc = "commit" /\ GateOpen
      /\ nub' = [nub EXCEPT ![d] = m]
      /\ processUnitDirectories(d, UnitsOf(image))
      /\ UNCHANGED <<busVars, faultVars, pruning>>
    BY DEF Commit
<1>3. roms' = [roms EXCEPT ![d] = rs]
    BY DEF Commit, Ends, EndOf, fROMGeneration
<1>4. /\ rs \in Seq(ROMCaches) /\ Len(rs) = Len(roms[d]) /\ DOMAIN rs = DOMAIN roms[d]
      /\ rs[g] = EndOf(roms[d], g) /\ rs[g].pc = "done" /\ rs[g] \in ROMCaches
      /\ rs[g].state = IF g = Len(roms[d]) THEN roms[d][g].state ELSE "Invalid"
      /\ \A h \in DOMAIN roms[d] : h # g => rs[h] = roms[d][h]
      /\ roms[d] # <<>> /\ rs # <<>> /\ Len(roms[d]) \in DOMAIN roms[d]
    BY <1>1, EndIs
<1> HIDE DEF rs
<1>5. nub[d].state # "none"
    BY <1>1, <1>4 DEF ReadersAreSound
<1>6. image \in ROMs \cup {Absent} /\ UnitsOf(image) \in SUBSET Kinds
    BY <1>1 DEF ROMCaches, UnitsOf
<1> HIDE DEF image
<1>7. /\ p \in Devices /\ p.state = nub[d].state /\ p.onBus = nub[d].onBus
      /\ p.term = nub[d].term /\ p.dying = nub[d].dying
      /\ p.fOpenUnits = nub[d].fOpenUnits /\ p.fOpenFromDevice = nub[d].fOpenFromDevice
      /\ p.busy = 0
      /\ p.fRegistrationState = IF Needs(nub[d]) THEN "kDeviceRegistered"
                                ELSE nub[d].fRegistrationState
  <2>1. CASE Needs(nub[d])
    <3>1. nub[d].busy = 1  BY <1>1, <2>1 DEF NubIsSound
    <3>2. nub[d].busy - 1 = 0  BY <3>1
    <3>3. p = [nub[d] EXCEPT !.fRegistrationState = "kDeviceRegistered", !.busy = 0]
      <4>1. p = [nub[d] EXCEPT !.fRegistrationState = "kDeviceRegistered",
                               !.busy = nub[d].busy - 1]
          BY <2>1 DEF processRootDirectory, Needs
      <4> QED BY <3>2, <4>1
    <3> HIDE DEF p
    <3> QED BY <1>1, <2>1, <3>3 DEF Devices, RegistrationStates
  <2>2. CASE ~Needs(nub[d])
    <3>1. p = nub[d]  BY <2>2 DEF processRootDirectory, Needs
    <3>2. nub[d].busy = 0  BY <1>1, <2>2 DEF NubIsSound
    <3> HIDE DEF p
    <3> QED BY <1>1, <2>2, <3>1, <3>2
  <2> QED BY <2>1, <2>2
<1> HIDE DEF p
<1>8. /\ m \in Devices /\ m.state = nub[d].state /\ m.onBus = nub[d].onBus
      /\ m.term = nub[d].term /\ m.dying = nub[d].dying
      /\ m.fOpenUnits = nub[d].fOpenUnits /\ m.fOpenFromDevice = nub[d].fOpenFromDevice
      /\ m.busy = 0 /\ m.fDirectory = image
      /\ m.fRegistrationState = IF Needs(nub[d]) THEN "kDeviceRegistered"
                                ELSE nub[d].fRegistrationState
    BY <1>6, <1>7 DEF Devices
<1> HIDE DEF m
<1>9. ~Needs(m)  BY <1>8 DEF Needs
<1>10. "staleReader" \notin Races => m.fRegistrationState = "kDeviceRegistered"
  <2> SUFFICES ASSUME "staleReader" \notin Races PROVE m.fRegistrationState = "kDeviceRegistered"
      OBVIOUS
  <2>1. nub[d].fRegistrationState # "kDeviceNotRegistered"
      BY <1>1, <1>2, <1>5 DEF ReadersAreSound, Passive
  <2> QED BY <1>1, <1>8, <2>1 DEF Devices, RegistrationStates, Needs
<1>11. NubIsSound(m)
    BY <1>1, <1>5, <1>8, <1>9, <1>10 DEF NubIsSound, Held
<1>12. ReadersAreSound(m, rs)
  <2>1. ASSUME NEW h \in DOMAIN rs, NEW j \in DOMAIN rs, Reading(rs[h]), Reading(rs[j])
        PROVE  h = j
      BY <1>1, <1>4, <2>1 DEF ReadersAreSound, Reading
  <2>2. \A h \in DOMAIN rs : h # Len(rs) \/ rs[h].pc = "failed" => rs[h].state = "Invalid"
      BY <1>1, <1>4 DEF ReadersAreSound
  <2>3. "staleReader" \notin Races => m.fRegistrationState # "kDeviceNotRegistered"
      BY <1>10
  <2> QED BY <1>4, <1>5, <1>8, <1>9, <2>1, <2>2, <2>3 DEF ReadersAreSound
<1>13. /\ nub' \in [Nubs -> Devices] /\ nub'[d] = m
       /\ \A e \in Nubs : e # d => nub'[e] = nub[e]
    BY <1>1, <1>2, <1>8 DEF Types
<1>14. /\ roms' \in [Nubs -> Seq(ROMCaches)] /\ roms'[d] = rs
       /\ \A e \in Nubs : e # d => roms'[e] = roms[e]
    BY <1>1, <1>3, <1>4 DEF Types
<1>15. unit' \in [Units -> UnitNubs] /\ \A u \in Units : UnitIsSound(unit'[u])
    BY <1>2, <1>6, UnitsProcessed
<1>16. Types'
    BY <1>1, <1>2, <1>13, <1>14, <1>15 DEF Types, busVars, faultVars
<1>17. /\ \A e \in Nubs : NubIsSound(nub[e])'
       /\ \A e \in Nubs : ReadersAreSound(nub[e], roms[e])'
       /\ \A u \in Units : UnitIsSound(unit[u])'
    BY <1>11, <1>12, <1>13, <1>14, <1>15 DEF DeviceInv
<1>18. UnitsAreSound' /\ UnitsMatchROM'
    BY <1>2, <1>5, <1>6, <1>8, <1>13, ProcessedMatch
<1>19. OneFound'
  <2>1. Found' \subseteq Found  BY <1>8, <1>13 DEF Found
  <2> QED BY <2>1 DEF DeviceInv, OneFound
<1>20. \A e \in Nubs : (Suspended(e)' <=> Suspended(e)) /\ nub'[e].onBus = nub[e].onBus
    BY <1>8, <1>13 DEF Suspended, Attached
<1>21. SuspendedIsOff' /\ PruningIsSound'
    BY <1>2, <1>20 DEF DeviceInv, SuspendedIsOff, PruningIsSound, GateOpen, busVars
<1>22. WaitsForReset'
  <2> SUFFICES ASSUME NEW e \in Nubs, Waiting(e)'
               PROVE  Waiting(e)
      BY <1>2, <1>20 DEF DeviceInv, WaitsForReset, busVars, faultVars
  <2>1. e # d  BY <1>9, <1>13 DEF Waiting
  <2> QED BY <1>13, <1>14, <1>20, <2>1 DEF Waiting
<1> QED BY <1>16, <1>17, <1>18, <1>19, <1>21, <1>22 DEF DeviceInv

-----------------------------------------------------------------------------
(* The invariant, and what it says of the registry.                        *)

LEMMA DeviceInvInit == Init => DeviceInv
<1> SUFFICES ASSUME Init PROVE DeviceInv  OBVIOUS
<1>1. NoDevice \in Devices /\ NoDevice.state = "none" /\ NoDevice.fOpenUnits = {}
      /\ NoDevice.term = "kNotTerminated" /\ NubIsSound(NoDevice)
  <2>1. 0 \in 0..Retries  BY DeviceAssumption DEF DeviceAssumption
  <2> QED BY <2>1 DEF NoDevice, Devices, TerminationStates, RegistrationStates,
                      NubIsSound, Needs, Held
<1>2. NoUnit \in UnitNubs /\ NoUnit.device = NoNub /\ UnitIsSound(NoUnit)
    BY DEF NoUnit, UnitNubs, TerminationStates, UnitIsSound
<1>3. <<>> \in Seq(ROMCaches) /\ ReadersAreSound(NoDevice, <<>>)
  <2>1. <<>> \in Seq(ROMCaches)  BY EmptySeq
  <2>2. DOMAIN <<>> = 1..Len(<<>>) /\ Len(<<>>) = 0  BY <2>1, LenProperties, EmptySeq
  <2>3. \A g \in DOMAIN <<>> : FALSE  BY <2>2
  <2> QED BY <1>1, <2>3, <2>1 DEF ReadersAreSound
<1>4. /\ \A d \in Nubs : nub[d] = NoDevice /\ roms[d] = <<>>
      /\ \A u \in Units : unit[u] = NoUnit
      /\ pruning = Idle /\ phase = "down"
    BY DEF Init
<1>5. Types
  <2>1. Idle \in [nub : Nubs \cup {NoNub}, wasOpen : BOOLEAN]  BY DEF Idle
  <2> QED BY <1>1, <1>2, <1>3, <2>1 DEF Init, Types
<1>6. \A d \in Nubs : UnitsAt(d) = {}
    BY <1>2, <1>4, DeviceAssumption DEF UnitsAt, DeviceAssumption
<1>7. UnitsAreSound
    BY <1>1, <1>4, <1>6 DEF UnitsAreSound
<1>8. OneFound /\ PruningIsSound /\ SuspendedIsOff /\ WaitsForReset /\ UnitsMatchROM
    BY <1>1, <1>4 DEF OneFound, Found, PruningIsSound, GateOpen, SuspendedIsOff,
                      WaitsForReset, UnitsMatchROM, Current, Attached
<1> QED BY <1>1, <1>2, <1>3, <1>4, <1>5, <1>7, <1>8 DEF DeviceInv

LEMMA DeviceInvNext == DeviceInv /\ [Next]_vars => DeviceInv'
<1> SUFFICES ASSUME DeviceInv, [Next]_vars PROVE DeviceInv'  OBVIOUS
<1>1. CASE BusReset  BY <1>1, BusResetKeeps
<1>2. CASE Controller
    BY <1>2, SuspendBusKeeps, UpdateDeviceKeeps, UpdatePlaneKeeps, TerminateDeviceKeeps,
       IsOpenKeeps DEF Controller
<1>3. CASE Terminator
    BY <1>3, TerminateThreadKeeps, TerminateUnitKeeps DEF Terminator
<1>4. CASE Client
    BY <1>4, OpenDeviceKeeps, CloseDeviceKeeps, OpenUnitKeeps, CloseUnitKeeps DEF Client
<1>5. ASSUME NEW d \in Nubs, Reader(d)
      PROVE  DeviceInv'
  <2>1. PICK g \in DOMAIN roms[d] : ReaderStep(d, g)  BY <1>5 DEF Reader
  <2> QED BY <2>1, ReadROMThreadFuncKeeps, CheckROMStateKeeps, UpdateROMCacheKeeps,
             ResetMetKeeps, SuspendROMKeeps, CommitKeeps, FailedKeeps DEF ReaderStep
<1>6. ASSUME NEW d \in Nubs, free(d)
      PROVE  DeviceInv'
    BY <1>6, FreeKeeps
<1>7. CASE UNCHANGED vars
  <2>1. UNCHANGED <<fBusGeneration, phase, node, resetDue, pruning, nub, roms, unit>>
      BY <1>7 DEF vars, busVars, faultVars
  <2>2. Types'  BY <2>1 DEF DeviceInv, Types
  <2>3. /\ \A e \in Nubs : NubIsSound(nub[e])'
        /\ \A e \in Nubs : ReadersAreSound(nub[e], roms[e])'
        /\ \A u \in Units : UnitIsSound(unit[u])'
      BY <2>1 DEF DeviceInv
  <2>4. UnitsAreSound' /\ UnitsMatchROM'
      BY <2>1, SameUnits, SameMatch DEF DeviceInv, Current, Attached
  <2>5. OneFound' /\ SuspendedIsOff' /\ PruningIsSound' /\ WaitsForReset'
      BY <2>1 DEF DeviceInv, OneFound, Found, SuspendedIsOff, Suspended, Attached,
                  PruningIsSound, GateOpen, IsOpen, WaitsForReset, Waiting
  <2> QED BY <2>2, <2>3, <2>4, <2>5 DEF DeviceInv
<1> QED BY <1>1, <1>2, <1>3, <1>4, <1>5, <1>6, <1>7 DEF Next

LEMMA DeviceInvHolds == Spec => []DeviceInv
BY DeviceInvInit, DeviceInvNext, PTL DEF Spec

(* Whatever the races: the registry never has two nubs for the node that   *)
(* are not on their way out, and the live units of a nub are those of the  *)
(* directory that was read last, one each (setNodeROM, createDeviceNub,    *)
(* processUnitDirectories).                                                *)
THEOREM OneNubOneUnitEach == Spec => [](OneNub /\ UnitsMatchROM)
<1>1. DeviceInv => OneNub
    BY DEF DeviceInv, OneFound, Found, OneNub, Current, Attached
<1>2. DeviceInv => UnitsMatchROM  BY DEF DeviceInv
<1> QED BY <1>1, <1>2, DeviceInvHolds, PTL

(* When no reader that is out of date gives up the registration of its     *)
(* device, the registry is sound: a device is busy exactly until it is     *)
(* registered or given up, and while it is a reader or a bus reset is on   *)
(* its way (setNodeROM, processROM).                                       *)
THEOREM RegistryIsSound == "staleReader" \notin Races => (Spec => []Registry)
<1> SUFFICES ASSUME "staleReader" \notin Races PROVE Spec => []Registry
    OBVIOUS
<1>1. ASSUME DeviceInv PROVE TypeOK
    BY <1>1 DEF DeviceInv, Types, TypeOK, Devices, UnitNubs, RegistrationStates
<1>2. ASSUME DeviceInv PROVE OneNub /\ UnitsMatchROM
    BY <1>2 DEF DeviceInv, OneFound, Found, OneNub, Current, Attached
<1>3. ASSUME DeviceInv PROVE BusyUntilRegistered
  <2> SUFFICES ASSUME NEW d \in Nubs, Attached(d)
               PROVE  /\ nub[d].busy = IF Needs(nub[d]) THEN 1 ELSE 0
                      /\ Needs(nub[d]) /\ nub[d].term = "kNotTerminated" =>
                            resetDue \/ phase # "pruned"
                              \/ \E g \in DOMAIN roms[d] : roms[d][g].pc # "done"
                      /\ nub[d].fDirectory # Absent =>
                            nub[d].fRegistrationState = "kDeviceRegistered"
      BY DEF BusyUntilRegistered, Needs
  <2>1. /\ NubIsSound(nub[d]) /\ ReadersAreSound(nub[d], roms[d])
        /\ roms[d] \in Seq(ROMCaches)
      BY <1>3 DEF DeviceInv, Types
  <2>2. ASSUME Needs(nub[d]), nub[d].term = "kNotTerminated",
               ~\E g \in DOMAIN roms[d] : roms[d][g].pc # "done"
        PROVE  resetDue \/ phase # "pruned"
    <3>1. roms[d] # <<>>  BY <2>1 DEF ReadersAreSound, Attached
    <3>2. Len(roms[d]) \in DOMAIN roms[d]  BY <2>1, <3>1, LatestIs
    <3>3. Waiting(d)  BY <2>2, <3>2 DEF Waiting, Suspended, Latest
    <3> QED BY <1>3, <3>3 DEF DeviceInv, WaitsForReset
  <2> QED BY <2>1, <2>2 DEF NubIsSound
<1>4. DeviceInv => Registry
    BY <1>1, <1>2, <1>3 DEF Registry
<1> QED BY <1>4, DeviceInvHolds, PTL

(* When the controller's isOpen() is not out of date when it acts on it, a *)
(* device and its units agree on who has them open, the device and its     *)
(* units are not open at once, and what waits for its last close is open   *)
(* (handleOpen, handleClose, terminateDevice, terminateUnit).              *)
THEOREM OpensAgree == "staleIsOpen" \notin Races => (Spec => []OpenAgrees)
<1> SUFFICES ASSUME "staleIsOpen" \notin Races PROVE Spec => []OpenAgrees
    OBVIOUS
<1>1. ASSUME DeviceInv PROVE OpenAgrees
  <2> SUFFICES ASSUME NEW d \in Nubs
      PROVE  /\ nub[d].fOpenUnits = {u \in UnitsAt(d) : unit[u].open}
             /\ ~(nub[d].fOpenFromDevice /\ nub[d].fOpenUnits # {})
             /\ nub[d].term = "kNeedsTermination" => IsOpen(d)
             /\ \A u \in UnitsAt(d) : unit[u].term = "kNeedsTermination" => unit[u].open
      BY DEF OpenAgrees
  <2>1. NubIsSound(nub[d]) /\ UnitsAreSound /\ \A u \in Units : UnitIsSound(unit[u])
      BY <1>1 DEF DeviceInv
  <2>2. nub[d].term = "kNeedsTermination" => IsOpen(d)
      BY <2>1 DEF NubIsSound, Held, IsOpen
  <2>3. \A u \in UnitsAt(d) : unit[u].term = "kNeedsTermination" => unit[u].open
      BY <2>1 DEF UnitIsSound, UnitsAt
  <2>4. ~(nub[d].fOpenFromDevice /\ nub[d].fOpenUnits # {})
      BY <2>1 DEF NubIsSound
  <2> QED BY <2>1, <2>2, <2>3, <2>4 DEF UnitsAreSound
<1>2. DeviceInv => OpenAgrees  BY <1>1
<1> QED BY <1>2, DeviceInvHolds, PTL

=============================================================================
