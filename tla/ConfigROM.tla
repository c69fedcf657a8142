------------------------------ MODULE ConfigROM ------------------------------
(***************************************************************************)
(* The configuration ROM, from the machine that publishes it to the one    *)
(* that reads it.                                                          *)
(*                                                                         *)
(* Publisher: a client builds unit directories with the library's          *)
(* LocalUnitDirectory, the controller adds them to the root directory,     *)
(* compiles the tree into words (IOLocalConfigDirectory), hands them to    *)
(* the hardware and asks for a bus reset (UpdateROM).                      *)
(* Reader: the driver of another node keeps an IOFireWireROMCache of the   *)
(* words read so far; scans compare the bus information block (BIB) to     *)
(* decide whether it is still good, directories are parsed out of it, and  *)
(* clients walk them through handles of their user client.                 *)
(*                                                                         *)
(* Words are records: t the kind of word, k its key, v its 24 or 16 bits.  *)
(* The BIB is one word that holds the ROM's generation; checksums and the  *)
(* padding of leaves are left out.  A node reads what the hardware was     *)
(* given last.  ROMRisks names what clients and hardware may do wrong:     *)
(*   updateFails  the new ROM cannot be served                             *)
(*   wrap         as many updates between two scans as there are           *)
(*                generations                                              *)
(*   emptyLeaf    a leaf with no data                                      *)
(*   addMeanwhile an entry is added while the ROM is compiled              *)
(*   noText       a text is asked for that is not there                    *)
(***************************************************************************)
EXTENDS Integers, Sequences, SequencesExt

CONSTANTS Units, Readers, MaxGeneration, MaxUpdates, MaxResets,
          MaxAdds, ROMRisks

ASSUME ConfigROMAssumption ==
    /\ MaxGeneration \in Nat /\ MaxGeneration > 2
    /\ MaxUpdates \in Nat /\ MaxResets \in Nat /\ MaxAdds \in Nat
    /\ ROMRisks \subseteq {"updateFails", "wrap", "emptyLeaf", "addMeanwhile", "noText"}

VARIABLES entries,    \* fEntries of every local directory
          generation, \* the generation in fROMHeader
          compiling,  \* the update in progress, holding the gate
          served,     \* the words that nodes read
          reference,  \* the tree that was published, as a reader should see it
          published,  \* mPublished of the library
          gone,       \* the client of the unit directories has ended
          cleaned,    \* unit directories whose exporter entry was removed
          updates,    \* updates since the reader's last scan, and in all
          resetAsked, busGeneration,
          cache,      \* the reader's IOFireWireROMCache
          readers

publisherVars == <<entries, generation, compiling, served, reference, published, gone,
                   cleaned, updates, resetAsked>>
romVars == <<publisherVars, busGeneration, cache, readers>>

Immediate == 0
Offset == 1
Leaf == 2
Directory == 3
HeaderWord == 4
DataWord == 5
BIBWord == 6

TextKey == 1
VendorKey == 3
UnitKey == 17
GenerationKey == 38

RootDir == "root"
Dirs == Units \cup {RootDir}
NoUpdate == [op |-> "none"]
NoBlock == [from |-> -1, words |-> <<>>]
Nothing == <<>>

ImmediateEntry(key, value) == [type |-> Immediate, key |-> key, value |-> value]
TextEntry(text) == [type |-> Leaf, key |-> TextKey, data |-> <<0>> \o text]
OffsetEntry(key, quadlet) == [type |-> Offset, key |-> key, value |-> quadlet]
LeafEntry(key, data) == [type |-> Leaf, key |-> key, data |-> data]
DirectoryEntry(key, dir) == [type |-> Directory, key |-> key, dir |-> dir]
HasValue(type) == type \in {Immediate, Offset}

-----------------------------------------------------------------------------
(* Compiling.  A size is a number of quadlets; TypeBits stands for 2^30,   *)
(* from where on a size is or-ed into the type bits of the entry's word:   *)
(* the size of an empty leaf is (0 - 1) / 4 + 2, in 32 bits without sign.  *)
TypeBits == 1000

RECURSIVE TotalSize(_)
TotalSize(entry) ==
    CASE entry.type = Leaf -> IF entry.data = <<>> THEN TypeBits + 1 ELSE Len(entry.data) + 1
      [] entry.type = Directory ->
            FoldLeft(LAMBDA size, e : size + TotalSize(e), 1 + Len(entries[entry.dir]),
                     entries[entry.dir])
      [] OTHER -> 0

OrType(type, bits) == IF bits % 2 = 1 THEN type + 1 - (type % 2) ELSE type

(* The word of entry i of a directory: a leaf or directory lies after the  *)
(* end of it, behind the leaves and directories of the entries before.     *)
CompiledEntry(list, i) ==
    LET before == FoldLeft(LAMBDA size, e : size + TotalSize(e), 0, SubSeq(list, 1, i - 1))
        value == Len(list) - (i - 1) + before
    IN IF HasValue(list[i].type)
       THEN [t |-> list[i].type, k |-> list[i].key, v |-> list[i].value]
       ELSE [t |-> OrType(list[i].type, value \div TypeBits), k |-> list[i].key,
             v |-> value % TypeBits]

Header(n) == [t |-> HeaderWord, k |-> 0, v |-> n]
CompiledHead(list) == <<Header(Len(list))>> \o [i \in 1 .. Len(list) |-> CompiledEntry(list, i)]
CompiledLeaf(data) ==
    <<Header(Len(data))>> \o [i \in 1 .. Len(data) |-> [t |-> DataWord, k |-> 0, v |-> data[i]]]

RECURSIVE CompiledRest(_)
CompiledRest(list) ==
    FoldLeft(LAMBDA words, e :
                 CASE e.type = Leaf -> words \o CompiledLeaf(e.data)
                   [] e.type = Directory ->
                          words \o CompiledHead(entries[e.dir]) \o CompiledRest(entries[e.dir])
                   [] OTHER -> words,
             <<>>, list)

BIB(gen) == [t |-> BIBWord, k |-> 0, v |-> gen]

-----------------------------------------------------------------------------
(* What a reader should see, by definition: the directories and leaves in  *)
(* the order a walk by levels meets them, and the answers to two lookups.  *)
Listed(dir) ==
    <<"directory", [i \in 1 .. Len(entries[dir]) |->
        LET e == entries[dir][i]
        IN IF HasValue(e.type) THEN <<e.type, e.key, e.value>> ELSE <<e.type, e.key>>]>>
Children(dir) == SelectSeq(entries[dir], LAMBDA e : ~HasValue(e.type))
Shown(entry) == IF entry.type = Directory THEN Listed(entry.dir)
                ELSE IF entry.key = TextKey THEN <<"text", Tail(entry.data)>>
                ELSE <<"leaf", entry.data>>
GrandChildren ==
    FoldLeft(LAMBDA seen, e : IF e.type = Directory THEN seen \o Children(e.dir) ELSE seen,
             <<>>, Children(RootDir))

Lookups == <<[key |-> GenerationKey, text |-> "noText" \in ROMRisks],
             [key |-> VendorKey, text |-> TRUE]>>

FirstWith(key) == CHOOSE i \in 1 .. Len(entries[RootDir]) :
                      /\ entries[RootDir][i].key = key
                      /\ \A j \in 1 .. i - 1 : entries[RootDir][j].key # key
ExpectedAnswer(lookup) ==
    LET i == FirstWith(lookup.key)
    IN <<"value", entries[RootDir][i].value,
         IF lookup.text /\ entries[RootDir][i + 1].key = TextKey
         THEN Tail(entries[RootDir][i + 1].data) ELSE <<>>>>

Tree == <<Listed(RootDir)>> \o [i \in 1 .. Len(Lookups) |-> ExpectedAnswer(Lookups[i])]
        \o [i \in 1 .. Len(Children(RootDir)) |-> Shown(Children(RootDir)[i])]
        \o [i \in 1 .. Len(GrandChildren) |-> Shown(GrandChildren[i])]

-----------------------------------------------------------------------------
(* The publisher.                                                          *)

(* A client adds an entry to a unit directory of its own, outside the      *)
(* gate; a text is an entry of its own behind the one it describes.        *)
NewEntries ==
    {<<OffsetEntry(18, 9), TextEntry(<<4>>)>>, <<LeafEntry(5, <<6, 7>>)>>}
    \cup (IF "emptyLeaf" \in ROMRisks THEN {<<LeafEntry(5, <<>>)>>} ELSE {})

Added == FoldFunctionOnSet(LAMBDA list, n : n + Len(list), 0, entries, Units)

AddEntry(u, new) ==
    /\ ~gone
    /\ Added + Len(new) <= MaxAdds
    /\ compiling = NoUpdate \/ "addMeanwhile" \in ROMRisks
    /\ entries' = [entries EXCEPT ![u] = @ \o new]
    /\ UNCHANGED <<generation, compiling, served, reference, published, gone, cleaned, updates,
                   resetAsked, busGeneration, cache, readers>>

(* The generation is never 0 or 1, which have a meaning of their own.      *)
NextGeneration == IF generation = MaxGeneration THEN 2
                  ELSE IF generation + 1 < 2 THEN 2 ELSE generation + 1

Incremented(root) == [i \in 1 .. Len(root) |->
    IF root[i].type = Immediate /\ root[i].key = GenerationKey
    THEN [root[i] EXCEPT !.value = @ + 1] ELSE root[i]]

(* UpdateROM up to the end of the root directory's own entries.            *)
StartUpdate(op, u, root) ==
    /\ compiling = NoUpdate
    /\ updates.all < MaxUpdates
    /\ updates.sinceScan < MaxGeneration - 2 \/ "wrap" \in ROMRisks
    /\ updates' = [sinceScan |-> updates.sinceScan + 1, all |-> updates.all + 1]
    /\ generation' = NextGeneration
    /\ entries' = [entries EXCEPT ![RootDir] = Incremented(root)]
    /\ compiling' = [op |-> op, unit |-> u,
                     head |-> <<BIB(NextGeneration)>> \o CompiledHead(Incremented(root))]

WithUnit(u) == Append(entries[RootDir], DirectoryEntry(UnitKey, u))
HasUnit(e, u) == e.type = Directory /\ e.dir = u
WithoutUnit(u) ==
    IF \E i \in 1 .. Len(entries[RootDir]) : HasUnit(entries[RootDir][i], u)
    THEN RemoveAt(entries[RootDir], SelectInSeq(entries[RootDir], LAMBDA e : HasUnit(e, u)))
    ELSE entries[RootDir]

unchangedByStart == <<served, reference, published, gone, resetAsked, busGeneration, cache, readers>>

Publish(u) ==
    /\ ~gone /\ ~published[u]
    /\ StartUpdate("publish", u, WithUnit(u))
    /\ UNCHANGED <<cleaned, unchangedByStart>>

Unpublish(u) ==
    /\ ~gone /\ published[u]
    /\ StartUpdate("unpublish", u, WithoutUnit(u))
    /\ UNCHANGED <<cleaned, unchangedByStart>>

(* The user client goes: each of its directories leaves the ROM, whether   *)
(* it was published or not.                                                *)
ExporterCleanup(u) ==
    /\ gone /\ u \notin cleaned
    /\ StartUpdate("cleanup", u, WithoutUnit(u))
    /\ cleaned' = cleaned \cup {u}
    /\ UNCHANGED unchangedByStart

WakeUpdate ==
    /\ StartUpdate("wake", RootDir, entries[RootDir])
    /\ UNCHANGED <<cleaned, unchangedByStart>>

ClientEnds ==
    /\ ~gone /\ compiling = NoUpdate
    /\ gone' = TRUE
    /\ UNCHANGED <<entries, generation, compiling, served, reference, published, cleaned, updates,
                   resetAsked, busGeneration, cache, readers>>

(* The library's calls end: both set mPublished when they succeeded.       *)
LibraryIsTold(success) ==
    published' = IF compiling.op \in {"publish", "unpublish"}
                 THEN [published EXCEPT ![compiling.unit] = success] ELSE published

(* The rest of UpdateROM: the leaves and unit directories, then the words  *)
(* go to the address space and the hardware, and the bus is to be reset.   *)
(* A failure leaves the root directory and the generation as they are.     *)
FinishUpdate(success) ==
    /\ compiling # NoUpdate
    /\ success \/ "updateFails" \in ROMRisks
    /\ served' = IF success THEN compiling.head \o CompiledRest(entries[RootDir]) ELSE served
    /\ reference' = IF success THEN Tree ELSE reference
    /\ resetAsked' = (resetAsked \/ success \/ compiling.op = "wake")
    /\ LibraryIsTold(success)
    /\ compiling' = NoUpdate
    /\ UNCHANGED <<entries, generation, gone, cleaned, updates, busGeneration, cache, readers>>

-----------------------------------------------------------------------------
(* The bus and the reading node's device.                                  *)
BusReset ==
    /\ resetAsked \/ busGeneration < MaxResets
    /\ resetAsked' = FALSE
    /\ busGeneration' = busGeneration + 1
    /\ UNCHANGED <<entries, generation, compiling, served, reference, published, gone, cleaned,
                   updates, cache, readers>>

(* setNodeROM without a scan: the device learns that the bus was reset.    *)
SuspendROM ==
    /\ cache.state = "resumed" /\ cache.generation # busGeneration
    /\ cache' = [cache EXCEPT !.state = "suspended"]
    /\ UNCHANGED <<publisherVars, busGeneration, readers>>

(* A bug: only an invalid cache is replaced.                               *)
OnlyInvalid(bib) == cache.state = "invalid"
HasROMChanged(bib) == cache.words[1] # bib \/ cache.state = "invalid"

(* setNodeROM with a scan of this bus generation.  An update that is being *)
(* compiled already has its generation.                                    *)
SetNodeROM ==
    /\ cache.state # "resumed" /\ cache.generation # busGeneration
    /\ cache' = IF HasROMChanged(served[1])
                THEN [words |-> <<served[1]>>, state |-> "resumed",
                      generation |-> busGeneration, epoch |-> cache.epoch + 1]
                ELSE [cache EXCEPT !.state = "resumed", !.generation = busGeneration]
    /\ updates' = [updates EXCEPT !.sinceScan = IF compiling = NoUpdate THEN 0 ELSE 1]
    /\ UNCHANGED <<entries, generation, compiling, served, reference, published, gone, cleaned,
                   resetAsked, busGeneration, readers>>

-----------------------------------------------------------------------------
(* The words of a directory or leaf at a quadlet offset, in the cache.     *)
RootOffset == 1
WordAt(at) == cache.words[at + 1]
Wanted(at) == IF Len(cache.words) < at + 1 THEN at + 1 ELSE at + 1 + WordAt(at).v
IsCached(at) == Len(cache.words) >= at + 1 /\ Len(cache.words) >= Wanted(at)

IndexEntry(at, i) == WordAt(at + i)
IndexOffset(at, i) == IndexEntry(at, i).v + at + i
FindIndex(at, key) ==
    LET found == {i \in 1 .. WordAt(at).v : IndexEntry(at, i).k = key}
    IN IF found = {} THEN 0 ELSE CHOOSE i \in found : \A j \in found : i <= j
LeafData(at) == [i \in 1 .. WordAt(at).v |-> WordAt(at + i).v]
TextData(at) == IF LeafData(at) = <<>> THEN <<>> ELSE Tail(LeafData(at))

IndexKind(at, i) ==
    LET word == IndexEntry(at, i)
    IN IF word.t = Directory THEN "directory" ELSE IF word.k = TextKey THEN "text" ELSE "leaf"
DirectoryListing(at) == [i \in 1 .. WordAt(at).v |->
    LET word == IndexEntry(at, i)
    IN IF HasValue(word.t) THEN <<word.t, word.k, word.v>> ELSE <<word.t, word.k>>]
Below(at) ==
    LET all == [i \in 1 .. WordAt(at).v |->
                   [kind |-> IF HasValue(IndexEntry(at, i).t) THEN "none" ELSE IndexKind(at, i),
                    at |-> IndexOffset(at, i)]]
    IN SelectSeq(all, LAMBDA item : item.kind # "none")

(* The text behind an entry, if there is one.                              *)
TextIndex(key) ==
    LET i == FindIndex(RootOffset, key)
    IN IF i # 0 /\ i < WordAt(RootOffset).v /\ IndexKind(RootOffset, i + 1) = "text"
       THEN i + 1 ELSE 0

-----------------------------------------------------------------------------
(* A client of the reading node walks the whole ROM, level by level.       *)
CurrentCache(r) == readers[r].epoch = cache.epoch
Item(r) == Head(readers[r].queue)
Reading(r) == readers[r].pc = "reading" /\ readers[r].handle = Nothing /\ readers[r].block = NoBlock

(* The offset whose words the next call needs, or 0.                       *)
Needs(r) ==
    IF Item(r).kind # "lookup" THEN Item(r).at
    ELSE IF Item(r).text /\ TextIndex(Item(r).key) # 0
         THEN IndexOffset(RootOffset, TextIndex(Item(r).key)) ELSE 0

StartReading(r) ==
    /\ readers[r].pc # "reading"
    /\ ~CurrentCache(r) /\ cache.state # "invalid"
    /\ readers' = [readers EXCEPT ![r] =
          [pc |-> "reading", epoch |-> cache.epoch, got |-> <<>>, block |-> NoBlock,
           handle |-> Nothing,
           queue |-> <<[kind |-> "directory", at |-> RootOffset]>>
                     \o [i \in 1 .. Len(Lookups) |->
                            [kind |-> "lookup", key |-> Lookups[i].key, text |-> Lookups[i].text]]]]
    /\ UNCHANGED <<publisherVars, busGeneration, cache>>

(* updateROMCache: words are read with the generation the cache was        *)
(* resumed with.  A read the reset has overtaken suspends the cache, one   *)
(* that fails otherwise makes it invalid.                                  *)
ReadBlock(r) ==
    /\ Reading(r) /\ CurrentCache(r) /\ cache.state = "resumed"
    /\ readers[r].queue # <<>> /\ Needs(r) # 0 /\ ~IsCached(Needs(r))
    /\ IF cache.generation = busGeneration /\ Wanted(Needs(r)) <= Len(served)
       THEN /\ readers' = [readers EXCEPT ![r].block =
                   [from |-> Len(cache.words),
                    words |-> SubSeq(served, Len(cache.words) + 1, Wanted(Needs(r)))]]
            /\ UNCHANGED cache
       ELSE /\ cache' = [cache EXCEPT !.state =
                   IF cache.generation = busGeneration THEN "invalid" ELSE "suspended"]
            /\ UNCHANGED readers
    /\ UNCHANGED <<publisherVars, busGeneration>>

(* The answer is appended unless another reader was faster.                *)
AppendBlock(r) ==
    /\ readers[r].block # NoBlock
    /\ cache' = IF CurrentCache(r) /\ Len(cache.words) = readers[r].block.from
                THEN [cache EXCEPT !.words = @ \o readers[r].block.words] ELSE cache
    /\ readers' = [readers EXCEPT ![r].block = NoBlock]
    /\ UNCHANGED <<publisherVars, busGeneration>>

Ready(r) ==
    /\ Reading(r) /\ CurrentCache(r) /\ cache.state = "resumed"
    /\ readers[r].queue # <<>>
    /\ Needs(r) = 0 \/ IsCached(Needs(r))

(* A subdirectory becomes an object with a handle of its own.              *)
VisitDirectory(r) ==
    /\ Ready(r) /\ Item(r).kind = "directory"
    /\ readers' = [readers EXCEPT
          ![r].got = Append(@, <<"directory", DirectoryListing(Item(r).at)>>),
          ![r].queue = Tail(@) \o Below(Item(r).at)]
    /\ UNCHANGED <<publisherVars, busGeneration, cache>>

(* Data and texts are put behind a handle, to be fetched by a second call. *)
VisitLeaf(r) ==
    /\ Ready(r) /\ Item(r).kind = "leaf"
    /\ readers' = [readers EXCEPT ![r].handle = <<"leaf", LeafData(Item(r).at)>>,
                                  ![r].queue = Tail(@)]
    /\ UNCHANGED <<publisherVars, busGeneration, cache>>

VisitText(r) ==
    /\ Ready(r) /\ Item(r).kind = "text"
    /\ readers' = [readers EXCEPT ![r].handle = <<"text", TextData(Item(r).at)>>,
                                  ![r].queue = Tail(@)]
    /\ UNCHANGED <<publisherVars, busGeneration, cache>>

(* getKeyValue: the text is optional for the kernel; the library fetches   *)
(* it whether there is one or not.                                         *)
LookUp(r) ==
    /\ Ready(r) /\ Item(r).kind = "lookup"
    /\ LET i == FindIndex(RootOffset, Item(r).key)
           value == <<"value", IndexEntry(RootOffset, i).v, <<>>>>
       IN readers' = [readers EXCEPT
              ![r].queue = Tail(@),
              ![r].handle = IF i # 0 /\ Item(r).text /\ TextIndex(Item(r).key) # 0
                            THEN [value EXCEPT ![3] = TextData(Needs(r))] ELSE Nothing,
              ![r].got = IF i = 0 THEN Append(@, <<"noEntry">>)
                         ELSE IF ~Item(r).text THEN Append(@, value)
                         ELSE IF TextIndex(Item(r).key) = 0 THEN Append(@, <<"badArgument">>)
                         ELSE @]
    /\ UNCHANGED <<publisherVars, busGeneration, cache>>

(* The library copies what the handle stands for and gives the handle up.  *)
Fetch(r) ==
    /\ readers' = [readers EXCEPT ![r].got = Append(@, readers[r].handle), ![r].handle = Nothing]
    /\ UNCHANGED <<publisherVars, busGeneration, cache>>
FetchData(r) == readers[r].handle # Nothing /\ readers[r].handle[1] = "leaf" /\ Fetch(r)
FetchText(r) == readers[r].handle # Nothing /\ readers[r].handle[1] # "leaf" /\ Fetch(r)

EndReading(r) ==
    /\ Reading(r) /\ readers[r].queue = <<>>
    /\ readers' = [readers EXCEPT ![r].pc = "done"]
    /\ UNCHANGED <<publisherVars, busGeneration, cache>>

(* Every call checks the state of the ROM first.                           *)
ReadingFails(r) ==
    /\ Reading(r) /\ readers[r].queue # <<>>
    /\ ~CurrentCache(r) \/ cache.state = "invalid"
    /\ readers' = [readers EXCEPT ![r].pc = "failed", ![r].queue = <<>>, ![r].got = <<>>]
    /\ UNCHANGED <<publisherVars, busGeneration, cache>>

-----------------------------------------------------------------------------
FirstRoot == <<ImmediateEntry(GenerationKey, 1), ImmediateEntry(VendorKey, 5), TextEntry(<<3>>)>>

ROMInit ==
    /\ entries = [d \in Dirs |-> IF d = RootDir THEN FirstRoot ELSE <<>>]
    /\ generation = 2 /\ compiling = NoUpdate
    /\ served = <<BIB(2)>> \o CompiledHead(FirstRoot) \o CompiledRest(FirstRoot)
    /\ reference = Tree
    /\ published = [u \in Units |-> FALSE]
    /\ gone = FALSE /\ cleaned = {}
    /\ updates = [sinceScan |-> 0, all |-> 0]
    /\ resetAsked = FALSE /\ busGeneration = 1
    /\ cache = [words |-> <<served[1]>>, state |-> "resumed", generation |-> 1, epoch |-> 1]
    /\ readers = [r \in Readers |-> [pc |-> "idle", epoch |-> 0, queue |-> <<>>, got |-> <<>>,
                                     block |-> NoBlock, handle |-> Nothing]]

ReaderStep(r) ==
    \/ StartReading(r) \/ ReadBlock(r) \/ AppendBlock(r) \/ VisitDirectory(r) \/ VisitLeaf(r)
    \/ VisitText(r) \/ LookUp(r) \/ FetchData(r) \/ FetchText(r) \/ EndReading(r)
    \/ ReadingFails(r)

ROMNext ==
    \/ \E u \in Units : \/ Publish(u) \/ Unpublish(u) \/ ExporterCleanup(u)
                         \/ \E new \in NewEntries : AddEntry(u, new)
    \/ \E success \in BOOLEAN : FinishUpdate(success)
    \/ WakeUpdate \/ ClientEnds
    \/ BusReset \/ SuspendROM \/ SetNodeROM
    \/ \E r \in Readers : ReaderStep(r)

(* Updates end, a reset that was asked for comes, devices are scanned and  *)
(* readers read on.                                                        *)
ROMFairness ==
    /\ WF_romVars(FinishUpdate(TRUE)) /\ WF_romVars(resetAsked /\ BusReset)
    /\ WF_romVars(SuspendROM) /\ WF_romVars(SetNodeROM)
    /\ \A r \in Readers : WF_romVars(ReaderStep(r))

ROMSpec == ROMInit /\ [][ROMNext]_romVars /\ ROMFairness

-----------------------------------------------------------------------------
(* The bus and the reading device have caught up with the last update.     *)
Settled == cache.state = "resumed" /\ cache.generation = busGeneration /\ ~resetAsked

(* A cache that a scan found unchanged holds the beginning of the ROM that *)
(* is served, not words of two ROMs (hasROMChanged, updateROMCache).       *)
CacheIsPublished == Settled => IsPrefix(cache.words, served)

(* What a client read out of a ROM that is still good is the tree that was *)
(* published, entry for entry (IOLocalConfigDirectory::compile against     *)
(* IOConfigDirectory's parsing of its words).                              *)
TreesAreWhole ==
    Settled => \A r \in Readers : readers[r].pc = "done" /\ CurrentCache(r)
                                    => readers[r].got = reference

(* The root directory has a unit directory at most once, and none that the *)
(* library takes for unpublished or whose user client cleaned up, outside  *)
(* of updates (AddUnitDirectory, RemoveUnitDirectory, mPublished).         *)
UnitDirectoriesLeave ==
    compiling = NoUpdate =>
        \A u \in Units :
            LET there == SelectSeq(entries[RootDir], LAMBDA e : HasUnit(e, u))
            IN /\ Len(there) <= 1
               /\ ~published[u] \/ u \in cleaned => there = <<>>

(* The three together.                                                     *)
ROMsAreSound == CacheIsPublished /\ TreesAreWhole /\ UnitDirectoriesLeave

(* Every reader has in the end read the tree that was published last.      *)
CaughtUp == \A r \in Readers : readers[r].pc = "done" /\ readers[r].got = reference
ReadersCatchUp == <>[]CaughtUp
=============================================================================
