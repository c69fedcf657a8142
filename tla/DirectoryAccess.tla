---------------------------- MODULE DirectoryAccess ----------------------------
(***************************************************************************)
(* Reading a configuration ROM through the library: each directory that a  *)
(* client has stands for one in the kernel, known by its handle; what it   *)
(* is asked for is exported under new handles by one call and fetched, or  *)
(* kept, by the next ones.  Several threads read at once.                  *)
(*                                                                         *)
(* Abstracted: what the ROM holds (module ConfigROM); an entry may be      *)
(* there or not, and a descriptor follows it or not.  Calls that export    *)
(* nothing are numbers asked for without text.  A client releases no       *)
(* directory that one of its threads is using.                             *)
(***************************************************************************)
EXTENDS UserObjectExporter

CONSTANTS
    ReaderThreads,      \* threads of the client
    CallsOf             \* BOUND: what each of them asks for

VARIABLES
    fObjects,       \* the table of handles
    directories,    \* the library's ConfigDirectory objects
    reading,        \* what each thread is doing
    iterators,      \* handles of iterators, which the client got as io_iterator_t
    mishaps         \* HISTORY: calls that went wrong half-way

accessVars == <<fObjects, directories, reading, iterators, mishaps>>

Resting == [pc |-> "idle", call |-> "none", wantText |-> FALSE, dir |-> 0,
            text |-> 0, value |-> 0, steps |-> <<>>, gotText |-> "none", gotValue |-> "none"]

AccessInit ==
    /\ fObjects = EmptyExporter
    /\ directories = {}
    /\ reading = [t \in ReaderThreads |-> Resting]
    /\ iterators = {}
    /\ mishaps = {}

(* The call fails: what it has exported and not fetched stays exported     *)
Fails(t) == reading' = [reading EXCEPT ![t] = Resting]
GoesWrong(t) == Fails(t) /\ mishaps' = mishaps \cup {"halfway"}
-----------------------------------------------------------------------------
(* Directories                                                             *)

(* Every object in the table is made for one call: that of the thread "of" *)
Exportable(class, t) == [class |-> class, of |-> t]

NewDirectory(handle, t) ==
    directories' = directories \cup {[handle |-> handle, of |-> t]}

(* configDirectory_Create, for the directory at the root                   *)
CreateRoot(t) ==
    /\ reading[t].pc = "idle"
    /\ NewHandle(fObjects) # 0
    /\ fObjects' = addObject(fObjects, Exportable("directory", t))
    /\ NewDirectory(NewHandle(fObjects), t)
    /\ UNCHANGED <<reading, iterators, mishaps>>

(* ~ConfigDirectory, with the last reference to it                         *)
ReleaseDirectory(t, d) ==
    /\ reading[t].pc = "idle"
    /\ d \in directories
    /\ \A u \in ReaderThreads : reading[u].dir # d.handle
    /\ fObjects' = removeObject(fObjects, d.handle)
    /\ directories' = directories \ {d}
    /\ UNCHANGED <<reading, iterators, mishaps>>
-----------------------------------------------------------------------------
(* In the kernel                                                           *)

(* "number" is every call with a value that is no object                   *)
DirectoryCalls == {"number", "data", "directory", "string", "iterator"}

ASSUME CallsAssumption == CallsOf \in [ReaderThreads -> SUBSET DirectoryCalls]

(* Text goes into the table before the value                               *)
Exports(call, hasText) ==
    (IF hasText THEN <<"text">> ELSE <<>>)
    \o (CASE call = "number" -> <<>>
          [] call = "string" -> <<"text">>
          [] OTHER -> <<call>>)

IsOf(object, class) == object # NoObject /\ object.class = class

(* The textual descriptor is optional                                      *)
TextMayFollow(wantText) == IF wantText THEN BOOLEAN ELSE {FALSE}

(* Every call looks the handle up, and at the class of what it finds       *)
HandleIsGood(d) == IsOf(lookupObject(fObjects, d.handle), "directory")

(* The entry is there: else nothing happens                                *)
AskFor(t, d, call, wantText) ==
    /\ reading[t].pc = "idle"
    /\ d \in directories /\ HandleIsGood(d)
    /\ wantText => call \in {"number", "data", "directory"}
    /\ \E hasText \in TextMayFollow(wantText) :
          reading' = [reading EXCEPT ![t] = [Resting EXCEPT
              !.pc = "exports", !.call = call, !.wantText = wantText,
              !.dir = d.handle, !.steps = Exports(call, hasText)]]
    /\ UNCHANGED <<fObjects, directories, iterators, mishaps>>

ExportResult(t) ==
    LET r == reading[t]
        handle == NewHandle(fObjects)
    IN  /\ r.pc = "exports" /\ r.steps # <<>>
        /\ IF handle = 0
           THEN /\ IF r.text = 0 THEN Fails(t) /\ UNCHANGED mishaps ELSE GoesWrong(t)
                /\ UNCHANGED fObjects
           ELSE /\ fObjects' = addObject(fObjects, Exportable(Head(r.steps), t))
                /\ reading' = [reading EXCEPT
                       ![t].steps = Tail(@),
                       ![t].text = IF Head(r.steps) = "text" THEN handle ELSE @,
                       ![t].value = IF Head(r.steps) = "text" THEN @ ELSE handle]
                /\ UNCHANGED mishaps
        /\ UNCHANGED <<directories, iterators>>
-----------------------------------------------------------------------------
(* In the library                                                          *)

(* A directory gets its object before its text is fetched                  *)
Fetches(call, wantText) ==
    LET text == IF wantText \/ call = "string" THEN <<"text">> ELSE <<>>
    IN  CASE call \in {"number", "string"} -> text
          [] call = "data" -> text \o <<"data">>
          [] OTHER -> <<call>> \o text

(* The kernel does not set the handle of a text there is not: it is what   *)
(* was on the stack, and the library uses it                               *)
Answered(t) ==
    LET r == reading[t]
        textless == r.wantText /\ r.text = 0
    IN  /\ r.pc = "exports" /\ r.steps = <<>>
        /\ \E handle \in (IF textless THEN {0} \cup DOMAIN fObjects ELSE {r.text}) :
              reading' = [reading EXCEPT ![t].pc = "fetches", ![t].text = handle,
                                         ![t].steps = Fetches(r.call, r.wantText)]
        /\ mishaps' = IF textless THEN mishaps \cup {"textless"} ELSE mishaps
        /\ UNCHANGED <<fObjects, directories, iterators>>

Fetching(t, what) == reading[t].pc = "fetches" /\ reading[t].steps # <<>>
                  /\ Head(reading[t].steps) = what

AnyObject(object, class) == object # NoObject                      \* mutant

(* getOSStringData and getOSDataData look at the object's class            *)
MayFetch(object, class) == IsOf(object, class)

(* copyToUserBuffer, into memory of the client                             *)
Copied == {"copied", "notCopied"}

TakeText(t) ==
    LET r == reading[t]
        object == lookupObject(fObjects, r.text)
    IN  /\ Fetching(t, "text")
        /\ IF MayFetch(object, "text")
           THEN /\ fObjects' = removeObject(fObjects, r.text)
                /\ \E outcome \in Copied :
                      IF outcome = "copied"
                      THEN /\ reading' = [reading EXCEPT ![t].steps = Tail(@), ![t].text = 0,
                                                         ![t].gotText = object.of]
                           /\ UNCHANGED mishaps
                      ELSE GoesWrong(t)
           ELSE Fails(t) /\ UNCHANGED <<fObjects, mishaps>>
        /\ UNCHANGED <<directories, iterators>>

TakeData(t) ==
    LET r == reading[t]
        object == lookupObject(fObjects, r.value)
    IN  /\ Fetching(t, "data")
        /\ IF MayFetch(object, "data")
           THEN /\ fObjects' = removeObject(fObjects, r.value)
                /\ \E outcome \in Copied :
                      IF outcome = "copied"
                      THEN reading' = [reading EXCEPT ![t].steps = Tail(@), ![t].value = 0,
                                                      ![t].gotValue = object.of]
                      ELSE Fails(t)
           ELSE Fails(t) /\ UNCHANGED fObjects
        /\ UNCHANGED <<directories, iterators, mishaps>>

MakeDirectory(t) ==
    LET r == reading[t]
    IN  /\ Fetching(t, "directory")
        /\ NewDirectory(r.value, t)
        /\ reading' = [reading EXCEPT ![t].steps = Tail(@), ![t].value = 0, ![t].gotValue = t]
        /\ UNCHANGED <<fObjects, iterators, mishaps>>

(* There is no memory for it, or it has not the interface that is asked    *)
(* for: then its destructor releases the handle                            *)
MakesNone(t) ==
    LET r == reading[t]
    IN  /\ Fetching(t, "directory")
        /\ \/ GoesWrong(t) /\ UNCHANGED fObjects
           \/ /\ fObjects' = removeObject(fObjects, r.value)
              /\ IF r.text = 0 THEN Fails(t) /\ UNCHANGED mishaps ELSE GoesWrong(t)
        /\ UNCHANGED <<directories, iterators>>

(* GetSubdirectories gives the handle away                                 *)
KeepIterator(t) ==
    LET r == reading[t]
    IN  /\ Fetching(t, "iterator")
        /\ iterators' = iterators \cup {r.value}
        /\ reading' = [reading EXCEPT ![t].steps = Tail(@), ![t].value = 0, ![t].gotValue = t]
        /\ UNCHANGED <<fObjects, directories, mishaps>>

HasAll(t) == reading[t].pc = "fetches" /\ reading[t].steps = <<>>

AnswersClient(t) ==
    /\ HasAll(t)
    /\ reading' = [reading EXCEPT ![t] = Resting]
    /\ UNCHANGED <<fObjects, directories, iterators, mishaps>>
-----------------------------------------------------------------------------
AccessNext ==
    \E t \in ReaderThreads :
        \/ CreateRoot(t)
        \/ \E d \in directories :
              \/ ReleaseDirectory(t, d)
              \/ \E call \in CallsOf[t], wantText \in BOOLEAN : AskFor(t, d, call, wantText)
        \/ ExportResult(t) \/ Answered(t)
        \/ TakeText(t) \/ TakeData(t) \/ MakeDirectory(t) \/ MakesNone(t) \/ KeepIterator(t)
        \/ AnswersClient(t)

AccessSpec == AccessInit /\ [][AccessNext]_accessVars
-----------------------------------------------------------------------------
(* Properties                                                              *)

AccessTypeOK ==
    /\ DOMAIN fObjects \subseteq 1 .. MaxCapacity
    /\ iterators \subseteq DOMAIN fObjects
    /\ \A t \in ReaderThreads :
          /\ reading[t].pc \in {"idle", "exports", "fetches"}
          /\ {reading[t].text, reading[t].value} \subseteq {0} \cup DOMAIN fObjects

(* A directory of the library stands for the same one in the kernel until  *)
(* it is released, whatever else is exported, fetched or mistaken for a    *)
(* text meanwhile: nobody else has its handle (getOSStringData)            *)
DirectoriesStay ==
    /\ \A d \in directories :
          /\ lookupObject(fObjects, d.handle) = Exportable("directory", d.of)
          /\ d.handle \notin iterators
          /\ \A e \in directories : d.handle = e.handle => d = e
    /\ \A t \in ReaderThreads :
          reading[t].pc # "idle" => \E d \in directories : d.handle = reading[t].dir

(* Nothing stays in the table that nobody will take out of it, but where a *)
(* call has gone wrong half-way (CreateCFDataWithOSDataRef)                *)
NothingIsLost ==
    mishaps = {} =>
        \A h \in DOMAIN fObjects : fObjects[h] # NoObject =>
            \/ h \in iterators
            \/ \E d \in directories : d.handle = h
            \/ \E t \in ReaderThreads : h \in {reading[t].text, reading[t].value}

(* A call that succeeds has the value and the text of what it asked for,   *)
(* however many read at once (CreateCFStringWithOSStringRef)               *)
AnswersAreTheirs ==
    \A t \in ReaderThreads : HasAll(t) /\ "textless" \notin mishaps =>
        LET r == reading[t]
        IN  /\ r.wantText \/ r.call = "string" => r.gotText = t
            /\ r.call \in {"data", "directory", "iterator"} => r.gotValue = t

DirectoriesAreSound ==
    AccessTypeOK /\ DirectoriesStay /\ NothingIsLost /\ AnswersAreTheirs
=============================================================================
