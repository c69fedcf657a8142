----------------------------- MODULE UserClient -----------------------------
(***************************************************************************)
(* The user clients of one nub: the connections by which processes open    *)
(* the nub for themselves, share or seize it, and make, call and release   *)
(* kernel objects.  The calls of a client's threads are not serialised:    *)
(* the table of handles has a lock, and references keep the objects.  A    *)
(* client that is closed, died or was seized is terminated, and goes when  *)
(* nobody needs it any more.                                               *)
(***************************************************************************)
EXTENDS UserObjectExporter, FiniteSets

CONSTANTS
    Clients, Threads,
    Objects,     \* the objects that may be made, numbered in that order
    Maker,       \* the client that makes objects here
    NoClient,
    OtherNub,    \* any client of another nub: the sessions have one table
    Applications, \* what the applications of one behaviour do
    ClientRaces  \* what an application may do although it should not

(* Open and share the nub, seize it, make objects.                         *)
ApplicationDoes == {"open", "seize", "make"}

(* Release an object while it is called by its handle, or copied out; open *)
(* a nub again after the client was seized.                                *)
AllClientRaces == {"callDuringRelease", "reopen"}

UserClientAssumption ==
    /\ IsFiniteSet(Threads)
    /\ Maker \in Clients
    /\ Objects \subseteq Nat
    /\ {NoClient, OtherNub} \cap Clients = {} /\ NoClient # OtherNub
    /\ NoObject \notin Objects \cup Clients \cup {OtherNub}
    /\ Applications \subseteq SUBSET ApplicationDoes
    /\ ClientRaces \subseteq AllClientRaces
ASSUME UserClientAssumption

VARIABLES
    application,  \* what the applications do
    client,       \* each connection, with mIsOpen of the library's Device
    opener,       \* the client that has the nub open
    sessions,     \* the controller's table of session references
    unclosable,   \* history: those that cannot close what they opened
    fExporter,    \* the table of each client
    obj,          \* each object and its references
    unreleasable, \* history: physical spaces that found the table full
    raced,        \* history: objects whose handle went while it was used
    call          \* what each thread does in the kernel

nubVars == <<application, client, opener, sessions, unclosable>>
tables == <<fExporter, obj, unreleasable, raced>>
clientVars == <<nubVars, tables, call>>

(* An address space is reached by the bus once it is made, a listener or a *)
(* directory once it is activated; a string is copied out once.            *)
ObjectKinds == {"space", "physical", "listener", "data"}

InUserSpace == [op |-> "none", client |-> NoClient, obj |-> NoObject, handle |-> 0]

(* "step" is how far an open or a close of the client is, "found" whom a   *)
(* session reference named.                                                *)
NotOpened(state, connected) ==
    [state |-> state, connected |-> connected, mIsOpen |-> FALSE,
     fOpenClient |-> NoClient, fSelfOpenCount |-> 0, fSessionRef |-> 0,
     step |-> "none", found |-> NoClient]

ClientInit ==
    /\ application \in Applications
    /\ client = [c \in Clients |-> NotOpened("started", TRUE)]
    /\ opener = NoClient
    /\ sessions = EmptyExporter
    /\ unclosable = {}
    /\ fExporter = [c \in Clients |-> EmptyExporter]
    /\ obj = [o \in Objects |-> [state |-> "unmade", kind |-> "data",
                             refs |-> 0, active |-> FALSE]]
    /\ unreleasable = {} /\ raced = {}
    /\ call = [t \in Threads |-> InUserSpace]

(* The application calls through a connection it has, from a thread that   *)
(* is not in the kernel.                                                   *)
MayCall(t, c) == call[t] = InUserSpace /\ client[c].connected

Enters(t, op, c, o, h) ==
    call' = [call EXCEPT ![t] = [op |-> op, client |-> c, obj |-> o, handle |-> h]]
Leaves(t) == call' = [call EXCEPT ![t] = InUserSpace]

-----------------------------------------------------------------------------
(* Opening and closing the nub, without a lock but the table's.  A process *)
(* opens and closes a connection from one thread; its other threads and    *)
(* other clients come in between.  A client's fields are read by its own   *)
(* opens and closes alone.                                                 *)

Idle(c) == client[c].step = "none"

(* An application that was told to close does not open again.              *)
MayOpenNub(c) == /\ "open" \in application
                 /\ client[c].connected /\ ~client[c].mIsOpen /\ Idle(c)
                 /\ client[c].state = "started" \/ "reopen" \in ClientRaces

(* A client that I/O Kit has stopped has no provider: its close does       *)
(* nothing.                                                                *)
userOpen(c) ==
    /\ MayOpenNub(c) /\ opener = NoClient
    /\ opener' = c
    /\ unclosable' = IF client[c].state = "stopped" THEN unclosable \cup {c}
                                                    ELSE unclosable
    /\ client' = [client EXCEPT ![c].step = "opened"]
    /\ UNCHANGED <<application, sessions, tables, call>>

(* Without a free slot the call fails, and the nub stays open.             *)
AddsSession(c) ==
    LET ref == NewHandle(sessions)
    IN  /\ client[c].step = "opened"
        /\ sessions' = addObject(sessions, c)
        /\ IF ref = 0
           THEN /\ client' = [client EXCEPT ![c].step = "none"]
                /\ unclosable' = unclosable \cup {c}
           ELSE /\ client' = [client EXCEPT ![c].step = "listed", ![c].fSessionRef = ref]
                /\ UNCHANGED unclosable
        /\ UNCHANGED <<application, opener, tables, call>>

KnowsItIsOpen(c) ==
    /\ client[c].step = "listed"
    /\ client' = [client EXCEPT ![c].step = "none", ![c].mIsOpen = TRUE,
                               ![c].fSelfOpenCount = 1, ![c].fOpenClient = c]
    /\ UNCHANGED <<application, opener, sessions, unclosable, tables, call>>

(* The client whose session it is is kept while it is asked for the nub.   *)
userOpenWithSessionRef(c, sessionRef) ==
    /\ MayOpenNub(c)
    /\ opener # NoClient /\ lookupObject(sessions, sessionRef) # NoObject
    /\ client' = [client EXCEPT ![c].step = "found",
                               ![c].found = lookupObject(sessions, sessionRef)]
    /\ UNCHANGED <<application, opener, sessions, unclosable, tables, call>>

(* It need not have the nub above it, or not any more: the library takes   *)
(* the call for a success all the same.                                    *)
SharesOpen(c) ==
    LET openClient == client[c].found
        met == openClient \in Clients /\ client[openClient].state # "stopped"
    IN  /\ client[c].step = "found"
        /\ client' = [client EXCEPT
              ![c].step = "none", ![c].found = NoClient, ![c].mIsOpen = TRUE,
              ![c].fOpenClient = IF met THEN openClient ELSE @,
              ![c].fSelfOpenCount = IF met /\ openClient = c THEN @ + 1 ELSE @]
        /\ UNCHANGED <<application, opener, sessions, unclosable, tables, call>>

(* getProvider() is NULL once the client was stopped.                      *)
HasNub(c) == client[c].state # "stopped" /\ client[c].fOpenClient = c /\ opener = c

Terminated(state) == IF state = "started" THEN "inactive" ELSE state

(* The library's Close returns, or clientClose goes on to terminate.       *)
Returned(r) == [r EXCEPT !.step = "none", !.mIsOpen = FALSE,
                         !.state = IF r.connected THEN @ ELSE Terminated(@)]

(* Only the last close of a client closes the nub.                         *)
Closes(c, r) ==
    client' = [client EXCEPT ![c] =
        IF ~HasNub(c) \/ r.fSelfOpenCount = 0 THEN Returned(r)
        ELSE IF r.fSelfOpenCount > 1
             THEN Returned([r EXCEPT !.fSelfOpenCount = @ - 1])
             ELSE [r EXCEPT !.fSelfOpenCount = 0, !.step = "closing"]]

userClose(c) ==
    /\ client[c].connected /\ client[c].mIsOpen /\ Idle(c)
    /\ Closes(c, client[c])
    /\ UNCHANGED <<application, opener, sessions, unclosable, tables, call>>

LeavesItOpen(c) ==                                                \* mutant
    /\ client[c].connected /\ Idle(c)
    /\ client' = [client EXCEPT ![c] = Returned([@ EXCEPT !.connected = FALSE])]
    /\ UNCHANGED <<application, opener, sessions, unclosable, tables, call>>

(* IOServiceClose, or the process died: clientDied also resets the bus.    *)
clientClose(c) ==
    /\ client[c].connected /\ Idle(c)
    /\ Closes(c, [client[c] EXCEPT !.connected = FALSE])
    /\ UNCHANGED <<application, opener, sessions, unclosable, tables, call>>

ForgetsSession(c) ==                                              \* mutant
    /\ client[c].step = "closing"
    /\ client' = [client EXCEPT ![c].step = "unlisted"]
    /\ UNCHANGED <<application, opener, sessions, unclosable, tables, call>>

EndsSession(c) ==
    /\ client[c].step = "closing"
    /\ sessions' = removeObject(sessions, client[c].fSessionRef)
    /\ client' = [client EXCEPT ![c].step = "unlisted", ![c].fSessionRef = 0]
    /\ UNCHANGED <<application, opener, unclosable, tables, call>>

ClosesNub(c) ==
    /\ client[c].step = "unlisted"
    /\ opener' = NoClient
    /\ client' = [client EXCEPT ![c].step = "closed"]
    /\ UNCHANGED <<application, sessions, unclosable, tables, call>>

ForgetsOpen(c) ==
    /\ client[c].step = "closed"
    /\ client' = [client EXCEPT ![c] = Returned([@ EXCEPT !.fOpenClient = NoClient])]
    /\ UNCHANGED <<application, opener, sessions, unclosable, tables, call>>

(* Clients of other nubs open and close theirs.                            *)
OtherOpens ==
    /\ "open" \in application /\ NewHandle(sessions) # 0
    /\ sessions' = addObject(sessions, OtherNub)
    /\ UNCHANGED <<application, client, opener, unclosable, tables, call>>

OtherCloses ==
    /\ \E ref \in Handles(sessions, OtherNub) : sessions' = removeObject(sessions, ref)
    /\ UNCHANGED <<application, client, opener, unclosable, tables, call>>

(* All clients but this one are told that the nub is gone: those that have *)
(* it open, and if it is still open after that everyone.                   *)
TerminateAll(cs) ==
    client' = [c \in Clients |->
        IF c \in cs THEN [client[c] EXCEPT !.state = Terminated(@)] ELSE client[c]]

seize(t, c) ==
    /\ "seize" \in application /\ MayCall(t, c) /\ ~client[c].mIsOpen
    /\ opener # NoClient
    /\ TerminateAll({opener} \ {c})
    /\ Enters(t, "seizing", c, NoObject, 0)
    /\ UNCHANGED <<application, opener, sessions, unclosable, tables>>

SeizedFromAll(t) ==
    /\ call[t].op = "seizing"
    /\ TerminateAll(IF opener = NoClient THEN {} ELSE Clients \ {call[t].client})
    /\ Leaves(t)
    /\ UNCHANGED <<application, opener, sessions, unclosable, tables>>

-----------------------------------------------------------------------------
(* The kernel objects of a client.                                         *)

Retain(o, n) == [obj[o] EXCEPT !.refs = @ + n]

(* A cleanup takes an address space, listener or directory out of the      *)
(* controller's set, which holds a reference to it.                        *)
Deactivated(r) == IF r.active THEN [r EXCEPT !.active = FALSE, !.refs = @ - 1] ELSE r

Freed == [state |-> "freed", kind |-> "data", refs |-> 0, active |-> FALSE]

Dropped(r) == IF r.refs = 1 THEN [Freed EXCEPT !.active = r.active]
               ELSE [r EXCEPT !.refs = @ - 1]

Activated(r) == IF r.active THEN r ELSE [r EXCEPT !.active = TRUE, !.refs = @ + 1]

(* Address spaces are activated before they are exported.                  *)
IsSpace(kind) == kind \in {"space", "physical"}

Create(t, c, o) ==
    /\ "make" \in application /\ MayCall(t, c) /\ c = Maker
    /\ obj[o].state = "unmade" /\ \A p \in Objects : p < o => obj[p].state # "unmade"
    /\ \E kind \in ObjectKinds : obj' = [obj EXCEPT ![o] =
          [state |-> "made", kind |-> kind, active |-> IsSpace(kind),
           refs |-> IF IsSpace(kind) THEN 2 ELSE 1]]
    /\ Enters(t, "adding", c, o, 0)
    /\ UNCHANGED <<nubVars, fExporter, unreleasable, raced>>

(* A space that finds the table full is deactivated, a physical one not.   *)
Export(t) ==
    LET c == call[t].client
        o == call[t].obj
        full == NewHandle(fExporter[c]) = 0
        physical == obj[o].kind = "physical"
    IN  /\ call[t].op = "adding"
        /\ fExporter' = [fExporter EXCEPT ![c] = addObject(@, o)]
        /\ obj' = [obj EXCEPT ![o] = IF ~full THEN @    \* retained, then released
                                     ELSE IF physical THEN Dropped(@)
                                     ELSE Dropped(Deactivated(@))]
        /\ unreleasable' = IF full /\ physical THEN unreleasable \cup {o}
                                               ELSE unreleasable
        /\ Leaves(t)
        /\ UNCHANGED <<nubVars, raced>>

ObjectOf(c, handle) == lookupObject(fExporter[c], handle)

IsTarget(o) == o # NoObject /\ obj[o].kind # "data"

ByHandle == {"dispatched", "activate", "deactivate"}

(* What an application sees to: nobody calls an object by its handle, or   *)
(* copies it out, while it is released.                                    *)
InUse(o) == \E t \in Threads :
    call[t].op \in ByHandle \cup {"copying"} /\ call[t].obj = o

TakesHandle(o) ==
    /\ InUse(o) => "callDuringRelease" \in ClientRaces
    /\ raced' = IF InUse(o) THEN raced \cup {o} ELSE raced

(* A method finds its object and keeps it until it returns.  If the object *)
(* is the target of the call itself, it is released before the call.       *)
KeepsObject(t, c, h) ==
    /\ obj' = [obj EXCEPT ![ObjectOf(c, h)] = Retain(ObjectOf(c, h), 1)]
    /\ Enters(t, "calling", c, ObjectOf(c, h), h)

CallMethod(t, c, handle) ==
    /\ MayCall(t, c) /\ IsTarget(ObjectOf(c, handle))
    /\ KeepsObject(t, c, handle)
    /\ UNCHANGED <<nubVars, fExporter, unreleasable, raced>>

(* Calls by handle: those that make a listener active or inactive, or      *)
(* leave it as it is.                                                      *)
externalMethod(t, c, handle) ==
    LET o == ObjectOf(c, handle)
    IN  /\ MayCall(t, c) /\ IsTarget(o)
        /\ \E op \in {"dispatched"} \cup
                      (IF obj[o].kind = "listener" THEN {"activate", "deactivate"} ELSE {}) :
              Enters(t, op, c, o, handle)
        /\ UNCHANGED <<nubVars, tables>>

Return(t) ==
    LET o == call[t].obj
    IN  /\ call[t].op \in {"calling"} \cup ByHandle
        /\ obj' = [obj EXCEPT ![o] =
               CASE call[t].op = "calling" -> Dropped(@)
                 [] call[t].op = "activate" -> Activated(@)
                 [] call[t].op = "deactivate" -> Deactivated(@)
                 [] OTHER -> @]
        /\ Leaves(t)
        /\ UNCHANGED <<nubVars, fExporter, unreleasable, raced>>

(* Data are removed when they have been copied out, by their handle.       *)
getOSStringData(t, c, handle) ==
    LET o == ObjectOf(c, handle)
    IN  /\ MayCall(t, c) /\ o # NoObject /\ obj[o].kind = "data" /\ TakesHandle(o)
        /\ obj' = [obj EXCEPT ![o] = Retain(o, 1)]
        /\ Enters(t, "copying", c, o, handle)
        /\ UNCHANGED <<nubVars, fExporter, unreleasable>>

Copied(t) ==
    LET c == call[t].client
        removed == ObjectOf(c, call[t].handle)
    IN  /\ call[t].op = "copying"
        /\ fExporter' = [fExporter EXCEPT ![c] = removeObject(@, call[t].handle)]
        /\ obj' = [o \in Objects |->
               LET left == IF o = call[t].obj THEN Dropped(obj[o]) ELSE obj[o]
               IN  IF o = removed THEN Dropped(Deactivated(left)) ELSE left]
        /\ raced' = raced \cup ({removed} \ {NoObject, call[t].obj})
        /\ Leaves(t)
        /\ UNCHANGED <<nubVars, unreleasable>>

(* The slot is free, and may be taken again, before the object is cleaned  *)
(* up.                                                                     *)
releaseUserObject(t, c, handle) ==
    LET o == ObjectOf(c, handle)
    IN  /\ MayCall(t, c) /\ o # NoObject
        /\ TakesHandle(o)
        /\ fExporter' = [fExporter EXCEPT ![c] = removeObject(@, handle)]
        /\ Enters(t, "removing", c, o, handle)
        /\ UNCHANGED <<nubVars, obj, unreleasable>>

CleanedUp(t) ==
    /\ call[t].op = "removing"
    /\ obj' = [obj EXCEPT ![call[t].obj] = Dropped(Deactivated(@))]
    /\ Leaves(t)
    /\ UNCHANGED <<nubVars, fExporter, unreleasable, raced>>

-----------------------------------------------------------------------------
(* The end of a client: I/O Kit stops it when it does not have the nub     *)
(* open, and frees it when nobody holds it any more.                       *)

Stop(c) ==
    /\ client[c].state = "inactive" /\ opener # c
    /\ client' = [client EXCEPT ![c].state = "stopped"]
    /\ UNCHANGED <<application, opener, sessions, unclosable, tables, call>>

Unreferenced(c) == /\ ~client[c].connected /\ Idle(c)
                   /\ Handles(sessions, c) = {}
                   /\ \A d \in Clients : client[d].found # c
                   /\ \A t \in Threads : call[t].client # c

removeAllObjects(c) ==
    /\ obj' = [o \in Objects |-> IF o \in Exported(fExporter[c])
                                 THEN Dropped(Deactivated(obj[o])) ELSE obj[o]]
    /\ fExporter' = [fExporter EXCEPT ![c] = EmptyExporter]

freeClient(c) ==
    /\ client[c].state = "stopped" /\ Unreferenced(c)
    /\ client' = [client EXCEPT ![c] = NotOpened("freed", FALSE)]
    /\ removeAllObjects(c)
    /\ UNCHANGED <<application, opener, sessions, unclosable, unreleasable, raced, call>>

-----------------------------------------------------------------------------
(* The handles an application may use.                                     *)
AllHandles == 1..MaxCapacity

Proceeds(c) == \/ AddsSession(c) \/ KnowsItIsOpen(c) \/ SharesOpen(c)
               \/ EndsSession(c) \/ ClosesNub(c) \/ ForgetsOpen(c)

Opening(c) == \/ userOpen(c) \/ userClose(c) \/ clientClose(c)
              \/ \E ref \in AllHandles : userOpenWithSessionRef(c, ref)

Calling(t, c) == \/ seize(t, c)
                 \/ \E o \in Objects : Create(t, c, o)
                 \/ \E h \in AllHandles :
                        \/ CallMethod(t, c, h) \/ externalMethod(t, c, h)
                        \/ releaseUserObject(t, c, h) \/ getOSStringData(t, c, h)

Goes(t) == \/ SeizedFromAll(t) \/ Export(t) \/ Return(t) \/ Copied(t)
           \/ CleanedUp(t)

ClientNext ==
    \/ OtherOpens \/ OtherCloses
    \/ \E c \in Clients : Opening(c) \/ Proceeds(c) \/ Stop(c) \/ freeClient(c)
    \/ \E t \in Threads : Goes(t) \/ \E c \in Clients : Calling(t, c)

(* Threads in the kernel come back and I/O Kit goes on with terminations;  *)
(* no application need do anything.                                        *)
ClientFairness ==
    /\ \A t \in Threads : WF_clientVars(Goes(t))
    /\ \A c \in Clients : /\ WF_clientVars(Proceeds(c))
                          /\ WF_clientVars(Stop(c)) /\ WF_clientVars(freeClient(c))

ClientSpec == ClientInit /\ [][ClientNext]_clientVars /\ ClientFairness

-----------------------------------------------------------------------------
(* Properties.                                                             *)

ClientTypeOK ==
    /\ client \in [Clients ->
          [state : {"started", "inactive", "stopped", "freed"},
           connected : BOOLEAN, mIsOpen : BOOLEAN,
           fOpenClient : Clients \cup {NoClient},
           fSelfOpenCount : 0..1, fSessionRef : 0..MaxCapacity,
           step : {"none", "opened", "listed", "found", "closing", "unlisted", "closed"},
           found : Clients \cup {NoClient, OtherNub}]]
    /\ opener \in Clients \cup {NoClient}
    /\ sessions \in UNION {[1..n -> Clients \cup {NoObject, OtherNub}] :
                            n \in 0..MaxCapacity}
    /\ unclosable \subseteq Clients 
    /\ unreleasable \subseteq Objects /\ raced \subseteq Objects
    /\ \A c \in Clients : fExporter[c] \in
          UNION {[1..n -> Objects \cup {NoObject}] : n \in 0..MaxCapacity}
    /\ obj \in [Objects -> [state : {"unmade", "made", "freed"}, kind : ObjectKinds,
                            refs : 0..(Cardinality(Threads) + 2), active : BOOLEAN]]

Uses(t, o) == call[t].obj = o
OwnerOf(o) == {c \in Clients : o \in Exported(fExporter[c])}

(* No object is freed while its handle is good, the bus can reach it or a  *)
(* thread works with it (lookupObject, removeObject), although handles are *)
(* taken again while others are released; but for those whose own handle   *)
(* was released by another call while they were called by it.              *)
ObjectsInUseLive == \A o \in Objects \ raced :
    (OwnerOf(o) # {} \/ obj[o].active \/ \E t \in Threads : Uses(t, o))
        => obj[o].state = "made"

(* No object is left that nobody can release: it has one handle, of a      *)
(* client that is still there, or a thread is about to make or remove it   *)
(* (addObject that fails, removeAllObjects).  Only a physical space that   *)
(* found the table full stays in the controller's set for ever.            *)
NothingIsLeft == \A o \in Objects \ raced : obj[o].state = "made" =>
    \/ \E t \in Threads : Uses(t, o)
    \/ \E c \in OwnerOf(o) : /\ client[c].state # "freed"
                             /\ OwnerOf(o) = {c}
                             /\ Cardinality(Handles(fExporter[c], o)) = 1
    \/ o \in unreleasable /\ OwnerOf(o) = {} /\ obj[o].refs = 1

(* "Release exclusive access to the device" (IOFireWireLib.h:823): when    *)
(* the close of a connection has returned the nub is free for others.      *)
NubIsReleased == \A c \in Clients :
    ~client[c].connected /\ Idle(c) => opener # c \/ c \in unclosable

(* A session names a client only while this has the nub open, for others   *)
(* who share it; and when no open or close of it is under way, a client    *)
(* that has the nub open knows it, so that closing it closes the nub, and  *)
(* its session is the one it knows (userOpen, userClose).  Two kinds of    *)
(* clients are the exception: who found the sessions full, and who opens   *)
(* the nub when it was seized and has been stopped.                        *)
NubIsOwned ==
    /\ NubIsReleased
    /\ Exported(sessions) \subseteq {opener, OtherNub}
    /\ \A c \in Clients : Idle(c) /\ opener = c /\ c \notin unclosable =>
          /\ client[c].fOpenClient = c /\ client[c].fSelfOpenCount = 1
          /\ Handles(sessions, c) = {client[c].fSessionRef}

UserObjectsKept == ClientTypeOK /\ ObjectsInUseLive /\ NothingIsLeft

(* Objects and the nub have the owners that every handle and session says. *)
OwnersAreKnown == UserObjectsKept /\ NubIsOwned

(* A client whose process has closed it or died goes, with its objects,    *)
(* and does not keep the nub from others (clientClose, free), but for the  *)
(* two kinds that cannot close it.                                         *)
ClientsGo == \A c \in Clients : ~client[c].connected ~>
    \/ client[c].state = "freed" /\ opener # c /\ Exported(fExporter[c]) = {}
    \/ c \in unclosable
=============================================================================
