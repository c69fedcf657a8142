--------------------------- MODULE LibNotification ---------------------------
(***************************************************************************)
(* How the library lets a client hear of things: the client puts a         *)
(* dispatcher on a run loop, turns an object's notifications on, and the   *)
(* kernel sends messages to the port behind the dispatcher, which the run  *)
(* loop hands to the object they name.  One object, of any kind that       *)
(* notifies, is followed from its making to its release; turning           *)
(* notifications on or off takes one call of the kernel for each reference.*)
(***************************************************************************)
EXTENDS Integers, SequencesExt

CONSTANTS
    Notifiers,            \* the kinds of object to look at
    MaxTurns,             \* bound: calls of the client that turn on or off
    MaxNews,              \* bound: things the kernel has to tell
    NotificationRisks     \* see README

NotifierKinds == {"Device", "PseudoAddressSpace", "PHYPacketListener",
                  "AsyncStreamListener", "IRMAllocation"}

NotificationAssumption ==
    /\ Notifiers \subseteq NotifierKinds
    /\ MaxTurns \in Nat /\ MaxNews \in Nat
    /\ NotificationRisks \subseteq {"noPort", "noSkipHandler", "releaseWithMessages",
                                    "offEarly", "removeNone"}
ASSUME NotificationAssumption

VARIABLES
    notifier,     \* the kind of the object
    dispatcher,   \* of each of the device's two ports: port, source, onLoop
    object,       \* the library's object: alive, mNotifyIsOn, handlers
    turn,         \* the call that turns on or off: to, and the references left
    asyncRef,     \* the kernel's references
    activated,    \* the kernel's listener is on
    messages,     \* at the object's port
    waiting,      \* fWaitingForUserCompletion, fElementWaitingCompletion
    told,         \* the client's handler has what it is to acknowledge
    strayed,      \* history: the process has used what is not there
    turns, news

notificationVars == <<notifier, dispatcher, object, turn, asyncRef, activated,
                      messages, waiting, told, strayed, turns, news>>

Ports == {"async", "isoch"}
RefNames == {"BusReset", "BusResetDone", "Packet", "SkippedPacket", "Read", "Lost"}

(* The references each object turns on and off, in this order.             *)
BusResetRefs == <<"BusReset", "BusResetDone">>
AddressSpaceRefs == <<"Packet", "SkippedPacket", "Read">>
PHYPacketRefs == <<"Packet", "SkippedPacket">>
AsyncStreamRefs == <<"Packet", "SkippedPacket">>
AllocationRefs == <<"Lost">>

RefsOf(kind) ==
    CASE kind = "Device" -> BusResetRefs
      [] kind = "PseudoAddressSpace" -> AddressSpaceRefs
      [] kind = "PHYPacketListener" -> PHYPacketRefs
      [] kind = "AsyncStreamListener" -> AsyncStreamRefs
      [] OTHER -> AllocationRefs

SetOfRefs == ToSet(RefsOf(notifier))

(* Where TurnOnNotification lets the kernel send to.                       *)
PortOf(kind) == IF kind = "AsyncStreamListener" THEN "isoch" ELSE "async"

Acknowledges(kind) == kind \notin {"Device", "IRMAllocation"}
Activates(kind) == kind \in {"PHYPacketListener", "AsyncStreamListener"}

NoRef == [port |-> FALSE, callback |-> FALSE]
NoDispatcher == [port |-> FALSE, source |-> "none", onLoop |-> FALSE]
NoTurn == [to |-> "none", left |-> <<>>]

NotificationInit ==
    /\ notifier \in Notifiers
    /\ dispatcher = [p \in Ports |-> NoDispatcher]
    /\ object = [alive |-> TRUE, mNotifyIsOn |-> FALSE, handlers |-> {}]
    /\ turn = NoTurn
    /\ asyncRef = [r \in RefNames |-> NoRef]
    /\ activated = FALSE /\ messages = <<>>
    /\ waiting = FALSE /\ told = FALSE /\ strayed = FALSE
    /\ turns = MaxTurns /\ news = MaxNews

-----------------------------------------------------------------------------
(* Dispatchers.  Core Foundation gives the same source for a port again,   *)
(* the invalid one too; CreateAsyncPorts makes the port only once.         *)

CreateAsyncPorts(d) == [d EXCEPT !.port = TRUE]

KeepSource(d) ==                                                   \* mutant
    [CreateAsyncPorts(d) EXCEPT !.onLoop = TRUE,
                                !.source = IF @ = "none" THEN "valid" ELSE @]

(* A source that is not valid is made anew, with its Core Foundation port; *)
(* the kernel's port below it stays, and the messages in it.               *)
OnRunLoop(d) ==
    [CreateAsyncPorts(d) EXCEPT !.source = "valid", !.onLoop = TRUE]

AddCallbackDispatcherToRunLoopForMode ==
    /\ object.alive /\ turns > 0
    /\ dispatcher' = [dispatcher EXCEPT !["async"] = OnRunLoop(@)]
    /\ turns' = turns - 1
    /\ UNCHANGED <<notifier, object, turn, asyncRef, activated, messages, waiting,
                   told, strayed, news>>

AddIsochCallbackDispatcherToRunLoopForMode ==
    /\ object.alive /\ turns > 0
    /\ dispatcher' = [dispatcher EXCEPT !["isoch"] = OnRunLoop(@)]
    /\ turns' = turns - 1
    /\ UNCHANGED <<notifier, object, turn, asyncRef, activated, messages, waiting,
                   told, strayed, news>>

(* The source of the port stays, invalid.                                  *)
RemoveDispatcherFromRunLoop(d) ==
    IF d.onLoop THEN [d EXCEPT !.source = "invalid", !.onLoop = FALSE] ELSE d

RemoveCallbackDispatcherFromRunLoop ==
    /\ object.alive /\ turns > 0
    /\ dispatcher' = [dispatcher EXCEPT !["async"] = RemoveDispatcherFromRunLoop(@)]
    /\ turns' = turns - 1
    /\ UNCHANGED <<notifier, object, turn, asyncRef, activated, messages, waiting,
                   told, strayed, news>>

(* This one releases the run loop without looking whether there is one.    *)
RemoveIsochCallbackDispatcherFromRunLoop ==
    /\ object.alive /\ turns > 0
    /\ dispatcher["isoch"].onLoop \/ "removeNone" \in NotificationRisks
    /\ strayed' = (strayed \/ ~dispatcher["isoch"].onLoop)
    /\ dispatcher' = [dispatcher EXCEPT !["isoch"] = RemoveDispatcherFromRunLoop(@)]
    /\ turns' = turns - 1
    /\ UNCHANGED <<notifier, object, turn, asyncRef, activated, messages, waiting,
                   told, news>>

-----------------------------------------------------------------------------
(* Turning notifications on and off.                                       *)

SetHandler(r) ==
    /\ object.alive /\ r \in SetOfRefs
    /\ object' = [object EXCEPT !.handlers = @ \cup {r}]
    /\ UNCHANGED <<notifier, dispatcher, turn, asyncRef, activated, messages, waiting,
                   told, strayed, turns, news>>

MayTurn == object.alive /\ turn = NoTurn /\ turns > 0

(* Only the device asks whether there is a port to send to, and only the   *)
(* device does not look whether notification is on already.                *)
PortIsThere ==
    dispatcher[PortOf(notifier)].port \/ "noPort" \in NotificationRisks

DeviceMayTurnOn == dispatcher["async"].port

(* A pseudo address space does not acknowledge for a missing handler that  *)
(* counts skipped packets.                                                 *)
AddressSpaceMayTurnOn ==
    /\ ~object.mNotifyIsOn /\ PortIsThere
    /\ "SkippedPacket" \in object.handlers \/ "noSkipHandler" \in NotificationRisks

PHYListenerMayTurnOn == ~object.mNotifyIsOn /\ PortIsThere
StreamListenerMayTurnOn == ~object.mNotifyIsOn /\ PortIsThere
AllocationMayTurnOn == ~object.mNotifyIsOn /\ PortIsThere

TurnOnNotification ==
    /\ MayTurn
    /\ CASE notifier = "Device" -> DeviceMayTurnOn
         [] notifier = "PseudoAddressSpace" -> AddressSpaceMayTurnOn
         [] notifier = "PHYPacketListener" -> PHYListenerMayTurnOn
         [] notifier = "AsyncStreamListener" -> StreamListenerMayTurnOn
         [] OTHER -> AllocationMayTurnOn
    /\ turn' = [to |-> "on", left |-> RefsOf(notifier)]
    /\ turns' = turns - 1
    /\ UNCHANGED <<notifier, dispatcher, object, asyncRef, activated, messages,
                   waiting, told, strayed, news>>

TurnOffNotification ==
    /\ MayTurn /\ object.mNotifyIsOn
    /\ turn' = [to |-> "off", left |-> RefsOf(notifier)]
    /\ turns' = turns - 1
    /\ UNCHANGED <<notifier, dispatcher, object, asyncRef, activated, messages,
                   waiting, told, strayed, news>>

(* The user client puts the port's name and the callback into a reference. *)
(* For a bus reset it keeps the port of one that is taken back, for an IRM *)
(* allocation it keeps a flag beside it.                                   *)
Filled(callback) == [port |-> dispatcher[PortOf(notifier)].port, callback |-> callback]
setAsyncRef_BusReset(callback) == Filled(callback)
irmAllocation_setRef(callback) == Filled(callback)
setAsyncRef_Packet(callback) == IF callback THEN Filled(TRUE) ELSE NoRef
setAsyncStreamRef_Packet(callback) == IF callback THEN Filled(TRUE) ELSE NoRef
setPacketCallback(callback) == IF callback THEN Filled(TRUE) ELSE NoRef

Reference(callback) ==
    CASE notifier = "Device" -> setAsyncRef_BusReset(callback)
      [] notifier = "IRMAllocation" -> irmAllocation_setRef(callback)
      [] notifier = "PHYPacketListener" -> setPacketCallback(callback)
      [] notifier = "AsyncStreamListener" -> setAsyncStreamRef_Packet(callback)
      [] OTHER -> setAsyncRef_Packet(callback)

SetRef ==
    /\ turn.left # <<>>
    /\ asyncRef' = [asyncRef EXCEPT ![Head(turn.left)] = Reference(turn.to = "on")]
    /\ turn' = [turn EXCEPT !.left = Tail(@)]
    /\ UNCHANGED <<notifier, dispatcher, object, activated, messages, waiting, told,
                   strayed, turns, news>>

(* What irmAllocation_setRef returns when all went well is still           *)
(* kIOReturnBadArgument, so that the library believes it has failed.       *)
SaidToBeOn == turn.to = "on" /\ notifier # "IRMAllocation"

EndTurn ==
    /\ turn.to # "none" /\ turn.left = <<>>
    /\ activated' = (Activates(notifier) /\ turn.to = "on")
    /\ object' = [object EXCEPT !.mNotifyIsOn = SaidToBeOn]
    /\ turn' = NoTurn
    /\ UNCHANGED <<notifier, dispatcher, asyncRef, messages, waiting, told, strayed,
                   turns, news>>

-----------------------------------------------------------------------------
(* The kernel has something to tell.                                       *)

Sent(r) == IF asyncRef[r].port
           THEN Append(messages, [ref |-> r, callback |-> asyncRef[r].callback])
           ELSE messages

(* Bus resets go to every user client, whether its client works on one or  *)
(* not; likewise a lost allocation.                                        *)
message(r) ==
    /\ ~Acknowledges(notifier) /\ object.alive /\ news > 0
    /\ r \in SetOfRefs
    /\ asyncRef[r].callback \/ notifier = "Device"
    /\ messages' = Sent(r)
    /\ news' = news - 1
    /\ UNCHANGED <<notifier, dispatcher, object, turn, asyncRef, activated, waiting,
                   told, strayed, turns>>

(* A pseudo address space waits only for what it has sent; the listeners   *)
(* wait whether their reference has a port or not.                         *)
sendPacketNotification(r) ==
    /\ Acknowledges(notifier) /\ object.alive /\ news > 0 /\ ~waiting
    /\ r \in SetOfRefs
    /\ Activates(notifier) =>
          /\ activated
          /\ turn.to = "off" => "offEarly" \in NotificationRisks
    /\ messages' = Sent(r)
    /\ waiting' = (Activates(notifier) \/ asyncRef[r].port)
    /\ news' = news - 1
    /\ UNCHANGED <<notifier, dispatcher, object, turn, asyncRef, activated, told,
                   strayed, turns>>

-----------------------------------------------------------------------------
(* The run loop.                                                           *)

(* A message without a callback goes nowhere.                              *)
Heard(m) == m.callback /\ object.alive
HasHandler(m) == m.ref \in object.handlers

(* What the library does for a handler that is not set.                    *)
PseudoAcknowledges(m) == m.ref # "SkippedPacket"
ListenerAcknowledges(m) == TRUE
AcknowledgedByLibrary(m) ==
    Acknowledges(notifier) /\ IF Activates(notifier) THEN ListenerAcknowledges(m)
                                                    ELSE PseudoAcknowledges(m)

(* BusResetHandler, Writer, SkippedPacket, Reader, Listener, LostProc and  *)
(* the callbacks of the PHY listener.                                      *)
IODispatchCalloutFromMessage ==
    LET m == Head(messages)
    IN  /\ messages # <<>> /\ dispatcher[PortOf(notifier)].onLoop
        /\ ~told
        /\ messages' = Tail(messages)
        /\ strayed' = (strayed \/ (m.callback /\ ~object.alive))
        /\ told' = (Heard(m) /\ Acknowledges(notifier) /\ HasHandler(m))
        /\ waiting' = (/\ waiting
                       /\ ~(Heard(m) /\ ~HasHandler(m) /\ AcknowledgedByLibrary(m)))
        /\ UNCHANGED <<notifier, dispatcher, object, turn, asyncRef, activated,
                       turns, news>>

ClientCommandIsComplete ==
    /\ told
    /\ told' = FALSE /\ waiting' = FALSE
    /\ UNCHANGED <<notifier, dispatcher, object, turn, asyncRef, activated, messages,
                   strayed, turns, news>>

(* A device destroys its ports.                                            *)
ClubPortsToDeath ==
    /\ messages' = <<>>
    /\ dispatcher' = [p \in Ports |-> NoDispatcher]

(* The last reference to the object goes: its kernel object is released,   *)
(* and nothing looks for messages that name it.                            *)
Release ==
    /\ object.alive /\ turn = NoTurn /\ ~told
    /\ \/ notifier = "Device" \/ "releaseWithMessages" \in NotificationRisks
       \/ \A i \in DOMAIN messages : ~messages[i].callback
    /\ object' = [object EXCEPT !.alive = FALSE, !.mNotifyIsOn = FALSE]
    /\ asyncRef' = [r \in RefNames |-> NoRef]
    /\ activated' = FALSE /\ waiting' = FALSE
    /\ IF notifier = "Device" THEN ClubPortsToDeath
       ELSE UNCHANGED <<messages, dispatcher>>
    /\ UNCHANGED <<notifier, turn, told, strayed, turns, news>>

NotificationNext ==
    \/ AddCallbackDispatcherToRunLoopForMode
    \/ AddIsochCallbackDispatcherToRunLoopForMode
    \/ RemoveCallbackDispatcherFromRunLoop
    \/ RemoveIsochCallbackDispatcherFromRunLoop
    \/ TurnOnNotification \/ TurnOffNotification \/ SetRef \/ EndTurn
    \/ \E r \in RefNames : SetHandler(r) \/ message(r) \/ sendPacketNotification(r)
    \/ IODispatchCalloutFromMessage \/ ClientCommandIsComplete \/ Release

NotificationSpec == NotificationInit /\ [][NotificationNext]_notificationVars

-----------------------------------------------------------------------------
(* Properties.                                                             *)

(* While no call is under way, the library's flag says what the kernel     *)
(* does: NotificationIsOn "Returns true if notifications for this          *)
(* IRMAllocation are enabled" (IOFireWireLib.h:2106), and so for the other *)
(* objects.  An IRM allocation does not keep it.                           *)
NotificationIsOnIsTrue ==
    object.alive /\ turn = NoTurn =>
        /\ object.mNotifyIsOn = (\A r \in SetOfRefs : asyncRef[r].port /\ asyncRef[r].callback)
        /\ ~object.mNotifyIsOn => \A r \in SetOfRefs : ~asyncRef[r].callback

(* A kernel that waits for an acknowledgement has a message on its way, or *)
(* a handler at work, and so will hear again.                              *)
WaitsForTheClient ==
    waiting => told \/ \E i \in DOMAIN messages : messages[i].callback

(* What a client has put on a run loop is served there.                    *)
DispatchersServe ==
    \A p \in Ports : dispatcher[p].onLoop => dispatcher[p].source = "valid"

(* Notifications are on when the library says so, but for IRM allocations; *)
(* no message is handed to an object that is gone, none that is to be      *)
(* acknowledged is lost, and a dispatcher that was added serves its port   *)
(* until it is removed.                                                    *)
NotificationsAreSound ==
    /\ notifier # "IRMAllocation" => NotificationIsOnIsTrue
    /\ ~strayed /\ WaitsForTheClient /\ DispatchersServe
=============================================================================
