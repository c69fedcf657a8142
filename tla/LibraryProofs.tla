---------------------------- MODULE LibraryProofs ----------------------------
(***************************************************************************)
(* Proofs about what the library tells its clients and does for them:      *)
(* LibNotification, BusInformation and UserLock, for any bounds.  Each     *)
(* promise is kept only without the risks its module names, so each        *)
(* theorem assumes there are none.                                         *)
(***************************************************************************)
EXTENDS LibNotification, BusInformation, UserLock, FiniteSetTheorems,
        SequenceTheorems, TLAPS

AMessage == [ref : RefNames, callback : BOOLEAN]
Objects == [alive : BOOLEAN, mNotifyIsOn : BOOLEAN, handlers : SUBSET RefNames]
ADispatcher == [port : BOOLEAN, source : {"none", "valid", "invalid"}, onLoop : BOOLEAN]
References == [port : BOOLEAN, callback : BOOLEAN]
Turns == [to : {"none", "on", "off"}, left : Seq(RefNames)]

NotificationTypeOK ==
    /\ notifier \in NotifierKinds
    /\ dispatcher \in [Ports -> ADispatcher]
    /\ object \in Objects
    /\ turn \in Turns
    /\ asyncRef \in [RefNames -> References]
    /\ messages \in Seq(AMessage)

IsOn(r) == asyncRef[r].port /\ asyncRef[r].callback

(* A call that turns notifications on or off has done so for the           *)
(* references it has left behind.  Only a device may turn on what is on.   *)
TurnsGoOn ==
    /\ turn.to = "none" => turn = NoTurn
    /\ turn.to # "none" => object.alive
    /\ turn.to = "on" =>
          /\ dispatcher[PortOf(notifier)].port
          /\ notifier # "Device" => ~object.mNotifyIsOn
          /\ \A r \in SetOfRefs : r \in ToSet(turn.left) \/ IsOn(r)
    /\ turn.to = "off" =>
          /\ object.mNotifyIsOn
          /\ \A r \in SetOfRefs : r \in ToSet(turn.left) \/ ~asyncRef[r].callback

(* Between calls the library knows what the kernel does.                   *)
LibraryKnows ==
    /\ turn.to = "none" /\ notifier # "IRMAllocation" /\ object.alive =>
          IF object.mNotifyIsOn THEN \A r \in SetOfRefs : IsOn(r)
          ELSE \A r \in SetOfRefs : ~asyncRef[r].callback
    /\ Acknowledges(notifier) =>
          \A r \in RefNames : asyncRef[r].port <=> asyncRef[r].callback
    /\ Activates(notifier) => (activated <=> object.mNotifyIsOn)

(* A pseudo address space that may be told of skipped packets has a        *)
(* handler for them.                                                       *)
SkipsAreHandled ==
    notifier = "PseudoAddressSpace" /\ "SkippedPacket" \notin object.handlers =>
        /\ turn.to = "none" /\ ~object.mNotifyIsOn
        /\ \A r \in RefNames : ~asyncRef[r].callback
        /\ messages = <<>>

(* The kernel waits for the one message it has sent, or for its handler.   *)
OneAtATime ==
    IF Acknowledges(notifier)
    THEN \/ waiting /\ told /\ messages = <<>>
         \/ waiting /\ ~told /\ Len(messages) = 1 /\ messages[1].callback
         \/ ~waiting /\ ~told /\ messages = <<>>
    ELSE ~waiting /\ ~told

GoneAreNotNamed ==
    ~object.alive => \A i \in DOMAIN messages : ~messages[i].callback

NotificationInv ==
    /\ NotificationTypeOK /\ TurnsGoOn /\ LibraryKnows /\ SkipsAreHandled
    /\ OneAtATime /\ GoneAreNotNamed /\ ~strayed /\ DispatchersServe

-----------------------------------------------------------------------------
(* The references of each kind.                                            *)

LEMMA RefsTyped ==
    ASSUME NEW kind \in NotifierKinds
    PROVE  RefsOf(kind) \in Seq(RefNames) /\ RefsOf(kind) # <<>>
<1>1. /\ BusResetRefs \in Seq(RefNames) /\ BusResetRefs # <<>>
      /\ AddressSpaceRefs \in Seq(RefNames) /\ AddressSpaceRefs # <<>>
      /\ PHYPacketRefs \in Seq(RefNames) /\ PHYPacketRefs # <<>>
      /\ AsyncStreamRefs \in Seq(RefNames) /\ AsyncStreamRefs # <<>>
      /\ AllocationRefs \in Seq(RefNames) /\ AllocationRefs # <<>>
  BY DEF RefNames, BusResetRefs, AddressSpaceRefs, PHYPacketRefs, AsyncStreamRefs,
         AllocationRefs
<1>2. RefsOf(kind) \in {BusResetRefs, AddressSpaceRefs, PHYPacketRefs,
                       AsyncStreamRefs, AllocationRefs}
  BY DEF RefsOf, NotifierKinds
<1>3. QED
  BY <1>1, <1>2

LEMMA SomeRef ==
    ASSUME NEW kind \in NotifierKinds
    PROVE  /\ ToSet(RefsOf(kind)) \subseteq RefNames
           /\ ToSet(RefsOf(kind)) # {}
<1>1. RefsOf(kind) \in Seq(RefNames) /\ RefsOf(kind) # <<>>
  BY RefsTyped
<1>2. Len(RefsOf(kind)) \in Nat /\ Len(RefsOf(kind)) # 0
  BY <1>1
<1>3. 1 \in DOMAIN RefsOf(kind)
  BY <1>1, <1>2
<1>4. QED
  BY <1>1, <1>3 DEF ToSet

LEMMA HeadOrTail ==
    ASSUME NEW S, NEW s \in Seq(S), s # <<>>, NEW r \in ToSet(s)
    PROVE  r = Head(s) \/ r \in ToSet(Tail(s))
<1>1. PICK i \in 1..Len(s) : r = s[i]
  BY DEF ToSet
<1>2. CASE i = 1
  BY <1>1, <1>2
<1>3. CASE i # 1
  <2> DEFINE t == Tail(s)
  <2>1. i - 1 \in DOMAIN t /\ t[i - 1] = r
    BY <1>1, <1>3
  <2> HIDE DEF t
  <2>2. r \in ToSet(t)
    BY <2>1 DEF ToSet
  <2>3. QED
    BY <2>2 DEF t
<1>4. QED
  BY <1>2, <1>3

LEMMA PortTyped == \A kind : PortOf(kind) \in Ports
BY DEF PortOf, Ports

-----------------------------------------------------------------------------
(* Steps.                                                                  *)

LEMMA NotificationStart ==
    ASSUME NotificationInit PROVE NotificationInv
<1> USE NotificationAssumption DEF NotificationInit, NotificationAssumption
<1>1. NotificationTypeOK
  BY DEF NotificationTypeOK, ADispatcher, NoDispatcher, Objects, Turns, NoTurn,
         References, NoRef, RefNames, NotifierKinds
<1>2. TurnsGoOn /\ LibraryKnows
  BY <1>1, SomeRef
     DEF TurnsGoOn, LibraryKnows, NoTurn, NoRef, SetOfRefs, NotificationTypeOK, IsOn,
         Activates
<1>3. SkipsAreHandled /\ OneAtATime /\ GoneAreNotNamed /\ ~strayed
  BY DEF SkipsAreHandled, OneAtATime, GoneAreNotNamed, NoRef, NoTurn, RefNames
<1>4. DispatchersServe
  BY DEF DispatchersServe, NoDispatcher
<1>5. QED
  BY <1>1, <1>2, <1>3, <1>4 DEF NotificationInv

(* The client adds a dispatcher to a run loop or takes it off.             *)
ChangesDispatcher ==
    /\ \E p \in Ports, d \in ADispatcher :
          /\ dispatcher' = [dispatcher EXCEPT ![p] = d]
          /\ dispatcher[p].port => d.port
          /\ d.onLoop => d.source = "valid"
    /\ ~strayed'
    /\ notifier' = notifier /\ object' = object /\ turn' = turn
    /\ asyncRef' = asyncRef /\ activated' = activated /\ messages' = messages
    /\ waiting' = waiting /\ told' = told

LEMMA DispatcherStep ==
    ASSUME NotificationInv, ChangesDispatcher
    PROVE  NotificationInv'
<1> USE DEF NotificationInv, ChangesDispatcher
<1>1. NotificationTypeOK'
  BY DEF NotificationTypeOK
<1>2. \A q \in Ports : dispatcher[q].port => dispatcher'[q].port
  BY DEF NotificationTypeOK
<1>3. TurnsGoOn'
  BY <1>2, PortTyped DEF TurnsGoOn, SetOfRefs, IsOn
<1>4. LibraryKnows' /\ SkipsAreHandled' /\ OneAtATime' /\ GoneAreNotNamed'
  BY DEF LibraryKnows, SkipsAreHandled, OneAtATime, GoneAreNotNamed, SetOfRefs, IsOn
<1>5. DispatchersServe'
  BY DEF DispatchersServe, NotificationTypeOK
<1>6. QED
  BY <1>1, <1>3, <1>4, <1>5

LEMMA Dispatchers ==
    ASSUME NotificationInv, NotificationRisks = {},
           \/ AddCallbackDispatcherToRunLoopForMode
           \/ AddIsochCallbackDispatcherToRunLoopForMode
           \/ RemoveCallbackDispatcherFromRunLoop
           \/ RemoveIsochCallbackDispatcherFromRunLoop
    PROVE  ChangesDispatcher
<1>1. \A p \in Ports : LET d == OnRunLoop(dispatcher[p])
                       IN  d \in ADispatcher /\ d.port /\ d.source = "valid"
  <2> TAKE p \in Ports
  <2>1. dispatcher[p] \in ADispatcher
    BY DEF NotificationInv, NotificationTypeOK
  <2>2. QED
    BY <2>1 DEF OnRunLoop, CreateAsyncPorts, ADispatcher
<1>2. \A p \in Ports : LET d == RemoveDispatcherFromRunLoop(dispatcher[p])
                       IN  d \in ADispatcher /\ (dispatcher[p].port => d.port)
                           /\ (d.onLoop => d.source = "valid")
  <2> TAKE p \in Ports
  <2>1. /\ dispatcher[p] \in ADispatcher
        /\ dispatcher[p].onLoop => dispatcher[p].source = "valid"
    BY DEF NotificationInv, NotificationTypeOK, DispatchersServe
  <2>2. QED
    BY <2>1 DEF RemoveDispatcherFromRunLoop, ADispatcher
<1>0. ~strayed'
  <2>1. CASE RemoveIsochCallbackDispatcherFromRunLoop
    BY <2>1 DEF NotificationInv, RemoveIsochCallbackDispatcherFromRunLoop
  <2>2. CASE ~RemoveIsochCallbackDispatcherFromRunLoop
    BY <2>2 DEF NotificationInv, AddCallbackDispatcherToRunLoopForMode,
         AddIsochCallbackDispatcherToRunLoopForMode,
         RemoveCallbackDispatcherFromRunLoop
  <2>3. QED
    BY <2>1, <2>2
<1>3. /\ notifier' = notifier /\ object' = object /\ turn' = turn
      /\ asyncRef' = asyncRef /\ activated' = activated /\ messages' = messages
      /\ waiting' = waiting /\ told' = told
  BY DEF NotificationInv, AddCallbackDispatcherToRunLoopForMode,
         AddIsochCallbackDispatcherToRunLoopForMode,
         RemoveCallbackDispatcherFromRunLoop,
         RemoveIsochCallbackDispatcherFromRunLoop
<1>4. \E p \in Ports :
         \/ dispatcher' = [dispatcher EXCEPT ![p] = OnRunLoop(dispatcher[p])]
         \/ dispatcher' = [dispatcher EXCEPT ![p] =
                             RemoveDispatcherFromRunLoop(dispatcher[p])]
  BY DEF Ports, AddCallbackDispatcherToRunLoopForMode,
         AddIsochCallbackDispatcherToRunLoopForMode,
         RemoveCallbackDispatcherFromRunLoop,
         RemoveIsochCallbackDispatcherFromRunLoop
<1>5. QED
  BY <1>0, <1>1, <1>2, <1>3, <1>4 DEF ChangesDispatcher

LEMMA SetHandlerStep ==
    ASSUME NotificationInv, NEW r \in RefNames, SetHandler(r)
    PROVE  NotificationInv'
<1> DEFINE h == object.handlers \cup {r}
<1> USE DEF NotificationInv, SetHandler
<1>1. object \in Objects /\ h \in SUBSET RefNames
  BY DEF NotificationTypeOK, Objects
<1>2. object' = [object EXCEPT !.handlers = h]
  OBVIOUS
<1> HIDE DEF h
<1>3. /\ object' \in Objects /\ object'.handlers = h
      /\ object'.alive = object.alive /\ object'.mNotifyIsOn = object.mNotifyIsOn
  BY <1>1, <1>2 DEF Objects
<1>4. NotificationTypeOK'
  BY <1>3 DEF NotificationTypeOK
<1>5. TurnsGoOn' /\ LibraryKnows'
  BY <1>3 DEF TurnsGoOn, LibraryKnows, SetOfRefs, IsOn
<1>6. SkipsAreHandled'
  BY <1>3 DEF SkipsAreHandled, h
<1>7. OneAtATime' /\ GoneAreNotNamed' /\ ~strayed' /\ DispatchersServe'
  BY <1>3 DEF OneAtATime, GoneAreNotNamed, DispatchersServe
<1>8. QED
  BY <1>4, <1>5, <1>6, <1>7

(* A call begins; none of its references are set yet.                      *)
LEMMA TurnBegins ==
    ASSUME NotificationInv, NotificationRisks = {},
           TurnOnNotification \/ TurnOffNotification
    PROVE  NotificationInv'
<1> USE DEF NotificationInv
<1>1. /\ object.alive /\ turn.to = "none"
      /\ notifier' = notifier /\ object' = object /\ dispatcher' = dispatcher
      /\ asyncRef' = asyncRef /\ activated' = activated /\ messages' = messages
      /\ waiting' = waiting /\ told' = told /\ strayed' = strayed
  BY DEF TurnOnNotification, TurnOffNotification, MayTurn, NoTurn
<1>2. turn'.left = RefsOf(notifier) /\ turn'.to \in {"on", "off"} /\ turn' \in Turns
  BY RefsTyped DEF TurnOnNotification, TurnOffNotification, Turns, NotificationTypeOK
<1>3. turn'.to = "off" => object.mNotifyIsOn
  BY DEF TurnOnNotification, TurnOffNotification
<1>4. turn'.to = "on" =>
         /\ dispatcher[PortOf(notifier)].port
         /\ notifier # "Device" => ~object.mNotifyIsOn
         /\ notifier = "PseudoAddressSpace" => "SkippedPacket" \in object.handlers
  BY DEF NotificationTypeOK, NotifierKinds, TurnOnNotification, TurnOffNotification,
         DeviceMayTurnOn, AddressSpaceMayTurnOn, PHYListenerMayTurnOn,
         StreamListenerMayTurnOn, AllocationMayTurnOn, PortIsThere, PortOf
<1>5. NotificationTypeOK'
  BY <1>1, <1>2 DEF NotificationTypeOK
<1>6. TurnsGoOn'
  BY <1>1, <1>2, <1>3, <1>4 DEF TurnsGoOn, SetOfRefs
<1>7. LibraryKnows' /\ SkipsAreHandled'
  BY <1>1, <1>2, <1>3, <1>4 DEF LibraryKnows, SkipsAreHandled
<1>8. OneAtATime' /\ GoneAreNotNamed' /\ ~strayed' /\ DispatchersServe'
  BY <1>1 DEF OneAtATime, GoneAreNotNamed, DispatchersServe
<1>9. QED
  BY <1>5, <1>6, <1>7, <1>8

LEMMA SetRefStep ==
    ASSUME NotificationInv, SetRef
    PROVE  NotificationInv'
<1> DEFINE h == Head(turn.left)
           l == Tail(turn.left)
           b == turn.to = "on"
           f == Reference(b)
<1> USE DEF NotificationInv
<1>1. /\ turn.left \in Seq(RefNames) /\ turn.left # <<>> /\ turn.to \in {"none", "on", "off"}
      /\ turn = [to |-> turn.to, left |-> turn.left]
  BY DEF NotificationTypeOK, SetRef, Turns
<1>2. h \in RefNames /\ l \in Seq(RefNames)
  BY <1>1
<1>3. turn.to # "none"
  BY <1>1 DEF TurnsGoOn, NoTurn
<1>4. dispatcher[PortOf(notifier)] \in ADispatcher
  BY PortTyped DEF NotificationTypeOK
<1>5. /\ f \in References
      /\ f.callback <=> b
      /\ b => f.port
      /\ Acknowledges(notifier) => (f.port <=> f.callback)
  <2>1. f \in {Filled(b), IF b THEN Filled(TRUE) ELSE NoRef}
    BY DEF Reference, setAsyncRef_BusReset, irmAllocation_setRef,
           setAsyncRef_Packet, setAsyncStreamRef_Packet, setPacketCallback
  <2>2. b => dispatcher[PortOf(notifier)].port
    BY DEF TurnsGoOn
  <2>3. Acknowledges(notifier) => f = IF b THEN Filled(TRUE) ELSE NoRef
    BY DEF Reference, setAsyncRef_Packet, setAsyncStreamRef_Packet,
           setPacketCallback, Acknowledges, NotificationTypeOK, NotifierKinds
  <2> HIDE DEF b
  <2>4. b \in BOOLEAN
    BY DEF b
  <2> HIDE DEF f
  <2>5. \A c \in BOOLEAN :
           /\ Filled(c) \in References
           /\ Filled(c).callback = c
           /\ Filled(c).port = dispatcher[PortOf(notifier)].port
    BY <1>4 DEF Filled, References, ADispatcher
  <2>6. CASE b = TRUE
    <3>1. f = Filled(TRUE)
      BY <2>1, <2>6
    <3>2. QED
      BY <2>2, <2>5, <2>6, <3>1
  <2>7. CASE b = FALSE
    <3>1. f \in {Filled(FALSE), NoRef}
      BY <2>1, <2>7
    <3>2. Acknowledges(notifier) => f = NoRef
      BY <2>3, <2>7
    <3>3. NoRef \in References /\ NoRef.callback = FALSE /\ NoRef.port = FALSE
      BY DEF NoRef, References
    <3>4. QED
      BY <2>5, <2>7, <3>1, <3>2, <3>3
  <2>8. QED
    BY <2>4, <2>6, <2>7
<1>6. /\ asyncRef' = [asyncRef EXCEPT ![h] = f]
      /\ turn' = [turn EXCEPT !.left = l]
      /\ notifier' = notifier /\ object' = object /\ dispatcher' = dispatcher
      /\ activated' = activated /\ messages' = messages
      /\ waiting' = waiting /\ told' = told /\ strayed' = strayed
  BY DEF SetRef
<1>7. \A r \in ToSet(turn.left) : r = h \/ r \in ToSet(l)
  BY <1>1, HeadOrTail
<1> HIDE DEF f, h, l
<1>8. turn' \in Turns /\ turn'.to = turn.to /\ turn'.left = l
  BY <1>2, <1>6 DEF NotificationTypeOK, Turns
<1>9. /\ asyncRef' \in [RefNames -> References]
      /\ asyncRef'[h] = f
      /\ \A r \in RefNames : r # h => asyncRef'[r] = asyncRef[r]
  BY <1>2, <1>5, <1>6 DEF NotificationTypeOK
<1>10. SetOfRefs \subseteq RefNames /\ SetOfRefs' = SetOfRefs
  BY <1>6, SomeRef DEF SetOfRefs, NotificationTypeOK
<1>11. NotificationTypeOK'
  BY <1>6, <1>8, <1>9 DEF NotificationTypeOK
<1>12. TurnsGoOn'
  <2>1. \A r \in SetOfRefs : 
                             \/ r \in ToSet(l)
                             \/ r = h
                             \/ asyncRef'[r] = asyncRef[r] /\ r \notin ToSet(turn.left)
    BY <1>7, <1>9, <1>10
  <2>2. CASE b
    BY <1>3, <1>5, <1>6, <1>8, <1>9, <1>10, <2>1, <2>2 DEF TurnsGoOn, IsOn
  <2>3. CASE ~b
    BY <1>1, <1>3, <1>5, <1>6, <1>8, <1>9, <1>10, <2>1, <2>3 DEF TurnsGoOn
  <2>4. QED
    BY <2>2, <2>3
<1>13. LibraryKnows'
  <2>1. Acknowledges(notifier') =>
           \A r \in RefNames : asyncRef'[r].port <=> asyncRef'[r].callback
    BY <1>5, <1>6, <1>9 DEF LibraryKnows
  <2>2. QED
    BY <1>3, <1>6, <1>8, <2>1 DEF LibraryKnows
<1>14. SkipsAreHandled'
  BY <1>3, <1>6, <1>8 DEF SkipsAreHandled
<1>15. OneAtATime' /\ GoneAreNotNamed' /\ ~strayed' /\ DispatchersServe'
  BY <1>6 DEF OneAtATime, GoneAreNotNamed, DispatchersServe
<1>16. QED
  BY <1>11, <1>12, <1>13, <1>14, <1>15

LEMMA EndTurnStep ==
    ASSUME NotificationInv, EndTurn
    PROVE  NotificationInv'
<1> USE DEF NotificationInv
<1>1. /\ turn.to \in {"on", "off"} /\ turn.left = <<>> /\ turn' = NoTurn
      /\ notifier' = notifier /\ dispatcher' = dispatcher /\ asyncRef' = asyncRef
      /\ messages' = messages /\ waiting' = waiting /\ told' = told
      /\ strayed' = strayed
      /\ activated' = (Activates(notifier) /\ turn.to = "on")
      /\ object' = [object EXCEPT !.mNotifyIsOn = SaidToBeOn]
  BY DEF EndTurn, NotificationTypeOK, Turns
<1>2. /\ object' \in Objects /\ object'.alive = object.alive
      /\ object'.mNotifyIsOn <=> SaidToBeOn
      /\ object'.handlers = object.handlers
  <2>1. SaidToBeOn \in BOOLEAN /\ object \in Objects
    BY DEF SaidToBeOn, NotificationTypeOK
  <2>2. QED
    BY <1>1, <2>1 DEF Objects
<1>3. ToSet(turn.left) = {}
  BY <1>1 DEF ToSet
<1>4. object.alive
  BY <1>1 DEF TurnsGoOn
<1>5. turn'.to = "none" /\ turn' \in Turns
  BY <1>1 DEF NoTurn, Turns
<1>6. NotificationTypeOK'
  BY <1>1, <1>2, <1>5 DEF NotificationTypeOK
<1>7. TurnsGoOn'
  BY <1>1, <1>5 DEF TurnsGoOn
<1>8. LibraryKnows'
  <2>1. notifier # "IRMAllocation" =>
           IF SaidToBeOn THEN \A r \in SetOfRefs : IsOn(r)
           ELSE \A r \in SetOfRefs : ~asyncRef[r].callback
    BY <1>1, <1>3 DEF TurnsGoOn, SaidToBeOn
  <2>2. SetOfRefs' = SetOfRefs
    BY <1>1 DEF SetOfRefs
  <2>3. notifier' # "IRMAllocation" =>
           IF object'.mNotifyIsOn
           THEN \A r \in SetOfRefs' : asyncRef'[r].port /\ asyncRef'[r].callback
           ELSE \A r \in SetOfRefs' : ~asyncRef'[r].callback
    BY <1>1, <1>2, <2>1, <2>2 DEF IsOn
  <2>4. Activates(notifier') => (activated' <=> object'.mNotifyIsOn)
    BY <1>1, <1>2 DEF SaidToBeOn, Activates
  <2>5. Acknowledges(notifier') =>
           \A r \in RefNames : asyncRef'[r].port <=> asyncRef'[r].callback
    BY <1>1 DEF LibraryKnows
  <2>6. QED
    BY <2>3, <2>4, <2>5 DEF LibraryKnows, IsOn
<1>9. SkipsAreHandled'
  BY <1>1, <1>2 DEF SkipsAreHandled
<1>10. OneAtATime' /\ GoneAreNotNamed' /\ ~strayed' /\ DispatchersServe'
  BY <1>1, <1>2 DEF OneAtATime, GoneAreNotNamed, DispatchersServe
<1>11. QED
  BY <1>6, <1>7, <1>8, <1>9, <1>10

(* A step that touches only the messages and who waits for what.           *)
LEMMA MessageStep ==
    ASSUME NotificationInv, messages' \in Seq(AMessage),
           UNCHANGED <<notifier, dispatcher, object, turn, asyncRef, activated>>,
           OneAtATime', ~strayed',
           object.alive \/ \A i \in DOMAIN messages' : ~messages'[i].callback,
           notifier = "PseudoAddressSpace" /\ "SkippedPacket" \notin object.handlers
             => messages' = <<>>
    PROVE  NotificationInv'
<1> USE DEF NotificationInv
<1>1. NotificationTypeOK'
  BY DEF NotificationTypeOK
<1>2. TurnsGoOn' /\ LibraryKnows'
  BY DEF TurnsGoOn, LibraryKnows, SetOfRefs, IsOn
<1>3. SkipsAreHandled' /\ GoneAreNotNamed' /\ DispatchersServe'
  BY DEF SkipsAreHandled, GoneAreNotNamed, DispatchersServe
<1>4. QED
  BY <1>1, <1>2, <1>3

LEMMA SentTyped ==
    ASSUME NotificationTypeOK, NEW r \in RefNames
    PROVE  /\ Sent(r) \in Seq(AMessage)
           /\ ~asyncRef[r].port => Sent(r) = messages
           /\ asyncRef[r].port /\ messages = <<>> =>
                  Len(Sent(r)) = 1 /\ Sent(r)[1].callback = asyncRef[r].callback
<1> DEFINE m == [ref |-> r, callback |-> asyncRef[r].callback]
<1>1. m \in AMessage /\ m.callback = asyncRef[r].callback
  BY DEF NotificationTypeOK, References, AMessage
<1>2. Sent(r) = IF asyncRef[r].port THEN Append(messages, m) ELSE messages
  BY DEF Sent
<1> HIDE DEF m
<1>3. QED
  BY <1>1, <1>2 DEF NotificationTypeOK

LEMMA MessageSent ==
    ASSUME NotificationInv, NEW r \in RefNames, message(r)
    PROVE  NotificationInv'
<1> USE DEF NotificationInv
<1>1. messages' \in Seq(AMessage)
  BY SentTyped DEF message
<1>2. OneAtATime'
  BY DEF message, OneAtATime
<1>3. notifier # "PseudoAddressSpace"
  BY DEF message, Acknowledges
<1>4. QED
  BY <1>1, <1>2, <1>3, MessageStep DEF message

LEMMA PacketSent ==
    ASSUME NotificationInv, NotificationRisks = {}, NEW r \in RefNames,
           sendPacketNotification(r)
    PROVE  NotificationInv'
<1> USE DEF NotificationInv
<1>1. /\ Acknowledges(notifier) /\ object.alive /\ ~waiting /\ ~told
      /\ messages = <<>> /\ messages' = Sent(r) /\ r \in SetOfRefs
      /\ waiting' = (Activates(notifier) \/ asyncRef[r].port)
      /\ notifier' = notifier /\ told' = told /\ strayed' = strayed
  BY DEF sendPacketNotification, OneAtATime
<1>2. asyncRef[r].port <=> asyncRef[r].callback
  BY <1>1 DEF LibraryKnows
<1>3. Activates(notifier) => asyncRef[r].port
  <2> SUFFICES ASSUME Activates(notifier) PROVE asyncRef[r].port
    OBVIOUS
  <2>1. activated /\ turn.to # "off" /\ notifier \notin {"Device", "IRMAllocation"}
    BY DEF sendPacketNotification, Activates
  <2>2. object.mNotifyIsOn
    BY <2>1 DEF LibraryKnows
  <2>3. turn.to = "none"
    BY <2>1, <2>2 DEF TurnsGoOn, NotificationTypeOK, Turns
  <2>4. QED
    BY <1>1, <2>1, <2>2, <2>3 DEF LibraryKnows, IsOn
<1>4. messages' \in Seq(AMessage)
  BY <1>1, SentTyped
<1>5. OneAtATime'
  <2>1. CASE asyncRef[r].port
    BY <1>1, <1>2, <2>1, SentTyped DEF OneAtATime
  <2>2. CASE ~asyncRef[r].port
    BY <1>1, <1>3, <2>2, SentTyped DEF OneAtATime
  <2>3. QED
    BY <2>1, <2>2
<1>6. notifier = "PseudoAddressSpace" /\ "SkippedPacket" \notin object.handlers
         => messages' = <<>>
  BY <1>1, <1>2, SentTyped DEF SkipsAreHandled
<1>7. QED
  BY <1>1, <1>4, <1>5, <1>6, MessageStep DEF sendPacketNotification

LEMMA MessageHandled ==
    ASSUME NotificationInv, IODispatchCalloutFromMessage
    PROVE  NotificationInv'
<1> DEFINE m == Head(messages)
<1> USE DEF NotificationInv
<1>1. messages \in Seq(AMessage) /\ messages # <<>>
  BY DEF NotificationTypeOK, IODispatchCalloutFromMessage
<1>2. /\ ~told /\ messages' = Tail(messages)
      /\ strayed' = (strayed \/ (m.callback /\ ~object.alive))
      /\ told' = (Heard(m) /\ Acknowledges(notifier) /\ HasHandler(m))
      /\ waiting' = (/\ waiting
                     /\ ~(Heard(m) /\ ~HasHandler(m) /\ AcknowledgedByLibrary(m)))
      /\ notifier' = notifier
  BY DEF IODispatchCalloutFromMessage
<1>3. messages' \in Seq(AMessage)
  BY <1>1, <1>2
<1>4. m = messages[1] /\ 1 \in DOMAIN messages
  BY <1>1
<1>5. ~object.alive => ~m.callback
  BY <1>4 DEF GoneAreNotNamed
<1>6. ~strayed'
  BY <1>2, <1>5
<1>7. \A i \in DOMAIN messages' : i + 1 \in DOMAIN messages /\ messages'[i] = messages[i + 1]
  BY <1>1, <1>2
<1>8. object.alive \/ \A i \in DOMAIN messages' : ~messages'[i].callback
  BY <1>7 DEF GoneAreNotNamed
<1>9. notifier = "PseudoAddressSpace" => "SkippedPacket" \in object.handlers
  BY <1>1 DEF SkipsAreHandled
<1>10. OneAtATime'
  <2>1. CASE Acknowledges(notifier)
    <3>1. waiting /\ Len(messages) = 1 /\ m.callback /\ object.alive
      BY <1>1, <1>2, <1>4, <1>5, <2>1 DEF OneAtATime
    <3>2. messages' = <<>>
      BY <1>1, <1>2, <3>1
    <3>3. CASE HasHandler(m)
      BY <1>2, <2>1, <3>1, <3>2, <3>3 DEF OneAtATime, Heard
    <3>4. CASE ~HasHandler(m)
      <4>1. AcknowledgedByLibrary(m)
        BY <1>9, <2>1, <3>4
           DEF AcknowledgedByLibrary, ListenerAcknowledges, PseudoAcknowledges,
               HasHandler, Acknowledges, Activates, NotificationTypeOK, NotifierKinds
      <4>2. QED
        BY <1>2, <2>1, <3>1, <3>2, <3>4, <4>1 DEF OneAtATime, Heard
    <3>5. QED
      BY <3>3, <3>4
  <2>2. CASE ~Acknowledges(notifier)
    BY <1>2, <2>2 DEF OneAtATime
  <2>3. QED
    BY <2>1, <2>2
<1>11. QED
  BY <1>3, <1>6, <1>8, <1>9, <1>10, MessageStep DEF IODispatchCalloutFromMessage

LEMMA ClientAcknowledges ==
    ASSUME NotificationInv, ClientCommandIsComplete
    PROVE  NotificationInv'
<1> USE DEF NotificationInv, ClientCommandIsComplete
<1>1. OneAtATime'
  BY DEF OneAtATime
<1>2. messages' \in Seq(AMessage) /\ ~strayed'
  BY DEF NotificationTypeOK
<1>3. QED
  BY <1>1, <1>2, MessageStep DEF SkipsAreHandled, GoneAreNotNamed

LEMMA ObjectReleased ==
    ASSUME NotificationInv, NotificationRisks = {}, Release
    PROVE  NotificationInv'
<1> USE DEF NotificationInv
<1>1. /\ turn = NoTurn /\ turn' = turn /\ notifier' = notifier
      /\ ~told /\ told' = told /\ strayed' = strayed
      /\ asyncRef' = [r \in RefNames |-> NoRef]
      /\ ~activated' /\ ~waiting'
      /\ object' = [[object EXCEPT !.alive = FALSE] EXCEPT !.mNotifyIsOn = FALSE]
  BY DEF Release
<1>2. /\ object' \in Objects /\ object'.alive = FALSE /\ object'.mNotifyIsOn = FALSE
  BY <1>1 DEF NotificationTypeOK, Objects
<1>3. CASE notifier = "Device"
  <2>1. messages' = <<>> /\ dispatcher' = [p \in Ports |-> NoDispatcher]
    BY <1>3 DEF Release, ClubPortsToDeath
  <2>2. NotificationTypeOK'
    BY <1>1, <1>2, <2>1
       DEF NotificationTypeOK, NoRef, References, NoDispatcher, ADispatcher
  <2>3. TurnsGoOn' /\ LibraryKnows' /\ SkipsAreHandled'
    BY <1>1, <1>2, <1>3, <2>1
       DEF TurnsGoOn, LibraryKnows, SkipsAreHandled, NoRef, NoTurn, Activates
  <2>4. OneAtATime' /\ GoneAreNotNamed' /\ ~strayed' /\ DispatchersServe'
    BY <1>1, <1>2, <2>1 DEF OneAtATime, GoneAreNotNamed, DispatchersServe, NoDispatcher
  <2>5. QED
    BY <2>2, <2>3, <2>4
<1>4. CASE notifier # "Device"
  <2>1. /\ messages' = messages /\ dispatcher' = dispatcher
        /\ \A i \in DOMAIN messages : ~messages[i].callback
    BY <1>4 DEF Release
  <2>2. NotificationTypeOK'
    BY <1>1, <1>2, <2>1 DEF NotificationTypeOK, NoRef, References
  <2>3. Acknowledges(notifier) => messages = <<>>
    BY <1>1, <2>1 DEF OneAtATime, NotificationTypeOK
  <2>4. TurnsGoOn' /\ LibraryKnows' /\ SkipsAreHandled'
    BY <1>1, <1>2, <2>1, <2>3
       DEF TurnsGoOn, LibraryKnows, SkipsAreHandled, NoRef, NoTurn, Acknowledges
  <2>5. OneAtATime' /\ GoneAreNotNamed' /\ ~strayed' /\ DispatchersServe'
    BY <1>1, <1>2, <2>1, <2>3 DEF OneAtATime, GoneAreNotNamed, DispatchersServe
  <2>6. QED
    BY <2>2, <2>4, <2>5
<1>5. QED
  BY <1>3, <1>4

LEMMA NotificationStep ==
    ASSUME NotificationInv, NotificationRisks = {}, [NotificationNext]_notificationVars
    PROVE  NotificationInv'
<1>1. CASE NotificationNext
  BY <1>1, Dispatchers, DispatcherStep, TurnBegins, SetRefStep, EndTurnStep,
     SetHandlerStep, MessageSent, PacketSent, MessageHandled, ClientAcknowledges,
     ObjectReleased DEF NotificationNext
<1>2. CASE UNCHANGED notificationVars
  BY <1>2, MessageStep
     DEF notificationVars, NotificationInv, NotificationTypeOK, OneAtATime,
         GoneAreNotNamed, SkipsAreHandled
<1>3. QED
  BY <1>1, <1>2

LEMMA NotificationInvTells ==
    ASSUME NotificationInv PROVE NotificationsAreSound
<1> USE DEF NotificationInv
<1>1. notifier # "IRMAllocation" => NotificationIsOnIsTrue
  <2> SUFFICES ASSUME notifier # "IRMAllocation", object.alive, turn = NoTurn
               PROVE  /\ object.mNotifyIsOn = (\A r \in SetOfRefs :
                                 asyncRef[r].port /\ asyncRef[r].callback)
                      /\ ~object.mNotifyIsOn => \A r \in SetOfRefs : ~asyncRef[r].callback
    BY DEF NotificationIsOnIsTrue
  <2>1. IF object.mNotifyIsOn THEN \A r \in SetOfRefs : IsOn(r)
        ELSE \A r \in SetOfRefs : ~asyncRef[r].callback
    BY DEF LibraryKnows, NoTurn
  <2>2. object.mNotifyIsOn \in BOOLEAN
    BY DEF NotificationTypeOK, Objects
  <2>3. SetOfRefs # {}
    BY SomeRef DEF NotificationTypeOK, SetOfRefs
  <2>4. QED
    BY <2>1, <2>2, <2>3 DEF IsOn
<1>2. WaitsForTheClient
  BY DEF WaitsForTheClient, OneAtATime, NotificationTypeOK
<1>3. QED
  BY <1>1, <1>2 DEF NotificationsAreSound

(* Whatever object notifies, however often its notifications are turned on *)
(* and off: the library's handlers are called while and only while they    *)
(* are set and turned on, and no acknowledgement is waited for in vain.    *)
THEOREM NotificationsSound ==
    NotificationRisks = {} => (NotificationSpec => []NotificationsAreSound)
<1> SUFFICES ASSUME NotificationRisks = {}
             PROVE  NotificationSpec => []NotificationsAreSound
  OBVIOUS
<1>1. NotificationInit => NotificationInv
  BY NotificationStart
<1>2. NotificationInv /\ [NotificationNext]_notificationVars => NotificationInv'
  BY NotificationStep
<1>3. NotificationInv => NotificationsAreSound
  BY NotificationInvTells
<1>4. QED
  BY <1>1, <1>2, <1>3, PTL DEF NotificationSpec

-----------------------------------------------------------------------------
(* Information about the bus.  What the work loop has stored in this        *)
(* generation is of this generation, and nothing is of a later one.        *)
FieldsAgree ==
    /\ changing \in {"nothing", "generation", "nub", "speeds", "local", "topology",
                    "bad", "resume"}
    /\ fields.local <= fBusGeneration /\ fields.irm <= fBusGeneration
    /\ fields.speed <= fBusGeneration
    /\ nub.generation <= fBusGeneration /\ nub.nodeID <= fBusGeneration
    /\ changing \notin {"generation", "nub", "speeds"} => fields.local = fBusGeneration
    /\ changing \in {"nothing", "resume", "topology"} => fields.speed = fBusGeneration
    /\ changing \in {"nothing", "resume"} => fields.irm = fBusGeneration
    /\ nub.generation = fBusGeneration =>
          changing # "generation" /\ (changing # "resume" => nub.nodeID = fBusGeneration)

StepNames == {"nubGeneration", "nubNodeID", "check", "local", "isAsked", "speed",
              "irm", "current"}

(* What is left of a call.                                                 *)
PastGeneration(call, left) ==
    Contains(call, "nubGeneration") /\ ~Contains(left, "nubGeneration")

OnlyCheck == <<"check">>
NodeIDThenCheck == <<"nubNodeID", "check">>
SpeedThenCheck == <<"speed", "check">>
LocalThenCheck == <<"local", "check">>
FromIsAsked == <<"isAsked", "nubNodeID", "check">>
FromLocal == <<"local", "speed", "check">>
FromNodeID == <<"nubNodeID", "local", "speed", "check">>
FromGeneration == <<"nubGeneration", "nubNodeID", "local", "speed", "check">>
OnlyIsAsked == <<"isAsked">>

IsLeftOf(call, left) ==
    \/ call = getGenerationAndNodeID
       /\ left \in {call, NodeIDThenCheck, OnlyCheck}
    \/ call = getLocalNodeIDWithGeneration
       /\ left \in {call, LocalThenCheck, OnlyCheck}
    \/ call = getRemoteNodeID
       /\ left \in {call, FromIsAsked, NodeIDThenCheck, OnlyCheck}
    \/ call = getSpeedToNode
       /\ left \in {call, FromGeneration, FromNodeID, FromLocal, SpeedThenCheck, OnlyCheck}
    \/ call = getSpeedBetweenNodes
       /\ left \in {call, SpeedThenCheck, OnlyCheck}
    \/ call = getIRMNodeID /\ left \in {call, OnlyIsAsked}
    \/ call = getBusGeneration /\ left = call

Queries ==
    [call : Seq(StepNames), asked : Nat, left : Seq(StepNames), generation : Nat,
     read : SUBSET Nat, early : BOOLEAN,
     status : {"none", "asking", "success", "kIOFireWireBusReset"}]

QueryTypeOK ==
    /\ fBusGeneration \in Nat \ {0}
    /\ fields \in [local : Nat, irm : Nat, speed : Nat]
    /\ nub \in [generation : Nat, nodeID : Nat]
    /\ query \in Queries

(* What a call has read so far, if the generation it goes by is still the  *)
(* present one.                                                            *)
AskedSoFar ==
    query.status = "asking" =>
    LET past == PastGeneration(query.call, query.left)
    IN  /\ IsLeftOf(query.call, query.left)
        /\ query.asked <= fBusGeneration /\ query.generation <= fBusGeneration
        /\ Generation = fBusGeneration /\ ~query.early =>
              query.read \subseteq {fBusGeneration}
        /\ query.read \subseteq 0..fBusGeneration
        /\ Contains(query.call, "nubGeneration") /\ ~past => query.read = {}
        /\ query.call = getBusGeneration => query.read = {}
        /\ past /\ query.generation = fBusGeneration => nub.generation = fBusGeneration
        /\ query.call = getRemoteNodeID /\ ~Contains(query.left, "isAsked")
              /\ past => query.generation = query.asked
        /\ query.call = getIRMNodeID /\ query.left # query.call =>
              /\ ~query.early => query.read \subseteq {query.generation}
              /\ query.read \subseteq 0..query.generation

QueryInv ==
    QueryTypeOK /\ FieldsAgree /\ AskedSoFar /\ AnswersAreOfTheirGeneration

(* The parts of each call, and which of them look at the nub's generation. *)
LEMMA LeftParts ==
    /\ Head(OnlyCheck) = "check" /\ Len(OnlyCheck) = 1
    /\ Head(NodeIDThenCheck) = "nubNodeID" /\ Len(NodeIDThenCheck) = 2
    /\ Head(SpeedThenCheck) = "speed" /\ Len(SpeedThenCheck) = 2
    /\ Head(LocalThenCheck) = "local" /\ Len(LocalThenCheck) = 2
    /\ Head(FromIsAsked) = "isAsked" /\ Len(FromIsAsked) = 3
    /\ Head(FromLocal) = "local" /\ Len(FromLocal) = 3
    /\ Head(FromNodeID) = "nubNodeID" /\ Len(FromNodeID) = 4
    /\ Head(FromGeneration) = "nubGeneration" /\ Len(FromGeneration) = 5
    /\ Head(OnlyIsAsked) = "isAsked" /\ Len(OnlyIsAsked) = 1
BY DEF OnlyCheck, NodeIDThenCheck, SpeedThenCheck, LocalThenCheck, FromIsAsked,
       FromLocal, FromNodeID, FromGeneration, OnlyIsAsked

LEMMA LeftTails ==
    /\ Tail(NodeIDThenCheck) = OnlyCheck
    /\ Tail(SpeedThenCheck) = OnlyCheck
    /\ Tail(LocalThenCheck) = OnlyCheck
    /\ Tail(FromIsAsked) = NodeIDThenCheck
    /\ Tail(FromLocal) = SpeedThenCheck
    /\ Tail(FromNodeID) = FromLocal
    /\ Tail(FromGeneration) = FromNodeID
BY DEF OnlyCheck, NodeIDThenCheck, SpeedThenCheck, LocalThenCheck, FromIsAsked,
       FromLocal, FromNodeID, FromGeneration, OnlyIsAsked

LEMMA CallParts ==
    /\ Head(getGenerationAndNodeID) = "nubGeneration" /\ Len(getGenerationAndNodeID) = 3
    /\ Head(getLocalNodeIDWithGeneration) = "check" /\ Len(getLocalNodeIDWithGeneration) = 3
    /\ Head(getRemoteNodeID) = "nubGeneration" /\ Len(getRemoteNodeID) = 4
    /\ Head(getSpeedToNode) = "check" /\ Len(getSpeedToNode) = 6
    /\ Head(getSpeedBetweenNodes) = "check" /\ Len(getSpeedBetweenNodes) = 3
    /\ Head(getIRMNodeID) = "irm" /\ Len(getIRMNodeID) = 2
    /\ Head(getBusGeneration) = "current" /\ Len(getBusGeneration) = 1
BY DEF OnlyCheck, NodeIDThenCheck, SpeedThenCheck, LocalThenCheck, FromIsAsked,
       FromLocal, FromNodeID, FromGeneration, OnlyIsAsked,
       getGenerationAndNodeID, getLocalNodeIDWithGeneration, getRemoteNodeID,
       getSpeedToNode, getSpeedBetweenNodes, getIRMNodeID, getBusGeneration

LEMMA CallTails ==
    /\ Tail(getGenerationAndNodeID) = NodeIDThenCheck
    /\ Tail(getLocalNodeIDWithGeneration) = LocalThenCheck
    /\ Tail(getRemoteNodeID) = FromIsAsked
    /\ Tail(getSpeedToNode) = FromGeneration
    /\ Tail(getSpeedBetweenNodes) = SpeedThenCheck
    /\ Tail(getIRMNodeID) = OnlyIsAsked
BY DEF OnlyCheck, NodeIDThenCheck, SpeedThenCheck, LocalThenCheck, FromIsAsked,
       FromLocal, FromNodeID, FromGeneration, OnlyIsAsked,
       getGenerationAndNodeID, getLocalNodeIDWithGeneration, getRemoteNodeID,
       getSpeedToNode, getSpeedBetweenNodes, getIRMNodeID, getBusGeneration

LEMMA PartsTyped ==
    /\ OnlyCheck \in Seq(StepNames)
    /\ NodeIDThenCheck \in Seq(StepNames)
    /\ SpeedThenCheck \in Seq(StepNames)
    /\ LocalThenCheck \in Seq(StepNames)
    /\ FromIsAsked \in Seq(StepNames)
    /\ FromLocal \in Seq(StepNames)
    /\ FromNodeID \in Seq(StepNames)
    /\ FromGeneration \in Seq(StepNames)
    /\ OnlyIsAsked \in Seq(StepNames)
    /\ getGenerationAndNodeID \in Seq(StepNames)
    /\ getLocalNodeIDWithGeneration \in Seq(StepNames)
    /\ getRemoteNodeID \in Seq(StepNames)
    /\ getSpeedToNode \in Seq(StepNames)
    /\ getSpeedBetweenNodes \in Seq(StepNames)
    /\ getIRMNodeID \in Seq(StepNames)
    /\ getBusGeneration \in Seq(StepNames)
<1>1. OnlyCheck \in Seq(StepNames)
  BY DEF StepNames, OnlyCheck
<1>2. NodeIDThenCheck \in Seq(StepNames)
  BY DEF StepNames, NodeIDThenCheck
<1>3. SpeedThenCheck \in Seq(StepNames)
  BY DEF StepNames, SpeedThenCheck
<1>4. LocalThenCheck \in Seq(StepNames)
  BY DEF StepNames, LocalThenCheck
<1>5. FromIsAsked \in Seq(StepNames)
  BY DEF StepNames, FromIsAsked
<1>6. FromLocal \in Seq(StepNames)
  BY DEF StepNames, FromLocal
<1>7. FromNodeID \in Seq(StepNames)
  BY DEF StepNames, FromNodeID
<1>8. FromGeneration \in Seq(StepNames)
  BY DEF StepNames, FromGeneration
<1>9. OnlyIsAsked \in Seq(StepNames)
  BY DEF StepNames, OnlyIsAsked
<1>10. getGenerationAndNodeID \in Seq(StepNames)
  BY DEF StepNames, getGenerationAndNodeID
<1>11. getLocalNodeIDWithGeneration \in Seq(StepNames)
  BY DEF StepNames, getLocalNodeIDWithGeneration
<1>12. getRemoteNodeID \in Seq(StepNames)
  BY DEF StepNames, getRemoteNodeID
<1>13. getSpeedToNode \in Seq(StepNames)
  BY DEF StepNames, getSpeedToNode
<1>14. getSpeedBetweenNodes \in Seq(StepNames)
  BY DEF StepNames, getSpeedBetweenNodes
<1>15. getIRMNodeID \in Seq(StepNames)
  BY DEF StepNames, getIRMNodeID
<1>16. getBusGeneration \in Seq(StepNames)
  BY DEF StepNames, getBusGeneration
<1>20. QED
  BY <1>1, <1>2, <1>3, <1>4, <1>5, <1>6, <1>7, <1>8,
     <1>9, <1>10, <1>11, <1>12, <1>13, <1>14, <1>15, <1>16

LEMMA PartsContain ==
    /\ ~Contains(OnlyCheck, "nubGeneration")
    /\ ~Contains(NodeIDThenCheck, "nubGeneration")
    /\ ~Contains(SpeedThenCheck, "nubGeneration")
    /\ ~Contains(LocalThenCheck, "nubGeneration")
    /\ ~Contains(FromIsAsked, "nubGeneration")
    /\ ~Contains(FromLocal, "nubGeneration")
    /\ ~Contains(FromNodeID, "nubGeneration")
    /\ Contains(FromGeneration, "nubGeneration")
    /\ ~Contains(OnlyIsAsked, "nubGeneration")
    /\ Contains(getGenerationAndNodeID, "nubGeneration")
    /\ ~Contains(getLocalNodeIDWithGeneration, "nubGeneration")
    /\ Contains(getRemoteNodeID, "nubGeneration")
    /\ Contains(getSpeedToNode, "nubGeneration")
    /\ ~Contains(getSpeedBetweenNodes, "nubGeneration")
    /\ ~Contains(getIRMNodeID, "nubGeneration")
    /\ ~Contains(getBusGeneration, "nubGeneration")
    /\ ~Contains(OnlyCheck, "isAsked")
    /\ ~Contains(NodeIDThenCheck, "isAsked")
    /\ Contains(FromIsAsked, "isAsked")
    /\ Contains(getRemoteNodeID, "isAsked")
<1>1. ~Contains(OnlyCheck, "nubGeneration")
  BY DEF Contains, OnlyCheck
<1>2. ~Contains(NodeIDThenCheck, "nubGeneration")
  BY DEF Contains, NodeIDThenCheck
<1>3. ~Contains(SpeedThenCheck, "nubGeneration")
  BY DEF Contains, SpeedThenCheck
<1>4. ~Contains(LocalThenCheck, "nubGeneration")
  BY DEF Contains, LocalThenCheck
<1>5. ~Contains(FromIsAsked, "nubGeneration")
  BY DEF Contains, FromIsAsked
<1>6. ~Contains(FromLocal, "nubGeneration")
  BY DEF Contains, FromLocal
<1>7. ~Contains(FromNodeID, "nubGeneration")
  BY DEF Contains, FromNodeID
<1>8. Contains(FromGeneration, "nubGeneration")
  <2>1. 1 \in 1..Len(FromGeneration) /\ FromGeneration[1] = "nubGeneration"
    BY DEF FromGeneration
  <2>2. QED
    BY <2>1 DEF Contains
<1>9. ~Contains(OnlyIsAsked, "nubGeneration")
  BY DEF Contains, OnlyIsAsked
<1>10. Contains(getGenerationAndNodeID, "nubGeneration")
  <2>1. 1 \in 1..Len(getGenerationAndNodeID) /\ getGenerationAndNodeID[1] = "nubGeneration"
    BY DEF getGenerationAndNodeID
  <2>2. QED
    BY <2>1 DEF Contains
<1>11. ~Contains(getLocalNodeIDWithGeneration, "nubGeneration")
  BY DEF Contains, getLocalNodeIDWithGeneration
<1>12. Contains(getRemoteNodeID, "nubGeneration")
  <2>1. 1 \in 1..Len(getRemoteNodeID) /\ getRemoteNodeID[1] = "nubGeneration"
    BY DEF getRemoteNodeID
  <2>2. QED
    BY <2>1 DEF Contains
<1>13. Contains(getSpeedToNode, "nubGeneration")
  <2>1. 2 \in 1..Len(getSpeedToNode) /\ getSpeedToNode[2] = "nubGeneration"
    BY DEF getSpeedToNode
  <2>2. QED
    BY <2>1 DEF Contains
<1>14. ~Contains(getSpeedBetweenNodes, "nubGeneration")
  BY DEF Contains, getSpeedBetweenNodes
<1>15. ~Contains(getIRMNodeID, "nubGeneration")
  BY DEF Contains, getIRMNodeID
<1>16. ~Contains(getBusGeneration, "nubGeneration")
  BY DEF Contains, getBusGeneration
<1>17. ~Contains(OnlyCheck, "isAsked")
  BY DEF Contains, OnlyCheck
<1>18. ~Contains(NodeIDThenCheck, "isAsked")
  BY DEF Contains, NodeIDThenCheck
<1>19. Contains(FromIsAsked, "isAsked")
  <2>1. 1 \in 1..Len(FromIsAsked) /\ FromIsAsked[1] = "isAsked"
    BY DEF FromIsAsked
  <2>2. QED
    BY <2>1 DEF Contains
<1>20. Contains(getRemoteNodeID, "isAsked")
  <2>1. 2 \in 1..Len(getRemoteNodeID) /\ getRemoteNodeID[2] = "isAsked"
    BY DEF getRemoteNodeID
  <2>2. QED
    BY <2>1 DEF Contains
<1>21. QED
  BY <1>1, <1>2, <1>3, <1>4, <1>5, <1>6, <1>7, <1>8, <1>9,
     <1>10, <1>11, <1>12, <1>13, <1>14, <1>15, <1>16, <1>17,
     <1>18, <1>19, <1>20

LEMMA CallsApart ==
    /\ getGenerationAndNodeID # getLocalNodeIDWithGeneration
    /\ getGenerationAndNodeID # getRemoteNodeID
    /\ getGenerationAndNodeID # getSpeedToNode
    /\ getGenerationAndNodeID # getSpeedBetweenNodes
    /\ getGenerationAndNodeID # getIRMNodeID
    /\ getGenerationAndNodeID # getBusGeneration
    /\ getLocalNodeIDWithGeneration # getRemoteNodeID
    /\ getLocalNodeIDWithGeneration # getSpeedToNode
    /\ getLocalNodeIDWithGeneration # getSpeedBetweenNodes
    /\ getLocalNodeIDWithGeneration # getIRMNodeID
    /\ getLocalNodeIDWithGeneration # getBusGeneration
    /\ getRemoteNodeID # getSpeedToNode
    /\ getRemoteNodeID # getSpeedBetweenNodes
    /\ getRemoteNodeID # getIRMNodeID
    /\ getRemoteNodeID # getBusGeneration
    /\ getSpeedToNode # getSpeedBetweenNodes
    /\ getSpeedToNode # getIRMNodeID
    /\ getSpeedToNode # getBusGeneration
    /\ getSpeedBetweenNodes # getIRMNodeID
    /\ getSpeedBetweenNodes # getBusGeneration
    /\ getIRMNodeID # getBusGeneration
<1>1. getLocalNodeIDWithGeneration # getSpeedBetweenNodes
  <2>1. LocalThenCheck # SpeedThenCheck
    BY LeftParts
  <2>2. QED
    BY <2>1, CallTails
<1>2. QED
  BY <1>1, CallParts

(* What a step h of a call leaves of it; n is how many there are.           *)
StepFits(call, left, h, rest, n) ==
    LET last == n = 1
        past == PastGeneration(call, left)
        nubs == Contains(call, "nubGeneration")
    IN  /\ ~last => /\ IsLeftOf(call, rest) /\ rest # call
                    /\ PastGeneration(call, rest) <=> past \/ h = "nubGeneration"
        /\ last => h \in {"check", "current", "isAsked"}
        /\ h = "nubGeneration" => /\ nubs /\ ~past
                                  /\ call = getSpeedToNode => left # call
        /\ h \in {"nubNodeID", "local", "speed"} => (nubs => past)
        /\ h = "nubNodeID" => nubs
        /\ h = "irm" => call = getIRMNodeID /\ ~nubs
        /\ h = "current" => call = getBusGeneration /\ last
        /\ call = getBusGeneration => last
        /\ h = "isAsked" => \/ call = getRemoteNodeID /\ past /\ ~last
                            \/ call = getIRMNodeID /\ left # call /\ last
        /\ h = "check" /\ last => /\ call \notin {getIRMNodeID, getBusGeneration}
                                  /\ nubs => past
                                  /\ call = getSpeedToNode => left # call
                                  /\ call = getRemoteNodeID => ~Contains(left, "isAsked")
        /\ h = "check" /\ ~last => ~past /\ left = call
        /\ call = getSpeedToNode /\ left = call => h = "check"
        /\ call = getRemoteNodeID /\ ~last /\ ~Contains(rest, "isAsked") =>
              h = "isAsked" \/ (past /\ ~Contains(left, "isAsked"))
        /\ call = getIRMNodeID /\ ~last => h = "irm"

LEMMA CallsTell ==
    ASSUME NEW call \in Calls
    PROVE  /\ call \in TellsGeneration /\ call # getBusGeneration
                => Contains(call, "nubGeneration")
           /\ call \in {getRemoteNodeID, getSpeedToNode, getIRMNodeID} =>
                call \notin TellsGeneration
           /\ call \notin TellsGeneration /\ Contains(call, "nubGeneration") =>
                call \in {getRemoteNodeID, getSpeedToNode}
           /\ call \in {getIRMNodeID, getBusGeneration} =>
                ~Contains(call, "nubGeneration")
BY PartsContain, CallsApart DEF TellsGeneration, Calls

LEMMA LeftTyped ==
    ASSUME NEW call, NEW left, IsLeftOf(call, left)
    PROVE  /\ left \in Seq(StepNames) /\ call \in Calls /\ left # <<>>
           /\ Head(left) \in StepNames /\ Tail(left) \in Seq(StepNames)
           /\ Len(left) \in Nat
<1>1. left \in Seq(StepNames) /\ call \in Calls
  BY PartsTyped DEF IsLeftOf, Calls
<1>2. left # <<>>
  <2>1. \/ left \in Calls
        \/ left \in {OnlyCheck, NodeIDThenCheck, SpeedThenCheck, LocalThenCheck,
                    FromIsAsked, FromLocal, FromNodeID, FromGeneration, OnlyIsAsked}
    BY DEF IsLeftOf, Calls
  <2>2. Len(left) # 0
    <3>1. CASE left \in Calls
      <4>1. /\ Len(getGenerationAndNodeID) # 0 /\ Len(getLocalNodeIDWithGeneration) # 0
            /\ Len(getRemoteNodeID) # 0 /\ Len(getSpeedToNode) # 0
            /\ Len(getSpeedBetweenNodes) # 0 /\ Len(getIRMNodeID) # 0
            /\ Len(getBusGeneration) # 0
        BY CallParts
      <4>2. QED
        BY <3>1, <4>1 DEF Calls
    <3>2. CASE left \notin Calls
      <4>1. /\ Len(OnlyCheck) # 0 /\ Len(NodeIDThenCheck) # 0
            /\ Len(SpeedThenCheck) # 0 /\ Len(LocalThenCheck) # 0
            /\ Len(FromIsAsked) # 0 /\ Len(FromLocal) # 0 /\ Len(FromNodeID) # 0
            /\ Len(FromGeneration) # 0 /\ Len(OnlyIsAsked) # 0
        BY LeftParts
      <4>2. QED
        BY <2>1, <3>2, <4>1
    <3>3. QED
      BY <3>1, <3>2
  <2>3. QED
    BY <2>2
<1>3. QED
  BY <1>1, <1>2

LEMMA StepsFit ==
    ASSUME NEW call, NEW left, IsLeftOf(call, left)
    PROVE  StepFits(call, left, Head(left), Tail(left), Len(left))
<1>1. CASE call = getGenerationAndNodeID /\ left = getGenerationAndNodeID
  <2>1. NodeIDThenCheck # getGenerationAndNodeID
    BY CallParts, LeftParts
  <2>2. StepFits(getGenerationAndNodeID, getGenerationAndNodeID, "nubGeneration", NodeIDThenCheck, 3)
    BY <2>1, PartsContain, CallsApart DEF StepFits, PastGeneration, IsLeftOf
  <2>3. QED
    BY <1>1, <2>2, CallParts, LeftParts, CallTails, LeftTails
<1>2. CASE call = getGenerationAndNodeID /\ left = NodeIDThenCheck
  <2>1. NodeIDThenCheck # getGenerationAndNodeID /\ OnlyCheck # getGenerationAndNodeID
    BY CallParts, LeftParts
  <2>2. StepFits(getGenerationAndNodeID, NodeIDThenCheck, "nubNodeID", OnlyCheck, 2)
    BY <2>1, PartsContain, CallsApart DEF StepFits, PastGeneration, IsLeftOf
  <2>3. QED
    BY <1>2, <2>2, CallParts, LeftParts, CallTails, LeftTails
<1>3. CASE call = getGenerationAndNodeID /\ left = OnlyCheck
  <2>1. OnlyCheck # getGenerationAndNodeID
    BY CallParts, LeftParts
  <2>2. StepFits(getGenerationAndNodeID, OnlyCheck, "check", Tail(OnlyCheck), 1)
    BY <2>1, PartsContain, CallsApart DEF StepFits, PastGeneration, IsLeftOf
  <2>3. QED
    BY <1>3, <2>2, CallParts, LeftParts, CallTails, LeftTails
<1>4. CASE call = getLocalNodeIDWithGeneration /\ left = getLocalNodeIDWithGeneration
  <2>1. LocalThenCheck # getLocalNodeIDWithGeneration
    BY CallParts, LeftParts
  <2>2. StepFits(getLocalNodeIDWithGeneration, getLocalNodeIDWithGeneration, "check", LocalThenCheck, 3)
    BY <2>1, PartsContain, CallsApart DEF StepFits, PastGeneration, IsLeftOf
  <2>3. QED
    BY <1>4, <2>2, CallParts, LeftParts, CallTails, LeftTails
<1>5. CASE call = getLocalNodeIDWithGeneration /\ left = LocalThenCheck
  <2>1. LocalThenCheck # getLocalNodeIDWithGeneration /\ OnlyCheck # getLocalNodeIDWithGeneration
    BY CallParts, LeftParts
  <2>2. StepFits(getLocalNodeIDWithGeneration, LocalThenCheck, "local", OnlyCheck, 2)
    BY <2>1, PartsContain, CallsApart DEF StepFits, PastGeneration, IsLeftOf
  <2>3. QED
    BY <1>5, <2>2, CallParts, LeftParts, CallTails, LeftTails
<1>6. CASE call = getLocalNodeIDWithGeneration /\ left = OnlyCheck
  <2>1. OnlyCheck # getLocalNodeIDWithGeneration
    BY CallParts, LeftParts
  <2>2. StepFits(getLocalNodeIDWithGeneration, OnlyCheck, "check", Tail(OnlyCheck), 1)
    BY <2>1, PartsContain, CallsApart DEF StepFits, PastGeneration, IsLeftOf
  <2>3. QED
    BY <1>6, <2>2, CallParts, LeftParts, CallTails, LeftTails
<1>7. CASE call = getRemoteNodeID /\ left = getRemoteNodeID
  <2>1. FromIsAsked # getRemoteNodeID
    BY CallParts, LeftParts
  <2>2. StepFits(getRemoteNodeID, getRemoteNodeID, "nubGeneration", FromIsAsked, 4)
    BY <2>1, PartsContain, CallsApart DEF StepFits, PastGeneration, IsLeftOf
  <2>3. QED
    BY <1>7, <2>2, CallParts, LeftParts, CallTails, LeftTails
<1>8. CASE call = getRemoteNodeID /\ left = FromIsAsked
  <2>1. FromIsAsked # getRemoteNodeID /\ NodeIDThenCheck # getRemoteNodeID
    BY CallParts, LeftParts
  <2>a. IsLeftOf(getRemoteNodeID, NodeIDThenCheck)
    BY DEF IsLeftOf
  <2>2. StepFits(getRemoteNodeID, FromIsAsked, "isAsked", NodeIDThenCheck, 3)
    BY <2>1, <2>a, PartsContain, CallsApart DEF StepFits, PastGeneration
  <2>3. QED
    BY <1>8, <2>2, CallParts, LeftParts, CallTails, LeftTails
<1>9. CASE call = getRemoteNodeID /\ left = NodeIDThenCheck
  <2>1. NodeIDThenCheck # getRemoteNodeID /\ OnlyCheck # getRemoteNodeID
    BY CallParts, LeftParts
  <2>2. StepFits(getRemoteNodeID, NodeIDThenCheck, "nubNodeID", OnlyCheck, 2)
    BY <2>1, PartsContain, CallsApart DEF StepFits, PastGeneration, IsLeftOf
  <2>3. QED
    BY <1>9, <2>2, CallParts, LeftParts, CallTails, LeftTails
<1>10. CASE call = getRemoteNodeID /\ left = OnlyCheck
  <2>1. OnlyCheck # getRemoteNodeID
    BY CallParts, LeftParts
  <2>2. StepFits(getRemoteNodeID, OnlyCheck, "check", Tail(OnlyCheck), 1)
    BY <2>1, PartsContain, CallsApart DEF StepFits, PastGeneration, IsLeftOf
  <2>3. QED
    BY <1>10, <2>2, CallParts, LeftParts, CallTails, LeftTails
<1>11. CASE call = getSpeedToNode /\ left = getSpeedToNode
  <2>1. FromGeneration # getSpeedToNode
    BY CallParts, LeftParts
  <2>2. StepFits(getSpeedToNode, getSpeedToNode, "check", FromGeneration, 6)
    BY <2>1, PartsContain, CallsApart DEF StepFits, PastGeneration, IsLeftOf
  <2>3. QED
    BY <1>11, <2>2, CallParts, LeftParts, CallTails, LeftTails
<1>12. CASE call = getSpeedToNode /\ left = FromGeneration
  <2>1. FromGeneration # getSpeedToNode /\ FromNodeID # getSpeedToNode
    BY CallParts, LeftParts
  <2>2. StepFits(getSpeedToNode, FromGeneration, "nubGeneration", FromNodeID, 5)
    BY <2>1, PartsContain, CallsApart DEF StepFits, PastGeneration, IsLeftOf
  <2>3. QED
    BY <1>12, <2>2, CallParts, LeftParts, CallTails, LeftTails
<1>13. CASE call = getSpeedToNode /\ left = FromNodeID
  <2>1. FromNodeID # getSpeedToNode /\ FromLocal # getSpeedToNode
    BY CallParts, LeftParts
  <2>2. StepFits(getSpeedToNode, FromNodeID, "nubNodeID", FromLocal, 4)
    BY <2>1, PartsContain, CallsApart DEF StepFits, PastGeneration, IsLeftOf
  <2>3. QED
    BY <1>13, <2>2, CallParts, LeftParts, CallTails, LeftTails
<1>14. CASE call = getSpeedToNode /\ left = FromLocal
  <2>1. FromLocal # getSpeedToNode /\ SpeedThenCheck # getSpeedToNode
    BY CallParts, LeftParts
  <2>2. StepFits(getSpeedToNode, FromLocal, "local", SpeedThenCheck, 3)
    BY <2>1, PartsContain, CallsApart DEF StepFits, PastGeneration, IsLeftOf
  <2>3. QED
    BY <1>14, <2>2, CallParts, LeftParts, CallTails, LeftTails
<1>15. CASE call = getSpeedToNode /\ left = SpeedThenCheck
  <2>1. SpeedThenCheck # getSpeedToNode /\ OnlyCheck # getSpeedToNode
    BY CallParts, LeftParts
  <2>2. StepFits(getSpeedToNode, SpeedThenCheck, "speed", OnlyCheck, 2)
    BY <2>1, PartsContain, CallsApart DEF StepFits, PastGeneration, IsLeftOf
  <2>3. QED
    BY <1>15, <2>2, CallParts, LeftParts, CallTails, LeftTails
<1>16. CASE call = getSpeedToNode /\ left = OnlyCheck
  <2>1. OnlyCheck # getSpeedToNode
    BY CallParts, LeftParts
  <2>2. StepFits(getSpeedToNode, OnlyCheck, "check", Tail(OnlyCheck), 1)
    BY <2>1, PartsContain, CallsApart DEF StepFits, PastGeneration, IsLeftOf
  <2>3. QED
    BY <1>16, <2>2, CallParts, LeftParts, CallTails, LeftTails
<1>17. CASE call = getSpeedBetweenNodes /\ left = getSpeedBetweenNodes
  <2>1. SpeedThenCheck # getSpeedBetweenNodes
    BY CallParts, LeftParts
  <2>2. StepFits(getSpeedBetweenNodes, getSpeedBetweenNodes, "check", SpeedThenCheck, 3)
    BY <2>1, PartsContain, CallsApart DEF StepFits, PastGeneration, IsLeftOf
  <2>3. QED
    BY <1>17, <2>2, CallParts, LeftParts, CallTails, LeftTails
<1>18. CASE call = getSpeedBetweenNodes /\ left = SpeedThenCheck
  <2>1. SpeedThenCheck # getSpeedBetweenNodes /\ OnlyCheck # getSpeedBetweenNodes
    BY CallParts, LeftParts
  <2>2. StepFits(getSpeedBetweenNodes, SpeedThenCheck, "speed", OnlyCheck, 2)
    BY <2>1, PartsContain, CallsApart DEF StepFits, PastGeneration, IsLeftOf
  <2>3. QED
    BY <1>18, <2>2, CallParts, LeftParts, CallTails, LeftTails
<1>19. CASE call = getSpeedBetweenNodes /\ left = OnlyCheck
  <2>1. OnlyCheck # getSpeedBetweenNodes
    BY CallParts, LeftParts
  <2>2. StepFits(getSpeedBetweenNodes, OnlyCheck, "check", Tail(OnlyCheck), 1)
    BY <2>1, PartsContain, CallsApart DEF StepFits, PastGeneration, IsLeftOf
  <2>3. QED
    BY <1>19, <2>2, CallParts, LeftParts, CallTails, LeftTails
<1>20. CASE call = getIRMNodeID /\ left = getIRMNodeID
  <2>1. OnlyIsAsked # getIRMNodeID
    BY CallParts, LeftParts
  <2>2. StepFits(getIRMNodeID, getIRMNodeID, "irm", OnlyIsAsked, 2)
    BY <2>1, PartsContain, CallsApart DEF StepFits, PastGeneration, IsLeftOf
  <2>3. QED
    BY <1>20, <2>2, CallParts, LeftParts, CallTails, LeftTails
<1>21. CASE call = getIRMNodeID /\ left = OnlyIsAsked
  <2>1. OnlyIsAsked # getIRMNodeID
    BY CallParts, LeftParts
  <2>2. StepFits(getIRMNodeID, OnlyIsAsked, "isAsked", Tail(OnlyIsAsked), 1)
    BY <2>1, PartsContain, CallsApart DEF StepFits, PastGeneration, IsLeftOf
  <2>3. QED
    BY <1>21, <2>2, CallParts, LeftParts, CallTails, LeftTails
<1>22. CASE call = getBusGeneration /\ left = getBusGeneration
  <2>2. StepFits(getBusGeneration, getBusGeneration, "current", Tail(getBusGeneration), 1)
    BY PartsContain, CallsApart DEF StepFits, PastGeneration, IsLeftOf
  <2>3. QED
    BY <1>22, <2>2, CallParts, LeftParts, CallTails, LeftTails
<1>23. QED
  BY <1>1, <1>2, <1>3, <1>4, <1>5, <1>6, <1>7, <1>8, <1>9, <1>10, <1>11, <1>12, <1>13, <1>14, <1>15, <1>16, <1>17, <1>18, <1>19, <1>20, <1>21, <1>22 DEF IsLeftOf

(* What a call has read when it succeeds.                                  *)
IsTold(q, given) == /\ ~q.early => q.read \subseteq {given}
                   /\ q.read \subseteq 0..given

(* A step of a call that goes on with q, what the call has then read.      *)
GoesOn(q, what) ==
    LET call == query.call
        last == Len(query.left) = 1
        past == PastGeneration(call, query.left) \/ what = "nubGeneration"
    IN  /\ q \in Queries /\ q.call = call /\ q.left = query.left
        /\ q.asked = query.asked /\ q.status = "asking"
        /\ q.generation <= fBusGeneration
        /\ (IF past THEN q.generation ELSE q.asked) = fBusGeneration /\ ~q.early =>
              q.read \subseteq {fBusGeneration}
        /\ q.read \subseteq 0..fBusGeneration
        /\ Contains(call, "nubGeneration") /\ ~past => q.read = {}
        /\ call = getBusGeneration => q.read = {}
        /\ past /\ q.generation = fBusGeneration => nub.generation = fBusGeneration
        /\ call = getRemoteNodeID /\ ~last /\ ~Contains(Tail(query.left), "isAsked") =>
              q.generation = q.asked
        /\ call = getIRMNodeID /\ ~last => IsTold(q, q.generation)
        /\ last => IsTold(q, IF call \in TellsGeneration \cup {getSpeedToNode}
                             THEN q.generation ELSE q.asked)

LEMMA WentOn ==
    ASSUME QueryInv, query.status = "asking",
           UNCHANGED <<fBusGeneration, fields, nub, changing>>,
           NEW q, GoesOn(q, Head(query.left)), query' = Went(q)
    PROVE  QueryInv'
<1> DEFINE call == query.call
           left == query.left
           rest == Tail(left)
           status == IF Len(left) = 1 THEN "success" ELSE "asking"
<1>1. /\ IsLeftOf(call, left) /\ StepFits(call, left, Head(left), rest, Len(left))
      /\ rest \in Seq(StepNames) /\ Len(left) \in Nat
  BY StepsFit, LeftTyped DEF QueryInv, AskedSoFar
<1>2. /\ q \in Queries /\ q.call = call /\ q.left = left /\ q.asked = query.asked
      /\ q.status = "asking"
  BY DEF GoesOn
<1>3. query' = [[q EXCEPT !.left = rest] EXCEPT !.status = status]
  BY <1>2 DEF Went
<1>4. status \in {"success", "asking"}
  OBVIOUS
<1>5. /\ query' \in Queries /\ query'.call = call /\ query'.left = rest
      /\ query'.asked = q.asked /\ query'.generation = q.generation
      /\ query'.read = q.read /\ query'.early = q.early /\ query'.status = status
  <2> HIDE DEF status, rest
  <2>1. QED
    BY <1>1, <1>2, <1>3, <1>4 DEF Queries
<1>6. QueryTypeOK' /\ FieldsAgree'
  BY <1>5 DEF QueryInv, QueryTypeOK, FieldsAgree
<1>7. CASE Len(left) = 1
  <2>1. query'.status = "success"
    BY <1>5, <1>7
  <2>2. AskedSoFar'
    BY <2>1 DEF AskedSoFar
  <2>3. IsTold(q, GenerationMeant')
    BY <1>5, <1>7 DEF GoesOn, GenerationMeant
  <2>4. AnswersAreOfTheirGeneration'
    BY <1>5, <2>3 DEF AnswersAreOfTheirGeneration, IsTold
  <2>5. QED
    BY <1>6, <2>2, <2>4 DEF QueryInv
<1>8. CASE Len(left) # 1
  <2>1. query'.status = "asking"
    BY <1>5, <1>8
  <2>2. AnswersAreOfTheirGeneration'
    BY <2>1 DEF AnswersAreOfTheirGeneration
  <2>3. /\ IsLeftOf(call, rest) /\ rest # call
        /\ PastGeneration(call, rest) <=>
              PastGeneration(call, left) \/ Head(left) = "nubGeneration"
    BY <1>1, <1>8 DEF StepFits
  <2>4. Generation' = IF PastGeneration(call, rest) THEN q.generation ELSE q.asked
    BY <1>5 DEF Generation, PastGeneration
  <2>5. PastGeneration(query'.call, query'.left) = PastGeneration(call, rest)
    BY <1>5
  <2>6. query'.asked <= fBusGeneration'
    BY <1>2, <1>5, <2>1 DEF QueryInv, AskedSoFar
  <2> DEFINE past == PastGeneration(call, rest)
  <2>7. /\ q.generation <= fBusGeneration
        /\ (IF past THEN q.generation ELSE q.asked) = fBusGeneration /\ ~q.early =>
              q.read \subseteq {fBusGeneration}
        /\ q.read \subseteq 0..fBusGeneration
        /\ Contains(call, "nubGeneration") /\ ~past => q.read = {}
        /\ call = getBusGeneration => q.read = {}
        /\ past /\ q.generation = fBusGeneration => nub.generation = fBusGeneration
        /\ call = getRemoteNodeID /\ ~Contains(rest, "isAsked") => q.generation = q.asked
        /\ call = getIRMNodeID => /\ ~q.early => q.read \subseteq {q.generation}
                                  /\ q.read \subseteq 0..q.generation
    BY <1>8, <2>3 DEF GoesOn, IsTold
  <2> HIDE DEF past, rest, call, left, status
  <2>8. AskedSoFar'
    BY <1>5, <2>3, <2>4, <2>5, <2>6, <2>7 DEF AskedSoFar, past
  <2>9. QED
    BY <1>6, <2>2, <2>8 DEF QueryInv
<1>9. QED
  BY <1>7, <1>8

LEMMA RefusedStep ==
    ASSUME QueryInv, UNCHANGED <<fBusGeneration, fields, nub, changing>>,
           query' = Refused
    PROVE  QueryInv'
<1>1. query' \in Queries /\ query'.status = "kIOFireWireBusReset"
  BY DEF Refused, QueryInv, QueryTypeOK, Queries
<1>2. QueryTypeOK' /\ FieldsAgree'
  BY <1>1 DEF QueryInv, QueryTypeOK, FieldsAgree
<1>3. AskedSoFar' /\ AnswersAreOfTheirGeneration'
  BY <1>1 DEF AskedSoFar, AnswersAreOfTheirGeneration
<1>4. QED
  BY <1>2, <1>3 DEF QueryInv

(* What holds when a call takes a step.                                    *)
Steps(what) ==
    LET call == query.call
        last == Len(query.left) = 1
        past == PastGeneration(call, query.left)
    IN  /\ query.status = "asking" /\ Head(query.left) = what
        /\ UNCHANGED <<fBusGeneration, fields, nub, changing>>
        /\ what = "irm" => changing \in {"nothing", "bad"}
        /\ query \in Queries /\ call \in Calls
        /\ StepFits(call, query.left, what, Tail(query.left), Len(query.left))
        /\ Generation = IF past THEN query.generation ELSE query.asked
        /\ query.asked <= fBusGeneration /\ query.generation <= fBusGeneration
        /\ query.read \subseteq 0..fBusGeneration
        /\ fBusGeneration \in Nat

LEMMA NextStepSteps ==
    ASSUME QueryInv, NEW what, NextStep(what)
    PROVE  Steps(what)
<1>1. query.status = "asking" /\ Head(query.left) = what
      /\ UNCHANGED <<fBusGeneration, fields, nub, changing>>
      /\ (what = "irm" => changing \in {"nothing", "bad"})
  BY DEF NextStep, MayRead
<1>2. IsLeftOf(query.call, query.left)
  BY <1>1 DEF QueryInv, AskedSoFar
<1>3. /\ StepFits(query.call, query.left, what, Tail(query.left), Len(query.left))
      /\ query.call \in Calls
  BY <1>1, <1>2, StepsFit, LeftTyped
<1>4. Generation = IF PastGeneration(query.call, query.left) THEN query.generation
                   ELSE query.asked
  BY DEF Generation, PastGeneration
<1>5. /\ query.asked <= fBusGeneration /\ query.generation <= fBusGeneration
      /\ query.read \subseteq 0..fBusGeneration
  BY <1>1 DEF QueryInv, AskedSoFar
<1>6. QED
  BY <1>1, <1>3, <1>4, <1>5 DEF Steps, QueryInv, QueryTypeOK

LEMMA CheckStep ==
    ASSUME QueryInv, checkGeneration
    PROVE  QueryInv'
<1>1. Steps("check")
  BY NextStepSteps DEF checkGeneration
<1>2. CASE Generation # fBusGeneration
  BY <1>1, <1>2, RefusedStep DEF checkGeneration, Steps
<1>3. CASE Generation = fBusGeneration
  <2> DEFINE call == query.call
             past == PastGeneration(call, query.left)
  <2>1. query' = Went(query)
    BY <1>3 DEF checkGeneration
  <2>2. IsTold(query, fBusGeneration)
    BY <1>1, <1>3 DEF QueryInv, AskedSoFar, Steps, IsTold
  <2>3. /\ call = getBusGeneration => query.read = {}
        /\ Contains(call, "nubGeneration") /\ ~past => query.read = {}
        /\ past /\ query.generation = fBusGeneration => nub.generation = fBusGeneration
    BY <1>1 DEF QueryInv, AskedSoFar, Steps
  <2>4. call = getRemoteNodeID /\ Len(query.left) # 1
           /\ ~Contains(Tail(query.left), "isAsked") => query.generation = query.asked
    BY <1>1 DEF QueryInv, AskedSoFar, Steps, StepFits
  <2>5. call = getIRMNodeID => Len(query.left) = 1
    BY <1>1 DEF Steps, StepFits
  <2>6. Len(query.left) = 1 =>
           (IF call \in TellsGeneration \cup {getSpeedToNode}
            THEN query.generation ELSE query.asked) = fBusGeneration
    <3> SUFFICES ASSUME Len(query.left) = 1
                 PROVE  (IF call \in TellsGeneration \cup {getSpeedToNode}
                         THEN query.generation ELSE query.asked) = fBusGeneration
      OBVIOUS
    <3>1. /\ call \notin {getIRMNodeID, getBusGeneration}
          /\ Contains(call, "nubGeneration") => past
          /\ call = getRemoteNodeID => ~Contains(query.left, "isAsked")
      BY <1>1 DEF Steps, StepFits
    <3>2. CASE call \in TellsGeneration
      BY <1>1, <1>3, <3>1, <3>2, CallsTell DEF Steps
    <3>3. CASE call \notin TellsGeneration /\ Contains(call, "nubGeneration")
      <4>1. call \in {getRemoteNodeID, getSpeedToNode} /\ past
        BY <1>1, <3>1, <3>3, CallsTell DEF Steps
      <4>2. query.generation = fBusGeneration
        BY <1>1, <1>3, <4>1 DEF Steps
      <4>3. call = getRemoteNodeID => query.generation = query.asked
        BY <1>1, <3>1, <4>1 DEF Steps, QueryInv, AskedSoFar
      <4>4. QED
        BY <4>1, <4>2, <4>3
    <3>4. CASE call \notin TellsGeneration /\ ~Contains(call, "nubGeneration")
      <4>1. ~past /\ query.asked = fBusGeneration
        BY <1>1, <1>3, <3>4 DEF Steps, PastGeneration
      <4>2. call # getSpeedToNode
        BY <3>4, PartsContain
      <4>3. QED
        BY <3>4, <4>1, <4>2
    <3>5. QED
      BY <3>2, <3>3, <3>4
  <2>7. GoesOn(query, "check")
    BY <1>1, <1>3, <2>2, <2>3, <2>4, <2>5, <2>6 DEF GoesOn, Steps, IsTold
  <2>8. QED
    BY <1>1, <2>1, <2>7, WentOn DEF Steps
<1>4. QED
  BY <1>2, <1>3

(* Reading a part that is of the present generation if it is not due and   *)
(* the call goes by the present generation.                                *)
LEMMA PartStep ==
    ASSUME QueryInv, NEW what \in {"nubNodeID", "local", "speed"}, Steps(what),
           NEW value \in Nat, value <= fBusGeneration, query' = ReadPart(what, value),
           Generation = fBusGeneration /\ ~IsDue(what) => value = fBusGeneration
    PROVE  QueryInv'
<1> DEFINE call == query.call
           past == PastGeneration(call, query.left)
           read == query.read \cup {value}
           early == query.early \/ IsDue(what)
           q == [query EXCEPT !.read = read, !.early = early]
<1>1. /\ query.read \in SUBSET Nat /\ query.early \in BOOLEAN
      /\ query' = Went(q)
  BY DEF Steps, ReadPart, Queries
<1>2. early \in BOOLEAN /\ read \in SUBSET Nat
  BY <1>1
<1>3. ~early => ~query.early /\ ~IsDue(what)
  OBVIOUS
<1>4. read \subseteq 0..fBusGeneration
  BY DEF Steps
<1>5. Generation = fBusGeneration /\ ~early => read \subseteq {fBusGeneration}
  BY <1>3 DEF QueryInv, AskedSoFar, Steps
<1> HIDE DEF read, early
<1>6. /\ q \in Queries /\ q.call = call /\ q.left = query.left /\ q.asked = query.asked
      /\ q.status = "asking" /\ q.generation = query.generation /\ q.read = read
      /\ q.early = early
  BY <1>2 DEF Steps, Queries
<1> HIDE DEF q
<1>7. /\ Len(query.left) # 1
      /\ Contains(call, "nubGeneration") => past
      /\ call \notin {getBusGeneration, getIRMNodeID}
      /\ call = getRemoteNodeID /\ ~Contains(Tail(query.left), "isAsked") =>
            past /\ ~Contains(query.left, "isAsked")
  BY DEF Steps, StepFits
<1>8. past /\ query.generation = fBusGeneration => nub.generation = fBusGeneration
  BY DEF QueryInv, AskedSoFar, Steps
<1>9. call = getRemoteNodeID /\ ~Contains(Tail(query.left), "isAsked") =>
         query.generation = query.asked
  BY <1>7 DEF QueryInv, AskedSoFar, Steps
<1>10. GoesOn(q, what)
  BY <1>4, <1>5, <1>6, <1>7, <1>8, <1>9 DEF GoesOn, Steps
<1>11. QED
  BY <1>1, <1>10, WentOn DEF Steps

LEMMA ReadNodeIDStep ==
    ASSUME QueryInv, ReadNodeID PROVE QueryInv'
<1>1. Steps("nubNodeID") /\ query' = ReadPart("nubNodeID", nub.nodeID)
  BY NextStepSteps DEF ReadNodeID
<1>2. nub.nodeID \in Nat /\ nub.nodeID <= fBusGeneration
  BY DEF QueryInv, QueryTypeOK, FieldsAgree
<1>3. PastGeneration(query.call, query.left)
  BY <1>1 DEF Steps, StepFits
<1>4. Generation = fBusGeneration => nub.generation = fBusGeneration
  BY <1>1, <1>3 DEF Steps, QueryInv, AskedSoFar
<1>5. ~IsDue("nubNodeID") => changing # "resume"
  BY DEF IsDue
<1>6. Generation = fBusGeneration /\ ~IsDue("nubNodeID") => nub.nodeID = fBusGeneration
  BY <1>4, <1>5 DEF QueryInv, FieldsAgree
<1>7. QED
  BY <1>1, <1>2, <1>6, PartStep

LEMMA ReadControllerStep ==
    ASSUME QueryInv, ReadLocalNodeID \/ ReadSpeed PROVE QueryInv'
<1>1. /\ fields.local \in Nat /\ fields.local <= fBusGeneration
      /\ fields.speed \in Nat /\ fields.speed <= fBusGeneration
  BY DEF QueryInv, QueryTypeOK, FieldsAgree
<1>2. CASE ReadLocalNodeID
  <2>1. Steps("local") /\ query' = ReadPart("local", fields.local)
    BY <1>2, NextStepSteps DEF ReadLocalNodeID
  <2>2. ~IsDue("local") => fields.local = fBusGeneration
    BY DEF IsDue, QueryInv, FieldsAgree
  <2>3. QED
    BY <1>1, <2>1, <2>2, PartStep
<1>3. CASE ReadSpeed
  <2>1. Steps("speed") /\ query' = ReadPart("speed", fields.speed)
    BY <1>3, NextStepSteps DEF ReadSpeed
  <2>2. ~IsDue("speed") => fields.speed = fBusGeneration
    BY DEF IsDue, QueryInv, FieldsAgree
  <2>3. QED
    BY <1>1, <2>1, <2>2, PartStep
<1>4. QED
  BY <1>2, <1>3

LEMMA ReadGenerationStep ==
    ASSUME QueryInv, ReadGeneration PROVE QueryInv'
<1> DEFINE call == query.call
<1>1. CASE NextStep("nubGeneration") /\ query' = Went([query EXCEPT !.generation = nub.generation])
  <2> DEFINE g == nub.generation
             q == [query EXCEPT !.generation = g]
  <2>1. Steps("nubGeneration") /\ query' = Went(q)
    BY <1>1, NextStepSteps
  <2>2. g \in Nat /\ g <= fBusGeneration /\ (g = fBusGeneration => nub.generation = fBusGeneration)
    BY DEF QueryInv, QueryTypeOK, FieldsAgree
  <2> HIDE DEF g
  <2>3. /\ q \in Queries /\ q.call = call /\ q.left = query.left
        /\ q.asked = query.asked /\ q.status = "asking"
        /\ q.generation = g /\ q.read = query.read
    BY <2>1, <2>2 DEF Steps, Queries
  <2> HIDE DEF q
  <2>4. /\ Contains(call, "nubGeneration") /\ Len(query.left) # 1
        /\ ~PastGeneration(call, query.left)
        /\ call \notin {getBusGeneration, getIRMNodeID}
        /\ call = getRemoteNodeID => Contains(Tail(query.left), "isAsked")
    BY <2>1 DEF Steps, StepFits
  <2>5. query.read = {}
    BY <2>1, <2>4 DEF Steps, QueryInv, AskedSoFar
  <2>6. GoesOn(q, "nubGeneration")
    BY <2>1, <2>2, <2>3, <2>4, <2>5 DEF GoesOn
  <2>7. QED
    BY <2>1, <2>6, WentOn DEF Steps
<1>2. CASE NextStep("current") /\ query' = Went([query EXCEPT !.generation = fBusGeneration])
  <2> DEFINE q == [query EXCEPT !.generation = fBusGeneration]
  <2>1. Steps("current") /\ query' = Went(q)
    BY <1>2, NextStepSteps
  <2>2. /\ q \in Queries /\ q.call = call /\ q.left = query.left
        /\ q.asked = query.asked /\ q.status = "asking"
        /\ q.generation = fBusGeneration /\ q.read = query.read
    BY <2>1 DEF Steps, Queries
  <2> HIDE DEF q
  <2>3. call = getBusGeneration /\ Len(query.left) = 1
    BY <2>1 DEF Steps, StepFits
  <2>4. query.read = {} /\ ~Contains(call, "nubGeneration")
    BY <2>1, <2>3, CallsTell DEF Steps, QueryInv, AskedSoFar
  <2>5. call \notin {getSpeedToNode, getRemoteNodeID, getIRMNodeID}
    BY <2>3, CallsApart
  <2>6. ~PastGeneration(call, query.left)
    BY <2>4 DEF PastGeneration
  <2>7. GoesOn(q, "current")
    BY <2>1, <2>2, <2>3, <2>4, <2>5, <2>6 DEF GoesOn, Steps, IsTold
  <2>8. QED
    BY <2>1, <2>7, WentOn DEF Steps
<1>3. QED
  BY <1>1, <1>2 DEF ReadGeneration

LEMMA IsAskedStep ==
    ASSUME QueryInv, IsAsked PROVE QueryInv'
<1> DEFINE call == query.call
           past == PastGeneration(call, query.left)
<1>1. Steps("isAsked")
  BY NextStepSteps DEF IsAsked
<1>2. CASE query.generation # query.asked
  BY <1>1, <1>2, RefusedStep DEF IsAsked, Steps
<1>3. CASE query.generation = query.asked
  <2>1. query' = Went(query)
    BY <1>3 DEF IsAsked
  <2>2. \/ call = getRemoteNodeID /\ past /\ Len(query.left) # 1
        \/ call = getIRMNodeID /\ query.left # call /\ Len(query.left) = 1
    BY <1>1 DEF Steps, StepFits
  <2>3. call # getSpeedToNode /\ call # getBusGeneration
    BY <2>2, CallsApart
  <2>4. /\ (IF past THEN query.generation ELSE query.asked) = fBusGeneration
              /\ ~query.early => query.read \subseteq {fBusGeneration}
        /\ Contains(call, "nubGeneration") /\ ~past => query.read = {}
        /\ past /\ query.generation = fBusGeneration => nub.generation = fBusGeneration
    BY <1>1 DEF Steps, QueryInv, AskedSoFar
  <2>5. Len(query.left) = 1 => IsTold(query, query.asked) /\ call \notin TellsGeneration
    BY <1>1, <1>3, <2>2, CallsTell DEF Steps, QueryInv, AskedSoFar, IsTold
  <2>6. call = getIRMNodeID => Len(query.left) = 1
    BY <2>2, CallsApart
  <2>7. GoesOn(query, "isAsked")
    BY <1>1, <1>3, <2>2, <2>3, <2>4, <2>5, <2>6 DEF GoesOn, Steps
  <2>8. QED
    BY <1>1, <2>1, <2>7, WentOn DEF Steps
<1>4. QED
  BY <1>2, <1>3

LEMMA ReadIRMStep ==
    ASSUME QueryInv, ReadIRMNodeID PROVE QueryInv'
<1> DEFINE call == query.call
           read == {fields.irm}
           early == IsDue("irm")
           q == [query EXCEPT !.read = read, !.early = early, !.generation = fBusGeneration]
<1>1. Steps("irm") /\ query' = Went(q)
  BY NextStepSteps DEF ReadIRMNodeID
<1>2. /\ read \in SUBSET Nat /\ read \subseteq 0..fBusGeneration /\ fBusGeneration \in Nat
      /\ early \in BOOLEAN
  BY <1>1 DEF QueryInv, QueryTypeOK, FieldsAgree, IsDue
<1>3. ~early => read \subseteq {fBusGeneration}
  BY <1>1 DEF QueryInv, FieldsAgree, IsDue, Steps
<1> HIDE DEF read, early
<1>4. /\ q \in Queries /\ q.call = call /\ q.left = query.left
      /\ q.asked = query.asked /\ q.status = "asking"
      /\ q.generation = fBusGeneration /\ q.read = read /\ q.early = early
  BY <1>1, <1>2 DEF Steps, Queries
<1> HIDE DEF q
<1>5. /\ call = getIRMNodeID /\ ~Contains(call, "nubGeneration")
      /\ Len(query.left) # 1
  BY <1>1 DEF Steps, StepFits
<1>6. call \notin {getSpeedToNode, getRemoteNodeID, getBusGeneration}
  BY <1>5, CallsApart
<1>7. ~PastGeneration(call, query.left)
  BY <1>5 DEF PastGeneration
<1>8. GoesOn(q, "irm")
  BY <1>1, <1>2, <1>3, <1>4, <1>5, <1>6, <1>7 DEF GoesOn, Steps, IsTold
<1>9. QED
  BY <1>1, <1>8, WentOn DEF Steps

LEMMA AskStep ==
    ASSUME QueryInv, Ask PROVE QueryInv'
<1>1. PICK call \in Calls, asked \in 1 .. fBusGeneration :
         query' = [NoQuery EXCEPT !.call = call, !.left = call,
                                  !.status = "asking", !.asked = asked]
  BY DEF Ask
<1>2. UNCHANGED <<fBusGeneration, fields, nub, changing>> /\ fBusGeneration \in Nat
  BY DEF Ask, QueryInv, QueryTypeOK
<1>3. call \in Seq(StepNames) /\ asked \in Nat /\ asked <= fBusGeneration
  BY <1>2, PartsTyped DEF Calls
<1>4. query' = [call |-> call, asked |-> asked, left |-> call, generation |-> 0,
               read |-> {}, early |-> FALSE, status |-> "asking"]
  BY <1>1 DEF NoQuery
<1>5. /\ query' \in Queries /\ query'.call = call /\ query'.left = call
      /\ query'.asked = asked /\ query'.generation = 0 /\ query'.read = {}
      /\ query'.status = "asking"
  BY <1>3, <1>4 DEF Queries
<1>6. QueryTypeOK' /\ FieldsAgree'
  BY <1>2, <1>5 DEF QueryInv, QueryTypeOK, FieldsAgree
<1>7. IsLeftOf(call, call)
  BY DEF Calls, IsLeftOf
<1>8. ~PastGeneration(call, call)
  BY DEF PastGeneration
<1>9. AskedSoFar'
  BY <1>2, <1>3, <1>5, <1>7, <1>8 DEF AskedSoFar, PastGeneration
<1>10. AnswersAreOfTheirGeneration'
  BY <1>5 DEF AnswersAreOfTheirGeneration
<1>11. QED
  BY <1>6, <1>9, <1>10 DEF QueryInv

(* A bus reset: no call that goes on is about the new generation.          *)
LEMMA GenerationStep ==
    ASSUME QueryInv, IncrementGeneration PROVE QueryInv'
<1>1. /\ changing' = "generation"
      /\ fBusGeneration \in Nat /\ fBusGeneration' = fBusGeneration + 1
      /\ UNCHANGED <<fields, nub, query>>
  BY DEF IncrementGeneration, Stores, QueryInv, QueryTypeOK
<1>2. QueryTypeOK' /\ FieldsAgree'
  BY <1>1 DEF QueryInv, QueryTypeOK, FieldsAgree
<1>3. Generation' = Generation
  BY <1>1 DEF Generation
<1>4. query.status = "asking" =>
         Generation <= fBusGeneration /\ Generation \in Nat
  BY DEF Generation, QueryInv, QueryTypeOK, Queries, AskedSoFar
<1>5. AskedSoFar'
  <2> SUFFICES ASSUME query'.status = "asking" PROVE AskedSoFar'
    BY DEF AskedSoFar
  <2>1. /\ query.status = "asking" /\ query.asked \in Nat /\ query.generation \in Nat
        /\ query.asked <= fBusGeneration /\ query.generation <= fBusGeneration
        /\ query.read \subseteq 0..fBusGeneration
    BY <1>1 DEF QueryInv, AskedSoFar, QueryTypeOK, Queries
  <2>2. /\ query.generation # fBusGeneration'
        /\ query.asked <= fBusGeneration' /\ query.generation <= fBusGeneration'
        /\ Generation' # fBusGeneration'
        /\ query.read \subseteq 0..fBusGeneration'
    BY <1>1, <1>3, <1>4, <2>1
  <2>3. QED
    BY <1>1, <2>1, <2>2 DEF QueryInv, AskedSoFar
<1>6. AnswersAreOfTheirGeneration'
  BY <1>1 DEF AnswersAreOfTheirGeneration, GenerationMeant, QueryInv
<1>7. QED
  BY <1>2, <1>5, <1>6 DEF QueryInv

(* The other stores of the work loop leave the nub of this generation what *)
(* it is.                                                                  *)
LEMMA StoreStep ==
    ASSUME QueryInv, UNCHANGED <<fBusGeneration, query>>, FieldsAgree',
           fields' \in [local : Nat, irm : Nat, speed : Nat],
           nub' \in [generation : Nat, nodeID : Nat],
           nub.generation = fBusGeneration => nub'.generation = fBusGeneration
    PROVE  QueryInv'
<1>1. QueryTypeOK' /\ AnswersAreOfTheirGeneration' /\ Generation' = Generation
  BY DEF QueryInv, QueryTypeOK, AnswersAreOfTheirGeneration, GenerationMeant, Generation
<1>2. fBusGeneration' = fBusGeneration /\ query' = query
  OBVIOUS
<1>3. AskedSoFar'
  BY <1>1, <1>2 DEF QueryInv, AskedSoFar
<1>4. QED
  BY <1>1, <1>3 DEF QueryInv

LEMMA WorkLoopStep ==
    ASSUME QueryInv,
           \/ SuspendNub \/ InvalidateSpeeds \/ SetLocalNodeID \/ StoreSpeeds
           \/ BadSelfIDs \/ SetIRMNodeID \/ ResumeGeneration \/ ResumeNodeID
    PROVE  QueryInv'
<1>1. /\ fields \in [local : Nat, irm : Nat, speed : Nat]
      /\ nub \in [generation : Nat, nodeID : Nat] /\ fBusGeneration \in Nat
      /\ fBusGeneration - 1 \in Nat
  BY DEF QueryInv, QueryTypeOK
<1>2. FieldsAgree
  BY DEF QueryInv
<1>3. CASE SuspendNub
  BY <1>1, <1>2, <1>3, StoreStep DEF SuspendNub, SuspendedAs, Stores, FieldsAgree
<1>4. CASE InvalidateSpeeds
  BY <1>1, <1>2, <1>4, StoreStep DEF InvalidateSpeeds, Stores, FieldsAgree
<1>5. CASE SetLocalNodeID
  BY <1>1, <1>2, <1>5, StoreStep DEF SetLocalNodeID, Stores, FieldsAgree
<1>6. CASE StoreSpeeds
  BY <1>1, <1>2, <1>6, StoreStep DEF StoreSpeeds, Stores, FieldsAgree
<1>7. CASE BadSelfIDs
  BY <1>1, <1>2, <1>7, StoreStep DEF BadSelfIDs, Stores, FieldsAgree
<1>8. CASE SetIRMNodeID
  BY <1>1, <1>2, <1>8, StoreStep DEF SetIRMNodeID, Stores, FieldsAgree
<1>9. CASE ResumeGeneration
  BY <1>1, <1>2, <1>9, StoreStep DEF ResumeGeneration, Stores, FieldsAgree
<1>10. CASE ResumeNodeID
  BY <1>1, <1>2, <1>10, StoreStep DEF ResumeNodeID, Stores, FieldsAgree
<1>11. QED
  BY <1>3, <1>4, <1>5, <1>6, <1>7, <1>8, <1>9, <1>10

LEMMA QueryStart ==
    ASSUME QueryInit PROVE QueryInv
<1>1. query.status = "none" /\ query \in Queries
  BY DEF QueryInit, NoQuery, Queries
<1>2. QueryTypeOK /\ FieldsAgree
  BY <1>1 DEF QueryInit, QueryTypeOK, FieldsAgree
<1>3. AskedSoFar /\ AnswersAreOfTheirGeneration
  BY <1>1 DEF AskedSoFar, AnswersAreOfTheirGeneration
<1>4. QED
  BY <1>2, <1>3 DEF QueryInv

LEMMA QueryStep ==
    ASSUME QueryInv, [QueryNext]_queryVars
    PROVE  QueryInv'
<1>1. CASE QueryNext
  BY <1>1, GenerationStep, WorkLoopStep, AskStep, CheckStep, ReadGenerationStep,
     IsAskedStep, ReadNodeIDStep, ReadControllerStep, ReadIRMStep DEF QueryNext
<1>2. CASE UNCHANGED queryVars
  BY <1>2 DEF queryVars, QueryInv, QueryTypeOK, FieldsAgree, AskedSoFar,
              AnswersAreOfTheirGeneration, GenerationMeant, Generation
<1>3. QED
  BY <1>1, <1>2

(* Whatever a client asks of the bus, however many resets come between the *)
(* reads of its call, and though it reads between the stores of one: what a*)
(* call that succeeds has read is all of the one generation that it is     *)
(* about, but for parts read before the work loop stored them, and never of*)
(* a later one.                                                            *)
THEOREM AnswersOfOneGeneration == QuerySpec => []AnswersAreOfTheirGeneration
<1>1. QueryInit => QueryInv
  BY QueryStart
<1>2. QueryInv /\ [QueryNext]_queryVars => QueryInv'
  BY QueryStep
<1>3. QueryInv => AnswersAreOfTheirGeneration
  BY DEF QueryInv
<1>4. QED
  BY <1>1, <1>2, <1>3, PTL DEF QuerySpec

-----------------------------------------------------------------------------
(***************************************************************************)
(* Locks of a client's backing store                                       *)
(***************************************************************************)

StoreStates == [Words -> Values]
LockRequests == [kind : {"lock"}, word : Words, arg : Values, data : Values]
LockAnswers == [type : {"lock", "write", "read"}, value : Values] \cup {NoAnswer}
LogEntries == [request : Requests, before : StoreStates, answer : LockAnswers]
UserPackets == [commandID : Headers, request : Requests, number : Nat \ {0},
                generation : Nat \ {0}]

LockTypes ==
    /\ lockMode \in LockModes
    /\ backingStore \in StoreStates /\ contents \in StoreStates
    /\ kernelSpace \in [packets : Seq(UserPackets), fWaiting : BOOLEAN,
                        calls : Seq(UserPackets)]
    /\ log \in Seq(LogEntries) /\ Len(log) <= MaxRequests
    /\ mPendingLocks \in [Headers -> LockRequests \cup {NoLock}]
    /\ busGeneration \in Nat \ {0}

(* Each request finds what the one before it leaves.                       *)
LogIsSerial ==
    /\ \A i \in 1 .. Len(log) - 1 :
          log[i + 1].before = Effect(log[i].before, log[i].request)
    /\ log # <<>> => contents = Effect(log[Len(log)].before, log[Len(log)].request)
    /\ \A i \in 1 .. Len(log) : log[i].answer # NoAnswer =>
          /\ log[i].answer.type = log[i].request.kind
          /\ log[i].request.kind # "write" =>
                log[i].answer.value = log[i].before[log[i].request.word]
    /\ \A i \in 1 .. Len(log) : log[i].request.kind = "write" => log[i].answer # NoAnswer

(* The packets are of the last requests, and the backing store is as the   *)
(* oldest of them finds it.                                                *)
Answered == Len(log) - Len(kernelSpace.packets)
PacketsAreLast ==
    /\ Len(kernelSpace.packets) <= Len(log)
    /\ \A i \in 1 .. Len(kernelSpace.packets) :
          /\ kernelSpace.packets[i].number = Answered + i
          /\ kernelSpace.packets[i].request = log[Answered + i].request
          /\ kernelSpace.packets[i].generation <= busGeneration
    /\ backingStore = IF kernelSpace.packets = <<>> THEN contents
                      ELSE log[Answered + 1].before
    /\ lockMode = "auto" => kernelSpace.packets = <<>>
    /\ \A i \in 1 .. Answered : busGeneration = 1 => log[i].answer # NoAnswer

(* The client has the oldest packet, or is about to.                       *)
ClientHasTheOldest ==
    /\ kernelSpace.fWaiting = (kernelSpace.packets # <<>>)
    /\ IF kernelSpace.fWaiting
       THEN \/ kernelSpace.calls = <<Head(kernelSpace.packets)>> /\ served = {}
            \/ kernelSpace.calls = <<>> /\ served = {Head(kernelSpace.packets)}
       ELSE kernelSpace.calls = <<>> /\ served = {}

(* The library remembers the lock that the client has, and no other.       *)
LocksArePending ==
    \A h \in Headers : mPendingLocks[h] =
        IF \E p \in served : p.commandID = h /\ p.request.kind = "lock"
        THEN Head(kernelSpace.packets).request ELSE NoLock

LockInv == /\ LockTypes /\ LogIsSerial /\ PacketsAreLast
           /\ ClientHasTheOldest /\ LocksArePending

-----------------------------------------------------------------------------
LEMMA LockConstants ==
    /\ 0 \in Values /\ MaxRequests \in Nat
    /\ \A m \in LockModes : m \in LockModeNames
    /\ Headers = 1 .. MaxRequests
BY LockAssumption DEF LockAssumption, Headers

LEMMA RequestsAre ==
    ASSUME NEW r \in Requests
    PROVE  /\ r.word \in Words /\ r.kind \in {"lock", "write", "read"}
           /\ r.kind = "lock" => r \in LockRequests /\ r.arg \in Values
           /\ r.kind # "read" => r.data \in Values
           /\ r # NoLock
BY DEF Requests, LockRequests, NoLock

LEMMA EffectIsAStore ==
    ASSUME NEW store \in StoreStates, NEW r \in Requests
    PROVE  /\ Effect(store, r) \in StoreStates
           /\ r.kind = "read" => Effect(store, r) = store
BY RequestsAre DEF Effect, StoreStates

KernelSpaces == [packets : Seq(UserPackets), fWaiting : BOOLEAN, calls : Seq(UserPackets)]

(* Append, with what is needed of it.                                      *)
LEMMA Appended ==
    ASSUME NEW S, NEW s \in Seq(S), NEW e \in S
    PROVE  /\ Append(s, e) \in Seq(S) /\ Len(Append(s, e)) = Len(s) + 1
           /\ Len(s) \in Nat /\ Append(s, e) # <<>>
           /\ \A i \in 1 .. Len(s) : Append(s, e)[i] = s[i]
           /\ Append(s, e)[Len(s) + 1] = e
           /\ Head(Append(s, e)) = IF s = <<>> THEN e ELSE Head(s)
<1>1. /\ Append(s, e) \in Seq(S) /\ Len(Append(s, e)) = Len(s) + 1
      /\ Len(s) \in Nat /\ Append(s, e) # <<>>
      /\ \A i \in 1 .. Len(s) : Append(s, e)[i] = s[i]
      /\ Append(s, e)[Len(s) + 1] = e
    BY AppendProperties, LenProperties
<1>2. Head(Append(s, e)) = Append(s, e)[1]
    BY <1>1
<1>3. s # <<>> => Head(s) = s[1] /\ Len(s) >= 1
    BY EmptySeq
<1>4. s = <<>> => Len(s) = 0
    BY EmptySeq
<1> QED
    BY <1>1, <1>2, <1>3, <1>4

LEMMA Notifies ==
    ASSUME NEW s \in KernelSpaces
    PROVE  /\ Notify(s) \in KernelSpaces
           /\ Notify(s).packets = s.packets
           /\ Notify(s).fWaiting = (s.fWaiting \/ s.packets # <<>>)
           /\ Notify(s).calls = IF s.fWaiting \/ s.packets = <<>> THEN s.calls
                                ELSE Append(s.calls, Head(s.packets))
<1>1. CASE s.fWaiting \/ s.packets = <<>>
    BY <1>1 DEF Notify, KernelSpaces
<1>2. CASE ~(s.fWaiting \/ s.packets = <<>>)
  <2>1. Head(s.packets) \in UserPackets /\ s.calls \in Seq(UserPackets)
      BY <1>2, HeadTailProperties DEF KernelSpaces
  <2>2. Append(s.calls, Head(s.packets)) \in Seq(UserPackets)
      BY <2>1, AppendProperties
  <2>3. Notify(s) = [s EXCEPT !.fWaiting = TRUE,
                              !.calls = Append(s.calls, Head(s.packets))]
      BY <1>2 DEF Notify, KernelSpaces
  <2> QED
      BY <1>2, <2>2, <2>3 DEF KernelSpaces
<1> QED
    BY <1>1, <1>2

(* There is a header for the next packet.                                  *)
LEMMA HeaderIsFree ==
    ASSUME LockTypes, PacketsAreLast, Len(log) < MaxRequests
    PROVE  FreeHeader \in Headers
<1> DEFINE n == Len(kernelSpace.packets)
           f == [i \in 1..n |-> kernelSpace.packets[i].commandID]
<1>1. /\ kernelSpace.packets \in Seq(UserPackets) /\ log \in Seq(LogEntries)
      /\ n \in Nat /\ n <= Len(log) /\ Len(log) \in Nat
      /\ DOMAIN kernelSpace.packets = 1..n
      /\ \A i \in 1..n : kernelSpace.packets[i] \in UserPackets
  <2>1. kernelSpace.packets \in Seq(UserPackets) /\ log \in Seq(LogEntries)
      BY DEF LockTypes
  <2> QED
      BY <2>1, LenProperties, ElementOfSeq DEF PacketsAreLast
<1>2. MaxRequests \in Nat /\ Headers = 1 .. MaxRequests /\ n < MaxRequests
    BY <1>1, LockConstants
<1>3. SUFFICES ASSUME \A h \in Headers : h \in UsedHeaders PROVE FALSE
    BY DEF FreeHeader
<1>4. f \in Surjection(1..n, Headers)
  <2>1. f \in [1..n -> Headers]
      BY <1>1 DEF UserPackets
  <2>2. \A h \in Headers : \E i \in 1..n : f[i] = h
      BY <1>1, <1>3 DEF UsedHeaders
  <2> QED
      BY <2>1, <2>2 DEF Surjection
<1>5. /\ IsFiniteSet(1..n) /\ Cardinality(1..n) = n
      /\ Cardinality(Headers) = MaxRequests
  <2>1. IsFiniteSet(1..n) /\ Cardinality(1..n) = IF 1 > n THEN 0 ELSE n - 1 + 1
    <3>1. ASSUME NEW m \in Nat
          PROVE  IsFiniteSet(1..m) /\ Cardinality(1..m) = IF 1 > m THEN 0 ELSE m - 1 + 1
        BY FS_Interval
    <3> QED
        BY <1>1, <3>1
  <2>2. Cardinality(1..MaxRequests) = IF 1 > MaxRequests THEN 0 ELSE MaxRequests - 1 + 1
      BY <1>2, FS_Interval
  <2> QED
      BY <1>1, <1>2, <2>1, <2>2
<1>6. Cardinality(Headers) <= Cardinality(1..n)
    BY <1>4, <1>5, FS_Surjection
<1> QED
    BY <1>1, <1>2, <1>5, <1>6

-----------------------------------------------------------------------------
(* A new entry of the log.                                                 *)
LEMMA LogGrows ==
    ASSUME LockTypes, LogIsSerial, NEW r \in Requests, Len(log) < MaxRequests,
           NEW answer \in LockAnswers, log' = Append(log, Entry(r, answer)),
           contents' = Effect(contents, r),
           answer # NoAnswer => /\ answer.type = r.kind
                                /\ r.kind # "write" => answer.value = contents[r.word],
           r.kind = "write" => answer # NoAnswer
    PROVE  /\ log' \in Seq(LogEntries) /\ Len(log') = Len(log) + 1 /\ Len(log) \in Nat
           /\ Len(log') <= MaxRequests
           /\ contents' \in StoreStates /\ LogIsSerial'
           /\ \A i \in 1 .. Len(log) : log'[i] = log[i]
           /\ log'[Len(log) + 1] = Entry(r, answer)
<1> DEFINE e == Entry(r, answer)
<1>1. /\ log \in Seq(LogEntries) /\ contents \in StoreStates
      /\ \A i \in 1 .. Len(log) : log[i] \in LogEntries
    BY ElementOfSeq DEF LockTypes
<1>2. e \in LogEntries /\ e.request = r /\ e.before = contents /\ e.answer = answer
    BY <1>1 DEF Entry, LogEntries
<1>3. /\ log' \in Seq(LogEntries) /\ Len(log') = Len(log) + 1 /\ Len(log) \in Nat
      /\ \A i \in 1 .. Len(log) : log'[i] = log[i]
      /\ log'[Len(log) + 1] = e /\ log' # <<>>
  <2> HIDE DEF e
  <2>1. log' = Append(log, e)
      BY DEF e
  <2> QED
      BY ONLY <1>1, <1>2, <2>1, Appended
<1>4. contents' \in StoreStates
    BY <1>1, EffectIsAStore
<1>5. Len(log') <= MaxRequests
    BY <1>3, LockConstants
<1>6. LogIsSerial'
  <2>1. ASSUME NEW i \in 1 .. Len(log') - 1
        PROVE  log'[i + 1].before = Effect(log'[i].before, log'[i].request)
    <3>1. CASE i = Len(log)
      <4>1. log # <<>> /\ i \in 1 .. Len(log) /\ i + 1 = Len(log) + 1
          BY <1>1, <1>3, <3>1, EmptySeq
      <4>2. log'[i + 1].before = contents /\ log'[i] = log[i]
          BY <1>2, <1>3, <4>1
      <4> QED
          BY <3>1, <4>1, <4>2 DEF LogIsSerial
    <3>2. CASE i # Len(log)
      <4>1. i \in 1 .. Len(log) - 1 /\ i \in 1 .. Len(log) /\ i + 1 \in 1 .. Len(log)
          BY <1>3, <3>2
      <4> QED
          BY <1>3, <4>1 DEF LogIsSerial
    <3> QED
        BY <3>1, <3>2
  <2>2. contents' = Effect(log'[Len(log')].before, log'[Len(log')].request)
      BY <1>2, <1>3
  <2>3. ASSUME NEW i \in 1 .. Len(log'), log'[i].answer # NoAnswer
        PROVE  /\ log'[i].answer.type = log'[i].request.kind
               /\ log'[i].request.kind # "write" =>
                     log'[i].answer.value = log'[i].before[log'[i].request.word]
    <3>1. CASE i = Len(log) + 1
        BY <1>2, <1>3, <2>3, <3>1
    <3>2. CASE i # Len(log) + 1
      <4>1. i \in 1 .. Len(log)
          BY <1>3, <3>2
      <4> QED
          BY <1>3, <2>3, <4>1 DEF LogIsSerial
    <3> QED
        BY <3>1, <3>2
  <2>4. ASSUME NEW i \in 1 .. Len(log'), log'[i].request.kind = "write"
        PROVE  log'[i].answer # NoAnswer
    <3>1. CASE i = Len(log) + 1
        BY <1>2, <1>3, <2>4, <3>1
    <3>2. CASE i # Len(log) + 1
      <4>1. i \in 1 .. Len(log)
          BY <1>3, <3>2
      <4> QED
          BY <1>3, <2>4, <4>1 DEF LogIsSerial
    <3> QED
        BY <3>1, <3>2
  <2> HIDE DEF e
  <2> QED
      BY <2>1, <2>2, <2>3, <2>4 DEF LogIsSerial
<1> QED
    BY <1>3, <1>4, <1>5, <1>6

(* Packets are kept for all requests, or for none.                         *)
LEMMA WhoServes ==
    ASSUME LockTypes, NEW r \in Requests, Ordered(r), LockRisks = {}
    PROVE  /\ ByHandler(r) => lockMode # "auto"
           /\ ~ByHandler(r) /\ (r.kind # "lock" \/ lockMode = "auto") => lockMode = "auto"
<1>1. lockMode \in {"user", "auto", "autoRead", "autoWrite"}
    BY LockConstants DEF LockTypes, LockModeNames
<1>2. r.kind \in {"lock", "write", "read"}
    BY RequestsAre
<1> QED
    BY <1>1, <1>2 DEF ByHandler, fUserLocks, Ordered

(* The kernel answers itself.                                              *)
LEMMA KernelAnswers ==
    ASSUME LockInv, LockRisks = {}, NEW r \in Requests, Len(log) < MaxRequests,
           lockMode = "auto", NEW answer \in LockAnswers \ {NoAnswer},
           log' = Append(log, Entry(r, answer)),
           contents' = Effect(contents, r), backingStore' = contents',
           answer.type = r.kind, r.kind # "write" => answer.value = contents[r.word],
           UNCHANGED <<lockMode, kernelSpace, mPendingLocks, served, busGeneration>>
    PROVE  LockInv'
<1>1. LockTypes /\ LogIsSerial /\ PacketsAreLast
    BY DEF LockInv
<1>2. /\ log' \in Seq(LogEntries) /\ Len(log') = Len(log) + 1 /\ Len(log) \in Nat
      /\ Len(log') <= MaxRequests
      /\ contents' \in StoreStates /\ LogIsSerial'
      /\ \A i \in 1 .. Len(log) : log'[i] = log[i]
      /\ log'[Len(log) + 1] = Entry(r, answer)
  <2>1. answer \in LockAnswers
      OBVIOUS
  <2> QED
      BY <1>1, <2>1, LogGrows
<1>3. LockTypes'
    BY <1>1, <1>2 DEF LockTypes
<1>4. PacketsAreLast'
  <2>1. kernelSpace.packets = <<>> /\ Len(kernelSpace.packets) = 0
      BY <1>1, EmptySeq DEF PacketsAreLast
  <2>2. log'[Len(log) + 1].answer # NoAnswer
      BY <1>2 DEF Entry
  <2>3. \A i \in 1 .. Len(log') : busGeneration = 1 => log'[i].answer # NoAnswer
      BY <1>1, <1>2, <2>1, <2>2 DEF PacketsAreLast, Answered
  <2> QED
      BY <1>1, <1>2, <2>1, <2>3 DEF PacketsAreLast, Answered
<1>5. ClientHasTheOldest' /\ LocksArePending'
    BY DEF LockInv, ClientHasTheOldest, LocksArePending
<1> QED
    BY <1>2, <1>3, <1>4, <1>5 DEF LockInv

(* A packet for the client's handlers.                                     *)
LEMMA ClientIsAsked ==
    ASSUME LockInv, LockRisks = {}, NEW r \in Requests, Len(log) < MaxRequests,
           lockMode # "auto", doPacket(r, r), contents' = Effect(contents, r),
           UNCHANGED <<lockMode, mPendingLocks, served, busGeneration>>
    PROVE  LockInv'
<1> DEFINE p == [commandID |-> FreeHeader, request |-> r, number |-> Len(log) + 1,
                 generation |-> busGeneration]
           k == kernelSpace
           asked == [k EXCEPT !.packets = Append(@, p)]
           n == Len(k.packets)
<1>1. /\ LockTypes /\ LogIsSerial /\ PacketsAreLast /\ ClientHasTheOldest
      /\ LocksArePending /\ k \in KernelSpaces /\ k.packets \in Seq(UserPackets)
      /\ k.calls \in Seq(UserPackets) /\ busGeneration \in Nat \ {0}
      /\ n <= Len(log)
    BY DEF LockInv, LockTypes, KernelSpaces, PacketsAreLast
<1>2. /\ log' \in Seq(LogEntries) /\ Len(log') = Len(log) + 1 /\ Len(log) \in Nat
      /\ Len(log') <= MaxRequests
      /\ contents' \in StoreStates /\ LogIsSerial'
      /\ \A i \in 1 .. Len(log) : log'[i] = log[i]
      /\ log'[Len(log) + 1].request = r /\ log'[Len(log) + 1].before = contents
      /\ backingStore' = backingStore
  <2>1. \E answer \in LockAnswers :
           /\ log' = Append(log, Entry(r, answer))
           /\ answer # NoAnswer => answer.type = "write" /\ r.kind = "write"
           /\ r.kind = "write" => answer # NoAnswer
    <3>1. CASE r.kind = "write"
      <4>1. /\ [type |-> "write", value |-> r.data] \in LockAnswers
            /\ [type |-> "write", value |-> r.data] # NoAnswer
            /\ [type |-> "write", value |-> r.data].type = "write"
          BY <3>1, RequestsAre DEF LockAnswers, NoAnswer
      <4>2. log' = Append(log, Entry(r, [type |-> "write", value |-> r.data]))
          BY <3>1 DEF doPacket, Logged
      <4> QED
          BY <3>1, <4>1, <4>2
    <3>2. CASE r.kind # "write"
      <4>1. NoAnswer \in LockAnswers
          BY DEF LockAnswers
      <4>2. log' = Append(log, Entry(r, NoAnswer))
          BY <3>2 DEF doPacket, Awaiting
      <4> QED
          BY <3>2, <4>1, <4>2
    <3> QED
        BY <3>1, <3>2
  <2>2. PICK answer \in LockAnswers :
           /\ log' = Append(log, Entry(r, answer))
           /\ answer # NoAnswer => answer.type = "write" /\ r.kind = "write"
           /\ r.kind = "write" => answer # NoAnswer
      BY <2>1
  <2>3. /\ log' \in Seq(LogEntries) /\ Len(log') = Len(log) + 1 /\ Len(log) \in Nat
        /\ Len(log') <= MaxRequests
        /\ contents' \in StoreStates /\ LogIsSerial'
        /\ \A i \in 1 .. Len(log) : log'[i] = log[i]
        /\ log'[Len(log) + 1] = Entry(r, answer)
      BY <1>1, <2>2, LogGrows
  <2>4. Entry(r, answer).request = r /\ Entry(r, answer).before = contents
      BY DEF Entry
  <2>5. backingStore' = backingStore
      BY DEF doPacket
  <2> QED
      BY <2>3, <2>4, <2>5
<1>3. /\ p \in UserPackets /\ p.request = r /\ p.number = Len(log) + 1
      /\ p.generation = busGeneration
  <2>1. FreeHeader \in Headers
      BY <1>1, HeaderIsFree
  <2> QED
      BY <1>1, <1>2, <2>1 DEF UserPackets
<1> HIDE DEF p
<1>4. /\ Append(k.packets, p) \in Seq(UserPackets) /\ n \in Nat
      /\ Len(Append(k.packets, p)) = n + 1 /\ Append(k.packets, p) # <<>>
      /\ \A i \in 1..n : Append(k.packets, p)[i] = k.packets[i]
      /\ Append(k.packets, p)[n + 1] = p
      /\ Head(Append(k.packets, p)) = IF k.packets = <<>> THEN p ELSE Head(k.packets)
    BY <1>1, <1>3, Appended
<1>5. /\ asked \in KernelSpaces /\ asked.packets = Append(k.packets, p)
      /\ asked.fWaiting = k.fWaiting /\ asked.calls = k.calls
    BY <1>1, <1>4 DEF KernelSpaces
<1>6. kernelSpace' = Notify(asked)
    BY DEF doPacket, p
<1> HIDE DEF asked
<1>7. /\ kernelSpace' \in KernelSpaces
      /\ kernelSpace'.packets = Append(k.packets, p)
      /\ kernelSpace'.fWaiting = TRUE
      /\ kernelSpace'.calls = IF k.fWaiting THEN k.calls
                              ELSE Append(k.calls, Head(Append(k.packets, p)))
  <2>1. k.fWaiting \in BOOLEAN
      BY <1>1 DEF KernelSpaces
  <2> QED
      BY <1>4, <1>5, <1>6, <2>1, Notifies
<1>8. LockTypes'
    BY <1>1, <1>2, <1>7 DEF LockTypes, KernelSpaces
<1>9. Answered' = Answered /\ Answered + n = Len(log) /\ Answered \in Nat
  <2>1. Len(kernelSpace'.packets) = n + 1
      BY <1>4, <1>7
  <2>2. Answered' = Len(log') - Len(kernelSpace'.packets) /\ Answered = Len(log) - n
      BY DEF Answered
  <2> QED
      BY <1>1, <1>2, <1>4, <2>1, <2>2
<1>10. PacketsAreLast'
  <2>1. Len(kernelSpace'.packets) <= Len(log')
      BY <1>1, <1>2, <1>4, <1>7
  <2>2. ASSUME NEW i \in 1 .. Len(kernelSpace'.packets)
        PROVE  /\ kernelSpace'.packets[i].number = Answered + i
               /\ kernelSpace'.packets[i].request = log'[Answered + i].request
               /\ kernelSpace'.packets[i].generation <= busGeneration
    <3>1. CASE i = n + 1
      <4>1. Answered + i = Len(log) + 1
          BY <1>4, <1>9, <3>1
      <4> QED
          BY <1>1, <1>2, <1>3, <1>4, <1>7, <3>1, <4>1
    <3>2. CASE i # n + 1
      <4>1. i \in 1..n /\ Answered + i \in 1 .. Len(log)
          BY <1>2, <1>4, <1>7, <1>9, <3>2
      <4>2. kernelSpace'.packets[i] = k.packets[i] /\ log'[Answered + i] = log[Answered + i]
          BY <1>2, <1>4, <1>7, <4>1
      <4> QED
          BY <1>1, <4>1, <4>2 DEF PacketsAreLast
    <3> QED
        BY <3>1, <3>2
  <2>3. backingStore' = log'[Answered + 1].before
    <3>1. CASE k.packets = <<>>
      <4>1. n = 0 /\ Answered + 1 = Len(log) + 1
          BY <1>2, <1>9, <3>1, EmptySeq
      <4> QED
          BY <1>1, <1>2, <3>1, <4>1 DEF PacketsAreLast
    <3>2. CASE k.packets # <<>>
      <4>1. n >= 1 /\ Answered + 1 \in 1 .. Len(log)
          BY <1>1, <1>2, <1>4, <1>9, <3>2, EmptySeq
      <4> QED
          BY <1>1, <1>2, <3>2, <4>1 DEF PacketsAreLast
    <3> QED
        BY <3>1, <3>2
  <2>4. \A i \in 1 .. Answered : busGeneration = 1 => log'[i].answer # NoAnswer
    <3>1. \A i \in 1 .. Answered : i \in 1 .. Len(log)
        BY <1>2, <1>4, <1>9
    <3> QED
        BY <1>1, <1>2, <3>1 DEF PacketsAreLast
  <2> QED
      BY <1>4, <1>7, <1>9, <2>1, <2>2, <2>3, <2>4 DEF PacketsAreLast
<1>11. ClientHasTheOldest'
  <2>1. CASE k.packets = <<>>
    <3>1. ~k.fWaiting /\ k.calls = <<>> /\ served = {}
        BY <1>1, <2>1 DEF ClientHasTheOldest
    <3>2. Head(kernelSpace'.packets) = p /\ kernelSpace'.packets # <<>>
        BY <1>4, <1>7, <2>1
    <3>3. kernelSpace'.calls = Append(<<>>, p)
        BY <1>4, <1>7, <2>1, <3>1
    <3>4. Append(<<>>, p) = <<p>>
        OBVIOUS
    <3> QED
        BY <1>7, <3>1, <3>2, <3>3, <3>4 DEF ClientHasTheOldest
  <2>2. CASE k.packets # <<>>
      BY <1>1, <1>4, <1>7, <2>2 DEF ClientHasTheOldest
  <2> QED
      BY <2>1, <2>2
<1>12. LocksArePending'
  <2>1. served # {} => k.packets # <<>>
      BY <1>1 DEF ClientHasTheOldest
  <2>2. served # {} => Head(kernelSpace'.packets) = Head(k.packets)
      BY <1>4, <1>7, <2>1
  <2>3. served' = served /\ mPendingLocks' = mPendingLocks
      OBVIOUS
  <2>4. CASE served = {}
      BY <1>1, <2>3, <2>4 DEF LocksArePending
  <2>5. CASE served # {}
      BY <1>1, <2>2, <2>3, <2>5 DEF LocksArePending
  <2> QED
      BY <2>4, <2>5
<1> QED
    BY <1>2, <1>8, <1>10, <1>11, <1>12 DEF LockInv

LEMMA RequestKeeps ==
    ASSUME LockInv, LockRisks = {}, Request PROVE LockInv'
<1>1. PICK r \in Requests :
        /\ Len(log) < MaxRequests /\ Ordered(r)
        /\ \/ ByHandler(r) /\ doPacket(r, r)
           \/ ~ByHandler(r) /\ (simpleReader(r) \/ simpleWriter(r))
           \/ ~ByHandler(r) /\ (doLock(r) \/ LockByReading(r))
        /\ contents' = Effect(contents, r)
        /\ UNCHANGED <<lockMode, mPendingLocks, served, busGeneration>>
    BY DEF Request
<1>2. /\ LockTypes /\ PacketsAreLast /\ backingStore \in StoreStates
      /\ r.kind \in {"lock", "write", "read"} /\ r.word \in Words
    BY RequestsAre DEF LockInv, LockTypes
<1>3. CASE ByHandler(r) /\ doPacket(r, r)
    BY <1>1, <1>2, <1>3, WhoServes, ClientIsAsked
<1>4. CASE ~ByHandler(r) /\ (simpleReader(r) \/ simpleWriter(r) \/ doLock(r))
  <2>1. lockMode = "auto" /\ backingStore = contents
    <3>1. r.kind # "lock" \/ lockMode = "auto"
        BY <1>4 DEF simpleReader, simpleWriter, doLock
    <3>2. lockMode = "auto"
        BY <1>1, <1>2, <1>4, <3>1, WhoServes
    <3> QED
        BY <1>2, <3>2 DEF PacketsAreLast
  <2>2. CASE simpleReader(r)
    <3> DEFINE answer == [type |-> "read", value |-> backingStore[r.word]]
    <3>1. answer \in LockAnswers \ {NoAnswer}
        BY <1>2 DEF LockAnswers, NoAnswer, StoreStates
    <3>2. /\ log' = Append(log, Entry(r, answer)) /\ answer.type = r.kind
          /\ answer.value = contents[r.word] /\ kernelSpace' = kernelSpace
          /\ backingStore' = backingStore
        BY <2>1, <2>2 DEF simpleReader, Logged
    <3>3. backingStore' = contents'
        BY <1>1, <2>1, <2>2, <3>2 DEF simpleReader, Effect
    <3> HIDE DEF answer
    <3> QED
        BY <1>1, <2>1, <3>1, <3>2, <3>3, KernelAnswers
  <2>3. CASE simpleWriter(r)
    <3> DEFINE answer == [type |-> "write", value |-> r.data]
    <3>1. answer \in LockAnswers \ {NoAnswer}
        BY <2>3, RequestsAre DEF LockAnswers, NoAnswer, simpleWriter
    <3>2. /\ log' = Append(log, Entry(r, answer)) /\ answer.type = r.kind
          /\ kernelSpace' = kernelSpace /\ r.kind = "write"
          /\ backingStore' = [backingStore EXCEPT ![r.word] = r.data]
        BY <2>3 DEF simpleWriter, Logged
    <3>3. backingStore' = contents'
        BY <1>1, <2>1, <3>2 DEF Effect
    <3> HIDE DEF answer
    <3> QED
        BY <1>1, <2>1, <3>1, <3>2, <3>3, KernelAnswers
  <2>4. CASE doLock(r)
    <3> DEFINE answer == [type |-> "lock", value |-> backingStore[r.word]]
    <3>1. answer \in LockAnswers \ {NoAnswer}
        BY <1>2 DEF LockAnswers, NoAnswer, StoreStates
    <3>2. /\ log' = Append(log, Entry(r, answer)) /\ answer.type = r.kind
          /\ answer.value = contents[r.word] /\ kernelSpace' = kernelSpace
          /\ r.kind = "lock"
          /\ backingStore' = IF backingStore[r.word] = r.arg
                 THEN [backingStore EXCEPT ![r.word] = r.data] ELSE backingStore
        BY <2>1, <2>4 DEF doLock, Logged
    <3>3. backingStore' = contents'
        BY <1>1, <2>1, <3>2 DEF Effect
    <3> HIDE DEF answer
    <3> QED
        BY <1>1, <2>1, <3>1, <3>2, <3>3, KernelAnswers
  <2> QED
      BY <1>4, <2>2, <2>3, <2>4
<1>5. ~LockByReading(r)
    BY DEF LockByReading
<1> QED
    BY <1>1, <1>3, <1>4, <1>5

LEMMA LockBusResetKeeps ==
    ASSUME LockInv, BusResetOfSpace PROVE LockInv'
<1>1. /\ busGeneration' = busGeneration + 1 /\ busGeneration \in Nat \ {0}
      /\ UNCHANGED <<lockMode, backingStore, kernelSpace, contents, log, mPendingLocks,
                     served>>
    BY DEF LockInv, LockTypes, BusResetOfSpace
<1>2. LockTypes'
    BY <1>1 DEF LockInv, LockTypes
<1>5. LogIsSerial' /\ ClientHasTheOldest' /\ LocksArePending'
    BY <1>1
       DEF LockInv, LogIsSerial, ClientHasTheOldest, LocksArePending
<1>3. ASSUME NEW i \in 1 .. Len(kernelSpace.packets)
      PROVE  kernelSpace.packets[i].generation <= busGeneration'
  <2>1. /\ kernelSpace.packets[i] \in UserPackets
        /\ kernelSpace.packets[i].generation <= busGeneration
      BY ElementOfSeq DEF LockInv, LockTypes, PacketsAreLast
  <2> QED
      BY <1>1, <2>1 DEF UserPackets
<1>4. PacketsAreLast'
  <2>1. PacketsAreLast /\ Answered' = Answered /\ busGeneration' # 1
      BY <1>1 DEF LockInv, Answered
  <2> QED
      BY <1>1, <1>3, <2>1 DEF PacketsAreLast
<1> QED
    BY <1>2, <1>5, <1>4 DEF LockInv

-----------------------------------------------------------------------------
(* The client's side.                                                      *)

LEMMA WriterKeeps ==
    ASSUME LockInv, Writer PROVE LockInv'
<1> DEFINE p == Head(kernelSpace.calls)
           k == kernelSpace
<1>1. /\ LockTypes /\ ClientHasTheOldest /\ LocksArePending /\ k.calls # <<>>
      /\ k \in KernelSpaces
      /\ UNCHANGED <<lockMode, backingStore, contents, log, busGeneration>>
    BY DEF LockInv, LockTypes, Writer, KernelSpaces
<1>2. /\ k.fWaiting /\ k.packets # <<>> /\ k.calls = <<Head(k.packets)>> /\ served = {}
    BY <1>1 DEF ClientHasTheOldest
<1>3. p = Head(k.packets) /\ Tail(k.calls) = <<>>
    BY <1>2
<1>4. p \in UserPackets
  <2>1. k.packets \in Seq(UserPackets)
      BY <1>1 DEF KernelSpaces
  <2> QED
      BY <1>2, <1>3, <2>1, HeadTailProperties
<1>5. /\ kernelSpace' \in KernelSpaces /\ kernelSpace'.packets = k.packets
      /\ kernelSpace'.fWaiting = TRUE /\ kernelSpace'.calls = <<>>
      /\ served' = {p}
  <2>1. kernelSpace' = [k EXCEPT !.calls = <<>>]
      BY <1>3 DEF Writer
  <2>2. <<>> \in Seq(UserPackets)
      BY EmptySeq
  <2>3. served' = served \cup {p}
      BY DEF Writer
  <2> QED
      BY <1>1, <1>2, <2>1, <2>2, <2>3 DEF KernelSpaces
<1>6. mPendingLocks' = IF p.request.kind = "lock" THEN WithLock(p) ELSE mPendingLocks
    BY DEF Writer
<1> HIDE DEF p
<1>7. /\ mPendingLocks' \in [Headers -> LockRequests \cup {NoLock}]
      /\ \A h \in Headers : mPendingLocks'[h] =
            IF p.commandID = h /\ p.request.kind = "lock" THEN p.request ELSE NoLock
  <2>1. /\ mPendingLocks \in [Headers -> LockRequests \cup {NoLock}]
        /\ \A h \in Headers : mPendingLocks[h] = NoLock
      BY <1>1, <1>2 DEF LockTypes, LocksArePending
  <2>2. p.commandID \in Headers /\ p.request \in Requests
      BY <1>4 DEF UserPackets
  <2>3. CASE p.request.kind = "lock"
    <3>1. mPendingLocks' = [mPendingLocks EXCEPT ![p.commandID] = p.request]
        BY <1>6, <2>1, <2>2, <2>3 DEF WithLock
    <3>2. p.request \in LockRequests
        BY <2>2, <2>3, RequestsAre
    <3> QED
        BY <2>1, <2>2, <2>3, <3>1, <3>2
  <2>4. CASE p.request.kind # "lock"
      BY <1>6, <2>1, <2>4
  <2> QED
      BY <2>3, <2>4
<1>8. LockTypes'
    BY <1>1, <1>5, <1>7 DEF LockTypes, KernelSpaces
<1>9. LogIsSerial'
    BY <1>1 DEF LockInv, LogIsSerial
<1>10. PacketsAreLast'
  <2>1. PacketsAreLast /\ Answered' = Answered
      BY <1>1, <1>5 DEF LockInv, Answered
  <2> QED
      BY <1>1, <1>5, <2>1 DEF PacketsAreLast
<1>11. ClientHasTheOldest'
    BY <1>2, <1>3, <1>5 DEF ClientHasTheOldest
<1>12. LocksArePending'
    BY <1>3, <1>5, <1>7 DEF LocksArePending
<1> QED
    BY <1>8, <1>9, <1>10, <1>11, <1>12 DEF LockInv

(* What the client has.                                                    *)
LEMMA ServedIsOldest ==
    ASSUME LockInv, NEW p \in served
    PROVE  /\ kernelSpace.fWaiting /\ kernelSpace.packets # <<>>
           /\ p = Head(kernelSpace.packets) /\ served = {p} /\ kernelSpace.calls = <<>>
           /\ p \in UserPackets /\ p.request \in Requests
           /\ Answered \in Nat /\ Answered + 1 \in 1 .. Len(log)
           /\ p.number = Answered + 1 /\ p.request = log[p.number].request
           /\ p.generation <= busGeneration
           /\ backingStore = log[p.number].before
           /\ log[p.number] \in LogEntries
           /\ \A h \in Headers : mPendingLocks[h] =
                 IF p.commandID = h /\ p.request.kind = "lock" THEN p.request ELSE NoLock
<1>1. /\ LockTypes /\ PacketsAreLast /\ ClientHasTheOldest /\ LocksArePending
      /\ kernelSpace.packets \in Seq(UserPackets) /\ log \in Seq(LogEntries)
    BY DEF LockInv, LockTypes
<1>2. /\ kernelSpace.fWaiting /\ kernelSpace.packets # <<>>
      /\ p = Head(kernelSpace.packets) /\ served = {p} /\ kernelSpace.calls = <<>>
    BY <1>1 DEF ClientHasTheOldest
<1>3. /\ p \in UserPackets /\ p = kernelSpace.packets[1]
      /\ Len(kernelSpace.packets) \in Nat \ {0} /\ Len(log) \in Nat
    BY <1>1, <1>2, HeadTailProperties, EmptySeq, LenProperties
<1>4. Answered \in Nat /\ Answered + 1 \in 1 .. Len(log)
    BY <1>1, <1>3 DEF PacketsAreLast, Answered
<1>5. 1 \in 1 .. Len(kernelSpace.packets)
    BY <1>3
<1>6. /\ p.number = Answered + 1 /\ p.request = log[p.number].request
      /\ p.generation <= busGeneration
      /\ backingStore = log[p.number].before
    BY <1>1, <1>2, <1>3, <1>5 DEF PacketsAreLast
<1>7. log[p.number] \in LogEntries
    BY <1>1, <1>4, <1>6, ElementOfSeq
<1>8. \A h \in Headers : mPendingLocks[h] =
                 IF p.commandID = h /\ p.request.kind = "lock" THEN p.request ELSE NoLock
    BY <1>1, <1>2 DEF LocksArePending
<1>9. p.request \in Requests
    BY <1>3 DEF UserPackets
<1> QED
    BY <1>2, <1>3, <1>4, <1>6, <1>7, <1>8, <1>9

(* The kernel completes the packet that the client has.                    *)
LEMMA KernelIsDone ==
    ASSUME LockInv, NEW p \in served, NEW store \in StoreStates, KernelCompletes(store),
           p.request.kind # "write" => store = backingStore,
           backingStore' = Effect(backingStore, p.request),
           ClientCompletes(p),
           mPendingLocks' \in [Headers -> LockRequests \cup {NoLock}],
           \A h \in Headers : mPendingLocks'[h] = NoLock
    PROVE  LockInv'
<1> DEFINE k == kernelSpace
           n == p.number
           answer == Response(p, store)
           rest == [k EXCEPT !.packets = Tail(@), !.fWaiting = FALSE]
<1>1. /\ LockTypes /\ LogIsSerial /\ PacketsAreLast
      /\ k \in KernelSpaces /\ k.packets \in Seq(UserPackets)
      /\ log \in Seq(LogEntries) /\ Len(log) <= MaxRequests
      /\ backingStore \in StoreStates /\ contents \in StoreStates
      /\ busGeneration \in Nat \ {0}
    BY DEF LockInv, LockTypes, KernelSpaces
<1>2. /\ k.fWaiting /\ k.packets # <<>>
      /\ p = Head(k.packets) /\ served = {p} /\ k.calls = <<>>
      /\ p \in UserPackets /\ p.request \in Requests
      /\ Answered \in Nat /\ Answered + 1 \in 1 .. Len(log)
      /\ n = Answered + 1 /\ n \in 1 .. Len(log) /\ p.request = log[n].request
      /\ p.generation <= busGeneration
      /\ backingStore = log[n].before
      /\ log[n] \in LogEntries
  <2>1. n = Answered + 1 /\ Answered + 1 \in 1 .. Len(log)
      BY ServedIsOldest
  <2> QED
      BY <2>1, ServedIsOldest
<1>3. /\ UNCHANGED <<lockMode, contents, busGeneration>> /\ served' = {}
    BY <1>2 DEF ClientCompletes
<1>4. /\ kernelSpace' = Notify(rest)
      /\ log' = IF answer = NoAnswer THEN log ELSE [log EXCEPT ![n].answer = answer]
    BY <1>2 DEF KernelCompletes, Acknowledged, Completed
<1>5. /\ answer \in LockAnswers
      /\ answer # NoAnswer => /\ answer.type = p.request.kind
                              /\ answer.value = log[n].before[p.request.word]
                              /\ p.request.kind # "write"
      /\ p.generation = busGeneration /\ p.request.kind # "write" => answer # NoAnswer
    BY <1>1, <1>2, RequestsAre DEF Response, LockAnswers, NoAnswer, StoreStates
<1> HIDE DEF answer
<1>6. /\ Tail(k.packets) \in Seq(UserPackets)
      /\ Len(Tail(k.packets)) = Len(k.packets) - 1
      /\ Len(k.packets) \in Nat \ {0}
      /\ \A i \in 1 .. Len(Tail(k.packets)) : Tail(k.packets)[i] = k.packets[i + 1]
    BY <1>1, <1>2, HeadTailProperties, EmptySeq
<1>7. /\ rest \in KernelSpaces /\ rest.packets = Tail(k.packets)
      /\ rest.fWaiting = FALSE /\ rest.calls = <<>>
    BY <1>1, <1>2, <1>6 DEF KernelSpaces
<1> HIDE DEF rest
<1>8. /\ kernelSpace' \in KernelSpaces /\ kernelSpace'.packets = Tail(k.packets)
      /\ kernelSpace'.fWaiting = (Tail(k.packets) # <<>>)
      /\ kernelSpace'.calls = IF Tail(k.packets) = <<>> THEN <<>>
                              ELSE <<Head(Tail(k.packets))>>
  <2>1. Append(<<>>, Head(Tail(k.packets))) = <<Head(Tail(k.packets))>>
      OBVIOUS
  <2> QED
      BY <1>4, <1>7, <2>1, Notifies
<1>9. /\ log' \in Seq(LogEntries) /\ Len(log') = Len(log) /\ Len(log) \in Nat
      /\ \A i \in 1 .. Len(log) : /\ log'[i].request = log[i].request
                                  /\ log'[i].before = log[i].before
                                  /\ i # n => log'[i].answer = log[i].answer
      /\ log'[n].answer = IF answer = NoAnswer THEN log[n].answer ELSE answer
  <2>0. Len(log) \in Nat /\ \A i \in 1 .. Len(log) : log[i] \in LogEntries
      BY <1>1, ElementOfSeq, LenProperties
  <2>1. CASE answer = NoAnswer
      BY <1>1, <1>4, <2>0, <2>1
  <2>2. CASE answer # NoAnswer
    <3> DEFINE e == [log[n] EXCEPT !.answer = answer]
    <3>1. /\ e \in LogEntries /\ e.request = log[n].request /\ e.before = log[n].before
          /\ e.answer = answer
        BY <1>2, <1>5 DEF LogEntries
    <3>2. log' = [log EXCEPT ![n] = e]
        BY <1>4, <2>2
    <3> HIDE DEF e
    <3>3. /\ log' \in Seq(LogEntries) /\ Len(log') = Len(log)
          /\ \A i \in 1 .. Len(log) : log'[i] = IF i = n THEN e ELSE log[i]
        BY <1>1, <1>2, <2>0, <3>1, <3>2
    <3> QED
        BY <1>2, <2>0, <2>2, <3>1, <3>3
  <2> QED
      BY <2>1, <2>2
<1>10. LockTypes'
  <2>1. backingStore' \in StoreStates
      BY <1>1, <1>2, EffectIsAStore
  <2> QED
      BY <1>1, <1>3, <1>8, <1>9, <2>1 DEF LockTypes, KernelSpaces
<1>11. LogIsSerial'
  <2>1. \A i \in 1 .. Len(log) - 1 : i \in 1 .. Len(log) /\ i + 1 \in 1 .. Len(log)
      BY <1>9
  <2>2. \A i \in 1 .. Len(log') - 1 :
          log'[i + 1].before = Effect(log'[i].before, log'[i].request)
      BY <1>1, <1>9, <2>1 DEF LogIsSerial
  <2>3. log # <<>> /\ Len(log) \in 1 .. Len(log)
      BY <1>1, <1>2, <1>9, EmptySeq
  <2>4. contents' = Effect(log'[Len(log')].before, log'[Len(log')].request)
      BY <1>1, <1>3, <1>9, <2>3 DEF LogIsSerial
  <2>5. ASSUME NEW i \in 1 .. Len(log), log'[i].answer # NoAnswer
        PROVE  /\ log'[i].answer.type = log'[i].request.kind
               /\ log'[i].request.kind # "write" =>
                     log'[i].answer.value = log'[i].before[log'[i].request.word]
    <3>1. CASE i = n /\ answer # NoAnswer
        BY <1>2, <1>5, <1>9, <3>1
    <3>2. CASE ~(i = n /\ answer # NoAnswer)
      <4>1. log'[i].answer = log[i].answer
          BY <1>9, <3>2
      <4> QED
          BY <1>1, <1>9, <2>5, <4>1 DEF LogIsSerial
    <3> QED
        BY <3>1, <3>2
  <2>6. ASSUME NEW i \in 1 .. Len(log), log'[i].request.kind = "write"
        PROVE  log'[i].answer # NoAnswer
    <3>1. CASE i = n /\ answer # NoAnswer
        BY <1>9, <3>1
    <3>2. CASE ~(i = n /\ answer # NoAnswer)
      <4>1. log'[i].answer = log[i].answer
          BY <1>9, <3>2
      <4> QED
          BY <1>1, <1>9, <2>6, <4>1 DEF LogIsSerial
    <3> QED
        BY <3>1, <3>2
  <2> QED
      BY <1>9, <2>2, <2>4, <2>5, <2>6 DEF LogIsSerial
<1>12. PacketsAreLast'
  <2>0. Answered' = Answered + 1 /\ Answered + Len(k.packets) = Len(log)
    <3>1. Answered' = Len(log') - Len(kernelSpace'.packets)
        BY DEF Answered
    <3>2. Answered = Len(log) - Len(k.packets)
        BY DEF Answered
    <3>3. Len(kernelSpace'.packets) = Len(k.packets) - 1 /\ Len(log') = Len(log)
        BY <1>6, <1>8, <1>9
    <3>4. Len(k.packets) \in Int /\ Len(log) \in Int
        BY <1>6, <1>9
    <3> HIDE DEF k
    <3> QED
        BY <3>1, <3>2, <3>3, <3>4
  <2>6. /\ Len(kernelSpace'.packets) = Len(k.packets) - 1
         /\ Len(k.packets) \in Nat \ {0} /\ Len(log) \in Nat /\ Len(log') = Len(log)
         /\ Answered \in Nat /\ n = Answered + 1
      BY <1>2, <1>6, <1>8, <1>9
  <2>1. Len(kernelSpace'.packets) <= Len(log')
      BY <2>0, <2>6
  <2>2. ASSUME NEW i \in 1 .. Len(kernelSpace'.packets)
        PROVE  /\ kernelSpace'.packets[i].number = Answered' + i
               /\ kernelSpace'.packets[i].request = log'[Answered' + i].request
               /\ kernelSpace'.packets[i].generation <= busGeneration'
    <3>1. /\ i + 1 \in 1 .. Len(k.packets) /\ Answered' + i = Answered + (i + 1)
          /\ Answered' + i \in 1 .. Len(log)
        BY <2>0, <2>6
    <3>2. kernelSpace'.packets[i] = k.packets[i + 1]
        BY <1>6, <1>8
    <3> QED
        BY <1>1, <1>3, <1>9, <3>1, <3>2 DEF PacketsAreLast
  <2>3. backingStore' = IF kernelSpace'.packets = <<>> THEN contents'
                        ELSE log'[Answered' + 1].before
    <3>0. backingStore' = Effect(log[n].before, log[n].request)
        BY <1>2
    <3>1. CASE Tail(k.packets) = <<>>
      <4>0. Len(Tail(k.packets)) = 0
          BY <3>1, EmptySeq
      <4>1. Len(kernelSpace'.packets) = 0
          BY <1>8, <4>0
      <4>2. Len(k.packets) = 1 /\ n = Len(log)
        <5>1. PICK j \in Nat : j = Len(k.packets)
            BY <2>6
        <5>2. PICK m \in Nat : m = Len(kernelSpace'.packets)
            BY <4>1
        <5>3. m = j - 1 /\ m = 0
            BY <2>6, <4>1, <5>1, <5>2
        <5>4. j = 1
            BY <5>3
        <5>5. Answered + 1 = Len(log)
            BY <2>0, <5>1, <5>4
        <5> QED
            BY <2>6, <5>1, <5>4, <5>5
      <4>3. log # <<>>
          BY <2>6, <4>2, EmptySeq
      <4> QED
          BY <1>1, <1>3, <1>8, <3>0, <3>1, <4>2, <4>3 DEF LogIsSerial
    <3>2. CASE Tail(k.packets) # <<>>
      <4>1. Len(Tail(k.packets)) >= 1
          BY <1>6, <3>2, EmptySeq
      <4>2. /\ n \in 1 .. Len(log) - 1 /\ n + 1 \in 1 .. Len(log) /\ Answered' + 1 = n + 1
          BY <1>2, <1>6, <1>9, <2>0, <4>1
      <4> QED
          BY <1>1, <1>8, <1>9, <3>0, <3>2, <4>2 DEF LogIsSerial
    <3> QED
        BY <3>1, <3>2
  <2>4. ASSUME NEW i \in 1 .. Answered', busGeneration = 1
        PROVE  log'[i].answer # NoAnswer
    <3>1. CASE i = n
      <4>1. p.generation = busGeneration
          BY <1>2, <2>4 DEF UserPackets
      <4>2. p.request.kind = "write" => log[n].answer # NoAnswer
          BY <1>1, <1>2 DEF LogIsSerial
      <4> QED
          BY <1>5, <1>9, <3>1, <4>1, <4>2
    <3>2. CASE i # n
      <4>1. i \in 1 .. Answered /\ i \in 1 .. Len(log)
          BY <1>2, <1>9, <2>0, <3>2
      <4> QED
          BY <1>1, <1>9, <2>4, <3>2, <4>1 DEF PacketsAreLast
    <3> QED
        BY <3>1, <3>2
  <2>5. lockMode' = "auto" => kernelSpace'.packets = <<>>
      BY <1>1, <1>2, <1>3 DEF PacketsAreLast
  <2> QED
      BY <1>3, <2>1, <2>2, <2>3, <2>4, <2>5 DEF PacketsAreLast
<1>13. ClientHasTheOldest'
    BY <1>3, <1>8 DEF ClientHasTheOldest
<1>14. LocksArePending'
    BY <1>3 DEF LocksArePending
<1> QED
    BY <1>10, <1>11, <1>12, <1>13, <1>14 DEF LockInv

LEMMA AcknowledgeKeeps ==
    ASSUME LockInv, LockRisks = {}, Acknowledge PROVE LockInv'
<1>1. PICK p \in served : HandledPacket(p) \/ HandledLock(p)
    BY DEF Acknowledge
<1>2. /\ p.request \in Requests /\ p.commandID \in Headers
      /\ \A h \in Headers : mPendingLocks[h] =
            IF p.commandID = h /\ p.request.kind = "lock" THEN p.request ELSE NoLock
      /\ mPendingLocks \in [Headers -> LockRequests \cup {NoLock}]
      /\ backingStore \in StoreStates
    BY ServedIsOldest DEF UserPackets, LockInv, LockTypes
<1>3. /\ p.request.kind \in {"lock", "write", "read"} /\ p.request.word \in Words
      /\ p.request.kind = "write" => p.request.data \in Values
    BY <1>2, RequestsAre
<1>4. CASE HandledPacket(p)
  <2> DEFINE store == IF p.request.kind = "write"
                 THEN [backingStore EXCEPT ![p.request.word] = p.request.data] ELSE backingStore
  <2>1. /\ p.request.kind # "lock" /\ ClientCompletes(p) /\ backingStore' = store
        /\ KernelCompletes(store) /\ mPendingLocks' = mPendingLocks
      BY <1>4 DEF HandledPacket
  <2>2. /\ store \in StoreStates
        /\ p.request.kind # "write" => store = backingStore
        /\ store = Effect(backingStore, p.request)
      BY <1>2, <1>3, <2>1 DEF StoreStates, Effect
  <2>3. \A h \in Headers : mPendingLocks'[h] = NoLock
      BY <1>2, <2>1
  <2> HIDE DEF store
  <2> QED
      BY <1>2, <2>1, <2>2, <2>3, KernelIsDone
<1>5. CASE HandledLock(p)
  <2>1. mPendingLocks[p.commandID] = p.request /\ p.request.kind = "lock"
      BY <1>2, <1>5 DEF HandledLock
  <2>2. /\ ClientCompletes(p)
        /\ mPendingLocks' = [mPendingLocks EXCEPT ![p.commandID] = NoLock]
      BY <1>5 DEF HandledLock, WithoutLock
  <2>3. /\ KernelCompletes(backingStore)
        /\ backingStore' = Effect(backingStore, p.request)
      BY <1>5, <2>1 DEF HandledLock, Effect
  <2>4. /\ mPendingLocks' \in [Headers -> LockRequests \cup {NoLock}]
        /\ \A h \in Headers : mPendingLocks'[h] = NoLock
      BY <1>2, <2>2
  <2> QED
      BY <1>2, <2>2, <2>3, <2>4, KernelIsDone
<1> QED
    BY <1>1, <1>4, <1>5

LEMMA LockInvInit == ASSUME LockInit PROVE LockInv
<1>1. /\ lockMode \in LockModes /\ backingStore = [w \in Words |-> 0]
      /\ kernelSpace = [packets |-> <<>>, fWaiting |-> FALSE, calls |-> <<>>]
      /\ contents = backingStore /\ log = <<>> /\ served = {} /\ busGeneration = 1
      /\ mPendingLocks = [h \in Headers |-> NoLock]
    BY DEF LockInit
<1>2. /\ log \in Seq(LogEntries) /\ Len(log) = 0
      /\ kernelSpace.packets = <<>> /\ kernelSpace.packets \in Seq(UserPackets)
      /\ kernelSpace.calls = <<>> /\ kernelSpace.calls \in Seq(UserPackets)
      /\ Len(kernelSpace.packets) = 0 /\ kernelSpace.fWaiting = FALSE
    BY <1>1, EmptySeq
<1>3. LockTypes
  <2>1. backingStore \in StoreStates /\ 0 <= MaxRequests
      BY <1>1, LockConstants DEF StoreStates
  <2>2. kernelSpace \in [packets : Seq(UserPackets), fWaiting : BOOLEAN,
                         calls : Seq(UserPackets)]
      BY <1>1, <1>2
  <2> QED
      BY <1>1, <1>2, <2>1, <2>2 DEF LockTypes
<1>4. LogIsSerial /\ PacketsAreLast
    BY <1>1, <1>2 DEF LogIsSerial, PacketsAreLast, Answered
<1>5. ClientHasTheOldest /\ LocksArePending
    BY <1>1, <1>2 DEF ClientHasTheOldest, LocksArePending
<1> QED
    BY <1>3, <1>4, <1>5 DEF LockInv

LEMMA LockInvStep ==
    ASSUME LockInv, LockRisks = {}, [LockNext]_lockVars PROVE LockInv'
<1>1. CASE Request BY <1>1, RequestKeeps
<1>2. CASE BusResetOfSpace BY <1>2, LockBusResetKeeps
<1>3. CASE Writer BY <1>3, WriterKeeps
<1>4. CASE Acknowledge BY <1>4, AcknowledgeKeeps
<1>5. CASE UNCHANGED lockVars
    BY <1>5
       DEF lockVars, LockInv, LockTypes, LogIsSerial, PacketsAreLast, Answered,
           ClientHasTheOldest, LocksArePending
<1> QED
    BY <1>1, <1>2, <1>3, <1>4, <1>5 DEF LockNext

LEMMA LockInvImplies == ASSUME LockInv PROVE UserLocksAreSound
<1>1. /\ LogIsSerial /\ PacketsAreLast /\ ClientHasTheOldest
      /\ log \in Seq(LogEntries) /\ DOMAIN log = 1 .. Len(log)
    BY LenProperties DEF LockInv, LockTypes
<1>2. AnswersAreInOrder
    BY <1>1 DEF AnswersAreInOrder, LogIsSerial
<1>3. OnePacketAtATime
  <2>1. ToSet(<<>>) = {} /\ \A x : ToSet(<<x>>) = {x}
      BY DEF ToSet
  <2>2. CASE kernelSpace.fWaiting = TRUE
    <3>1. CASE kernelSpace.calls = <<Head(kernelSpace.packets)>> /\ served = {}
        BY <2>1, <2>2, <3>1 DEF OnePacketAtATime
    <3>2. CASE kernelSpace.calls = <<>> /\ served = {Head(kernelSpace.packets)}
        BY <2>1, <2>2, <3>2 DEF OnePacketAtATime
    <3> QED
        BY <1>1, <2>2, <3>1, <3>2 DEF ClientHasTheOldest
  <2>3. CASE ~kernelSpace.fWaiting
      BY <1>1, <2>1, <2>3 DEF OnePacketAtATime, ClientHasTheOldest
  <2> QED
      BY <1>1, <2>2, <2>3 DEF ClientHasTheOldest
<1>4. ASSUME kernelSpace.packets = <<>>
      PROVE  /\ backingStore = contents
             /\ busGeneration = 1 => \A i \in DOMAIN log : log[i].answer # NoAnswer
  <2>1. Len(kernelSpace.packets) = 0 /\ Len(log) \in Nat
      BY <1>1, <1>4, EmptySeq, LenProperties
  <2>2. Answered = Len(log)
      BY <2>1 DEF Answered
  <2> QED
      BY <1>1, <1>4, <2>2 DEF PacketsAreLast
<1> QED
    BY <1>2, <1>3, <1>4 DEF UserLocksAreSound

(* Whoever reads and writes for the client, and whatever requests, resets  *)
(* and acknowledgements come between its steps, a lock of a client's       *)
(* backing store takes effect as one step, in the order requests came, and *)
(* is answered what the store held before it: for any store, any number of *)
(* requests and of resets.                                                 *)
THEOREM LocksTakeEffectInOrder ==
    ASSUME LockRisks = {} PROVE LockSpec => []UserLocksAreSound
<1>1. LockInit => LockInv
    BY LockInvInit
<1>2. LockInv /\ [LockNext]_lockVars => LockInv'
    BY LockInvStep
<1>3. LockInv => UserLocksAreSound
    BY LockInvImplies
<1> QED
    BY <1>1, <1>2, <1>3, PTL DEF LockSpec
=============================================================================
