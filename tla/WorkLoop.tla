------------------------------- MODULE WorkLoop -------------------------------
(***************************************************************************)
(* The gate of the FireWire work loop (IOFWWorkLoop): the lock under which *)
(* the family runs, shut while the machine sleeps.  Threads that come to   *)
(* the gate then wait for the wake token; the thread of power management   *)
(* shuts and opens it in setPowerState, and it must not wait there itself, *)
(* though it may be the one that removes and frees an event source.        *)
(*                                                                         *)
(* Abstracted: what is done with the gate closed (the other modules), and  *)
(* the link's own power (module BusReset).  External: the recursive lock   *)
(* gateLock and the event that sleepers wait for (IOWorkLoop).             *)
(***************************************************************************)
EXTENDS Integers

CONSTANTS
    LoopThreads,    \* the threads that come to the gate
    PowerThread,    \* the one that calls setPowerState
    Nobody,
    EventSources    \* the event sources of the loop

ASSUME ThreadsAssumption ==
    PowerThread \in LoopThreads /\ Nobody \notin LoopThreads \cup EventSources

VARIABLES
    gateLock,                   \* the thread that holds the lock, or Nobody
    fSleepToken,                \* BOOLEAN: is there one?
    fRemoveSourceThread,
    fRemoveSourceDeferredSet,
    caller,                     \* what each thread is doing
    sources,                    \* what has become of each event source
    power,                      \* what the controller knows of its power
    risks                       \* what may go wrong in this behaviour

loopVars == <<gateLock, fSleepToken, fRemoveSourceThread, fRemoveSourceDeferredSet,
              caller, sources, power, risks>>

(* "sleepsAgain": the machine sleeps again before the threads it has woken  *)
(* have taken the lock, as when it only passes to the middle power state.  *)
(* "interrupted": a waiting thread is aborted (it waits THREAD_ABORTSAFE)  *)
LoopRisks == {"sleepsAgain", "interrupted"}

(* why: what a thread closes the gate for.  held: it has the gate closed    *)
(* already, further down its stack.  source: what it removes               *)
Away == [pc |-> "out", why |-> "none", held |-> FALSE, source |-> Nobody]

LoopInit ==
    /\ gateLock = Nobody
    /\ fSleepToken = FALSE
    /\ fRemoveSourceThread = Nobody
    /\ fRemoveSourceDeferredSet = {}
    /\ caller = [t \in LoopThreads |-> Away]
    /\ sources = [s \in EventSources |-> "registered"]
    /\ power = [asleep |-> FALSE, fStarted |-> FALSE, stopped |-> FALSE]
    /\ risks \in SUBSET LoopRisks

MayLock(t) == gateLock \in {Nobody, t}

(* Back to where a removal, or a free, was called                          *)
Back(t) == IF caller[t].held
           THEN [Away EXCEPT !.pc = "inside", !.why = "work", !.held = TRUE]
           ELSE Away
BackLock(t) == IF caller[t].held THEN t ELSE Nobody
-----------------------------------------------------------------------------
(* The gate                                                                *)

ShutToAll(t) == fSleepToken                                        \* mutant

(* What closeGate looks at when it has the lock                            *)
GateIsShut(t) == fSleepToken /\ fRemoveSourceThread # t

(* The thread has closed the gate and does what it came for.  A removal    *)
(* and a free open it again: the source leaves the chain and the thread is *)
(* forgotten; a source that is freed is gone                               *)
GoesThrough(t, why) ==
    CASE why = "remove" ->
            /\ caller' = [caller EXCEPT ![t].pc = "releases", ![t].why = "none"]
            /\ sources' = [sources EXCEPT ![caller[t].source] = "removed"]
            /\ fRemoveSourceThread' = Nobody
            /\ gateLock' = BackLock(t)
      [] why = "free" ->
            /\ caller' = [caller EXCEPT ![t] = Back(t)]
            /\ sources' = [sources EXCEPT ![caller[t].source] = "freed"]
            /\ gateLock' = BackLock(t)
            /\ UNCHANGED fRemoveSourceThread
      [] OTHER ->
            /\ caller' = [caller EXCEPT ![t].pc = "inside", ![t].why = why, ![t].held = TRUE]
            /\ gateLock' = t
            /\ UNCHANGED <<sources, fRemoveSourceThread>>

(* IOFWWorkLoop::closeGate: while the loop is asleep the thread waits for  *)
(* the token, with the lock released                                       *)
closeGate(t, why) ==
    /\ MayLock(t)
    /\ IF GateIsShut(t)
       THEN /\ caller' = [caller EXCEPT ![t].pc = "sleeps", ![t].why = why]
            /\ gateLock' = Nobody
            /\ UNCHANGED <<sources, fRemoveSourceThread>>
       ELSE GoesThrough(t, why)

Enter(t) ==
    /\ caller[t].pc = "out" /\ t # PowerThread
    /\ closeGate(t, "work")
    /\ UNCHANGED <<fSleepToken, fRemoveSourceDeferredSet, power, risks>>

(* tryCloseGate gives the lock back instead                                *)
tryCloseGate(t) ==
    /\ caller[t].pc = "out" /\ t # PowerThread
    /\ MayLock(t) /\ ~GateIsShut(t)
    /\ GoesThrough(t, "work")
    /\ UNCHANGED <<fSleepToken, fRemoveSourceDeferredSet, power, risks>>

openGate(t) ==
    /\ caller[t].pc = "inside" /\ caller[t].why = "work"
    /\ caller' = [caller EXCEPT ![t] = Away]
    /\ gateLock' = Nobody
    /\ UNCHANGED <<fSleepToken, fRemoveSourceThread, fRemoveSourceDeferredSet, sources,
                   power, risks>>

(* A thread that was woken has the lock again, and does not look at the    *)
(* token once more                                                         *)
SleepIsOver(t) ==
    /\ caller[t].pc = "woken"
    /\ gateLock = Nobody
    /\ GoesThrough(t, caller[t].why)
    /\ UNCHANGED <<fSleepToken, fRemoveSourceDeferredSet, power, risks>>

(* sleepGate returns early; it is called again with the token there is now, *)
(* which may be none: then nobody will ever wake the thread                 *)
Aborted(t) ==
    /\ "interrupted" \in risks
    /\ caller[t].pc = "sleeps"
    /\ caller' = [caller EXCEPT ![t].pc = "aborted"]
    /\ UNCHANGED <<gateLock, fSleepToken, fRemoveSourceThread, fRemoveSourceDeferredSet,
                   sources, power, risks>>

SleepsOn(t) ==
    /\ caller[t].pc = "aborted"
    /\ gateLock = Nobody
    /\ caller' = [caller EXCEPT ![t].pc = IF fSleepToken THEN "sleeps" ELSE "lost"]
    /\ UNCHANGED <<gateLock, fSleepToken, fRemoveSourceThread, fRemoveSourceDeferredSet,
                   sources, power, risks>>
-----------------------------------------------------------------------------
(* removeEventSource                                                       *)

Forgets(s) == {}                                                   \* mutant

(* While the loop is asleep the set keeps a source from being freed        *)
Deferred(s) == IF fSleepToken THEN {s} ELSE {}

(* It takes the lock without a look at the token                           *)
removeEventSource(t, s) ==
    /\ \/ caller[t].pc = "out"
       \/ caller[t].pc = "inside" /\ caller[t].why = "work"
    /\ MayLock(t)
    /\ sources[s] = "registered"
    /\ \A u \in LoopThreads : caller[u].source # s
    /\ gateLock' = t
    /\ fRemoveSourceThread' = t
    /\ fRemoveSourceDeferredSet' = fRemoveSourceDeferredSet \cup Deferred(s)
    /\ caller' = [caller EXCEPT ![t].pc = "removes", ![t].source = s]
    /\ UNCHANGED <<fSleepToken, sources, power, risks>>

(* IOWorkLoop::removeEventSource runs a command, which closes the gate     *)
RunRemoval(t) ==
    /\ caller[t].pc = "removes"
    /\ closeGate(t, "remove")
    /\ UNCHANGED <<fSleepToken, fRemoveSourceDeferredSet, power, risks>>

(* Its owner releases the source.  To free one closes the gate as well     *)
ReleaseSource(t) ==
    /\ caller[t].pc = "releases"
    /\ IF caller[t].source \in fRemoveSourceDeferredSet
       THEN /\ caller' = [caller EXCEPT ![t] = Back(t)]
            /\ UNCHANGED <<gateLock, fRemoveSourceThread, sources>>
       ELSE closeGate(t, "free")
    /\ UNCHANGED <<fSleepToken, fRemoveSourceDeferredSet, power, risks>>
-----------------------------------------------------------------------------
(* Power management                                                        *)

(* IOFWWorkLoop::wake: the token is gone, sources that were removed in the *)
(* meantime are released, and every thread that waits for it is woken.     *)
(* The gate is closed afterwards                                           *)
Flushed == [s \in EventSources |->
    IF s \in fRemoveSourceDeferredSet /\ (\A t \in LoopThreads : caller[t].source # s)
    THEN "freed" ELSE sources[s]]

WokenUp(t, why) ==
    [u \in LoopThreads |->
        IF u = t THEN [caller[t] EXCEPT !.pc = "inside", !.why = why, !.held = TRUE]
        ELSE IF caller[u].pc = "sleeps" THEN [caller[u] EXCEPT !.pc = "woken"]
        ELSE caller[u]]

wake(t, why) ==
    IF fSleepToken
    THEN /\ MayLock(t)
         /\ gateLock' = t
         /\ fSleepToken' = FALSE
         /\ fRemoveSourceDeferredSet' = {}
         /\ sources' = Flushed
         /\ caller' = WokenUp(t, why)
         /\ UNCHANGED fRemoveSourceThread
    ELSE closeGate(t, why) /\ UNCHANGED <<fSleepToken, fRemoveSourceDeferredSet>>

Ordinals == {"sleep", "middle", "wake"}

(* setPowerState closes the gate, or wakes the loop                        *)
setPowerState(ordinal) ==
    /\ caller[PowerThread].pc = "out"
    /\ ~power.stopped
    /\ power.fStarted \/ ordinal = "wake"
    /\ IF power.asleep THEN wake(PowerThread, ordinal)
       ELSE closeGate(PowerThread, ordinal) /\ UNCHANGED <<fSleepToken, fRemoveSourceDeferredSet>>
    /\ UNCHANGED <<power, risks>>

(* ... sets the power of the link, which may fail the first time, and puts *)
(* the loop to sleep, or opens the gate.  fROMHeader is there once the     *)
(* controller has started                                                  *)
PowerIs(ordinal, linkIsUp) ==
    [power EXCEPT !.asleep = ordinal = "sleep" \/ (@ /\ ordinal = "middle"),
                  !.fStarted = @ \/ (ordinal = "wake" /\ linkIsUp)]

SetLinkPowerState ==
    LET p == caller[PowerThread]
    IN  /\ p.pc = "inside" /\ p.why \in Ordinals
        /\ \E linkIsUp \in BOOLEAN : power' = PowerIs(p.why, linkIsUp)
        /\ power'.asleep =>
               "sleepsAgain" \in risks \/ \A t \in LoopThreads : caller[t].pc # "woken"
        /\ fSleepToken' = power'.asleep
        /\ gateLock' = Nobody
        /\ caller' = [caller EXCEPT ![PowerThread] = Away]
        /\ UNCHANGED <<fRemoveSourceThread, fRemoveSourceDeferredSet, sources, risks>>

(* stop, of the thread that terminates the controller: it waits like any   *)
(* other                                                                   *)
Stop(t) ==
    /\ caller[t].pc = "out" /\ t # PowerThread
    /\ ~power.stopped
    /\ closeGate(t, "stop")
    /\ UNCHANGED <<fSleepToken, fRemoveSourceDeferredSet, power, risks>>

(* ... and takes the controller out of power management.  It has faked a   *)
(* bus reset before it compares fBusState with kAsleep, so it never wakes  *)
(* the loop                                                                *)
stop(t) ==
    /\ caller[t].pc = "inside" /\ caller[t].why = "stop"
    /\ power' = [power EXCEPT !.stopped = TRUE, !.asleep = FALSE]
    /\ gateLock' = Nobody
    /\ caller' = [caller EXCEPT ![t] = Away]
    /\ UNCHANGED <<fSleepToken, fRemoveSourceThread, fRemoveSourceDeferredSet, sources, risks>>
-----------------------------------------------------------------------------
LoopNext ==
    \/ \E t \in LoopThreads :
          \/ Enter(t) \/ tryCloseGate(t) \/ openGate(t) \/ SleepIsOver(t)
          \/ Aborted(t) \/ SleepsOn(t)
          \/ (\E s \in EventSources : removeEventSource(t, s))
          \/ RunRemoval(t) \/ ReleaseSource(t)
          \/ Stop(t) \/ stop(t)
    \/ \E ordinal \in Ordinals : setPowerState(ordinal)
    \/ SetLinkPowerState

LoopSpec == LoopInit /\ [][LoopNext]_loopVars

-----------------------------------------------------------------------------
(* Properties                                                              *)

LoopTypeOK ==
    /\ gateLock \in LoopThreads \cup {Nobody}
    /\ {fSleepToken, power.asleep, power.fStarted, power.stopped} \subseteq BOOLEAN
    /\ fRemoveSourceThread \in LoopThreads \cup {Nobody}
    /\ fRemoveSourceDeferredSet \subseteq EventSources
    /\ sources \in [EventSources -> {"registered", "removed", "freed"}]
    /\ \A t \in LoopThreads :
          caller[t].pc \in {"out", "inside", "removes", "releases", "sleeps", "woken",
                            "aborted", "lost"}

(* removeEventSource: "if we sleep the PM thread then sleep hangs".  The   *)
(* thread that shuts the gate never waits at it, whatever it removes and   *)
(* frees meanwhile                                                         *)
PowerThreadNeverSleeps == caller[PowerThread].pc \notin {"sleeps", "aborted", "lost", "woken"}

(* While the machine sleeps nobody is inside, but to remove an event source *)
NobodyRunsAsleep ==
    "sleepsAgain" \notin risks =>
        (fSleepToken /\ gateLock # Nobody => gateLock = fRemoveSourceThread)

(* No wake-up is lost: who waits for the token waits for one there is, and *)
(* that a wake will take away: when the controller has stopped there is    *)
(* none                                                                    *)
NobodyWaitsForNothing ==
    /\ fSleepToken => power.asleep \/ "sleepsAgain" \in risks
    /\ power.stopped /\ fSleepToken => "sleepsAgain" \in risks
    /\ \A t \in LoopThreads :
        /\ caller[t].pc = "sleeps" => fSleepToken
        /\ caller[t].pc = "lost" => "interrupted" \in risks

(* What is removed while the machine sleeps is kept until it wakes, and    *)
(* then is freed: nothing that a thread still holds, and nothing left over *)
SourcesAreFreedAwake ==
    /\ fRemoveSourceDeferredSet # {} => fSleepToken
    /\ \A s \in EventSources :
          /\ s \in fRemoveSourceDeferredSet => sources[s] # "freed"
          /\ (\E t \in LoopThreads : caller[t].source = s) => sources[s] # "freed"
          /\ sources[s] = "removed" =>
                \/ s \in fRemoveSourceDeferredSet
                \/ \E t \in LoopThreads : caller[t].source = s

GateIsKept ==
    /\ PowerThreadNeverSleeps /\ NobodyRunsAsleep /\ NobodyWaitsForNothing
    /\ SourcesAreFreedAwake /\ LoopTypeOK
=============================================================================
