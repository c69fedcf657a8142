------------------------------ MODULE IsochPort ------------------------------
(***************************************************************************)
(* A client's isochronous channel and its ports: the objects of the user   *)
(* space library, the kernel objects behind them and the messages that     *)
(* come back.  Ports run DCL programs, whose callbacks arrive as messages  *)
(* on the isochronous run loop; Stop waits for nothing, but is followed by *)
(* a stop token, the last message of the port, and a port that waits for   *)
(* its token is not released before.                                       *)
(***************************************************************************)
EXTENDS Integers, Sequences, FiniteSets, SequencesExt

CONSTANTS
    LocalPorts, RemotePorts,
    mTalker, mListeners,     \* the ports of the channel, a port and a sequence
    MaxStarts,               \* bound: Starts of the channel
    MaxCallbacks,            \* bound: callbacks of the DCL programs
    MaxChannelResets,        \* bound: bus resets
    PortRaces                \* the races that may happen, of AllPortRaces

(* Start is called of a channel that runs; the channel is used again when  *)
(* a Release of a port is deferred; it is released without a Stop; the     *)
(* token is handled inside a Release that has seen it missing; its handler *)
(* is overtaken by a Release; a program calls back after its stop; a   *)
(* remote port's release fails; the channel goes with a force stop under   *)
(* way.                                                                    *)
AllPortRaces == {"startTwice", "reuse", "releaseStarted", "lateDefer",
                 "slowHandler", "lateCallback", "remoteFails", "lateForceStop"}

Ports == LocalPorts \cup RemotePorts

PortAssumption == /\ LocalPorts \cap RemotePorts = {}
                  /\ mTalker \in Ports
                  /\ mListeners \in Seq(Ports)
                  /\ MaxStarts \in Nat /\ MaxCallbacks \in Nat
                  /\ MaxChannelResets \in Nat
                  /\ PortRaces \subseteq AllPortRaces
ASSUME PortAssumption

VARIABLES
    \* the library's objects
    port,                    \* none, alive or freed
    mRefCount, mStarted, mExpectedStopTokens, mDeferredReleaseCount,
    owners,                  \* who has not called Release of the port
    channel,                 \* open, released, or dead with its process
    \* the client's thread and the isochronous run loop
    app,                     \* what the client has made of the channel
    call,                    \* the steps that its call has left to do
    handler,                 \* the port whose last token has been counted
    \* the kernel's objects
    fStarted, running, hardware,
    irm,                     \* none, held, or lost in a bus reset
    exported,                \* whether the kernel has the channel
    isochAsyncPort,          \* messages to the isochronous run loop
    forceStop,               \* a message that the channel was lost
    starts, callbacks, resets

userVars == <<port, mRefCount, mStarted, mExpectedStopTokens,
              mDeferredReleaseCount, owners>>
kernelVars == <<fStarted, running, hardware>>
channelVars == <<channel, irm, exported, forceStop>>
boundVars == <<starts, callbacks, resets>>
portVars == <<userVars, channelVars, app, call, handler, kernelVars,
              isochAsyncPort, boundVars>>

Steps(op, ports) == [i \in DOMAIN ports |-> <<op, ports[i]>>]
Starting == Append(mListeners, mTalker)
Stopping == <<mTalker>> \o mListeners

Idle == call = <<>> /\ channel # "dead"
Messages(p, kind) == Len(SelectSeq(isochAsyncPort, LAMBDA m : m = <<kind, p>>))

PortInit ==
    /\ port = [p \in LocalPorts |-> "none"]
    /\ mRefCount = [p \in LocalPorts |-> 0]
    /\ mStarted = [p \in LocalPorts |-> FALSE]
    /\ mExpectedStopTokens = [p \in LocalPorts |-> 0]
    /\ mDeferredReleaseCount = [p \in LocalPorts |-> 0]
    /\ owners = [p \in LocalPorts |-> {}]
    /\ channel = "open" /\ app = "none" /\ call = <<>> /\ handler = {}
    /\ fStarted = [p \in LocalPorts |-> FALSE]
    /\ running = [p \in LocalPorts |-> FALSE]
    /\ hardware = [p \in Ports |-> "none"]
    /\ irm = "none" /\ exported = TRUE
    /\ isochAsyncPort = <<>> /\ forceStop = FALSE
    /\ starts = 0 /\ callbacks = 0 /\ resets = 0

-----------------------------------------------------------------------------
(* The kernel's port.                                                      *)

NewKernelPort(p) ==
    /\ fStarted' = [fStarted EXCEPT ![p] = FALSE]
    /\ running' = [running EXCEPT ![p] = FALSE]
    /\ hardware' = [hardware EXCEPT ![p] = "none"]

(* start: of a running program it fails, and forgets that it had not.      *)
KernelStart(p, error) ==
    /\ fStarted' = [fStarted EXCEPT ![p] = ~error]
    /\ running' = [running EXCEPT ![p] = @ \/ ~error]
    /\ UNCHANGED <<hardware, isochAsyncPort>>

KernelStopNoToken(p, released) ==                                \* mutant
    /\ running' = [running EXCEPT ![p] = FALSE]
    /\ fStarted' = [fStarted EXCEPT ![p] = FALSE]
    /\ hardware' = IF released THEN [hardware EXCEPT ![p] = "none"] ELSE hardware
    /\ UNCHANGED isochAsyncPort

KernelStopKeeps(p, released) ==                                  \* mutant
    /\ running' = [running EXCEPT ![p] = FALSE]
    /\ isochAsyncPort' = IF fStarted[p] THEN Append(isochAsyncPort, <<"token", p>>)
                         ELSE isochAsyncPort
    /\ fStarted' = [fStarted EXCEPT ![p] = FALSE]
    /\ UNCHANGED hardware

(* stop, and in the exporter's cleanup the port's release.                 *)
KernelStop(p, released) ==
    /\ running' = [running EXCEPT ![p] = FALSE]
    /\ isochAsyncPort' = IF fStarted[p] THEN Append(isochAsyncPort, <<"token", p>>)
                         ELSE isochAsyncPort
    /\ fStarted' = [fStarted EXCEPT ![p] = FALSE]
    /\ hardware' = IF released THEN [hardware EXCEPT ![p] = "none"] ELSE hardware

(* The FWIM runs the program: a callback is a message.                     *)
CallProc(p) ==
    /\ callbacks < MaxCallbacks
    /\ channel # "dead"
    /\ \/ running[p]
       \/ "lateCallback" \in PortRaces /\ port[p] = "alive" /\ ~running[p]
    /\ isochAsyncPort' = Append(isochAsyncPort, <<"callback", p>>)
    /\ callbacks' = callbacks + 1
    /\ UNCHANGED <<userVars, channelVars, app, call, handler, kernelVars,
                   starts, resets>>

-----------------------------------------------------------------------------
(* The library's port: IOFireWireIUnknown::Release, and the port's own.    *)

(* n references go; with the last the object and its kernel object.        *)
Unreference(p, n) ==
    /\ mRefCount' = [mRefCount EXCEPT ![p] = @ - n]
    /\ IF n > 0 /\ mRefCount[p] <= n
       THEN port' = [port EXCEPT ![p] = "freed"] /\ KernelStop(p, TRUE)
       ELSE UNCHANGED <<port, kernelVars, isochAsyncPort>>

(* A port that waits for a token counts the call; it does so after it has  *)
(* let go of its lock, a step of its own if the handler comes between.     *)
ReleasePort(p) ==
    IF mExpectedStopTokens[p] = 0
    THEN /\ Unreference(p, 1)
         /\ call' = Tail(call)
         /\ UNCHANGED mDeferredReleaseCount
    ELSE /\ IF "lateDefer" \in PortRaces
            THEN /\ call' = <<<<"Defer", p>>>> \o Tail(call)
                 /\ UNCHANGED mDeferredReleaseCount
            ELSE /\ call' = Tail(call)
                 /\ mDeferredReleaseCount' = [mDeferredReleaseCount EXCEPT ![p] = @ + 1]
         /\ UNCHANGED <<port, mRefCount, kernelVars, isochAsyncPort>>

ReleaseStep ==
    /\ call # <<>> /\ Head(call)[1] = "Release"
    /\ ReleasePort(Head(call)[2])
    /\ UNCHANGED <<mStarted, mExpectedStopTokens, owners, channelVars, app,
                   handler, boundVars>>

(* Only with the race, or at its end: nothing is deferred late without it. *)
Defer ==
    /\ mDeferredReleaseCount' =
           [mDeferredReleaseCount EXCEPT ![Head(call)[2]] = @ + 1]
    /\ call' = Tail(call)
    /\ UNCHANGED <<port, mRefCount, mStarted, mExpectedStopTokens, owners,
                   kernelVars, isochAsyncPort>>

-----------------------------------------------------------------------------
(* The isochronous run loop.                                               *)

(* DCLStopTokenCallProcHandler.                                            *)
StopToken(p) ==
    IF mExpectedStopTokens[p] > 0
    THEN /\ mExpectedStopTokens' = [mExpectedStopTokens EXCEPT ![p] = @ - 1]
         /\ handler' = IF mExpectedStopTokens[p] = 1 THEN {p} ELSE {}
    ELSE UNCHANGED <<mExpectedStopTokens, handler>>

Dispatch ==
    /\ isochAsyncPort # <<>> /\ handler = {} /\ channel # "dead"
    /\ isochAsyncPort' = Tail(isochAsyncPort)
    /\ IF Head(isochAsyncPort)[1] = "token"
       THEN StopToken(Head(isochAsyncPort)[2])
       ELSE UNCHANGED <<mExpectedStopTokens, handler>>
    /\ UNCHANGED <<port, mRefCount, mStarted, mDeferredReleaseCount, owners,
                   channelVars, app, call, kernelVars, boundVars>>

(* The finalize callback, then the Releases that were put off; each looks  *)
(* for tokens again.  The count of them is not reset.                      *)
Finalize ==
    /\ channel # "dead"
    /\ \E p \in handler :
          IF mExpectedStopTokens[p] = 0
          THEN /\ Unreference(p, mDeferredReleaseCount[p])
               /\ UNCHANGED mDeferredReleaseCount
          ELSE /\ mDeferredReleaseCount' = [mDeferredReleaseCount EXCEPT ![p] = 2 * @]
               /\ UNCHANGED <<port, mRefCount, kernelVars, isochAsyncPort>>
    /\ handler' = {}
    /\ UNCHANGED <<mStarted, mExpectedStopTokens, owners, channelVars, app, call,
                   boundVars>>

-----------------------------------------------------------------------------
(* The client: a port of its own, given to its channel.                    *)

(* The handler of an earlier token is through before another is awaited.   *)
HandlerIsDone == \/ "slowHandler" \in PortRaces
                 \/ \A p \in handler : mExpectedStopTokens[p] = 0

CreatePort(p) ==
    /\ Idle /\ port[p] = "none"
    /\ port' = [port EXCEPT ![p] = "alive"]
    /\ mRefCount' = [mRefCount EXCEPT ![p] = 1]
    /\ owners' = [owners EXCEPT ![p] = {"client"}]
    /\ NewKernelPort(p)
    /\ UNCHANGED <<mStarted, mExpectedStopTokens, mDeferredReleaseCount,
                   channelVars, app, call, handler, isochAsyncPort, boundVars>>

(* SetTalker and AddListener.                                              *)
AddPort(p) ==
    /\ Idle /\ channel = "open" /\ app = "none"
    /\ owners[p] = {"client"}
    /\ owners' = [owners EXCEPT ![p] = @ \cup {"channel"}]
    /\ mRefCount' = [mRefCount EXCEPT ![p] = @ + 1]
    /\ UNCHANGED <<port, mStarted, mExpectedStopTokens, mDeferredReleaseCount,
                   channelVars, app, call, handler, kernelVars, isochAsyncPort,
                   boundVars>>

ClientReleasesPort(p) ==
    /\ Idle /\ "client" \in owners[p] /\ HandlerIsDone
    /\ \/ "reuse" \in PortRaces
       \/ ~(mStarted[p] /\ mExpectedStopTokens[p] > 0)
    /\ owners' = [owners EXCEPT ![p] = @ \ {"client"}]
    /\ call' = <<<<"Release", p>>>>
    /\ UNCHANGED <<port, mRefCount, mStarted, mExpectedStopTokens,
                   mDeferredReleaseCount, channelVars, app, handler, kernelVars,
                   isochAsyncPort, boundVars>>

-----------------------------------------------------------------------------
(* The client's channel.                                                   *)

ChannelIsReady == /\ Idle /\ channel = "open"
                  /\ \A p \in LocalPorts : "channel" \in owners[p]

(* AllocateChannel: the kernel claims bandwidth and channel, or cannot.    *)
AllocateChannel ==
    /\ ChannelIsReady /\ app = "none"
    /\ \/ /\ irm' = "held" /\ UNCHANGED app
          /\ call' = Append(Steps("AllocatePort", Starting), <<"done", "allocated">>)
       \/ UNCHANGED <<irm, call>> /\ app' = "failed"
    /\ UNCHANGED <<userVars, channel, exported, forceStop, handler, kernelVars,
                   isochAsyncPort, boundVars>>

Start ==
    /\ ChannelIsReady
    /\ \/ app = "allocated"
       \/ app = "running" /\ "startTwice" \in PortRaces
    /\ \/ "reuse" \in PortRaces
       \/ \A p \in LocalPorts : mDeferredReleaseCount[p] = 0
    /\ starts < MaxStarts
    /\ starts' = starts + 1
    /\ call' = Append(Steps("Start", Starting), <<"done", "running">>)
    /\ UNCHANGED <<userVars, channelVars, app, handler, kernelVars,
                   isochAsyncPort, callbacks, resets>>

Stop ==
    /\ ChannelIsReady /\ app \in {"running", "allocated"}
    /\ call' = Append(Steps("Stop", Stopping), <<"done", "allocated">>)
    /\ UNCHANGED <<userVars, channelVars, app, handler, kernelVars,
                   isochAsyncPort, boundVars>>

ClientReleaseChannel ==
    /\ ChannelIsReady /\ app \in {"allocated", "failed"}
    /\ call' = Steps("ReleasePort", Stopping) \o <<<<"Complete", mTalker>>>>
    /\ UNCHANGED <<userVars, channelVars, app, handler, kernelVars,
                   isochAsyncPort, boundVars>>

(* The channel's destructor, of a channel that is not running: its kernel  *)
(* object stays out of further bus resets, but the stop and the release of *)
(* the exporter's cleanup are unsupported for a user's channel.            *)
ClientReleasesChannel ==
    /\ Idle /\ channel = "open" /\ HandlerIsDone
    /\ app = "running" => "releaseStarted" \in PortRaces
    /\ forceStop => "lateForceStop" \in PortRaces
    /\ channel' = "released" /\ exported' = FALSE
    /\ LET kept == SelectSeq(Stopping, LAMBDA p : p \in LocalPorts /\ "channel" \in owners[p])
       IN  call' = Steps("Release", kept)
    /\ owners' = [p \in LocalPorts |-> owners[p] \ {"channel"}]
    /\ UNCHANGED <<port, mRefCount, mStarted, mExpectedStopTokens,
                   mDeferredReleaseCount, irm, forceStop, app, handler, kernelVars,
                   isochAsyncPort, boundVars>>

-----------------------------------------------------------------------------
(* The steps of the channel's calls, one port after another.               *)

(* How step op of port p may end: a local port by its hardware or its      *)
(* program, a remote one by the client's handler.                          *)
Errors(op, p) ==
    CASE op = "Start" /\ p \in LocalPorts /\ running[p] -> {TRUE}
      [] op \in {"AllocatePort", "Start"} -> {FALSE, TRUE}
      [] op = "ReleasePort" /\ p \in RemotePorts /\ "remoteFails" \in PortRaces ->
           {FALSE, TRUE}
      [] OTHER -> {FALSE}

PortAllocated(p, error) ==
    /\ \E state \in IF ~error THEN {"allocated"}
                    ELSE IF p \in LocalPorts THEN {"none", "allocated"} ELSE {"none"} :
          hardware' = [hardware EXCEPT ![p] = state]
    /\ UNCHANGED <<fStarted, running, isochAsyncPort, mStarted, mExpectedStopTokens>>

PortReleased(p, error) ==
    /\ hardware' = IF error THEN hardware ELSE [hardware EXCEPT ![p] = "none"]
    /\ UNCHANGED <<fStarted, running, isochAsyncPort, mStarted, mExpectedStopTokens>>

PortStarted(p, error) ==
    /\ IF p \in LocalPorts
       THEN /\ KernelStart(p, error)
            /\ mStarted' = IF error THEN mStarted ELSE [mStarted EXCEPT ![p] = TRUE]
       ELSE UNCHANGED <<kernelVars, isochAsyncPort, mStarted>>
    /\ UNCHANGED mExpectedStopTokens

(* What is left of the call after step op.                                 *)
Rest(op, error) ==
    CASE ~error -> Tail(call)
      [] error /\ op = "AllocatePort" -> <<<<"done", "failed">>>>
      [] error /\ op = "Start" -> Append(Steps("Stop", Stopping), <<"done", "allocated">>)
      [] OTHER -> <<Last(call)>>

PortStep ==
    /\ call # <<>>
    /\ LET op == Head(call)[1]  p == Head(call)[2]
       IN  /\ op \in {"AllocatePort", "Start", "ReleasePort"}
           /\ \E error \in Errors(op, p) :
                 /\ CASE op = "AllocatePort" -> PortAllocated(p, error)
                      [] op = "Start" -> PortStarted(p, error)
                      [] OTHER -> PortReleased(p, error)
                 /\ call' = Rest(op, error)
    /\ UNCHANGED <<port, mRefCount, mDeferredReleaseCount, owners, channelVars,
                   app, handler, boundVars>>

(* Stop expects a token before it asks the kernel for one.                 *)
PortStops(p) ==
    /\ IF p \in LocalPorts /\ mStarted[p]
       THEN /\ mStarted' = [mStarted EXCEPT ![p] = FALSE]
            /\ mExpectedStopTokens' = [mExpectedStopTokens EXCEPT ![p] = @ + 1]
       ELSE UNCHANGED <<mStarted, mExpectedStopTokens>>
    /\ call' = <<<<"KernelStop", p>>>> \o Tail(call)
    /\ UNCHANGED <<kernelVars, isochAsyncPort>>

PortStopped(p) ==
    /\ IF p \in LocalPorts THEN KernelStop(p, FALSE)
       ELSE UNCHANGED <<kernelVars, isochAsyncPort>>
    /\ call' = Tail(call)
    /\ UNCHANGED <<mStarted, mExpectedStopTokens>>

StopStep ==
    /\ call # <<>>
    /\ LET op == Head(call)[1]  p == Head(call)[2]
       IN  \/ op = "Stop" /\ PortStops(p)
           \/ op = "KernelStop" /\ PortStopped(p)
    /\ UNCHANGED <<port, mRefCount, mDeferredReleaseCount, owners, channelVars,
                   app, handler, boundVars>>

(* releaseChannelComplete: the bandwidth and the channel go back.          *)
ReleaseComplete ==
    /\ irm' = "none"
    /\ app' = "none"
    /\ UNCHANGED <<userVars, kernelVars, isochAsyncPort>>

(* The call returns.                                                       *)
ReturnStep ==
    /\ call # <<>>
    /\ LET op == Head(call)[1]
       IN  \/ /\ op = "done" /\ app' = Head(call)[2] /\ call' = <<>>
              /\ UNCHANGED <<userVars, irm, kernelVars, isochAsyncPort>>
           \/ op = "Complete" /\ ReleaseComplete /\ call' = <<>>
           \/ op = "Defer" /\ Defer /\ UNCHANGED <<app, irm>>
    /\ UNCHANGED <<channel, exported, forceStop, handler, boundVars>>

-----------------------------------------------------------------------------
(* Bus resets, and the end of the client's process.                        *)

(* A registered channel claims its resources again, or has lost them: its  *)
(* client is told, for stop and releaseChannel of the kernel's channel do  *)
(* nothing for it.  What nobody claims again is free.                      *)
BusResets ==
    /\ resets < MaxChannelResets
    /\ irm = "held"
    /\ resets' = resets + 1
    /\ \/ exported /\ UNCHANGED <<irm, forceStop>>
       \/ exported /\ irm' = "lost" /\ forceStop' = TRUE
       \/ ~exported /\ irm' = "none" /\ UNCHANGED forceStop
    /\ UNCHANGED <<userVars, channel, exported, app, call, handler, kernelVars,
                   isochAsyncPort, starts, callbacks>>

(* The client's force stop handler stops a channel that runs.              *)
ForceStopHandler ==
    /\ forceStop /\ Idle
    /\ forceStop' = FALSE
    /\ call' = IF app \in {"running", "allocated"}
               THEN Append(Steps("Stop", Stopping), <<"done", "allocated">>)
               ELSE <<>>
    /\ UNCHANGED <<userVars, channel, irm, exported, app, handler, kernelVars,
                   isochAsyncPort, boundVars>>

(* The exporter's cleanups of all its objects: stop and releasePort.       *)
CleanUp ==
    /\ running' = [p \in LocalPorts |-> FALSE]
    /\ fStarted' = [p \in LocalPorts |-> FALSE]
    /\ hardware' = [p \in Ports |-> IF p \in LocalPorts THEN "none" ELSE hardware[p]]

ClientDies ==
    /\ channel # "dead"
    /\ channel' = "dead" /\ call' = <<>> /\ handler' = {}
    /\ CleanUp
    /\ exported' = FALSE
    /\ isochAsyncPort' = <<>> /\ forceStop' = FALSE
    /\ UNCHANGED <<userVars, app, irm, boundVars>>

CallStep == ReleaseStep \/ PortStep \/ StopStep \/ ReturnStep
RunLoop == Dispatch \/ Finalize

PortNext ==
    \/ \E p \in LocalPorts : \/ CreatePort(p) \/ AddPort(p) \/ CallProc(p)
                             \/ ClientReleasesPort(p)
    \/ AllocateChannel \/ Start \/ Stop \/ ClientReleaseChannel
    \/ ClientReleasesChannel
    \/ CallStep \/ RunLoop
    \/ BusResets \/ ForceStopHandler \/ ClientDies

PortFairness == WF_portVars(CallStep) /\ WF_portVars(RunLoop)
-----------------------------------------------------------------------------
(* Properties.                                                             *)

PortTypeOK ==
    /\ port \in [LocalPorts -> {"none", "alive", "freed"}]
    /\ mRefCount \in [LocalPorts -> 0..2]
    /\ owners \in [LocalPorts -> SUBSET {"client", "channel"}]
    /\ mExpectedStopTokens \in [LocalPorts -> Nat]
    /\ channel \in {"open", "released", "dead"}
    /\ app \in {"none", "allocated", "failed", "running"}
    /\ hardware \in [Ports -> {"none", "allocated"}]
    /\ irm \in {"none", "held", "lost"}

(* A port is there while somebody holds it and while a message for it is   *)
(* on its way, whatever Releases were put off: a token or a callback of a  *)
(* freed port calls into memory that is gone.                              *)
PortsOutlastTheirUse ==
    channel # "dead" =>
        /\ PortTypeOK
        /\ \A p \in LocalPorts : owners[p] # {} => port[p] = "alive"
        /\ \A i \in DOMAIN isochAsyncPort : port[isochAsyncPort[i][2]] = "alive"
        /\ forceStop => channel = "open"

LastKind(s) == IF s = <<>> THEN {} ELSE {Last(s)[1]}

(* A port expects the tokens that are on their way to it or that the stop  *)
(* under way is about to send, and the last message of a stopped program   *)
(* is a token: "The finalize callback is called after the final callback   *)
(* has been made" (IOFireWireLibIsoch.h:390).                              *)
TokensAreTheLast ==
    channel # "dead" =>
        \A p \in LocalPorts :
            /\ mExpectedStopTokens[p] =
                   Messages(p, "token")
                   + IF call # <<>> /\ Head(call) = <<"KernelStop", p>> /\ fStarted[p]
                     THEN 1 ELSE 0
            /\ ~running[p] =>
                   LastKind(SelectSeq(isochAsyncPort, LAMBDA m : m[2] = p)) \subseteq {"token"}

(* A program runs only in a port whose hardware is allocated; nothing is   *)
(* left to a port that is freed or whose process is dead, nor to a channel *)
(* that was released.                                                      *)
HardwareIsGivenBack ==
    /\ \A p \in LocalPorts :
          /\ running[p] => hardware[p] = "allocated"
          /\ port[p] = "freed" \/ channel = "dead" =>
                 hardware[p] = "none" /\ ~running[p]
    /\ Idle /\ app = "none" =>
          irm = "none" /\ \A p \in Ports : hardware[p] = "none"

(* A port outlasts its use, a stopped program says so last, and a released *)
(* port has nothing left.                                                  *)
PortsEndProperly ==
    PortsOutlastTheirUse /\ TokensAreTheLast /\ HardwareIsGivenBack

(* A channel that is gone holds no isochronous resources: its cleanup      *)
(* calls "channel->releaseChannel()" (IOFWUserIsochChannel.cpp:120).       *)
ChannelIsGivenBack == exported \/ irm # "held"

(* Every expected token arrives, and a port that everybody has released is *)
(* freed in the end, unless the process dies before.                       *)
PortsAreFinalized ==
    \A p \in LocalPorts :
        /\ mExpectedStopTokens[p] > 0 ~> (mExpectedStopTokens[p] = 0 \/ channel = "dead")
        /\ (port[p] = "alive" /\ owners[p] = {}) ~> (port[p] = "freed" \/ channel = "dead")
=============================================================================
