---------------------------- MODULE IsochChannel ----------------------------
(***************************************************************************)
(* IOFWIsochChannel: a client allocates bandwidth and a channel from the   *)
(* IRM and releases them; after each bus reset a thread of its own claims  *)
(* them again.  fLock is held for the whole of each of the three, the gate *)
(* is not, so bus resets and other nodes come between their transactions.  *)
(***************************************************************************)
EXTENDS IRM, Sequences

CONSTANTS
    NoChannel,       \* 64
    bandwidth,       \* what the packets of the channel need
    inAllowedChans,  \* what its ports support
    DelayRetries,    \* waits for the end of bus resets (15 in the code)
    FailingSteps,    \* steps whose transactions may fail without a reset
    Races            \* the races that may happen, of AllRaces

(* A reset comes before the last one's thread has begun; between the claim *)
(* of a channel and its registration; another node changes the register of *)
(* channels between its read and its lock.                                 *)
AllRaces == {"staleThread", "lateRegistration", "lostLock"}

Client == 0
Threads == 2..MaxGeneration      \* the thread of each generation
Procs == {Client} \cup Threads

IsochAssumption == /\ NoChannel \notin Channels \cup Procs
                   /\ bandwidth \in 0..Bandwidth
                   /\ inAllowedChans \subseteq Channels
                   /\ DelayRetries \in Nat \ {0}
                   /\ Races \subseteq AllRaces
ASSUME IsochAssumption

VARIABLES
    fBandwidth, fChannel, fGeneration,
    fLock,               \* its holder, or NoChannel
    fAllocatedChannels,  \* whether the controller's set has the channel
    scanDue,             \* a reset has happened and its scan has not started
    pc,                  \* where each process is
    generation,          \* locals of each process
    result,
    oldIRM, allowed, retries,     \* locals of allocateChannelBegin
    allocated,           \* what the client was told
    mishaps              \* history: what went wrong in this generation

(* A transaction of a reallocation, or one that gives back, ends in an     *)
(* error without a reset; a thread of an earlier generation is later than  *)
(* the claim of a newer one, whose generation it overwrites.               *)
Mishaps == {"realloc", "giveBack", "lateThread"}

chanVars == <<fBandwidth, fChannel, fGeneration>>
beginVars == <<oldIRM, allowed, retries>>
envVars == <<fAllocatedChannels, scanDue>>
procVars == <<pc, generation, result>>
vars == <<irmVars, chanVars, fLock, envVars, procVars, beginVars, allocated, mishaps>>

(* Process p goes to label with result status.                             *)
Go(p, label, status) == /\ pc' = [pc EXCEPT ![p] = label]
                        /\ result' = [result EXCEPT ![p] = status]

Jump(p, label) == Go(p, label, result[p])
GetGeneration(p) == generation' = [generation EXCEPT ![p] = fBusGeneration]

(* How a transaction of process p ends.                                    *)
Statuses(p) ==
    IF ~InGeneration(generation[p]) THEN {"BusReset"}
    ELSE {"Success"} \cup IF pc[p] \in FailingSteps THEN {"Error"} ELSE {}

(* One of these went wrong.                                                *)
Mishap(kind, happened) == mishaps' = IF happened THEN mishaps \cup {kind} ELSE mishaps

(* A lock transaction that did not swap.                                   *)
Locked(status) == IF status = "Success" THEN "CannotLock" ELSE status

Lock(p) == fLock = NoChannel /\ fLock' = p
Unlock(p) == fLock' = NoChannel

Init ==
    /\ IRMInit
    /\ fBandwidth = 0 /\ fChannel = NoChannel /\ fGeneration = 0
    /\ fLock = NoChannel
    /\ fAllocatedChannels = FALSE /\ scanDue = FALSE
    /\ pc = [p \in Procs |-> "none"]
    /\ generation = [p \in Procs |-> 0]
    /\ result = [p \in Procs |-> "Success"]
    /\ oldIRM = Nothing /\ allowed = {} /\ retries = 0
    /\ allocated = FALSE /\ mishaps = {}

-----------------------------------------------------------------------------
(* allocateChannelBegin, from which the client's allocateChannel goes on.  *)

(* Bound: when a mishap has made more bandwidth available than there is no *)
(* client allocates before the next reset.                                 *)
WithinBandwidth == reg.bandwidth <= Bandwidth

allocateChannel ==
    /\ pc[Client] = "none" /\ ~allocated /\ WithinBandwidth
    /\ Lock(Client)
    /\ GetGeneration(Client)
    /\ Go(Client, "delay", "Success")
    /\ allowed' = inAllowedChans
    /\ retries' = DelayRetries
    /\ UNCHANGED <<irmVars, chanVars, envVars, oldIRM, allocated, mishaps>>

(* The second after a reset is over.                                       *)
Delay ==
    /\ pc[Client] = "delay"
    /\ IF InGeneration(generation[Client])
       THEN Jump(Client, "read") /\ UNCHANGED <<generation, retries>>
       ELSE /\ GetGeneration(Client)
            /\ retries' = retries - 1
            /\ IF retries = 1 THEN Go(Client, "finish", "Timeout")
                              ELSE Jump(Client, "delay")
    /\ UNCHANGED <<irmVars, chanVars, fLock, envVars, oldIRM, allowed, allocated, mishaps>>

ReadIRM ==
    /\ pc[Client] = "read"
    /\ \E status \in Statuses(Client) :
          IF status = "Success"
          THEN /\ oldIRM' = reg
               /\ Jump(Client, IF fBandwidth = 0 THEN "bandwidth" ELSE "channel")
          ELSE Go(Client, "finish", status) /\ UNCHANGED oldIRM
    /\ UNCHANGED <<irmVars, chanVars, fLock, envVars, generation, allowed, retries,
                   allocated, mishaps>>

ClaimBandwidth ==
    /\ pc[Client] = "bandwidth"
    /\ IF oldIRM.bandwidth < bandwidth
       THEN Go(Client, "finish", "NoSpace") /\ UNCHANGED <<irmVars, fBandwidth>>
       ELSE \E status \in Statuses(Client) :
               IF status = "Success" /\ reg.bandwidth = oldIRM.bandwidth
               THEN /\ Swap("bandwidth", oldIRM.bandwidth - bandwidth)
                    /\ fBandwidth' = bandwidth
                    /\ Jump(Client, "channel")
               ELSE /\ Go(Client, "finish", Locked(status))
                    /\ UNCHANGED <<irmVars, fBandwidth>>
    /\ UNCHANGED <<fChannel, fGeneration, fLock, envVars, generation, beginVars,
                   allocated, mishaps>>

(* If the channel is not to be had the bandwidth goes back.                *)
ClaimChannel ==
    /\ pc[Client] = "channel"
    /\ allowed' = IF fChannel = NoChannel THEN allowed \cap oldIRM.channels ELSE allowed
    /\ \E status \in IF fChannel # NoChannel THEN {"Success"}
                     ELSE IF allowed' = {} THEN {"NoResources"}
                     ELSE Statuses(Client) :
          CASE fChannel # NoChannel ->
                 Jump(Client, "finish") /\ UNCHANGED <<irmVars, fChannel>>
            [] fChannel = NoChannel /\ status = "Success"
                                    /\ reg.channels = oldIRM.channels ->
                 /\ fChannel' = CHOOSE c \in allowed' : TRUE
                 /\ Swap("channels", reg.channels \ {fChannel'})
                 /\ Jump(Client, "finish")
            [] OTHER ->
                 /\ Go(Client, IF fBandwidth # 0 THEN "giveBack" ELSE "finish",
                       Locked(status))
                 /\ UNCHANGED <<irmVars, fChannel>>
    /\ oldIRM' = Nothing
    /\ UNCHANGED <<fBandwidth, fGeneration, fLock, envVars, generation, retries,
                   allocated, mishaps>>

(* releaseIRMBandwidthInGeneration: the second of two tries knows what was *)
(* in the register, unless the first ended in an error and left the value  *)
(* to expect uninitialized.  fBandwidth stays.                             *)
GiveBack ==
    /\ pc[Client] \in {"giveBack", "giveBackAgain"}
    /\ \E status \in Statuses(Client) :
          /\ IF status = "Success" /\ reg.bandwidth = oldIRM.bandwidth
             THEN Swap("bandwidth", oldIRM.bandwidth + fBandwidth)
             ELSE UNCHANGED irmVars
          /\ IF /\ pc[Client] = "giveBack" /\ status # "BusReset"
                /\ status = "Success" => reg.bandwidth # oldIRM.bandwidth
             THEN Jump(Client, "giveBackAgain")
             ELSE Jump(Client, "finish")
          /\ oldIRM' \in IF status = "Success" THEN {reg} ELSE {reg, Nothing}
    /\ UNCHANGED <<chanVars, fLock, envVars, generation, allowed, retries, allocated, mishaps>>

FinishBegin ==
    /\ pc[Client] = "finish"
    /\ CASE result[Client] = "Success" ->
              /\ fGeneration' = generation[Client]
              /\ fAllocatedChannels' = TRUE
              /\ Unlock(Client)
              /\ Jump(Client, "ports")
              /\ UNCHANGED <<fBandwidth, fChannel, generation, retries>>
         [] result[Client] \in {"BusReset", "CannotLock"} ->
              /\ IF result[Client] = "BusReset"
                 THEN fBandwidth' = 0 /\ fChannel' = NoChannel
                 ELSE UNCHANGED <<fBandwidth, fChannel>>
              /\ GetGeneration(Client)
              /\ retries' = DelayRetries
              /\ Go(Client, "delay", "Success")
              /\ UNCHANGED <<fGeneration, fLock, fAllocatedChannels>>
         [] OTHER ->
              /\ Unlock(Client)
              /\ Jump(Client, "release")
              /\ UNCHANGED <<chanVars, fAllocatedChannels, generation, retries>>
    /\ oldIRM' = Nothing
    /\ UNCHANGED <<irmVars, scanDue, allowed, allocated, mishaps>>

(* The ports allocate hardware, or fail to.                                *)
AllocatePorts ==
    /\ pc[Client] = "ports"
    /\ \/ Go(Client, "none", "Success") /\ allocated' = TRUE
       \/ Go(Client, "release", "Error") /\ UNCHANGED allocated
    /\ UNCHANGED <<irmVars, chanVars, fLock, envVars, generation, beginVars, mishaps>>

-----------------------------------------------------------------------------
(* releaseChannelComplete, for the client or a thread.                     *)

releaseChannel ==
    /\ pc[Client] = "none" /\ allocated
    /\ allocated' = FALSE
    /\ Jump(Client, "release")
    /\ UNCHANGED <<irmVars, chanVars, fLock, envVars, generation, beginVars, mishaps>>

Unregister(p) ==
    /\ pc[p] = "release"
    /\ Lock(p)
    /\ fAllocatedChannels' = FALSE
    /\ Go(p, "releaseGeneration", "Success")
    /\ UNCHANGED <<irmVars, chanVars, scanDue, generation, beginVars, allocated, mishaps>>

CheckGeneration(p) ==
    /\ pc[p] = "releaseGeneration"
    /\ GetGeneration(p)
    /\ IF fBusGeneration # fGeneration
       THEN /\ fBandwidth' = 0 /\ fChannel' = NoChannel
            /\ Go(p, "releaseChannel", "BusReset")
       ELSE Jump(p, "releaseBandwidth") /\ UNCHANGED <<fBandwidth, fChannel>>
    /\ UNCHANGED <<irmVars, fGeneration, fLock, envVars, beginVars, allocated, mishaps>>

ReleaseBandwidth(p) ==
    /\ pc[p] = "releaseBandwidth"
    /\ \E status \in IF fBandwidth = 0 THEN {"Success"} ELSE Statuses(p) :
          /\ IF status = "Success"
             THEN Swap("bandwidth", reg.bandwidth + fBandwidth)
             ELSE UNCHANGED irmVars
          /\ Mishap("giveBack", status = "Error")
          /\ Go(p, "releaseChannel", IF status = "BusReset" THEN status ELSE "Success")
    /\ fBandwidth' = 0
    /\ UNCHANGED <<fChannel, fGeneration, fLock, envVars, generation, beginVars,
                   allocated>>

(* In the end, error or not, nothing is allocated.                         *)
ReleaseChannel(p) ==
    /\ pc[p] = "releaseChannel"
    /\ \E status \in IF fChannel = NoChannel \/ result[p] # "Success" THEN {"BusReset"}
                     ELSE Statuses(p) :
          /\ IF status = "Success"
             THEN Swap("channels", reg.channels \cup {fChannel})
             ELSE UNCHANGED irmVars
          /\ Mishap("giveBack", status = "Error")
    /\ fBandwidth' = 0 /\ fChannel' = NoChannel
    /\ fGeneration' = generation[p]
    /\ Unlock(p)
    /\ Go(p, "none", "Success")
    /\ UNCHANGED <<envVars, generation, beginVars, allocated>>

-----------------------------------------------------------------------------
(* reallocBandwidth, in the thread p of generation p.                      *)

ReallocTwice(p) ==                                               \* mutant
    /\ pc[p] = "realloc"
    /\ Lock(p)
    /\ Go(p, "reallocBandwidth", IF p # fBusGeneration THEN "BusReset" ELSE "Success")
    /\ UNCHANGED <<irmVars, chanVars, envVars, generation, beginVars, allocated, mishaps>>

reallocBandwidth(p) ==
    /\ pc[p] = "realloc"
    /\ Lock(p)
    /\ Go(p, "reallocBandwidth", IF p # fBusGeneration THEN "BusReset"
                                 ELSE IF fGeneration = p THEN "Error"
                                 ELSE "Success")
    /\ UNCHANGED <<irmVars, chanVars, envVars, generation, beginVars, allocated, mishaps>>

ReallocBandwidth(p) ==
    /\ pc[p] = "reallocBandwidth"
    /\ \E status \in IF result[p] # "Success" THEN {result[p]}
                     ELSE IF fBandwidth = 0 THEN {"Success"}
                     ELSE Statuses(p) :
          /\ IF status = "Success" /\ reg.bandwidth < fBandwidth
             THEN /\ fBandwidth' = 0 /\ fChannel' = NoChannel
                  /\ Go(p, "reallocChannel", "NoSpace")
                  /\ UNCHANGED irmVars
             ELSE /\ IF status = "Success"
                     THEN Swap("bandwidth", reg.bandwidth - fBandwidth)
                     ELSE UNCHANGED irmVars
                  /\ Go(p, "reallocChannel", status)
                  /\ UNCHANGED <<fBandwidth, fChannel>>
          /\ Mishap("realloc", result[p] = "Success" /\ status = "Error")
    /\ UNCHANGED <<fGeneration, fLock, envVars, generation, beginVars, allocated>>

ReallocChannel(p) ==
    /\ pc[p] = "reallocChannel"
    /\ \E status \in IF result[p] # "Success" THEN {result[p]}
                     ELSE IF fChannel = NoChannel THEN {"Success"}
                     ELSE Statuses(p) :
          /\ IF /\ status = "Success" /\ fChannel # NoChannel
                /\ fChannel \notin reg.channels
             THEN /\ fChannel' = NoChannel
                  /\ Go(p, "reallocated", "ChannelNotAvailable")
                  /\ UNCHANGED irmVars
             ELSE /\ IF status = "Success"
                     THEN Swap("channels", reg.channels \ {fChannel})
                     ELSE UNCHANGED irmVars
                  /\ Go(p, "reallocated", status)
                  /\ UNCHANGED fChannel
          /\ Mishap("realloc", result[p] = "Success" /\ status = "Error")
    /\ UNCHANGED <<fBandwidth, fGeneration, fLock, envVars, generation, beginVars,
                   allocated>>

(* What another node has taken is given up.  After an error nothing is: the *)
(* channel stays registered, and its client is not told.                   *)
Reallocated(p) ==
    /\ pc[p] = "reallocated"
    /\ fGeneration' = p
    /\ Unlock(p)
    /\ IF result[p] \in {"NoSpace", "ChannelNotAvailable"}
       THEN Jump(p, "release")
       ELSE Go(p, "none", "Success")
    /\ Mishap("lateThread", fGeneration > p)
    /\ UNCHANGED <<irmVars, fBandwidth, fChannel, envVars, generation, beginVars,
                   allocated>>

-----------------------------------------------------------------------------
(* The controller and the bus.                                             *)

BusReset ==
    /\ "staleThread" \in Races \/ \A p \in Threads : pc[p] # "realloc"
    /\ \/ "lateRegistration" \in Races
       \/ ~(pc[Client] = "finish" /\ result[Client] = "Success")
    /\ ResetRegisters
    /\ scanDue' = TRUE
    /\ mishaps' = {}
    /\ UNCHANGED <<chanVars, fLock, fAllocatedChannels, procVars, beginVars, allocated>>

(* startBusScan: handleBusReset of a channel in the set starts a thread.   *)
startBusScan ==
    /\ scanDue
    /\ scanDue' = FALSE
    /\ pc' = IF fAllocatedChannels
             THEN [pc EXCEPT ![fBusGeneration] = "realloc"]
             ELSE pc
    /\ generation' = [generation EXCEPT ![fBusGeneration] = fBusGeneration]
    /\ UNCHANGED <<irmVars, chanVars, fLock, fAllocatedChannels, result, beginVars,
                   allocated, mishaps>>

OtherNodes ==
    /\ OtherNodesClaim \/ OtherNodesRelease
    /\ \/ "lostLock" \in Races \/ reg'.channels = reg.channels
       \/ pc[Client] \notin {"bandwidth", "channel"}
    /\ UNCHANGED <<chanVars, fLock, envVars, procVars, beginVars, allocated, mishaps>>

Begin == \/ Delay \/ ReadIRM \/ ClaimBandwidth \/ ClaimChannel \/ GiveBack
         \/ FinishBegin \/ AllocatePorts

Release(p) == \/ Unregister(p) \/ CheckGeneration(p)
              \/ ReleaseBandwidth(p) \/ ReleaseChannel(p)

Realloc(p) == \/ reallocBandwidth(p) \/ ReallocBandwidth(p)
              \/ ReallocChannel(p) \/ Reallocated(p)

Next == \/ allocateChannel \/ releaseChannel
        \/ Begin
        \/ \E p \in Procs : Release(p)
        \/ \E p \in Threads : Realloc(p)
        \/ BusReset \/ startBusScan \/ OtherNodes

Spec == /\ Init /\ [][Next]_vars
        /\ WF_vars(startBusScan) /\ WF_vars(Begin \/ Release(Client))
        /\ \A p \in Threads : WF_vars(Realloc(p) \/ Release(p))
-----------------------------------------------------------------------------
(* Properties.                                                             *)

Believed == [bandwidth |-> fBandwidth,
             channels |-> IF fChannel = NoChannel THEN {} ELSE {fChannel}]

AllStatuses == {"Success", "BusReset", "CannotLock", "NoSpace", "NoResources",
             "Timeout", "Error", "ChannelNotAvailable"}

TypeOK ==
    /\ fBusGeneration \in 1..MaxGeneration
    /\ reg \in Registers /\ held \in Registers /\ others \in Registers
    /\ fBandwidth \in {0, bandwidth}
    /\ fChannel \in Channels \cup {NoChannel}
    /\ fGeneration \in 0..fBusGeneration
    /\ fLock \in Procs \cup {NoChannel}
    /\ generation \in [Procs -> 0..fBusGeneration]
    /\ result \in [Procs -> AllStatuses]
    /\ retries \in 0..DelayRetries
    /\ mishaps \subseteq Mishaps

Quiet == ~scanDue /\ \A p \in Procs : pc[p] = "none"

(* When nothing is under way, what the channel believes it holds is what   *)
(* it holds; a reallocation that ended in an error leaves it with less     *)
(* bandwidth, never with more.                                             *)
BelievesWhatItHolds ==
    Quiet => /\ mishaps = {} => held = Believed
             /\ mishaps = {"realloc"} => held.bandwidth <= fBandwidth

(* Through resets, failures and other nodes the channel gives back only    *)
(* what it claimed, and when it is quiet it holds what it believes to hold.*)
(* A mishap spoils this until the next reset and no longer.                *)
HoldsWhatItBelieves == /\ TypeOK
                       /\ mishaps = {} => OthersKeepTheirs
                       /\ BelievesWhatItHolds

(* A channel that lost its resources in a reset gets them back, or is      *)
(* released, unless there was a mishap: then it stays as it is.            *)
Reallocates ==
    (fAllocatedChannels /\ held # Believed)
        ~> (~fAllocatedChannels \/ held = Believed \/ mishaps # {})
=============================================================================
