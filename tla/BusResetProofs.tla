--------------------------- MODULE BusResetProofs ---------------------------
(***************************************************************************)
(* Proofs about BusReset, for all delays and bounds: the type invariant,   *)
(* that a scheduled reset always has a timer, that every waiting state is  *)
(* timed and waits its own delay, that devices are pruned after whole      *)
(* scans only, and that critical sections are respected.  At the end, that *)
(* the gate of the work loop (WorkLoop), under which all of it runs, is    *)
(* kept while the machine sleeps and loses no wake-up.                     *)
(***************************************************************************)
EXTENDS BusReset, WorkLoop, TLAPS

(* The records the operators of BusReset work on.                          *)
States ==
    [fBusState : BusStates,
     fBusResetState : ResetStates,
     fBusResetScheduled : BOOLEAN,
     fBusResetDisabledCount : 0..MaxDisabled,
     fDelayedStateChangeCmd : StateTimers,
     fBusResetStateChangeCmd : ResetTimers,
     fDelayedStateChangeCmdNeedAbort : BOOLEAN,
     fWaitingForSelfID : Nat,
     fNumROMReads : 0..MaxRemoteNodes,
     fDevicePruneDelay : PruneDelays,
     scanReads : Nat,
     missing : BOOLEAN,
     phy : PhyStates]

(* What holds of a record all through a handler: the timer that ends the   *)
(* reset-disabled state runs in that state, and a state timer left busy by *)
(* a state that does not use it can only be the one of                     *)
(* kWaitingBusResetStart.                                                  *)
Base(s) ==
    /\ s \in States
    /\ s.scanReads <= s.fNumROMReads
    /\ s.fBusResetState = "Disabled" => s.fBusResetStateChangeCmd.busy
    /\ s.fDelayedStateChangeCmd.busy =>
          \/ s.fDelayedStateChangeCmd.timeout = kBusResetStartTimeout
          \/ delayedStateCommandInUse(s)
          \/ s.fBusState = "kAsleep" /\ s.fDelayedStateChangeCmdNeedAbort

(* What holds at every call of resetBus: a reset scheduled while resets    *)
(* are arbitrated waits in kWaitingBusResetStart, with its timer.          *)
Core(s) ==
    /\ Base(s)
    /\ s.fBusResetState = "Arbitrated" /\ s.fBusResetScheduled =>
          /\ s.fBusState = "kWaitingBusResetStart"
          /\ s.fDelayedStateChangeCmd.busy
          /\ s.fDelayedStateChangeCmd.timeout = kBusResetStartTimeout

(* What holds besides when a handler returns.                              *)
Rest(s) ==
    /\ s.fBusState \in {"kWaitingSelfIDs", "kWaitingScan", "kScanning",
                        "kWaitingPrune"} => s.fBusResetState # "Resetting"
    /\ s.fBusState \in {"kWaitingBusReset", "kWaitingSelfIDs",
                        "kWaitingPrune", "kWaitingBusResetStart"} =>
          s.fDelayedStateChangeCmd.busy
    /\ s.fBusState = "kWaitingScan" =>
          s.fDelayedStateChangeCmd.busy \/ s.fBusResetScheduled
    /\ s.fBusState \in {"kWaitingScan", "kWaitingPrune"} => s.scanReads = 0

Inv == Core(Now) /\ Rest(Now) /\ trouble \in 0..MaxTrouble

-----------------------------------------------------------------------------
LEMMA DelayTypes ==
    /\ kScanBusDelay \in Nat /\ kBusResetStartTimeout \in Nat
    /\ kBusResetTimeout \in Nat /\ kSelfIDTimeout \in Nat
    /\ kRepeatResetDelay \in Nat
    /\ PruneDelays \subseteq Nat
BY DelaysAssumption DEF DelaysAssumption, PruneDelays

(* A record built by a handler is the state it becomes.                    *)
LEMMA BecomesNow ==
    ASSUME NEW s, s \in States, Becomes(s)
    PROVE  Now' = s
BY DEF Becomes, Now, States

(* The delayed commands stay well typed.                                   *)
LEMMA CancelledTimer ==
    ASSUME NEW cmd \in StateTimers
    PROVE  /\ Cancelled(cmd) \in StateTimers
           /\ ~Cancelled(cmd).busy
           /\ Cancelled(cmd).timeout = cmd.timeout
BY DEF Cancelled, StateTimers

LEMMA ArmedTimer ==
    ASSUME NEW cmd \in StateTimers, NEW delay \in Nat
    PROVE  /\ Armed(cmd, delay) \in StateTimers
           /\ Armed(cmd, delay).busy
           /\ Armed(cmd, delay).timeout =
                 IF cmd.busy THEN cmd.timeout ELSE delay
BY DEF Armed, StateTimers

(* WaitIn changes the state and the state timer, and nothing else.         *)
Same(s, t) ==
    /\ t.fBusResetState = s.fBusResetState
    /\ t.fBusResetScheduled = s.fBusResetScheduled
    /\ t.fBusResetDisabledCount = s.fBusResetDisabledCount
    /\ t.fBusResetStateChangeCmd = s.fBusResetStateChangeCmd
    /\ t.fDelayedStateChangeCmdNeedAbort = s.fDelayedStateChangeCmdNeedAbort
    /\ t.fNumROMReads = s.fNumROMReads
    /\ t.scanReads = s.scanReads

LEMMA CancelIfInUseFacts ==
    ASSUME NEW s \in States
    PROVE  /\ CancelIfInUse(s) \in States
           /\ Same(s, CancelIfInUse(s))
           /\ CancelIfInUse(s).fBusState = s.fBusState
           /\ CancelIfInUse(s).fDelayedStateChangeCmd.busy =>
                 /\ s.fDelayedStateChangeCmd.busy
                 /\ ~delayedStateCommandInUse(s)
           /\ CancelIfInUse(s).fDelayedStateChangeCmd.timeout =
                 s.fDelayedStateChangeCmd.timeout
BY CancelledTimer DEF CancelIfInUse, States, Same

LEMMA WaitInFacts ==
    ASSUME NEW s \in States, NEW state \in BusStates, NEW delay \in Nat
    PROVE  LET w == WaitIn(s, state, delay)
           IN  /\ w \in States
               /\ Same(s, w)
               /\ w.fBusState = state
               /\ w.fDelayedStateChangeCmd.busy
               /\ w.fDelayedStateChangeCmd.timeout = delay
                  \/ /\ s.fDelayedStateChangeCmd.busy
                     /\ ~delayedStateCommandInUse(s)
                     /\ w.fDelayedStateChangeCmd.timeout =
                           s.fDelayedStateChangeCmd.timeout
<1> DEFINE c == CancelIfInUse(s)
           cmd == Armed(c.fDelayedStateChangeCmd, delay)
<1>1. c \in States /\ Same(s, c)
  BY CancelIfInUseFacts
<1>2. c.fDelayedStateChangeCmd \in StateTimers
  BY <1>1 DEF States
<1>3. cmd \in StateTimers /\ cmd.busy
      /\ cmd.timeout = IF c.fDelayedStateChangeCmd.busy
                       THEN c.fDelayedStateChangeCmd.timeout ELSE delay
  BY <1>2, ArmedTimer
<1>4. WaitIn(s, state, delay) =
        [c EXCEPT !.fBusState = state, !.fDelayedStateChangeCmd = cmd]
  BY DEF WaitIn
<1> HIDE DEF c, cmd
<1>5. LET w == WaitIn(s, state, delay)
      IN  /\ w \in States /\ Same(c, w)
          /\ w.fBusState = state
          /\ w.fDelayedStateChangeCmd = cmd
  BY <1>1, <1>3, <1>4 DEF States, Same
<1>6. QED
  BY <1>1, <1>3, <1>5, CancelIfInUseFacts DEF Same, c
-----------------------------------------------------------------------------
Outcomes == {"reset", "fail", "lose"}

LEMMA OutcomesCovered == FWIMOutcomes \subseteq Outcomes
BY DEF FWIMOutcomes, Outcomes

(* doBusReset restores the whole invariant from its base.                  *)
LEMMA DoBusResetGood ==
    ASSUME NEW s, Base(s), s.fBusState # "kAsleep", NEW out \in Outcomes
    PROVE  Core(doBusReset(s, out)) /\ Rest(doBusReset(s, out))
<1> DEFINE r == [s EXCEPT !.fBusResetState = "Resetting"]
<1>1. r \in States /\ r.fBusResetState = "Resetting"
      /\ r.scanReads = s.scanReads /\ r.fNumROMReads = s.fNumROMReads
      /\ r.fBusState = s.fBusState
      /\ r.fDelayedStateChangeCmd = s.fDelayedStateChangeCmd
  BY DEF Core, Base, States, ResetStates
<1> HIDE DEF r
<1> DEFINE w == WaitIn(r, "kWaitingBusReset", kBusResetTimeout)
<1>2. w \in States /\ Same(r, w) /\ w.fBusState = "kWaitingBusReset"
      /\ w.fDelayedStateChangeCmd.busy
  BY <1>1, WaitInFacts, DelayTypes DEF BusStates
<1> HIDE DEF w
<1>3. CASE out # "fail"
  <2> DEFINE d == doBusReset(s, out)
             p == PhyAfter(w.phy, out)
             n == IF w.fWaitingForSelfID > kMaxWaitForValidSelfID
                  THEN 0 ELSE w.fWaitingForSelfID
  <2>1. d = [w EXCEPT !.phy = p, !.fWaitingForSelfID = n]
    BY <1>3 DEF doBusReset, w, r
  <2>2. p \in PhyStates /\ n \in Nat
    BY <1>2 DEF PhyAfter, PhyStates, States
  <2> HIDE DEF d, p, n
  <2>3. d \in States /\ Same(w, d) /\ d.fBusState = w.fBusState
        /\ d.fDelayedStateChangeCmd = w.fDelayedStateChangeCmd
    BY <1>2, <2>1, <2>2 DEF States, Same
  <2>4. Core(d) /\ Rest(d)
    BY <1>1, <1>2, <2>3 DEF Core, Base, Rest, Same, delayedStateCommandInUse
  <2>5. QED BY <2>4 DEF d
<1>4. CASE out = "fail"
  <2>1. doBusReset(s, out) =
          [w EXCEPT !.fDelayedStateChangeCmd = Cancelled(@),
                    !.fBusState = "kRunning"]
    BY <1>4 DEF doBusReset, w, r
  <2>2. Cancelled(w.fDelayedStateChangeCmd) \in StateTimers
        /\ ~Cancelled(w.fDelayedStateChangeCmd).busy
    BY <1>2, CancelledTimer DEF States
  <2> DEFINE d == doBusReset(s, out)
             c == Cancelled(w.fDelayedStateChangeCmd)
  <2> HIDE DEF c
  <2>3. d \in States /\ Same(w, d) /\ d.fBusState = "kRunning"
        /\ ~d.fDelayedStateChangeCmd.busy
    BY <1>2, <2>1, <2>2 DEF States, Same, BusStates, c
  <2> HIDE DEF d
  <2>4. Core(d) /\ Rest(d)
    BY <1>1, <1>2, <2>3 DEF Core, Base, Rest, Same
  <2>5. QED BY <2>4 DEF d
<1>5. QED BY <1>3, <1>4

(* resetBus keeps the core, and the rest too if it held; from a scan delay *)
(* that has lost its timer to bad self-IDs it brings the rest back.        *)
LEMMA ResetBusGood ==
    ASSUME NEW s, Core(s), s.fBusState # "kAsleep", NEW out \in Outcomes
    PROVE  /\ Core(resetBus(s, out))
           /\ \/ Rest(s)
              \/ /\ s.fBusState = "kWaitingScan" /\ s.scanReads = 0
                 /\ s.fBusResetState # "Resetting"
              => Rest(resetBus(s, out))
<1>1. CASE s.fBusResetState = "Disabled"
  <2> DEFINE d == [s EXCEPT !.fBusResetScheduled = TRUE]
  <2>1. resetBus(s, out) = d
    BY <1>1 DEF resetBus
  <2>2. d \in States /\ d.fBusResetScheduled /\ d.fBusState = s.fBusState
        /\ d.fBusResetState = s.fBusResetState
        /\ d.scanReads = s.scanReads /\ d.fNumROMReads = s.fNumROMReads
        /\ d.fDelayedStateChangeCmd = s.fDelayedStateChangeCmd
        /\ d.fBusResetStateChangeCmd = s.fBusResetStateChangeCmd
        /\ d.fDelayedStateChangeCmdNeedAbort =
              s.fDelayedStateChangeCmdNeedAbort
    BY DEF Core, Base, States
  <2> HIDE DEF d
  <2>3. QED
    BY <1>1, <2>1, <2>2 DEF Core, Base, Rest, delayedStateCommandInUse
<1>2. CASE s.fBusResetState = "Arbitrated" /\ s.fBusResetDisabledCount = 0
  <2>1. resetBus(s, out) = doBusReset(s, out)
    BY <1>2 DEF resetBus
  <2>2. QED BY <2>1, DoBusResetGood DEF Core
<1>3. CASE /\ s.fBusResetState = "Arbitrated"
           /\ s.fBusResetDisabledCount > 0
           /\ ~s.fBusResetScheduled
  <2> DEFINE d == [s EXCEPT !.fBusResetScheduled = TRUE]
             w == WaitIn(d, "kWaitingBusResetStart", kBusResetStartTimeout)
  <2>1. resetBus(s, out) = w
    BY <1>3 DEF resetBus, Core, Base, States
  <2>2. d \in States /\ d.fBusState = s.fBusState
        /\ d.fBusResetState = s.fBusResetState
        /\ d.scanReads = s.scanReads /\ d.fNumROMReads = s.fNumROMReads
        /\ d.fDelayedStateChangeCmd = s.fDelayedStateChangeCmd
        /\ d.fBusResetStateChangeCmd = s.fBusResetStateChangeCmd
    BY DEF Core, Base, States
  <2> HIDE DEF d
  <2>3. "kWaitingBusResetStart" \in BusStates
    BY DEF BusStates
  <2>4. w \in States /\ Same(d, w) /\ w.fBusState = "kWaitingBusResetStart"
        /\ w.fDelayedStateChangeCmd.busy
        /\ \/ w.fDelayedStateChangeCmd.timeout = kBusResetStartTimeout
           \/ /\ d.fDelayedStateChangeCmd.busy
              /\ ~delayedStateCommandInUse(d)
              /\ w.fDelayedStateChangeCmd.timeout =
                    d.fDelayedStateChangeCmd.timeout
    BY <2>2, <2>3, WaitInFacts, DelayTypes
  <2> HIDE DEF w
  <2>5. w.fDelayedStateChangeCmd.timeout = kBusResetStartTimeout
    BY <2>2, <2>4 DEF Core, Base, delayedStateCommandInUse
  <2>6. Core(w) /\ Rest(w)
    BY <1>3, <2>2, <2>4, <2>5
       DEF Core, Base, Rest, Same, delayedStateCommandInUse
  <2>7. QED BY <2>1, <2>6
<1>4. CASE /\ s.fBusResetState # "Disabled"
           /\ s.fBusResetState = "Arbitrated" =>
                 s.fBusResetDisabledCount # 0 /\ s.fBusResetScheduled
  <2>1. resetBus(s, out) = s
    BY <1>4 DEF resetBus
  <2>2. QED
    BY <1>4, <2>1 DEF Core, Base, Rest, States, ResetStates
<1>5. QED
  BY <1>1, <1>2, <1>3, <1>4 DEF Core, Base, States, ResetStates
-----------------------------------------------------------------------------
LEMMA ProcessBusResetGood ==
    ASSUME NEW s, Core(s), s.fBusState # "kAsleep", NEW tooLong \in BOOLEAN
    PROVE  LET t == processBusReset(s, tooLong)
           IN  /\ Core(t) /\ Rest(t)
               /\ t.fBusState = "kWaitingSelfIDs"
               /\ t.phy = s.phy
<1> DEFINE e == enterBusResetDisabledState(
                    [s EXCEPT !.fBusResetScheduled = FALSE])
<1>1. /\ e \in States
      /\ e.fBusResetState = "Disabled" /\ ~e.fBusResetScheduled
      /\ e.fBusResetStateChangeCmd.busy
      /\ e.scanReads = s.scanReads /\ e.fNumROMReads = s.fNumROMReads
      /\ e.phy = s.phy
  BY DelayTypes
     DEF Core, Base, States, enterBusResetDisabledState, ResetStates, ResetTimers
<1> HIDE DEF e
<1> DEFINE c == CancelIfInUse(e)
<1>2. c \in States /\ Same(e, c) /\ c.phy = e.phy
  BY <1>1, CancelIfInUseFacts DEF CancelIfInUse, States
<1> HIDE DEF c
<1> DEFINE cmd == Armed(c.fDelayedStateChangeCmd, kSelfIDTimeout)
           t == processBusReset(s, tooLong)
<1>3. cmd \in StateTimers /\ cmd.busy
  BY <1>2, ArmedTimer, DelayTypes DEF States
<1>4. t = [c EXCEPT !.fBusState = "kWaitingSelfIDs",
                    !.missing = @ /\ ~tooLong,
                    !.fDelayedStateChangeCmd = cmd]
  BY <1>2 DEF processBusReset, checkProgress, c, e, States
<1> HIDE DEF cmd, t
<1>5. /\ t \in States /\ Same(c, t) /\ t.phy = c.phy
      /\ t.fBusState = "kWaitingSelfIDs"
      /\ t.fDelayedStateChangeCmd.busy
  BY <1>2, <1>3, <1>4 DEF States, Same, BusStates
<1>6. t.scanReads <= t.fNumROMReads
  BY <1>1, <1>2, <1>5 DEF Same, Core, Base
<1>7. Core(t) /\ Rest(t)
  BY <1>1, <1>2, <1>5, <1>6
     DEF Core, Base, Rest, Same, delayedStateCommandInUse
<1>8. QED
  BY <1>1, <1>2, <1>5, <1>7 DEF t

LEMMA SelfIDsArrivedGood ==
    ASSUME NEW s, Core(s), Rest(s), s.fBusState # "kAsleep",
           NEW tooLong \in BOOLEAN
    PROVE  LET t == SelfIDsArrived(s, tooLong)
           IN  /\ Core(t)
               /\ t.fBusState = "kWaitingScan" /\ t.scanReads = 0
               /\ t.fBusResetState # "Resetting"
<1> DEFINE b == IF s.fBusState # "kWaitingSelfIDs"
                THEN processBusReset(s, tooLong) ELSE s
<1>1. Core(b) /\ Rest(b) /\ b.fBusState = "kWaitingSelfIDs"
  BY ProcessBusResetGood
<1> DEFINE cmd == Cancelled(b.fDelayedStateChangeCmd)
           t == SelfIDsArrived(s, tooLong)
<1>2. t = [b EXCEPT !.missing = TRUE, !.scanReads = 0,
                    !.fDelayedStateChangeCmd = cmd,
                    !.fBusState = "kWaitingScan",
                    !.phy = "quiet"]
  BY <1>1 DEF SelfIDsArrived, suspendBus, Core, Base, States
<1> HIDE DEF b
<1>3. cmd \in StateTimers /\ ~cmd.busy
  BY <1>1, CancelledTimer DEF Core, Base, States
<1> HIDE DEF cmd, t
<1>4. /\ t \in States
      /\ t.fBusState = "kWaitingScan"
      /\ ~t.fDelayedStateChangeCmd.busy
      /\ t.fBusResetState = b.fBusResetState
      /\ t.fBusResetScheduled = b.fBusResetScheduled
      /\ t.fBusResetStateChangeCmd = b.fBusResetStateChangeCmd
      /\ t.fNumROMReads = b.fNumROMReads /\ t.scanReads = 0
  BY <1>1, <1>2, <1>3 DEF States, Core, Base, BusStates, PhyStates
<1>5. t.scanReads <= t.fNumROMReads
  BY <1>4 DEF States
<1>6. Core(t)
  BY <1>1, <1>4, <1>5 DEF Core, Base
<1>7. t.fBusResetState # "Resetting"
  BY <1>1, <1>4 DEF Rest
<1>8. QED
  BY <1>4, <1>6, <1>7 DEF t
-----------------------------------------------------------------------------
(* What the invariant speaks of is the same in s and t.                    *)
Frame(s, t) ==
    /\ t \in States
    /\ t.fBusState = s.fBusState
    /\ t.fBusResetState = s.fBusResetState
    /\ t.fBusResetScheduled = s.fBusResetScheduled
    /\ t.fDelayedStateChangeCmd = s.fDelayedStateChangeCmd
    /\ t.fBusResetStateChangeCmd = s.fBusResetStateChangeCmd
    /\ t.fDelayedStateChangeCmdNeedAbort = s.fDelayedStateChangeCmdNeedAbort
    /\ t.scanReads <= t.fNumROMReads
    /\ t.scanReads <= s.scanReads

LEMMA FrameGood ==
    ASSUME NEW s, NEW t, Frame(s, t), Core(s)
    PROVE  Core(t) /\ (Rest(s) => Rest(t))
<1>1. t.scanReads \in Nat /\ s.scanReads \in Nat
  BY DEF Frame, Core, Base, States
<1>2. QED
  BY <1>1 DEF Frame, Core, Base, Rest, delayedStateCommandInUse

LEMMA FinishedBusScanGood ==
    ASSUME NEW s, Core(s), Rest(s), s.fBusState # "kAsleep",
           s.scanReads = 0,
           NEW verdict \in Verdicts, NEW onlyNode \in BOOLEAN,
           NEW out \in Outcomes
    PROVE  LET t == finishedBusScan(s, verdict, onlyNode, out)
           IN  Core(t) /\ Rest(t)
<1> DEFINE t == finishedBusScan(s, verdict, onlyNode, out)
<1>1. CASE verdict = "cycleMaster"
  <2> DEFINE p == PhyAfter(s.phy, out)
  <2>1. t = [s EXCEPT !.phy = p]
    BY <1>1 DEF finishedBusScan
  <2>2. p \in PhyStates
    BY DEF PhyAfter, PhyStates, Core, Base, States
  <2> HIDE DEF p, t
  <2>3. Frame(s, t)
    BY <2>1, <2>2 DEF Frame, Core, Base, States
  <2>4. QED
    BY <2>3, FrameGood DEF t
<1>2. CASE verdict \in {"duplicateGUID", "busManager"}
  <2>1. t = resetBus(s, out)
    BY <1>2 DEF finishedBusScan
  <2>2. QED BY <2>1, ResetBusGood
<1>3. CASE verdict = "settled" /\ s.fBusState = "kScanning"
  <2> DEFINE delay == PruneDelay(s, onlyNode)
             cmd == Armed(s.fDelayedStateChangeCmd, delay)
  <2>1. delay \in PruneDelays /\ delay \in Nat
    BY DelayTypes DEF PruneDelay, Core, Base, States, PruneDelays
  <2> HIDE DEF delay
  <2>2. t = [s EXCEPT !.fDevicePruneDelay = delay,
                      !.fBusState = "kWaitingPrune",
                      !.fDelayedStateChangeCmd = cmd]
    BY <1>3 DEF finishedBusScan, delay, Core, Base, States
  <2>3. cmd \in StateTimers /\ cmd.busy
    BY <2>1, ArmedTimer DEF Core, Base, States
  <2> HIDE DEF cmd, t
  <2>4. /\ t \in States
        /\ t.fBusState = "kWaitingPrune"
        /\ t.fDelayedStateChangeCmd = cmd
        /\ t.fBusResetState = s.fBusResetState
        /\ t.fBusResetScheduled = s.fBusResetScheduled
        /\ t.fBusResetStateChangeCmd = s.fBusResetStateChangeCmd
        /\ t.fNumROMReads = s.fNumROMReads /\ t.scanReads = s.scanReads
    BY <2>1, <2>2, <2>3 DEF Core, Base, States, BusStates
  <2>5. Core(t) /\ Rest(t)
    BY <1>3, <2>3, <2>4 DEF Core, Base, Rest, delayedStateCommandInUse
  <2>6. QED BY <2>5 DEF t
<1>4. CASE verdict = "settled" /\ s.fBusState # "kScanning"
  BY <1>4 DEF finishedBusScan
<1>5. QED
  BY <1>1, <1>2, <1>3, <1>4 DEF Verdicts

LEMMA UpdatePlaneGood ==
    ASSUME NEW s, Core(s), Rest(s), s.fBusState # "kAsleep",
           NEW again \in BOOLEAN, NEW out \in Outcomes
    PROVE  LET t == updatePlane(s, again, out)
           IN  Core(t) /\ Rest(t)
<1> DEFINE p == [s EXCEPT !.fDevicePruneDelay = kNormalDevicePruneDelay,
                          !.missing = FALSE]
<1>1. Frame(s, p)
  <2>1. s \in States /\ s.scanReads \in Nat /\ s.scanReads <= s.fNumROMReads
    BY DEF Core, Base, States
  <2>2. kNormalDevicePruneDelay \in PruneDelays
    BY DEF PruneDelays
  <2>3. p \in States
    BY <2>1, <2>2 DEF States
  <2>4. s.scanReads <= s.scanReads
    BY <2>1
  <2>5. QED
    BY <2>1, <2>3, <2>4 DEF Frame, States
<1>2. updatePlane(s, again, out) = IF again THEN resetBus(p, out) ELSE p
  BY DEF updatePlane
<1> HIDE DEF p
<1>3. Core(p) /\ Rest(p) /\ p.fBusState # "kAsleep"
  BY <1>1, FrameGood DEF Frame
<1>4. QED
  BY <1>2, <1>3, ResetBusGood

-----------------------------------------------------------------------------
(* The steps.                                                              *)

LEMMA NowFields ==
    /\ Now.fBusState = fBusState
    /\ Now.fBusResetState = fBusResetState
    /\ Now.fBusResetScheduled = fBusResetScheduled
    /\ Now.fBusResetDisabledCount = fBusResetDisabledCount
    /\ Now.fDelayedStateChangeCmd = fDelayedStateChangeCmd
    /\ Now.fBusResetStateChangeCmd = fBusResetStateChangeCmd
    /\ Now.fDelayedStateChangeCmdNeedAbort = fDelayedStateChangeCmdNeedAbort
    /\ Now.fWaitingForSelfID = fWaitingForSelfID
    /\ Now.fNumROMReads = fNumROMReads
    /\ Now.fDevicePruneDelay = fDevicePruneDelay
    /\ Now.scanReads = scanReads
    /\ Now.missing = missing
    /\ Now.phy = phy
BY DEF Now

LEMMA StepGood ==
    ASSUME NEW s, Core(s), Rest(s), Becomes(s)
    PROVE  Core(Now)' /\ Rest(Now)'
<1>1. Now' = s
  BY BecomesNow DEF Core, Base
<1>2. Core(Now') /\ Rest(Now')
  BY <1>1
<1>3. QED
  BY <1>2 DEF Core, Base, Rest, States, delayedStateCommandInUse

(* The record delayedStateChange starts from.                              *)
LEMMA FiredGood ==
    ASSUME Core(Now), Rest(Now), StateTimerDue
    PROVE  /\ Base(Fired)
           /\ Fired.fBusState = fBusState
           /\ Fired.fBusResetState = fBusResetState
           /\ Fired.fBusResetScheduled = fBusResetScheduled
           /\ Fired.scanReads = scanReads
           /\ ~Fired.fDelayedStateChangeCmd.busy
           /\ fBusState # "kAsleep"
           /\ fBusState # "kWaitingBusResetStart" => Core(Fired)
<1> DEFINE cmd == Cancelled(Now.fDelayedStateChangeCmd)
<1>1. cmd \in StateTimers /\ ~cmd.busy
  BY CancelledTimer DEF Core, Base, States
<1>2. Fired = [Now EXCEPT !.fDelayedStateChangeCmd = cmd]
  BY DEF Fired
<1> HIDE DEF cmd
<1>3. /\ Fired \in States
      /\ Fired.fBusState = Now.fBusState
      /\ Fired.fBusResetState = Now.fBusResetState
      /\ Fired.fBusResetScheduled = Now.fBusResetScheduled
      /\ Fired.fBusResetStateChangeCmd = Now.fBusResetStateChangeCmd
      /\ Fired.scanReads = Now.scanReads
      /\ Fired.fNumROMReads = Now.fNumROMReads
      /\ Fired.fDelayedStateChangeCmd = cmd
  BY <1>1, <1>2 DEF Core, Base, States
<1>4. fBusState # "kAsleep"
  BY DEF StateTimerDue, awake
<1>5. QED
  BY <1>1, <1>3, <1>4, NowFields DEF Core, Base

LEMMA ClientResetBusStep ==
    ASSUME Core(Now), Rest(Now), ClientResetBus
    PROVE  Core(Now)' /\ Rest(Now)'
BY OutcomesCovered, ResetBusGood, StepGood, NowFields
   DEF ClientResetBus, awake

LEMMA DisableStep ==
    ASSUME Core(Now), Rest(Now), disableSoftwareBusResets
    PROVE  Core(Now)' /\ Rest(Now)'
<1> DEFINE t == [Now EXCEPT !.fBusResetDisabledCount = @ + 1]
<1>1. MaxDisabled \in Nat
  BY BoundsAssumption DEF BoundsAssumption
<1>2. Frame(Now, t)
  BY <1>1, NowFields
     DEF Frame, Core, Base, States, disableSoftwareBusResets
<1>3. Becomes(t)
  BY DEF Becomes, Now, disableSoftwareBusResets, timerVars, scanVars
<1> HIDE DEF t
<1>4. QED
  BY <1>2, <1>3, FrameGood, StepGood

LEMMA EnableStep ==
    ASSUME Core(Now), Rest(Now), enableSoftwareBusResets
    PROVE  Core(Now)' /\ Rest(Now)'
<1> DEFINE s == [Now EXCEPT !.fBusResetDisabledCount = @ - 1]
<1>1. MaxDisabled \in Nat
  BY BoundsAssumption DEF BoundsAssumption
<1>2. Frame(Now, s)
  BY <1>1, NowFields
     DEF Frame, Core, Base, States, enableSoftwareBusResets
<1>3. PICK out \in Outcomes : Becomes(IF /\ s.fBusResetState = "Arbitrated"
                                         /\ s.fBusResetDisabledCount = 0
                                         /\ s.fBusResetScheduled
                                      THEN doBusReset(s, out) ELSE s)
  BY OutcomesCovered DEF enableSoftwareBusResets
<1>4. fBusState # "kAsleep"
  BY DEF enableSoftwareBusResets, awake
<1> HIDE DEF s
<1>5. Core(s) /\ Rest(s) /\ s.fBusState # "kAsleep"
  BY <1>2, <1>4, FrameGood, NowFields DEF Frame
<1>6. Core(doBusReset(s, out)) /\ Rest(doBusReset(s, out))
  BY <1>5, DoBusResetGood DEF Core
<1>7. QED
  BY <1>3, <1>5, <1>6, StepGood

LEMMA BusResetStartTimeoutStep ==
    ASSUME Core(Now), Rest(Now), BusResetStartTimeout
    PROVE  Core(Now)' /\ Rest(Now)'
<1>1. Base(Fired) /\ Fired.fBusState # "kAsleep"
  BY FiredGood DEF BusResetStartTimeout
<1>2. PICK out \in Outcomes : Becomes(doBusReset(Fired, out))
  BY OutcomesCovered DEF BusResetStartTimeout
<1>3. QED
  BY <1>1, <1>2, DoBusResetGood, StepGood

LEMMA BusResetTimeoutStep ==
    ASSUME Core(Now), Rest(Now), BusResetTimeout
    PROVE  Core(Now)' /\ Rest(Now)'
<1>1. /\ Base(Fired) /\ ~Fired.fDelayedStateChangeCmd.busy
  BY FiredGood DEF BusResetTimeout
<1>2. PICK out \in Outcomes, tooLong \in BOOLEAN :
         Becomes(resetBus([enterBusResetDisabledState(
                               checkProgress(Fired, tooLong))
                             EXCEPT !.fBusState = "kRunning"], out))
  BY OutcomesCovered DEF BusResetTimeout
<1> DEFINE c == checkProgress(Fired, tooLong)
           e == enterBusResetDisabledState(c)
           r == [e EXCEPT !.fBusState = "kRunning"]
<1>3. /\ r \in States
      /\ r.fBusState = "kRunning" /\ r.fBusResetState = "Disabled"
      /\ r.fBusResetStateChangeCmd.busy
      /\ r.fDelayedStateChangeCmd = Fired.fDelayedStateChangeCmd
      /\ r.fNumROMReads = Fired.fNumROMReads
      /\ r.scanReads = Fired.scanReads
  <2>1. c \in States
        /\ c.fDelayedStateChangeCmd = Fired.fDelayedStateChangeCmd
        /\ c.fNumROMReads = Fired.fNumROMReads
        /\ c.scanReads = Fired.scanReads
    BY <1>1 DEF Base, States, checkProgress
  <2> HIDE DEF c
  <2>2. e \in States
        /\ e.fBusResetState = "Disabled"
        /\ e.fBusResetStateChangeCmd.busy
        /\ e.fDelayedStateChangeCmd = c.fDelayedStateChangeCmd
        /\ e.fNumROMReads = c.fNumROMReads
        /\ e.scanReads = c.scanReads
    BY <2>1, DelayTypes
       DEF States, enterBusResetDisabledState, ResetStates, ResetTimers
  <2> HIDE DEF e
  <2>3. QED
    BY <2>1, <2>2 DEF States, BusStates
<1>4. Becomes(resetBus(r, out))
  BY <1>2
<1> HIDE DEF r
<1>5. Core(r) /\ Rest(r)
  BY <1>1, <1>3 DEF Core, Base, Rest
<1>6. QED
  BY <1>3, <1>4, <1>5, ResetBusGood, StepGood

LEMMA SelfIDTimeoutStep ==
    ASSUME Core(Now), Rest(Now), SelfIDTimeout
    PROVE  Core(Now)' /\ Rest(Now)'
<1>1. /\ Core(Fired) /\ ~Fired.fDelayedStateChangeCmd.busy
      /\ Fired.fBusState = "kWaitingSelfIDs"
  BY FiredGood DEF SelfIDTimeout
<1>2. PICK out \in Outcomes :
         Becomes(resetBus([Fired EXCEPT !.fBusState = "kRunning",
                                        !.fWaitingForSelfID = @ + 1], out))
  BY OutcomesCovered DEF SelfIDTimeout
<1> DEFINE n == Fired.fWaitingForSelfID + 1
           r == [Fired EXCEPT !.fBusState = "kRunning",
                              !.fWaitingForSelfID = n]
<1>3. Fired \in States /\ n \in Nat
  BY <1>1 DEF Core, Base, States
<1>4. Becomes(resetBus(r, out))
  BY <1>2
<1> HIDE DEF n
<1>5. /\ r \in States
      /\ r.fBusState = "kRunning"
      /\ r.fBusResetState = Fired.fBusResetState
      /\ r.fBusResetScheduled = Fired.fBusResetScheduled
      /\ r.fBusResetStateChangeCmd = Fired.fBusResetStateChangeCmd
      /\ r.fDelayedStateChangeCmd = Fired.fDelayedStateChangeCmd
      /\ r.fNumROMReads = Fired.fNumROMReads
      /\ r.scanReads = Fired.scanReads
  BY <1>3 DEF States, BusStates
<1> HIDE DEF r
<1>6. Core(r) /\ Rest(r)
  BY <1>1, <1>5 DEF Core, Base, Rest
<1>7. QED
  BY <1>4, <1>5, <1>6, ResetBusGood, StepGood

LEMMA ScanDelayOverStep ==
    ASSUME Core(Now), Rest(Now), ScanDelayOver
    PROVE  Core(Now)' /\ Rest(Now)'
<1>1. /\ Core(Fired) /\ ~Fired.fDelayedStateChangeCmd.busy
      /\ Fired.fBusState = "kWaitingScan" /\ Fired.scanReads = 0
      /\ Fired.fBusResetState # "Resetting"
  BY FiredGood, NowFields DEF ScanDelayOver, Rest
<1> DEFINE r(nodes) == startBusScan(
                           [Fired EXCEPT !.fBusState = "kScanning",
                                         !.fWaitingForSelfID = 0], nodes)
<1>2. PICK nodes \in 0..MaxRemoteNodes, out \in Outcomes :
         \/ Becomes(r(nodes))
         \/ /\ nodes = 0
            /\ \E verdict \in Verdicts :
                  Becomes(finishedBusScan(r(nodes), verdict, TRUE, out))
  BY OutcomesCovered DEF ScanDelayOver, VerdictsFor
<1> DEFINE q == r(nodes)
<1>3. MaxRemoteNodes \in Nat /\ nodes \in Nat
  BY BoundsAssumption DEF BoundsAssumption
<1>4. /\ q \in States
      /\ q.fBusState = "kScanning"
      /\ q.fBusResetState = Fired.fBusResetState
      /\ q.fBusResetScheduled = Fired.fBusResetScheduled
      /\ q.fBusResetStateChangeCmd = Fired.fBusResetStateChangeCmd
      /\ q.fDelayedStateChangeCmd = Fired.fDelayedStateChangeCmd
      /\ q.fNumROMReads = nodes /\ q.scanReads = nodes
  <2>1. Fired \in States /\ Fired.scanReads + nodes = nodes
    BY <1>1, <1>3 DEF Core, Base
  <2>2. "kScanning" \in BusStates
    BY DEF BusStates
  <2>3. q = [Fired EXCEPT !.fBusState = "kScanning",
                          !.fWaitingForSelfID = 0,
                          !.fNumROMReads = nodes,
                          !.scanReads = nodes]
    BY <2>1 DEF startBusScan, States
  <2> HIDE DEF q
  <2>4. QED
    BY <1>3, <2>1, <2>2, <2>3 DEF States
<1>5. \/ Becomes(q)
      \/ /\ nodes = 0
         /\ \E verdict \in Verdicts :
               Becomes(finishedBusScan(q, verdict, TRUE, out))
  BY <1>2
<1> HIDE DEF q
<1>6. Core(q) /\ Rest(q)
  BY <1>1, <1>3, <1>4 DEF Core, Base, Rest
<1>7. QED
  BY <1>4, <1>5, <1>6, FinishedBusScanGood, StepGood

LEMMA PruneDelayOverStep ==
    ASSUME Core(Now), Rest(Now), PruneDelayOver
    PROVE  Core(Now)' /\ Rest(Now)'
<1>1. /\ Core(Fired) /\ ~Fired.fDelayedStateChangeCmd.busy
      /\ Fired.fBusState = "kWaitingPrune"
  BY FiredGood DEF PruneDelayOver
<1> DEFINE r == [Fired EXCEPT !.fBusState = "kRunning"]
<1>2. PICK again \in BOOLEAN, out \in Outcomes :
         Becomes(updatePlane(r, again, out))
  BY OutcomesCovered DEF PruneDelayOver
<1>3. /\ r \in States
      /\ r.fBusState = "kRunning"
      /\ r.fBusResetState = Fired.fBusResetState
      /\ r.fBusResetScheduled = Fired.fBusResetScheduled
      /\ r.fBusResetStateChangeCmd = Fired.fBusResetStateChangeCmd
      /\ r.fDelayedStateChangeCmd = Fired.fDelayedStateChangeCmd
      /\ r.fNumROMReads = Fired.fNumROMReads
      /\ r.scanReads = Fired.scanReads
  BY <1>1 DEF Core, Base, States, BusStates
<1> HIDE DEF r
<1>4. Core(r) /\ Rest(r)
  BY <1>1, <1>3 DEF Core, Base, Rest
<1>5. QED
  BY <1>2, <1>3, <1>4, UpdatePlaneGood, StepGood

LEMMA StrayTimeoutStep ==
    ASSUME Core(Now), Rest(Now), StrayTimeout
    PROVE  Core(Now)' /\ Rest(Now)'
<1>1. Core(Fired) /\ Rest(Fired)
  BY FiredGood, NowFields DEF StrayTimeout, Rest
<1>2. QED
  BY <1>1, StepGood DEF StrayTimeout

LEMMA ResetStateChangeStep ==
    ASSUME Core(Now), Rest(Now), resetStateChange
    PROVE  Core(Now)' /\ Rest(Now)'
<1> DEFINE s == [Now EXCEPT !.fBusResetStateChangeCmd.busy = FALSE,
                            !.fBusResetState = "Arbitrated"]
<1>1. /\ s \in States
      /\ s.fBusState = fBusState
      /\ s.fBusResetState = "Arbitrated"
      /\ s.fBusResetScheduled = fBusResetScheduled
      /\ s.fDelayedStateChangeCmd = fDelayedStateChangeCmd
      /\ s.fNumROMReads = fNumROMReads
      /\ s.scanReads = scanReads
  BY NowFields DEF Core, Base, States, ResetTimers, ResetStates
<1>2. fBusState # "kAsleep"
  BY DEF resetStateChange, awake
<1>3. Base(s)
  BY <1>1, <1>2, NowFields DEF Core, Base, delayedStateCommandInUse
<1>4. PICK out \in Outcomes :
         \/ ~fBusResetScheduled /\ Becomes(s)
         \/ Becomes(doBusReset(s, out))
         \/ Becomes(WaitIn(s, "kWaitingBusResetStart",
                           kBusResetStartTimeout))
  BY OutcomesCovered DEF resetStateChange, FWIMOutcomes
<1> HIDE DEF s
<1>5. CASE ~fBusResetScheduled /\ Becomes(s)
  <2>1. Core(s) /\ Rest(s)
    BY <1>1, <1>3, <1>5, NowFields DEF Core, Rest
  <2>2. QED
    BY <1>5, <2>1, StepGood
<1>6. CASE Becomes(doBusReset(s, out))
  BY <1>1, <1>2, <1>3, <1>6, DoBusResetGood, StepGood
<1>7. CASE Becomes(WaitIn(s, "kWaitingBusResetStart", kBusResetStartTimeout))
  <2> DEFINE w == WaitIn(s, "kWaitingBusResetStart", kBusResetStartTimeout)
  <2>1. "kWaitingBusResetStart" \in BusStates
    BY DEF BusStates
  <2>2. /\ w \in States /\ Same(s, w)
        /\ w.fBusState = "kWaitingBusResetStart"
        /\ w.fDelayedStateChangeCmd.busy
        /\ \/ w.fDelayedStateChangeCmd.timeout = kBusResetStartTimeout
           \/ /\ s.fDelayedStateChangeCmd.busy
              /\ ~delayedStateCommandInUse(s)
              /\ w.fDelayedStateChangeCmd.timeout =
                    s.fDelayedStateChangeCmd.timeout
    BY <1>1, <2>1, WaitInFacts, DelayTypes
  <2> HIDE DEF w
  <2>3. w.fDelayedStateChangeCmd.timeout = kBusResetStartTimeout
    BY <1>1, <1>2, <1>3, <2>2 DEF Base
  <2>4. Core(w) /\ Rest(w)
    BY <1>1, <1>3, <2>2, <2>3
       DEF Core, Base, Rest, Same, delayedStateCommandInUse
  <2>5. QED
    BY <1>7, <2>4, StepGood DEF w
<1>8. QED
  BY <1>4, <1>5, <1>6, <1>7

LEMMA BusResetInterruptStep ==
    ASSUME Core(Now), Rest(Now), BusResetInterrupt
    PROVE  Core(Now)' /\ Rest(Now)'
<1>1. PICK tooLong \in BOOLEAN :
         Becomes([processBusReset(Now, tooLong) EXCEPT !.phy = "selfid"])
  BY DEF BusResetInterrupt
<1> DEFINE b == processBusReset(Now, tooLong)
           t == [b EXCEPT !.phy = "selfid"]
<1>2. Core(b) /\ Rest(b)
  BY ProcessBusResetGood, NowFields DEF BusResetInterrupt, awake
<1> HIDE DEF b
<1>3. Frame(b, t)
  BY <1>2 DEF Frame, Core, Base, States, PhyStates
<1>4. Core(t) /\ Rest(t)
  BY <1>2, <1>3, FrameGood
<1>5. QED
  BY <1>1, <1>4, StepGood DEF b

LEMMA ProcessSelfIDsStep ==
    ASSUME Core(Now), Rest(Now), processSelfIDs
    PROVE  Core(Now)' /\ Rest(Now)'
<1>1. PICK tooLong \in BOOLEAN :
         LET s == SelfIDsArrived(Now, tooLong)
         IN  \/ Becomes([s EXCEPT !.fDelayedStateChangeCmd =
                                     Armed(@, kScanBusDelay)])
             \/ \E out \in Outcomes : Becomes(resetBus(s, out))
  BY OutcomesCovered DEF processSelfIDs
<1> DEFINE s == SelfIDsArrived(Now, tooLong)
<1>2. /\ Core(s) /\ s.fBusState = "kWaitingScan" /\ s.scanReads = 0
      /\ s.fBusResetState # "Resetting"
  BY SelfIDsArrivedGood, NowFields DEF processSelfIDs, awake
<1>3. \/ Becomes([s EXCEPT !.fDelayedStateChangeCmd =
                             Armed(@, kScanBusDelay)])
      \/ \E out \in Outcomes : Becomes(resetBus(s, out))
  BY <1>1
<1> HIDE DEF s
<1>4. CASE \E out \in Outcomes : Becomes(resetBus(s, out))
  BY <1>2, <1>4, ResetBusGood, StepGood
<1>5. CASE Becomes([s EXCEPT !.fDelayedStateChangeCmd =
                                Armed(@, kScanBusDelay)])
  <2> DEFINE cmd == Armed(s.fDelayedStateChangeCmd, kScanBusDelay)
             t == [s EXCEPT !.fDelayedStateChangeCmd = cmd]
  <2>1. cmd \in StateTimers /\ cmd.busy
    BY <1>2, ArmedTimer, DelayTypes DEF Core, Base, States
  <2>2. Becomes(t)
    BY <1>2, <1>5 DEF Core, Base, States
  <2> HIDE DEF cmd
  <2>3. /\ t \in States
        /\ t.fBusState = "kWaitingScan"
        /\ t.fDelayedStateChangeCmd = cmd
        /\ t.fBusResetState = s.fBusResetState
        /\ t.fBusResetScheduled = s.fBusResetScheduled
        /\ t.fBusResetStateChangeCmd = s.fBusResetStateChangeCmd
        /\ t.fNumROMReads = s.fNumROMReads
        /\ t.scanReads = s.scanReads
    BY <1>2, <2>1 DEF Core, Base, States
  <2> HIDE DEF t
  <2>4. Core(t) /\ Rest(t)
    BY <1>2, <2>1, <2>3 DEF Core, Base, Rest, delayedStateCommandInUse
  <2>5. QED
    BY <2>2, <2>4, StepGood
<1>6. QED
  BY <1>3, <1>4, <1>5

LEMMA ROMReadDoneStep ==
    ASSUME Core(Now), Rest(Now), ROMReadDone
    PROVE  Core(Now)' /\ Rest(Now)'
<1>1. PICK busyX \in BOOLEAN, gone \in BOOLEAN, out \in Outcomes :
         \/ Becomes(ROMRead(Now, busyX))
         \/ /\ ROMRead(Now, busyX).fNumROMReads = 0
            /\ \E verdict \in Verdicts :
                  Becomes(finishedBusScan(
                      [ROMRead(Now, busyX) EXCEPT !.missing = @ /\ gone],
                      verdict, FALSE, out))
  BY OutcomesCovered DEF ROMReadDone, VerdictsFor
<1> DEFINE s == ROMRead(Now, busyX)
           a == [s EXCEPT !.missing = @ /\ gone]
<1>2. /\ scanReads > 0 /\ scanReads <= fNumROMReads
      /\ scanReads \in Nat /\ fNumROMReads \in 0..MaxRemoteNodes
      /\ MaxRemoteNodes \in Nat
  BY BoundsAssumption, NowFields
     DEF ROMReadDone, Core, Base, States, BoundsAssumption
<1>3. Frame(Now, s)
  <2> DEFINE n == Now.scanReads - 1
             m == Now.fNumROMReads - 1
             d == IF /\ busyX
                     /\ Now.fDevicePruneDelay >= kWakeDevicePruneDelay
                     /\ Now.fDevicePruneDelay < kWakeDevicePruneDelayBusy
                  THEN kWakeDevicePruneDelayBusy
                  ELSE Now.fDevicePruneDelay
  <2>1. n \in Nat /\ m \in 0..MaxRemoteNodes /\ n <= m
        /\ n <= Now.scanReads
    BY <1>2, NowFields
  <2>2. d \in PruneDelays
    BY DEF PruneDelays, Core, Base, States
  <2>3. s = [Now EXCEPT !.scanReads = n, !.fNumROMReads = m,
                        !.fDevicePruneDelay = d]
    BY DEF ROMRead
  <2> HIDE DEF n, m, d, s
  <2>4. QED
    BY <2>1, <2>2, <2>3 DEF Frame, Core, Base, States
<1>4. /\ \/ Becomes(s)
         \/ /\ s.fNumROMReads = 0
            /\ \E verdict \in Verdicts :
                  Becomes(finishedBusScan(a, verdict, FALSE, out))
      /\ a = [s EXCEPT !.missing = @ /\ gone]
  BY <1>1
<1> HIDE DEF s, a
<1>5. Frame(s, a) /\ a.scanReads = s.scanReads
  <2>1. /\ s \in States /\ s.scanReads <= s.fNumROMReads
        /\ s.scanReads \in Nat
    BY <1>3 DEF Frame, States
  <2>2. QED
    BY <1>4, <2>1 DEF Frame, States
<1>6. Core(s) /\ Rest(s)
  BY <1>3, FrameGood
<1>7. Core(a) /\ Rest(a)
  BY <1>5, <1>6, FrameGood
<1>8. a.fBusState # "kAsleep"
  BY <1>3, <1>5, NowFields DEF Frame, ROMReadDone, awake
<1>9. s.fNumROMReads = 0 => a.scanReads = 0
  BY <1>3, <1>5 DEF Frame, States
<1>10. QED
  BY <1>4, <1>6, <1>7, <1>8, <1>9, FinishedBusScanGood, StepGood

LEMMA ROMReadBusResetStep ==
    ASSUME Core(Now), Rest(Now), ROMReadBusReset
    PROVE  Core(Now)' /\ Rest(Now)'
<1> DEFINE n == Now.scanReads - 1
           t == [Now EXCEPT !.scanReads = n]
<1>1. n \in Nat /\ n <= Now.fNumROMReads /\ n <= Now.scanReads
  BY NowFields DEF ROMReadBusReset, Core, Base, States
<1>2. Becomes(t)
  BY DEF Becomes, Now, ROMReadBusReset, resetVars, timerVars
<1> HIDE DEF n
<1>3. Frame(Now, t)
  BY <1>1 DEF Frame, Core, Base, States
<1> HIDE DEF t
<1>4. QED
  BY <1>2, <1>3, FrameGood, StepGood

LEMMA WakeStep ==
    ASSUME Core(Now), Rest(Now), Wake
    PROVE  Core(Now)' /\ Rest(Now)'
<1> DEFINE cmd == IF fDelayedStateChangeCmdNeedAbort
                  THEN Cancelled(Now.fDelayedStateChangeCmd)
                  ELSE Now.fDelayedStateChangeCmd
           t(p) == [Now EXCEPT !.fDevicePruneDelay = kWakeDevicePruneDelay,
                               !.fBusState = "kRunning",
                               !.fDelayedStateChangeCmdNeedAbort = FALSE,
                               !.fDelayedStateChangeCmd = cmd,
                               !.phy = p]
<1>1. PICK out \in Outcomes : Becomes(t(PhyAfter(Now.phy, out)))
  BY OutcomesCovered DEF Wake
<1> DEFINE p == PhyAfter(Now.phy, out)
           r == t(p)
<1>2. p \in PhyStates
  BY DEF PhyAfter, PhyStates, Core, Base, States
<1>3. /\ cmd \in StateTimers
      /\ cmd.busy => cmd = Now.fDelayedStateChangeCmd
                     /\ ~fDelayedStateChangeCmdNeedAbort
  BY CancelledTimer DEF Core, Base, States
<1>4. Becomes(r)
  BY <1>1
<1> HIDE DEF cmd, p
<1>5. /\ r \in States
      /\ r.fBusState = "kRunning"
      /\ r.fBusResetState = Now.fBusResetState
      /\ r.fBusResetScheduled = Now.fBusResetScheduled
      /\ r.fDelayedStateChangeCmd = cmd
      /\ r.fBusResetStateChangeCmd = Now.fBusResetStateChangeCmd
      /\ r.fNumROMReads = Now.fNumROMReads
      /\ r.scanReads = Now.scanReads
  BY <1>2, <1>3 DEF Core, Base, States, BusStates, PruneDelays
<1> HIDE DEF r
<1>6. Now.fBusState \in {"kStarting", "kAsleep"}
  BY NowFields DEF Wake
<1>7. Core(r) /\ Rest(r)
  BY <1>3, <1>5, <1>6, NowFields
     DEF Core, Base, Rest, delayedStateCommandInUse
<1>8. QED
  BY <1>4, <1>7, StepGood

LEMMA SleepStep ==
    ASSUME Core(Now), Rest(Now), Sleep
    PROVE  Core(Now)' /\ Rest(Now)'
<1> DEFINE abort == IF delayedStateCommandInUse(Now) THEN TRUE
                    ELSE Now.fDelayedStateChangeCmdNeedAbort
           cmd == IF fBusResetState = "Disabled"
                  THEN [Now.fBusResetStateChangeCmd EXCEPT !.busy = FALSE]
                  ELSE Now.fBusResetStateChangeCmd
           state == IF Now.fBusResetState = "Disabled" THEN "Resetting"
                    ELSE Now.fBusResetState
           t(p) == [Now EXCEPT !.fDelayedStateChangeCmdNeedAbort = abort,
                               !.fBusResetStateChangeCmd = cmd,
                               !.fBusResetState = state,
                               !.fBusResetScheduled = FALSE,
                               !.fBusState = "kAsleep",
                               !.phy = p]
<1>1. PICK p \in PhyStates : Becomes(t(p))
  BY DEF Sleep
<1> DEFINE r == t(p)
<1>2. /\ abort \in BOOLEAN /\ cmd \in ResetTimers
      /\ state \in ResetStates /\ state # "Disabled"
      /\ delayedStateCommandInUse(Now) => abort
  BY DEF Core, Base, States, ResetTimers, ResetStates
<1>3. Becomes(r)
  BY <1>1
<1> HIDE DEF abort, cmd, state
<1>4. /\ r \in States
      /\ r.fBusState = "kAsleep"
      /\ r.fBusResetState = state
      /\ ~r.fBusResetScheduled
      /\ r.fDelayedStateChangeCmdNeedAbort = abort
      /\ r.fDelayedStateChangeCmd = Now.fDelayedStateChangeCmd
      /\ r.fNumROMReads = Now.fNumROMReads
      /\ r.scanReads = Now.scanReads
  BY <1>1, <1>2 DEF Core, Base, States, BusStates
<1> HIDE DEF r
<1>5. Now.fBusState # "kAsleep"
  BY NowFields DEF Sleep, awake
<1>6. Core(r) /\ Rest(r)
  BY <1>2, <1>4, <1>5 DEF Core, Base, Rest
<1>7. QED
  BY <1>3, <1>6, StepGood

LEMMA TickStep ==
    ASSUME Core(Now), Rest(Now), Tick
    PROVE  Core(Now)' /\ Rest(Now)'
<1> DEFINE d == Elapsed(fDelayedStateChangeCmd)
           b == Elapsed(fBusResetStateChangeCmd)
           t == [Now EXCEPT !.fDelayedStateChangeCmd = d,
                            !.fBusResetStateChangeCmd = b]
<1>1. /\ d \in StateTimers /\ d.busy = fDelayedStateChangeCmd.busy
      /\ d.timeout = fDelayedStateChangeCmd.timeout
  <2>1. fDelayedStateChangeCmd \in StateTimers /\ ~Due(fDelayedStateChangeCmd)
    BY NowFields DEF Tick, Core, Base, States
  <2>2. QED
    BY <2>1 DEF Elapsed, Due, StateTimers
<1>2. b \in ResetTimers /\ b.busy = fBusResetStateChangeCmd.busy
  <2>1. fBusResetStateChangeCmd \in ResetTimers
        /\ ~Due(fBusResetStateChangeCmd)
    BY NowFields DEF Tick, Core, Base, States
  <2>2. QED
    BY <2>1 DEF Elapsed, Due, ResetTimers
<1>3. Becomes(t)
  BY DEF Becomes, Now, Tick, resetVars, scanVars
<1> HIDE DEF d, b
<1>4. /\ t \in States
      /\ t.fBusState = Now.fBusState
      /\ t.fBusResetState = Now.fBusResetState
      /\ t.fBusResetScheduled = Now.fBusResetScheduled
      /\ t.fDelayedStateChangeCmd = d
      /\ t.fBusResetStateChangeCmd = b
      /\ t.fDelayedStateChangeCmdNeedAbort =
            Now.fDelayedStateChangeCmdNeedAbort
      /\ t.fNumROMReads = Now.fNumROMReads
      /\ t.scanReads = Now.scanReads
  BY <1>1, <1>2 DEF Core, Base, States
<1> HIDE DEF t
<1>5. Core(t) /\ Rest(t)
  BY <1>1, <1>2, <1>4, NowFields
     DEF Core, Base, Rest, delayedStateCommandInUse
<1>6. QED
  BY <1>3, <1>5, StepGood

LEMMA PhyStep ==
    ASSUME Core(Now), Rest(Now), OtherReset \/ LoseSelfIDs
    PROVE  Core(Now)' /\ Rest(Now)'
<1> DEFINE t == [Now EXCEPT !.phy = phy']
<1>1. phy' \in PhyStates
  BY DEF OtherReset, LoseSelfIDs, PhyStates
<1>2. Becomes(t)
  BY DEF Becomes, Now, OtherReset, LoseSelfIDs, resetVars, timerVars, scanVars
<1>3. Frame(Now, t)
  BY <1>1 DEF Frame, Core, Base, States
<1> HIDE DEF t
<1>4. QED
  BY <1>2, <1>3, FrameGood, StepGood

(* The budget of disturbances is spent and never refilled.                 *)
LEMMA TroubleStep ==
    ASSUME trouble \in 0..MaxTrouble, [Next]_vars
    PROVE  trouble' \in 0..MaxTrouble
<1>1. MaxTrouble \in Nat
  BY BoundsAssumption DEF BoundsAssumption
<1>2. trouble' = trouble \/ \E n \in {0, 1} : Costs(n)
  BY DEF Next, Timers, vars, ClientResetBus, disableSoftwareBusResets,
         enableSoftwareBusResets, BusResetStartTimeout, BusResetTimeout,
         SelfIDTimeout, ScanDelayOver, PruneDelayOver, StrayTimeout,
         resetStateChange, BusResetInterrupt, processSelfIDs, ROMReadDone,
         ROMReadBusReset, Wake, Sleep, Tick, OtherReset, LoseSelfIDs,
         MayBeLate
<1>3. QED
  BY <1>1, <1>2 DEF Costs

-----------------------------------------------------------------------------
LEMMA InitInv == Init => Inv
<1> SUFFICES ASSUME Init PROVE Inv
  OBVIOUS
<1>1. MaxDisabled \in Nat /\ MaxRemoteNodes \in Nat /\ MaxTrouble \in Nat
  BY BoundsAssumption DEF BoundsAssumption
<1>2. /\ kScanBusDelay \in Nat
      /\ kNormalDevicePruneDelay \in PruneDelays
  BY DelayTypes DEF PruneDelays
<1>3. /\ fDelayedStateChangeCmd \in StateTimers
      /\ fBusResetStateChangeCmd \in ResetTimers
  BY <1>2 DEF Init, StateTimers, ResetTimers
<1>4. /\ fBusState \in BusStates
      /\ fBusResetState \in ResetStates
      /\ phy \in PhyStates
  BY DEF Init, BusStates, ResetStates, PhyStates
<1>5. /\ fBusResetScheduled = FALSE /\ fBusResetDisabledCount = 0
      /\ fDelayedStateChangeCmdNeedAbort = FALSE /\ missing = FALSE
      /\ fWaitingForSelfID = 0 /\ fNumROMReads = 0 /\ scanReads = 0
      /\ fDevicePruneDelay \in PruneDelays
  BY <1>2 DEF Init
<1>6. Now \in States
  <2>1. /\ fBusResetDisabledCount \in 0..MaxDisabled
        /\ fNumROMReads \in 0..MaxRemoteNodes
        /\ fWaitingForSelfID \in Nat /\ scanReads \in Nat
    BY <1>1, <1>5
  <2>2. /\ fBusResetScheduled \in BOOLEAN /\ missing \in BOOLEAN
        /\ fDelayedStateChangeCmdNeedAbort \in BOOLEAN
    BY <1>5
  <2> HIDE <1>1, <1>2, <1>5
  <2>3. QED
    BY <1>3, <1>4, <1>5, <2>1, <2>2 DEF Now, States
<1>7. /\ fBusState = "kStarting" /\ fBusResetState = "Resetting"
      /\ ~fDelayedStateChangeCmd.busy
      /\ scanReads <= fNumROMReads
      /\ trouble \in 0..MaxTrouble
  BY <1>1 DEF Init
<1>8. QED
  BY <1>6, <1>7, NowFields DEF Inv, Core, Base, Rest

LEMMA StepInv == Inv /\ [Next]_vars => Inv'
<1> SUFFICES ASSUME Inv, [Next]_vars PROVE Inv'
  OBVIOUS
<1>1. Core(Now) /\ Rest(Now)
  BY DEF Inv
<1>2. CASE ClientResetBus
  BY <1>1, <1>2, ClientResetBusStep, TroubleStep DEF Inv
<1>3. CASE disableSoftwareBusResets
  BY <1>1, <1>3, DisableStep, TroubleStep DEF Inv
<1>4. CASE enableSoftwareBusResets
  BY <1>1, <1>4, EnableStep, TroubleStep DEF Inv
<1>5. CASE Timers
  BY <1>1, <1>5, BusResetStartTimeoutStep, BusResetTimeoutStep,
     SelfIDTimeoutStep, ScanDelayOverStep, PruneDelayOverStep,
     StrayTimeoutStep, ResetStateChangeStep, TroubleStep DEF Inv, Timers
<1>6. CASE BusResetInterrupt
  BY <1>1, <1>6, BusResetInterruptStep, TroubleStep DEF Inv
<1>7. CASE processSelfIDs
  BY <1>1, <1>7, ProcessSelfIDsStep, TroubleStep DEF Inv
<1>8. CASE ROMReadDone
  BY <1>1, <1>8, ROMReadDoneStep, TroubleStep DEF Inv
<1>9. CASE ROMReadBusReset
  BY <1>1, <1>9, ROMReadBusResetStep, TroubleStep DEF Inv
<1>10. CASE Wake
  BY <1>1, <1>10, WakeStep, TroubleStep DEF Inv
<1>11. CASE Sleep
  BY <1>1, <1>11, SleepStep, TroubleStep DEF Inv
<1>12. CASE Tick
  BY <1>1, <1>12, TickStep, TroubleStep DEF Inv
<1>13. CASE OtherReset \/ LoseSelfIDs
  BY <1>1, <1>13, PhyStep, TroubleStep DEF Inv
<1>14. CASE UNCHANGED vars
  <2>1. Now' = Now
    BY <1>14
       DEF vars, resetVars, timerVars, scanVars, Now
  <2>2. Becomes(Now)
    BY <1>14 DEF vars, resetVars, timerVars, scanVars, Now, Becomes
  <2>3. QED
    BY <1>1, <2>2, StepGood, TroubleStep DEF Inv
<1>15. QED
  BY <1>2, <1>3, <1>4, <1>5, <1>6, <1>7, <1>8, <1>9, <1>10, <1>11, <1>12,
     <1>13, <1>14 DEF Next

LEMMA Invariance == Spec => []Inv
BY InitInv, StepInv, PTL DEF Spec

(* Every variable keeps its type, and the ROM reads in flight never        *)
(* outnumber those the scan counts on.                                     *)
THEOREM TypeCorrect == Spec => []TypeOK
<1>1. Inv => TypeOK
  BY NowFields DEF Inv, Core, Base, States, TypeOK
<1>2. QED
  BY <1>1, Invariance, PTL

(* A reset that was asked for and not sent always has a timer to send it.  *)
THEOREM ScheduledResets == Spec => []ScheduledResetHasATimer
<1>1. Inv => ScheduledResetHasATimer
  BY NowFields
     DEF Inv, Core, Base, States, ResetStates, ScheduledResetHasATimer
<1>2. QED
  BY <1>1, Invariance, PTL

(* Every waiting state has a timer, or a scheduled reset, to end it.       *)
THEOREM TimedWaits == Spec => []WaitIsTimed
<1>1. Inv => WaitIsTimed
  BY NowFields DEF Inv, Rest, WaitIsTimed
<1>2. QED
  BY <1>1, Invariance, PTL

(* The prune delay runs only when no ROM read is in flight, so no device   *)
(* is pruned whose ROM is still being read.                                *)
THEOREM PruneWaits == Spec => []PruneAfterScan
<1>1. Inv => PruneAfterScan
  BY NowFields DEF Inv, Rest, PruneAfterScan
<1>2. QED
  BY <1>1, Invariance, PTL

-----------------------------------------------------------------------------
(* The delays, and the resets in critical sections.                        *)

(* Each state has its own delay, or the one kWaitingBusResetStart left it. *)
Delays(s) ==
    LET timeout == s.fDelayedStateChangeCmd.timeout
    IN  /\ s.fBusState = "kWaitingBusReset" =>
               timeout \in {kBusResetTimeout, kBusResetStartTimeout}
        /\ s.fBusState = "kWaitingSelfIDs" =>
               timeout \in {kSelfIDTimeout, kBusResetStartTimeout}
        /\ s.fBusState = "kWaitingPrune" => timeout = s.fDevicePruneDelay
        /\ s.fBusState = "kWaitingScan" /\ s.fDelayedStateChangeCmd.busy =>
               timeout = kScanBusDelay
        /\ s.fBusState = "kScanning" => ~s.fDelayedStateChangeCmd.busy

(* From s to t, no reset is sent in a critical section.                    *)
Respects(s, t) ==
    s.fBusResetState = "Arbitrated" /\ t.fBusResetState = "Resetting" =>
        t.fBusResetDisabledCount = 0

LEMMA DoBusResetDelays ==
    ASSUME NEW s, Base(s), s.fBusState # "kAsleep", NEW out \in Outcomes
    PROVE  /\ Delays(doBusReset(s, out))
           /\ doBusReset(s, out).fBusResetDisabledCount = s.fBusResetDisabledCount
<1> DEFINE r == [s EXCEPT !.fBusResetState = "Resetting"]
           w == WaitIn(r, "kWaitingBusReset", kBusResetTimeout)
           d == doBusReset(s, out)
<1>1. /\ r \in States /\ r.fBusState = s.fBusState
      /\ r.fDelayedStateChangeCmd = s.fDelayedStateChangeCmd
      /\ r.fBusResetDisabledCount = s.fBusResetDisabledCount
  BY DEF Base, States, ResetStates
<1>2. \/ out # "fail" /\ d = [w EXCEPT !.phy = PhyAfter(@, out),
                                       !.fWaitingForSelfID =
                                           IF @ > kMaxWaitForValidSelfID THEN 0 ELSE @]
      \/ out = "fail" /\ d = [w EXCEPT !.fDelayedStateChangeCmd = Cancelled(@),
                                       !.fBusState = "kRunning"]
  BY DEF doBusReset
<1> HIDE DEF r, d
<1>3a. "kWaitingBusReset" \in BusStates
  BY DEF BusStates
<1>3. /\ w \in States /\ Same(r, w) /\ w.fBusState = "kWaitingBusReset"
      /\ \/ w.fDelayedStateChangeCmd.timeout = kBusResetTimeout
         \/ /\ r.fDelayedStateChangeCmd.busy
            /\ ~delayedStateCommandInUse(r)
            /\ w.fDelayedStateChangeCmd.timeout = r.fDelayedStateChangeCmd.timeout
  BY <1>1, <1>3a, WaitInFacts, DelayTypes
<1> HIDE DEF w
<1>4. w.fDelayedStateChangeCmd.timeout \in {kBusResetTimeout, kBusResetStartTimeout}
  BY <1>1, <1>3 DEF Base, delayedStateCommandInUse
<1>5. \/ /\ d.fBusState = "kWaitingBusReset"
         /\ d.fDelayedStateChangeCmd = w.fDelayedStateChangeCmd
      \/ d.fBusState = "kRunning"
  BY <1>2, <1>3 DEF States
<1>6. d.fBusResetDisabledCount = w.fBusResetDisabledCount
  BY <1>2, <1>3 DEF States
<1>7. QED
  BY <1>1, <1>3, <1>4, <1>5, <1>6 DEF Delays, Same, d

LEMMA ResetBusDelays ==
    ASSUME NEW s, Core(s), Delays(s), s.fBusState # "kAsleep", NEW out \in Outcomes
    PROVE  LET t == resetBus(s, out)
           IN  /\ Delays(t) /\ Respects(s, t)
               /\ s.fBusResetState = "Disabled" => t.fBusResetState = "Disabled"
<1>1. s \in States
  BY DEF Core, Base
<1>2. CASE s.fBusResetState = "Disabled"
  <2> DEFINE d == [s EXCEPT !.fBusResetScheduled = TRUE]
  <2>1. resetBus(s, out) = d
    BY <1>2 DEF resetBus
  <2>2. /\ d.fBusState = s.fBusState
        /\ d.fDelayedStateChangeCmd = s.fDelayedStateChangeCmd
        /\ d.fDevicePruneDelay = s.fDevicePruneDelay
        /\ d.fBusResetState = s.fBusResetState
    BY <1>1 DEF States
  <2> HIDE DEF d
  <2>3. QED
    BY <1>2, <2>1, <2>2 DEF Delays, Respects
<1>3. CASE s.fBusResetState = "Arbitrated" /\ s.fBusResetDisabledCount = 0
  <2>1. resetBus(s, out) = doBusReset(s, out)
    BY <1>3 DEF resetBus
  <2>2. QED
    BY <1>3, <2>1, DoBusResetDelays DEF Core, Respects
<1>4. CASE /\ s.fBusResetState = "Arbitrated"
           /\ s.fBusResetDisabledCount > 0
           /\ ~s.fBusResetScheduled
  <2> DEFINE d == [s EXCEPT !.fBusResetScheduled = TRUE]
             w == WaitIn(d, "kWaitingBusResetStart", kBusResetStartTimeout)
  <2>1. resetBus(s, out) = w
    BY <1>1, <1>4 DEF resetBus, States
  <2>2. d \in States /\ d.fBusResetState = s.fBusResetState
    BY <1>1 DEF States
  <2> HIDE DEF d
  <2>3. Same(d, w) /\ w.fBusState = "kWaitingBusResetStart"
    BY <2>2, WaitInFacts, DelayTypes DEF BusStates
  <2> HIDE DEF w
  <2>4. QED
    BY <1>4, <2>1, <2>2, <2>3 DEF Delays, Respects, Same
<1>5. CASE /\ s.fBusResetState # "Disabled"
           /\ s.fBusResetState = "Arbitrated" =>
                 s.fBusResetDisabledCount # 0 /\ s.fBusResetScheduled
  <2>1. resetBus(s, out) = s
    BY <1>5 DEF resetBus
  <2>2. QED
    BY <2>1 DEF Respects
<1>6. QED
  BY <1>1, <1>2, <1>3, <1>4, <1>5 DEF States, ResetStates

LEMMA ProcessBusResetDelays ==
    ASSUME NEW s, Core(s), s.fBusState # "kAsleep", NEW tooLong \in BOOLEAN
    PROVE  LET t == processBusReset(s, tooLong)
           IN  /\ t \in States /\ Delays(t)
               /\ t.fBusState = "kWaitingSelfIDs" /\ t.fBusResetState = "Disabled"
<1> DEFINE e == enterBusResetDisabledState([s EXCEPT !.fBusResetScheduled = FALSE])
           c == CancelIfInUse(e)
           cmd == Armed(c.fDelayedStateChangeCmd, kSelfIDTimeout)
           t == processBusReset(s, tooLong)
<1>1. /\ e \in States /\ e.fBusState = s.fBusState /\ e.fBusResetState = "Disabled"
      /\ e.fDelayedStateChangeCmd = s.fDelayedStateChangeCmd
  BY DelayTypes
     DEF Core, Base, States, enterBusResetDisabledState, ResetStates, ResetTimers
<1>2. t = [[[c EXCEPT !.fBusState = "kWaitingSelfIDs"]
              EXCEPT !.missing = @ /\ ~tooLong]
             EXCEPT !.fDelayedStateChangeCmd = Armed(@, kSelfIDTimeout)]
  BY DEF processBusReset, checkProgress
<1>3. t \in States
  BY ProcessBusResetGood DEF Core, Base
<1> HIDE DEF e, t
<1>4. /\ c \in States /\ Same(e, c)
      /\ c.fDelayedStateChangeCmd.busy => /\ e.fDelayedStateChangeCmd.busy
                                          /\ ~delayedStateCommandInUse(e)
      /\ c.fDelayedStateChangeCmd.timeout = e.fDelayedStateChangeCmd.timeout
  BY <1>1, CancelIfInUseFacts
<1> HIDE DEF c
<1>5. cmd.timeout = IF c.fDelayedStateChangeCmd.busy
                    THEN c.fDelayedStateChangeCmd.timeout ELSE kSelfIDTimeout
  BY DEF Armed
<1>6. /\ t.fBusState = "kWaitingSelfIDs" /\ t.fDelayedStateChangeCmd = cmd
      /\ t.fBusResetState = c.fBusResetState
  BY <1>2, <1>4 DEF States
<1>7. cmd.timeout \in {kSelfIDTimeout, kBusResetStartTimeout}
  BY <1>1, <1>4, <1>5 DEF Core, Base, delayedStateCommandInUse
<1>8. QED
  BY <1>1, <1>3, <1>4, <1>6, <1>7 DEF Delays, Same, t

LEMMA FinishedBusScanDelays ==
    ASSUME NEW s, Core(s), Delays(s), s.fBusState # "kAsleep",
           NEW verdict \in Verdicts, NEW onlyNode \in BOOLEAN, NEW out \in Outcomes
    PROVE  LET t == finishedBusScan(s, verdict, onlyNode, out)
           IN  Delays(t) /\ Respects(s, t)
<1> DEFINE t == finishedBusScan(s, verdict, onlyNode, out)
<1>1. s \in States
  BY DEF Core, Base
<1>2. CASE verdict = "cycleMaster"
  <2>1. t = [s EXCEPT !.phy = PhyAfter(@, out)]
    BY <1>2 DEF finishedBusScan
  <2> HIDE DEF t
  <2>2. /\ t.fBusState = s.fBusState /\ t.fBusResetState = s.fBusResetState
        /\ t.fDelayedStateChangeCmd = s.fDelayedStateChangeCmd
        /\ t.fDevicePruneDelay = s.fDevicePruneDelay
    BY <1>1, <2>1 DEF States
  <2>3. QED
    BY <2>2 DEF Delays, Respects, t
<1>3. CASE verdict \in {"duplicateGUID", "busManager"}
  <2>1. t = resetBus(s, out)
    BY <1>3 DEF finishedBusScan
  <2>2. QED BY <2>1, ResetBusDelays
<1>4. CASE verdict = "settled" /\ s.fBusState = "kScanning"
  <2> DEFINE delay == PruneDelay(s, onlyNode)
  <2>1. t = [s EXCEPT !.fDevicePruneDelay = delay,
                      !.fBusState = "kWaitingPrune",
                      !.fDelayedStateChangeCmd = Armed(@, delay)]
    BY <1>4 DEF finishedBusScan
  <2> HIDE DEF t, delay
  <2>2. /\ t.fBusState = "kWaitingPrune" /\ t.fBusResetState = s.fBusResetState
        /\ t.fDelayedStateChangeCmd = Armed(s.fDelayedStateChangeCmd, delay)
        /\ t.fDevicePruneDelay = delay
    BY <1>1, <2>1 DEF States
  <2>3. ~s.fDelayedStateChangeCmd.busy
    BY <1>4 DEF Delays
  <2>4. Armed(s.fDelayedStateChangeCmd, delay).timeout = delay
    BY <2>3 DEF Armed
  <2>5. QED
    BY <2>2, <2>4 DEF Delays, Respects, t
<1>5. CASE verdict = "settled" /\ s.fBusState # "kScanning"
  BY <1>5 DEF finishedBusScan, Respects
<1>6. QED
  BY <1>2, <1>3, <1>4, <1>5 DEF Verdicts

(* The state the step leads to.                                            *)
LEMMA StepDelays ==
    ASSUME NEW s, s \in States, Delays(s), Becomes(s), Respects(Now, s)
    PROVE  Delays(Now') /\ Respects(Now, Now')
BY BecomesNow

(* Steps that leave the state, its timer and the prune delay alone.        *)
LEMMA FrameDelays ==
    ASSUME Delays(Now),
           fBusState' = fBusState \/ fBusState' \in {"kRunning", "kAsleep"},
           /\ fDelayedStateChangeCmd'.timeout = fDelayedStateChangeCmd.timeout
           /\ fDelayedStateChangeCmd'.busy => fDelayedStateChangeCmd.busy,
           fDevicePruneDelay' = fDevicePruneDelay \/ fBusState' # "kWaitingPrune",
           fBusResetState = "Arbitrated" => fBusResetState' # "Resetting"
    PROVE  Delays(Now') /\ Respects(Now, Now')
<1>1. /\ Now'.fBusState = fBusState'
      /\ Now'.fBusResetState = fBusResetState'
      /\ Now'.fDelayedStateChangeCmd = fDelayedStateChangeCmd'
      /\ Now'.fDevicePruneDelay = fDevicePruneDelay'
  BY DEF Now
<1>2. QED
  BY <1>1, NowFields DEF Delays, Respects

LEMMA FiredFields ==
    ASSUME Core(Now)
    PROVE  /\ Fired \in States
           /\ Fired.fBusState = fBusState
           /\ Fired.fBusResetState = fBusResetState
           /\ Fired.fDevicePruneDelay = fDevicePruneDelay
<1> DEFINE cmd == Cancelled(Now.fDelayedStateChangeCmd)
<1>1. cmd \in StateTimers
  BY CancelledTimer DEF Core, Base, States
<1>2. Fired = [Now EXCEPT !.fDelayedStateChangeCmd = cmd]
  BY DEF Fired
<1> HIDE DEF cmd
<1>3. QED
  BY <1>1, <1>2, NowFields DEF Core, Base, States

(* Whoever asks for a reset from a state in which none is wanted.          *)
LEMMA ResetStepDelays ==
    ASSUME NEW s, Core(s), s.fBusState # "kAsleep", Delays(s),
           s.fBusResetState = fBusResetState \/ s.fBusResetState = "Disabled",
           NEW out \in Outcomes, Becomes(resetBus(s, out))
    PROVE  Delays(Now') /\ Respects(Now, Now')
<1> DEFINE t == resetBus(s, out)
<1>1. /\ t \in States /\ Delays(t) /\ Respects(s, t)
      /\ s.fBusResetState = "Disabled" => t.fBusResetState = "Disabled"
  BY ResetBusGood, ResetBusDelays DEF Core, Base
<1> HIDE DEF t
<1>2. Respects(Now, t)
  BY <1>1, NowFields DEF Respects
<1>3. QED
  BY <1>1, <1>2, StepDelays DEF t

LEMMA BusResetTimeoutDelays ==
    ASSUME Core(Now), Rest(Now), BusResetTimeout
    PROVE  Delays(Now') /\ Respects(Now, Now')
<1>1. /\ Base(Fired) /\ ~Fired.fDelayedStateChangeCmd.busy
  BY FiredGood DEF BusResetTimeout
<1>2. PICK out \in Outcomes, tooLong \in BOOLEAN :
         Becomes(resetBus([enterBusResetDisabledState(checkProgress(Fired, tooLong))
                             EXCEPT !.fBusState = "kRunning"], out))
  BY OutcomesCovered DEF BusResetTimeout
<1> DEFINE c == checkProgress(Fired, tooLong)
           e == enterBusResetDisabledState(c)
           r == [e EXCEPT !.fBusState = "kRunning"]
<1>3. /\ c \in States
      /\ c.fDelayedStateChangeCmd = Fired.fDelayedStateChangeCmd
      /\ c.fNumROMReads = Fired.fNumROMReads /\ c.scanReads = Fired.scanReads
  BY <1>1 DEF Base, States, checkProgress
<1> HIDE DEF c
<1>4. /\ e \in States /\ e.fBusResetState = "Disabled"
      /\ e.fBusResetStateChangeCmd.busy
      /\ e.fDelayedStateChangeCmd = c.fDelayedStateChangeCmd
      /\ e.fNumROMReads = c.fNumROMReads /\ e.scanReads = c.scanReads
  BY <1>3, DelayTypes
     DEF States, enterBusResetDisabledState, ResetStates, ResetTimers
<1> HIDE DEF e
<1>5. /\ r \in States /\ r.fBusState = "kRunning" /\ r.fBusResetState = "Disabled"
      /\ r.fBusResetStateChangeCmd.busy
      /\ r.fDelayedStateChangeCmd = Fired.fDelayedStateChangeCmd
      /\ r.fNumROMReads = Fired.fNumROMReads /\ r.scanReads = Fired.scanReads
  BY <1>3, <1>4 DEF States, BusStates
<1>6. Becomes(resetBus(r, out))
  BY <1>2 DEF e, c
<1> HIDE DEF r
<1>7. Core(r) /\ Delays(r)
  BY <1>1, <1>5 DEF Core, Base, Delays
<1>8. QED
  BY <1>5, <1>6, <1>7, ResetStepDelays

LEMMA SelfIDTimeoutDelays ==
    ASSUME Core(Now), Rest(Now), SelfIDTimeout
    PROVE  Delays(Now') /\ Respects(Now, Now')
<1>1. /\ Core(Fired) /\ ~Fired.fDelayedStateChangeCmd.busy
      /\ Fired.fBusState = "kWaitingSelfIDs"
      /\ Fired.fBusResetState = fBusResetState
  BY FiredGood DEF SelfIDTimeout
<1>2. PICK out \in Outcomes :
         Becomes(resetBus([Fired EXCEPT !.fBusState = "kRunning",
                                        !.fWaitingForSelfID = @ + 1], out))
  BY OutcomesCovered DEF SelfIDTimeout
<1> DEFINE n == Fired.fWaitingForSelfID + 1
           r == [Fired EXCEPT !.fBusState = "kRunning", !.fWaitingForSelfID = n]
<1>3. Fired \in States /\ n \in Nat
  BY <1>1 DEF Core, Base, States
<1>4. Becomes(resetBus(r, out))
  BY <1>2
<1> HIDE DEF n
<1>5. /\ r \in States /\ r.fBusState = "kRunning"
      /\ r.fBusResetState = Fired.fBusResetState
      /\ r.fBusResetScheduled = Fired.fBusResetScheduled
      /\ r.fBusResetStateChangeCmd = Fired.fBusResetStateChangeCmd
      /\ r.fDelayedStateChangeCmd = Fired.fDelayedStateChangeCmd
      /\ r.fNumROMReads = Fired.fNumROMReads /\ r.scanReads = Fired.scanReads
  BY <1>3 DEF States, BusStates
<1> HIDE DEF r
<1>6. Core(r) /\ Delays(r)
  BY <1>1, <1>5 DEF Core, Base, Delays
<1>7. QED
  BY <1>1, <1>4, <1>5, <1>6, ResetStepDelays

LEMMA ScanDelayOverDelays ==
    ASSUME Core(Now), Rest(Now), ScanDelayOver
    PROVE  Delays(Now') /\ Respects(Now, Now')
<1>1. /\ Core(Fired) /\ ~Fired.fDelayedStateChangeCmd.busy
      /\ Fired.fBusState = "kWaitingScan" /\ Fired.scanReads = 0
      /\ Fired.fBusResetState = fBusResetState
      /\ Fired.fBusResetState # "Resetting"
  BY FiredGood, NowFields DEF ScanDelayOver, Rest
<1> DEFINE r(nodes) == startBusScan(
                           [Fired EXCEPT !.fBusState = "kScanning",
                                         !.fWaitingForSelfID = 0], nodes)
<1>2. PICK nodes \in 0..MaxRemoteNodes, out \in Outcomes :
         \/ Becomes(r(nodes))
         \/ /\ nodes = 0
            /\ \E verdict \in Verdicts :
                  Becomes(finishedBusScan(r(nodes), verdict, TRUE, out))
  BY OutcomesCovered DEF ScanDelayOver, VerdictsFor
<1> DEFINE q == r(nodes)
<1>3. MaxRemoteNodes \in Nat /\ nodes \in Nat
  BY BoundsAssumption DEF BoundsAssumption
<1>4. /\ q \in States /\ q.fBusState = "kScanning"
      /\ q.fBusResetState = Fired.fBusResetState
      /\ q.fBusResetScheduled = Fired.fBusResetScheduled
      /\ q.fBusResetStateChangeCmd = Fired.fBusResetStateChangeCmd
      /\ q.fDelayedStateChangeCmd = Fired.fDelayedStateChangeCmd
      /\ q.fNumROMReads = nodes /\ q.scanReads = nodes
  <2>1. Fired \in States /\ Fired.scanReads + nodes = nodes
    BY <1>1, <1>3 DEF Core, Base
  <2>2. q = [Fired EXCEPT !.fBusState = "kScanning", !.fWaitingForSelfID = 0,
                          !.fNumROMReads = nodes, !.scanReads = nodes]
    BY <2>1 DEF startBusScan, States
  <2> HIDE DEF q
  <2>3. QED
    BY <1>3, <2>1, <2>2 DEF States, BusStates
<1>5. \/ Becomes(q)
      \/ /\ nodes = 0
         /\ \E verdict \in Verdicts : Becomes(finishedBusScan(q, verdict, TRUE, out))
  BY <1>2
<1> HIDE DEF q
<1>6. Core(q) /\ Rest(q) /\ Delays(q)
  BY <1>1, <1>3, <1>4 DEF Core, Base, Rest, Delays
<1>7. CASE Becomes(q)
  BY <1>1, <1>4, <1>6, <1>7, StepDelays, NowFields DEF Respects
<1>8. CASE nodes = 0 /\ \E verdict \in Verdicts :
                           Becomes(finishedBusScan(q, verdict, TRUE, out))
  <2>1. PICK verdict \in Verdicts : Becomes(finishedBusScan(q, verdict, TRUE, out))
    BY <1>8
  <2> DEFINE t == finishedBusScan(q, verdict, TRUE, out)
  <2>2. t \in States /\ Delays(t) /\ Respects(q, t)
    BY <1>4, <1>6, <1>8, FinishedBusScanGood, FinishedBusScanDelays DEF Core, Base
  <2> HIDE DEF t
  <2>3. Respects(Now, t)
    BY <1>1, <1>4, <2>2, NowFields DEF Respects
  <2>4. QED
    BY <2>1, <2>2, <2>3, StepDelays DEF t
<1>9. QED
  BY <1>5, <1>7, <1>8

LEMMA PruneDelayOverDelays ==
    ASSUME Core(Now), Rest(Now), PruneDelayOver
    PROVE  Delays(Now') /\ Respects(Now, Now')
<1>1. /\ Core(Fired) /\ ~Fired.fDelayedStateChangeCmd.busy
      /\ Fired.fBusState = "kWaitingPrune" /\ Fired.fBusResetState = fBusResetState
  BY FiredGood DEF PruneDelayOver
<1> DEFINE r == [Fired EXCEPT !.fBusState = "kRunning"]
           p == [r EXCEPT !.fDevicePruneDelay = kNormalDevicePruneDelay,
                          !.missing = FALSE]
<1>2. PICK again \in BOOLEAN, out \in Outcomes :
         Becomes(IF again THEN resetBus(p, out) ELSE p)
  BY OutcomesCovered DEF PruneDelayOver, updatePlane
<1>3. /\ r \in States /\ r.fBusState = "kRunning"
      /\ r.fBusResetState = Fired.fBusResetState
      /\ r.fBusResetScheduled = Fired.fBusResetScheduled
      /\ r.fBusResetStateChangeCmd = Fired.fBusResetStateChangeCmd
      /\ r.fDelayedStateChangeCmd = Fired.fDelayedStateChangeCmd
      /\ r.fDelayedStateChangeCmdNeedAbort = Fired.fDelayedStateChangeCmdNeedAbort
      /\ r.fNumROMReads = Fired.fNumROMReads /\ r.scanReads = Fired.scanReads
  BY <1>1 DEF Core, Base, States, BusStates
<1> HIDE DEF r
<1>4. Core(r)
  BY <1>1, <1>3 DEF Core, Base
<1>5. Frame(r, p)
  <2>1. kNormalDevicePruneDelay \in PruneDelays
    BY DEF PruneDelays
  <2>2. r.scanReads <= r.fNumROMReads /\ r.scanReads \in Nat
    BY <1>4 DEF Core, Base, States
  <2>3. p \in States
    BY <1>3, <2>1 DEF States
  <2>4. /\ p.fBusState = r.fBusState /\ p.fBusResetState = r.fBusResetState
        /\ p.fBusResetScheduled = r.fBusResetScheduled
        /\ p.fBusResetStateChangeCmd = r.fBusResetStateChangeCmd
        /\ p.fDelayedStateChangeCmd = r.fDelayedStateChangeCmd
        /\ p.fDelayedStateChangeCmdNeedAbort = r.fDelayedStateChangeCmdNeedAbort
        /\ p.fNumROMReads = r.fNumROMReads /\ p.scanReads = r.scanReads
    BY <1>3 DEF States
  <2> HIDE DEF p
  <2>5. QED
    BY <1>3, <2>2, <2>3, <2>4 DEF Frame
<1> HIDE DEF p
<1>6. Core(p) /\ Delays(p) /\ p.fBusResetState = fBusResetState
      /\ p.fBusState # "kAsleep"
  BY <1>1, <1>3, <1>4, <1>5, FrameGood DEF Frame, Delays
<1>7. CASE again
  BY <1>2, <1>6, <1>7, ResetStepDelays
<1>8. CASE ~again
  <2>1. Respects(Now, p)
    BY <1>6, NowFields DEF Respects
  <2>2. QED
    BY <1>2, <1>6, <1>8, <2>1, StepDelays DEF Core, Base
<1>9. QED
  BY <1>7, <1>8

LEMMA ResetStateChangeDelays ==
    ASSUME Core(Now), Rest(Now), Delays(Now), resetStateChange
    PROVE  Delays(Now') /\ Respects(Now, Now')
<1> DEFINE s == [Now EXCEPT !.fBusResetStateChangeCmd.busy = FALSE,
                            !.fBusResetState = "Arbitrated"]
<1>1. /\ s \in States /\ s.fBusState = fBusState /\ s.fBusResetState = "Arbitrated"
      /\ s.fBusResetDisabledCount = fBusResetDisabledCount
      /\ s.fDelayedStateChangeCmd = fDelayedStateChangeCmd
      /\ s.fDevicePruneDelay = fDevicePruneDelay
      /\ s.fNumROMReads = fNumROMReads /\ s.scanReads = scanReads
  BY NowFields DEF Core, Base, States, ResetTimers, ResetStates
<1>2. fBusState # "kAsleep"
  BY DEF resetStateChange, awake
<1>3. Base(s)
  BY <1>1, <1>2, NowFields DEF Core, Base, delayedStateCommandInUse
<1>4. PICK out \in Outcomes :
         \/ Becomes(s)
         \/ fBusResetDisabledCount = 0 /\ Becomes(doBusReset(s, out))
         \/ Becomes(WaitIn(s, "kWaitingBusResetStart", kBusResetStartTimeout))
  BY OutcomesCovered DEF resetStateChange, FWIMOutcomes
<1> HIDE DEF s
<1>5. CASE Becomes(s)
  <2>1. Delays(s) /\ Respects(Now, s)
    BY <1>1, NowFields DEF Delays, Respects
  <2>2. QED
    BY <1>1, <1>5, <2>1, StepDelays
<1>6. CASE fBusResetDisabledCount = 0 /\ Becomes(doBusReset(s, out))
  <2> DEFINE d == doBusReset(s, out)
  <2>1. d \in States /\ Delays(d) /\ d.fBusResetDisabledCount = 0
    BY <1>1, <1>2, <1>3, <1>6, DoBusResetGood, DoBusResetDelays DEF Core, Base
  <2> HIDE DEF d
  <2>2. QED
    BY <1>6, <2>1, StepDelays DEF Respects, d
<1>7. CASE Becomes(WaitIn(s, "kWaitingBusResetStart", kBusResetStartTimeout))
  <2> DEFINE w == WaitIn(s, "kWaitingBusResetStart", kBusResetStartTimeout)
  <2>1. w \in States /\ Same(s, w) /\ w.fBusState = "kWaitingBusResetStart"
    BY <1>1, WaitInFacts, DelayTypes DEF BusStates
  <2> HIDE DEF w
  <2>2. Delays(w) /\ Respects(Now, w)
    BY <1>1, <2>1 DEF Delays, Respects, Same
  <2>3. QED
    BY <1>7, <2>1, <2>2, StepDelays DEF w
<1>8. QED
  BY <1>4, <1>5, <1>6, <1>7

LEMMA EnableDelays ==
    ASSUME Core(Now), Rest(Now), Delays(Now), enableSoftwareBusResets
    PROVE  Delays(Now') /\ Respects(Now, Now')
<1> DEFINE s == [Now EXCEPT !.fBusResetDisabledCount = @ - 1]
<1>1. MaxDisabled \in Nat
  BY BoundsAssumption DEF BoundsAssumption
<1>2. Frame(Now, s) /\ s.fDevicePruneDelay = fDevicePruneDelay
  BY <1>1, NowFields
     DEF Frame, Core, Base, States, enableSoftwareBusResets
<1>3. PICK out \in Outcomes : Becomes(IF /\ s.fBusResetState = "Arbitrated"
                                         /\ s.fBusResetDisabledCount = 0
                                         /\ s.fBusResetScheduled
                                      THEN doBusReset(s, out) ELSE s)
  BY OutcomesCovered DEF enableSoftwareBusResets
<1>4. fBusState # "kAsleep"
  BY DEF enableSoftwareBusResets, awake
<1> HIDE DEF s
<1>5. /\ Core(s) /\ s.fBusState # "kAsleep" /\ s \in States
      /\ Delays(s) /\ Respects(Now, s)
  BY <1>2, <1>4, FrameGood, NowFields DEF Frame, Delays, Respects
<1> DEFINE d == doBusReset(s, out)
<1>6. /\ d \in States /\ Delays(d)
      /\ d.fBusResetDisabledCount = s.fBusResetDisabledCount
  BY <1>5, DoBusResetGood, DoBusResetDelays DEF Core, Base
<1> HIDE DEF d
<1>7. s.fBusResetDisabledCount = 0 => Respects(Now, d)
  BY <1>6 DEF Respects
<1>8. QED
  BY <1>3, <1>5, <1>6, <1>7, StepDelays DEF d

LEMMA BusResetInterruptDelays ==
    ASSUME Core(Now), Rest(Now), BusResetInterrupt
    PROVE  Delays(Now') /\ Respects(Now, Now')
<1>1. PICK tooLong \in BOOLEAN :
         Becomes([processBusReset(Now, tooLong) EXCEPT !.phy = "selfid"])
  BY DEF BusResetInterrupt
<1> DEFINE b == processBusReset(Now, tooLong)
           t == [b EXCEPT !.phy = "selfid"]
<1>2. b \in States /\ Delays(b) /\ b.fBusResetState = "Disabled"
  BY ProcessBusResetDelays, NowFields DEF BusResetInterrupt, awake
<1> HIDE DEF b
<1>3. /\ t \in States /\ t.fBusState = b.fBusState
      /\ t.fDelayedStateChangeCmd = b.fDelayedStateChangeCmd
      /\ t.fDevicePruneDelay = b.fDevicePruneDelay
      /\ t.fBusResetState = "Disabled"
  BY <1>2 DEF States, PhyStates
<1>4. Becomes(t)
  BY <1>1 DEF b
<1> HIDE DEF t
<1>5. Delays(t) /\ Respects(Now, t)
  BY <1>2, <1>3 DEF Delays, Respects
<1>6. QED
  BY <1>3, <1>4, <1>5, StepDelays

LEMMA ProcessSelfIDsDelays ==
    ASSUME Core(Now), Rest(Now), processSelfIDs
    PROVE  Delays(Now') /\ Respects(Now, Now')
<1>1. PICK tooLong \in BOOLEAN :
         LET s == SelfIDsArrived(Now, tooLong)
         IN  \/ Becomes([s EXCEPT !.fDelayedStateChangeCmd =
                                     Armed(@, kScanBusDelay)])
             \/ \E out \in Outcomes : Becomes(resetBus(s, out))
  BY OutcomesCovered DEF processSelfIDs
<1> DEFINE b == IF Now.fBusState # "kWaitingSelfIDs"
                THEN processBusReset(Now, tooLong) ELSE Now
           s == SelfIDsArrived(Now, tooLong)
<1>2. Now.fBusState # "kAsleep"
  BY NowFields DEF processSelfIDs, awake
<1>3. /\ b \in States
      /\ b.fBusResetState \in {"Disabled", fBusResetState}
  BY <1>2, ProcessBusResetDelays, NowFields DEF Core, Base
<1>4. s = [[b EXCEPT !.missing = TRUE, !.scanReads = 0]
             EXCEPT !.fDelayedStateChangeCmd = Cancelled(@),
                    !.fBusState = "kWaitingScan", !.phy = "quiet"]
  BY DEF SelfIDsArrived, suspendBus
<1>5. Core(s)
  BY <1>2, SelfIDsArrivedGood
<1> HIDE DEF b
<1>6. \/ Becomes([s EXCEPT !.fDelayedStateChangeCmd = Armed(@, kScanBusDelay)])
      \/ \E out \in Outcomes : Becomes(resetBus(s, out))
  BY <1>1
<1> HIDE DEF s
<1>7. /\ s \in States /\ s.fBusState = "kWaitingScan"
      /\ ~s.fDelayedStateChangeCmd.busy
      /\ s.fBusResetState = b.fBusResetState
  <2>1. s \in States
    BY <1>5 DEF Core, Base
  <2>2. /\ s.fBusState = "kWaitingScan"
        /\ s.fDelayedStateChangeCmd = Cancelled(b.fDelayedStateChangeCmd)
        /\ s.fBusResetState = b.fBusResetState
    BY <1>3, <1>4 DEF States
  <2>3. ~Cancelled(b.fDelayedStateChangeCmd).busy
    BY <1>3, CancelledTimer DEF States
  <2>4. QED
    BY <2>1, <2>2, <2>3
<1>8. Delays(s)
  BY <1>7 DEF Delays
<1>9. CASE \E out \in Outcomes : Becomes(resetBus(s, out))
  BY <1>3, <1>5, <1>7, <1>8, <1>9, ResetStepDelays
<1>10. CASE Becomes([s EXCEPT !.fDelayedStateChangeCmd = Armed(@, kScanBusDelay)])
  <2> DEFINE cmd == Armed(s.fDelayedStateChangeCmd, kScanBusDelay)
             t == [s EXCEPT !.fDelayedStateChangeCmd = cmd]
  <2>1. Becomes(t)
    BY <1>10
  <2>2. cmd \in StateTimers /\ cmd.timeout = kScanBusDelay
    BY <1>7, ArmedTimer, DelayTypes DEF States
  <2> HIDE DEF cmd
  <2>3. /\ t \in States /\ t.fBusState = "kWaitingScan"
        /\ t.fDelayedStateChangeCmd = cmd
        /\ t.fBusResetState = s.fBusResetState
    BY <1>7, <2>2 DEF States
  <2> HIDE DEF t
  <2>4. Delays(t) /\ Respects(Now, t)
    BY <1>3, <1>7, <2>2, <2>3, NowFields DEF Delays, Respects
  <2>5. QED
    BY <2>1, <2>3, <2>4, StepDelays
<1>11. QED
  BY <1>6, <1>9, <1>10

LEMMA ROMReadDoneDelays ==
    ASSUME Core(Now), Rest(Now), Delays(Now), ROMReadDone
    PROVE  Delays(Now') /\ Respects(Now, Now')
<1>1. PICK busyX \in BOOLEAN, gone \in BOOLEAN, out \in Outcomes :
         \/ Becomes(ROMRead(Now, busyX))
         \/ /\ ROMRead(Now, busyX).fNumROMReads = 0
            /\ \E verdict \in Verdicts :
                  Becomes(finishedBusScan(
                      [ROMRead(Now, busyX) EXCEPT !.missing = @ /\ gone],
                      verdict, FALSE, out))
  BY OutcomesCovered DEF ROMReadDone, VerdictsFor
<1> DEFINE s == ROMRead(Now, busyX)
           a == [s EXCEPT !.missing = @ /\ gone]
<1>2. /\ scanReads > 0 /\ scanReads <= fNumROMReads
      /\ scanReads \in Nat /\ fNumROMReads \in 0..MaxRemoteNodes
      /\ MaxRemoteNodes \in Nat
  BY BoundsAssumption, NowFields
     DEF ROMReadDone, Core, Base, States, BoundsAssumption
<1>3. Frame(Now, s)
  <2> DEFINE n == Now.scanReads - 1
             m == Now.fNumROMReads - 1
             d == IF /\ busyX
                     /\ Now.fDevicePruneDelay >= kWakeDevicePruneDelay
                     /\ Now.fDevicePruneDelay < kWakeDevicePruneDelayBusy
                  THEN kWakeDevicePruneDelayBusy
                  ELSE Now.fDevicePruneDelay
  <2>1. n \in Nat /\ m \in 0..MaxRemoteNodes /\ n <= m /\ n <= Now.scanReads
    BY <1>2, NowFields
  <2>2. d \in PruneDelays
    BY DEF PruneDelays, Core, Base, States
  <2>3. s = [Now EXCEPT !.scanReads = n, !.fNumROMReads = m,
                        !.fDevicePruneDelay = d]
    BY DEF ROMRead
  <2> HIDE DEF n, m, d, s
  <2>4. QED
    BY <2>1, <2>2, <2>3 DEF Frame, Core, Base, States
<1>4. a = [s EXCEPT !.missing = @ /\ gone]
  OBVIOUS
<1> HIDE DEF s, a
<1>5. Frame(s, a) /\ a.scanReads = s.scanReads
  <2>1. s \in States /\ s.scanReads <= s.fNumROMReads /\ s.scanReads \in Nat
    BY <1>3 DEF Frame, States
  <2>2. QED
    BY <1>4, <2>1 DEF Frame, States
<1>6. Core(s) /\ Core(a) /\ a.fBusState # "kAsleep"
  BY <1>3, <1>5, FrameGood, NowFields DEF Frame, ROMReadDone, awake
<1>7. fBusState # "kWaitingPrune"
  BY <1>2, NowFields DEF Rest
<1>8. /\ Delays(s) /\ Delays(a) /\ s.fBusResetState = fBusResetState
      /\ a.fBusResetState = fBusResetState
  BY <1>3, <1>5, <1>7, NowFields DEF Frame, Delays
<1>9. CASE Becomes(s)
  <2>1. Respects(Now, s)
    BY <1>8, NowFields DEF Respects
  <2>2. QED
    BY <1>6, <1>8, <1>9, <2>1, StepDelays DEF Core, Base
<1>10. CASE /\ s.fNumROMReads = 0
            /\ \E verdict \in Verdicts : Becomes(finishedBusScan(a, verdict, FALSE, out))
  <2>1. PICK verdict \in Verdicts : Becomes(finishedBusScan(a, verdict, FALSE, out))
    BY <1>10
  <2> DEFINE t == finishedBusScan(a, verdict, FALSE, out)
  <2>2. a.scanReads = 0
    BY <1>3, <1>5, <1>10 DEF Frame, States
  <2>3. Rest(a)
    BY <1>3, <1>5, FrameGood
  <2>4. t \in States /\ Delays(t) /\ Respects(a, t)
    BY <1>6, <1>8, <2>2, <2>3, FinishedBusScanGood, FinishedBusScanDelays
       DEF Core, Base
  <2> HIDE DEF t
  <2>5. Respects(Now, t)
    BY <1>8, <2>4, NowFields DEF Respects
  <2>6. QED
    BY <2>1, <2>4, <2>5, StepDelays DEF t
<1>11. QED
  BY <1>1, <1>9, <1>10 DEF s, a

LEMMA StartTimeoutDelays ==
    ASSUME Core(Now), Rest(Now), BusResetStartTimeout
    PROVE  /\ Delays(Now')
           /\ fBusState = "kWaitingBusResetStart" /\ Due(fDelayedStateChangeCmd)
           /\ fDelayedStateChangeCmd.timeout = kBusResetStartTimeout
<1>1. Base(Fired) /\ Fired.fBusState # "kAsleep"
  BY FiredGood DEF BusResetStartTimeout
<1>2. PICK out \in Outcomes : Becomes(doBusReset(Fired, out))
  BY OutcomesCovered DEF BusResetStartTimeout
<1>3. doBusReset(Fired, out) \in States /\ Delays(doBusReset(Fired, out))
  BY <1>1, DoBusResetGood, DoBusResetDelays DEF Core, Base
<1>4. Delays(Now')
  BY <1>2, <1>3, BecomesNow
<1>5. fBusState = "kWaitingBusResetStart" /\ Due(fDelayedStateChangeCmd)
  BY DEF BusResetStartTimeout, StateTimerDue, Due
<1>6. fDelayedStateChangeCmd.timeout = kBusResetStartTimeout
  BY <1>5, NowFields DEF Core, Base, delayedStateCommandInUse, Due
<1>7. QED
  BY <1>4, <1>5, <1>6

(* The steps that change neither a wait nor its delay.                     *)
LEMMA OtherDelays ==
    ASSUME Core(Now), Rest(Now), Delays(Now),
           \/ disableSoftwareBusResets \/ StrayTimeout \/ ROMReadBusReset \/ Wake
           \/ Sleep \/ Tick \/ OtherReset \/ LoseSelfIDs \/ UNCHANGED vars
    PROVE  Delays(Now') /\ Respects(Now, Now')
<1>1. fDelayedStateChangeCmd \in StateTimers
  BY NowFields DEF Core, Base, States
<1>2. /\ ~Cancelled(fDelayedStateChangeCmd).busy
      /\ Cancelled(fDelayedStateChangeCmd).timeout = fDelayedStateChangeCmd.timeout
  BY <1>1, CancelledTimer
<1>3. CASE \/ disableSoftwareBusResets \/ ROMReadBusReset \/ OtherReset
           \/ LoseSelfIDs \/ UNCHANGED vars
  BY <1>3, FrameDelays
     DEF disableSoftwareBusResets, ROMReadBusReset, OtherReset, LoseSelfIDs,
         vars, resetVars, timerVars, scanVars
<1>4. CASE StrayTimeout
  <2>1. /\ fBusState' = fBusState /\ fBusResetState' = fBusResetState
        /\ fDelayedStateChangeCmd' = Cancelled(fDelayedStateChangeCmd)
        /\ fDevicePruneDelay' = fDevicePruneDelay
    BY <1>4 DEF StrayTimeout, Becomes, Fired, Now
  <2>2. QED
    BY <1>2, <2>1, FrameDelays
<1>5. CASE Wake
  <2>1. /\ fBusState' = "kRunning" /\ fBusResetState' = fBusResetState
        /\ fDelayedStateChangeCmd' =
               IF fDelayedStateChangeCmdNeedAbort
               THEN Cancelled(fDelayedStateChangeCmd) ELSE fDelayedStateChangeCmd
    BY <1>5 DEF Wake, Becomes, Now
  <2>2. QED
    BY <1>2, <2>1, FrameDelays
<1>6. CASE Sleep
  <2>1. /\ fBusState' = "kAsleep"
        /\ fBusResetState = "Arbitrated" => fBusResetState' = "Arbitrated"
        /\ fDelayedStateChangeCmd' = fDelayedStateChangeCmd
    BY <1>6 DEF Sleep, Becomes, Now
  <2>2. QED
    BY <2>1, FrameDelays
<1>7. CASE Tick
  <2>1. /\ fBusState' = fBusState /\ fBusResetState' = fBusResetState
        /\ fDevicePruneDelay' = fDevicePruneDelay
        /\ fDelayedStateChangeCmd' = Elapsed(fDelayedStateChangeCmd)
    BY <1>7 DEF Tick, resetVars, scanVars
  <2>2. /\ Elapsed(fDelayedStateChangeCmd).timeout = fDelayedStateChangeCmd.timeout
        /\ Elapsed(fDelayedStateChangeCmd).busy = fDelayedStateChangeCmd.busy
    BY <1>1 DEF Elapsed, StateTimers
  <2>3. QED
    BY <2>1, <2>2, FrameDelays
<1>8. QED
  BY <1>3, <1>4, <1>5, <1>6, <1>7

LEMMA NextDelays ==
    ASSUME Inv, Delays(Now), [Next]_vars
    PROVE  /\ Delays(Now')
           /\ \/ Respects(Now, Now')
              \/ /\ fBusState = "kWaitingBusResetStart" /\ Due(fDelayedStateChangeCmd)
                 /\ fDelayedStateChangeCmd.timeout = kBusResetStartTimeout
<1>1. Core(Now) /\ Rest(Now)
  BY DEF Inv
<1>2. CASE ClientResetBus
  <2>1. PICK out \in Outcomes : Becomes(resetBus(Now, out))
    BY <1>2, OutcomesCovered DEF ClientResetBus
  <2>2. Now.fBusState # "kAsleep" /\ Now.fBusResetState = fBusResetState
    BY <1>2, NowFields DEF ClientResetBus, awake
  <2>3. QED
    BY <1>1, <2>1, <2>2, ResetStepDelays
<1>3. CASE Timers
  BY <1>1, <1>3, StartTimeoutDelays, BusResetTimeoutDelays, SelfIDTimeoutDelays,
     ScanDelayOverDelays, PruneDelayOverDelays, OtherDelays, ResetStateChangeDelays
     DEF Timers
<1>4. CASE enableSoftwareBusResets
  BY <1>1, <1>4, EnableDelays
<1>5. CASE BusResetInterrupt \/ processSelfIDs \/ ROMReadDone
  BY <1>1, <1>5, BusResetInterruptDelays, ProcessSelfIDsDelays, ROMReadDoneDelays
<1>6. CASE \/ disableSoftwareBusResets \/ ROMReadBusReset \/ Wake
           \/ Sleep \/ Tick \/ OtherReset \/ LoseSelfIDs \/ UNCHANGED vars
  BY <1>1, <1>6, OtherDelays
<1>7. QED
  BY <1>2, <1>3, <1>4, <1>5, <1>6 DEF Next

LEMMA DelaysInvariance == Spec => [](Inv /\ Delays(Now))
<1>1. Init => Delays(Now)
  BY NowFields DEF Init, Delays
<1>2. Inv /\ Delays(Now) /\ [Next]_vars => (Inv /\ Delays(Now))'
  <2>1. Inv /\ Delays(Now) /\ [Next]_vars => Delays(Now')
    BY NextDelays
  <2>2. QED
    BY <2>1, StepInv DEF Delays
<1>3. QED
  BY <1>1, <1>2, InitInv, PTL DEF Spec

(* No state waits for another's delay, but for the longer one that a       *)
(* refused reinit leaves of kWaitingBusResetStart.                         *)
THEOREM WaitsAreTheirOwn == Spec => []DelayFits
<1>1. Inv /\ Delays(Now) => DelayFits
  BY NowFields DEF Delays, DelayFits
<1>2. QED
  BY <1>1, DelaysInvariance, PTL

(* No wait of the controller is without the timer that ends it, with the   *)
(* delay of its own state.                                                 *)
THEOREM NoWaitIsForEver == Spec => []ResetsAreTimed
BY TypeCorrect, ScheduledResets, TimedWaits, WaitsAreTheirOwn, PTL DEF ResetsAreTimed

(* A critical section is broken by nothing but a reset that has waited its *)
(* kBusResetStartTimeout for the section to end.                           *)
THEOREM SectionsRespected == Spec => ResetsRespectCriticalSections
<1> DEFINE Kept ==
        fBusResetState = "Arbitrated" /\ fBusResetState' = "Resetting"
          /\ fBusResetDisabledCount' > 0
        => /\ fBusState = "kWaitingBusResetStart"
           /\ Due(fDelayedStateChangeCmd)
           /\ fDelayedStateChangeCmd.timeout = kBusResetStartTimeout
<1>1. Inv /\ Delays(Now) /\ [Next]_vars => [Kept]_vars
  <2> SUFFICES ASSUME Inv, Delays(Now), [Next]_vars PROVE Kept
    OBVIOUS
  <2>1. \/ Respects(Now, Now')
        \/ /\ fBusState = "kWaitingBusResetStart" /\ Due(fDelayedStateChangeCmd)
           /\ fDelayedStateChangeCmd.timeout = kBusResetStartTimeout
    BY NextDelays
  <2>2. /\ Now.fBusResetState = fBusResetState
        /\ Now'.fBusResetState = fBusResetState'
        /\ Now'.fBusResetDisabledCount = fBusResetDisabledCount'
    BY DEF Now
  <2>3. QED
    BY <2>1, <2>2 DEF Respects
<1>2. QED
  BY <1>1, DelaysInvariance, PTL DEF Spec, ResetsRespectCriticalSections
-----------------------------------------------------------------------------
(***************************************************************************)
(* The gate of the work loop (module WorkLoop)                             *)
(***************************************************************************)

(* The reasons to close the gate that leave the thread inside              *)
Reasons == {"work", "stop"} \cup Ordinals

AThread ==
    [pc : {"out", "inside", "removes", "releases", "sleeps", "woken", "aborted", "lost"},
     why : {"none", "free"} \cup Reasons,
     held : BOOLEAN, source : EventSources \cup {Nobody}]

LoopTyped ==
    /\ gateLock \in LoopThreads \cup {Nobody}
    /\ fSleepToken \in BOOLEAN
    /\ fRemoveSourceThread \in LoopThreads \cup {Nobody}
    /\ fRemoveSourceDeferredSet \subseteq EventSources
    /\ caller \in [LoopThreads -> AThread]
    /\ sources \in [EventSources -> {"registered", "removed", "freed"}]
    /\ power \in [asleep : BOOLEAN, fStarted : BOOLEAN, stopped : BOOLEAN]
    /\ risks \subseteq LoopRisks

Waits(t) == caller[t].pc \in {"sleeps", "woken", "aborted", "lost"}
HasLock(t) == caller[t].pc \in {"inside", "removes"} \/ (caller[t].pc = "releases" /\ caller[t].held)

(* Who has the lock is inside, or removes a source                         *)
LockIsTrue ==
    \A t \in LoopThreads :
        /\ gateLock = t <=> HasLock(t)
        /\ fRemoveSourceThread = t <=> caller[t].pc = "removes"

(* What a thread's record says                                             *)
ThreadsAreTrue ==
    \A t \in LoopThreads :
        /\ caller[t].pc = "out" =>
              caller[t].why = "none" /\ ~caller[t].held /\ caller[t].source = Nobody
        /\ caller[t].pc = "inside" =>
              caller[t].why \in Reasons /\ caller[t].held /\ caller[t].source = Nobody
        /\ caller[t].pc \in {"removes", "releases"} => caller[t].source \in EventSources
        /\ caller[t].pc \in {"removes", "releases"} => caller[t].why \in {"none", "work"}
        /\ Waits(t) => /\ caller[t].why \in {"work", "stop", "free"}
                       /\ caller[t].why = "free" <=> caller[t].source # Nobody
        /\ caller[t].why \in Ordinals => t = PowerThread

(* The thread of power management sets the token and takes it away, and    *)
(* while it is busy with a source nobody does                              *)
PowerThreadIsApart ==
    LET p == caller[PowerThread]
    IN  /\ p.pc \in {"out", "inside", "removes", "releases"}
        /\ p.pc = "inside" => p.why \in Ordinals /\ ~fSleepToken /\ ~power.stopped
        /\ p.pc \in {"removes", "releases"} =>
              ~p.held /\ (fSleepToken => p.source \in fRemoveSourceDeferredSet)
        /\ fSleepToken => power.asleep \/ power.stopped

SourcesAreKnown ==
    /\ fRemoveSourceDeferredSet # {} => fSleepToken
    /\ \A s \in EventSources :
          /\ s \in fRemoveSourceDeferredSet => sources[s] # "freed"
          /\ sources[s] = "removed" =>
                \/ s \in fRemoveSourceDeferredSet
                \/ \E t \in LoopThreads : caller[t].source = s
          /\ \A t \in LoopThreads : caller[t].source = s =>
                /\ sources[s] # "freed"
                /\ caller[t].why = "free" => s \notin fRemoveSourceDeferredSet
                /\ \A u \in LoopThreads : caller[u].source = s => u = t

TokenIsTrue ==
    /\ \A t \in LoopThreads :
          /\ caller[t].pc = "sleeps" => fSleepToken
          /\ caller[t].pc \in {"aborted", "lost"} => "interrupted" \in risks
    /\ "sleepsAgain" \notin risks =>
          /\ fSleepToken => power.asleep /\ ~power.stopped
          /\ \A t \in LoopThreads :
                /\ fSleepToken /\ HasLock(t) => caller[t].pc = "removes" /\ ~caller[t].held
                /\ fSleepToken => caller[t].pc # "woken"

LoopInv ==
    /\ LoopTyped /\ LockIsTrue /\ ThreadsAreTrue /\ PowerThreadIsApart
    /\ SourcesAreKnown /\ TokenIsTrue


(* One thread goes on                                                      *)
LEMMA OneThreadGoesOn ==
    ASSUME NEW t \in LoopThreads, NEW r \in AThread, caller \in [LoopThreads -> AThread],
           caller' = [caller EXCEPT ![t] = r]
    PROVE  /\ caller' \in [LoopThreads -> AThread]
           /\ caller'[t] = r
           /\ \A u \in LoopThreads : u # t => caller'[u] = caller[u]
  OBVIOUS

(* What a thread's fields are                                              *)
LEMMA FieldsOfThreads ==
    ASSUME NEW t \in LoopThreads, caller \in [LoopThreads -> AThread]
    PROVE  /\ caller[t].held \in BOOLEAN
           /\ caller[t].source \in EventSources \cup {Nobody}
  BY DEF AThread

(* A thread goes back to where it removed, or freed, an event source       *)
LEMMA GoesBack ==
    ASSUME NEW t \in LoopThreads, caller \in [LoopThreads -> AThread],
           caller' = [caller EXCEPT ![t] = Back(t)]
    PROVE  \E r \in AThread :
              /\ r.source = Nobody
              /\ caller[t].held => r.pc = "inside" /\ r.why = "work" /\ r.held = TRUE
              /\ ~caller[t].held => r.pc = "out" /\ r.why = "none" /\ r.held = FALSE
              /\ caller' = [caller EXCEPT ![t] = r]
<1>1. CASE caller[t].held
  BY <1>1 DEF AThread, Back, Away, Reasons, Ordinals
<1>2. CASE ~caller[t].held
  BY <1>2 DEF AThread, Back, Away, Reasons, Ordinals
<1>. QED  BY <1>1, <1>2

(* A thread waits to free an event source                                       *)
LEMMA GoesToSleep ==
    ASSUME NEW t \in LoopThreads, caller \in [LoopThreads -> AThread],
           caller' = [caller EXCEPT ![t].pc = "sleeps", ![t].why = "free"]
    PROVE  \E r \in AThread :
              /\ r.pc = "sleeps" /\ r.why = "free" /\ r.held = caller[t].held
              /\ r.source = caller[t].source
              /\ caller' = [caller EXCEPT ![t] = r]
<1> DEFINE r == [caller[t] EXCEPT !.pc = "sleeps", !.why = "free"]
<1>1. caller[t] \in AThread
  OBVIOUS
<1>2. /\ r \in AThread /\ r.pc = "sleeps" /\ r.why = "free" /\ r.held = caller[t].held
      /\ r.source = caller[t].source
  BY <1>1 DEF AThread
<1>3. caller' = [caller EXCEPT ![t] = r]
  OBVIOUS
<1>. QED  BY <1>2, <1>3

(* ... has removed an event source and is about to release it              *)
LEMMA GoesToRelease ==
    ASSUME NEW t \in LoopThreads, caller \in [LoopThreads -> AThread],
           caller' = [caller EXCEPT ![t].pc = "releases", ![t].why = "none"]
    PROVE  \E r \in AThread :
              /\ r.pc = "releases" /\ r.why = "none" /\ r.held = caller[t].held
              /\ r.source = caller[t].source
              /\ caller' = [caller EXCEPT ![t] = r]
<1> DEFINE r == [caller[t] EXCEPT !.pc = "releases", !.why = "none"]
<1>1. caller[t] \in AThread
  OBVIOUS
<1>2. /\ r \in AThread /\ r.pc = "releases" /\ r.why = "none" /\ r.held = caller[t].held
      /\ r.source = caller[t].source
  BY <1>1 DEF AThread
<1>3. caller' = [caller EXCEPT ![t] = r]
  OBVIOUS
<1>. QED  BY <1>2, <1>3

(* A thread that was woken goes on                                         *)
LEMMA SleepIsOverKeepsLoop ==
    ASSUME NEW t \in LoopThreads, LoopInv, SleepIsOver(t)
    PROVE  LoopInv'
<1> DEFINE w == caller[t].why
           held == caller[t].held
           s == caller[t].source
<1>0. /\ t \in LoopThreads /\ caller \in [LoopThreads -> AThread]
      /\ held \in BOOLEAN /\ s \in EventSources \cup {Nobody}
  BY ThreadsAssumption, FieldsOfThreads DEF LoopInv, LoopTyped
<1>1. /\ caller[t].pc = "woken" /\ gateLock = Nobody
      /\ w \in {"work", "stop", "free"} /\ t # PowerThread
      /\ w = "free" <=> s \in EventSources
      /\ \A u \in LoopThreads : u # t /\ s \in EventSources => caller[u].source # s
      /\ w = "free" => s \notin fRemoveSourceDeferredSet
      /\ UNCHANGED <<fSleepToken, fRemoveSourceDeferredSet, power, risks>>
  BY <1>0, ThreadsAssumption
     DEF LoopInv, LoopTyped, LockIsTrue, ThreadsAreTrue, PowerThreadIsApart, SourcesAreKnown,
         TokenIsTrue, HasLock, Waits, Reasons, Ordinals, LoopRisks, MayLock, SleepIsOver
<1>2. CASE w = "free"
  <2>1. /\ caller' = [caller EXCEPT ![t] = Back(t)]
        /\ sources' = [sources EXCEPT ![s] = "freed"]
        /\ gateLock' = IF held THEN t ELSE Nobody
        /\ UNCHANGED fRemoveSourceThread
    BY <1>1, <1>2 DEF SleepIsOver, GoesThrough, BackLock
  <2>2. PICK r \in AThread :
                /\ r.source = Nobody
                /\ held => r.pc = "inside" /\ r.why = "work" /\ r.held = TRUE
                /\ ~held => r.pc = "out" /\ r.why = "none" /\ r.held = FALSE
                /\ caller' = [caller EXCEPT ![t] = r]
    BY <1>0, <2>1, GoesBack
  <2>3. /\ caller' \in [LoopThreads -> AThread] /\ caller'[t] = r
        /\ \A u \in LoopThreads : u # t => caller'[u] = caller[u]
    BY <1>0, <2>2, OneThreadGoesOn
  <2> USE ThreadsAssumption DEF LoopInv, LoopTyped, LockIsTrue, ThreadsAreTrue, PowerThreadIsApart, SourcesAreKnown,
         TokenIsTrue, HasLock, Waits, Reasons, Ordinals, LoopRisks, MayLock
  <2>4. LoopTyped'
    BY <1>0, <1>1, <1>2, <2>1, <2>2, <2>3
  <2>5. LockIsTrue'
    BY <1>0, <1>1, <1>2, <2>1, <2>2, <2>3
  <2>6. ThreadsAreTrue'
    BY <1>0, <1>1, <1>2, <2>1, <2>2, <2>3
  <2>7. PowerThreadIsApart'
    BY <1>0, <1>1, <1>2, <2>1, <2>2, <2>3
  <2>8. SourcesAreKnown'
    BY <1>0, <1>1, <1>2, <2>1, <2>2, <2>3
  <2>9. TokenIsTrue'
    BY <1>0, <1>1, <1>2, <2>1, <2>2, <2>3
  <2>. QED  BY <2>4, <2>5, <2>6, <2>7, <2>8, <2>9
<1>3. CASE w \in {"work", "stop"}
  <2>1. /\ caller' = [caller EXCEPT ![t].pc = "inside", ![t].why = w, ![t].held = TRUE]
        /\ gateLock' = t
        /\ UNCHANGED <<sources, fRemoveSourceThread>>
    BY <1>1, <1>3 DEF SleepIsOver, GoesThrough
  <2> DEFINE r == [caller[t] EXCEPT !.pc = "inside", !.why = w, !.held = TRUE]
  <2>2. /\ r \in AThread
        /\ r.pc = "inside" /\ r.why = w /\ r.held = TRUE /\ r.source = s
    BY <1>0, <1>1, <1>3 DEF AThread, Reasons, Ordinals
  <2>. caller' = [caller EXCEPT ![t] = r]
    BY <1>0, <2>1
  <2> HIDE DEF r
  <2>3. /\ caller' \in [LoopThreads -> AThread] /\ caller'[t] = r
        /\ \A u \in LoopThreads : u # t => caller'[u] = caller[u]
    BY <1>0, <2>2, OneThreadGoesOn
  <2> USE ThreadsAssumption DEF LoopInv, LoopTyped, LockIsTrue, ThreadsAreTrue, PowerThreadIsApart, SourcesAreKnown,
         TokenIsTrue, HasLock, Waits, Reasons, Ordinals, LoopRisks, MayLock
  <2>4. LoopTyped'
    BY <1>0, <1>1, <1>3, <2>1, <2>2, <2>3
  <2>5. LockIsTrue'
    BY <1>0, <1>1, <1>3, <2>1, <2>2, <2>3
  <2>6. ThreadsAreTrue'
    BY <1>0, <1>1, <1>3, <2>1, <2>2, <2>3
  <2>7. PowerThreadIsApart'
    BY <1>0, <1>1, <1>3, <2>1, <2>2, <2>3
  <2>8. SourcesAreKnown'
    BY <1>0, <1>1, <1>3, <2>1, <2>2, <2>3
  <2>9. TokenIsTrue'
    BY <1>0, <1>1, <1>3, <2>1, <2>2, <2>3
  <2>. QED  BY <2>4, <2>5, <2>6, <2>7, <2>8, <2>9
<1>. QED  BY <1>1, <1>2, <1>3

(* The owner of a source releases it, and may have to close the gate       *)
LEMMA ReleaseSourceKeepsLoop ==
    ASSUME NEW t \in LoopThreads, LoopInv, ReleaseSource(t)
    PROVE  LoopInv'
<1> DEFINE held == caller[t].held
           s == caller[t].source
<1>0. /\ t \in LoopThreads /\ caller \in [LoopThreads -> AThread]
      /\ held \in BOOLEAN /\ s \in EventSources \cup {Nobody}
  BY ThreadsAssumption, FieldsOfThreads DEF LoopInv, LoopTyped
<1>1. /\ caller[t].pc = "releases" /\ s \in EventSources /\ sources[s] # "freed"
      /\ fRemoveSourceThread # t
      /\ \A u \in LoopThreads : u # t => caller[u].source # s
      /\ t = PowerThread => ~held /\ (fSleepToken => s \in fRemoveSourceDeferredSet)
      /\ UNCHANGED <<fSleepToken, fRemoveSourceDeferredSet, power, risks>>
  BY ThreadsAssumption
     DEF LoopInv, LoopTyped, LockIsTrue, ThreadsAreTrue, PowerThreadIsApart, SourcesAreKnown,
         TokenIsTrue, HasLock, Waits, Reasons, Ordinals, LoopRisks, MayLock, ReleaseSource
<1>2. CASE s \in fRemoveSourceDeferredSet
  <2>1. /\ caller' = [caller EXCEPT ![t] = Back(t)]
        /\ UNCHANGED <<gateLock, fRemoveSourceThread, sources>>
    BY <1>1, <1>2 DEF ReleaseSource
  <2>2. PICK r \in AThread :
                /\ r.source = Nobody
                /\ held => r.pc = "inside" /\ r.why = "work" /\ r.held = TRUE
                /\ ~held => r.pc = "out" /\ r.why = "none" /\ r.held = FALSE
                /\ caller' = [caller EXCEPT ![t] = r]
    BY <1>0, <2>1, GoesBack
  <2>3. /\ caller' \in [LoopThreads -> AThread] /\ caller'[t] = r
        /\ \A u \in LoopThreads : u # t => caller'[u] = caller[u]
    BY <1>0, <2>2, OneThreadGoesOn
  <2> USE ThreadsAssumption DEF LoopInv, LoopTyped, LockIsTrue, ThreadsAreTrue, PowerThreadIsApart, SourcesAreKnown,
         TokenIsTrue, HasLock, Waits, Reasons, Ordinals, LoopRisks, MayLock
  <2>4. LoopTyped'
    BY <1>0, <1>1, <1>2, <2>1, <2>2, <2>3
  <2>5. LockIsTrue'
    BY <1>0, <1>1, <1>2, <2>1, <2>2, <2>3
  <2>6. ThreadsAreTrue'
    BY <1>0, <1>1, <1>2, <2>1, <2>2, <2>3
  <2>7. PowerThreadIsApart'
    BY <1>0, <1>1, <1>2, <2>1, <2>2, <2>3
  <2>8. SourcesAreKnown'
    BY <1>0, <1>1, <1>2, <2>1, <2>2, <2>3
  <2>9. TokenIsTrue'
    BY <1>0, <1>1, <1>2, <2>1, <2>2, <2>3
  <2>. QED  BY <2>4, <2>5, <2>6, <2>7, <2>8, <2>9
<1>3. CASE s \notin fRemoveSourceDeferredSet /\ fSleepToken
  <2>1. /\ caller' = [caller EXCEPT ![t].pc = "sleeps", ![t].why = "free"]
        /\ gateLock' = Nobody /\ gateLock \in {Nobody, t}
        /\ UNCHANGED <<sources, fRemoveSourceThread>>
    BY <1>1, <1>3 DEF ReleaseSource, closeGate, GateIsShut, MayLock
  <2>2. PICK r \in AThread :
                /\ r.pc = "sleeps" /\ r.why = "free" /\ r.held = held /\ r.source = s
                /\ caller' = [caller EXCEPT ![t] = r]
    BY <1>0, <2>1, GoesToSleep
  <2>3. /\ caller' \in [LoopThreads -> AThread] /\ caller'[t] = r
        /\ \A u \in LoopThreads : u # t => caller'[u] = caller[u]
    BY <1>0, <2>2, OneThreadGoesOn
  <2> USE ThreadsAssumption DEF LoopInv, LoopTyped, LockIsTrue, ThreadsAreTrue, PowerThreadIsApart, SourcesAreKnown,
         TokenIsTrue, HasLock, Waits, Reasons, Ordinals, LoopRisks, MayLock
  <2>4. LoopTyped'
    BY <1>0, <1>1, <1>3, <2>1, <2>2, <2>3
  <2>5. LockIsTrue'
    BY <1>0, <1>1, <1>3, <2>1, <2>2, <2>3
  <2>6. ThreadsAreTrue'
    BY <1>0, <1>1, <1>3, <2>1, <2>2, <2>3
  <2>7. PowerThreadIsApart'
    BY <1>0, <1>1, <1>3, <2>1, <2>2, <2>3
  <2>8. SourcesAreKnown'
    BY <1>0, <1>1, <1>3, <2>1, <2>2, <2>3
  <2>9. TokenIsTrue'
    BY <1>0, <1>1, <1>3, <2>1, <2>2, <2>3
  <2>. QED  BY <2>4, <2>5, <2>6, <2>7, <2>8, <2>9
<1>4. CASE s \notin fRemoveSourceDeferredSet /\ ~fSleepToken
  <2>1. /\ caller' = [caller EXCEPT ![t] = Back(t)]
        /\ sources' = [sources EXCEPT ![s] = "freed"]
        /\ gateLock' = (IF held THEN t ELSE Nobody) /\ gateLock \in {Nobody, t}
        /\ UNCHANGED fRemoveSourceThread
    BY <1>1, <1>4 DEF ReleaseSource, closeGate, GateIsShut, GoesThrough, BackLock, MayLock
  <2>2. PICK r \in AThread :
                /\ r.source = Nobody
                /\ held => r.pc = "inside" /\ r.why = "work" /\ r.held = TRUE
                /\ ~held => r.pc = "out" /\ r.why = "none" /\ r.held = FALSE
                /\ caller' = [caller EXCEPT ![t] = r]
    BY <1>0, <2>1, GoesBack
  <2>3. /\ caller' \in [LoopThreads -> AThread] /\ caller'[t] = r
        /\ \A u \in LoopThreads : u # t => caller'[u] = caller[u]
    BY <1>0, <2>2, OneThreadGoesOn
  <2> USE ThreadsAssumption DEF LoopInv, LoopTyped, LockIsTrue, ThreadsAreTrue, PowerThreadIsApart, SourcesAreKnown,
         TokenIsTrue, HasLock, Waits, Reasons, Ordinals, LoopRisks, MayLock
  <2>4. LoopTyped'
    BY <1>0, <1>1, <1>4, <2>1, <2>2, <2>3
  <2>5. LockIsTrue'
    BY <1>0, <1>1, <1>4, <2>1, <2>2, <2>3
  <2>6. ThreadsAreTrue'
    BY <1>0, <1>1, <1>4, <2>1, <2>2, <2>3
  <2>7. PowerThreadIsApart'
    BY <1>0, <1>1, <1>4, <2>1, <2>2, <2>3
  <2>8. SourcesAreKnown'
    BY <1>0, <1>1, <1>4, <2>1, <2>2, <2>3
  <2>9. TokenIsTrue'
    BY <1>0, <1>1, <1>4, <2>1, <2>2, <2>3
  <2>. QED  BY <2>4, <2>5, <2>6, <2>7, <2>8, <2>9
<1>. QED  BY <1>2, <1>3, <1>4

(* The command that removes a source never waits at the gate               *)
LEMMA RunRemovalKeepsLoop ==
    ASSUME NEW t \in LoopThreads, LoopInv, RunRemoval(t)
    PROVE  LoopInv'
<1> DEFINE held == caller[t].held
           s == caller[t].source
<1>0. /\ t \in LoopThreads /\ caller \in [LoopThreads -> AThread]
      /\ held \in BOOLEAN /\ s \in EventSources \cup {Nobody}
  BY ThreadsAssumption, FieldsOfThreads DEF LoopInv, LoopTyped
<1>1. /\ caller[t].pc = "removes" /\ s \in EventSources /\ sources[s] # "freed"
      /\ fRemoveSourceThread = t /\ gateLock = t
      /\ \A u \in LoopThreads : u # t => caller[u].source # s
      /\ UNCHANGED <<fSleepToken, fRemoveSourceDeferredSet, power, risks>>
  BY ThreadsAssumption
     DEF LoopInv, LoopTyped, LockIsTrue, ThreadsAreTrue, PowerThreadIsApart, SourcesAreKnown,
         TokenIsTrue, HasLock, Waits, Reasons, Ordinals, LoopRisks, MayLock, RunRemoval
<1>2. CASE TRUE
  <2>1. /\ caller' = [caller EXCEPT ![t].pc = "releases", ![t].why = "none"]
        /\ sources' = [sources EXCEPT ![s] = "removed"]
        /\ fRemoveSourceThread' = Nobody
        /\ gateLock' = IF held THEN t ELSE Nobody
    BY <1>1, <1>2 DEF RunRemoval, closeGate, GateIsShut, GoesThrough, BackLock
  <2>2. PICK r \in AThread :
                /\ r.pc = "releases" /\ r.why = "none" /\ r.held = held /\ r.source = s
                /\ caller' = [caller EXCEPT ![t] = r]
    BY <1>0, <2>1, GoesToRelease
  <2>3. /\ caller' \in [LoopThreads -> AThread] /\ caller'[t] = r
        /\ \A u \in LoopThreads : u # t => caller'[u] = caller[u]
    BY <1>0, <2>2, OneThreadGoesOn
  <2> USE ThreadsAssumption DEF LoopInv, LoopTyped, LockIsTrue, ThreadsAreTrue, PowerThreadIsApart, SourcesAreKnown,
         TokenIsTrue, HasLock, Waits, Reasons, Ordinals, LoopRisks, MayLock
  <2>4. LoopTyped'
    BY <1>0, <1>1, <1>2, <2>1, <2>2, <2>3
  <2>5. LockIsTrue'
    BY <1>0, <1>1, <1>2, <2>1, <2>2, <2>3
  <2>6. ThreadsAreTrue'
    BY <1>0, <1>1, <1>2, <2>1, <2>2, <2>3
  <2>7. PowerThreadIsApart'
    BY <1>0, <1>1, <1>2, <2>1, <2>2, <2>3
  <2>8. SourcesAreKnown'
    BY <1>0, <1>1, <1>2, <2>1, <2>2, <2>3
  <2>9. TokenIsTrue'
    BY <1>0, <1>1, <1>2, <2>1, <2>2, <2>3
  <2>. QED  BY <2>4, <2>5, <2>6, <2>7, <2>8, <2>9
<1>. QED  BY <1>2

(* Power management closes the gate, or wakes the loop                     *)
LEMMA setPowerStateKeepsLoop ==
    ASSUME NEW w \in Ordinals, NEW t \in LoopThreads, t = PowerThread, LoopInv, setPowerState(w)
    PROVE  LoopInv'
<1> DEFINE held == caller[t].held
           s == caller[t].source
<1>0. /\ t \in LoopThreads /\ caller \in [LoopThreads -> AThread]
      /\ held \in BOOLEAN /\ s \in EventSources \cup {Nobody}
  BY ThreadsAssumption, FieldsOfThreads DEF LoopInv, LoopTyped
<1>1. /\ caller[t].pc = "out" /\ ~power.stopped /\ s = Nobody
      /\ gateLock \in {Nobody, t} /\ fRemoveSourceThread # t
      /\ fSleepToken => power.asleep
      /\ UNCHANGED <<power, risks>>
  BY ThreadsAssumption
     DEF LoopInv, LoopTyped, LockIsTrue, ThreadsAreTrue, PowerThreadIsApart, SourcesAreKnown,
         TokenIsTrue, HasLock, Waits, Reasons, Ordinals, LoopRisks, MayLock, setPowerState, wake, closeGate
<1>2. gateLock = Nobody
  BY ThreadsAssumption
     DEF LoopInv, LoopTyped, LockIsTrue, ThreadsAreTrue, PowerThreadIsApart, SourcesAreKnown,
         TokenIsTrue, HasLock, Waits, Reasons, Ordinals, LoopRisks, MayLock, setPowerState, wake, closeGate
<1>3. CASE ~fSleepToken
  <2>1. /\ caller' = [caller EXCEPT ![t].pc = "inside", ![t].why = w, ![t].held = TRUE]
        /\ gateLock' = t /\ UNCHANGED fSleepToken
        /\ UNCHANGED <<sources, fRemoveSourceDeferredSet, fRemoveSourceThread>>
    BY <1>1, <1>3 DEF setPowerState, wake, closeGate, GateIsShut, GoesThrough, Ordinals
  <2> DEFINE r == [caller[t] EXCEPT !.pc = "inside", !.why = w, !.held = TRUE]
  <2>2. /\ r \in AThread
        /\ r.pc = "inside" /\ r.why = w /\ r.held = TRUE /\ r.source = s
    BY <1>0, <1>1, <1>3 DEF AThread, Reasons, Ordinals
  <2>. caller' = [caller EXCEPT ![t] = r]
    BY <1>0, <2>1
  <2> HIDE DEF r
  <2>3. /\ caller' \in [LoopThreads -> AThread] /\ caller'[t] = r
        /\ \A u \in LoopThreads : u # t => caller'[u] = caller[u]
    BY <1>0, <2>2, OneThreadGoesOn
  <2> USE ThreadsAssumption DEF LoopInv, LoopTyped, LockIsTrue, ThreadsAreTrue, PowerThreadIsApart, SourcesAreKnown,
         TokenIsTrue, HasLock, Waits, Reasons, Ordinals, LoopRisks, MayLock
  <2>4. LoopTyped'
    BY <1>0, <1>1, <1>2, <1>3, <2>1, <2>2, <2>3
  <2>5. LockIsTrue'
    BY <1>0, <1>1, <1>2, <1>3, <2>1, <2>2, <2>3
  <2>6. ThreadsAreTrue'
    BY <1>0, <1>1, <1>2, <1>3, <2>1, <2>2, <2>3
  <2>7. PowerThreadIsApart'
    BY <1>0, <1>1, <1>2, <1>3, <2>1, <2>2, <2>3
  <2>8. SourcesAreKnown'
    BY <1>0, <1>1, <1>2, <1>3, <2>1, <2>2, <2>3
  <2>9. TokenIsTrue'
    BY <1>0, <1>1, <1>2, <1>3, <2>1, <2>2, <2>3
  <2>. QED  BY <2>4, <2>5, <2>6, <2>7, <2>8, <2>9
<1>4. CASE fSleepToken
  <2> DEFINE r == [caller[t] EXCEPT !.pc = "inside", !.why = w, !.held = TRUE]
             woken(u) == [caller[u] EXCEPT !.pc = "woken"]
  <2>1. /\ caller' = [u \in LoopThreads |->
                         IF u = t THEN r
                         ELSE IF caller[u].pc = "sleeps" THEN woken(u) ELSE caller[u]]
        /\ sources' = Flushed /\ gateLock' = t /\ fSleepToken' = FALSE
        /\ fRemoveSourceDeferredSet' = {} /\ UNCHANGED fRemoveSourceThread
    BY <1>1, <1>4 DEF setPowerState, wake, WokenUp
  <2>2. /\ r \in AThread
        /\ r.pc = "inside" /\ r.why = w /\ r.held = TRUE /\ r.source = s
    BY <1>0 DEF AThread, Reasons, Ordinals
  <2>3. \A u \in LoopThreads :
          /\ woken(u) \in AThread /\ woken(u).pc = "woken" /\ woken(u).why = caller[u].why
          /\ woken(u).held = caller[u].held /\ woken(u).source = caller[u].source
    BY <1>0 DEF AThread
  <2> HIDE DEF r, woken
  <2>4. /\ caller' \in [LoopThreads -> AThread] /\ caller'[t] = r
        /\ \A u \in LoopThreads : u # t =>
              /\ caller'[u].pc = IF caller[u].pc = "sleeps" THEN "woken" ELSE caller[u].pc
              /\ caller'[u].why = caller[u].why /\ caller'[u].held = caller[u].held
              /\ caller'[u].source = caller[u].source
    BY <1>0, <2>1, <2>2, <2>3
  <2>5. \A u \in LoopThreads : caller'[u].source = caller[u].source
    BY <1>0, <2>2, <2>4
  <2>6. /\ sources' \in [EventSources -> {"registered", "removed", "freed"}]
        /\ \A e \in EventSources :
              sources'[e] = IF e \in fRemoveSourceDeferredSet
                               /\ (\A u \in LoopThreads : caller[u].source # e)
                            THEN "freed" ELSE sources[e]
    BY <2>1 DEF Flushed, LoopInv, LoopTyped
  <2> USE ThreadsAssumption DEF LoopInv, LoopTyped, LockIsTrue, ThreadsAreTrue, PowerThreadIsApart, SourcesAreKnown,
         TokenIsTrue, HasLock, Waits, Reasons, Ordinals, LoopRisks, MayLock
  <2>7. LoopTyped'
    BY <1>0, <1>1, <1>2, <1>4, <2>1, <2>2, <2>4, <2>5, <2>6
  <2>8. LockIsTrue'
    BY <1>0, <1>1, <1>2, <1>4, <2>1, <2>2, <2>4, <2>5, <2>6
  <2>9. ThreadsAreTrue'
    BY <1>0, <1>1, <1>2, <1>4, <2>1, <2>2, <2>4, <2>5, <2>6
  <2>10. PowerThreadIsApart'
    BY <1>0, <1>1, <1>2, <1>4, <2>1, <2>2, <2>4, <2>5, <2>6
  <2>11. SourcesAreKnown'
    BY <1>0, <1>1, <1>2, <1>4, <2>1, <2>2, <2>4, <2>5, <2>6
  <2>12. TokenIsTrue'
    BY <1>0, <1>1, <1>2, <1>4, <2>1, <2>2, <2>4, <2>5, <2>6
  <2>. QED  BY <2>7, <2>8, <2>9, <2>10, <2>11, <2>12
<1>. QED  BY <1>3, <1>4

(* A thread comes to the gate: it goes through, or waits for the token     *)
LEMMA EnterKeepsLoop ==
    ASSUME NEW t \in LoopThreads, LoopInv, Enter(t)
    PROVE  LoopInv'
<1> USE ThreadsAssumption
    DEF LoopInv, LoopTyped, LockIsTrue, ThreadsAreTrue, PowerThreadIsApart, SourcesAreKnown,
        TokenIsTrue, HasLock, Waits, AThread, Reasons, Ordinals, LoopRisks, Away, MayLock,
        Enter, closeGate, GateIsShut, GoesThrough
<1>1. LoopTyped'  OBVIOUS
<1>2. LockIsTrue'  OBVIOUS
<1>3. ThreadsAreTrue'  OBVIOUS
<1>4. PowerThreadIsApart'  OBVIOUS
<1>5. SourcesAreKnown'  OBVIOUS
<1>6. TokenIsTrue'  OBVIOUS
<1>. QED  BY <1>1, <1>2, <1>3, <1>4, <1>5, <1>6

(* A thread that does not want to wait goes through                        *)
LEMMA tryCloseGateKeepsLoop ==
    ASSUME NEW t \in LoopThreads, LoopInv, tryCloseGate(t)
    PROVE  LoopInv'
<1> USE ThreadsAssumption
    DEF LoopInv, LoopTyped, LockIsTrue, ThreadsAreTrue, PowerThreadIsApart, SourcesAreKnown,
        TokenIsTrue, HasLock, Waits, AThread, Reasons, Ordinals, LoopRisks, Away, MayLock,
        tryCloseGate, GateIsShut, GoesThrough
<1>1. LoopTyped'  OBVIOUS
<1>2. LockIsTrue'  OBVIOUS
<1>3. ThreadsAreTrue'  OBVIOUS
<1>4. PowerThreadIsApart'  OBVIOUS
<1>5. SourcesAreKnown'  OBVIOUS
<1>6. TokenIsTrue'  OBVIOUS
<1>. QED  BY <1>1, <1>2, <1>3, <1>4, <1>5, <1>6

(* A thread opens the gate                                                 *)
LEMMA openGateKeepsLoop ==
    ASSUME NEW t \in LoopThreads, LoopInv, openGate(t)
    PROVE  LoopInv'
<1> USE ThreadsAssumption
    DEF LoopInv, LoopTyped, LockIsTrue, ThreadsAreTrue, PowerThreadIsApart, SourcesAreKnown,
        TokenIsTrue, HasLock, Waits, AThread, Reasons, Ordinals, LoopRisks, Away, MayLock,
        openGate
<1>1. LoopTyped'  OBVIOUS
<1>2. LockIsTrue'  OBVIOUS
<1>3. ThreadsAreTrue'  OBVIOUS
<1>4. PowerThreadIsApart'  OBVIOUS
<1>5. SourcesAreKnown'  OBVIOUS
<1>6. TokenIsTrue'  OBVIOUS
<1>. QED  BY <1>1, <1>2, <1>3, <1>4, <1>5, <1>6

(* A waiting thread is aborted                                             *)
LEMMA AbortedKeepsLoop ==
    ASSUME NEW t \in LoopThreads, LoopInv, Aborted(t)
    PROVE  LoopInv'
<1> USE ThreadsAssumption
    DEF LoopInv, LoopTyped, LockIsTrue, ThreadsAreTrue, PowerThreadIsApart, SourcesAreKnown,
        TokenIsTrue, HasLock, Waits, AThread, Reasons, Ordinals, LoopRisks, Away, MayLock,
        Aborted
<1>1. LoopTyped'  OBVIOUS
<1>2. LockIsTrue'  OBVIOUS
<1>3. ThreadsAreTrue'  OBVIOUS
<1>4. PowerThreadIsApart'  OBVIOUS
<1>5. SourcesAreKnown'  OBVIOUS
<1>6. TokenIsTrue'  OBVIOUS
<1>. QED  BY <1>1, <1>2, <1>3, <1>4, <1>5, <1>6

(* ... and waits again, for the token there is now                         *)
LEMMA SleepsOnKeepsLoop ==
    ASSUME NEW t \in LoopThreads, LoopInv, SleepsOn(t)
    PROVE  LoopInv'
<1> USE ThreadsAssumption
    DEF LoopInv, LoopTyped, LockIsTrue, ThreadsAreTrue, PowerThreadIsApart, SourcesAreKnown,
        TokenIsTrue, HasLock, Waits, AThread, Reasons, Ordinals, LoopRisks, Away, MayLock,
        SleepsOn
<1>1. LoopTyped'  OBVIOUS
<1>2. LockIsTrue'  OBVIOUS
<1>3. ThreadsAreTrue'  OBVIOUS
<1>4. PowerThreadIsApart'  OBVIOUS
<1>5. SourcesAreKnown'  OBVIOUS
<1>6. TokenIsTrue'  OBVIOUS
<1>. QED  BY <1>1, <1>2, <1>3, <1>4, <1>5, <1>6

(* A thread begins to remove an event source                               *)
LEMMA removeEventSourceKeepsLoop ==
    ASSUME NEW t \in LoopThreads, NEW s \in EventSources, LoopInv, removeEventSource(t, s)
    PROVE  LoopInv'
<1> USE ThreadsAssumption
    DEF LoopInv, LoopTyped, LockIsTrue, ThreadsAreTrue, PowerThreadIsApart, SourcesAreKnown,
        TokenIsTrue, HasLock, Waits, AThread, Reasons, Ordinals, LoopRisks, Away, MayLock,
        removeEventSource, Deferred
<1>1. LoopTyped'  OBVIOUS
<1>2. LockIsTrue'  OBVIOUS
<1>3. ThreadsAreTrue'  OBVIOUS
<1>4. PowerThreadIsApart'  OBVIOUS
<1>5. SourcesAreKnown'  OBVIOUS
<1>6. TokenIsTrue'  OBVIOUS
<1>. QED  BY <1>1, <1>2, <1>3, <1>4, <1>5, <1>6

(* The controller stops: its thread comes to the gate                      *)
LEMMA ComesToStopKeepsLoop ==
    ASSUME NEW t \in LoopThreads, LoopInv, Stop(t)
    PROVE  LoopInv'
<1> USE ThreadsAssumption
    DEF LoopInv, LoopTyped, LockIsTrue, ThreadsAreTrue, PowerThreadIsApart, SourcesAreKnown,
        TokenIsTrue, HasLock, Waits, AThread, Reasons, Ordinals, LoopRisks, Away, MayLock,
        Stop, closeGate, GateIsShut, GoesThrough
<1>1. LoopTyped'  OBVIOUS
<1>2. LockIsTrue'  OBVIOUS
<1>3. ThreadsAreTrue'  OBVIOUS
<1>4. PowerThreadIsApart'  OBVIOUS
<1>5. SourcesAreKnown'  OBVIOUS
<1>6. TokenIsTrue'  OBVIOUS
<1>. QED  BY <1>1, <1>2, <1>3, <1>4, <1>5, <1>6

(* ... and leaves power management                                         *)
LEMMA stopKeepsLoop ==
    ASSUME NEW t \in LoopThreads, LoopInv, stop(t)
    PROVE  LoopInv'
<1> USE ThreadsAssumption
    DEF LoopInv, LoopTyped, LockIsTrue, ThreadsAreTrue, PowerThreadIsApart, SourcesAreKnown,
        TokenIsTrue, HasLock, Waits, AThread, Reasons, Ordinals, LoopRisks, Away, MayLock,
        stop
<1>1. LoopTyped'  OBVIOUS
<1>2. LockIsTrue'  OBVIOUS
<1>3. ThreadsAreTrue'  OBVIOUS
<1>4. PowerThreadIsApart'  OBVIOUS
<1>5. SourcesAreKnown'  OBVIOUS
<1>6. TokenIsTrue'  OBVIOUS
<1>. QED  BY <1>1, <1>2, <1>3, <1>4, <1>5, <1>6

(* The link's power is set, and the gate is shut or opened                 *)
LEMMA SetLinkPowerStateKeepsLoop ==
    ASSUME LoopInv, SetLinkPowerState
    PROVE  LoopInv'
<1> USE ThreadsAssumption
    DEF LoopInv, LoopTyped, LockIsTrue, ThreadsAreTrue, PowerThreadIsApart, SourcesAreKnown,
        TokenIsTrue, HasLock, Waits, AThread, Reasons, Ordinals, LoopRisks, Away, MayLock,
        SetLinkPowerState, PowerIs
<1>1. LoopTyped'  OBVIOUS
<1>2. LockIsTrue'  OBVIOUS
<1>3. ThreadsAreTrue'  OBVIOUS
<1>4. PowerThreadIsApart'  OBVIOUS
<1>5. SourcesAreKnown'  OBVIOUS
<1>6. TokenIsTrue'  OBVIOUS
<1>. QED  BY <1>1, <1>2, <1>3, <1>4, <1>5, <1>6

(* Every step of the loop keeps the invariant                              *)
LEMMA LoopStepKeepsLoop ==
    ASSUME LoopInv, [LoopNext]_loopVars
    PROVE  LoopInv'
<1>1. CASE UNCHANGED loopVars
  BY <1>1 DEF loopVars, LoopInv, LoopTyped, LockIsTrue, ThreadsAreTrue, PowerThreadIsApart,
              SourcesAreKnown, TokenIsTrue, HasLock, Waits
<1>2. CASE SetLinkPowerState
  BY <1>2, SetLinkPowerStateKeepsLoop
<1>3. CASE \E ordinal \in Ordinals : setPowerState(ordinal)
  BY <1>3, ThreadsAssumption, setPowerStateKeepsLoop
<1>4. CASE \E t \in LoopThreads :
              Enter(t) \/ tryCloseGate(t) \/ openGate(t) \/ SleepIsOver(t) \/ Aborted(t)
  BY <1>4, EnterKeepsLoop, tryCloseGateKeepsLoop, openGateKeepsLoop, SleepIsOverKeepsLoop,
     AbortedKeepsLoop
<1>5. CASE \E t \in LoopThreads :
              \/ SleepsOn(t) \/ (\E s \in EventSources : removeEventSource(t, s))
              \/ RunRemoval(t) \/ ReleaseSource(t) \/ Stop(t) \/ stop(t)
  BY <1>5, SleepsOnKeepsLoop, removeEventSourceKeepsLoop, RunRemovalKeepsLoop,
     ReleaseSourceKeepsLoop, ComesToStopKeepsLoop, stopKeepsLoop
<1>. QED  BY <1>1, <1>2, <1>3, <1>4, <1>5 DEF LoopNext

(* The gate of the work loop, for any number of threads and event sources: *)
(* the thread of power management never waits at it, nobody is inside while *)
(* the machine sleeps but to remove a source, nobody waits for a token that *)
(* is not there, and what is removed asleep is freed awake, and only then   *)
THEOREM GateIsKeptAlways == LoopSpec => []GateIsKept
<1>1. LoopInit => LoopInv
  <2> SUFFICES ASSUME LoopInit PROVE LoopInv
    OBVIOUS
  <2>1. /\ caller \in [LoopThreads -> AThread]
        /\ \A t \in LoopThreads : /\ caller[t].pc = "out" /\ caller[t].why = "none"
                                  /\ caller[t].held = FALSE /\ caller[t].source = Nobody
    BY DEF LoopInit, Away, AThread
  <2>2. LoopTyped
    BY <2>1, ThreadsAssumption DEF LoopInit, LoopTyped, LoopRisks
  <2>3. LockIsTrue /\ ThreadsAreTrue /\ PowerThreadIsApart /\ SourcesAreKnown /\ TokenIsTrue
    BY <2>1, ThreadsAssumption
       DEF LoopInit, LockIsTrue, ThreadsAreTrue, PowerThreadIsApart, SourcesAreKnown,
           TokenIsTrue, HasLock, Waits, Ordinals
  <2>. QED  BY <2>2, <2>3 DEF LoopInv
<1>2. LoopInv /\ [LoopNext]_loopVars => LoopInv'
  BY LoopStepKeepsLoop
<1>3. LoopInv => GateIsKept
  <2> SUFFICES ASSUME LoopInv PROVE GateIsKept
    OBVIOUS
  <2> USE ThreadsAssumption
      DEF LoopInv, LoopTyped, LockIsTrue, ThreadsAreTrue, PowerThreadIsApart, SourcesAreKnown,
          TokenIsTrue, HasLock, Waits, AThread
  <2>1. PowerThreadNeverSleeps  BY DEF PowerThreadNeverSleeps
  <2>2. NobodyRunsAsleep  BY DEF NobodyRunsAsleep
  <2>3. NobodyWaitsForNothing  BY DEF NobodyWaitsForNothing
  <2>4. SourcesAreFreedAwake  BY DEF SourcesAreFreedAwake
  <2>5. LoopTypeOK  BY DEF LoopTypeOK
  <2>. QED  BY <2>1, <2>2, <2>3, <2>4, <2>5 DEF GateIsKept
<1>. QED  BY <1>1, <1>2, <1>3, PTL DEF LoopSpec

=============================================================================
