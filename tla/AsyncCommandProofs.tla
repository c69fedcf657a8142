------------------------- MODULE AsyncCommandProofs -------------------------
(***************************************************************************)
(* Proofs about AsyncCommand, for any commands, devices, labels, retries,  *)
(* packets and number of resets: the table of labels, the queues and the   *)
(* statuses agree, every submission is answered once and truthfully, no    *)
(* request of an old bus stays out, and what leaves the after-reset-       *)
(* handled queue unserved.                                                 *)
(***************************************************************************)
EXTENDS AsyncCommand, TLAPS

(* The records the handlers work on.                                       *)
States ==
    [cmd : [Commands -> CommandRecords],
     fTrans : [Labels -> Commands \cup {NoCommand}],
     fAfterResetHandledQ : SUBSET Commands]

(* What holds of a command between handlers.                               *)
Served(r) ==
    /\ r.fStatus = "kIOReturnBusy" <=> r.fQueue = "timeoutQ"
    /\ r.fStatus = "kIOReturnBusy" <=> r.fTrans # NoLabel
    /\ r.fStatus = "kIOFireWirePending" <=>
           r.fQueue \in {"pendingQ", "afterResetHandledQ"}

Honest(c, r) ==
    /\ Waiting(r) => r.calls = 0 /\ ~r.nestedFailed /\ r.fSize > 0
    /\ ~Waiting(r) => /\ r.calls \in 1..3
                      /\ c \notin UserCommands =>
                            r.calls = IF r.nestedFailed THEN 2 ELSE 1
    /\ r.fStatus = "kIOReturnSuccess" => r.fSize = 0
    /\ r.fSize = 0 => r.fStatus = "kIOReturnSuccess" \/ r.calls > 1
    /\ r.fTrans # NoLabel => r.current
    /\ r.fStatus = "kIOFireWireBusReset" => r.fFailOnReset \/ r.tooOld

Settled(c, r) ==
    /\ r \in CommandRecords /\ r.fSize <= MaxPackets[c]
    /\ Served(r) /\ Honest(c, r)

(* What holds of a command that a handler has taken off its queue to       *)
(* execute it: it is to be answered, and has something to transfer.        *)
Ready(c, r) ==
    /\ r \in CommandRecords /\ r.fSize <= MaxPackets[c]
    /\ r.fSize > 0 /\ r.calls = 0 /\ ~r.nestedFailed

Owned(s, c) == \A l \in Labels : s.fTrans[l] = c <=> s.cmd[c].fTrans = l
Disowned(s, c) == \A l \in Labels : s.fTrans[l] # c

(* What holds of a record in a handler that has taken the commands Q off   *)
(* their queues while the commands K are about to be cancelled.            *)
Good(s, Q, K) ==
    /\ s \in States
    /\ \A c \in Commands \ Q : Settled(c, s.cmd[c]) /\ Owned(s, c)
    /\ \A c \in Q : Ready(c, s.cmd[c]) /\ Disowned(s, c)
    /\ \A c \in s.fAfterResetHandledQ :
          c \notin Q /\ s.cmd[c].fQueue = "afterResetHandledQ"
    /\ \A c \in K : s.cmd[c].calls <= 2

(* The invariant: a command about to be cancelled has been answered at     *)
(* most twice, so that the cancellation is its third answer at most.       *)
Inv ==
    /\ Good(Now, {}, cancelling)
    /\ resumed \subseteq Devices
    /\ busPhase \in Phases
    /\ unscanned \in BOOLEAN
    /\ cancelling \subseteq UserCommands
    /\ trouble \in 0..MaxTrouble
    /\ fQueueNext \in [Commands -> Commands \cup {NoCommand}]
    /\ strayHead \in BOOLEAN

-----------------------------------------------------------------------------
LEMMA Constants ==
    /\ NoLabel \notin Labels /\ NoCommand \notin Commands
    /\ fMaxRetries \in Nat /\ MaxTrouble \in Nat
    /\ \A c \in Commands : MaxPackets[c] \in Nat /\ MaxPackets[c] > 0
BY CommandsAssumption, CountsAssumption DEF CommandsAssumption, CountsAssumption

(* A command that was ready or waiting is done once it is answered.        *)
LEMMA AnsweredFacts ==
    ASSUME NEW r \in CommandRecords, r.calls <= 2, NEW result \in Results
    PROVE  LET a == Answered(r, result)
           IN  /\ a \in CommandRecords
               /\ a.fStatus = result /\ a.fQueue = "none" /\ a.fTrans = NoLabel
               /\ a.calls = r.calls + 1 /\ a.nestedFailed = r.nestedFailed
               /\ a.fSize = r.fSize /\ a.tooOld = r.tooOld
               /\ a.fFailOnReset = r.fFailOnReset
               /\ Served(a) /\ ~Waiting(a)
<1> DEFINE a == Answered(r, result)
           left == [r EXCEPT !.fStatus = result, !.fQueue = "none",
                             !.fTrans = NoLabel]
           forgot == [left EXCEPT !.fCurRetries = fMaxRetries,
                                  !.smallPackets = FALSE, !.current = FALSE]
<1>1. r.calls + 1 \in 0..3
  BY DEF CommandRecords
<1>2. /\ left \in CommandRecords
      /\ left.fStatus = result /\ left.fQueue = "none" /\ left.fTrans = NoLabel
      /\ left.calls = r.calls /\ left.nestedFailed = r.nestedFailed
      /\ left.fSize = r.fSize /\ left.tooOld = r.tooOld
      /\ left.fFailOnReset = r.fFailOnReset
  BY DEF CommandRecords, Statuses
<1>3. a = [forgot EXCEPT !.calls = r.calls + 1]
  BY DEF Answered, CommandRecords
<1> HIDE DEF left
<1>4. fMaxRetries \in 0..fMaxRetries
  BY Constants
<1>5. /\ forgot \in CommandRecords
      /\ forgot.fStatus = result /\ forgot.fQueue = "none"
      /\ forgot.fTrans = NoLabel /\ forgot.nestedFailed = r.nestedFailed
      /\ forgot.fSize = r.fSize /\ forgot.tooOld = r.tooOld
      /\ forgot.fFailOnReset = r.fFailOnReset
  BY <1>2, <1>4 DEF CommandRecords
<1> HIDE DEF forgot
<1>6. /\ a \in CommandRecords
      /\ a.fStatus = result /\ a.fQueue = "none" /\ a.fTrans = NoLabel
      /\ a.calls = r.calls + 1 /\ a.nestedFailed = r.nestedFailed
      /\ a.fSize = r.fSize /\ a.tooOld = r.tooOld
      /\ a.fFailOnReset = r.fFailOnReset
  BY <1>1, <1>3, <1>5 DEF CommandRecords
<1>7. result \notin {"kIOReturnBusy", "kIOFireWirePending"}
  BY DEF Results
<1>8. QED
  BY <1>6, <1>7 DEF Served, Waiting

(* What holds of a command that is done with.                              *)
Over(c, r) == Settled(c, r) /\ ~Waiting(r) /\ r.fTrans = NoLabel
              /\ r.fQueue = "none" /\ r.calls \in 1..2

LEMMA AnsweredSettled ==
    ASSUME NEW c \in Commands, NEW r, Ready(c, r), NEW result \in Results,
           result # "kIOReturnSuccess",
           result = "kIOFireWireBusReset" => r.fFailOnReset \/ r.tooOld
    PROVE  Over(c, Answered(r, result)) /\ Answered(r, result).calls = 1
<1>1. /\ r \in CommandRecords /\ r.calls = 0 /\ r.fSize \in Nat /\ r.fSize > 0
      /\ ~r.nestedFailed /\ r.fSize <= MaxPackets[c]
  BY DEF Ready, CommandRecords
<1> DEFINE a == Answered(r, result)
<1>2. /\ a \in CommandRecords
      /\ a.fStatus = result /\ a.fQueue = "none" /\ a.fTrans = NoLabel
      /\ a.calls = 1 /\ ~a.nestedFailed
      /\ a.fSize = r.fSize /\ a.tooOld = r.tooOld
      /\ a.fFailOnReset = r.fFailOnReset
      /\ Served(a) /\ ~Waiting(a)
  BY <1>1, AnsweredFacts
<1> HIDE DEF a
<1>3. QED
  BY <1>1, <1>2 DEF Over, Settled, Honest, a

(* So is one that is ended by a bus reset, or it is queued again.          *)
LEMMA EndedByResetSettled ==
    ASSUME NEW c \in Commands, NEW r, Ready(c, r), NEW phase
    PROVE  LET e == EndedByReset(r, phase)
           IN  /\ Settled(c, e) /\ e.fTrans = NoLabel /\ e.calls <= 1
               /\ ~Waiting(e) => Over(c, e) /\ e.calls = 1
               /\ e.nestedFailed = FALSE
               /\ e.fQueue = "afterResetHandledQ" =>
                     ~r.fFailOnReset /\ scanningBus(phase)
<1>1. r \in CommandRecords /\ r.calls = 0 /\ ~r.nestedFailed
  BY DEF Ready
<1>2. ASSUME NEW result \in Results, result # "kIOReturnSuccess",
             result = "kIOFireWireBusReset" => r.fFailOnReset \/ r.tooOld,
             EndedByReset(r, phase) = Answered(r, result)
      PROVE  LET e == EndedByReset(r, phase)
             IN  /\ Settled(c, e) /\ e.fTrans = NoLabel /\ e.calls <= 1
                 /\ ~Waiting(e) => Over(c, e) /\ e.calls = 1
                 /\ e.nestedFailed = FALSE
                 /\ e.fQueue # "afterResetHandledQ"
  <2> DEFINE a == Answered(r, result)
  <2>1. Over(c, a) /\ a.calls = 1
    BY <1>2, AnsweredSettled
  <2>2. a.nestedFailed = FALSE
    BY <1>1, AnsweredFacts DEF CommandRecords
  <2> HIDE DEF a
  <2>3. QED
    BY <1>2, <2>1, <2>2 DEF Over, a
<1>3. CASE r.fFailOnReset \/ r.tooOld
  <2>1. EndedByReset(r, phase) = Answered(r, "kIOFireWireBusReset")
    BY <1>3 DEF EndedByReset
  <2>2. QED
    BY <1>2, <1>3, <2>1 DEF Results
<1>4. CASE ~r.fFailOnReset /\ ~r.tooOld /\ scanningBus(phase)
  <2>1. EndedByReset(r, phase) = Requeued(r)
    BY <1>4 DEF EndedByReset
  <2>2. /\ Requeued(r) \in CommandRecords
        /\ Requeued(r).fStatus = "kIOFireWirePending"
        /\ Requeued(r).fQueue = "afterResetHandledQ"
        /\ Requeued(r).fTrans = NoLabel
        /\ Requeued(r).fSize = r.fSize /\ Requeued(r).calls = r.calls
        /\ Requeued(r).nestedFailed = r.nestedFailed
    BY <1>1 DEF Requeued, CommandRecords, Statuses
  <2>3. r.fSize \in Nat /\ r.fSize > 0 /\ r.fSize <= MaxPackets[c]
    BY DEF Ready, CommandRecords
  <2> DEFINE q == Requeued(r)
  <2> HIDE DEF q
  <2>4. /\ q \in CommandRecords /\ q.fStatus = "kIOFireWirePending"
        /\ q.fQueue = "afterResetHandledQ" /\ q.fTrans = NoLabel
        /\ q.fSize = r.fSize /\ q.calls = 0 /\ ~q.nestedFailed
        /\ q.nestedFailed = FALSE
    BY <1>1, <2>2 DEF q, CommandRecords
  <2>5. Settled(c, q) /\ Waiting(q)
    BY <2>3, <2>4 DEF Settled, Served, Honest, Waiting
  <2>6. QED
    BY <1>4, <2>1, <2>4, <2>5 DEF q
<1>5. CASE ~r.fFailOnReset /\ ~r.tooOld /\ ~scanningBus(phase)
  <2>1. EndedByReset(r, phase) = Answered(r, "kIOReturnOffline")
    BY <1>5 DEF EndedByReset
  <2>2. QED
    BY <1>2, <2>1 DEF Results
<1>6. QED
  BY <1>3, <1>4, <1>5

(* The last packet.                                                        *)
LEMMA LastPacket ==
    ASSUME NEW c \in Commands, NEW r \in CommandRecords, r.fSize = 0,
           r.calls = 0, ~r.nestedFailed
    PROVE  LET a == Answered(r, "kIOReturnSuccess")
           IN  Over(c, a) /\ a.calls = 1
<1> DEFINE a == Answered(r, "kIOReturnSuccess")
<1>1. /\ a \in CommandRecords /\ a.fStatus = "kIOReturnSuccess"
      /\ a.fTrans = NoLabel /\ a.fQueue = "none" /\ a.calls = 1 /\ a.fSize = 0
      /\ ~a.nestedFailed
      /\ Served(a) /\ ~Waiting(a)
  BY AnsweredFacts DEF Results
<1> HIDE DEF a
<1>2. QED
  BY <1>1, Constants DEF Over, Settled, Honest, a

(* Packets that follow a response, inside a completion or not.             *)
LEMMA NextPacketReady ==
    ASSUME NEW c \in Commands, NEW r, Ready(c, r), NEW next \in NextPacket(c, r)
    PROVE  Ready(c, next) /\ next.fTrans = r.fTrans /\ next.fQueue = r.fQueue
<1>1. /\ r \in CommandRecords /\ r.fSize \in Nat /\ r.fSize > 0
      /\ r.fSize <= MaxPackets[c] /\ r.calls = 0 /\ ~r.nestedFailed
      /\ fMaxRetries \in 0..fMaxRetries /\ MaxPackets[c] \in Nat
  BY Constants DEF Ready, CommandRecords
<1>2. CASE r.fSize > 1 /\ next = [r EXCEPT !.fSize = @ - 1, !.fCurRetries = fMaxRetries]
  <2>1. r.fSize - 1 \in Nat /\ r.fSize - 1 > 0 /\ r.fSize - 1 <= MaxPackets[c]
    BY <1>1, <1>2
  <2>2. /\ next \in CommandRecords /\ next.fSize = r.fSize - 1
        /\ next.calls = 0 /\ ~next.nestedFailed
        /\ next.fTrans = r.fTrans /\ next.fQueue = r.fQueue
    BY <1>1, <1>2, <2>1 DEF CommandRecords
  <2>3. QED
    BY <2>1, <2>2 DEF Ready
<1>3. CASE next = [r EXCEPT !.smallPackets = TRUE, !.fCurRetries = fMaxRetries]
  <2>1. /\ next \in CommandRecords /\ next.fSize = r.fSize
        /\ next.calls = 0 /\ ~next.nestedFailed
        /\ next.fTrans = r.fTrans /\ next.fQueue = r.fQueue
    BY <1>1, <1>3 DEF CommandRecords
  <2>2. QED
    BY <1>1, <2>1 DEF Ready
<1>4. QED
  BY <1>2, <1>3 DEF NextPacket

LEMMA ResponseOver ==
    ASSUME NEW c \in Commands, NEW r, Ready(c, r), NEW done \in Response(r)
    PROVE  Over(c, done)
<1>1. r \in CommandRecords /\ r.calls = 0 /\ ~r.nestedFailed
  BY DEF Ready
<1>2. CASE done = Answered(r, "error")
  BY <1>2, AnsweredSettled DEF Results
<1>3. CASE done # Answered(r, "error")
  <2> DEFINE last == [r EXCEPT !.fSize = 0]
  <2>1. done = Answered(last, "kIOReturnSuccess")
    BY <1>3 DEF Response
  <2>2. last \in CommandRecords /\ last.fSize = 0 /\ last.calls = 0 /\ ~last.nestedFailed
    BY <1>1 DEF CommandRecords
  <2> HIDE DEF last
  <2>3. QED
    BY <2>1, <2>2, LastPacket
<1>4. QED
  BY <1>2, <1>3

(* A command that is completed again has been answered twice.              *)
LEMMA CompletedTwiceOver ==
    ASSUME NEW c \in Commands, NEW r, Over(c, r), r.calls = 1
    PROVE  Over(c, CompletedTwice(r))
<1> DEFINE t == CompletedTwice(r)
<1>1. /\ r \in CommandRecords /\ r.fSize <= MaxPackets[c] /\ Served(r)
      /\ Honest(c, r) /\ ~Waiting(r) /\ r.fTrans = NoLabel /\ r.fQueue = "none"
  BY DEF Over, Settled
<1>a. r.calls + 1 = 2 /\ 2 \in 0..3
  BY <1>1
<1>b. t = [r EXCEPT !.calls = 2, !.nestedFailed = TRUE]
  BY <1>1, <1>a DEF CompletedTwice, CommandRecords
<1>2. /\ t \in CommandRecords /\ t.calls = 2 /\ t.nestedFailed
      /\ t.fStatus = r.fStatus /\ t.fQueue = r.fQueue /\ t.fTrans = r.fTrans
      /\ t.fSize = r.fSize /\ t.tooOld = r.tooOld /\ t.current = r.current
      /\ t.fFailOnReset = r.fFailOnReset
  BY <1>1, <1>a, <1>b DEF CommandRecords
<1> HIDE DEF t
<1>3. Served(t) /\ ~Waiting(t)
  BY <1>1, <1>2 DEF Served, Waiting
<1>4. Honest(c, t)
  BY <1>1, <1>2, <1>3 DEF Honest
<1>5. QED
  BY <1>1, <1>2, <1>3, <1>4 DEF Over, Settled, t

LEMMA LateAnswersOver ==
    ASSUME NEW c \in Commands, NEW r, Ready(c, r), NEW done \in LateAnswers(c, r)
    PROVE  Over(c, done)
<1>1. CASE done \in Response(r)
  BY <1>1, ResponseOver
<1>2. ASSUME NEW next \in NextPacket(c, r),
             done = CompletedTwice(Answered(next, "error"))
      PROVE  Over(c, done)
  <2>1. Ready(c, next)
    BY NextPacketReady
  <2>2. Over(c, Answered(next, "error")) /\ Answered(next, "error").calls = 1
    BY <2>1, AnsweredSettled DEF Results
  <2>3. QED
    BY <1>2, <2>2, CompletedTwiceOver
<1>3. QED
  BY <1>1, <1>2 DEF LateAnswers

LEMMA GoesOnReady ==
    ASSUME NEW c \in Commands, NEW r, Ready(c, r), NEW next \in GoesOn(c, r)
    PROVE  Ready(c, next)
BY NextPacketReady DEF GoesOn

(* What suspendBus leaves of a command that had a label.                   *)
LEMMA SuspendedSettled ==
    ASSUME NEW c \in Commands, NEW r, Ready(c, r), NEW ended \in Suspended(c, r)
    PROVE  Settled(c, ended) /\ ended.fTrans = NoLabel /\ ended.calls <= 2
<1>1. CASE ended = EndedByReset(r, "kWaitingSelfIDs")
  <2> DEFINE e == EndedByReset(r, "kWaitingSelfIDs")
  <2>1. Settled(c, e) /\ e.fTrans = NoLabel /\ e.calls <= 1
    BY EndedByResetSettled
  <2> HIDE DEF e
  <2>2. e.calls \in Nat
    BY <2>1 DEF Settled, CommandRecords
  <2>3. QED
    BY <1>1, <2>1, <2>2 DEF e
<1>2. CASE ended \in Response(r)
  BY <1>2, ResponseOver DEF Over
<1>3. ASSUME NEW next \in NextPacket(c, r), ended = RefusedTwice(next)
      PROVE  Settled(c, ended) /\ ended.fTrans = NoLabel /\ ended.calls <= 2
  <2> DEFINE e == EndedByReset(next, "kWaitingSelfIDs")
  <2>1. Ready(c, next)
    BY NextPacketReady
  <2>2. /\ Settled(c, e) /\ e.fTrans = NoLabel /\ e.calls <= 1
        /\ ~Waiting(e) => Over(c, e) /\ e.calls = 1
    BY <2>1, EndedByResetSettled
  <2>3. ended = IF Waiting(e) THEN e ELSE CompletedTwice(e)
    BY <1>3 DEF RefusedTwice
  <2> HIDE DEF e
  <2>4. CASE Waiting(e)
    <3>1. e.calls \in Nat
      BY <2>2 DEF Settled, CommandRecords
    <3>2. QED
      BY <2>2, <2>3, <2>4, <3>1
  <2>5. CASE ~Waiting(e)
    BY <2>2, <2>3, <2>5, CompletedTwiceOver DEF Over
  <2>6. QED
    BY <2>4, <2>5
<1>4. QED
  BY <1>1, <1>2, <1>3 DEF Suspended

LEMMA CurrentType ==
    ASSUME NEW c, NEW r \in CommandRecords
    PROVE  Current(c, r) \in BOOLEAN
<1>1. r.current \in BOOLEAN
  BY DEF CommandRecords
<1>2. CASE r.fFailOnReset
  BY <1>1, <1>2 DEF Current
<1>3. CASE ~r.fFailOnReset
  BY <1>3 DEF Current
<1>4. QED
  BY <1>2, <1>3

(* A command that is executed is settled: it waits with its label and its  *)
(* deadline, or for the end of the scan, or it has been answered.          *)
LEMMA ExecutedSettled ==
    ASSUME NEW c \in Commands, NEW r, Ready(c, r), NEW fate \in Fates,
           NEW label \in Labels \cup {NoLabel}, NEW phase,
           fate = "sent" <=> label # NoLabel,
           fate = "sent" => Current(c, r)
    PROVE  LET e == Executed(c, r, fate, label, phase)
           IN  Settled(c, e) /\ e.fTrans = label /\ e.calls <= 2
<1> DEFINE e == Executed(c, r, fate, label, phase)
           t == Started(c, r)
<1>1. r \in CommandRecords /\ r.calls = 0 /\ r.fSize \in Nat /\ r.fSize > 0
      /\ r.fSize <= MaxPackets[c] /\ ~r.nestedFailed
  BY DEF Ready, CommandRecords
<1>2. Current(c, r) \in BOOLEAN
  BY <1>1, CurrentType
<1>3. /\ t \in CommandRecords
      /\ t.fStatus = "kIOReturnBusy" /\ t.fQueue = "timeoutQ"
      /\ t.current = Current(c, r)
      /\ t.fSize = r.fSize /\ t.calls = 0 /\ ~t.nestedFailed
  BY <1>1, <1>2 DEF Started, CommandRecords, Statuses
<1>4. Ready(c, t)
  BY <1>1, <1>3 DEF Ready
<1> HIDE DEF t
<1>5. \A x : Over(c, x) => Settled(c, x) /\ x.fTrans = NoLabel /\ x.calls <= 2
  BY DEF Over
<1>6. CASE fate = "sent"
  <2>1. e = Sent(t, label)
    BY <1>6 DEF Executed, t
  <2>2. /\ Sent(t, label) \in CommandRecords
        /\ Sent(t, label).fStatus = "kIOReturnBusy"
        /\ Sent(t, label).fQueue = "timeoutQ"
        /\ Sent(t, label).fTrans = label
        /\ Sent(t, label).current
        /\ Sent(t, label).fSize = r.fSize /\ Sent(t, label).calls = 0
        /\ ~Sent(t, label).nestedFailed
    BY <1>3, <1>6 DEF Sent, CommandRecords
  <2>3. label # NoLabel
    BY <1>6
  <2>4. QED
    BY <1>1, <2>1, <2>2, <2>3 DEF Settled, Served, Honest, Waiting
<1>7. CASE fate = "answered"
  <2> DEFINE u == [t EXCEPT !.fSize = 0]
  <2>1. u \in CommandRecords /\ u.fSize = 0 /\ u.calls = 0 /\ ~u.nestedFailed
    BY <1>3 DEF CommandRecords
  <2>2. e = Answered(u, "kIOReturnSuccess")
    BY <1>7 DEF Executed, t
  <2> HIDE DEF u
  <2>3. QED
    BY <1>5, <1>7, <2>1, <2>2, LastPacket
<1>8. CASE fate = "refused"
  <2> DEFINE g == EndedByReset(t, phase)
  <2>1. Settled(c, g) /\ g.fTrans = NoLabel /\ g.calls <= 1
    BY <1>4, EndedByResetSettled
  <2>2. e = g
    BY <1>8 DEF Executed, t
  <2> HIDE DEF g
  <2>3. g.calls \in Nat
    BY <2>1 DEF Settled, CommandRecords
  <2>4. QED
    BY <1>8, <2>1, <2>2, <2>3
<1>9. CASE fate = "failed"
  <2>1. e = Answered(t, "error")
    BY <1>9 DEF Executed, t
  <2>2. QED
    BY <1>4, <1>5, <1>9, <2>1, AnsweredSettled DEF Results
<1>10. CASE fate = "noLabel"
  <2>1. e = Answered(t, "kIOFireWireOutOfTLabels")
    BY <1>10 DEF Executed, t
  <2>2. QED
    BY <1>4, <1>5, <1>10, <2>1, AnsweredSettled DEF Results
<1>11. QED
  BY <1>6, <1>7, <1>8, <1>9, <1>10 DEF Fates

(* Only a command that outlasts resets and whose device has not been found *)
(* is queued again.                                                        *)
LEMMA ExecutedQueuedAgain ==
    ASSUME NEW c \in Commands, NEW r, Ready(c, r), NEW fate \in Fates,
           NEW label \in Labels \cup {NoLabel}, NEW phase,
           Executed(c, r, fate, label, phase).fQueue = "afterResetHandledQ"
    PROVE  fate = "refused" /\ ~r.fFailOnReset /\ scanningBus(phase)
<1> DEFINE t == Started(c, r)
<1>1. r \in CommandRecords /\ r.calls = 0 /\ ~r.nestedFailed
      /\ r.fSize \in Nat /\ r.fSize > 0 /\ r.fSize <= MaxPackets[c]
  BY DEF Ready, CommandRecords
<1>2. Current(c, r) \in BOOLEAN
  BY <1>1, CurrentType
<1>3. t \in CommandRecords /\ t.fQueue = "timeoutQ" /\ t.calls = 0
      /\ t.fFailOnReset = r.fFailOnReset /\ t.fSize = r.fSize /\ ~t.nestedFailed
  BY <1>1, <1>2 DEF Started, CommandRecords, Statuses
<1>4. \A a \in CommandRecords, res \in Results :
         a.calls = 0 => Answered(a, res).fQueue = "none"
  BY AnsweredFacts
<1>5. [t EXCEPT !.fSize = 0] \in CommandRecords /\ [t EXCEPT !.fSize = 0].calls = 0
  BY <1>3 DEF CommandRecords
<1>6. Ready(c, t)
  BY <1>1, <1>3 DEF Ready
<1> HIDE DEF t
<1>7. fate # "sent"
  <2>1. Sent(t, label).fQueue = "timeoutQ"
    BY <1>3 DEF Sent, CommandRecords
  <2>2. QED
    BY <2>1 DEF Executed, t
<1>8. fate \notin {"answered", "failed", "noLabel"}
  BY <1>3, <1>4, <1>5 DEF Executed, t, Results
<1>9. fate = "refused"
  BY <1>7, <1>8 DEF Fates
<1>10. Executed(c, r, fate, label, phase) = EndedByReset(t, phase)
  BY <1>9 DEF Executed, t
<1>11. QED
  BY <1>3, <1>6, <1>9, <1>10, EndedByResetSettled

-----------------------------------------------------------------------------
(* startExecution of the commands a handler has taken off their queues     *)
(* leaves all commands settled and the labels with their owners.           *)
LEMMA GoodAfterwards ==
    ASSUME NEW s \in States, NEW K,
           \A c \in Commands : Settled(c, s.cmd[c]) /\ Owned(s, c),
           \A c \in s.fAfterResetHandledQ : s.cmd[c].fQueue = "afterResetHandledQ",
           \A c \in K : s.cmd[c].calls <= 2
    PROVE  Good(s, {}, K)
BY DEF Good

LEMMA ExecuteGood ==
    ASSUME NEW Q \in SUBSET Commands, NEW K \in SUBSET Commands, NEW s, Good(s, Q, K),
           NEW fate \in [Q -> Fates], NEW label \in Assignments(Q), NEW phase,
           MayExecute(s, Q, fate, label)
    PROVE  Good(Execute(s, Q, fate, label, phase), {}, K)
<1> DEFINE e == Execute(s, Q, fate, label, phase)
           cmds == [c \in Commands |->
                       IF c \in Q
                       THEN Executed(c, s.cmd[c], fate[c], label[c], phase)
                       ELSE s.cmd[c]]
           table == [l \in Labels |->
                        IF \E c \in Q : label[c] = l
                        THEN CHOOSE c \in Q : label[c] = l
                        ELSE s.fTrans[l]]
           queue == s.fAfterResetHandledQ
                       \cup {c \in Q : cmds[c].fQueue = "afterResetHandledQ"}
<1>1. e.cmd = cmds /\ e.fTrans = table /\ e.fAfterResetHandledQ = queue
      /\ e = [cmd |-> cmds, fTrans |-> table, fAfterResetHandledQ |-> queue]
  BY DEF Execute
<1>2. /\ s \in States /\ s.cmd \in [Commands -> CommandRecords]
      /\ s.fTrans \in [Labels -> Commands \cup {NoCommand}]
      /\ s.fAfterResetHandledQ \subseteq Commands
  BY DEF Good, States
<1>3. \A c \in Q : /\ Ready(c, s.cmd[c]) /\ Disowned(s, c)
                   /\ fate[c] \in Fates /\ label[c] \in Labels \cup {NoLabel}
                   /\ fate[c] = "sent" <=> label[c] # NoLabel
                   /\ fate[c] = "sent" => Current(c, s.cmd[c])
  BY DEF Good, Assignments, MayExecute
<1>4. \A c \in Q : /\ Settled(c, cmds[c]) /\ cmds[c].fTrans = label[c]
                   /\ cmds[c].calls <= 2
  BY <1>3, ExecutedSettled
<1>5. \A c \in Commands \ Q : cmds[c] = s.cmd[c] /\ Settled(c, cmds[c]) /\ Owned(s, c)
  BY DEF Good
<1> HIDE DEF cmds
<1>6. \A c \in Commands : Settled(c, cmds[c])
  BY <1>4, <1>5
<1>7. cmds \in [Commands -> CommandRecords]
  BY <1>6 DEF cmds, Settled
<1>8. \A l \in Labels :
         \/ \E c \in Q : label[c] = l /\ table[l] = c /\ s.fTrans[l] = NoCommand
         \/ (\A c \in Q : label[c] # l) /\ table[l] = s.fTrans[l]
  <2> TAKE l \in Labels
  <2>1. CASE \E c \in Q : label[c] = l
    <3>1. PICK c \in Q : label[c] = l /\ table[l] = c
      BY <2>1
    <3>2. l \in FreeLabels(s)
      BY <3>1, Constants DEF MayExecute
    <3>3. QED
      BY <3>1, <3>2 DEF FreeLabels
  <2>2. CASE \A c \in Q : label[c] # l
    BY <2>2
  <2>3. QED
    BY <2>1, <2>2
<1>9. table \in [Labels -> Commands \cup {NoCommand}]
  <2>1. \A l \in Labels : table[l] \in Commands \cup {NoCommand}
    BY <1>2, <1>8
  <2>2. QED
    BY <2>1
<1>10. \A c \in Commands : Owned(e, c)
  <2> SUFFICES ASSUME NEW c \in Commands, NEW l \in Labels
               PROVE  table[l] = c <=> cmds[c].fTrans = l
    BY <1>1 DEF Owned
  <2>1. CASE c \in Q
    <3>1. cmds[c].fTrans = label[c] /\ s.fTrans[l] # c
      BY <1>3, <1>4, <2>1 DEF Disowned
    <3>2. \A d \in Q : label[d] = l /\ label[c] = l => c = d
      BY <2>1, Constants DEF MayExecute
    <3>3. QED
      BY <1>8, <2>1, <3>1, <3>2
  <2>2. CASE c \notin Q
    <3>1. s.fTrans[l] = c <=> cmds[c].fTrans = l
      BY <1>5, <2>2 DEF Owned
    <3>2. c # NoCommand
      BY Constants
    <3>3. QED
      BY <1>8, <2>2, <3>1, <3>2
  <2>3. QED
    BY <2>1, <2>2
<1>11. \A c \in e.fAfterResetHandledQ : e.cmd[c].fQueue = "afterResetHandledQ"
  BY <1>1, <1>2, <1>5 DEF Good
<1>12. \A c \in K : e.cmd[c].calls <= 2
  BY <1>1, <1>4, <1>5 DEF Good
<1> HIDE DEF table, queue
<1>13. queue \subseteq Commands
  BY <1>2 DEF queue
<1>14. e \in States
  BY <1>1, <1>7, <1>9, <1>13 DEF States
<1> HIDE DEF e
<1>15. \A c \in Commands : Settled(c, e.cmd[c])
  BY <1>1, <1>6
<1>16. Good(e, {}, K)
  BY <1>10, <1>11, <1>12, <1>14, <1>15, GoodAfterwards
<1>17. QED
  BY <1>16 DEF e

(* Taking one command off its queue: it is about to be executed, or it has *)
(* been answered, or it waits on the pending queue.                        *)
LEMMA PutFacts ==
    ASSUME NEW c \in Commands, NEW K, NEW s, Good(s, {}, K), NEW r \in CommandRecords
    PROVE  LET p == Put(s, c, r)
           IN  /\ p \in States
               /\ p.cmd[c] = r /\ Disowned(p, c)
               /\ \A d \in Commands \ {c} : p.cmd[d] = s.cmd[d] /\ Owned(p, d)
               /\ p.fAfterResetHandledQ = s.fAfterResetHandledQ \ {c}
<1> DEFINE p == Put(s, c, r)
<1>1. /\ s.cmd \in [Commands -> CommandRecords]
      /\ s.fTrans \in [Labels -> Commands \cup {NoCommand}]
      /\ s.fAfterResetHandledQ \subseteq Commands
  BY DEF Good, States
<1>2. /\ p = [cmd |-> p.cmd, fTrans |-> p.fTrans,
               fAfterResetHandledQ |-> p.fAfterResetHandledQ]
      /\ p.cmd = [s.cmd EXCEPT ![c] = r]
      /\ p.fTrans = WithoutLabel(s.fTrans, {c})
      /\ p.fAfterResetHandledQ = s.fAfterResetHandledQ \ {c}
  BY DEF Put
<1>3. /\ p.cmd \in [Commands -> CommandRecords] /\ p.cmd[c] = r
      /\ \A d \in Commands \ {c} : p.cmd[d] = s.cmd[d]
  BY <1>1, <1>2
<1>4. /\ p.fTrans \in [Labels -> Commands \cup {NoCommand}]
      /\ \A l \in Labels : p.fTrans[l] = IF s.fTrans[l] = c THEN NoCommand
                                                            ELSE s.fTrans[l]
  BY <1>1, <1>2 DEF WithoutLabel
<1>5. c # NoCommand /\ \A d \in Commands : d # NoCommand /\ Owned(s, d)
  BY Constants DEF Good
<1>6. Disowned(p, c)
  BY <1>4, <1>5 DEF Disowned
<1>7. \A d \in Commands \ {c} : Owned(p, d)
  BY <1>3, <1>4, <1>5 DEF Owned
<1>8. p \in States
  BY <1>1, <1>2, <1>3, <1>4 DEF States
<1>9. QED
  BY <1>2, <1>3, <1>6, <1>7, <1>8

LEMMA PutReady ==
    ASSUME NEW c \in Commands, NEW K \in SUBSET Commands, NEW s, Good(s, {}, K),
           NEW r, Ready(c, r)
    PROVE  Good(Put(s, c, r), {c}, K)
<1> DEFINE p == Put(s, c, r)
<1>1. r \in CommandRecords /\ r.calls = 0
  BY DEF Ready
<1>2. /\ p \in States
      /\ p.cmd[c] = r /\ Disowned(p, c)
      /\ \A d \in Commands \ {c} : p.cmd[d] = s.cmd[d] /\ Owned(p, d)
      /\ p.fAfterResetHandledQ = s.fAfterResetHandledQ \ {c}
  BY <1>1, PutFacts
<1> HIDE DEF p
<1>3. \A d \in p.fAfterResetHandledQ :
         d \notin {c} /\ p.cmd[d].fQueue = "afterResetHandledQ"
  BY <1>2 DEF Good, States
<1>4. \A d \in K : p.cmd[d].calls <= 2
  BY <1>1, <1>2 DEF Good
<1>5. \A d \in Commands \ {c} : Settled(d, p.cmd[d]) /\ Owned(p, d)
  BY <1>2 DEF Good
<1>6. Good(p, {c}, K)
  BY <1>2, <1>3, <1>4, <1>5 DEF Good
<1>7. QED
  BY <1>6 DEF p

LEMMA PutSettled ==
    ASSUME NEW c \in Commands, NEW K \in SUBSET Commands, NEW s, Good(s, {}, K),
           NEW r, Settled(c, r), r.fTrans = NoLabel, c \in K => r.calls <= 2
    PROVE  Good(Put(s, c, r), {}, K)
<1> DEFINE p == Put(s, c, r)
<1>1. r \in CommandRecords
  BY DEF Settled
<1>2. /\ p \in States
      /\ p.cmd[c] = r /\ Disowned(p, c)
      /\ \A d \in Commands \ {c} : p.cmd[d] = s.cmd[d] /\ Owned(p, d)
      /\ p.fAfterResetHandledQ = s.fAfterResetHandledQ \ {c}
  BY <1>1, PutFacts
<1> HIDE DEF p
<1>3. Owned(p, c)
  BY <1>2, Constants DEF Owned, Disowned
<1>4. \A d \in Commands : Settled(d, p.cmd[d]) /\ Owned(p, d)
  BY <1>2, <1>3 DEF Good
<1>5. \A d \in p.fAfterResetHandledQ : p.cmd[d].fQueue = "afterResetHandledQ"
  BY <1>2 DEF Good, States
<1>6. \A d \in K : p.cmd[d].calls <= 2
  BY <1>2 DEF Good
<1>7. Good(p, {}, K)
  BY <1>2, <1>4, <1>5, <1>6, GoodAfterwards
<1>8. QED
  BY <1>7 DEF p

(* A handler that executes one command.                                    *)
LEMMA RunsGood ==
    ASSUME NEW c \in Commands, NEW K \in SUBSET Commands, Good(Now, {}, K),
           NEW r, Ready(c, r), Runs(Put(Now, c, r), {c})
    PROVE  Good(Now', {}, K)
<1> DEFINE p == Put(Now, c, r)
<1>1. Good(p, {c}, K)
  BY PutReady
<1> HIDE DEF p
<1>2. PICK fate \in [{c} -> Fates], label \in Assignments({c}) :
         /\ MayExecute(p, {c}, fate, label)
         /\ Becomes(Execute(p, {c}, fate, label, busPhase))
  BY DEF Runs, p
<1>3. Good(Execute(p, {c}, fate, label, busPhase), {}, K)
  BY <1>1, <1>2, ExecuteGood
<1>4. Now' = Execute(p, {c}, fate, label, busPhase)
  BY <1>2 DEF Becomes, Now, Execute
<1>5. QED
  BY <1>3, <1>4

-----------------------------------------------------------------------------
(* A command that waits for the end of the scan is ready.                  *)
LEMMA QueuedReady ==
    ASSUME NEW K, NEW s, Good(s, {}, K), NEW c \in s.fAfterResetHandledQ
    PROVE  /\ c \in Commands /\ Ready(c, s.cmd[c]) /\ Disowned(s, c)
           /\ s.cmd[c].fTrans = NoLabel /\ Waiting(s.cmd[c])
<1>1. c \in Commands
  BY DEF Good, States
<1>2. Settled(c, s.cmd[c]) /\ Owned(s, c) /\ s.cmd[c].fQueue = "afterResetHandledQ"
  BY <1>1 DEF Good
<1>3. s.cmd[c].fTrans = NoLabel /\ Waiting(s.cmd[c])
  BY <1>2 DEF Settled, Served, Waiting
<1>4. Ready(c, s.cmd[c])
  BY <1>2, <1>3 DEF Settled, Honest, Ready
<1>5. Disowned(s, c)
  BY <1>2, <1>3, Constants DEF Owned, Disowned
<1>6. QED
  BY <1>1, <1>3, <1>4, <1>5

(* checkProgress gives some of the commands that have waited too long up,  *)
(* and executes the others with one retry less.                            *)
LEMMA GivenUpGood ==
    ASSUME NEW K \in SUBSET Commands, NEW s, Good(s, {}, K),
           NEW gone \in SUBSET TooOld(s),
           \A c \in TooOld(s) \ gone : s.cmd[c].fCurRetries > 0
    PROVE  Good(GivenUp(s, gone), TooOld(s) \ gone, K)
<1> DEFINE again == TooOld(s) \ gone
           g == GivenUp(s, gone)
<1>1. /\ s.cmd \in [Commands -> CommandRecords]
      /\ s.fTrans \in [Labels -> Commands \cup {NoCommand}]
      /\ s.fAfterResetHandledQ \subseteq Commands
  BY DEF Good, States
<1>2. \A c \in TooOld(s) : c \in Commands /\ Ready(c, s.cmd[c]) /\ Disowned(s, c)
                             /\ s.cmd[c].fTrans = NoLabel
  BY QueuedReady DEF TooOld
<1>3. /\ g = [cmd |-> g.cmd, fTrans |-> s.fTrans,
               fAfterResetHandledQ |-> s.fAfterResetHandledQ \ TooOld(s)]
      /\ g.fTrans = s.fTrans
      /\ g.fAfterResetHandledQ = s.fAfterResetHandledQ \ TooOld(s)
      /\ g.cmd = [c \in Commands |-> g.cmd[c]]
      /\ \A c \in gone : g.cmd[c] = Answered(s.cmd[c], "kIOReturnTimeout")
      /\ \A c \in again : g.cmd[c] = [s.cmd[c] EXCEPT !.fCurRetries = @ - 1]
      /\ \A c \in Commands \ TooOld(s) : g.cmd[c] = s.cmd[c]
  BY <1>2 DEF GivenUp
<1> HIDE DEF g
<1>4. \A c \in gone : /\ Settled(c, g.cmd[c]) /\ g.cmd[c].calls <= 2
                      /\ g.cmd[c].fTrans = NoLabel
  <2> TAKE c \in gone
  <2>1. c \in Commands /\ Ready(c, s.cmd[c]) /\ s.cmd[c] \in CommandRecords
        /\ s.cmd[c].calls = 0
    BY <1>2 DEF Ready
  <2>2. /\ Over(c, Answered(s.cmd[c], "kIOReturnTimeout"))
        /\ Answered(s.cmd[c], "kIOReturnTimeout").calls = 1
    BY <2>1, AnsweredSettled DEF Results
  <2>3. QED
    BY <1>3, <2>2 DEF Over
<1>5. \A c \in again : Ready(c, g.cmd[c])
  <2> TAKE c \in again
  <2>1. /\ s.cmd[c] \in CommandRecords /\ s.cmd[c].fCurRetries \in 0..fMaxRetries
        /\ s.cmd[c].fCurRetries > 0
    BY <1>1, <1>2 DEF CommandRecords
  <2>2. s.cmd[c].fCurRetries - 1 \in 0..fMaxRetries
    BY <2>1, Constants
  <2>3. /\ g.cmd[c] \in CommandRecords
        /\ g.cmd[c].fSize = s.cmd[c].fSize /\ g.cmd[c].calls = s.cmd[c].calls
        /\ g.cmd[c].nestedFailed = s.cmd[c].nestedFailed
    BY <1>3, <2>1, <2>2 DEF CommandRecords
  <2>4. QED
    BY <1>2, <2>3 DEF Ready
<1>6. \A c \in Commands \ again : Settled(c, g.cmd[c]) /\ Owned(g, c)
  <2> TAKE c \in Commands \ again
  <2>1. CASE c \in gone
    BY <1>2, <1>3, <1>4, <2>1, Constants DEF Owned, Disowned
  <2>2. CASE c \notin gone
    BY <1>3, <2>2 DEF Good, Owned
  <2>3. QED
    BY <2>1, <2>2
<1>7. \A c \in again : Disowned(g, c)
  BY <1>2, <1>3 DEF Disowned
<1>8. \A c \in Commands : g.cmd[c] \in CommandRecords
  BY <1>5, <1>6 DEF Ready, Settled
<1>9. g \in States
  BY <1>1, <1>3, <1>8 DEF States
<1>10. \A c \in g.fAfterResetHandledQ :
          c \notin again /\ g.cmd[c].fQueue = "afterResetHandledQ"
  BY <1>1, <1>3 DEF Good
<1>11. \A c \in K : g.cmd[c].calls <= 2
  <2> TAKE c \in K
  <2>1. CASE c \in gone
    BY <1>4, <2>1
  <2>2. CASE c \in again
    BY <1>5, <2>2 DEF Ready
  <2>3. CASE c \notin TooOld(s)
    BY <1>3, <2>3 DEF Good
  <2>4. QED
    BY <2>1, <2>2, <2>3
<1>12. Good(g, again, K)
  BY <1>5, <1>6, <1>7, <1>9, <1>10, <1>11 DEF Good
<1>13. QED
  BY <1>12 DEF g

LEMMA CheckProgressGood ==
    ASSUME NEW K \in SUBSET Commands, NEW s, Good(s, {}, K),
           NEW gone \in SUBSET TooOld(s),
           NEW fate \in [TooOld(s) \ gone -> Fates],
           NEW label \in Assignments(TooOld(s) \ gone),
           MayCheckProgress(s, gone, fate, label)
    PROVE  Good(checkProgress(s, gone, fate, label), {}, K)
<1> DEFINE again == TooOld(s) \ gone
           g == GivenUp(s, gone)
<1>1. Good(g, again, K) /\ MayExecute(g, again, fate, label)
  BY GivenUpGood DEF MayCheckProgress
<1>2. again \in SUBSET Commands
  BY QueuedReady DEF TooOld
<1>3. checkProgress(s, gone, fate, label) = Execute(g, again, fate, label, "kWaitingSelfIDs")
  BY DEF checkProgress
<1> HIDE DEF g
<1>4. Good(Execute(g, again, fate, label, "kWaitingSelfIDs"), {}, K)
  BY <1>1, <1>2, ExecuteGood
<1>5. QED
  BY <1>3, <1>4

-----------------------------------------------------------------------------
(* suspendBus ends every outstanding transaction.                          *)
LEMMA SuspendFacts ==
    ASSUME NEW r \in CommandRecords
    PROVE  LET t == Suspend(r)
           IN  /\ t \in CommandRecords
               /\ t.fTrans = r.fTrans /\ t.fQueue = r.fQueue
               /\ t.fStatus = r.fStatus /\ t.fSize = r.fSize
               /\ t.calls = r.calls /\ t.nestedFailed = r.nestedFailed
               /\ t.tooOld = r.tooOld /\ t.fFailOnReset = r.fFailOnReset
BY DEF Suspend, CommandRecords

LEMMA SuspensionsSettled ==
    ASSUME NEW K, NEW s, Good(s, {}, K), NEW ended \in Suspensions(s)
    PROVE  /\ DOMAIN ended = Outstanding(s)
           /\ \A c \in Outstanding(s) :
                 /\ c \in Commands /\ s.cmd[c].fTrans # NoLabel
                 /\ Settled(c, ended[c]) /\ ended[c].fTrans = NoLabel
                 /\ ended[c].calls <= 2
<1>1. /\ DOMAIN ended = Outstanding(s)
      /\ \A c \in Outstanding(s) : ended[c] \in Suspended(c, Suspend(s.cmd[c]))
  BY DEF Suspensions
<1>2. ASSUME NEW c \in Outstanding(s)
      PROVE  /\ c \in Commands /\ s.cmd[c].fTrans # NoLabel
             /\ Settled(c, ended[c]) /\ ended[c].fTrans = NoLabel
             /\ ended[c].calls <= 2
  <2>1. c \in Commands /\ s.cmd[c].fTrans # NoLabel
    BY DEF Outstanding
  <2>2. Settled(c, s.cmd[c]) /\ s.cmd[c] \in CommandRecords
    BY <2>1 DEF Good, Settled
  <2>3. Ready(c, s.cmd[c])
    BY <2>1, <2>2 DEF Settled, Served, Honest, Waiting, Ready
  <2>4. Ready(c, Suspend(s.cmd[c]))
    BY <2>2, <2>3, SuspendFacts DEF Ready
  <2>5. QED
    BY <1>1, <2>1, <2>4, SuspendedSettled
<1>3. QED
  BY <1>1, <1>2

LEMMA SuspendBusGood ==
    ASSUME NEW K \in SUBSET Commands, NEW s, Good(s, {}, K),
           NEW ended \in Suspensions(s)
    PROVE  Good(suspendBus(s, ended), {}, K)
<1> DEFINE b == suspendBus(s, ended)
<1>1. /\ s.cmd \in [Commands -> CommandRecords]
      /\ s.fAfterResetHandledQ \subseteq Commands
      /\ \A c \in Commands : Settled(c, s.cmd[c])
  BY DEF Good, States
<1>2. /\ DOMAIN ended = Outstanding(s)
      /\ \A c \in Outstanding(s) :
            /\ c \in Commands /\ s.cmd[c].fTrans # NoLabel
            /\ Settled(c, ended[c]) /\ ended[c].fTrans = NoLabel
            /\ ended[c].calls <= 2
  BY SuspensionsSettled
<1>3. /\ b = [cmd |-> b.cmd, fTrans |-> b.fTrans,
               fAfterResetHandledQ |-> b.fAfterResetHandledQ]
      /\ b.cmd = [c \in Commands |-> b.cmd[c]]
      /\ b.fTrans = [l \in Labels |-> NoCommand]
      /\ b.fAfterResetHandledQ =
             s.fAfterResetHandledQ
                 \cup {c \in Outstanding(s) : ended[c].fQueue = "afterResetHandledQ"}
      /\ \A c \in Commands :
            b.cmd[c] = IF c \in Outstanding(s) THEN ended[c] ELSE Suspend(s.cmd[c])
  BY <1>2 DEF suspendBus
<1> HIDE DEF b
<1>4. ASSUME NEW c \in Commands
      PROVE  /\ Settled(c, b.cmd[c]) /\ b.cmd[c].fTrans = NoLabel
             /\ c \notin Outstanding(s) => /\ b.cmd[c].calls = s.cmd[c].calls
                                           /\ b.cmd[c].fQueue = s.cmd[c].fQueue
  <2>1. CASE c \in Outstanding(s)
    BY <1>2, <1>3, <2>1
  <2>2. CASE c \notin Outstanding(s)
    <3>1. b.cmd[c] = Suspend(s.cmd[c]) /\ s.cmd[c].fTrans = NoLabel
      BY <1>3, <2>2 DEF Outstanding
    <3> DEFINE r == s.cmd[c]
               t == Suspend(r)
    <3>2. r \in CommandRecords /\ Settled(c, r) /\ r.fTrans = NoLabel
      BY <1>1, <3>1
    <3>3. /\ t \in CommandRecords
          /\ t.fTrans = r.fTrans /\ t.fQueue = r.fQueue
          /\ t.fStatus = r.fStatus /\ t.fSize = r.fSize
          /\ t.calls = r.calls /\ t.nestedFailed = r.nestedFailed
          /\ t.tooOld = r.tooOld /\ t.fFailOnReset = r.fFailOnReset
      BY <3>2, SuspendFacts
    <3>4. b.cmd[c] = t /\ b.cmd[c].calls = r.calls /\ b.cmd[c].fQueue = r.fQueue
      BY <3>1, <3>3
    <3> HIDE DEF t, r
    <3>5. Settled(c, t)
      BY <3>2, <3>3 DEF Settled, Served, Honest, Waiting
    <3>6. QED
      BY <3>2, <3>3, <3>4, <3>5 DEF r
  <2>3. QED
    BY <2>1, <2>2
<1>5. \A c \in Commands : Settled(c, b.cmd[c]) /\ Owned(b, c)
  BY <1>3, <1>4, Constants DEF Owned
<1>6. \A c \in b.fAfterResetHandledQ : b.cmd[c].fQueue = "afterResetHandledQ"
  <2> TAKE c \in b.fAfterResetHandledQ
  <2>1. CASE c \in Outstanding(s)
    <3>1. c \notin s.fAfterResetHandledQ
      BY <1>2, <2>1, QueuedReady
    <3>2. QED
      BY <1>2, <1>3, <2>1, <3>1
  <2>2. CASE c \notin Outstanding(s)
    <3>1. c \in s.fAfterResetHandledQ /\ c \in Commands
      BY <1>1, <1>3, <2>2
    <3>2. s.cmd[c].fQueue = "afterResetHandledQ"
      BY <3>1 DEF Good
    <3>3. QED
      BY <1>4, <2>2, <3>1, <3>2
  <2>3. QED
    BY <2>1, <2>2
<1>7. \A c \in K : b.cmd[c].calls <= 2
  BY <1>2, <1>3, <1>4 DEF Good
<1>8. b \in States
  <2>1. \A c \in Commands : b.cmd[c] \in CommandRecords
    BY <1>5 DEF Settled
  <2>2. b.fAfterResetHandledQ \subseteq Commands
    BY <1>1, <1>2, <1>3
  <2>3. QED
    BY <1>3, <2>1, <2>2 DEF States
<1>9. Good(b, {}, K)
  BY <1>5, <1>6, <1>7, <1>8, GoodAfterwards
<1>10. QED
  BY <1>9 DEF b

(* Unlinking commands from the list keeps the rest.                        *)
LEMMA FewerGood ==
    ASSUME NEW K, NEW s, Good(s, {}, K), NEW queue,
           queue \subseteq s.fAfterResetHandledQ
    PROVE  LET t == [s EXCEPT !.fAfterResetHandledQ = queue]
           IN  /\ Good(t, {}, K)
               /\ t.cmd = s.cmd /\ t.fAfterResetHandledQ = queue
<1> DEFINE t == [s EXCEPT !.fAfterResetHandledQ = queue]
<1>1. s \in States
  BY DEF Good
<1>2. /\ t \in States /\ t.cmd = s.cmd /\ t.fTrans = s.fTrans
      /\ t.fAfterResetHandledQ = queue
  BY <1>1 DEF States
<1> HIDE DEF t
<1>3. Good(t, {}, K)
  BY <1>2 DEF Good, Owned
<1>4. QED
  BY <1>2, <1>3 DEF t

-----------------------------------------------------------------------------
(* The steps.                                                              *)

LEMMA NowGood ==
    ASSUME Inv
    PROVE  /\ Good(Now, {}, cancelling) /\ cancelling \in SUBSET Commands
           /\ Now.cmd = cmd /\ Now.fTrans = fTrans
           /\ Now.fAfterResetHandledQ = fAfterResetHandledQ
           /\ cmd \in [Commands -> CommandRecords]
           /\ \A c \in Commands : Settled(c, cmd[c])
<1>1. Good(Now, {}, cancelling) /\ cancelling \in SUBSET Commands
  BY CommandsAssumption DEF Inv, CommandsAssumption
<1>2. /\ Now.cmd = cmd /\ Now.fTrans = fTrans
      /\ Now.fAfterResetHandledQ = fAfterResetHandledQ
  BY DEF Now
<1>3. cmd \in [Commands -> CommandRecords] /\ \A c \in Commands : Settled(c, cmd[c])
  BY <1>1, <1>2 DEF Good, States
<1>4. QED
  BY <1>1, <1>2, <1>3

LEMMA BecomesPut ==
    ASSUME NEW s, NEW c, NEW r, Becomes(Put(s, c, r))
    PROVE  Now' = Put(s, c, r)
BY DEF Becomes, Put, Now

(* A command that waits is ready once its handler takes it off its queue.  *)
LEMMA WaitingReady ==
    ASSUME Inv, NEW c \in Commands, Waiting(cmd[c])
    PROVE  Ready(c, cmd[c])
BY NowGood DEF Settled, Honest, Ready

(* reinit gives a command its packets and its retries.                     *)
Reinit(r, packets, fail, now) ==
    [r EXCEPT !.fSize = packets, !.smallPackets = FALSE,
              !.fCurRetries = fMaxRetries, !.fFailOnReset = fail,
              !.current = now, !.tooOld = FALSE,
              !.nestedFailed = FALSE, !.calls = 0]

LEMMA ReinitFacts ==
    ASSUME NEW r \in CommandRecords, NEW packets \in Nat, NEW fail \in BOOLEAN,
           NEW now \in BOOLEAN
    PROVE  /\ Reinit(r, packets, fail, now) \in CommandRecords
           /\ Reinit(r, packets, fail, now).fSize = packets
           /\ Reinit(r, packets, fail, now).calls = 0
           /\ ~Reinit(r, packets, fail, now).nestedFailed
           /\ Reinit(r, packets, fail, now).fTrans = r.fTrans
<1> DEFINE i == Reinit(r, packets, fail, now)
<1>1. fMaxRetries \in 0..fMaxRetries /\ 0 \in 0..3
  BY Constants
<1> DEFINE h == [r EXCEPT !.fSize = packets, !.smallPackets = FALSE,
                          !.fCurRetries = fMaxRetries, !.fFailOnReset = fail]
<1>2. i = [h EXCEPT !.current = now, !.tooOld = FALSE,
                    !.nestedFailed = FALSE, !.calls = 0]
  BY DEF Reinit, CommandRecords
<1>3. h \in CommandRecords /\ h.fSize = packets /\ h.fTrans = r.fTrans
  BY <1>1 DEF CommandRecords
<1> HIDE DEF i, h
<1>4. /\ i \in CommandRecords /\ i.fSize = packets /\ i.calls = 0
      /\ ~i.nestedFailed /\ i.fTrans = r.fTrans
  BY <1>1, <1>2, <1>3 DEF CommandRecords
<1>5. QED
  BY <1>4 DEF i

LEMMA SubmitGood ==
    ASSUME Inv, NEW c \in Commands, NEW queue \in BOOLEAN, submit(c, queue)
    PROVE  Good(Now', {}, cancelling)
<1>1. PICK packets \in 1..MaxPackets[c], fail \in BOOLEAN, now \in BOOLEAN :
         LET r == Reinit(cmd[c], packets, fail, now)
         IN  IF queue
             THEN Becomes(Put(Now, c, [r EXCEPT !.fStatus = "kIOFireWirePending",
                                                !.fQueue = "pendingQ"]))
             ELSE Runs(Put(Now, c, r), {c})
  BY Zenon DEF submit, Reinit
<1> DEFINE r == Reinit(cmd[c], packets, fail, now)
           q == [r EXCEPT !.fStatus = "kIOFireWirePending", !.fQueue = "pendingQ"]
<1>2. /\ packets \in Nat /\ packets > 0 /\ packets <= MaxPackets[c]
  BY Constants
<1>3. cmd[c] \in CommandRecords /\ cmd[c].fTrans = NoLabel
  BY NowGood DEF submit, Settled, Served, Waiting
<1>4. /\ r \in CommandRecords /\ r.fSize = packets /\ r.calls = 0
      /\ ~r.nestedFailed /\ r.fTrans = NoLabel
  <2>1. PICK old : old = cmd[c]
    OBVIOUS
  <2>2. old \in CommandRecords
    BY <1>3, <2>1
  <2>3. /\ Reinit(old, packets, fail, now) \in CommandRecords
        /\ Reinit(old, packets, fail, now).fSize = packets
        /\ Reinit(old, packets, fail, now).calls = 0
        /\ ~Reinit(old, packets, fail, now).nestedFailed
        /\ Reinit(old, packets, fail, now).fTrans = old.fTrans
    BY <1>2, <2>2, ReinitFacts
  <2> HIDE DEF r
  <2>4. QED
    BY <1>3, <2>1, <2>3 DEF r
<1>5. IF queue THEN Becomes(Put(Now, c, q)) ELSE Runs(Put(Now, c, r), {c})
  BY <1>1
<1> HIDE DEF r
<1>6. CASE queue
  <2>1. /\ q \in CommandRecords /\ q.fSize = packets /\ q.calls = 0
        /\ ~q.nestedFailed
        /\ q.fTrans = NoLabel /\ q.fStatus = "kIOFireWirePending"
        /\ q.fQueue = "pendingQ"
    BY <1>4 DEF CommandRecords, Statuses
  <2> HIDE DEF q
  <2>2. Settled(c, q)
    BY <1>2, <2>1 DEF Settled, Served, Honest, Waiting
  <2>3. Good(Put(Now, c, q), {}, cancelling)
    BY <2>1, <2>2, NowGood, PutSettled
  <2>4. QED
    BY <1>5, <1>6, <2>3, BecomesPut
<1>7. CASE ~queue
  <2>1. Ready(c, r)
    BY <1>2, <1>4 DEF Ready
  <2>2. QED
    BY <1>5, <1>7, <2>1, NowGood, RunsGood
<1>8. QED
  BY <1>6, <1>7

LEMMA CheckForWorkGood ==
    ASSUME Inv, NEW c \in Commands, checkForWork(c)
    PROVE  Good(Now', {}, cancelling)
<1>1. Waiting(cmd[c])
  BY NowGood DEF checkForWork, Settled, Served, Waiting
<1>2. QED
  BY <1>1, NowGood, WaitingReady, RunsGood DEF checkForWork

(* An answer with an error or with the last packet, or the next packet.    *)
LEMMA OverGood ==
    ASSUME Inv, NEW c \in Commands, NEW done, Over(c, done),
           Becomes(Put(Now, c, done))
    PROVE  Good(Now', {}, cancelling)
<1>1. Settled(c, done) /\ done.fTrans = NoLabel /\ done.calls <= 2
  BY DEF Over
<1>2. QED
  BY <1>1, NowGood, PutSettled, BecomesPut

LEMMA GotPacketGood ==
    ASSUME Inv, NEW c \in Commands, gotPacket(c)
    PROVE  Good(Now', {}, cancelling)
<1>1. Ready(c, cmd[c])
  BY NowGood, WaitingReady DEF gotPacket, Settled, Served, Waiting
<1>2. ASSUME NEW done \in Response(cmd[c]), Becomes(Put(Now, c, done))
      PROVE  Good(Now', {}, cancelling)
  BY <1>1, <1>2, ResponseOver, OverGood
<1>3. ASSUME NEW next \in NextPacket(c, cmd[c]), Runs(Put(Now, c, next), {c})
      PROVE  Good(Now', {}, cancelling)
  BY <1>1, <1>3, NextPacketReady, NowGood, RunsGood
<1>4. QED
  BY <1>2, <1>3 DEF gotPacket

(* Giving up, trying again, or an answer that comes in the meantime.       *)
LEMMA ProcessTimeoutGood ==
    ASSUME Inv, NEW c \in Commands, processTimeout(c)
    PROVE  Good(Now', {}, cancelling)
<1>1. Ready(c, cmd[c])
  BY NowGood, WaitingReady DEF processTimeout, Settled, Served, Waiting
<1>2. ASSUME NEW done \in LateAnswers(c, cmd[c]), Becomes(Put(Now, c, done))
      PROVE  Good(Now', {}, cancelling)
  BY <1>1, <1>2, LateAnswersOver, OverGood
<1>3. ASSUME NEW r \in GoesOn(c, cmd[c]),
             Becomes(Put(Now, c, Answered(r, "kIOReturnTimeout")))
      PROVE  Good(Now', {}, cancelling)
  BY <1>1, <1>3, GoesOnReady, AnsweredSettled, OverGood DEF Results
<1>4. ASSUME NEW r \in GoesOn(c, cmd[c]), Retry(Now, c, r)
      PROVE  Good(Now', {}, cancelling)
  <2> DEFINE t == [r EXCEPT !.fCurRetries = @ - 1]
  <2>1. Runs(Put(Now, c, t), {c}) /\ r.fCurRetries > 0 /\ Ready(c, r)
    BY <1>1, <1>4, GoesOnReady DEF Retry
  <2>2. r.fCurRetries - 1 \in 0..fMaxRetries
    BY <2>1, Constants DEF Ready, CommandRecords
  <2>3. /\ t \in CommandRecords /\ t.fSize = r.fSize /\ t.calls = 0
        /\ ~t.nestedFailed
    BY <2>1, <2>2 DEF Ready, CommandRecords
  <2>4. Ready(c, t)
    BY <2>1, <2>3 DEF Ready
  <2> HIDE DEF t
  <2>5. QED
    BY <2>1, <2>4, NowGood, RunsGood
<1>5. QED
  BY <1>2, <1>3, <1>4 DEF processTimeout

(* A command about to be cancelled has been answered twice at most, so     *)
(* that this answer is its third at most.                                  *)
LEMMA CancelledSettled ==
    ASSUME Inv, NEW c \in Commands, cancel(c)
    PROVE  \E done : /\ Completed(c, done) /\ Settled(c, done)
                     /\ done.fTrans = NoLabel /\ done.fQueue = "none"
<1>1. /\ Settled(c, cmd[c]) /\ cmd[c] \in CommandRecords
      /\ c \in UserCommands /\ cmd[c].calls <= 2
  BY NowGood DEF cancel, Inv, Good
<1>2. ASSUME Ready(c, cmd[c]), NEW r \in GoesOn(c, cmd[c])
      PROVE  Over(c, Answered(r, "kIOReturnAborted"))
  BY <1>2, GoesOnReady, AnsweredSettled DEF Results
<1>3. CASE cmd[c].fTrans # NoLabel
  <2>1. Ready(c, cmd[c])
    BY <1>1, <1>3, WaitingReady DEF Settled, Served, Waiting
  <2>2. PICK done : /\ Completed(c, done)
                    /\ \/ done \in LateAnswers(c, cmd[c])
                       \/ \E r \in GoesOn(c, cmd[c]) :
                             done = Answered(r, "kIOReturnAborted")
    BY <1>3 DEF cancel
  <2>3. Over(c, done)
    BY <1>2, <2>1, <2>2, LateAnswersOver
  <2>4. QED
    BY <2>2, <2>3 DEF Over
<1>4. CASE cmd[c].fTrans = NoLabel
  <2> DEFINE a == Answered(cmd[c], "kIOReturnAborted")
  <2>1. Completed(c, a)
    BY <1>4 DEF cancel
  <2>2. CASE Waiting(cmd[c])
    <3>1. Over(c, a)
      BY <2>2, WaitingReady, AnsweredSettled DEF Results
    <3> HIDE DEF a
    <3>2. QED
      BY <2>1, <3>1 DEF Over
  <2>3. CASE ~Waiting(cmd[c])
    <3>1. /\ cmd[c].calls \in 1..2 /\ cmd[c].fSize <= MaxPackets[c]
      BY <1>1, <2>3 DEF Settled, Honest
    <3>2. /\ a \in CommandRecords /\ a.fStatus = "kIOReturnAborted"
          /\ a.fTrans = NoLabel /\ a.fQueue = "none"
          /\ a.calls = cmd[c].calls + 1 /\ a.fSize = cmd[c].fSize
          /\ Served(a) /\ ~Waiting(a)
      BY <1>1, AnsweredFacts DEF Results
    <3> HIDE DEF a
    <3>3. Settled(c, a)
      BY <1>1, <3>1, <3>2 DEF Settled, Honest
    <3>4. QED
      BY <2>1, <3>2, <3>3
  <2>4. QED
    BY <2>2, <2>3
<1>5. QED
  BY <1>3, <1>4

LEMMA CancelGood ==
    ASSUME Inv, NEW c \in Commands, cancel(c)
    PROVE  Good(Now', {}, cancelling \ {c})
<1>1. PICK done : /\ Completed(c, done) /\ Settled(c, done)
                  /\ done.fTrans = NoLabel /\ done.fQueue = "none"
  BY CancelledSettled
<1>2. Good(Now, {}, cancelling \ {c}) /\ cancelling \ {c} \in SUBSET Commands
  BY NowGood DEF Good
<1> DEFINE p == Put(Now, c, done)
<1>3. Good(p, {}, cancelling \ {c})
  BY <1>1, <1>2, PutSettled
<1>4. p = [cmd |-> cmd', fTrans |-> fTrans',
           fAfterResetHandledQ |-> fAfterResetHandledQ \ {c}]
  BY <1>1 DEF Completed, Put, Now
<1>5. fAfterResetHandledQ' \subseteq fAfterResetHandledQ \ {c}
  BY DEF cancel, removeFromQ, Dropped
<1> HIDE DEF p
<1>6. /\ fAfterResetHandledQ' \subseteq p.fAfterResetHandledQ
      /\ Now' = [p EXCEPT !.fAfterResetHandledQ = fAfterResetHandledQ']
  BY <1>4, <1>5 DEF Now
<1>7. QED
  BY <1>3, <1>6, FewerGood

LEMMA UserCommandFreeGood ==
    ASSUME Inv, NEW c \in Commands, UserCommandFree(c)
    PROVE  Good(Now', {}, cancelling')
<1>1. Now' = Now /\ cancelling' = cancelling \cup {c}
  BY DEF UserCommandFree, Now
<1>2. cmd[c].calls = 0
  BY WaitingReady DEF UserCommandFree, Ready
<1>3. Good(Now, {}, cancelling \cup {c})
  BY <1>2, NowGood DEF Good
<1>4. QED
  BY <1>1, <1>3

LEMMA GrowsTooOldGood ==
    ASSUME Inv, NEW c \in Commands, GrowsTooOld(c)
    PROVE  Good(Now', {}, cancelling)
<1> DEFINE r == [cmd[c] EXCEPT !.tooOld = TRUE]
<1>1. /\ cmd' = [cmd EXCEPT ![c] = r] /\ fTrans' = fTrans
      /\ fAfterResetHandledQ' = fAfterResetHandledQ
  BY DEF GrowsTooOld
<1>2. Settled(c, cmd[c])
  BY NowGood
<1>3. \A x \in CommandRecords :
         LET t == [x EXCEPT !.tooOld = TRUE]
         IN  /\ t \in CommandRecords /\ t.tooOld
             /\ t.fTrans = x.fTrans /\ t.fQueue = x.fQueue /\ t.fStatus = x.fStatus
             /\ t.fSize = x.fSize /\ t.calls = x.calls /\ t.current = x.current
             /\ t.nestedFailed = x.nestedFailed
  BY DEF CommandRecords
<1>4. /\ r \in CommandRecords /\ r.tooOld
      /\ r.fTrans = cmd[c].fTrans /\ r.fQueue = cmd[c].fQueue
      /\ r.fStatus = cmd[c].fStatus /\ r.fSize = cmd[c].fSize
      /\ r.calls = cmd[c].calls /\ r.current = cmd[c].current
      /\ r.nestedFailed = cmd[c].nestedFailed
  BY <1>2, <1>3 DEF Settled
<1> HIDE DEF r
<1>5. Settled(c, r)
  BY <1>2, <1>4 DEF Settled, Served, Honest, Waiting
<1>6. /\ Now'.cmd = cmd' /\ Now'.fTrans = fTrans
      /\ Now'.fAfterResetHandledQ = fAfterResetHandledQ
      /\ Now' = [cmd |-> cmd', fTrans |-> fTrans,
                 fAfterResetHandledQ |-> fAfterResetHandledQ]
  BY <1>1 DEF Now
<1>7. /\ cmd' \in [Commands -> CommandRecords] /\ cmd'[c] = r
      /\ \A d \in Commands \ {c} : cmd'[d] = cmd[d]
  BY <1>1, <1>4, NowGood
<1>8. \A d \in Commands : Settled(d, Now'.cmd[d]) /\ Owned(Now', d)
  BY <1>4, <1>5, <1>6, <1>7, NowGood DEF Good, Owned
<1>9. \A d \in Now'.fAfterResetHandledQ : Now'.cmd[d].fQueue = "afterResetHandledQ"
  BY <1>4, <1>6, <1>7, NowGood DEF Good, States
<1>10. \A d \in cancelling : Now'.cmd[d].calls <= 2
  BY <1>4, <1>6, <1>7, NowGood DEF Good
<1>11. Now' \in States
  BY <1>6, <1>7, NowGood DEF Good, States
<1>12. QED
  BY <1>8, <1>9, <1>10, <1>11, GoodAfterwards

LEMMA BusResetGood ==
    ASSUME Inv, processBusReset
    PROVE  Good(Now', {}, cancelling)
<1>1. PICK gone \in SUBSET TooOld(Now) :
      \E fate \in [TooOld(Now) \ gone -> Fates], label \in Assignments(TooOld(Now) \ gone) :
         /\ MayCheckProgress(Now, gone, fate, label)
         /\ Becomes(checkProgress(Now, gone, fate, label))
  BY DEF processBusReset
<1>2. PICK fate \in [TooOld(Now) \ gone -> Fates],
           label \in Assignments(TooOld(Now) \ gone) :
         /\ MayCheckProgress(Now, gone, fate, label)
         /\ Becomes(checkProgress(Now, gone, fate, label))
  BY <1>1
<1>3. Good(checkProgress(Now, gone, fate, label), {}, cancelling)
  BY <1>2, NowGood, CheckProgressGood
<1>4. Now' = checkProgress(Now, gone, fate, label)
  BY <1>2 DEF Becomes, checkProgress, Execute, Now
<1>5. QED
  BY <1>3, <1>4

LEMMA SelfIDsGood ==
    ASSUME Inv, processSelfIDs
    PROVE  Good(Now', {}, cancelling)
<1>1. ASSUME NEW s, NEW ended, Becomes(suspendBus(s, ended))
      PROVE  Now' = suspendBus(s, ended)
  BY <1>1 DEF Becomes, suspendBus, Now
<1>2. CASE busPhase = "kWaitingSelfIDs"
  <2>1. PICK ended \in Suspensions(Now) : Becomes(suspendBus(Now, ended))
    BY <1>2 DEF processSelfIDs
  <2>2. Good(suspendBus(Now, ended), {}, cancelling)
    BY <2>1, NowGood, SuspendBusGood
  <2>3. QED
    BY <1>1, <2>1, <2>2
<1>3. CASE busPhase # "kWaitingSelfIDs"
  <2>1. PICK gone \in SUBSET TooOld(Now) :
        \E fate \in [TooOld(Now) \ gone -> Fates],
           label \in Assignments(TooOld(Now) \ gone) :
           LET s == checkProgress(Now, gone, fate, label)
           IN  /\ MayCheckProgress(Now, gone, fate, label)
               /\ \E ended \in Suspensions(s) : Becomes(suspendBus(s, ended))
    BY <1>3 DEF processSelfIDs
  <2>2. PICK fate \in [TooOld(Now) \ gone -> Fates],
             label \in Assignments(TooOld(Now) \ gone) :
           LET s == checkProgress(Now, gone, fate, label)
           IN  /\ MayCheckProgress(Now, gone, fate, label)
               /\ \E ended \in Suspensions(s) : Becomes(suspendBus(s, ended))
    BY <2>1
  <2> DEFINE s == checkProgress(Now, gone, fate, label)
  <2>3. Good(s, {}, cancelling)
    BY <2>2, NowGood, CheckProgressGood
  <2>4. PICK ended \in Suspensions(s) : Becomes(suspendBus(s, ended))
    BY <2>2
  <2> HIDE DEF s
  <2>5. Good(suspendBus(s, ended), {}, cancelling)
    BY <2>3, <2>4, NowGood, SuspendBusGood
  <2>6. QED
    BY <1>1, <2>4, <2>5
<1>4. QED
  BY <1>2, <1>3

-----------------------------------------------------------------------------
(* The end of the scan: executeQueue( true ).                              *)
Emptied == [Now EXCEPT !.fAfterResetHandledQ = {}]

LEMMA EmptiedFacts ==
    ASSUME Inv
    PROVE  /\ Good(Emptied, fAfterResetHandledQ, cancelling)
           /\ Emptied.cmd = cmd /\ Emptied.fAfterResetHandledQ = {}
           /\ fAfterResetHandledQ \in SUBSET Commands
           /\ \A fate, label : MayExecute(Now, fAfterResetHandledQ, fate, label) =>
                                MayExecute(Emptied, fAfterResetHandledQ, fate, label)
<1>1. /\ Emptied.cmd = cmd /\ Emptied.fTrans = fTrans
      /\ Emptied.fAfterResetHandledQ = {}
      /\ Emptied = [cmd |-> cmd, fTrans |-> fTrans, fAfterResetHandledQ |-> {}]
  BY DEF Emptied, Now
<1>2. Now \in States /\ cmd \in [Commands -> CommandRecords]
      /\ fTrans \in [Labels -> Commands \cup {NoCommand}]
      /\ fAfterResetHandledQ \in SUBSET Commands
  BY NowGood DEF Good, States
<1>3. \A c \in fAfterResetHandledQ : Ready(c, cmd[c]) /\ Disowned(Now, c)
  BY NowGood, QueuedReady
<1>4. \A c \in fAfterResetHandledQ : Ready(c, Emptied.cmd[c]) /\ Disowned(Emptied, c)
  BY <1>1, <1>3, NowGood DEF Disowned
<1>5. \A c \in Commands : Settled(c, Emptied.cmd[c]) /\ Owned(Emptied, c)
  BY <1>1, NowGood DEF Good, Owned
<1>6. Emptied \in States
  BY <1>1, <1>2 DEF States
<1>7. \A c \in cancelling : Emptied.cmd[c].calls <= 2
  BY <1>1, NowGood DEF Good
<1>8. Good(Emptied, fAfterResetHandledQ, cancelling)
  BY <1>1, <1>4, <1>5, <1>6, <1>7 DEF Good
<1>9. \A fate, label : MayExecute(Now, fAfterResetHandledQ, fate, label) =>
                        MayExecute(Emptied, fAfterResetHandledQ, fate, label)
  BY <1>1, NowGood DEF MayExecute, FreeLabels
<1>10. QED
  BY <1>1, <1>2, <1>8, <1>9

(* The commands that were waiting, if any were, have been executed.        *)
ScanServes(last, fate, label) ==
    LET s == executeQueue(Now, last, fate, label, busPhase')
    IN  /\ MayExecute(Now, fAfterResetHandledQ, fate, label)
        /\ IF s.fAfterResetHandledQ = {}
           THEN Becomes(s)
           ELSE \E result \in DrainResults(s, last) :
                   Becomes(Put(s, last, Answered(s.cmd[last], result)))

LEMMA ScanEndCases ==
    ASSUME finishedBusScan
    PROVE  \/ Becomes(Now) /\ fAfterResetHandledQ = {}
           \/ \E last \in fAfterResetHandledQ,
                 fate \in [fAfterResetHandledQ -> Fates],
                 label \in Assignments(fAfterResetHandledQ) :
                 ScanServes(last, fate, label)
BY DEF finishedBusScan, ScanServes

LEMMA ScanEndGood ==
    ASSUME Inv, finishedBusScan
    PROVE  Good(Now', {}, cancelling)
<1>1. CASE Becomes(Now)
  <2>1. Now' = Now
    BY <1>1 DEF Becomes, Now
  <2>2. QED
    BY <2>1, NowGood
<1>2. CASE ~Becomes(Now)
  <2> DEFINE Q == fAfterResetHandledQ
  <2>1. PICK last \in Q, fate \in [Q -> Fates], label \in Assignments(Q) :
           ScanServes(last, fate, label)
    BY <1>2, ScanEndCases
  <2> DEFINE run == Execute(Emptied, Q, fate, label, busPhase')
             s == executeQueue(Now, last, fate, label, busPhase')
  <2>2. Good(run, {}, cancelling)
    <3>1. Good(Emptied, Q, cancelling) /\ Q \in SUBSET Commands
          /\ MayExecute(Emptied, Q, fate, label)
      BY <2>1, EmptiedFacts DEF ScanServes
    <3>2. cancelling \in SUBSET Commands
      BY NowGood
    <3> HIDE DEF Q
    <3>3. QED
      BY <2>1, <3>1, <3>2, ExecuteGood
  <2>3. s = [run EXCEPT !.fAfterResetHandledQ = run.fAfterResetHandledQ \cap {last}]
    BY NowGood DEF executeQueue, Emptied
  <2> HIDE DEF run
  <2>4. Good(s, {}, cancelling) /\ s.fAfterResetHandledQ \subseteq {last}
    BY <2>2, <2>3, FewerGood
  <2>5. s = [cmd |-> s.cmd, fTrans |-> s.fTrans,
             fAfterResetHandledQ |-> s.fAfterResetHandledQ]
    <3>1. s \in States
      BY <2>4 DEF Good
    <3> HIDE DEF s
    <3>2. QED
      BY <3>1 DEF States
  <2>6. IF s.fAfterResetHandledQ = {}
        THEN Becomes(s)
        ELSE \E result \in DrainResults(s, last) :
                Becomes(Put(s, last, Answered(s.cmd[last], result)))
    BY <2>1 DEF ScanServes
  <2> HIDE DEF s
  <2>7. CASE s.fAfterResetHandledQ = {}
    <3>1. Now' = s
      BY <2>5, <2>6, <2>7 DEF Becomes, Now
    <3>2. QED
      BY <2>4, <3>1
  <2>8. CASE s.fAfterResetHandledQ # {}
    <3>1. PICK result \in DrainResults(s, last) :
             Becomes(Put(s, last, Answered(s.cmd[last], result)))
      BY <2>6, <2>8
    <3>2. result \in {"kIOReturnTimeout", "kIOFireWireOutOfTLabels"}
      BY <3>1 DEF DrainResults
    <3>3. last \in s.fAfterResetHandledQ
      BY <2>4, <2>8
    <3>4. last \in Commands /\ Ready(last, s.cmd[last])
      BY <2>4, <3>3, QueuedReady
    <3>5. /\ Over(last, Answered(s.cmd[last], result))
          /\ Answered(s.cmd[last], result).calls = 1
      BY <3>2, <3>4, AnsweredSettled DEF Results
    <3>6. QED
      BY <2>4, <3>1, <3>4, <3>5, NowGood, PutSettled, BecomesPut DEF Over
  <2>9. QED
    BY <2>7, <2>8
<1>3. QED
  BY <1>1, <1>2

-----------------------------------------------------------------------------
LEMMA InitInv == Init => Inv
<1> SUFFICES ASSUME Init PROVE Inv
  OBVIOUS
<1> DEFINE r == [fStatus |-> "kIOReturnSuccess", fQueue |-> "none",
                 fTrans |-> NoLabel, fSize |-> 0, smallPackets |-> FALSE,
                 fCurRetries |-> fMaxRetries, fFailOnReset |-> FALSE,
                 current |-> FALSE, tooOld |-> FALSE,
                 nestedFailed |-> FALSE, calls |-> 1]
<1>1. /\ r \in CommandRecords /\ r.fSize = 0 /\ r.calls = 1 /\ r.fTrans = NoLabel
      /\ r.fStatus = "kIOReturnSuccess" /\ r.fQueue = "none"
      /\ ~r.nestedFailed
  BY Constants DEF CommandRecords, Statuses, Results
<1>2. cmd \in [Commands -> {r}] /\ \A c \in Commands : cmd[c] = r
  BY DEF Init
<1> HIDE DEF r
<1>3. \A c \in Commands : Settled(c, r)
  BY <1>1, Constants DEF Settled, Served, Honest, Waiting
<1>4. /\ fTrans = [l \in Labels |-> NoCommand] /\ fAfterResetHandledQ = {}
      /\ cancelling = {}
  BY DEF Init
<1>5. /\ Now.cmd = cmd /\ Now.fTrans = fTrans
      /\ Now.fAfterResetHandledQ = fAfterResetHandledQ
      /\ Now = [cmd |-> cmd, fTrans |-> fTrans,
                fAfterResetHandledQ |-> fAfterResetHandledQ]
  BY DEF Now
<1>6. Now \in States
  BY <1>1, <1>2, <1>4, <1>5 DEF States
<1>7. \A c \in Commands : Owned(Now, c)
  BY <1>1, <1>2, <1>4, <1>5, Constants DEF Owned
<1>8. \A c \in Commands : Settled(c, Now.cmd[c])
  BY <1>2, <1>3, <1>5
<1>9. Good(Now, {}, cancelling)
  BY <1>4, <1>5, <1>6, <1>7, <1>8, GoodAfterwards
<1>10. trouble \in 0..MaxTrouble
  BY Constants DEF Init
<1>11. QED
  BY <1>9, <1>10 DEF Init, Inv, Phases

(* The bus and the trouble it may still make.                              *)
LEMMA BusTypes ==
    ASSUME Inv, Next
    PROVE  /\ resumed' \subseteq Devices /\ busPhase' \in Phases
           /\ unscanned' \in BOOLEAN /\ cancelling' \subseteq UserCommands
           /\ trouble' \in 0..MaxTrouble
           /\ fQueueNext' \in [Commands -> Commands \cup {NoCommand}]
           /\ strayHead' \in BOOLEAN
<1>1. /\ resumed \subseteq Devices /\ busPhase \in Phases
      /\ unscanned \in BOOLEAN /\ cancelling \subseteq UserCommands
      /\ trouble \in 0..MaxTrouble
      /\ fQueueNext \in [Commands -> Commands \cup {NoCommand}]
      /\ strayHead \in BOOLEAN
  BY DEF Inv
<1>2. \A n \in 0..1 : Costs(n) => trouble' \in 0..MaxTrouble
  BY <1>1, Constants DEF Costs
<1>3. ASSUME NEW c \in Commands, NEW queue \in BOOLEAN,
             \/ submit(c, queue) \/ checkForWork(c) \/ gotPacket(c) \/ processTimeout(c)
      PROVE  UNCHANGED <<listVars, busVars, cancelling, trouble>>
  BY <1>3 DEF submit, checkForWork, gotPacket, processTimeout
<1>4. ASSUME NEW c \in Commands, UserCommandFree(c)
      PROVE  /\ cancelling' \subseteq UserCommands
             /\ UNCHANGED <<listVars, busVars, trouble>>
  BY <1>1, <1>4 DEF UserCommandFree
<1>5. ASSUME NEW c \in Commands, cancel(c)
      PROVE  /\ cancelling' \subseteq UserCommands
             /\ UNCHANGED <<busVars, trouble>>
             /\ fQueueNext' \in [Commands -> Commands \cup {NoCommand}]
             /\ strayHead' \in BOOLEAN
  <2>1. /\ cancelling' \subseteq UserCommands /\ UNCHANGED <<busVars, trouble>>
        /\ removeFromQ(c)
    BY <1>1, <1>5 DEF cancel
  <2>2. fQueueNext' = [fQueueNext EXCEPT ![c] = NoCommand]
    BY <2>1 DEF removeFromQ
  <2>3. strayHead' \in BOOLEAN
    BY <1>1, <2>1 DEF removeFromQ
  <2>4. QED
    BY <1>1, <2>1, <2>2, <2>3
<1>6. ASSUME NEW c \in Commands, GrowsTooOld(c)
      PROVE  /\ trouble' \in 0..MaxTrouble
             /\ UNCHANGED <<listVars, busVars, cancelling>>
  BY <1>2, <1>6 DEF GrowsTooOld
<1>7. CASE processBusReset
  <2>1. trouble' \in 0..MaxTrouble
    BY <1>2, <1>7 DEF processBusReset
  <2>2. QED
    BY <1>1, <1>7, <2>1 DEF processBusReset, Phases, listVars
<1>8. CASE processSelfIDs
  <2>1. trouble' \in 0..MaxTrouble
    BY <1>2, <1>8 DEF processSelfIDs
  <2>2. QED
    BY <1>1, <1>8, <2>1 DEF processSelfIDs, Phases, listVars
<1>9. ASSUME NEW d \in Devices, updateDevice(d)
      PROVE  /\ resumed' \subseteq Devices
             /\ UNCHANGED <<listVars, busPhase, unscanned, cancelling, trouble>>
  BY <1>1, <1>9 DEF updateDevice
<1>10. CASE LeaveScan
  <2>1. trouble' \in 0..MaxTrouble
    BY <1>2, <1>10 DEF LeaveScan
  <2>2. QED
    BY <1>1, <1>10, <2>1 DEF LeaveScan, Phases, listVars
<1>11. CASE finishedBusScan
  <2>1. trouble' \in 0..MaxTrouble
    BY <1>1, <1>2, <1>11 DEF finishedBusScan
  <2>2. busPhase' \in Phases
    BY <1>1, <1>11 DEF finishedBusScan, Phases
  <2>3. fQueueNext' \in [Commands -> Commands \cup {NoCommand}]
    <3>1. CASE UNCHANGED fQueueNext
      BY <1>1, <3>1
    <3>2. CASE \E next \in Orders(fAfterResetHandledQ) :
                  fQueueNext' = [c \in Commands |->
                      IF c \in fAfterResetHandledQ
                           /\ cmd'[c].fQueue = "afterResetHandledQ"
                      THEN next[c] ELSE fQueueNext[c]]
      <4>1. PICK next \in Orders(fAfterResetHandledQ) :
                  fQueueNext' = [c \in Commands |->
                      IF c \in fAfterResetHandledQ
                           /\ cmd'[c].fQueue = "afterResetHandledQ"
                      THEN next[c] ELSE fQueueNext[c]]
        BY <3>2
      <4>2. next \in [fAfterResetHandledQ -> fAfterResetHandledQ \cup {NoCommand}]
        BY <4>1 DEF Orders
      <4>3. fAfterResetHandledQ \subseteq Commands
        BY NowGood DEF Good, States
      <4>4. QED
        BY <1>1, <4>1, <4>2, <4>3
    <3>3. QED
      BY <1>11, <3>1, <3>2 DEF finishedBusScan
  <2>4. QED
    BY <1>1, <1>11, <2>1, <2>2, <2>3 DEF finishedBusScan
<1>12. QED
  BY <1>1, <1>3, <1>4, <1>5, <1>6, <1>7, <1>8, <1>9, <1>10, <1>11
     DEF Next, busVars, listVars

LEMMA NextInv == Inv /\ [Next]_vars => Inv'
<1> SUFFICES ASSUME Inv, [Next]_vars PROVE Inv'
  OBVIOUS
<1>1. CASE UNCHANGED vars
  <2>1. Now' = Now
    BY <1>1 DEF vars, Now
  <2>2. Good(Now', {}, cancelling')
    BY <1>1, <2>1, NowGood DEF vars
  <2>3. QED
    BY <1>1, <2>2 DEF Inv, vars, busVars, listVars
<1>2. CASE Next
  <2>1. ASSUME NEW c \in Commands, NEW queue \in BOOLEAN, submit(c, queue)
        PROVE  Good(Now', {}, cancelling')
    <3>1. cancelling' = cancelling
      BY <2>1 DEF submit
    <3>2. QED
      BY <2>1, <3>1, SubmitGood
  <2>2. ASSUME NEW c \in Commands, checkForWork(c)
        PROVE  Good(Now', {}, cancelling')
    <3>1. cancelling' = cancelling
      BY <2>2 DEF checkForWork
    <3>2. QED
      BY <2>2, <3>1, CheckForWorkGood
  <2>3. ASSUME NEW c \in Commands, gotPacket(c)
        PROVE  Good(Now', {}, cancelling')
    <3>1. cancelling' = cancelling
      BY <2>3 DEF gotPacket
    <3>2. QED
      BY <2>3, <3>1, GotPacketGood
  <2>4. ASSUME NEW c \in Commands, processTimeout(c)
        PROVE  Good(Now', {}, cancelling')
    <3>1. cancelling' = cancelling
      BY <2>4 DEF processTimeout
    <3>2. QED
      BY <2>4, <3>1, ProcessTimeoutGood
  <2>5. ASSUME NEW c \in Commands, cancel(c)
        PROVE  Good(Now', {}, cancelling')
    <3>1. cancelling' = cancelling \ {c}
      BY <2>5 DEF cancel
    <3>2. QED
      BY <2>5, <3>1, CancelGood
  <2>6. ASSUME NEW c \in Commands, GrowsTooOld(c)
        PROVE  Good(Now', {}, cancelling')
    <3>1. cancelling' = cancelling
      BY <2>6 DEF GrowsTooOld
    <3>2. QED
      BY <2>6, <3>1, GrowsTooOldGood
  <2>7. ASSUME processBusReset
         PROVE  Good(Now', {}, cancelling')
    <3>1. cancelling' = cancelling
      BY <2>7 DEF processBusReset
    <3>2. QED
      BY <2>7, <3>1, BusResetGood
  <2>8. ASSUME processSelfIDs
         PROVE  Good(Now', {}, cancelling')
    <3>1. cancelling' = cancelling
      BY <2>8 DEF processSelfIDs
    <3>2. QED
      BY <2>8, <3>1, SelfIDsGood
  <2>9. ASSUME finishedBusScan
         PROVE  Good(Now', {}, cancelling')
    <3>1. cancelling' = cancelling
      BY <2>9 DEF finishedBusScan
    <3>2. QED
      BY <2>9, <3>1, ScanEndGood
  <2>10. ASSUME LeaveScan \/ \E d \in Devices : updateDevice(d)
         PROVE  Good(Now', {}, cancelling')
    <3>1. UNCHANGED <<cmd, fTrans, fAfterResetHandledQ, cancelling>>
      BY <2>10 DEF LeaveScan, updateDevice
    <3>2. Now' = Now
      BY <3>1 DEF Now
    <3>3. QED
      BY <3>1, <3>2, NowGood
  <2>11. Good(Now', {}, cancelling')
    BY <1>2, <2>1, <2>2, <2>3, <2>4, <2>5, <2>6, <2>7, <2>8, <2>9, <2>10,
       UserCommandFreeGood
       DEF Next
  <2>12. QED
    BY <1>2, <2>11, BusTypes DEF Inv
<1>3. QED
  BY <1>1, <1>2

LEMMA Invariance == Spec => []Inv
<1>1. QED
  BY InitInv, NextInv, PTL DEF Spec

-----------------------------------------------------------------------------
(* Every handler but the end of a scan keeps a command in the after-reset- *)
(* handled queue, or takes it out for good.                                *)
TakenOut(s, t) ==
    \A c \in s.fAfterResetHandledQ \ t.fAfterResetHandledQ :
        t.cmd[c].fQueue # "afterResetHandledQ"

LEMMA PutTakenOut ==
    ASSUME Inv, NEW c \in Commands, NEW r, r.fQueue # "afterResetHandledQ",
           Becomes(Put(Now, c, r))
    PROVE  TakenOut(Now, Now')
<1>1. /\ Now'.fAfterResetHandledQ = Now.fAfterResetHandledQ \ {c}
      /\ Now'.cmd = [Now.cmd EXCEPT ![c] = r]
  BY DEF Becomes, Put, Now
<1>2. Now'.cmd[c] = r
  BY <1>1, NowGood
<1>3. QED
  BY <1>1, <1>2 DEF TakenOut

LEMMA RunsTakenOut ==
    ASSUME NEW c \in Commands, NEW r, Runs(Put(Now, c, r), {c})
    PROVE  TakenOut(Now, Now')
<1> DEFINE p == Put(Now, c, r)
<1>1. p.fAfterResetHandledQ = Now.fAfterResetHandledQ \ {c}
  BY DEF Put
<1> HIDE DEF p
<1>2. PICK fate \in [{c} -> Fates], label \in Assignments({c}) :
         Becomes(Execute(p, {c}, fate, label, busPhase))
  BY DEF Runs, p
<1>3. Now' = Execute(p, {c}, fate, label, busPhase)
  BY <1>2 DEF Becomes, Now, Execute
<1>4. Now'.fAfterResetHandledQ =
         p.fAfterResetHandledQ
             \cup {d \in {c} : Now'.cmd[d].fQueue = "afterResetHandledQ"}
  BY <1>3 DEF Execute
<1>5. QED
  BY <1>1, <1>4 DEF TakenOut

LEMMA CheckProgressTakenOut ==
    ASSUME NEW K \in SUBSET Commands, NEW s, Good(s, {}, K),
           NEW gone \in SUBSET TooOld(s),
           NEW fate \in [TooOld(s) \ gone -> Fates],
           NEW label \in Assignments(TooOld(s) \ gone)
    PROVE  TakenOut(s, checkProgress(s, gone, fate, label))
<1> DEFINE again == TooOld(s) \ gone
           p == checkProgress(s, gone, fate, label)
<1>1. \A c \in TooOld(s) : c \in Commands /\ Ready(c, s.cmd[c])
  BY QueuedReady DEF TooOld
<1>2. /\ p.fAfterResetHandledQ =
             (s.fAfterResetHandledQ \ TooOld(s))
                 \cup {c \in again : p.cmd[c].fQueue = "afterResetHandledQ"}
      /\ \A c \in gone : p.cmd[c] = Answered(s.cmd[c], "kIOReturnTimeout")
  BY <1>1 DEF checkProgress, Execute, GivenUp
<1> HIDE DEF p
<1>3. \A c \in gone : p.cmd[c].fQueue = "none"
  BY <1>1, <1>2, AnsweredFacts DEF Ready, Results
<1>4. QED
  BY <1>2, <1>3 DEF TakenOut, p

LEMMA SuspendBusTakenOut ==
    ASSUME NEW K \in SUBSET Commands, NEW s, Good(s, {}, K),
           NEW ended \in Suspensions(s)
    PROVE  LET b == suspendBus(s, ended)
           IN  /\ s.fAfterResetHandledQ \subseteq b.fAfterResetHandledQ
               /\ \A c \in Commands \ b.fAfterResetHandledQ :
                     b.cmd[c].fQueue = "afterResetHandledQ" =>
                         s.cmd[c].fQueue = "afterResetHandledQ"
<1> DEFINE b == suspendBus(s, ended)
<1>1. s.fAfterResetHandledQ \subseteq b.fAfterResetHandledQ
  BY DEF suspendBus
<1>2. ASSUME NEW c \in Commands \ b.fAfterResetHandledQ,
             b.cmd[c].fQueue = "afterResetHandledQ"
      PROVE  s.cmd[c].fQueue = "afterResetHandledQ"
  <2>1. c \notin DOMAIN ended
    BY <1>2 DEF suspendBus
  <2>2. b.cmd[c] = Suspend(s.cmd[c])
    BY <2>1 DEF suspendBus
  <2>3. s.cmd[c] \in CommandRecords
    BY DEF Good, States
  <2>4. Suspend(s.cmd[c]).fQueue = s.cmd[c].fQueue
    BY <2>3, SuspendFacts
  <2>5. QED
    BY <1>2, <2>2, <2>4
<1>3. QED
  BY <1>1, <1>2

LEMMA ResetTakenOut ==
    ASSUME Inv, processBusReset \/ processSelfIDs
    PROVE  TakenOut(Now, Now')
<1>1. CASE processBusReset
  <2>1. PICK gone \in SUBSET TooOld(Now) :
        \E fate \in [TooOld(Now) \ gone -> Fates],
           label \in Assignments(TooOld(Now) \ gone) :
              Becomes(checkProgress(Now, gone, fate, label))
    BY <1>1 DEF processBusReset
  <2>2. PICK fate \in [TooOld(Now) \ gone -> Fates],
             label \in Assignments(TooOld(Now) \ gone) :
           Becomes(checkProgress(Now, gone, fate, label))
    BY <2>1
  <2>3. Now' = checkProgress(Now, gone, fate, label)
    BY <2>2 DEF Becomes, checkProgress, Execute, Now
  <2>4. QED
    BY <2>3, NowGood, CheckProgressTakenOut
<1>2. CASE processSelfIDs
  <2>1. ASSUME NEW s, NEW ended, Becomes(suspendBus(s, ended))
        PROVE  Now' = suspendBus(s, ended)
    BY <2>1 DEF Becomes, suspendBus, Now
  <2>2. CASE busPhase = "kWaitingSelfIDs"
    <3>1. PICK ended \in Suspensions(Now) : Becomes(suspendBus(Now, ended))
      BY <1>2, <2>2 DEF processSelfIDs
    <3>2. Now' = suspendBus(Now, ended)
      BY <2>1, <3>1
    <3>3. Good(Now, {}, cancelling) /\ cancelling \in SUBSET Commands
      BY NowGood
    <3>4. Now.fAfterResetHandledQ \subseteq suspendBus(Now, ended).fAfterResetHandledQ
      BY <3>1, <3>3, SuspendBusTakenOut
    <3>5. QED
      BY <3>2, <3>4 DEF TakenOut
  <2>3. CASE busPhase # "kWaitingSelfIDs"
    <3>1. PICK gone \in SUBSET TooOld(Now) :
          \E fate \in [TooOld(Now) \ gone -> Fates],
             label \in Assignments(TooOld(Now) \ gone) :
             LET s == checkProgress(Now, gone, fate, label)
             IN  /\ MayCheckProgress(Now, gone, fate, label)
                 /\ \E ended \in Suspensions(s) : Becomes(suspendBus(s, ended))
      BY <1>2, <2>3 DEF processSelfIDs
    <3>2. PICK fate \in [TooOld(Now) \ gone -> Fates],
               label \in Assignments(TooOld(Now) \ gone) :
             LET s == checkProgress(Now, gone, fate, label)
             IN  /\ MayCheckProgress(Now, gone, fate, label)
                 /\ \E ended \in Suspensions(s) : Becomes(suspendBus(s, ended))
      BY <3>1
    <3> DEFINE p == checkProgress(Now, gone, fate, label)
    <3>3. Good(p, {}, cancelling) /\ TakenOut(Now, p)
      BY <3>2, NowGood, CheckProgressGood, CheckProgressTakenOut
    <3>4. PICK ended \in Suspensions(p) : Becomes(suspendBus(p, ended))
      BY <3>2
    <3> HIDE DEF p
    <3>5. Now' = suspendBus(p, ended)
      BY <2>1, <3>4
    <3>6. /\ p.fAfterResetHandledQ \subseteq Now'.fAfterResetHandledQ
          /\ \A c \in Commands \ Now'.fAfterResetHandledQ :
                Now'.cmd[c].fQueue = "afterResetHandledQ" =>
                    p.cmd[c].fQueue = "afterResetHandledQ"
      BY <3>3, <3>4, <3>5, NowGood, SuspendBusTakenOut
    <3>7. Now.fAfterResetHandledQ \subseteq Commands
      BY NowGood DEF Good, States
    <3>8. QED
      BY <3>3, <3>6, <3>7 DEF TakenOut
  <2>4. QED
    BY <2>2, <2>3
<1>3. QED
  BY <1>1, <1>2

LEMMA HandlersTakeOut ==
    ASSUME Inv, NEW c \in Commands,
           \/ \E queue \in BOOLEAN : submit(c, queue)
           \/ checkForWork(c) \/ gotPacket(c) \/ processTimeout(c)
           \/ UserCommandFree(c) \/ GrowsTooOld(c)
    PROVE  TakenOut(Now, Now')
<1>1. cmd[c] \in CommandRecords
  BY NowGood
<1>2. ASSUME NEW done, Over(c, done), Becomes(Put(Now, c, done))
      PROVE  TakenOut(Now, Now')
  BY <1>2, PutTakenOut DEF Over
<1>3. CASE \E queue \in BOOLEAN : submit(c, queue)
  <2>1. PICK queue \in BOOLEAN : submit(c, queue)
    BY <1>3
  <2>2. PICK packets \in 1..MaxPackets[c], fail \in BOOLEAN, now \in BOOLEAN :
           LET r == Reinit(cmd[c], packets, fail, now)
           IN  IF queue
               THEN Becomes(Put(Now, c, [r EXCEPT !.fStatus = "kIOFireWirePending",
                                                  !.fQueue = "pendingQ"]))
               ELSE Runs(Put(Now, c, r), {c})
    BY <2>1, Zenon DEF submit, Reinit
  <2> DEFINE r == Reinit(cmd[c], packets, fail, now)
             q == [r EXCEPT !.fStatus = "kIOFireWirePending", !.fQueue = "pendingQ"]
  <2>3. r \in CommandRecords
    BY <1>1, Constants, ReinitFacts
  <2>4. IF queue THEN Becomes(Put(Now, c, q)) ELSE Runs(Put(Now, c, r), {c})
    BY <2>2
  <2> HIDE DEF r
  <2>5. q.fQueue = "pendingQ"
    BY <2>3 DEF CommandRecords
  <2> HIDE DEF q
  <2>6. CASE queue
    BY <2>4, <2>5, <2>6, PutTakenOut
  <2>7. CASE ~queue
    BY <2>4, <2>7, RunsTakenOut
  <2>8. QED
    BY <2>6, <2>7
<1>4. CASE checkForWork(c)
  BY <1>4, RunsTakenOut DEF checkForWork
<1>5. CASE gotPacket(c)
  <2>1. Ready(c, cmd[c])
    BY <1>5, NowGood, WaitingReady DEF gotPacket, Settled, Served, Waiting
  <2>2. QED
    BY <1>2, <1>5, <2>1, RunsTakenOut, ResponseOver DEF gotPacket
<1>6. CASE processTimeout(c)
  <2>1. Ready(c, cmd[c])
    BY <1>6, NowGood, WaitingReady DEF processTimeout, Settled, Served, Waiting
  <2>2. ASSUME NEW r \in GoesOn(c, cmd[c])
        PROVE  Over(c, Answered(r, "kIOReturnTimeout"))
    BY <2>1, GoesOnReady, AnsweredSettled DEF Results
  <2>3. QED
    BY <1>2, <1>6, <2>1, <2>2, RunsTakenOut, LateAnswersOver
       DEF processTimeout, Retry
<1>7. CASE UserCommandFree(c)
  <2>1. Now' = Now
    BY <1>7 DEF UserCommandFree, Now
  <2>2. QED
    BY <2>1 DEF TakenOut
<1>8. CASE GrowsTooOld(c)
  <2>1. Now'.fAfterResetHandledQ = Now.fAfterResetHandledQ
    BY <1>8 DEF GrowsTooOld, Now
  <2>2. QED
    BY <2>1 DEF TakenOut
<1>9. QED
  BY <1>3, <1>4, <1>5, <1>6, <1>7, <1>8

(* The cancellation of a command that was dropped makes the list begin     *)
(* elsewhere; any other leaves the list to the others.                     *)
LEMMA CancelDrops ==
    ASSUME Inv, NEW c \in Commands, cancel(c),
           NEW d \in fAfterResetHandledQ \ fAfterResetHandledQ',
           cmd'[d].fQueue = "afterResetHandledQ"
    PROVE  /\ \E gone \in cancelling \ cancelling' : Dropped(gone)
           /\ strayHead'
<1>1. PICK done : /\ Completed(c, done) /\ Settled(c, done)
                  /\ done.fTrans = NoLabel /\ done.fQueue = "none"
  BY CancelledSettled
<1>2. d \in Commands /\ cmd' = [cmd EXCEPT ![c] = done]
  BY <1>1, NowGood DEF Completed, Good, States
<1>3. d # c
  BY <1>1, <1>2, NowGood
<1>4. Dropped(c)
  BY <1>3 DEF cancel, removeFromQ
<1>5. strayHead'
  BY <1>4 DEF cancel, removeFromQ
<1>6. c \in cancelling \ cancelling'
  BY DEF cancel
<1>7. QED
  BY <1>4, <1>5, <1>6

(* The end of a scan may drop a command from the list.                     *)
LEMMA ScanEndDrops ==
    ASSUME Inv, finishedBusScan, NEW c \in fAfterResetHandledQ \ fAfterResetHandledQ',
           cmd'[c].fQueue = "afterResetHandledQ"
    PROVE  /\ unscanned /\ ~unscanned'
           /\ scanningBus(busPhase')
           /\ fDevice[c] \notin resumed
           /\ fAfterResetHandledQ # {c}
<1> DEFINE Q == fAfterResetHandledQ
<1>1. unscanned /\ ~unscanned' /\ ~Becomes(Now)
  BY DEF finishedBusScan, Becomes, Now
<1>2. PICK last \in Q, fate \in [Q -> Fates], label \in Assignments(Q) :
         ScanServes(last, fate, label)
  BY <1>1, ScanEndCases
<1> DEFINE s == executeQueue(Now, last, fate, label, busPhase')
           Ended(d) == Executed(d, cmd[d], fate[d], label[d], busPhase')
<1>3. /\ Q \subseteq Commands
      /\ \A d \in Q : /\ Ready(d, cmd[d]) /\ fate[d] \in Fates
                      /\ label[d] \in Labels \cup {NoLabel}
  BY NowGood, QueuedReady DEF Assignments
<1>4. /\ s.cmd \in [Commands -> {s.cmd[d] : d \in Commands}]
      /\ \A d \in Q : s.cmd[d] = Ended(d)
      /\ s.fAfterResetHandledQ =
             {d \in Q : Ended(d).fQueue = "afterResetHandledQ"} \cap {last}
  BY <1>3, NowGood DEF executeQueue, Execute
<1>5. IF s.fAfterResetHandledQ = {}
      THEN Becomes(s)
      ELSE \E result \in DrainResults(s, last) :
              Becomes(Put(s, last, Answered(s.cmd[last], result)))
  BY <1>2 DEF ScanServes
<1> HIDE DEF s, Ended
<1>6. c # last /\ cmd'[c] = Ended(c)
  <2>1. CASE s.fAfterResetHandledQ = {}
    <3>1. cmd' = s.cmd
      BY <1>5, <2>1 DEF Becomes
    <3>2. QED
      BY <1>4, <2>1, <3>1
  <2>2. CASE s.fAfterResetHandledQ # {}
    <3>1. PICK result \in DrainResults(s, last) :
             Becomes(Put(s, last, Answered(s.cmd[last], result)))
      BY <1>5, <2>2
    <3>2. cmd' = [s.cmd EXCEPT ![last] = Answered(s.cmd[last], result)]
      BY <3>1 DEF Becomes, Put
    <3>3. s.cmd[last] \in CommandRecords /\ s.cmd[last] = Ended(last)
      <4>1. /\ last \in Commands /\ Ready(last, cmd[last])
            /\ fate[last] = "sent" <=> label[last] # NoLabel
            /\ fate[last] = "sent" => Current(last, cmd[last])
        BY <1>2, <1>3, NowGood DEF MayExecute, ScanServes
      <4>2. Ended(last) \in CommandRecords
        BY <1>3, <4>1, ExecutedSettled DEF Ended, Settled
      <4>3. QED
        BY <1>4, <4>2
    <3>4. Answered(s.cmd[last], result).fQueue # "afterResetHandledQ"
      BY <3>3 DEF Answered, CommandRecords
    <3>5. QED
      BY <1>3, <1>4, <3>2, <3>4
  <2>3. QED
    BY <2>1, <2>2
<1>7. fate[c] = "refused" /\ ~cmd[c].fFailOnReset /\ scanningBus(busPhase')
  BY <1>3, <1>6, ExecutedQueuedAgain DEF Ended
<1>8. ~Current(c, cmd[c])
  BY <1>2, <1>7, NowGood DEF MayExecute, ScanServes
<1>9. QED
  BY <1>1, <1>2, <1>6, <1>7, <1>8 DEF Current

-----------------------------------------------------------------------------
(* Results.                                                                *)

(* Whatever is submitted, answered, lost, cancelled and reset, the table   *)
(* of labels, the queues and the statuses of the commands say the same.    *)
THEOREM LabelsAgree == Spec => []LabelsAndQueues
<1>1. Inv => LabelsAndQueues
  <2> SUFFICES ASSUME Inv PROVE LabelsAndQueues
    OBVIOUS
  <2>1. TypeOK
    BY NowGood DEF Inv, TypeOK, Good, States, Settled
  <2>2. LabelsOwned
    BY NowGood DEF LabelsOwned, Good, Owned
  <2>3. WaitsAreServed
    BY NowGood DEF WaitsAreServed, Settled, Served
  <2>4. QED
    BY <2>1, <2>2, <2>3 DEF LabelsAndQueues
<1>2. QED
  BY <1>1, Invariance, PTL

(* Every submission is answered once, or twice when the packet after a     *)
(* late response could not be sent; its result says whether all of it was  *)
(* transferred; no request stays out when the bus has changed, and no      *)
(* reset ends a command that outlasts it within 30 seconds.                *)
THEOREM AnswersAreTrue == Spec => []AnsweredTruly
<1>1. Inv => AnsweredTruly
  <2> SUFFICES ASSUME Inv PROVE AnsweredTruly
    OBVIOUS
  <2>1. AnsweredOnce
    BY NowGood DEF AnsweredOnce, Settled, Honest
  <2>2. SuccessIsComplete
    BY NowGood DEF SuccessIsComplete, Settled, Honest
  <2>3. NoStaleRequest /\ ToldOfResets
    BY NowGood DEF NoStaleRequest, ToldOfResets, Settled, Honest
  <2>4. QED
    BY <2>1, <2>2, <2>3 DEF AnsweredTruly
<1>2. QED
  BY <1>1, Invariance, PTL

(* A command that waits for the end of a scan leaves the queue only to be  *)
(* executed or answered, but for the list's two ways to drop it: the end   *)
(* of a scan that leaves the bus unsettled, and the cancellation of a      *)
(* command that was dropped before.                                        *)
THEOREM OnlyUnsettledDropped == Spec => DroppedOnlyUnsettled
<1> DEFINE Kept ==
        \A c \in fAfterResetHandledQ \ fAfterResetHandledQ' :
            cmd'[c].fQueue = "afterResetHandledQ" =>
              \/ /\ unscanned /\ ~unscanned'
                 /\ scanningBus(busPhase')
                 /\ fDevice[c] \notin resumed
                 /\ fAfterResetHandledQ # {c}
              \/ /\ \E d \in cancelling \ cancelling' : Dropped(d)
                 /\ strayHead'
<1>1. Inv /\ [Next]_vars => [Kept]_vars
  <2> SUFFICES ASSUME Inv, Next PROVE Kept
    OBVIOUS
  <2>1. /\ Now.fAfterResetHandledQ = fAfterResetHandledQ
        /\ Now'.fAfterResetHandledQ = fAfterResetHandledQ' /\ Now'.cmd = cmd'
    BY DEF Now
  <2>2. TakenOut(Now, Now') => Kept
    BY <2>1 DEF TakenOut
  <2>3. finishedBusScan => Kept
    BY ScanEndDrops
  <2>4. (LeaveScan \/ \E d \in Devices : updateDevice(d)) => Kept
    BY DEF LeaveScan, updateDevice
  <2>5. ASSUME NEW c \in Commands, cancel(c) PROVE Kept
    BY <2>5, CancelDrops
  <2> HIDE DEF Kept
  <2>6. QED
    BY <2>2, <2>3, <2>4, <2>5, HandlersTakeOut, ResetTakenOut DEF Next
<1>2. QED
  BY <1>1, Invariance, PTL DEF Spec, DroppedOnlyUnsettled
=============================================================================
