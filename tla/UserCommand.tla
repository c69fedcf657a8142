---------------------------- MODULE UserCommand ----------------------------
(***************************************************************************)
(* The command objects of the user space library and what they are in the  *)
(* kernel: an IOFireWireLibCommand (Cmd and its subclasses) that is set up  *)
(* and submitted over and over, the IOFWUserCommand the user client keeps   *)
(* for it, the IOFireWireLibVectorCommand that submits several of them with *)
(* one kernel call, its IOFWUserVectorCommand, and the port on which the    *)
(* kernel's completion messages travel to the client's run loop.            *)
(*                                                                          *)
(* Both sides keep state about the same submission: whether it is executing *)
(* (mIsExecuting, mInflightCount / fInflightCmds), which memory is wired    *)
(* for it (staleFlags / fMem), how its completion is laid out.  The module  *)
(* asks whether the two sides can disagree.                                 *)
(*                                                                          *)
(* Abstracted: the asynchronous transaction itself (module AsyncCommand),   *)
(* statuses, targets, generations, timeouts, retries, speeds; Read, Write,  *)
(* PHY and AsyncStream commands differ in no state kept here and are "read".*)
(*                                                                          *)
(* Races switches on what breaks the properties; see the README:            *)
(*   "failsAtOnce"   a submission that is completed before it is returned   *)
(*   "vectorFails"   a vector one of whose commands the kernel refuses      *)
(*   "otherThread"   completions delivered by another thread than the       *)
(*                   submitting one                                         *)
(*   "capacity"      EnsureCapacity beyond the number of commands           *)
(*   "twice"         a command that a vector has twice                      *)
(*   "shrink"        RemoveCommand from a vector that has been submitted    *)
(*   "editInFlight"  AddCommand while the vector is executing               *)
(*   "modeSwitch"    a quadlet read made asynchronous after it was used     *)
(*                   synchronously                                          *)
(*   "releaseBusy"   the last Release of a command that is executing        *)
(***************************************************************************)
EXTENDS Integers, Sequences, FiniteSets, SequencesExt

CONSTANTS
    Commands,   \* the client's command objects
    Types,      \* the kinds each of them may be of
    Buffers,    \* the client's buffers
    Vector,     \* the client's vector command
    None,
    Races,      \* what the environment may do that the code does not survive
    MaxCalls    \* BOUND: submissions by the client

ASSUME UserCommandAssumption ==
    /\ Types \in [Commands -> SUBSET {"read", "readQuad", "writeQuad", "compareSwap"}]
    /\ Races \subseteq {"failsAtOnce", "vectorFails", "otherThread", "capacity", "shrink", "twice",
                        "editInFlight", "modeSwitch", "releaseBusy"}
    /\ MaxCalls \in Nat
    /\ Vector \notin Commands
    /\ None \notin Commands \cup Buffers \cup {Vector}

VARIABLES
    type,          \* mParams->type of each command
    lib,           \* the library's Cmd objects
    kern,          \* the kernel's IOFWUserCommand objects
    mCommandArray, \* the vector's commands
    vector,        \* the library's VectorCommand: mInflightCount and its two buffers
    kvector,       \* the kernel's IOFWUserVectorCommand
    port,          \* the messages on their way to the run loop
    caller,        \* the library call that is between the kernel's answer and its return
    owed,          \* HISTORY: accepted submissions whose callback has not been called
    calls          \* BOUND: submissions so far

vars == <<type, lib, kern, mCommandArray, vector, kvector, port, caller, owed, calls>>

Nobody == [call |-> "none", cmd |-> None, error |-> FALSE]

kMaxWriteQuads == 8

-----------------------------------------------------------------------------
(* The library's half of a command                                          *)

(* kFireWireCommandUseCopy: the data travels in line, behind the parameters *)
UseCopy(c) == type[c] # "read"

(* A new Cmd: everything about it is stale and the kernel does not know it  *)
NewCmd(n) ==
    [mIsExecuting |-> FALSE, sync |-> FALSE, stale |-> TRUE,
     newBuffer |-> CHOOSE b \in Buffers : TRUE, quads |-> n, kernCommandRef |-> FALSE]

(* newBufferSize of a quadlet command: the constructors and SetQuads store  *)
(* the number of bytes                                                      *)
NewBufferSize(c) == 4 * lib[c].quads

NoKernelCommand ==
    [fMem |-> None, fQuads |-> FALSE, fCommand |-> "none", pending |-> FALSE, uses |-> None,
     reply |-> "none", fVectorCommand |-> FALSE, numQuads |-> 0]

-----------------------------------------------------------------------------
(* The kernel's half: IOFWUserCommand                                       *)

(* withSubmitParams: a read has its memory wired as soon as it is made      *)
WithSubmitParams(c) ==
    [NoKernelCommand EXCEPT
        !.fMem = IF type[c] \in {"read", "readQuad", "writeQuad"} THEN lib[c].newBuffer ELSE None]

(* The buffers are looked at only when the parameters say they are stale:   *)
(* the old memory is unwired, and the new one wired unless the data is in   *)
(* line; an asynchronous in-line read gets a quadlet buffer of the kernel's *)
Rebuffered(k, c) ==
    IF ~lib[c].stale \/ type[c] = "compareSwap" THEN k
    ELSE [k EXCEPT
            !.fMem = IF UseCopy(c) THEN None ELSE lib[c].newBuffer,
            !.fQuads = type[c] = "readQuad" /\ ~lib[c].sync]

(* fCopyFlag, which nothing assigns: an in-line command is made anew at     *)
(* every submission, a memory command is used again                         *)
fCopyFlag(k) == FALSE

Recycled(k, c) == k.fCommand # "none" /\ fCopyFlag(k) = UseCopy(c)

(* How the completion routine lays out its message.  A quadlet read that    *)
(* is used again gets the routine of the memory commands                    *)
ReplyOf(k, c) ==
    CASE lib[c].sync -> "none"
      [] type[c] = "compareSwap" -> "lock"
      [] type[c] = "readQuad" /\ ~Recycled(k, c) -> "quads"
      [] OTHER -> "transfer"

(* The number of quadlets the kernel command is made with                   *)
NumQuads(c) == IF type[c] \in {"readQuad", "writeQuad"} THEN NewBufferSize(c) ELSE 0

(* IOFWWriteQuadCommand::initAll fails beyond kMaxWriteQuads                *)
Refuses(c) == type[c] = "writeQuad" /\ NumQuads(c) > kMaxWriteQuads

(* The command just before fCommand->submit()                               *)
Prepared(k, c) ==
    LET b == Rebuffered(k, c)
    IN  [b EXCEPT !.fCommand = IF UseCopy(c) THEN "copy" ELSE "memory",
                  !.uses = IF UseCopy(c) THEN None ELSE b.fMem,
                  !.reply = ReplyOf(b, c),
                  !.numQuads = NumQuads(c)]

(* How the submission of c ends for the kernel.  "refused": an error and no *)
(* completion; "atOnce": the completion, then the error                     *)
Outcomes(c, races) ==
    {IF Refuses(c) \/ kern[c].pending THEN "refused" ELSE "accepted"}
        \cup (IF "vectorFails" \in races THEN {"refused", "atOnce"} ELSE {})
        \cup (IF "failsAtOnce" \in races /\ ~lib[c].sync THEN {"atOnce"} ELSE {})

(* fMem and fCommand after a submission.  reinit of a command that is still *)
(* pending fails, but its memory has been replaced by then                  *)
Submitted(k, c, outcome) ==
    CASE k.pending -> Rebuffered(k, c)
      [] outcome = "accepted" -> [Prepared(k, c) EXCEPT !.pending = TRUE]
      [] outcome = "atOnce" -> Prepared(k, c)
      [] outcome = "refused" -> [Rebuffered(k, c) EXCEPT !.fCommand = "none"]

(* The kernel object that submit() finds: the one of kernCommandRef, or a   *)
(* new one                                                                  *)
KernelCommand(c) == IF lib[c].kernCommandRef THEN kern[c] ELSE WithSubmitParams(c)

-----------------------------------------------------------------------------
(* Completion                                                               *)

Message(c, reply) == [to |-> c, reply |-> reply]

(* MUTANT of VectorCompletion: the command stays connected to the vector    *)
StaysConnected(kv, results, c) ==
    IF kv.fInflightCmds = 0 THEN [kv |-> kv, results |-> results, done |-> FALSE, told |-> FALSE]
    ELSE [kv |-> [fInflightCmds |-> kv.fInflightCmds - 1, fResultOffset |-> kv.fResultOffset + 1],
          results |-> [i \in DOMAIN results |-> IF i = kv.fResultOffset + 1 THEN c ELSE results[i]],
          done |-> kv.fInflightCmds = 1, told |-> FALSE]

(* IOFWUserVectorCommand::asyncCompletion: ignored when nothing is in       *)
(* flight; writes one result at the offset, disconnects the command and,    *)
(* when it was the last, sends the vector's message                         *)
VectorCompletion(kv, results, c) ==
    IF kv.fInflightCmds = 0 THEN [kv |-> kv, results |-> results, done |-> FALSE, told |-> FALSE]
    ELSE [kv |-> [fInflightCmds |-> kv.fInflightCmds - 1, fResultOffset |-> kv.fResultOffset + 1],
          results |-> [i \in DOMAIN results |-> IF i = kv.fResultOffset + 1 THEN c ELSE results[i]],
          done |-> kv.fInflightCmds = 1, told |-> TRUE]

(* asyncReadWriteCommandCompletion and its like: the vector of the command, *)
(* or else the client, is told.  A synchronous command has no such routine  *)
CommandCompletes(c) ==
    /\ kern[c].pending
    /\ IF kern[c].fVectorCommand /\ kern[c].reply # "none"
       THEN LET v == VectorCompletion(kvector, vector.mResultBuffer, c)
            IN  /\ kvector' = v.kv
                /\ vector' = [vector EXCEPT !.mResultBuffer = v.results]
                /\ port' = IF v.done THEN Append(port, Message(Vector, "vector")) ELSE port
                /\ kern' = [kern EXCEPT ![c].pending = FALSE, ![c].uses = None,
                                        ![c].fVectorCommand = ~v.told]
       ELSE /\ port' = IF kern[c].reply = "none" THEN port
                       ELSE Append(port, Message(c, kern[c].reply))
            /\ kern' = [kern EXCEPT ![c].pending = FALSE, ![c].uses = None]
            /\ UNCHANGED <<kvector, vector>>
    /\ UNCHANGED <<type, lib, mCommandArray, caller, owed, calls>>

-----------------------------------------------------------------------------
(* The client sets its commands up                                          *)

Idle == caller = Nobody

(* SetBuffer, SetQuads and SetValues only mark the parameters stale, also   *)
(* while the command is executing                                           *)
SetBuffer(c) ==
    /\ Idle
    /\ \E b \in Buffers, n \in {1, 3} :
        /\ type[c] = "read" => n = lib[c].quads
        /\ type[c] # "read" => b = lib[c].newBuffer
        /\ type[c] = "compareSwap" => n = lib[c].quads
        /\ lib[c].sync /\ type[c] = "writeQuad" => n = 1
        /\ lib' = [lib EXCEPT ![c].newBuffer = b, ![c].quads = n, ![c].stale = TRUE]
    /\ UNCHANGED <<type, kern, mCommandArray, vector, kvector, port, caller, owed, calls>>

(* SetCallback: a command without a callback executes synchronously.  A     *)
(* synchronous write of more quadlets than fit is left out: the kernel asks *)
(* the command it could not make for its status                             *)
SetCallback(c) ==
    /\ Idle
    /\ ~lib[c].mIsExecuting
    /\ ~Refuses(c)
    /\ type[c] = "readQuad" /\ lib[c].sync /\ ~lib[c].stale => "modeSwitch" \in Races
    /\ lib' = [lib EXCEPT ![c].sync = ~lib[c].sync]
    /\ UNCHANGED <<type, kern, mCommandArray, vector, kvector, port, caller, owed, calls>>

(* The last Release: the kernel's object goes too, and a command still      *)
(* pending is cancelled, which completes it                                 *)
Release(c) ==
    /\ Idle
    /\ c \notin Range(mCommandArray)
    /\ lib[c].mIsExecuting => "releaseBusy" \in Races
    /\ lib[c].kernCommandRef
    /\ lib' = [lib EXCEPT ![c] = NewCmd(1)]
    /\ kern' = [kern EXCEPT ![c] = NoKernelCommand]
    /\ port' = IF kern[c].pending THEN Append(port, Message(c, kern[c].reply)) ELSE port
    /\ UNCHANGED <<type, mCommandArray, vector, kvector, caller, owed, calls>>

-----------------------------------------------------------------------------
(* The check that each subclass' Submit starts with                         *)
MayBeSubmitted(c) == ~lib[c].mIsExecuting

(* Cmd::Submit and the user client's userAsyncCommand_Submit: the kernel    *)
(* call, and what the library does with its answer                          *)
Submit(c) ==
    /\ Idle
    /\ MayBeSubmitted(c)
    /\ calls < MaxCalls
    /\ calls' = calls + 1
    /\ \E outcome \in Outcomes(c, Races \ {"vectorFails"}) :
        /\ kern' = [kern EXCEPT ![c] = Submitted(KernelCommand(c), c, outcome)]
        /\ port' = IF outcome = "atOnce" THEN Append(port, Message(c, kern'[c].reply)) ELSE port
        /\ caller' = [call |-> "submit", cmd |-> c, error |-> outcome # "accepted"]
        /\ owed' = IF outcome = "accepted" /\ ~lib[c].sync THEN owed \cup {c} ELSE owed
    /\ UNCHANGED <<type, lib, mCommandArray, vector, kvector>>

(* A synchronous submission comes back when the command is complete         *)
SubmitReturns ==
    LET c == caller.cmd
    IN  /\ caller.call = "submit"
        /\ lib[c].sync => ~kern[c].pending
        /\ lib' = IF caller.error THEN lib
                  ELSE [lib EXCEPT ![c].mIsExecuting = ~lib[c].sync,
                                   ![c].stale = FALSE,
                                   ![c].kernCommandRef = TRUE]
        /\ caller' = Nobody
        /\ UNCHANGED <<type, kern, mCommandArray, vector, kvector, port, owed, calls>>

-----------------------------------------------------------------------------
(* The vector command                                                       *)

(* The vector takes a command also when it has it already.                  *)
AddCommand(c) ==
    /\ Idle
    /\ Len(mCommandArray) < Cardinality(Commands)                       \* BOUND
    /\ c \in Range(mCommandArray) => "twice" \in Races
    /\ vector.mInflightCount > 0 => "editInFlight" \in Races
    /\ mCommandArray' = Append(mCommandArray, c)
    /\ UNCHANGED <<type, lib, kern, vector, kvector, port, caller, owed, calls>>

(* All instances of the command go.  A vector that has not been submitted   *)
(* since it grew can shrink                                                 *)
RemoveCommand(c) ==
    /\ Idle
    /\ c \in Range(mCommandArray)
    /\ \/ "shrink" \in Races
       \/ Len(mCommandArray) > Len(vector.mSubmitBuffer) /\ vector.mInflightCount = 0
    /\ mCommandArray' = Remove(mCommandArray, c)
    /\ UNCHANGED <<type, lib, kern, vector, kvector, port, caller, owed, calls>>

(* EnsureCapacity: both buffers are replaced, by zeroes, when one is short; *)
(* the kernel drops the old ones first                                      *)
WithCapacity(v, n) ==
    IF Len(v.mSubmitBuffer) >= n THEN v
    ELSE [v EXCEPT !.mSubmitBuffer = [i \in 1..n |-> None], !.mResultBuffer = [i \in 1..n |-> None]]

EnsureCapacity ==
    /\ Idle
    /\ \E n \in 1..Cardinality(Commands) :
        /\ vector.mInflightCount > 0 \/ n > Len(mCommandArray) => "capacity" \in Races
        /\ vector' = WithCapacity(vector, n)
    /\ UNCHANGED <<type, lib, kern, mCommandArray, kvector, port, caller, owed, calls>>

(* MUTANT of Vectorable: a synchronous command may be part of a vector      *)
VectorableSync(c) == ~lib[c].mIsExecuting /\ type[c] = "read"

(* PrepareForVectorSubmit                                                   *)
Vectorable(c) == ~lib[c].mIsExecuting /\ ~lib[c].sync /\ type[c] = "read"

(* The commands before the first one that is refused have their kernel      *)
(* command made, and it is kept whatever happens to the vector              *)
PreparedCommands ==
    {mCommandArray[i] : i \in {j \in DOMAIN mCommandArray :
                                  \A l \in 1..j : Vectorable(mCommandArray[l])}}

(* One step of the kernel's loop over the whole submit buffer               *)
(* (submitOneCommand).  The command is connected to the vector before it is *)
(* submitted and counted after, whatever its submission returned; the gate  *)
(* is closed, so that none completes meanwhile, and the second submission   *)
(* of a command is refused                                                  *)
SubmitOneCommand(s, c) ==
    IF s.error \/ c = None \/ ~s.lib[c].kernCommandRef
    THEN [s EXCEPT !.error = TRUE]
    ELSE LET outcome == IF s.kern[c].pending THEN "refused" ELSE s.outcomes[c]
             k == Submitted(s.kern[c], c, outcome)
             v == IF outcome = "atOnce" THEN VectorCompletion(s.kv, s.results, c)
                  ELSE [kv |-> s.kv, results |-> s.results, done |-> FALSE, told |-> FALSE]
         IN  [s EXCEPT !.kern[c] = [k EXCEPT !.fVectorCommand = ~v.told],
                       !.kv = [v.kv EXCEPT !.fInflightCmds = @ + 1],
                       !.results = v.results,
                       !.sent = @ + (IF v.done THEN 1 ELSE 0),
                       !.error = outcome # "accepted"]

(* VectorCommand::Submit up to the kernel's answer                          *)
VectorSubmit ==
    LET v0 == WithCapacity(vector, Len(mCommandArray))
        lib0 == [c \in Commands |-> IF c \in PreparedCommands
                                    THEN [lib[c] EXCEPT !.kernCommandRef = TRUE] ELSE lib[c]]
        kern0 == [c \in Commands |-> IF c \in PreparedCommands THEN KernelCommand(c) ELSE kern[c]]
        entries == [i \in DOMAIN v0.mSubmitBuffer |->
                      IF i <= Len(mCommandArray) THEN mCommandArray[i] ELSE v0.mSubmitBuffer[i]]
    IN  /\ Idle
        /\ vector.mInflightCount = 0
        /\ calls < MaxCalls
        /\ calls' = calls + 1
        /\ lib' = lib0
        /\ IF PreparedCommands # Range(mCommandArray) \/ v0.mSubmitBuffer = <<>>
           THEN /\ kern' = kern0
                /\ vector' = v0
                /\ UNCHANGED <<kvector, port, caller, owed>>
           ELSE \E outcomes \in [Commands -> {"accepted", "refused", "atOnce"}] :
                /\ \A c \in Commands : outcomes[c] \in Outcomes(c, Races \ {"failsAtOnce"})
                                       \/ (c \notin Range(entries) /\ outcomes[c] = "accepted")
                /\ LET s0 == [lib |-> lib0, kern |-> kern0, outcomes |-> outcomes, error |-> FALSE,
                              kv |-> [fInflightCmds |-> 0, fResultOffset |-> 0],
                              results |-> v0.mResultBuffer, sent |-> 0]
                       s == FoldLeft(SubmitOneCommand, s0, entries)
                   IN  /\ kern' = s.kern
                       /\ kvector' = s.kv
                       /\ vector' = [mInflightCount |-> 0,
                                     mSubmitBuffer |-> entries, mResultBuffer |-> s.results]
                       /\ port' = IF s.sent > 0 THEN Append(port, Message(Vector, "vector")) ELSE port
                       /\ caller' = [call |-> "vector", cmd |-> Vector, error |-> s.error]
                       /\ owed' = IF s.error THEN owed
                                  ELSE owed \cup {Vector} \cup Range(mCommandArray)
        /\ UNCHANGED <<type, mCommandArray>>

(* ... and after it: the commands are counted as in flight also when the    *)
(* kernel refused them                                                      *)
VectorSubmitReturns ==
    /\ caller.call = "vector"
    /\ vector' = [vector EXCEPT !.mInflightCount = Len(mCommandArray)]
    /\ lib' = IF caller.error THEN lib
              ELSE [c \in Commands |-> IF c \in Range(mCommandArray)
                                       THEN [lib[c] EXCEPT !.mIsExecuting = TRUE, !.stale = FALSE]
                                       ELSE lib[c]]
    /\ caller' = Nobody
    /\ UNCHANGED <<type, kern, mCommandArray, kvector, port, owed, calls>>

-----------------------------------------------------------------------------
(* The run loop delivers a message.  CommandCompletionHandler of a command; *)
(* of a vector, the handlers of as many results as it has commands now      *)
Handled == LET m == Head(port)
           IN  IF m.to = Vector
               THEN {vector.mResultBuffer[i] :
                        i \in 1..Len(mCommandArray) \cap DOMAIN vector.mResultBuffer} \ {None}
               ELSE {m.to}

Deliver ==
    /\ port # <<>>
    /\ Idle \/ "otherThread" \in Races
    /\ port' = Tail(port)
    /\ lib' = [c \in Commands |-> IF c \in Handled THEN [lib[c] EXCEPT !.mIsExecuting = FALSE]
                                  ELSE lib[c]]
    /\ vector' = IF Head(port).to # Vector THEN vector
                 ELSE [vector EXCEPT !.mInflightCount =
                          IF @ > Len(mCommandArray) THEN @ - Len(mCommandArray) ELSE 0]
    /\ owed' = owed \ (Handled \cup {Head(port).to})
    /\ UNCHANGED <<type, kern, mCommandArray, kvector, caller, calls>>

-----------------------------------------------------------------------------
Init ==
    /\ type \in {t \in [Commands -> UNION Range(Types)] : \A c \in Commands : t[c] \in Types[c]}
    /\ lib = [c \in Commands |-> NewCmd(1)]
    /\ kern = [c \in Commands |-> NoKernelCommand]
    /\ mCommandArray = <<>>
    /\ vector = [mInflightCount |-> 0, mSubmitBuffer |-> <<>>, mResultBuffer |-> <<>>]
    /\ kvector = [fInflightCmds |-> 0, fResultOffset |-> 0]
    /\ port = <<>>
    /\ caller = Nobody
    /\ owed = {}
    /\ calls = 0

ClientCalls ==
    \/ \E c \in Commands : SetBuffer(c) \/ SetCallback(c) \/ Release(c) \/ Submit(c)
    \/ \E c \in Commands : AddCommand(c) \/ RemoveCommand(c)
    \/ EnsureCapacity
    \/ VectorSubmit

Returns == SubmitReturns \/ VectorSubmitReturns

Next == ClientCalls \/ Returns \/ Deliver \/ \E c \in Commands : CommandCompletes(c)

Spec == Init /\ [][Next]_vars

(* A call that has been made returns, an asynchronous command completes     *)
(* (module AsyncCommand) and the run loop runs                              *)
FairSpec ==
    /\ Spec
    /\ WF_vars(Returns)
    /\ WF_vars(Deliver)
    /\ \A c \in Commands : WF_vars(CommandCompletes(c))

-----------------------------------------------------------------------------
(* Properties                                                               *)

TypeOK ==
    /\ \A c \in Commands : /\ type[c] \in Types[c]
                           /\ lib[c].newBuffer \in Buffers
                           /\ kern[c].fMem \in Buffers \cup {None}
                           /\ kern[c].uses \in Buffers \cup {None}
    /\ vector.mInflightCount \in 0..Cardinality(Commands)
    /\ kvector.fInflightCmds \in 0..Cardinality(Commands)
    /\ owed \subseteq Commands \cup {Vector}

(* A command's answer is on its way: the kernel has it pending, or its      *)
(* message, or its vector's message with its result, is in the port         *)
OnItsWay(c) ==
    \/ kern[c].pending
    \/ \E i \in DOMAIN port : port[i].to = c
    \/ c \in {vector.mResultBuffer[i] : i \in DOMAIN vector.mResultBuffer}
       /\ (kvector.fInflightCmds > 0 \/ \E i \in DOMAIN port : port[i].to = Vector)

(* IOFireWireLib.h, IsExecuting: "Is this command object currently          *)
(* executing?"  When no call is in progress, mIsExecuting is set for        *)
(* exactly the commands whose callback the client has been promised, and    *)
(* their answer is on its way; the vector's count says the same of it       *)
ExecutingIsTrue ==
    Idle =>
        /\ \A c \in Commands : /\ lib[c].mIsExecuting <=> c \in owed
                               /\ lib[c].mIsExecuting => OnItsWay(c)
        /\ vector.mInflightCount > 0 <=> Vector \in owed
        /\ \A i \in DOMAIN port : port[i].to \in owed
        /\ TypeOK

(* Memory that a pending command reads or writes stays wired until it is    *)
(* complete, though the client changes the buffer meanwhile; an in-line     *)
(* read has quadlets to read into                                           *)
MemoryStaysWired ==
    \A c \in Commands : kern[c].pending =>
        /\ kern[c].uses # None => kern[c].fMem = kern[c].uses
        /\ kern[c].reply = "quads" => kern[c].fQuads

(* The handler of every message in the port expects the layout the kernel   *)
(* used: ReadQuadCmd's takes quadlets behind two codes, CompareSwapCmd's    *)
(* seven words, the others three                                            *)
Expects(c) ==
    CASE type[c] = "readQuad" -> "quads"
      [] type[c] = "compareSwap" -> "lock"
      [] OTHER -> "transfer"

MessagesAreUnderstood ==
    \A i \in DOMAIN port : port[i].to # Vector => port[i].reply = Expects(port[i].to)

(* When the vector's message is delivered, the results that are handed out  *)
(* are those of its commands, each once: all are complete (IOFireWireLib.h: *)
(* "When all the commands in a vector command are complete the vector       *)
(* command's completion is called") and none is left over from an earlier   *)
(* submission                                                               *)
VectorIsComplete ==
    \A i \in DOMAIN port : port[i].to = Vector =>
        /\ Range(mCommandArray) = {vector.mResultBuffer[j] : j \in DOMAIN vector.mResultBuffer}
        /\ kvector.fInflightCmds = 0
        /\ \A c \in Range(mCommandArray) : ~kern[c].pending /\ ~kern[c].fVectorCommand

(* Every accepted submission is answered                                    *)
EveryCallback == \A w \in Commands \cup {Vector} : w \in owed ~> w \notin owed

(* IOFireWireLibPriv.h on newBufferSize: "note: means numQuads for quadlet  *)
(* commands!"  The kernel transfers as many quadlets as the client asked    *)
(* for.  It does not: the library counts bytes                              *)
QuadletsAsAsked ==
    \A c \in Commands : kern[c].pending /\ type[c] \in {"readQuad", "writeQuad"}
                           => kern[c].numQuads = lib[c].quads
=============================================================================
