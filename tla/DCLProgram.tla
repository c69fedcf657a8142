----------------------------- MODULE DCLProgram -----------------------------
(***************************************************************************)
(* A DCL program with two owners.  The client keeps its commands (NuDCLs)  *)
(* in a pool of the library and edits them whenever it likes; a port copies *)
(* them into the kernel once, and the interface module compiles the copy.  *)
(* An edit reaches the kernel's copy only with a Modify or ModifyJump      *)
(* notification, command by command and while the program may be running.  *)
(***************************************************************************)
EXTENDS Integers, Sequences, FiniteSets

CONSTANTS
    Types,              \* of the commands, in the order they are allocated
    Buffers, Callbacks,     \* what commands use and call
    none,
    MaxNotified,        \* DCLs in one notification (64 in the code)
    MaxEdits,           \* bound: the client's edits
    ProgramRisks        \* what clients may do, of AllProgramRisks

(* To ask for: a command in the middle of the program after which it ends; *)
(* a callback where the port's creation found none, or none where it found *)
(* one; no updates where there were some; a buffer that no command had when *)
(* the port was made; a skip branch to a command that is newer than the    *)
(* port; a skip callback.                                                  *)
AllProgramRisks == {"endInTheMiddle", "firstCallback", "removeCallback",
                    "emptyUpdate", "newBuffer", "skipToNew", "skipCallback"}

DCLProgramAssumption ==
    /\ Types \in Seq({"send", "receive", "skip"})
    /\ MaxNotified \in Nat /\ MaxEdits \in Nat
    /\ ProgramRisks \subseteq AllProgramRisks
ASSUME DCLProgramAssumption

VARIABLES
    user,       \* the pool's commands
    kernel,     \* the port's copies of them, <<>> without a port
    compiled,   \* what the interface module was last told of the copies
    mapped,     \* the buffers that the kernel maps
    running,    \* the program
    edited,     \* the client's edits that no notification has delivered
    notifying,  \* the commands left to import, the step of the first
    edits       \* counts the edits

programVars == <<user, kernel, compiled, mapped, running, edited, notifying, edits>>

Fields == {"ranges", "update", "branch", "callback", "skipBranch", "skipCallback"}
idle == [dcls |-> <<>>, of |-> <<>>, step |-> "none"]

ProgramInit ==
    /\ user = <<>> /\ kernel = <<>> /\ compiled = <<>> /\ mapped = {}
    /\ running = FALSE /\ edited = {} /\ notifying = idle /\ edits = 0

HasPort == kernel # <<>>

-----------------------------------------------------------------------------
(* The client's pool. *)

AppendDCL(r) ==
    /\ Len(user) < Len(Types)
    /\ r = none \/ Types[Len(user) + 1] # "skip"
    /\ user' = Append(user, [ranges |-> r, update |-> {}, branch |-> 0,
                             callback |-> none, skipBranch |-> 0, skipCallback |-> none])
    /\ UNCHANGED <<kernel, compiled, mapped, running, edited, notifying, edits>>

Edit(d, field, value) ==
    /\ d \in DOMAIN user /\ edits < MaxEdits /\ notifying = idle
    /\ user[d][field] # value
    /\ user' = [user EXCEPT ![d][field] = value]
    /\ edits' = edits + 1
    /\ edited' = IF d \in DOMAIN kernel THEN edited \cup {<<d, field>>} ELSE edited
    /\ UNCHANGED <<kernel, compiled, mapped, running, notifying>>

SetRanges(d, r) == Edit(d, "ranges", r)
SetBranch(d, b) == b \in {0} \cup DOMAIN user /\ Edit(d, "branch", b)
SetCallback(d, proc) == Edit(d, "callback", proc)
AppendUpdateList(d, u) ==
    /\ {d, u} \subseteq DOMAIN user
    /\ Edit(d, "update", user[d].update \cup {u})
EmptyUpdateList(d) == Edit(d, "update", {})
SetSkipBranch(d, b) ==
    /\ b \in {0} \cup DOMAIN user /\ Types[d] = "send"
    /\ Edit(d, "skipBranch", b)
SetSkipCallback(d, proc) ==
    /\ Types[d] = "send"
    /\ Edit(d, "skipCallback", proc)

-----------------------------------------------------------------------------
(* Importing one command, step by step; "outside" is the address behind    *)
(* the map that findOffsetInRanges makes of an unknown buffer.             *)

Offset(r, map) == IF r = none \/ r \in map THEN r ELSE "outside"

NoRefcon == [proc |-> none, port |-> FALSE]

Blank == [ranges |-> none, update |-> {}, branch |-> 0, callback |-> FALSE,
          refcon |-> NoRefcon, skipBranch |-> 0, skipCallback |-> FALSE,
          skipRefcon |-> NoRefcon]

RangesAreBad(d) == (user[d].ranges = none) # (Types[d] = "skip")

ImportRanges(k, d, map) ==
    [k EXCEPT !.ranges = Offset(user[d].ranges, map),
              !.update = IF user[d].update = {} THEN @ ELSE user[d].update]

(* The callback is set before its reference, the reference is deleted      *)
(* before the callback is cleared.  A new reference has no port.           *)
ImportCallback(k, proc, callback, refcon) ==
    IF proc # none THEN [k EXCEPT ![callback] = TRUE]
    ELSE IF k[callback] THEN [k EXCEPT ![refcon] = NoRefcon]
    ELSE k

ANewRefcon(k, proc, callback, refcon) ==                           \* mutant
    IF proc = none THEN [k EXCEPT ![callback] = FALSE, ![refcon] = NoRefcon]
    ELSE [k EXCEPT ![refcon] = [proc |-> proc, port |-> FALSE]]

ImportRefcon(k, proc, callback, refcon) ==
    IF proc = none THEN [k EXCEPT ![callback] = FALSE, ![refcon] = NoRefcon]
    ELSE [k EXCEPT ![refcon].proc = proc]

OutOfRange(index, count) == index > count

ImportBranch(k, d) == [k EXCEPT !.branch = user[d].branch]

ImportSkipBranch(k, d, count) ==
    IF OutOfRange(user[d].skipBranch, count) THEN k
    ELSE [k EXCEPT !.skipBranch = user[d].skipBranch]

ImportCallbacks(k, proc, callback, refcon) ==
    ImportRefcon(ImportCallback(k, proc, callback, refcon), proc, callback, refcon)

(* importUserDCL as a whole, as the port's creation uses it. *)
importUserDCL(d, count, map) ==
    LET own == ImportBranch(ImportCallbacks(ImportRanges(Blank, d, map),
                                user[d].callback, "callback", "refcon"), d)
    IN  IF Types[d] # "send" THEN own
        ELSE ImportCallbacks(ImportSkipBranch(own, d, count),
                 user[d].skipCallback, "skipCallback", "skipRefcon")

-----------------------------------------------------------------------------
(* The port: everything is exported, mapped, imported and compiled; at the *)
(* end setAsyncRef_DCLCallProc writes the client's port into the           *)
(* references of the callbacks, but not of the skip callbacks.             *)

WithPort(k) == IF k.callback THEN [k EXCEPT !.refcon.port = TRUE] ELSE k

CreatePort ==
    LET map == {user[d].ranges : d \in DOMAIN user} \ {none}
        copies == [d \in DOMAIN user |->
                      WithPort(importUserDCL(d, Len(user), map))]
    IN  /\ user # <<>> /\ ~HasPort /\ notifying = idle
        /\ \A d \in DOMAIN user :
              /\ ~RangesAreBad(d)
              /\ "skipCallback" \in ProgramRisks \/ user[d].skipCallback = none
        /\ kernel' = copies
        /\ compiled' = copies
        /\ mapped' = map
        /\ edited' = {}
        /\ UNCHANGED <<user, running, notifying, edits>>

Start ==
    /\ HasPort /\ ~running
    /\ running' = TRUE
    /\ UNCHANGED <<user, kernel, compiled, mapped, edited, notifying, edits>>

Stop ==
    /\ running
    /\ running' = FALSE
    /\ UNCHANGED <<user, kernel, compiled, mapped, edited, notifying, edits>>

-----------------------------------------------------------------------------
(* Modify. *)

(* What a client that keeps away from the risks asks of a command. *)
Careful(d) ==
    /\ "endInTheMiddle" \in ProgramRisks \/ user[d].branch # 0 \/ d = Len(kernel)
    /\ "firstCallback" \in ProgramRisks \/ user[d].callback = none \/ kernel[d].callback
    /\ "removeCallback" \in ProgramRisks \/ user[d].callback # none \/ ~kernel[d].callback
    /\ "emptyUpdate" \in ProgramRisks \/ user[d].update # {} \/ kernel[d].update = {}
    /\ "newBuffer" \in ProgramRisks \/ user[d].ranges \in mapped \cup {none}
    /\ "skipToNew" \in ProgramRisks \/ user[d].skipBranch <= Len(kernel)
    /\ "skipCallback" \in ProgramRisks \/ user[d].skipCallback = none

NotifyModify(dcls) ==
    /\ HasPort /\ notifying = idle
    /\ Len(dcls) <= MaxNotified
    /\ \A i \in DOMAIN dcls : dcls[i] \in DOMAIN kernel => Careful(dcls[i])
    /\ notifying' = [dcls |-> dcls, of |-> dcls, step |-> "ranges"]
    /\ UNCHANGED <<user, kernel, compiled, mapped, running, edited, edits>>

(* A command without a branch gets the next one of the program. *)
WithBranch(k, d) ==
    IF k.branch = 0 /\ d < Len(kernel) THEN [k EXCEPT !.branch = d + 1] ELSE k

(* A step of the import of command d; the last one turns to the next       *)
(* command, or to the interface module, which compiles all of them; an     *)
(* error leaves the rest of the commands alone and compiles nothing.       *)
Imports(step, d, k) ==
    /\ notifying.step = step /\ d = Head(notifying.dcls)
    /\ kernel' = [kernel EXCEPT ![d] = k]

To(step) == /\ notifying' = [notifying EXCEPT !.step = step]
            /\ UNCHANGED <<compiled, edited>>

Fails == notifying' = idle /\ UNCHANGED <<compiled, edited>>

Compile(dcls, kept) ==
    /\ compiled' = [d \in DOMAIN compiled |-> IF d \in dcls THEN kernel'[d] ELSE compiled[d]]
    /\ edited' = {e \in edited : e[1] \notin kept}
    /\ notifying' = idle

ToNextDCL ==
    IF Len(notifying.dcls) > 1
    THEN /\ notifying' = [notifying EXCEPT !.dcls = Tail(@), !.step = "ranges"]
         /\ UNCHANGED <<compiled, edited>>
    ELSE LET all == {notifying.of[i] : i \in DOMAIN notifying.of} IN Compile(all, all)

UnknownDCL ==
    /\ notifying.step = "ranges" /\ Head(notifying.dcls) \notin DOMAIN kernel
    /\ Fails
    /\ UNCHANGED <<user, kernel, mapped, running, edits>>

ModifyStep(d) ==
    /\ d \in DOMAIN kernel
    /\ LET k == kernel[d] IN
       \/ /\ RangesAreBad(d)
          /\ Imports("ranges", d,
                 WithBranch([ImportRanges(k, d, mapped) EXCEPT !.ranges = none], d))
          /\ Fails
       \/ /\ ~RangesAreBad(d)
          /\ Imports("ranges", d, ImportRanges(k, d, mapped))
          /\ To("callback")
       \/ /\ Imports("callback", d,
                 ImportCallback(k, user[d].callback, "callback", "refcon"))
          /\ To("refcon")
       \/ /\ Imports("refcon", d,
                 ImportRefcon(k, user[d].callback, "callback", "refcon"))
          /\ To("branch")
       \/ /\ OutOfRange(user[d].branch, Len(kernel))
          /\ Imports("branch", d, WithBranch(k, d))
          /\ Fails
       \/ /\ ~OutOfRange(user[d].branch, Len(kernel)) /\ Types[d] # "send"
          /\ Imports("branch", d, WithBranch(ImportBranch(k, d), d))
          /\ ToNextDCL
       \/ /\ ~OutOfRange(user[d].branch, Len(kernel)) /\ Types[d] = "send"
          /\ Imports("branch", d, ImportBranch(k, d))
          /\ To("skip")
       \/ /\ Imports("skip", d,
                 ImportCallback(ImportSkipBranch(k, d, Len(kernel)),
                     user[d].skipCallback, "skipCallback", "skipRefcon"))
          /\ To("skipRefcon")
       \/ /\ Imports("skipRefcon", d,
                 WithBranch(ImportRefcon(k, user[d].skipCallback,
                                "skipCallback", "skipRefcon"), d))
          /\ ToNextDCL
    /\ UNCHANGED <<user, mapped, running, edits>>

(* ModifyJump: branches only, and no branch stays none. *)
NotifyModifyJump(d) ==
    /\ notifying = idle /\ d \in DOMAIN kernel
    /\ ~OutOfRange(user[d].branch, Len(kernel))
    /\ kernel' = [kernel EXCEPT ![d].branch = user[d].branch]
    /\ compiled' = [compiled EXCEPT ![d].branch = user[d].branch]
    /\ edited' = edited \ {<<d, "branch">>}
    /\ UNCHANGED <<user, mapped, running, notifying, edits>>

Lists == UNION {[1..n -> DOMAIN Types] : n \in 1..MaxNotified}

ProgramNext ==
    \/ \E r \in Buffers \cup {none} : AppendDCL(r)
    \/ \E d \in DOMAIN Types, r \in Buffers \cup {none} : SetRanges(d, r)
    \/ \E d \in DOMAIN Types, b \in {0} \cup DOMAIN Types : SetBranch(d, b)
    \/ \E d \in DOMAIN Types, p \in Callbacks \cup {none} : SetCallback(d, p)
    \/ \E d, u \in DOMAIN Types : AppendUpdateList(d, u)
    \/ \E d \in DOMAIN Types : EmptyUpdateList(d)
    \/ \E d \in DOMAIN Types, b \in {0} \cup DOMAIN Types : SetSkipBranch(d, b)
    \/ \E d \in DOMAIN Types, p \in Callbacks \cup {none} : SetSkipCallback(d, p)
    \/ CreatePort \/ Start \/ Stop
    \/ \E dcls \in Lists : NotifyModify(dcls)
    \/ \E d \in DOMAIN Types : ModifyStep(d) \/ NotifyModifyJump(d)
    \/ UnknownDCL

ProgramSpec == ProgramInit /\ [][ProgramNext]_programVars

-----------------------------------------------------------------------------
(* Between notifications, what the client has not edited since its last    *)
(* good notification runs as the client's commands say: the copy and the   *)
(* compiled program have the client's buffers, updates and branches, and   *)
(* the copy calls the client's procedures.                                 *)
Told(d, field) ==
    CASE field = "callback" ->
            IF user[d].callback = none THEN ~kernel[d].callback
            ELSE kernel[d].callback /\ kernel[d].refcon.proc = user[d].callback
      [] field = "skipCallback" ->
            (user[d].skipCallback # none) = kernel[d].skipCallback
      [] OTHER -> /\ kernel[d][field] = user[d][field]
                  /\ compiled[d][field] = user[d][field]

RunsAsTold ==
    notifying = idle =>
        \A d \in DOMAIN kernel, field \in Fields :
            <<d, field>> \notin edited => Told(d, field)

(* Whenever the program runs, also while a command is imported, a callback *)
(* that the interface module may make at any moment has its asynchronous   *)
(* reference, with the client's port and a procedure in it.                *)
Referenced(callback, refcon) ==
    callback => refcon.port /\ refcon.proc \in Callbacks

CalloutsHaveTheirReference ==
    running => \A d \in DOMAIN kernel :
        /\ Referenced(kernel[d].callback, kernel[d].refcon)
        /\ Referenced(kernel[d].skipCallback, kernel[d].skipRefcon)

=============================================================================
