-------------------------- MODULE LegacyDCLProgram --------------------------
(***************************************************************************)
(* DCL programs of the old kind: a list of commands in the client's memory *)
(* that point at each other.  The library writes them one behind the other *)
(* into a block and turns pointers into offsets (ExportDCLs); the kernel   *)
(* builds its commands at the same offsets (importUserProgram), one by one,*)
(* in memory that holds anything until its command has been built.         *)
(***************************************************************************)
EXTENDS Integers, Sequences, FiniteSetsExt

CONSTANTS
    MaxCommands,        \* bound: commands of a program
    MaxUpdates,         \* bound: the length of an update list
    MaxJumpEdits,       \* bound: calls of ModifyJumpDCL
    LegacyRisks         \* what programs may have, of AllLegacyRisks

(* A jump to a label, or an update of a command, that comes later.         *)
AllLegacyRisks == {"forwardJump", "laterUpdates"}

LegacyAssumption == /\ MaxCommands \in Nat /\ MaxUpdates \in Nat /\ MaxJumpEdits \in Nat
                    /\ LegacyRisks \subseteq AllLegacyRisks
ASSUME LegacyAssumption

VARIABLES
    commands,       \* the client's: op, and the commands it points at
    compilerData,   \* its index from 1 on, 0 before the port is made
    fDCLTable,      \* the kernel's commands, with the offsets they point at
    offsets,        \* where each was built
    asyncPort,      \* the call commands have the client's port
    outcome,        \* of the port: "none", "made" or "panic"
    refused,        \* jumps whose last change was refused
    jumpEdits       \* counts the changes

legacyVars == <<commands, compilerData, fDCLTable, offsets, asyncPort, outcome,
                refused, jumpEdits>>

LegacyInit ==
    /\ commands = <<>> /\ compilerData = <<>> /\ fDCLTable = <<>> /\ offsets = <<>>
    /\ asyncPort = FALSE /\ outcome = "none" /\ refused = {} /\ jumpEdits = 0

Command(op, points) == [op |-> op, points |-> points]

(* The client's program; the commands it points at may come later. *)
AppendCommand(c) ==
    /\ outcome = "none" /\ Len(commands) < MaxCommands
    /\ "forwardJump" \in LegacyRisks \/ c.op # "jump"
         \/ \A i \in c.points : i <= Len(commands)
    /\ "laterUpdates" \in LegacyRisks \/ c.op # "update"
         \/ \A i \in c.points : i <= Len(commands) + 1
    /\ commands' = Append(commands, c)
    /\ UNCHANGED <<compilerData, fDCLTable, offsets, asyncPort, outcome, refused, jumpEdits>>

Points == {s \in SUBSET (1..MaxCommands) : s # {} /\ Cardinality(s) <= MaxUpdates}

LegacyBuild ==
    \/ \E op \in {"packet", "label", "call"} : AppendCommand(Command(op, {}))
    \/ \E i \in 1..MaxCommands : AppendCommand(Command("jump", {i}))
    \/ \E s \in Points : AppendCommand(Command("update", s))

-----------------------------------------------------------------------------
(* The sizes of exported commands, in the order of the real ones.  A list  *)
(* and an asynchronous reference are stored behind their command.          *)
StructSize(op) == CASE op = "packet" -> 3 [] op \in {"jump", "call"} -> 2 [] OTHER -> 1

GetDCLSize(c) ==
    StructSize(c.op) + (IF c.op = "call" THEN 3 ELSE 0)
                     + (IF c.op = "update" THEN Cardinality(c.points) ELSE 0)

getDCLSize(c) ==
    StructSize(c.op) + (IF c.op = "call" THEN 3 ELSE 0)
                     + (IF c.op = "update" THEN Cardinality(c.points) ELSE 0)

ExportOffset(i) ==
    MapThenSumSet(LAMBDA j : GetDCLSize(commands[j]), {j \in DOMAIN commands : j < i})
ImportOffset(i) ==
    MapThenSumSet(LAMBDA j : getDCLSize(commands[j]), {j \in DOMAIN commands : j < i})

(* The offsets that a command is exported with. *)
Exported(c) == {ExportOffset(j) : j \in c.points}

(* What the kernel finds at an offset while it builds command i: only the  *)
(* commands up to i are there.                                             *)
BuiltAt(i, offset) == {j \in 1..i : ImportOffset(j) = offset}
Unbuilt(i) == {o \in Exported(commands[i]) : BuiltAt(i, o) = {}}
LooksLikeLabel(i, o, memory) ==
    IF o \in Unbuilt(i) THEN memory[i] = "label"
    ELSE \E j \in BuiltAt(i, o) : commands[j].op = "label"

convertToKernelJump(i, memory) ==
    {o \in Exported(commands[i]) : LooksLikeLabel(i, o, memory)}

KernelCommand(i, memory) ==
    [op |-> commands[i].op,
     points |-> IF commands[i].op = "jump" THEN convertToKernelJump(i, memory)
                ELSE Exported(commands[i])]

(* An update list is checked where the kernel's memory has no such opcode. *)
ListPanics(memory) ==
    \E i \in DOMAIN commands : /\ commands[i].op = "update" /\ Unbuilt(i) # {}
                               /\ memory[i] = "garbage"

(* The creation of the port; the memory that was not built yet holds a     *)
(* label, another command or garbage for each command that looks at it.    *)
CreateLegacyPort ==
    /\ outcome = "none" /\ commands # <<>>
    /\ \A i \in DOMAIN commands : commands[i].points \subseteq DOMAIN commands
    /\ \A i \in DOMAIN commands, j \in DOMAIN commands :
          commands[i].op = "jump" /\ j \in commands[i].points => commands[j].op = "label"
    /\ \E memory \in [{i \in DOMAIN commands : Unbuilt(i) # {}}
                          -> {"label", "other", "garbage"}] :
          IF ListPanics(memory)
          THEN outcome' = "panic" /\ UNCHANGED <<fDCLTable, offsets, compilerData>>
          ELSE /\ outcome' = "made"
               /\ fDCLTable' = [i \in DOMAIN commands |-> KernelCommand(i, memory)]
               /\ offsets' = [i \in DOMAIN commands |-> ImportOffset(i)]
               /\ compilerData' = [i \in DOMAIN commands |-> i]
    /\ UNCHANGED <<commands, asyncPort, refused, jumpEdits>>

(* The table is walked by index and the port of each call is set. *)
SetAsyncRef ==
    /\ outcome = "made" /\ ~asyncPort
    /\ asyncPort' = TRUE
    /\ UNCHANGED <<commands, compilerData, fDCLTable, offsets, outcome, refused, jumpEdits>>

(* ModifyJumpDCL with a label of the program or any other command of it:   *)
(* the client's jump changes whatever the kernel says.                     *)
ModifyJumpDCL(jump, label) ==
    /\ outcome = "made" /\ asyncPort /\ jumpEdits < MaxJumpEdits
    /\ {jump, label} \subseteq DOMAIN commands /\ commands[jump].op = "jump"
    /\ commands' = [commands EXCEPT ![jump].points = {label}]
    /\ LET i == compilerData[jump]  l == compilerData[label] IN
       IF fDCLTable[i].op = "jump" /\ fDCLTable[l].op = "label"
       THEN /\ fDCLTable' = [fDCLTable EXCEPT ![i].points = {offsets[l]}]
            /\ refused' = refused \ {jump}
       ELSE refused' = refused \cup {jump} /\ UNCHANGED fDCLTable
    /\ jumpEdits' = jumpEdits + 1
    /\ UNCHANGED <<compilerData, offsets, asyncPort, outcome>>

LegacyNext ==
    \/ LegacyBuild \/ CreateLegacyPort \/ SetAsyncRef
    \/ \E jump, label \in 1..MaxCommands : ModifyJumpDCL(jump, label)

LegacySpec == LegacyInit /\ [][LegacyNext]_legacyVars

-----------------------------------------------------------------------------
(* The kernel's program is the client's: it is never built from memory that *)
(* holds no command, every jump leads to the place of its label, unless its *)
(* last change was refused, and every update list names the places of the   *)
(* client's commands.                                                       *)
JumpsLeadToTheirLabels ==
    /\ outcome # "panic"
    /\ outcome = "made" =>
         \A i \in DOMAIN commands \ refused :
             /\ fDCLTable[i].points = {offsets[j] : j \in commands[i].points}
             /\ commands[i].op = "jump" =>
                  \E j \in DOMAIN commands : /\ fDCLTable[j].op = "label"
                                             /\ fDCLTable[i].points = {offsets[j]}
=============================================================================
