----------------------------- MODULE MCUserSpace -----------------------------
(* What a client in user space shares with the kernel: the commands it       *)
(* submits and the packets that arrive in its pseudo address space.  They    *)
(* meet nowhere, so each is explored with the other at rest.                 *)
EXTENDS UserCommand, UserPseudoAddressSpace, TLC

CONSTANTS c1, c2, b1, b2, h1, h2, h3, h4

VARIABLE way            \* "commands" or "packets"

(* Two memory commands for the vector; the second may be any other command. *)
MCTypes == c1 :> {"read"} @@ c2 :> {"read", "readQuad", "compareSwap"}

HalfBufferAtMost == {1, 2}
MCInit == /\ way \in {"commands", "packets"}
          /\ Init /\ PseudoInit
          /\ way # "commands" => \A c \in Commands : type[c] = "read"

MCNext == \/ way = "commands" /\ Next /\ UNCHANGED <<way, pseudoVars>>
          \/ way = "packets" /\ PseudoNext /\ UNCHANGED <<way, vars>>

MCSpec == /\ MCInit /\ [][MCNext]_<<way, vars, pseudoVars>>
          /\ WF_vars(Returns)
          /\ WF_vars(Deliver)
          /\ \A c \in Commands : WF_vars(CommandCompletes(c))
          /\ WF_pseudoVars(clientCommandIsComplete)
-----------------------------------------------------------------------------
(* The library and the kernel agree on a command: that it executes, that its *)
(* memory stays wired while it does, which of its results a message brings,  *)
(* and that those of a vector come together (submit, asyncCompletion)        *)
CommandsAgree ==
    /\ ExecutingIsTrue /\ VectorIsComplete /\ MemoryStaysWired /\ MessagesAreUnderstood
=============================================================================
