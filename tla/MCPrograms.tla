----------------------------- MODULE MCPrograms -----------------------------
(***************************************************************************)
(* What a client prepares for isochronous transport: its allocation in the *)
(* IRM, DCL programs of both kinds, the pool its old commands come from    *)
(* and the memory its programs use.  None of them touches another one's    *)
(* state, so each is explored with the others at rest.                     *)
(***************************************************************************)
EXTENDS IRMAllocation, DCLProgram, LegacyDCLProgram, DCLCommandPool, BufferRanges

CONSTANTS c1, c2

VARIABLE way

BandwidthAndChannel == [bandwidth |-> 2, channels |-> {c1}]
MCRequests == {[bandwidth |-> 2, channels |-> {c1}], [bandwidth |-> 1, channels |-> {}],
               [bandwidth |-> 0, channels |-> {c2}]}

MCTypes == <<"send", "skip">>

MCInit == /\ way \in {"allocation", "program", "legacy", "pool", "buffers"}
          /\ Init /\ ProgramInit /\ LegacyInit /\ PoolInit /\ BufferInit

MCAllocation == way = "allocation" /\ Next
                /\ UNCHANGED <<programVars, legacyVars, poolVars, bufferVars>>
MCProgram == way = "program" /\ ProgramNext
             /\ UNCHANGED <<vars, legacyVars, poolVars, bufferVars>>
MCLegacy == way = "legacy" /\ LegacyNext
            /\ UNCHANGED <<vars, programVars, poolVars, bufferVars>>
MCPool == way = "pool" /\ PoolNext
          /\ UNCHANGED <<vars, programVars, legacyVars, bufferVars>>
MCBuffers == way = "buffers" /\ BufferNext
             /\ UNCHANGED <<vars, programVars, legacyVars, poolVars>>

MCNext == /\ UNCHANGED way
          /\ MCAllocation \/ MCProgram \/ MCLegacy \/ MCPool \/ MCBuffers

MCSpec == /\ MCInit /\ [][MCNext]_<<way, vars, programVars, legacyVars, poolVars, bufferVars>>
          /\ WF_vars(ClientStep) /\ WF_vars(Scan)
          /\ \A p \in Threads : WF_vars(ThreadStep(p))

-----------------------------------------------------------------------------
(* A program runs as its client has told it and calls its client with the  *)
(* reference it gave, and the jumps of an old program lead to their labels *)
(* in the new one.                                                         *)
ProgramsRunAsTold ==
    RunsAsTold /\ CalloutsHaveTheirReference /\ JumpsLeadToTheirLabels

(* The memory of programs: commands share their pool without overlaps, and *)
(* the kernel finds every buffer where the client has it.                  *)
MemoryIsSound == PoolIsPartitioned /\ BuffersAreMapped
=============================================================================
