--------------------------- MODULE BusInformation ---------------------------
(***************************************************************************)
(* What clients ask about the bus: node IDs and speeds, for a generation   *)
(* that they name.  The user client reads the controller's and the nub's   *)
(* fields one by one without the gate, while the work loop changes them;   *)
(* it looks at the generation before and after.  A field is modelled by    *)
(* the generation that its contents are of, 0 for a bad or cleared one.    *)
(***************************************************************************)
EXTENDS Integers, SequencesExt

CONSTANTS
    MaxBusGeneration     \* bound: bus resets

QueryAssumption == MaxBusGeneration \in Nat
ASSUME QueryAssumption

VARIABLES
    fBusGeneration,
    fields,       \* the controller's: fLocalNodeID, fIRMNodeID, fSpeedVector
    nub,          \* the device's: fGeneration, fNodeID
    changing,     \* how far processSelfIDs or setNodeROM has come
    query         \* the client's call: what it asked for, what it has read,
                  \* history: whether before the work loop had stored it

queryVars == <<fBusGeneration, fields, nub, changing, query>>

(* What each call does, step by step.                                      *)
getGenerationAndNodeID == <<"nubGeneration", "nubNodeID", "check">>
getLocalNodeIDWithGeneration == <<"check", "local", "check">>
getRemoteNodeID == <<"nubGeneration", "isAsked", "nubNodeID", "check">>
getSpeedToNode == <<"check", "nubGeneration", "nubNodeID", "local", "speed", "check">>
getSpeedBetweenNodes == <<"check", "speed", "check">>
getIRMNodeID == <<"irm", "isAsked">>
getBusGeneration == <<"current">>

Calls == {getGenerationAndNodeID, getLocalNodeIDWithGeneration, getRemoteNodeID,
          getSpeedToNode, getSpeedBetweenNodes, getIRMNodeID, getBusGeneration}

(* Calls that are not asked about a generation, but tell one.              *)
TellsGeneration == {getGenerationAndNodeID, getBusGeneration}

NoQuery == [call |-> <<>>, asked |-> 0, left |-> <<>>, generation |-> 0,
            read |-> {}, early |-> FALSE, status |-> "none"]

QueryInit ==
    /\ fBusGeneration = 1
    /\ fields = [local |-> 1, irm |-> 1, speed |-> 1]
    /\ nub = [generation |-> 1, nodeID |-> 1]
    /\ changing = "nothing" /\ query = NoQuery

-----------------------------------------------------------------------------
(* The work loop: processSelfIDs, one store after the other.               *)

Stores(from, to) == changing = from /\ changing' = to

IncrementGeneration ==
    /\ Stores("nothing", "generation") \/ Stores("bad", "generation")
    /\ fBusGeneration < MaxBusGeneration
    /\ fBusGeneration' = fBusGeneration + 1
    /\ UNCHANGED <<fields, nub, query>>

SuspendedAsNew(generation) == [generation |-> generation, nodeID |-> 0]  \* mutant
(* A device keeps the generation it is suspended from.                     *)
SuspendedAs(generation) == [generation |-> generation - 1, nodeID |-> 0]

SuspendNub ==
    /\ Stores("generation", "nub")
    /\ nub' = SuspendedAs(fBusGeneration)
    /\ UNCHANGED <<fBusGeneration, fields, query>>

InvalidateSpeeds ==
    /\ Stores("nub", "speeds")
    /\ fields' = [fields EXCEPT !.speed = 0]
    /\ UNCHANGED <<fBusGeneration, nub, query>>

SetLocalNodeID ==
    /\ Stores("speeds", "local")
    /\ fields' = [fields EXCEPT !.local = fBusGeneration]
    /\ UNCHANGED <<fBusGeneration, nub, query>>

StoreSpeeds ==
    /\ Stores("local", "topology")
    /\ fields' = [fields EXCEPT !.speed = fBusGeneration]
    /\ UNCHANGED <<fBusGeneration, nub, query>>

SetIRMNodeID ==
    /\ Stores("topology", "nothing")
    /\ fields' = [fields EXCEPT !.irm = fBusGeneration]
    /\ UNCHANGED <<fBusGeneration, nub, query>>

(* With bad self-IDs the rest waits for the next reset.                    *)
BadSelfIDs ==
    /\ Stores("local", "bad")
    /\ UNCHANGED <<fBusGeneration, fields, nub, query>>

(* The scan finds the device: setNodeROM writes the generation first.      *)
ResumeGeneration ==
    /\ Stores("nothing", "resume") /\ nub.nodeID = 0
    /\ nub' = [nub EXCEPT !.generation = fBusGeneration]
    /\ UNCHANGED <<fBusGeneration, fields, query>>

ResumeNodeID ==
    /\ Stores("resume", "nothing")
    /\ nub' = [nub EXCEPT !.nodeID = fBusGeneration]
    /\ UNCHANGED <<fBusGeneration, fields, query>>

-----------------------------------------------------------------------------
(* A call of a client.                                                     *)

Ask ==
    \E call \in Calls, asked \in 1 .. fBusGeneration :
        /\ query.status # "asking"
        /\ query' = [NoQuery EXCEPT !.call = call, !.left = call,
                                    !.status = "asking", !.asked = asked]
        /\ UNCHANGED <<fBusGeneration, fields, nub, changing>>

(* The gate keeps getIRMNodeID out while the work loop is at work; the     *)
(* others read whatever it has stored.                                     *)
MayRead == Head(query.left) = "irm" => changing \in {"nothing", "bad"}

(* The part is still to be stored in this generation.                      *)
IsDue(part) ==
    changing \in CASE part = "local" -> {"generation", "nub", "speeds"}
                  [] part = "speed" -> {"generation", "nub", "speeds", "local", "bad"}
                  [] part = "irm" -> {"bad"}
                  [] OTHER -> {"resume"}

NextStep(what) ==
    /\ query.status = "asking" /\ query.left # <<>> /\ Head(query.left) = what
    /\ MayRead
    /\ UNCHANGED <<fBusGeneration, fields, nub, changing>>

Went(q) == [q EXCEPT !.left = Tail(@), !.status = IF Len(q.left) = 1 THEN "success" ELSE @]
Refused == [query EXCEPT !.status = "kIOFireWireBusReset"]
ReadPart(part, value) ==
    Went([query EXCEPT !.read = @ \cup {value}, !.early = @ \/ IsDue(part)])

(* The generation that the last check is about: the one asked for, but for *)
(* the calls that read the nub's, which comes in its place.                *)
Generation ==
    IF Contains(query.call, "nubGeneration") /\ ~Contains(query.left, "nubGeneration")
    THEN query.generation ELSE query.asked

checkGeneration ==
    /\ NextStep("check")
    /\ query' = IF Generation = fBusGeneration THEN Went(query) ELSE Refused

ReadGeneration ==
    \/ /\ NextStep("nubGeneration")
       /\ query' = Went([query EXCEPT !.generation = nub.generation])
    \/ /\ NextStep("current")
       /\ query' = Went([query EXCEPT !.generation = fBusGeneration])

IsAsked ==
    /\ NextStep("isAsked")
    /\ query' = IF query.generation = query.asked THEN Went(query) ELSE Refused

ReadNodeID ==
    NextStep("nubNodeID") /\ query' = ReadPart("nubNodeID", nub.nodeID)

ReadLocalNodeID ==
    NextStep("local") /\ query' = ReadPart("local", fields.local)

ReadSpeed ==
    NextStep("speed") /\ query' = ReadPart("speed", fields.speed)

ReadIRMNodeID ==
    /\ NextStep("irm")
    /\ query' = Went([query EXCEPT !.read = {fields.irm}, !.early = IsDue("irm"),
                                   !.generation = fBusGeneration])

QueryNext ==
    \/ IncrementGeneration \/ SuspendNub \/ InvalidateSpeeds \/ SetLocalNodeID
    \/ (StoreSpeeds \/ BadSelfIDs) \/ SetIRMNodeID
    \/ ResumeGeneration \/ ResumeNodeID
    \/ Ask \/ checkGeneration \/ ReadGeneration \/ IsAsked \/ ReadNodeID
    \/ ReadLocalNodeID \/ ReadSpeed \/ ReadIRMNodeID

QuerySpec == QueryInit /\ [][QueryNext]_queryVars

-----------------------------------------------------------------------------
(* What a call that succeeds is about: the generation that it was asked for *)
(* or tells.  getSpeedToNode goes by the nub's, which may be a later one     *)
(* than the client's (IOFireWireUserClient.cpp:3911).                        *)
GenerationMeant ==
    IF query.call \in TellsGeneration \cup {getSpeedToNode}
    THEN query.generation ELSE query.asked

(* A call that succeeds tells what was true in the generation that it is     *)
(* about, in every part, however many bus resets come between its reads:     *)
(* "Returns kIOReturnSuccess if a valid nodeID has been returned"            *)
(* (IOFireWireLib.h:1648).  Only a part that the work loop was about to      *)
(* store may be an earlier one, and none is a later one.                     *)
AnswersAreOfTheirGeneration ==
    query.status = "success" =>
        /\ ~query.early => query.read \subseteq {GenerationMeant}
        /\ query.read \subseteq 0..GenerationMeant
=============================================================================
