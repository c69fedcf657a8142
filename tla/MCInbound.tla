----------------------------- MODULE MCInbound -----------------------------
(* What comes from the bus unasked: requests, PHY packets and streams go   *)
(* separate ways, so each is explored with the other two at rest.          *)
EXTENDS Inbound, UserPHYPacketListener, AsyncStream

VARIABLE way            \* which of the three

MCPseudoShapes == {[fLen |-> 4, defers |-> TRUE]}

(* The second has the first inside, the third overlaps both.               *)
MCFixedShapes ==
    {[addressLo |-> 2, fLen |-> 3, fExclusive |-> TRUE, defers |-> FALSE],
     [addressLo |-> 1, fLen |-> 6, fExclusive |-> FALSE, defers |-> TRUE],
     [addressLo |-> 1, fLen |-> 3, fExclusive |-> FALSE, defers |-> FALSE]}

Ask(kind, hi, lo, len, broadcast) ==
    [kind |-> kind, addressHi |-> hi, addressLo |-> lo, len |-> len,
     broadcast |-> broadcast]

(* The last one ends beyond the lower half of the address: its sum wraps.  *)
MCRequestShapes == {Ask("read", 1, 0, 2, FALSE), Ask("lock", 9, 3, 2, FALSE),
                    Ask("write", 9, 6, 4, TRUE)}

MCInit == /\ way \in {"requests", "PHY", "streams"}
          /\ InboundInit /\ PHYInit /\ StreamInit

MCNext ==
    \/ /\ way = "requests" /\ InboundNext
       /\ UNCHANGED <<way, phyVars, streamVars>>
    \/ /\ way = "PHY" /\ PHYNext
       /\ UNCHANGED <<way, inboundVars, streamVars>>
    \/ /\ way = "streams" /\ StreamNext
       /\ UNCHANGED <<way, inboundVars, phyVars>>

MCSpec == /\ MCInit /\ [][MCNext]_<<way, inboundVars, phyVars, streamVars>>
          /\ WF_inboundVars(processRcvPacket) /\ WF_inboundVars(asyncResponse)
          /\ WF_phyVars(PHYCommandIsComplete)
          /\ WF_streamVars(clientCommandIsComplete)
-----------------------------------------------------------------------------
(* Whoever listens is given every packet or its count, and once: no packet   *)
(* is lost between the queue, the overflow count and the list of listeners,  *)
(* or stored over another.                                                   *)
ListenersGetEveryPacket ==
    /\ NothingUncounted
    /\ ClientIsWorking
    /\ ListenersAreServed
    /\ StreamStoredApart

(* What came from the bus is answered, or told to its client, in the end.    *)
AllAnswered ==
    EveryRequestIsAnswered /\ EveryPHYPacketIsTold /\ EveryStreamPacketIsTold
=============================================================================
