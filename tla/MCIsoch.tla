------------------------------- MODULE MCIsoch -------------------------------
(* The two halves of isochronous transport: the kernel channel that claims   *)
(* bandwidth and a channel number in the IRM, and the user space channel     *)
(* with its ports.  The first knows nothing of ports and the second takes    *)
(* the claim as one step, so each is explored with the other at rest.        *)
EXTENDS IsochChannel, IsochPort

CONSTANTS c1, c2, l1, l2, r1

VARIABLE way            \* "channel" or "ports"

BandwidthAndChannel == [bandwidth |-> 2, channels |-> {c1}]

(* A local listener before a remote one, and a local talker                  *)
MCListeners == <<l1, r1>>

MCInit == way \in {"channel", "ports"} /\ Init /\ PortInit

MCNext == \/ way = "channel" /\ Next /\ UNCHANGED <<way, portVars>>
          \/ way = "ports" /\ PortNext /\ UNCHANGED <<way, vars>>

MCSpec == /\ MCInit /\ [][MCNext]_<<way, vars, portVars>>
          /\ WF_vars(startBusScan) /\ WF_vars(Begin \/ Release(Client))
          /\ \A p \in Threads : WF_vars(Realloc(p) \/ Release(p))
          /\ PortFairness
-----------------------------------------------------------------------------
(* What a reset took is got back or given up, and ports that are no longer   *)
(* used are freed.                                                           *)
SettlesInTheEnd == Reallocates /\ PortsAreFinalized
=============================================================================
