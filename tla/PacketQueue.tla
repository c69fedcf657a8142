----------------------------- MODULE PacketQueue -----------------------------
(***************************************************************************)
(* What a user pseudo address space promises its client: every packet it   *)
(* accepts is told to the client once, in the order of arrival, one at a   *)
(* time, the next when the client has acknowledged the last.               *)
(***************************************************************************)
EXTENDS Sequences

CONSTANTS Packets, None

VARIABLES waiting,     \* packets accepted and not told yet
          told,        \* the packet the client is working on
          open
vars == <<waiting, told, open>>

Init == waiting = <<>> /\ told = None /\ open = TRUE

Arrive(p) == /\ open
             /\ IF told = None
                THEN told' = p /\ UNCHANGED waiting
                ELSE waiting' = Append(waiting, p) /\ UNCHANGED told
             /\ UNCHANGED open

Acknowledge == /\ told # None
               /\ IF waiting = <<>>
                  THEN told' = None /\ UNCHANGED waiting
                  ELSE told' = Head(waiting) /\ waiting' = Tail(waiting)
               /\ UNCHANGED open

Close == /\ open
         /\ waiting' = <<>> /\ told' = None /\ open' = FALSE

Next == (\E p \in Packets : Arrive(p)) \/ Acknowledge \/ Close

Spec == Init /\ [][Next]_vars /\ WF_vars(Acknowledge)
=============================================================================
