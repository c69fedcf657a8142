--------------------------- MODULE MCAsyncCommand ---------------------------
(***************************************************************************)
(* TLC instance of AsyncCommand: c2 is a read of up to two packets that    *)
(* survives resets; c3, for another device, belongs to a user client and   *)
(* is made to survive resets or not.  Both want the one label.             *)
(***************************************************************************)
EXTENDS AsyncCommand

CONSTANTS c2, c3, d1, d2, l1

MCDevice == [c \in Commands |-> IF c = c2 THEN d2 ELSE d1]
MCMaxPackets == [c \in Commands |-> IF c = c2 THEN 2 ELSE 1]
=============================================================================
