---------------------------- MODULE MCNetShareApp ----------------------------
(* Instances of NetShareApp for TLC. *)
EXTENDS NetShareApp

Machine(board, mac) == [board |-> board, bios |-> board, cpu |-> 1, mac |-> mac]

\* The machine, with another network card, and with another board.
SomeMachines == {Machine(1, 1), Machine(1, 2), Machine(2, 1)}
=============================================================================
