-------------------------------- MODULE MCSystem --------------------------------
(***************************************************************************)
(* Small instances of System.                                              *)
(***************************************************************************)
EXTENDS System

CONSTANTS a1, a2, b1, d, w1, w2

MCCommands == {a1, a2, b1, d}
MCUserOf == [c \in MCCommands |-> IF c = b1 THEN "b" ELSE "a"]
MCWorkerOf == [c \in MCCommands |-> IF c = b1 THEN w2 ELSE w1]
MCWorkload == <<a1, b1, d, a2>>
ShortWorkload == <<a1, d>>
=================================================================================
