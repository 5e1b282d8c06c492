------------------------------ MODULE MCLogger ------------------------------
(***************************************************************************)
(* Values of the constants of Logger for TLC: target t is first held by     *)
(* device t.                                                                *)
(***************************************************************************)
EXTENDS Logger

SameName == [t \in Target |-> t]
=============================================================================
