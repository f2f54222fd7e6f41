----------------------------- MODULE MCStartup -----------------------------
(* Values for model checking Startup: the wanted controller at the first   *)
(* address, within a field, at the bounds of the loops and of the fields,  *)
(* after one that has vendor and device id the other way round, and a bus  *)
(* without it.                                                             *)
EXTENDS Startup, TLC

Wanted == [device |-> "24db", vendor |-> "8086"]
Decoy  == [device |-> "8086", vendor |-> "24db"]

MCSpaces ==
  {(Field(b, 0) :> Wanted) @@ (Field((b + 15) % 16, 0) :> Decoy) : b \in {0, 5, 7, 15}}
    \cup {Field(3, 0) :> Decoy}
=============================================================================
