------------------------------- MODULE MCBoot -------------------------------
(* Load addresses for model checking Boot, in a memory of 64 bytes with    *)
(* segments of 16, sectors of 8 and the loader's stack at 24: flat ones,   *)
(* aligned and not, negative, in the loader, partly in its stack, right    *)
(* below and above it, up to and above the limit, and with a segment that  *)
(* is negative as a short (36), and pairs.                                 *)
EXTENDS Boot

Flat(a)    == [form |-> "flat", address |-> a]
Pair(s, o) == [form |-> "pair", segment |-> s, offset |-> o]

MCPlaces == {Flat(-4), Flat(0), Flat(16), Flat(18), Flat(20), Flat(28),
             Flat(32), Flat(36), Flat(52), Pair(4, 0), Pair(9, 0)}
=============================================================================
