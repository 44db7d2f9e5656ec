-------------------------------- MODULE MCCall --------------------------------
(***************************************************************************)
(* CallSession with small parameters for TLC: two agents and two stages of *)
(* one tick each.                                                          *)
(***************************************************************************)
EXTENDS CallSession

CONSTANTS ann, bob

(* Ann rings first, then both. *)
Escalation == [k \in Stages |-> IF k = 1 THEN {ann} ELSE {ann, bob}]

OneTick == [k \in Stages |-> 1]

Pair == {ann, bob}

(* The calls in which no handler fails or dies, for what must happen in the
   end. *)
CalmNext == Next /\ UNCHANGED faults
CalmSpec == Init /\ [][CalmNext]_vars /\ Fairness
===============================================================================
