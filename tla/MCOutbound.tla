------------------------------ MODULE MCOutbound ------------------------------
(***************************************************************************)
(* OutboundDelivery with small parameters for TLC.                         *)
(***************************************************************************)
EXTENDS OutboundDelivery, TLC

(* One provider request per message. *)
OnePart == [m \in Messages |-> 1]

(* Invocations of one kind are interchangeable. *)
Interchangeable == Permutations(ApiCalls) \cup Permutations(CronRuns)
===============================================================================
