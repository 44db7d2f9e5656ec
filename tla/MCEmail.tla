-------------------------------- MODULE MCEmail -------------------------------
(***************************************************************************)
(* The two parts whose liveness the crons and the heartbeats carry: the    *)
(* ingress of email and the presence of agents.  They share no state, so a *)
(* behaviour belongs to one of them: part is chosen at first, and the      *)
(* other stays where it began.                                             *)
(***************************************************************************)
EXTENDS EmailIngress, CallPresence, TLC

CONSTANTS a, r, p

VARIABLE part
allVars == <<vars, presenceVars, part>>

MCInit ==
  /\ part \in {"ingress", "presence"}
  /\ Init
  /\ PresenceInit

MCNext ==
  \/ part = "ingress" /\ Next /\ UNCHANGED <<presenceVars, part>>
  \/ part = "presence" /\ PresenceNext /\ UNCHANGED <<vars, part>>

(* The part that stays where it began has no fair action to take there. *)
MCSpec == MCInit /\ [][MCNext]_allVars /\ IngressFair /\ PresenceFair

(* Answers for the mails: r replies to a. *)
Thread2 == (a :> Nothing) @@ (r :> a) @@ (p :> Nothing)
=============================================================================
