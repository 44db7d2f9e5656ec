-------------------------------- MODULE MCLive --------------------------------
(***************************************************************************)
(* What reaches agents as it happens: a call that its queue offers to      *)
(* them, and the sockets that follow a conversation.  They share no state  *)
(* in these models, so a behaviour belongs to one of them: part is chosen  *)
(* at first, and the other stays where it began.                           *)
(***************************************************************************)
EXTENDS MCCall, MCRoom

VARIABLE part
socketVars == <<roomVars, accessVars>>

LiveInit ==
  /\ part \in {"call", "room"}
  /\ Init
  /\ MCInit
LiveNext ==
  \/ part = "call" /\ Next /\ UNCHANGED <<socketVars, part>>
  \/ part = "room" /\ MCNext /\ UNCHANGED <<vars, part>>

LiveSpec == LiveInit /\ [][LiveNext]_<<vars, socketVars, part>>
===============================================================================
