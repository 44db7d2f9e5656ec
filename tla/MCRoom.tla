--------------------------------- MODULE MCRoom ---------------------------------
(***************************************************************************)
(* The sockets of a conversation of the private mailbox of u1.  They are   *)
(* its delegate's, u2's, and what changes is u2's membership, grant and    *)
(* delegation.                                                             *)
(***************************************************************************)
EXTENDS ConversationRoom

CONSTANTS own, post, u1, u2, k1, k2

MCInit ==
  /\ AccessInit
  /\ RoomInit
  /\ staff = Users /\ permits = {own} \X Users /\ delegates = {<<post, u2>>}

AboutAccess ==
  /\ \A c \in Clerks : clerk'[c].user # u1
  /\ u1 \in staff' /\ <<own, u1>> \in permits'

(* Tasks are alike, so the first of them begins.  No team has a say here, nor
   have the grants on the mailbox: these tables are read as soon as they may
   be. *)
AboutSockets ==
  /\ \A s \in Sockets : socket'[s].agent # u1
  /\ task[k2] = AtRest /\ task'[k2] # AtRest => task[k1] # AtRest
  /\ \A t \in Tasks : \A x \in task[t].left \ task'[t].left :
       /\ x # "teams" => x = "staff" \/ "teams" \notin task[t].left
       /\ task[t].step = "mail" /\ x = "delegates" => "grants" \notin task[t].left

MCNext == RoomNext /\ AboutAccess /\ AboutSockets

MCSpec == MCInit /\ [][MCNext]_<<roomVars, accessVars>>

PrivateBox == [b \in {post} |-> own]
PlainInbox == [i \in {own} |-> "shared"]
InboxTeams == [i \in {own} |-> NoOne]
BoxTeams == [b \in {post} |-> NoOne]
OfFirst == [b \in {post} |-> u1]
=============================================================================
