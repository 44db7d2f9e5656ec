------------------------------ MODULE CallPresence ------------------------------
(***************************************************************************)
(* Who may be rung: the sockets of the agents at the workspace's           *)
(* CallDispatchDO and the rows of agent_call_presence in D1.               *)
(*                                                                         *)
(* The object handles one event at a time up to its next await, so a write *)
(* of a row is under way while sockets come and go, and writes may be      *)
(* applied in any order or fail.  A heartbeat is the number of ticks that  *)
(* are left of its 45 seconds.                                             *)
(*                                                                         *)
(* Left out: signatures and nonces of internal requests, who is a member   *)
(* of the workspace or of a ring group, and the call that is offered.      *)
(***************************************************************************)
EXTENDS Naturals

CONSTANTS
  Users,
  Sockets,
  Heartbeat     \* ticks until a heartbeat expires

ASSUME PresenceAssumption == Heartbeat \in Nat \ {0}

VARIABLES
  socket,     \* the user of an open socket, or NoUser
  presence,   \* agent_call_presence: status, connected (socket_connected_at), beat
  writes      \* statements on their way to D1

presenceVars == <<socket, presence, writes>>

NoUser == "nobody"
Shown == {"available", "away"}
Statements == [kind : {"connect", "refresh"}, user : Users, status : Shown]
              \cup [kind : {"offline"}, user : Users, status : {"offline"}]

PresenceInit ==
  /\ socket = [s \in Sockets |-> NoUser]
  /\ presence = [u \in Users |-> [status |-> "offline", connected |-> FALSE, beat |-> 0]]
  /\ writes = {}

PresenceTypeOK ==
  /\ socket \in [Sockets -> Users \cup {NoUser}]
  /\ presence \in [Users -> [status : Shown \cup {"offline"}, connected : BOOLEAN, beat : 0 .. Heartbeat]]
  /\ writes \subseteq Statements

(* handleUpgrade: the socket is accepted before its row is written. *)
Connect(u, s) ==
  /\ socket[s] = NoUser
  /\ socket' = [socket EXCEPT ![s] = u]
  /\ writes' = writes \cup {[kind |-> "connect", user |-> u, status |-> "available"]}
  /\ UNCHANGED presence

HasLiveAttachment(u) == \E s \in Sockets : socket[s] = u

(* Faulty: whoever is signed in keeps a presence. *)
IsMember(u) == u \in Users
MayRefresh(u) == HasLiveAttachment(u)

(* PATCH presence, by any tab of the agent. *)
UpdatePresence(u) ==
  /\ MayRefresh(u)
  /\ \E status \in Shown : writes' = writes \cup {[kind |-> "refresh", user |-> u, status |-> status]}
  /\ UNCHANGED <<socket, presence>>

(* webSocketClose, for the last socket of the agent only. *)
CloseSocket(s) ==
  LET u == socket[s] IN
  /\ u # NoUser
  /\ socket' = [socket EXCEPT ![s] = NoUser]
  /\ writes' = IF \E t \in Sockets \ {s} : socket[t] = u THEN writes
               ELSE writes \cup {[kind |-> "offline", user |-> u, status |-> "offline"]}
  /\ UNCHANGED presence

(* The object is lost with its sockets; nobody is told of their end. *)
LoseSockets ==
  /\ \E s \in Sockets : socket[s] # NoUser
  /\ socket' = [s \in Sockets |-> NoUser]
  /\ UNCHANGED <<presence, writes>>

(* A refresh changes only the row of a connected agent. *)
Written(w) ==
  CASE w.kind = "connect" -> [status |-> w.status, connected |-> TRUE, beat |-> Heartbeat]
    [] w.kind = "refresh" -> IF presence[w.user].connected
                             THEN [status |-> w.status, connected |-> TRUE, beat |-> Heartbeat]
                             ELSE presence[w.user]
    [] w.kind = "offline" -> [status |-> "offline", connected |-> FALSE, beat |-> 0]

Write(w) ==
  /\ writes' = writes \ {w}
  /\ presence' = [presence EXCEPT ![w.user] = Written(w)]
  /\ UNCHANGED socket

WriteFails(w) ==
  /\ writes' = writes \ {w}
  /\ UNCHANGED <<socket, presence>>

Beat ==
  /\ \E u \in Users : presence[u].beat > 0
  /\ presence' = [u \in Users |-> [presence[u] EXCEPT !.beat = IF @ = 0 THEN 0 ELSE @ - 1]]
  /\ UNCHANGED <<socket, writes>>

PresenceNext ==
  \/ \E u \in Users : UpdatePresence(u) \/ \E s \in Sockets : Connect(u, s)
  \/ \E s \in Sockets : CloseSocket(s)
  \/ LoseSockets
  \/ \E w \in Statements : w \in writes /\ (Write(w) \/ WriteFails(w))
  \/ Beat

(* Time passes, and a statement that was sent reaches D1 or fails. *)
PresenceFair ==
  /\ WF_presenceVars(Beat)
  /\ \A w \in Statements : WF_presenceVars(w \in writes /\ (Write(w) \/ WriteFails(w)))

-----------------------------------------------------------------------------
(* offer rings the agents that the row calls available. *)
Eligible(u) == presence[u].status = "available" /\ presence[u].connected /\ presence[u].beat > 0

(* An agent whose sockets are gone stops being rung, although the offline
   write may be lost or overtaken, and tabs go on asking for presence. *)
GhostFades == \A u \in Users : ~HasLiveAttachment(u) ~> HasLiveAttachment(u) \/ ~Eligible(u)

(* What the code does not keep: the offline write of an old socket may come
   after the connected write of the new one, and a live agent is not rung. *)
ConnectedIsEligible ==
  \A u \in Users : HasLiveAttachment(u) /\ writes = {} => presence[u].connected
=============================================================================
