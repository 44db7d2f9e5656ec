---------------------------- MODULE ConversationRoom ----------------------------
(***************************************************************************)
(* The sockets of one conversation's Durable Object (conversation-do.ts):  *)
(* upgrades, frames of the clients, comments and broadcasts, and the       *)
(* presence of the agents, while access to the conversation changes in D1. *)
(*                                                                         *)
(* Whoever receives an event is asked for again in D1 at that moment: is   *)
(* the agent a member, may he read the inbox, may he read the mailbox of   *)
(* the conversation.  Each question is answered from several tables, which *)
(* are read one after the other while they change, and the object handles  *)
(* other events meanwhile.  A task is one handler between its awaits; a    *)
(* broadcast visits the sockets that were open when it began.              *)
(*                                                                         *)
(* Left out: what an event says; conversations of chat channels, which     *)
(* skip the last question; a conversation that is moved to another inbox.  *)
(* The rows of the inbox, its mailboxes and the teams do not change here,  *)
(* so their reads are no steps.                                            *)
(***************************************************************************)
EXTENDS InboxAccess

CONSTANTS
  Box,        \* the mailbox of the conversation
  Sockets,
  Tasks,
  MaxEvents   \* bound on the handlers that are started

ASSUME BoxAssumption == Box \in Boxes

VARIABLES
  socket,     \* the agent and the state of each socket
  presence,   \* the table of agents and what they do
  task,
  started,
  leaked      \* agents that were sent an event they may not have

roomVars == <<socket, presence, task, started, leaked>>

(* workspace_members, inbox_members, team_members and mailbox_delegates. *)
Tables == {"staff", "grants", "teams", "delegates"}
Questions == {"member", "inbox", "mail"}

NoSocket == [agent |-> NoOne, state |-> "none"]
NotAsked == [x \in Tables |-> {}]
AtRest == [do |-> "rest", step |-> "none", left |-> {}, yes |-> TRUE, sock |-> NoOne, kind |-> "none",
           todo |-> {}, barred |-> NotAsked]

(* A task knows the question it asks, the tables it has still to read for it
   and whether those it read say yes. *)
Socket == [agent : Users \cup {NoOne}, state : {"none", "asking", "open", "closing", "closed"}]
Kinds == {"none", "opened", "closed", "typing"}
Task == [do : {"rest", "upgrade", "frame", "cast"}, step : Questions \cup {"none"},
         left : SUBSET Tables, yes : BOOLEAN,
         sock : Sockets \cup {NoOne}, kind : Kinds, todo : SUBSET Sockets,
         barred : [Tables -> SUBSET Users]]

RoomTypeOK ==
  /\ socket \in [Sockets -> Socket]
  /\ presence \in [Users -> {"absent", "viewing", "drafting"}]
  /\ task \in [Tasks -> Task]
  /\ started \in Nat
  /\ leaked \subseteq Users

RoomInit ==
  /\ socket = [s \in Sockets |-> NoSocket]
  /\ presence = [u \in Users |-> "absent"]
  /\ task = [t \in Tasks |-> AtRest]
  /\ started = 0
  /\ leaked = {}

-----------------------------------------------------------------------------
(* What one table says of an agent, to the question for the inbox
   (getReadableInboxIds) and to that for the mailbox
   (getMailboxAccessByAddress).  An answer is yes when every table says so. *)
Backing == {b \in Boxes : Behind[b] = Behind[Box]}
TeamMail(u, b) ==
  Visibility[Behind[Box]] = "team" /\ InboxTeam[Behind[Box]] = BoxTeam[b] /\ InTeam(u, BoxTeam[b])

InboxSays(u, x) ==
  LET i == Behind[Box] IN
  CASE x = "staff" -> u \in staff
    [] x = "grants" ->
         /\ Visibility[i] = "shared" => Granted(i) = {} \/ u \in Granted(i)
         /\ Visibility[i] = "private" => u \in Granted(i)
         /\ \A b \in Backing \ Private : BoxTeam[b] = NoOne => u \in Granted(i)
    [] x = "teams" ->
         /\ Visibility[i] = "team" => InTeam(u, InboxTeam[i])
         /\ \A b \in Backing \ Private : BoxTeam[b] # NoOne => TeamMail(u, b)
    [] x = "delegates" -> \A b \in Backing \cap Private : Owner[b] = u \/ <<b, u>> \in delegates

MailSays(u, x) ==
  CASE x = "staff" -> u \in staff
    [] x = "grants" ->
         Box \notin Private /\ BoxTeam[Box] = NoOne => Visibility[Behind[Box]] = "shared" /\ u \in Granted(Behind[Box])
    [] x = "teams" -> Box \notin Private /\ BoxTeam[Box] # NoOne => TeamMail(u, Box)
    [] x = "delegates" -> Box \in Private => Owner[Box] = u \/ <<Box, u>> \in delegates

(* Whom each table denies the conversation now. *)
Denied == [x \in Tables |-> {u \in Users : ~(InboxSays(u, x) /\ MailSays(u, x))}]

(* Whom a table has denied it ever since an event was made, after a change. *)
StillBarred(b) == [x \in Tables |-> b[x] \cap Denied'[x]]
ChangeRights ==
  /\ AccessNext
  /\ task' = [t \in Tasks |-> [task[t] EXCEPT !.barred = StillBarred(@)]]
  /\ UNCHANGED <<socket, presence, started, leaked>>

Begins(t) ==
  /\ task[t] = AtRest
  /\ started < MaxEvents
  /\ started' = started + 1
Rest(t) == task' = [task EXCEPT ![t] = AtRest]
Open(sk) == {s \in Sockets : sk[s].state = "open"}

(* broadcast: the event is fixed, then the open sockets are visited. *)
Casting(sk) ==
  [do |-> "cast", step |-> "none", left |-> {}, yes |-> TRUE, sock |-> NoOne, kind |-> "none",
   todo |-> Open(sk), barred |-> Denied]
Cast(t, sk) == task' = [task EXCEPT ![t] = IF Open(sk) = {} THEN AtRest ELSE Casting(sk)]

(* A handler that asks at first for the agent of a socket. *)
Asking(do, s, kind) ==
  [do |-> do, step |-> "member", left |-> {"staff"}, yes |-> TRUE, sock |-> s, kind |-> kind,
   todo |-> {}, barred |-> NotAsked]

(* handleWebSocket and handleUpgrade. *)
Upgrade(t, s, u) ==
  /\ Begins(t)
  /\ socket[s].state = "none"
  /\ socket' = [socket EXCEPT ![s] = [agent |-> u, state |-> "asking"]]
  /\ task' = [task EXCEPT ![t] = Asking("upgrade", s, "none")]
  /\ UNCHANGED <<presence, leaked, accessVars>>

(* A frame of a client: draft:opened, draft:closed or typing. *)
Frame(t, s, kind) ==
  /\ Begins(t)
  /\ socket[s].state = "open"
  /\ task' = [task EXCEPT ![t] = Asking("frame", s, kind)]
  /\ UNCHANGED <<socket, presence, leaked, accessVars>>

(* The Worker appends a message, a comment or an activity, or relays that
   the conversation was updated. *)
Append(t) ==
  /\ Begins(t)
  /\ Open(socket) # {}
  /\ Cast(t, socket)
  /\ UNCHANGED <<socket, presence, leaked, accessVars>>

(* A broadcast turns to its next socket. *)
Visit(t, s) ==
  /\ task[t].do = "cast" /\ task[t].step = "none"
  /\ s \in task[t].todo
  /\ task' = [task EXCEPT ![t] = [task[t] EXCEPT !.step = "member", !.left = {"staff"}, !.yes = TRUE,
                                                !.sock = s, !.todo = task[t].todo \ {s}]]
  /\ UNCHANGED <<socket, presence, started, leaked, accessVars>>

-----------------------------------------------------------------------------
(* canReadConversation, for the agent of the task's socket. *)
Agent(t) == socket[task[t].sock].agent

(* The tables a question reads before table x: the members first, what is read
   by one Promise.all in any order, the delegates of an inbox last. *)
Before(q, x) ==
  CASE x = "staff" -> {}
    [] q = "inbox" /\ x = "delegates" -> Tables \ {x}
    [] OTHER -> {"staff"}

Says(t, x) == IF task[t].step = "mail" THEN MailSays(Agent(t), x) ELSE InboxSays(Agent(t), x)

(* One table is read.  A no ends the reading: what else the code reads then
   cannot change the answer, which may be acted on as late. *)
Read(t, x) ==
  /\ task[t].step # "none"
  /\ x \in task[t].left
  /\ task[t].left \cap Before(task[t].step, x) = {}
  /\ task' = [task EXCEPT ![t].left = IF Says(t, x) THEN task[t].left \ {x} ELSE {},
                          ![t].yes = task[t].yes /\ Says(t, x)]
  /\ UNCHANGED <<socket, presence, started, leaked, accessVars>>

Answered(t, yes) == task[t].step # "none" /\ task[t].left = {} /\ task[t].yes = yes
(* Faulty: whoever was let in once need only be a member still. *)
MayReadAsMember(t) ==
  /\ task[t].step = "mail" \/ (task[t].step = "member" /\ task[t].do # "upgrade")
  /\ Answered(t, TRUE)
MayRead(t) == task[t].step = "mail" /\ Answered(t, TRUE)

(* A yes leads to the next question. *)
Continue(t) ==
  /\ task[t].step # "mail" /\ Answered(t, TRUE)
  /\ task' = [task EXCEPT ![t].step = IF task[t].step = "member" THEN "inbox" ELSE "mail", ![t].left = Tables]
  /\ UNCHANGED <<socket, presence, started, leaked, accessVars>>

Admit(t) ==
  LET s == task[t].sock
      opened == [socket EXCEPT ![s].state = "open"]
  IN /\ task[t].do = "upgrade" /\ MayRead(t)
     /\ socket' = opened
     /\ presence' = [presence EXCEPT ![Agent(t)] = "viewing"]
     /\ Cast(t, opened)
     /\ UNCHANGED <<started, leaked, accessVars>>

(* webSocketMessage after its await; the socket may be gone by then. *)
TakeFrame(t) ==
  LET k == task[t].kind IN
  /\ task[t].do = "frame" /\ MayRead(t)
  /\ presence' = CASE k = "opened" -> [presence EXCEPT ![Agent(t)] = "drafting"]
                   [] k = "closed" -> [presence EXCEPT ![Agent(t)] = "viewing"]
                   [] k = "typing" -> presence
  /\ Cast(t, socket)
  /\ UNCHANGED <<socket, started, leaked, accessVars>>

NextSocket(t) ==
  IF task[t].todo = {} THEN Rest(t)
  ELSE task' = [task EXCEPT ![t] = [task[t] EXCEPT !.step = "none", !.left = {}, !.yes = TRUE, !.sock = NoOne]]

Send(t) ==
  /\ task[t].do = "cast" /\ MayRead(t)
  /\ leaked' = IF socket[task[t].sock].state = "open" /\ \E x \in Tables : Agent(t) \in task[t].barred[x]
               THEN leaked \cup {Agent(t)} ELSE leaked
  /\ NextSocket(t)
  /\ UNCHANGED <<socket, presence, started, accessVars>>

(* The answer is no: an upgrade is refused; a socket is closed and its agent
   is no longer present. *)
Refuse(t) ==
  LET s == task[t].sock IN
  /\ Answered(t, FALSE)
  /\ IF task[t].do = "upgrade"
     THEN socket' = [socket EXCEPT ![s].state = "closed"] /\ UNCHANGED presence
     ELSE /\ socket' = [socket EXCEPT ![s].state = IF @ = "open" THEN "closing" ELSE @]
          /\ presence' = [presence EXCEPT ![Agent(t)] = "absent"]
  /\ IF task[t].do = "cast" THEN NextSocket(t) ELSE Rest(t)
  /\ UNCHANGED <<started, leaked, accessVars>>

(* A read fails or its answer is lost: the socket is closed, the presence is left. *)
AskFails(t) ==
  LET s == task[t].sock IN
  /\ task[t].step # "none"
  /\ socket' = [socket EXCEPT ![s].state = CASE @ = "asking" -> "closed" [] @ = "open" -> "closing" [] OTHER -> @]
  /\ IF task[t].do = "cast" THEN NextSocket(t) ELSE Rest(t)
  /\ UNCHANGED <<presence, started, leaked, accessVars>>

(* webSocketClose: of the client's accord, or after the object closed it. *)
CloseSocket(t, s) ==
  LET closed == [socket EXCEPT ![s].state = "closed"] IN
  /\ Begins(t)
  /\ socket[s].state \in {"open", "closing"}
  /\ socket' = closed
  /\ presence' = [presence EXCEPT ![socket[s].agent] = "absent"]
  /\ Cast(t, closed)
  /\ UNCHANGED <<leaked, accessVars>>

RoomNext ==
  \/ ChangeRights
  \/ \E t \in Tasks, s \in Sockets :
       \/ \E u \in Users : Upgrade(t, s, u)
       \/ \E k \in {"opened", "closed", "typing"} : Frame(t, s, k)
       \/ Visit(t, s)
       \/ CloseSocket(t, s)
  \/ \E t \in Tasks :
       \/ \E x \in Tables : Read(t, x)
       \/ Append(t) \/ Continue(t) \/ Admit(t) \/ TakeFrame(t)
       \/ Send(t) \/ Refuse(t) \/ AskFails(t)

RoomSpec == AccessInit /\ RoomInit /\ [][RoomNext]_<<roomVars, accessVars>>

-----------------------------------------------------------------------------
(* No agent is sent an event that was made after he lost what he needs for it,
   his membership, the grant of the inbox, the team or the delegation of the
   mailbox, unless he got that back meanwhile; and this however broadcasts,
   frames, the reads of the tables and their changes overlap.  Of an agent who
   lacked now the one and now the other it says nothing: the reads of one
   question may fall between, each find what it looks for, and let him in,
   although he had not both at any moment since the event. *)
NothingAfterRevocation == leaked = {}

(* What the code does not keep: an agent is shown as long as one of his
   sockets is open, and no longer.  The end of one of two sockets removes the
   agent; a frame that was being checked when its socket closed brings him
   back for good. *)
PresenceIsTrue ==
  (\A t \in Tasks : task[t] = AtRest) =>
    \A u \in Users : presence[u] # "absent" <=> \E s \in Open(socket) : socket[s].agent = u
=============================================================================
