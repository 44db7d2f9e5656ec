------------------------------ MODULE InboxAccess ------------------------------
(***************************************************************************)
(* Who may read what: the members of a workspace, the grants of its        *)
(* inboxes, the teams and the delegates of private mailboxes, with the     *)
(* requests that change them.                                              *)
(*                                                                         *)
(* The permission is written down three times: getReadableInboxIds         *)
(* (inbox-tree.ts) for inboxes, getMailboxAccessByAddress and the SQL of   *)
(* mailboxReadPredicate (email-transport.ts) for mailboxes.  A request     *)
(* checks first and writes later.                                          *)
(*                                                                         *)
(* Left out: the roles of the actors (Membership has them), archived       *)
(* inboxes, mailboxes that are linked to several inboxes, other            *)
(* workspaces.                                                             *)
(***************************************************************************)
EXTENDS Naturals, FiniteSets

CONSTANTS
  Users, Inboxes, Teams, Boxes,
  Visibility,   \* Visibility[i], inboxes.visibility_type
  InboxTeam,    \* InboxTeam[i], inboxes.team_id
  Private,      \* the mailboxes of type 'private', the others are 'shared'
  Owner,        \* Owner[b], mailboxes.owner_user_id
  BoxTeam,      \* BoxTeam[b], mailboxes.team_id
  Behind,       \* Behind[b], the inbox that mailbox b backs
  NoOne,        \* NULL
  Clerks,       \* requests that change access
  MaxAccess     \* bound on the changes of access

ASSUME AccessAssumption ==
  /\ Visibility \in [Inboxes -> {"system", "shared", "private", "team"}]
  /\ InboxTeam \in [Inboxes -> Teams \cup {NoOne}]
  /\ Private \subseteq Boxes
  /\ Owner \in [Boxes -> Users \cup {NoOne}]
  /\ BoxTeam \in [Boxes -> Teams \cup {NoOne}]
  /\ Behind \in [Boxes -> Inboxes]
  /\ NoOne \notin Users \cup Teams
  /\ MaxAccess \in Nat

(* No statement writes visibility_type: an inbox that the code inserts has the
   default of the column, 'shared' (migration 0026, line 3).  The inbox behind
   a mailbox without a team is such a one. *)
ASSUME VisibilityAssumption ==
  \A b \in Boxes \ Private : BoxTeam[b] = NoOne => Visibility[Behind[b]] = "shared"

VARIABLES
  staff,       \* workspace_members
  permits,     \* inbox_members: pairs of an inbox and a user
  teamed,      \* team_members: pairs of a team and a user
  delegates,   \* mailbox_delegates: pairs of a mailbox and a user
  clerk,       \* the write a request has still to do
  changes

tables == <<staff, permits, teamed, delegates>>
accessVars == <<tables, clerk, changes>>

Unhurried == [do |-> "nothing", on |-> NoOne, user |-> NoOne]
Job == {Unhurried}
       \cup [do : {"grant", "revoke"}, on : Inboxes, user : Users]
       \cup [do : {"delegate", "withdraw"}, on : Private, user : Users]

AccessTypeOK ==
  /\ staff \subseteq Users
  /\ permits \subseteq Inboxes \X Users
  /\ teamed \subseteq Teams \X Users
  /\ delegates \subseteq Private \X Users
  /\ changes \in 0 .. MaxAccess
  /\ clerk \in [Clerks -> Job]

(* Any assignment of members, grants, teams and delegates can be made. *)
AccessInit ==
  /\ staff \in SUBSET Users
  /\ permits \in SUBSET (Inboxes \X Users)
  /\ teamed \in SUBSET (Teams \X Users)
  /\ delegates \in SUBSET (Private \X Users)
  /\ clerk = [r \in Clerks |-> Unhurried]
  /\ changes = 0

-----------------------------------------------------------------------------
(* getReadableInboxIds.                                                     *)

Granted(i) == {u \in Users : <<i, u>> \in permits}
InTeam(u, t) == t # NoOne /\ <<t, u>> \in teamed

(* A shared inbox without grants is open to the workspace. *)
InboxAllowed(u, i) ==
  \/ Visibility[i] = "system"
  \/ Visibility[i] = "shared" /\ (Granted(i) = {} \/ u \in Granted(i))
  \/ Visibility[i] = "private" /\ u \in Granted(i)
  \/ Visibility[i] = "team" /\ InTeam(u, InboxTeam[i])

(* Faulty: the mailbox behind an inbox asks nothing more. *)
AnyReader(u, i, b) == TRUE
BoxAllows(u, i, b) ==
  \/ b \in Private /\ (Owner[b] = u \/ <<b, u>> \in delegates)
  \/ /\ b \notin Private /\ BoxTeam[b] # NoOne
     /\ Visibility[i] = "team" /\ InboxTeam[i] = BoxTeam[b] /\ InTeam(u, BoxTeam[b])
  \/ b \notin Private /\ BoxTeam[b] = NoOne /\ u \in Granted(i)

InboxReadable(u, i) ==
  /\ u \in staff
  /\ InboxAllowed(u, i)
  /\ \A b \in Boxes : Behind[b] = i => BoxAllows(u, i, b)

(* getMailboxAccessByAddress; a private mailbox has no inbox of its own. *)
MailReadable(u, b) ==
  /\ u \in staff
  /\ IF b \in Private
     THEN Owner[b] = u \/ <<b, u>> \in delegates
     ELSE IF BoxTeam[b] # NoOne
     THEN Visibility[Behind[b]] = "team" /\ InboxTeam[Behind[b]] = BoxTeam[b] /\ InTeam(u, BoxTeam[b])
     ELSE Visibility[Behind[b]] = "shared" /\ u \in Granted(Behind[b])

(* mailboxReadPredicate, which lists the mailboxes of an agent. *)
MailListed(u, b) ==
  /\ \E m \in staff : m = u
  /\ \/ b \in Private /\ (Owner[b] = u \/ \E d \in delegates : d = <<b, u>>)
     \/ /\ b \notin Private /\ BoxTeam[b] # NoOne
        /\ \E i \in Inboxes : i = Behind[b] /\ Visibility[i] = "team" /\ InboxTeam[i] = BoxTeam[b]
        /\ \E m \in teamed : m = <<BoxTeam[b], u>>
     \/ /\ b \notin Private /\ BoxTeam[b] = NoOne
        /\ \E i \in Inboxes : i = Behind[b] /\ Visibility[i] = "shared"
        /\ \E g \in permits : g = <<Behind[b], u>>

-----------------------------------------------------------------------------
(* The requests: joinInbox, addInboxMember, removeInboxMember, leaveInbox,
   addPrivateMailboxDelegate and removePrivateMailboxDelegate.  Each checks
   the members it is about and writes in a later statement.  No route calls
   the first four yet. *)
Ask(r, do, on, u) ==
  /\ clerk[r] = Unhurried
  /\ changes' = changes + 1
  /\ clerk' = [clerk EXCEPT ![r] = [do |-> do, on |-> on, user |-> u]]
  /\ UNCHANGED tables

JoinInbox(r, i, u) == u \in staff /\ Ask(r, "grant", i, u)
LeaveInbox(r, i, u) == u \in staff /\ Ask(r, "revoke", i, u)
RemoveInboxMember(r, i, u) == Ask(r, "revoke", i, u)
AddDelegate(r, b, u) == {Owner[b], u} \subseteq staff /\ Ask(r, "delegate", b, u)
RemoveDelegate(r, b, u) == Owner[b] \in staff /\ Ask(r, "withdraw", b, u)

WriteAccess(r) ==
  LET w == clerk[r] IN
  /\ w # Unhurried
  /\ clerk' = [clerk EXCEPT ![r] = Unhurried]
  /\ permits' = CASE w.do = "grant" -> permits \cup {<<w.on, w.user>>}
                 [] w.do = "revoke" -> permits \ {<<w.on, w.user>>}
                 [] OTHER -> permits
  /\ delegates' = CASE w.do = "delegate" -> delegates \cup {<<w.on, w.user>>}
                    [] w.do = "withdraw" -> delegates \ {<<w.on, w.user>>}
                    [] OTHER -> delegates
  /\ UNCHANGED <<staff, teamed, changes>>

(* updateWorkspaceMemberAccess: one batch replaces teams and shared grants. *)
ReplaceAccess(u, ts, is) ==
  /\ u \in staff
  /\ changes' = changes + 1
  /\ \A i \in is : Visibility[i] = "shared"
  /\ teamed' = {p \in teamed : p[2] # u} \cup (ts \X {u})
  /\ permits' = {g \in permits : g[2] # u \/ Visibility[g[1]] # "shared"} \cup (is \X {u})
  /\ UNCHANGED <<staff, delegates, clerk>>

(* offboardWorkspaceMember: the delegations of the member stay. *)
Offboard(u) ==
  /\ u \in staff
  /\ changes' = changes + 1
  /\ staff' = staff \ {u}
  /\ teamed' = {p \in teamed : p[2] # u}
  /\ permits' = {g \in permits : g[2] # u}
  /\ UNCHANGED <<delegates, clerk>>

(* An invitation is accepted. *)
Enter(u) ==
  /\ u \notin staff
  /\ changes' = changes + 1
  /\ staff' = staff \cup {u}
  /\ UNCHANGED <<permits, teamed, delegates, clerk>>

AccessChanges ==
  \/ \E r \in Clerks, u \in Users :
       \/ \E i \in Inboxes : JoinInbox(r, i, u) \/ LeaveInbox(r, i, u) \/ RemoveInboxMember(r, i, u)
       \/ \E b \in Private : AddDelegate(r, b, u) \/ RemoveDelegate(r, b, u)
  \/ \E u \in Users :
       \/ Offboard(u)
       \/ Enter(u)
       \/ \E ts \in SUBSET Teams, is \in SUBSET Inboxes : ReplaceAccess(u, ts, is)

AccessNext ==
  \/ changes < MaxAccess /\ AccessChanges
  \/ \E r \in Clerks : WriteAccess(r)

AccessSpec == AccessInit /\ [][AccessNext]_accessVars

-----------------------------------------------------------------------------
(* The three answers to one question agree, whatever was granted, withdrawn
   or left behind: a mailbox is listed for exactly those who may read it, and
   nobody is shown an inbox whose mail he would be refused. *)
AccessAgrees ==
  \A u \in Users, b \in Boxes :
    /\ MailListed(u, b) <=> MailReadable(u, b)
    /\ InboxReadable(u, Behind[b]) => MailReadable(u, b)

(* What the code does not keep: an inbox that was restricted by its grants
   stays so (ADR 0026: "a restricted shared Inbox means only its inbox_members
   grants").  Whoever removes the last grant opens it to the workspace. *)
RestrictionStays ==
  [][\A i \in Inboxes, u \in Users :
       Visibility[i] = "shared" /\ Granted(i) # {} /\ ~InboxReadable(u, i) /\ InboxReadable(u, i)'
         => <<i, u>> \in permits' \/ u \notin staff]_accessVars
=============================================================================
