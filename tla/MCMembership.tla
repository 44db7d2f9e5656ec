----------------------------- MODULE MCMembership -----------------------------
(***************************************************************************)
(* Who belongs to a workspace, who may read what, and which channels the   *)
(* owners connect.  A behaviour belongs to one of the three parts, and the *)
(* others stay where they began.  The requests that change access begin    *)
(* from every assignment of members, grants, teams and delegates.          *)
(***************************************************************************)
EXTENDS Membership, InboxAccess, MetaConnect, TLC

CONSTANTS open, own, crew, desk, post, shared, u1, u2, t1

VARIABLE part
memberVars == vars
allVars == <<memberVars, accessVars, metaVars, part>>

MCInit ==
  /\ part \in {"members", "access", "meta"}
  /\ Init
  /\ MetaInit
  /\ AccessInit
  /\ part # "access" => staff = Users /\ permits = {} /\ teamed = {} /\ delegates = {}

MCNext ==
  \/ part = "members" /\ Next /\ UNCHANGED <<accessVars, metaVars, part>>
  \/ part = "access" /\ AccessNext /\ UNCHANGED <<memberVars, metaVars, part>>
  \/ part = "meta" /\ MetaNext /\ UNCHANGED <<memberVars, accessVars, part>>

MCSpec == MCInit /\ [][MCNext]_allVars

Interchangeable == Permutations(Calls) \cup Permutations(People) \cup Permutations(Names) \cup Permutations(Invites)

(* An open inbox with a shared mailbox, the inbox of a private mailbox and
   that of a team. *)
Visible == [i \in {open, own, crew} |-> IF i = crew THEN "team" ELSE "shared"]
TeamOf == [i \in {open, own, crew} |-> IF i = crew THEN t1 ELSE NoOne]
Owned == [b \in {desk, post, shared} |-> IF b = post THEN u1 ELSE NoOne]
Teamed == [b \in {desk, post, shared} |-> IF b = shared THEN t1 ELSE NoOne]
Backed == [b \in {desk, post, shared} |-> CASE b = desk -> open [] b = post -> own [] b = shared -> crew]
=============================================================================
