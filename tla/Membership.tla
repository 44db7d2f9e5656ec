------------------------------- MODULE Membership -------------------------------
(***************************************************************************)
(* Who belongs to a workspace: first-use setup (setup.ts), invitations and *)
(* the registration and acceptance they lead to (agent-onboarding.ts), and *)
(* role changes, access grants and offboarding (team-management.ts), with  *)
(* the triggers of the migrations that guard them.                         *)
(*                                                                         *)
(* A call is one HTTP request.  Each statement or batch on D1 is one step, *)
(* and a batch is a transaction.  Better Auth writes an account by itself  *)
(* and may fail after it did.  A worker may die between any two steps.     *)
(*                                                                         *)
(* A person stands for an email address.  An account that is deleted takes *)
(* its id with it: a call that still holds the id resolves to nobody.      *)
(*                                                                         *)
(* Left out: password and address syntax, the delivery of the mails, other *)
(* workspaces, and the reads that only choose the wording of a refusal.    *)
(***************************************************************************)
EXTENDS Naturals, FiniteSets

CONSTANTS
  People,
  Names,      \* usernames
  Invites,    \* ids of invitations
  Calls,
  None,
  MaxToken    \* bound on the tokens that are issued

ASSUME NoneAssumption == None \notin People \cup Names \cup Invites
ASSUME TokenAssumption == MaxToken \in Nat

Roles == {"owner", "admin", "member"}
Account == [verified : BOOLEAN, name : Names]
Claim == [by : People, done : BOOLEAN]
Invitation == [email : People, name : Names, token : 0 .. MaxToken, expired : BOOLEAN,
               claimed : BOOLEAN, bound : BOOLEAN, accepted : BOOLEAN, revoked : BOOLEAN]

(* No row reads as a missing row. *)
ASSUME RowAssumption == None \notin Claim \cup Account \cup Invitation

Stages == {"idle", "look", "count", "apply", "name", "revoke", "insert",
           "read", "drop", "erase", "replace", "claim", "signup", "unclaim",
           "provision", "bind", "verify", "join"}
Ops == {"none", "setup", "role", "access", "offboard", "invite", "delete", "resend",
        "register", "accept"}
Call == [op : Ops, at : Stages, by : People \cup {None}, on : People \cup {None},
         inv : Invites \cup {None}, name : Names \cup {None}, token : 0 .. MaxToken,
         want : Roles \cup {"none"}, mine : Roles \cup {"none"}]

Idle == [op |-> "none", at |-> "idle", by |-> None, on |-> None, inv |-> None, name |-> None,
         token |-> 0, want |-> "none", mine |-> "none"]

VARIABLES
  claim,      \* workspace_setup_claim, the singleton row, or None
  founded,    \* whether the workspace exists
  account,    \* account[p], the row of user with p's email, or None
  role,       \* role[p] in workspace_members, "none" without a row
  grants,     \* grants[p], whether p has rows in team_members or inbox_members
  invite,     \* invite[i], the row of agent_invitations, or None
  issued,     \* the tokens that were mailed so far
  call

tenant == <<claim, founded>>
members == <<role, grants>>
invitations == <<invite, issued>>
vars == <<tenant, account, members, invitations, call>>

TypeOK ==
  /\ claim \in Claim \cup {None}
  /\ founded \in BOOLEAN
  /\ account \in [People -> Account \cup {None}]
  /\ role \in [People -> Roles \cup {"none"}]
  /\ grants \in [People -> BOOLEAN]
  /\ invite \in [Invites -> Invitation \cup {None}]
  /\ issued \in 0 .. MaxToken
  /\ call \in [Calls -> Call]

Init ==
  /\ claim = None
  /\ founded = FALSE
  /\ account = [p \in People |-> None]
  /\ role = [p \in People |-> "none"]
  /\ grants = [p \in People |-> FALSE]
  /\ invite = [i \in Invites |-> None]
  /\ issued = 0
  /\ call = [r \in Calls |-> Idle]

-----------------------------------------------------------------------------
Begin(r, c) == call[r] = Idle /\ call' = [call EXCEPT ![r] = c]
At(r, op, stage) == call[r].op = op /\ call[r].at = stage
Goto(r, stage) == call' = [call EXCEPT ![r].at = stage]
End(r) == call' = [call EXCEPT ![r] = Idle]

Exists(p) == p \in People /\ account[p] # None
Owners == {p \in People : role[p] = "owner"}
IsAdmin(rank) == rank \in {"owner", "admin"}

(* Better Auth's signUpEmail: the account, unless its address or its username
   is taken.  The call may also fail, before or after the account is stored. *)
Free(p, n) == account[p] = None /\ \A q \in People : Exists(q) => account[q].name # n
Store(p, n) == account' = [account EXCEPT ![p] = [verified |-> FALSE, name |-> n]]

(* The worker is evicted, or the statement of the step fails. *)
Die(r) == call[r] # Idle /\ End(r) /\ UNCHANGED <<tenant, account, members, invitations>>

-----------------------------------------------------------------------------
(* First-use setup.                                                         *)

(* Faulty: a claim that is not completed does not count. *)
Unfounded == ~founded /\ (\A q \in People : role[q] = "none")

ClaimFree == ~founded /\ (\A q \in People : role[q] = "none") /\ claim = None

ClaimSetup(r, p, n) ==
  /\ ClaimFree
  /\ Begin(r, [Idle EXCEPT !.op = "setup", !.at = "signup", !.by = p, !.name = n])
  /\ claim' = [by |-> p, done |-> FALSE]
  /\ UNCHANGED <<founded, account, members, invitations>>

SetupSignUp(r) ==
  LET p == call[r].by IN
  /\ At(r, "setup", "signup")
  /\ \/ Free(p, call[r].name) /\ Store(p, call[r].name) /\ Goto(r, "provision")
     \/ Free(p, call[r].name) /\ Store(p, call[r].name) /\ Goto(r, "unclaim")
     \/ Goto(r, "unclaim") /\ UNCHANGED account
  /\ UNCHANGED <<tenant, members, invitations>>

Unclaim(r) ==
  LET p == call[r].by IN
  /\ At(r, "setup", "unclaim")
  /\ claim' = IF claim # None /\ claim.by = p /\ ~Exists(p) THEN None ELSE claim
  /\ End(r)
  /\ UNCHANGED <<founded, account, members, invitations>>

(* provisionWorkspace with the completion of the claim, one batch. *)
Provision(r) ==
  LET p == call[r].by IN
  /\ At(r, "setup", "provision")
  /\ Exists(p)
  /\ founded' = TRUE
  /\ role' = [role EXCEPT ![p] = "owner"]
  /\ grants' = [grants EXCEPT ![p] = TRUE]
  /\ claim' = IF claim # None /\ claim.by = p THEN [claim EXCEPT !.done = TRUE] ELSE claim
  /\ End(r)
  /\ UNCHANGED <<account, invitations>>

-----------------------------------------------------------------------------
(* Requests of a signed-in account; one that is refused changes nothing and *)
(* is no step.  requireWorkspaceAccess reads the actor's role, and           *)
(* requireOwnerAccess whether the account is verified.                       *)

Session(p) == Exists(p) /\ role[p] # "none"
Verified(p) == Session(p) /\ IsAdmin(role[p]) /\ account[p].verified

BeginRole(r, p, q, want) ==
  /\ Session(p) /\ role[p] = "owner"
  /\ Begin(r, [Idle EXCEPT !.op = "role", !.at = "look", !.on = q, !.want = want])
  /\ UNCHANGED <<tenant, account, members, invitations>>

BeginAccess(r, p, q) ==
  /\ Session(p) /\ IsAdmin(role[p])
  /\ Begin(r, [Idle EXCEPT !.op = "access", !.at = "look", !.on = q])
  /\ UNCHANGED <<tenant, account, members, invitations>>

BeginOffboard(r, p, q) ==
  /\ Session(p) /\ IsAdmin(role[p])
  /\ p # q
  /\ Begin(r, [Idle EXCEPT !.op = "offboard", !.at = "look", !.on = q, !.mine = role[p]])
  /\ UNCHANGED <<tenant, account, members, invitations>>

BeginInvite(r, p, q, n) ==
  /\ Verified(p)
  /\ issued < MaxToken
  /\ Begin(r, [Idle EXCEPT !.op = "invite", !.at = "name", !.on = q, !.name = n])
  /\ UNCHANGED <<tenant, account, members, invitations>>

BeginDelete(r, p, i) ==
  /\ Verified(p)
  /\ invite[i] # None
  /\ Begin(r, [Idle EXCEPT !.op = "delete", !.at = "read", !.inv = i])
  /\ UNCHANGED <<tenant, account, members, invitations>>

BeginResend(r, p, i) ==
  /\ Verified(p)
  /\ invite[i] # None
  /\ issued < MaxToken
  /\ Begin(r, [Idle EXCEPT !.op = "resend", !.at = "replace", !.inv = i])
  /\ UNCHANGED <<tenant, account, members, invitations>>

BeginAccept(r, p, t) ==
  /\ Exists(p)
  /\ t \in 1 .. issued
  /\ Begin(r, [Idle EXCEPT !.op = "accept", !.at = "verify", !.by = p, !.token = t])
  /\ UNCHANGED <<tenant, account, members, invitations>>

-----------------------------------------------------------------------------
(* Role, access and removal of a member.                                    *)

(* findMember, and whether what it read needs the owners counted. *)
Refused(r, rank) ==
  \/ rank = "none"
  \/ call[r].op = "offboard" /\ call[r].mine = "admin" /\ rank # "member"

MustCount(r, rank) ==
  rank = "owner" /\ (call[r].op = "offboard" \/ (call[r].op = "role" /\ call[r].want # "owner"))

Look(r) ==
  LET rank == role[call[r].on] IN
  /\ call[r].at = "look"
  /\ IF Refused(r, rank)
     THEN End(r)
     ELSE Goto(r, IF MustCount(r, rank) THEN "count" ELSE "apply")
  /\ UNCHANGED <<tenant, account, members, invitations>>

CountOwners(r) ==
  /\ call[r].at = "count"
  /\ IF Cardinality(Owners) <= 1 THEN End(r) ELSE Goto(r, "apply")
  /\ UNCHANGED <<tenant, account, members, invitations>>

(* Faulty: no trigger. *)
NoTrigger(q) == FALSE

(* The triggers of migration 0025: the last owner is neither demoted nor
   removed, the statement aborts and with it its batch. *)
LastOwner(q) == Owners = {q}

ApplyRole(r) ==
  LET q == call[r].on IN
  /\ At(r, "role", "apply")
  /\ End(r)
  /\ role' = IF role[q] = "none" \/ (LastOwner(q) /\ call[r].want # "owner")
             THEN role ELSE [role EXCEPT ![q] = call[r].want]
  /\ UNCHANGED <<tenant, account, grants, invitations>>

ApplyOffboard(r) ==
  LET q == call[r].on IN
  /\ At(r, "offboard", "apply")
  /\ End(r)
  /\ IF LastOwner(q)
     THEN UNCHANGED members
     ELSE /\ role' = [role EXCEPT ![q] = "none"]
          /\ grants' = [grants EXCEPT ![q] = FALSE]
  /\ UNCHANGED <<tenant, account, invitations>>

(* The teams and inboxes are replaced by those of the request, which may be
   none; the batch does not look at workspace_members. *)
ApplyAccess(r) ==
  /\ At(r, "access", "apply")
  /\ End(r)
  /\ \E some \in BOOLEAN : grants' = [grants EXCEPT ![call[r].on] = some]
  /\ UNCHANGED <<tenant, account, role, invitations>>

-----------------------------------------------------------------------------
(* Invitations.                                                             *)

(* Faulty: an accepted invitation is deleted like any other. *)
OnRecord(i) == invite[i] # None

Pending(i) == invite[i] # None /\ ~invite[i].accepted
Active(i) == Pending(i) /\ ~invite[i].revoked
Usable(i, t) == Active(i) /\ ~invite[i].expired /\ invite[i].token = t

(* UPDATE agent_invitations SET ... WHERE S. *)
Update(S, to(_)) == invite' = [i \in Invites |-> IF i \in S THEN to(invite[i]) ELSE invite[i]]

CheckName(r) ==
  /\ call[r].at = "name"
  /\ IF \E p \in People : Exists(p) /\ account[p].name = call[r].name
     THEN End(r) ELSE Goto(r, "revoke")
  /\ UNCHANGED <<tenant, account, members, invitations>>

RevokeExpired(r) ==
  /\ call[r].at = "revoke"
  /\ Update({i \in Invites : Active(i) /\ invite[i].expired},
            LAMBDA row : [row EXCEPT !.revoked = TRUE])
  /\ Goto(r, "insert")
  /\ UNCHANGED <<tenant, account, members, issued>>

(* The unique indexes on the active invitations refuse a second one for the
   same address or with the same username. *)
Reserved(q, n) == \E j \in Invites : Active(j) /\ (invite[j].email = q \/ invite[j].name = n)

Insert(r, i) ==
  /\ call[r].at = "insert"
  /\ invite[i] = None
  /\ issued < MaxToken
  /\ End(r)
  /\ IF Reserved(call[r].on, call[r].name)
     THEN UNCHANGED invitations
     ELSE /\ issued' = issued + 1
          /\ invite' = [invite EXCEPT ![i] =
               [email |-> call[r].on, name |-> call[r].name, token |-> issued + 1,
                expired |-> FALSE, claimed |-> FALSE, bound |-> FALSE,
                accepted |-> FALSE, revoked |-> FALSE]]
  /\ UNCHANGED <<tenant, account, members>>

ReadInvite(r) ==
  LET i == call[r].inv IN
  /\ call[r].at = "read"
  /\ IF ~Pending(i) THEN End(r)
     ELSE IF ~invite[i].bound THEN Goto(r, "drop")
     ELSE IF account[invite[i].email].verified THEN End(r)
     ELSE call' = [call EXCEPT ![r].at = "erase", ![r].on = invite[i].email]
  /\ UNCHANGED <<tenant, account, members, invitations>>

Drop(r) ==
  LET i == call[r].inv IN
  /\ call[r].at = "drop"
  /\ invite' = IF Pending(i) /\ ~invite[i].claimed /\ ~invite[i].bound
               THEN [invite EXCEPT ![i] = None] ELSE invite
  /\ End(r)
  /\ UNCHANGED <<tenant, account, members, issued>>

(* The batch unlinks the account from an invitation that is still pending,
   deletes an account that is still unverified and no member, and deletes the
   invitation if it is unlinked.  Another row that refers to the account makes
   the foreign key abort the batch. *)
Erasable(p) == Exists(p) /\ ~account[p].verified /\ role[p] = "none"
ReferredTo(p, i) ==
  \/ \E j \in Invites \ {i} : invite[j] # None /\ invite[j].bound /\ invite[j].email = p
  \/ claim # None /\ claim.done /\ claim.by = p

Forget(r, p) == [c \in Calls |-> IF c = r THEN Idle
                                 ELSE IF call[c].by = p THEN [call[c] EXCEPT !.by = None]
                                 ELSE call[c]]

Erase(r) ==
  LET i == call[r].inv
      p == call[r].on
  IN /\ call[r].at = "erase"
     /\ IF Erasable(p) /\ ReferredTo(p, i)
        THEN End(r) /\ UNCHANGED <<account, invite>>
        ELSE /\ invite' = IF Pending(i) THEN [invite EXCEPT ![i] = None] ELSE invite
             /\ IF Erasable(p) /\ (invite[i] = None \/ ~invite[i].accepted)
                THEN account' = [account EXCEPT ![p] = None] /\ call' = Forget(r, p)
                ELSE End(r) /\ UNCHANGED account
     /\ UNCHANGED <<tenant, members, issued>>

Replace(r) ==
  LET i == call[r].inv IN
  /\ call[r].at = "replace"
  /\ issued < MaxToken
  /\ End(r)
  /\ IF Active(i) /\ ~invite[i].expired /\ ~invite[i].claimed /\ ~invite[i].bound
     THEN /\ issued' = issued + 1
          /\ invite' = [invite EXCEPT ![i].token = issued + 1]
     ELSE UNCHANGED invitations
  /\ UNCHANGED <<tenant, account, members>>

-----------------------------------------------------------------------------
(* Registration and acceptance, with a token that was mailed at some time.  *)

Claimable(i, t) == Usable(i, t) /\ ~invite[i].claimed

BeginRegister(r, i, t) ==
  /\ Claimable(i, t)
  /\ account[invite[i].email] = None
  /\ Begin(r, [Idle EXCEPT !.op = "register", !.at = "claim", !.on = invite[i].email,
                           !.name = invite[i].name, !.token = t])
  /\ UNCHANGED <<tenant, account, members, invitations>>

(* Faulty: the claim is taken by whoever read the invitation as free. *)
ClaimAgain(r) ==
  /\ call[r].at = "claim"
  /\ Goto(r, "signup")
  /\ Update({i \in Invites : Usable(i, call[r].token)}, LAMBDA row : [row EXCEPT !.claimed = TRUE])
  /\ UNCHANGED <<tenant, account, members, issued>>

ClaimInvite(r) ==
  LET S == {i \in Invites : Claimable(i, call[r].token)} IN
  /\ call[r].at = "claim"
  /\ Update(S, LAMBDA row : [row EXCEPT !.claimed = TRUE])
  /\ IF S # {} THEN Goto(r, "signup") ELSE End(r)
  /\ UNCHANGED <<tenant, account, members, issued>>

(* The claim is kept when the account is not known to exist. *)
SignUp(r) ==
  LET p == call[r].on IN
  /\ At(r, "register", "signup")
  /\ \/ /\ Free(p, call[r].name) /\ Store(p, call[r].name)
        /\ call' = [call EXCEPT ![r].at = "bind", ![r].by = p]
     \/ Free(p, call[r].name) /\ Store(p, call[r].name) /\ End(r)
     \/ End(r) /\ UNCHANGED account
  /\ UNCHANGED <<tenant, members, invitations>>

(* The foreign key refuses an account that is gone. *)
Bind(r) ==
  LET S == {i \in Invites : invite[i] # None /\ invite[i].token = call[r].token} IN
  /\ call[r].at = "bind"
  /\ IF Exists(call[r].by)
     THEN Update(S, LAMBDA row : [row EXCEPT !.bound = TRUE]) /\ Goto(r, "verify")
     ELSE End(r) /\ UNCHANGED invite
  /\ UNCHANGED <<tenant, account, members, issued>>

Addressed(t, p) == {i \in Invites : Usable(i, t) /\ invite[i].email = p}

Verify(r) ==
  LET p == call[r].by IN
  /\ call[r].at = "verify"
  /\ account' = IF Exists(p) /\ Addressed(call[r].token, p) # {}
                THEN [account EXCEPT ![p].verified = TRUE] ELSE account
  /\ Goto(r, "join")
  /\ UNCHANGED <<tenant, members, invitations>>

(* The conditional UPDATE, and the guard of migration 0030. *)
Acceptable(t, p) ==
  IF Exists(p) /\ account[p].verified /\ role[p] = "none" THEN Addressed(t, p) ELSE {}
Guarded(i, p) == account[p].name = invite[i].name

(* The trigger adds the member in the transaction of the acceptance. *)
Join(r) ==
  LET p == call[r].by
      S == {i \in Acceptable(call[r].token, p) : Guarded(i, p)}
  IN /\ call[r].at = "join"
     /\ End(r)
     /\ Update(S, LAMBDA row : [row EXCEPT !.accepted = TRUE, !.bound = TRUE])
     /\ role' = IF S # {} THEN [role EXCEPT ![p] = "member"] ELSE role
     /\ UNCHANGED <<tenant, account, grants, issued>>

-----------------------------------------------------------------------------
(* The environment: a week passes; a person follows a verification link.    *)

Expire(i) ==
  /\ Active(i) /\ ~invite[i].expired
  /\ invite' = [invite EXCEPT ![i].expired = TRUE]
  /\ UNCHANGED <<tenant, account, members, issued, call>>

VerifyEmail(p) ==
  /\ Exists(p) /\ ~account[p].verified
  /\ account' = [account EXCEPT ![p].verified = TRUE]
  /\ UNCHANGED <<tenant, members, invitations, call>>

Setup(r) ==
  \/ \E p \in People, n \in Names : ClaimSetup(r, p, n)
  \/ SetupSignUp(r) \/ Unclaim(r) \/ Provision(r)

Manage(r) ==
  \/ \E p, q \in People : \E want \in Roles : BeginRole(r, p, q, want)
  \/ \E p, q \in People : BeginAccess(r, p, q) \/ BeginOffboard(r, p, q)
  \/ Look(r) \/ CountOwners(r) \/ ApplyRole(r) \/ ApplyOffboard(r) \/ ApplyAccess(r)

Administer(r) ==
  \/ \E p, q \in People, n \in Names : BeginInvite(r, p, q, n)
  \/ \E p \in People, i \in Invites : BeginDelete(r, p, i) \/ BeginResend(r, p, i)
  \/ CheckName(r) \/ RevokeExpired(r) \/ (\E i \in Invites : Insert(r, i))
  \/ ReadInvite(r) \/ Drop(r) \/ Erase(r) \/ Replace(r)

Onboard(r) ==
  \/ \E i \in Invites, t \in 1 .. MaxToken : BeginRegister(r, i, t)
  \/ \E p \in People, t \in 1 .. MaxToken : BeginAccept(r, p, t)
  \/ ClaimInvite(r) \/ SignUp(r) \/ Bind(r) \/ Verify(r) \/ Join(r)

Next ==
  \/ \E r \in Calls : Setup(r) \/ Manage(r) \/ Administer(r) \/ Onboard(r) \/ Die(r)
  \/ \E i \in Invites : Expire(i)
  \/ \E p \in People : VerifyEmail(p)

Spec == Init /\ [][Next]_vars

-----------------------------------------------------------------------------
(* Properties.                                                              *)

(* A workspace that exists has an owner, whatever two owners do to each
   other at the same time. *)
OwnerRemains == founded => Owners # {}

(* A member has an account and either founded the workspace or is verified
   and has an accepted invitation, which is still on record: an invitation or
   an account that is being deleted makes nobody a member meanwhile. *)
MembersAreInvited ==
  \A p \in People : role[p] # "none" =>
    /\ Exists(p)
    /\ \/ claim # None /\ claim.by = p
       \/ /\ account[p].verified
          /\ \E i \in Invites : invite[i] # None /\ invite[i].accepted /\ invite[i].email = p

(* What is claimed is claimed by one request: a setup between its claim and
   its workspace is the only one, and none is there once the workspace
   exists; one registration at a time creates the account of an invitation. *)
ClaimsAreExclusive ==
  /\ \A r, s \in Calls :
       At(r, "setup", "signup") \/ At(r, "setup", "provision") =>
         /\ ~founded
         /\ claim # None /\ claim.by = call[r].by
         /\ call[s].op = "setup" => s = r
  /\ \A r, s \in Calls :
       /\ At(r, "register", "signup") /\ call[s].op = "register"
       /\ call[s].at \in {"signup", "bind", "verify", "join"}
       /\ call[r].token = call[s].token
       => r = s
=============================================================================
