--------------------------- MODULE MembershipProofs ---------------------------
(***************************************************************************)
(* Theorems about Membership, for any people, usernames, invitations and   *)
(* requests, and any number of tokens; about InboxAccess, for any inboxes, *)
(* teams, mailboxes and grants; and about ConversationRoom, for any        *)
(* sockets and handlers of one conversation.                               *)
(***************************************************************************)
EXTENDS Membership, ConversationRoom, TLAPS

-----------------------------------------------------------------------------
(* The inductive invariant.                                                 *)

(* A request is at a stage of its operation and has the input of it. *)
Fits(c) ==
  /\ c.op = "none" => c.at = "idle"
  /\ c.op = "setup" => c.at \in {"signup", "provision", "unclaim"} /\ c.name \in Names
  /\ c.op \in {"role", "access", "offboard"} => c.at \in {"look", "count", "apply"} /\ c.on \in People
  /\ c.op = "invite" => c.at \in {"name", "revoke", "insert"} /\ c.on \in People /\ c.name \in Names
  /\ c.op = "delete" => c.at \in {"read", "drop", "erase"} /\ c.inv \in Invites
  /\ c.op = "resend" => c.at = "replace" /\ c.inv \in Invites
  /\ c.op = "register" =>
       c.at \in {"claim", "signup", "bind", "verify", "join"} /\ c.on \in People /\ c.name \in Names
  /\ c.op = "accept" => c.at \in {"verify", "join"}

(* A registration that has the claim of its invitation. *)
Registers(c) == c.op = "register" /\ c.at \in {"signup", "bind", "verify", "join"}

CallsFit == \A r \in Calls : Fits(call[r]) /\ call[r].token <= issued

(* Before there is a workspace there are a setup and its claim, and nothing
   else. *)
OnlySetup ==
  ~founded =>
    /\ \A p \in People : role[p] = "none"
    /\ \A i \in Invites : invite[i] = None
    /\ issued = 0
    /\ \A r \in Calls : call[r].op \in {"none", "setup"}

(* A setup has the claim until it ends, and is the only one. *)
SetupHasClaim ==
  \A r \in Calls : call[r].op = "setup" =>
    /\ ~founded
    /\ claim # None /\ claim.by = call[r].by
    /\ \A s \in Calls : call[s].op = "setup" => s = r

(* A token names one invitation, and a new one none before. *)
TokensAreFresh ==
  /\ \A i \in Invites : invite[i] # None => invite[i].token <= issued
  /\ \A i, j \in Invites :
       invite[i] # None /\ invite[j] # None /\ invite[i].token = invite[j].token => i = j

(* The invitation of a registration that got past its claim is claimed. *)
RegisteringIsClaimed ==
  \A r \in Calls : Registers(call[r]) =>
    \A i \in Invites : invite[i] # None /\ invite[i].token = call[r].token => invite[i].claimed

OneRegisters ==
  \A r, s \in Calls :
    /\ Registers(call[r]) /\ call[r].at = "signup" /\ Registers(call[s])
    /\ call[r].token = call[s].token
    => r = s

MemberInv ==
  /\ TypeOK
  /\ CallsFit
  /\ OnlySetup
  /\ SetupHasClaim
  /\ TokensAreFresh
  /\ RegisteringIsClaimed
  /\ OneRegisters
  /\ OwnerRemains
  /\ MembersAreInvited

-----------------------------------------------------------------------------
(* Lemmas.                                                                  *)

LEMMA IdleFits == Idle \in Call /\ Fits(Idle) /\ Idle.token = 0 /\ Idle.op = "none"
  BY TokenAssumption DEF Idle, Call, Ops, Stages, Fits

(* The rows of the invitations after a step: none gets an old token, and
   none is no longer claimed. *)
RowsGrow ==
  /\ issued' \in Nat /\ issued <= issued'
  /\ \A i \in Invites : invite'[i] # None /\ invite'[i].token <= issued =>
       /\ invite[i] # None /\ invite[i].token = invite'[i].token
       /\ invite[i].claimed => invite'[i].claimed

(* What a step of request r may make of the requests: r goes on with c, and
   the others stay, or lose an account that was deleted. *)
OthersStay(r) ==
  \A s \in Calls \ {r} :
    /\ call'[s].op = call[s].op /\ call'[s].at = call[s].at /\ call'[s].token = call[s].token
    /\ call'[s].on = call[s].on /\ call'[s].inv = call[s].inv /\ call'[s].name = call[s].name
    /\ call[s].op = "setup" => call'[s].by = call[s].by

LEMMA RegistersKeep ==
  ASSUME MemberInv, NEW r \in Calls, OthersStay(r), RowsGrow,
         Fits(call'[r]), call'[r].token \in Nat, call'[r].token <= issued',
         Registers(call'[r]) => Registers(call[r]) /\ call'[r].token = call[r].token,
         call'[r].op = "register" /\ call'[r].at = "signup" => call[r].at = "signup"
  PROVE  CallsFit' /\ RegisteringIsClaimed' /\ OneRegisters'
<1> USE DEF MemberInv, OthersStay, RowsGrow
<1>0. \A s \in Calls : call[s].token \in Nat /\ call[s].token <= issued
  BY TokenAssumption DEF CallsFit, TypeOK, Call
<1>1. CallsFit'
  BY <1>0, TokenAssumption DEF CallsFit, Fits, TypeOK
<1>2. RegisteringIsClaimed'
  BY <1>0 DEF RegisteringIsClaimed, Registers
<1>3. OneRegisters'
  BY DEF OneRegisters, Registers
<1> QED
  BY <1>1, <1>2, <1>3

LEMMA CallsKeep ==
  ASSUME MemberInv, NEW r \in Calls, OthersStay(r), RowsGrow,
         founded' = founded, claim' = claim,
         Fits(call'[r]), call'[r].token \in Nat, call'[r].token <= issued',
         call'[r].op \in {"none", "setup"} \/ founded,
         call'[r].op = "setup" => call[r].op = "setup" /\ call'[r].by = call[r].by,
         Registers(call'[r]) => Registers(call[r]) /\ call'[r].token = call[r].token,
         call'[r].op = "register" /\ call'[r].at = "signup" => call[r].at = "signup"
  PROVE  /\ CallsFit' /\ SetupHasClaim' /\ RegisteringIsClaimed' /\ OneRegisters'
         /\ ~founded' => \A s \in Calls : call'[s].op \in {"none", "setup"}
<1>1. CallsFit' /\ RegisteringIsClaimed' /\ OneRegisters'
  BY RegistersKeep
<1>2. SetupHasClaim'
  BY DEF MemberInv, OthersStay, SetupHasClaim
<1>3. ~founded' => \A s \in Calls : call'[s].op \in {"none", "setup"}
  BY DEF MemberInv, OthersStay, OnlySetup
<1> QED
  BY <1>1, <1>2, <1>3

records == <<tenant, account, members, invitations>>

(* A step that writes no table. *)
LEMMA LocalKeeps ==
  ASSUME MemberInv, NEW r \in Calls, NEW c \in Call, call' = [call EXCEPT ![r] = c],
         UNCHANGED records,
         Fits(c), c.token <= issued,
         c.op \in {"none", "setup"} \/ founded,
         c.op = "setup" => call[r].op = "setup" /\ c.by = call[r].by,
         Registers(c) => Registers(call[r]) /\ c.token = call[r].token,
         c.op = "register" /\ c.at = "signup" => call[r].at = "signup"
  PROVE  MemberInv'
<1> USE DEF MemberInv, records, tenant, members, invitations
<1>1. call' \in [Calls -> Call] /\ call'[r] = c /\ \A s \in Calls \ {r} : call'[s] = call[s]
  BY DEF TypeOK
<1>2. OthersStay(r)
  BY <1>1 DEF OthersStay
<1>3. RowsGrow
  BY DEF RowsGrow, TypeOK
<1>4. c.token \in Nat
  BY DEF Call
<1>5. /\ CallsFit' /\ SetupHasClaim' /\ RegisteringIsClaimed' /\ OneRegisters'
      /\ ~founded' => \A s \in Calls : call'[s].op \in {"none", "setup"}
  BY <1>1, <1>2, <1>3, <1>4, CallsKeep
<1>6. TypeOK'
  BY <1>1 DEF TypeOK
<1>7. OnlySetup' /\ TokensAreFresh'
  BY <1>5 DEF OnlySetup, TokensAreFresh
<1>8. OwnerRemains' /\ MembersAreInvited'
  BY DEF OwnerRemains, Owners, MembersAreInvited, Exists
<1> QED
  BY <1>5, <1>6, <1>7, <1>8

(* A request that ends. *)
LEMMA EndKeeps ==
  ASSUME MemberInv, NEW r \in Calls, End(r), UNCHANGED records
  PROVE  MemberInv'
<1>1. 0 <= issued
  BY TokenAssumption DEF MemberInv, TypeOK
<1>2. ~Registers(Idle)
  BY IdleFits DEF Registers
<1> QED
  BY <1>1, <1>2, IdleFits, LocalKeeps DEF End

(* A request that goes on to another stage of its operation. *)
LEMMA GotoKeeps ==
  ASSUME MemberInv, NEW r \in Calls, NEW at \in Stages \ {"signup"}, Goto(r, at), UNCHANGED records,
         Fits([call[r] EXCEPT !.at = at]), call[r].op # "none",
         Registers([call[r] EXCEPT !.at = at]) => Registers(call[r])
  PROVE  MemberInv'
<1> DEFINE c == [call[r] EXCEPT !.at = at]
<1>1. c \in Call /\ c.token = call[r].token /\ c.op = call[r].op /\ c.by = call[r].by /\ c.at = at
  BY DEF MemberInv, TypeOK, Call
<1>2. call' = [call EXCEPT ![r] = c]
  BY DEF Goto
<1>3. c.token <= issued /\ (c.op \in {"none", "setup"} \/ founded)
  BY <1>1 DEF MemberInv, CallsFit, OnlySetup
<1> QED
  BY <1>1, <1>2, <1>3, LocalKeeps

(* The requests of a signed-in account begin. *)
LEMMA BeginKeeps ==
  ASSUME MemberInv, NEW r \in Calls, NEW c \in Call, Begin(r, c), UNCHANGED records,
         founded, Fits(c), c.token <= issued, c.op \notin {"none", "setup"}, ~Registers(c),
         c.at # "signup"
  PROVE  MemberInv'
  BY LocalKeeps DEF Begin

(* Whoever has a role has a workspace. *)
LEMMA SessionFounded ==
  ASSUME MemberInv, NEW p \in People, role[p] # "none"
  PROVE  founded
  BY DEF MemberInv, OnlySetup

-----------------------------------------------------------------------------
(* Requests that begin, and steps that only read.                           *)

LEMMA ManageBegins ==
  ASSUME MemberInv, NEW r \in Calls, NEW p \in People, NEW q \in People,
         BeginAccess(r, p, q) \/ BeginOffboard(r, p, q) \/ \E want \in Roles : BeginRole(r, p, q, want)
  PROVE  MemberInv'
<1> USE DEF records
<1>0. /\ Idle \in Call /\ Idle.token = 0 /\ 0 <= issued
      /\ role[p] \in Roles \cup {"none"}
  BY IdleFits, TokenAssumption DEF MemberInv, TypeOK
<1>1. CASE BeginAccess(r, p, q)
  <2> DEFINE c == [Idle EXCEPT !.op = "access", !.at = "look", !.on = q]
  <2>1. "access" \in Ops /\ "look" \in Stages
    BY DEF Ops, Stages
  <2>2. c \in Call
    BY <1>0, <2>1 DEF Call
  <2>3. Fits(c) /\ c.token <= issued /\ c.op \notin {"none", "setup"} /\ ~Registers(c)
        /\ c.at # "signup"
    BY <1>0, <2>2 DEF Call, Fits, Registers
  <2>4. Begin(r, c) /\ role[p] # "none" /\ UNCHANGED records
    BY <1>1 DEF BeginAccess, Session
  <2> HIDE DEF c
  <2> QED
    BY <2>2, <2>3, <2>4, SessionFounded, BeginKeeps
<1>2. CASE BeginOffboard(r, p, q)
  <2> DEFINE c == [Idle EXCEPT !.op = "offboard", !.at = "look", !.on = q, !.mine = role[p]]
  <2>1. "offboard" \in Ops /\ "look" \in Stages
    BY DEF Ops, Stages
  <2>2. c \in Call
    BY <1>0, <2>1 DEF Call
  <2>3. Fits(c) /\ c.token <= issued /\ c.op \notin {"none", "setup"} /\ ~Registers(c)
        /\ c.at # "signup"
    BY <1>0, <2>2 DEF Call, Fits, Registers
  <2>4. Begin(r, c) /\ role[p] # "none" /\ UNCHANGED records
    BY <1>2 DEF BeginOffboard, Session
  <2> HIDE DEF c
  <2> QED
    BY <2>2, <2>3, <2>4, SessionFounded, BeginKeeps
<1>3. ASSUME NEW want \in Roles, BeginRole(r, p, q, want)
      PROVE  MemberInv'
  <2> DEFINE c == [Idle EXCEPT !.op = "role", !.at = "look", !.on = q, !.want = want]
  <2>1. "role" \in Ops /\ "look" \in Stages
    BY DEF Ops, Stages
  <2>2. c \in Call
    BY <1>0, <2>1 DEF Call
  <2>3. Fits(c) /\ c.token <= issued /\ c.op \notin {"none", "setup"} /\ ~Registers(c)
        /\ c.at # "signup"
    BY <1>0, <2>2 DEF Call, Fits, Registers
  <2>4. Begin(r, c) /\ role[p] # "none" /\ UNCHANGED records
    BY <1>3 DEF BeginRole, Session
  <2> HIDE DEF c
  <2> QED
    BY <2>2, <2>3, <2>4, SessionFounded, BeginKeeps
<1> QED
  BY <1>1, <1>2, <1>3

LEMMA AdministerBegins ==
  ASSUME MemberInv, NEW r \in Calls, NEW p \in People,
         \/ \E q \in People, n \in Names : BeginInvite(r, p, q, n)
         \/ \E i \in Invites : BeginDelete(r, p, i) \/ BeginResend(r, p, i)
  PROVE  MemberInv'
<1> USE DEF records
<1>0. Idle \in Call /\ Idle.token = 0 /\ issued \in Nat /\ 0 <= issued
  BY IdleFits, TokenAssumption DEF MemberInv, TypeOK
<1>1. ASSUME NEW q \in People, NEW n \in Names, BeginInvite(r, p, q, n)
      PROVE  MemberInv'
  <2> DEFINE c == [Idle EXCEPT !.op = "invite", !.at = "name", !.on = q, !.name = n]
  <2>1. "invite" \in Ops /\ "name" \in Stages
    BY DEF Ops, Stages
  <2>2. c \in Call
    BY <1>0, <2>1 DEF Call
  <2>3. Fits(c) /\ c.token <= issued /\ c.op \notin {"none", "setup"} /\ ~Registers(c)
        /\ c.at # "signup"
    BY <1>0, <2>2 DEF Call, Fits, Registers
  <2>4. Begin(r, c) /\ role[p] # "none" /\ UNCHANGED records
    BY <1>1 DEF BeginInvite, Verified, Session
  <2> HIDE DEF c
  <2> QED
    BY <2>2, <2>3, <2>4, SessionFounded, BeginKeeps
<1>2. ASSUME NEW i \in Invites, BeginDelete(r, p, i)
      PROVE  MemberInv'
  <2> DEFINE c == [Idle EXCEPT !.op = "delete", !.at = "read", !.inv = i]
  <2>1. "delete" \in Ops /\ "read" \in Stages
    BY DEF Ops, Stages
  <2>2. c \in Call
    BY <1>0, <2>1 DEF Call
  <2>3. Fits(c) /\ c.token <= issued /\ c.op \notin {"none", "setup"} /\ ~Registers(c)
        /\ c.at # "signup"
    BY <1>0, <2>2 DEF Call, Fits, Registers
  <2>4. Begin(r, c) /\ role[p] # "none" /\ UNCHANGED records
    BY <1>2 DEF BeginDelete, Verified, Session
  <2> HIDE DEF c
  <2> QED
    BY <2>2, <2>3, <2>4, SessionFounded, BeginKeeps
<1>3. ASSUME NEW i \in Invites, BeginResend(r, p, i)
      PROVE  MemberInv'
  <2> DEFINE c == [Idle EXCEPT !.op = "resend", !.at = "replace", !.inv = i]
  <2>1. "resend" \in Ops /\ "replace" \in Stages
    BY DEF Ops, Stages
  <2>2. c \in Call
    BY <1>0, <2>1 DEF Call
  <2>3. Fits(c) /\ c.token <= issued /\ c.op \notin {"none", "setup"} /\ ~Registers(c)
        /\ c.at # "signup"
    BY <1>0, <2>2 DEF Call, Fits, Registers
  <2>4. Begin(r, c) /\ role[p] # "none" /\ UNCHANGED records
    BY <1>3 DEF BeginResend, Verified, Session
  <2> HIDE DEF c
  <2> QED
    BY <2>2, <2>3, <2>4, SessionFounded, BeginKeeps
<1> QED
  BY <1>1, <1>2, <1>3

LEMMA OnboardBegins ==
  ASSUME MemberInv, NEW r \in Calls, NEW t \in 1 .. MaxToken,
         \/ \E i \in Invites : BeginRegister(r, i, t)
         \/ \E p \in People : BeginAccept(r, p, t)
  PROVE  MemberInv'
<1> USE DEF records
<1>0. Idle \in Call /\ Idle.token = 0 /\ issued \in Nat /\ t \in 0 .. MaxToken
  BY IdleFits, TokenAssumption DEF MemberInv, TypeOK
<1>1. ASSUME NEW i \in Invites, BeginRegister(r, i, t)
      PROVE  MemberInv'
  <2> DEFINE c == [Idle EXCEPT !.op = "register", !.at = "claim", !.on = invite[i].email,
                               !.name = invite[i].name, !.token = t]
  <2>1. invite[i] # None /\ invite[i].token = t
    BY <1>1 DEF BeginRegister, Claimable, Usable, Active, Pending
  <2>2. invite[i] \in Invitation /\ t <= issued /\ founded
    BY <2>1 DEF MemberInv, TypeOK, TokensAreFresh, OnlySetup
  <2>3. "register" \in Ops /\ "claim" \in Stages
    BY DEF Ops, Stages
  <2>4. c \in Call
    BY <1>0, <2>2, <2>3 DEF Call, Invitation
  <2>5. Fits(c) /\ c.token <= issued /\ c.op \notin {"none", "setup"} /\ ~Registers(c) /\ c.at # "signup"
    BY <1>0, <2>2, <2>4 DEF Call, Fits, Registers, Invitation
  <2>6. Begin(r, c) /\ UNCHANGED records
    BY <1>1 DEF BeginRegister
  <2> HIDE DEF c
  <2> QED
    BY <2>2, <2>4, <2>5, <2>6, BeginKeeps
<1>2. ASSUME NEW p \in People, BeginAccept(r, p, t)
      PROVE  MemberInv'
  <2> DEFINE c == [Idle EXCEPT !.op = "accept", !.at = "verify", !.by = p, !.token = t]
  <2>1. t <= issued /\ founded
    <3>1. t \in 1 .. issued
      BY <1>2 DEF BeginAccept
    <3>2. t <= issued /\ issued # 0
      BY <1>0, <3>1
    <3> QED
      BY <3>2 DEF MemberInv, OnlySetup
  <2>2. "accept" \in Ops /\ "verify" \in Stages
    BY DEF Ops, Stages
  <2>3. c \in Call
    BY <1>0, <2>2 DEF Call
  <2>4. Fits(c) /\ c.token <= issued /\ c.op \notin {"none", "setup"} /\ ~Registers(c) /\ c.at # "signup"
    BY <1>0, <2>1, <2>3 DEF Call, Fits, Registers
  <2>5. Begin(r, c) /\ UNCHANGED records
    BY <1>2 DEF BeginAccept
  <2> HIDE DEF c
  <2> QED
    BY <2>1, <2>3, <2>4, <2>5, BeginKeeps
<1> QED
  BY <1>1, <1>2

LEMMA ReadsKeep ==
  ASSUME MemberInv, NEW r \in Calls,
         Look(r) \/ CountOwners(r) \/ CheckName(r) \/ ReadInvite(r) \/ Die(r)
  PROVE  MemberInv'
<1>0. call[r] \in Call /\ Fits(call[r])
  BY DEF MemberInv, TypeOK, CallsFit
<1>1. UNCHANGED records
  BY DEF Look, CountOwners, CheckName, ReadInvite, Die, records
<1>2. call[r].at \in {"look", "count"} => call[r].op \in {"role", "access", "offboard"}
  BY <1>0 DEF Call, Ops, Fits
<1>3. call[r].at = "name" => call[r].op = "invite"
  BY <1>0 DEF Call, Ops, Fits
<1>4. call[r].at = "read" => call[r].op = "delete" /\ call[r].inv \in Invites
  BY <1>0 DEF Call, Ops, Fits
<1>5. ASSUME NEW at \in {"count", "apply", "revoke", "drop"}, Goto(r, at),
             \/ call[r].op \in {"role", "access", "offboard"} /\ at \in {"count", "apply"}
             \/ call[r].op = "invite" /\ at = "revoke"
             \/ call[r].op = "delete" /\ at = "drop"
      PROVE  MemberInv'
  <2>1. Fits([call[r] EXCEPT !.at = at]) /\ ~Registers([call[r] EXCEPT !.at = at])
    BY <1>0, <1>5 DEF Call, Fits, Registers
  <2>2. at \in Stages \ {"signup"} /\ call[r].op # "none"
    BY <1>5 DEF Stages
  <2> QED
    BY <1>1, <1>5, <2>1, <2>2, GotoKeeps
<1>6. CASE End(r)
  BY <1>1, <1>6, EndKeeps
<1>7. CASE Look(r)
  <2>1. End(r) \/ Goto(r, "count") \/ Goto(r, "apply")
    <3>1. CASE MustCount(r, role[call[r].on])
      BY <1>7, <3>1 DEF Look
    <3>2. CASE ~MustCount(r, role[call[r].on])
      BY <1>7, <3>2 DEF Look
    <3> QED
      BY <3>1, <3>2
  <2> QED
    BY <1>2, <1>5, <1>6, <1>7, <2>1 DEF Look
<1>8. CASE CountOwners(r)
  <2>1. End(r) \/ Goto(r, "apply")
    BY <1>8 DEF CountOwners
  <2> QED
    BY <1>2, <1>5, <1>6, <1>8, <2>1 DEF CountOwners
<1>9. CASE CheckName(r)
  <2>1. End(r) \/ Goto(r, "revoke")
    BY <1>9 DEF CheckName
  <2> QED
    BY <1>3, <1>5, <1>6, <1>9, <2>1 DEF CheckName
<1>10. CASE ReadInvite(r)
  <2> DEFINE i == call[r].inv
             c == [call[r] EXCEPT !.at = "erase", !.on = invite[i].email]
  <2>1. \/ End(r) \/ Goto(r, "drop")
        \/ Pending(i) /\ call' = [call EXCEPT ![r].at = "erase", ![r].on = invite[i].email]
    BY <1>10 DEF ReadInvite
  <2>2. call[r].op = "delete" /\ i \in Invites
    BY <1>4, <1>10 DEF ReadInvite
  <2>3. CASE Pending(i) /\ call' = [call EXCEPT ![r].at = "erase", ![r].on = invite[i].email]
    <3>1. invite[i].email \in People
      BY <2>2, <2>3 DEF Pending, MemberInv, TypeOK, Invitation
    <3>2. "erase" \in Stages
      BY DEF Stages
    <3>3. c \in Call
      BY <1>0, <3>1, <3>2 DEF Call
    <3>4. Fits(c) /\ ~Registers(c) /\ c.op = "delete" /\ c.token = call[r].token
          /\ c.at # "signup"
      BY <1>0, <2>2, <3>3 DEF Call, Fits, Registers
    <3>5. c.token <= issued /\ founded
      BY <2>2, <3>4 DEF MemberInv, CallsFit, OnlySetup
    <3>6. call' = [call EXCEPT ![r] = c]
      BY <2>3
    <3> HIDE DEF c
    <3> QED
      BY <1>1, <3>3, <3>4, <3>5, <3>6, LocalKeeps
  <2> QED
    BY <1>5, <1>6, <2>1, <2>2, <2>3
<1>11. CASE Die(r)
  BY <1>6, <1>11 DEF Die
<1> QED
  BY <1>7, <1>8, <1>9, <1>10, <1>11

-----------------------------------------------------------------------------
(* Steps of a request in a workspace that exists, which write tables.       *)

(* What the requests may rely on, and so the tables have to keep. *)
LEMMA StageOf ==
  ASSUME MemberInv, NEW r \in Calls, call[r].at \notin {"idle", "signup", "provision", "unclaim"}
  PROVE  /\ founded
         /\ call[r] \in Call /\ call[r].op \in Ops /\ Fits(call[r]) /\ call[r].op \notin {"none", "setup"}
         /\ call[r].token <= issued
<1>1. call[r] \in Call /\ call[r].op \in Ops /\ Fits(call[r]) /\ call[r].token <= issued
  BY DEF MemberInv, TypeOK, CallsFit, Call
<1>2. call[r].op \notin {"none", "setup"}
  BY <1>1 DEF Fits
<1> QED
  BY <1>1, <1>2 DEF MemberInv, OnlySetup

CallsHold == 
  /\ call \in [Calls -> Call]
  /\ CallsFit /\ SetupHasClaim /\ RegisteringIsClaimed /\ OneRegisters

LEMMA EndCalls ==
  ASSUME MemberInv, NEW r \in Calls, End(r), RowsGrow, UNCHANGED tenant, founded
  PROVE  CallsHold'
<1>1. call' \in [Calls -> Call] /\ call'[r] = Idle /\ \A s \in Calls \ {r} : call'[s] = call[s]
  BY IdleFits DEF End, MemberInv, TypeOK
<1>2. OthersStay(r)
  BY <1>1 DEF OthersStay
<1>3. ~Registers(Idle) /\ 0 <= issued'
  BY IdleFits DEF Registers, RowsGrow
<1>4. CallsFit' /\ SetupHasClaim' /\ RegisteringIsClaimed' /\ OneRegisters'
  BY <1>1, <1>2, <1>3, IdleFits, CallsKeep DEF tenant
<1> QED
  BY <1>1, <1>4 DEF CallsHold

LEMMA MoveCalls ==
  ASSUME MemberInv, NEW r \in Calls, NEW c \in Call, call' = [call EXCEPT ![r] = c],
         RowsGrow, UNCHANGED tenant, founded,
         Fits(c), c.token = call[r].token, c.op # "setup",
         Registers(c) => Registers(call[r]), c.at # "signup"
  PROVE  CallsHold'
<1>1. call' \in [Calls -> Call] /\ call'[r] = c /\ \A s \in Calls \ {r} : call'[s] = call[s]
  BY DEF MemberInv, TypeOK
<1>2. OthersStay(r)
  BY <1>1 DEF OthersStay
<1>3. call[r].token \in Nat /\ call[r].token <= issued /\ issued \in Nat
  BY TokenAssumption DEF MemberInv, TypeOK, CallsFit, Call
<1>4. c.token \in Nat /\ c.token <= issued'
  BY <1>3 DEF RowsGrow
<1>5. CallsFit' /\ SetupHasClaim' /\ RegisteringIsClaimed' /\ OneRegisters'
  BY <1>1, <1>2, <1>4, CallsKeep DEF tenant
<1> QED
  BY <1>1, <1>5 DEF CallsHold

LEMMA GotoCalls ==
  ASSUME MemberInv, NEW r \in Calls, NEW at \in Stages \ {"signup"}, Goto(r, at),
         RowsGrow, UNCHANGED tenant, founded,
         Fits([call[r] EXCEPT !.at = at]), call[r].op # "setup",
         Registers([call[r] EXCEPT !.at = at]) => Registers(call[r])
  PROVE  CallsHold'
<1> DEFINE c == [call[r] EXCEPT !.at = at]
<1>1. c \in Call /\ c.token = call[r].token /\ c.op = call[r].op /\ c.at = at
  BY DEF MemberInv, TypeOK, Call
<1>2. call' = [call EXCEPT ![r] = c]
  BY DEF Goto
<1> HIDE DEF c
<1> QED
  BY <1>1, <1>2, MoveCalls DEF c

(* No step of such a request writes anything but these. *)
LEMMA MemberStep ==
  ASSUME MemberInv, CallsHold', UNCHANGED tenant, founded,
         account' \in [People -> Account \cup {None}],
         role' \in [People -> Roles \cup {"none"}],
         grants' \in [People -> BOOLEAN],
         invite' \in [Invites -> Invitation \cup {None}],
         issued' \in 0 .. MaxToken,
         TokensAreFresh', OwnerRemains', MembersAreInvited'
  PROVE  MemberInv'
  BY DEF MemberInv, CallsHold, tenant, TypeOK, OnlySetup

LEMMA SameRows ==
  ASSUME MemberInv, UNCHANGED invitations
  PROVE  RowsGrow /\ TokensAreFresh' /\ invite' \in [Invites -> Invitation \cup {None}]
         /\ issued' \in 0 .. MaxToken
  BY TokenAssumption DEF MemberInv, TypeOK, RowsGrow, TokensAreFresh, invitations

LEMMA RoleKeeps ==
  ASSUME MemberInv, NEW r \in Calls, ApplyRole(r)
  PROVE  MemberInv'
<1> DEFINE q == call[r].on
<1>1. founded /\ q \in People /\ call[r] \in Call /\ call[r].want \in Roles \cup {"none"}
  BY StageOf DEF ApplyRole, At, Fits, Call
<1>2. CallsHold' /\ TokensAreFresh'
  BY <1>1, SameRows, EndCalls DEF ApplyRole
<1>3. role' \in [People -> Roles \cup {"none"}]
  BY <1>1 DEF ApplyRole, MemberInv, TypeOK
<1>4. OwnerRemains'
  <2>1. Owners # {}
    BY <1>1 DEF MemberInv, OwnerRemains
  <2>2. CASE role' = role
    BY <2>1, <2>2 DEF OwnerRemains, Owners
  <2>3. CASE ~LastOwner(q) /\ role' = [role EXCEPT ![q] = call[r].want]
    <3>1. PICK p \in Owners : p # q
      BY <2>1, <2>3 DEF LastOwner
    <3>2. p \in People /\ role'[p] = "owner"
      BY <2>3, <3>1 DEF Owners, MemberInv, TypeOK
    <3> QED
      BY <3>2 DEF OwnerRemains, Owners
  <2>4. CASE call[r].want = "owner" /\ role' = [role EXCEPT ![q] = call[r].want]
    <3>1. role'[q] = "owner"
      BY <1>1, <2>4 DEF MemberInv, TypeOK
    <3> QED
      BY <1>1, <3>1 DEF OwnerRemains, Owners
  <2> QED
    BY <2>2, <2>3, <2>4 DEF ApplyRole
<1>5. MembersAreInvited'
  <2>1. \A p \in People : role'[p] # "none" => role[p] # "none"
    BY DEF ApplyRole, MemberInv, TypeOK
  <2> QED
    BY <2>1 DEF ApplyRole, MemberInv, MembersAreInvited, Exists, tenant, invitations
<1> QED
  BY <1>1, <1>2, <1>3, <1>4, <1>5, SameRows, MemberStep DEF ApplyRole, MemberInv, TypeOK

LEMMA OffboardKeeps ==
  ASSUME MemberInv, NEW r \in Calls, ApplyOffboard(r)
  PROVE  MemberInv'
<1> DEFINE q == call[r].on
<1>1. founded /\ q \in People
  BY StageOf DEF ApplyOffboard, At, Fits
<1>2. CallsHold' /\ TokensAreFresh'
  BY <1>1, SameRows, EndCalls DEF ApplyOffboard
<1>3. role' \in [People -> Roles \cup {"none"}] /\ grants' \in [People -> BOOLEAN]
  BY <1>1 DEF ApplyOffboard, MemberInv, TypeOK, members
<1>4. OwnerRemains'
  <2>1. Owners # {}
    BY <1>1 DEF MemberInv, OwnerRemains
  <2>2. CASE LastOwner(q)
    BY <2>1, <2>2 DEF ApplyOffboard, OwnerRemains, Owners, members
  <2>3. CASE ~LastOwner(q)
    <3>1. PICK p \in Owners : p # q
      BY <2>1, <2>3 DEF LastOwner
    <3>2. p \in People /\ role'[p] = "owner"
      BY <2>3, <3>1 DEF ApplyOffboard, Owners, MemberInv, TypeOK
    <3> QED
      BY <3>2 DEF OwnerRemains, Owners
  <2> QED
    BY <2>2, <2>3
<1>5. MembersAreInvited'
  <2>1. \A p \in People : role'[p] # "none" => role[p] # "none"
    BY DEF ApplyOffboard, MemberInv, TypeOK, members
  <2> QED
    BY <2>1 DEF ApplyOffboard, MemberInv, MembersAreInvited, Exists, tenant, invitations
<1> QED
  BY <1>1, <1>2, <1>3, <1>4, <1>5, SameRows, MemberStep DEF ApplyOffboard, MemberInv, TypeOK

LEMMA AccessKeeps ==
  ASSUME MemberInv, NEW r \in Calls, ApplyAccess(r)
  PROVE  MemberInv'
<1>1. founded /\ CallsHold' /\ TokensAreFresh'
  BY StageOf, SameRows, EndCalls DEF ApplyAccess, At
<1>2. grants' \in [People -> BOOLEAN]
  BY DEF ApplyAccess, MemberInv, TypeOK
<1>3. OwnerRemains' /\ MembersAreInvited'
  BY DEF ApplyAccess, MemberInv, OwnerRemains, Owners, MembersAreInvited, Exists, tenant, invitations
<1> QED
  BY <1>1, <1>2, <1>3, SameRows, MemberStep DEF ApplyAccess, MemberInv, TypeOK

-----------------------------------------------------------------------------
(* Steps that write the invitations.                                        *)

(* Rows keep their address, their token and what they are past: nothing is
   unclaimed, and what was accepted stays. *)
Advances(row, old) ==
  /\ row.email = old.email /\ row.token = old.token
  /\ old.claimed => row.claimed
  /\ old.accepted => row.accepted

Kept ==
  \A i \in Invites : invite[i] # None /\ invite[i].accepted =>
    invite'[i] # None /\ invite'[i].accepted /\ invite'[i].email = invite[i].email

(* UPDATE: the rows of S become those of f. *)
LEMMA UpdateKeeps ==
  ASSUME MemberInv, NEW S \in SUBSET Invites, NEW f, UNCHANGED issued,
         \A i \in S : invite[i] # None /\ f[i] \in Invitation /\ Advances(f[i], invite[i]),
         invite' = [i \in Invites |-> IF i \in S THEN f[i] ELSE invite[i]]
  PROVE  /\ RowsGrow /\ TokensAreFresh' /\ Kept
         /\ issued' \in 0 .. MaxToken /\ invite' \in [Invites -> Invitation \cup {None}]
<1>1. /\ invite' \in [Invites -> Invitation \cup {None}] /\ issued' \in Nat
      /\ \A i \in Invites :
           IF invite[i] = None THEN invite'[i] = None
           ELSE invite'[i] # None /\ Advances(invite'[i], invite[i])
  <2>1. invite \in [Invites -> Invitation \cup {None}] /\ issued \in Nat
    BY TokenAssumption DEF MemberInv, TypeOK
  <2>2. \A i \in Invites : Advances(invite[i], invite[i])
    BY DEF Advances
  <2>3. \A i \in S : f[i] # None
    BY RowAssumption
  <2> QED
    BY <2>1, <2>2, <2>3
<1>2. RowsGrow
  BY <1>1 DEF RowsGrow, Advances
<1>3. TokensAreFresh' /\ Kept
  BY <1>1 DEF MemberInv, TokensAreFresh, Advances, Kept
<1> QED
  BY <1>1, <1>2, <1>3 DEF MemberInv, TypeOK

(* Who was invited stays invited, as long as accepted invitations stay. *)
LEMMA StillInvited ==
  ASSUME MemberInv, UNCHANGED <<tenant, role>>, Kept,
         \A p \in People : role[p] # "none" =>
           Exists(p)' /\ (account[p].verified => account'[p].verified)
  PROVE  OwnerRemains' /\ MembersAreInvited'
  BY DEF MemberInv, OwnerRemains, Owners, MembersAreInvited, tenant, Kept

LEMMA RowsStep ==
  ASSUME MemberInv, founded, CallsHold', UNCHANGED <<tenant, account, members>>,
         TokensAreFresh', Kept, issued' \in 0 .. MaxToken,
         invite' \in [Invites -> Invitation \cup {None}]
  PROVE  MemberInv'
<1>1. \A p \in People : role[p] # "none" =>
           Exists(p)' /\ (account[p].verified => account'[p].verified)
  BY DEF MemberInv, MembersAreInvited, Exists
<1>2. OwnerRemains' /\ MembersAreInvited'
  BY <1>1, StillInvited DEF members
<1> QED
  BY <1>2, MemberStep DEF members, MemberInv, TypeOK

LEMMA RevokeKeeps ==
  ASSUME MemberInv, NEW r \in Calls, RevokeExpired(r)
  PROVE  MemberInv'
<1>1. founded /\ call[r] \in Call /\ Fits(call[r]) /\ call[r].op = "invite"
  BY StageOf DEF RevokeExpired, Fits, Ops
<1>2. /\ RowsGrow /\ TokensAreFresh' /\ Kept
      /\ issued' \in 0 .. MaxToken /\ invite' \in [Invites -> Invitation \cup {None}]
  <2> DEFINE S == {i \in Invites : Active(i) /\ invite[i].expired}
             f == [i \in S |-> [invite[i] EXCEPT !.revoked = TRUE]]
  <2>1. \A i \in S : invite[i] # None /\ invite[i] \in Invitation
    BY DEF Active, Pending, MemberInv, TypeOK
  <2>2. \A i \in S : f[i] \in Invitation /\ Advances(f[i], invite[i])
    BY <2>1 DEF Invitation, Advances
  <2>3. invite' = [i \in Invites |-> IF i \in S THEN f[i] ELSE invite[i]]
    BY DEF RevokeExpired, Update
  <2>4. S \in SUBSET Invites /\ UNCHANGED issued
    BY DEF RevokeExpired
  <2> HIDE DEF S, f
  <2> QED
    BY <2>1, <2>2, <2>3, <2>4, UpdateKeeps
<1>3. CallsHold'
  <2>1. Goto(r, "insert") /\ UNCHANGED tenant
    BY DEF RevokeExpired
  <2>2. "insert" \in Stages \ {"signup"}
    BY DEF Stages
  <2>3. Fits([call[r] EXCEPT !.at = "insert"]) /\ ~Registers([call[r] EXCEPT !.at = "insert"])
    BY <1>1 DEF Fits, Call, Registers
  <2> QED
    BY <1>1, <1>2, <2>1, <2>2, <2>3, GotoCalls
<1> QED
  BY <1>1, <1>2, <1>3, RowsStep DEF RevokeExpired

LEMMA InsertKeeps ==
  ASSUME MemberInv, NEW r \in Calls, NEW i \in Invites, Insert(r, i)
  PROVE  MemberInv'
<1>1. founded /\ call[r].on \in People /\ call[r].name \in Names
  BY StageOf DEF Insert, Fits, Ops
<1>2. /\ RowsGrow /\ TokensAreFresh' /\ Kept
      /\ issued' \in 0 .. MaxToken /\ invite' \in [Invites -> Invitation \cup {None}]
  <2>1. CASE UNCHANGED invitations
    BY <2>1, SameRows DEF invitations, Kept
  <2>2. CASE ~UNCHANGED invitations
    <3> DEFINE new == [email |-> call[r].on, name |-> call[r].name, token |-> issued + 1,
                       expired |-> FALSE, claimed |-> FALSE, bound |-> FALSE,
                       accepted |-> FALSE, revoked |-> FALSE]
    <3>1. /\ issued \in Nat /\ issued' = issued + 1 /\ issued + 1 \in 0 .. MaxToken
          /\ invite[i] = None /\ invite' = [invite EXCEPT ![i] = new]
      BY <2>2, TokenAssumption DEF Insert, MemberInv, TypeOK
    <3>2. new \in Invitation /\ new.token = issued + 1
      BY <1>1, <3>1 DEF Invitation
    <3> HIDE DEF new
    <3>3. /\ invite \in [Invites -> Invitation \cup {None}]
          /\ \A j \in Invites : invite'[j] = IF j = i THEN new ELSE invite[j]
          /\ \A j \in Invites : invite[j] # None => invite[j].token \in Nat
      BY <3>1 DEF MemberInv, TypeOK, Invitation
    <3>4. RowsGrow
      BY <3>1, <3>2, <3>3 DEF RowsGrow
    <3>5. TokensAreFresh'
      BY <3>1, <3>2, <3>3 DEF MemberInv, TokensAreFresh
    <3>6. Kept
      BY <3>1, <3>3 DEF Kept
    <3>7. invite' \in [Invites -> Invitation \cup {None}]
      BY <3>1, <3>2, <3>3
    <3> QED
      BY <3>1, <3>4, <3>5, <3>6, <3>7
  <2> QED
    BY <2>1, <2>2
<1>3. CallsHold'
  BY <1>1, <1>2, EndCalls DEF Insert
<1> QED
  BY <1>1, <1>2, <1>3, RowsStep DEF Insert

LEMMA ReplaceKeeps ==
  ASSUME MemberInv, NEW r \in Calls, Replace(r)
  PROVE  MemberInv'
<1> DEFINE i == call[r].inv
<1>1. founded /\ i \in Invites
  BY StageOf DEF Replace, Fits, Ops
<1>2. /\ RowsGrow /\ TokensAreFresh' /\ Kept
      /\ issued' \in 0 .. MaxToken /\ invite' \in [Invites -> Invitation \cup {None}]
  <2>1. CASE UNCHANGED invitations
    BY <2>1, SameRows DEF invitations, Kept
  <2>2. CASE ~UNCHANGED invitations
    <3> DEFINE new == [invite[i] EXCEPT !.token = issued + 1]
    <3>1. /\ issued \in Nat /\ issued' = issued + 1 /\ issued + 1 \in 0 .. MaxToken
          /\ invite[i] # None /\ invite' = [invite EXCEPT ![i] = new]
      BY <2>2, TokenAssumption DEF Replace, Active, Pending, MemberInv, TypeOK
    <3>2. /\ new \in Invitation /\ new.token = issued + 1
          /\ new.accepted = invite[i].accepted /\ new.email = invite[i].email
      BY <1>1, <3>1 DEF MemberInv, TypeOK, Invitation
    <3> HIDE DEF new
    <3>3. /\ invite \in [Invites -> Invitation \cup {None}] /\ new # None
          /\ \A j \in Invites : invite'[j] = IF j = i THEN new ELSE invite[j]
          /\ \A j \in Invites : invite[j] # None => invite[j].token \in Nat
      BY <3>1, <3>2, RowAssumption DEF MemberInv, TypeOK, Invitation
    <3> HIDE DEF i
    <3>4. RowsGrow
      BY <3>1, <3>2, <3>3 DEF RowsGrow
    <3>5. TokensAreFresh'
      BY <3>1, <3>2, <3>3 DEF MemberInv, TokensAreFresh
    <3>6. Kept
      BY <3>1, <3>2, <3>3 DEF Kept
    <3>7. invite' \in [Invites -> Invitation \cup {None}]
      BY <3>1, <3>2, <3>3
    <3> QED
      BY <3>1, <3>4, <3>5, <3>6, <3>7
  <2> QED
    BY <2>1, <2>2
<1>3. CallsHold'
  BY <1>1, <1>2, EndCalls DEF Replace
<1> QED
  BY <1>1, <1>2, <1>3, RowsStep DEF Replace

(* An invitation that is deleted was not accepted. *)
LEMMA RowGone ==
  ASSUME MemberInv, NEW i \in Invites, Pending(i), invite' = [invite EXCEPT ![i] = None], UNCHANGED issued
  PROVE  /\ RowsGrow /\ TokensAreFresh' /\ Kept
         /\ issued' \in 0 .. MaxToken /\ invite' \in [Invites -> Invitation \cup {None}]
<1>1. /\ invite \in [Invites -> Invitation \cup {None}] /\ issued \in Nat /\ issued \in 0 .. MaxToken
      /\ \A j \in Invites : invite'[j] = IF j = i THEN None ELSE invite[j]
  BY TokenAssumption DEF MemberInv, TypeOK
<1> QED
  BY <1>1 DEF RowsGrow, MemberInv, TokensAreFresh, Kept, Pending

LEMMA DropKeeps ==
  ASSUME MemberInv, NEW r \in Calls, Drop(r)
  PROVE  MemberInv'
<1> DEFINE i == call[r].inv
<1>1. founded /\ i \in Invites
  BY StageOf DEF Drop, Fits, Ops
<1>2. /\ RowsGrow /\ TokensAreFresh' /\ Kept
      /\ issued' \in 0 .. MaxToken /\ invite' \in [Invites -> Invitation \cup {None}]
  <2>1. CASE invite' = invite
    BY <2>1, SameRows DEF Drop, invitations, Kept
  <2>2. CASE invite' # invite
    BY <1>1, <2>2, RowGone DEF Drop
  <2> QED
    BY <2>1, <2>2
<1>3. CallsHold'
  BY <1>1, <1>2, EndCalls DEF Drop
<1> QED
  BY <1>1, <1>2, <1>3, RowsStep DEF Drop

(* The deletion of an account, which a request may still hold. *)
LEMMA EraseKeeps ==
  ASSUME MemberInv, NEW r \in Calls, Erase(r)
  PROVE  MemberInv'
<1> DEFINE i == call[r].inv
           p == call[r].on
<1>1. founded /\ i \in Invites
  BY StageOf DEF Erase, Fits, Ops
<1>2. /\ RowsGrow /\ TokensAreFresh' /\ Kept
      /\ issued' \in 0 .. MaxToken /\ invite' \in [Invites -> Invitation \cup {None}]
  <2>1. CASE invite' = invite
    BY <2>1, SameRows DEF Erase, invitations, Kept
  <2>2. CASE invite' # invite
    BY <1>1, <2>2, RowGone DEF Erase
  <2> QED
    BY <2>1, <2>2
<1>3. CASE End(r) /\ UNCHANGED account
  <2>1. CallsHold'
    BY <1>1, <1>2, <1>3, EndCalls DEF Erase
  <2> QED
    BY <1>1, <1>2, <1>3, <2>1, RowsStep DEF Erase
<1>4. CASE Erasable(p) /\ account' = [account EXCEPT ![p] = None] /\ call' = Forget(r, p)
  <2>1. p \in People /\ role[p] = "none" /\ UNCHANGED <<tenant, members>>
    BY <1>4 DEF Erase, Erasable, Exists
  <2>2. /\ call \in [Calls -> Call] /\ call'[r] = Idle
        /\ \A s \in Calls \ {r} : call'[s] = call[s] \/ call'[s] = [call[s] EXCEPT !.by = None]
        /\ call' = [s \in Calls |-> call'[s]]
    BY <1>4 DEF Forget, MemberInv, TypeOK
  <2>3. \A s \in Calls : [call[s] EXCEPT !.by = None] \in Call
    BY <2>2 DEF Call
  <2>4. call' \in [Calls -> Call]
    BY <2>2, <2>3, IdleFits
  <2>5. \A s \in Calls : call[s].op # "setup"
    BY <1>1 DEF MemberInv, SetupHasClaim
  <2>6. OthersStay(r)
    BY <2>2, <2>5 DEF OthersStay, Call
  <2>7. ~Registers(Idle) /\ 0 <= issued'
    BY <1>2, IdleFits DEF Registers, RowsGrow
  <2>8. CallsFit' /\ SetupHasClaim' /\ RegisteringIsClaimed' /\ OneRegisters'
    BY <1>2, <2>1, <2>2, <2>6, <2>7, IdleFits, CallsKeep DEF tenant
  <2>9. /\ account' \in [People -> Account \cup {None}]
        /\ \A q \in People : role[q] # "none" => Exists(q)' /\ account'[q] = account[q]
    BY <1>4, <2>1 DEF MemberInv, TypeOK, MembersAreInvited, Exists
  <2>10. OwnerRemains' /\ MembersAreInvited'
    BY <1>2, <2>1, <2>9, StillInvited DEF members
  <2> QED
    BY <1>1, <1>2, <2>1, <2>4, <2>8, <2>9, <2>10, MemberStep DEF CallsHold, members, MemberInv, TypeOK
<1> QED
  BY <1>3, <1>4 DEF Erase

LEMMA ClaimKeeps ==
  ASSUME MemberInv, NEW r \in Calls, ClaimInvite(r)
  PROVE  MemberInv'
<1> DEFINE t == call[r].token
           S == {i \in Invites : Claimable(i, t)}
           f == [i \in S |-> [invite[i] EXCEPT !.claimed = TRUE]]
<1>1. founded /\ call[r] \in Call /\ Fits(call[r]) /\ call[r].op = "register"
  BY StageOf DEF ClaimInvite, Fits, Ops
<1>2. \A i \in S : invite[i] # None /\ invite[i] \in Invitation /\ invite[i].token = t /\ ~invite[i].claimed
  BY DEF Claimable, Usable, Active, Pending, MemberInv, TypeOK
<1>3. \A i \in S : f[i] \in Invitation /\ Advances(f[i], invite[i]) /\ f[i].claimed
  BY <1>2 DEF Invitation, Advances
<1>4. /\ invite' = [i \in Invites |-> IF i \in S THEN f[i] ELSE invite[i]]
      /\ S \in SUBSET Invites /\ UNCHANGED issued
      /\ IF S # {} THEN Goto(r, "signup") ELSE End(r)
      /\ UNCHANGED <<tenant, account, members>>
  BY DEF ClaimInvite, Update
<1> HIDE DEF S, f
<1>5. /\ RowsGrow /\ TokensAreFresh' /\ Kept
      /\ issued' \in 0 .. MaxToken /\ invite' \in [Invites -> Invitation \cup {None}]
  BY <1>2, <1>3, <1>4, UpdateKeeps
<1>6. CASE S = {}
  <2>1. CallsHold'
    BY <1>1, <1>4, <1>5, <1>6, EndCalls
  <2> QED
    BY <1>1, <1>4, <1>5, <2>1, RowsStep
<1>7. CASE S # {}
  <2> DEFINE c == [call[r] EXCEPT !.at = "signup"]
  <2>1. PICK i \in Invites : i \in S
    BY <1>4, <1>7
  <2>2. /\ invite[i] # None /\ invite[i].token = t /\ ~invite[i].claimed
        /\ invite'[i].claimed
    BY <1>2, <1>3, <1>4, <2>1
  (* Whoever registered with this token before would have claimed it. *)
  <2>3. \A s \in Calls : Registers(call[s]) => call[s].token # t
    BY <2>2 DEF MemberInv, RegisteringIsClaimed
  <2>4. "signup" \in Stages
    BY DEF Stages
  <2>5. c \in Call /\ c.token = t /\ c.op = "register" /\ c.at = "signup"
    BY <1>1, <2>4 DEF Call
  <2>6. Fits(c)
    BY <1>1 DEF Fits, Call
  <2>7. call' = [call EXCEPT ![r] = c]
    BY <1>4, <1>7 DEF Goto
  <2> HIDE DEF c
  <2>8. call' \in [Calls -> Call] /\ call'[r] = c /\ \A s \in Calls \ {r} : call'[s] = call[s]
    BY <2>5, <2>7 DEF MemberInv, TypeOK
  <2>9. \A s \in Calls : call[s].token \in Nat /\ call[s].token <= issued
    BY TokenAssumption DEF MemberInv, CallsFit, TypeOK, Call
  <2>10. CallsFit'
    BY <1>4, <2>5, <2>6, <2>8, <2>9 DEF MemberInv, CallsFit
  <2>11. SetupHasClaim'
    BY <1>1, <1>4, <2>5, <2>8 DEF MemberInv, SetupHasClaim, tenant
  <2>12. RegisteringIsClaimed'
    <3>1. ASSUME NEW s \in Calls \ {r}, Registers(call'[s]), NEW j \in Invites,
                 invite'[j] # None, invite'[j].token = call'[s].token
          PROVE  invite'[j].claimed
      <4>1. call'[s] = call[s] /\ call[s].token <= issued
        BY <2>8, <2>9
      <4>2. invite[j] # None /\ invite[j].token = invite'[j].token
            /\ (invite[j].claimed => invite'[j].claimed)
        BY <1>5, <3>1, <4>1 DEF RowsGrow
      <4> QED
        BY <3>1, <4>1, <4>2 DEF MemberInv, RegisteringIsClaimed
    <3>2. ASSUME NEW j \in Invites, invite'[j] # None, invite'[j].token = t
          PROVE  invite'[j].claimed
      <4>1. invite[j] # None /\ invite[j].token = t
        BY <1>5, <2>9, <3>2 DEF RowsGrow
      <4>2. j = i
        BY <2>2, <4>1 DEF MemberInv, TokensAreFresh
      <4> QED
        BY <2>2, <4>2
    <3> QED
      BY <2>5, <2>8, <3>1, <3>2 DEF RegisteringIsClaimed
  <2>13. OneRegisters'
    BY <2>3, <2>5, <2>8 DEF MemberInv, OneRegisters
  <2>14. CallsHold'
    BY <2>8, <2>10, <2>11, <2>12, <2>13 DEF CallsHold
  <2> QED
    BY <1>1, <1>4, <1>5, <2>14, RowsStep
<1> QED
  BY <1>6, <1>7

LEMMA BindKeeps ==
  ASSUME MemberInv, NEW r \in Calls, Bind(r)
  PROVE  MemberInv'
<1>1. founded /\ call[r] \in Call /\ Fits(call[r]) /\ call[r].op = "register"
  BY StageOf DEF Bind, Fits, Ops
<1>2. CASE ~Exists(call[r].by)
  <2>1. End(r) /\ UNCHANGED <<tenant, account, members, invitations>>
    BY <1>2 DEF Bind, invitations
  <2>2. /\ RowsGrow /\ TokensAreFresh' /\ Kept
        /\ issued' \in 0 .. MaxToken /\ invite' \in [Invites -> Invitation \cup {None}]
    BY <2>1, SameRows DEF invitations, Kept
  <2>3. CallsHold'
    BY <1>1, <2>1, <2>2, EndCalls
  <2> QED
    BY <1>1, <2>1, <2>2, <2>3, RowsStep
<1>3. CASE Exists(call[r].by)
  <2> DEFINE S == {i \in Invites : invite[i] # None /\ invite[i].token = call[r].token}
             f == [i \in S |-> [invite[i] EXCEPT !.bound = TRUE]]
  <2>1. \A i \in S : invite[i] # None /\ invite[i] \in Invitation
    BY DEF MemberInv, TypeOK
  <2>2. \A i \in S : f[i] \in Invitation /\ Advances(f[i], invite[i])
    BY <2>1 DEF Invitation, Advances
  <2>3. invite' = [i \in Invites |-> IF i \in S THEN f[i] ELSE invite[i]]
    BY <1>3 DEF Bind, Update
  <2>4. S \in SUBSET Invites /\ UNCHANGED issued
    BY DEF Bind
  <2> HIDE DEF S, f
  <2>5. /\ RowsGrow /\ TokensAreFresh' /\ Kept
        /\ issued' \in 0 .. MaxToken /\ invite' \in [Invites -> Invitation \cup {None}]
    BY <2>1, <2>2, <2>3, <2>4, UpdateKeeps
  <2>6. Goto(r, "verify") /\ call[r].at = "bind" /\ UNCHANGED <<tenant, account, members>>
    BY <1>3 DEF Bind
  <2>7. "verify" \in Stages \ {"signup"}
    BY DEF Stages
  <2>8. Fits([call[r] EXCEPT !.at = "verify"]) /\ Registers(call[r])
    BY <1>1, <2>6 DEF Fits, Call, Registers
  <2>9. CallsHold'
    BY <1>1, <2>5, <2>6, <2>7, <2>8, GotoCalls
  <2> QED
    BY <1>1, <2>5, <2>6, <2>9, RowsStep
<1> QED
  BY <1>2, <1>3

-----------------------------------------------------------------------------
(* Steps that write accounts and members.                                   *)

(* A step that writes only accounts, and neither takes one away nor unverifies it. *)
LEMMA AccountStep ==
  ASSUME MemberInv, founded, CallsHold', UNCHANGED <<tenant, members, invitations>>,
         account' \in [People -> Account \cup {None}],
         \A p \in People : role[p] # "none" =>
           account'[p] # None /\ (account[p].verified => account'[p].verified)
  PROVE  MemberInv'
<1>1. TokensAreFresh' /\ Kept /\ issued' \in 0 .. MaxToken /\ invite' \in [Invites -> Invitation \cup {None}]
  BY SameRows DEF invitations, Kept
<1>2. OwnerRemains' /\ MembersAreInvited'
  BY <1>1, StillInvited DEF members, Exists
<1> QED
  BY <1>1, <1>2, MemberStep DEF members, MemberInv, TypeOK

(* Better Auth stores an account. *)
LEMMA Stores ==
  ASSUME MemberInv, NEW p \in People, NEW n \in Names, Free(p, n), Store(p, n)
  PROVE  /\ account' \in [People -> Account \cup {None}]
         /\ role[p] = "none"
         /\ \A q \in People : role[q] # "none" =>
              account'[q] # None /\ (account[q].verified => account'[q].verified)
<1>1. role[p] = "none"
  BY DEF MemberInv, MembersAreInvited, Exists, Free
<1>2. [verified |-> FALSE, name |-> n] \in Account
  BY DEF Account
<1>3. account' \in [People -> Account \cup {None}] /\ \A q \in People \ {p} : account'[q] = account[q]
  BY <1>2 DEF Store, MemberInv, TypeOK
<1> QED
  BY <1>1, <1>3 DEF MemberInv, MembersAreInvited, Exists

LEMMA SignUpKeeps ==
  ASSUME MemberInv, NEW r \in Calls, SignUp(r)
  PROVE  MemberInv'
<1> DEFINE p == call[r].on
           c == [call[r] EXCEPT !.at = "bind", !.by = p]
<1>1. call[r] \in Call /\ Fits(call[r]) /\ call[r].op = "register" /\ call[r].at = "signup"
  BY DEF SignUp, At, MemberInv, TypeOK, CallsFit
<1>2. founded /\ p \in People /\ call[r].name \in Names
  BY <1>1 DEF MemberInv, OnlySetup, Fits
<1>3. RowsGrow /\ UNCHANGED <<tenant, members, invitations>>
  BY SameRows DEF SignUp
<1>4. /\ account' \in [People -> Account \cup {None}]
      /\ \A q \in People : role[q] # "none" =>
           account'[q] # None /\ (account[q].verified => account'[q].verified)
  <2>1. CASE UNCHANGED account
    BY <2>1 DEF MemberInv, TypeOK, MembersAreInvited, Exists
  <2>2. CASE Free(p, call[r].name) /\ Store(p, call[r].name)
    BY <1>2, <2>2, Stores
  <2> QED
    BY <2>1, <2>2 DEF SignUp
<1>5. CallsHold'
  <2>1. CASE End(r)
    BY <1>2, <1>3, <2>1, EndCalls
  <2>2. CASE call' = [call EXCEPT ![r].at = "bind", ![r].by = p]
    <3>1. "bind" \in Stages
      BY DEF Stages
    <3>2. c \in Call
      BY <1>1, <1>2, <3>1 DEF Call
    <3>3. /\ Fits(c) /\ c.token = call[r].token /\ c.op # "setup" /\ c.at # "signup"
          /\ Registers(call[r])
      BY <1>1, <3>2 DEF Call, Fits, Registers
    <3>4. call' = [call EXCEPT ![r] = c]
      BY <2>2
    <3> HIDE DEF c
    <3> QED
      BY <1>2, <1>3, <3>2, <3>3, <3>4, MoveCalls
  <2> QED
    BY <2>1, <2>2 DEF SignUp
<1> QED
  BY <1>2, <1>3, <1>4, <1>5, AccountStep

(* An account that is verified. *)
LEMMA Verifies ==
  ASSUME MemberInv, NEW p \in People, Exists(p), account' = [account EXCEPT ![p].verified = TRUE]
  PROVE  /\ account' \in [People -> Account \cup {None}]
         /\ \A q \in People : role[q] # "none" =>
              account'[q] # None /\ (account[q].verified => account'[q].verified)
<1>1. account[p] \in Account
  BY DEF Exists, MemberInv, TypeOK
<1>2. [account[p] EXCEPT !.verified = TRUE] \in Account /\ [account[p] EXCEPT !.verified = TRUE].verified
  BY <1>1 DEF Account
<1>3. /\ account' \in [People -> Account \cup {None}]
      /\ account'[p] \in Account /\ account'[p].verified
      /\ \A q \in People \ {p} : account'[q] = account[q]
  BY <1>2 DEF MemberInv, TypeOK
<1> QED
  BY <1>3, RowAssumption DEF MemberInv, MembersAreInvited, Exists

LEMMA VerifyKeeps ==
  ASSUME MemberInv, NEW r \in Calls, Verify(r)
  PROVE  MemberInv'
<1> DEFINE p == call[r].by
<1>1. founded /\ call[r] \in Call /\ Fits(call[r]) /\ call[r].op \in {"register", "accept"}
  BY StageOf DEF Verify, Fits, Ops
<1>2. RowsGrow /\ UNCHANGED <<tenant, members, invitations>>
  BY SameRows DEF Verify
<1>3. CallsHold'
  <2>1. Goto(r, "join") /\ call[r].at = "verify"
    BY DEF Verify
  <2>2. "join" \in Stages \ {"signup"}
    BY DEF Stages
  <2>3. Fits([call[r] EXCEPT !.at = "join"])
        /\ (Registers([call[r] EXCEPT !.at = "join"]) => Registers(call[r]))
    BY <1>1, <2>1 DEF Fits, Call, Registers
  <2> QED
    BY <1>1, <1>2, <2>1, <2>2, <2>3, GotoCalls
<1>4. /\ account' \in [People -> Account \cup {None}]
      /\ \A q \in People : role[q] # "none" =>
           account'[q] # None /\ (account[q].verified => account'[q].verified)
  <2>1. CASE account' = account
    BY <2>1 DEF MemberInv, TypeOK, MembersAreInvited, Exists
  <2>2. CASE Exists(p) /\ account' = [account EXCEPT ![p].verified = TRUE]
    BY <2>2, Verifies DEF Exists
  <2> QED
    BY <2>1, <2>2 DEF Verify
<1> QED
  BY <1>1, <1>2, <1>3, <1>4, AccountStep

(* The acceptance of an invitation makes its person a member. *)
LEMMA JoinKeeps ==
  ASSUME MemberInv, NEW r \in Calls, Join(r)
  PROVE  MemberInv'
<1> DEFINE p == call[r].by
           S == {i \in Acceptable(call[r].token, p) : Guarded(i, p)}
           f == [i \in S |-> [invite[i] EXCEPT !.accepted = TRUE, !.bound = TRUE]]
<1>1. founded
  BY StageOf DEF Join
<1>2. \A i \in S : /\ i \in Invites /\ invite[i] # None /\ invite[i] \in Invitation /\ invite[i].email = p
                   /\ Exists(p) /\ account[p].verified /\ role[p] = "none"
  BY DEF Acceptable, Addressed, Usable, Active, Pending, MemberInv, TypeOK
<1>3. \A i \in S : f[i] \in Invitation /\ Advances(f[i], invite[i]) /\ f[i].accepted
  BY <1>2 DEF Invitation, Advances
<1>4. /\ invite' = [i \in Invites |-> IF i \in S THEN f[i] ELSE invite[i]]
      /\ End(r) /\ UNCHANGED <<tenant, account, grants, issued>>
      /\ role' = IF S # {} THEN [role EXCEPT ![p] = "member"] ELSE role
  BY DEF Join, Update
<1> HIDE DEF S, f
<1>5. S \in SUBSET Invites
  BY <1>2
<1>6. /\ RowsGrow /\ TokensAreFresh' /\ Kept
      /\ issued' \in 0 .. MaxToken /\ invite' \in [Invites -> Invitation \cup {None}]
  BY <1>2, <1>3, <1>4, <1>5, UpdateKeeps
<1>7. CallsHold'
  BY <1>1, <1>4, <1>6, EndCalls
<1>8. CASE S = {}
  BY <1>1, <1>4, <1>6, <1>7, <1>8, RowsStep DEF members
<1>9. CASE S # {}
  <2>1. PICK i : i \in S
    BY <1>9
  <2>2. p \in People /\ role[p] = "none" /\ Exists(p) /\ account[p].verified
    BY <1>2, <2>1 DEF Exists
  <2>3. invite'[i] # None /\ invite'[i].accepted /\ invite'[i].email = p /\ i \in Invites
    BY <1>2, <1>3, <1>4, <2>1, RowAssumption DEF Advances
  <2>4. /\ role' \in [People -> Roles \cup {"none"}]
        /\ \A q \in People \ {p} : role'[q] = role[q]
    BY <1>4, <1>9, <2>2 DEF MemberInv, TypeOK, Roles
  <2>5. OwnerRemains'
    <3>1. PICK q \in Owners : TRUE
      BY <1>1 DEF MemberInv, OwnerRemains
    <3> QED
      BY <2>2, <2>4, <3>1 DEF Owners, OwnerRemains
  <2>6. ASSUME NEW q \in People \ {p}, role'[q] # "none"
        PROVE  /\ Exists(q)'
               /\ \/ claim' # None /\ claim'.by = q
                  \/ /\ account'[q].verified
                     /\ \E j \in Invites : invite'[j] # None /\ invite'[j].accepted /\ invite'[j].email = q
    BY <1>4, <1>6, <2>4, <2>6 DEF MemberInv, MembersAreInvited, Exists, Kept, tenant
  <2>7. MembersAreInvited'
    BY <1>4, <2>2, <2>3, <2>6 DEF MembersAreInvited, Exists
  <2> QED
    BY <1>1, <1>4, <1>6, <1>7, <2>4, <2>5, <2>7, MemberStep DEF MemberInv, TypeOK
<1> QED
  BY <1>8, <1>9

-----------------------------------------------------------------------------
(* Steps of the environment, which leave the requests alone.                *)

LEMMA QuietCalls ==
  ASSUME MemberInv, RowsGrow, UNCHANGED <<tenant, call>>
  PROVE  CallsHold'
<1>1. \A s \in Calls : call[s].token \in Nat /\ call[s].token <= issued
  BY TokenAssumption DEF MemberInv, CallsFit, TypeOK, Call
<1>2. CallsFit' /\ RegisteringIsClaimed'
  BY <1>1, TokenAssumption DEF MemberInv, TypeOK, CallsFit, RegisteringIsClaimed, RowsGrow
<1> QED
  BY <1>2 DEF CallsHold, MemberInv, TypeOK, SetupHasClaim, OneRegisters, tenant

LEMMA ExpireKeeps ==
  ASSUME MemberInv, NEW i \in Invites, Expire(i)
  PROVE  MemberInv'
<1> DEFINE S == {i}
           f == [j \in S |-> [invite[j] EXCEPT !.expired = TRUE]]
<1>1. invite[i] # None /\ invite[i] \in Invitation /\ founded
  BY DEF Expire, Active, Pending, MemberInv, TypeOK, OnlySetup
<1>2. \A j \in S : f[j] \in Invitation /\ Advances(f[j], invite[j])
  BY <1>1 DEF Invitation, Advances
<1>3. invite' = [j \in Invites |-> IF j \in S THEN f[j] ELSE invite[j]]
  BY DEF Expire, MemberInv, TypeOK
<1>4. S \in SUBSET Invites /\ \A j \in S : invite[j] # None
  BY <1>1
<1> HIDE DEF S, f
<1>5. /\ RowsGrow /\ TokensAreFresh' /\ Kept
      /\ issued' \in 0 .. MaxToken /\ invite' \in [Invites -> Invitation \cup {None}]
  BY <1>2, <1>3, <1>4, UpdateKeeps DEF Expire
<1>6. CallsHold'
  BY <1>5, QuietCalls DEF Expire
<1> QED
  BY <1>1, <1>5, <1>6, RowsStep DEF Expire

-----------------------------------------------------------------------------
(* Steps of a setup, before there is a workspace.                           *)

LEMMA SetupStep ==
  ASSUME MemberInv, ~founded, CallsHold', UNCHANGED <<founded, members, invitations>>,
         claim' \in Claim \cup {None},
         account' \in [People -> Account \cup {None}],
         \A s \in Calls : call'[s].op \in {"none", "setup"}
  PROVE  MemberInv'
<1>1. TypeOK' /\ TokensAreFresh' /\ OnlySetup'
  BY DEF MemberInv, TypeOK, CallsHold, TokensAreFresh, OnlySetup, members, invitations
<1>2. OwnerRemains' /\ MembersAreInvited'
  BY DEF MemberInv, OnlySetup, OwnerRemains, MembersAreInvited, members
<1> QED
  BY <1>1, <1>2 DEF MemberInv, CallsHold

LEMMA SetupCall ==
  ASSUME MemberInv, NEW r \in Calls, call[r].op = "setup"
  PROVE  /\ ~founded /\ claim # None /\ claim.by = call[r].by /\ claim \in Claim
         /\ call[r].by \in People /\ call[r].name \in Names
         /\ call[r] \in Call /\ Fits(call[r])
         /\ \A s \in Calls \ {r} : call[s].op = "none"
         /\ \A s \in Calls : ~Registers(call[s])
<1>1. /\ ~founded /\ claim # None /\ claim.by = call[r].by
      /\ \A s \in Calls : call[s].op = "setup" => s = r
  BY DEF MemberInv, SetupHasClaim
<1>2. claim \in Claim /\ call[r] \in Call /\ Fits(call[r])
  BY <1>1 DEF MemberInv, TypeOK, CallsFit
<1>3. \A s \in Calls : call[s].op \in {"none", "setup"}
  BY <1>1 DEF MemberInv, OnlySetup
<1> QED
  BY <1>1, <1>2, <1>3 DEF Claim, Fits, Registers

LEMMA ClaimSetupKeeps ==
  ASSUME MemberInv, NEW r \in Calls, NEW p \in People, NEW n \in Names, ClaimSetup(r, p, n)
  PROVE  MemberInv'
<1> DEFINE c == [Idle EXCEPT !.op = "setup", !.at = "signup", !.by = p, !.name = n]
           new == [by |-> p, done |-> FALSE]
<1>1. ~founded /\ claim = None /\ UNCHANGED <<founded, account, members, invitations>>
  BY DEF ClaimSetup, ClaimFree
<1>2. "setup" \in Ops /\ "signup" \in Stages
  BY DEF Ops, Stages
<1>3. c \in Call /\ c.op = "setup" /\ c.by = p /\ c.token = 0
  BY <1>2, IdleFits DEF Call
<1>4. Fits(c) /\ ~Registers(c)
  BY <1>3, IdleFits DEF Fits, Registers, Call
<1>5. call' = [call EXCEPT ![r] = c] /\ claim' = new
  BY DEF ClaimSetup, Begin
<1>6. new \in Claim /\ new.by = p /\ new # None
  <2>1. new \in Claim /\ new.by = p
    BY DEF Claim
  <2> QED
    BY <2>1, RowAssumption
<1> HIDE DEF c, new
<1>7. /\ call' \in [Calls -> Call] /\ call'[r] = c /\ \A s \in Calls \ {r} : call'[s] = call[s]
      /\ \A s \in Calls : call[s].op = "none"
  BY <1>1, <1>3, <1>5 DEF MemberInv, TypeOK, OnlySetup, SetupHasClaim
<1>8. RowsGrow /\ issued = 0
  BY <1>1, SameRows DEF MemberInv, OnlySetup
<1>9. OthersStay(r)
  BY <1>7 DEF OthersStay
<1>10. CallsFit' /\ RegisteringIsClaimed' /\ OneRegisters'
  <2>1. c.token \in Nat /\ c.token <= issued'
    BY <1>3, <1>8 DEF RowsGrow
  <2> QED
    BY <1>3, <1>4, <1>7, <1>8, <1>9, <2>1, RegistersKeep
<1>11. SetupHasClaim'
  BY <1>1, <1>3, <1>5, <1>6, <1>7 DEF SetupHasClaim
<1>12. \A s \in Calls : call'[s].op \in {"none", "setup"}
  BY <1>3, <1>7
<1> QED
  BY <1>1, <1>5, <1>6, <1>7, <1>10, <1>11, <1>12, SetupStep DEF CallsHold, MemberInv, TypeOK

LEMMA SetupSignUpKeeps ==
  ASSUME MemberInv, NEW r \in Calls, SetupSignUp(r)
  PROVE  MemberInv'
<1>1. call[r].op = "setup" /\ call[r].at = "signup" /\ UNCHANGED <<tenant, members, invitations>>
  BY DEF SetupSignUp, At
<1>2. /\ ~founded /\ call[r].by \in People /\ call[r].name \in Names /\ call[r] \in Call /\ Fits(call[r])
      /\ \A s \in Calls \ {r} : call[s].op = "none"
  BY <1>1, SetupCall
<1>3. account' \in [People -> Account \cup {None}]
  BY <1>2, Stores DEF SetupSignUp, MemberInv, TypeOK
<1>4. ASSUME NEW at \in {"provision", "unclaim"}, Goto(r, at)
      PROVE  CallsHold' /\ \A s \in Calls : call'[s].op \in {"none", "setup"}
  <2> DEFINE c == [call[r] EXCEPT !.at = at]
  <2>1. at \in Stages
    BY DEF Stages
  <2>2. /\ c \in Call /\ c.op = "setup" /\ c.at = at /\ c.by = call[r].by /\ c.token = call[r].token
        /\ c.name = call[r].name
    BY <1>1, <1>2, <2>1 DEF Call
  <2>3. Fits(c) /\ ~Registers(c)
    BY <1>2, <2>2 DEF Fits, Registers
  <2>4. call' = [call EXCEPT ![r] = c]
    BY <1>4 DEF Goto
  <2> HIDE DEF c
  <2>5. call' \in [Calls -> Call] /\ call'[r] = c /\ \A s \in Calls \ {r} : call'[s] = call[s]
    BY <2>2, <2>4 DEF MemberInv, TypeOK
  <2>6. OthersStay(r) /\ RowsGrow
    BY <1>1, <2>5, SameRows DEF OthersStay
  <2>7. c.token \in Nat /\ c.token <= issued'
    BY <1>1, <2>2, TokenAssumption DEF MemberInv, CallsFit, TypeOK, Call, invitations
  <2>8. CallsFit' /\ SetupHasClaim' /\ RegisteringIsClaimed' /\ OneRegisters'
    BY <1>1, <2>2, <2>3, <2>5, <2>6, <2>7, CallsKeep DEF tenant
  <2> QED
    BY <1>2, <2>2, <2>5, <2>8 DEF CallsHold
<1> QED
  BY <1>1, <1>2, <1>3, <1>4, SetupStep DEF SetupSignUp, tenant, MemberInv, TypeOK

(* Only the setup that has the claim gives it up. *)
LEMMA UnclaimKeeps ==
  ASSUME MemberInv, NEW r \in Calls, Unclaim(r)
  PROVE  MemberInv'
<1>1. call[r].op = "setup" /\ End(r) /\ UNCHANGED <<founded, account, members, invitations>>
      /\ claim' \in {None, claim}
  BY DEF Unclaim, At
<1>2. ~founded /\ \A s \in Calls \ {r} : call[s].op = "none"
  BY <1>1, SetupCall
<1>3. /\ call' \in [Calls -> Call] /\ call'[r] = Idle /\ \A s \in Calls \ {r} : call'[s] = call[s]
  BY <1>1, IdleFits DEF End, MemberInv, TypeOK
<1>4. \A s \in Calls : call'[s].op = "none"
  BY <1>2, <1>3, IdleFits
<1>5. OthersStay(r) /\ RowsGrow
  BY <1>1, <1>3, SameRows DEF OthersStay
<1>6. CallsFit' /\ RegisteringIsClaimed' /\ OneRegisters'
  <2>1. Idle.token \in Nat /\ Idle.token <= issued' /\ ~Registers(Idle)
    BY <1>5, IdleFits DEF RowsGrow, Registers
  <2> QED
    BY <1>3, <1>5, <2>1, IdleFits, RegistersKeep
<1>7. SetupHasClaim'
  BY <1>4 DEF SetupHasClaim
<1> QED
  BY <1>1, <1>2, <1>3, <1>4, <1>6, <1>7, SetupStep DEF CallsHold, MemberInv, TypeOK

(* The workspace is provisioned by the request whose claim it is. *)
LEMMA ProvisionKeeps ==
  ASSUME MemberInv, NEW r \in Calls, Provision(r)
  PROVE  MemberInv'
<1> DEFINE p == call[r].by
           new == [claim EXCEPT !.done = TRUE]
<1>1. call[r].op = "setup" /\ End(r) /\ Exists(p) /\ founded' /\ UNCHANGED <<account, invitations>>
      /\ role' = [role EXCEPT ![p] = "owner"] /\ grants' = [grants EXCEPT ![p] = TRUE]
      /\ claim' = IF claim # None /\ claim.by = p THEN new ELSE claim
  BY DEF Provision, At
<1>2. /\ ~founded /\ claim # None /\ claim.by = p /\ claim \in Claim /\ p \in People
      /\ \A s \in Calls \ {r} : call[s].op = "none"
  BY <1>1, SetupCall
<1>3. new \in Claim /\ new.by = p
  BY <1>2 DEF Claim
<1>4. claim' \in Claim /\ claim' # None /\ claim'.by = p
  BY <1>1, <1>2, <1>3, RowAssumption
<1>5. /\ call' \in [Calls -> Call] /\ call'[r] = Idle /\ \A s \in Calls \ {r} : call'[s] = call[s]
  BY <1>1, IdleFits DEF End, MemberInv, TypeOK
<1>6. \A s \in Calls : call'[s].op = "none"
  BY <1>2, <1>5, IdleFits
<1>7. OthersStay(r) /\ RowsGrow
  BY <1>1, <1>5, SameRows DEF OthersStay
<1>8. CallsFit' /\ RegisteringIsClaimed' /\ OneRegisters'
  <2>1. Idle.token \in Nat /\ Idle.token <= issued' /\ ~Registers(Idle)
    BY <1>7, IdleFits DEF RowsGrow, Registers
  <2> QED
    BY <1>5, <1>7, <2>1, IdleFits, RegistersKeep
<1>9. SetupHasClaim'
  BY <1>6 DEF SetupHasClaim
<1>10. /\ role' \in [People -> Roles \cup {"none"}] /\ grants' \in [People -> BOOLEAN]
       /\ role'[p] = "owner" /\ \A q \in People \ {p} : role'[q] = "none"
  BY <1>1, <1>2 DEF MemberInv, TypeOK, Roles, OnlySetup
<1>11. OwnerRemains' /\ MembersAreInvited'
  BY <1>1, <1>2, <1>4, <1>10 DEF OwnerRemains, Owners, MembersAreInvited, Exists
<1>12. TypeOK' /\ OnlySetup' /\ TokensAreFresh'
  BY <1>1, <1>4, <1>5, <1>10, SameRows DEF MemberInv, TypeOK, OnlySetup
<1> QED
  BY <1>8, <1>9, <1>11, <1>12 DEF MemberInv

LEMMA VerifyEmailKeeps ==
  ASSUME MemberInv, NEW p \in People, VerifyEmail(p)
  PROVE  MemberInv'
<1>1. RowsGrow /\ UNCHANGED <<tenant, members, invitations, call>>
  BY SameRows DEF VerifyEmail
<1>2. CallsHold'
  BY <1>1, QuietCalls
<1>3. /\ account' \in [People -> Account \cup {None}]
      /\ \A q \in People : role[q] # "none" =>
           account'[q] # None /\ (account[q].verified => account'[q].verified)
  BY Verifies DEF VerifyEmail
<1>4. CASE founded
  BY <1>1, <1>2, <1>3, <1>4, AccountStep
<1>5. CASE ~founded
  BY <1>1, <1>2, <1>3, <1>5, SetupStep DEF tenant, MemberInv, TypeOK, OnlySetup
<1> QED
  BY <1>4, <1>5

-----------------------------------------------------------------------------
LEMMA MemberInit == Init => MemberInv
<1> SUFFICES ASSUME Init PROVE MemberInv
  OBVIOUS
<1>1. \A r \in Calls : call[r] = Idle
  BY DEF Init
<1>2. TypeOK
  <2>1. call \in [Calls -> Call]
    BY IdleFits DEF Init
  <2>2. issued \in 0 .. MaxToken
    BY TokenAssumption DEF Init
  <2>3. role \in [People -> Roles \cup {"none"}] /\ grants \in [People -> BOOLEAN]
    BY DEF Init
  <2> QED
    BY <2>1, <2>2, <2>3 DEF Init, TypeOK
<1>3. CallsFit
  BY <1>1, IdleFits DEF Init, CallsFit
<1> QED
  BY <1>1, <1>2, <1>3, IdleFits DEF Init, MemberInv, OnlySetup, SetupHasClaim, TokensAreFresh,
     RegisteringIsClaimed, Registers, OneRegisters, OwnerRemains, MembersAreInvited

LEMMA MemberNext == MemberInv /\ [Next]_vars => MemberInv'
<1> SUFFICES ASSUME MemberInv, [Next]_vars PROVE MemberInv'
  OBVIOUS
<1>1. ASSUME NEW r \in Calls, Setup(r) PROVE MemberInv'
  BY <1>1, ClaimSetupKeeps, SetupSignUpKeeps, UnclaimKeeps, ProvisionKeeps DEF Setup
<1>2. ASSUME NEW r \in Calls, Manage(r) PROVE MemberInv'
  BY <1>2, ManageBegins, ReadsKeep, RoleKeeps, OffboardKeeps, AccessKeeps DEF Manage
<1>3. ASSUME NEW r \in Calls, Administer(r) PROVE MemberInv'
  BY <1>3, AdministerBegins, ReadsKeep, RevokeKeeps, InsertKeeps, DropKeeps, EraseKeeps, ReplaceKeeps
     DEF Administer
<1>4. ASSUME NEW r \in Calls, Onboard(r) PROVE MemberInv'
  BY <1>4, OnboardBegins, ClaimKeeps, SignUpKeeps, BindKeeps, VerifyKeeps, JoinKeeps DEF Onboard
<1>5. ASSUME NEW r \in Calls, Die(r) PROVE MemberInv'
  BY <1>5, ReadsKeep
<1>6. CASE UNCHANGED vars
  BY <1>6 DEF vars, tenant, members, invitations, MemberInv, TypeOK, CallsFit, OnlySetup, SetupHasClaim,
     TokensAreFresh, RegisteringIsClaimed, OneRegisters, OwnerRemains, Owners, MembersAreInvited, Exists
<1> QED
  BY <1>1, <1>2, <1>3, <1>4, <1>5, <1>6, ExpireKeeps, VerifyEmailKeeps DEF Next

THEOREM MemberInvariant == Spec => []MemberInv
  BY MemberInit, MemberNext, PTL DEF Spec

(* The variables of membership have their types. *)
THEOREM MembershipTypes == Spec => []TypeOK
  BY MemberInvariant, PTL DEF MemberInv

(* A workspace that exists has an owner: of two owners who demote, or remove,
   each other at the same time, the triggers keep the one who is left. *)
THEOREM WorkspacesAreOwned == Spec => []OwnerRemains
  BY MemberInvariant, PTL DEF MemberInv

(* A member has an account and either founded the workspace or is verified and
   has an accepted invitation on record, whatever is deleted meanwhile. *)
THEOREM MembershipIsFounded == Spec => []MembersAreInvited
  BY MemberInvariant, PTL DEF MemberInv

(* The claim of the first setup, and that of an invitation, is held by one
   request at a time, and never by a setup once the workspace exists. *)
THEOREM ClaimsHold == Spec => []ClaimsAreExclusive
<1>1. MemberInv => ClaimsAreExclusive
  BY DEF MemberInv, SetupHasClaim, OneRegisters, Registers, ClaimsAreExclusive, At
<1> QED
  BY <1>1, MemberInvariant, PTL

-----------------------------------------------------------------------------
(* Who may read what.                                                       *)

LEMMA AccessTypeStep ==
  AccessTypeOK /\ [AccessNext]_accessVars => AccessTypeOK'
<1> SUFFICES ASSUME AccessTypeOK, [AccessNext]_accessVars PROVE AccessTypeOK'
  OBVIOUS
<1> USE AccessAssumption DEF tables
<1>1. ASSUME NEW r \in Clerks, NEW do, NEW on, NEW u \in Users, Ask(r, do, on, u), changes < MaxAccess,
             \/ do \in {"grant", "revoke"} /\ on \in Inboxes
             \/ do \in {"delegate", "withdraw"} /\ on \in Private
      PROVE  AccessTypeOK'
  <2> DEFINE w == [do |-> do, on |-> on, user |-> u]
  <2>1. w \in Job
    BY <1>1 DEF Job
  <2>2. clerk' = [clerk EXCEPT ![r] = w] /\ changes' = changes + 1 /\ UNCHANGED tables
    BY <1>1 DEF Ask
  <2> HIDE DEF w
  <2> QED BY <1>1, <2>1, <2>2 DEF AccessTypeOK
<1>2. ASSUME NEW r \in Clerks, WriteAccess(r) PROVE AccessTypeOK'
  <2> DEFINE w == clerk[r]
  <2>1. w \in Job /\ w # Unhurried
    BY <1>2 DEF WriteAccess, AccessTypeOK
  <2>2. /\ w.do \in {"grant", "revoke"} => <<w.on, w.user>> \in Inboxes \X Users
        /\ w.do \in {"delegate", "withdraw"} => <<w.on, w.user>> \in Private \X Users
    BY <2>1 DEF Job
  <2>3. Unhurried \in Job
    BY DEF Job
  <2> HIDE DEF w
  <2>4. /\ clerk' = [clerk EXCEPT ![r] = Unhurried] /\ UNCHANGED <<staff, teamed, changes>>
        /\ permits' = CASE w.do = "grant" -> permits \cup {<<w.on, w.user>>}
                        [] w.do = "revoke" -> permits \ {<<w.on, w.user>>}
                        [] OTHER -> permits
        /\ delegates' = CASE w.do = "delegate" -> delegates \cup {<<w.on, w.user>>}
                          [] w.do = "withdraw" -> delegates \ {<<w.on, w.user>>}
                          [] OTHER -> delegates
    BY <1>2 DEF WriteAccess, w
  <2>5. permits' \subseteq Inboxes \X Users
    BY <2>2, <2>4 DEF AccessTypeOK
  <2>6. delegates' \subseteq Private \X Users
    BY <2>2, <2>4 DEF AccessTypeOK
  <2> QED BY <2>3, <2>4, <2>5, <2>6 DEF AccessTypeOK
<1>3. ASSUME NEW u \in Users, changes < MaxAccess,
             \/ Offboard(u) \/ Enter(u)
             \/ \E ts \in SUBSET Teams, is \in SUBSET Inboxes : ReplaceAccess(u, ts, is)
      PROVE  AccessTypeOK'
  BY <1>3 DEF AccessTypeOK, Offboard, Enter, ReplaceAccess
<1>4. CASE UNCHANGED accessVars
  BY <1>4 DEF AccessTypeOK, accessVars
<1>5. ASSUME AccessChanges, changes < MaxAccess PROVE AccessTypeOK'
  <2>1. ASSUME NEW r \in Clerks, NEW u \in Users, NEW i \in Inboxes,
               JoinInbox(r, i, u) \/ LeaveInbox(r, i, u) \/ RemoveInboxMember(r, i, u)
        PROVE  AccessTypeOK'
    BY <1>1, <1>5, <2>1 DEF JoinInbox, LeaveInbox, RemoveInboxMember
  <2>2. ASSUME NEW r \in Clerks, NEW u \in Users, NEW b \in Private,
               AddDelegate(r, b, u) \/ RemoveDelegate(r, b, u)
        PROVE  AccessTypeOK'
    BY <1>1, <1>5, <2>2 DEF AddDelegate, RemoveDelegate
  <2> QED BY <1>3, <1>5, <2>1, <2>2 DEF AccessChanges
<1> QED BY <1>2, <1>4, <1>5 DEF AccessNext

(* What the tables of members, grants, teams and delegates hold. *)
THEOREM AccessTypes == AccessSpec => []AccessTypeOK
<1>1. AccessInit => AccessTypeOK
  BY AccessAssumption DEF AccessInit, AccessTypeOK, Job
<1> QED BY <1>1, AccessTypeStep, PTL DEF AccessSpec

(* The listing of mailboxes, the check of one mailbox and the readable inboxes
   agree on every content of the tables. *)
THEOREM AnswersAgree == AccessSpec => []AccessAgrees
<1>1. AccessAgrees
  <2> SUFFICES ASSUME NEW u \in Users, NEW b \in Boxes
               PROVE  /\ MailListed(u, b) <=> MailReadable(u, b)
                      /\ InboxReadable(u, Behind[b]) => MailReadable(u, b)
    BY DEF AccessAgrees
  <2>0. Behind[b] \in Inboxes
    BY AccessAssumption
  <2>1. MailListed(u, b) <=> MailReadable(u, b)
    BY <2>0 DEF MailListed, MailReadable, InTeam, Granted
  <2>2. InboxReadable(u, Behind[b]) => MailReadable(u, b)
    BY <2>0, VisibilityAssumption DEF InboxReadable, BoxAllows, MailReadable
  <2> QED BY <2>1, <2>2
<1> QED BY <1>1, PTL

-----------------------------------------------------------------------------
(* The sockets of a conversation.                                           *)

(* The socket that a task is about has an agent. *)
AsksForAgent(t) == task[t].step # "none" => task[t].sock \in Sockets /\ socket[task[t].sock].state # "none"
(* A frame says one of three things. *)
FrameSays(t) == task[t].do = "frame" => task[t].kind \in {"opened", "closed", "typing"}
SocketHasAgent(s) == socket[s].state # "none" => socket[s].agent \in Users

(* A table has been read for the inbox and said yes. *)
Passed(n, x) == n.step = "mail" \/ (n.step = "inbox" /\ n.yes /\ x \notin n.left)

(* Whomever a table has denied the conversation since the event was made it
   denies it now, and has not let through. *)
BarredSince(t) ==
  /\ \A x \in Tables : task[t].barred[x] \subseteq Denied[x]
  /\ task[t].do = "cast" => \A x \in Tables : Passed(task[t], x) => Agent(t) \notin task[t].barred[x]

RoomInv ==
  /\ RoomTypeOK
  /\ NothingAfterRevocation
  /\ \A s \in Sockets : SocketHasAgent(s)
  /\ \A t \in Tasks :
       /\ AsksForAgent(t) /\ FrameSays(t) /\ BarredSince(t)
       /\ \A s \in task[t].todo : socket[s].state # "none"

(* A step of one task, and perhaps of its socket. *)
TaskStays(t) ==
  LET n == task'[t] IN
  /\ n \in Task
  /\ n.step # "none" => n.sock \in Sockets /\ socket'[n.sock].state # "none"
  /\ n.do = "frame" => n.kind \in {"opened", "closed", "typing"}
  /\ \A x \in Tables : n.barred[x] \subseteq Denied[x]
  /\ n.do = "cast" => \A x \in Tables : Passed(n, x) => socket'[n.sock].agent \notin n.barred[x]
  /\ \A s \in n.todo : socket'[s].state # "none"
SocketsStay ==
  /\ socket' \in [Sockets -> Socket]
  /\ \A s \in Sockets :
       /\ socket[s].state # "none" => socket'[s].state # "none" /\ socket'[s].agent = socket[s].agent
       /\ socket'[s].state # "none" => socket'[s].agent \in Users

(* At one instant the readings of a question answer like the question: what
   the code collects from the tables is getReadableInboxIds for the inbox of
   the conversation, and getMailboxAccessByAddress for its mailbox. *)
THEOREM ReadingsAnswer ==
  ASSUME NEW u \in Users
  PROVE  /\ InboxReadable(u, Behind[Box]) <=> \A x \in Tables : InboxSays(u, x)
         /\ MailReadable(u, Box) <=> \A x \in Tables : MailSays(u, x)
<1> DEFINE i == Behind[Box]
<1>1. i \in Inboxes /\ Visibility[i] \in {"system", "shared", "private", "team"}
  BY AccessAssumption, BoxAssumption
<1>2. /\ InboxSays(u, "staff") <=> u \in staff
      /\ InboxSays(u, "grants") <=>
           /\ Visibility[i] = "shared" => Granted(i) = {} \/ u \in Granted(i)
           /\ Visibility[i] = "private" => u \in Granted(i)
           /\ \A b \in Backing \ Private : BoxTeam[b] = NoOne => u \in Granted(i)
      /\ InboxSays(u, "teams") <=>
           /\ Visibility[i] = "team" => InTeam(u, InboxTeam[i])
           /\ \A b \in Backing \ Private : BoxTeam[b] # NoOne => TeamMail(u, b)
      /\ InboxSays(u, "delegates") <=> \A b \in Backing \cap Private : Owner[b] = u \/ <<b, u>> \in delegates
  BY DEF InboxSays
<1>3. (\A x \in Tables : InboxSays(u, x)) <=>
        InboxSays(u, "staff") /\ InboxSays(u, "grants") /\ InboxSays(u, "teams") /\ InboxSays(u, "delegates")
  BY DEF Tables
<1>4. InboxAllowed(u, i) <=>
        /\ Visibility[i] = "shared" => Granted(i) = {} \/ u \in Granted(i)
        /\ Visibility[i] = "private" => u \in Granted(i)
        /\ Visibility[i] = "team" => InTeam(u, InboxTeam[i])
  BY <1>1 DEF InboxAllowed
<1>5. (\A b \in Boxes : Behind[b] = i => BoxAllows(u, i, b)) <=>
        /\ \A b \in Backing \ Private : BoxTeam[b] = NoOne => u \in Granted(i)
        /\ \A b \in Backing \ Private : BoxTeam[b] # NoOne => TeamMail(u, b)
        /\ \A b \in Backing \cap Private : Owner[b] = u \/ <<b, u>> \in delegates
  BY DEF BoxAllows, Backing, TeamMail
<1>6. InboxReadable(u, i) <=> \A x \in Tables : InboxSays(u, x)
  BY <1>2, <1>3, <1>4, <1>5 DEF InboxReadable
<1>7. MailReadable(u, Box) <=> \A x \in Tables : MailSays(u, x)
  <2>1. (\A x \in Tables : MailSays(u, x)) <=>
          MailSays(u, "staff") /\ MailSays(u, "grants") /\ MailSays(u, "teams") /\ MailSays(u, "delegates")
    BY DEF Tables
  <2> QED BY <2>1 DEF MailReadable, MailSays, TeamMail
<1> QED BY <1>6, <1>7

(* A table that lets an agent read the inbox lets him read the mailbox. *)
LEMMA InboxAsksMore ==
  ASSUME NEW u \in Users, NEW x \in Tables, InboxSays(u, x)
  PROVE  MailSays(u, x)
<1>1. Box \in Backing
  BY BoxAssumption DEF Backing
<1>2. CASE x = "staff"
  BY <1>2 DEF InboxSays, MailSays
<1>3. CASE x = "grants"
  BY <1>1, <1>3, BoxAssumption, VisibilityAssumption DEF InboxSays, MailSays
<1>4. CASE x = "teams"
  BY <1>1, <1>4 DEF InboxSays, MailSays
<1>5. CASE x = "delegates"
  BY <1>1, <1>5 DEF InboxSays, MailSays
<1> QED BY <1>2, <1>3, <1>4, <1>5 DEF Tables

LEMMA NotDenied ==
  ASSUME NEW u \in Users, NEW x \in Tables, InboxSays(u, x)
  PROVE  u \notin Denied[x]
BY InboxAsksMore DEF Denied

LEMMA SameDenied ==
  ASSUME UNCHANGED tables
  PROVE  Denied' = Denied
BY DEF Denied, InboxSays, MailSays, TeamMail, Backing, Granted, InTeam, tables

LEMMA RoomKept ==
  ASSUME RoomInv, UNCHANGED <<accessVars, leaked>>, NEW t \in Tasks, SocketsStay, TaskStays(t),
         task' \in [Tasks -> Task], \A q \in Tasks \ {t} : task'[q] = task[q],
         presence' \in [Users -> {"absent", "viewing", "drafting"}], started' \in Nat
  PROVE  RoomInv'
<1>0. Denied' = Denied
  BY SameDenied DEF accessVars
<1>1. RoomTypeOK' /\ NothingAfterRevocation'
  BY DEF RoomInv, RoomTypeOK, NothingAfterRevocation, SocketsStay
<1>2. \A s \in Sockets : SocketHasAgent(s)'
  BY DEF SocketsStay, SocketHasAgent
<1>3. ASSUME NEW q \in Tasks
      PROVE  /\ AsksForAgent(q)' /\ FrameSays(q)' /\ BarredSince(q)'
             /\ \A s \in task'[q].todo : socket'[s].state # "none"
  <2>1. CASE q = t
    BY <1>0, <2>1 DEF TaskStays, AsksForAgent, FrameSays, BarredSince, Agent
  <2>2. CASE q # t
    <3>1. task'[q] = task[q] /\ task[q].todo \subseteq Sockets
      BY <2>2 DEF RoomInv, RoomTypeOK, Task
    <3>2. AsksForAgent(q) /\ FrameSays(q) /\ BarredSince(q) /\ \A s \in task[q].todo : socket[s].state # "none"
      BY DEF RoomInv
    <3>3. /\ AsksForAgent(q)' /\ FrameSays(q)' /\ \A s \in task'[q].todo : socket'[s].state # "none"
          /\ task[q].step # "none" => Agent(q)' = Agent(q)
      BY <3>1, <3>2 DEF AsksForAgent, FrameSays, Agent, SocketsStay
    <3>4. \A x : Passed(task[q], x) => task[q].step # "none"
      BY DEF Passed
    <3>5. BarredSince(q)'
      BY <1>0, <3>1, <3>2, <3>3, <3>4 DEF BarredSince
    <3> QED BY <3>3, <3>5
  <2> QED BY <2>1, <2>2
<1> QED BY <1>1, <1>2, <1>3 DEF RoomInv

(* The other tasks wait. *)
OnlyTask(t) == task' \in [Tasks -> Task] /\ \A q \in Tasks \ {t} : task'[q] = task[q]

LEMMA DeniedType == Denied \in [Tables -> SUBSET Users]
BY DEF Denied

LEMMA RestIsATask ==
  AtRest \in Task /\ AtRest.step = "none" /\ AtRest.do = "rest" /\ AtRest.todo = {}
  /\ \A x \in Tables : AtRest.barred[x] = {}
BY DEF AtRest, Task, NotAsked, Kinds

LEMMA TaskChanges ==
  ASSUME RoomTypeOK, NEW t \in Tasks, NEW n \in Task, task' = [task EXCEPT ![t] = n]
  PROVE  OnlyTask(t) /\ task'[t] = n
BY DEF RoomTypeOK, OnlyTask

LEMMA RestStays ==
  ASSUME RoomInv, NEW t \in Tasks, Rest(t)
  PROVE  OnlyTask(t) /\ TaskStays(t)
<1>1. OnlyTask(t) /\ task'[t] = AtRest
  BY RestIsATask, TaskChanges DEF RoomInv, Rest
<1> QED BY <1>1, RestIsATask DEF TaskStays, Passed

LEMMA CastStays ==
  ASSUME RoomInv, NEW t \in Tasks, NEW sk, Cast(t, sk),
         \A s \in Sockets : sk[s].state = "open" => socket'[s].state # "none"
  PROVE  OnlyTask(t) /\ TaskStays(t)
<1> DEFINE n == Casting(sk)
<1>1. /\ n.do = "cast" /\ n.step = "none" /\ n.sock = NoOne
      /\ n.todo = Open(sk) /\ n.barred = Denied
  BY DEF Casting
<1>2. n \in Task
  <2>1. Open(sk) \subseteq Sockets
    BY DEF Open
  <2> QED BY <2>1, DeniedType DEF Task, Casting, Kinds
<1> HIDE DEF n
<1>3. CASE task' = [task EXCEPT ![t] = AtRest]
  BY <1>3, RestStays DEF Rest
<1>4. CASE task' = [task EXCEPT ![t] = n]
  <2>1. OnlyTask(t) /\ task'[t] = n
    BY <1>2, <1>4, TaskChanges DEF RoomInv
  <2>2. \A s \in n.todo : socket'[s].state # "none"
    BY <1>1 DEF Open
  <2> QED BY <1>1, <1>2, <2>1, <2>2 DEF TaskStays, Passed
<1>5. task' = [task EXCEPT ![t] = AtRest] \/ task' = [task EXCEPT ![t] = n]
  BY DEF Cast, n
<1> QED BY <1>3, <1>4, <1>5

(* The task goes on with another question, or another socket. *)
LEMMA GoesOn ==
  ASSUME RoomInv, NEW t \in Tasks, NEW n \in Task, task' = [task EXCEPT ![t] = n],
         n.do = task[t].do, n.kind = task[t].kind, n.barred = task[t].barred,
         n.todo \subseteq task[t].todo, SocketsStay,
         n.step # "none" => n.sock \in Sockets /\ socket[n.sock].state # "none",
         n.do = "cast" => \A x \in Tables : Passed(n, x) => socket[n.sock].agent \notin n.barred[x]
  PROVE  OnlyTask(t) /\ TaskStays(t)
<1>1. OnlyTask(t) /\ task'[t] = n
  BY TaskChanges DEF RoomInv
<1>2. BarredSince(t) /\ FrameSays(t) /\ \A s \in task[t].todo : s \in Sockets /\ socket[s].state # "none"
  BY DEF RoomInv, RoomTypeOK, Task
<1> QED BY <1>1, <1>2 DEF TaskStays, FrameSays, BarredSince, SocketsStay, Passed

LEMMA NextSocketStays ==
  ASSUME RoomInv, NEW t \in Tasks, NextSocket(t), SocketsStay
  PROVE  OnlyTask(t) /\ TaskStays(t)
<1> DEFINE n == [task[t] EXCEPT !.step = "none", !.left = {}, !.yes = TRUE, !.sock = NoOne]
<1>1. /\ n.do = task[t].do /\ n.step = "none" /\ n.kind = task[t].kind
      /\ n.barred = task[t].barred /\ n.todo = task[t].todo /\ n \in Task
  <2>1. task[t] \in Task
    BY DEF RoomInv, RoomTypeOK
  <2> QED BY <2>1 DEF Task
<1> HIDE DEF n
<1>2. CASE task' = [task EXCEPT ![t] = n]
  BY <1>1, <1>2, GoesOn DEF Passed
<1>3. task' = [task EXCEPT ![t] = n] \/ Rest(t)
  BY DEF NextSocket, n
<1> QED BY <1>2, <1>3, RestStays

LEMMA SameSockets ==
  ASSUME RoomInv, socket' = socket
  PROVE  SocketsStay
BY DEF RoomInv, RoomTypeOK, SocketHasAgent, SocketsStay

LEMMA SocketMoves ==
  ASSUME RoomInv, NEW s \in Sockets, socket[s].state # "none",
         NEW st \in {"asking", "open", "closing", "closed"}, socket' = [socket EXCEPT ![s].state = st]
  PROVE  SocketsStay /\ socket'[s].state = st
<1>1. socket[s] \in Socket /\ socket[s].agent \in Users
  BY DEF RoomInv, RoomTypeOK, SocketHasAgent
<1> DEFINE n == [socket[s] EXCEPT !.state = st]
<1>2. n \in Socket /\ n.state = st /\ n.agent = socket[s].agent
  BY <1>1 DEF Socket
<1>3. socket' = [socket EXCEPT ![s] = n]
  BY DEF RoomInv, RoomTypeOK
<1> HIDE DEF n
<1>4. /\ socket' \in [Sockets -> Socket] /\ socket'[s] = n
      /\ \A q \in Sockets : q # s => socket'[q] = socket[q]
  BY <1>2, <1>3 DEF RoomInv, RoomTypeOK
<1> QED BY <1>1, <1>2, <1>4 DEF SocketsStay, RoomInv, SocketHasAgent

LEMMA AskingStays ==
  ASSUME RoomInv, NEW t \in Tasks, NEW s \in Sockets, NEW do \in {"upgrade", "frame"}, NEW kind \in Kinds,
         task' = [task EXCEPT ![t] = Asking(do, s, kind)], socket'[s].state # "none",
         do = "frame" => kind \in {"opened", "closed", "typing"}
  PROVE  OnlyTask(t) /\ TaskStays(t)
<1>1. /\ Asking(do, s, kind) \in Task /\ Asking(do, s, kind).sock = s /\ Asking(do, s, kind).todo = {}
      /\ Asking(do, s, kind).step = "member" /\ Asking(do, s, kind).do = do /\ Asking(do, s, kind).kind = kind
      /\ \A x \in Tables : Asking(do, s, kind).barred[x] = {}
  BY DEF Asking, Task, NotAsked, Questions, Tables
<1>2. OnlyTask(t) /\ task'[t] = Asking(do, s, kind)
  BY <1>1, TaskChanges DEF RoomInv
<1> QED BY <1>1, <1>2 DEF TaskStays, Passed

LEMMA PresenceType ==
  ASSUME RoomInv, NEW u \in Users, NEW v \in {"absent", "viewing", "drafting"},
         presence' = [presence EXCEPT ![u] = v]
  PROVE  presence' \in [Users -> {"absent", "viewing", "drafting"}]
BY DEF RoomInv, RoomTypeOK

LEMMA RightsStay ==
  ASSUME RoomInv, ChangeRights
  PROVE  RoomInv'
<1>0. UNCHANGED <<socket, presence, started, leaked>>
  BY DEF ChangeRights
<1>1. ASSUME NEW t \in Tasks
      PROVE  /\ task'[t] \in Task /\ task'[t].do = task[t].do /\ task'[t].step = task[t].step
             /\ task'[t].kind = task[t].kind
             /\ task'[t].sock = task[t].sock /\ task'[t].todo = task[t].todo
             /\ task'[t].left = task[t].left /\ task'[t].yes = task[t].yes
             /\ \A x \in Tables : task'[t].barred[x] = task[t].barred[x] \cap Denied'[x]
  <2> DEFINE b == StillBarred(task[t].barred)
             n == [task[t] EXCEPT !.barred = b]
  <2>1. task[t] \in Task
    BY DEF RoomInv, RoomTypeOK
  <2>2. b \in [Tables -> SUBSET Users]
    <3>1. task[t].barred \in [Tables -> SUBSET Users]
      BY <2>1 DEF Task
    <3> QED BY <3>1 DEF StillBarred
  <2>3. task'[t] = n
    BY DEF ChangeRights
  <2> HIDE DEF b
  <2>4. /\ n \in Task /\ n.do = task[t].do /\ n.step = task[t].step /\ n.kind = task[t].kind /\ n.sock = task[t].sock
        /\ n.todo = task[t].todo /\ n.left = task[t].left /\ n.yes = task[t].yes /\ n.barred = b
    BY <2>1, <2>2 DEF Task
  <2>5. \A x \in Tables : b[x] = task[t].barred[x] \cap Denied'[x]
    BY DEF b, StillBarred
  <2> HIDE DEF n
  <2> QED BY <2>3, <2>4, <2>5
<1>2. RoomTypeOK' /\ NothingAfterRevocation'
  <2>1. task' \in [Tasks -> Task]
    BY <1>1 DEF ChangeRights
  <2> QED BY <1>0, <2>1 DEF RoomInv, RoomTypeOK, NothingAfterRevocation
<1>3. \A s \in Sockets : SocketHasAgent(s)'
  BY <1>0 DEF RoomInv, SocketHasAgent
<1>4. ASSUME NEW t \in Tasks
      PROVE  /\ AsksForAgent(t)' /\ FrameSays(t)' /\ BarredSince(t)'
             /\ \A s \in task'[t].todo : socket'[s].state # "none"
  <2>1. AsksForAgent(t) /\ FrameSays(t) /\ BarredSince(t) /\ \A s \in task[t].todo : socket[s].state # "none"
    BY DEF RoomInv
  <2>2. AsksForAgent(t)' /\ FrameSays(t)' /\ \A s \in task'[t].todo : socket'[s].state # "none"
    BY <1>0, <1>1, <2>1 DEF AsksForAgent, FrameSays
  <2>3. \A x \in Tables :
          task'[t].barred[x] \subseteq task[t].barred[x] /\ task'[t].barred[x] \subseteq Denied'[x]
    BY <1>1
  <2>4. Agent(t)' = Agent(t) /\ task'[t].do = task[t].do /\ \A x \in Tables : Passed(task'[t], x) <=> Passed(task[t], x)
    BY <1>0, <1>1 DEF Agent, Passed
  <2>5. task[t].do = "cast" => \A x \in Tables : Passed(task[t], x) => Agent(t) \notin task[t].barred[x]
    BY <2>1 DEF BarredSince
  <2>6. BarredSince(t)'
    BY <2>3, <2>4, <2>5 DEF BarredSince
  <2> QED BY <2>2, <2>6
<1> QED BY <1>2, <1>3, <1>4 DEF RoomInv

(* What a handler other than ChangeRights has to show. *)
LEMMA Handled ==
  ASSUME RoomInv, UNCHANGED <<accessVars, leaked>>, NEW t \in Tasks,
         SocketsStay, OnlyTask(t), TaskStays(t),
         presence' \in [Users -> {"absent", "viewing", "drafting"}], started' \in Nat
  PROVE  RoomInv'
BY RoomKept DEF OnlyTask

LEMMA StartedType ==
  ASSUME RoomInv, NEW t, Begins(t)
  PROVE  started' \in Nat
BY DEF RoomInv, RoomTypeOK, Begins

LEMMA PresenceStays ==
  ASSUME RoomInv, presence' = presence
  PROVE  presence' \in [Users -> {"absent", "viewing", "drafting"}]
BY DEF RoomInv, RoomTypeOK

LEMMA StartedStays ==
  ASSUME RoomInv, started' = started
  PROVE  started' \in Nat
BY DEF RoomInv, RoomTypeOK

(* The socket and the agent a task asks for. *)
LEMMA AskedFor ==
  ASSUME RoomInv, NEW t \in Tasks, task[t].step # "none"
  PROVE  /\ task[t].sock \in Sockets /\ socket[task[t].sock].state # "none"
         /\ Agent(t) \in Users /\ Agent(t) = socket[task[t].sock].agent
BY DEF RoomInv, AsksForAgent, SocketHasAgent, Agent

LEMMA UpgradeStep ==
  ASSUME RoomInv, NEW t \in Tasks, NEW s \in Sockets, NEW u \in Users, Upgrade(t, s, u)
  PROVE  RoomInv'
<1> DEFINE n == [agent |-> u, state |-> "asking"]
<1>1. n \in Socket /\ n.agent = u /\ n.state = "asking"
  BY DEF Socket
<1>2. socket' = [socket EXCEPT ![s] = n]
  BY DEF Upgrade
<1> HIDE DEF n
<1>3. /\ socket' \in [Sockets -> Socket] /\ socket'[s] = n
      /\ \A q \in Sockets : q # s => socket'[q] = socket[q]
  BY <1>1, <1>2 DEF RoomInv, RoomTypeOK
<1>4. SocketsStay
  BY <1>1, <1>3 DEF SocketsStay, RoomInv, SocketHasAgent, Upgrade
<1>5. OnlyTask(t) /\ TaskStays(t)
  BY <1>1, <1>3, AskingStays DEF Upgrade, Kinds
<1> QED BY <1>4, <1>5, Handled, StartedType, PresenceStays DEF Upgrade

LEMMA FrameStep ==
  ASSUME RoomInv, NEW t \in Tasks, NEW s \in Sockets, NEW k \in {"opened", "closed", "typing"}, Frame(t, s, k)
  PROVE  RoomInv'
<1>1. OnlyTask(t) /\ TaskStays(t)
  BY AskingStays DEF Frame, Kinds
<1> QED BY <1>1, SameSockets, Handled, StartedType, PresenceStays DEF Frame

LEMMA AppendStep ==
  ASSUME RoomInv, NEW t \in Tasks, Append(t)
  PROVE  RoomInv'
<1>1. OnlyTask(t) /\ TaskStays(t)
  BY CastStays DEF Append
<1> QED BY <1>1, SameSockets, Handled, StartedType, PresenceStays DEF Append

LEMMA VisitStep ==
  ASSUME RoomInv, NEW t \in Tasks, NEW s \in Sockets, Visit(t, s)
  PROVE  RoomInv'
<1> DEFINE n == [task[t] EXCEPT !.step = "member", !.left = {"staff"}, !.yes = TRUE,
                              !.sock = s, !.todo = task[t].todo \ {s}]
<1>1. task[t] \in Task
  BY DEF RoomInv, RoomTypeOK
<1>2. /\ n.do = task[t].do /\ n.kind = task[t].kind /\ n.step = "member" /\ n.sock = s
      /\ n.todo = task[t].todo \ {s} /\ n.barred = task[t].barred /\ n \in Task
  BY <1>1 DEF Task, Questions, Tables
<1>3. socket[s].state # "none"
  BY DEF Visit, RoomInv
<1>4. task' = [task EXCEPT ![t] = n]
  BY DEF Visit
<1> HIDE DEF n
<1>5. SocketsStay
  BY SameSockets DEF Visit
<1>6. OnlyTask(t) /\ TaskStays(t)
  BY <1>2, <1>3, <1>4, <1>5, GoesOn DEF Passed
<1> QED BY <1>5, <1>6, Handled, StartedStays, PresenceStays DEF Visit

(* Whom a table lets through for the inbox it does not deny the conversation,
   and a later no ends the question. *)
LEMMA ReadStep ==
  ASSUME RoomInv, NEW t \in Tasks, NEW x \in Tables, Read(t, x)
  PROVE  RoomInv'
<1> DEFINE yes == task[t].yes /\ Says(t, x)
           left == IF Says(t, x) THEN task[t].left \ {x} ELSE {}
           n == [task[t] EXCEPT !.left = left, !.yes = yes]
<1>1. task[t] \in Task /\ yes \in BOOLEAN /\ left \subseteq Tables
  BY DEF RoomInv, RoomTypeOK, Task
<1>2. yes => task[t].yes /\ Says(t, x) /\ left = task[t].left \ {x}
  OBVIOUS
<1>3. task' = [task EXCEPT ![t] = n]
  BY DEF Read, RoomInv, RoomTypeOK
<1> HIDE DEF yes, left
<1>4. /\ n.do = task[t].do /\ n.kind = task[t].kind /\ n.step = task[t].step /\ n.sock = task[t].sock
      /\ n.todo = task[t].todo /\ n.barred = task[t].barred /\ n.left = left /\ n.yes = yes /\ n \in Task
  BY <1>1 DEF Task
<1> HIDE DEF n
<1>5. /\ task[t].sock \in Sockets /\ socket[task[t].sock].state # "none"
      /\ Agent(t) \in Users /\ Agent(t) = socket[task[t].sock].agent
  BY AskedFor DEF Read
<1>6. BarredSince(t)
  BY DEF RoomInv
<1>7. ASSUME task[t].do = "cast", NEW y \in Tables, Passed(n, y)
      PROVE  Agent(t) \notin task[t].barred[y]
  <2>1. CASE Passed(task[t], y)
    BY <1>6, <1>7, <2>1 DEF BarredSince
  <2>2. CASE ~Passed(task[t], y)
    <3>1. task[t].step = "inbox" /\ yes /\ y = x
      BY <1>2, <1>4, <1>7, <2>2 DEF Passed
    <3>2. InboxSays(Agent(t), y)
      BY <1>2, <3>1 DEF Says
    <3>3. Agent(t) \notin Denied[y]
      BY <1>5, <3>2, NotDenied
    <3> QED BY <1>6, <3>3 DEF BarredSince
  <2> QED BY <2>1, <2>2
<1>8. SocketsStay
  BY SameSockets DEF Read
<1>9. OnlyTask(t) /\ TaskStays(t)
  BY <1>3, <1>4, <1>5, <1>7, <1>8, GoesOn
<1> QED BY <1>8, <1>9, Handled, StartedStays, PresenceStays DEF Read

(* The question for the mailbox comes when every table said yes for the inbox. *)
LEMMA ContinueStep ==
  ASSUME RoomInv, NEW t \in Tasks, Continue(t)
  PROVE  RoomInv'
<1> DEFINE step == IF task[t].step = "member" THEN "inbox" ELSE "mail"
           n == [task[t] EXCEPT !.step = step, !.left = Tables]
<1>1. task[t] \in Task /\ step \in Questions /\ (step = "mail" => task[t].step = "inbox")
  BY DEF RoomInv, RoomTypeOK, Task, Questions, Continue, Answered
<1>2. task' = [task EXCEPT ![t] = n]
  BY DEF Continue, RoomInv, RoomTypeOK
<1>3. task[t].left = {} /\ task[t].yes = TRUE
  BY DEF Continue, Answered
<1> HIDE DEF step
<1>4. /\ n.do = task[t].do /\ n.kind = task[t].kind /\ n.step = step /\ n.sock = task[t].sock /\ n.todo = task[t].todo
      /\ n.barred = task[t].barred /\ n.left = Tables /\ n \in Task
  BY <1>1 DEF Task
<1> HIDE DEF n
<1>5. /\ task[t].sock \in Sockets /\ socket[task[t].sock].state # "none"
      /\ Agent(t) \in Users /\ Agent(t) = socket[task[t].sock].agent
  BY AskedFor DEF Continue, Answered
<1>6. ASSUME task[t].do = "cast", NEW y \in Tables, Passed(n, y)
      PROVE  Agent(t) \notin task[t].barred[y]
  <2>1. task[t].step = "inbox"
    BY <1>1, <1>4, <1>6 DEF Passed
  <2>2. Passed(task[t], y)
    BY <1>3, <2>1 DEF Passed
  <2> QED BY <1>6, <2>2 DEF RoomInv, BarredSince
<1>7. SocketsStay
  BY SameSockets DEF Continue
<1>8. OnlyTask(t) /\ TaskStays(t)
  BY <1>2, <1>4, <1>5, <1>6, <1>7, GoesOn
<1> QED BY <1>7, <1>8, Handled, StartedStays, PresenceStays DEF Continue

LEMMA AdmitStep ==
  ASSUME RoomInv, NEW t \in Tasks, Admit(t)
  PROVE  RoomInv'
<1> DEFINE s == task[t].sock
           opened == [socket EXCEPT ![s].state = "open"]
<1>1. s \in Sockets /\ socket[s].state # "none" /\ Agent(t) \in Users
  BY AskedFor DEF Admit, MayRead, Answered
<1>2. socket' = opened /\ Cast(t, opened)
  BY DEF Admit
<1>3. SocketsStay
  BY <1>1, <1>2, SocketMoves
<1>4. OnlyTask(t) /\ TaskStays(t)
  <2>1. \A q \in Sockets : socket'[q].state = "open" => socket'[q].state # "none"
    OBVIOUS
  <2>2. Cast(t, socket')
    BY <1>2
  <2> QED BY <2>1, <2>2, CastStays
<1>5. presence' \in [Users -> {"absent", "viewing", "drafting"}]
  BY <1>1, PresenceType DEF Admit
<1> QED BY <1>3, <1>4, <1>5, Handled, StartedStays DEF Admit

LEMMA TakeFrameStep ==
  ASSUME RoomInv, NEW t \in Tasks, TakeFrame(t)
  PROVE  RoomInv'
<1>1. Agent(t) \in Users
  BY AskedFor DEF TakeFrame, MayRead, Answered
<1>2. SocketsStay
  BY SameSockets DEF TakeFrame
<1>3. OnlyTask(t) /\ TaskStays(t)
  <2>1. \A q \in Sockets : socket[q].state = "open" => socket'[q].state # "none"
    BY DEF TakeFrame
  <2>2. Cast(t, socket)
    BY DEF TakeFrame
  <2> QED BY <2>1, <2>2, CastStays
<1>4. presence' \in [Users -> {"absent", "viewing", "drafting"}]
  <2>1. CASE task[t].kind = "opened"
    BY <1>1, <2>1, PresenceType DEF TakeFrame
  <2>2. CASE task[t].kind = "closed"
    BY <1>1, <2>2, PresenceType DEF TakeFrame
  <2>3. CASE task[t].kind = "typing"
    BY <2>3, PresenceStays DEF TakeFrame
  <2>4. task[t].kind \in {"opened", "closed", "typing"}
    BY DEF TakeFrame, RoomInv, FrameSays
  <2> QED BY <2>1, <2>2, <2>3, <2>4
<1> QED BY <1>2, <1>3, <1>4, Handled, StartedStays DEF TakeFrame

LEMMA SendStep ==
  ASSUME RoomInv, NEW t \in Tasks, Send(t)
  PROVE  RoomInv'
<1>1. Agent(t) \in Users
  BY AskedFor DEF Send, MayRead, Answered
<1>2. task[t].do = "cast" /\ \A x \in Tables : Passed(task[t], x)
  BY DEF Send, MayRead, Passed
<1>3. \A x \in Tables : Agent(t) \notin task[t].barred[x]
  BY <1>2 DEF RoomInv, BarredSince
<1>4. UNCHANGED leaked
  BY <1>3 DEF Send
<1>5. SocketsStay
  BY SameSockets DEF Send
<1>6. OnlyTask(t) /\ TaskStays(t)
  BY <1>5, NextSocketStays DEF Send
<1> QED BY <1>4, <1>5, <1>6, Handled, StartedStays, PresenceStays DEF Send

LEMMA RefuseStep ==
  ASSUME RoomInv, NEW t \in Tasks, Refuse(t)
  PROVE  RoomInv'
<1> DEFINE s == task[t].sock
<1>1. s \in Sockets /\ socket[s].state # "none" /\ Agent(t) \in Users
  BY AskedFor DEF Refuse, Answered
<1>2. SocketsStay
  <2> DEFINE st == IF task[t].do = "upgrade" THEN "closed"
                   ELSE IF socket[s].state = "open" THEN "closing" ELSE socket[s].state
  <2>1. st \in {"asking", "open", "closing", "closed"}
    BY <1>1 DEF RoomInv, RoomTypeOK, Socket
  <2>2. socket' = [socket EXCEPT ![s].state = st]
    BY DEF Refuse
  <2> HIDE DEF st
  <2> QED BY <1>1, <2>1, <2>2, SocketMoves
<1>3. OnlyTask(t) /\ TaskStays(t)
  BY <1>2, NextSocketStays, RestStays DEF Refuse
<1>4. presence' \in [Users -> {"absent", "viewing", "drafting"}]
  BY <1>1, PresenceType, PresenceStays DEF Refuse
<1> QED BY <1>2, <1>3, <1>4, Handled, StartedStays DEF Refuse

LEMMA AskFailsStep ==
  ASSUME RoomInv, NEW t \in Tasks, AskFails(t)
  PROVE  RoomInv'
<1> DEFINE s == task[t].sock
<1>1. s \in Sockets /\ socket[s].state # "none"
  BY AskedFor DEF AskFails
<1>2. SocketsStay
  <2> DEFINE st == CASE socket[s].state = "asking" -> "closed" [] socket[s].state = "open" -> "closing"
                     [] OTHER -> socket[s].state
  <2>1. st \in {"asking", "open", "closing", "closed"}
    BY <1>1 DEF RoomInv, RoomTypeOK, Socket
  <2>2. socket' = [socket EXCEPT ![s].state = st]
    BY DEF AskFails
  <2> HIDE DEF st
  <2> QED BY <1>1, <2>1, <2>2, SocketMoves
<1>3. OnlyTask(t) /\ TaskStays(t)
  BY <1>2, NextSocketStays, RestStays DEF AskFails
<1> QED BY <1>2, <1>3, Handled, StartedStays, PresenceStays DEF AskFails

LEMMA CloseSocketStep ==
  ASSUME RoomInv, NEW t \in Tasks, NEW s \in Sockets, CloseSocket(t, s)
  PROVE  RoomInv'
<1> DEFINE closed == [socket EXCEPT ![s].state = "closed"]
<1>1. socket[s].state # "none" /\ socket[s].agent \in Users
  BY DEF CloseSocket, RoomInv, SocketHasAgent
<1>2. socket' = closed /\ Cast(t, closed)
  BY DEF CloseSocket
<1>3. SocketsStay
  BY <1>1, <1>2, SocketMoves
<1>4. OnlyTask(t) /\ TaskStays(t)
  <2>1. \A q \in Sockets : socket'[q].state = "open" => socket'[q].state # "none"
    OBVIOUS
  <2>2. Cast(t, socket')
    BY <1>2
  <2> QED BY <2>1, <2>2, CastStays
<1>5. presence' \in [Users -> {"absent", "viewing", "drafting"}]
  BY <1>1, PresenceType DEF CloseSocket
<1> QED BY <1>3, <1>4, <1>5, Handled, StartedType DEF CloseSocket

LEMMA RoomBegins == RoomInit => RoomInv
<1> SUFFICES ASSUME RoomInit PROVE RoomInv
  OBVIOUS
<1>1. RoomTypeOK /\ NothingAfterRevocation
  BY RestIsATask DEF RoomInit, RoomTypeOK, NothingAfterRevocation, NoSocket, Socket
<1>2. \A s \in Sockets : SocketHasAgent(s)
  BY DEF RoomInit, SocketHasAgent, NoSocket
<1>3. \A t \in Tasks : task[t] = AtRest
  BY DEF RoomInit
<1> QED BY <1>1, <1>2, <1>3, RestIsATask DEF RoomInv, AsksForAgent, FrameSays, BarredSince, Passed

LEMMA RoomStep == RoomInv /\ [RoomNext]_<<roomVars, accessVars>> => RoomInv'
<1> SUFFICES ASSUME RoomInv, [RoomNext]_<<roomVars, accessVars>> PROVE RoomInv'
  OBVIOUS
<1>1. CASE ChangeRights
  BY <1>1, RightsStay
<1>2. ASSUME NEW t \in Tasks, NEW s \in Sockets, NEW u \in Users, Upgrade(t, s, u) PROVE RoomInv'
  BY <1>2, UpgradeStep
<1>3. ASSUME NEW t \in Tasks, NEW s \in Sockets, NEW k \in {"opened", "closed", "typing"}, Frame(t, s, k)
      PROVE  RoomInv'
  BY <1>3, FrameStep
<1>4. ASSUME NEW t \in Tasks, NEW s \in Sockets, Visit(t, s) \/ CloseSocket(t, s) PROVE RoomInv'
  BY <1>4, VisitStep, CloseSocketStep
<1>5. ASSUME NEW t \in Tasks,
             \/ \E x \in Tables : Read(t, x)
             \/ Append(t) \/ Continue(t) \/ Admit(t) \/ TakeFrame(t) \/ Send(t) \/ Refuse(t) \/ AskFails(t)
      PROVE  RoomInv'
  BY <1>5, ReadStep, AppendStep, ContinueStep, AdmitStep, TakeFrameStep, SendStep, RefuseStep, AskFailsStep
<1>6. CASE UNCHANGED <<roomVars, accessVars>>
  <2>1. UNCHANGED <<socket, presence, task, started, leaked>>
    BY <1>6 DEF roomVars
  <2>2. Denied' = Denied
    BY <1>6, SameDenied DEF accessVars
  <2>3. RoomTypeOK' /\ NothingAfterRevocation'
    BY <2>1 DEF RoomInv, RoomTypeOK, NothingAfterRevocation
  <2> QED BY <2>1, <2>2, <2>3 DEF RoomInv, SocketHasAgent, AsksForAgent, FrameSays, BarredSince, Agent
<1> QED BY <1>1, <1>2, <1>3, <1>4, <1>5, <1>6 DEF RoomNext

(* The sockets, the presence and the tasks keep their types, and a task that
   waits has a socket with an agent to ask for. *)
THEOREM RoomTypes == RoomSpec => []RoomTypeOK
<1>1. RoomInv => RoomTypeOK
  BY DEF RoomInv
<1> QED BY <1>1, RoomBegins, RoomStep, PTL DEF RoomSpec

(* No agent is sent an event that was made after he lost the membership, the
   grant, the team or the delegation he needs, unless he got it back
   meanwhile: the question for the inbox reads that very table after the event
   was made, and whatever the other tables say, it then says no. *)
THEOREM RevokedAgentsHearNothing == RoomSpec => []NothingAfterRevocation
<1>1. RoomInv => NothingAfterRevocation
  BY DEF RoomInv
<1> QED BY <1>1, RoomBegins, RoomStep, PTL DEF RoomSpec
=============================================================================
