------------------------------- MODULE Mailboxes -------------------------------
(***************************************************************************)
(* Email domains and logical mailboxes under concurrent administration     *)
(* (mailboxes.ts, with the keys and the trigger of migrations 0008 and     *)
(* 0013), and what email-transport.ts answers of mail to a mailbox.        *)
(*                                                                         *)
(* Every statement or batch is a step; a request may die between two.      *)
(* There is one workspace and one name for a domain: a row that is deleted *)
(* and created again is another one, with a new serial.  No code deletes a *)
(* mailbox, so that its address stands for it.                             *)
(*                                                                         *)
(* Left out: the lookups of DNS, whose evidence is chosen freely, who owns *)
(* and reads a mailbox (InboxAccess), the inbox of a shared one, the       *)
(* audit, and what becomes of a channel once it is linked                  *)
(* (ChannelRouting).                                                       *)
(***************************************************************************)
EXTENDS Naturals

CONSTANTS
  Operators,    \* requests of workspace owners
  Holders,      \* the addresses there may be: of members, or shared
  MaxSerial,    \* bound on the domains that are made
  MaxDuties     \* bound on the requests

ASSUME MailboxAssumption == {MaxSerial, MaxDuties} \subseteq Nat

VARIABLES
  domain,     \* email_domains: serial (0 for no row), states, evidence
  boxes,      \* mailboxes: address, domain, receives (is_enabled), sends (is_send_enabled),
              \* linked (an email channel with a default inbox has its address)
  duty,       \* a request: its kind, its stage, its input and what it read: the domain's
              \* serial, the states it means, or whether the domain is ready for it
  duties, serials

mailboxVars == <<domain, boxes, duty, duties, serials>>

DomainStates == {"pending", "ready", "suspended"}
NoDomain == [serial |-> 0, in |-> "pending", out |-> "pending", routing |-> FALSE, sending |-> FALSE]
Unbusy == [op |-> "none", at |-> "idle", saw |-> 0, who |-> {}, in |-> "keep", out |-> "keep",
           meant |-> <<>>, ready |-> TRUE]

NewBox(p, serial, linked) ==
  [address |-> p, domain |-> serial, receives |-> FALSE, sends |-> FALSE, linked |-> linked]

(* A mailbox that is older than the trigger of migration 0013 has no
   transport. *)
MailboxesInit ==
  /\ \/ domain = NoDomain /\ boxes = {} /\ serials = 0
     \/ /\ domain = [NoDomain EXCEPT !.serial = 1] /\ serials = 1
        /\ boxes \in {{}} \cup {{NewBox(p, 1, FALSE)} : p \in Holders}
  /\ duty = [o \in Operators |-> Unbusy]
  /\ duties = 0

MailboxesTypeOK ==
  /\ domain \in [serial : 0 .. MaxSerial, in : DomainStates, out : DomainStates, routing : BOOLEAN, sending : BOOLEAN]
  /\ boxes \subseteq [address : Holders, domain : 1 .. MaxSerial,
                     receives : BOOLEAN, sends : BOOLEAN, linked : BOOLEAN]
  /\ \A o \in Operators : duty[o].at \in {"idle", "check", "repair", "write"}

Busy(o, op, stage) == duty[o].op = op /\ duty[o].at = stage
Rest(o) == duty' = [duty EXCEPT ![o] = Unbusy]
Later(o, stage) == duty' = [duty EXCEPT ![o].at = stage]

Begin(o, request) ==
  /\ duty[o] = Unbusy /\ duties < MaxDuties
  /\ duties' = duties + 1
  /\ duty' = [duty EXCEPT ![o] = [f \in DOMAIN Unbusy |-> IF f \in DOMAIN request THEN request[f] ELSE Unbusy[f]]]
  /\ UNCHANGED <<domain, boxes, serials>>

-----------------------------------------------------------------------------
(* Domains.                                                                 *)

(* Looked up, then inserted; the name is unique. *)
BeginDomain(o) == domain.serial = 0 /\ Begin(o, [op |-> "domain", at |-> "write"])

CreateDomain(o) ==
  /\ Busy(o, "domain", "write")
  /\ IF domain.serial = 0 /\ serials < MaxSerial
     THEN domain' = [NoDomain EXCEPT !.serial = serials + 1] /\ serials' = serials + 1
     ELSE UNCHANGED <<domain, serials>>
  /\ Rest(o)
  /\ UNCHANGED <<boxes, duties>>

(* DNS is asked before anything is written.  What is not proved and confirmed
   is no longer ready; mailboxes stay as they are. *)
BeginVerify(o) == domain.serial # 0 /\ Begin(o, [op |-> "verify", at |-> "write", saw |-> domain.serial])

Verify(o) ==
  /\ Busy(o, "verify", "write")
  /\ \E routing, sending \in BOOLEAN :
       domain' = IF domain.serial # duty[o].saw THEN domain
                 ELSE [domain EXCEPT !.routing = routing, !.sending = sending,
                                     !.in = IF @ = "ready" /\ ~routing THEN "pending" ELSE @,
                                     !.out = IF @ = "ready" /\ ~sending THEN "pending" ELSE @]
  /\ Rest(o)
  /\ UNCHANGED <<boxes, duties, serials>>

(* Evidence is fresh for fifteen minutes. *)
EvidenceAges ==
  /\ domain.routing \/ domain.sending
  /\ domain' = [domain EXCEPT !.routing = FALSE, !.sending = FALSE]
  /\ UNCHANGED <<boxes, duty, duties, serials>>

BeginState(o, in, out) ==
  /\ domain.serial # 0
  /\ in = "ready" => domain.routing
  /\ out = "ready" => domain.sending
  /\ Begin(o, [op |-> "state", at |-> "write", saw |-> domain.serial, in |-> in, out |-> out,
               meant |-> <<IF in = "keep" THEN domain.in ELSE in, IF out = "keep" THEN domain.out ELSE out>>])

(* One batch: the states that are named, and the capabilities of all its
   mailboxes by the states named or read. *)
SetState(o) ==
  LET d == duty[o]
      suspended == \E i \in 1 .. 2 : d.meant[i] = "suspended" IN
  /\ Busy(o, "state", "write")
  /\ IF domain.serial = d.saw
     THEN /\ domain' = [domain EXCEPT !.in = IF d.in = "keep" THEN @ ELSE d.in,
                                      !.out = IF d.out = "keep" THEN @ ELSE d.out]
          /\ boxes' = {[b EXCEPT !.receives = @ /\ ~suspended /\ d.meant[1] = "ready",
                                 !.sends = @ /\ ~suspended /\ d.meant[2] = "ready"] : b \in boxes}
     ELSE UNCHANGED <<domain, boxes>>
  /\ Rest(o)
  /\ UNCHANGED <<duties, serials>>

BeginDelete(o) ==
  /\ domain.serial # 0 /\ boxes = {}
  /\ Begin(o, [op |-> "delete", at |-> "write", saw |-> domain.serial])

(* Faulty: the check before it is enough. *)
Deletable == TRUE

(* The foreign key of the mailboxes. *)
Unreferenced == \A b \in boxes : b.domain # domain.serial

DeleteDomain(o) ==
  /\ Busy(o, "delete", "write")
  /\ domain' = IF domain.serial = duty[o].saw /\ Unreferenced THEN NoDomain ELSE domain
  /\ Rest(o)
  /\ UNCHANGED <<boxes, duties, serials>>

-----------------------------------------------------------------------------
(* Mailboxes.                                                               *)

Taken == {b.address : b \in boxes}

(* createPrivateMailbox and createSharedMailbox make one mailbox;
   previewBulkPrivateMailboxes and
   commitBulkPrivateMailboxes several, of which none may collide. *)
BeginMailbox(o, p) == domain.serial # 0 /\ Begin(o, [op |-> "mailbox", at |-> "check", saw |-> domain.serial, who |-> {p}])
BeginBulk(o, S) ==
  /\ domain.serial # 0 /\ S \cap Taken = {}
  /\ Begin(o, [op |-> "mailbox", at |-> "write", saw |-> domain.serial, who |-> S])

AddressUnused(o) ==
  /\ Busy(o, "mailbox", "check")
  /\ IF duty[o].who \cap Taken = {} THEN Later(o, "write") ELSE Rest(o)
  /\ UNCHANGED <<domain, boxes, duties, serials>>

(* The addresses are unique and the trigger requires the domain. *)
Insertable(S, saw) == S \cap Taken = {} /\ domain.serial = saw

(* One batch: all of them or none.  The trigger makes the transport. *)
CreateMailboxes(o) ==
  LET d == duty[o] IN
  /\ Busy(o, "mailbox", "write")
  /\ boxes' = IF Insertable(d.who, d.saw)
              THEN boxes \cup {NewBox(p, d.saw, TRUE) : p \in d.who} ELSE boxes
  /\ Rest(o)
  /\ UNCHANGED <<domain, duties, serials>>

(* updateMailboxState reads the mailbox and its domain; what it read decides,
   after the transport is repaired, what may be written. *)
BeginFlags(o, b, receives, sends) ==
  /\ "on" \in {receives, sends} => "suspended" \notin {domain.in, domain.out}
  /\ Begin(o, [op |-> "flags", at |-> "repair", who |-> {b.address}, in |-> receives, out |-> sends,
               ready |-> (receives = "on" => domain.in = "ready") /\ (sends = "on" => domain.out = "ready")])

(* repairMailboxTransport: of a mailbox that is off. *)
Repaired(b) == [b EXCEPT !.linked = @ \/ ~(b.receives \/ b.sends)]

RepairTransport(o) ==
  LET d == duty[o] IN
  /\ Busy(o, "flags", "repair")
  /\ boxes' = {IF b.address \in d.who THEN Repaired(b) ELSE b : b \in boxes}
  /\ IF d.ready THEN Later(o, "write") ELSE Rest(o)
  /\ UNCHANGED <<domain, duties, serials>>

SetFlags(o) ==
  LET d == duty[o] IN
  /\ Busy(o, "flags", "write")
  /\ boxes' = {IF b.address \notin d.who THEN b
               ELSE [b EXCEPT !.receives = IF d.in = "keep" THEN @ ELSE d.in = "on",
                              !.sends = IF d.out = "keep" THEN @ ELSE d.out = "on"] : b \in boxes}
  /\ Rest(o)
  /\ UNCHANGED <<domain, duties, serials>>

DutyDies(o) ==
  /\ duty[o] # Unbusy
  /\ Rest(o)
  /\ UNCHANGED <<domain, boxes, duties, serials>>

MailboxesNext ==
  \/ \E o \in Operators :
       \/ BeginDomain(o) \/ CreateDomain(o) \/ BeginVerify(o) \/ Verify(o) \/ SetState(o)
       \/ BeginDelete(o) \/ DeleteDomain(o) \/ AddressUnused(o) \/ CreateMailboxes(o)
       \/ RepairTransport(o) \/ SetFlags(o) \/ DutyDies(o)
       \/ \E p \in Holders : BeginMailbox(o, p)
       \/ \E S \in SUBSET Holders : S # {} /\ BeginBulk(o, S)
       \/ \E in, out \in DomainStates \cup {"keep"} : BeginState(o, in, out)
       \/ \E b \in boxes, r, s \in {"on", "off", "keep"} : BeginFlags(o, b, r, s)
  \/ EvidenceAges

MailboxesSpec == MailboxesInit /\ [][MailboxesNext]_mailboxVars

-----------------------------------------------------------------------------
(* What resolveInboundEmailRoute answers of mail to mailbox b. *)
Resolution(b) ==
  IF ~b.receives \/ domain.in # "ready" \/ domain.out = "suspended" THEN "unavailable"
  ELSE IF b.linked THEN "route" ELSE "not provisioned"

(* Whether authorizeEmailOutbound lets a conversation of mailbox b be
   answered, by someone who may read it. *)
MaySend(b) == /\ b.linked /\ b.receives /\ b.sends
              /\ domain.out = "ready" /\ domain.in # "suspended"

(* Mailboxes can be served: none is left without its domain, although a
   domain is deleted after a check that it has none while one is being made;
   and one that is switched on has its transport, an old one too, so that no
   mail is refused for want of it, in or out. *)
MailboxIsServed ==
  \A b \in boxes :
    /\ b.domain = domain.serial
    /\ Resolution(b) # "not provisioned"
    /\ b.receives /\ b.sends /\ domain.out = "ready" /\ domain.in # "suspended" => MaySend(b)

(* What the code does not keep: a mailbox that was checked before its domain
   was suspended is enabled after it. *)
SuspendedIsOff == "suspended" \in {domain.in, domain.out} => \A b \in boxes : ~b.receives /\ ~b.sends
=============================================================================
