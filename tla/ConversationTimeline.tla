------------------------- MODULE ConversationTimeline -------------------------
(***************************************************************************)
(* One chat conversation: the webhooks that bring its inbound messages     *)
(* (routeInbound), the Durable Object that owns its timeline               *)
(* (ConversationDO.appendMessage) and the summary of it in D1              *)
(* (syncProjection), which the inbox list shows.                           *)
(*                                                                         *)
(* Meta delivers an event again whenever a webhook was not answered with   *)
(* 200, and may do so anyway.  Outbound messages are appended by           *)
(* reconcileProviderSent, any number of times.                             *)
(*                                                                         *)
(* Each statement on D1 is one step.  The DO's SQL is synchronous: it runs *)
(* without interruption up to the await of syncProjection.                 *)
(*                                                                         *)
(* Left out: email (its archive claims, routes and projects on its own),   *)
(* messages without a provider id, the profile fetch, what the rules do,   *)
(* and the broadcast, which swallows its errors.                           *)
(***************************************************************************)
EXTENDS Integers, Sequences, Functions, FiniteSetsExt

CONSTANTS
  Events,      \* inbound messages, by their provider message id
  Replies,     \* outbound messages
  Deliveries,  \* invocations of the webhook, each with the id of the contact
               \* that it would create
  Senders,     \* invocations of reconcileProviderSent
  None,
  Faults       \* bound on the calls that fail

Messages == Events \cup Replies
Procs == Deliveries \cup Senders

ASSUME NameAssumption ==
  /\ Events \cap Replies = {}
  /\ Deliveries \cap Senders = {}
  /\ None \notin Procs \cup Messages
  /\ Faults \in Nat

VARIABLES
  (* D1 *)
  identity,   \* contact_identities: the sender's contact, None if there is none
  owner,      \* conversations.contact_id, None while there is no row
  claimed,    \* processed_messages
  ruleRuns,   \* ruleRuns[e], how often the rules ran for e
  summary,    \* messages_summary: the seqs that have a row
  count,      \* conversations.message_count
  preview,    \* the message behind last_message_preview and last_message_at
  (* the DO *)
  log,        \* the timeline; the seq of a message is its place
  author,     \* author[e], the contact that e was stored with
  (* the invocations *)
  pc, msg, contact, seq,
  (* what an observer knows *)
  answered,   \* the events that Meta got a 200 for
  appended,   \* the messages that the DO said it has
  faults

people == <<identity, owner>>
routing == <<claimed, ruleRuns>>
listing == <<summary, count, preview>>
timeline == <<log, author>>
locals == <<pc, msg, contact, seq>>
seenOutside == <<answered, appended>>
vars == <<people, routing, listing, timeline, locals, seenOutside, faults>>

Labels == {"idle", "lookup", "identify", "converse", "claim", "rules",
           "append", "project", "reply"}

TypeOK ==
  /\ identity \in Deliveries \cup {None}
  /\ owner \in Deliveries \cup {None}
  /\ claimed \in SUBSET Events
  /\ ruleRuns \in [Events -> 0 .. 2]
  /\ summary \in SUBSET (DOMAIN log)
  /\ count \in 0 .. Len(log)
  /\ preview \in Messages \cup {None}
  /\ log \in Seq(Messages)
  /\ author \in [Events -> Deliveries \cup {None}]
  /\ pc \in [Procs -> Labels]
  /\ msg \in [Procs -> Messages \cup {None}]
  /\ contact \in [Procs -> Deliveries \cup {None}]
  /\ seq \in [Procs -> 0 .. Len(log)]
  /\ answered \in SUBSET Events
  /\ appended \in SUBSET Messages
  /\ faults \in 0 .. Faults

Init ==
  /\ identity = None
  /\ owner = None
  /\ claimed = {}
  /\ ruleRuns = [e \in Events |-> 0]
  /\ summary = {}
  /\ count = 0
  /\ preview = None
  /\ log = <<>>
  /\ author = [e \in Events |-> None]
  /\ pc = [p \in Procs |-> "idle"]
  /\ msg = [p \in Procs |-> None]
  /\ contact = [p \in Procs |-> None]
  /\ seq = [p \in Procs |-> 0]
  /\ answered = {}
  /\ appended = {}
  /\ faults = 0

-----------------------------------------------------------------------------
Goto(p, label) == pc' = [pc EXCEPT ![p] = label]

Exit(p) ==
  /\ Goto(p, "idle")
  /\ msg' = [msg EXCEPT ![p] = None]
  /\ contact' = [contact EXCEPT ![p] = None]
  /\ seq' = [seq EXCEPT ![p] = 0]

(* The webhook's 200. *)
Answer(d) ==
  /\ Exit(d)
  /\ answered' = answered \cup {msg[d]}

-----------------------------------------------------------------------------
(* routeInbound.                                                            *)

Deliver(d, e) ==
  /\ pc[d] = "idle"
  /\ Goto(d, "lookup")
  /\ msg' = [msg EXCEPT ![d] = e]
  /\ UNCHANGED <<contact, seq, people, routing, listing, timeline, seenOutside, faults>>

(* getOrCreateContact: the identity is read, and if there is none a contact is
   inserted and then an identity for it, which a concurrent one may beat: the
   new contact is used all the same. *)
Lookup(d) ==
  /\ pc[d] = "lookup"
  /\ Goto(d, IF identity = None THEN "identify" ELSE "converse")
  /\ contact' = [contact EXCEPT ![d] = identity]
  /\ UNCHANGED <<msg, seq, people, routing, listing, timeline, seenOutside, faults>>

Identify(d) ==
  /\ pc[d] = "identify"
  /\ identity' = IF identity = None THEN d ELSE identity
  /\ contact' = [contact EXCEPT ![d] = d]
  /\ Goto(d, "converse")
  /\ UNCHANGED <<owner, msg, seq, routing, listing, timeline, seenOutside, faults>>

Converse(d) ==
  /\ pc[d] = "converse"
  /\ owner' = IF owner = None THEN contact[d] ELSE owner
  /\ Goto(d, "claim")
  /\ UNCHANGED <<identity, msg, contact, seq>>
  /\ UNCHANGED <<routing, listing, timeline, seenOutside, faults>>

(* Faulty variant: the claim's conflict is not looked at. *)
ClaimIgnored(d) ==
  /\ pc[d] = "claim"
  /\ claimed' = claimed \cup {msg[d]}
  /\ Goto(d, "rules")
  /\ UNCHANGED <<ruleRuns, msg, contact, seq, people, listing, timeline, seenOutside, faults>>

(* INSERT ... ON CONFLICT DO NOTHING; a conflict ends the webhook with 200. *)
Claim(d) ==
  /\ pc[d] = "claim"
  /\ \/ /\ msg[d] \in claimed
        /\ Answer(d)
        /\ UNCHANGED <<claimed, appended>>
     \/ /\ msg[d] \notin claimed
        /\ claimed' = claimed \cup {msg[d]}
        /\ Goto(d, "rules")
        /\ UNCHANGED <<msg, contact, seq, seenOutside>>
  /\ UNCHANGED <<ruleRuns, people, listing, timeline, faults>>

(* evaluateRules and the update of the conversation's route. *)
Rules(d) ==
  /\ pc[d] = "rules"
  /\ ruleRuns' = [ruleRuns EXCEPT ![msg[d]] = IF @ = 0 THEN 1 ELSE 2]
  /\ Goto(d, "append")
  /\ UNCHANGED <<claimed, msg, contact, seq, people, listing, timeline, seenOutside, faults>>

-----------------------------------------------------------------------------
(* reconcileProviderSent reaches the DO.                                    *)

Send(s, m) ==
  /\ pc[s] = "idle"
  /\ Goto(s, "append")
  /\ msg' = [msg EXCEPT ![s] = m]
  /\ UNCHANGED <<contact, seq, people, routing, listing, timeline, seenOutside, faults>>

-----------------------------------------------------------------------------
(* ConversationDO.appendMessage.                                            *)

(* SELECT ... WHERE id = ? OR provider_message_id = ? *)
Stored(m) == m \in Range(log)

SeqOf(m) == CHOOSE i \in DOMAIN log : log[i] = m

AppendNew(p) ==
  /\ pc[p] = "append" /\ ~ Stored(msg[p])
  /\ log' = Append(log, msg[p])
  /\ author' = IF msg[p] \in Events THEN [author EXCEPT ![msg[p]] = contact[p]]
                                    ELSE author
  /\ seq' = [seq EXCEPT ![p] = Len(log) + 1]
  /\ Goto(p, "project")
  /\ UNCHANGED <<msg, contact, people, routing, listing, seenOutside, faults>>

(* Faulty variant: a duplicate is answered without repairing the summary. *)
AppendAgainOnly(p) ==
  /\ pc[p] = "append" /\ Stored(msg[p])
  /\ seq' = [seq EXCEPT ![p] = SeqOf(msg[p])]
  /\ Goto(p, "reply")
  /\ UNCHANGED <<msg, contact, people, routing, listing, timeline, seenOutside, faults>>

(* A duplicate is projected again with the seq it has. *)
AppendAgain(p) ==
  /\ pc[p] = "append" /\ Stored(msg[p])
  /\ seq' = [seq EXCEPT ![p] = SeqOf(msg[p])]
  /\ Goto(p, "project")
  /\ UNCHANGED <<msg, contact, people, routing, listing, timeline, seenOutside, faults>>

(* Faulty variant: the summary takes whatever comes last. *)
NewestAlways(n) == TRUE

(* WHERE message_count <= seq *)
Newest(n) == count <= n

(* syncProjection, one D1 batch. *)
Project(p) ==
  /\ pc[p] = "project"
  /\ summary' = summary \cup {seq[p]}
  /\ IF Newest(seq[p])
     THEN count' = seq[p] /\ preview' = msg[p]
     ELSE UNCHANGED <<count, preview>>
  /\ Goto(p, "reply")
  /\ UNCHANGED <<msg, contact, seq, people, routing, timeline, seenOutside, faults>>

Reply(p) ==
  /\ pc[p] = "reply"
  /\ appended' = appended \cup {msg[p]}
  /\ IF p \in Deliveries THEN Answer(p) ELSE Exit(p) /\ UNCHANGED answered
  /\ UNCHANGED <<people, routing, listing, timeline, faults>>

-----------------------------------------------------------------------------
(* A call to D1 or to the DO fails and the exception ends the invocation
   without a 200, or the invocation dies. *)
Fault(p) ==
  /\ pc[p] # "idle" /\ faults < Faults
  /\ faults' = faults + 1
  /\ Exit(p)
  /\ UNCHANGED <<people, routing, listing, timeline, seenOutside>>

Route(d) ==
  Lookup(d) \/ Identify(d) \/ Converse(d) \/ Claim(d) \/ Rules(d)

Store(p) == AppendNew(p) \/ AppendAgain(p) \/ Project(p) \/ Reply(p)

Next ==
  \/ \E d \in Deliveries, e \in Events : Deliver(d, e)
  \/ \E d \in Deliveries : Route(d)
  \/ \E s \in Senders, m \in Replies : Send(s, m)
  \/ \E p \in Procs : Store(p) \/ Fault(p)

Spec == Init /\ [][Next]_vars

-----------------------------------------------------------------------------
(* Properties.                                                              *)

(* A message is in the timeline once, however often it is delivered, sent and
   retried. *)
StoredOnce == \A i, j \in DOMAIN log : log[i] = log[j] => i = j

(* A repeated or concurrent delivery does not run the rules again. *)
RulesRunOnce == \A e \in Events : ruleRuns[e] <= 1
HandledOnce == StoredOnce /\ RulesRunOnce

(* The inbox list shows the newest message that was projected, in whatever
   order the projections reach D1. *)
ListShowsNewest ==
  /\ count = Max(summary \cup {0})
  /\ preview = IF count = 0 THEN None ELSE log[count]

(* A message that the DO acknowledged is in the list's summary too: an append
   that is repeated repairs what a failed projection left out. *)
AcknowledgedIsListed ==
  \A m \in appended : \E i \in summary : log[i] = m

(* A duplicate event was already routed: what Meta got a 200 for is in the
   timeline, or about to be. *)
InHand(e) ==
  \E d \in Deliveries : msg[d] = e /\ pc[d] \in {"rules", "append"}
AnsweredIsStored == \A e \in answered : Stored(e) \/ InHand(e)

(* What the code does not keep: the conversation belongs to one contact, the
   author of its messages. *)
OneContact == \A e \in Events : author[e] \in {None, owner}
===============================================================================
