--------------------------- MODULE OutboundDelivery ---------------------------
(***************************************************************************)
(* Outbound delivery of msgflow: the durable intent state machine of       *)
(* sendOutbound, the send-later queue, and the cron invocation that sweeps *)
(* stale dispatches, reconciles provider acknowledgements and delivers due *)
(* rows.                                                                   *)
(*                                                                         *)
(* Every Worker invocation is a process.  A D1 statement is one atomic     *)
(* step; whatever the code awaits is a point where other invocations run,  *)
(* so the value read by one statement may be stale at the next.            *)
(*                                                                         *)
(* Times are relative to the present: a stored timestamp is the number of  *)
(* ticks that have passed since it, capped where the code can no longer    *)
(* tell two values apart.  LeaseTicks ticks are the 300000 ms of           *)
(* outbound.ts, email-maintenance.ts and scheduled-claim.ts.               *)
(*                                                                         *)
(* Left out: the message's content (a command is "immediate" or            *)
(* "scheduled", which is how humanAgent tells them apart), the attempts    *)
(* column of the intent (written, never read for a decision), the email    *)
(* archive, which reconcileProviderSent fills where the append of this     *)
(* module stands, and the LIMIT 20 of the maintenance query, which no set  *)
(* of fewer than twenty messages reaches.                                  *)
(***************************************************************************)
EXTENDS Naturals

CONSTANTS
  Messages,      \* client message ids, also ids of intents and timeline rows
  EmailMessages, \* the messages of email conversations
  LossyMessages, \* the messages of Facebook conversations, see PartRejected
  RuleMessages,  \* the ids that a canned-reply rule draws, unknown to clients
  ApiCalls,      \* invocations of POST /conversations/:id/messages
  CronRuns,      \* invocations of the cron trigger
  Nobody,        \* claim_token IS NULL
  Parts,         \* 1 .. the largest number of provider requests of one send
  PartCount,     \* provider requests per message: the text, then each image
  LeaseTicks,    \* SCHEDULED_CLAIM_LEASE_MS, and the age of a stale dispatch
  MaxLife,       \* how many ticks an invocation may live
  MaxAttempts,   \* SCHEDULED_MAX_ATTEMPTS
  CrashBudget    \* bound on the invocations that die before they return

Procs == ApiCalls \cup CronRuns

ASSUME ProcAssumption ==
  /\ ApiCalls \cap CronRuns = {}
  /\ Nobody \notin Procs
  /\ Messages # {}
  /\ RuleMessages \cup EmailMessages \cup LossyMessages \subseteq Messages

ASSUME BoundAssumption ==
  /\ LeaseTicks \in Nat \ {0}
  /\ MaxLife \in Nat
  /\ MaxAttempts \in Nat \ {0}
  /\ CrashBudget \in Nat

ASSUME PartAssumption ==
  /\ Parts \subseteq Nat \ {0}
  /\ 1 \in Parts
  /\ \A k \in Parts : 1 .. k \subseteq Parts
  /\ PartCount \in [Messages -> Parts]

VARIABLES
  (* D1: outbound_intents *)
  status,     \* status[m], "none" while there is no row
  command,    \* command[m], what command_json binds the id to
  age,        \* age[m], ticks since updated_at
  (* D1: scheduled_messages *)
  queued,     \* the messages that have a row
  holder,     \* holder[m], the invocation whose claim_token the row carries
  claimAge,   \* claimAge[m], ticks since claimed_at
  tries,      \* tries[m], the attempts column
  sinceDue,   \* sinceDue[m], 0 before send_at, k from k-1 ticks after it
  (* the conversation Durable Objects and the provider *)
  timeline,   \* the messages the conversation's DO has appended
  delivered,  \* delivered[m][k], times the provider took request k (0, 1, 2+)
  (* the invocations *)
  pc, caller, msg, seen, part, life,
  work,       \* the rows a cron invocation has selected and not yet handled
  snap,       \* snap[p][m], the attempts column in that selection
  (* what an observer knows *)
  confirmed,  \* the messages some client was told were sent
  failures,   \* failures[m], definitive failures settled on m's latest row
  crashes

intentVars == <<status, command, age>>
rowVars == <<queued, holder, claimAge, tries, sinceDue, failures>>
procVars == <<pc, caller, msg, seen, part, life, work, snap>>
vars == <<intentVars, rowVars, timeline, delivered, procVars, confirmed, crashes>>

Strict == Messages \ LossyMessages

Statuses == {"none", "pending", "queued", "sending", "provider_sent",
             "accepted", "failed", "uncertain"}
Claimable == {"pending", "queued", "failed"}
Commands == {"none", "immediate", "scheduled"}
Labels == {"idle", "enqueue", "addRow", "insert", "read", "fence", "claim",
           "resolve", "cross", "reject", "doubt", "record", "lookup",
           "append", "accept", "unaccept", "sweep", "select", "reconcile",
           "collect", "lease", "drop", "backoff"}
Callers == {"send", "schedule", "sweep", "deliver"}

AnyMessage == CHOOSE m \in Messages : TRUE

AgeCap == LeaseTicks + 1
ClaimCap == MaxLife + LeaseTicks + 1
DueCap == MaxLife + 1
Capped(n, cap) == IF n < cap THEN n + 1 ELSE cap

IntentTypeOK ==
  /\ status \in [Messages -> Statuses]
  /\ command \in [Messages -> Commands]
  /\ age \in [Messages -> 0 .. AgeCap]

RowTypeOK ==
  /\ queued \in SUBSET Messages
  /\ holder \in [Messages -> Procs \cup {Nobody}]
  /\ claimAge \in [Messages -> 0 .. ClaimCap]
  /\ tries \in [Messages -> 0 .. MaxAttempts]
  /\ sinceDue \in [Messages -> 0 .. DueCap]
  /\ failures \in [Messages -> 0 .. MaxAttempts]

ProcTypeOK ==
  /\ pc \in [Procs -> Labels]
  /\ caller \in [Procs -> Callers]
  /\ msg \in [Procs -> Messages]
  /\ seen \in [Procs -> Statuses]
  /\ part \in [Procs -> Parts]
  /\ life \in [Procs -> 0 .. MaxLife]
  /\ work \in [Procs -> SUBSET Messages]
  /\ snap \in [Procs -> [Messages -> 0 .. MaxAttempts]]

WorldTypeOK ==
  /\ timeline \in SUBSET Messages
  /\ delivered \in [Messages -> [Parts -> 0 .. 2]]
  /\ confirmed \in SUBSET Messages
  /\ crashes \in 0 .. CrashBudget

TypeOK == IntentTypeOK /\ RowTypeOK /\ ProcTypeOK /\ WorldTypeOK

Init ==
  /\ status = [m \in Messages |-> "none"]
  /\ command = [m \in Messages |-> "none"]
  /\ age = [m \in Messages |-> 0]
  /\ queued = {}
  /\ holder = [m \in Messages |-> Nobody]
  /\ claimAge = [m \in Messages |-> 0]
  /\ tries = [m \in Messages |-> 0]
  /\ sinceDue = [m \in Messages |-> 0]
  /\ timeline = {}
  /\ delivered = [m \in Messages |-> [k \in Parts |-> 0]]
  /\ pc = [p \in Procs |-> "idle"]
  /\ caller = [p \in Procs |-> "send"]
  /\ msg = [p \in Procs |-> AnyMessage]
  /\ seen = [p \in Procs |-> "none"]
  /\ part = [p \in Procs |-> 1]
  /\ life = [p \in Procs |-> 0]
  /\ work = [p \in Procs |-> {}]
  /\ snap = [p \in Procs |-> [m \in Messages |-> 0]]
  /\ confirmed = {}
  /\ failures = [m \in Messages |-> 0]
  /\ crashes = 0

-----------------------------------------------------------------------------
(* Steps that the actions share. *)

Goto(p, label) == pc' = [pc EXCEPT ![p] = label]

(* An UPDATE of outbound_intents.status, which also sets updated_at. *)
WriteStatus(m, s) ==
  /\ status' = [status EXCEPT ![m] = s]
  /\ age' = [age EXCEPT ![m] = 0]
  /\ UNCHANGED command

(* humanAgent is true in the API's immediate send and false everywhere else,
   and outboundCommand is part of the binding. *)
CommandOf(p) == IF caller[p] = "send" THEN "immediate" ELSE "scheduled"

(* The invocation goes on with its next statement. *)
Proceed(p, label) ==
  /\ Goto(p, label)
  /\ UNCHANGED <<caller, msg, seen, part, life, work, snap, confirmed>>

(* The invocation is over, and its locals with it. *)
Exit(p) ==
  /\ Goto(p, "idle")
  /\ caller' = [caller EXCEPT ![p] = "send"]
  /\ msg' = [msg EXCEPT ![p] = AnyMessage]
  /\ seen' = [seen EXCEPT ![p] = "none"]
  /\ part' = [part EXCEPT ![p] = 1]
  /\ life' = [life EXCEPT ![p] = 0]
  /\ work' = [work EXCEPT ![p] = {}]
  /\ snap' = [snap EXCEPT ![p] = [m \in Messages |-> 0]]

(* sendOutbound (or reconcileProviderSent) returns to its caller: the API
   answers the client, the sweep takes its next intent, the delivery loop
   settles the row. *)
Return(p, outcome) ==
  \/ /\ caller[p] \in {"send", "schedule"}
     /\ Exit(p)
     /\ confirmed' = IF outcome = "ok" THEN confirmed \cup {msg[p]} ELSE confirmed
  \/ /\ caller[p] = "sweep"
     /\ Proceed(p, "reconcile")
  \/ /\ caller[p] = "deliver"
     /\ Proceed(p, IF outcome = "retryable" THEN "backoff" ELSE "drop")

Begin(p, m, label, why) ==
  /\ pc[p] = "idle"
  /\ Goto(p, label)
  /\ caller' = [caller EXCEPT ![p] = why]
  /\ msg' = [msg EXCEPT ![p] = m]
  /\ life' = [life EXCEPT ![p] = 0]
  /\ UNCHANGED <<seen, part, work, snap>>

-----------------------------------------------------------------------------
(* POST /conversations/:id/messages.  A client may repeat a call with the   *)
(* same clientMessageId at any time, in particular after a lost answer.     *)

ApiSend(p, m) ==
  /\ Begin(p, m, "insert", "send")
  /\ UNCHANGED <<intentVars, rowVars, timeline, delivered, confirmed, crashes>>

ApiSchedule(p, m) ==
  /\ Begin(p, m, "enqueue", "schedule")
  /\ UNCHANGED <<intentVars, rowVars, timeline, delivered, confirmed, crashes>>

(* scheduleOutbound: the intent first, in a batch of its own ... *)
Enqueue(p) ==
  LET m == msg[p] IN
  /\ pc[p] = "enqueue"
  /\ IF status[m] = "none"
     THEN /\ status' = [status EXCEPT ![m] = "queued"]
          /\ command' = [command EXCEPT ![m] = "scheduled"]
          /\ age' = [age EXCEPT ![m] = 0]
     ELSE UNCHANGED intentVars
  /\ IF command'[m] = "scheduled" THEN Proceed(p, "addRow")
                                  ELSE Exit(p) /\ UNCHANGED confirmed
  /\ UNCHANGED <<rowVars, timeline, delivered, crashes>>

NewRow(m, due) ==
  /\ queued' = queued \cup {m}
  /\ holder' = [holder EXCEPT ![m] = Nobody]
  /\ claimAge' = [claimAge EXCEPT ![m] = 0]
  /\ tries' = [tries EXCEPT ![m] = 0]
  /\ sinceDue' = [sinceDue EXCEPT ![m] = due]
  /\ failures' = [failures EXCEPT ![m] = 0]

(* ... then the row, unless one is there (same send_at, or an error). *)
AddRow(p) ==
  /\ pc[p] = "addRow"
  /\ IF msg[p] \in queued THEN UNCHANGED rowVars ELSE NewRow(msg[p], 0)
  /\ Exit(p)
  /\ UNCHANGED <<intentVars, timeline, delivered, confirmed, crashes>>

(* A send_canned_reply rule inserts a row without an intent, due at once. *)
CannedReply(m) ==
  /\ m \in RuleMessages \ queued
  /\ status[m] = "none"
  /\ \A p \in Procs : pc[p] # "idle" => msg[p] # m
  /\ NewRow(m, 1)
  /\ UNCHANGED <<intentVars, timeline, delivered, procVars, confirmed, crashes>>

-----------------------------------------------------------------------------
(* sendOutbound, statement by statement.                                    *)

(* resolveEmailReplyMetadata refuses the sender: nothing is written. *)
Deny(p) ==
  /\ pc[p] \in {"insert", "enqueue"} /\ msg[p] \in EmailMessages
  /\ Return(p, "final")
  /\ UNCHANGED <<intentVars, rowVars, timeline, delivered, crashes>>

(* Faulty variant: any command is taken to be the stored one. *)
MatchesAlways(stored, p) == TRUE

(* intentMatchesCommand *)
Matches(stored, p) == stored = CommandOf(p)

(* INSERT OR IGNORE, then the check that the id is bound to this command
   (bound columns never change, so the two statements are one step).  An
   email is also refused if it was stored for another sending identity. *)
InsertIntent(p) ==
  LET m == msg[p] IN
  /\ pc[p] = "insert"
  /\ IF status[m] = "none"
     THEN /\ status' = [status EXCEPT ![m] = "pending"]
          /\ command' = [command EXCEPT ![m] = CommandOf(p)]
          /\ age' = [age EXCEPT ![m] = 0]
     ELSE UNCHANGED intentVars
  /\ \/ Matches(command'[m], p) /\ Proceed(p, "read")
     \/ ~ Matches(command'[m], p) /\ Return(p, "final")
     \/ m \in EmailMessages /\ Return(p, "final")
  /\ UNCHANGED <<rowVars, timeline, delivered, crashes>>

Stale(m) == age[m] >= LeaseTicks

(* The SELECT of the intent, and the branch on its status. *)
Reading(p) ==
  /\ pc[p] = "read"
  /\ UNCHANGED <<intentVars, rowVars, timeline, delivered, crashes>>

ReadSent(p) ==
  /\ Reading(p)
  /\ \/ status[msg[p]] = "accepted" /\ Proceed(p, "lookup")
     \/ status[msg[p]] = "provider_sent" /\ Proceed(p, "append")

ReadRefused(p) ==
  /\ Reading(p)
  /\ \/ status[msg[p]] = "uncertain"
     \/ status[msg[p]] = "sending" /\ ~ Stale(msg[p])
     \/ status[msg[p]] = "queued" /\ caller[p] = "send"
  /\ Return(p, "final")

(* Faulty variant: a stale dispatch is claimed again, not fenced. *)
ReadStaleRetries(p) ==
  /\ Reading(p)
  /\ status[msg[p]] = "sending" /\ Stale(msg[p])
  /\ Goto(p, "claim")
  /\ seen' = [seen EXCEPT ![p] = "sending"]
  /\ UNCHANGED <<caller, msg, part, life, work, snap, confirmed>>

ReadStale(p) ==
  /\ Reading(p)
  /\ status[msg[p]] = "sending" /\ Stale(msg[p])
  /\ Proceed(p, "fence")

ReadClaimable(p) ==
  /\ Reading(p)
  /\ status[msg[p]] \in Claimable
  /\ status[msg[p]] = "queued" => caller[p] # "send"
  /\ Goto(p, "claim")
  /\ seen' = [seen EXCEPT ![p] = status[msg[p]]]
  /\ UNCHANGED <<caller, msg, part, life, work, snap, confirmed>>

(* markIntent(uncertain): by id alone, whatever the status is by now. *)
Fence(p) ==
  /\ pc[p] = "fence"
  /\ WriteStatus(msg[p], "uncertain")
  /\ Return(p, "final")
  /\ UNCHANGED <<rowVars, timeline, delivered, crashes>>

(* Faulty variant: the UPDATE has no condition on the status. *)
ClaimAlways(p) == TRUE

(* ... WHERE status = <the one read>. *)
ClaimWins(p) == status[msg[p]] = seen[p]

(* UPDATE ... SET status = 'sending', a compare-and-set. *)
Claim(p) ==
  /\ pc[p] = "claim"
  /\ IF ClaimWins(p)
     THEN WriteStatus(msg[p], "sending") /\ Proceed(p, "resolve")
     ELSE UNCHANGED intentVars /\ Return(p, "final")
  /\ UNCHANGED <<rowVars, timeline, delivered, crashes>>

(* resolveProviderContext: conversation, channel, recipient, token. *)
Resolve(p) ==
  /\ pc[p] = "resolve"
  /\ \/ /\ Goto(p, "cross")
        /\ part' = [part EXCEPT ![p] = 1]
        /\ UNCHANGED <<caller, msg, seen, life, work, snap, confirmed>>
     \/ Proceed(p, "reject")
  /\ UNCHANGED <<intentVars, rowVars, timeline, delivered, crashes>>

(* The provider takes the request that p has in flight. *)
Taken(p) ==
  delivered' = [delivered EXCEPT ![msg[p]][part[p]] = IF @ = 0 THEN 1 ELSE 2]

(* One provider request: accepted, reported as a definitive failure, or no
   usable answer (the request may or may not have been taken).  The WhatsApp
   and email adapters report a definitive failure only if nothing was taken;
   the Facebook adapter also for a gateway error or an answer without an id. *)
PartAccepted(p) ==
  /\ pc[p] = "cross"
  /\ Taken(p)
  /\ IF part[p] = PartCount[msg[p]]
     THEN Proceed(p, "record")
     ELSE /\ part' = [part EXCEPT ![p] = part[p] + 1]
          /\ UNCHANGED <<pc, caller, msg, seen, life, work, snap, confirmed>>
  /\ UNCHANGED <<intentVars, rowVars, timeline, crashes>>

PartRejected(p) ==
  /\ pc[p] = "cross"
  /\ UNCHANGED delivered \/ (msg[p] \in LossyMessages /\ Taken(p))
  /\ Proceed(p, "reject")
  /\ UNCHANGED <<intentVars, rowVars, timeline, crashes>>

(* Faulty variants: no usable answer counts as taken, or as refused. *)
PartUnknownIsAccepted(p) ==
  /\ pc[p] = "cross"
  /\ Taken(p) \/ UNCHANGED delivered
  /\ Proceed(p, "record")
  /\ UNCHANGED <<intentVars, rowVars, timeline, crashes>>

PartUnknownIsRejected(p) ==
  /\ pc[p] = "cross"
  /\ Taken(p) \/ UNCHANGED delivered
  /\ Proceed(p, "reject")
  /\ UNCHANGED <<intentVars, rowVars, timeline, crashes>>

PartUnknown(p) ==
  /\ pc[p] = "cross"
  /\ Taken(p) \/ UNCHANGED delivered
  /\ Proceed(p, "doubt")
  /\ UNCHANGED <<intentVars, rowVars, timeline, crashes>>

(* Faulty variant: a definitive failure is not reported as retryable. *)
MarkFailedFinal(p) ==
  /\ pc[p] = "reject"
  /\ WriteStatus(msg[p], "failed")
  /\ Return(p, "final")
  /\ UNCHANGED <<rowVars, timeline, delivered, crashes>>

(* markIntent(failed) and markIntent(uncertain), again by id alone. *)
MarkFailed(p) ==
  /\ pc[p] = "reject"
  /\ WriteStatus(msg[p], "failed")
  /\ Return(p, "retryable")
  /\ UNCHANGED <<rowVars, timeline, delivered, crashes>>

MarkUncertain(p) ==
  /\ pc[p] = "doubt"
  /\ WriteStatus(msg[p], "uncertain")
  /\ Return(p, "final")
  /\ UNCHANGED <<rowVars, timeline, delivered, crashes>>

(* recordProviderAccepted; if D1 fails the intent stays 'sending'. *)
Record(p) ==
  /\ pc[p] = "record"
  /\ \/ WriteStatus(msg[p], "provider_sent") /\ Proceed(p, "append")
     \/ UNCHANGED intentVars /\ Return(p, "final")
  /\ UNCHANGED <<rowVars, timeline, delivered, crashes>>

(* An accepted intent is answered from the DO, or reconciled if the DO does
   not produce the message. *)
Lookup(p) ==
  /\ pc[p] = "lookup"
  /\ \/ msg[p] \in timeline /\ Return(p, "ok")
     \/ Proceed(p, "append")
  /\ UNCHANGED <<intentVars, rowVars, timeline, delivered, crashes>>

-----------------------------------------------------------------------------
(* reconcileProviderSent: append (idempotent by message id), then accept.   *)

AppendOk(p) ==
  /\ pc[p] = "append"
  /\ timeline' = timeline \cup {msg[p]}
  /\ Proceed(p, "accept")
  /\ UNCHANGED <<intentVars, rowVars, delivered, crashes>>

(* Faulty variant: the DO's failure is swallowed. *)
AppendFailsUnnoticed(p) ==
  /\ pc[p] = "append"
  /\ timeline' \in {timeline, timeline \cup {msg[p]}}
  /\ Proceed(p, "accept")
  /\ UNCHANGED <<intentVars, rowVars, delivered, crashes>>

(* The DO may have inserted the message before its request failed. *)
AppendFails(p) ==
  /\ pc[p] = "append"
  /\ timeline' \in {timeline, timeline \cup {msg[p]}}
  /\ Proceed(p, "unaccept")
  /\ UNCHANGED <<intentVars, rowVars, delivered, crashes>>

AcceptOk(p) ==
  /\ pc[p] = "accept"
  /\ WriteStatus(msg[p], "accepted")
  /\ Return(p, "ok")
  /\ UNCHANGED <<rowVars, timeline, delivered, crashes>>

AcceptFails(p) ==
  /\ pc[p] = "accept"
  /\ Proceed(p, "unaccept")
  /\ UNCHANGED <<intentVars, rowVars, timeline, delivered, crashes>>

(* markIntent(provider_sent) in the catch, by id alone. *)
Unaccept(p) ==
  /\ pc[p] = "unaccept"
  /\ WriteStatus(msg[p], "provider_sent")
  /\ Return(p, "final")
  /\ UNCHANGED <<rowVars, timeline, delivered, crashes>>

-----------------------------------------------------------------------------
(* handleScheduled: maintainEmail, then deliverScheduledMessages.           *)

CronStart(p) ==
  /\ Begin(p, msg[p], "sweep", "sweep")
  /\ UNCHANGED <<intentVars, rowVars, timeline, delivered, confirmed, crashes>>

(* Faulty variants: the sweep ignores the age, or leaves out email. *)
AbandonedAtOnce(m) == status[m] = "sending"
AbandonedChat(m) ==
  status[m] = "sending" /\ age[m] > LeaseTicks /\ m \notin EmailMessages

Abandoned(m) == status[m] = "sending" /\ age[m] > LeaseTicks

(* One UPDATE over all intents: no row can change between test and write. *)
SweepStale(p) ==
  /\ pc[p] = "sweep"
  /\ status' = [m \in Messages |-> IF Abandoned(m) THEN "uncertain" ELSE status[m]]
  /\ age' = [m \in Messages |-> IF Abandoned(m) THEN 0 ELSE age[m]]
  /\ Proceed(p, "select")
  /\ UNCHANGED <<command, rowVars, timeline, delivered, crashes>>

(* Faulty variant: email is not reconciled. *)
PendingChat(m) == status[m] = "provider_sent" /\ m \notin EmailMessages

(* An email is selected again if it was accepted and never projected. *)
Pending(m) ==
  \/ status[m] = "provider_sent"
  \/ status[m] = "accepted" /\ m \in EmailMessages /\ m \notin timeline

SelectPending(p) ==
  /\ pc[p] = "select"
  /\ Goto(p, "reconcile")
  /\ work' = [work EXCEPT ![p] = {m \in Messages : Pending(m)}]
  /\ UNCHANGED <<caller, msg, seen, part, life, snap>>
  /\ UNCHANGED <<intentVars, rowVars, timeline, delivered, confirmed, crashes>>

(* The next message of the selection, which the loop will not see again. *)
Take(p, m) ==
  /\ m \in work[p]
  /\ work' = [work EXCEPT ![p] = @ \ {m}]

ReconcileNext(p, m) ==
  /\ pc[p] = "reconcile"
  /\ Take(p, m)
  /\ Goto(p, "append")
  /\ msg' = [msg EXCEPT ![p] = m]
  /\ UNCHANGED <<caller, seen, part, life, snap>>
  /\ UNCHANGED <<intentVars, rowVars, timeline, delivered, confirmed, crashes>>

ReconcileDone(p) ==
  /\ pc[p] = "reconcile" /\ work[p] = {}
  /\ Goto(p, "collect")
  /\ caller' = [caller EXCEPT ![p] = "deliver"]
  /\ UNCHANGED <<msg, seen, part, life, work, snap>>
  /\ UNCHANGED <<intentVars, rowVars, timeline, delivered, confirmed, crashes>>

(* send_at <= now, where now is when the cron invocation began. *)
DueFor(p, m) == m \in queued /\ sinceDue[m] > life[p]

CollectDue(p) ==
  /\ pc[p] = "collect"
  /\ Goto(p, "lease")
  /\ work' = [work EXCEPT ![p] = {m \in Messages : DueFor(p, m)}]
  /\ snap' = [snap EXCEPT ![p] = tries]
  /\ UNCHANGED <<caller, msg, seen, part, life>>
  /\ UNCHANGED <<intentVars, rowVars, timeline, delivered, confirmed, crashes>>

(* Faulty: a lease lasts for ever. *)
LeaseFreeOnce(p, m) == holder[m] = Nobody

(* claimed_at < now - lease, with the same now. *)
LeaseFree(p, m) == holder[m] = Nobody \/ claimAge[m] > life[p] + LeaseTicks

(* claimScheduledMessage wins the row and stamps it with the same now. *)
LeaseNext(p, m) ==
  /\ pc[p] = "lease"
  /\ Take(p, m)
  /\ DueFor(p, m) /\ LeaseFree(p, m)
  /\ holder' = [holder EXCEPT ![m] = p]
  /\ claimAge' = [claimAge EXCEPT ![m] = life[p]]
  /\ Goto(p, "insert")
  /\ msg' = [msg EXCEPT ![p] = m]
  /\ UNCHANGED <<caller, seen, part, life, snap>>
  /\ UNCHANGED <<intentVars, queued, tries, sinceDue, failures>>
  /\ UNCHANGED <<timeline, delivered, confirmed, crashes>>

LeaseSkip(p, m) ==
  /\ pc[p] = "lease"
  /\ Take(p, m)
  /\ ~ (DueFor(p, m) /\ LeaseFree(p, m))
  /\ UNCHANGED <<pc, caller, msg, seen, part, life, snap>>
  /\ UNCHANGED <<intentVars, rowVars, timeline, delivered, confirmed, crashes>>

LeaseDone(p) ==
  /\ pc[p] = "lease" /\ work[p] = {}
  /\ Exit(p)
  /\ UNCHANGED <<intentVars, rowVars, timeline, delivered, confirmed, crashes>>

(* DELETE or UPDATE ... WHERE id = m AND claim_token = <mine>. *)
Mine(p) == holder[msg[p]] = p

DeleteRow(m) ==
  /\ queued' = queued \ {m}
  /\ holder' = [holder EXCEPT ![m] = Nobody]
  /\ claimAge' = [claimAge EXCEPT ![m] = 0]
  /\ tries' = [tries EXCEPT ![m] = 0]
  /\ sinceDue' = [sinceDue EXCEPT ![m] = 0]

ReleaseRow(m, attempts) ==
  /\ tries' = [tries EXCEPT ![m] = attempts]
  /\ holder' = [holder EXCEPT ![m] = Nobody]
  /\ claimAge' = [claimAge EXCEPT ![m] = 0]
  /\ UNCHANGED <<queued, sinceDue>>

CountFailure(m) == failures' = [failures EXCEPT ![m] = Capped(@, MaxAttempts)]

Drop(p) ==
  /\ pc[p] = "drop"
  /\ IF Mine(p) THEN DeleteRow(msg[p]) /\ UNCHANGED failures
               ELSE UNCHANGED rowVars
  /\ Proceed(p, "lease")
  /\ UNCHANGED <<intentVars, timeline, delivered, crashes>>

(* row.attempts + 1, with the row of the selection and not of the table. *)
Attempts(p) == snap[p][msg[p]] + 1

Exhausted(attempts) == attempts >= MaxAttempts

Backoff(p) ==
  /\ pc[p] = "backoff"
  /\ \/ /\ Mine(p)
        /\ IF Exhausted(Attempts(p)) THEN DeleteRow(msg[p])
                                     ELSE ReleaseRow(msg[p], Attempts(p))
        /\ CountFailure(msg[p])
     \/ ~ Mine(p) /\ UNCHANGED rowVars
  /\ Proceed(p, "lease")
  /\ UNCHANGED <<intentVars, timeline, delivered, crashes>>

-----------------------------------------------------------------------------
(* Time, and invocations that die: an exception that escapes, an eviction, a *)
(* client that goes away.  A request already with the provider may be taken. *)

Tick ==
  /\ \A p \in Procs : pc[p] # "idle" => life[p] < MaxLife
  /\ age' = [m \in Messages |->
               IF status[m] = "none" THEN 0 ELSE Capped(age[m], AgeCap)]
  /\ claimAge' = [m \in Messages |->
                    IF holder[m] = Nobody THEN 0 ELSE Capped(claimAge[m], ClaimCap)]
  /\ sinceDue' = [m \in Messages |->
                    IF m \in queued THEN Capped(sinceDue[m], DueCap) ELSE 0]
  /\ life' = [p \in Procs |-> IF pc[p] = "idle" THEN life[p] ELSE life[p] + 1]
  /\ UNCHANGED <<status, command, queued, holder, tries, failures>>
  /\ UNCHANGED <<timeline, delivered, confirmed, crashes>>
  /\ UNCHANGED <<pc, caller, msg, seen, part, work, snap>>

Crash(p) ==
  /\ pc[p] # "idle" /\ crashes < CrashBudget
  /\ crashes' = crashes + 1
  /\ (pc[p] = "cross" /\ Taken(p)) \/ UNCHANGED delivered
  /\ Exit(p)
  /\ UNCHANGED <<intentVars, rowVars, timeline, confirmed>>

SendStep(p) ==
  \/ Enqueue(p) \/ AddRow(p)
  \/ Deny(p) \/ InsertIntent(p)
  \/ ReadSent(p) \/ ReadRefused(p) \/ ReadStale(p) \/ ReadClaimable(p)
  \/ Fence(p) \/ Claim(p) \/ Resolve(p)
  \/ PartAccepted(p) \/ PartRejected(p) \/ PartUnknown(p)
  \/ MarkFailed(p) \/ MarkUncertain(p) \/ Record(p) \/ Lookup(p)
  \/ AppendOk(p) \/ AppendFails(p)
  \/ AcceptOk(p) \/ AcceptFails(p) \/ Unaccept(p)

CronStep(p) ==
  \/ SweepStale(p) \/ SelectPending(p)
  \/ \E m \in Messages : ReconcileNext(p, m)
  \/ ReconcileDone(p) \/ CollectDue(p)
  \/ \E m \in Messages : LeaseNext(p, m) \/ LeaseSkip(p, m)
  \/ LeaseDone(p) \/ Drop(p) \/ Backoff(p)

Next ==
  \/ \E p \in ApiCalls, m \in Messages \ RuleMessages :
        ApiSend(p, m) \/ ApiSchedule(p, m)
  \/ \E m \in RuleMessages : CannedReply(m)
  \/ \E p \in CronRuns : CronStart(p) \/ CronStep(p)
  \/ \E p \in Procs : SendStep(p) \/ Crash(p)
  \/ Tick

Spec == Init /\ [][Next]_vars

(* wrangler.toml starts a cron invocation every minute; an invocation that is
   not cut off runs to its end; the DO and D1 do not refuse for ever. *)
Fairness ==
  /\ WF_vars(Tick)
  /\ \A p \in CronRuns : WF_vars(CronStart(p)) /\ WF_vars(CronStep(p))
  /\ \A p \in Procs :
        WF_vars(SendStep(p)) /\ SF_vars(AppendOk(p)) /\ SF_vars(AcceptOk(p))

FairSpec == Spec /\ Fairness

-----------------------------------------------------------------------------
(* Properties.                                                              *)

(* Invocation p has claimed message m and the provider has neither taken the
   whole of it nor left its outcome unknown. *)
InFlight(p, m) == msg[p] = m /\ pc[p] \in {"resolve", "cross", "reject"}

Handed(m) == delivered[m][PartCount[m]]

Reclaimable(m) == status[m] \in Claimable \cup {"none"}

(* The provider takes the last request of a message, hence the whole of it,
   at most once, whatever crashes, retries, overlapping cron invocations and
   stale reads do (sendOutbound's claim and fences), if the channel's adapter
   tells a definitive failure from a lost answer. *)
HandedOverOnce == \A m \in Strict : Handed(m) <= 1

(* Two invocations never have the same message in flight: the claim is the
   only way to the provider, and nothing reopens the intent under it. *)
OneInFlight ==
  \A p, q \in Procs, m \in Messages : InFlight(p, m) /\ InFlight(q, m) => p = q

(* A conversation shows a reply only if the provider took it. *)
TimelineWasSent == \A m \in timeline : Handed(m) >= 1

(* An accepted intent is in the conversation's timeline, and so is every
   message whose sender was told that it was sent. *)
AcceptedIsInTimeline ==
  /\ \A m \in Messages : status[m] = "accepted" => m \in timeline
  /\ confirmed \subseteq timeline

(* What reaches the provider is what the id is bound to: an invocation with
   another command for the same clientMessageId never dispatches. *)
DispatchIsBound ==
  \A p \in Procs, m \in Messages : InFlight(p, m) => command[m] = CommandOf(p)

(* A send-later message that failed for certain is still queued for another
   attempt or has used up its attempts.  An email may also be given up because
   its sender lost the mailbox between two attempts (Deny). *)
FailedIsRetried ==
  \A m \in Messages \ EmailMessages :
    status[m] = "failed" /\ command[m] = "scheduled" /\ m \notin queued
      => failures[m] = MaxAttempts

(* What the code does not keep on Messenger: a send-later message that may
   have reached the provider is not retried blindly (the comment on
   failureKind, packages/channel/src/types.ts:99). *)
NotRetriedBlindly == \A m \in Messages : command[m] = "scheduled" => Handed(m) <= 1

(* What the code does not keep on Messenger, nor promises: no request of a
   message is taken twice by the provider.  A text that was acknowledged is
   sent again when an image after it was refused. *)
NoPartTwice == \A m \in Messages, k \in Parts : delivered[m][k] <= 1

(* A recorded acknowledgement is never forgotten, and an uncertain intent
   stays fenced. *)
SettledIsFinal ==
  [][\A m \in Messages :
       /\ status[m] \in {"provider_sent", "accepted"}
            => status'[m] \in {"provider_sent", "accepted"}
       /\ status[m] = "uncertain" => status'[m] = "uncertain"]_vars

(* The delivery code implements the promise of ProviderHandoff, on the
   channels whose adapter keeps its part. *)
Offer(m) ==
  IF \E p \in Procs : InFlight(p, m) THEN "trying"
  ELSE IF Reclaimable(m) THEN "open" ELSE "closed"
Handoff == INSTANCE ProviderHandoff
  WITH Messages <- Strict,
       offer <- [m \in Strict |-> Offer(m)],
       handed <- [m \in Strict |-> Handed(m)]
HandoffSpec == Handoff!Spec

(* The inductive invariant behind HandedOverOnce, OneInFlight and the
   refinement: an intent that can be claimed has nobody in flight and has not
   been taken, and whoever is in flight has not yet been taken. *)
PartInRange(p) == pc[p] = "cross" => part[p] <= PartCount[msg[p]]
DispatchInv ==
  /\ OneInFlight
  /\ HandedOverOnce
  /\ \A p \in Procs : PartInRange(p)
  /\ \A p \in Procs : pc[p] = "claim" => seen[p] \in Claimable
  /\ \A p \in Procs, m \in Messages : InFlight(p, m) => ~ Reclaimable(m)
  /\ \A m \in Strict : Reclaimable(m) => Handed(m) = 0
  /\ \A p \in Procs, m \in Strict : InFlight(p, m) => Handed(m) = 0

(* Where the cron invocation is while it reconciles: what it has selected, and
   has still to reconcile, was taken by the provider. *)
SweepLoop(p) ==
  /\ pc[p] \in {"sweep", "select", "reconcile"} => caller[p] = "sweep"
  /\ caller[p] = "sweep" =>
       pc[p] \in {"sweep", "select", "reconcile", "append", "accept", "unaccept"}
  /\ caller[p] = "sweep" /\ pc[p] \notin {"sweep", "select"} =>
       \A m \in work[p] : Handed(m) >= 1

(* The inductive invariant behind TimelineWasSent and AcceptedIsInTimeline:
   whoever is past the provider holds a message that was taken. *)
PastProvider(p) == pc[p] \in {"record", "lookup", "append", "accept", "unaccept"}
HoldsTaken(p) ==
  /\ PastProvider(p) => Handed(msg[p]) >= 1
  /\ pc[p] = "accept" => msg[p] \in timeline
  /\ SweepLoop(p)
StatusIsBacked(m) ==
  /\ status[m] \in {"provider_sent", "accepted"} => Handed(m) >= 1
  /\ status[m] = "accepted" => m \in timeline
TimelineInv ==
  /\ TimelineWasSent
  /\ confirmed \subseteq timeline
  /\ \A m \in Messages : StatusIsBacked(m)
  /\ \A p \in Procs : HoldsTaken(p)

(* The inductive invariant behind DispatchIsBound: past the binding check the
   id has a row, and the row is bound to the command of the invocation. *)
Bound(p) ==
  pc[p] \in {"read", "claim", "resolve", "cross", "reject"}
    => status[msg[p]] # "none" /\ command[msg[p]] = CommandOf(p)
BindingInv == \A p \in Procs : Bound(p)

(* "Longer than a Worker invocation" (scheduled-claim.ts): a lease outlives
   whoever took it, and a dispatch is stale only when its invocation is gone. *)
LivesAreShort == MaxLife < LeaseTicks

(* The inductive invariant behind SettledIsFinal, if lives are short: whoever
   may write a status by id alone finds the one that he last knew of. *)
Acknowledged == {"provider_sent", "accepted"}
Flying(p) == pc[p] \in {"resolve", "cross", "reject", "doubt", "record"}
Settling(p) == pc[p] \in {"lookup", "append", "accept", "unaccept"}
Fencing(p) == pc[p] = "fence"
KnowsStatus(p) ==
  /\ Flying(p) => status[msg[p]] = "sending" /\ age[msg[p]] <= life[p]
  /\ Fencing(p) => status[msg[p]] \in {"sending", "uncertain"}
  /\ Settling(p) => status[msg[p]] \in Acknowledged
  /\ pc[p] = "reconcile" \/ (caller[p] = "sweep" /\ Settling(p)) => \A m \in work[p] : status[m] \in Acknowledged
FliesAlone(p) ==
  Flying(p) => \A q \in Procs : q # p /\ msg[q] = msg[p] => ~ Flying(q) /\ ~ Fencing(q)
SettledInv == \A p \in Procs : KnowsStatus(p) /\ FliesAlone(p)

(* The inductive invariant behind FailedIsRetried, if lives are short.  The
   cron invocation that delivers a row holds its lease, so that no other one
   writes the row or the intent of a send-later message; a row that it has
   selected and that was replaced since then is not due for it. *)
Delivering(p) ==
  caller[p] = "deliver" /\ (Flying(p) \/ Settling(p) \/ Fencing(p) \/ pc[p] \in {"insert", "read", "claim", "drop", "backoff"})
HoldsLease(p) ==
  Delivering(p) =>
    /\ msg[p] \in queued /\ holder[msg[p]] = p /\ claimAge[msg[p]] = life[p]
    /\ snap[p][msg[p]] <= failures[msg[p]]
Selected(p) ==
  caller[p] = "deliver" /\ pc[p] \notin {"idle", "collect"} =>
    \A m \in work[p] : m \in queued => snap[p][m] <= failures[m] \/ sinceDue[m] <= life[p]
Attends(p) ==
  LET m == msg[p] IN
  Delivering(p) =>
    /\ pc[p] = "backoff" => status[m] # "none"
    /\ m \notin EmailMessages /\ command[m] = "scheduled" =>
         /\ pc[p] = "drop" => status[m] # "failed"
         /\ pc[p] = "claim" => status[m] = seen[p]
Sends(p) ==
  /\ Flying(p) \/ Fencing(p) \/ pc[p] \in {"read", "claim"} => command[msg[p]] = CommandOf(p)
  /\ Flying(p) \/ Fencing(p) \/ pc[p] \in {"insert", "read", "claim"} => caller[p] \in {"send", "deliver"}
  /\ pc[p] \in {"collect", "lease", "drop", "backoff"} => caller[p] = "deliver"
  /\ pc[p] \in {"enqueue", "addRow"} => caller[p] = "schedule"
RowInv ==
  /\ \A p \in Procs : HoldsLease(p) /\ Selected(p) /\ Attends(p) /\ Sends(p)
  /\ \A m \in Messages : tries[m] <= failures[m]
  /\ \A m \in Messages : status[m] = "none" => tries[m] = 0 /\ \A p \in Procs : snap[p][m] = 0
  /\ FailedIsRetried

(* A recorded acknowledgement is eventually projected and accepted, by the
   cron's reconciliation if by nobody else. *)
RecordedIsAccepted ==
  \A m \in Messages : status[m] = "provider_sent" ~> status[m] = "accepted"

(* An intent does not stay in 'sending' when its invocation died. *)
SendingIsResolved ==
  \A m \in Messages : status[m] = "sending" ~> status[m] # "sending"

(* A due row eventually leaves the send-later queue. *)
QueueDrains == \A m \in Messages : m \in queued ~> m \notin queued
===============================================================================
