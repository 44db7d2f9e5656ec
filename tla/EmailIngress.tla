------------------------------ MODULE EmailIngress ------------------------------
(***************************************************************************)
(* An inbound email from its archive to the timeline: archiveInboundEmail, *)
(* replayEmailIngress and processIngress (email-ingress.ts), the email     *)
(* branch of routeInbound (ingest.ts), and the canonical store with its    *)
(* atomic rules and its projection (email-persistence.ts).                 *)
(*                                                                         *)
(* An invocation is the delivery of the mail, an operator's replay, or the *)
(* minutely cron; it may die at any step, any of its calls may fail, and   *)
(* two may overlap.  A lease is the number of ticks that are left of its   *)
(* five minutes; an invocation that outlives its lease goes on.            *)
(*                                                                         *)
(* A mail that answers another joins its conversation if the other is in   *)
(* the canonical store.  Left out: the parts of the MIME message, contacts *)
(* and identities, other mailboxes, and the reply bridges.                 *)
(***************************************************************************)
EXTENDS Naturals, FiniteSets

CONSTANTS
  Mails,
  Answers,      \* Answers[m], the mail whose id m refers to, or Nothing
  Poison,       \* mails that cannot be parsed or are not allowed
  Invocations,  \* deliveries and operators
  Crons,        \* invocations by the scheduler
  Nothing,
  MaxAttempts,  \* 10: the cron leaves a mail after these
  LeaseTicks,
  MaxRequests,  \* bound on deliveries and operators' replays
  MaxFaults     \* bound on crashes and failing calls

ASSUME IngressAssumption ==
  /\ Answers \in [Mails -> Mails \cup {Nothing}] /\ Nothing \notin Mails
  /\ Poison \subseteq Mails
  /\ Invocations \cap Crons = {} /\ Nothing \notin Invocations \cup Crons
  /\ {MaxAttempts, LeaseTicks, MaxRequests, MaxFaults} \subseteq Nat /\ LeaseTicks > 0

Workers == Invocations \cup Crons

VARIABLES
  row,        \* email_ingress: state, lease_token (an invocation), lease_until, attempts
  canonical,  \* email_canonical_messages.conversation_id, or Nothing
  routed,     \* routing_done
  commits,    \* how often the rules of the mail were committed
  private,    \* email_private_attachments.conversation_id
  timeline,   \* timeline[c]: the mails that conversation c shows
  work,       \* what an invocation is doing
  requests, faults

vars == <<row, canonical, routed, commits, private, timeline, work, requests, faults>>

(* A conversation that a mail starts has its id. *)
Idle == [at |-> "idle", mail |-> Nothing, saw |-> "none", to |-> Nothing]
States == {"none", "stored", "processing", "failed", "quarantined", "processed"}
Stages == {"idle", "release", "claim", "read", "attach", "persist", "evaluate", "commit", "project",
           "settle", "fail", "reject"}

TypeOK ==
  /\ row \in [Mails -> [state : States, by : Workers \cup {Nothing},
                       lease : 0 .. LeaseTicks, tries : Nat]]
  /\ canonical \in [Mails -> Mails \cup {Nothing}]
  /\ routed \in [Mails -> BOOLEAN]
  /\ commits \in [Mails -> Nat]
  /\ private \in [Mails -> Mails \cup {Nothing}]
  /\ timeline \in [Mails -> SUBSET Mails]
  /\ work \in [Workers -> [at : Stages, mail : Mails \cup {Nothing}, saw : States,
                           to : Mails \cup {Nothing}]]
  /\ requests \in 0 .. MaxRequests /\ faults \in 0 .. MaxFaults

Init ==
  /\ row = [m \in Mails |-> [state |-> "none", by |-> Nothing, lease |-> 0, tries |-> 0]]
  /\ canonical = [m \in Mails |-> Nothing]
  /\ routed = [m \in Mails |-> FALSE]
  /\ commits = [m \in Mails |-> 0]
  /\ private = [m \in Mails |-> Nothing]
  /\ timeline = [m \in Mails |-> {}]
  /\ work = [w \in Workers |-> Idle]
  /\ requests = 0 /\ faults = 0

store == <<canonical, routed, commits, private, timeline>>
budget == <<requests, faults>>

At(w, stage) == work[w].at = stage
Goto(w, stage) == work' = [work EXCEPT ![w].at = stage]
Free(m) == row[m].lease = 0

-----------------------------------------------------------------------------
(* Selection.                                                               *)

Select(w, m) == work' = [work EXCEPT ![w] =
  [Idle EXCEPT !.at = IF row'[m].state = "quarantined" THEN "release" ELSE "claim",
               !.mail = m, !.saw = row'[m].state]]

(* The mail arrives, for the first time or once more: INSERT OR IGNORE, then
   its own replay, which no number of attempts ends. *)
Arrive(w, m) ==
  /\ w \in Invocations /\ At(w, "idle")
  /\ requests < MaxRequests
  /\ requests' = requests + 1
  /\ row' = [row EXCEPT ![m].state = IF @ = "none" THEN "stored" ELSE @]
  /\ IF row'[m].state \in {"stored", "failed", "processing"} /\ Free(m)
     THEN Select(w, m)
     ELSE UNCHANGED work
  /\ UNCHANGED <<store, faults>>

(* An operator replays one mail, also a quarantined one. *)
Operate(w, m) ==
  /\ w \in Invocations /\ At(w, "idle")
  /\ requests < MaxRequests
  /\ row[m].state \in {"stored", "failed", "processing", "quarantined"} /\ Free(m)
  /\ requests' = requests + 1
  /\ UNCHANGED row
  /\ Select(w, m)
  /\ UNCHANGED <<store, faults>>

(* Faulty: a mail whose invocation died is not looked at again. *)
UnclaimedStates == {"stored", "failed"}
ReplayableStates == {"stored", "failed", "processing"}

(* The cron takes what has attempts left, mail after mail. *)
Sweep(w, m) ==
  /\ w \in Crons /\ At(w, "idle")
  /\ row[m].state \in ReplayableStates /\ Free(m) /\ row[m].tries < MaxAttempts
  /\ UNCHANGED row
  /\ Select(w, m)
  /\ UNCHANGED <<store, budget>>

Release(w) ==
  LET m == work[w].mail IN
  /\ At(w, "release")
  /\ IF row[m].state = "quarantined" /\ Free(m)
     THEN row' = [row EXCEPT ![m].state = "stored", ![m].by = Nothing] /\ Goto(w, "claim")
     ELSE work' = [work EXCEPT ![w] = Idle] /\ UNCHANGED row
  /\ UNCHANGED <<store, budget>>

-----------------------------------------------------------------------------
(* processIngress.                                                          *)

Claim(w) ==
  LET m == work[w].mail IN
  /\ At(w, "claim")
  /\ IF row[m].state \in {"stored", "failed", "processing"} /\ Free(m)
     THEN /\ row' = [row EXCEPT ![m] = [state |-> "processing", by |-> w, lease |-> LeaseTicks,
                                        tries |-> @.tries + 1]]
          /\ Goto(w, "read")
     ELSE work' = [work EXCEPT ![w] = Idle] /\ UNCHANGED row
  /\ UNCHANGED <<store, budget>>

(* The conversation of a mail that is in the store is kept. *)
Thread(m) ==
  IF canonical[m] # Nothing THEN canonical[m]
  ELSE IF Answers[m] # Nothing /\ canonical[Answers[m]] # Nothing THEN canonical[Answers[m]]
  ELSE m

RoutingDone(m) == canonical[m] # Nothing /\ routed[m]

Read(w) ==
  LET m == work[w].mail IN
  /\ At(w, "read")
  /\ IF RoutingDone(m) THEN Goto(w, "project")
     ELSE IF m \in Poison THEN Goto(w, "reject")
     ELSE work' = [work EXCEPT ![w].at = "attach", ![w].to = Thread(m)]
  /\ UNCHANGED <<row, store, budget>>

Attach(w) ==
  /\ At(w, "attach")
  /\ private' = [private EXCEPT ![work[w].mail] = work[w].to]
  /\ Goto(w, "persist")
  /\ UNCHANGED <<row, canonical, routed, commits, timeline, budget>>

(* INSERT OR IGNORE. *)
Persist(w) ==
  LET m == work[w].mail IN
  /\ At(w, "persist")
  /\ canonical' = [canonical EXCEPT ![m] = IF @ = Nothing THEN work[w].to ELSE @]
  /\ Goto(w, "evaluate")
  /\ UNCHANGED <<row, routed, commits, private, timeline, budget>>

(* The rules are evaluated into a buffer. *)
Evaluate(w) ==
  /\ At(w, "evaluate")
  /\ Goto(w, IF routed[work[w].mail] THEN "project" ELSE "commit")
  /\ UNCHANGED <<row, store, budget>>

(* Faulty: the commit does not insert its marker. *)
Unmarked(m) == FALSE

(* The primary key of email_routing_commits. *)
Committed(m) == commits[m] > 0

(* One batch; if another one was first, its routing_done is read. *)
Commit(w) ==
  LET m == work[w].mail IN
  /\ At(w, "commit")
  /\ IF Committed(m)
     THEN UNCHANGED <<routed, commits>>
     ELSE /\ commits' = [commits EXCEPT ![m] = @ + 1]
          /\ routed' = [routed EXCEPT ![m] = TRUE]
  /\ Goto(w, "project")
  /\ UNCHANGED <<row, canonical, private, timeline, budget>>

(* Faulty: the conversation that this invocation had chosen. *)
Chosen(w) == IF work[w].to = Nothing THEN canonical[work[w].mail] ELSE work[w].to

(* The conversation that the store names. *)
ShownIn(w) == canonical[work[w].mail]

(* The Durable Object of the timeline takes an id once. *)
Project(w) ==
  /\ At(w, "project")
  /\ timeline' = [timeline EXCEPT ![ShownIn(w)] = @ \cup {work[w].mail}]
  /\ Goto(w, "settle")
  /\ UNCHANGED <<row, canonical, routed, commits, private, budget>>

(* Faulty: whoever ends last settles the mail. *)
Unfenced(w) == TRUE
Holds(w) == row[work[w].mail].by = w

Settle(w, state) ==
  /\ row' = IF Holds(w)
            THEN [row EXCEPT ![work[w].mail].state = state, ![work[w].mail].by = Nothing,
                             ![work[w].mail].lease = 0]
            ELSE row
  /\ work' = [work EXCEPT ![w] = Idle]
  /\ UNCHANGED <<store, budget>>

Succeed(w) == At(w, "settle") /\ Settle(w, "processed")
Reject(w) == At(w, "reject") /\ Settle(w, "quarantined")
Fail(w) == At(w, "fail") /\ Settle(w, "failed")

-----------------------------------------------------------------------------
(* A call fails before it has an effect, and the mail waits for a replay. *)
CallFails(w) ==
  /\ work[w].at \in {"read", "attach", "persist", "evaluate", "commit", "project"}
  /\ faults < MaxFaults
  /\ faults' = faults + 1
  /\ Goto(w, "fail")
  /\ UNCHANGED <<row, store, requests>>

Die(w) ==
  /\ ~At(w, "idle")
  /\ faults < MaxFaults
  /\ faults' = faults + 1
  /\ work' = [work EXCEPT ![w] = Idle]
  /\ UNCHANGED <<row, store, requests>>

Tick ==
  /\ \E m \in Mails : row[m].lease > 0
  /\ row' = [m \in Mails |-> [row[m] EXCEPT !.lease = IF @ = 0 THEN 0 ELSE @ - 1]]
  /\ UNCHANGED <<store, work, budget>>

WorkerStep(w) ==
  \/ Release(w) \/ Claim(w) \/ Read(w) \/ Attach(w) \/ Persist(w) \/ Evaluate(w) \/ Commit(w)
  \/ Project(w) \/ Succeed(w) \/ Reject(w) \/ Fail(w)

Next ==
  \/ \E w \in Workers : WorkerStep(w) \/ CallFails(w) \/ Die(w)
  \/ \E w \in Workers, m \in Mails : Arrive(w, m) \/ Operate(w, m) \/ Sweep(w, m)
  \/ Tick

Spec == Init /\ [][Next]_vars

(* An invocation goes on unless it dies, leases run out, and every sweep of
   the cron takes the mails that it finds. *)
IngressFair ==
  /\ WF_vars(Tick)
  /\ \A w \in Workers : WF_vars(WorkerStep(w))
  /\ \A m \in Mails : WF_vars(\E w \in Crons : Sweep(w, m))

FairSpec == Spec /\ IngressFair

-----------------------------------------------------------------------------
(* What counts as processed is stored, was routed by the rules exactly once,
   however many invocations overlapped or came back after a crash, and is
   shown by the conversation that the store names. *)
ProcessedIsShown ==
  \A m \in Mails : row[m].state = "processed" =>
    canonical[m] # Nothing /\ commits[m] = 1 /\ m \in timeline[canonical[m]]

(* An email is shown by one conversation only. *)
OnePlace == \A m \in Mails : Cardinality({c \in Mails : m \in timeline[c]}) <= 1

(* An invocation that outlived its lease cannot take back what another one
   settled. *)
ProcessedIsFinal ==
  [][\A m \in Mails : row[m].state = "processed" => row'[m].state = "processed"]_vars

(* The attachments of a shown email are those of its conversation. *)
AttachmentsFollow ==
  \A m \in Mails : row[m].state = "processed" => private[m] = canonical[m]

(* Every archived email is processed, quarantined, or out of attempts
   (ADR 0021: an observable, replayable processing state). *)
Exhausted(m) == row[m].tries >= MaxAttempts
ArchivedIsSettled ==
  \A m \in Mails : row[m].state # "none" ~>
    row[m].state \in {"processed", "quarantined"} \/ Exhausted(m)
=============================================================================
