----------------------------- MODULE CallSession -----------------------------
(***************************************************************************)
(* One inbound Messenger call: the webhook that routes it, its Call        *)
(* Session Durable Object (stages of agents that ring, accept, reject,     *)
(* hang up, the alarm), and the call_events row in D1.                     *)
(*                                                                         *)
(* A handler of the DO runs alone until it awaits something other than its *)
(* own storage: the dispatch DO, the provider, D1 or the conversation's    *)
(* DO.  There other handlers run, while this one keeps the copy of the     *)
(* state it read.  One action is what a handler does between two awaits.   *)
(*                                                                         *)
(* Time starts at the webhook's timestamp.  The clock of TLC runs stops at *)
(* Horizon, past every instant the code computes.                          *)
(*                                                                         *)
(* Left out: request authentication and decoding, the metrics command, the *)
(* activities' content, and the presence rows behind `live`.               *)
(***************************************************************************)
EXTENDS Naturals

CONSTANTS
  Agents,
  Nobody,       \* no agent
  Requests,     \* invocations of the webhook and of the DO's fetch handler
  Alarm,        \* the DO's alarm handler, of which at most one runs
  Stages,       \* 1 .. the number of stages of the call queue
  Group,        \* Group[k], the agents of stage k's ring group
  RingTime,     \* RingTime[k], stage k's ringDurationSeconds
  Deadline,     \* QUEUE_BUDGET_MS, counted from the webhook
  MetaDeadline, \* META_DEADLINE_MS
  Horizon,      \* bound on the clock
  Faults        \* bound on the internal calls that fail

Runs == Requests \cup {Alarm}

ASSUME AgentAssumption ==
  /\ Nobody \notin Agents
  /\ Alarm \notin Requests

ASSUME StageAssumption ==
  /\ Stages \subseteq Nat \ {0} /\ 1 \in Stages
  /\ \A k \in Stages : 1 .. k \subseteq Stages
  /\ Group \in [Stages -> SUBSET Agents]
  /\ RingTime \in [Stages -> Nat \ {0}]

ASSUME TimeAssumption ==
  /\ Deadline \in Nat \ {0}
  /\ MetaDeadline \in Nat /\ MetaDeadline > Deadline
  /\ Horizon \in Nat /\ Horizon > MetaDeadline
  /\ Faults \in Nat

VARIABLES
  session,   \* the DO's stored state
  alarm,     \* the time the DO's alarm is set to, Off if it is not
  event,     \* call_events.state
  assignee,  \* conversations.assignee_id
  answerer,  \* the agent whose accept the provider took
  live,      \* agents that are available and have a socket
  rang,      \* rang[k], the agents the call rang for as members of stage k
  lastOffer, \* when the dispatch DO last took up an offer of the call
  now,
  pc, actor, held, until, got,   \* the handlers' locals
  faults

calling == <<session, alarm>>
records == <<event, assignee>>
outside == <<answerer, live, rang, lastOffer>>
locals == <<pc, actor, held, until, got>>
vars == <<calling, records, outside, now, locals, faults>>

Off == Horizon + 1
Terminal == {"accepted", "timed_out", "terminated"}
Sessions ==
  [state : {"none", "ringing"} \cup Terminal, winner : Agents \cup {Nobody},
   stage : Stages \cup {0}, offered : SUBSET Agents]
NoSession == [state |-> "none", winner |-> Nobody, stage |-> 0, offered |-> {}]

Labels == {"idle", "route", "start", "dispatch", "ring", "dispatched", "announce",
           "close", "vet", "signal", "record", "hangup"}
Events == {"none", "ringing", "accepted", "rejected", "timed_out",
           "terminated", "failed"}

TypeOK ==
  /\ session \in Sessions
  /\ alarm \in 0 .. Off
  /\ event \in Events
  /\ assignee \in Agents \cup {Nobody}
  /\ answerer \in Agents \cup {Nobody}
  /\ live \in SUBSET Agents
  /\ rang \in [Stages -> SUBSET Agents]
  /\ lastOffer \in 0 .. Horizon
  /\ now \in 0 .. Horizon
  /\ pc \in [Runs -> Labels]
  /\ actor \in [Runs -> Agents \cup {Nobody}]
  /\ held \in [Runs -> Sessions]
  /\ until \in [Runs -> 0 .. Off]
  /\ got \in [Runs -> SUBSET Agents]
  /\ faults \in 0 .. Faults

Init ==
  /\ session = NoSession
  /\ alarm = Off
  /\ event = "none"
  /\ assignee = Nobody
  /\ answerer = Nobody
  /\ live = Agents
  /\ rang = [k \in Stages |-> {}]
  /\ lastOffer = 0
  /\ now = 0
  /\ pc = [r \in Runs |-> "idle"]
  /\ actor = [r \in Runs |-> Nobody]
  /\ held = [r \in Runs |-> NoSession]
  /\ until = [r \in Runs |-> 0]
  /\ got = [r \in Runs |-> {}]
  /\ faults = 0

-----------------------------------------------------------------------------
(* The ends of a handler's segments.                                        *)

Await(r, label) == pc' = [pc EXCEPT ![r] = label]

Return(r) ==
  /\ pc' = [pc EXCEPT ![r] = "idle"]
  /\ actor' = [actor EXCEPT ![r] = Nobody]
  /\ held' = [held EXCEPT ![r] = NoSession]
  /\ until' = [until EXCEPT ![r] = 0]
  /\ got' = [got EXCEPT ![r] = {}]

(* storage.put of the handler's copy of the state. *)
Put(r, s) ==
  /\ session' = s
  /\ held' = [held EXCEPT ![r] = s]

(* finish: stores the outcome, drops the alarm and awaits D1, unless the copy
   s of the state is settled already. *)
Finish(r, s, outcome) ==
  \/ /\ s.state = "ringing" \/ (outcome = "terminated" /\ s.state = "accepted")
     /\ Put(r, [s EXCEPT !.state = outcome, !.offered = {}])
     /\ alarm' = Off
     /\ Await(r, "close")
     /\ UNCHANGED <<actor, until, got>>
  \/ /\ ~ (s.state = "ringing" \/ (outcome = "terminated" /\ s.state = "accepted"))
     /\ Return(r)
     /\ UNCHANGED <<session, alarm>>

OutOfStages(k) == k \notin Stages \/ now >= Deadline

Earlier(a, b) == IF a < b THEN a ELSE b

(* offerStage up to its call of the dispatch DO, from the copy s, with the
   alarm as it is or as the caller leaves it. *)
OfferStage(r, s, k, alarmThen) ==
  \/ /\ OutOfStages(k)
     /\ Finish(r, s, "timed_out")
  \/ /\ ~ OutOfStages(k)
     /\ Put(r, [s EXCEPT !.stage = k, !.offered = {}])
     /\ until' = [until EXCEPT ![r] = Earlier(Deadline, now + RingTime[k])]
     /\ alarm' = alarmThen
     /\ Await(r, "dispatch")
     /\ UNCHANGED <<actor, got>>

-----------------------------------------------------------------------------
(* routeInboundFacebookCall.                                                *)

(* The claim: the insert of the call_events row.  A webhook that Meta repeats
   finds the row and does nothing. *)
Webhook(r) ==
  /\ pc[r] = "idle" /\ event = "none"
  /\ event' = "ringing"
  /\ Await(r, "route")
  /\ UNCHANGED <<calling, assignee, outside, now, actor, held, until, got, faults>>

(* Faulty variant: a rejection that may have been lost leaves the row alone. *)
RouteRefusedUnsure(r) ==
  /\ pc[r] = "route"
  /\ event' \in {"rejected", event}
  /\ Return(r)
  /\ UNCHANGED <<calling, assignee, outside, now, faults>>

(* No default inbox, no enabled queue, or nobody eligible: the provider is
   told to reject, and the row says whether it did. *)
RouteRefused(r) ==
  /\ pc[r] = "route"
  /\ event' \in {"rejected", "failed"}
  /\ Return(r)
  /\ UNCHANGED <<calling, assignee, outside, now, faults>>

RouteStart(r) ==
  /\ pc[r] = "route"
  /\ Await(r, "start")
  /\ UNCHANGED <<calling, records, outside, now, actor, held, until, got, faults>>

(* start; a session past Meta's deadline is refused and the row failed. *)
Start(r) ==
  /\ pc[r] = "start"
  /\ \/ /\ now > MetaDeadline
        /\ event' = "failed"
        /\ Return(r)
        /\ UNCHANGED calling
     \/ /\ now <= MetaDeadline
        /\ OfferStage(r, [NoSession EXCEPT !.state = "ringing"], 1, alarm)
        /\ UNCHANGED event
  /\ UNCHANGED <<assignee, outside, now, faults>>

-----------------------------------------------------------------------------
(* offerStage after its first await.                                        *)

(* CallDispatchDO.offer: an offer that has expired reaches nobody. *)
Unexpired(r) == now < until[r]

Vouch(r) ==
  /\ pc[r] = "dispatch"
  /\ IF Unexpired(r)
     THEN lastOffer' = now /\ Await(r, "ring")
     ELSE Await(r, "dispatched") /\ UNCHANGED lastOffer
  /\ UNCHANGED <<calling, records, answerer, live, rang, now>>
  /\ UNCHANGED <<actor, held, until, got, faults>>

(* D1 names the eligible agents and their sockets get the offer. *)
Ring(r) ==
  LET delivered == Group[held[r].stage] \cap live IN
  /\ pc[r] = "ring"
  /\ got' = [got EXCEPT ![r] = delivered]
  /\ rang' = [rang EXCEPT ![held[r].stage] = @ \cup delivered]
  /\ Await(r, "dispatched")
  /\ UNCHANGED <<calling, records, answerer, live, lastOffer, now, actor, held, until, faults>>

(* Faulty variant: the agents offered are read from the configuration. *)
ResumeWithGroup(r) ==
  /\ pc[r] = "dispatched"
  /\ Put(r, [held[r] EXCEPT !.offered = Group[held[r].stage]])
  /\ Await(r, "announce")
  /\ UNCHANGED <<alarm, actor, until, got>>
  /\ UNCHANGED <<records, outside, now, faults>>

(* The delivered agents are stored as the offered ones; with none, the next
   stage is offered at once. *)
Resume(r) ==
  /\ pc[r] = "dispatched"
  /\ \/ /\ got[r] # {}
        /\ Put(r, [held[r] EXCEPT !.offered = got[r]])
        /\ Await(r, "announce")
        /\ UNCHANGED <<alarm, actor, until, got>>
     \/ /\ got[r] = {}
        /\ OfferStage(r, held[r], held[r].stage + 1, alarm)
  /\ UNCHANGED <<records, outside, now, faults>>

(* Faulty variant: the stage that rings is not given an end. *)
AnnounceUntimed(r) ==
  /\ pc[r] = "announce"
  /\ Return(r)
  /\ UNCHANGED <<calling, records, outside, now, faults>>

(* The activity is appended; then the alarm that ends the stage is set. *)
Announce(r) ==
  /\ pc[r] = "announce"
  /\ alarm' = until[r]
  /\ Return(r)
  /\ UNCHANGED <<session, records, outside, now, faults>>

(* finish, after its await: the row takes the outcome whatever it holds. *)
Close(r) ==
  /\ pc[r] = "close"
  /\ event' = held[r].state
  /\ Return(r)
  /\ UNCHANGED <<calling, assignee, outside, now, faults>>

(* alarm *)
AlarmFires ==
  /\ pc[Alarm] = "idle" /\ alarm <= now
  /\ \/ /\ session.state = "ringing"
        /\ OfferStage(Alarm, session, session.stage + 1, Off)
     \/ /\ session.state # "ringing"
        /\ alarm' = Off
        /\ UNCHANGED <<session, locals>>
  /\ UNCHANGED <<records, outside, now, faults>>

-----------------------------------------------------------------------------
(* The commands of an agent.                                                *)

(* Faulty variant: whoever asks may accept. *)
MayAcceptAnyone(a) == session.state = "ringing"

MayAccept(a) == session.state = "ringing" /\ a \in session.offered

Accept(r, a) ==
  /\ pc[r] = "idle" /\ MayAccept(a)
  /\ actor' = [actor EXCEPT ![r] = a]
  /\ held' = [held EXCEPT ![r] = session]
  /\ Await(r, "vet")
  /\ UNCHANGED <<calling, records, outside, now, until, got, faults>>

(* isLiveAvailableAgent *)
Vet(r) ==
  /\ pc[r] = "vet"
  /\ \/ actor[r] \in live /\ Await(r, "signal") /\ UNCHANGED <<actor, held, until, got>>
     \/ actor[r] \notin live /\ Return(r)
  /\ UNCHANGED <<calling, records, outside, now, faults>>

AcceptedBy(s, a) == [s EXCEPT !.winner = a, !.state = "accepted", !.offered = {}]

(* The provider connects the first accept and no other.  The handler stores
   the copy it read before the call, with the winner. *)
SignalTaken(r) ==
  /\ pc[r] = "signal" /\ answerer = Nobody
  /\ answerer' = actor[r]
  /\ Put(r, AcceptedBy(held[r], actor[r]))
  /\ alarm' = Off
  /\ Await(r, "record")
  /\ UNCHANGED <<records, live, rang, lastOffer, now, actor, until, got, faults>>

(* Faulty variant: an accept that the provider did not confirm wins. *)
SignalFailsUnnoticed(r) ==
  /\ pc[r] = "signal"
  /\ Put(r, AcceptedBy(held[r], actor[r]))
  /\ alarm' = Off
  /\ Await(r, "record")
  /\ UNCHANGED <<records, outside, now, actor, until, got, faults>>

(* Refused, or the answer was lost on its way. *)
SignalFails(r) ==
  /\ pc[r] = "signal"
  /\ UNCHANGED answerer \/ (answerer = Nobody /\ answerer' = actor[r])
  /\ Return(r)
  /\ UNCHANGED <<calling, records, live, rang, lastOffer, now, faults>>

(* One D1 batch: the row only if it still rings, the assignee always. *)
Record(r) ==
  /\ pc[r] = "record"
  /\ event' = IF event = "ringing" THEN "accepted" ELSE event
  /\ assignee' = actor[r]
  /\ Return(r)
  /\ UNCHANGED <<calling, outside, now, faults>>

Reject(r, a) ==
  LET rest == [session EXCEPT !.offered = @ \ {a}] IN
  /\ pc[r] = "idle"
  /\ session.state = "ringing" /\ a \in session.offered
  /\ \/ /\ rest.offered # {}
        /\ session' = rest
        /\ UNCHANGED <<alarm, locals>>
     \/ /\ rest.offered = {}
        /\ OfferStage(r, rest, rest.stage + 1, alarm)
  /\ UNCHANGED <<records, outside, now, faults>>

(* terminate: the winner hangs up, the provider is told, then the state read
   before that is finished. *)
HangUp(r, a) ==
  /\ pc[r] = "idle"
  /\ session.state = "accepted" /\ session.winner = a
  /\ actor' = [actor EXCEPT ![r] = a]
  /\ held' = [held EXCEPT ![r] = session]
  /\ Await(r, "hangup")
  /\ UNCHANGED <<calling, records, outside, now, until, got, faults>>

HangUpAnswered(r) ==
  /\ pc[r] = "hangup"
  /\ \/ Finish(r, held[r], "terminated")
     \/ Return(r) /\ UNCHANGED calling
  /\ UNCHANGED <<records, outside, now, faults>>

-----------------------------------------------------------------------------
(* Surroundings.                                                            *)

(* Sockets come and go, and agents set themselves available or away. *)
Presence(a) ==
  /\ live' = IF a \in live THEN live \ {a} ELSE live \cup {a}
  /\ UNCHANGED <<calling, records, answerer, rang, lastOffer, now, locals, faults>>

Tick ==
  /\ now < Horizon
  /\ now' = now + 1
  /\ UNCHANGED <<calling, records, outside, locals, faults>>

(* What a handler awaits fails and the exception escapes, or the handler dies.
   The platform runs a failed alarm handler again. *)
Fault(r) ==
  /\ pc[r] # "idle" /\ faults < Faults
  /\ faults' = faults + 1
  /\ alarm' = IF r = Alarm THEN now ELSE alarm
  /\ Return(r)
  /\ UNCHANGED <<session, records, outside, now>>

Command(r) ==
  \/ Webhook(r)
  \/ \E a \in Agents : Accept(r, a) \/ Reject(r, a) \/ HangUp(r, a)

Step(r) ==
  \/ RouteRefused(r) \/ RouteStart(r) \/ Start(r)
  \/ Vouch(r) \/ Ring(r) \/ Resume(r) \/ Announce(r) \/ Close(r)
  \/ Vet(r) \/ SignalTaken(r) \/ SignalFails(r) \/ Record(r)
  \/ HangUpAnswered(r)

Next ==
  \/ \E r \in Requests : Command(r)
  \/ \E r \in Runs : Step(r) \/ Fault(r)
  \/ AlarmFires
  \/ \E a \in Agents : Presence(a)
  \/ Tick

Spec == Init /\ [][Next]_vars

(* Time passes, what a handler awaits is answered, and the platform runs an
   alarm that is due. *)
Fairness ==
  /\ WF_vars(Tick) /\ WF_vars(AlarmFires)
  /\ \A r \in Runs : WF_vars(Step(r))

FairSpec == Spec /\ Fairness

-----------------------------------------------------------------------------
(* Properties.                                                              *)

(* Whom the session would let accept was rung for the stage the session is
   in: authorization never reconstructs the recipients from configuration. *)
OfferedWereRung ==
  session.state = "ringing" =>
    \A a \in session.offered : session.stage # 0 /\ a \in rang[session.stage]

(* The provider connects only an agent that this call rang for. *)
AnswererWasRung == answerer # Nobody => \E k \in Stages : answerer \in rang[k]

(* A conversation is assigned, a row accepted and a session won by nobody but
   the agent whose accept the provider took. *)
WinnerAnswered ==
  /\ assignee # Nobody => assignee = answerer
  /\ event = "accepted" => answerer # Nobody
  /\ session.state \in {"accepted", "terminated"} => session.winner = answerer

(* However slow storage, sessions and alarms are, no offer is taken up once the
   queue's budget is spent. *)
OffersInBudget == lastOffer < Deadline

(* A call does not ring for ever: in the end it was answered or timed out. *)
RingingEnds == <>[](session.state # "ringing")

(* Nor does its row in D1 stay open: every call that was claimed gets an
   outcome there, whichever handlers race to write it. *)
RowSettles == <>[](event # "ringing")

(* The session is a serialized state machine: an accepted call stays accepted
   until it is hung up. *)
AcceptedStands ==
  [][session.state = "accepted" => session'.state \in {"accepted", "terminated"}]_vars
===============================================================================
