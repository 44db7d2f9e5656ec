------------------------------ MODULE CallProofs ------------------------------
(***************************************************************************)
(* Theorems about CallSession, for every set of agents, requests and       *)
(* stages, every ring time and budget, and any number of faults.           *)
(***************************************************************************)
EXTENDS CallSession, TLAPS

-----------------------------------------------------------------------------
(* Type correctness.                                                        *)

(* The two halves of TypeOK: the session with the handlers, and the rest. *)
HandlerOK ==
  /\ session \in Sessions
  /\ alarm \in 0 .. Off
  /\ pc \in [Runs -> Labels]
  /\ actor \in [Runs -> Agents \cup {Nobody}]
  /\ held \in [Runs -> Sessions]
  /\ until \in [Runs -> 0 .. Off]
  /\ got \in [Runs -> SUBSET Agents]
WorldOK ==
  /\ event \in Events
  /\ assignee \in Agents \cup {Nobody}
  /\ answerer \in Agents \cup {Nobody}
  /\ live \in SUBSET Agents
  /\ rang \in [Stages -> SUBSET Agents]
  /\ lastOffer \in 0 .. Horizon
  /\ now \in 0 .. Horizon
  /\ faults \in 0 .. Faults

LEMMA Halves ==
  /\ TypeOK <=> HandlerOK /\ WorldOK
  /\ (TypeOK <=> HandlerOK /\ WorldOK)'
  BY DEF TypeOK, HandlerOK, WorldOK

LEMMA Times ==
  /\ Deadline \in Nat /\ Deadline > 0 /\ Horizon \in Nat /\ Faults \in Nat
  /\ Deadline < Horizon
  /\ Off \in 0 .. Off /\ 0 \in 0 .. Off
  /\ \A t \in 0 .. Horizon : t \in 0 .. Off
  BY TimeAssumption DEF Off

LEMMA FreshSession ==
  /\ NoSession \in Sessions
  /\ [NoSession EXCEPT !.state = "ringing"] \in Sessions
  BY DEF NoSession, Sessions

LEMMA ReturnType ==
  ASSUME HandlerOK, NEW r \in Runs, Return(r), session' \in Sessions, alarm' \in 0 .. Off
  PROVE  HandlerOK'
  BY FreshSession, Times DEF HandlerOK, Return, Labels

LEMMA FinishType ==
  ASSUME HandlerOK, NEW r \in Runs, NEW s \in Sessions,
         NEW outcome \in Terminal, Finish(r, s, outcome)
  PROVE  HandlerOK'
<1>1. [s EXCEPT !.state = outcome, !.offered = {}] \in Sessions
  BY DEF Sessions
<1>2. CASE Return(r) /\ UNCHANGED <<session, alarm>>
  BY <1>2, ReturnType DEF HandlerOK
<1>3. CASE ~ (Return(r) /\ UNCHANGED <<session, alarm>>)
  BY <1>1, <1>3, Times DEF Finish, Put, Await, HandlerOK, Labels
<1> QED BY <1>2, <1>3

LEMMA OfferEnd ==
  ASSUME NEW k \in Stages, now \in 0 .. Horizon
  PROVE  Earlier(Deadline, now + RingTime[k]) \in 0 .. Deadline
  BY Times, StageAssumption DEF Earlier

LEMMA OfferStageType ==
  ASSUME HandlerOK, now \in 0 .. Horizon, NEW r \in Runs, NEW s \in Sessions,
         NEW k, NEW a \in 0 .. Off, OfferStage(r, s, k, a)
  PROVE  HandlerOK'
<1>1. CASE Finish(r, s, "timed_out")
  BY <1>1, FinishType DEF Terminal
<1>2. CASE ~ Finish(r, s, "timed_out")
  <2>1. k \in Stages
    BY <1>2 DEF OfferStage, OutOfStages
  <2>2. [s EXCEPT !.stage = k, !.offered = {}] \in Sessions
    BY <2>1 DEF Sessions
  <2>3. Earlier(Deadline, now + RingTime[k]) \in 0 .. Off
    BY <2>1, OfferEnd, Times DEF Off
  <2> QED BY <1>2, <2>2, <2>3 DEF OfferStage, Put, Await, HandlerOK, Labels
<1> QED BY <1>1, <1>2

LEMMA StepType ==
  ASSUME TypeOK, NEW r \in Runs, Step(r)
  PROVE  TypeOK'
<1> USE Halves DEF calling, records, outside, locals
<1>0. held[r] \in Sessions /\ now \in 0 .. Horizon /\ alarm \in 0 .. Off
  BY DEF HandlerOK, WorldOK
<1>1. CASE RouteRefused(r)
  BY <1>1, ReturnType DEF RouteRefused, HandlerOK, WorldOK, Events
<1>2. CASE RouteStart(r)
  BY <1>2 DEF RouteStart, Await, HandlerOK, WorldOK, Labels
<1>3. CASE Start(r)
  <2>1. CASE Return(r) /\ UNCHANGED <<session, alarm>>
    BY <1>3, <2>1, ReturnType DEF Start, HandlerOK, WorldOK, Events
  <2>2. CASE ~ (Return(r) /\ UNCHANGED <<session, alarm>>)
    BY <1>0, <1>3, <2>2, OfferStageType, FreshSession DEF Start, WorldOK
  <2> QED BY <2>1, <2>2
<1>4. CASE Vouch(r)
  BY <1>4 DEF Vouch, Await, HandlerOK, WorldOK, Labels
<1>5. CASE Ring(r)
  <2> DEFINE delivered == Group[held[r].stage] \cap live
  <2>1. delivered \in SUBSET Agents
    BY DEF WorldOK
  <2>2. rang' \in [Stages -> SUBSET Agents]
    BY <1>5, <2>1 DEF Ring, WorldOK
  <2> QED BY <1>5, <2>1, <2>2 DEF Ring, Await, HandlerOK, WorldOK, Labels
<1>6. CASE Resume(r)
  <2>1. CASE got[r] # {}
    <3>1. [held[r] EXCEPT !.offered = got[r]] \in Sessions
      BY <1>0 DEF HandlerOK, Sessions
    <3> QED BY <1>6, <2>1, <3>1 DEF Resume, Put, Await, HandlerOK, WorldOK, Labels
  <2>2. CASE got[r] = {}
    BY <1>0, <1>6, <2>2, OfferStageType DEF Resume, WorldOK
  <2> QED BY <2>1, <2>2
<1>7. CASE Announce(r)
  BY <1>7, ReturnType DEF Announce, HandlerOK, WorldOK
<1>8. CASE Close(r)
  BY <1>0, <1>8, ReturnType DEF Close, HandlerOK, WorldOK, Sessions, Terminal, Events
<1>9. CASE Vet(r)
  <2>1. CASE Return(r)
    BY <1>9, <2>1, ReturnType DEF Vet, HandlerOK, WorldOK
  <2>2. CASE ~ Return(r)
    BY <1>9, <2>2 DEF Vet, Await, HandlerOK, WorldOK, Labels
  <2> QED BY <2>1, <2>2
<1>10. CASE SignalTaken(r)
  <2>1. AcceptedBy(held[r], actor[r]) \in Sessions
    BY <1>0 DEF AcceptedBy, HandlerOK, Sessions, Terminal
  <2> QED BY <1>10, <2>1, Times DEF SignalTaken, Put, Await, HandlerOK, WorldOK, Labels
<1>11. CASE SignalFails(r)
  BY <1>11, ReturnType DEF SignalFails, HandlerOK, WorldOK
<1>12. CASE Record(r)
  BY <1>12, ReturnType DEF Record, HandlerOK, WorldOK, Events
<1>13. CASE HangUpAnswered(r)
  BY <1>0, <1>13, ReturnType, FinishType
     DEF HangUpAnswered, HandlerOK, WorldOK, Terminal
<1> QED BY <1>1, <1>2, <1>3, <1>4, <1>5, <1>6, <1>7, <1>8, <1>9, <1>10, <1>11,
           <1>12, <1>13 DEF Step

LEMMA CommandType ==
  ASSUME TypeOK, NEW r \in Requests, Command(r)
  PROVE  TypeOK'
<1> USE Halves DEF calling, records, outside, locals
<1>0. r \in Runs /\ session \in Sessions /\ now \in 0 .. Horizon /\ alarm \in 0 .. Off
  BY DEF HandlerOK, WorldOK, Runs
<1>1. CASE Webhook(r)
  BY <1>0, <1>1 DEF Webhook, Await, HandlerOK, WorldOK, Labels, Events
<1>2. ASSUME NEW a \in Agents, Accept(r, a)
      PROVE  TypeOK'
  BY <1>0, <1>2 DEF Accept, Await, HandlerOK, WorldOK, Labels
<1>3. ASSUME NEW a \in Agents, Reject(r, a)
      PROVE  TypeOK'
  <2> DEFINE rest == [session EXCEPT !.offered = @ \ {a}]
  <2>1. rest \in Sessions
    BY <1>0 DEF Sessions
  <2>2. CASE session' = rest /\ UNCHANGED <<alarm, locals>>
    BY <1>3, <2>1, <2>2 DEF Reject, HandlerOK, WorldOK
  <2>3. CASE OfferStage(r, rest, rest.stage + 1, alarm)
    <3>1. HandlerOK'
      BY <1>0, <2>1, <2>3, OfferStageType
    <3> QED BY <1>3, <3>1 DEF Reject, WorldOK
  <2> QED BY <1>3, <2>2, <2>3 DEF Reject
<1>4. ASSUME NEW a \in Agents, HangUp(r, a)
      PROVE  TypeOK'
  BY <1>0, <1>4 DEF HangUp, Await, HandlerOK, WorldOK, Labels
<1> QED BY <1>1, <1>2, <1>3, <1>4 DEF Command

LEMMA NextType == TypeOK /\ [Next]_vars => TypeOK'
<1> SUFFICES ASSUME TypeOK, [Next]_vars PROVE TypeOK'
  OBVIOUS
<1> USE Halves DEF calling, records, outside, locals
<1>1. ASSUME NEW r \in Requests, Command(r) PROVE TypeOK'
  BY <1>1, CommandType
<1>2. ASSUME NEW r \in Runs, Step(r) PROVE TypeOK'
  BY <1>2, StepType
<1>3. ASSUME NEW r \in Runs, Fault(r) PROVE TypeOK'
  <2>1. alarm' \in 0 .. Off
    BY <1>3, Times DEF Fault, HandlerOK, WorldOK
  <2>2. HandlerOK'
    BY <1>3, <2>1, ReturnType DEF Fault, HandlerOK
  <2>3. faults' \in 0 .. Faults
    BY <1>3, Times DEF Fault, WorldOK
  <2> QED BY <1>3, <2>2, <2>3 DEF Fault, WorldOK
<1>4. CASE AlarmFires
  <2>0. Alarm \in Runs /\ session \in Sessions /\ now \in 0 .. Horizon
    BY DEF Runs, HandlerOK, WorldOK
  <2>1. CASE session.state = "ringing"
    BY <1>4, <2>0, <2>1, OfferStageType, Times DEF AlarmFires, WorldOK
  <2>2. CASE session.state # "ringing"
    BY <1>4, <2>2, Times DEF AlarmFires, HandlerOK, WorldOK
  <2> QED BY <2>1, <2>2
<1>5. ASSUME NEW a \in Agents, Presence(a) PROVE TypeOK'
  BY <1>5 DEF Presence, HandlerOK, WorldOK
<1>6. CASE Tick
  <2>1. now' \in 0 .. Horizon
    BY <1>6, Times DEF Tick, WorldOK
  <2> QED BY <1>6, <2>1 DEF Tick, HandlerOK, WorldOK
<1>7. CASE UNCHANGED vars
  BY <1>7 DEF vars, HandlerOK, WorldOK
<1> QED BY <1>1, <1>2, <1>3, <1>4, <1>5, <1>6, <1>7 DEF Next

LEMMA InitType == Init => TypeOK
  BY FreshSession, Times, AgentAssumption DEF Init, TypeOK, Events, Labels

(* The handlers keep their types: no stage outside the queue is stored, no
   alarm or offer lies beyond the budget's horizon. *)
THEOREM CallTypeCorrect == Spec => []TypeOK
  BY InitType, NextType, PTL DEF Spec

-----------------------------------------------------------------------------
(* The inductive invariant.  What a handler holds across an await is a copy   *)
(* of the session, which others may overtake: the facts that survive are the  *)
(* ones that stay true of an old copy, because agents that were rung stay     *)
(* rung and the provider connects one accept only.                            *)

Rung(s) == s.state = "ringing" =>
  \A a \in s.offered : s.stage \in Stages /\ a \in rang[s.stage]
Won(s) == s.state \in {"accepted", "terminated"} =>
  s.winner = answerer /\ answerer # Nobody
Backed(s) == Rung(s) /\ Won(s)

Offering == {"dispatch", "ring", "dispatched", "announce"}
Reached(r) == IF pc[r] \in {"dispatched", "announce"} THEN rang[held[r].stage] ELSE {}

Local(r) ==
  /\ Backed(held[r])
  /\ until[r] <= Deadline
  /\ pc[r] \in Offering => held[r].stage \in Stages /\ held[r].state = "ringing"
  /\ got[r] \subseteq Reached(r)
  /\ pc[r] \in {"vet", "signal"} => \E k \in Stages : actor[r] \in rang[k]
  /\ pc[r] = "record" => actor[r] = answerer /\ answerer # Nobody
  /\ pc[r] = "close" => held[r].state \in {"timed_out", "terminated"}
  /\ pc[r] = "hangup" => held[r].state = "accepted"

Recorded ==
  /\ AnswererWasRung
  /\ assignee # Nobody => assignee = answerer
  /\ event = "accepted" => answerer # Nobody

CallInv ==
  /\ Backed(session)
  /\ Recorded
  /\ OffersInBudget
  /\ \A r \in Runs : Local(r)

(* Nobody is un-rung, and the provider's answer is never taken back. *)
Onward ==
  /\ \A k \in Stages : rang[k] \subseteq rang'[k]
  /\ answerer' = answerer \/ answerer = Nobody

(* Only handler r moves. *)
OnlyMoves(r) ==
  \A q \in Runs \ {r} :
    /\ pc'[q] = pc[q] /\ actor'[q] = actor[q] /\ held'[q] = held[q]
    /\ until'[q] = until[q] /\ got'[q] = got[q]

LEMMA BackedStays ==
  ASSUME Onward, NEW s \in Sessions, Backed(s)
  PROVE  Backed(s)'
<1>1. Rung(s)'
  BY DEF Backed, Rung, Onward
<1>2. Won(s)'
  BY DEF Backed, Won, Onward
<1> QED BY <1>1, <1>2 DEF Backed

LEMMA SameWorldIsOnward ==
  ASSUME UNCHANGED <<rang, answerer>>
  PROVE  Onward
BY DEF Onward

LEMMA OthersStay ==
  ASSUME TypeOK, CallInv, Onward, NEW r \in Runs, OnlyMoves(r),
         NEW q \in Runs, q # r
  PROVE  Local(q)'
<1>0. Local(q) /\ held[q] \in Sessions
  BY DEF CallInv, TypeOK
<1>1. pc'[q] = pc[q] /\ actor'[q] = actor[q] /\ held'[q] = held[q]
      /\ until'[q] = until[q] /\ got'[q] = got[q]
  BY DEF OnlyMoves
<1>2. Backed(held[q])'
  <2>1. Rung(held[q])'
    BY <1>0, <1>1 DEF Local, Backed, Rung, Onward
  <2>2. Won(held[q])'
    BY <1>0, <1>1 DEF Local, Backed, Won, Onward
  <2> QED BY <2>1, <2>2 DEF Backed
<1>3. got'[q] \subseteq Reached(q)'
  BY <1>0, <1>1 DEF Local, Reached, Offering, Onward
<1>4. pc'[q] \in {"vet", "signal"} => \E k \in Stages : actor'[q] \in rang'[k]
  BY <1>0, <1>1 DEF Local, Onward
<1>5. pc'[q] = "record" => actor'[q] = answerer' /\ answerer' # Nobody
  BY <1>0, <1>1 DEF Local, Onward
<1> QED BY <1>0, <1>1, <1>2, <1>3, <1>4, <1>5 DEF Local

(* A handler that returns holds nothing. *)
LEMMA ReturnLocal ==
  ASSUME TypeOK, NEW r \in Runs, Return(r)
  PROVE  Local(r)' /\ OnlyMoves(r)
<1>1. pc'[r] = "idle" /\ held'[r] = NoSession /\ until'[r] = 0 /\ got'[r] = {}
  BY DEF Return, TypeOK
<1>2. Backed(held[r])'
  BY <1>1 DEF Backed, Rung, Won, NoSession
<1>3. OnlyMoves(r)
  BY DEF Return, OnlyMoves, TypeOK
<1> QED BY <1>1, <1>2, <1>3, Times DEF Local, Reached, Offering

LEMMA FinishLocal ==
  ASSUME TypeOK, CallInv, NEW r \in Runs, NEW s \in Sessions, Backed(s),
         NEW outcome \in {"timed_out", "terminated"}, Finish(r, s, outcome),
         outcome = "terminated" => s.state = "accepted",
         got[r] = {}, UNCHANGED <<rang, answerer>>
  PROVE  Backed(session)' /\ Local(r)' /\ OnlyMoves(r)
<1> DEFINE t == [s EXCEPT !.state = outcome, !.offered = {}]
<1>1. CASE Return(r) /\ UNCHANGED <<session, alarm>>
  BY <1>1, ReturnLocal DEF CallInv, Backed, Rung, Won
<1>2. CASE ~ (Return(r) /\ UNCHANGED <<session, alarm>>)
  <2>1. session' = t /\ held' = [held EXCEPT ![r] = t]
        /\ pc' = [pc EXCEPT ![r] = "close"] /\ UNCHANGED <<actor, until, got>>
    BY <1>2 DEF Finish, Put, Await
  <2>2. t.state = outcome /\ t.offered = {} /\ t.winner = s.winner
    BY DEF Sessions
  <2>3. Backed(session)' /\ Backed(held[r])'
    BY <2>1, <2>2 DEF Backed, Rung, Won, TypeOK
  <2>4. OnlyMoves(r)
    BY <2>1 DEF OnlyMoves, TypeOK
  <2>5. pc'[r] = "close" /\ held'[r] = t
    BY <2>1 DEF TypeOK
  <2> QED BY <2>1, <2>2, <2>3, <2>4, <2>5 DEF Local, CallInv, Reached, Offering
<1> QED BY <1>1, <1>2

LEMMA OfferStageLocal ==
  ASSUME TypeOK, CallInv, NEW r \in Runs, NEW s \in Sessions, Backed(s),
         s.state = "ringing", NEW k, NEW a, OfferStage(r, s, k, a),
         got[r] = {}, UNCHANGED <<rang, answerer>>
  PROVE  Backed(session)' /\ Local(r)' /\ OnlyMoves(r)
<1>1. CASE Finish(r, s, "timed_out")
  BY <1>1, FinishLocal
<1>2. CASE ~ Finish(r, s, "timed_out")
  <2> DEFINE t == [s EXCEPT !.stage = k, !.offered = {}]
             u == Earlier(Deadline, now + RingTime[k])
  <2>1. k \in Stages /\ session' = t /\ held' = [held EXCEPT ![r] = t]
        /\ pc' = [pc EXCEPT ![r] = "dispatch"] /\ until' = [until EXCEPT ![r] = u]
        /\ UNCHANGED <<actor, got>>
    BY <1>2 DEF OfferStage, OutOfStages, Put, Await
  <2>2. t.state = "ringing" /\ t.offered = {} /\ t.stage = k
    BY DEF Sessions
  <2>3. u <= Deadline
    BY <2>1, OfferEnd, Times DEF TypeOK
  <2>4. Backed(session)' /\ Backed(held[r])'
    BY <2>1, <2>2 DEF Backed, Rung, Won, TypeOK
  <2>5. pc'[r] = "dispatch" /\ held'[r] = t /\ until'[r] = u /\ got'[r] = {}
    BY <2>1 DEF TypeOK
  <2>6. OnlyMoves(r)
    BY <2>1 DEF OnlyMoves, TypeOK
  <2> QED BY <2>1, <2>2, <2>3, <2>4, <2>5, <2>6 DEF Local, Reached, Offering
<1> QED BY <1>1, <1>2

LEMMA Together ==
  ASSUME TypeOK, CallInv, Onward, NEW r \in Runs, OnlyMoves(r), Local(r)',
         Backed(session)', Recorded', OffersInBudget'
  PROVE  CallInv'
<1>1. \A q \in Runs : Local(q)'
  BY OthersStay
<1> QED BY <1>1 DEF CallInv

(* A step of one handler that touches neither the records nor the provider. *)
LEMMA Quiet ==
  ASSUME TypeOK, CallInv, NEW r \in Runs, OnlyMoves(r), Local(r)', Backed(session)',
         UNCHANGED <<event, assignee, answerer, rang, lastOffer>>
  PROVE  CallInv'
<1>1. Recorded' /\ OffersInBudget'
  BY DEF CallInv, Recorded, AnswererWasRung, OffersInBudget
<1> QED BY <1>1, Together, SameWorldIsOnward

LEMMA StepKeeps ==
  ASSUME TypeOK, CallInv, NEW r \in Runs, Step(r)
  PROVE  CallInv'
<1> USE DEF calling, records, outside, locals
<1>0. /\ Local(r) /\ Backed(session) /\ Recorded /\ OffersInBudget
      /\ held[r] \in Sessions /\ session \in Sessions
  BY DEF CallInv, TypeOK
<1>1. CASE RouteRefused(r)
  <2>1. Local(r)' /\ OnlyMoves(r)
    BY <1>1, ReturnLocal DEF RouteRefused
  <2>2. Backed(session)' /\ Recorded' /\ OffersInBudget'
    BY <1>0, <1>1 DEF RouteRefused, Backed, Rung, Won, Recorded, AnswererWasRung, OffersInBudget
  <2> QED BY <1>1, <2>1, <2>2, Together, SameWorldIsOnward DEF RouteRefused
<1>2. CASE RouteStart(r)
  <2>1. OnlyMoves(r) /\ pc'[r] = "start"
    BY <1>2 DEF RouteStart, Await, OnlyMoves, TypeOK
  <2>2. Local(r)' /\ Backed(session)'
    BY <1>0, <1>2, <2>1 DEF RouteStart, Local, Backed, Rung, Won, Reached, Offering
  <2> QED BY <1>2, <2>1, <2>2, Quiet DEF RouteStart
<1>3. CASE Start(r)
  <2> DEFINE fresh == [NoSession EXCEPT !.state = "ringing"]
  <2>1. CASE event' = "failed" /\ Return(r) /\ UNCHANGED calling
    <3>1. Local(r)' /\ OnlyMoves(r)
      BY <2>1, ReturnLocal
    <3>2. Backed(session)' /\ Recorded' /\ OffersInBudget'
      BY <1>0, <1>3, <2>1 DEF Start, Backed, Rung, Won, Recorded, AnswererWasRung, OffersInBudget
    <3> QED BY <1>3, <3>1, <3>2, Together, SameWorldIsOnward DEF Start
  <2>2. CASE OfferStage(r, fresh, 1, alarm) /\ UNCHANGED event
    <3>1. fresh \in Sessions /\ fresh.state = "ringing" /\ fresh.offered = {}
      BY FreshSession DEF NoSession
    <3>2. Backed(fresh)
      BY <3>1 DEF Backed, Rung, Won
    <3>3. got[r] = {}
      BY <1>0, <1>3 DEF Start, Local, Reached
    <3>4. UNCHANGED <<rang, answerer, assignee, lastOffer>>
      BY <1>3 DEF Start
    <3> HIDE DEF fresh
    <3>5. Backed(session)' /\ Local(r)' /\ OnlyMoves(r)
      BY <2>2, <3>1, <3>2, <3>3, <3>4, OfferStageLocal
    <3> QED BY <2>2, <3>4, <3>5, Quiet
  <2> QED BY <1>3, <2>1, <2>2 DEF Start
<1>4. CASE Vouch(r)
  <2>1. OnlyMoves(r) /\ pc'[r] \in {"ring", "dispatched"} /\ pc[r] = "dispatch"
        /\ UNCHANGED <<held, until, got, actor, rang, answerer, session, event, assignee>>
    BY <1>4 DEF Vouch, Await, OnlyMoves, TypeOK
  <2>2. Local(r)' /\ Backed(session)'
    BY <1>0, <2>1 DEF Local, Backed, Rung, Won, Reached, Offering
  <2>3. OffersInBudget'
    BY <1>0, <1>4, Times DEF Vouch, Unexpired, Local, OffersInBudget, TypeOK
  <2>4. Recorded'
    BY <1>0, <2>1 DEF Recorded, AnswererWasRung
  <2> QED BY <2>1, <2>2, <2>3, <2>4, Together, SameWorldIsOnward
<1>5. CASE Ring(r)
  <2> DEFINE delivered == Group[held[r].stage] \cap live
             k == held[r].stage
  <2>1. OnlyMoves(r) /\ pc'[r] = "dispatched" /\ got'[r] = delivered
    BY <1>5 DEF Ring, Await, OnlyMoves, TypeOK
  <2>2. k \in Stages /\ rang' = [rang EXCEPT ![k] = @ \cup delivered]
    BY <1>0, <1>5 DEF Ring, Local, Offering
  <2>3. Onward /\ delivered \subseteq rang'[k]
    BY <1>5, <2>2 DEF Ring, Onward, TypeOK
  <2>4. UNCHANGED <<held, until, actor, answerer, session, event, assignee, lastOffer>>
    BY <1>5 DEF Ring
  <2>5. Backed(session)' /\ Backed(held[r])'
    <3>1. \A s \in Sessions : Backed(s) => Backed(s)'
      BY <2>3, BackedStays
    <3> QED BY <1>0, <2>3, <2>4 DEF Local, Backed, Rung, Won, Onward
  <2>6. Local(r)'
    <3>1. pc[r] = "ring" /\ held'[r] = held[r] /\ held[r].state = "ringing"
      BY <1>0, <1>5, <2>4 DEF Ring, Local, Offering
    <3>2. got'[r] \subseteq Reached(r)'
      BY <2>1, <2>3, <3>1 DEF Reached
    <3> QED BY <1>0, <2>1, <2>2, <2>4, <2>5, <3>1, <3>2 DEF Local, Offering
  <2>7. Recorded' /\ OffersInBudget'
    BY <1>0, <2>3, <2>4 DEF Recorded, AnswererWasRung, OffersInBudget, Onward
  <2> QED BY <2>1, <2>3, <2>5, <2>6, <2>7, Together
<1>6. CASE Resume(r)
  <2>1. CASE got[r] # {}
    <3> DEFINE t == [held[r] EXCEPT !.offered = got[r]]
    <3>1. session' = t /\ held' = [held EXCEPT ![r] = t]
          /\ pc' = [pc EXCEPT ![r] = "announce"] /\ pc[r] = "dispatched"
          /\ UNCHANGED <<actor, until, got, rang, answerer, event, assignee, lastOffer>>
      BY <1>6, <2>1 DEF Resume, Put, Await
    <3>2. t.state = held[r].state /\ t.winner = held[r].winner
          /\ t.stage = held[r].stage /\ t.offered = got[r]
      BY <1>0 DEF Sessions
    <3>3. t.stage \in Stages /\ got[r] \subseteq rang[t.stage]
      BY <1>0, <3>1, <3>2 DEF Local, Reached, Offering
    <3>4. Backed(session)' /\ Backed(held[r])'
      BY <1>0, <3>1, <3>2, <3>3 DEF Local, Backed, Rung, Won, TypeOK
    <3>5. OnlyMoves(r) /\ pc'[r] = "announce" /\ held'[r] = t
      BY <3>1 DEF OnlyMoves, TypeOK
    <3>6. Local(r)'
      BY <1>0, <3>1, <3>2, <3>3, <3>4, <3>5 DEF Local, Reached, Offering
    <3> QED BY <3>1, <3>4, <3>5, <3>6, Quiet
  <2>2. CASE got[r] = {}
    <3>1. UNCHANGED <<rang, answerer, event, assignee, lastOffer>>
          /\ OfferStage(r, held[r], held[r].stage + 1, alarm)
      BY <1>6, <2>2 DEF Resume
    <3>2. held[r].state = "ringing" /\ Backed(held[r])
      BY <1>0, <1>6 DEF Local, Offering, Resume
    <3>3. Backed(session)' /\ Local(r)' /\ OnlyMoves(r)
      BY <1>0, <2>2, <3>1, <3>2, OfferStageLocal
    <3> QED BY <3>1, <3>3, Quiet
  <2> QED BY <2>1, <2>2
<1>7. CASE Announce(r)
  <2>1. Local(r)' /\ OnlyMoves(r)
    BY <1>7, ReturnLocal DEF Announce
  <2>2. Backed(session)'
    BY <1>0, <1>7 DEF Announce, Backed, Rung, Won
  <2> QED BY <1>7, <2>1, <2>2, Quiet DEF Announce
<1>8. CASE Close(r)
  <2>1. Local(r)' /\ OnlyMoves(r)
    BY <1>8, ReturnLocal DEF Close
  <2>2. event' # "accepted"
    BY <1>0, <1>8 DEF Close, Local
  <2>3. Backed(session)' /\ Recorded' /\ OffersInBudget'
    BY <1>0, <1>8, <2>2 DEF Close, Backed, Rung, Won, Recorded, AnswererWasRung, OffersInBudget
  <2> QED BY <1>8, <2>1, <2>3, Together, SameWorldIsOnward DEF Close
<1>9. CASE Vet(r)
  <2>0. Backed(session)'
    BY <1>0, <1>9 DEF Vet, Backed, Rung, Won
  <2>1. CASE Return(r)
    BY <1>9, <2>0, <2>1, ReturnLocal, Quiet DEF Vet
  <2>2. CASE ~ Return(r)
    <3>1. OnlyMoves(r) /\ pc[r] = "vet" /\ pc'[r] = "signal"
          /\ UNCHANGED <<held, until, got, actor, rang, answerer, session>>
      BY <1>9, <2>2 DEF Vet, Await, OnlyMoves, TypeOK
    <3>2. Local(r)'
      BY <1>0, <3>1 DEF Local, Backed, Rung, Won, Reached, Offering
    <3> QED BY <1>9, <2>0, <3>1, <3>2, Quiet DEF Vet
  <2> QED BY <2>1, <2>2
<1>10. CASE SignalTaken(r)
  <2> DEFINE t == AcceptedBy(held[r], actor[r])
  <2>1. /\ answerer = Nobody /\ answerer' = actor[r] /\ pc[r] = "signal"
        /\ session' = t /\ held' = [held EXCEPT ![r] = t]
        /\ pc' = [pc EXCEPT ![r] = "record"]
        /\ UNCHANGED <<actor, until, got, rang, event, assignee, lastOffer>>
    BY <1>10 DEF SignalTaken, Put, Await
  <2>2. t.state = "accepted" /\ t.winner = actor[r]
    BY <1>0 DEF AcceptedBy, Sessions
  <2>3. PICK k \in Stages : actor[r] \in rang[k]
    BY <1>0, <2>1 DEF Local
  <2>4. actor[r] # Nobody
    BY <2>3, AgentAssumption DEF TypeOK
  <2>5. Onward
    BY <2>1 DEF Onward
  <2>6. OnlyMoves(r) /\ pc'[r] = "record" /\ held'[r] = t
    BY <2>1 DEF OnlyMoves, TypeOK
  <2>7. Backed(session)' /\ Backed(held[r])'
    BY <2>1, <2>2, <2>4, <2>6 DEF Backed, Rung, Won
  <2>8. Local(r)'
    BY <1>0, <2>1, <2>4, <2>6, <2>7 DEF Local, Reached, Offering
  <2>9. Recorded' /\ OffersInBudget'
    BY <1>0, <2>1, <2>3, <2>4 DEF Recorded, AnswererWasRung, OffersInBudget
  <2> QED BY <2>5, <2>6, <2>7, <2>8, <2>9, Together
<1>11. CASE SignalFails(r)
  <2>1. Local(r)' /\ OnlyMoves(r)
    BY <1>11, ReturnLocal DEF SignalFails
  <2>2. Onward
    BY <1>11 DEF SignalFails, Onward
  <2>3. Backed(session)'
    BY <1>0, <1>11, <2>2 DEF SignalFails, Backed, Rung, Won, Onward
  <2>4. Recorded' /\ OffersInBudget'
    BY <1>0, <1>11 DEF SignalFails, Local, Recorded, AnswererWasRung, OffersInBudget
  <2> QED BY <2>1, <2>2, <2>3, <2>4, Together
<1>12. CASE Record(r)
  <2>1. Local(r)' /\ OnlyMoves(r)
    BY <1>12, ReturnLocal DEF Record
  <2>2. Backed(session)' /\ Recorded' /\ OffersInBudget'
    BY <1>0, <1>12 DEF Record, Local, Backed, Rung, Won, Recorded, AnswererWasRung, OffersInBudget
  <2> QED BY <1>12, <2>1, <2>2, Together, SameWorldIsOnward DEF Record
<1>13. CASE HangUpAnswered(r)
  <2>1. UNCHANGED <<rang, answerer, event, assignee, lastOffer>>
    BY <1>13 DEF HangUpAnswered
  <2>2. CASE Finish(r, held[r], "terminated")
    <3>1. got[r] = {} /\ held[r].state = "accepted"
      BY <1>0, <1>13 DEF HangUpAnswered, Local, Reached
    <3>2. Backed(session)' /\ Local(r)' /\ OnlyMoves(r)
      BY <1>0, <2>1, <2>2, <3>1, FinishLocal DEF Local
    <3> QED BY <2>1, <3>2, Quiet
  <2>3. CASE Return(r) /\ UNCHANGED calling
    <3>1. Backed(session)'
      BY <1>0, <2>1, <2>3 DEF Backed, Rung, Won
    <3> QED BY <2>1, <2>3, <3>1, ReturnLocal, Quiet
  <2> QED BY <1>13, <2>2, <2>3 DEF HangUpAnswered
<1> QED BY <1>1, <1>2, <1>3, <1>4, <1>5, <1>6, <1>7, <1>8, <1>9, <1>10, <1>11,
           <1>12, <1>13 DEF Step

LEMMA CommandKeeps ==
  ASSUME TypeOK, CallInv, NEW r \in Requests, Command(r)
  PROVE  CallInv'
<1> USE DEF calling, records, outside, locals
<1>0. /\ r \in Runs /\ Local(r) /\ Backed(session) /\ Recorded /\ OffersInBudget
      /\ held[r] \in Sessions /\ session \in Sessions
  BY DEF CallInv, TypeOK, Runs
<1>1. CASE Webhook(r)
  <2>1. /\ OnlyMoves(r) /\ pc[r] = "idle" /\ pc'[r] = "route" /\ event' = "ringing"
        /\ UNCHANGED <<session, actor, held, until, got, rang, answerer, assignee, lastOffer>>
    BY <1>0, <1>1 DEF Webhook, Await, OnlyMoves, TypeOK
  <2>2. Local(r)' /\ Backed(session)'
    BY <1>0, <2>1 DEF Local, Backed, Rung, Won, Reached, Offering
  <2>3. Recorded' /\ OffersInBudget'
    BY <1>0, <2>1 DEF Recorded, AnswererWasRung, OffersInBudget
  <2> QED BY <1>0, <2>1, <2>2, <2>3, Together, SameWorldIsOnward
<1>2. ASSUME NEW a \in Agents, Accept(r, a)
      PROVE  CallInv'
  <2>1. /\ OnlyMoves(r) /\ pc[r] = "idle" /\ pc'[r] = "vet"
        /\ held'[r] = session /\ actor'[r] = a
        /\ session.state = "ringing" /\ a \in session.offered
        /\ UNCHANGED <<session, until, got, rang, answerer, event, assignee, lastOffer>>
    BY <1>0, <1>2 DEF Accept, MayAccept, Await, OnlyMoves, TypeOK
  <2>2. session.stage \in Stages /\ a \in rang[session.stage]
    BY <1>0, <2>1 DEF Backed, Rung
  <2>3. Local(r)' /\ Backed(session)'
    BY <1>0, <2>1, <2>2 DEF Local, Backed, Rung, Won, Reached, Offering
  <2> QED BY <1>0, <2>1, <2>3, Quiet
<1>3. ASSUME NEW a \in Agents, Reject(r, a)
      PROVE  CallInv'
  <2> DEFINE rest == [session EXCEPT !.offered = @ \ {a}]
  <2>1. /\ pc[r] = "idle" /\ session.state = "ringing"
        /\ UNCHANGED <<rang, answerer, event, assignee, lastOffer>>
    BY <1>3 DEF Reject
  <2>2. /\ rest \in Sessions /\ rest.state = "ringing" /\ rest.stage = session.stage
        /\ rest.offered \subseteq session.offered
    BY <1>0, <2>1 DEF Sessions
  <2>3. Backed(rest)
    BY <1>0, <2>1, <2>2 DEF Backed, Rung, Won
  <2>4. CASE session' = rest /\ UNCHANGED <<alarm, locals>>
    <3>1. Local(r)' /\ OnlyMoves(r)
      BY <1>0, <2>1, <2>4 DEF Local, Backed, Rung, Won, Reached, OnlyMoves
    <3>2. Backed(session)'
      BY <2>1, <2>3, <2>4 DEF Backed, Rung, Won
    <3> QED BY <1>0, <2>1, <3>1, <3>2, Quiet
  <2>5. CASE OfferStage(r, rest, rest.stage + 1, alarm)
    <3>1. got[r] = {}
      BY <1>0, <2>1 DEF Local, Reached
    <3> HIDE DEF rest
    <3>2. Backed(session)' /\ Local(r)' /\ OnlyMoves(r)
      BY <1>0, <2>1, <2>2, <2>3, <2>5, <3>1, OfferStageLocal
    <3> QED BY <1>0, <2>1, <3>2, Quiet
  <2> QED BY <1>3, <2>4, <2>5 DEF Reject
<1>4. ASSUME NEW a \in Agents, HangUp(r, a)
      PROVE  CallInv'
  <2>1. /\ OnlyMoves(r) /\ pc[r] = "idle" /\ pc'[r] = "hangup"
        /\ held'[r] = session /\ session.state = "accepted"
        /\ UNCHANGED <<session, until, got, rang, answerer, event, assignee, lastOffer>>
    BY <1>0, <1>4 DEF HangUp, Await, OnlyMoves, TypeOK
  <2>2. Local(r)' /\ Backed(session)'
    BY <1>0, <2>1 DEF Local, Backed, Rung, Won, Reached, Offering
  <2> QED BY <1>0, <2>1, <2>2, Quiet
<1> QED BY <1>1, <1>2, <1>3, <1>4 DEF Command

LEMMA FaultKeeps ==
  ASSUME TypeOK, CallInv, NEW r \in Runs, Fault(r)
  PROVE  CallInv'
<1>1. UNCHANGED <<session, event, assignee, answerer, rang, lastOffer>>
  BY DEF Fault, records, outside
<1>2. Local(r)' /\ OnlyMoves(r)
  BY ReturnLocal DEF Fault
<1>3. Backed(session)'
  BY <1>1 DEF CallInv, Backed, Rung, Won
<1> QED BY <1>1, <1>2, <1>3, Quiet

LEMMA AlarmKeeps ==
  ASSUME TypeOK, CallInv, AlarmFires
  PROVE  CallInv'
<1>0. /\ Alarm \in Runs /\ Local(Alarm) /\ Backed(session) /\ session \in Sessions
      /\ pc[Alarm] = "idle"
  BY DEF CallInv, TypeOK, Runs, AlarmFires
<1>1. UNCHANGED <<rang, answerer, event, assignee, lastOffer>>
  BY DEF AlarmFires, records, outside
<1>2. CASE session.state = "ringing"
  <2>1. got[Alarm] = {}
    BY <1>0 DEF Local, Reached
  <2>2. OfferStage(Alarm, session, session.stage + 1, Off)
    BY <1>2 DEF AlarmFires
  <2>3. Backed(session)' /\ Local(Alarm)' /\ OnlyMoves(Alarm)
    BY <1>0, <1>1, <1>2, <2>1, <2>2, OfferStageLocal
  <2> QED BY <1>0, <1>1, <2>3, Quiet
<1>3. CASE session.state # "ringing"
  <2>1. UNCHANGED <<session, pc, actor, held, until, got>>
    BY <1>3 DEF AlarmFires, locals
  <2>2. Local(Alarm)' /\ OnlyMoves(Alarm) /\ Backed(session)'
    BY <1>0, <1>1, <2>1 DEF Local, Backed, Rung, Won, Reached, Offering, OnlyMoves
  <2> QED BY <1>0, <1>1, <2>2, Quiet
<1> QED BY <1>2, <1>3

(* What leaves the session, the handlers and the records alone. *)
LEMMA IdleKeeps ==
  ASSUME TypeOK, CallInv,
         UNCHANGED <<session, event, assignee, answerer, rang, lastOffer, locals>>
  PROVE  CallInv'
<1>1. Alarm \in Runs /\ Local(Alarm) /\ Backed(session)
  BY DEF CallInv, Runs
<1>2. Local(Alarm)' /\ OnlyMoves(Alarm) /\ Backed(session)'
  BY <1>1 DEF Local, Backed, Rung, Won, Reached, Offering, OnlyMoves, locals
<1> QED BY <1>1, <1>2, Quiet

LEMMA NextKeeps == TypeOK /\ CallInv /\ [Next]_vars => CallInv'
<1> SUFFICES ASSUME TypeOK, CallInv, [Next]_vars PROVE CallInv'
  OBVIOUS
<1>1. ASSUME NEW r \in Requests, Command(r) PROVE CallInv'
  BY <1>1, CommandKeeps
<1>2. ASSUME NEW r \in Runs, Step(r) PROVE CallInv'
  BY <1>2, StepKeeps
<1>3. ASSUME NEW r \in Runs, Fault(r) PROVE CallInv'
  BY <1>3, FaultKeeps
<1>4. CASE AlarmFires
  BY <1>4, AlarmKeeps
<1>5. ASSUME NEW a \in Agents, Presence(a) PROVE CallInv'
  BY <1>5, IdleKeeps DEF Presence, calling, records
<1>6. CASE Tick
  BY <1>6, IdleKeeps DEF Tick, calling, records, outside
<1>7. CASE UNCHANGED vars
  BY <1>7, IdleKeeps DEF vars, calling, records, outside
<1> QED BY <1>1, <1>2, <1>3, <1>4, <1>5, <1>6, <1>7 DEF Next

LEMMA InitInv == Init => CallInv
<1> SUFFICES ASSUME Init PROVE CallInv
  OBVIOUS
<1>1. Backed(session) /\ Recorded /\ OffersInBudget
  BY Times DEF Init, Backed, Rung, Won, NoSession, Recorded, AnswererWasRung, OffersInBudget
<1>2. ASSUME NEW r \in Runs PROVE Local(r)
  BY Times DEF Init, Local, Backed, Rung, Won, NoSession, Reached, Offering
<1> QED BY <1>1, <1>2 DEF CallInv

(* The invariant above holds of every reachable state. *)
THEOREM CallInvariant == Spec => []CallInv
  BY InitType, NextType, InitInv, NextKeeps, PTL DEF Spec

-----------------------------------------------------------------------------
(* The properties.                                                          *)

(* Whoever the session would let accept was rung for the stage the session is
   in, whatever copies of the session the handlers that overlap store: the
   offered set never comes from the configuration (call-session-do.ts:140). *)
THEOREM OnlyTheRungMayAccept == Spec => []OfferedWereRung
<1>1. TypeOK /\ CallInv => OfferedWereRung
  BY StageAssumption DEF CallInv, Backed, Rung, OfferedWereRung
<1> QED BY <1>1, CallTypeCorrect, CallInvariant, PTL

(* The provider is asked to connect only an agent this call rang for, however
   far the session moved on while the agent was vetted. *)
THEOREM OnlyTheRungAnswer == Spec => []AnswererWasRung
<1>1. CallInv => AnswererWasRung
  BY DEF CallInv, Recorded
<1> QED BY <1>1, CallInvariant, PTL

(* The conversation's assignee, the accepted row and the session's winner all
   name the one agent whose accept the provider took, although three stores
   are written by handlers that overtake one another. *)
THEOREM OneWinner == Spec => []WinnerAnswered
<1>1. CallInv => WinnerAnswered
  BY DEF CallInv, Backed, Won, Recorded, WinnerAnswered
<1> QED BY <1>1, CallInvariant, PTL

(* No offer is taken up when the queue's budget is spent, however late the
   session, the alarm or the dispatcher runs. *)
THEOREM NoLateOffer == Spec => []OffersInBudget
<1>1. CallInv => OffersInBudget
  BY DEF CallInv
<1> QED BY <1>1, CallInvariant, PTL

===============================================================================
