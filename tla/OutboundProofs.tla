---------------------------- MODULE OutboundProofs ----------------------------
(***************************************************************************)
(* Theorems about OutboundDelivery, for every set of messages and          *)
(* invocations, every lease, invocation lifetime and crash budget.         *)
(***************************************************************************)
EXTENDS OutboundDelivery, TLAPS

-----------------------------------------------------------------------------
(* Type correctness. *)

LEMMA AnyMessageIsOne == AnyMessage \in Messages
  BY ProcAssumption DEF AnyMessage

LEMMA PartTypes ==
  /\ \A k \in Parts : k \in Nat /\ k >= 1
  /\ \A m \in Messages : PartCount[m] \in Parts
  /\ \A k \in Parts, j \in Nat : j >= 1 /\ j <= k => j \in Parts
<1>1. \A k \in Parts : k \in Nat /\ k >= 1
  BY PartAssumption
<1>2. \A m \in Messages : PartCount[m] \in Parts
  BY PartAssumption
<1>3. ASSUME NEW k \in Parts, NEW j \in Nat, j >= 1, j <= k
      PROVE  j \in Parts
  <2>1. j \in 1 .. k
    BY <1>1, <1>3
  <2> QED BY <2>1, PartAssumption
<1> QED BY <1>1, <1>2, <1>3

LEMMA CappedType ==
  ASSUME NEW cap \in Nat, NEW n \in 0 .. cap
  PROVE  Capped(n, cap) \in 0 .. cap
  BY DEF Capped

LEMMA Ranges ==
  /\ AgeCap \in Nat /\ ClaimCap \in Nat /\ DueCap \in Nat
  /\ 0 \in 0 .. AgeCap /\ 0 \in 0 .. ClaimCap /\ 0 \in 0 .. MaxAttempts
  /\ 0 \in 0 .. DueCap /\ 1 \in 0 .. DueCap
  /\ \A n \in 0 .. MaxLife : n \in 0 .. ClaimCap
  BY BoundAssumption DEF AgeCap, ClaimCap, DueCap

(* Going on and returning keep the types of the invocations' locals. *)
LEMMA ProceedType ==
  ASSUME ProcTypeOK, NEW p \in Procs, NEW l \in Labels, Proceed(p, l)
  PROVE  ProcTypeOK' /\ confirmed' = confirmed
  BY DEF ProcTypeOK, Proceed, Goto

LEMMA ExitType ==
  ASSUME ProcTypeOK, NEW p \in Procs, Exit(p)
  PROVE  ProcTypeOK'
<1>1. [m \in Messages |-> 0] \in [Messages -> 0 .. MaxAttempts]
  BY BoundAssumption
<1>2. 1 \in Parts
  BY PartAssumption
<1>3. 0 \in 0 .. MaxLife
  BY BoundAssumption
<1> QED BY <1>1, <1>2, <1>3, AnyMessageIsOne
        DEF ProcTypeOK, Exit, Goto, Labels, Callers, Statuses

LEMMA ReturnType ==
  ASSUME ProcTypeOK, WorldTypeOK, NEW p \in Procs, NEW o, Return(p, o)
  PROVE  ProcTypeOK' /\ confirmed' \in SUBSET Messages
<1>1. CASE Exit(p) /\ confirmed' = IF o = "ok" THEN confirmed \cup {msg[p]} ELSE confirmed
  BY <1>1, ExitType DEF ProcTypeOK, WorldTypeOK
<1>2. CASE \E l \in Labels : Proceed(p, l)
  BY <1>2, ProceedType DEF WorldTypeOK
<1> QED BY <1>1, <1>2 DEF Return, Labels

LEMMA WriteType ==
  ASSUME IntentTypeOK, NEW m \in Messages, NEW s \in Statuses, WriteStatus(m, s)
  PROVE  IntentTypeOK'
  BY Ranges DEF IntentTypeOK, WriteStatus

LEMMA NewRowType ==
  ASSUME RowTypeOK, NEW m \in Messages, NEW d \in {0, 1}, NewRow(m, d)
  PROVE  RowTypeOK'
  BY Ranges DEF RowTypeOK, NewRow

LEMMA DeleteRowType ==
  ASSUME RowTypeOK, NEW m \in Messages, DeleteRow(m),
         failures' \in [Messages -> 0 .. MaxAttempts]
  PROVE  RowTypeOK'
  BY Ranges DEF RowTypeOK, DeleteRow

LEMMA ReleaseRowType ==
  ASSUME RowTypeOK, NEW m \in Messages, NEW a \in 0 .. MaxAttempts,
         ReleaseRow(m, a), failures' \in [Messages -> 0 .. MaxAttempts]
  PROVE  RowTypeOK'
  BY Ranges DEF RowTypeOK, ReleaseRow

LEMMA TakenType ==
  ASSUME ProcTypeOK, WorldTypeOK, NEW p \in Procs, Taken(p)
  PROVE  delivered' \in [Messages -> [Parts -> 0 .. 2]]
  BY DEF ProcTypeOK, WorldTypeOK, Taken

(* Steps of the invocations of sendOutbound and scheduleOutbound. *)
LEMMA SendStepType ==
  ASSUME TypeOK, NEW p \in Procs, SendStep(p), PartInRange(p)
  PROVE  TypeOK'
<1> USE DEF TypeOK, intentVars, rowVars
<1>0. msg[p] \in Messages
  BY DEF ProcTypeOK
<1>1. CASE Enqueue(p)
  <2>1. IntentTypeOK'
    BY <1>1, <1>0, Ranges
    DEF Enqueue, IntentTypeOK, Statuses, Commands
  <2>2. ProcTypeOK' /\ confirmed' = confirmed
    BY <1>1, ExitType, ProceedType DEF Enqueue, Labels
  <2> QED BY <1>1, <2>1, <2>2 DEF Enqueue, RowTypeOK, WorldTypeOK
<1>2. CASE AddRow(p)
  <2>1. RowTypeOK'
    BY <1>2, <1>0, NewRowType DEF AddRow, RowTypeOK
  <2> QED BY <1>2, <2>1, ExitType DEF AddRow, IntentTypeOK, WorldTypeOK
<1>3. CASE Deny(p)
  BY <1>3, ReturnType DEF Deny, IntentTypeOK, RowTypeOK, WorldTypeOK
<1>4. CASE InsertIntent(p)
  <2>1. IntentTypeOK'
    BY <1>4, <1>0, Ranges
    DEF InsertIntent, IntentTypeOK, Statuses, Commands, CommandOf
  <2>2. ProcTypeOK' /\ confirmed' \in SUBSET Messages
    BY <1>4, ReturnType, ProceedType DEF InsertIntent, Labels, WorldTypeOK
  <2> QED BY <1>4, <2>1, <2>2 DEF InsertIntent, RowTypeOK, WorldTypeOK
<1>5. CASE ReadSent(p)
  BY <1>5, ProceedType DEF ReadSent, Reading, Labels, IntentTypeOK, RowTypeOK, WorldTypeOK
<1>6. CASE ReadRefused(p)
  BY <1>6, ReturnType DEF ReadRefused, Reading, IntentTypeOK, RowTypeOK, WorldTypeOK
<1>7. CASE ReadStale(p)
  BY <1>7, ProceedType DEF ReadStale, Reading, Labels, IntentTypeOK, RowTypeOK, WorldTypeOK
<1>8. CASE ReadClaimable(p)
  <2>1. ProcTypeOK'
    BY <1>8, <1>0 DEF ReadClaimable, Reading, Goto, ProcTypeOK, IntentTypeOK, Labels
  <2> QED BY <1>8, <2>1 DEF ReadClaimable, Reading, IntentTypeOK, RowTypeOK, WorldTypeOK
<1>9. CASE Fence(p)
  BY <1>9, <1>0, ReturnType, WriteType DEF Fence, Statuses, RowTypeOK, WorldTypeOK
<1>10. CASE Claim(p)
  <2>1. IntentTypeOK'
    BY <1>10, <1>0, WriteType DEF Claim, Statuses, IntentTypeOK
  <2>2. ProcTypeOK' /\ confirmed' \in SUBSET Messages
    BY <1>10, ReturnType, ProceedType DEF Claim, Labels, WorldTypeOK
  <2> QED BY <1>10, <2>1, <2>2 DEF Claim, RowTypeOK, WorldTypeOK
<1>11. CASE Resolve(p)
  <2>1. CASE Proceed(p, "reject")
    BY <1>11, <2>1, ProceedType DEF Resolve, Labels, IntentTypeOK, RowTypeOK, WorldTypeOK
  <2>2. CASE ~ Proceed(p, "reject")
    <3>1. ProcTypeOK'
      BY <1>11, <2>2, PartAssumption DEF Resolve, Goto, ProcTypeOK, Labels
    <3> QED BY <1>11, <2>2, <3>1 DEF Resolve, IntentTypeOK, RowTypeOK, WorldTypeOK
  <2> QED BY <2>1, <2>2
<1>12. CASE PartRejected(p)
  <2>1. delivered' \in [Messages -> [Parts -> 0 .. 2]]
    BY <1>12, TakenType DEF PartRejected, WorldTypeOK
  <2> QED BY <1>12, <2>1, ProceedType DEF PartRejected, Labels, IntentTypeOK, RowTypeOK, WorldTypeOK
<1>13. CASE PartUnknown(p)
  <2>1. delivered' \in [Messages -> [Parts -> 0 .. 2]]
    BY <1>13, TakenType DEF PartUnknown, WorldTypeOK
  <2> QED BY <1>13, <2>1, ProceedType DEF PartUnknown, Labels, IntentTypeOK, RowTypeOK, WorldTypeOK
<1>14. CASE MarkFailed(p)
  BY <1>14, <1>0, ReturnType, WriteType DEF MarkFailed, Statuses, RowTypeOK, WorldTypeOK
<1>15. CASE MarkUncertain(p)
  BY <1>15, <1>0, ReturnType, WriteType DEF MarkUncertain, Statuses, RowTypeOK, WorldTypeOK
<1>16. CASE Record(p)
  <2>1. IntentTypeOK'
    BY <1>16, <1>0, WriteType DEF Record, Statuses, IntentTypeOK
  <2>2. ProcTypeOK' /\ confirmed' \in SUBSET Messages
    BY <1>16, ReturnType, ProceedType DEF Record, Labels, WorldTypeOK
  <2> QED BY <1>16, <2>1, <2>2 DEF Record, RowTypeOK, WorldTypeOK
<1>17. CASE Lookup(p)
  <2>1. ProcTypeOK' /\ confirmed' \in SUBSET Messages
    BY <1>17, ReturnType, ProceedType DEF Lookup, Labels, WorldTypeOK
  <2> QED BY <1>17, <2>1 DEF Lookup, IntentTypeOK, RowTypeOK, WorldTypeOK
<1>18. CASE AppendOk(p)
  BY <1>18, <1>0, ProceedType DEF AppendOk, Labels, IntentTypeOK, RowTypeOK, WorldTypeOK
<1>19. CASE AppendFails(p)
  BY <1>19, <1>0, ProceedType DEF AppendFails, Labels, IntentTypeOK, RowTypeOK, WorldTypeOK
<1>20. CASE AcceptOk(p)
  BY <1>20, <1>0, ReturnType, WriteType DEF AcceptOk, Statuses, RowTypeOK, WorldTypeOK
<1>21. CASE AcceptFails(p)
  BY <1>21, ProceedType DEF AcceptFails, Labels, IntentTypeOK, RowTypeOK, WorldTypeOK
<1>22. CASE Unaccept(p)
  BY <1>22, <1>0, ReturnType, WriteType DEF Unaccept, Statuses, RowTypeOK, WorldTypeOK
<1>23. CASE PartAccepted(p)
  <2>1. delivered' \in [Messages -> [Parts -> 0 .. 2]]
    BY <1>23, TakenType DEF PartAccepted, WorldTypeOK
  <2>2. CASE part[p] = PartCount[msg[p]]
    BY <1>23, <2>1, <2>2, ProceedType DEF PartAccepted, Labels, IntentTypeOK, RowTypeOK, WorldTypeOK
  <2>3. CASE part[p] # PartCount[msg[p]]
    <3>1. part[p] \in Parts /\ PartCount[msg[p]] \in Parts
      BY <1>0, PartTypes DEF ProcTypeOK
    <3>2. part[p] + 1 \in Parts
      BY <1>23, <2>3, <3>1, PartTypes DEF PartAccepted, PartInRange
    <3>3. ProcTypeOK'
      BY <1>23, <2>3, <3>2 DEF PartAccepted, ProcTypeOK
    <3> QED BY <1>23, <2>1, <2>3, <3>3 DEF PartAccepted, IntentTypeOK, RowTypeOK, WorldTypeOK
  <2> QED BY <2>2, <2>3
<1> QED BY <1>1, <1>2, <1>3, <1>4, <1>5, <1>6, <1>7, <1>8, <1>9, <1>10, <1>11, <1>12, <1>13, <1>14, <1>15, <1>16, <1>17, <1>18, <1>19, <1>20, <1>21, <1>22, <1>23 DEF SendStep

(* Steps of the cron invocation's own loops. *)
LEMMA CronStepType ==
  ASSUME TypeOK, NEW p \in Procs, CronStep(p)
  PROVE  TypeOK'
<1> USE DEF TypeOK, intentVars, rowVars
<1>0. msg[p] \in Messages
  BY DEF ProcTypeOK
<1>1. CASE SweepStale(p)
  <2>1. IntentTypeOK'
    BY <1>1, Ranges DEF SweepStale, IntentTypeOK, Statuses
  <2> QED BY <1>1, <2>1, ProceedType DEF SweepStale, Labels, RowTypeOK, WorldTypeOK
<1>2. CASE SelectPending(p)
  <2>1. ProcTypeOK'
    BY <1>2 DEF SelectPending, Goto, ProcTypeOK, Labels
  <2> QED BY <1>2, <2>1 DEF SelectPending, IntentTypeOK, RowTypeOK, WorldTypeOK
<1>3. ASSUME NEW m \in Messages, ReconcileNext(p, m) PROVE TypeOK'
  <2>1. ProcTypeOK'
    BY <1>3 DEF ReconcileNext, Take, Goto, ProcTypeOK, Labels
  <2> QED BY <1>3, <2>1 DEF ReconcileNext, IntentTypeOK, RowTypeOK, WorldTypeOK
<1>4. CASE ReconcileDone(p)
  <2>1. ProcTypeOK'
    BY <1>4 DEF ReconcileDone, Goto, ProcTypeOK, Labels, Callers
  <2> QED BY <1>4, <2>1 DEF ReconcileDone, IntentTypeOK, RowTypeOK, WorldTypeOK
<1>5. CASE CollectDue(p)
  <2>1. ProcTypeOK'
    BY <1>5 DEF CollectDue, Goto, ProcTypeOK, RowTypeOK, Labels
  <2> QED BY <1>5, <2>1 DEF CollectDue, IntentTypeOK, RowTypeOK, WorldTypeOK
<1>6. ASSUME NEW m \in Messages, LeaseNext(p, m) PROVE TypeOK'
  <2>1. ProcTypeOK'
    BY <1>6 DEF LeaseNext, Take, Goto, ProcTypeOK, Labels
  <2>2. RowTypeOK'
    BY <1>6, Ranges DEF LeaseNext, RowTypeOK, ProcTypeOK
  <2> QED BY <1>6, <2>1, <2>2 DEF LeaseNext, IntentTypeOK, WorldTypeOK
<1>7. ASSUME NEW m \in Messages, LeaseSkip(p, m) PROVE TypeOK'
  <2>1. ProcTypeOK'
    BY <1>7 DEF LeaseSkip, Take, ProcTypeOK
  <2> QED BY <1>7, <2>1 DEF LeaseSkip, IntentTypeOK, RowTypeOK, WorldTypeOK
<1>8. CASE LeaseDone(p)
  BY <1>8, ExitType DEF LeaseDone, IntentTypeOK, RowTypeOK, WorldTypeOK
<1>9. CASE Drop(p)
  <2>1. RowTypeOK'
    BY <1>9, <1>0, DeleteRowType DEF Drop, RowTypeOK
  <2> QED BY <1>9, <2>1, ProceedType DEF Drop, Labels, IntentTypeOK, WorldTypeOK
<1>10. CASE Backoff(p)
  <2>1. CASE Mine(p)
    <3>1. failures' \in [Messages -> 0 .. MaxAttempts]
      <4>1. Capped(failures[msg[p]], MaxAttempts) \in 0 .. MaxAttempts
        BY <1>0, CappedType, BoundAssumption DEF RowTypeOK
      <4>2. failures' = [failures EXCEPT ![msg[p]] = Capped(failures[msg[p]], MaxAttempts)]
        BY <1>10, <2>1 DEF Backoff, CountFailure
      <4> QED BY <4>1, <4>2, <1>0 DEF RowTypeOK
    <3>2. Attempts(p) \in Nat
      BY <1>0, BoundAssumption DEF ProcTypeOK, Attempts
    <3>3. CASE Exhausted(Attempts(p))
      BY <1>10, <2>1, <3>1, <3>3, <1>0, DeleteRowType, ProceedType
      DEF Backoff, Labels, IntentTypeOK, WorldTypeOK
    <3>4. CASE ~ Exhausted(Attempts(p))
      <4>1. Attempts(p) \in 0 .. MaxAttempts
        BY <3>2, <3>4, BoundAssumption DEF Exhausted
      <4>2. RowTypeOK'
        BY <1>10, <2>1, <3>1, <3>4, <4>1, <1>0, ReleaseRowType DEF Backoff
      <4> QED BY <1>10, <4>2, ProceedType DEF Backoff, Labels, IntentTypeOK, WorldTypeOK
    <3> QED BY <3>3, <3>4
  <2>2. CASE ~ Mine(p)
    BY <1>10, <2>2, ProceedType DEF Backoff, Labels, IntentTypeOK, RowTypeOK, WorldTypeOK
  <2> QED BY <2>1, <2>2
<1> QED BY <1>1, <1>2, <1>3, <1>4, <1>5, <1>6, <1>7, <1>8, <1>9, <1>10 DEF CronStep

LEMMA BeginType ==
  ASSUME ProcTypeOK, NEW p \in Procs, NEW m \in Messages, NEW l \in Labels,
         NEW w \in Callers, Begin(p, m, l, w)
  PROVE  ProcTypeOK'
<1>1. 0 \in 0 .. MaxLife
  BY BoundAssumption
<1> QED BY <1>1 DEF ProcTypeOK, Begin, Goto

LEMMA TickType == TypeOK /\ Tick => TypeOK'
<1> SUFFICES ASSUME TypeOK, Tick PROVE TypeOK'
  OBVIOUS
<1> USE DEF TypeOK
<1>1. IntentTypeOK'
  BY Ranges, CappedType DEF Tick, IntentTypeOK
<1>2. RowTypeOK'
  BY Ranges, CappedType DEF Tick, RowTypeOK
<1>3. life' \in [Procs -> 0 .. MaxLife]
  <2> SUFFICES ASSUME NEW p \in Procs, pc[p] # "idle"
               PROVE  life[p] + 1 \in 0 .. MaxLife
    BY DEF Tick, ProcTypeOK
  <2>1. life[p] \in 0 .. MaxLife /\ life[p] < MaxLife
    BY DEF Tick, ProcTypeOK
  <2> QED BY <2>1, BoundAssumption
<1>4. ProcTypeOK'
  BY <1>3 DEF Tick, ProcTypeOK
<1> QED BY <1>1, <1>2, <1>4 DEF Tick, WorldTypeOK

LEMMA CrashType ==
  ASSUME TypeOK, NEW p \in Procs, Crash(p)
  PROVE  TypeOK'
<1> USE DEF TypeOK
<1>1. ProcTypeOK'
  BY ExitType DEF Crash
<1>2. delivered' \in [Messages -> [Parts -> 0 .. 2]]
  BY TakenType DEF Crash, WorldTypeOK
<1>3. crashes' \in 0 .. CrashBudget
  BY BoundAssumption DEF Crash, WorldTypeOK
<1> QED BY <1>1, <1>2, <1>3
        DEF Crash, IntentTypeOK, RowTypeOK, WorldTypeOK, intentVars, rowVars

-----------------------------------------------------------------------------
(* The dispatch invariant.                                                  *)

LEMMA PartCountAtLeastOne ==
  \A m \in Messages : PartCount[m] \in Parts /\ PartCount[m] >= 1 /\ PartCount[m] \in Nat
  BY PartTypes

LEMMA HandedType ==
  ASSUME WorldTypeOK, NEW m \in Messages
  PROVE  Handed(m) \in 0 .. 2
  BY PartTypes DEF WorldTypeOK, Handed

(* What taking a request does to the count of its message, and of the others. *)
LEMMA TakenCounts ==
  ASSUME TypeOK, NEW p \in Procs, Taken(p), NEW x \in Messages, x = msg[p]
  PROVE  /\ \A m \in Messages \ {x} : Handed(m)' = Handed(m)
         /\ Handed(x) = 0 => Handed(x)' = IF part[p] = PartCount[x] THEN 1 ELSE 0
         /\ Handed(x) >= 1 => Handed(x)' >= 1
         /\ part[p] = PartCount[x] => Handed(x)' >= 1
<1>1. /\ delivered' = [delivered EXCEPT ![x] = [delivered[x] EXCEPT ![part[p]] =
                         IF delivered[x][part[p]] = 0 THEN 1 ELSE 2]]
      /\ delivered[x] \in [Parts -> 0 .. 2]
      /\ part[p] \in Parts /\ PartCount[x] \in Parts
  BY PartTypes DEF TypeOK, ProcTypeOK, WorldTypeOK, Taken
<1>2. \A m \in Messages \ {x} : delivered'[m] = delivered[m]
  BY <1>1 DEF TypeOK, WorldTypeOK
<1>3. delivered'[x] = [delivered[x] EXCEPT ![part[p]] =
                         IF delivered[x][part[p]] = 0 THEN 1 ELSE 2]
  BY <1>1 DEF TypeOK, WorldTypeOK
<1> QED BY <1>1, <1>2, <1>3 DEF Handed

LEMMA TakenElsewhere ==
  ASSUME TypeOK, NEW p \in Procs, Taken(p)
  PROVE  \A m \in Messages : m # msg[p] => Handed(m)' = Handed(m)
<1> PICK x \in Messages : x = msg[p]
  BY DEF TypeOK, ProcTypeOK
<1> QED BY TakenCounts

(* A step that reopens no intent, starts no flight and, on a channel with a
   strict adapter, reaches no provider. *)
Quiet ==
  /\ \A m \in Strict : Handed(m)' = Handed(m)
  /\ \A q \in Procs, m \in Messages : InFlight(q, m)' => InFlight(q, m)
  /\ \A m \in Messages : Reclaimable(m)' => Reclaimable(m)
  /\ \A q \in Procs : PartInRange(q)'
  /\ \A q \in Procs : pc'[q] = "claim" => seen'[q] \in Claimable

LEMMA StrictAreMessages == Strict \subseteq Messages
  BY DEF Strict

LEMMA SameDelivered ==
  ASSUME delivered' = delivered
  PROVE  \A m \in Messages : Handed(m)' = Handed(m)
  BY DEF Handed

LEMMA QuietKeeps ==
  ASSUME DispatchInv, Quiet
  PROVE  DispatchInv'
<1>1. OneInFlight'
  BY DEF Quiet, DispatchInv, OneInFlight
<1>2. HandedOverOnce'
  BY DEF Quiet, DispatchInv, HandedOverOnce
<1>3. (\A p \in Procs, m \in Messages : InFlight(p, m) => ~ Reclaimable(m))'
  BY DEF Quiet, DispatchInv
<1>4. (\A m \in Strict : Reclaimable(m) => Handed(m) = 0)'
  BY StrictAreMessages DEF Quiet, DispatchInv
<1>5. (\A p \in Procs, m \in Strict : InFlight(p, m) => Handed(m) = 0)'
  BY StrictAreMessages DEF Quiet, DispatchInv
<1>6. (\A p \in Procs : PartInRange(p))'
  BY DEF Quiet
<1>7. (\A p \in Procs : pc[p] = "claim" => seen[p] \in Claimable)'
  BY DEF Quiet, Claimable
<1> QED BY <1>1, <1>2, <1>3, <1>4, <1>5, <1>6, <1>7 DEF DispatchInv

(* Where an invocation may go on to without entering a flight or a claim. *)
Landings == Labels \ {"claim", "resolve", "cross", "reject"}

(* p moves to a label that is outside every flight; the others stand still. *)
Lands(p) ==
  /\ pc' \in [Procs -> Labels]
  /\ pc'[p] \in Landings
  /\ \A q \in Procs \ {p} :
        /\ pc'[q] = pc[q] /\ msg'[q] = msg[q]
        /\ part'[q] = part[q] /\ seen'[q] = seen[q]

LEMMA LandingIsQuiet ==
  ASSUME DispatchInv, NEW p \in Procs, Lands(p), delivered' = delivered,
         \A m \in Messages : Reclaimable(m)' => Reclaimable(m)
  PROVE  Quiet
<1>0. \A m \in Strict : Handed(m)' = Handed(m)
  BY SameDelivered, StrictAreMessages
<1>1. ASSUME NEW q \in Procs, NEW m \in Messages, InFlight(q, m)'
      PROVE  InFlight(q, m)
  BY <1>1 DEF Lands, Landings, InFlight
<1>2. ASSUME NEW q \in Procs PROVE PartInRange(q)'
  BY DEF Lands, Landings, PartInRange, DispatchInv
<1>3. ASSUME NEW q \in Procs, pc'[q] = "claim" PROVE seen'[q] \in Claimable
  BY <1>3 DEF Lands, Landings, DispatchInv
<1> QED BY <1>0, <1>1, <1>2, <1>3 DEF Quiet

LEMMA ProceedLands ==
  ASSUME ProcTypeOK, NEW p \in Procs, NEW l \in Landings, Proceed(p, l)
  PROVE  Lands(p)
  BY DEF ProcTypeOK, Proceed, Goto, Lands, Landings

LEMMA ExitLands ==
  ASSUME ProcTypeOK, NEW p \in Procs, Exit(p)
  PROVE  Lands(p)
  BY DEF ProcTypeOK, Exit, Goto, Lands, Landings, Labels

LEMMA ReturnLands ==
  ASSUME ProcTypeOK, NEW p \in Procs, NEW o, Return(p, o)
  PROVE  Lands(p)
<1>1. CASE Exit(p)
  BY <1>1, ExitLands
<1>2. CASE \E l \in Landings : Proceed(p, l)
  BY <1>2, ProceedLands
<1> QED BY <1>1, <1>2 DEF Return, Landings, Labels

LEMMA BeginLands ==
  ASSUME ProcTypeOK, NEW p \in Procs, NEW m \in Messages, NEW l \in Landings,
         NEW w \in Callers, Begin(p, m, l, w)
  PROVE  Lands(p)
  BY DEF ProcTypeOK, Begin, Goto, Lands, Landings

(* A write of a status that is not claimable reopens nothing. *)
LEMMA ClosingWrite ==
  ASSUME IntentTypeOK, NEW x \in Messages, NEW s \in Statuses,
         s \notin Claimable, s # "none", WriteStatus(x, s)
  PROVE  \A m \in Messages : Reclaimable(m)' => Reclaimable(m)
  BY DEF IntentTypeOK, WriteStatus, Reclaimable, Claimable

LEMMA SameIntents ==
  ASSUME UNCHANGED status
  PROVE  \A m \in Messages : Reclaimable(m)' => Reclaimable(m)
  BY DEF Reclaimable

(* The steps of sendOutbound that touch neither the provider nor the claim. *)
QuietSend(p) ==
  \/ Enqueue(p) \/ AddRow(p) \/ Deny(p) \/ InsertIntent(p)
  \/ ReadSent(p) \/ ReadRefused(p) \/ ReadStale(p) \/ ReadClaimable(p)
  \/ Fence(p) \/ Resolve(p) \/ PartRejected(p) \/ MarkUncertain(p)
  \/ Record(p) \/ Lookup(p) \/ AppendOk(p) \/ AppendFails(p)
  \/ AcceptOk(p) \/ AcceptFails(p) \/ Unaccept(p)

LEMMA QuietSendStep ==
  ASSUME TypeOK, DispatchInv, NEW p \in Procs, QuietSend(p)
  PROVE  Quiet
<1> USE DEF TypeOK, intentVars
<1>0. msg[p] \in Messages
  BY DEF ProcTypeOK
<1>1. CASE Enqueue(p)
  <2>1. \A m \in Messages : Reclaimable(m)' => Reclaimable(m)
    BY <1>1, <1>0 DEF Enqueue, IntentTypeOK, Reclaimable, Claimable
  <2> QED BY <1>1, <2>1, LandingIsQuiet, ExitLands, ProceedLands
          DEF Enqueue, Landings, Labels
<1>2. CASE AddRow(p)
  BY <1>2, LandingIsQuiet, ExitLands, SameIntents DEF AddRow
<1>3. CASE Deny(p)
  BY <1>3, LandingIsQuiet, ReturnLands, SameIntents DEF Deny
<1>4. CASE InsertIntent(p)
  <2>1. \A m \in Messages : Reclaimable(m)' => Reclaimable(m)
    BY <1>4, <1>0 DEF InsertIntent, IntentTypeOK, Reclaimable, Claimable
  <2> QED BY <1>4, <2>1, LandingIsQuiet, ReturnLands, ProceedLands
          DEF InsertIntent, Landings, Labels
<1>5. CASE ReadSent(p)
  BY <1>5, LandingIsQuiet, ProceedLands, SameIntents DEF ReadSent, Reading, Landings, Labels
<1>6. CASE ReadRefused(p)
  BY <1>6, LandingIsQuiet, ReturnLands, SameIntents DEF ReadRefused, Reading
<1>7. CASE ReadStale(p)
  BY <1>7, LandingIsQuiet, ProceedLands, SameIntents DEF ReadStale, Reading, Landings, Labels
<1>8. CASE ReadClaimable(p)
  <2>1. /\ pc' = [pc EXCEPT ![p] = "claim"]
        /\ seen' = [seen EXCEPT ![p] = status[msg[p]]]
        /\ status[msg[p]] \in Claimable
        /\ UNCHANGED <<msg, part, delivered, status>>
    BY <1>8 DEF ReadClaimable, Reading, Goto
  <2>2. ASSUME NEW q \in Procs, NEW m \in Messages, InFlight(q, m)'
        PROVE  InFlight(q, m)
    BY <2>1, <2>2 DEF InFlight, ProcTypeOK
  <2>3. ASSUME NEW q \in Procs PROVE PartInRange(q)'
    BY <2>1 DEF PartInRange, DispatchInv, ProcTypeOK
  <2>4. ASSUME NEW q \in Procs, pc'[q] = "claim" PROVE seen'[q] \in Claimable
    BY <2>1, <2>4 DEF DispatchInv, ProcTypeOK
  <2> QED BY <2>1, <2>2, <2>3, <2>4, SameIntents, SameDelivered, StrictAreMessages DEF Quiet
<1>9. CASE Fence(p)
  BY <1>9, <1>0, LandingIsQuiet, ReturnLands, ClosingWrite DEF Fence, Statuses, Claimable
<1>10. CASE Resolve(p)
  <2>1. /\ \E l \in {"cross", "reject"} : pc' = [pc EXCEPT ![p] = l]
        /\ pc[p] = "resolve"
        /\ part' = part \/ part' = [part EXCEPT ![p] = 1]
        /\ pc'[p] = "cross" => part'[p] = 1
        /\ UNCHANGED <<msg, seen, delivered, status>>
    BY <1>10 DEF Resolve, Goto, Proceed, ProcTypeOK
  <2>2. ASSUME NEW q \in Procs, NEW m \in Messages, InFlight(q, m)'
        PROVE  InFlight(q, m)
    BY <2>1, <2>2 DEF InFlight, ProcTypeOK
  <2>3. ASSUME NEW q \in Procs PROVE PartInRange(q)'
    BY <2>1, PartCountAtLeastOne DEF PartInRange, DispatchInv, ProcTypeOK
  <2>4. ASSUME NEW q \in Procs, pc'[q] = "claim" PROVE seen'[q] \in Claimable
    BY <2>1, <2>4 DEF DispatchInv, ProcTypeOK
  <2> QED BY <2>1, <2>2, <2>3, <2>4, SameIntents, SameDelivered, StrictAreMessages DEF Quiet
<1>11. CASE PartRejected(p)
  <2>1. /\ pc' = [pc EXCEPT ![p] = "reject"]
        /\ pc[p] = "cross"
        /\ UNCHANGED <<msg, seen, part, status>>
    BY <1>11 DEF PartRejected, Goto, Proceed
  <2>2. ASSUME NEW q \in Procs, NEW m \in Messages, InFlight(q, m)'
        PROVE  InFlight(q, m)
    BY <2>1, <2>2 DEF InFlight, ProcTypeOK
  <2>3. ASSUME NEW q \in Procs PROVE PartInRange(q)'
    BY <2>1 DEF PartInRange, DispatchInv, ProcTypeOK
  <2>4. ASSUME NEW q \in Procs, pc'[q] = "claim" PROVE seen'[q] \in Claimable
    BY <2>1, <2>4 DEF DispatchInv, ProcTypeOK
  <2>5. \A m \in Strict : Handed(m)' = Handed(m)
    <3>1. CASE delivered' = delivered
      BY <3>1, SameDelivered, StrictAreMessages
    <3>2. CASE msg[p] \in LossyMessages /\ Taken(p)
      BY <3>2, TakenElsewhere DEF Strict
    <3> QED BY <1>11, <3>1, <3>2 DEF PartRejected
  <2> QED BY <2>1, <2>2, <2>3, <2>4, <2>5, SameIntents DEF Quiet
<1>12. CASE MarkUncertain(p)
  BY <1>12, <1>0, LandingIsQuiet, ReturnLands, ClosingWrite DEF MarkUncertain, Statuses, Claimable
<1>13. CASE Record(p)
  <2>1. \A m \in Messages : Reclaimable(m)' => Reclaimable(m)
    BY <1>13, <1>0, ClosingWrite, SameIntents DEF Record, Statuses, Claimable
  <2> QED BY <1>13, <2>1, LandingIsQuiet, ReturnLands, ProceedLands DEF Record, Landings, Labels
<1>14. CASE Lookup(p)
  BY <1>14, LandingIsQuiet, ReturnLands, ProceedLands, SameIntents DEF Lookup, Landings, Labels
<1>15. CASE AppendOk(p)
  BY <1>15, LandingIsQuiet, ProceedLands, SameIntents DEF AppendOk, Landings, Labels
<1>16. CASE AppendFails(p)
  BY <1>16, LandingIsQuiet, ProceedLands, SameIntents DEF AppendFails, Landings, Labels
<1>17. CASE AcceptOk(p)
  BY <1>17, <1>0, LandingIsQuiet, ReturnLands, ClosingWrite DEF AcceptOk, Statuses, Claimable
<1>18. CASE AcceptFails(p)
  BY <1>18, LandingIsQuiet, ProceedLands, SameIntents DEF AcceptFails, Landings, Labels
<1>19. CASE Unaccept(p)
  BY <1>19, <1>0, LandingIsQuiet, ReturnLands, ClosingWrite DEF Unaccept, Statuses, Claimable
<1> QED BY <1>1, <1>2, <1>3, <1>4, <1>5, <1>6, <1>7, <1>8, <1>9, <1>10, <1>11, <1>12,
           <1>13, <1>14, <1>15, <1>16, <1>17, <1>18, <1>19 DEF QuietSend

LEMMA QuietCronStep ==
  ASSUME TypeOK, DispatchInv, NEW p \in Procs, CronStep(p)
  PROVE  Quiet
<1> USE DEF TypeOK, intentVars
<1>1. CASE SweepStale(p)
  <2>1. \A m \in Messages : Reclaimable(m)' => Reclaimable(m)
    BY <1>1 DEF SweepStale, IntentTypeOK, Reclaimable, Claimable
  <2> QED BY <1>1, <2>1, LandingIsQuiet, ProceedLands DEF SweepStale, Landings, Labels
<1>2. CASE SelectPending(p)
  <2>1. Lands(p)
    BY <1>2 DEF SelectPending, Goto, ProcTypeOK, Lands, Landings, Labels
  <2> QED BY <1>2, <2>1, LandingIsQuiet, SameIntents DEF SelectPending
<1>3. ASSUME NEW m \in Messages, ReconcileNext(p, m) PROVE Quiet
  <2>1. Lands(p)
    BY <1>3 DEF ReconcileNext, Goto, ProcTypeOK, Lands, Landings, Labels
  <2> QED BY <1>3, <2>1, LandingIsQuiet, SameIntents DEF ReconcileNext
<1>4. CASE ReconcileDone(p)
  <2>1. Lands(p)
    BY <1>4 DEF ReconcileDone, Goto, ProcTypeOK, Lands, Landings, Labels
  <2> QED BY <1>4, <2>1, LandingIsQuiet, SameIntents DEF ReconcileDone
<1>5. CASE CollectDue(p)
  <2>1. Lands(p)
    BY <1>5 DEF CollectDue, Goto, ProcTypeOK, Lands, Landings, Labels
  <2> QED BY <1>5, <2>1, LandingIsQuiet, SameIntents DEF CollectDue
<1>6. ASSUME NEW m \in Messages, LeaseNext(p, m) PROVE Quiet
  <2>1. Lands(p)
    BY <1>6 DEF LeaseNext, Goto, ProcTypeOK, Lands, Landings, Labels
  <2> QED BY <1>6, <2>1, LandingIsQuiet, SameIntents DEF LeaseNext
<1>7. ASSUME NEW m \in Messages, LeaseSkip(p, m) PROVE Quiet
  <2>1. Lands(p)
    BY <1>7 DEF LeaseSkip, ProcTypeOK, Lands, Landings, Labels
  <2> QED BY <1>7, <2>1, LandingIsQuiet, SameIntents DEF LeaseSkip
<1>8. CASE LeaseDone(p)
  BY <1>8, LandingIsQuiet, ExitLands, SameIntents DEF LeaseDone
<1>9. CASE Drop(p)
  BY <1>9, LandingIsQuiet, ProceedLands, SameIntents DEF Drop, Landings, Labels
<1>10. CASE Backoff(p)
  BY <1>10, LandingIsQuiet, ProceedLands, SameIntents DEF Backoff, Landings, Labels
<1> QED BY <1>1, <1>2, <1>3, <1>4, <1>5, <1>6, <1>7, <1>8, <1>9, <1>10 DEF CronStep

(* The claim is a compare-and-set: it closes the intent it starts to send. *)
LEMMA ClaimKeeps ==
  ASSUME TypeOK, DispatchInv, NEW p \in Procs, Claim(p)
  PROVE  DispatchInv'
<1> USE DEF TypeOK, intentVars
<1>0. msg[p] \in Messages
  BY DEF ProcTypeOK
<1>1. CASE status[msg[p]] # seen[p]
  BY <1>1, QuietKeeps, LandingIsQuiet, ReturnLands, SameIntents DEF Claim, ClaimWins
<1>2. CASE status[msg[p]] = seen[p]
  <2> DEFINE x == msg[p]
  <2>1. /\ pc[p] = "claim" /\ pc' = [pc EXCEPT ![p] = "resolve"]
        /\ status' = [status EXCEPT ![x] = "sending"]
        /\ UNCHANGED <<msg, seen, part, delivered>>
    BY <1>2 DEF Claim, ClaimWins, WriteStatus, Proceed, Goto
  <2>2. Reclaimable(x)
    BY <1>2, <2>1 DEF DispatchInv, Reclaimable
  <2>3. \A q \in Procs : ~ InFlight(q, x)
    BY <2>2, <1>0 DEF DispatchInv
  <2>4. \A m \in Messages : Handed(m)' = Handed(m)
    BY <2>1 DEF Handed
  <2>5. \A m \in Messages : Reclaimable(m)' => Reclaimable(m) /\ m # x
    BY <2>1, <1>0 DEF Reclaimable, Claimable, IntentTypeOK
  <2>6. \A q \in Procs, m \in Messages :
          InFlight(q, m)' => (q = p /\ m = x) \/ (InFlight(q, m) /\ m # x)
    BY <2>1, <2>3 DEF InFlight, ProcTypeOK
  <2>7. OneInFlight'
    BY <2>6 DEF DispatchInv, OneInFlight
  <2>8. HandedOverOnce'
    BY <2>4, StrictAreMessages DEF DispatchInv, HandedOverOnce
  <2>9. (\A q \in Procs : PartInRange(q))'
    BY <2>1 DEF DispatchInv, PartInRange, ProcTypeOK
  <2>10. (\A q \in Procs : pc[q] = "claim" => seen[q] \in Claimable)'
    BY <2>1 DEF DispatchInv, ProcTypeOK, Claimable
  <2>11. (\A m \in Strict : Reclaimable(m) => Handed(m) = 0)'
    BY <2>4, <2>5, StrictAreMessages DEF DispatchInv
  <2>12. (\A q \in Procs, m \in Messages : InFlight(q, m) => ~ Reclaimable(m))'
    BY <2>5, <2>6 DEF DispatchInv
  <2>13. (\A q \in Procs, m \in Strict : InFlight(q, m) => Handed(m) = 0)'
    <3> SUFFICES ASSUME NEW q \in Procs, NEW m \in Strict, InFlight(q, m)'
                 PROVE  Handed(m)' = 0
      OBVIOUS
    <3>1. CASE q = p /\ m = x
      BY <3>1, <2>2, <2>4, <1>0 DEF DispatchInv
    <3>2. CASE InFlight(q, m) /\ m # x
      BY <3>2, <2>4, StrictAreMessages DEF DispatchInv
    <3> QED BY <3>1, <3>2, <2>6, StrictAreMessages
  <2> QED BY <2>7, <2>8, <2>9, <2>10, <2>11, <2>12, <2>13 DEF DispatchInv
<1> QED BY <1>1, <1>2

(* p leaves the flight of its message; every other flight stands. *)
LEMMA FlightEnds ==
  ASSUME TypeOK, DispatchInv, NEW p \in Procs, InFlight(p, msg[p]), Lands(p)
  PROVE  /\ \A q \in Procs, m \in Messages :
               InFlight(q, m)' => InFlight(q, m) /\ m # msg[p]
         /\ (\A q \in Procs : PartInRange(q))'
         /\ (\A q \in Procs : pc[q] = "claim" => seen[q] \in Claimable)'
<1>0. msg[p] \in Messages
  BY DEF TypeOK, ProcTypeOK
<1>1. ASSUME NEW q \in Procs, NEW m \in Messages, InFlight(q, m)'
      PROVE  InFlight(q, m) /\ m # msg[p]
  <2>1. q # p
    BY <1>1 DEF InFlight, Lands, Landings
  <2>2. InFlight(q, m)
    BY <1>1, <2>1 DEF InFlight, Lands
  <2> QED BY <1>0, <2>1, <2>2 DEF DispatchInv, OneInFlight
<1>2. (\A q \in Procs : PartInRange(q))'
  BY DEF DispatchInv, PartInRange, Lands, Landings
<1>3. (\A q \in Procs : pc[q] = "claim" => seen[q] \in Claimable)'
  BY DEF DispatchInv, Lands, Landings, Claimable
<1> QED BY <1>1, <1>2, <1>3

(* Only a definitive refusal reopens an intent, and it ends the flight. *)
LEMMA MarkFailedKeeps ==
  ASSUME TypeOK, DispatchInv, NEW p \in Procs, MarkFailed(p)
  PROVE  DispatchInv'
<1> USE DEF TypeOK, intentVars
<1> DEFINE x == msg[p]
<1>0. x \in Messages
  BY DEF ProcTypeOK
<1>1. InFlight(p, x) /\ Lands(p)
  BY ReturnLands DEF MarkFailed, InFlight
<1>2. /\ status' = [status EXCEPT ![x] = "failed"]
      /\ delivered' = delivered
  BY DEF MarkFailed, WriteStatus
<1>3. \A m \in Messages : Handed(m)' = Handed(m)
  BY <1>2 DEF Handed
<1>4. \A m \in Messages : Reclaimable(m)' => Reclaimable(m) \/ m = x
  BY <1>2, <1>0 DEF Reclaimable, IntentTypeOK, Claimable
<1>5. OneInFlight'
  BY <1>1, FlightEnds DEF DispatchInv, OneInFlight
<1>6. HandedOverOnce'
  BY <1>3, StrictAreMessages DEF DispatchInv, HandedOverOnce
<1>7. (\A m \in Strict : Reclaimable(m) => Handed(m) = 0)'
  BY <1>0, <1>1, <1>3, <1>4, StrictAreMessages DEF DispatchInv
<1>8. (\A q \in Procs, m \in Messages : InFlight(q, m) => ~ Reclaimable(m))'
  BY <1>1, <1>4, FlightEnds DEF DispatchInv
<1>9. (\A q \in Procs, m \in Strict : InFlight(q, m) => Handed(m) = 0)'
  BY <1>1, <1>3, FlightEnds, StrictAreMessages DEF DispatchInv
<1> QED BY <1>1, <1>5, <1>6, <1>7, <1>8, <1>9, FlightEnds DEF DispatchInv

(* A request the provider may have taken ends the flight with the intent
   closed, so its message is counted once. *)
LEMMA TakenKeeps ==
  ASSUME TypeOK, DispatchInv, NEW p \in Procs, pc[p] = "cross",
         Lands(p), Taken(p), UNCHANGED status
  PROVE  DispatchInv'
<1> USE DEF TypeOK
<1> PICK x \in Messages : x = msg[p]
  BY DEF ProcTypeOK
<1>0. InFlight(p, x) /\ InFlight(p, msg[p])
  BY DEF InFlight
<1>1. ~ Reclaimable(x) /\ (x \in Strict => Handed(x) = 0)
  BY <1>0 DEF DispatchInv
<1>2. /\ x \in Strict => Handed(x)' \in {0, 1}
      /\ \A m \in Strict \ {x} : Handed(m)' = Handed(m)
  BY <1>1, TakenCounts, StrictAreMessages
<1>3. OneInFlight'
  BY <1>0, FlightEnds DEF DispatchInv, OneInFlight
<1>4. HandedOverOnce'
  BY <1>2 DEF DispatchInv, HandedOverOnce
<1>5. (\A m \in Strict : Reclaimable(m) => Handed(m) = 0)'
  BY <1>1, <1>2, SameIntents, StrictAreMessages DEF DispatchInv
<1>6. (\A q \in Procs, m \in Messages : InFlight(q, m) => ~ Reclaimable(m))'
  BY <1>0, FlightEnds, SameIntents DEF DispatchInv
<1>7. (\A q \in Procs, m \in Strict : InFlight(q, m) => Handed(m) = 0)'
  BY <1>0, <1>2, FlightEnds, StrictAreMessages DEF DispatchInv
<1> QED BY <1>0, <1>3, <1>4, <1>5, <1>6, <1>7, FlightEnds DEF DispatchInv

LEMMA PartAcceptedKeeps ==
  ASSUME TypeOK, DispatchInv, NEW p \in Procs, PartAccepted(p)
  PROVE  DispatchInv'
<1> USE DEF TypeOK, intentVars
<1> PICK x \in Messages : x = msg[p]
  BY DEF ProcTypeOK
<1>0. InFlight(p, x) /\ pc[p] = "cross"
  BY DEF InFlight, PartAccepted
<1>1. CASE part[p] = PartCount[x]
  BY <1>0, <1>1, TakenKeeps, ProceedLands DEF PartAccepted, Landings, Labels
<1>2. CASE part[p] # PartCount[x]
  <2>1. /\ part' = [part EXCEPT ![p] = part[p] + 1]
        /\ Taken(p) /\ UNCHANGED <<pc, msg, seen, status>>
    BY <1>2 DEF PartAccepted
  <2>2. x \in Strict => Handed(x) = 0
    BY <1>0 DEF DispatchInv
  <2>3. \A m \in Strict : Handed(m)' = Handed(m)
    BY <1>2, <2>1, <2>2, TakenCounts, StrictAreMessages
  <2>4. \A q \in Procs, m \in Messages : InFlight(q, m)' = InFlight(q, m)
    BY <2>1 DEF InFlight
  <2>5. \A m \in Messages : Reclaimable(m)' = Reclaimable(m)
    BY <2>1 DEF Reclaimable
  <2>6. (\A q \in Procs : PartInRange(q))'
    <3>1. part[p] \in Nat /\ PartCount[x] \in Nat /\ part[p] <= PartCount[x]
      BY <1>0, PartTypes DEF ProcTypeOK, DispatchInv, PartInRange
    <3>2. part[p] + 1 <= PartCount[x]
      BY <3>1, <1>2
    <3> QED BY <2>1, <3>2 DEF DispatchInv, PartInRange, ProcTypeOK
  <2>7. OneInFlight'
    BY <2>4 DEF DispatchInv, OneInFlight
  <2>8. HandedOverOnce'
    BY <2>3 DEF DispatchInv, HandedOverOnce
  <2>9. (\A q \in Procs : pc[q] = "claim" => seen[q] \in Claimable)'
    BY <2>1 DEF DispatchInv, Claimable
  <2>10. (\A m \in Strict : Reclaimable(m) => Handed(m) = 0)'
    BY <2>3, <2>5, StrictAreMessages DEF DispatchInv
  <2>11. (\A q \in Procs, m \in Messages : InFlight(q, m) => ~ Reclaimable(m))'
    BY <2>4, <2>5 DEF DispatchInv
  <2>12. (\A q \in Procs, m \in Strict : InFlight(q, m) => Handed(m) = 0)'
    BY <2>3, <2>4, StrictAreMessages DEF DispatchInv
  <2> QED BY <2>6, <2>7, <2>8, <2>9, <2>10, <2>11, <2>12 DEF DispatchInv
<1> QED BY <1>1, <1>2

LEMMA PartUnknownKeeps ==
  ASSUME TypeOK, DispatchInv, NEW p \in Procs, PartUnknown(p)
  PROVE  DispatchInv'
<1> USE DEF TypeOK, intentVars
<1>1. Lands(p) /\ pc[p] = "cross" /\ UNCHANGED status
  BY ProceedLands DEF PartUnknown, Landings, Labels
<1>2. CASE Taken(p)
  BY <1>1, <1>2, TakenKeeps
<1>3. CASE delivered' = delivered
  BY <1>1, <1>3, QuietKeeps, LandingIsQuiet, SameIntents
<1> QED BY <1>2, <1>3 DEF PartUnknown

LEMMA CrashKeeps ==
  ASSUME TypeOK, DispatchInv, NEW p \in Procs, Crash(p)
  PROVE  DispatchInv'
<1> USE DEF TypeOK, intentVars
<1>1. Lands(p) /\ UNCHANGED status
  BY ExitLands DEF Crash
<1>2. CASE pc[p] = "cross" /\ Taken(p)
  BY <1>1, <1>2, TakenKeeps
<1>3. CASE delivered' = delivered
  BY <1>1, <1>3, QuietKeeps, LandingIsQuiet, SameIntents
<1> QED BY <1>2, <1>3 DEF Crash

(* Every step preserves the dispatch invariant. *)
LEMMA DispatchStep == TypeOK /\ DispatchInv /\ [Next]_vars => DispatchInv'
<1> SUFFICES ASSUME TypeOK, DispatchInv, [Next]_vars PROVE DispatchInv'
  OBVIOUS
<1>1. ASSUME NEW p \in ApiCalls, NEW m \in Messages, ApiSend(p, m) \/ ApiSchedule(p, m)
      PROVE  DispatchInv'
  <2>1. Lands(p)
    BY <1>1, BeginLands DEF ApiSend, ApiSchedule, TypeOK, Landings, Labels, Callers, Procs
  <2> QED BY <1>1, <2>1, QuietKeeps, LandingIsQuiet, SameIntents
          DEF ApiSend, ApiSchedule, intentVars, Procs
<1>2. ASSUME NEW m \in Messages, CannedReply(m) PROVE DispatchInv'
  <2>1. Quiet
    BY <1>2, StrictAreMessages
    DEF CannedReply, intentVars, procVars, Quiet, InFlight, Reclaimable, PartInRange,
        Handed, DispatchInv
  <2> QED BY <2>1, QuietKeeps
<1>3. ASSUME NEW p \in CronRuns, CronStart(p) PROVE DispatchInv'
  <2>1. Lands(p)
    BY <1>3, BeginLands DEF CronStart, TypeOK, ProcTypeOK, Landings, Labels, Callers, Procs
  <2> QED BY <1>3, <2>1, QuietKeeps, LandingIsQuiet, SameIntents DEF CronStart, intentVars, Procs
<1>4. ASSUME NEW p \in CronRuns, CronStep(p) PROVE DispatchInv'
  BY <1>4, QuietCronStep, QuietKeeps DEF Procs
<1>5. ASSUME NEW p \in Procs, SendStep(p) PROVE DispatchInv'
  <2>1. CASE QuietSend(p)
    BY <2>1, QuietSendStep, QuietKeeps
  <2> QED BY <1>5, <2>1, ClaimKeeps, MarkFailedKeeps, PartAcceptedKeeps, PartUnknownKeeps
          DEF SendStep, QuietSend
<1>6. ASSUME NEW p \in Procs, Crash(p) PROVE DispatchInv'
  BY <1>6, CrashKeeps
<1>7. CASE Tick
  <2>1. Quiet
    BY <1>7 DEF Tick, Quiet, InFlight, Reclaimable, PartInRange, Handed, DispatchInv
  <2> QED BY <2>1, QuietKeeps
<1>8. CASE UNCHANGED vars
  <2>1. Quiet
    BY <1>8 DEF vars, intentVars, procVars, Quiet, InFlight, Reclaimable, PartInRange,
                Handed, DispatchInv
  <2> QED BY <2>1, QuietKeeps
<1> QED BY <1>1, <1>2, <1>3, <1>4, <1>5, <1>6, <1>7, <1>8, ProcAssumption DEF Next

LEMMA NextType == TypeOK /\ DispatchInv /\ [Next]_vars => TypeOK'
<1> SUFFICES ASSUME TypeOK, DispatchInv, [Next]_vars PROVE TypeOK'
  OBVIOUS
<1>1. ASSUME NEW p \in ApiCalls, NEW m \in Messages, ApiSend(p, m) \/ ApiSchedule(p, m)
      PROVE  TypeOK'
  <2>1. ProcTypeOK'
    BY <1>1, BeginType DEF ApiSend, ApiSchedule, TypeOK, Labels, Callers, Procs
  <2> QED BY <1>1, <2>1 DEF ApiSend, ApiSchedule, TypeOK, intentVars, rowVars,
             IntentTypeOK, RowTypeOK, WorldTypeOK
<1>2. ASSUME NEW m \in Messages, CannedReply(m) PROVE TypeOK'
  <2>1. RowTypeOK'
    BY <1>2, NewRowType DEF CannedReply, TypeOK
  <2> QED BY <1>2, <2>1 DEF CannedReply, TypeOK, intentVars, procVars,
             IntentTypeOK, ProcTypeOK, WorldTypeOK
<1>3. ASSUME NEW p \in CronRuns, CronStart(p) PROVE TypeOK'
  <2>1. ProcTypeOK'
    BY <1>3, BeginType DEF CronStart, TypeOK, ProcTypeOK, Labels, Callers, Procs
  <2> QED BY <1>3, <2>1 DEF CronStart, TypeOK, intentVars, rowVars,
             IntentTypeOK, RowTypeOK, WorldTypeOK
<1>4. ASSUME NEW p \in CronRuns, CronStep(p) PROVE TypeOK'
  BY <1>4, CronStepType DEF Procs
<1>5. ASSUME NEW p \in Procs, SendStep(p) PROVE TypeOK'
  BY <1>5, SendStepType DEF DispatchInv
<1>6. ASSUME NEW p \in Procs, Crash(p) PROVE TypeOK'
  BY <1>6, CrashType
<1>7. CASE Tick
  BY <1>7, TickType
<1>8. CASE UNCHANGED vars
  BY <1>8 DEF vars, intentVars, rowVars, procVars, TypeOK, IntentTypeOK, RowTypeOK,
              ProcTypeOK, WorldTypeOK
<1> QED BY <1>1, <1>2, <1>3, <1>4, <1>5, <1>6, <1>7, <1>8, ProcAssumption DEF Next

LEMMA InitDispatch == Init => TypeOK /\ DispatchInv
<1> SUFFICES ASSUME Init PROVE TypeOK /\ DispatchInv
  OBVIOUS
<1>1. \A m \in Messages : Handed(m) = 0
  BY PartTypes DEF Init, Handed
<1>2. DispatchInv
  <2>1. OneInFlight
    BY DEF Init, OneInFlight, InFlight
  <2>2. HandedOverOnce
    <3>1. 0 <= 1
      OBVIOUS
    <3> QED BY <1>1, <3>1, StrictAreMessages DEF HandedOverOnce
  <2> QED BY <1>1, <2>1, <2>2, StrictAreMessages DEF Init, DispatchInv, PartInRange, InFlight
<1>3. IntentTypeOK
  BY Ranges DEF Init, IntentTypeOK, Statuses, Commands
<1>4. RowTypeOK
  BY Ranges DEF Init, RowTypeOK
<1>5. ProcTypeOK
  BY AnyMessageIsOne, PartAssumption, BoundAssumption
  DEF Init, ProcTypeOK, Labels, Callers, Statuses
<1>6. WorldTypeOK
  BY BoundAssumption DEF Init, WorldTypeOK
<1> QED BY <1>2, <1>3, <1>4, <1>5, <1>6 DEF TypeOK

(* Every variable keeps its type and the dispatch invariant holds: the first
   needs the second, which bounds the provider requests of a send. *)
THEOREM DispatchInvariant == Spec => [](TypeOK /\ DispatchInv)
<1>1. TypeOK /\ DispatchInv /\ [Next]_vars => (TypeOK /\ DispatchInv)'
  BY NextType, DispatchStep
<1> QED BY InitDispatch, <1>1, PTL DEF Spec

(* Type correctness of outbound delivery. *)
THEOREM TypeCorrect == Spec => []TypeOK
BY DispatchInvariant, PTL

(* sendOutbound hands each message to the provider at most once, whatever
   crashes, retries, leases and overlapping invocations do. *)
THEOREM NeverHandedOverTwice == Spec => []HandedOverOnce
<1>1. DispatchInv => HandedOverOnce
  BY DEF DispatchInv
<1> QED BY DispatchInvariant, <1>1, PTL

(* The claim's compare-and-set admits one invocation at a time per message. *)
THEOREM OneSenderAtATime == Spec => []OneInFlight
<1>1. DispatchInv => OneInFlight
  BY DEF DispatchInv
<1> QED BY DispatchInvariant, <1>1, PTL

-----------------------------------------------------------------------------
(* The timeline invariant.                                                  *)

(* What was taken stays taken, what was shown stays shown. *)
Grows ==
  /\ \A m \in Messages : Handed(m) >= 1 => Handed(m)' >= 1
  /\ timeline \subseteq timeline'

(* Whatever an invocation p does, the others' locals stand. *)
OnlyMoves(p) ==
  \A q \in Procs \ {p} :
    /\ pc'[q] = pc[q] /\ msg'[q] = msg[q] /\ caller'[q] = caller[q] /\ work'[q] = work[q]
    /\ life'[q] = life[q] /\ seen'[q] = seen[q] /\ snap'[q] = snap[q]

LEMMA ProceedMoves ==
  ASSUME ProcTypeOK, NEW p \in Procs, NEW l \in Labels, Proceed(p, l)
  PROVE  OnlyMoves(p)
  BY DEF ProcTypeOK, Proceed, Goto, OnlyMoves

LEMMA ExitMoves ==
  ASSUME ProcTypeOK, NEW p \in Procs, Exit(p)
  PROVE  OnlyMoves(p)
  BY DEF ProcTypeOK, Exit, Goto, OnlyMoves

LEMMA ReturnMoves ==
  ASSUME ProcTypeOK, NEW p \in Procs, NEW o, Return(p, o)
  PROVE  OnlyMoves(p)
  BY ProceedMoves, ExitMoves DEF Return, Labels

LEMMA OthersHold ==
  ASSUME TypeOK, NEW p \in Procs, OnlyMoves(p), Grows,
         NEW q \in Procs, q # p, HoldsTaken(q)
  PROVE  HoldsTaken(q)'
<1> PICK x \in Messages : x = msg[q]
  BY DEF TypeOK, ProcTypeOK
<1>1. pc'[q] = pc[q] /\ msg'[q] = x /\ caller'[q] = caller[q] /\ work'[q] = work[q]
  BY DEF OnlyMoves
<1>2. (PastProvider(q) => Handed(msg[q]) >= 1)'
  <2>1. PastProvider(q)' => Handed(x)' >= 1
    BY <1>1 DEF HoldsTaken, PastProvider, Grows
  <2> QED BY <1>1, <2>1 DEF Handed
<1>3. (pc[q] = "accept" => msg[q] \in timeline)'
  BY <1>1 DEF HoldsTaken, Grows
<1>4. SweepLoop(q)'
  BY <1>1 DEF HoldsTaken, SweepLoop, Grows, TypeOK, ProcTypeOK
<1> QED BY <1>2, <1>3, <1>4 DEF HoldsTaken

LEMMA ExitHolds ==
  ASSUME ProcTypeOK, NEW p \in Procs, Exit(p)
  PROVE  HoldsTaken(p)'
  BY DEF ProcTypeOK, Exit, Goto, HoldsTaken, PastProvider, SweepLoop

(* Going on: where the invocation may be next, given what it holds. *)
LEMMA ProceedHolds ==
  ASSUME TypeOK, NEW p \in Procs, NEW l \in Labels \ {"sweep", "select", "reconcile"},
         Proceed(p, l), Grows, HoldsTaken(p), pc[p] \notin {"sweep", "select"},
         NEW x \in Messages, x = msg[p],
         caller[p] = "sweep" => l \in {"append", "accept", "unaccept"},
         l \in {"record", "lookup", "append", "accept", "unaccept"} => Handed(x)' >= 1,
         l = "accept" => x \in timeline'
  PROVE  HoldsTaken(p)'
<1>1. pc'[p] = l /\ UNCHANGED <<msg, caller, work>>
  BY DEF Proceed, Goto, TypeOK, ProcTypeOK
<1>2. (PastProvider(p) => Handed(msg[p]) >= 1)'
  <2>1. PastProvider(p)' => Handed(x)' >= 1
    BY <1>1 DEF PastProvider
  <2> QED BY <1>1, <2>1 DEF Handed
<1>3. (pc[p] = "accept" => msg[p] \in timeline)'
  BY <1>1
<1>4. SweepLoop(p)'
  BY <1>1 DEF HoldsTaken, SweepLoop, Grows, TypeOK, ProcTypeOK
<1> QED BY <1>2, <1>3, <1>4 DEF HoldsTaken

LEMMA ReturnHolds ==
  ASSUME TypeOK, NEW p \in Procs, NEW o, Return(p, o), Grows, HoldsTaken(p),
         pc[p] \notin {"sweep", "select"}
  PROVE  HoldsTaken(p)'
<1>1. CASE Exit(p)
  BY <1>1, ExitHolds DEF TypeOK
<1>2. CASE caller[p] = "sweep" /\ Proceed(p, "reconcile")
  <2>1. pc'[p] = "reconcile" /\ UNCHANGED <<caller, work>>
    BY <1>2 DEF Proceed, Goto, TypeOK, ProcTypeOK
  <2>2. SweepLoop(p)'
    BY <1>2, <2>1 DEF HoldsTaken, SweepLoop, Grows, TypeOK, ProcTypeOK
  <2> QED BY <2>1, <2>2 DEF HoldsTaken, PastProvider
<1>3. CASE caller[p] = "deliver" /\ \E l \in {"backoff", "drop"} : Proceed(p, l)
  BY <1>3, ProceedHolds DEF TypeOK, ProcTypeOK, Labels
<1> QED BY <1>1, <1>2, <1>3 DEF Return

(* The parts put together: what a step of p must show. *)
LEMMA TimelineKept ==
  ASSUME TypeOK, TimelineInv, NEW p \in Procs, OnlyMoves(p), Grows, HoldsTaken(p)',
         \A m \in timeline' \ timeline : Handed(m)' >= 1,
         \A m \in Messages : StatusIsBacked(m)',
         confirmed' \subseteq timeline'
  PROVE  TimelineInv'
<1>1. TimelineWasSent'
  BY DEF TimelineInv, TimelineWasSent, Grows, TypeOK, WorldTypeOK
<1>2. \A q \in Procs : HoldsTaken(q)'
  BY OthersHold DEF TimelineInv
<1> QED BY <1>1, <1>2 DEF TimelineInv

(* A status written by an UPDATE, if it claims an acknowledgement, is backed. *)
LEMMA BackedWrite ==
  ASSUME TypeOK, TimelineInv, Grows, NEW x \in Messages, NEW s \in Statuses,
         WriteStatus(x, s),
         s \in {"provider_sent", "accepted"} => Handed(x)' >= 1,
         s = "accepted" => x \in timeline'
  PROVE  \A m \in Messages : StatusIsBacked(m)'
<1> TAKE m \in Messages
<1>1. CASE m = x
  BY <1>1 DEF WriteStatus, StatusIsBacked, TypeOK, IntentTypeOK
<1>2. CASE m # x
  BY <1>2 DEF WriteStatus, StatusIsBacked, TypeOK, IntentTypeOK, TimelineInv, Grows
<1> QED BY <1>1, <1>2

(* No other status claims one. *)
LEMMA BackedOtherwise ==
  ASSUME TypeOK, TimelineInv, Grows,
         \A m \in Messages :
           status'[m] \in {"provider_sent", "accepted"} => status'[m] = status[m]
  PROVE  \A m \in Messages : StatusIsBacked(m)'
<1> TAKE m \in Messages
<1> QED BY DEF StatusIsBacked, TimelineInv, Grows

LEMMA SameWorldGrows ==
  ASSUME delivered' = delivered, timeline \subseteq timeline'
  PROVE  Grows
  BY DEF Grows, Handed

LEMMA TakenGrows ==
  ASSUME TypeOK, NEW p \in Procs, Taken(p), UNCHANGED timeline
  PROVE  Grows
<1> PICK x \in Messages : x = msg[p]
  BY DEF TypeOK, ProcTypeOK
<1> QED BY TakenCounts DEF Grows

(* What Return does to the confirmations. *)
LEMMA ReturnConfirms ==
  ASSUME NEW p \in Procs, NEW o, Return(p, o), confirmed \subseteq timeline',
         o = "ok" => msg[p] \in timeline'
  PROVE  confirmed' \subseteq timeline'
  BY DEF Return, Proceed

(* The writes of outbound_intents.status: of an acknowledgement only for a
   message that was taken. *)
SoundWrite(x) ==
  \/ \A m \in Messages :
       status'[m] \in {"provider_sent", "accepted"} => status'[m] = status[m]
  \/ \E s \in Statuses :
       /\ WriteStatus(x, s)
       /\ s \in {"provider_sent", "accepted"} => Handed(x) >= 1
       /\ s = "accepted" => x \in timeline

LEMMA SoundWriteBacks ==
  ASSUME TypeOK, TimelineInv, Grows, NEW x \in Messages, SoundWrite(x)
  PROVE  \A m \in Messages : StatusIsBacked(m)'
<1>1. CASE \A m \in Messages :
             status'[m] \in {"provider_sent", "accepted"} => status'[m] = status[m]
  BY <1>1, BackedOtherwise
<1>2. ASSUME NEW s \in Statuses, WriteStatus(x, s),
             s \in {"provider_sent", "accepted"} => Handed(x) >= 1,
             s = "accepted" => x \in timeline
      PROVE  \A m \in Messages : StatusIsBacked(m)'
  <2>1. s \in {"provider_sent", "accepted"} => Handed(x)' >= 1
    BY <1>2 DEF Grows
  <2>2. s = "accepted" => x \in timeline'
    BY <1>2 DEF Grows
  <2> QED BY <1>2, <2>1, <2>2, BackedWrite
<1> QED BY <1>1, <1>2 DEF SoundWrite

LEMMA OtherWriteIsSound ==
  ASSUME TypeOK, NEW x \in Messages,
         UNCHANGED status \/ \E s \in Statuses :
           WriteStatus(x, s) /\ s \notin {"provider_sent", "accepted"}
  PROVE  SoundWrite(x)
  BY DEF SoundWrite

(* The three ways a statement ends, for the timeline invariant. *)
LEMMA ProceedKeeps ==
  ASSUME TypeOK, TimelineInv, NEW p \in Procs,
         NEW l \in Labels \ {"sweep", "select", "reconcile"}, Proceed(p, l),
         NEW x \in Messages, x = msg[p], SoundWrite(x), delivered' = delivered,
         timeline' = timeline \/ (timeline' = timeline \cup {x} /\ Handed(x) >= 1),
         pc[p] \notin {"sweep", "select"},
         caller[p] = "sweep" => l \in {"append", "accept", "unaccept"},
         l \in {"record", "lookup", "append", "accept", "unaccept"} => Handed(x) >= 1,
         l = "accept" => x \in timeline'
  PROVE  TimelineInv'
<1>1. Grows
  BY SameWorldGrows
<1>2. HoldsTaken(p)'
  <2>1. l \in {"record", "lookup", "append", "accept", "unaccept"} => Handed(x)' >= 1
    BY <1>1 DEF Grows
  <2> QED BY <1>1, <2>1, ProceedHolds DEF TimelineInv
<1>3. \A m \in Messages : StatusIsBacked(m)'
  BY <1>1, SoundWriteBacks
<1>4. confirmed' \subseteq timeline'
  BY DEF Proceed, TimelineInv
<1>5. \A m \in timeline' \ timeline : Handed(m)' >= 1
  BY <1>1 DEF Grows
<1>6. OnlyMoves(p)
  BY ProceedMoves DEF TypeOK
<1> QED BY <1>1, <1>2, <1>3, <1>4, <1>5, <1>6, TimelineKept

LEMMA ReturnKeeps ==
  ASSUME TypeOK, TimelineInv, NEW p \in Procs, NEW o, Return(p, o),
         NEW x \in Messages, x = msg[p], SoundWrite(x), UNCHANGED <<delivered, timeline>>,
         pc[p] \notin {"sweep", "select"},
         o = "ok" => x \in timeline
  PROVE  TimelineInv'
<1>1. Grows
  BY SameWorldGrows
<1>2. HoldsTaken(p)'
  BY <1>1, ReturnHolds DEF TimelineInv
<1>3. \A m \in Messages : StatusIsBacked(m)'
  BY <1>1, SoundWriteBacks
<1>4. confirmed' \subseteq timeline'
  BY ReturnConfirms DEF TimelineInv
<1>5. OnlyMoves(p)
  BY ReturnMoves DEF TypeOK
<1> QED BY <1>1, <1>2, <1>3, <1>4, <1>5, TimelineKept

LEMMA ExitKeeps ==
  ASSUME TypeOK, TimelineInv, NEW p \in Procs, Exit(p), Grows,
         NEW x \in Messages, SoundWrite(x), UNCHANGED <<timeline, confirmed>>
  PROVE  TimelineInv'
<1>1. \A m \in Messages : StatusIsBacked(m)'
  BY SoundWriteBacks
<1> QED BY <1>1, ExitHolds, ExitMoves, TimelineKept DEF TypeOK, TimelineInv

(* Steps that move p among labels before the provider or in the cron's own
   loops, or that leave the invocations alone, and write no acknowledgement. *)
LEMMA MoveKeeps ==
  ASSUME TypeOK, TimelineInv, NEW p \in Procs, OnlyMoves(p), Grows, HoldsTaken(p)',
         UNCHANGED <<timeline, confirmed>>,
         NEW x \in Messages, SoundWrite(x)
  PROVE  TimelineInv'
<1>1. \A m \in Messages : StatusIsBacked(m)'
  BY SoundWriteBacks
<1> QED BY <1>1, TimelineKept DEF TimelineInv

LEMMA TimelineSendStep ==
  ASSUME TypeOK, TimelineInv, NEW p \in Procs, SendStep(p)
  PROVE  TimelineInv'
<1> USE DEF intentVars
<1> PICK x \in Messages : x = msg[p]
  BY DEF TypeOK, ProcTypeOK
<1>a. /\ caller[p] = "sweep" =>
            pc[p] \in {"sweep", "select", "reconcile", "append", "accept", "unaccept"}
      /\ pc[p] \in {"record", "lookup", "append", "accept", "unaccept"} => Handed(x) >= 1
      /\ pc[p] = "accept" => x \in timeline
      /\ status[x] \in {"provider_sent", "accepted"} => Handed(x) >= 1
  BY DEF TimelineInv, HoldsTaken, PastProvider, SweepLoop, StatusIsBacked
<1>b. ASSUME UNCHANGED status PROVE SoundWrite(x)
  BY <1>b, OtherWriteIsSound
<1>c. ASSUME NEW s \in Statuses, WriteStatus(x, s), s \notin {"provider_sent", "accepted"}
      PROVE  SoundWrite(x)
  BY <1>c, OtherWriteIsSound
<1>1. CASE Enqueue(p)
  <2>1. SoundWrite(x)
    BY <1>1 DEF Enqueue, SoundWrite, TypeOK, IntentTypeOK
  <2>2. CASE Proceed(p, "addRow")
    BY <1>1, <1>a, <2>1, <2>2, ProceedKeeps DEF Enqueue, Labels
  <2>3. CASE Exit(p) /\ UNCHANGED confirmed
    BY <1>1, <2>1, <2>3, ExitKeeps, SameWorldGrows DEF Enqueue
  <2> QED BY <1>1, <2>2, <2>3 DEF Enqueue
<1>2. CASE AddRow(p)
  BY <1>2, <1>b, ExitKeeps, SameWorldGrows DEF AddRow
<1>3. CASE Deny(p)
  BY <1>3, <1>b, ReturnKeeps DEF Deny
<1>4. CASE InsertIntent(p)
  <2>1. SoundWrite(x)
    BY <1>4 DEF InsertIntent, SoundWrite, TypeOK, IntentTypeOK
  <2>2. CASE Proceed(p, "read")
    BY <1>4, <1>a, <2>1, <2>2, ProceedKeeps DEF InsertIntent, Labels
  <2>3. CASE Return(p, "final")
    BY <1>4, <2>1, <2>3, ReturnKeeps DEF InsertIntent
  <2> QED BY <1>4, <2>2, <2>3 DEF InsertIntent
<1>5. CASE ReadSent(p)
  BY <1>5, <1>a, <1>b, ProceedKeeps DEF ReadSent, Reading, Labels
<1>6. CASE ReadRefused(p)
  BY <1>6, <1>b, ReturnKeeps DEF ReadRefused, Reading
<1>7. CASE ReadStale(p)
  BY <1>7, <1>a, <1>b, ProceedKeeps DEF ReadStale, Reading, Labels
<1>8. CASE ReadClaimable(p)
  <2>1. OnlyMoves(p)
    BY <1>8 DEF ReadClaimable, Goto, OnlyMoves, TypeOK, ProcTypeOK
  <2>2. HoldsTaken(p)'
    BY <1>8, <1>a DEF ReadClaimable, Reading, Goto, HoldsTaken, PastProvider, SweepLoop,
                      TypeOK, ProcTypeOK
  <2> QED BY <1>8, <1>b, <2>1, <2>2, MoveKeeps, SameWorldGrows DEF ReadClaimable, Reading
<1>9. CASE Fence(p)
  BY <1>9, <1>c, ReturnKeeps DEF Fence, Statuses
<1>10. CASE Claim(p)
  <2>1. SoundWrite(x)
    BY <1>10, <1>b, <1>c DEF Claim, Statuses
  <2>2. CASE Proceed(p, "resolve")
    BY <1>10, <1>a, <2>1, <2>2, ProceedKeeps DEF Claim, Labels
  <2>3. CASE Return(p, "final")
    BY <1>10, <2>1, <2>3, ReturnKeeps DEF Claim
  <2> QED BY <1>10, <2>2, <2>3 DEF Claim
<1>11. CASE Resolve(p)
  <2>1. CASE Proceed(p, "reject")
    BY <1>11, <1>a, <1>b, <2>1, ProceedKeeps DEF Resolve, Labels
  <2>2. CASE Goto(p, "cross") /\ UNCHANGED <<caller, msg, seen, life, work, snap, confirmed>>
    <3>1. OnlyMoves(p)
      BY <2>2 DEF Goto, OnlyMoves, TypeOK, ProcTypeOK
    <3>2. HoldsTaken(p)'
      BY <1>11, <2>2, <1>a DEF Resolve, Goto, HoldsTaken, PastProvider, SweepLoop,
                                TypeOK, ProcTypeOK
    <3> QED BY <1>11, <1>b, <2>2, <3>1, <3>2, MoveKeeps, SameWorldGrows DEF Resolve
  <2> QED BY <1>11, <2>1, <2>2 DEF Resolve
<1>12. CASE PartAccepted(p)
  <2>1. Grows
    BY <1>12, TakenGrows DEF PartAccepted
  <2>2. OnlyMoves(p)
    <3>1. CASE Proceed(p, "record")
      BY <3>1, ProceedMoves DEF TypeOK, Labels
    <3>2. CASE UNCHANGED <<pc, caller, msg, seen, life, work, snap>>
      BY <3>2 DEF OnlyMoves
    <3> QED BY <1>12, <3>1, <3>2 DEF PartAccepted
  <2>3. HoldsTaken(p)'
    <3>1. CASE part[p] = PartCount[x]
      <4>1. Handed(x)' >= 1
        BY <1>12, <3>1, TakenCounts DEF PartAccepted
      <4> QED BY <1>12, <1>a, <2>1, <3>1, <4>1, ProceedHolds
              DEF PartAccepted, Labels, TimelineInv
    <3>2. CASE part[p] # PartCount[x]
      BY <1>12, <1>a, <3>2 DEF PartAccepted, HoldsTaken, PastProvider, SweepLoop
    <3> QED BY <3>1, <3>2
  <2>4. UNCHANGED confirmed
    BY <1>12 DEF PartAccepted, Proceed
  <2> QED BY <1>12, <1>b, <2>1, <2>2, <2>3, <2>4, MoveKeeps DEF PartAccepted
<1>13. CASE PartRejected(p)
  <2>1. Grows
    BY <1>13, TakenGrows, SameWorldGrows DEF PartRejected
  <2>2. OnlyMoves(p) /\ UNCHANGED confirmed
    BY <1>13, ProceedMoves DEF PartRejected, TypeOK, Labels, Proceed
  <2>3. HoldsTaken(p)'
    BY <1>13, <1>a, <2>1, ProceedHolds DEF PartRejected, Labels, TimelineInv
  <2> QED BY <1>13, <1>b, <2>1, <2>2, <2>3, MoveKeeps DEF PartRejected
<1>14. CASE PartUnknown(p)
  <2>1. Grows
    BY <1>14, TakenGrows, SameWorldGrows DEF PartUnknown
  <2>2. OnlyMoves(p) /\ UNCHANGED confirmed
    BY <1>14, ProceedMoves DEF PartUnknown, TypeOK, Labels, Proceed
  <2>3. HoldsTaken(p)'
    BY <1>14, <1>a, <2>1, ProceedHolds DEF PartUnknown, Labels, TimelineInv
  <2> QED BY <1>14, <1>b, <2>1, <2>2, <2>3, MoveKeeps DEF PartUnknown
<1>15. CASE MarkFailed(p)
  BY <1>15, <1>c, ReturnKeeps DEF MarkFailed, Statuses
<1>16. CASE MarkUncertain(p)
  BY <1>16, <1>c, ReturnKeeps DEF MarkUncertain, Statuses
<1>17. CASE Record(p)
  <2>1. CASE WriteStatus(x, "provider_sent") /\ Proceed(p, "append")
    <3>1. SoundWrite(x)
      BY <1>17, <1>a, <2>1 DEF Record, SoundWrite, Statuses
    <3> QED BY <1>17, <1>a, <2>1, <3>1, ProceedKeeps DEF Record, Labels
  <2>2. CASE UNCHANGED intentVars /\ Return(p, "final")
    BY <1>17, <1>b, <2>2, ReturnKeeps DEF Record
  <2> QED BY <1>17, <2>1, <2>2 DEF Record
<1>18. CASE Lookup(p)
  <2>1. CASE x \in timeline /\ Return(p, "ok")
    BY <1>18, <1>b, <2>1, ReturnKeeps DEF Lookup
  <2>2. CASE Proceed(p, "append")
    BY <1>18, <1>a, <1>b, <2>2, ProceedKeeps DEF Lookup, Labels
  <2> QED BY <1>18, <2>1, <2>2 DEF Lookup
<1>19. CASE AppendOk(p)
  BY <1>19, <1>a, <1>b, ProceedKeeps DEF AppendOk, Labels
<1>20. CASE AppendFails(p)
  BY <1>20, <1>a, <1>b, ProceedKeeps DEF AppendFails, Labels
<1>21. CASE AcceptOk(p)
  <2>1. SoundWrite(x)
    BY <1>21, <1>a DEF AcceptOk, SoundWrite, Statuses
  <2> QED BY <1>21, <1>a, <2>1, ReturnKeeps DEF AcceptOk
<1>22. CASE AcceptFails(p)
  BY <1>22, <1>a, <1>b, ProceedKeeps DEF AcceptFails, Labels
<1>23. CASE Unaccept(p)
  <2>1. SoundWrite(x)
    BY <1>23, <1>a DEF Unaccept, SoundWrite, Statuses
  <2> QED BY <1>23, <1>a, <2>1, ReturnKeeps DEF Unaccept
<1> QED BY <1>1, <1>2, <1>3, <1>4, <1>5, <1>6, <1>7, <1>8, <1>9, <1>10, <1>11, <1>12,
           <1>13, <1>14, <1>15, <1>16, <1>17, <1>18, <1>19, <1>20, <1>21, <1>22, <1>23
        DEF SendStep

LEMMA TimelineCronStep ==
  ASSUME TypeOK, TimelineInv, NEW p \in Procs, CronStep(p)
  PROVE  TimelineInv'
<1> USE DEF intentVars
<1> PICK x \in Messages : x = msg[p]
  BY DEF TypeOK, ProcTypeOK
<1>a. /\ pc[p] \in {"sweep", "select", "reconcile"} => caller[p] = "sweep"
      /\ caller[p] = "sweep" =>
            pc[p] \in {"sweep", "select", "reconcile", "append", "accept", "unaccept"}
      /\ pc[p] = "reconcile" => \A m \in work[p] : Handed(m) >= 1
      /\ \A m \in Messages : status[m] \in {"provider_sent", "accepted"} => Handed(m) >= 1
  BY DEF TimelineInv, HoldsTaken, SweepLoop, StatusIsBacked
<1>b. ASSUME UNCHANGED status PROVE SoundWrite(x)
  BY <1>b, OtherWriteIsSound
<1>1. CASE SweepStale(p)
  <2>1. SoundWrite(x)
    BY <1>1 DEF SweepStale, SoundWrite, TypeOK, IntentTypeOK
  <2>2. pc'[p] = "select" /\ UNCHANGED <<caller, confirmed>> /\ OnlyMoves(p)
    BY <1>1, ProceedMoves DEF SweepStale, Proceed, Goto, TypeOK, ProcTypeOK, Labels
  <2>3. HoldsTaken(p)'
    BY <1>1, <1>a, <2>2 DEF SweepStale, HoldsTaken, PastProvider, SweepLoop
  <2> QED BY <1>1, <2>1, <2>2, <2>3, MoveKeeps, SameWorldGrows DEF SweepStale
<1>2. CASE SelectPending(p)
  <2>1. /\ pc'[p] = "reconcile" /\ UNCHANGED <<caller, confirmed>> /\ OnlyMoves(p)
        /\ work'[p] \subseteq Messages
        /\ \A m \in work'[p] : status[m] \in {"provider_sent", "accepted"}
    BY <1>2 DEF SelectPending, Pending, Goto, OnlyMoves, TypeOK, ProcTypeOK
  <2>2. Grows
    BY <1>2, SameWorldGrows DEF SelectPending
  <2>3. HoldsTaken(p)'
    BY <1>2, <1>a, <2>1, <2>2 DEF SelectPending, HoldsTaken, PastProvider, SweepLoop, Grows
  <2> QED BY <1>2, <1>b, <2>1, <2>2, <2>3, MoveKeeps DEF SelectPending
<1>3. ASSUME NEW m \in Messages, ReconcileNext(p, m) PROVE TimelineInv'
  <2>1. /\ pc[p] = "reconcile" /\ pc'[p] = "append" /\ msg'[p] = m
        /\ m \in work[p] /\ work'[p] \subseteq work[p] /\ work[p] \subseteq Messages
        /\ UNCHANGED <<caller, confirmed, delivered, timeline, status>> /\ OnlyMoves(p)
    BY <1>3 DEF ReconcileNext, Take, Goto, OnlyMoves, TypeOK, ProcTypeOK
  <2>2. Grows
    BY <2>1, SameWorldGrows
  <2>3. Handed(m)' >= 1
    BY <1>a, <2>1, <2>2 DEF Grows
  <2>4. (Handed(msg[p]) >= 1)'
    BY <2>1, <2>3 DEF Handed
  <2>5. HoldsTaken(p)'
    BY <1>a, <2>1, <2>2, <2>4 DEF HoldsTaken, PastProvider, SweepLoop, Grows
  <2> QED BY <1>b, <2>1, <2>2, <2>5, MoveKeeps
<1>4. CASE ReconcileDone(p)
  <2>1. /\ pc'[p] = "collect" /\ caller'[p] = "deliver" /\ OnlyMoves(p)
        /\ UNCHANGED <<confirmed, delivered, timeline, status>>
    BY <1>4 DEF ReconcileDone, Goto, OnlyMoves, TypeOK, ProcTypeOK
  <2>2. HoldsTaken(p)'
    BY <2>1 DEF HoldsTaken, PastProvider, SweepLoop
  <2> QED BY <1>b, <2>1, <2>2, MoveKeeps, SameWorldGrows
<1>5. CASE CollectDue(p)
  <2>1. /\ pc'[p] = "lease" /\ caller' = caller /\ caller[p] # "sweep" /\ OnlyMoves(p)
        /\ UNCHANGED <<confirmed, delivered, timeline, status>>
    BY <1>5, <1>a DEF CollectDue, Goto, OnlyMoves, TypeOK, ProcTypeOK
  <2>2. HoldsTaken(p)'
    BY <2>1 DEF HoldsTaken, PastProvider, SweepLoop
  <2> QED BY <1>b, <2>1, <2>2, MoveKeeps, SameWorldGrows
<1>6. ASSUME NEW m \in Messages, LeaseNext(p, m) PROVE TimelineInv'
  <2>1. /\ pc'[p] = "insert" /\ caller' = caller /\ caller[p] # "sweep" /\ OnlyMoves(p)
        /\ UNCHANGED <<confirmed, delivered, timeline, status>>
    BY <1>6, <1>a DEF LeaseNext, Take, Goto, OnlyMoves, TypeOK, ProcTypeOK
  <2>2. HoldsTaken(p)'
    BY <2>1 DEF HoldsTaken, PastProvider, SweepLoop
  <2> QED BY <1>b, <2>1, <2>2, MoveKeeps, SameWorldGrows
<1>7. ASSUME NEW m \in Messages, LeaseSkip(p, m) PROVE TimelineInv'
  <2>1. /\ pc' = pc /\ pc[p] = "lease" /\ caller' = caller /\ caller[p] # "sweep"
        /\ UNCHANGED <<confirmed, delivered, timeline, status>> /\ OnlyMoves(p)
    BY <1>7, <1>a DEF LeaseSkip, Take, OnlyMoves, TypeOK, ProcTypeOK
  <2>2. HoldsTaken(p)'
    BY <2>1 DEF HoldsTaken, PastProvider, SweepLoop
  <2> QED BY <1>b, <2>1, <2>2, MoveKeeps, SameWorldGrows
<1>8. CASE LeaseDone(p)
  BY <1>8, <1>b, ExitKeeps, SameWorldGrows DEF LeaseDone
<1>9. CASE Drop(p)
  BY <1>9, <1>a, <1>b, ProceedKeeps DEF Drop, Labels
<1>10. CASE Backoff(p)
  BY <1>10, <1>a, <1>b, ProceedKeeps DEF Backoff, Labels
<1> QED BY <1>1, <1>2, <1>3, <1>4, <1>5, <1>6, <1>7, <1>8, <1>9, <1>10 DEF CronStep

(* A call or a cron run begins; nothing else changes. *)
LEMMA BeginKeeps ==
  ASSUME TypeOK, TimelineInv, NEW p \in Procs, NEW m \in Messages,
         \/ Begin(p, m, "insert", "send") \/ Begin(p, m, "enqueue", "schedule")
         \/ Begin(p, m, "sweep", "sweep"),
         UNCHANGED <<status, delivered, timeline, confirmed>>
  PROVE  TimelineInv'
<1>1. OnlyMoves(p)
  BY DEF Begin, Goto, OnlyMoves, TypeOK, ProcTypeOK
<1>2. HoldsTaken(p)'
  BY DEF Begin, Goto, HoldsTaken, PastProvider, SweepLoop, TypeOK, ProcTypeOK
<1> QED BY <1>1, <1>2, MoveKeeps, SameWorldGrows, OtherWriteIsSound

LEMMA TimelineUntouched ==
  ASSUME TimelineInv,
         UNCHANGED <<status, delivered, timeline, confirmed, pc, caller, msg, work>>
  PROVE  TimelineInv'
BY DEF TimelineInv, TimelineWasSent, StatusIsBacked, HoldsTaken, PastProvider,
       SweepLoop, Handed

LEMMA TimelineStep ==
  TypeOK /\ TimelineInv /\ [Next]_vars => TimelineInv'
<1> SUFFICES ASSUME TypeOK, TimelineInv, [Next]_vars PROVE TimelineInv'
  OBVIOUS
<1> USE DEF intentVars
<1>1. ASSUME NEW p \in ApiCalls, NEW m \in Messages, ApiSend(p, m) \/ ApiSchedule(p, m)
      PROVE  TimelineInv'
  BY <1>1, BeginKeeps DEF ApiSend, ApiSchedule, Procs
<1>2. ASSUME NEW m \in Messages, CannedReply(m) PROVE TimelineInv'
  BY <1>2, TimelineUntouched DEF CannedReply, procVars
<1>3. ASSUME NEW p \in CronRuns, CronStart(p) PROVE TimelineInv'
  BY <1>3, BeginKeeps DEF CronStart, Procs, TypeOK, ProcTypeOK
<1>4. ASSUME NEW p \in CronRuns, CronStep(p) PROVE TimelineInv'
  BY <1>4, TimelineCronStep DEF Procs
<1>5. ASSUME NEW p \in Procs, SendStep(p) PROVE TimelineInv'
  BY <1>5, TimelineSendStep
<1>6. ASSUME NEW p \in Procs, Crash(p) PROVE TimelineInv'
  <2>1. Grows
    BY <1>6, TakenGrows, SameWorldGrows DEF Crash
  <2>2. PICK x \in Messages : SoundWrite(x)
    BY <1>6, OtherWriteIsSound, AnyMessageIsOne DEF Crash
  <2> QED BY <1>6, <2>1, <2>2, ExitKeeps DEF Crash
<1>7. CASE Tick
  BY <1>7, TimelineUntouched DEF Tick
<1>8. CASE UNCHANGED vars
  BY <1>8, TimelineUntouched DEF vars, procVars
<1> QED BY <1>1, <1>2, <1>3, <1>4, <1>5, <1>6, <1>7, <1>8, ProcAssumption DEF Next

LEMMA InitTimeline == Init => TimelineInv
BY DEF Init, TimelineInv, TimelineWasSent, StatusIsBacked, HoldsTaken, PastProvider, SweepLoop

THEOREM TimelineInvariant == Spec => []TimelineInv
<1>1. TypeOK /\ TimelineInv /\ [Next]_vars => TimelineInv'
  BY TimelineStep
<1> QED BY InitTimeline, TypeCorrect, <1>1, PTL DEF Spec

(* A conversation never shows an outbound message the provider did not take. *)
THEOREM NothingUnsentIsShown == Spec => []TimelineWasSent
<1>1. TimelineInv => TimelineWasSent
  BY DEF TimelineInv
<1> QED BY TimelineInvariant, <1>1, PTL

(* "accepted", and an answer that the message was sent, mean that the
   conversation shows it. *)
THEOREM AcceptedIsShown == Spec => []AcceptedIsInTimeline
<1>1. TimelineInv => AcceptedIsInTimeline
  BY DEF TimelineInv, AcceptedIsInTimeline, StatusIsBacked
<1> QED BY TimelineInvariant, <1>1, PTL

-----------------------------------------------------------------------------
(* The refinement of ProviderHandoff.                                       *)

(* The abstract state of m does not change. *)
StandsStill(m) == Offer(m)' = Offer(m) /\ Handed(m)' = Handed(m)

LEMMA StrictMove ==
  ASSUME NEW x \in Strict, \A m \in Strict \ {x} : StandsStill(m),
         \/ StandsStill(x)
         \/ Offer(x) = "open" /\ Offer(x)' = "trying" /\ Handed(x)' = Handed(x)
         \/ Offer(x) = "trying" /\ Offer(x)' = "open" /\ Handed(x)' = Handed(x)
         \/ Offer(x) = "trying" /\ Offer(x)' = "closed" /\ Handed(x)' = Handed(x) + 1
         \/ Offer(x) = "trying" /\ Offer(x)' = "closed" /\ Handed(x)' = Handed(x)
         \/ Offer(x) = "open" /\ Offer(x)' = "closed" /\ Handed(x)' = Handed(x)
  PROVE  [Handoff!Next]_(Handoff!vars)
<1> DEFINE offer == [m \in Strict |-> Offer(m)]
           handed == [m \in Strict |-> Handed(m)]
           offerN == [m \in Strict |-> Offer(m)']
           handedN == [m \in Strict |-> Handed(m)']
<1>1. offer' = offerN /\ handed' = handedN
  OBVIOUS
<1>2. CASE StandsStill(x)
  <2>1. offerN = offer /\ handedN = handed
    BY <1>2 DEF StandsStill
  <2> QED BY <1>1, <2>1 DEF Handoff!vars
<1>3. offerN = [offer EXCEPT ![x] = Offer(x)']
  BY DEF StandsStill
<1>4. Handed(x)' = Handed(x) => handedN = handed
  BY DEF StandsStill
<1>5. handedN = [handed EXCEPT ![x] = Handed(x)']
  BY DEF StandsStill
<1>6. offer[x] = Offer(x) /\ handed[x] = Handed(x)
  OBVIOUS
<1> HIDE DEF offer, handed, offerN, handedN
<1>7. CASE Offer(x) = "open" /\ Offer(x)' = "trying" /\ Handed(x)' = Handed(x)
  <2>1. Handoff!Try(x)
    BY <1>1, <1>3, <1>4, <1>6, <1>7 DEF Handoff!Try, Handoff!Move, offer, handed
  <2> QED BY <2>1 DEF Handoff!Next
<1>8. CASE Offer(x) = "trying" /\ Offer(x)' = "open" /\ Handed(x)' = Handed(x)
  <2>1. Handoff!Refused(x)
    BY <1>1, <1>3, <1>4, <1>6, <1>8 DEF Handoff!Refused, Handoff!Move, offer, handed
  <2> QED BY <2>1 DEF Handoff!Next
<1>9. CASE Offer(x) = "trying" /\ Offer(x)' = "closed" /\ Handed(x)' = Handed(x) + 1
  <2>1. Handoff!HandOver(x)
    BY <1>1, <1>3, <1>5, <1>6, <1>9 DEF Handoff!HandOver, Handoff!Move, offer, handed
  <2> QED BY <2>1 DEF Handoff!Next
<1>10. CASE Offer(x) = "trying" /\ Offer(x)' = "closed" /\ Handed(x)' = Handed(x)
  <2>1. Handoff!GiveUp(x)
    BY <1>1, <1>3, <1>4, <1>6, <1>10 DEF Handoff!GiveUp, Handoff!Move, offer, handed
  <2> QED BY <2>1 DEF Handoff!Next
<1>11. CASE Offer(x) = "open" /\ Offer(x)' = "closed" /\ Handed(x)' = Handed(x)
  <2>1. Handoff!Withdraw(x)
    BY <1>1, <1>3, <1>4, <1>6, <1>11 DEF Handoff!Withdraw, Handoff!Move, offer, handed
  <2> QED BY <2>1 DEF Handoff!Next
<1> QED BY <1>2, <1>7, <1>8, <1>9, <1>10, <1>11

AbstractStep == [Handoff!Next]_(Handoff!vars)

(* A step that changes at most the abstract state of one message, which is
   invisible unless the message is in Strict. *)
LEMMA AbstractMove ==
  ASSUME NEW x \in Messages, \A m \in Strict \ {x} : StandsStill(m),
         x \in Strict =>
           \/ StandsStill(x)
           \/ Offer(x) = "open" /\ Offer(x)' = "trying" /\ Handed(x)' = Handed(x)
           \/ Offer(x) = "trying" /\ Offer(x)' = "open" /\ Handed(x)' = Handed(x)
           \/ Offer(x) = "trying" /\ Offer(x)' = "closed" /\ Handed(x)' = Handed(x) + 1
           \/ Offer(x) = "trying" /\ Offer(x)' = "closed" /\ Handed(x)' = Handed(x)
           \/ Offer(x) = "open" /\ Offer(x)' = "closed" /\ Handed(x)' = Handed(x)
  PROVE  AbstractStep
<1>1. CASE x \in Strict
  BY <1>1, StrictMove DEF AbstractStep
<1>2. CASE x \notin Strict
  <2>1. \A m \in Strict : StandsStill(m)
    BY <1>2
  <2>2. /\ [m \in Strict |-> Offer(m)'] = [m \in Strict |-> Offer(m)]
        /\ [m \in Strict |-> Handed(m)'] = [m \in Strict |-> Handed(m)]
    BY <2>1 DEF StandsStill
  <2> QED BY <2>2 DEF AbstractStep, Handoff!vars
<1> QED BY <1>1, <1>2

KeepsFlights ==
  \A q \in Procs, m \in Messages : InFlight(q, m)' = InFlight(q, m)

(* A step that neither starts nor ends a flight, hands nothing strict over,
   and at most closes x: a stutter, or the withdrawal of x. *)
KeepsHanded == \A m \in Strict : Handed(m)' = Handed(m)

LEMMA SameKeepsHanded == delivered' = delivered => KeepsHanded
BY StrictAreMessages, SameDelivered DEF KeepsHanded

LEMMA QuietMove ==
  ASSUME KeepsFlights, KeepsHanded, NEW x \in Messages,
         \A m \in Messages \ {x} : Reclaimable(m)' = Reclaimable(m),
         Reclaimable(x)' => Reclaimable(x)
  PROVE  AbstractStep
<1>1. \A m \in Strict : Handed(m)' = Handed(m)
  BY DEF KeepsHanded
<1>2. \A m \in Messages :
        (\E q \in Procs : InFlight(q, m)') <=> (\E q \in Procs : InFlight(q, m))
  BY DEF KeepsFlights
<1>3. \A m \in Messages : Reclaimable(m)' = Reclaimable(m) => Offer(m)' = Offer(m)
  BY <1>2 DEF Offer
<1>4. Offer(x)' = Offer(x) \/ (Offer(x) = "open" /\ Offer(x)' = "closed")
  BY <1>2 DEF Offer
<1> QED BY <1>1, <1>3, <1>4, StrictAreMessages, AbstractMove DEF StandsStill

LEMMA LandingKeepsFlights ==
  ASSUME NEW p \in Procs, Lands(p), pc[p] \notin {"resolve", "cross", "reject"}
  PROVE  KeepsFlights
<1> SUFFICES ASSUME NEW q \in Procs, NEW m \in Messages
             PROVE  InFlight(q, m)' = InFlight(q, m)
  BY DEF KeepsFlights
<1>1. CASE q = p
  BY <1>1 DEF Lands, Landings, InFlight
<1>2. CASE q # p
  BY <1>2 DEF Lands, InFlight
<1> QED BY <1>1, <1>2

(* The two uses of QuietMove: by a step that leaves the statuses alone, and
   by an UPDATE that closes its intent. *)
LEMMA LandMove ==
  ASSUME NEW p \in Procs, Lands(p), pc[p] \notin {"resolve", "cross", "reject"},
         UNCHANGED <<status, delivered>>
  PROVE  AbstractStep
<1>1. \A m \in Messages : Reclaimable(m)' = Reclaimable(m)
  BY DEF Reclaimable
<1> QED BY <1>1, LandingKeepsFlights, SameKeepsHanded, QuietMove, AnyMessageIsOne

LEMMA WriteMove ==
  ASSUME TypeOK, NEW p \in Procs, Lands(p), pc[p] \notin {"resolve", "cross", "reject"},
         NEW x \in Messages, NEW s \in Statuses, WriteStatus(x, s),
         s \notin Claimable, s # "none", UNCHANGED delivered
  PROVE  AbstractStep
<1>1. \A m \in Messages \ {x} : Reclaimable(m)' = Reclaimable(m)
  BY DEF Reclaimable, WriteStatus, TypeOK, IntentTypeOK
<1>2. Reclaimable(x)' => Reclaimable(x)
  BY ClosingWrite DEF TypeOK
<1> QED BY <1>1, <1>2, LandingKeepsFlights, SameKeepsHanded, QuietMove

LEMMA OpenWriteMove ==
  ASSUME TypeOK, NEW p \in Procs, Lands(p), pc[p] \notin {"resolve", "cross", "reject"},
         UNCHANGED delivered, \A m \in Messages : Reclaimable(m)' = Reclaimable(m)
  PROVE  AbstractStep
BY LandingKeepsFlights, SameKeepsHanded, QuietMove, AnyMessageIsOne

(* The flight of p ends: what its message's abstract state becomes. *)
LEMMA FlightMove ==
  ASSUME TypeOK, DispatchInv, NEW p \in Procs, Lands(p),
         NEW x \in Messages, x = msg[p], pc[p] \in {"resolve", "cross", "reject"},
         \A m \in Messages \ {x} :
           Handed(m)' = Handed(m) /\ Reclaimable(m)' = Reclaimable(m),
         x \in Strict =>
           \/ Handed(x)' = Handed(x)
           \/ Handed(x)' = Handed(x) + 1 /\ ~ Reclaimable(x)'
  PROVE  AbstractStep
<1>1. InFlight(p, x)
  BY DEF InFlight
<1>2. Offer(x) = "trying"
  BY <1>1 DEF Offer
<1>3. \A q \in Procs, m \in Messages : InFlight(q, m)' => InFlight(q, m) /\ m # x
  BY <1>1, FlightEnds
<1>4. Offer(x)' = IF Reclaimable(x)' THEN "open" ELSE "closed"
  BY <1>3 DEF Offer
<1>5. ASSUME NEW m \in Messages \ {x} PROVE Offer(m)' = Offer(m)
  <2>1. \A q \in Procs : InFlight(q, m)' = InFlight(q, m)
    <3> TAKE q \in Procs
    <3>1. CASE q = p
      BY <3>1, <1>3 DEF InFlight
    <3>2. CASE q # p
      BY <3>2 DEF InFlight, Lands
    <3> QED BY <3>1, <3>2
  <2> QED BY <2>1 DEF Offer
<1> QED BY <1>2, <1>4, <1>5, StrictAreMessages, AbstractMove DEF StandsStill

LEMMA TakenMove ==
  ASSUME TypeOK, DispatchInv, NEW p \in Procs, Lands(p), pc[p] = "cross",
         Taken(p), UNCHANGED status
  PROVE  AbstractStep
<1> PICK x \in Messages : x = msg[p]
  BY DEF TypeOK, ProcTypeOK
<1>1. ~ Reclaimable(x) /\ (x \in Strict => Handed(x) = 0)
  BY DEF DispatchInv, InFlight
<1>2. \A m \in Messages \ {x} : Handed(m)' = Handed(m)
  BY TakenCounts
<1>3. x \in Strict => Handed(x)' = Handed(x) \/ Handed(x)' = Handed(x) + 1
  BY <1>1, TakenCounts
<1>4. \A m \in Messages : Reclaimable(m)' = Reclaimable(m)
  BY DEF Reclaimable
<1> QED BY <1>1, <1>2, <1>3, <1>4, FlightMove

LEMMA SendStepMove ==
  ASSUME TypeOK, DispatchInv, NEW p \in Procs, SendStep(p)
  PROVE  AbstractStep
<1> USE DEF intentVars
<1> PICK x \in Messages : x = msg[p]
  BY DEF TypeOK, ProcTypeOK
<1>p. \A l \in Landings : Proceed(p, l) => Lands(p)
  BY ProceedLands DEF TypeOK
<1>e. Exit(p) => Lands(p)
  BY ExitLands DEF TypeOK
<1>r. \A o \in {"ok", "final", "retryable"} : Return(p, o) => Lands(p)
  BY ReturnLands DEF TypeOK
<1>1. CASE Enqueue(p)
  <2>1. \A m \in Messages : Reclaimable(m)' = Reclaimable(m)
    BY <1>1 DEF Enqueue, Reclaimable, Claimable, TypeOK, IntentTypeOK
  <2> QED BY <1>1, <1>p, <1>e, <2>1, OpenWriteMove DEF Enqueue, Landings, Labels
<1>2. CASE AddRow(p)
  BY <1>2, <1>e, LandMove DEF AddRow
<1>3. CASE Deny(p)
  BY <1>3, <1>r, LandMove DEF Deny
<1>4. CASE InsertIntent(p)
  <2>1. \A m \in Messages : Reclaimable(m)' = Reclaimable(m)
    BY <1>4 DEF InsertIntent, Reclaimable, Claimable, TypeOK, IntentTypeOK
  <2> QED BY <1>4, <1>p, <1>r, <2>1, OpenWriteMove DEF InsertIntent, Landings, Labels
<1>5. CASE ReadSent(p)
  BY <1>5, <1>p, LandMove DEF ReadSent, Reading, Landings, Labels
<1>6. CASE ReadRefused(p)
  BY <1>6, <1>r, LandMove DEF ReadRefused, Reading
<1>7. CASE ReadStale(p)
  BY <1>7, <1>p, LandMove DEF ReadStale, Reading, Landings, Labels
<1>8. CASE ReadClaimable(p)
  <2>1. KeepsFlights
    BY <1>8 DEF ReadClaimable, Reading, Goto, KeepsFlights, InFlight, TypeOK, ProcTypeOK
  <2>2. delivered' = delivered /\ \A m \in Messages : Reclaimable(m)' = Reclaimable(m)
    BY <1>8 DEF ReadClaimable, Reading, Reclaimable
  <2> QED BY <2>1, <2>2, SameKeepsHanded, QuietMove
<1>9. CASE Fence(p)
  BY <1>9, <1>r, WriteMove DEF Fence, Statuses, Claimable
<1>10. CASE Claim(p)
  <2>1. CASE status[x] # seen[p]
    BY <1>10, <1>r, <2>1, LandMove DEF Claim, ClaimWins
  <2>2. CASE status[x] = seen[p]
    <3>1. /\ pc' = [pc EXCEPT ![p] = "resolve"] /\ pc[p] = "claim" /\ UNCHANGED msg
          /\ status' = [status EXCEPT ![x] = "sending"] /\ delivered' = delivered
      BY <1>10, <2>2 DEF Claim, ClaimWins, WriteStatus, Proceed, Goto
    <3>2. Reclaimable(x) /\ \A q \in Procs : ~ InFlight(q, x)
      BY <2>2, <3>1 DEF DispatchInv, Reclaimable
    <3>3. Offer(x) = "open"
      BY <3>2 DEF Offer
    <3>4. InFlight(p, x)'
      BY <3>1 DEF InFlight, TypeOK, ProcTypeOK
    <3>5. Offer(x)' = "trying"
      BY <3>4 DEF Offer
    <3>6. \A m \in Messages : Handed(m)' = Handed(m)
      BY <3>1, SameDelivered
    <3>7. ASSUME NEW m \in Messages \ {x} PROVE Offer(m)' = Offer(m)
      <4>1. \A q \in Procs : InFlight(q, m)' = InFlight(q, m)
        BY <3>1 DEF InFlight, TypeOK, ProcTypeOK
      <4>2. Reclaimable(m)' = Reclaimable(m)
        BY <3>1 DEF Reclaimable, TypeOK, IntentTypeOK
      <4> QED BY <4>1, <4>2 DEF Offer
    <3> QED BY <3>3, <3>5, <3>6, <3>7, StrictAreMessages, AbstractMove DEF StandsStill
  <2> QED BY <2>1, <2>2
<1>11. CASE Resolve(p)
  <2>1. KeepsFlights
    BY <1>11 DEF Resolve, Proceed, Goto, KeepsFlights, InFlight, TypeOK, ProcTypeOK
  <2>2. delivered' = delivered /\ \A m \in Messages : Reclaimable(m)' = Reclaimable(m)
    BY <1>11 DEF Resolve, Reclaimable
  <2> QED BY <2>1, <2>2, SameKeepsHanded, QuietMove
<1>12. CASE PartAccepted(p)
  <2>1. CASE part[p] = PartCount[x]
    BY <1>12, <1>p, <2>1, TakenMove DEF PartAccepted, Landings, Labels
  <2>2. CASE part[p] # PartCount[x]
    <3>1. Taken(p) /\ pc[p] = "cross" /\ UNCHANGED <<pc, msg, status>>
      BY <1>12, <2>2 DEF PartAccepted
    <3>2. x \in Strict => Handed(x) = 0
      BY <3>1 DEF DispatchInv, InFlight
    <3>3. \A m \in Strict : Handed(m)' = Handed(m)
      BY <2>2, <3>1, <3>2, TakenCounts, StrictAreMessages
    <3>4. \A m \in Messages : Offer(m)' = Offer(m)
      BY <3>1 DEF Offer, InFlight, Reclaimable
    <3> QED BY <3>3, <3>4, StrictAreMessages, AbstractMove DEF StandsStill
  <2> QED BY <2>1, <2>2
<1>13. CASE PartRejected(p)
  <2>1. KeepsFlights
    BY <1>13 DEF PartRejected, Proceed, Goto, KeepsFlights, InFlight, TypeOK, ProcTypeOK
  <2>2. \A m \in Messages : Reclaimable(m)' = Reclaimable(m)
    BY <1>13 DEF PartRejected, Reclaimable
  <2>3. CASE delivered' = delivered
    BY <2>1, <2>2, <2>3, SameKeepsHanded, QuietMove
  <2>4. CASE x \in LossyMessages /\ Taken(p)
    <3>1. KeepsHanded
      BY <2>4, TakenElsewhere DEF KeepsHanded, Strict
    <3> QED BY <2>1, <2>2, <3>1, QuietMove
  <2> QED BY <1>13, <2>3, <2>4 DEF PartRejected
<1>14. CASE PartUnknown(p)
  <2>1. Lands(p) /\ pc[p] = "cross" /\ UNCHANGED status
    BY <1>14, <1>p DEF PartUnknown, Landings, Labels
  <2>2. CASE Taken(p)
    BY <2>1, <2>2, TakenMove
  <2>3. CASE UNCHANGED delivered
    <3>1. \A m \in Messages : Handed(m)' = Handed(m) /\ Reclaimable(m)' = Reclaimable(m)
      BY <2>1, <2>3, SameDelivered DEF Reclaimable
    <3> QED BY <2>1, <3>1, FlightMove
  <2> QED BY <1>14, <2>2, <2>3 DEF PartUnknown
<1>15. CASE MarkFailed(p)
  <2>1. Lands(p) /\ pc[p] = "reject"
    BY <1>15, <1>r DEF MarkFailed
  <2>2. \A m \in Messages : Handed(m)' = Handed(m)
    BY <1>15, SameDelivered DEF MarkFailed
  <2>3. \A m \in Messages \ {x} : Reclaimable(m)' = Reclaimable(m)
    BY <1>15 DEF MarkFailed, WriteStatus, Reclaimable, TypeOK, IntentTypeOK
  <2> QED BY <2>1, <2>2, <2>3, FlightMove
<1>16. CASE MarkUncertain(p)
  BY <1>16, <1>r, WriteMove DEF MarkUncertain, Statuses, Claimable
<1>17. CASE Record(p)
  <2>1. CASE WriteStatus(x, "provider_sent") /\ Proceed(p, "append")
    BY <1>17, <1>p, <2>1, WriteMove DEF Record, Statuses, Claimable, Landings, Labels
  <2>2. CASE UNCHANGED intentVars /\ Return(p, "final")
    BY <1>17, <1>r, <2>2, LandMove DEF Record
  <2> QED BY <1>17, <2>1, <2>2 DEF Record
<1>18. CASE Lookup(p)
  BY <1>18, <1>p, <1>r, LandMove DEF Lookup, Landings, Labels
<1>19. CASE AppendOk(p)
  BY <1>19, <1>p, LandMove DEF AppendOk, Landings, Labels
<1>20. CASE AppendFails(p)
  BY <1>20, <1>p, LandMove DEF AppendFails, Landings, Labels
<1>21. CASE AcceptOk(p)
  BY <1>21, <1>r, WriteMove DEF AcceptOk, Statuses, Claimable
<1>22. CASE AcceptFails(p)
  BY <1>22, <1>p, LandMove DEF AcceptFails, Landings, Labels
<1>23. CASE Unaccept(p)
  BY <1>23, <1>r, WriteMove DEF Unaccept, Statuses, Claimable
<1> QED BY <1>1, <1>2, <1>3, <1>4, <1>5, <1>6, <1>7, <1>8, <1>9, <1>10, <1>11, <1>12,
           <1>13, <1>14, <1>15, <1>16, <1>17, <1>18, <1>19, <1>20, <1>21, <1>22, <1>23
        DEF SendStep

LEMMA CronStepMove ==
  ASSUME TypeOK, NEW p \in Procs, CronStep(p)
  PROVE  AbstractStep
<1> USE DEF intentVars
<1>1. CASE SweepStale(p)
  <2>1. \A m \in Messages : Reclaimable(m)' = Reclaimable(m)
    BY <1>1 DEF SweepStale, Abandoned, Reclaimable, Claimable, TypeOK, IntentTypeOK
  <2> QED BY <1>1, <2>1, ProceedLands, OpenWriteMove DEF SweepStale, Landings, Labels, TypeOK
<1>2. CASE ~ SweepStale(p)
  <2>1. UNCHANGED <<status, delivered>>
    BY <1>2 DEF CronStep, SelectPending, ReconcileNext, ReconcileDone, CollectDue,
                LeaseNext, LeaseSkip, LeaseDone, Drop, Backoff
  <2>2. pc[p] \notin {"resolve", "cross", "reject"}
    BY <1>2 DEF CronStep, SelectPending, ReconcileNext, ReconcileDone, CollectDue,
                LeaseNext, LeaseSkip, LeaseDone, Drop, Backoff
  <2>3. CASE LeaseDone(p)
    BY <2>1, <2>2, <2>3, ExitLands, LandMove DEF LeaseDone, TypeOK
  <2>4. CASE Drop(p) \/ Backoff(p)
    BY <2>1, <2>2, <2>4, ProceedLands, LandMove DEF Drop, Backoff, TypeOK, Landings, Labels
  <2>5. CASE ~ LeaseDone(p) /\ ~ Drop(p) /\ ~ Backoff(p)
    <3>1. /\ \A q \in Procs \ {p} : pc'[q] = pc[q] /\ msg'[q] = msg[q]
          /\ pc'[p] \notin {"resolve", "cross", "reject"}
      BY <1>2, <2>5 DEF CronStep, SelectPending, ReconcileNext, ReconcileDone, CollectDue,
                  LeaseNext, LeaseSkip, Goto, TypeOK, ProcTypeOK
    <3>2. KeepsFlights
      BY <2>2, <3>1 DEF KeepsFlights, InFlight
    <3> QED BY <2>1, <3>2, SameKeepsHanded, QuietMove, AnyMessageIsOne DEF Reclaimable
  <2> QED BY <2>3, <2>4, <2>5
<1> QED BY <1>1, <1>2

(* Every step of the delivery code is a step of the abstract specification or
   leaves its state alone. *)
LEMMA HandoffStep == TypeOK /\ DispatchInv /\ [Next]_vars => AbstractStep
<1> SUFFICES ASSUME TypeOK, DispatchInv, [Next]_vars PROVE AbstractStep
  OBVIOUS
<1> USE DEF intentVars
<1>0. ASSUME UNCHANGED <<status, delivered, pc, msg>> PROVE AbstractStep
  BY <1>0, SameKeepsHanded, QuietMove, AnyMessageIsOne DEF KeepsFlights, InFlight, Reclaimable
<1>1. ASSUME NEW p \in Procs, NEW m \in Messages,
             Begin(p, m, "insert", "send") \/ Begin(p, m, "enqueue", "schedule")
               \/ Begin(p, m, "sweep", "sweep"),
             UNCHANGED <<status, delivered>>
      PROVE  AbstractStep
  <2>1. Lands(p) /\ pc[p] = "idle"
    BY <1>1, BeginLands DEF TypeOK, Landings, Labels, Callers, Begin
  <2> QED BY <1>1, <2>1, LandMove
<1>2. ASSUME NEW p \in ApiCalls, NEW m \in Messages, ApiSend(p, m) \/ ApiSchedule(p, m)
      PROVE  AbstractStep
  BY <1>1, <1>2 DEF ApiSend, ApiSchedule, Procs
<1>3. ASSUME NEW m \in Messages, CannedReply(m) PROVE AbstractStep
  BY <1>0, <1>3 DEF CannedReply, procVars
<1>4. ASSUME NEW p \in CronRuns, CronStart(p) PROVE AbstractStep
  BY <1>1, <1>4 DEF CronStart, Procs, TypeOK, ProcTypeOK
<1>5. ASSUME NEW p \in CronRuns, CronStep(p) PROVE AbstractStep
  BY <1>5, CronStepMove DEF Procs
<1>6. ASSUME NEW p \in Procs, SendStep(p) PROVE AbstractStep
  BY <1>6, SendStepMove
<1>7. ASSUME NEW p \in Procs, Crash(p) PROVE AbstractStep
  <2>1. Lands(p) /\ UNCHANGED status
    BY <1>7, ExitLands DEF Crash, TypeOK
  <2>2. CASE pc[p] = "cross" /\ Taken(p)
    BY <2>1, <2>2, TakenMove
  <2>3. CASE UNCHANGED delivered /\ pc[p] \in {"resolve", "cross", "reject"}
    <3>1. \A m \in Messages : Handed(m)' = Handed(m) /\ Reclaimable(m)' = Reclaimable(m)
      BY <2>1, <2>3, SameDelivered DEF Reclaimable
    <3>2. msg[p] \in Messages
      BY DEF TypeOK, ProcTypeOK
    <3> QED BY <2>1, <2>3, <3>1, <3>2, FlightMove
  <2>4. CASE UNCHANGED delivered /\ pc[p] \notin {"resolve", "cross", "reject"}
    BY <2>1, <2>4, LandMove
  <2> QED BY <1>7, <2>2, <2>3, <2>4 DEF Crash
<1>8. CASE Tick
  <2>1. KeepsFlights
    BY <1>8 DEF Tick, KeepsFlights, InFlight
  <2> QED BY <1>8, <2>1, SameKeepsHanded, QuietMove, AnyMessageIsOne DEF Tick, Reclaimable
<1>9. CASE UNCHANGED vars
  BY <1>0, <1>9 DEF vars, procVars
<1> QED BY <1>2, <1>3, <1>4, <1>5, <1>6, <1>7, <1>8, <1>9, ProcAssumption DEF Next

LEMMA HandoffInit == Init => Handoff!Init
<1> SUFFICES ASSUME Init PROVE Handoff!Init
  OBVIOUS
<1>1. \A m \in Messages : Handed(m) = 0
  BY PartTypes DEF Init, Handed
<1>2. \A m \in Messages : Offer(m) = "open"
  BY DEF Init, Offer, InFlight, Reclaimable
<1> QED BY <1>1, <1>2, StrictAreMessages DEF Handoff!Init

(* sendOutbound, its retries, the cron's sweep and the send-later queue keep
   the promise of ProviderHandoff: one attempt at a time, a new one only after
   a definitive refusal, none after an acceptance or an unknown outcome. *)
THEOREM ImplementsHandoff == Spec => HandoffSpec
<1>1. TypeOK /\ DispatchInv /\ [Next]_vars => [Handoff!Next]_(Handoff!vars)
  BY HandoffStep DEF AbstractStep
<1> QED BY HandoffInit, <1>1, DispatchInvariant, PTL DEF Spec, Handoff!Spec, HandoffSpec

-----------------------------------------------------------------------------
(* The binding of a message id to its command.                              *)

(* No step unbinds an id, or binds it to something else. *)
BindingsStand ==
  \A m \in Messages :
    status[m] # "none" => status'[m] # "none" /\ command'[m] = command[m]

LEMMA StepBindingsStand ==
  ASSUME TypeOK, DispatchInv, [Next]_vars
  PROVE  BindingsStand
<1> USE DEF intentVars
<1>1. ASSUME NEW x \in Messages, NEW s \in Statuses \ {"none"}, WriteStatus(x, s)
      PROVE  BindingsStand
  BY <1>1 DEF WriteStatus, BindingsStand, TypeOK, IntentTypeOK
<1>2. ASSUME UNCHANGED <<status, command>> PROVE BindingsStand
  BY <1>2 DEF BindingsStand
<1>3. ASSUME NEW p \in Procs, SendStep(p) PROVE BindingsStand
  <2>0. msg[p] \in Messages
    BY DEF TypeOK, ProcTypeOK
  <2>1. CASE Enqueue(p)
    BY <2>0, <2>1 DEF Enqueue, BindingsStand, TypeOK, IntentTypeOK
  <2>2. CASE InsertIntent(p)
    BY <2>0, <2>2 DEF InsertIntent, BindingsStand, TypeOK, IntentTypeOK
  <2>3. CASE AddRow(p) \/ Deny(p) \/ ReadSent(p) \/ ReadRefused(p) \/ ReadStale(p)
             \/ ReadClaimable(p) \/ Resolve(p) \/ PartAccepted(p) \/ PartRejected(p)
             \/ PartUnknown(p) \/ Lookup(p) \/ AppendOk(p) \/ AppendFails(p)
             \/ AcceptFails(p)
    BY <1>2, <2>3 DEF AddRow, Deny, ReadSent, ReadRefused, ReadStale, ReadClaimable, Reading,
       Resolve, PartAccepted, PartRejected, PartUnknown, Lookup, AppendOk, AppendFails, AcceptFails
  <2>4. CASE Fence(p) \/ Claim(p) \/ MarkFailed(p) \/ MarkUncertain(p) \/ Record(p)
             \/ AcceptOk(p) \/ Unaccept(p)
    BY <1>1, <1>2, <2>0, <2>4 DEF Fence, Claim, MarkFailed, MarkUncertain, Record, AcceptOk,
       Unaccept, Statuses
  <2> QED BY <1>3, <2>1, <2>2, <2>3, <2>4 DEF SendStep
<1>4. ASSUME NEW p \in Procs, CronStep(p) PROVE BindingsStand
  <2>1. CASE SweepStale(p)
    BY <2>1 DEF SweepStale, BindingsStand, TypeOK, IntentTypeOK
  <2>2. CASE ~ SweepStale(p)
    BY <1>2, <1>4, <2>2 DEF CronStep, SelectPending, ReconcileNext, ReconcileDone, CollectDue,
       LeaseNext, LeaseSkip, LeaseDone, Drop, Backoff
  <2> QED BY <2>1, <2>2
<1> QED BY <1>2, <1>3, <1>4
        DEF Next, ApiSend, ApiSchedule, CannedReply, CronStart, Crash, Tick, vars, Procs

LEMMA StayBound ==
  ASSUME TypeOK, BindingsStand, NEW q \in Procs, Bound(q),
         pc'[q] \in {"read", "claim", "resolve", "cross", "reject"} =>
           pc[q] \in {"read", "claim", "resolve", "cross", "reject"},
         msg'[q] = msg[q], caller'[q] = caller[q]
  PROVE  Bound(q)'
BY DEF BindingsStand, Bound, CommandOf, TypeOK, ProcTypeOK

LEMMA UnboundIsBound ==
  ASSUME NEW q \in Procs, pc'[q] \notin {"read", "claim", "resolve", "cross", "reject"}
  PROVE  Bound(q)'
BY DEF Bound

LEMMA BindingSendStep ==
  ASSUME TypeOK, BindingInv, BindingsStand, NEW p \in Procs, SendStep(p)
  PROVE  Bound(p)'
<1>r. ASSUME NEW o, Return(p, o) PROVE Bound(p)'
  BY <1>r, UnboundIsBound DEF Return, Exit, Proceed, Goto, TypeOK, ProcTypeOK
<1>1. CASE InsertIntent(p)
  <2>1. CASE Proceed(p, "read")
    <3> PICK x \in Messages : x = msg[p]
      BY DEF TypeOK, ProcTypeOK
    <3>1. UNCHANGED <<msg, caller>>
      BY <2>1 DEF Proceed
    <3>2. status'[x] # "none"
      BY <1>1 DEF InsertIntent, intentVars, TypeOK, IntentTypeOK
    <3>3. command'[x] = CommandOf(p)
      BY <1>1, <2>1 DEF InsertIntent, Matches, Return, Exit, Proceed, Goto, TypeOK, ProcTypeOK
    <3>4. CommandOf(p)' = CommandOf(p)
      BY <3>1 DEF CommandOf
    <3> QED BY <3>1, <3>2, <3>3, <3>4 DEF Bound
  <2> QED BY <1>1, <1>r, <2>1 DEF InsertIntent
<1>2. CASE ReadClaimable(p)
  BY <1>2, StayBound DEF ReadClaimable, Reading, BindingInv, Goto, TypeOK, ProcTypeOK
<1>3. CASE Claim(p) /\ Proceed(p, "resolve")
  BY <1>3, StayBound DEF Claim, Proceed, BindingInv
<1>4. CASE Resolve(p)
  BY <1>4, StayBound DEF Resolve, Proceed, BindingInv
<1>5. CASE PartAccepted(p) \/ PartRejected(p)
  BY <1>5, StayBound DEF PartAccepted, PartRejected, Proceed, BindingInv
<1>6. CASE Enqueue(p) \/ AddRow(p)
  BY <1>6, UnboundIsBound DEF Enqueue, AddRow, Proceed, Exit, Goto, TypeOK, ProcTypeOK
<1>7. CASE ReadSent(p) \/ ReadStale(p) \/ PartUnknown(p) \/ AppendOk(p) \/ AppendFails(p)
             \/ AcceptFails(p)
  BY <1>7, UnboundIsBound DEF ReadSent, ReadStale, PartUnknown, AppendOk, AppendFails,
     AcceptFails, Proceed, Goto, TypeOK, ProcTypeOK
<1>8. CASE Record(p) \/ Lookup(p)
  BY <1>8, <1>r, UnboundIsBound DEF Record, Lookup, Proceed, Goto, TypeOK, ProcTypeOK
<1>9. CASE Deny(p) \/ ReadRefused(p) \/ Fence(p) \/ MarkFailed(p) \/ MarkUncertain(p)
             \/ AcceptOk(p) \/ Unaccept(p) \/ (Claim(p) /\ Return(p, "final"))
  BY <1>9, <1>r DEF Deny, ReadRefused, Fence, MarkFailed, MarkUncertain, AcceptOk, Unaccept
<1> QED BY <1>1, <1>2, <1>3, <1>4, <1>5, <1>6, <1>7, <1>8, <1>9 DEF SendStep, Claim

LEMMA CronStepUnbound ==
  ASSUME TypeOK, NEW p \in Procs, CronStep(p)
  PROVE  pc'[p] \notin {"read", "claim", "resolve", "cross", "reject"}
<1>1. CASE SweepStale(p) \/ Drop(p) \/ Backoff(p) \/ LeaseDone(p)
  BY <1>1 DEF SweepStale, Drop, Backoff, LeaseDone, Proceed, Exit, Goto, TypeOK, ProcTypeOK
<1>2. CASE ~ (SweepStale(p) \/ Drop(p) \/ Backoff(p) \/ LeaseDone(p))
  BY <1>2 DEF CronStep, SelectPending, ReconcileNext, ReconcileDone, CollectDue, LeaseNext,
              LeaseSkip, Goto, TypeOK, ProcTypeOK
<1> QED BY <1>1, <1>2

(* The locals of the invocations that do not step. *)
LEMMA StepMovesOne ==
  ASSUME TypeOK, NEW p \in Procs, SendStep(p) \/ CronStep(p) \/ Crash(p)
  PROVE  OnlyMoves(p)
<1>1. CASE SendStep(p)
  <2>1. CASE \E l \in Labels : Proceed(p, l)
    BY <2>1, ProceedMoves DEF TypeOK
  <2>2. CASE Exit(p)
    BY <2>2, ExitMoves DEF TypeOK
  <2>3. CASE \E o \in {"ok", "final", "retryable"} : Return(p, o)
    BY <2>3, ReturnMoves DEF TypeOK
  <2>4. CASE ReadClaimable(p) \/ Resolve(p) \/ PartAccepted(p)
    BY <2>1, <2>4 DEF ReadClaimable, Resolve, PartAccepted, Goto, OnlyMoves, TypeOK, ProcTypeOK, Labels
  <2> QED BY <1>1, <2>1, <2>2, <2>3, <2>4
          DEF SendStep, Enqueue, AddRow, Deny, InsertIntent, ReadSent, ReadRefused, ReadStale, Fence,
              Claim, PartRejected, PartUnknown, MarkFailed, MarkUncertain, Record, Lookup,
              AppendOk, AppendFails, AcceptOk, AcceptFails, Unaccept, Labels
<1>2. CASE CronStep(p)
  <2>1. CASE SweepStale(p) \/ Drop(p) \/ Backoff(p)
    BY <2>1, ProceedMoves DEF SweepStale, Drop, Backoff, TypeOK, Labels
  <2>2. CASE LeaseDone(p)
    BY <2>2, ExitMoves DEF LeaseDone, TypeOK
  <2>3. CASE ~ (SweepStale(p) \/ Drop(p) \/ Backoff(p) \/ LeaseDone(p))
    BY <1>2, <2>3 DEF CronStep, SelectPending, ReconcileNext, ReconcileDone, CollectDue, LeaseNext,
              LeaseSkip, Take, Goto, OnlyMoves, TypeOK, ProcTypeOK
  <2> QED BY <2>1, <2>2, <2>3
<1>3. CASE Crash(p)
  BY <1>3, ExitMoves DEF Crash, TypeOK
<1> QED BY <1>1, <1>2, <1>3

LEMMA BindingStep == TypeOK /\ DispatchInv /\ BindingInv /\ [Next]_vars => BindingInv'
<1> SUFFICES ASSUME TypeOK, DispatchInv, BindingInv, [Next]_vars PROVE BindingInv'
  OBVIOUS
<1>a. BindingsStand
  BY StepBindingsStand
<1>1. ASSUME NEW p \in Procs, OnlyMoves(p), Bound(p)' PROVE BindingInv'
  BY <1>a, <1>1, StayBound DEF BindingInv, OnlyMoves
<1>2. ASSUME NEW p \in Procs, NEW m \in Messages,
             Begin(p, m, "insert", "send") \/ Begin(p, m, "enqueue", "schedule")
               \/ Begin(p, m, "sweep", "sweep")
      PROVE  BindingInv'
  <2>1. Bound(p)'
    BY <1>2, UnboundIsBound DEF Begin, Goto, TypeOK, ProcTypeOK
  <2>2. OnlyMoves(p)
    BY <1>2 DEF Begin, Goto, OnlyMoves, TypeOK, ProcTypeOK
  <2> QED BY <1>1, <2>1, <2>2
<1>3. ASSUME NEW p \in Procs, SendStep(p) \/ CronStep(p) \/ Crash(p) PROVE BindingInv'
  <2>1. Bound(p)'
    <3>1. CASE Crash(p)
      BY <3>1, UnboundIsBound DEF Crash, Exit, Goto, TypeOK, ProcTypeOK
    <3> QED BY <1>a, <1>3, <3>1, BindingSendStep, CronStepUnbound, UnboundIsBound
  <2> QED BY <1>1, <1>3, <2>1, StepMovesOne
<1>4. ASSUME UNCHANGED <<pc, msg, caller>> PROVE BindingInv'
  BY <1>a, <1>4, StayBound DEF BindingInv
<1> QED BY <1>2, <1>3, <1>4
        DEF Next, ApiSend, ApiSchedule, CannedReply, CronStart, Tick, vars, procVars, Procs,
            TypeOK, ProcTypeOK

(* What goes to the provider under a client message id is the command that id
   was first used for. *)
THEOREM DispatchesWhatIsBound == Spec => []DispatchIsBound
<1>1. Init => BindingInv
  BY DEF Init, BindingInv, Bound
<1>2. TypeOK /\ DispatchInv /\ BindingInv /\ [Next]_vars => BindingInv'
  BY BindingStep
<1>3. BindingInv => DispatchIsBound
  BY DEF BindingInv, Bound, DispatchIsBound, InFlight
<1> QED BY <1>1, <1>2, <1>3, DispatchInvariant, PTL DEF Spec
-----------------------------------------------------------------------------
(* Acknowledgements and fences, when leases outlive lives.                  *)

(* The writes of statuses, by whoever has the right to do so. *)
WritesStatus(p) ==
  \/ UNCHANGED <<status, age>>
  \/ \E m \in Messages, s \in {"pending", "queued"} :
       /\ status[m] = "none"
       /\ status' = [status EXCEPT ![m] = s]
       /\ age' = [age EXCEPT ![m] = 0]
  \/ pc[p] = "claim" /\ status[msg[p]] \in Claimable /\ WriteStatus(msg[p], "sending")
  \/ Flying(p) /\ \E s \in {"failed", "uncertain", "provider_sent"} : WriteStatus(msg[p], s)
  \/ Fencing(p) /\ WriteStatus(msg[p], "uncertain")
  \/ Settling(p) /\ \E s \in Acknowledged : WriteStatus(msg[p], s)
  \/ /\ status' = [m \in Messages |-> IF Abandoned(m) THEN "uncertain" ELSE status[m]]
     /\ age' = [m \in Messages |-> IF Abandoned(m) THEN 0 ELSE age[m]]

LEMMA SendStepWrites ==
  ASSUME TypeOK, DispatchInv, NEW p \in Procs, SendStep(p)
  PROVE  WritesStatus(p)
<1>0. msg[p] \in Messages
  BY DEF TypeOK, ProcTypeOK
<1>1. CASE Enqueue(p) \/ InsertIntent(p)
  BY <1>0, <1>1 DEF Enqueue, InsertIntent, intentVars, WritesStatus
<1>2. CASE Claim(p)
  BY <1>0, <1>2 DEF Claim, ClaimWins, intentVars, WritesStatus, DispatchInv
<1>3. CASE Fence(p)
  BY <1>3 DEF Fence, Fencing, WritesStatus
<1>4. CASE MarkFailed(p) \/ MarkUncertain(p) \/ Record(p)
  BY <1>4 DEF MarkFailed, MarkUncertain, Record, Flying, intentVars, WritesStatus
<1>5. CASE AcceptOk(p) \/ Unaccept(p)
  BY <1>5 DEF AcceptOk, Unaccept, Settling, Acknowledged, WritesStatus
<1>6. CASE AddRow(p) \/ Deny(p) \/ ReadSent(p) \/ ReadRefused(p) \/ ReadStale(p)
             \/ ReadClaimable(p) \/ Resolve(p) \/ PartAccepted(p) \/ PartRejected(p)
             \/ PartUnknown(p) \/ Lookup(p) \/ AppendOk(p) \/ AppendFails(p) \/ AcceptFails(p)
  BY <1>6 DEF AddRow, Deny, ReadSent, ReadRefused, ReadStale, ReadClaimable, Reading, Resolve,
     PartAccepted, PartRejected, PartUnknown, Lookup, AppendOk, AppendFails, AcceptFails,
     intentVars, WritesStatus
<1> QED BY <1>1, <1>2, <1>3, <1>4, <1>5, <1>6 DEF SendStep

LEMMA CronStepWrites ==
  ASSUME NEW p \in Procs, CronStep(p)
  PROVE  WritesStatus(p)
<1>1. CASE SweepStale(p)
  BY <1>1 DEF SweepStale, WritesStatus
<1>2. CASE ~ SweepStale(p)
  BY <1>2 DEF CronStep, SelectPending, ReconcileNext, ReconcileDone, CollectDue, LeaseNext,
     LeaseSkip, LeaseDone, Drop, Backoff, intentVars, WritesStatus
<1> QED BY <1>1, <1>2

(* A dispatch of a living invocation is not stale. *)
LEMMA FlightIsFresh ==
  ASSUME TypeOK, SettledInv, LivesAreShort, NEW q \in Procs, Flying(q)
  PROVE  ~ Stale(msg[q]) /\ ~ Abandoned(msg[q])
<1>1. age[msg[q]] \in Nat /\ life[q] \in 0 .. MaxLife
  BY DEF TypeOK, IntentTypeOK, ProcTypeOK, AgeCap
<1>2. age[msg[q]] <= life[q]
  BY DEF SettledInv, KnowsStatus
<1> QED BY <1>1, <1>2, BoundAssumption DEF Stale, Abandoned, LivesAreShort

(* What a write does to the message of another invocation. *)
LEMMA AcknowledgedStays ==
  ASSUME TypeOK, SettledInv, NEW p \in Procs, WritesStatus(p), NEW m \in Messages
  PROVE  /\ status[m] \in Acknowledged => status'[m] \in Acknowledged
         /\ status[m] = "uncertain" => status'[m] = "uncertain"
         /\ status[m] \in {"sending", "uncertain"} /\ ~ (msg[p] = m /\ Flying(p)) =>
              status'[m] \in {"sending", "uncertain"}
<1>0. msg[p] \in Messages /\ KnowsStatus(p) /\ status \in [Messages -> Statuses]
  BY DEF TypeOK, ProcTypeOK, IntentTypeOK, SettledInv
<1>1. CASE UNCHANGED <<status, age>>
  BY <1>1
<1>2. ASSUME NEW n \in Messages, NEW s \in {"pending", "queued"}, status[n] = "none",
             status' = [status EXCEPT ![n] = s]
      PROVE  status[m] # "none" => status'[m] = status[m]
  BY <1>0, <1>2
<1>3. CASE pc[p] = "claim" /\ status[msg[p]] \in Claimable /\ WriteStatus(msg[p], "sending")
  BY <1>0, <1>3 DEF WriteStatus, Claimable, Acknowledged
<1>4. CASE Flying(p) /\ \E s \in {"failed", "uncertain", "provider_sent"} : WriteStatus(msg[p], s)
  <2>1. status[msg[p]] = "sending"
    BY <1>0, <1>4 DEF KnowsStatus
  <2> QED BY <1>0, <1>4, <2>1 DEF WriteStatus, Acknowledged
<1>5. CASE Fencing(p) /\ WriteStatus(msg[p], "uncertain")
  <2>1. status[msg[p]] \in {"sending", "uncertain"}
    BY <1>0, <1>5 DEF KnowsStatus
  <2> QED BY <1>0, <1>5, <2>1 DEF WriteStatus, Acknowledged
<1>6. CASE Settling(p) /\ \E s \in Acknowledged : WriteStatus(msg[p], s)
  <2>1. status[msg[p]] \in Acknowledged
    BY <1>0, <1>6 DEF KnowsStatus
  <2> QED BY <1>0, <1>6, <2>1 DEF WriteStatus, Acknowledged
<1>7. CASE status' = [n \in Messages |-> IF Abandoned(n) THEN "uncertain" ELSE status[n]]
  BY <1>7 DEF Abandoned, Acknowledged
<1> QED BY <1>1, <1>2, <1>3, <1>4, <1>5, <1>6, <1>7 DEF WritesStatus, Acknowledged

LEMMA FlightUndisturbed ==
  ASSUME TypeOK, SettledInv, LivesAreShort, NEW p \in Procs, WritesStatus(p),
         NEW q \in Procs, q # p, Flying(q)
  PROVE  status'[msg[q]] = "sending" /\ age'[msg[q]] = age[msg[q]]
<1> PICK m \in Messages : m = msg[q]
  BY DEF TypeOK, ProcTypeOK
<1>0. /\ msg[p] \in Messages /\ KnowsStatus(p) /\ KnowsStatus(q) /\ FliesAlone(q)
      /\ status \in [Messages -> Statuses] /\ DOMAIN age = Messages
  BY DEF TypeOK, ProcTypeOK, IntentTypeOK, SettledInv
<1>1. status[m] = "sending" /\ ~ Abandoned(m)
  BY <1>0, FlightIsFresh DEF KnowsStatus
<1>2. msg[p] = m => ~ Flying(p) /\ ~ Fencing(p)
  BY <1>0 DEF FliesAlone
<1>3. msg[p] = m => status[msg[p]] \notin Claimable /\ ~ Settling(p)
  BY <1>0, <1>1 DEF KnowsStatus, Claimable, Acknowledged
<1>4. CASE UNCHANGED <<status, age>>
  BY <1>1, <1>4
<1>5. ASSUME NEW n \in Messages, NEW s \in {"pending", "queued"}, status[n] = "none",
             status' = [status EXCEPT ![n] = s], age' = [age EXCEPT ![n] = 0]
      PROVE  status'[m] = "sending" /\ age'[m] = age[m]
  BY <1>0, <1>1, <1>5
<1>6. ASSUME NEW s \in Statuses, msg[p] # m, WriteStatus(msg[p], s)
      PROVE  status'[m] = "sending" /\ age'[m] = age[m]
  BY <1>0, <1>1, <1>6 DEF WriteStatus
<1>7. ASSUME /\ status' = [n \in Messages |-> IF Abandoned(n) THEN "uncertain" ELSE status[n]]
             /\ age' = [n \in Messages |-> IF Abandoned(n) THEN 0 ELSE age[n]]
      PROVE  status'[m] = "sending" /\ age'[m] = age[m]
  BY <1>1, <1>7
<1> QED BY <1>2, <1>3, <1>4, <1>5, <1>6, <1>7 DEF WritesStatus, Statuses, Acknowledged

LEMMA OthersKnow ==
  ASSUME TypeOK, SettledInv, LivesAreShort, NEW p \in Procs, WritesStatus(p), OnlyMoves(p),
         NEW q \in Procs, q # p
  PROVE  KnowsStatus(q)'
<1> PICK x \in Messages : x = msg[q]
  BY DEF TypeOK, ProcTypeOK
<1>0. KnowsStatus(q) /\ work[q] \subseteq Messages
  BY DEF SettledInv, TypeOK, ProcTypeOK
<1>1. /\ pc'[q] = pc[q] /\ msg'[q] = x /\ caller'[q] = caller[q]
      /\ work'[q] = work[q] /\ life'[q] = life[q]
  BY DEF OnlyMoves
<1>2. (Flying(q) => status[msg[q]] = "sending" /\ age[msg[q]] <= life[q])'
  <2>1. Flying(q) => status'[x] = "sending" /\ age'[x] <= life[q]
    BY <1>0, FlightUndisturbed DEF KnowsStatus
  <2> QED BY <1>1, <2>1 DEF Flying
<1>3. (Fencing(q) => status[msg[q]] \in {"sending", "uncertain"})'
  <2>1. Fencing(q) => status[x] \in {"sending", "uncertain"} /\ ~ (msg[p] = x /\ Flying(p))
    BY <1>0 DEF KnowsStatus, SettledInv, FliesAlone
  <2>2. Fencing(q) => status'[x] \in {"sending", "uncertain"}
    BY <2>1, AcknowledgedStays
  <2> QED BY <1>1, <2>2 DEF Fencing
<1>4. (Settling(q) => status[msg[q]] \in Acknowledged)'
  <2>1. Settling(q) => status'[x] \in Acknowledged
    BY <1>0, AcknowledgedStays DEF KnowsStatus
  <2> QED BY <1>1, <2>1 DEF Settling, Acknowledged
<1>5. (pc[q] = "reconcile" \/ (caller[q] = "sweep" /\ Settling(q)) =>
         \A m \in work[q] : status[m] \in Acknowledged)'
  <2>1. pc[q] = "reconcile" \/ (caller[q] = "sweep" /\ Settling(q)) =>
          \A m \in work[q] : status'[m] \in Acknowledged
    BY <1>0, AcknowledgedStays DEF KnowsStatus
  <2> QED BY <1>1, <2>1 DEF Settling, Acknowledged
<1> QED BY <1>2, <1>3, <1>4, <1>5 DEF KnowsStatus

(* A flight begins with a claim, and a fence is for a stale dispatch. *)
Departs(p) ==
  /\ Flying(p)' => msg'[p] = msg[p] /\ (Flying(p) \/ status[msg[p]] \in Claimable)
  /\ Fencing(p)' => msg'[p] = msg[p] /\ status[msg[p]] = "sending" /\ Stale(msg[p])

LEMMA StillAlone ==
  ASSUME TypeOK, SettledInv, LivesAreShort, NEW p \in Procs, OnlyMoves(p), Departs(p),
         NEW q \in Procs, NEW r \in Procs, q # r, msg'[q] = msg'[r], Flying(q)'
  PROVE  ~ Flying(r)' /\ ~ Fencing(r)'
<1>1. CASE q # p /\ r # p
  BY <1>1 DEF OnlyMoves, SettledInv, FliesAlone, Flying, Fencing
<1>2. CASE q = p
  <2>1. msg[p] = msg[r] /\ Flying(r)' = Flying(r) /\ Fencing(r)' = Fencing(r)
    BY <1>2 DEF OnlyMoves, Departs, Flying, Fencing
  <2>2. CASE Flying(p)
    BY <1>2, <2>1, <2>2 DEF SettledInv, FliesAlone
  <2>3. CASE status[msg[p]] \in Claimable
    BY <2>1, <2>3 DEF SettledInv, KnowsStatus, Claimable
  <2> QED BY <1>2, <2>2, <2>3 DEF Departs
<1>3. CASE r = p
  <2>1. pc'[q] = pc[q] /\ msg'[q] = msg[q]
    BY <1>3 DEF OnlyMoves
  <2>2. Flying(q)
    BY <2>1 DEF Flying
  <2>3. CASE Flying(p)'
    <3>1. msg[q] = msg[p]
      BY <1>3, <2>1, <2>3 DEF Departs
    <3>2. status[msg[q]] = "sending" /\ ~ Flying(p)
      BY <1>3, <2>2, <3>1 DEF SettledInv, KnowsStatus, FliesAlone
    <3> QED BY <2>3, <3>1, <3>2 DEF Departs, Claimable
  <2>4. CASE Fencing(p)'
    BY <1>3, <2>1, <2>2, <2>4, FlightIsFresh DEF Departs
  <2> QED BY <1>3, <2>3, <2>4
<1> QED BY <1>1, <1>2, <1>3

(* What a step of p must show. *)
LEMMA SettledKept ==
  ASSUME TypeOK, SettledInv, LivesAreShort, NEW p \in Procs, OnlyMoves(p), WritesStatus(p),
         Departs(p), KnowsStatus(p)'
  PROVE  SettledInv'
<1>1. \A q \in Procs : KnowsStatus(q)'
  BY OthersKnow
<1>2. \A q \in Procs : FliesAlone(q)'
  BY StillAlone DEF FliesAlone
<1> QED BY <1>1, <1>2 DEF SettledInv

Own(p) == Departs(p) /\ KnowsStatus(p)'

LEMMA OwnElsewhere ==
  ASSUME NEW p \in Procs,
         pc'[p] \notin {"resolve", "cross", "reject", "doubt", "record", "fence",
                        "lookup", "append", "accept", "unaccept", "reconcile"}
  PROVE  Own(p)
BY DEF Own, Departs, KnowsStatus, Flying, Fencing, Settling

LEMMA ProceedOwn ==
  ASSUME TypeOK, NEW p \in Procs, NEW l \in Labels, Proceed(p, l), NEW x \in Messages, x = msg[p],
         l \in {"resolve", "cross", "reject", "doubt", "record"} =>
           /\ status'[x] = "sending" /\ age'[x] <= life[p]
           /\ Flying(p) \/ status[x] \in Claimable,
         l = "fence" => status[x] = "sending" /\ status'[x] = "sending" /\ Stale(x),
         l \in {"lookup", "append", "accept", "unaccept"} => status'[x] \in Acknowledged,
         l = "reconcile" \/ (caller[p] = "sweep" /\ l \in {"lookup", "append", "accept", "unaccept"}) =>
           \A m \in work[p] : status'[m] \in Acknowledged
  PROVE  Own(p)
<1>1. pc'[p] = l /\ msg' = msg /\ caller' = caller /\ work' = work /\ life' = life
  BY DEF Proceed, Goto, TypeOK, ProcTypeOK
<1>2. Departs(p)
  BY <1>1 DEF Departs, Flying, Fencing
<1>3. KnowsStatus(p)'
  BY <1>1 DEF KnowsStatus, Flying, Fencing, Settling, Acknowledged
<1> QED BY <1>2, <1>3 DEF Own

(* Only a sweep returns to its loop, and what it has selected stands. *)
LEMMA ReturnOwn ==
  ASSUME TypeOK, SettledInv, NEW p \in Procs, SweepLoop(p), NEW o, Return(p, o), WritesStatus(p),
         pc[p] \notin {"sweep", "select", "reconcile"}
  PROVE  Own(p)
<1>1. CASE caller[p] = "sweep" /\ Proceed(p, "reconcile")
  <2>1. Settling(p)
    BY <1>1 DEF SweepLoop, Settling
  <2>2. work[p] \subseteq Messages /\ msg[p] \in Messages
    BY DEF TypeOK, ProcTypeOK
  <2>3. \A m \in work[p] : status[m] \in Acknowledged
    BY <1>1, <2>1 DEF SettledInv, KnowsStatus
  <2>4. \A m \in work[p] : status'[m] \in Acknowledged
    BY <2>2, <2>3, AcknowledgedStays
  <2> QED BY <1>1, <2>2, <2>4, ProceedOwn DEF Labels
<1>2. CASE Exit(p)
  BY <1>2, OwnElsewhere DEF Exit, Goto, TypeOK, ProcTypeOK
<1>3. CASE \E l \in {"backoff", "drop"} : Proceed(p, l)
  BY <1>3, OwnElsewhere DEF Proceed, Goto, TypeOK, ProcTypeOK
<1> QED BY <1>1, <1>2, <1>3 DEF Return

LEMMA SendStepOwn ==
  ASSUME TypeOK, DispatchInv, SettledInv, NEW p \in Procs, SweepLoop(p), SendStep(p)
  PROVE  Own(p)
<1> PICK x \in Messages : x = msg[p]
  BY DEF TypeOK, ProcTypeOK
<1>0. /\ WritesStatus(p) /\ KnowsStatus(p) /\ work[p] \subseteq Messages
      /\ status \in [Messages -> Statuses] /\ age \in [Messages -> 0 .. AgeCap] /\ life[p] \in Nat
  BY SendStepWrites DEF TypeOK, ProcTypeOK, IntentTypeOK, SettledInv
<1>a. \A m \in work[p] : status[m] \in Acknowledged => status'[m] \in Acknowledged
  BY <1>0, AcknowledgedStays
<1>s. caller[p] = "sweep" => pc[p] \in {"sweep", "select", "reconcile", "append", "accept", "unaccept"}
  BY DEF SettledInv, SweepLoop
<1>r. ASSUME NEW o, Return(p, o), pc[p] \notin {"sweep", "select", "reconcile"} PROVE Own(p)
  BY <1>0, <1>r, ReturnOwn
<1>1. CASE Enqueue(p) \/ AddRow(p)
  BY <1>1, OwnElsewhere DEF Enqueue, AddRow, Proceed, Exit, Goto, TypeOK, ProcTypeOK
<1>2. CASE Deny(p) \/ ReadRefused(p) \/ Fence(p) \/ MarkFailed(p) \/ MarkUncertain(p)
             \/ AcceptOk(p) \/ Unaccept(p)
  BY <1>2, <1>r DEF Deny, ReadRefused, Reading, Fence, MarkFailed, MarkUncertain, AcceptOk, Unaccept
<1>3. CASE InsertIntent(p)
  <2>1. CASE Proceed(p, "read")
    BY <2>1, OwnElsewhere DEF Proceed, Goto, TypeOK, ProcTypeOK
  <2> QED BY <1>3, <1>r, <2>1 DEF InsertIntent
<1>4. CASE ReadSent(p)
  <2>1. status' = status /\ status[x] \in Acknowledged /\ caller[p] # "sweep"
    BY <1>4, <1>s DEF ReadSent, Reading, intentVars, Acknowledged
  <2> QED BY <1>4, <2>1, ProceedOwn DEF ReadSent, Labels
<1>5. CASE ReadStale(p)
  BY <1>5, ProceedOwn DEF ReadStale, Reading, intentVars, Labels
<1>6. CASE ReadClaimable(p)
  BY <1>6, OwnElsewhere DEF ReadClaimable, Reading, Goto, TypeOK, ProcTypeOK
<1>7. CASE Claim(p)
  <2>1. CASE ClaimWins(p) /\ WriteStatus(x, "sending") /\ Proceed(p, "resolve")
    <3>1. status'[x] = "sending" /\ age'[x] = 0
      BY <1>0, <2>1 DEF WriteStatus
    <3>2. status[x] \in Claimable
      BY <1>7, <2>1 DEF Claim, ClaimWins, DispatchInv
    <3> QED BY <1>0, <2>1, <3>1, <3>2, ProceedOwn DEF Labels
  <2> QED BY <1>7, <1>r, <2>1 DEF Claim
<1>8. CASE Resolve(p) \/ PartAccepted(p) \/ PartRejected(p) \/ PartUnknown(p)
  <2>1. /\ pc'[p] \in {"cross", "reject", "doubt", "record"} /\ Flying(p)
        /\ msg' = msg /\ caller' = caller /\ life' = life /\ work' = work /\ status' = status /\ age' = age
    BY <1>8 DEF Resolve, PartAccepted, PartRejected, PartUnknown, Proceed, Goto, Flying, intentVars,
       TypeOK, ProcTypeOK
  <2>2. status[x] = "sending" /\ age[x] <= life[p]
    BY <1>0, <2>1 DEF KnowsStatus
  <2>3. Departs(p)
    BY <2>1 DEF Departs, Fencing
  <2>4. KnowsStatus(p)'
    BY <2>1, <2>2 DEF KnowsStatus, Fencing, Settling
  <2> QED BY <2>3, <2>4 DEF Own
<1>9. CASE Record(p)
  <2>1. CASE WriteStatus(x, "provider_sent") /\ Proceed(p, "append")
    <3>1. status'[x] \in Acknowledged
      BY <1>0, <2>1 DEF WriteStatus, Acknowledged
    <3>2. caller[p] # "sweep"
      BY <1>9, <1>s DEF Record
    <3> QED BY <2>1, <3>1, <3>2, ProceedOwn DEF Labels
  <2> QED BY <1>9, <1>r, <2>1 DEF Record
<1>10. CASE Lookup(p) \/ AppendOk(p) \/ AppendFails(p) \/ AcceptFails(p)
  <2>1. Settling(p) /\ pc[p] \in {"lookup", "append", "accept"} /\ status' = status
    BY <1>10 DEF Lookup, AppendOk, AppendFails, AcceptFails, Settling, intentVars
  <2>2. status[x] \in Acknowledged /\ (caller[p] = "sweep" => \A m \in work[p] : status[m] \in Acknowledged)
    BY <1>0, <2>1 DEF KnowsStatus
  <2>3. ASSUME NEW l \in {"append", "accept", "unaccept"}, Proceed(p, l) PROVE Own(p)
    BY <2>1, <2>2, <2>3, ProceedOwn DEF Labels
  <2> QED BY <1>10, <1>r, <2>1, <2>3 DEF Lookup, AppendOk, AppendFails, AcceptFails
<1> QED BY <1>1, <1>2, <1>3, <1>4, <1>5, <1>6, <1>7, <1>8, <1>9, <1>10 DEF SendStep

LEMMA CronStepOwn ==
  ASSUME TypeOK, SettledInv, NEW p \in Procs, SweepLoop(p), CronStep(p)
  PROVE  Own(p)
<1>1. CASE SweepStale(p) \/ Drop(p) \/ Backoff(p) \/ LeaseDone(p)
  BY <1>1, OwnElsewhere DEF SweepStale, Drop, Backoff, LeaseDone, Proceed, Exit, Goto, TypeOK, ProcTypeOK
<1>2. CASE SelectPending(p)
  <2>1. /\ pc'[p] = "reconcile" /\ status' = status
        /\ work'[p] = {m \in Messages : Pending(m)}
    BY <1>2 DEF SelectPending, Goto, intentVars, TypeOK, ProcTypeOK
  <2>2. \A m \in work'[p] : status'[m] \in Acknowledged
    BY <2>1 DEF Pending, Acknowledged
  <2> QED BY <2>1, <2>2 DEF Own, Departs, KnowsStatus, Flying, Fencing, Settling, Acknowledged
<1>3. ASSUME NEW m \in Messages, ReconcileNext(p, m) PROVE Own(p)
  <2>1. /\ pc[p] = "reconcile" /\ pc'[p] = "append" /\ msg'[p] = m /\ status' = status
        /\ m \in work[p] /\ work'[p] \subseteq work[p]
    BY <1>3 DEF ReconcileNext, Take, Goto, intentVars, TypeOK, ProcTypeOK
  <2>2. \A n \in work[p] : status[n] \in Acknowledged
    BY <2>1 DEF SettledInv, KnowsStatus
  <2> QED BY <2>1, <2>2 DEF Own, Departs, KnowsStatus, Flying, Fencing, Settling, Acknowledged
<1>4. CASE ReconcileDone(p) \/ CollectDue(p)
           \/ \E m \in Messages : LeaseNext(p, m) \/ LeaseSkip(p, m)
  BY <1>4, OwnElsewhere DEF ReconcileDone, CollectDue, LeaseNext, LeaseSkip, Goto, TypeOK, ProcTypeOK
<1> QED BY <1>1, <1>2, <1>3, <1>4 DEF CronStep

LEMMA TickSettled ==
  ASSUME TypeOK, SettledInv, Tick
  PROVE  SettledInv'
<1>1. ASSUME NEW q \in Procs PROVE KnowsStatus(q)'
  <2> PICK x \in Messages : x = msg[q]
    BY DEF TypeOK, ProcTypeOK
  <2>1. /\ status' = status /\ pc' = pc /\ msg' = msg /\ caller' = caller /\ work' = work
        /\ (pc[q] # "idle" => life'[q] = life[q] + 1) /\ age[x] \in 0 .. AgeCap /\ life[q] \in Nat
    BY DEF Tick, TypeOK, ProcTypeOK, IntentTypeOK
  <2>4. age'[x] \in {0, age[x], age[x] + 1} /\ age[x] \in Nat
    BY <2>1, Ranges DEF Tick, Capped
  <2>2. KnowsStatus(q)
    BY DEF SettledInv
  <2>3. Flying(q) => age'[x] <= life'[q]
    BY <2>1, <2>2, <2>4 DEF KnowsStatus, Flying
  <2> QED BY <2>1, <2>2, <2>3 DEF KnowsStatus, Flying, Fencing, Settling, Acknowledged
<1>2. ASSUME NEW q \in Procs PROVE FliesAlone(q)'
  BY DEF Tick, SettledInv, FliesAlone, Flying, Fencing
<1> QED BY <1>1, <1>2 DEF SettledInv

LEMMA BeginOwn ==
  ASSUME TypeOK, NEW p \in Procs, NEW m \in Messages,
         NEW l \in {"insert", "enqueue", "sweep"}, NEW w \in Callers, Begin(p, m, l, w)
  PROVE  Own(p) /\ OnlyMoves(p)
<1>1. pc'[p] = l
  BY DEF Begin, Goto, TypeOK, ProcTypeOK
<1>2. OnlyMoves(p)
  BY DEF Begin, Goto, OnlyMoves, TypeOK, ProcTypeOK
<1> QED BY <1>1, <1>2, OwnElsewhere

(* Every step, but for the clock's, is one of an invocation; a rule moves
   nobody. *)
LEMMA StepsOfOne ==
  ASSUME TypeOK, DispatchInv, TimelineInv, SettledInv, [Next]_vars
  PROVE  \/ \E p \in Procs : OnlyMoves(p) /\ WritesStatus(p) /\ Own(p)
         \/ Tick
         \/ UNCHANGED <<status, age, procVars>>
<1>1. ASSUME NEW p \in ApiCalls, NEW m \in Messages, ApiSend(p, m) \/ ApiSchedule(p, m)
      PROVE  \E q \in Procs : OnlyMoves(q) /\ WritesStatus(q) /\ Own(q)
  BY <1>1, BeginOwn DEF ApiSend, ApiSchedule, WritesStatus, intentVars, Procs, Callers
<1>2. ASSUME NEW p \in CronRuns, CronStart(p)
      PROVE  \E q \in Procs : OnlyMoves(q) /\ WritesStatus(q) /\ Own(q)
  <2>1. p \in Procs /\ msg[p] \in Messages
    BY DEF Procs, TypeOK, ProcTypeOK
  <2> QED BY <1>2, <2>1, BeginOwn DEF CronStart, WritesStatus, intentVars, Callers
<1>3. ASSUME NEW p \in CronRuns, CronStep(p)
      PROVE  \E q \in Procs : OnlyMoves(q) /\ WritesStatus(q) /\ Own(q)
  <2>1. p \in Procs
    BY DEF Procs
  <2>2. OnlyMoves(p) /\ WritesStatus(p)
    BY <1>3, <2>1, StepMovesOne, CronStepWrites
  <2>3. Own(p)
    BY <1>3, <2>1, CronStepOwn DEF TimelineInv, HoldsTaken
  <2> QED BY <2>1, <2>2, <2>3
<1>4. ASSUME NEW p \in Procs, SendStep(p)
      PROVE  OnlyMoves(p) /\ WritesStatus(p) /\ Own(p)
  BY <1>4, StepMovesOne, SendStepWrites, SendStepOwn DEF TimelineInv, HoldsTaken
<1>5. ASSUME NEW p \in Procs, Crash(p)
      PROVE  OnlyMoves(p) /\ WritesStatus(p) /\ Own(p)
  <2>1. pc'[p] = "idle"
    BY <1>5 DEF Crash, Exit, Goto, TypeOK, ProcTypeOK
  <2> QED BY <1>5, <2>1, StepMovesOne, OwnElsewhere DEF Crash, WritesStatus, intentVars
<1>6. ASSUME NEW m \in RuleMessages, CannedReply(m)
      PROVE  UNCHANGED <<status, age, procVars>>
  BY <1>6 DEF CannedReply, intentVars
<1> QED BY <1>1, <1>2, <1>3, <1>4, <1>5, <1>6 DEF Next, vars, intentVars

LEMMA SettledStep ==
  LivesAreShort => (TypeOK /\ DispatchInv /\ TimelineInv /\ SettledInv /\ [Next]_vars => SettledInv')
<1> SUFFICES ASSUME LivesAreShort, TypeOK, DispatchInv, TimelineInv, SettledInv, [Next]_vars
             PROVE  SettledInv'
  OBVIOUS
<1>1. ASSUME NEW p \in Procs, OnlyMoves(p), WritesStatus(p), Own(p) PROVE SettledInv'
  BY <1>1, SettledKept DEF Own
<1>2. CASE Tick
  BY <1>2, TickSettled
<1>3. CASE UNCHANGED <<status, age, procVars>>
  BY <1>3 DEF procVars, SettledInv, KnowsStatus, FliesAlone, Flying, Fencing, Settling, Acknowledged
<1> QED BY <1>1, <1>2, <1>3, StepsOfOne

LEMMA SettledStart == Init => SettledInv
BY DEF Init, SettledInv, KnowsStatus, FliesAlone, Flying, Fencing, Settling

LEMMA SettledInvariant ==
  ASSUME LivesAreShort
  PROVE  Spec => [](TypeOK /\ DispatchInv /\ TimelineInv /\ SettledInv)
<1>1. TypeOK /\ DispatchInv /\ TimelineInv /\ SettledInv /\ [Next]_vars => SettledInv'
  BY SettledStep
<1> QED BY <1>1, SettledStart, DispatchInvariant, TimelineInvariant, PTL DEF Spec

(* No acknowledgement is forgotten and no fence is lifted, whoever writes a
   status by id alone: the lease of scheduled-claim.ts is longer than a
   Worker invocation. *)
THEOREM SettledStaysSettled ==
  ASSUME LivesAreShort
  PROVE  Spec => SettledIsFinal
<1>1. TypeOK /\ DispatchInv /\ TimelineInv /\ SettledInv /\ [Next]_vars =>
        [\A m \in Messages :
           /\ status[m] \in {"provider_sent", "accepted"} => status'[m] \in {"provider_sent", "accepted"}
           /\ status[m] = "uncertain" => status'[m] = "uncertain"]_vars
  <2> SUFFICES ASSUME TypeOK, DispatchInv, TimelineInv, SettledInv, [Next]_vars, NEW m \in Messages
               PROVE  /\ status[m] \in {"provider_sent", "accepted"} => status'[m] \in {"provider_sent", "accepted"}
                      /\ status[m] = "uncertain" => status'[m] = "uncertain"
    OBVIOUS
  <2>1. ASSUME NEW p \in Procs, WritesStatus(p)
        PROVE  /\ status[m] \in {"provider_sent", "accepted"} => status'[m] \in {"provider_sent", "accepted"}
               /\ status[m] = "uncertain" => status'[m] = "uncertain"
    BY <2>1, AcknowledgedStays DEF Acknowledged
  <2> QED BY <2>1, StepsOfOne DEF Tick
<1> QED BY <1>1, SettledInvariant, PTL DEF Spec, SettledIsFinal

-----------------------------------------------------------------------------
(* Send-later rows, when leases outlive lives.                              *)

(* A failure is recorded by the invocation that has the message in flight. *)
LEMMA NewFailure ==
  ASSUME TypeOK, NEW p \in Procs, WritesStatus(p), NEW m \in Messages,
         status'[m] = "failed", status[m] # "failed"
  PROVE  Flying(p) /\ msg[p] = m
<1>0. msg[p] \in Messages /\ status \in [Messages -> Statuses]
  BY DEF TypeOK, ProcTypeOK, IntentTypeOK
<1>1. ASSUME NEW n \in Messages, NEW s \in {"pending", "queued"}, status' = [status EXCEPT ![n] = s]
      PROVE  FALSE
  BY <1>0, <1>1
<1>2. ASSUME NEW s \in Statuses \ {"failed"}, WriteStatus(msg[p], s)
      PROVE  FALSE
  <2>1. status'[m] = IF msg[p] = m THEN s ELSE status[m]
    BY <1>0, <1>2 DEF WriteStatus
  <2> QED BY <1>2, <2>1
<1>3. WriteStatus(msg[p], "failed") => msg[p] = m
  BY <1>0 DEF WriteStatus
<1>4. CASE status' = [n \in Messages |-> IF Abandoned(n) THEN "uncertain" ELSE status[n]]
  BY <1>4
<1> QED BY <1>1, <1>2, <1>3, <1>4 DEF WritesStatus, Acknowledged, Statuses

(* An intent that can be claimed is written only by a claim. *)
LEMMA ClaimableStays ==
  ASSUME TypeOK, SettledInv, NEW p \in Procs, WritesStatus(p), NEW m \in Messages,
         status[m] \in Claimable, ~ (pc[p] = "claim" /\ msg[p] = m)
  PROVE  status'[m] = status[m]
<1>0. msg[p] \in Messages /\ status \in [Messages -> Statuses] /\ KnowsStatus(p)
  BY DEF TypeOK, ProcTypeOK, IntentTypeOK, SettledInv
<1>1. ASSUME NEW n \in Messages, NEW s \in {"pending", "queued"}, status[n] = "none",
             status' = [status EXCEPT ![n] = s]
      PROVE  status'[m] = status[m]
  BY <1>0, <1>1 DEF Claimable
<1>2. ASSUME NEW s \in Statuses, WriteStatus(msg[p], s), msg[p] # m
      PROVE  status'[m] = status[m]
  BY <1>0, <1>2 DEF WriteStatus
<1>3. Flying(p) \/ Fencing(p) \/ Settling(p) => msg[p] # m
  BY <1>0 DEF KnowsStatus, Claimable, Acknowledged
<1>4. CASE status' = [n \in Messages |-> IF Abandoned(n) THEN "uncertain" ELSE status[n]]
  BY <1>4 DEF Abandoned, Claimable
<1> QED BY <1>1, <1>2, <1>3, <1>4 DEF WritesStatus, Acknowledged, Statuses

(* Whoever may write the intent of a send-later message delivers its row. *)
LEMMA WriterDelivers ==
  ASSUME RowInv, NEW p \in Procs, Flying(p) \/ Fencing(p) \/ pc[p] = "claim",
         command[msg[p]] = "scheduled"
  PROVE  Delivering(p) /\ msg[p] \in queued /\ holder[msg[p]] = p
<1>1. caller[p] = "deliver"
  BY DEF RowInv, Sends, CommandOf
<1>2. Delivering(p)
  BY <1>1 DEF Delivering
<1> QED BY <1>2 DEF RowInv, HoldsLease

(* The invariants that a step may count on. *)
Context == TypeOK /\ DispatchInv /\ BindingInv /\ SettledInv /\ RowInv

LEMMA OthersAttend ==
  ASSUME Context, BindingsStand, NEW p \in Procs, OnlyMoves(p), WritesStatus(p),
         NEW q \in Procs, q # p
  PROVE  Attends(q)' /\ Sends(q)'
<1> USE DEF Context
<1> PICK x \in Messages : x = msg[q]
  BY DEF TypeOK, ProcTypeOK
<1>1. /\ pc'[q] = pc[q] /\ msg'[q] = x /\ caller'[q] = caller[q] /\ seen'[q] = seen[q]
      /\ CommandOf(q)' = CommandOf(q)
  BY DEF OnlyMoves, CommandOf
<1>2. Attends(q) /\ Sends(q) /\ HoldsLease(q) /\ KnowsStatus(q) /\ Bound(q)
  BY DEF RowInv, SettledInv, BindingInv
<1>3. status[x] # "none" => status'[x] # "none" /\ command'[x] = command[x]
  BY DEF BindingsStand
<1>4. Sends(q)'
  <2>1. Flying(q) \/ Fencing(q) \/ pc[q] \in {"read", "claim"} => status[x] # "none"
    BY <1>2 DEF KnowsStatus, Bound
  <2>2. Flying(q) \/ Fencing(q) \/ pc[q] \in {"read", "claim"} => command'[x] = CommandOf(q)
    BY <1>2, <1>3, <2>1 DEF Sends
  <2> QED BY <1>1, <1>2, <2>2 DEF Sends, Flying, Fencing
<1>5. ASSUME Delivering(q), command[x] = "scheduled", Flying(p) \/ Fencing(p) \/ pc[p] = "claim"
      PROVE  msg[p] # x
  <2>1. holder[x] = q
    BY <1>2, <1>5 DEF HoldsLease
  <2> QED BY <1>5, <2>1, WriterDelivers
<1>6. ASSUME Delivering(q), x \notin EmailMessages, command'[x] = "scheduled", pc[q] = "drop"
      PROVE  status'[x] # "failed"
  <2>1. status[x] # "failed"
    BY <1>2, <1>3, <1>6 DEF Attends
  <2> SUFFICES ASSUME status'[x] = "failed" PROVE FALSE
    OBVIOUS
  <2>2. Flying(p) /\ msg[p] = x
    BY <2>1, NewFailure
  <2>3. status[x] = "sending"
    BY <2>2 DEF SettledInv, KnowsStatus
  <2> QED BY <1>3, <1>5, <1>6, <2>2, <2>3
<1>7. ASSUME Delivering(q), x \notin EmailMessages, command'[x] = "scheduled", pc[q] = "claim"
      PROVE  status'[x] = seen[q]
  <2>1. status[x] # "none"
    BY <1>2, <1>7 DEF Bound
  <2>2. command[x] = "scheduled" /\ status[x] = seen[q]
    BY <1>2, <1>3, <1>7, <2>1 DEF Attends
  <2>3. status[x] \in Claimable
    BY <1>7, <2>2 DEF DispatchInv
  <2> QED BY <1>5, <1>7, <2>2, <2>3, ClaimableStays
<1>8. Attends(q)'
  <2>1. Delivering(q)' = Delivering(q)
    BY <1>1 DEF Delivering, Flying, Settling, Fencing
  <2>2. Delivering(q) /\ pc[q] = "backoff" => status'[x] # "none"
    BY <1>2, <1>3 DEF Attends
  <2> QED BY <1>1, <1>6, <1>7, <2>1, <2>2 DEF Attends
<1> QED BY <1>4, <1>8

(* The rows of other messages, and of the rows that others deliver. *)
LEMMA OthersHoldLeases ==
  ASSUME Context, NEW p \in Procs, OnlyMoves(p), NEW q \in Procs, q # p,
         Delivering(q) =>
           /\ msg[q] \in queued' /\ holder'[msg[q]] = holder[msg[q]]
           /\ claimAge'[msg[q]] = claimAge[msg[q]] /\ failures'[msg[q]] = failures[msg[q]]
  PROVE  HoldsLease(q)'
<1> PICK x \in Messages : x = msg[q]
  BY DEF Context, TypeOK, ProcTypeOK
<1>1. /\ pc'[q] = pc[q] /\ msg'[q] = x /\ caller'[q] = caller[q] /\ snap'[q] = snap[q] /\ life'[q] = life[q]
  BY DEF OnlyMoves
<1>2. Delivering(q)' = Delivering(q)
  BY <1>1 DEF Delivering, Flying, Settling, Fencing
<1>3. HoldsLease(q)
  BY DEF Context, RowInv
<1> QED BY <1>1, <1>2, <1>3 DEF HoldsLease

LEMMA OthersSelected ==
  ASSUME Context, NEW p \in Procs, OnlyMoves(p), NEW q \in Procs, q # p,
         \A m \in Messages : m \in queued' =>
           \/ m \in queued /\ failures'[m] >= failures[m] /\ sinceDue'[m] = sinceDue[m]
           \/ sinceDue'[m] = 0,
         failures' \in [Messages -> 0 .. MaxAttempts]
  PROVE  Selected(q)'
<1>1. pc'[q] = pc[q] /\ caller'[q] = caller[q] /\ work'[q] = work[q] /\ snap'[q] = snap[q] /\ life'[q] = life[q]
  BY DEF OnlyMoves
<1>2. /\ Selected(q) /\ work[q] \subseteq Messages /\ snap[q] \in [Messages -> 0 .. MaxAttempts] /\ life[q] \in Nat
      /\ failures \in [Messages -> 0 .. MaxAttempts]
  BY DEF Context, RowInv, TypeOK, ProcTypeOK, RowTypeOK
<1>3. ASSUME caller[q] = "deliver", pc[q] \notin {"idle", "collect"}, NEW m \in work[q], m \in queued'
      PROVE  snap[q][m] <= failures'[m] \/ sinceDue'[m] <= life[q]
  <2>1. m \in Messages /\ snap[q][m] \in Nat /\ failures[m] \in Nat /\ failures'[m] \in Nat
    BY <1>2
  <2>2. m \in queued => snap[q][m] <= failures[m] \/ sinceDue[m] <= life[q]
    BY <1>2, <1>3 DEF Selected
  <2>3. CASE sinceDue'[m] = 0
    BY <1>2, <2>3
  <2>4. CASE m \in queued /\ failures'[m] >= failures[m] /\ sinceDue'[m] = sinceDue[m]
    BY <2>1, <2>2, <2>4
  <2> QED BY <1>3, <2>1, <2>3, <2>4
<1> QED BY <1>1, <1>3 DEF Selected
(* What a step of p leaves of the rows. *)
RowsOfOthers(p) ==
  \A q \in Procs \ {p} : Delivering(q) =>
    /\ msg[q] \in queued' /\ holder'[msg[q]] = holder[msg[q]]
    /\ claimAge'[msg[q]] = claimAge[msg[q]] /\ failures'[msg[q]] = failures[msg[q]]
RowsGrow ==
  \A m \in Messages : m \in queued' =>
    \/ m \in queued /\ failures'[m] >= failures[m] /\ sinceDue'[m] = sinceDue[m]
    \/ sinceDue'[m] = 0
TriesFit ==
  \A m \in Messages :
    /\ tries'[m] <= failures'[m]
    /\ status[m] = "none" => tries'[m] = 0
(* A row may go if its message did not fail, or has no attempt left. *)
Settled(m) == m \in EmailMessages \/ status'[m] # "failed" \/ command'[m] # "scheduled"
GoneFor(m) == Settled(m) \/ failures'[m] = MaxAttempts
RowsEnd ==
  \A m \in Messages :
    /\ m \in queued \ queued' => GoneFor(m)
    /\ m \notin queued => failures'[m] = failures[m] \/ m \in queued'
OwnRow(p) == HoldsLease(p)' /\ Selected(p)' /\ Attends(p)' /\ Sends(p)'
SnapStands(p) == \A m \in Messages : snap'[p][m] \in {snap[p][m], 0, tries[m]}
RowStep(p) == RowsOfOthers(p) /\ RowsGrow /\ TriesFit /\ RowsEnd /\ OwnRow(p) /\ SnapStands(p)

LEMMA RetriedKept ==
  ASSUME Context, BindingsStand, NEW p \in Procs, WritesStatus(p), RowsEnd
  PROVE  FailedIsRetried'
<1> USE DEF Context
<1> SUFFICES ASSUME NEW m \in Messages \ EmailMessages,
                    status'[m] = "failed", command'[m] = "scheduled", m \notin queued'
             PROVE  failures'[m] = MaxAttempts
  BY DEF FailedIsRetried
<1>1. CASE m \in queued
  BY <1>1 DEF RowsEnd, GoneFor, Settled
<1>2. CASE m \notin queued
  <2>1. failures'[m] = failures[m]
    BY <1>2 DEF RowsEnd
  <2>2. status[m] # "none" => command[m] = "scheduled"
    BY DEF BindingsStand
  <2>3. ASSUME status[m] # "failed" PROVE FALSE
    <3>1. Flying(p) /\ msg[p] = m
      BY <2>3, NewFailure
    <3>2. status[m] = "sending"
      BY <3>1 DEF SettledInv, KnowsStatus
    <3> QED BY <1>2, <2>2, <3>1, <3>2, WriterDelivers
  <2> QED BY <1>2, <2>1, <2>2, <2>3 DEF RowInv, FailedIsRetried
<1> QED BY <1>1, <1>2

LEMMA RowsKept ==
  ASSUME Context, BindingsStand, TypeOK', NEW p \in Procs, OnlyMoves(p), WritesStatus(p), RowStep(p)
  PROVE  RowInv'
<1>0. failures' \in [Messages -> 0 .. MaxAttempts]
  BY DEF TypeOK, RowTypeOK
<1>1. ASSUME NEW q \in Procs PROVE HoldsLease(q)' /\ Selected(q)' /\ Attends(q)' /\ Sends(q)'
  <2>1. CASE q = p
    BY <2>1 DEF RowStep, OwnRow
  <2>2. CASE q # p
    <3>1. HoldsLease(q)'
      BY <2>2, OthersHoldLeases DEF RowStep, RowsOfOthers
    <3>2. Selected(q)'
      BY <1>0, <2>2, OthersSelected DEF RowStep, RowsGrow
    <3> QED BY <2>2, <3>1, <3>2, OthersAttend
  <2> QED BY <2>1, <2>2
<1>2. FailedIsRetried'
  BY RetriedKept DEF RowStep
<1>3. ASSUME NEW m \in Messages PROVE tries'[m] <= failures'[m]
  BY DEF RowStep, TriesFit
<1>4. ASSUME NEW m \in Messages, status'[m] = "none"
      PROVE  tries'[m] = 0 /\ \A q \in Procs : snap'[q][m] = 0
  <2>1. status[m] = "none"
    BY <1>4 DEF BindingsStand
  <2>2. tries[m] = 0 /\ \A q \in Procs : snap[q][m] = 0
    BY <2>1 DEF Context, RowInv
  <2>3. tries'[m] = 0
    BY <2>1 DEF RowStep, TriesFit
  <2>4. ASSUME NEW q \in Procs PROVE snap'[q][m] = 0
    <3>1. CASE q = p
      BY <2>2, <3>1 DEF RowStep, SnapStands
    <3>2. CASE q # p
      BY <2>2, <3>2 DEF OnlyMoves
    <3> QED BY <3>1, <3>2
  <2> QED BY <2>3, <2>4
<1> QED BY <1>1, <1>2, <1>3, <1>4 DEF RowInv

(* Most steps leave the rows alone. *)
LEMMA RowsAtRest ==
  ASSUME Context, NEW p \in Procs, UNCHANGED rowVars, OwnRow(p), SnapStands(p)
  PROVE  RowStep(p)
<1> USE DEF rowVars
<1>1. RowsOfOthers(p)
  BY DEF Context, RowInv, HoldsLease, RowsOfOthers
<1>2. RowsGrow
  BY DEF Context, TypeOK, RowTypeOK, RowsGrow
<1>3. TriesFit
  BY DEF Context, RowInv, TriesFit
<1>4. RowsEnd
  BY DEF RowsEnd
<1> QED BY <1>1, <1>2, <1>3, <1>4 DEF RowStep

LEMMA ExitRow ==
  ASSUME Context, NEW p \in Procs, Exit(p)
  PROVE  OwnRow(p) /\ SnapStands(p)
<1>1. pc'[p] = "idle"
  BY DEF Exit, Goto, Context, TypeOK, ProcTypeOK
<1>2. SnapStands(p)
  BY DEF Exit, SnapStands, Context, TypeOK, ProcTypeOK
<1>3. ~ Delivering(p)'
  BY <1>1 DEF Delivering, Flying, Settling, Fencing
<1>4. Sends(p)'
  BY <1>1 DEF Sends, Flying, Fencing
<1> QED BY <1>1, <1>2, <1>3, <1>4 DEF OwnRow, HoldsLease, Selected, Attends

FlyLabels == {"resolve", "cross", "reject", "doubt", "record"}
DeliverLabels == {"insert", "read", "claim", "drop", "backoff", "fence",
                  "lookup", "append", "accept", "unaccept"} \cup FlyLabels

LEMMA DeliveringAt ==
  ASSUME NEW p \in Procs
  PROVE  /\ Delivering(p) <=> caller[p] = "deliver" /\ pc[p] \in DeliverLabels
         /\ Delivering(p)' <=> caller'[p] = "deliver" /\ pc'[p] \in DeliverLabels
BY DEF Delivering, Flying, Settling, Fencing, DeliverLabels, FlyLabels

(* The next statement of an invocation finds what this one left. *)
LEMMA ProceedRow ==
  ASSUME Context, NEW p \in Procs, NEW l \in Labels, Proceed(p, l), UNCHANGED rowVars,
         pc[p] \notin {"idle", "collect"}, NEW x \in Messages, x = msg[p],
         caller[p] = "deliver" /\ l \in DeliverLabels => pc[p] \in DeliverLabels,
         l # "claim",
         l = "backoff" => caller[p] = "deliver" /\ status'[x] # "none",
         l = "drop" => caller[p] = "deliver" /\ Settled(x),
         l \in FlyLabels \cup {"fence", "read"} =>
           caller[p] \in {"send", "deliver"} /\ command'[x] = CommandOf(p),
         l = "addRow" => caller[p] = "schedule",
         l \notin {"insert", "collect", "lease", "enqueue"}
  PROVE  OwnRow(p) /\ SnapStands(p)
<1> USE DEF Context, rowVars
<1>1. /\ pc'[p] = l /\ msg'[p] = x /\ caller'[p] = caller[p] /\ seen' = seen /\ work' = work
      /\ snap' = snap /\ life' = life /\ CommandOf(p)' = CommandOf(p)
  BY DEF Proceed, Goto, TypeOK, ProcTypeOK, CommandOf
<1>2. HoldsLease(p) /\ Selected(p)
  BY DEF RowInv
<1>3. HoldsLease(p)'
  <2>1. Delivering(p)' => Delivering(p)
    BY <1>1, DeliveringAt
  <2> QED BY <1>1, <1>2, <2>1 DEF HoldsLease
<1>4. Selected(p)'
  BY <1>1, <1>2 DEF Selected
<1>5. Attends(p)'
  BY <1>1 DEF Attends, Settled
<1>6. Sends(p)'
  BY <1>1 DEF Sends, Flying, Fencing, FlyLabels
<1>7. SnapStands(p)
  BY <1>1 DEF SnapStands
<1> QED BY <1>3, <1>4, <1>5, <1>6, <1>7 DEF OwnRow

(* The delivery loop settles the row by the outcome of sendOutbound. *)
LEMMA ReturnRow ==
  ASSUME Context, NEW p \in Procs, NEW o, Return(p, o), UNCHANGED rowVars,
         NEW x \in Messages, x = msg[p], pc[p] \in DeliverLabels,
         caller[p] = "deliver" /\ o = "retryable" => status'[x] # "none",
         caller[p] = "deliver" /\ o # "retryable" => Settled(x)
  PROVE  OwnRow(p) /\ SnapStands(p)
<1>0. pc[p] \notin {"idle", "collect"}
  BY DEF DeliverLabels, FlyLabels
<1>1. CASE Exit(p)
  BY <1>1, ExitRow
<1>2. CASE caller[p] = "sweep" /\ Proceed(p, "reconcile")
  BY <1>0, <1>2, ProceedRow DEF Labels, FlyLabels
<1>3. CASE caller[p] = "deliver" /\ Proceed(p, IF o = "retryable" THEN "backoff" ELSE "drop")
  <2>1. CASE o = "retryable"
    BY <1>0, <1>3, <2>1, ProceedRow DEF Labels, FlyLabels
  <2>2. CASE o # "retryable"
    BY <1>0, <1>3, <2>2, ProceedRow DEF Labels, FlyLabels
  <2> QED BY <2>1, <2>2
<1> QED BY <1>1, <1>2, <1>3 DEF Return

(* The statements of sendOutbound that leave the rows alone. *)
LEMMA SendStepRow ==
  ASSUME Context, NEW p \in Procs, SendStep(p), ~ AddRow(p)
  PROVE  OwnRow(p) /\ SnapStands(p) /\ UNCHANGED rowVars
<1> USE DEF Context
<1> PICK x \in Messages : x = msg[p]
  BY DEF TypeOK, ProcTypeOK
<1>0. /\ status \in [Messages -> Statuses] /\ command \in [Messages -> Commands]
      /\ KnowsStatus(p) /\ Attends(p) /\ Sends(p) /\ Bound(p)
  BY DEF TypeOK, IntentTypeOK, SettledInv, RowInv, BindingInv
<1>u. UNCHANGED rowVars
  BY DEF SendStep, Enqueue, Deny, InsertIntent, ReadSent, ReadRefused, ReadStale, ReadClaimable,
         Reading, Fence, Claim, Resolve, PartAccepted, PartRejected, PartUnknown, MarkFailed,
         MarkUncertain, Record, Lookup, AppendOk, AppendFails, AcceptOk, AcceptFails, Unaccept
<1>w. ASSUME NEW s \in Statuses, WriteStatus(x, s) PROVE status'[x] = s /\ command' = command
  BY <1>0, <1>w DEF WriteStatus
<1>b. \A l \in {"resolve", "cross", "reject", "doubt", "record", "fence", "read"} :
        pc[p] = l => caller[p] \in {"send", "deliver"} /\ command[x] = CommandOf(p)
  BY <1>0 DEF Sends, Flying, Fencing
<1>d. caller[p] = "deliver" => CommandOf(p) = "scheduled"
  BY DEF CommandOf
<1>1. CASE Enqueue(p)
  <2>1. CASE Exit(p)
    BY <1>u, <2>1, ExitRow
  <2>2. CASE Proceed(p, "addRow")
    <3>1. pc[p] = "enqueue" /\ caller[p] = "schedule"
      BY <1>0, <1>1 DEF Enqueue, Sends
    <3> QED BY <1>u, <2>2, <3>1, ProceedRow DEF Labels, FlyLabels
  <2> QED BY <1>1, <2>1, <2>2 DEF Enqueue
<1>2. CASE Deny(p)
  <2>1. CASE pc[p] = "enqueue"
    BY <1>0, <1>2, <1>u, <2>1, ExitRow DEF Deny, Return, Sends
  <2>2. CASE pc[p] = "insert"
    BY <1>2, <1>u, <2>2, ReturnRow DEF Deny, Settled, DeliverLabels
  <2> QED BY <1>2, <2>1, <2>2 DEF Deny
<1>3. CASE InsertIntent(p)
  <2>0. pc[p] = "insert" /\ pc[p] \in DeliverLabels /\ caller[p] \in {"send", "deliver"}
    BY <1>0, <1>3 DEF InsertIntent, Sends, DeliverLabels
  <2>1. CASE Matches(command'[x], p) /\ Proceed(p, "read")
    BY <1>u, <2>0, <2>1, ProceedRow DEF Matches, Labels, DeliverLabels, FlyLabels
  <2>2. CASE ~ Matches(command'[x], p) /\ Return(p, "final")
    BY <1>d, <1>u, <2>0, <2>2, ReturnRow DEF Matches, Settled
  <2>3. CASE x \in EmailMessages /\ Return(p, "final")
    BY <1>u, <2>0, <2>3, ReturnRow DEF Settled
  <2> QED BY <1>3, <2>1, <2>2, <2>3 DEF InsertIntent
<1>4. CASE ReadSent(p) \/ ReadStale(p)
  <2>1. pc[p] = "read" /\ pc[p] \in DeliverLabels /\ UNCHANGED intentVars
    BY <1>4 DEF ReadSent, ReadStale, Reading, DeliverLabels
  <2>2. caller[p] \in {"send", "deliver"} /\ command'[x] = CommandOf(p)
    BY <1>b, <2>1 DEF intentVars
  <2> QED BY <1>4, <1>u, <2>1, <2>2, ProceedRow DEF ReadSent, ReadStale, Labels, DeliverLabels, FlyLabels
<1>5. CASE ReadRefused(p)
  <2>1. pc[p] \in DeliverLabels /\ status' = status /\ status[x] # "failed" /\ Return(p, "final")
    BY <1>5 DEF ReadRefused, Reading, DeliverLabels, intentVars
  <2> QED BY <1>u, <2>1, ReturnRow DEF Settled
<1>6. CASE ReadClaimable(p)
  <2>1. /\ pc[p] = "read" /\ pc'[p] = "claim" /\ seen'[p] = status'[x] /\ status' = status /\ command' = command
        /\ msg' = msg /\ caller' = caller /\ work' = work /\ snap' = snap /\ life' = life
    BY <1>6 DEF ReadClaimable, Reading, Goto, intentVars, TypeOK, ProcTypeOK
  <2>2. HoldsLease(p) /\ Selected(p)
    BY DEF RowInv
  <2>3. HoldsLease(p)'
    <3>1. Delivering(p)' => Delivering(p)
      BY <2>1, DeliveringAt DEF DeliverLabels
    <3> QED BY <1>u, <2>1, <2>2, <3>1 DEF HoldsLease, rowVars
  <2>4. Selected(p)'
    BY <1>u, <2>1, <2>2 DEF Selected, rowVars
  <2>5. Attends(p)'
    BY <2>1 DEF Attends
  <2>6. Sends(p)'
    <3>1. caller[p] \in {"send", "deliver"} /\ command[x] = CommandOf(p) /\ CommandOf(p)' = CommandOf(p)
      BY <1>b, <2>1 DEF CommandOf
    <3> QED BY <2>1, <3>1 DEF Sends, Flying, Fencing
  <2> QED BY <1>u, <2>1, <2>3, <2>4, <2>5, <2>6 DEF OwnRow, SnapStands
<1>7. CASE Fence(p) \/ MarkUncertain(p) \/ AcceptOk(p) \/ Unaccept(p)
  <2>1. pc[p] \in DeliverLabels
    BY <1>7 DEF Fence, MarkUncertain, AcceptOk, Unaccept, DeliverLabels, FlyLabels
  <2>2. status'[x] \in {"uncertain", "accepted", "provider_sent"}
    BY <1>7, <1>w DEF Fence, MarkUncertain, AcceptOk, Unaccept, Statuses
  <2> QED BY <1>7, <1>u, <2>1, <2>2, ReturnRow DEF Fence, MarkUncertain, AcceptOk, Unaccept, Settled
<1>8. CASE Claim(p)
  <2>0. pc[p] = "claim" /\ pc[p] \in DeliverLabels /\ caller[p] \in {"send", "deliver"} /\ command[x] = CommandOf(p)
    BY <1>0, <1>8 DEF Claim, Sends, DeliverLabels
  <2>1. CASE WriteStatus(x, "sending") /\ Proceed(p, "resolve")
    <3>1. command' = command
      BY <2>1 DEF WriteStatus
    <3> QED BY <1>u, <2>0, <2>1, <3>1, ProceedRow DEF Labels
  <2>2. CASE ~ ClaimWins(p) /\ UNCHANGED intentVars /\ Return(p, "final")
    <3>1. Delivering(p) <=> caller[p] = "deliver"
      BY <2>0, DeliveringAt
    <3>2. caller[p] = "deliver" => Settled(x)
      BY <1>0, <2>0, <2>2, <3>1 DEF ClaimWins, Attends, Settled, intentVars
    <3> QED BY <1>u, <2>0, <2>2, <3>2, ReturnRow
  <2> QED BY <1>8, <2>1, <2>2 DEF Claim
<1>9. CASE Resolve(p) \/ PartAccepted(p)
  <2>1. /\ pc[p] \in FlyLabels /\ pc'[p] \in FlyLabels /\ status' = status /\ command' = command
        /\ msg' = msg /\ caller' = caller /\ seen' = seen /\ work' = work /\ snap' = snap /\ life' = life
    BY <1>9 DEF Resolve, PartAccepted, Proceed, Goto, intentVars, TypeOK, ProcTypeOK, FlyLabels
  <2>2. HoldsLease(p) /\ Selected(p)
    BY DEF RowInv
  <2>3. HoldsLease(p)'
    <3>1. Delivering(p)' => Delivering(p)
      BY <2>1, DeliveringAt DEF DeliverLabels
    <3> QED BY <1>u, <2>1, <2>2, <3>1 DEF HoldsLease, rowVars
  <2>4. Selected(p)'
    BY <1>u, <2>1, <2>2 DEF Selected, rowVars, FlyLabels
  <2>5. Attends(p)'
    BY <2>1 DEF Attends, FlyLabels
  <2>6. Sends(p)'
    <3>1. caller[p] \in {"send", "deliver"} /\ command[x] = CommandOf(p) /\ CommandOf(p)' = CommandOf(p)
      BY <1>b, <2>1 DEF CommandOf, FlyLabels
    <3> QED BY <2>1, <3>1 DEF Sends, Flying, Fencing, FlyLabels
  <2> QED BY <1>u, <2>1, <2>3, <2>4, <2>5, <2>6 DEF OwnRow, SnapStands
<1>10. CASE PartRejected(p) \/ PartUnknown(p)
  <2>1. pc[p] = "cross" /\ pc[p] \in DeliverLabels /\ UNCHANGED intentVars
    BY <1>10 DEF PartRejected, PartUnknown, DeliverLabels, FlyLabels
  <2>2. caller[p] \in {"send", "deliver"} /\ command'[x] = CommandOf(p)
    BY <1>b, <2>1 DEF intentVars
  <2>3. ASSUME NEW l \in {"reject", "doubt"}, Proceed(p, l) PROVE OwnRow(p) /\ SnapStands(p)
    BY <1>u, <2>1, <2>2, <2>3, ProceedRow DEF Labels
  <2> QED BY <1>10, <1>u, <2>3 DEF PartRejected, PartUnknown
<1>11. CASE MarkFailed(p)
  <2>1. pc[p] \in DeliverLabels /\ status'[x] = "failed" /\ Return(p, "retryable")
    BY <1>11, <1>w DEF MarkFailed, DeliverLabels, FlyLabels, Statuses
  <2> QED BY <1>u, <2>1, ReturnRow
<1>12. CASE Record(p)
  <2>0. pc[p] = "record" /\ pc[p] \in DeliverLabels /\ status[x] = "sending"
    BY <1>0, <1>12 DEF Record, KnowsStatus, Flying, DeliverLabels, FlyLabels
  <2>1. CASE Proceed(p, "append")
    BY <1>u, <2>0, <2>1, ProceedRow DEF Labels, FlyLabels
  <2>2. CASE UNCHANGED intentVars /\ Return(p, "final")
    BY <1>u, <2>0, <2>2, ReturnRow DEF Settled, intentVars
  <2> QED BY <1>12, <2>1, <2>2 DEF Record
<1>13. CASE Lookup(p) \/ AppendOk(p) \/ AppendFails(p) \/ AcceptFails(p)
  <2>0. /\ pc[p] \in DeliverLabels /\ pc[p] \notin {"idle", "collect"} /\ status' = status
        /\ status[x] # "failed"
    BY <1>0, <1>13 DEF Lookup, AppendOk, AppendFails, AcceptFails, intentVars, KnowsStatus, Settling,
       Acknowledged, DeliverLabels, FlyLabels
  <2>1. ASSUME NEW l \in {"append", "accept", "unaccept"}, Proceed(p, l) PROVE OwnRow(p) /\ SnapStands(p)
    BY <1>u, <2>0, <2>1, ProceedRow DEF Labels, FlyLabels
  <2>2. CASE Return(p, "ok")
    BY <1>u, <2>0, <2>2, ReturnRow DEF Settled
  <2> QED BY <1>13, <1>u, <2>1, <2>2 DEF Lookup, AppendOk, AppendFails, AcceptFails
<1> QED BY <1>1, <1>2, <1>3, <1>4, <1>5, <1>6, <1>7, <1>8, <1>9, <1>10, <1>11, <1>12, <1>13 DEF SendStep

LEMMA RowNumbers ==
  ASSUME Context
  PROVE  \A m \in Messages :
           failures[m] \in Nat /\ tries[m] <= failures[m] /\ (status[m] = "none" => tries[m] = 0)
<1>1. \A m \in Messages : failures[m] \in Nat
  BY DEF Context, TypeOK, RowTypeOK
<1>2. \A m \in Messages : tries[m] <= failures[m] /\ (status[m] = "none" => tries[m] = 0)
  BY DEF Context, RowInv
<1> QED BY <1>1, <1>2

LEMMA AddRowRow ==
  ASSUME Context, NEW p \in Procs, AddRow(p)
  PROVE  RowStep(p)
<1> USE DEF Context
<1> PICK x \in Messages : x = msg[p]
  BY DEF TypeOK, ProcTypeOK
<1>0. OwnRow(p) /\ SnapStands(p)
  BY ExitRow DEF AddRow
<1>1. CASE x \in queued
  BY <1>0, <1>1, RowsAtRest DEF AddRow
<1>2. CASE x \notin queued /\ NewRow(x, 0)
  <2>1. \A m \in Messages : m # x =>
          /\ m \in queued' <=> m \in queued
          /\ holder'[m] = holder[m] /\ claimAge'[m] = claimAge[m] /\ failures'[m] = failures[m]
          /\ sinceDue'[m] = sinceDue[m] /\ tries'[m] = tries[m]
    BY <1>2 DEF NewRow, TypeOK, RowTypeOK
  <2>2. x \in queued' /\ sinceDue'[x] = 0 /\ tries'[x] = 0 /\ failures'[x] = 0
    BY <1>2 DEF NewRow, TypeOK, RowTypeOK
  <2>3. \A m \in Messages : failures[m] \in Nat /\ tries[m] <= failures[m] /\ (status[m] = "none" => tries[m] = 0)
    BY RowNumbers
  <2>4. RowsOfOthers(p)
    <3> SUFFICES ASSUME NEW q \in Procs \ {p}, Delivering(q)
                 PROVE  /\ msg[q] \in queued' /\ holder'[msg[q]] = holder[msg[q]]
                        /\ claimAge'[msg[q]] = claimAge[msg[q]] /\ failures'[msg[q]] = failures[msg[q]]
      BY DEF RowsOfOthers
    <3>1. msg[q] \in Messages /\ msg[q] \in queued
      BY DEF TypeOK, ProcTypeOK, RowInv, HoldsLease
    <3> QED BY <1>2, <2>1, <3>1
  <2>5. RowsGrow
    BY <2>1, <2>2, <2>3 DEF RowsGrow
  <2>6. TriesFit
    BY <2>1, <2>2, <2>3 DEF TriesFit
  <2>7. RowsEnd
    BY <2>1, <2>2 DEF RowsEnd
  <2> QED BY <1>0, <2>4, <2>5, <2>6, <2>7 DEF RowStep
<1> QED BY <1>1, <1>2 DEF AddRow

(* Only the holder of a row deletes or releases it. *)
LEMMA RowOfMine ==
  ASSUME Context, NEW p \in Procs, Delivering(p), NEW x \in Messages, x = msg[p],
         \A m \in Messages : m # x =>
          /\ m \in queued' <=> m \in queued
          /\ holder'[m] = holder[m] /\ claimAge'[m] = claimAge[m] /\ failures'[m] = failures[m]
          /\ sinceDue'[m] = sinceDue[m] /\ tries'[m] = tries[m],
         x \in queued' => failures'[x] >= failures[x] /\ sinceDue'[x] = sinceDue[x],
         tries'[x] <= failures'[x],
         status[x] = "none" => tries'[x] = 0,
         x \in queued' \/ GoneFor(x),
         OwnRow(p), SnapStands(p)
  PROVE  RowStep(p)
<1> USE DEF Context
<1>0. x \in queued /\ holder[x] = p
  BY DEF RowInv, HoldsLease
<1>1. \A m \in Messages : failures[m] \in Nat /\ tries[m] <= failures[m] /\ (status[m] = "none" => tries[m] = 0)
  BY RowNumbers
<1>2. RowsOfOthers(p)
  <2> SUFFICES ASSUME NEW q \in Procs \ {p}, Delivering(q)
               PROVE  /\ msg[q] \in queued' /\ holder'[msg[q]] = holder[msg[q]]
                      /\ claimAge'[msg[q]] = claimAge[msg[q]] /\ failures'[msg[q]] = failures[msg[q]]
    BY DEF RowsOfOthers
  <2>1. msg[q] \in Messages /\ msg[q] \in queued /\ holder[msg[q]] = q
    BY DEF TypeOK, ProcTypeOK, RowInv, HoldsLease
  <2> QED BY <1>0, <2>1
<1>3. RowsGrow
  BY <1>0, <1>1 DEF RowsGrow
<1>4. TriesFit
  BY <1>1 DEF TriesFit
<1>5. RowsEnd
  BY <1>0 DEF RowsEnd
<1> QED BY <1>2, <1>3, <1>4, <1>5 DEF RowStep

(* Back to the loop over the selected rows. *)
LEMMA BackToLoop ==
  ASSUME Context, NEW p \in Procs, Proceed(p, "lease"), pc[p] \in {"drop", "backoff"},
         failures' \in [Messages -> 0 .. MaxAttempts],
         \A m \in queued' : m \in queued /\ failures'[m] >= failures[m] /\ sinceDue'[m] = sinceDue[m]
  PROVE  OwnRow(p) /\ SnapStands(p)
<1> USE DEF Context
<1>1. /\ pc'[p] = "lease" /\ caller'[p] = caller[p] /\ work' = work /\ snap' = snap /\ life' = life
      /\ caller[p] = "deliver"
  BY DEF Proceed, Goto, TypeOK, ProcTypeOK, RowInv, Sends
<1>2. ~ Delivering(p)'
  BY <1>1, DeliveringAt DEF DeliverLabels, FlyLabels
<1>3. Selected(p)'
  <2>1. \A m \in work[p] : m \in queued => snap[p][m] <= failures[m] \/ sinceDue[m] <= life[p]
    BY <1>1 DEF RowInv, Selected
  <2>2. \A m \in work[p] : snap[p][m] \in Nat /\ failures[m] \in Nat /\ failures'[m] \in Nat
    BY DEF TypeOK, ProcTypeOK, RowTypeOK
  <2> QED BY <1>1, <2>1, <2>2 DEF Selected
<1> QED BY <1>1, <1>2, <1>3 DEF OwnRow, SnapStands, HoldsLease, Attends, Sends, Flying, Fencing

LEMMA DropRow ==
  ASSUME Context, TypeOK', NEW p \in Procs, Drop(p)
  PROVE  RowStep(p)
<1> USE DEF Context
<1> PICK x \in Messages : x = msg[p]
  BY DEF TypeOK, ProcTypeOK
<1>0. /\ pc[p] = "drop" /\ caller[p] = "deliver" /\ Delivering(p) /\ holder[x] = p /\ Mine(p)
  BY DEF Drop, RowInv, Sends, Delivering, HoldsLease, Mine
<1>1. DeleteRow(x) /\ failures' = failures /\ UNCHANGED <<status, command>> /\ Proceed(p, "lease")
  BY <1>0 DEF Drop, intentVars
<1>2. /\ \A m \in Messages : m # x =>
            /\ m \in queued' <=> m \in queued
            /\ holder'[m] = holder[m] /\ claimAge'[m] = claimAge[m] /\ failures'[m] = failures[m]
            /\ sinceDue'[m] = sinceDue[m] /\ tries'[m] = tries[m]
      /\ x \notin queued' /\ tries'[x] = 0 /\ queued' \subseteq queued /\ failures'[x] \in Nat
  BY <1>1 DEF DeleteRow, TypeOK, RowTypeOK
<1>3. GoneFor(x)
  BY <1>0, <1>1 DEF RowInv, Attends, GoneFor, Settled
<1>4. failures' \in [Messages -> 0 .. MaxAttempts] /\ queued \subseteq Messages
  BY DEF TypeOK, RowTypeOK
<1>5. \A m \in queued' : m \in queued /\ failures'[m] >= failures[m] /\ sinceDue'[m] = sinceDue[m]
  BY <1>1, <1>2, <1>4
<1>6. OwnRow(p) /\ SnapStands(p)
  BY <1>0, <1>1, <1>4, <1>5, BackToLoop
<1> QED BY <1>0, <1>2, <1>3, <1>6, RowOfMine

LEMMA BackoffRow ==
  ASSUME Context, TypeOK', NEW p \in Procs, Backoff(p)
  PROVE  RowStep(p)
<1> USE DEF Context
<1> PICK x \in Messages : x = msg[p]
  BY DEF TypeOK, ProcTypeOK
<1>0. /\ pc[p] = "backoff" /\ caller[p] = "deliver" /\ Delivering(p) /\ holder[x] = p /\ Mine(p)
      /\ snap[p][x] <= failures[x] /\ status[x] # "none" /\ x \in queued
  BY DEF Backoff, RowInv, Sends, Delivering, HoldsLease, Attends, Mine
<1>1. /\ Proceed(p, "lease") /\ CountFailure(x)
      /\ IF Exhausted(Attempts(p)) THEN DeleteRow(x) ELSE ReleaseRow(x, Attempts(p))
  BY <1>0 DEF Backoff
<1>n. /\ failures[x] \in 0 .. MaxAttempts /\ snap[p][x] \in 0 .. MaxAttempts /\ MaxAttempts \in Nat \ {0}
      /\ Attempts(p) = snap[p][x] + 1
  BY BoundAssumption DEF TypeOK, RowTypeOK, ProcTypeOK, Attempts
<1>f. failures'[x] = IF failures[x] < MaxAttempts THEN failures[x] + 1 ELSE MaxAttempts
  BY <1>1 DEF CountFailure, Capped, TypeOK, RowTypeOK
<1>g. \A m \in Messages : m # x => failures'[m] = failures[m]
  BY <1>1 DEF CountFailure, TypeOK, RowTypeOK
<1>4. failures' \in [Messages -> 0 .. MaxAttempts] /\ queued \subseteq Messages /\ failures \in [Messages -> 0 .. MaxAttempts]
  BY DEF TypeOK, RowTypeOK
<1>5. \A m \in Messages : failures'[m] >= failures[m]
  <2> TAKE m \in Messages
  <2>1. failures[m] \in 0 .. MaxAttempts /\ failures'[m] \in 0 .. MaxAttempts
    BY <1>4
  <2> QED BY <1>f, <1>g, <1>n, <2>1
<1>2. CASE Exhausted(Attempts(p)) /\ DeleteRow(x)
  <2>1. /\ \A m \in Messages : m # x =>
              /\ m \in queued' <=> m \in queued
              /\ holder'[m] = holder[m] /\ claimAge'[m] = claimAge[m]
              /\ sinceDue'[m] = sinceDue[m] /\ tries'[m] = tries[m]
        /\ x \notin queued' /\ tries'[x] = 0 /\ queued' \subseteq queued
    BY <1>2 DEF DeleteRow, TypeOK, RowTypeOK
  <2>2. GoneFor(x)
    <3>1. snap[p][x] + 1 >= MaxAttempts
      BY <1>2, <1>n DEF Exhausted
    <3>2. failures'[x] = MaxAttempts
      BY <1>0, <1>f, <1>n, <3>1
    <3> QED BY <3>2 DEF GoneFor
  <2>3. \A m \in queued' : m \in queued /\ failures'[m] >= failures[m] /\ sinceDue'[m] = sinceDue[m]
    BY <1>4, <1>5, <2>1
  <2>4. OwnRow(p) /\ SnapStands(p)
    BY <1>0, <1>1, <1>4, <2>3, BackToLoop
  <2>5. tries'[x] <= failures'[x]
    BY <1>4, <2>1
  <2> QED BY <1>0, <1>g, <2>1, <2>2, <2>4, <2>5, RowOfMine
<1>3. CASE ~ Exhausted(Attempts(p)) /\ ReleaseRow(x, Attempts(p))
  <2>1. /\ \A m \in Messages : m # x =>
              /\ m \in queued' <=> m \in queued
              /\ holder'[m] = holder[m] /\ claimAge'[m] = claimAge[m]
              /\ sinceDue'[m] = sinceDue[m] /\ tries'[m] = tries[m]
        /\ queued' = queued /\ sinceDue' = sinceDue /\ tries'[x] = Attempts(p)
    BY <1>3 DEF ReleaseRow, TypeOK, RowTypeOK
  <2>2. tries'[x] <= failures'[x]
    BY <1>0, <1>3, <1>f, <1>n, <2>1 DEF Exhausted
  <2>3. \A m \in queued' : m \in queued /\ failures'[m] >= failures[m] /\ sinceDue'[m] = sinceDue[m]
    BY <1>4, <1>5, <2>1
  <2>4. OwnRow(p) /\ SnapStands(p)
    BY <1>0, <1>1, <1>4, <2>3, BackToLoop
  <2> QED BY <1>0, <1>5, <1>g, <2>1, <2>2, <2>4, RowOfMine
<1> QED BY <1>1, <1>2, <1>3

(* A lease is taken from nobody who lives: it is older than any of them. *)
LEMMA LeaseRow ==
  ASSUME Context, LivesAreShort, NEW p \in Procs, NEW x \in Messages, LeaseNext(p, x)
  PROVE  RowStep(p)
<1> USE DEF Context
<1>1. /\ pc[p] = "lease" /\ caller[p] = "deliver" /\ x \in work[p] /\ x \in queued /\ sinceDue[x] > life[p]
      /\ LeaseFree(p, x) /\ snap[p][x] \in Nat /\ failures[x] \in Nat /\ sinceDue[x] \in Nat /\ life[p] \in 0 .. MaxLife
  BY DEF LeaseNext, Take, DueFor, RowInv, Sends, TypeOK, ProcTypeOK, RowTypeOK, DueCap
<1>2. snap[p][x] <= failures[x]
  <2>1. snap[p][x] <= failures[x] \/ sinceDue[x] <= life[p]
    BY <1>1 DEF RowInv, Selected
  <2> QED BY <1>1, <2>1
<1>3. /\ pc'[p] = "insert" /\ msg'[p] = x /\ work'[p] \subseteq work[p] /\ caller' = caller /\ snap' = snap
      /\ life' = life /\ queued' = queued /\ tries' = tries /\ sinceDue' = sinceDue /\ failures' = failures
      /\ UNCHANGED <<status, command>> /\ holder'[x] = p /\ claimAge'[x] = life[p]
      /\ \A m \in Messages : m # x => holder'[m] = holder[m] /\ claimAge'[m] = claimAge[m]
  BY DEF LeaseNext, Take, Goto, intentVars, TypeOK, ProcTypeOK, RowTypeOK
<1>4. RowsOfOthers(p)
  <2> SUFFICES ASSUME NEW q \in Procs \ {p}, Delivering(q)
               PROVE  msg[q] # x /\ msg[q] \in Messages /\ msg[q] \in queued
    BY <1>3 DEF RowsOfOthers
  <2>1. msg[q] \in Messages /\ msg[q] \in queued /\ holder[msg[q]] = q /\ claimAge[msg[q]] = life[q]
    BY DEF TypeOK, ProcTypeOK, RowInv, HoldsLease
  <2>2. life[q] \in 0 .. MaxLife /\ q # Nobody
    BY ProcAssumption DEF TypeOK, ProcTypeOK
  <2>3. ~ LeaseFree(p, msg[q])
    BY <1>1, <2>1, <2>2, BoundAssumption DEF LeaseFree, LivesAreShort
  <2> QED BY <1>1, <2>1, <2>3
<1>5. RowsGrow
  BY <1>3, RowNumbers DEF RowsGrow
<1>6. TriesFit /\ RowsEnd
  BY <1>3, RowNumbers DEF TriesFit, RowsEnd
<1>7. HoldsLease(p)'
  BY <1>1, <1>2, <1>3 DEF HoldsLease
<1>8. Selected(p)'
  BY <1>1, <1>3 DEF Selected, RowInv
<1>9. Attends(p)' /\ Sends(p)'
  BY <1>1, <1>3 DEF Attends, Sends, Flying, Fencing
<1>10. SnapStands(p)
  BY <1>3 DEF SnapStands
<1> QED BY <1>4, <1>5, <1>6, <1>7, <1>8, <1>9, <1>10 DEF RowStep, OwnRow

LEMMA CronStepRow ==
  ASSUME Context, TypeOK', LivesAreShort, NEW p \in Procs, SweepLoop(p), CronStep(p)
  PROVE  RowStep(p)
<1> USE DEF Context
<1> PICK x \in Messages : x = msg[p]
  BY DEF TypeOK, ProcTypeOK
<1>s. Sends(p) /\ Selected(p)
  BY DEF RowInv
<1>1. CASE SweepStale(p)
  <2>1. pc[p] = "sweep" /\ Proceed(p, "select") /\ UNCHANGED rowVars
    BY <1>1 DEF SweepStale
  <2> QED BY <2>1, ProceedRow, RowsAtRest DEF Labels, DeliverLabels, FlyLabels
<1>2. CASE SelectPending(p) \/ ReconcileDone(p) \/ \E m \in Messages : ReconcileNext(p, m)
  <2>1. /\ pc[p] \in {"select", "reconcile"} /\ caller[p] = "sweep" /\ snap' = snap /\ UNCHANGED rowVars
        /\ \/ pc'[p] \in {"reconcile", "append"} /\ caller'[p] = "sweep"
           \/ pc'[p] = "collect" /\ caller'[p] = "deliver"
    BY <1>2 DEF SweepLoop, SelectPending, ReconcileDone, ReconcileNext, Goto, TypeOK, ProcTypeOK
  <2>2. ~ Delivering(p)' /\ SnapStands(p)
    BY <2>1, DeliveringAt DEF DeliverLabels, FlyLabels, SnapStands
  <2>3. OwnRow(p)
    BY <2>1, <2>2 DEF OwnRow, HoldsLease, Selected, Attends, Sends, Flying, Fencing
  <2> QED BY <2>1, <2>2, <2>3, RowsAtRest
<1>3. CASE CollectDue(p)
  <2>1. /\ pc'[p] = "lease" /\ caller'[p] = "deliver" /\ UNCHANGED rowVars /\ snap'[p] = tries
    BY <1>3, <1>s DEF CollectDue, Sends, Goto, TypeOK, ProcTypeOK
  <2>2. ~ Delivering(p)' /\ SnapStands(p)
    BY <2>1, DeliveringAt DEF DeliverLabels, FlyLabels, SnapStands
  <2>3. Selected(p)'
    <3>1. work'[p] \subseteq Messages
      BY DEF TypeOK, ProcTypeOK
    <3> QED BY <2>1, <3>1, RowNumbers DEF Selected, rowVars
  <2>4. OwnRow(p)
    BY <2>1, <2>2, <2>3 DEF OwnRow, HoldsLease, Attends, Sends, Flying, Fencing
  <2> QED BY <2>1, <2>2, <2>4, RowsAtRest
<1>4. ASSUME NEW m \in Messages, LeaseSkip(p, m) PROVE RowStep(p)
  <2>1. /\ pc[p] = "lease" /\ caller[p] = "deliver" /\ UNCHANGED rowVars /\ work'[p] \subseteq work[p]
        /\ pc' = pc /\ caller' = caller /\ msg' = msg /\ snap' = snap /\ life' = life
    BY <1>4, <1>s DEF LeaseSkip, Take, Sends, TypeOK, ProcTypeOK
  <2>2. ~ Delivering(p)' /\ SnapStands(p)
    BY <2>1, DeliveringAt DEF DeliverLabels, FlyLabels, SnapStands
  <2>3. Selected(p)'
    BY <1>s, <2>1 DEF Selected, rowVars
  <2>4. OwnRow(p)
    BY <2>1, <2>2, <2>3 DEF OwnRow, HoldsLease, Attends, Sends, Flying, Fencing
  <2> QED BY <2>1, <2>2, <2>4, RowsAtRest
<1>5. CASE LeaseDone(p)
  BY <1>5, ExitRow, RowsAtRest DEF LeaseDone
<1> QED BY <1>1, <1>2, <1>3, <1>4, <1>5, LeaseRow, DropRow, BackoffRow DEF CronStep

LEMMA BeginRow ==
  ASSUME Context, NEW p \in Procs, NEW m \in Messages, UNCHANGED rowVars,
         \/ Begin(p, m, "insert", "send")
         \/ Begin(p, m, "enqueue", "schedule")
         \/ Begin(p, m, "sweep", "sweep")
  PROVE  RowStep(p)
<1>1. /\ snap' = snap
      /\ \/ pc'[p] = "insert" /\ caller'[p] = "send"
         \/ pc'[p] = "enqueue" /\ caller'[p] = "schedule"
         \/ pc'[p] = "sweep" /\ caller'[p] = "sweep"
  BY DEF Begin, Goto, Context, TypeOK, ProcTypeOK
<1>2. OwnRow(p) /\ SnapStands(p)
  BY <1>1 DEF OwnRow, HoldsLease, Selected, Attends, Sends, Delivering, Flying, Fencing, SnapStands
<1> QED BY <1>2, RowsAtRest

(* A rule puts a row where no invocation has one. *)
LEMMA CannedReplyRow ==
  ASSUME Context, NEW x \in Messages, CannedReply(x)
  PROVE  RowInv'
<1> USE DEF Context
<1>0. /\ x \notin queued /\ status[x] = "none" /\ NewRow(x, 1)
      /\ UNCHANGED <<status, command, procVars>>
  BY DEF CannedReply, intentVars
<1>1. \A m \in Messages : m # x =>
          /\ m \in queued' <=> m \in queued
          /\ holder'[m] = holder[m] /\ claimAge'[m] = claimAge[m] /\ failures'[m] = failures[m]
          /\ sinceDue'[m] = sinceDue[m] /\ tries'[m] = tries[m]
  BY <1>0 DEF NewRow, TypeOK, RowTypeOK
<1>2. x \in queued' /\ tries'[x] = 0 /\ failures'[x] = 0
  BY <1>0 DEF NewRow, TypeOK, RowTypeOK
<1>3. ASSUME NEW q \in Procs PROVE HoldsLease(q)' /\ Selected(q)' /\ Attends(q)' /\ Sends(q)'
  <2>0. /\ pc' = pc /\ msg' = msg /\ caller' = caller /\ work' = work /\ snap' = snap /\ life' = life /\ seen' = seen
    BY <1>0 DEF procVars
  <2>1. HoldsLease(q) /\ Selected(q) /\ Attends(q) /\ Sends(q) /\ msg[q] \in Messages /\ work[q] \subseteq Messages
    BY DEF RowInv, TypeOK, ProcTypeOK
  <2>2. HoldsLease(q)'
    <3>1. Delivering(q)' <=> Delivering(q)
      BY <2>0 DEF Delivering, Flying, Settling, Fencing
    <3>2. Delivering(q) => msg[q] # x
      BY <1>0, <2>1 DEF HoldsLease
    <3> QED BY <1>1, <2>0, <2>1, <3>1, <3>2 DEF HoldsLease
  <2>3. snap[q][x] = 0
    BY <1>0 DEF RowInv
  <2>4. Selected(q)'
    <3> SUFFICES ASSUME caller[q] = "deliver", pc[q] \notin {"idle", "collect"}, NEW m \in work[q], m \in queued'
                 PROVE  snap[q][m] <= failures'[m] \/ sinceDue'[m] <= life[q]
      BY <2>0 DEF Selected
    <3>1. CASE m = x
      BY <1>2, <2>3, <3>1
    <3>2. CASE m # x
      BY <1>1, <2>1, <3>2 DEF Selected
    <3> QED BY <3>1, <3>2
  <2>5. Attends(q)' /\ Sends(q)'
    BY <1>0, <2>0, <2>1 DEF Attends, Sends, Delivering, Flying, Fencing, Settling, CommandOf
  <2> QED BY <2>2, <2>4, <2>5
<1>4. FailedIsRetried'
  <2> SUFFICES ASSUME NEW m \in Messages \ EmailMessages,
                      status[m] = "failed", command[m] = "scheduled", m \notin queued'
               PROVE  failures'[m] = MaxAttempts
    BY <1>0 DEF FailedIsRetried
  <2> QED BY <1>1, <1>2 DEF RowInv, FailedIsRetried
<1>5. ASSUME NEW m \in Messages PROVE tries'[m] <= failures'[m]
  BY <1>1, <1>2, RowNumbers
<1>6. ASSUME NEW m \in Messages, status'[m] = "none"
      PROVE  tries'[m] = 0 /\ \A q \in Procs : snap'[q][m] = 0
  BY <1>0, <1>1, <1>2, <1>6 DEF RowInv, procVars
<1> QED BY <1>3, <1>4, <1>5, <1>6 DEF RowInv

LEMMA TickRow ==
  ASSUME Context, Tick
  PROVE  RowInv'
<1> USE DEF Context
<1>0. UNCHANGED <<status, command, queued, holder, tries, failures, pc, caller, msg, seen, work, snap>>
  BY DEF Tick
<1>1. ASSUME NEW q \in Procs PROVE HoldsLease(q)' /\ Selected(q)' /\ Attends(q)' /\ Sends(q)'
  <2>1. /\ HoldsLease(q) /\ Selected(q) /\ Attends(q) /\ Sends(q) /\ msg[q] \in Messages
        /\ work[q] \subseteq Messages /\ life[q] \in 0 .. MaxLife
    BY DEF RowInv, TypeOK, ProcTypeOK
  <2>2. pc[q] # "idle" => life'[q] = life[q] + 1 /\ life[q] < MaxLife
    BY DEF Tick
  <2>3. HoldsLease(q)'
    <3>1. (Delivering(q)' <=> Delivering(q)) /\ (Delivering(q) => pc[q] # "idle")
      BY <1>0 DEF Delivering, Flying, Settling, Fencing
    <3>2. ASSUME Delivering(q) PROVE claimAge'[msg[q]] = life'[q]
      <4>1. holder[msg[q]] = q /\ claimAge[msg[q]] = life[q] /\ q # Nobody
        BY <2>1, <3>2, ProcAssumption DEF HoldsLease
      <4>2. claimAge'[msg[q]] = IF life[q] < ClaimCap THEN life[q] + 1 ELSE ClaimCap
        BY <2>1, <4>1 DEF Tick, Capped
      <4>3. life[q] < ClaimCap
        BY <2>1, <2>2, <3>1, <3>2, BoundAssumption DEF ClaimCap
      <4> QED BY <2>2, <3>1, <3>2, <4>2, <4>3
    <3> QED BY <1>0, <2>1, <3>1, <3>2 DEF HoldsLease
  <2>4. Selected(q)'
    <3> SUFFICES ASSUME caller[q] = "deliver", pc[q] \notin {"idle", "collect"}, NEW m \in work[q], m \in queued
                 PROVE  snap[q][m] <= failures[m] \/ sinceDue'[m] <= life'[q]
      BY <1>0 DEF Selected
    <3>1. m \in Messages /\ sinceDue[m] \in Nat
      BY <2>1 DEF TypeOK, RowTypeOK, DueCap
    <3>2. sinceDue'[m] = IF sinceDue[m] < DueCap THEN sinceDue[m] + 1 ELSE DueCap
      BY <3>1 DEF Tick, Capped
    <3>3. sinceDue'[m] <= sinceDue[m] + 1
      BY <3>1, <3>2, BoundAssumption DEF DueCap
    <3>4. snap[q][m] <= failures[m] \/ sinceDue[m] <= life[q]
      BY <2>1 DEF Selected
    <3>5. DueCap \in Nat /\ sinceDue'[m] \in Nat
      BY <3>1, <3>2, BoundAssumption DEF DueCap
    <3> QED BY <2>1, <2>2, <3>1, <3>3, <3>4, <3>5
  <2>5. Attends(q)' /\ Sends(q)'
    BY <1>0, <2>1 DEF Attends, Sends, Delivering, Flying, Fencing, Settling, CommandOf
  <2> QED BY <2>3, <2>4, <2>5
<1> QED BY <1>0, <1>1 DEF RowInv, FailedIsRetried

LEMMA RowsUntouched ==
  ASSUME RowInv, UNCHANGED vars
  PROVE  RowInv'
BY DEF RowInv, vars, intentVars, rowVars, procVars, HoldsLease, Selected, Attends, Sends, Delivering,
       Flying, Fencing, Settling, CommandOf, FailedIsRetried

LEMMA RowInvStep ==
  LivesAreShort =>
    (TypeOK /\ DispatchInv /\ TimelineInv /\ SettledInv /\ BindingInv /\ RowInv /\ [Next]_vars => RowInv')
<1> SUFFICES ASSUME LivesAreShort, TypeOK, DispatchInv, TimelineInv, SettledInv, BindingInv, RowInv,
                    [Next]_vars
             PROVE  RowInv'
  OBVIOUS
<1>0. TypeOK' /\ BindingsStand /\ Context
  BY NextType, StepBindingsStand DEF Context
<1>k. ASSUME NEW p \in Procs, OnlyMoves(p), WritesStatus(p), RowStep(p) PROVE RowInv'
  BY <1>0, <1>k, RowsKept
<1>l. \A p \in Procs : SweepLoop(p)
  BY DEF TimelineInv, HoldsTaken
<1>1. ASSUME NEW p \in ApiCalls, NEW m \in Messages, ApiSend(p, m) \/ ApiSchedule(p, m)
      PROVE  RowInv'
  <2>1. p \in Procs
    BY DEF Procs
  <2>2. WritesStatus(p) /\ UNCHANGED rowVars
    BY <1>1 DEF ApiSend, ApiSchedule, WritesStatus, intentVars
  <2>3. OnlyMoves(p)
    BY <1>1, <2>1, BeginOwn DEF ApiSend, ApiSchedule, Callers
  <2>4. RowStep(p)
    BY <1>0, <1>1, <2>1, <2>2, BeginRow DEF ApiSend, ApiSchedule
  <2> QED BY <1>k, <2>1, <2>2, <2>3, <2>4
<1>2. ASSUME NEW p \in CronRuns, CronStart(p) PROVE RowInv'
  <2>1. p \in Procs /\ msg[p] \in Messages
    BY DEF Procs, TypeOK, ProcTypeOK
  <2>2. WritesStatus(p) /\ UNCHANGED rowVars
    BY <1>2 DEF CronStart, WritesStatus, intentVars
  <2>3. OnlyMoves(p)
    BY <1>2, <2>1, BeginOwn DEF CronStart, Callers
  <2>4. RowStep(p)
    BY <1>0, <1>2, <2>1, <2>2, BeginRow DEF CronStart
  <2> QED BY <1>k, <2>1, <2>2, <2>3, <2>4
<1>3. ASSUME NEW p \in CronRuns, CronStep(p) PROVE RowInv'
  <2>1. p \in Procs
    BY DEF Procs
  <2>2. OnlyMoves(p) /\ WritesStatus(p)
    BY <1>3, <2>1, StepMovesOne, CronStepWrites
  <2>3. RowStep(p)
    BY <1>0, <1>3, <1>l, <2>1, CronStepRow
  <2> QED BY <1>k, <2>1, <2>2, <2>3
<1>4. ASSUME NEW p \in Procs, SendStep(p) PROVE RowInv'
  <2>1. OnlyMoves(p) /\ WritesStatus(p)
    BY <1>4, StepMovesOne, SendStepWrites
  <2>2. CASE AddRow(p)
    BY <1>0, <1>k, <2>1, <2>2, AddRowRow
  <2>3. CASE ~ AddRow(p)
    BY <1>0, <1>4, <1>k, <2>1, <2>3, SendStepRow, RowsAtRest
  <2> QED BY <2>2, <2>3
<1>5. ASSUME NEW p \in Procs, Crash(p) PROVE RowInv'
  <2>1. OnlyMoves(p) /\ WritesStatus(p)
    BY <1>5, StepMovesOne DEF Crash, WritesStatus, intentVars
  <2>2. RowStep(p)
    BY <1>0, <1>5, ExitRow, RowsAtRest DEF Crash
  <2> QED BY <1>k, <2>1, <2>2
<1>6. ASSUME NEW m \in RuleMessages, CannedReply(m) PROVE RowInv'
  BY <1>0, <1>6, CannedReplyRow, ProcAssumption
<1> QED BY <1>0, <1>1, <1>2, <1>3, <1>4, <1>5, <1>6, TickRow, RowsUntouched DEF Next

LEMMA RowStart == Init => RowInv
BY BoundAssumption DEF Init, RowInv, HoldsLease, Selected, Attends, Sends, Delivering, Flying, Fencing,
   Settling, FailedIsRetried

(* A send-later message on a chat channel that failed for certain keeps its
   row until its attempts are used up: a lease of scheduled-claim.ts is longer
   than a Worker invocation, so that only its holder settles the row, and what
   the holder has selected is not older than the row. *)
THEOREM FailuresAreRetried ==
  ASSUME LivesAreShort
  PROVE  Spec => []FailedIsRetried
<1>1. TypeOK /\ DispatchInv /\ TimelineInv /\ SettledInv /\ BindingInv /\ RowInv /\ [Next]_vars => RowInv'
  BY RowInvStep
<1>2. Init => BindingInv
  BY DEF Init, BindingInv, Bound
<1>3. TypeOK /\ DispatchInv /\ BindingInv /\ [Next]_vars => BindingInv'
  BY BindingStep
<1>4. RowInv => FailedIsRetried
  BY DEF RowInv
<1> QED BY <1>1, <1>2, <1>3, <1>4, RowStart, SettledInvariant, PTL DEF Spec
===============================================================================
