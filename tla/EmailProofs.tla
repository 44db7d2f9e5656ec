------------------------------ MODULE EmailProofs ------------------------------
(***************************************************************************)
(* Theorems about EmailIngress, EmailDrafts and Mailboxes, for any mails,  *)
(* invocations, tabs and requests, and any bounds.                         *)
(***************************************************************************)
EXTENDS EmailIngress, EmailDrafts, Mailboxes, FiniteSetTheorems, TLAPS

-----------------------------------------------------------------------------
(* Ingress: the inductive invariant.                                        *)

Row == [state : States, by : Workers \cup {Nothing}, lease : 0 .. LeaseTicks, tries : Nat]
Job == [at : Stages, mail : Mails \cup {Nothing}, saw : States, to : Mails \cup {Nothing}]

Shown(m) == routed[m] /\ m \in timeline[canonical[m]]

(* What a mail has once it was routed: the marker of its commit, and a place
   in the store; only that place shows it. *)
StoreFits ==
  \A m \in Mails :
    /\ commits[m] = IF routed[m] THEN 1 ELSE 0
    /\ routed[m] => canonical[m] # Nothing
    /\ \A c \in Mails : m \in timeline[c] => c = canonical[m]

(* Who holds a mail is processing it; what is processed was shown. *)
RowFits ==
  \A m \in Mails :
    /\ row[m].by # Nothing => row[m].state = "processing"
    /\ row[m].state = "processed" => Shown(m)

(* How far the mail of an invocation is at each stage. *)
WorkFits ==
  \A w \in Workers :
    LET m == work[w].mail
        at == work[w].at
    IN /\ at # "idle" => m \in Mails
       /\ at \in {"attach", "persist"} => work[w].to \in Mails
       /\ at \in {"evaluate", "commit"} => canonical[m] # Nothing
       /\ at = "project" => routed[m]
       /\ at = "settle" => Shown(m)

IngressInv == TypeOK /\ StoreFits /\ RowFits /\ WorkFits

-----------------------------------------------------------------------------
(* Rows that keep what they were, in a step that leaves the store alone. *)
RowMoves(m) ==
  /\ row'[m] \in Row
  /\ row'[m].by # Nothing => row'[m].state = "processing"
  /\ row'[m].state = "processed" => row[m].state = "processed" \/ Shown(m)

JobFits(j) ==
  /\ j \in Job
  /\ j.at # "idle" => j.mail \in Mails
  /\ j.at \in {"attach", "persist"} => j.to \in Mails
  /\ j.at \in {"evaluate", "commit"} => canonical[j.mail] # Nothing
  /\ j.at = "project" => routed[j.mail]
  /\ j.at = "settle" => Shown(j.mail)

(* A step on the ingress row and the invocation alone. *)
LEMMA RowStepKeeps ==
  ASSUME IngressInv, UNCHANGED store, requests' \in 0 .. MaxRequests, faults' \in 0 .. MaxFaults,
         row' = [m \in Mails |-> row'[m]], \A m \in Mails : RowMoves(m),
         work' = [v \in Workers |-> work'[v]],
         \A v \in Workers : work'[v] = work[v] \/ JobFits(work'[v])
  PROVE  IngressInv'
<1> USE DEF IngressInv, store
<1>1. \A v \in Workers : work[v] \in Job /\ work'[v] \in Job
  BY DEF TypeOK, JobFits, Job
<1>2. TypeOK'
  BY <1>1 DEF TypeOK, RowMoves, Row, Job
<1>3. StoreFits'
  BY DEF StoreFits
<1>4. RowFits'
  BY DEF RowFits, RowMoves, Shown
<1>5. WorkFits'
  <2>1. \A m \in Mails : Shown(m)' = Shown(m)
    BY DEF Shown
  <2> QED
    BY <2>1 DEF WorkFits, JobFits, Shown
<1> QED
  BY <1>2, <1>3, <1>4, <1>5

LEMMA IdleJob == Idle \in Job /\ Idle.at = "idle"
  BY DEF Idle, Job, Stages, States

LEMMA IdleFits == JobFits(Idle)
  BY IdleJob DEF JobFits

(* The invocation gets job j, and mail m the row r. *)
LEMMA OneRowKeeps ==
  ASSUME IngressInv, UNCHANGED store, requests' \in 0 .. MaxRequests, faults' \in 0 .. MaxFaults,
         NEW m \in Mails, NEW r \in Row, row' = [row EXCEPT ![m] = r], RowMoves(m),
         NEW w \in Workers, NEW j, work' = [work EXCEPT ![w] = j], JobFits(j)
  PROVE  IngressInv'
<1>1. /\ row \in [Mails -> Row] /\ work \in [Workers -> Job]
  BY DEF IngressInv, TypeOK, Row, Job
<1>2. row' = [n \in Mails |-> row'[n]] /\ work' = [v \in Workers |-> work'[v]]
  BY <1>1
<1>3. \A n \in Mails : RowMoves(n)
  <2>1. ASSUME NEW n \in Mails \ {m} PROVE RowMoves(n)
    BY <1>1 DEF RowMoves, IngressInv, RowFits
  <2> QED
    BY <2>1
<1>4. \A v \in Workers : work'[v] = work[v] \/ JobFits(work'[v])
  BY <1>1
<1> QED
  BY <1>2, <1>3, <1>4, RowStepKeeps

LEMMA NoRowKeeps ==
  ASSUME IngressInv, UNCHANGED <<row, store>>, requests' \in 0 .. MaxRequests, faults' \in 0 .. MaxFaults,
         NEW w \in Workers, NEW j, work' = [work EXCEPT ![w] = j], JobFits(j)
  PROVE  IngressInv'
<1>1. /\ row \in [Mails -> Row] /\ work \in [Workers -> Job]
  BY DEF IngressInv, TypeOK, Row, Job
<1>2. row' = [n \in Mails |-> row'[n]] /\ work' = [v \in Workers |-> work'[v]]
  BY <1>1
<1>3. \A n \in Mails : RowMoves(n)
  BY <1>1 DEF RowMoves, IngressInv, RowFits
<1>4. \A v \in Workers : work'[v] = work[v] \/ JobFits(work'[v])
  BY <1>1
<1> QED
  BY <1>2, <1>3, <1>4, RowStepKeeps

LEMMA BudgetFits ==
  ASSUME IngressInv
  PROVE  /\ requests \in 0 .. MaxRequests /\ faults \in 0 .. MaxFaults
         /\ requests < MaxRequests => requests + 1 \in 0 .. MaxRequests
         /\ faults < MaxFaults => faults + 1 \in 0 .. MaxFaults
  BY IngressAssumption DEF IngressInv, TypeOK

LEMMA SelectFits ==
  ASSUME NEW w \in Workers, NEW m \in Mails, row'[m] \in Row, Select(w, m)
  PROVE  \E j : work' = [work EXCEPT ![w] = j] /\ JobFits(j)
<1> DEFINE j == [Idle EXCEPT !.at = IF row'[m].state = "quarantined" THEN "release" ELSE "claim",
                             !.mail = m, !.saw = row'[m].state]
<1>1. {"release", "claim"} \subseteq Stages /\ row'[m].state \in States
  BY DEF Stages, Row
<1>2. j \in Job /\ j.mail = m /\ j.at \in {"release", "claim"}
  BY <1>1, IdleJob DEF Job
<1>3. JobFits(j)
  BY <1>2 DEF JobFits
<1>4. work' = [work EXCEPT ![w] = j]
  BY DEF Select
<1> HIDE DEF j
<1> QED
  BY <1>3, <1>4

LEMMA ArriveKeeps ==
  ASSUME IngressInv, NEW w \in Workers, NEW m \in Mails, Arrive(w, m)
  PROVE  IngressInv'
<1> DEFINE s == IF row[m].state = "none" THEN "stored" ELSE row[m].state
           r == [row[m] EXCEPT !.state = s]
<1>0. row \in [Mails -> Row] /\ row[m] \in Row /\ work \in [Workers -> Job]
  BY DEF IngressInv, TypeOK, Row, Job
<1>1. row' = [row EXCEPT ![m] = r] /\ UNCHANGED store /\ "stored" \in States
  BY DEF Arrive, States
<1>2. r \in Row /\ r.by = row[m].by /\ (r.state = row[m].state \/ (row[m].state = "none" /\ r.state = "stored"))
  <2>1. s \in States
    BY <1>0, <1>1 DEF Row
  <2>2. IF row[m].state = "none" THEN s = "stored" ELSE s = row[m].state
    BY Zenon
  <2> HIDE DEF s
  <2>3. r \in Row /\ r.by = row[m].by /\ r.state = s
    BY <1>0, <2>1 DEF Row
  <2>4. CASE row[m].state = "none"
    BY <2>2, <2>3, <2>4
  <2>5. CASE row[m].state # "none"
    BY <2>2, <2>3, <2>5
  <2> QED
    BY <2>4, <2>5
<1>3. RowMoves(m) /\ row'[m] \in Row
  BY <1>0, <1>1, <1>2 DEF RowMoves, IngressInv, RowFits
<1>4. requests' \in 0 .. MaxRequests /\ faults' \in 0 .. MaxFaults
  BY BudgetFits DEF Arrive
<1> HIDE DEF r
<1>5. CASE UNCHANGED work
  <2>1. row' = [n \in Mails |-> row'[n]] /\ work' = [v \in Workers |-> work'[v]]
    BY <1>0, <1>1, <1>5
  <2>2. \A n \in Mails : RowMoves(n)
    <3>1. ASSUME NEW n \in Mails \ {m} PROVE RowMoves(n)
      BY <1>0, <1>1 DEF RowMoves, IngressInv, RowFits
    <3> QED
      BY <1>3, <3>1
  <2> QED
    BY <1>1, <1>4, <1>5, <2>1, <2>2, RowStepKeeps
<1>6. CASE Select(w, m)
  <2>1. PICK j : work' = [work EXCEPT ![w] = j] /\ JobFits(j)
    BY <1>3, <1>6, SelectFits
  <2> QED
    BY <1>1, <1>2, <1>3, <1>4, <2>1, OneRowKeeps
<1> QED
  BY <1>5, <1>6 DEF Arrive

LEMMA TakesKeep ==
  ASSUME IngressInv, NEW w \in Workers, NEW m \in Mails, Operate(w, m) \/ Sweep(w, m)
  PROVE  IngressInv'
<1>1. row'[m] \in Row /\ UNCHANGED <<row, store>> /\ Select(w, m)
  BY DEF Operate, Sweep, IngressInv, TypeOK, Row
<1>2. PICK j : work' = [work EXCEPT ![w] = j] /\ JobFits(j)
  BY <1>1, SelectFits
<1>3. requests' \in 0 .. MaxRequests /\ faults' \in 0 .. MaxFaults
  BY BudgetFits DEF Operate, Sweep, budget
<1> QED
  BY <1>1, <1>2, <1>3, NoRowKeeps

(* An invocation that goes to another stage with what the stage asks for. *)
LEMMA GotoFits ==
  ASSUME IngressInv, NEW w \in Workers, NEW stage \in Stages, ~At(w, "idle"), Goto(w, stage),
         stage \in {"attach", "persist"} => work[w].to \in Mails,
         stage \in {"evaluate", "commit"} => canonical[work[w].mail] # Nothing,
         stage = "project" => routed[work[w].mail],
         stage = "settle" => Shown(work[w].mail)
  PROVE  \E j : work' = [work EXCEPT ![w] = j] /\ JobFits(j)
<1> DEFINE j == [work[w] EXCEPT !.at = stage]
<1>1. work[w] \in Job /\ work[w].mail \in Mails
  BY DEF IngressInv, TypeOK, WorkFits, Job, At
<1>2. j \in Job /\ j.at = stage /\ j.mail = work[w].mail /\ j.to = work[w].to
  BY <1>1 DEF Job
<1> HIDE DEF j
<1>3. JobFits(j)
  BY <1>1, <1>2 DEF JobFits
<1> QED
  BY <1>3 DEF Goto, j

LEMMA ReleaseKeeps ==
  ASSUME IngressInv, NEW w \in Workers, Release(w)
  PROVE  IngressInv'
<1> DEFINE m == work[w].mail
           r == [row[m] EXCEPT !.state = "stored", !.by = Nothing]
<1>0. requests' \in 0 .. MaxRequests /\ faults' \in 0 .. MaxFaults /\ UNCHANGED store /\ At(w, "release")
  BY BudgetFits DEF Release, budget
<1>1. m \in Mails /\ row[m] \in Row /\ row \in [Mails -> Row]
  BY <1>0 DEF IngressInv, TypeOK, WorkFits, Row, At
<1>2. CASE work' = [work EXCEPT ![w] = Idle] /\ UNCHANGED row
  BY <1>0, <1>2, IdleFits, NoRowKeeps
<1>3. CASE row' = [row EXCEPT ![m].state = "stored", ![m].by = Nothing] /\ Goto(w, "claim")
  <2>1. "stored" \in States /\ "claim" \in Stages
    BY DEF States, Stages
  <2>2. r \in Row /\ r.state = "stored" /\ r.by = Nothing
    BY <1>1, <2>1 DEF Row
  <2>3. row' = [row EXCEPT ![m] = r]
    BY <1>3
  <2> HIDE DEF r
  <2>4. RowMoves(m)
    BY <1>1, <2>2, <2>3 DEF RowMoves
  <2>5. PICK j : work' = [work EXCEPT ![w] = j] /\ JobFits(j)
    BY <1>0, <1>3, <2>1, GotoFits DEF At
  <2> QED
    BY <1>0, <1>1, <2>2, <2>3, <2>4, <2>5, OneRowKeeps
<1> QED
  BY <1>2, <1>3 DEF Release

LEMMA ClaimKeeps ==
  ASSUME IngressInv, NEW w \in Workers, Claim(w)
  PROVE  IngressInv'
<1> DEFINE m == work[w].mail
           r == [state |-> "processing", by |-> w, lease |-> LeaseTicks, tries |-> row[m].tries + 1]
<1>0. requests' \in 0 .. MaxRequests /\ faults' \in 0 .. MaxFaults /\ UNCHANGED store /\ At(w, "claim")
  BY BudgetFits DEF Claim, budget
<1>1. m \in Mails /\ row[m] \in Row /\ row \in [Mails -> Row]
  BY <1>0 DEF IngressInv, TypeOK, WorkFits, Row, At
<1>2. CASE work' = [work EXCEPT ![w] = Idle] /\ UNCHANGED row
  BY <1>0, <1>2, IdleFits, NoRowKeeps
<1>3. CASE row' = [row EXCEPT ![m] = r] /\ Goto(w, "read")
  <2>1. "processing" \in States /\ "read" \in Stages
    BY DEF States, Stages
  <2>2. LeaseTicks \in 0 .. LeaseTicks /\ row[m].tries + 1 \in Nat
    BY <1>1, IngressAssumption DEF Row
  <2>3. r \in Row /\ r.state = "processing"
    BY <2>1, <2>2 DEF Row
  <2> HIDE DEF r
  <2>4. RowMoves(m)
    BY <1>1, <1>3, <2>3 DEF RowMoves
  <2>5. PICK j : work' = [work EXCEPT ![w] = j] /\ JobFits(j)
    BY <1>0, <1>3, <2>1, GotoFits DEF At
  <2> QED
    BY <1>0, <1>1, <1>3, <2>3, <2>4, <2>5, OneRowKeeps
<1> QED
  BY <1>2, <1>3 DEF Claim

(* Only who holds a mail settles it; nobody holds one that is settled. *)
LEMMA SettleKeeps ==
  ASSUME IngressInv, NEW w \in Workers, NEW state \in {"processed", "quarantined", "failed"},
         ~At(w, "idle"), Settle(w, state), state = "processed" => Shown(work[w].mail)
  PROVE  IngressInv'
<1> DEFINE m == work[w].mail
           r == [row[m] EXCEPT !.state = state, !.by = Nothing, !.lease = 0]
<1>0. requests' \in 0 .. MaxRequests /\ faults' \in 0 .. MaxFaults /\ UNCHANGED store
      /\ work' = [work EXCEPT ![w] = Idle]
  BY BudgetFits DEF Settle, budget
<1>1. m \in Mails /\ row[m] \in Row /\ row \in [Mails -> Row]
  BY DEF IngressInv, TypeOK, WorkFits, Row, At
<1>2. CASE UNCHANGED row
  BY <1>0, <1>2, IdleFits, NoRowKeeps
<1>3. CASE row' = [row EXCEPT ![m].state = state, ![m].by = Nothing, ![m].lease = 0]
  <2>1. state \in States /\ 0 \in 0 .. LeaseTicks
    BY IngressAssumption DEF States
  <2>2. r \in Row /\ r.state = state /\ r.by = Nothing
    BY <1>1, <2>1 DEF Row
  <2>3. row' = [row EXCEPT ![m] = r]
    BY <1>3
  <2> HIDE DEF r
  <2>4. RowMoves(m)
    BY <1>1, <2>2, <2>3 DEF RowMoves
  <2> QED
    BY <1>0, <1>1, <2>2, <2>3, <2>4, IdleFits, OneRowKeeps
<1> QED
  BY <1>2, <1>3 DEF Settle

LEMMA TickKeeps ==
  ASSUME IngressInv, Tick
  PROVE  IngressInv'
<1>1. row' = [m \in Mails |-> [row[m] EXCEPT !.lease = IF @ = 0 THEN 0 ELSE @ - 1]]
      /\ UNCHANGED <<store, work, budget>>
  BY DEF Tick
<1>2. \A m \in Mails : RowMoves(m)
  <2> TAKE m \in Mails
  <2>1. row[m] \in Row
    BY DEF IngressInv, TypeOK, Row
  <2>2. (IF row[m].lease = 0 THEN 0 ELSE row[m].lease - 1) \in 0 .. LeaseTicks
    BY <2>1, IngressAssumption DEF Row
  <2>3. row'[m] \in Row /\ row'[m].state = row[m].state /\ row'[m].by = row[m].by
    BY <1>1, <2>1, <2>2 DEF Row
  <2> QED
    BY <2>3 DEF RowMoves, IngressInv, RowFits
<1>3. requests' \in 0 .. MaxRequests /\ faults' \in 0 .. MaxFaults
  BY <1>1, BudgetFits DEF budget
<1>4. work' = [v \in Workers |-> work'[v]] /\ row' = [m \in Mails |-> row'[m]]
  BY <1>1 DEF IngressInv, TypeOK
<1> QED
  BY <1>1, <1>2, <1>3, <1>4, RowStepKeeps

LEMMA ReadKeeps ==
  ASSUME IngressInv, NEW w \in Workers, Read(w) \/ Evaluate(w) \/ CallFails(w) \/ Die(w)
  PROVE  IngressInv'
<1> DEFINE m == work[w].mail
<1>0. requests' \in 0 .. MaxRequests /\ faults' \in 0 .. MaxFaults /\ UNCHANGED <<row, store>> /\ ~At(w, "idle")
  BY BudgetFits DEF Read, Evaluate, CallFails, Die, budget, At
<1>1. m \in Mails /\ work[w] \in Job
  BY <1>0 DEF IngressInv, WorkFits, At, TypeOK, Job
<1>2. {"project", "reject", "attach", "commit", "fail"} \subseteq Stages
  BY DEF Stages
<1>3. \E j : work' = [work EXCEPT ![w] = j] /\ JobFits(j)
  <2>1. CASE work' = [work EXCEPT ![w] = Idle]
    BY <2>1, IdleFits
  <2>2. CASE RoutingDone(m) /\ Goto(w, "project")
    BY <1>0, <1>2, <2>2, GotoFits DEF RoutingDone
  <2>3. ASSUME NEW stage \in {"reject", "fail"}, Goto(w, stage)
        PROVE  \E j : work' = [work EXCEPT ![w] = j] /\ JobFits(j)
    BY <1>0, <1>2, <2>3, GotoFits
  <2>4. CASE Evaluate(w)
    <3>1. canonical[m] # Nothing
      BY <2>4 DEF Evaluate, At, IngressInv, WorkFits
    <3>2. CASE routed[m]
      BY <1>0, <1>2, <2>4, <3>2, GotoFits DEF Evaluate
    <3>3. CASE ~routed[m]
      BY <1>0, <1>2, <2>4, <3>1, <3>3, GotoFits DEF Evaluate
    <3> QED
      BY <3>2, <3>3
  <2>5. CASE work' = [work EXCEPT ![w].at = "attach", ![w].to = Thread(m)]
    <3> DEFINE j == [work[w] EXCEPT !.at = "attach", !.to = Thread(m)]
    <3>1. Thread(m) \in Mails
      BY <1>1, IngressAssumption DEF Thread, IngressInv, TypeOK
    <3>2. j \in Job /\ j.at = "attach" /\ j.mail = m /\ j.to = Thread(m)
      BY <1>1, <1>2, <3>1 DEF Job
    <3>3. work' = [work EXCEPT ![w] = j]
      BY <2>5
    <3> HIDE DEF j
    <3>4. JobFits(j)
      BY <1>1, <3>1, <3>2 DEF JobFits
    <3> QED
      BY <3>3, <3>4
  <2> QED
    BY <2>1, <2>2, <2>3, <2>4, <2>5 DEF Read, CallFails, Die
<1>4. PICK j : work' = [work EXCEPT ![w] = j] /\ JobFits(j)
  BY <1>3
<1> QED
  BY <1>0, <1>4, NoRowKeeps

(* What a step of the store leaves as it was: a place once given stays, and
   so does what was routed and shown. *)
StoreGrows ==
  /\ \A m \in Mails : canonical[m] # Nothing => canonical'[m] = canonical[m]
  /\ \A m \in Mails : routed[m] => routed'[m]
  /\ \A c \in Mails : timeline[c] \subseteq timeline'[c]

ShownNext(m) == routed'[m] /\ m \in timeline'[canonical'[m]]

(* A step of an invocation on the store. *)
LEMMA StoreStepKeeps ==
  ASSUME IngressInv, UNCHANGED <<row, budget>>,
         NEW w \in Workers, NEW stage \in Stages, Goto(w, stage), ~At(w, "idle"),
         canonical' \in [Mails -> Mails \cup {Nothing}], routed' \in [Mails -> BOOLEAN],
         commits' \in [Mails -> Nat], private' \in [Mails -> Mails \cup {Nothing}],
         timeline' \in [Mails -> SUBSET Mails],
         StoreGrows, StoreFits',
         stage \in {"attach", "persist"} => work[w].to \in Mails,
         stage \in {"evaluate", "commit"} => canonical'[work[w].mail] # Nothing,
         stage = "project" => routed'[work[w].mail],
         stage = "settle" => ShownNext(work[w].mail)
  PROVE  IngressInv'
<1> DEFINE j == [work[w] EXCEPT !.at = stage]
<1>1. work[w] \in Job /\ work[w].mail \in Mails /\ work \in [Workers -> Job]
  BY DEF IngressInv, TypeOK, WorkFits, Job, At
<1>2. j \in Job /\ j.at = stage /\ j.mail = work[w].mail /\ j.to = work[w].to
  BY <1>1 DEF Job
<1>3. work' = [work EXCEPT ![w] = j]
  BY DEF Goto
<1> HIDE DEF j
<1>4. work' \in [Workers -> Job] /\ work'[w] = j /\ \A v \in Workers \ {w} : work'[v] = work[v]
  BY <1>1, <1>2, <1>3
<1>5. TypeOK'
  BY <1>4 DEF IngressInv, TypeOK, Job, budget
<1>6. \A m \in Mails : Shown(m) => ShownNext(m)
  BY DEF Shown, ShownNext, StoreGrows, IngressInv, StoreFits, TypeOK
<1>7. RowFits'
  BY <1>6 DEF IngressInv, RowFits, Shown, ShownNext
<1>8. WorkFits'
  <2>1. ASSUME NEW v \in Workers \ {w}
        PROVE  /\ work[v].at # "idle" => work[v].mail \in Mails
               /\ work[v].at \in {"attach", "persist"} => work[v].to \in Mails
               /\ work[v].at \in {"evaluate", "commit"} => canonical'[work[v].mail] # Nothing
               /\ work[v].at = "project" => routed'[work[v].mail]
               /\ work[v].at = "settle" => ShownNext(work[v].mail)
    <3>1. CASE work[v].at = "idle"
      BY <3>1
    <3>2. CASE work[v].at # "idle"
      <4>1. work[v].mail \in Mails
        BY <3>2 DEF IngressInv, WorkFits
      <4> QED
        BY <1>6, <4>1 DEF IngressInv, WorkFits, StoreGrows
    <3> QED
      BY <3>1, <3>2
  <2>2. ASSUME NEW v \in Workers
        PROVE  /\ work'[v].at # "idle" => work'[v].mail \in Mails
               /\ work'[v].at \in {"attach", "persist"} => work'[v].to \in Mails
               /\ work'[v].at \in {"evaluate", "commit"} => canonical'[work'[v].mail] # Nothing
               /\ work'[v].at = "project" => routed'[work'[v].mail]
               /\ work'[v].at = "settle" => ShownNext(work'[v].mail)
    BY <1>1, <1>2, <1>4, <2>1
  <2> QED
    BY <2>2 DEF WorkFits, Shown, ShownNext
<1> QED
  BY <1>5, <1>7, <1>8 DEF IngressInv

LEMMA StoresKeep ==
  ASSUME IngressInv, NEW w \in Workers, Attach(w) \/ Persist(w) \/ Commit(w) \/ Project(w)
  PROVE  IngressInv'
<1> DEFINE m == work[w].mail
<1>0. UNCHANGED <<row, budget>> /\ ~At(w, "idle") /\ m \in Mails
  BY DEF Attach, Persist, Commit, Project, At, IngressInv, WorkFits
<1>1. /\ canonical \in [Mails -> Mails \cup {Nothing}] /\ routed \in [Mails -> BOOLEAN]
      /\ commits \in [Mails -> Nat] /\ private \in [Mails -> Mails \cup {Nothing}]
      /\ timeline \in [Mails -> SUBSET Mails] /\ StoreFits
  BY DEF IngressInv, TypeOK
<1>2. CASE Attach(w)
  <2>1. work[w].to \in Mails /\ Goto(w, "persist") /\ "persist" \in Stages
        /\ UNCHANGED <<canonical, routed, commits, timeline>>
    BY <1>2 DEF Attach, At, IngressInv, WorkFits, Stages
  <2>2. private' \in [Mails -> Mails \cup {Nothing}]
    BY <1>0, <1>1, <1>2, <2>1 DEF Attach
  <2>3. StoreGrows /\ StoreFits'
    BY <1>1, <2>1 DEF StoreGrows, StoreFits
  <2> QED
    BY <1>0, <1>1, <2>1, <2>2, <2>3, StoreStepKeeps
<1>3. CASE Persist(w)
  <2>1. work[w].to \in Mails /\ Goto(w, "evaluate") /\ "evaluate" \in Stages
        /\ UNCHANGED <<routed, commits, private, timeline>>
    BY <1>3 DEF Persist, At, IngressInv, WorkFits, Stages
  <2>2. /\ canonical' \in [Mails -> Mails \cup {Nothing}]
        /\ canonical'[m] # Nothing
        /\ \A n \in Mails : canonical[n] # Nothing => canonical'[n] = canonical[n]
    BY <1>0, <1>1, <1>3, <2>1, IngressAssumption DEF Persist
  <2>3. StoreGrows
    BY <2>1, <2>2 DEF StoreGrows
  <2>4. StoreFits'
    <3>1. \A n, c \in Mails : n \in timeline[c] => canonical[n] # Nothing
      BY <1>1, IngressAssumption DEF StoreFits
    <3> QED
      BY <1>1, <2>1, <2>2, <3>1 DEF StoreFits
  <2> QED
    BY <1>0, <1>1, <2>1, <2>2, <2>3, <2>4, StoreStepKeeps
<1>4. CASE Commit(w)
  <2>1. canonical[m] # Nothing /\ Goto(w, "project") /\ "project" \in Stages
        /\ UNCHANGED <<canonical, private, timeline>>
    BY <1>4 DEF Commit, At, IngressInv, WorkFits, Stages
  <2>2. /\ commits' \in [Mails -> Nat] /\ routed' \in [Mails -> BOOLEAN]
        /\ routed'[m] /\ commits'[m] = 1
        /\ \A n \in Mails \ {m} : routed'[n] = routed[n] /\ commits'[n] = commits[n]
    <3>1. CASE commits[m] > 0
      <4>1. routed[m] /\ commits[m] = 1 /\ UNCHANGED <<routed, commits>>
        BY <1>0, <1>1, <1>4, <3>1 DEF Commit, Committed, StoreFits
      <4> QED
        BY <1>1, <4>1
    <3>2. CASE ~(commits[m] > 0)
      <4>1. commits[m] = 0
        BY <1>0, <1>1, <3>2 DEF StoreFits
      <4>2. commits' = [commits EXCEPT ![m] = 1]
        BY <1>0, <1>1, <1>4, <3>2, <4>1 DEF Commit, Committed
      <4>3. routed' = [routed EXCEPT ![m] = TRUE]
        BY <1>4, <3>2 DEF Commit, Committed
      <4> QED
        BY <1>0, <1>1, <4>2, <4>3
    <3> QED
      BY <3>1, <3>2
  <2>3. StoreGrows /\ StoreFits'
    BY <1>1, <2>1, <2>2 DEF StoreGrows, StoreFits
  <2> QED
    BY <1>0, <1>1, <2>1, <2>2, <2>3, StoreStepKeeps
<1>5. CASE Project(w)
  <2>1. routed[m] /\ Goto(w, "settle") /\ "settle" \in Stages
        /\ UNCHANGED <<canonical, routed, commits, private>>
    BY <1>5 DEF Project, At, IngressInv, WorkFits, Stages
  <2>2. canonical[m] \in Mails
    BY <1>0, <1>1, <2>1 DEF StoreFits
  <2>3. /\ timeline' \in [Mails -> SUBSET Mails]
        /\ timeline'[canonical[m]] = timeline[canonical[m]] \cup {m}
        /\ \A c \in Mails \ {canonical[m]} : timeline'[c] = timeline[c]
    BY <1>0, <1>1, <1>5, <2>2 DEF Project, ShownIn
  <2>4. StoreGrows /\ ShownNext(m)
    BY <2>1, <2>3 DEF StoreGrows, ShownNext
  <2>5. StoreFits'
    BY <1>1, <2>1, <2>3 DEF StoreFits
  <2> QED
    BY <1>0, <1>1, <2>1, <2>3, <2>4, <2>5, StoreStepKeeps
<1> QED
  BY <1>2, <1>3, <1>4, <1>5

LEMMA WorkerKeeps ==
  ASSUME IngressInv, NEW w \in Workers, WorkerStep(w)
  PROVE  IngressInv'
<1>1. CASE Succeed(w)
  <2>1. Shown(work[w].mail) /\ ~At(w, "idle") /\ Settle(w, "processed")
    BY <1>1 DEF Succeed, At, IngressInv, WorkFits
  <2> QED
    BY <2>1, SettleKeeps
<1>2. CASE Reject(w)
  BY <1>2, SettleKeeps DEF Reject, At
<1>3. CASE Fail(w)
  BY <1>3, SettleKeeps DEF Fail, At
<1> QED
  BY <1>1, <1>2, <1>3, ReleaseKeeps, ClaimKeeps, ReadKeeps, StoresKeep DEF WorkerStep

LEMMA IngressInit == Init => IngressInv
<1> SUFFICES ASSUME Init PROVE IngressInv
  OBVIOUS
<1>1. TypeOK
  <2>1. [state |-> "none", by |-> Nothing, lease |-> 0, tries |-> 0] \in Row
    BY IngressAssumption DEF Row, States
  <2>2. row \in [Mails -> Row]
    BY <2>1 DEF Init
  <2>3. work \in [Workers -> Job]
    BY IdleJob DEF Init
  <2>4. requests \in 0 .. MaxRequests /\ faults \in 0 .. MaxFaults
    BY IngressAssumption DEF Init
  <2> QED
    BY <2>2, <2>3, <2>4 DEF Init, TypeOK, Row, Job
<1>2. StoreFits /\ RowFits
  BY DEF Init, StoreFits, RowFits
<1>3. WorkFits
  BY IdleJob DEF Init, WorkFits
<1> QED
  BY <1>1, <1>2, <1>3 DEF IngressInv

LEMMA IngressNext == IngressInv /\ [Next]_vars => IngressInv'
<1> SUFFICES ASSUME IngressInv, [Next]_vars PROVE IngressInv'
  OBVIOUS
<1>1. CASE UNCHANGED vars
  BY <1>1 DEF vars, IngressInv, TypeOK, StoreFits, RowFits, WorkFits, Shown
<1> QED
  BY <1>1, WorkerKeeps, ReadKeeps, ArriveKeeps, TakesKeep, TickKeeps DEF Next

THEOREM IngressInvariant == Spec => []IngressInv
  BY IngressInit, IngressNext, PTL DEF Spec

(* The variables of the ingress have their types. *)
THEOREM IngressTypes == Spec => []TypeOK
  BY IngressInvariant, PTL DEF IngressInv

(* A processed email is stored, its rules were committed exactly once, and
   the conversation that the store names shows it. *)
THEOREM ProcessedEmailsAreShown == Spec => []ProcessedIsShown
<1>1. IngressInv => ProcessedIsShown
  BY DEF IngressInv, StoreFits, RowFits, Shown, ProcessedIsShown
<1> QED
  BY <1>1, IngressInvariant, PTL

(* An email is shown by one conversation at most. *)
THEOREM EmailsHaveOnePlace == Spec => []OnePlace
<1>1. IngressInv => OnePlace
  <2> SUFFICES ASSUME IngressInv, NEW m \in Mails
               PROVE  Cardinality({c \in Mails : m \in timeline[c]}) <= 1
    BY DEF OnePlace
  <2>1. {c \in Mails : m \in timeline[c]} \subseteq {canonical[m]}
    BY DEF IngressInv, StoreFits
  <2>2. {c \in Mails : m \in timeline[c]} = {} \/ {c \in Mails : m \in timeline[c]} = {canonical[m]}
    BY <2>1
  <2>3. Cardinality({}) = 0 /\ Cardinality({canonical[m]}) = 1
    BY FS_EmptySet, FS_Singleton
  <2> QED
    BY <2>2, <2>3
<1> QED
  BY <1>1, IngressInvariant, PTL

(* No invocation takes back what another one settled, however long it
   outlived its lease. *)
THEOREM ProcessedEmailsStay == Spec => ProcessedIsFinal
<1>1. IngressInv /\ [Next]_vars =>
        [\A m \in Mails : row[m].state = "processed" => row'[m].state = "processed"]_vars
  <2> SUFFICES ASSUME IngressInv, Next, NEW m \in Mails, row[m].state = "processed"
               PROVE  row'[m].state = "processed"
    OBVIOUS
  <2>0. row \in [Mails -> Row] /\ row[m].by = Nothing
    BY DEF IngressInv, TypeOK, Row, RowFits
  <2>1. ASSUME NEW w \in Workers, NEW state, Settle(w, state), work[w].mail \in Mails
        PROVE  row'[m].state = "processed"
    <3>1. CASE row' = row
      BY <3>1
    <3>2. CASE Holds(w)
      <4>1. work[w].mail # m
        BY <2>0, <3>2, IngressAssumption DEF Holds, Workers
      <4> QED
        BY <2>0, <2>1, <3>2, <4>1 DEF Settle
    <3> QED
      BY <2>1, <3>1, <3>2 DEF Settle
  <2>2. ASSUME NEW w \in Workers, ~At(w, "idle") PROVE work[w].mail \in Mails
    BY <2>2 DEF At, IngressInv, WorkFits
  <2>3. ASSUME NEW w \in Workers, WorkerStep(w) PROVE row'[m].state = "processed"
    <3>1. CASE Release(w)
      BY <2>0, <3>1, <2>2 DEF Release, At
    <3>2. CASE Claim(w)
      BY <2>0, <3>2, <2>2 DEF Claim, At
    <3>3. CASE Succeed(w) \/ Reject(w) \/ Fail(w)
      BY <2>1, <2>2, <3>3 DEF Succeed, Reject, Fail, At
    <3> QED
      BY <2>3, <3>1, <3>2, <3>3 DEF WorkerStep, Read, Attach, Persist, Evaluate, Commit, Project
  <2>4. ASSUME NEW w \in Workers, NEW n \in Mails, Arrive(w, n) PROVE row'[m].state = "processed"
    BY <2>0, <2>4 DEF Arrive
  <2>5. CASE Tick
    BY <2>0, <2>5 DEF Tick, Row
  <2> QED
    BY <2>3, <2>4, <2>5 DEF Next, CallFails, Die, Operate, Sweep
<1> QED
  BY <1>1, IngressInvariant, PTL DEF Spec, ProcessedIsFinal

-----------------------------------------------------------------------------
(* Mailboxes: the inductive invariant.                                      *)

BoxRow == [address : Holders, domain : Nat \ {0}, receives : BOOLEAN, sends : BOOLEAN, linked : BOOLEAN]
Wishes == DomainStates \cup {"keep", "on", "off"}
DutyRow == [op : {"none", "domain", "verify", "state", "delete", "mailbox", "flags"},
            at : {"idle", "check", "repair", "write"}, saw : Nat, who : SUBSET Holders,
            in : Wishes, out : Wishes, meant : {<<>>} \cup (DomainStates \X DomainStates),
            ready : BOOLEAN]

MailboxTypes ==
  /\ domain \in [serial : Nat, in : DomainStates, out : DomainStates, routing : BOOLEAN, sending : BOOLEAN]
  /\ boxes \subseteq BoxRow
  /\ duty \in [Operators -> DutyRow]
  /\ serials \in Nat

(* A mailbox has its domain, and what is on has its transport. *)
BoxServed(b) == b.domain = domain.serial /\ (b.receives \/ b.sends => b.linked)

(* A request makes mailboxes of a domain that was there; one that may switch
   mailboxes on has repaired them. *)
DutyFits(o) ==
  /\ duty[o].op = "mailbox" => duty[o].saw # 0
  /\ duty[o].op = "state" => {duty[o].in, duty[o].out} \subseteq DomainStates \cup {"keep"}
  /\ Busy(o, "flags", "write") => \A b \in boxes : b.address \in duty[o].who => b.linked

MailboxInv == MailboxTypes /\ (\A b \in boxes : BoxServed(b)) /\ \A o \in Operators : DutyFits(o)

(* No step takes a mailbox's transport away. *)
LinksStay == \A b \in boxes' : b.linked \/ \E c \in boxes : c.address = b.address /\ ~c.linked

LEMMA UnbusyFits == Unbusy \in DutyRow
  BY DEF Unbusy, DutyRow, Wishes

(* What the start of a request puts on record. *)
LEMMA BeginFits ==
  ASSUME NEW o \in Operators, NEW request, Begin(o, request), MailboxInv,
         [f \in DOMAIN Unbusy |-> IF f \in DOMAIN request THEN request[f] ELSE Unbusy[f]] \in DutyRow,
         "op" \in DOMAIN request, "at" \in DOMAIN request,
         request.op = "mailbox" => "saw" \in DOMAIN request /\ request.saw # 0,
         request.op = "flags" => request.at # "write",
         request.op = "state" => /\ {"in", "out"} \subseteq DOMAIN request
                                 /\ {request.in, request.out} \subseteq DomainStates \cup {"keep"}
  PROVE  MailboxInv'
<1> DEFINE d == [f \in DOMAIN Unbusy |-> IF f \in DOMAIN request THEN request[f] ELSE Unbusy[f]]
<1>1. /\ d.op = request.op /\ d.at = request.at /\ ("saw" \in DOMAIN request => d.saw = request.saw)
      /\ {"in", "out"} \subseteq DOMAIN request => d.in = request.in /\ d.out = request.out
  BY DEF Unbusy
<1>2. duty' = [duty EXCEPT ![o] = d] /\ UNCHANGED <<domain, boxes, serials>>
  BY DEF Begin
<1> HIDE DEF d
<1>3. MailboxTypes'
  BY <1>2 DEF MailboxInv, MailboxTypes, d
<1>4. \A b \in boxes' : BoxServed(b)'
  BY <1>2 DEF MailboxInv, BoxServed
<1>5. ASSUME NEW p \in Operators PROVE DutyFits(p)'
  <2>1. CASE p = o
    BY <1>1, <1>2, <2>1 DEF MailboxInv, MailboxTypes, DutyFits, Busy
  <2>2. CASE p # o
    BY <1>2, <2>2 DEF MailboxInv, MailboxTypes, DutyFits, Busy
  <2> QED
    BY <2>1, <2>2
<1> QED
  BY <1>3, <1>4, <1>5 DEF MailboxInv

LEMMA BeginKeeps ==
  ASSUME MailboxInv, NEW o \in Operators
  PROVE  /\ BeginDomain(o) => MailboxInv'
         /\ BeginVerify(o) => MailboxInv'
         /\ BeginDelete(o) => MailboxInv'
         /\ \A p \in Holders : BeginMailbox(o, p) => MailboxInv'
         /\ \A S \in SUBSET Holders : BeginBulk(o, S) => MailboxInv'
<1>0. domain.serial \in Nat /\ domain.in \in DomainStates /\ domain.out \in DomainStates
  BY DEF MailboxInv, MailboxTypes
<1>1. ASSUME BeginDomain(o) PROVE MailboxInv'
  <2> DEFINE request == [op |-> "domain", at |-> "write"]
  <2>1. [f \in DOMAIN Unbusy |-> IF f \in DOMAIN request THEN request[f] ELSE Unbusy[f]] \in DutyRow
    BY DEF Unbusy, DutyRow, Wishes
  <2> QED
    BY <1>1, <2>1, BeginFits DEF BeginDomain
<1>2. ASSUME BeginVerify(o) PROVE MailboxInv'
  <2> DEFINE request == [op |-> "verify", at |-> "write", saw |-> domain.serial]
  <2>1. [f \in DOMAIN Unbusy |-> IF f \in DOMAIN request THEN request[f] ELSE Unbusy[f]] \in DutyRow
    BY <1>0 DEF Unbusy, DutyRow, Wishes
  <2> QED
    BY <1>2, <2>1, BeginFits DEF BeginVerify
<1>3. ASSUME BeginDelete(o) PROVE MailboxInv'
  <2> DEFINE request == [op |-> "delete", at |-> "write", saw |-> domain.serial]
  <2>1. [f \in DOMAIN Unbusy |-> IF f \in DOMAIN request THEN request[f] ELSE Unbusy[f]] \in DutyRow
    BY <1>0 DEF Unbusy, DutyRow, Wishes
  <2> QED
    BY <1>3, <2>1, BeginFits DEF BeginDelete
<1>4. ASSUME NEW p \in Holders, BeginMailbox(o, p) PROVE MailboxInv'
  <2> DEFINE request == [op |-> "mailbox", at |-> "check", saw |-> domain.serial, who |-> {p}]
  <2>1. [f \in DOMAIN Unbusy |-> IF f \in DOMAIN request THEN request[f] ELSE Unbusy[f]] \in DutyRow
    BY <1>0 DEF Unbusy, DutyRow, Wishes
  <2> QED
    BY <1>4, <2>1, BeginFits DEF BeginMailbox
<1>5. ASSUME NEW S \in SUBSET Holders, BeginBulk(o, S) PROVE MailboxInv'
  <2> DEFINE request == [op |-> "mailbox", at |-> "write", saw |-> domain.serial, who |-> S]
  <2>1. [f \in DOMAIN Unbusy |-> IF f \in DOMAIN request THEN request[f] ELSE Unbusy[f]] \in DutyRow
    BY <1>0 DEF Unbusy, DutyRow, Wishes
  <2> QED
    BY <1>5, <2>1, BeginFits DEF BeginBulk
<1> QED
  BY <1>1, <1>2, <1>3, <1>4, <1>5

LEMMA BeginStateKeeps ==
  ASSUME MailboxInv, NEW o \in Operators, NEW in \in DomainStates \cup {"keep"},
         NEW out \in DomainStates \cup {"keep"}, BeginState(o, in, out)
  PROVE  MailboxInv'
<1> DEFINE meant == <<IF in = "keep" THEN domain.in ELSE in, IF out = "keep" THEN domain.out ELSE out>>
           request == [op |-> "state", at |-> "write", saw |-> domain.serial, in |-> in, out |-> out,
                       meant |-> meant]
<1>0. domain.serial \in Nat /\ domain.in \in DomainStates /\ domain.out \in DomainStates
  BY DEF MailboxInv, MailboxTypes
<1>1. meant \in DomainStates \X DomainStates
  BY <1>0
<1>2. Begin(o, request)
  BY DEF BeginState
<1> HIDE DEF meant
<1>3. [f \in DOMAIN Unbusy |-> IF f \in DOMAIN request THEN request[f] ELSE Unbusy[f]] \in DutyRow
  BY <1>0, <1>1 DEF Unbusy, DutyRow, Wishes
<1> QED
  BY <1>2, <1>3, BeginFits

LEMMA BeginFlagsKeeps ==
  ASSUME MailboxInv, NEW o \in Operators, NEW b \in boxes, NEW r \in {"on", "off", "keep"},
         NEW s \in {"on", "off", "keep"}, BeginFlags(o, b, r, s)
  PROVE  MailboxInv'
<1> DEFINE ready == (r = "on" => domain.in = "ready") /\ (s = "on" => domain.out = "ready")
           request == [op |-> "flags", at |-> "repair", who |-> {b.address}, in |-> r, out |-> s,
                       ready |-> ready]
<1>0. b.address \in Holders
  BY DEF MailboxInv, MailboxTypes, BoxRow
<1>1. ready \in BOOLEAN
  OBVIOUS
<1>2. Begin(o, request)
  BY DEF BeginFlags
<1> HIDE DEF ready
<1>3. [f \in DOMAIN Unbusy |-> IF f \in DOMAIN request THEN request[f] ELSE Unbusy[f]] \in DutyRow
  BY <1>0, <1>1 DEF Unbusy, DutyRow, Wishes
<1> QED
  BY <1>2, <1>3, BeginFits

(* The later steps of a request: what they write, and how far it gets. *)
LEMMA WriteKeeps ==
  ASSUME MailboxInv, NEW o \in Operators,
         \/ Rest(o)
         \/ Later(o, "write") /\ ~Busy(o, "flags", "write")' /\ duty[o].op = "mailbox"
         \/ Later(o, "write") /\ \A b \in boxes' : b.address \in duty[o].who => b.linked,
         domain' \in [serial : Nat, in : DomainStates, out : DomainStates, routing : BOOLEAN, sending : BOOLEAN],
         boxes' \subseteq BoxRow, serials' \in Nat,
         \A b \in boxes' : BoxServed(b)', LinksStay
  PROVE  MailboxInv'
<1>0. PICK d \in DutyRow :
        /\ duty' = [duty EXCEPT ![o] = d]
        /\ d.op = "mailbox" => d.saw # 0
        /\ d.op = "state" => {d.in, d.out} \subseteq DomainStates \cup {"keep"}
        /\ d.op = "flags" /\ d.at = "write" => \A b \in boxes' : b.address \in d.who => b.linked
  <2>1. CASE Rest(o)
    BY <2>1, UnbusyFits DEF Rest, Unbusy
  <2>2. CASE /\ Later(o, "write")
             /\ duty[o].op = "mailbox" \/ \A b \in boxes' : b.address \in duty[o].who => b.linked
    <3> DEFINE d == [duty[o] EXCEPT !.at = "write"]
    <3>1. duty[o] \in DutyRow /\ "write" \in {"idle", "check", "repair", "write"}
      BY DEF MailboxInv, MailboxTypes
    <3>2. /\ d \in DutyRow /\ d.op = duty[o].op /\ d.saw = duty[o].saw /\ d.who = duty[o].who
          /\ d.in = duty[o].in /\ d.out = duty[o].out
      BY <3>1 DEF DutyRow
    <3>3. duty' = [duty EXCEPT ![o] = d]
      BY <2>2 DEF Later
    <3>4. /\ d.op = "mailbox" => d.saw # 0
          /\ d.op = "state" => {d.in, d.out} \subseteq DomainStates \cup {"keep"}
      BY <3>2 DEF MailboxInv, DutyFits
    <3>5. d.op = "flags" => \A b \in boxes' : b.address \in d.who => b.linked
      <4>1. CASE duty[o].op = "mailbox"
        BY <3>2, <4>1
      <4>2. CASE \A b \in boxes' : b.address \in duty[o].who => b.linked
        BY <3>2, <4>2
      <4> QED
        BY <2>2, <4>1, <4>2
    <3> QED
      BY <3>2, <3>3, <3>4, <3>5
  <2> QED
    BY <2>1, <2>2
<1>1. MailboxTypes'
  BY <1>0 DEF MailboxInv, MailboxTypes
<1>2. ASSUME NEW p \in Operators PROVE DutyFits(p)'
  <2>1. CASE p = o
    BY <1>0, <2>1 DEF MailboxInv, MailboxTypes, DutyFits, Busy
  <2>2. CASE p # o
    <3>1. duty'[p] = duty[p]
      BY <1>0, <2>2
    <3>2. ASSUME Busy(p, "flags", "write"), NEW b \in boxes', b.address \in duty[p].who PROVE b.linked
      BY <3>2 DEF LinksStay, MailboxInv, DutyFits
    <3> QED
      BY <3>1, <3>2 DEF MailboxInv, DutyFits, Busy
  <2> QED
    BY <2>1, <2>2
<1> QED
  BY <1>1, <1>2 DEF MailboxInv

LEMMA DomainStepKeeps ==
  ASSUME MailboxInv, NEW o \in Operators
  PROVE  /\ CreateDomain(o) => MailboxInv'
         /\ Verify(o) => MailboxInv'
         /\ DeleteDomain(o) => MailboxInv'
<1> DEFINE Domains == [serial : Nat, in : DomainStates, out : DomainStates, routing : BOOLEAN, sending : BOOLEAN]
<1>0. /\ domain \in Domains /\ serials \in Nat /\ boxes \subseteq BoxRow
      /\ NoDomain \in Domains /\ {"pending"} \subseteq DomainStates
      /\ \A b \in boxes : b.domain # 0 /\ BoxServed(b)
  BY DEF MailboxInv, MailboxTypes, BoxRow, NoDomain, DomainStates
<1>1. domain.serial = 0 => boxes = {}
  BY <1>0 DEF BoxServed
<1>2. ASSUME UNCHANGED boxes PROVE LinksStay
  BY <1>2, <1>0 DEF LinksStay, BoxRow
<1>3. ASSUME CreateDomain(o) PROVE MailboxInv'
  <2>1. domain' \in Domains /\ serials' \in Nat
    BY <1>0, <1>3 DEF CreateDomain
  <2>2. \A b \in boxes' : BoxServed(b)'
    BY <1>0, <1>1, <1>3 DEF CreateDomain, BoxServed
  <2> QED
    BY <1>0, <1>2, <1>3, <2>1, <2>2, WriteKeeps DEF CreateDomain
<1>4. ASSUME Verify(o) PROVE MailboxInv'
  <2>1. PICK r, s \in BOOLEAN :
           domain' = IF domain.serial # duty[o].saw THEN domain
                     ELSE [domain EXCEPT !.routing = r, !.sending = s,
                                         !.in = IF @ = "ready" /\ ~r THEN "pending" ELSE @,
                                         !.out = IF @ = "ready" /\ ~s THEN "pending" ELSE @]
    BY <1>4 DEF Verify
  <2>2. domain' \in Domains /\ domain'.serial = domain.serial
    BY <1>0, <2>1
  <2>3. \A b \in boxes' : BoxServed(b)'
    BY <1>0, <1>4, <2>2 DEF Verify, BoxServed
  <2> QED
    BY <1>0, <1>2, <1>4, <2>2, <2>3, WriteKeeps DEF Verify
<1>5. ASSUME DeleteDomain(o) PROVE MailboxInv'
  <2>1. domain' \in Domains
    BY <1>0, <1>5 DEF DeleteDomain
  <2>2. \A b \in boxes' : BoxServed(b)'
    BY <1>0, <1>5 DEF DeleteDomain, Unreferenced, BoxServed
  <2> QED
    BY <1>0, <1>2, <1>5, <2>1, <2>2, WriteKeeps DEF DeleteDomain
<1> QED
  BY <1>3, <1>4, <1>5

LEMMA SetStateKeeps ==
  ASSUME MailboxInv, NEW o \in Operators, SetState(o)
  PROVE  MailboxInv'
<1> DEFINE Domains == [serial : Nat, in : DomainStates, out : DomainStates, routing : BOOLEAN, sending : BOOLEAN]
<1>0. domain \in Domains /\ boxes \subseteq BoxRow /\ duty[o] \in DutyRow /\ \A b \in boxes : BoxServed(b)
  BY DEF MailboxInv, MailboxTypes
<1>1. CASE domain.serial # duty[o].saw
  <2>1. UNCHANGED <<domain, boxes, serials>> /\ Rest(o)
    BY <1>1 DEF SetState
  <2>2. LinksStay /\ \A b \in boxes' : BoxServed(b)'
    BY <1>0, <2>1 DEF LinksStay, BoxServed, BoxRow
  <2> QED
    BY <1>0, <2>1, <2>2, WriteKeeps DEF MailboxInv, MailboxTypes
<1>2. CASE domain.serial = duty[o].saw
  <2> DEFINE lost == \E i \in 1 .. 2 : duty[o].meant[i] = "suspended"
             F(b) == [b EXCEPT !.receives = @ /\ ~lost /\ duty[o].meant[1] = "ready",
                               !.sends = @ /\ ~lost /\ duty[o].meant[2] = "ready"]
  <2>1. /\ domain' = [domain EXCEPT !.in = IF duty[o].in = "keep" THEN @ ELSE duty[o].in,
                                    !.out = IF duty[o].out = "keep" THEN @ ELSE duty[o].out]
        /\ boxes' = {F(b) : b \in boxes}
        /\ UNCHANGED serials /\ Rest(o)
        /\ duty[o].op = "state"
    BY <1>2 DEF SetState, Busy
  <2>2. {duty[o].in, duty[o].out} \subseteq DomainStates \cup {"keep"}
    BY <2>1 DEF MailboxInv, DutyFits
  <2>3. domain' \in Domains /\ domain'.serial = domain.serial
    BY <1>0, <2>1, <2>2
  <2>4. ASSUME NEW b \in boxes
        PROVE  /\ F(b) \in BoxRow /\ F(b).address = b.address /\ F(b).linked = b.linked
               /\ F(b).domain = b.domain /\ (F(b).receives => b.receives) /\ (F(b).sends => b.sends)
    BY <1>0 DEF BoxRow
  <2> HIDE DEF F
  <2>5. boxes' \subseteq BoxRow /\ LinksStay /\ \A b \in boxes' : BoxServed(b)'
    BY <1>0, <2>1, <2>3, <2>4 DEF LinksStay, BoxServed, BoxRow
  <2> QED
    BY <2>1, <2>3, <2>5, WriteKeeps DEF MailboxInv, MailboxTypes
<1> QED
  BY <1>1, <1>2

LEMMA CreateMailboxesKeeps ==
  ASSUME MailboxInv, NEW o \in Operators, CreateMailboxes(o)
  PROVE  MailboxInv'
<1>0. /\ boxes \subseteq BoxRow /\ duty[o] \in DutyRow /\ \A b \in boxes : BoxServed(b)
      /\ duty[o].saw \in Nat \ {0}
  BY DEF MailboxInv, MailboxTypes, DutyFits, DutyRow, CreateMailboxes, Busy
<1>1. ASSUME NEW p \in duty[o].who
      PROVE  /\ NewBox(p, duty[o].saw, TRUE) \in BoxRow
             /\ NewBox(p, duty[o].saw, TRUE).linked
             /\ NewBox(p, duty[o].saw, TRUE).domain = duty[o].saw
  BY <1>0 DEF NewBox, BoxRow, DutyRow
<1>2. UNCHANGED <<domain, serials>> /\ Rest(o)
  BY DEF CreateMailboxes
<1>3. \A b \in boxes' : \/ b \in boxes
                        \/ /\ domain.serial = duty[o].saw
                           /\ \E p \in duty[o].who : b = NewBox(p, duty[o].saw, TRUE)
  BY DEF CreateMailboxes, Insertable
<1>4. boxes' \subseteq BoxRow /\ LinksStay /\ \A b \in boxes' : BoxServed(b)'
  BY <1>0, <1>1, <1>2, <1>3 DEF LinksStay, BoxServed, BoxRow
<1> QED
  BY <1>2, <1>4, WriteKeeps DEF MailboxInv, MailboxTypes

LEMMA RepairKeeps ==
  ASSUME MailboxInv, NEW o \in Operators, RepairTransport(o)
  PROVE  MailboxInv'
<1> DEFINE F(b) == IF b.address \in duty[o].who THEN Repaired(b) ELSE b
<1>0. boxes \subseteq BoxRow /\ duty[o] \in DutyRow /\ \A b \in boxes : BoxServed(b)
  BY DEF MailboxInv, MailboxTypes
<1>1. /\ UNCHANGED <<domain, serials>> /\ (Later(o, "write") \/ Rest(o))
      /\ boxes' = {F(b) : b \in boxes} /\ Busy(o, "flags", "repair")
  BY DEF RepairTransport
<1>2. ASSUME NEW b \in boxes
      PROVE  /\ F(b) \in BoxRow /\ F(b).address = b.address /\ F(b).domain = b.domain
             /\ F(b).receives = b.receives /\ F(b).sends = b.sends
             /\ b.linked => F(b).linked
             /\ b.address \in duty[o].who => F(b).linked
  BY <1>0 DEF BoxRow, Repaired, BoxServed
<1> HIDE DEF F
<1>3. boxes' \subseteq BoxRow /\ LinksStay /\ \A b \in boxes' : BoxServed(b)'
  BY <1>0, <1>1, <1>2 DEF LinksStay, BoxServed, BoxRow
<1>4. \A b \in boxes' : b.address \in duty[o].who => b.linked
  BY <1>1, <1>2
<1> QED
  BY <1>1, <1>3, <1>4, WriteKeeps DEF MailboxInv, MailboxTypes

LEMMA SetFlagsKeeps ==
  ASSUME MailboxInv, NEW o \in Operators, SetFlags(o)
  PROVE  MailboxInv'
<1> DEFINE F(b) == IF b.address \notin duty[o].who THEN b
                   ELSE [b EXCEPT !.receives = IF duty[o].in = "keep" THEN @ ELSE duty[o].in = "on",
                                  !.sends = IF duty[o].out = "keep" THEN @ ELSE duty[o].out = "on"]
<1>0. /\ boxes \subseteq BoxRow /\ duty[o] \in DutyRow /\ \A b \in boxes : BoxServed(b)
      /\ \A b \in boxes : b.address \in duty[o].who => b.linked
  BY DEF MailboxInv, MailboxTypes, DutyFits, SetFlags
<1>1. UNCHANGED <<domain, serials>> /\ Rest(o) /\ boxes' = {F(b) : b \in boxes}
  BY DEF SetFlags
<1>2. ASSUME NEW b \in boxes
      PROVE  /\ F(b) \in BoxRow /\ F(b).address = b.address /\ F(b).domain = b.domain
             /\ F(b).linked = b.linked
             /\ b.address \notin duty[o].who => F(b) = b
  BY <1>0 DEF BoxRow
<1> HIDE DEF F
<1>3. boxes' \subseteq BoxRow /\ LinksStay /\ \A b \in boxes' : BoxServed(b)'
  BY <1>0, <1>1, <1>2 DEF LinksStay, BoxServed, BoxRow
<1> QED
  BY <1>1, <1>3, WriteKeeps DEF MailboxInv, MailboxTypes

LEMMA RequestStepKeeps ==
  ASSUME MailboxInv, NEW o \in Operators, AddressUnused(o) \/ DutyDies(o)
  PROVE  MailboxInv'
<1>0. UNCHANGED <<domain, boxes, serials>>
  BY DEF AddressUnused, DutyDies
<1>1. \A b \in boxes' : BoxServed(b)'
  BY <1>0 DEF MailboxInv, BoxServed
<1>2. LinksStay
  BY <1>0 DEF MailboxInv, MailboxTypes, BoxRow, LinksStay
<1>3. Rest(o) \/ (Later(o, "write") /\ ~Busy(o, "flags", "write")' /\ duty[o].op = "mailbox")
  BY DEF AddressUnused, DutyDies, Busy, Later, MailboxInv, MailboxTypes, DutyRow
<1> QED
  BY <1>0, <1>1, <1>2, <1>3, WriteKeeps DEF MailboxInv, MailboxTypes

LEMMA MailboxStepKeeps ==
  ASSUME MailboxInv, [MailboxesNext]_mailboxVars
  PROVE  MailboxInv'
<1>1. CASE UNCHANGED mailboxVars
  BY <1>1 DEF mailboxVars, MailboxInv, MailboxTypes, BoxServed, DutyFits, Busy
<1>2. CASE EvidenceAges
  <2>1. domain' = [domain EXCEPT !.routing = FALSE, !.sending = FALSE] /\ UNCHANGED <<boxes, duty, serials>>
    BY <1>2 DEF EvidenceAges
  <2>2. domain'.serial = domain.serial /\ MailboxTypes'
    BY <2>1 DEF MailboxInv, MailboxTypes
  <2> QED
    BY <2>1, <2>2 DEF MailboxInv, BoxServed, DutyFits, Busy
<1>3. ASSUME NEW o \in Operators,
             \/ BeginDomain(o) \/ CreateDomain(o) \/ BeginVerify(o) \/ Verify(o) \/ SetState(o)
             \/ BeginDelete(o) \/ DeleteDomain(o) \/ AddressUnused(o) \/ CreateMailboxes(o)
             \/ RepairTransport(o) \/ SetFlags(o) \/ DutyDies(o)
      PROVE  MailboxInv'
  BY <1>3, BeginKeeps, DomainStepKeeps, SetStateKeeps, CreateMailboxesKeeps, RepairKeeps,
     SetFlagsKeeps, RequestStepKeeps
<1>4. ASSUME NEW o \in Operators, NEW p \in Holders, BeginMailbox(o, p) PROVE MailboxInv'
  BY <1>4, BeginKeeps
<1>5. ASSUME NEW o \in Operators, NEW S \in SUBSET Holders, BeginBulk(o, S) PROVE MailboxInv'
  BY <1>5, BeginKeeps
<1> QED
  BY <1>1, <1>2, <1>3, <1>4, <1>5, BeginStateKeeps, BeginFlagsKeeps DEF MailboxesNext

THEOREM MailboxInvariant == MailboxesSpec => []MailboxInv
<1>1. MailboxesInit => MailboxInv
  <2> SUFFICES ASSUME MailboxesInit PROVE MailboxInv
    OBVIOUS
  <2>0. NoDomain \in [serial : Nat, in : DomainStates, out : DomainStates, routing : BOOLEAN, sending : BOOLEAN]
    BY DEF NoDomain, DomainStates
  <2>1. \A p \in Holders : /\ NewBox(p, 1, FALSE) \in BoxRow
                           /\ NewBox(p, 1, FALSE).domain = 1
                           /\ ~NewBox(p, 1, FALSE).receives /\ ~NewBox(p, 1, FALSE).sends
    BY DEF NewBox, BoxRow
  <2>2. CASE domain = NoDomain /\ boxes = {} /\ serials = 0
    BY <2>0, <2>2, UnbusyFits DEF MailboxesInit, MailboxInv, MailboxTypes, DutyFits, Busy, Unbusy
  <2>3. CASE /\ domain = [NoDomain EXCEPT !.serial = 1] /\ serials = 1
             /\ boxes \in {{}} \cup {{NewBox(p, 1, FALSE)} : p \in Holders}
    <3>1. boxes = {} \/ \E p \in Holders : boxes = {NewBox(p, 1, FALSE)}
      BY <2>3
    <3>2. MailboxTypes /\ domain.serial = 1
      BY <2>0, <2>1, <2>3, <3>1, UnbusyFits DEF MailboxesInit, MailboxTypes
    <3>3. \A b \in boxes : BoxServed(b)
      BY <2>1, <3>1, <3>2 DEF BoxServed
    <3> QED
      BY <3>2, <3>3 DEF MailboxesInit, MailboxInv, DutyFits, Busy, Unbusy
  <2> QED
    BY <2>2, <2>3 DEF MailboxesInit
<1> QED
  BY <1>1, MailboxStepKeeps, PTL DEF MailboxesSpec

(* No mailbox is without its domain, whatever is deleted while it is made, and
   one that is on has the transport its mail needs. *)
THEOREM MailboxesAreServed == MailboxesSpec => []MailboxIsServed
<1>1. MailboxInv => MailboxIsServed
  <2> SUFFICES ASSUME MailboxInv, NEW b \in boxes
               PROVE  /\ b.domain = domain.serial
                      /\ Resolution(b) # "not provisioned"
                      /\ b.receives /\ b.sends /\ domain.out = "ready" /\ domain.in # "suspended" => MaySend(b)
    BY DEF MailboxIsServed
  <2>1. /\ b.domain = domain.serial /\ (b.receives \/ b.sends => b.linked)
        /\ {b.receives, b.sends, b.linked} \subseteq BOOLEAN
    BY DEF MailboxInv, BoxServed, MailboxTypes, BoxRow
  <2>2. Resolution(b) # "not provisioned"
    <3>1. CASE ~b.receives \/ domain.in # "ready" \/ domain.out = "suspended"
      BY <3>1 DEF Resolution
    <3>2. CASE b.receives /\ b.linked /\ domain.in = "ready" /\ domain.out # "suspended"
      <4>1. Resolution(b) = "route"
        BY <2>1, <3>2 DEF Resolution
      <4> QED
        BY <4>1
    <3> QED
      BY <2>1, <3>1, <3>2
  <2> QED
    BY <2>1, <2>2 DEF MaySend
<1> QED
  BY <1>1, MailboxInvariant, PTL

-----------------------------------------------------------------------------
(* Drafts: the inductive invariant.                                         *)

DraftRow == [rev : Nat, text : Nat, id : Nat]
TabRow == [at : TabStages, session : Nat, rev : Nat, text : Nat, id : Nat,
           dirty : BOOLEAN, unsaved : BOOLEAN, saw : DraftRow]
SaveRow == [by : Tabs, session : Nat, rev : Nat, text : Nat, id : Nat,
            at : {"update", "insert", "recover"}, lost : BOOLEAN]

DraftTypes ==
  /\ draft \in DraftRow
  /\ tab \in [Tabs -> TabRow]
  /\ saves \subseteq SaveRow
  /\ outbox \subseteq [text : Nat, id : Nat]
  /\ edits \in Nat /\ submits \in Nat

(* No revision is ahead of the row, and no text of what was typed; a
   submission has a text. *)
RowWithin(r) == r.rev <= draft.rev /\ r.text <= edits /\ (r.id # 0 => r.text # 0)
TabWithin(t) == /\ tab[t].rev <= draft.rev /\ tab[t].text <= edits
                /\ RowWithin(tab[t].saw)
Within ==
  /\ RowWithin(draft) /\ (draft.rev = 0 => draft = NoDraft)
  /\ \A t \in Tabs : TabWithin(t)
  /\ \A q \in saves : RowWithin(q) /\ q.session <= tab[q.by].session
  /\ \A m \in outbox : m.text <= edits

OpenStages == {"loading", "loaded", "editing", "unusable"}
Sending == {"submitting", "saving", "saving again", "sending"}

(* An id belongs to a submission; what was typed and not saved is marked. *)
TabFits(t) ==
  /\ tab[t].at \in OpenStages => tab[t].id = 0
  /\ tab[t].at \in Sending => tab[t].id # 0 /\ tab[t].text # 0
  /\ tab[t].unsaved => tab[t].text # 0 /\ tab[t].dirty
  /\ tab[t].at \in {"loading", "loaded"} /\ tab[t].dirty => tab[t].unsaved
  /\ tab[t].at \in {"clearing", "cleared"} => WasAccepted(tab[t].id)

(* A text that only its tab has. *)
Unshared(t) == tab[t].unsaved /\ tab[t].at \in OpenStages \cup {"submitting"}
Alone(t) ==
  LET x == tab[t].text IN
  /\ draft.text # x
  /\ \A u \in Tabs : tab[u].saw.text # x /\ (u # t => tab[u].text # x)
  /\ \A q \in saves : q.text # x
  /\ \A m \in outbox : m.text # x

(* The save that a tab waits for is one, and of what the tab is doing. *)
WaitsFor(q) == ~q.lost /\ q.session = tab[q.by].session
SaveFits(q) ==
  LET t == tab[q.by] IN
  WaitsFor(q) => \/ t.at \in {"editing", "submitting"} /\ q.id = 0 /\ (t.unsaved \/ t.text = q.text)
                 \/ t.at \in {"saving", "saving again"} /\ q.id = t.id /\ q.text = t.text
OneWait == \A q, s \in saves : WaitsFor(q) /\ WaitsFor(s) /\ q.by = s.by => q = s

(* The messages that were sent or that nothing keeps from being sent. *)
SentOrDue(x, i) ==
  \/ [text |-> x, id |-> i] \in outbox
  \/ \E t \in Tabs : tab[t].at = "sending" /\ tab[t].text = x /\ tab[t].id = i
  \/ draft.id # 0 /\ draft.text = x /\ draft.id = i

(* Nothing that could still bring text x into the row is of its revision. *)
Dead(x) ==
  /\ draft.text # x
  /\ \A q \in saves : q.text = x => q.rev < draft.rev
  /\ \A t \in Tabs :
       /\ tab[t].at \in {"editing", "submitting"} /\ tab[t].text = x => tab[t].rev < draft.rev
       /\ tab[t].at = "loaded" /\ tab[t].saw.text = x /\ tab[t].saw.id = 0 => tab[t].saw.rev < draft.rev

Settled ==
  \A x, i \in Nat : SentOrDue(x, i) =>
    /\ x # 0 /\ i # 0
    /\ ((draft.text = x /\ draft.id = i) \/ Dead(x))
    /\ \A j \in Nat : SentOrDue(x, j) => i = j

DraftInv ==
  /\ DraftTypes /\ Within
  /\ \A t \in Tabs : TabFits(t)
  /\ \A t \in Tabs : Unshared(t) => Alone(t)
  /\ \A q \in saves : SaveFits(q)
  /\ OneWait /\ Settled

(* A step of tab t that leaves the row and the saves alone. *)
LEMMA TabChangesTypes ==
  ASSUME DraftInv, NEW t \in Tabs, NEW c \in TabRow,
         tab' = [tab EXCEPT ![t] = c], UNCHANGED <<draft, saves>>,
         accepted \subseteq accepted', edits' \in Nat, edits <= edits', submits' \in Nat,
         \A m \in outbox' : \/ m \in outbox
                            \/ tab[t].at = "sending" /\ m = [text |-> tab[t].text, id |-> tab[t].id],
         c.session >= tab[t].session, c.rev <= draft.rev, c.text <= edits',
         c.saw \in {tab[t].saw, draft, NoDraft}, TabFits(t)'
  PROVE  DraftTypes' /\ Within' /\ \A u \in Tabs : TabFits(u)'
<1>0. /\ draft \in DraftRow /\ tab \in [Tabs -> TabRow] /\ saves \subseteq SaveRow
      /\ edits \in Nat /\ tab[t] \in TabRow /\ NoDraft \in DraftRow
      /\ \A u \in Tabs : tab[u].saw \in DraftRow /\ tab[u].text \in Nat /\ tab[u].session \in Nat
      /\ outbox \subseteq [text : Nat, id : Nat]
  BY DEF DraftInv, DraftTypes, TabRow, NoDraft, DraftRow
<1>1. tab'[t] = c /\ \A u \in Tabs \ {t} : tab'[u] = tab[u]
  BY <1>0
<1>2. outbox' \subseteq [text : Nat, id : Nat] /\ \A m \in outbox' : m.text <= edits
  BY <1>0 DEF DraftInv, Within, TabWithin, TabRow
<1>3. DraftTypes'
  BY <1>0, <1>2 DEF DraftInv, DraftTypes
<1>4. ASSUME NEW r \in DraftRow, RowWithin(r) PROVE RowWithin(r)'
  BY <1>0, <1>4 DEF RowWithin, DraftRow
<1>5. RowWithin(draft)' /\ (draft'.rev = 0 => draft' = NoDraft)
  BY <1>0, <1>4 DEF DraftInv, Within, RowWithin, DraftRow
<1>6. ASSUME NEW u \in Tabs PROVE TabWithin(u)'
  <2>1. RowWithin(NoDraft)
    BY <1>0 DEF RowWithin, NoDraft, DraftRow
  <2>2. tab'[u].saw \in DraftRow /\ RowWithin(tab'[u].saw)
    BY <1>0, <1>1, <2>1 DEF DraftInv, Within, TabWithin
  <2>3. tab'[u].saw.rev <= draft'.rev /\ tab'[u].saw.text <= edits' /\ (tab'[u].saw.id # 0 => tab'[u].saw.text # 0)
    BY <1>0, <2>2 DEF RowWithin, DraftRow
  <2>4. tab'[u].rev <= draft'.rev /\ tab'[u].text <= edits'
    BY <1>0, <1>1 DEF DraftInv, Within, TabWithin
  <2> QED
    BY <2>3, <2>4 DEF TabWithin, RowWithin
<1>7. ASSUME NEW q \in saves' PROVE RowWithin(q)' /\ q.session <= tab'[q.by].session
  <2>1. q \in SaveRow /\ RowWithin(q) /\ q.session <= tab[q.by].session /\ q \in saves
    BY <1>0 DEF DraftInv, Within
  <2>2. RowWithin(q)'
    BY <1>0, <2>1 DEF RowWithin, DraftRow, SaveRow
  <2>3. q.session <= tab'[q.by].session
    BY <1>0, <1>1, <2>1 DEF SaveRow, TabRow
  <2> QED
    BY <2>2, <2>3
<1>8. \A m \in outbox' : m.text <= edits'
  BY <1>0, <1>2
<1>9. Within'
  BY <1>5, <1>6, <1>7, <1>8 DEF Within
<1>10. ASSUME NEW u \in Tabs PROVE TabFits(u)'
  BY <1>1 DEF DraftInv, TabFits, WasAccepted
<1> QED
  BY <1>3, <1>9, <1>10

LEMMA TabChangesTexts ==
  ASSUME DraftInv, NEW t \in Tabs, NEW c \in TabRow,
         tab' = [tab EXCEPT ![t] = c], UNCHANGED <<draft, saves>>,
         \A m \in outbox' : \/ m \in outbox
                            \/ tab[t].at = "sending" /\ m = [text |-> tab[t].text, id |-> tab[t].id],
         c.saw \in {tab[t].saw, draft, NoDraft},
         c.text \in {tab[t].text, tab[t].saw.text, 0} \/ c.text > edits,
         Unshared(t)' => (Unshared(t) /\ c.text = tab[t].text) \/ c.text > edits
  PROVE  \A u \in Tabs : Unshared(u)' => Alone(u)'
<1>0. /\ draft \in DraftRow /\ tab \in [Tabs -> TabRow] /\ saves \subseteq SaveRow
      /\ edits \in Nat /\ outbox \subseteq [text : Nat, id : Nat]
      /\ draft.text \in 0 .. edits /\ NoDraft.text = 0
      /\ \A u \in Tabs : tab[u].saw.text \in 0 .. edits /\ tab[u].text \in 0 .. edits
      /\ \A q \in saves : q.text \in 0 .. edits
      /\ \A m \in outbox : m.text \in 0 .. edits
  BY DEF DraftInv, DraftTypes, TabRow, SaveRow, NoDraft, DraftRow, Within, TabWithin, RowWithin
<1>1. tab'[t] = c /\ \A u \in Tabs \ {t} : tab'[u] = tab[u]
  BY <1>0
<1>2. /\ \A m \in outbox' : m.text \in 0 .. edits
      /\ \A m \in outbox' : m \in outbox \/ (tab[t].at = "sending" /\ m.text = tab[t].text)
      /\ c.saw.text \in {tab[t].saw.text, draft.text, 0}
  BY <1>0
<1>3. ASSUME NEW u \in Tabs \ {t}, Unshared(u)' PROVE Alone(u)'
  <2>1. Unshared(u) /\ Alone(u) /\ tab[u].text # 0
    BY <1>1, <1>3 DEF Unshared, DraftInv, TabFits
  <2>2. tab'[u].text = tab[u].text /\ tab[t].text # tab[u].text /\ c.text # tab[u].text
    BY <1>0, <1>1, <2>1 DEF Alone
  <2>3. c.saw.text # tab[u].text
    BY <1>2, <2>1 DEF Alone
  <2> QED
    BY <1>1, <1>2, <2>1, <2>2, <2>3 DEF Alone
<1>4. ASSUME Unshared(t)' PROVE Alone(t)'
  <2>1. CASE Unshared(t) /\ c.text = tab[t].text
    <3>1. Alone(t) /\ tab[t].text # 0 /\ tab[t].at # "sending"
      BY <2>1 DEF Unshared, OpenStages, DraftInv, TabFits
    <3> QED
      BY <1>1, <1>2, <2>1, <3>1 DEF Alone
  <2>2. CASE c.text > edits
    BY <1>0, <1>1, <1>2, <2>2 DEF Alone
  <2> QED
    BY <1>4, <2>1, <2>2
<1> QED
  BY <1>3, <1>4

LEMMA TabChangesWaits ==
  ASSUME DraftInv, NEW t \in Tabs, NEW c \in TabRow,
         tab' = [tab EXCEPT ![t] = c], UNCHANGED <<draft, saves>>,
         \A q \in saves : q.by = t /\ WaitsFor(q)' => WaitsFor(q) /\ SaveFits(q)'
  PROVE  (\A q \in saves' : SaveFits(q)') /\ OneWait'
<1>0. tab \in [Tabs -> TabRow] /\ saves \subseteq SaveRow /\ \A q \in saves : q.by \in Tabs
  BY DEF DraftInv, DraftTypes, SaveRow
<1>1. \A u \in Tabs \ {t} : tab'[u] = tab[u]
  BY <1>0
<1>2. \A q \in saves : WaitsFor(q)' => WaitsFor(q)
  BY <1>0, <1>1 DEF WaitsFor
<1>3. ASSUME NEW q \in saves PROVE SaveFits(q)'
  <2>1. CASE q.by = t /\ WaitsFor(q)'
    BY <2>1
  <2>2. CASE q.by = t /\ ~WaitsFor(q)'
    BY <2>2 DEF SaveFits
  <2>3. CASE q.by # t
    BY <1>0, <1>1, <2>3 DEF SaveFits, WaitsFor, DraftInv
  <2> QED
    BY <2>1, <2>2, <2>3
<1> QED
  BY <1>2, <1>3 DEF OneWait, DraftInv

LEMMA TabChangesSettled ==
  ASSUME DraftInv, NEW t \in Tabs, NEW c \in TabRow,
         tab' = [tab EXCEPT ![t] = c], UNCHANGED <<draft, saves>>,
         \A m \in outbox' : \/ m \in outbox
                            \/ tab[t].at = "sending" /\ m = [text |-> tab[t].text, id |-> tab[t].id],
         c.at # "sending",
         \A i \in Nat : SentOrDue(c.text, i) /\ Dead(c.text) /\ c.at \in {"editing", "submitting"} => c.rev < draft.rev,
         c.at = "loaded" => c.saw = draft \/ (tab[t].at = "loaded" /\ c.saw = tab[t].saw)
  PROVE  Settled'
<1>0. tab \in [Tabs -> TabRow] /\ draft' = draft /\ saves' = saves
  BY DEF DraftInv, DraftTypes
<1>1. tab'[t] = c /\ \A u \in Tabs \ {t} : tab'[u] = tab[u]
  BY <1>0
<1>2. ASSUME NEW x \in Nat, NEW i \in Nat, SentOrDue(x, i)' PROVE SentOrDue(x, i)
  <2>1. CASE [text |-> x, id |-> i] \in outbox'
    <3>1. CASE [text |-> x, id |-> i] \in outbox
      BY <3>1 DEF SentOrDue
    <3>2. CASE tab[t].at = "sending" /\ [text |-> x, id |-> i] = [text |-> tab[t].text, id |-> tab[t].id]
      BY <3>2 DEF SentOrDue
    <3> QED
      BY <2>1, <3>1, <3>2
  <2>2. CASE \E u \in Tabs : tab'[u].at = "sending" /\ tab'[u].text = x /\ tab'[u].id = i
    BY <1>1, <2>2 DEF SentOrDue
  <2>3. CASE draft'.id # 0 /\ draft'.text = x /\ draft'.id = i
    BY <1>0, <2>3 DEF SentOrDue
  <2> QED
    BY <1>2, <2>1, <2>2, <2>3 DEF SentOrDue
<1>3. ASSUME NEW x \in Nat, NEW i \in Nat, SentOrDue(x, i), Dead(x) PROVE Dead(x)'
  <2>1. ASSUME NEW u \in Tabs
        PROVE /\ tab'[u].at \in {"editing", "submitting"} /\ tab'[u].text = x => tab'[u].rev < draft.rev
              /\ tab'[u].at = "loaded" /\ tab'[u].saw.text = x /\ tab'[u].saw.id = 0 => tab'[u].saw.rev < draft.rev
    BY <1>1, <1>3 DEF Dead
  <2> QED
    BY <1>0, <1>3, <2>1 DEF Dead
<1> QED
  BY <1>0, <1>2, <1>3 DEF Settled, DraftInv

LEMMA TabChanges ==
  ASSUME DraftInv, NEW t \in Tabs, NEW c \in TabRow,
         tab' = [tab EXCEPT ![t] = c], UNCHANGED <<draft, saves>>,
         accepted \subseteq accepted', edits' \in Nat, edits <= edits', submits' \in Nat,
         \A m \in outbox' : \/ m \in outbox
                            \/ tab[t].at = "sending" /\ m = [text |-> tab[t].text, id |-> tab[t].id],
         c.session >= tab[t].session, c.rev <= draft.rev, c.text <= edits',
         c.saw \in {tab[t].saw, draft, NoDraft}, TabFits(t)',
         c.text \in {tab[t].text, tab[t].saw.text, 0} \/ c.text > edits,
         Unshared(t)' => (Unshared(t) /\ c.text = tab[t].text) \/ c.text > edits,
         \A q \in saves : q.by = t /\ WaitsFor(q)' => WaitsFor(q) /\ SaveFits(q)',
         c.at # "sending",
         \A i \in Nat : SentOrDue(c.text, i) /\ Dead(c.text) /\ c.at \in {"editing", "submitting"} => c.rev < draft.rev,
         c.at = "loaded" => c.saw = draft \/ (tab[t].at = "loaded" /\ c.saw = tab[t].saw)
  PROVE  DraftInv'
  BY TabChangesTypes, TabChangesTexts, TabChangesWaits, TabChangesSettled DEF DraftInv

LEMMA TabRowFits ==
  ASSUME DraftInv, NEW t \in Tabs
  PROVE  /\ tab \in [Tabs -> TabRow] /\ tab[t] \in TabRow /\ draft \in DraftRow /\ tab[t].saw \in DraftRow
         /\ tab[t].rev \in 0 .. draft.rev /\ tab[t].text \in 0 .. edits /\ TabFits(t)
         /\ tab[t].saw.rev \in 0 .. draft.rev /\ tab[t].saw.text \in 0 .. edits
         /\ draft.rev \in Nat /\ draft.text \in 0 .. edits /\ edits \in Nat /\ submits \in Nat
         /\ tab[t].session \in Nat /\ tab[t].id \in Nat /\ NoDraft \in DraftRow
         /\ tab[t].dirty \in BOOLEAN /\ tab[t].unsaved \in BOOLEAN
         /\ tab[t].rev <= draft.rev /\ tab[t].text <= edits /\ edits <= edits
         /\ draft.rev <= draft.rev /\ tab[t].session >= tab[t].session
  BY DEF DraftInv, DraftTypes, TabRow, DraftRow, Within, TabWithin, RowWithin, NoDraft

(* A tab that only comes to another stage. *)
LEMMA StageMoves ==
  ASSUME DraftInv, NEW t \in Tabs, NEW stage \in TabStages, MoveTo(t, stage),
         UNCHANGED <<draft, saves, edits, submits>>,
         accepted \subseteq accepted',
         \A m \in outbox' : \/ m \in outbox
                            \/ tab[t].at = "sending" /\ m = [text |-> tab[t].text, id |-> tab[t].id],
         stage \notin OpenStages \cup Sending, tab[t].at \notin {"loading", "loaded"},
         tab[t].at \notin {"editing", "submitting", "saving", "saving again"},
         stage \in {"clearing", "cleared"} => \E m \in accepted' : m.id = tab[t].id
  PROVE  DraftInv'
<1> DEFINE c == [tab[t] EXCEPT !.at = stage]
<1>1. /\ tab \in [Tabs -> TabRow] /\ tab[t] \in TabRow /\ TabFits(t)
      /\ tab[t].rev <= draft.rev /\ tab[t].text <= edits /\ edits <= edits
      /\ edits \in Nat /\ submits \in Nat /\ tab[t].session >= tab[t].session
  BY TabRowFits
<1>2. /\ c \in TabRow /\ c.at = stage /\ c.session = tab[t].session /\ c.rev = tab[t].rev
      /\ c.text = tab[t].text /\ c.id = tab[t].id /\ c.dirty = tab[t].dirty
      /\ c.unsaved = tab[t].unsaved /\ c.saw = tab[t].saw
  BY <1>1 DEF TabRow
<1>3. tab' = [tab EXCEPT ![t] = c] /\ tab'[t] = c
  BY <1>1 DEF MoveTo
<1> HIDE DEF c
<1>4. TabFits(t)'
  BY <1>1, <1>2, <1>3 DEF TabFits, OpenStages, Sending, WasAccepted
<1>5. ~Unshared(t)'
  BY <1>2, <1>3 DEF Unshared, Sending
<1>6. \A q \in saves : q.by = t /\ WaitsFor(q)' => WaitsFor(q) /\ SaveFits(q)'
  BY <1>1, <1>2, <1>3 DEF DraftInv, SaveFits, WaitsFor
<1>7. c.at \notin {"sending", "editing", "submitting", "loaded"}
  BY <1>2 DEF OpenStages, Sending
<1>8. /\ edits' \in Nat /\ edits <= edits' /\ submits' \in Nat
      /\ c.session >= tab[t].session /\ c.rev <= draft.rev /\ c.text <= edits'
  BY <1>1, <1>2
<1>9. /\ c.saw \in {tab[t].saw, draft, NoDraft} /\ c.text \in {tab[t].text, tab[t].saw.text, 0}
      /\ UNCHANGED <<draft, saves>>
  BY <1>2
<1>10. /\ c.at # "sending"
       /\ \A i \in Nat : SentOrDue(c.text, i) /\ Dead(c.text) /\ c.at \in {"editing", "submitting"} => c.rev < draft.rev
       /\ c.at = "loaded" => c.saw = draft \/ (tab[t].at = "loaded" /\ c.saw = tab[t].saw)
       /\ Unshared(t)' => (Unshared(t) /\ c.text = tab[t].text) \/ c.text > edits
  BY <1>5, <1>7
<1>11. c \in TabRow /\ tab' = [tab EXCEPT ![t] = c]
  BY <1>2, <1>3
<1> QED
  BY <1>4, <1>6, <1>8, <1>9, <1>10, <1>11, TabChanges

LEMMA SendStepKeeps ==
  ASSUME DraftInv, NEW t \in Tabs, SendDraft(t) \/ SendSucceeded(t) \/ SendUncertain(t)
  PROVE  DraftInv'
<1>1. CASE SendDraft(t)
  <2>1. \A m \in outbox' : \/ m \in outbox
                           \/ tab[t].at = "sending" /\ m = [text |-> tab[t].text, id |-> tab[t].id]
    BY <1>1 DEF SendDraft
  <2>2. "sent" \in TabStages /\ "sent" \notin OpenStages \cup Sending
    BY DEF TabStages, OpenStages, Sending
  <2> QED
    BY <1>1, <2>1, <2>2, StageMoves DEF SendDraft
<1>2. CASE SendSucceeded(t)
  <2>1. "clearing" \in TabStages /\ "clearing" \notin OpenStages \cup Sending
    BY DEF TabStages, OpenStages, Sending
  <2>2. \E m \in accepted' : m.id = tab[t].id
    BY <1>2 DEF SendSucceeded, WasAccepted
  <2> QED
    BY <1>2, <2>1, <2>2, StageMoves DEF SendSucceeded
<1>3. CASE SendUncertain(t)
  <2>1. "locked" \in TabStages /\ "locked" \notin OpenStages \cup Sending
    BY DEF TabStages, OpenStages, Sending
  <2> QED
    BY <1>3, <2>1, StageMoves DEF SendUncertain
<1> QED
  BY <1>1, <1>2, <1>3

(* What is committed was typed before, and is of no tab that has its text
   alone; only some stages wait. *)
LEMMA DueTexts ==
  ASSUME DraftInv, NEW x \in Nat, NEW i \in Nat, SentOrDue(x, i)
  PROVE  /\ x # 0 /\ x <= edits
         /\ \A t \in Tabs : Unshared(t) => tab[t].text # x
<1>1. x <= edits
  BY DEF SentOrDue, DraftInv, Within, TabWithin, RowWithin
<1>2. ASSUME NEW t \in Tabs, Unshared(t), tab[t].text = x PROVE FALSE
  <2>1. Alone(t) /\ tab[t].at # "sending"
    BY <1>2 DEF DraftInv, Unshared, OpenStages
  <2> QED
    BY <1>2, <2>1 DEF Alone, SentOrDue
<1> QED
  BY <1>1, <1>2 DEF DraftInv, Settled

LEMMA FewWait ==
  ASSUME DraftInv, NEW q \in saves, WaitsFor(q)
  PROVE  tab[q.by].at \in {"editing", "submitting", "saving", "saving again"}
  BY DEF DraftInv, SaveFits

LEMMA ReadDraftKeeps ==
  ASSUME DraftInv, NEW t \in Tabs, ReadDraft(t)
  PROVE  DraftInv'
<1> DEFINE c == [tab[t] EXCEPT !.at = "loaded", !.saw = draft]
<1>0. "loaded" \in TabStages /\ "loaded" \in OpenStages
  BY DEF TabStages, OpenStages
<1>1. /\ c \in TabRow /\ c.at = "loaded" /\ c.session = tab[t].session /\ c.rev = tab[t].rev
      /\ c.text = tab[t].text /\ c.id = tab[t].id /\ c.dirty = tab[t].dirty
      /\ c.unsaved = tab[t].unsaved /\ c.saw = draft
  BY <1>0, TabRowFits DEF TabRow
<1>2. tab' = [tab EXCEPT ![t] = c] /\ tab'[t] = c /\ UNCHANGED <<draft, saves>>
  BY TabRowFits DEF ReadDraft
<1>3. UNCHANGED <<outbox, accepted, edits, submits>> /\ tab[t].at = "loading"
  BY DEF ReadDraft
<1> HIDE DEF c
<1>4. TabFits(t)'
  BY <1>1, <1>2, <1>3, TabRowFits DEF TabFits, OpenStages, Sending
<1>5. Unshared(t)' => Unshared(t) /\ c.text = tab[t].text
  BY <1>1, <1>2, <1>3 DEF Unshared, OpenStages
<1>6. \A q \in saves : q.by = t /\ WaitsFor(q)' => WaitsFor(q) /\ SaveFits(q)'
  BY <1>1, <1>2, <1>3, FewWait DEF WaitsFor
<1>7. /\ edits' \in Nat /\ edits <= edits' /\ submits' \in Nat
      /\ c.session >= tab[t].session /\ c.rev <= draft.rev /\ c.text <= edits'
  BY <1>1, <1>3, TabRowFits
<1> QED
  BY <1>1, <1>2, <1>3, <1>4, <1>5, <1>6, <1>7, TabChanges

LEMMA HydrateKeeps ==
  ASSUME DraftInv, NEW t \in Tabs, Hydrate(t)
  PROVE  DraftInv'
<1> DEFINE saw == tab[t].saw
           stage == IF saw.id = 0 THEN "editing" ELSE IF tab[t].dirty THEN "unusable" ELSE "locked"
           c == [tab[t] EXCEPT !.rev = saw.rev, !.saw = NoDraft,
                               !.text = IF tab[t].dirty THEN @ ELSE saw.text,
                               !.id = IF tab[t].dirty THEN @ ELSE saw.id,
                               !.at = stage]
<1>0. stage \in TabStages /\ stage \notin {"submitting", "sending", "loaded", "loading"}
  BY DEF TabStages
<1>1. /\ c \in TabRow /\ c.at = stage /\ c.session = tab[t].session /\ c.rev = saw.rev
      /\ c.text = (IF tab[t].dirty THEN tab[t].text ELSE saw.text)
      /\ c.id = (IF tab[t].dirty THEN tab[t].id ELSE saw.id)
      /\ c.dirty = tab[t].dirty /\ c.unsaved = tab[t].unsaved /\ c.saw = NoDraft
  <2>1. /\ tab[t] \in TabRow /\ saw.rev \in Nat /\ saw.text \in Nat /\ saw.id \in Nat /\ NoDraft \in DraftRow
        /\ stage \in TabStages
    BY <1>0, TabRowFits DEF DraftRow
  <2> HIDE DEF stage, saw
  <2> QED
    BY <2>1 DEF TabRow
<1>2. tab' = [tab EXCEPT ![t] = c] /\ tab'[t] = c /\ UNCHANGED <<draft, saves>>
  BY TabRowFits DEF Hydrate
<1>3. UNCHANGED <<outbox, accepted, edits, submits>> /\ tab[t].at = "loaded"
  BY DEF Hydrate
<1>10. /\ stage = "editing" => saw.id = 0
       /\ stage = "unusable" => tab[t].dirty
       /\ stage \in {"editing", "unusable", "locked"}
  OBVIOUS
<1> HIDE DEF c, stage
<1>4. TabFits(t)'
  <2>1. TabFits(t) /\ tab[t].id = 0 /\ (tab[t].unsaved => tab[t].dirty /\ tab[t].text # 0)
    BY <1>3, TabRowFits DEF TabFits, OpenStages
  <2>2. c.at \in OpenStages => c.id = 0
    BY <1>1, <1>10, <2>1 DEF OpenStages
  <2>3. c.at \notin Sending /\ c.at \notin {"loading", "loaded", "clearing", "cleared"}
    BY <1>1, <1>10 DEF Sending
  <2> QED
    BY <1>1, <1>2, <2>1, <2>2, <2>3 DEF TabFits
<1>5. Unshared(t)' => Unshared(t) /\ c.text = tab[t].text
  BY <1>1, <1>2, <1>3, TabRowFits DEF Unshared, OpenStages, TabFits
<1>6. \A q \in saves : q.by = t /\ WaitsFor(q)' => WaitsFor(q) /\ SaveFits(q)'
  BY <1>1, <1>2, <1>3, FewWait DEF WaitsFor
<1>7. /\ edits' \in Nat /\ edits <= edits' /\ submits' \in Nat
      /\ c.session >= tab[t].session /\ c.rev <= draft.rev /\ c.text <= edits'
  BY <1>1, <1>3, TabRowFits
<1>8. ASSUME NEW i \in Nat, SentOrDue(c.text, i), Dead(c.text), c.at \in {"editing", "submitting"}
      PROVE  c.rev < draft.rev
  <2>1. CASE tab[t].dirty
    <3>1. Unshared(t) /\ c.text = tab[t].text /\ c.text \in Nat
      BY <1>1, <1>3, <2>1, TabRowFits DEF Unshared, OpenStages, TabFits, TabRow
    <3> QED
      BY <1>8, <3>1, DueTexts
  <2>2. CASE ~tab[t].dirty
    <3>1. saw.id = 0 /\ c.text = saw.text
      BY <1>1, <1>8, <1>10, <2>2
    <3> QED
      BY <1>1, <1>3, <1>8, <3>1 DEF Dead
  <2> QED
    BY <2>1, <2>2
<1>9. c.at \notin {"sending", "loaded"} /\ c.text \in {tab[t].text, tab[t].saw.text, 0}
  BY <1>0, <1>1
<1> QED
  BY <1>1, <1>2, <1>3, <1>4, <1>5, <1>6, <1>7, <1>8, <1>9, TabChanges

LEMMA TypeKeeps ==
  ASSUME DraftInv, NEW t \in Tabs, Type(t)
  PROVE  DraftInv'
<1> DEFINE c == [tab[t] EXCEPT !.text = edits + 1, !.dirty = TRUE, !.unsaved = TRUE]
<1>1. /\ c \in TabRow /\ c.at = tab[t].at /\ c.session = tab[t].session /\ c.rev = tab[t].rev
      /\ c.text = edits + 1 /\ c.id = tab[t].id /\ c.dirty = TRUE /\ c.unsaved = TRUE /\ c.saw = tab[t].saw
  <2>1. tab[t] \in TabRow /\ edits + 1 \in Nat
    BY TabRowFits
  <2> QED
    BY <2>1 DEF TabRow
<1>2. tab' = [tab EXCEPT ![t] = c] /\ tab'[t] = c /\ UNCHANGED <<draft, saves>>
  BY TabRowFits DEF Type
<1>3. /\ UNCHANGED <<outbox, accepted, submits>> /\ edits' = edits + 1
      /\ tab[t].at \in {"loading", "loaded", "editing", "unusable"}
  BY DEF Type
<1> HIDE DEF c
<1>4. TabFits(t)'
  <2>1. TabFits(t) /\ edits + 1 # 0
    BY TabRowFits
  <2>2. tab[t].at \in OpenStages /\ tab[t].at \notin Sending \cup {"clearing", "cleared"}
    BY <1>3 DEF OpenStages, Sending
  <2> QED
    BY <1>1, <1>2, <2>1, <2>2 DEF TabFits
<1>5. c.text > edits /\ c.text \in Nat /\ ~(c.text <= edits)
  BY <1>1, TabRowFits
<1>6. \A q \in saves : q.by = t /\ WaitsFor(q)' => WaitsFor(q) /\ SaveFits(q)'
  <2> SUFFICES ASSUME NEW q \in saves, q.by = t, WaitsFor(q)'
               PROVE  WaitsFor(q) /\ SaveFits(q)'
    OBVIOUS
  <2>1. WaitsFor(q) /\ SaveFits(q) /\ tab[t].at = "editing"
    BY <1>1, <1>2, <1>3, FewWait DEF WaitsFor, DraftInv
  <2>2. q.id = 0
    BY <2>1 DEF SaveFits
  <2> QED
    BY <1>1, <1>2, <2>1, <2>2 DEF SaveFits
<1>7. /\ edits' \in Nat /\ edits <= edits' /\ submits' \in Nat
      /\ c.session >= tab[t].session /\ c.rev <= draft.rev /\ c.text <= edits'
  BY <1>1, <1>3, TabRowFits
<1>8. \A i \in Nat : ~SentOrDue(c.text, i)
  BY <1>5, DueTexts
<1>9. c.at # "sending" /\ (c.at = "loaded" => tab[t].at = "loaded" /\ c.saw = tab[t].saw)
  BY <1>1, <1>3
<1> QED
  BY <1>1, <1>2, <1>3, <1>4, <1>5, <1>6, <1>7, <1>8, <1>9, TabChanges

LEMMA SubmitKeeps ==
  ASSUME DraftInv, NEW t \in Tabs, Submit(t)
  PROVE  DraftInv'
<1> DEFINE c == [tab[t] EXCEPT !.at = "submitting", !.id = submits + 1]
<1>0. "submitting" \in TabStages /\ submits + 1 \in Nat /\ submits + 1 # 0
  BY TabRowFits DEF TabStages
<1>1. /\ c \in TabRow /\ c.at = "submitting" /\ c.session = tab[t].session /\ c.rev = tab[t].rev
      /\ c.text = tab[t].text /\ c.id = submits + 1 /\ c.dirty = tab[t].dirty
      /\ c.unsaved = tab[t].unsaved /\ c.saw = tab[t].saw
  BY <1>0, TabRowFits DEF TabRow
<1>2. tab' = [tab EXCEPT ![t] = c] /\ tab'[t] = c /\ UNCHANGED <<draft, saves>>
  BY TabRowFits DEF Submit
<1>3. /\ UNCHANGED <<outbox, accepted, edits>> /\ submits' = submits + 1
      /\ tab[t].at = "editing" /\ tab[t].text # 0
  BY DEF Submit
<1> HIDE DEF c
<1>4. TabFits(t)'
  BY <1>0, <1>1, <1>2, <1>3, TabRowFits DEF TabFits, Sending, OpenStages
<1>5. Unshared(t)' => Unshared(t) /\ c.text = tab[t].text
  BY <1>1, <1>2, <1>3 DEF Unshared, OpenStages
<1>6. \A q \in saves : q.by = t /\ WaitsFor(q)' => WaitsFor(q) /\ SaveFits(q)'
  BY <1>1, <1>2, <1>3 DEF WaitsFor, SaveFits, DraftInv
<1>7. /\ edits' \in Nat /\ edits <= edits' /\ submits' \in Nat
      /\ c.session >= tab[t].session /\ c.rev <= draft.rev /\ c.text <= edits'
  BY <1>0, <1>1, <1>3, TabRowFits
<1>8. Dead(c.text) => c.rev < draft.rev
  BY <1>1, <1>3 DEF Dead
<1> QED
  BY <1>1, <1>2, <1>3, <1>4, <1>5, <1>6, <1>7, <1>8, TabChanges

(* A composer that begins anew. *)
LEMMA OpenedKeeps ==
  ASSUME DraftInv, NEW t \in Tabs, NEW c \in TabRow,
         tab' = [tab EXCEPT ![t] = c], UNCHANGED <<draft, saves, outbox, accepted, edits, submits>>,
         c.at \in {"loading", "editing"}, c.text = 0, c.id = 0, c.saw = NoDraft,
         ~c.dirty, ~c.unsaved, c.rev \in {0, draft.rev}, c.session >= tab[t].session,
         \A q \in saves : q.by = t /\ WaitsFor(q) => c.session > tab[t].session
  PROVE  DraftInv'
<1>1. tab'[t] = c
  BY TabRowFits
<1>2. TabFits(t)' /\ ~Unshared(t)'
  BY <1>1 DEF TabFits, Sending, Unshared
<1>3. ASSUME NEW q \in saves, q.by = t, WaitsFor(q)' PROVE FALSE
  <2>1. q.session = c.session /\ q.session <= tab[t].session /\ q.session \in Nat
    BY <1>1, <1>3 DEF WaitsFor, DraftInv, Within, DraftTypes, SaveRow
  <2>2. q.session = tab[t].session /\ ~q.lost
    <3>1. c.session \in Nat /\ tab[t].session \in Nat
      BY TabRowFits DEF TabRow
    <3> QED
      BY <1>3, <2>1, <3>1 DEF WaitsFor
  <2> QED
    BY <1>3, <2>1, <2>2 DEF WaitsFor
<1>4. /\ edits' \in Nat /\ edits <= edits' /\ submits' \in Nat
      /\ c.rev <= draft.rev /\ c.text <= edits'
  BY TabRowFits
<1>5. \A i \in Nat : ~SentOrDue(c.text, i)
  BY DueTexts
<1> QED
  BY <1>1, <1>2, <1>3, <1>4, <1>5, TabChanges

LEMMA ReloadKeeps ==
  ASSUME DraftInv, NEW t \in Tabs, Reload(t)
  PROVE  DraftInv'
<1> DEFINE c == Opened(tab[t].session + 1)
<1>1. /\ c \in TabRow /\ c.at = "loading" /\ c.session = tab[t].session + 1 /\ c.rev = 0 /\ c.text = 0
      /\ c.id = 0 /\ ~c.dirty /\ ~c.unsaved /\ c.saw = NoDraft
  <2>1. "loading" \in TabStages /\ tab[t].session + 1 \in Nat /\ NoDraft \in DraftRow
    BY TabRowFits DEF TabStages
  <2> QED
    BY <2>1 DEF Opened, TabRow
<1>2. tab' = [tab EXCEPT ![t] = c] /\ UNCHANGED <<draft, saves, outbox, accepted, edits, submits>>
  BY TabRowFits DEF Reload
<1> HIDE DEF c
<1>3. c.session > tab[t].session /\ c.session >= tab[t].session
  BY <1>1, TabRowFits
<1> QED
  BY <1>1, <1>2, <1>3, OpenedKeeps

LEMMA ConfirmKeeps ==
  ASSUME DraftInv, NEW t \in Tabs, Confirm(t)
  PROVE  DraftInv'
<1>0. tab[t].at = "cleared" /\ UNCHANGED <<draft, saves, outbox, accepted, edits, submits>>
  BY DEF Confirm
<1>1. CASE draft.id = 0 /\ draft.text = 0
  <2> DEFINE c == [Opened(tab[t].session) EXCEPT !.at = "editing", !.rev = draft.rev]
  <2>1. /\ c \in TabRow /\ c.at = "editing" /\ c.session = tab[t].session /\ c.rev = draft.rev /\ c.text = 0
        /\ c.id = 0 /\ ~c.dirty /\ ~c.unsaved /\ c.saw = NoDraft
    <3>1. "editing" \in TabStages /\ tab[t].session \in Nat /\ NoDraft \in DraftRow /\ draft.rev \in Nat
      BY TabRowFits DEF TabStages
    <3> QED
      BY <3>1 DEF Opened, TabRow
  <2>2. tab' = [tab EXCEPT ![t] = c]
    BY <1>1, TabRowFits DEF Confirm
  <2> HIDE DEF c
  <2>3. \A q \in saves : q.by = t => ~WaitsFor(q)
    BY <1>0, FewWait
  <2>4. c.session >= tab[t].session
    BY <2>1, TabRowFits
  <2> QED
    BY <1>0, <2>1, <2>2, <2>3, <2>4, OpenedKeeps
<1>2. CASE ~(draft.id = 0 /\ draft.text = 0)
  <2>1. MoveTo(t, "locked") /\ "locked" \in TabStages /\ "locked" \notin OpenStages \cup Sending
    BY <1>2 DEF Confirm, TabStages, OpenStages, Sending
  <2> QED
    BY <1>0, <2>1, StageMoves
<1> QED
  BY <1>1, <1>2

(* A tab asks for a save of its text. *)
LEMMA RequestKeeps ==
  ASSUME DraftInv, NEW t \in Tabs, NEW c \in TabRow,
         tab' = [tab EXCEPT ![t] = c], saves' = saves \cup {Request(t)},
         UNCHANGED <<draft, outbox, accepted, edits, submits>>, ~Waiting(t),
         c.session = tab[t].session, c.rev = tab[t].rev, c.text = tab[t].text, c.id = tab[t].id,
         c.saw = tab[t].saw, c.dirty = tab[t].dirty, c.unsaved => tab[t].unsaved,
         \/ tab[t].at = "editing" /\ c.at = "editing" /\ ~c.unsaved
         \/ tab[t].at = "submitting" /\ c.at = "saving"
  PROVE  DraftInv'
<1> DEFINE q == Request(t)
<1>0. tab \in [Tabs -> TabRow] /\ tab[t] \in TabRow /\ TabFits(t)
  BY TabRowFits
<1>1. /\ q \in SaveRow /\ q.by = t /\ q.session = tab[t].session /\ q.rev = tab[t].rev
      /\ q.text = tab[t].text /\ q.id = tab[t].id /\ q.lost = FALSE
  BY <1>0 DEF Request, SaveRow, TabRow
<1> HIDE DEF q
<1>2. saves' = saves \cup {q}
  BY DEF q
<1>3. tab'[t] = c /\ \A u \in Tabs \ {t} : tab'[u] = tab[u]
  BY <1>0
<1>4. DraftTypes'
  BY <1>0, <1>1, <1>2 DEF DraftInv, DraftTypes
<1>5. tab[t].id # 0 => tab[t].text # 0
  BY <1>0 DEF TabFits, OpenStages, Sending
<1>6. Within'
  <2>1. RowWithin(q) /\ q.session <= tab[q.by].session
    BY <1>1, <1>5, TabRowFits DEF RowWithin
  <2>2. \A u \in Tabs : tab'[u].saw = tab[u].saw /\ tab'[u].rev = tab[u].rev /\ tab'[u].text = tab[u].text
                        /\ tab'[u].session = tab[u].session
    BY <1>3
  <2>3. \A s \in saves' : s.by \in Tabs /\ RowWithin(s) /\ s.session <= tab[s.by].session
    BY <1>1, <1>2, <2>1 DEF DraftInv, Within, DraftTypes, SaveRow
  <2> QED
    BY <2>2, <2>3 DEF DraftInv, Within, TabWithin, RowWithin
<1>7. ASSUME NEW u \in Tabs PROVE TabFits(u)'
  BY <1>0, <1>3 DEF DraftInv, TabFits, WasAccepted, OpenStages, Sending
<1>8. ASSUME NEW u \in Tabs, Unshared(u)' PROVE Alone(u)'
  <2>1. u # t
    BY <1>3, <1>8 DEF Unshared, OpenStages
  <2>2. Alone(u) /\ tab'[u] = tab[u]
    BY <1>3, <1>8, <2>1 DEF Unshared, DraftInv
  <2> QED
    BY <1>1, <1>2, <1>3, <2>1, <2>2 DEF Alone
<1>9. ASSUME NEW s \in saves, s.by = t PROVE ~WaitsFor(s)
  BY <1>9 DEF Waiting, WaitsFor
<1>10. \A s \in saves' : s.by \in Tabs /\ (WaitsFor(s)' <=> WaitsFor(s))
  BY <1>1, <1>2, <1>3 DEF WaitsFor, DraftInv, DraftTypes, SaveRow
<1>11. ASSUME NEW s \in saves' PROVE SaveFits(s)'
  <2>1. CASE s = q
    BY <1>0, <1>1, <1>3, <2>1 DEF SaveFits, TabFits, OpenStages
  <2>2. CASE s \in saves /\ s.by = t
    BY <1>9, <1>10, <2>2 DEF SaveFits
  <2>3. CASE s \in saves /\ s.by # t
    <3>1. SaveFits(s) /\ tab'[s.by] = tab[s.by]
      BY <1>3, <1>10, <2>3 DEF DraftInv
    <3> QED
      BY <1>10, <3>1 DEF SaveFits
  <2> QED
    BY <1>2, <2>1, <2>2, <2>3
<1>12. OneWait'
  BY <1>1, <1>2, <1>9, <1>10 DEF OneWait, DraftInv
<1>13. Settled'
  <2>1. ASSUME NEW x \in Nat, NEW i \in Nat, SentOrDue(x, i)' PROVE SentOrDue(x, i)
    BY <1>3, <2>1 DEF SentOrDue
  <2>2. ASSUME NEW x \in Nat, Dead(x) PROVE Dead(x)'
    <3>1. q.text = x => q.rev < draft.rev
      BY <1>1, <2>2 DEF Dead
    <3>2. ASSUME NEW u \in Tabs
          PROVE /\ tab'[u].at \in {"editing", "submitting"} /\ tab'[u].text = x => tab'[u].rev < draft.rev
                /\ tab'[u].at = "loaded" /\ tab'[u].saw.text = x /\ tab'[u].saw.id = 0 => tab'[u].saw.rev < draft.rev
      BY <1>3, <2>2 DEF Dead
    <3> QED
      BY <1>2, <2>2, <3>1, <3>2 DEF Dead
  <2> QED
    BY <2>1, <2>2 DEF Settled, DraftInv
<1> QED
  BY <1>4, <1>6, <1>7, <1>8, <1>11, <1>12, <1>13 DEF DraftInv

LEMMA AskKeeps ==
  ASSUME DraftInv, NEW t \in Tabs, Autosave(t) \/ SaveSubmission(t)
  PROVE  DraftInv'
<1>1. CASE Autosave(t)
  <2> DEFINE c == [tab[t] EXCEPT !.unsaved = FALSE]
  <2>1. /\ c \in TabRow /\ c.at = tab[t].at /\ c.session = tab[t].session /\ c.rev = tab[t].rev
        /\ c.text = tab[t].text /\ c.id = tab[t].id /\ c.dirty = tab[t].dirty
        /\ c.unsaved = FALSE /\ c.saw = tab[t].saw
    BY TabRowFits DEF TabRow
  <2>2. tab' = [tab EXCEPT ![t] = c]
    BY <1>1, TabRowFits DEF Autosave
  <2> HIDE DEF c
  <2> QED
    BY <1>1, <2>1, <2>2, RequestKeeps DEF Autosave
<1>2. CASE SaveSubmission(t)
  <2> DEFINE c == [tab[t] EXCEPT !.at = "saving"]
  <2>1. /\ c \in TabRow /\ c.at = "saving" /\ c.session = tab[t].session /\ c.rev = tab[t].rev
        /\ c.text = tab[t].text /\ c.id = tab[t].id /\ c.dirty = tab[t].dirty
        /\ c.unsaved = tab[t].unsaved /\ c.saw = tab[t].saw
    <3>1. "saving" \in TabStages
      BY DEF TabStages
    <3> QED
      BY <3>1, TabRowFits DEF TabRow
  <2>2. tab' = [tab EXCEPT ![t] = c]
    BY <1>2, TabRowFits DEF SaveSubmission, MoveTo
  <2> HIDE DEF c
  <2> QED
    BY <1>2, <2>1, <2>2, RequestKeeps DEF SaveSubmission
<1> QED
  BY <1>1, <1>2

(* The row grows a revision: what any part holds is of an earlier one. *)
LEMMA ClearKeeps ==
  ASSUME DraftInv, NEW t \in Tabs, Clear(t)
  PROVE  DraftInv'
<1>0. /\ tab[t].at = "clearing" /\ UNCHANGED <<saves, outbox, accepted, edits, submits>>
      /\ MoveTo(t, "cleared") /\ TabFits(t)
  BY TabRowFits DEF Clear
<1>1. CASE draft' = draft
  <2>1. "cleared" \in TabStages /\ "cleared" \notin OpenStages \cup Sending
    BY DEF TabStages, OpenStages, Sending
  <2>2. \E m \in accepted' : m.id = tab[t].id
    BY <1>0 DEF TabFits, WasAccepted
  <2> QED
    BY <1>0, <1>1, <2>1, <2>2, StageMoves
<1>2. CASE draft' = [rev |-> draft.rev + 1, text |-> 0, id |-> 0]
  <2> DEFINE c == [tab[t] EXCEPT !.at = "cleared"]
  <2>1. /\ tab \in [Tabs -> TabRow] /\ tab[t] \in TabRow /\ draft.rev \in Nat /\ edits \in Nat
        /\ draft \in DraftRow
    BY TabRowFits
  <2>2. /\ c \in TabRow /\ c.at = "cleared" /\ c.session = tab[t].session /\ c.rev = tab[t].rev
        /\ c.text = tab[t].text /\ c.id = tab[t].id /\ c.dirty = tab[t].dirty
        /\ c.unsaved = tab[t].unsaved /\ c.saw = tab[t].saw
    <3>1. "cleared" \in TabStages
      BY DEF TabStages
    <3> QED
      BY <2>1, <3>1 DEF TabRow
  <2>3. /\ tab' = [tab EXCEPT ![t] = c] /\ tab'[t] = c
        /\ \A u \in Tabs \ {t} : tab'[u] = tab[u]
    BY <1>0, <2>1 DEF MoveTo
  <2> HIDE DEF c
  <2>4. /\ draft'.rev = draft.rev + 1 /\ draft'.text = 0 /\ draft'.id = 0 /\ draft' \in DraftRow
        /\ draft'.rev # 0
    BY <1>2, <2>1 DEF DraftRow
  <2>5. DraftTypes'
    BY <1>0, <2>1, <2>2, <2>3, <2>4 DEF DraftInv, DraftTypes
  <2>6. \A u \in Tabs : /\ tab'[u].saw = tab[u].saw /\ tab'[u].rev = tab[u].rev /\ tab'[u].text = tab[u].text
                        /\ tab'[u].session = tab[u].session
    BY <2>2, <2>3
  <2>7. /\ \A u \in Tabs : tab[u].rev <= draft'.rev /\ tab[u].rev < draft'.rev
                           /\ tab[u].saw.rev <= draft'.rev /\ tab[u].saw.rev < draft'.rev
        /\ \A q \in saves : q.rev <= draft'.rev /\ q.rev < draft'.rev
    BY <2>1, <2>4 DEF DraftInv, DraftTypes, Within, TabWithin, RowWithin, TabRow, DraftRow, SaveRow
  <2>8. Within'
    <3>1. RowWithin(draft)'
      BY <1>0, <2>1, <2>4 DEF RowWithin
    <3>2. \A u \in Tabs : TabWithin(u)'
      BY <1>0, <2>6, <2>7 DEF TabWithin, RowWithin, DraftInv, Within
    <3>3. \A q \in saves' : RowWithin(q)' /\ q.session <= tab'[q.by].session
      BY <1>0, <2>6, <2>7 DEF RowWithin, DraftInv, Within, DraftTypes, SaveRow
    <3> QED
      BY <1>0, <2>4, <3>1, <3>2, <3>3 DEF Within, DraftInv
  <2>9. ASSUME NEW u \in Tabs PROVE TabFits(u)'
    <3>1. CASE u = t
      <4>1. c.at \notin OpenStages \cup Sending \cup {"loading", "loaded"}
        BY <2>2 DEF OpenStages, Sending
      <4>2. \E m \in accepted' : m.id = tab'[t].id
        BY <1>0, <2>2, <2>3 DEF TabFits, WasAccepted
      <4>3. tab'[t].unsaved => tab'[t].text # 0 /\ tab'[t].dirty
        BY <1>0, <2>2, <2>3 DEF TabFits
      <4> QED
        BY <2>3, <3>1, <4>1, <4>2, <4>3 DEF TabFits, WasAccepted
    <3>2. CASE u # t
      <4>1. TabFits(u) /\ tab'[u] = tab[u]
        BY <2>3, <3>2 DEF DraftInv
      <4> QED
        BY <1>0, <4>1 DEF TabFits, WasAccepted
    <3> QED
      BY <3>1, <3>2
  <2>10. ASSUME NEW u \in Tabs, Unshared(u)' PROVE Alone(u)'
    <3>1. Unshared(u) /\ Alone(u) /\ tab[u].text # 0
      BY <2>2, <2>3, <2>10 DEF Unshared, OpenStages, DraftInv, TabFits
    <3> QED
      BY <1>0, <2>4, <2>6, <3>1 DEF Alone
  <2>11. \A q \in saves : q.by \in Tabs /\ (q.by # t \/ ~WaitsFor(q))
    BY <1>0, FewWait DEF DraftInv, DraftTypes, SaveRow
  <2>12. \A q \in saves : q.by \in Tabs /\ (WaitsFor(q)' <=> WaitsFor(q))
    BY <2>6 DEF WaitsFor, DraftInv, DraftTypes, SaveRow
  <2>13. ASSUME NEW q \in saves' PROVE SaveFits(q)'
    <3>1. q \in saves /\ SaveFits(q)
      BY <1>0 DEF DraftInv
    <3>2. CASE WaitsFor(q)
      <4>1. tab'[q.by] = tab[q.by]
        BY <2>3, <2>11, <2>12, <3>1, <3>2
      <4> QED
        BY <2>12, <3>1, <4>1 DEF SaveFits
    <3> QED
      BY <2>12, <3>1, <3>2 DEF SaveFits
  <2>14. OneWait'
    BY <1>0, <2>12 DEF OneWait, DraftInv
  <2>15. Settled'
    <3>1. ASSUME NEW x \in Nat, NEW i \in Nat, SentOrDue(x, i)' PROVE SentOrDue(x, i)
      BY <1>0, <2>2, <2>3, <2>4, <3>1 DEF SentOrDue
    <3>2. ASSUME NEW x \in Nat, x # 0 PROVE Dead(x)'
      BY <1>0, <2>4, <2>6, <2>7, <3>2 DEF Dead
    <3> QED
      BY <3>1, <3>2 DEF Settled, DraftInv
  <2> QED
    BY <2>5, <2>8, <2>9, <2>10, <2>13, <2>14, <2>15 DEF DraftInv
<1> QED
  BY <1>1, <1>2 DEF Clear

-----------------------------------------------------------------------------
(* What becomes of a save.                                                  *)

(* A tab after the answer of save q. *)
AnsweredTab(q, rev, c) ==
  LET old == tab[q.by] IN
  /\ c \in TabRow
  /\ c.session = old.session /\ c.text = old.text /\ c.id = old.id
  /\ c.dirty = old.dirty /\ c.unsaved = old.unsaved /\ c.saw = old.saw
  /\ ~WaitsFor(q) => c = old
  /\ WaitsFor(q) =>
       /\ c.rev = IF rev = 0 THEN old.rev ELSE rev
       /\ c.at = IF old.at \notin {"saving", "saving again"} THEN old.at
                 ELSE IF rev > 0 THEN "sending"
                 ELSE IF old.at = "saving" THEN "saving again" ELSE "locked"

LEMMA AnswerMoves ==
  ASSUME DraftInv, NEW q \in saves, NEW rev \in Nat, Answered(q, rev)
  PROVE  /\ q \in SaveRow /\ q.by \in Tabs
         /\ \E c : /\ AnsweredTab(q, rev, c) /\ tab' = [tab EXCEPT ![q.by] = c]
                   /\ tab'[q.by] = c /\ \A u \in Tabs \ {q.by} : tab'[u] = tab[u]
<1> DEFINE t == q.by
           stage == IF tab[t].at \notin {"saving", "saving again"} THEN tab[t].at
                    ELSE IF rev > 0 THEN "sending"
                    ELSE IF tab[t].at = "saving" THEN "saving again" ELSE "locked"
           r == IF rev = 0 THEN tab[t].rev ELSE rev
           c == [tab[t] EXCEPT !.rev = r, !.at = stage]
<1>1. q \in SaveRow /\ t \in Tabs /\ tab \in [Tabs -> TabRow] /\ q.lost \in BOOLEAN
  BY DEF DraftInv, DraftTypes, SaveRow
<1>2. tab[t] \in TabRow /\ stage \in TabStages /\ r \in Nat
  BY <1>1 DEF TabRow, TabStages
<1>3. CASE q.lost \/ tab[t].session # q.session
  <2>1. tab' = tab /\ ~WaitsFor(q)
    BY <1>3 DEF Answered, WaitsFor
  <2>2. AnsweredTab(q, rev, tab[t])
    BY <1>2, <2>1 DEF AnsweredTab
  <2>3. tab' = [tab EXCEPT ![t] = tab[t]]
    BY <1>1, <2>1
  <2> QED
    BY <1>1, <2>1, <2>2, <2>3
<1>4. CASE ~(q.lost \/ tab[t].session # q.session)
  <2>1. tab' = [tab EXCEPT ![t] = c] /\ WaitsFor(q)
    BY <1>1, <1>4 DEF Answered, WaitsFor
  <2> HIDE DEF stage, r
  <2>2. /\ c \in TabRow /\ c.at = stage /\ c.session = tab[t].session /\ c.rev = r
        /\ c.text = tab[t].text /\ c.id = tab[t].id /\ c.dirty = tab[t].dirty
        /\ c.unsaved = tab[t].unsaved /\ c.saw = tab[t].saw
    BY <1>2 DEF TabRow
  <2> HIDE DEF c
  <2>3. AnsweredTab(q, rev, c)
    BY <2>1, <2>2 DEF AnsweredTab, stage, r
  <2>4. tab'[t] = c /\ \A u \in Tabs \ {t} : tab'[u] = tab[u]
    BY <1>1, <2>1
  <2> QED
    BY <1>1, <2>1, <2>3, <2>4
<1> QED
  BY <1>3, <1>4

(* Save s is save q once more, at another stage or given up. *)
Again(s, q) ==
  /\ s \in SaveRow
  /\ s.by = q.by /\ s.session = q.session /\ s.rev = q.rev /\ s.text = q.text /\ s.id = q.id
  /\ q.lost => s.lost

(* A step of save q that leaves the row alone: p is its next request. *)
LEMMA RowStays ==
  ASSUME DraftInv, NEW q \in saves, q \in SaveRow, q.by \in Tabs, NEW p \in SaveRow, NEW c \in TabRow,
         tab' = [tab EXCEPT ![q.by] = c], UNCHANGED <<draft, outbox, accepted, edits, submits>>,
         \A s \in saves' : \/ s \in saves /\ s # q
                           \/ Again(s, q) /\ s.lost
                           \/ Again(s, q) /\ s = p /\ (WaitsFor(q) => \/ c.at = tab[q.by].at
                                                                      \/ tab[q.by].at = "saving" /\ c.at = "saving again"),
         c.session = tab[q.by].session, c.text = tab[q.by].text, c.id = tab[q.by].id,
         c.dirty = tab[q.by].dirty, c.unsaved = tab[q.by].unsaved, c.saw = tab[q.by].saw,
         ~WaitsFor(q) => c = tab[q.by],
         c.rev \in {tab[q.by].rev, draft.rev},
         \/ c.at = tab[q.by].at /\ (c.at \in {"editing", "submitting"} => c.rev = tab[q.by].rev)
         \/ tab[q.by].at \in {"saving", "saving again"} /\ c.at \in {"saving again", "locked"}
         \/ /\ tab[q.by].at \in {"saving", "saving again"} /\ c.at = "sending"
            /\ draft.id # 0 /\ draft.text = c.text /\ draft.id = c.id
  PROVE  DraftInv'
<1> DEFINE t == q.by
<1>0. /\ tab \in [Tabs -> TabRow] /\ tab[t] \in TabRow /\ saves \subseteq SaveRow /\ TabFits(t)
      /\ tab[t].rev <= draft.rev /\ draft.rev <= draft.rev
  <2>1. t \in Tabs
    OBVIOUS
  <2> HIDE DEF t
  <2>2. saves \subseteq SaveRow
    BY DEF DraftInv, DraftTypes
  <2> QED
    BY <2>1, <2>2, TabRowFits
<1>1. tab'[t] = c /\ \A u \in Tabs \ {t} : tab'[u] = tab[u]
  BY <1>0
<1> HIDE DEF t
<1>2. \A u \in Tabs : /\ tab'[u].saw = tab[u].saw /\ tab'[u].text = tab[u].text /\ tab'[u].id = tab[u].id
                      /\ tab'[u].session = tab[u].session /\ tab'[u].unsaved = tab[u].unsaved
  BY <1>1 DEF t
<1>3. DraftTypes'
  BY <1>0 DEF DraftInv, DraftTypes, Again
<1>4. ASSUME NEW s \in saves'
      PROVE  \E r \in saves : r \in SaveRow /\ s.by = r.by /\ s.session = r.session /\ s.rev = r.rev
                              /\ s.text = r.text /\ s.id = r.id
  BY <1>0, <1>4 DEF Again
<1>5. Within'
  <2>1. \A u \in Tabs : TabWithin(u)'
    <3>1. c.rev <= draft.rev
      BY <1>0 DEF t
    <3>2. ASSUME NEW u \in Tabs PROVE tab'[u].rev <= draft.rev
      BY <1>1, <3>1 DEF DraftInv, Within, TabWithin
    <3>3. \A u \in Tabs : tab[u].text <= edits /\ RowWithin(tab[u].saw)
      BY DEF DraftInv, Within, TabWithin
    <3> QED
      BY <1>2, <3>2, <3>3 DEF TabWithin, RowWithin
  <2>2. ASSUME NEW s \in saves' PROVE RowWithin(s)' /\ s.session <= tab'[s.by].session
    <3>1. PICK r \in saves : r \in SaveRow /\ s.by = r.by /\ s.session = r.session /\ s.rev = r.rev
                             /\ s.text = r.text /\ s.id = r.id
      BY <1>4, <2>2
    <3>2. RowWithin(r) /\ r.session <= tab[r.by].session /\ r.by \in Tabs
      BY <3>1 DEF DraftInv, Within, SaveRow
    <3> QED
      BY <1>2, <3>1, <3>2 DEF RowWithin
  <2> QED
    BY <2>1, <2>2 DEF DraftInv, Within, RowWithin
<1>6. ASSUME NEW u \in Tabs PROVE TabFits(u)'
  <2>1. CASE u = t
    <3>1. CASE c.at = tab[t].at
      BY <1>0, <1>1, <2>1, <3>1 DEF TabFits, WasAccepted, t
    <3>2. CASE tab[t].at \in {"saving", "saving again"} /\ c.at \in {"saving again", "locked", "sending"}
      BY <1>0, <1>1, <2>1, <3>2 DEF TabFits, OpenStages, Sending, t
    <3> QED
      BY <3>1, <3>2 DEF t
  <2>2. CASE u # t
    <3>1. TabFits(u) /\ tab'[u] = tab[u]
      BY <1>1, <2>2 DEF DraftInv
    <3> QED
      BY <3>1 DEF TabFits, WasAccepted
  <2> QED
    BY <2>1, <2>2
<1>7. ASSUME NEW u \in Tabs, Unshared(u)' PROVE Alone(u)'
  <2>1. Unshared(u)
    <3>1. CASE u = t
      <4>1. c.at \notin {"saving again", "locked", "sending"} /\ tab[t].unsaved
        BY <1>1, <1>2, <1>7, <3>1 DEF Unshared, OpenStages
      <4>2. c.at = tab[t].at
        BY <4>1 DEF t
      <4> QED
        BY <1>1, <1>7, <3>1, <4>1, <4>2 DEF Unshared
    <3>2. CASE u # t
      BY <1>1, <1>7, <3>2 DEF Unshared
    <3> QED
      BY <3>1, <3>2
  <2>2. Alone(u)
    BY <2>1 DEF DraftInv
  <2>3. \A s \in saves' : s.text # tab[u].text
    <3>1. \A r \in saves : r.text # tab[u].text
      BY <2>2 DEF Alone
    <3> QED
      BY <1>4, <3>1
  <2>4. /\ draft.text # tab[u].text /\ \A m \in outbox : m.text # tab[u].text
        /\ \A v \in Tabs : tab[v].saw.text # tab[u].text /\ (v # u => tab[v].text # tab[u].text)
    BY <2>2 DEF Alone
  <2>5. tab'[u].text = tab[u].text /\ draft' = draft /\ outbox' = outbox
    BY <1>2
  <2>6. \A v \in Tabs : tab'[v].saw.text # tab[u].text /\ (v # u => tab'[v].text # tab[u].text)
    BY <1>2, <2>4
  <2> QED
    BY <2>3, <2>4, <2>5, <2>6 DEF Alone
<1>8. \A s \in SaveRow : s.by \in Tabs /\ (WaitsFor(s)' <=> WaitsFor(s))
  BY <1>2 DEF WaitsFor, SaveRow
<1>9. ASSUME NEW s \in saves, s # q, WaitsFor(s), WaitsFor(q) PROVE s.by # t
  BY <1>9 DEF DraftInv, OneWait, t
<1>10. ASSUME NEW s \in saves', WaitsFor(s)'
       PROVE  \/ s \in saves /\ s # q /\ WaitsFor(s)
              \/ /\ Again(s, q) /\ s = p /\ WaitsFor(q)
                 /\ c.at = tab[t].at \/ (tab[t].at = "saving" /\ c.at = "saving again")
  <2>1. CASE s \in saves /\ s # q
    BY <1>0, <1>8, <1>10, <2>1
  <2>2. CASE Again(s, q) /\ s.lost
    BY <1>10, <2>2 DEF WaitsFor
  <2>3. CASE Again(s, q) /\ s = p /\ (WaitsFor(q) => \/ c.at = tab[t].at
                                                     \/ tab[t].at = "saving" /\ c.at = "saving again")
    <3>1. WaitsFor(q)
      BY <1>2, <1>10, <2>3 DEF WaitsFor, Again, t
    <3> QED
      BY <2>3, <3>1
  <2> QED
    BY <2>1, <2>2, <2>3 DEF t
<1>11. ASSUME NEW s \in saves' PROVE SaveFits(s)'
  <2>1. CASE s \in saves /\ s # q /\ WaitsFor(s)
    <3>1. tab'[s.by] = tab[s.by]
      BY <1>0, <1>1, <1>8, <1>9, <2>1 DEF t
    <3> QED
      BY <2>1, <3>1 DEF DraftInv, SaveFits, WaitsFor
  <2>2. CASE /\ Again(s, q) /\ s = p /\ WaitsFor(q)
             /\ c.at = tab[t].at \/ (tab[t].at = "saving" /\ c.at = "saving again")
    <3>1. SaveFits(q)
      BY DEF DraftInv
    <3> QED
      BY <1>1, <2>2, <3>1 DEF SaveFits, Again, t
  <2> QED
    BY <1>10, <2>1, <2>2 DEF SaveFits
<1>12. OneWait'
  <2> SUFFICES ASSUME NEW r \in saves', NEW s \in saves', WaitsFor(r)', WaitsFor(s)', r.by = s.by
               PROVE  r = s
    BY DEF OneWait
  <2>1. CASE r \in saves /\ r # q /\ WaitsFor(r) /\ s \in saves /\ s # q /\ WaitsFor(s)
    BY <2>1 DEF DraftInv, OneWait
  <2>2. CASE r = p /\ s = p
    BY <2>2
  <2>3. CASE r \in saves /\ r # q /\ WaitsFor(r) /\ Again(s, q) /\ WaitsFor(q)
    BY <1>9, <2>3 DEF Again, t
  <2>4. CASE s \in saves /\ s # q /\ WaitsFor(s) /\ Again(r, q) /\ WaitsFor(q)
    BY <1>9, <2>4 DEF Again, t
  <2> QED
    BY <1>10, <2>1, <2>2, <2>3, <2>4
<1>13. Settled'
  <2>1. ASSUME NEW x \in Nat, NEW i \in Nat, SentOrDue(x, i)' PROVE SentOrDue(x, i)
    <3>1. CASE \E u \in Tabs : tab'[u].at = "sending" /\ tab'[u].text = x /\ tab'[u].id = i
      <4>1. PICK u \in Tabs : tab'[u].at = "sending" /\ tab'[u].text = x /\ tab'[u].id = i
        BY <3>1
      <4>2. CASE tab[u].at = "sending"
        BY <1>2, <4>1, <4>2 DEF SentOrDue
      <4>3. CASE u = t /\ tab[t].at # "sending"
        BY <1>1, <4>1, <4>3 DEF SentOrDue, t
      <4> QED
        BY <1>1, <4>1, <4>2, <4>3
    <3> QED
      BY <2>1, <3>1 DEF SentOrDue
  <2>2. ASSUME NEW x \in Nat, Dead(x) PROVE Dead(x)'
    <3>1. ASSUME NEW s \in saves', s.text = x PROVE s.rev < draft.rev
      <4>1. PICK r \in saves : s.rev = r.rev /\ s.text = r.text
        BY <1>4
      <4> QED
        BY <2>2, <3>1, <4>1 DEF Dead
    <3>2. ASSUME NEW u \in Tabs
          PROVE /\ tab'[u].at \in {"editing", "submitting"} /\ tab'[u].text = x => tab'[u].rev < draft.rev
                /\ tab'[u].at = "loaded" /\ tab'[u].saw.text = x /\ tab'[u].saw.id = 0 => tab'[u].saw.rev < draft.rev
      <4>1. /\ tab[u].at \in {"editing", "submitting"} /\ tab[u].text = x => tab[u].rev < draft.rev
            /\ tab[u].at = "loaded" /\ tab[u].saw.text = x /\ tab[u].saw.id = 0 => tab[u].saw.rev < draft.rev
        BY <2>2 DEF Dead
      <4>2. CASE u = t
        <5>1. /\ tab'[u].at \in {"editing", "submitting"} => tab[u].at = tab'[u].at /\ tab'[u].rev = tab[u].rev
              /\ tab'[u].at = "loaded" => tab[u].at = "loaded"
          BY <1>1, <4>2 DEF t
        <5> QED
          BY <1>2, <4>1, <5>1
      <4>3. CASE u # t
        BY <1>1, <4>1, <4>3
      <4> QED
        BY <4>2, <4>3
    <3> QED
      BY <2>2, <3>1, <3>2 DEF Dead
  <2> QED
    BY <2>1, <2>2 DEF Settled, DraftInv
<1> QED
  BY <1>3, <1>5, <1>6, <1>7, <1>11, <1>12, <1>13 DEF DraftInv

(* A step of save q that writes the row. *)
LEMMA RowSaved ==
  ASSUME DraftInv, NEW q \in saves, NEW c,
         q.rev = draft.rev, draft.id = 0,
         draft' = [rev |-> draft.rev + 1, text |-> q.text, id |-> q.id],
         q \in SaveRow, q.by \in Tabs, AnsweredTab(q, draft.rev + 1, c),
         tab' = [tab EXCEPT ![q.by] = c], tab'[q.by] = c, \A u \in Tabs \ {q.by} : tab'[u] = tab[u],
         saves' = saves \ {q}, UNCHANGED <<outbox, accepted, edits, submits>>
  PROVE  DraftInv'
<1> DEFINE t == q.by
<1>0. /\ tab \in [Tabs -> TabRow] /\ tab[t] \in TabRow /\ saves \subseteq SaveRow /\ TabFits(t)
      /\ draft.rev \in Nat /\ edits \in Nat /\ draft.rev + 1 \in Nat /\ draft.rev + 1 # 0
      /\ draft.rev + 1 > 0
  <2>1. t \in Tabs
    OBVIOUS
  <2> HIDE DEF t
  <2>2. saves \subseteq SaveRow
    BY DEF DraftInv, DraftTypes
  <2>3. draft.rev \in Nat
    BY <2>1, TabRowFits
  <2> QED
    BY <2>1, <2>2, <2>3, TabRowFits
<1>1. /\ c \in TabRow
      /\ c.session = tab[t].session /\ c.text = tab[t].text /\ c.id = tab[t].id
      /\ c.dirty = tab[t].dirty /\ c.unsaved = tab[t].unsaved /\ c.saw = tab[t].saw
      /\ ~WaitsFor(q) => c = tab[t]
      /\ c.rev \in {tab[t].rev, draft.rev + 1}
      /\ c.at = tab[t].at \/ (WaitsFor(q) /\ tab[t].at \in {"saving", "saving again"} /\ c.at = "sending")
  BY <1>0 DEF AnsweredTab
<1> HIDE DEF t
<1>2. \A u \in Tabs : /\ tab'[u].saw = tab[u].saw /\ tab'[u].text = tab[u].text /\ tab'[u].id = tab[u].id
                      /\ tab'[u].session = tab[u].session /\ tab'[u].unsaved = tab[u].unsaved
  BY <1>1 DEF t
<1>3. /\ draft'.rev = draft.rev + 1 /\ draft'.text = q.text /\ draft'.id = q.id /\ draft' \in DraftRow
      /\ draft'.rev # 0 /\ RowWithin(q)
  BY <1>0 DEF DraftRow, SaveRow, DraftInv, Within, RowWithin
<1>4. DraftTypes'
  BY <1>0, <1>1, <1>3 DEF DraftInv, DraftTypes
<1>5. /\ \A u \in Tabs : tab[u].rev <= draft'.rev /\ tab[u].saw.rev <= draft'.rev
      /\ \A s \in saves : s.rev <= draft'.rev
      /\ draft'.rev <= draft'.rev
  BY <1>0, <1>3 DEF DraftInv, DraftTypes, Within, TabWithin, RowWithin, TabRow, DraftRow, SaveRow
<1>6. Within'
  <2>1. RowWithin(draft)'
    BY <1>3, <1>5 DEF RowWithin
  <2>2. ASSUME NEW u \in Tabs PROVE TabWithin(u)'
    <3>1. tab'[u].rev <= draft'.rev
      BY <1>1, <1>3, <1>5 DEF t
    <3> QED
      BY <1>2, <1>5, <3>1 DEF TabWithin, RowWithin, DraftInv, Within
  <2>3. \A s \in saves' : RowWithin(s)' /\ s.session <= tab'[s.by].session
    BY <1>0, <1>2, <1>5 DEF RowWithin, DraftInv, Within, DraftTypes, SaveRow
  <2> QED
    BY <1>3, <2>1, <2>2, <2>3 DEF Within, DraftInv
<1>7. ASSUME NEW u \in Tabs PROVE TabFits(u)'
  <2>1. CASE u = t
    <3>1. CASE c.at = tab[t].at
      BY <1>0, <1>1, <2>1, <3>1 DEF TabFits, WasAccepted, t
    <3>2. CASE tab[t].at \in {"saving", "saving again"} /\ c.at = "sending"
      BY <1>0, <1>1, <2>1, <3>2 DEF TabFits, OpenStages, Sending, t
    <3> QED
      BY <1>1, <3>1, <3>2
  <2>2. CASE u # t
    <3>1. TabFits(u) /\ tab'[u] = tab[u]
      BY <2>2 DEF DraftInv, t
    <3> QED
      BY <3>1 DEF TabFits, WasAccepted
  <2> QED
    BY <2>1, <2>2
<1>8. ASSUME NEW u \in Tabs, Unshared(u)' PROVE Alone(u)'
  <2>1. Unshared(u)
    <3>1. CASE u = t
      <4>1. c.at # "sending" /\ tab[t].unsaved
        BY <1>1, <1>2, <1>8, <3>1 DEF Unshared, OpenStages, t
      <4> QED
        BY <1>1, <1>8, <3>1, <4>1 DEF Unshared, t
    <3>2. CASE u # t
      BY <1>8, <3>2 DEF Unshared, t
    <3> QED
      BY <3>1, <3>2
  <2>2. Alone(u)
    BY <2>1 DEF DraftInv
  <2>3. /\ \A s \in saves : s.text # tab[u].text
        /\ \A m \in outbox : m.text # tab[u].text
        /\ \A v \in Tabs : tab[v].saw.text # tab[u].text /\ (v # u => tab[v].text # tab[u].text)
    BY <2>2 DEF Alone
  <2>4. tab'[u].text = tab[u].text /\ draft'.text # tab[u].text /\ outbox' = outbox
    BY <1>2, <1>3, <2>3
  <2>5. \A v \in Tabs : tab'[v].saw.text # tab[u].text /\ (v # u => tab'[v].text # tab[u].text)
    BY <1>2, <2>3
  <2> QED
    BY <2>3, <2>4, <2>5 DEF Alone
<1>9. \A s \in saves : s.by \in Tabs /\ (WaitsFor(s)' <=> WaitsFor(s))
  BY <1>0, <1>2 DEF WaitsFor, SaveRow
<1>10. ASSUME NEW s \in saves', WaitsFor(s)' PROVE SaveFits(s)'
  <2>1. s \in saves /\ s # q /\ WaitsFor(s) /\ SaveFits(s)
    BY <1>9, <1>10 DEF DraftInv
  <2>2. tab'[s.by] = tab[s.by]
    <3>1. CASE s.by = t
      BY <1>1, <2>1, <3>1 DEF DraftInv, OneWait, t
    <3>2. CASE s.by # t
      BY <1>9, <2>1, <3>2 DEF t
    <3> QED
      BY <3>1, <3>2
  <2> QED
    BY <2>1, <2>2 DEF SaveFits, WaitsFor
<1>11. (\A s \in saves' : SaveFits(s)') /\ OneWait'
  BY <1>9, <1>10 DEF SaveFits, OneWait, DraftInv
<1>12. ASSUME NEW i \in Nat PROVE ~SentOrDue(q.text, i)
  <2> SUFFICES ASSUME SentOrDue(q.text, i) PROVE FALSE
    OBVIOUS
  <2>1. q.text \in Nat /\ i # 0 /\ ((draft.text = q.text /\ draft.id = i) \/ Dead(q.text))
    BY DEF SaveRow, DraftInv, Settled
  <2>2. ~(q.rev < draft.rev)
    BY <1>0
  <2> QED
    BY <2>1, <2>2 DEF Dead
<1>13. SaveFits(q)
  BY DEF DraftInv
<1>14. ASSUME NEW x \in Nat, NEW i \in Nat, SentOrDue(x, i)'
       PROVE  SentOrDue(x, i) \/ (x = q.text /\ i = q.id /\ q.id # 0)
  <2>1. CASE \E u \in Tabs : tab'[u].at = "sending" /\ tab'[u].text = x /\ tab'[u].id = i
    <3>1. PICK u \in Tabs : tab'[u].at = "sending" /\ tab'[u].text = x /\ tab'[u].id = i
      BY <2>1
    <3>2. CASE tab[u].at = "sending"
      BY <1>2, <3>1, <3>2 DEF SentOrDue
    <3>3. CASE tab[u].at # "sending"
      <4>1. u = t /\ WaitsFor(q) /\ tab[t].at \in {"saving", "saving again"}
        BY <1>1, <3>1, <3>3 DEF t
      <4>2. q.id = tab[t].id /\ q.text = tab[t].text /\ tab[t].id # 0
        BY <1>0, <1>13, <4>1 DEF SaveFits, TabFits, Sending, t
      <4> QED
        BY <1>2, <3>1, <4>1, <4>2
    <3> QED
      BY <3>2, <3>3
  <2>2. CASE [text |-> x, id |-> i] \in outbox'
    BY <2>2 DEF SentOrDue
  <2>3. CASE draft'.id # 0 /\ draft'.text = x /\ draft'.id = i
    BY <1>3, <2>3
  <2> QED
    BY <1>14, <2>1, <2>2, <2>3 DEF SentOrDue
<1>15. ASSUME NEW x \in Nat, NEW i \in Nat, SentOrDue(x, i) PROVE Dead(x)'
  <2>1. x # q.text /\ i # 0
    BY <1>12, <1>15 DEF DraftInv, Settled
  <2>2. Dead(x)
    BY <1>15, <2>1 DEF DraftInv, Settled
  <2>3. \A s \in saves' : s.text = x => s.rev < draft'.rev
    BY <1>0, <1>3, <2>2 DEF Dead, SaveRow
  <2>4. ASSUME NEW u \in Tabs, u # t
        PROVE /\ tab'[u].at \in {"editing", "submitting"} /\ tab'[u].text = x => tab'[u].rev < draft'.rev
              /\ tab'[u].at = "loaded" /\ tab'[u].saw.text = x /\ tab'[u].saw.id = 0 => tab'[u].saw.rev < draft'.rev
    <3>1. tab'[u] = tab[u] /\ tab[u].rev \in Nat /\ tab[u].saw.rev \in Nat
      BY <1>0, <2>4 DEF t, TabRow, DraftRow
    <3> QED
      BY <1>0, <1>3, <2>2, <3>1 DEF Dead
  <2>5. tab'[t].at = "loaded" /\ tab'[t].saw.text = x /\ tab'[t].saw.id = 0 => tab'[t].saw.rev < draft'.rev
    <3>1. tab[t].saw.rev \in Nat /\ t \in Tabs
      BY <1>0 DEF TabRow, DraftRow, t
    <3>2. tab'[t].at = "loaded" => tab[t].at = "loaded"
      BY <1>1 DEF t
    <3> QED
      BY <1>0, <1>2, <1>3, <2>2, <3>1, <3>2 DEF Dead
  <2>6. ASSUME tab'[t].at \in {"editing", "submitting"}, tab'[t].text = x PROVE tab'[t].rev < draft'.rev
    <3>1. tab[t].at \in {"editing", "submitting"} /\ tab[t].text = x /\ c = tab'[t] /\ t \in Tabs
      BY <1>1, <1>2, <2>6 DEF t
    <3>2. CASE WaitsFor(q)
      <4>1. tab[t].unsaved
        BY <1>13, <2>1, <3>1, <3>2 DEF SaveFits, t
      <4>2. Unshared(t)
        BY <3>1, <4>1 DEF Unshared, OpenStages
      <4> QED
        BY <1>15, <3>1, <4>2, DueTexts
    <3>3. CASE ~WaitsFor(q)
      <4>1. c = tab[t] /\ tab[t].rev < draft.rev /\ tab[t].rev \in Nat
        BY <1>0, <1>1, <2>2, <3>1, <3>3 DEF Dead, TabRow
      <4> QED
        BY <1>0, <1>3, <3>1, <4>1
    <3> QED
      BY <3>2, <3>3
  <2> QED
    BY <1>3, <2>1, <2>3, <2>4, <2>5, <2>6 DEF Dead
<1>16. Settled'
  <2> SUFFICES ASSUME NEW x \in Nat, NEW i \in Nat, SentOrDue(x, i)'
               PROVE  /\ x # 0 /\ i # 0
                      /\ (draft'.text = x /\ draft'.id = i) \/ Dead(x)'
                      /\ \A j \in Nat : SentOrDue(x, j)' => i = j
    BY DEF Settled
  <2>1. CASE SentOrDue(x, i)
    BY <1>12, <1>14, <1>15, <2>1 DEF DraftInv, Settled
  <2>2. CASE x = q.text /\ i = q.id /\ q.id # 0
    BY <1>3, <1>12, <1>14, <2>2 DEF RowWithin
  <2> QED
    BY <1>14, <2>1, <2>2
<1> QED
  BY <1>4, <1>6, <1>7, <1>8, <1>11, <1>16 DEF DraftInv

LEMMA PositiveNats == \A n \in Nat : (n # 0 => n > 0) /\ (n = 0 => ~(n > 0))
  OBVIOUS

LEMMA RowWritten ==
  ASSUME DraftInv, NEW q \in saves, q.rev = draft.rev, draft.id = 0,
         draft' = [rev |-> draft.rev + 1, text |-> q.text, id |-> q.id],
         Answered(q, draft.rev + 1), Leave(q), UNCHANGED <<outbox, accepted, edits, submits>>
  PROVE  DraftInv'
<1>1. draft.rev + 1 \in Nat /\ draft.rev + 1 > 0 /\ draft.rev + 1 # 0
  BY DEF DraftInv, DraftTypes, DraftRow
<1>2. PICK c : /\ q \in SaveRow /\ q.by \in Tabs
               /\ AnsweredTab(q, draft.rev + 1, c) /\ tab' = [tab EXCEPT ![q.by] = c]
               /\ tab'[q.by] = c /\ \A u \in Tabs \ {q.by} : tab'[u] = tab[u]
  BY <1>1, AnswerMoves
<1>3. ~(~q.lost /\ tab[q.by].session = q.session /\ tab[q.by].at = "saving" /\ tab'[q.by].at = "saving again")
  <2>1. CASE WaitsFor(q)
    <3>1. tab[q.by].at = "saving" => tab'[q.by].at = "sending"
      BY <1>1, <1>2, <2>1 DEF AnsweredTab
    <3> QED
      BY <3>1
  <2>2. CASE ~WaitsFor(q)
    BY <2>2 DEF WaitsFor
  <2> QED
    BY <2>1, <2>2
<1>4. saves' = saves \ {q}
  BY <1>3 DEF Leave
<1> QED
  BY <1>2, <1>4, RowSaved

LEMMA ProceedKeeps ==
  ASSUME DraftInv, NEW q \in saves, NEW stage \in {"update", "insert", "recover"}, Proceed(q, stage),
         UNCHANGED <<draft, tab, outbox, accepted, edits, submits>>
  PROVE  DraftInv'
<1> DEFINE p == [q EXCEPT !.at = stage]
<1>1. q \in SaveRow /\ q.by \in Tabs /\ tab \in [Tabs -> TabRow] /\ tab[q.by] \in TabRow
  BY DEF DraftInv, DraftTypes, SaveRow
<1>2. p \in SaveRow /\ Again(p, q)
  BY <1>1 DEF SaveRow, Again
<1>3. \A s \in saves' : (s \in saves /\ s # q) \/ s = p
  BY DEF Proceed
<1> HIDE DEF p
<1> DEFINE c == tab[q.by]
<1>4. tab' = [tab EXCEPT ![q.by] = c]
  BY <1>1
<1>5. /\ c \in TabRow /\ c.session = tab[q.by].session /\ c.text = tab[q.by].text /\ c.id = tab[q.by].id
      /\ c.dirty = tab[q.by].dirty /\ c.unsaved = tab[q.by].unsaved /\ c.saw = tab[q.by].saw
      /\ c = tab[q.by] /\ c.rev = tab[q.by].rev /\ c.at = tab[q.by].at
  BY <1>1
<1> HIDE DEF c
<1>6. \A s \in saves' : \/ s \in saves /\ s # q
                        \/ Again(s, q) /\ s.lost
                        \/ Again(s, q) /\ s = p /\ (WaitsFor(q) => \/ c.at = tab[q.by].at
                                                                   \/ tab[q.by].at = "saving" /\ c.at = "saving again")
  BY <1>2, <1>3, <1>5
<1> QED
  BY <1>1, <1>2, <1>4, <1>5, <1>6, RowStays

LEMMA WriteStepKeeps ==
  ASSUME DraftInv, NEW q \in saves, SaveUpdate(q) \/ SaveInsert(q)
  PROVE  DraftInv'
<1>0. /\ q.rev \in Nat /\ q.rev <= draft.rev /\ draft.rev \in Nat
      /\ draft.rev = 0 => draft.id = 0
  BY DEF DraftInv, DraftTypes, SaveRow, DraftRow, Within, RowWithin, NoDraft
<1>1. CASE SaveUpdate(q)
  <2>1. CASE Replaces(q)
    BY <1>1, <2>1, RowWritten DEF SaveUpdate, Replaces
  <2>2. CASE ~Replaces(q)
    BY <1>1, <2>2, ProceedKeeps DEF SaveUpdate
  <2> QED
    BY <2>1, <2>2
<1>2. CASE SaveInsert(q)
  <2>1. CASE draft.rev = 0
    <3>1. q.rev = draft.rev /\ draft.rev + 1 = 1
      BY <1>0, <2>1
    <3> QED
      BY <1>0, <1>2, <2>1, <3>1, RowWritten DEF SaveInsert
  <2>2. CASE draft.rev # 0
    BY <1>2, <2>2, ProceedKeeps DEF SaveInsert
  <2> QED
    BY <2>1, <2>2
<1> QED
  BY <1>1, <1>2

(* The answer of a save that writes nothing: it recovers, or not. *)
LEMMA AnswerKeeps ==
  ASSUME DraftInv, NEW q \in saves, NEW rev \in Nat, Answered(q, rev),
         rev # 0 => rev = draft.rev /\ q.id # 0 /\ draft.id = q.id /\ draft.text = q.text,
         UNCHANGED <<draft, outbox, accepted, edits, submits>>,
         \A s \in saves' : \/ s \in saves /\ s # q
                           \/ s = [q EXCEPT !.lost = TRUE] /\ s.lost
                           \/ /\ s = [q EXCEPT !.at = "update"]
                              /\ tab[q.by].at = "saving" /\ (WaitsFor(q) => tab'[q.by].at = "saving again")
  PROVE  DraftInv'
<1> DEFINE p == [q EXCEPT !.at = "update"]
           g == [q EXCEPT !.lost = TRUE]
<1>1. PICK c : /\ q \in SaveRow /\ q.by \in Tabs
               /\ AnsweredTab(q, rev, c) /\ tab' = [tab EXCEPT ![q.by] = c]
               /\ tab'[q.by] = c /\ \A u \in Tabs \ {q.by} : tab'[u] = tab[u]
  BY AnswerMoves
<1>2. p \in SaveRow /\ Again(p, q) /\ g \in SaveRow /\ Again(g, q)
  BY <1>1 DEF SaveRow, Again
<1>3. \A s \in saves' : \/ s \in saves /\ s # q
                        \/ Again(s, q) /\ s.lost
                        \/ Again(s, q) /\ s = p /\ (WaitsFor(q) => \/ c.at = tab[q.by].at
                                                                   \/ tab[q.by].at = "saving" /\ c.at = "saving again")
  BY <1>1, <1>2
<1> HIDE DEF p, g
<1>4. /\ c \in TabRow /\ c.session = tab[q.by].session /\ c.text = tab[q.by].text /\ c.id = tab[q.by].id
      /\ c.dirty = tab[q.by].dirty /\ c.unsaved = tab[q.by].unsaved /\ c.saw = tab[q.by].saw
      /\ ~WaitsFor(q) => c = tab[q.by]
      /\ c.rev \in {tab[q.by].rev, draft.rev}
  BY <1>1 DEF AnsweredTab
<1>5. SaveFits(q) /\ tab[q.by] \in TabRow
  BY <1>1, TabRowFits DEF DraftInv
<1>6. \/ c.at = tab[q.by].at /\ (c.at \in {"editing", "submitting"} => c.rev = tab[q.by].rev)
      \/ tab[q.by].at \in {"saving", "saving again"} /\ c.at \in {"saving again", "locked"}
      \/ /\ tab[q.by].at \in {"saving", "saving again"} /\ c.at = "sending"
         /\ draft.id # 0 /\ draft.text = c.text /\ draft.id = c.id
  <2>1. CASE ~WaitsFor(q)
    BY <1>4, <2>1
  <2>2. CASE WaitsFor(q) /\ tab[q.by].at \in {"editing", "submitting"}
    <3>1. q.id = 0
      BY <1>5, <2>2 DEF SaveFits
    <3>2. rev = 0
      BY <3>1
    <3> QED
      BY <1>1, <2>2, <3>2 DEF AnsweredTab
  <2>3. CASE WaitsFor(q) /\ tab[q.by].at \in {"saving", "saving again"}
    <3>0. c.at = IF tab[q.by].at \notin {"saving", "saving again"} THEN tab[q.by].at
                 ELSE IF rev > 0 THEN "sending"
                 ELSE IF tab[q.by].at = "saving" THEN "saving again" ELSE "locked"
      BY <1>1, <2>3 DEF AnsweredTab
    <3>1. q.id = tab[q.by].id /\ q.text = tab[q.by].text
      BY <1>5, <2>3 DEF SaveFits
    <3>2. CASE rev = 0
      <4>1. ~(rev > 0)
        BY <3>2, PositiveNats, Zenon
      <4>2. c.at = IF tab[q.by].at = "saving" THEN "saving again" ELSE "locked"
        BY <2>3, <3>0, <4>1
      <4> QED
        BY <2>3, <4>2
    <3>3. CASE rev # 0
      <4>1. rev > 0
        BY <3>3, PositiveNats, Zenon
      <4>2. c.at = "sending"
        BY <2>3, <3>0, <4>1
      <4>3. draft.id # 0 /\ draft.text = c.text /\ draft.id = c.id
        BY <1>4, <3>1, <3>3
      <4> QED
        BY <2>3, <4>2, <4>3
    <3> QED
      BY <3>2, <3>3
  <2> QED
    BY <1>5, <2>1, <2>2, <2>3 DEF SaveFits
<1> QED
  BY <1>1, <1>2, <1>3, <1>4, <1>6, RowStays

LEMMA AnswerStepKeeps ==
  ASSUME DraftInv, NEW q \in saves, SaveRecover(q) \/ GiveUp(q)
  PROVE  DraftInv'
<1> DEFINE p == [q EXCEPT !.at = "update"]
           g == [q EXCEPT !.lost = TRUE]
<1>0. /\ q \in SaveRow /\ q.lost \in BOOLEAN /\ g.lost = TRUE
      /\ draft.rev \in Nat /\ draft.id \in Nat /\ q.id \in Nat /\ 0 \in Nat
  BY DEF DraftInv, DraftTypes, SaveRow, DraftRow
<1> HIDE DEF p, g
<1>1. CASE SaveRecover(q)
  <2> DEFINE rev == IF Identical(q) THEN draft.rev ELSE 0
  <2>1. rev \in Nat /\ Answered(q, rev) /\ Leave(q) /\ UNCHANGED <<draft, outbox, accepted, edits, submits>>
    BY <1>0, <1>1 DEF SaveRecover
  <2>2. rev # 0 => rev = draft.rev /\ q.id # 0 /\ draft.id = q.id /\ draft.text = q.text
    BY <1>0 DEF Identical
  <2> HIDE DEF rev
  <2>3. \A s \in saves' : \/ s \in saves /\ s # q
                          \/ s = p /\ tab[q.by].at = "saving" /\ tab'[q.by].at = "saving again"
    BY <2>1 DEF Leave, p
  <2> QED
    BY <2>1, <2>2, <2>3, AnswerKeeps DEF p
<1>2. CASE GiveUp(q)
  <2>1. ~q.lost /\ Answered(q, 0) /\ UNCHANGED <<draft, outbox, accepted, edits, submits>>
    BY <1>2 DEF GiveUp
  <2>2. \A s \in saves' : \/ s \in saves /\ s # q
                          \/ s = g /\ s.lost
                          \/ s = p /\ tab[q.by].session = q.session /\ tab[q.by].at = "saving"
    BY <1>0, <1>2 DEF GiveUp, p, g
  <2>3. tab[q.by].session = q.session /\ tab[q.by].at = "saving" => tab'[q.by].at = "saving again"
    <3>1. PICK c : AnsweredTab(q, 0, c) /\ tab'[q.by] = c
      BY <1>0, <2>1, AnswerMoves
    <3>2. ~(0 > 0)
      OBVIOUS
    <3>3. ASSUME tab[q.by].session = q.session, tab[q.by].at = "saving" PROVE c.at = "saving again"
      <4>1. WaitsFor(q)
        BY <2>1, <3>3 DEF WaitsFor
      <4> QED
        BY <3>1, <3>2, <3>3, <4>1 DEF AnsweredTab
    <3> QED
      BY <3>1, <3>3
  <2> QED
    BY <1>0, <2>1, <2>2, <2>3, AnswerKeeps DEF p, g
<1> QED
  BY <1>1, <1>2

LEMMA QuietKeeps ==
  ASSUME DraftInv, accepted \subseteq accepted', UNCHANGED <<draft, tab, saves, outbox, edits, submits>>
  PROVE  DraftInv'
<1>1. DraftTypes' /\ Within'
  BY DEF DraftInv, DraftTypes, Within, TabWithin, RowWithin
<1>2. \A t \in Tabs : TabFits(t)'
  BY DEF DraftInv, TabFits, WasAccepted
<1>3. \A t \in Tabs : Unshared(t)' => Alone(t)'
  <2> SUFFICES ASSUME NEW t \in Tabs, Unshared(t) PROVE Alone(t)'
    BY DEF Unshared
  <2>1. Alone(t)
    BY DEF DraftInv
  <2> QED
    BY <2>1 DEF Alone
<1>4. (\A q \in saves' : SaveFits(q)') /\ OneWait'
  BY DEF DraftInv, SaveFits, OneWait, WaitsFor
<1>5. Settled'
  <2>1. \A x, i \in Nat : SentOrDue(x, i)' <=> SentOrDue(x, i)
    BY DEF SentOrDue
  <2>2. \A x \in Nat : Dead(x)' <=> Dead(x)
    BY DEF Dead
  <2>3. \A x, i \in Nat : ((draft.text = x /\ draft.id = i) \/ Dead(x))' <=> ((draft.text = x /\ draft.id = i) \/ Dead(x))
    BY <2>2
  <2> QED
    BY <2>1, <2>3 DEF DraftInv, Settled
<1> QED
  BY <1>1, <1>2, <1>3, <1>4, <1>5 DEF DraftInv

LEMMA DraftStepKeeps ==
  ASSUME DraftInv, [DraftsNext]_draftVars
  PROVE  DraftInv'
<1>1. CASE UNCHANGED draftVars
  BY <1>1, QuietKeeps DEF draftVars
<1>2. ASSUME NEW t \in Tabs,
             \/ ReadDraft(t) \/ Hydrate(t) \/ Type(t) \/ Autosave(t) \/ Submit(t) \/ SaveSubmission(t)
             \/ SendDraft(t) \/ SendSucceeded(t) \/ SendUncertain(t) \/ Clear(t) \/ Confirm(t) \/ Reload(t)
      PROVE  DraftInv'
  BY <1>2, ReadDraftKeeps, HydrateKeeps, TypeKeeps, AskKeeps, SubmitKeeps, SendStepKeeps, ClearKeeps,
     ConfirmKeeps, ReloadKeeps
<1>3. ASSUME NEW q \in saves, SaveUpdate(q) \/ SaveInsert(q) \/ SaveRecover(q) \/ GiveUp(q)
      PROVE  DraftInv'
  BY <1>3, WriteStepKeeps, AnswerStepKeeps
<1> QED
  BY <1>1, <1>2, <1>3, QuietKeeps DEF DraftsNext, TakeMessage

THEOREM DraftInvariant == DraftsSpec => []DraftInv
<1>1. DraftsInit => DraftInv
  <2> SUFFICES ASSUME DraftsInit PROVE DraftInv
    OBVIOUS
  <2>1. NoDraft \in DraftRow /\ NoDraft.rev = 0 /\ NoDraft.text = 0 /\ NoDraft.id = 0
    BY DEF NoDraft, DraftRow
  <2>2. /\ Opened(0) \in TabRow /\ Opened(0).at = "loading" /\ Opened(0).rev = 0 /\ Opened(0).text = 0
        /\ Opened(0).id = 0 /\ ~Opened(0).dirty /\ ~Opened(0).unsaved /\ Opened(0).saw = NoDraft
    <3>1. "loading" \in TabStages
      BY DEF TabStages
    <3> QED
      BY <2>1, <3>1 DEF Opened, TabRow
  <2>3. /\ draft = NoDraft /\ saves = {} /\ outbox = {} /\ edits = 0 /\ submits = 0
        /\ tab \in [Tabs -> TabRow] /\ \A t \in Tabs : tab[t] = Opened(0)
    BY <2>2 DEF DraftsInit
  <2>4. DraftTypes /\ Within
    BY <2>1, <2>2, <2>3 DEF DraftTypes, Within, TabWithin, RowWithin
  <2>5. \A t \in Tabs : TabFits(t) /\ ~Unshared(t)
    BY <2>2, <2>3 DEF TabFits, Unshared, OpenStages, Sending
  <2>6. \A x, i \in Nat : ~SentOrDue(x, i)
    BY <2>1, <2>2, <2>3 DEF SentOrDue
  <2> QED
    BY <2>3, <2>4, <2>5, <2>6 DEF DraftInv, OneWait, Settled
<1> QED
  BY <1>1, DraftStepKeeps, PTL DEF DraftsSpec

(* No text is sent under two ids, whichever tabs show it, submit it, repeat
   a save or are reloaded, in whatever order their saves arrive. *)
THEOREM TextsAreSentOnce == DraftsSpec => []SentOnce
<1>1. DraftInv => SentOnce
  <2> SUFFICES ASSUME DraftInv, NEW m \in outbox, NEW n \in outbox, m.text = n.text
               PROVE  m.id = n.id
    BY DEF SentOnce
  <2>1. /\ m \in [text : Nat, id : Nat] /\ n \in [text : Nat, id : Nat]
        /\ m = [text |-> m.text, id |-> m.id] /\ n = [text |-> n.text, id |-> n.id]
    BY DEF DraftInv, DraftTypes
  <2>2. SentOrDue(m.text, m.id) /\ SentOrDue(m.text, n.id)
    BY <2>1 DEF SentOrDue
  <2> QED
    BY <2>1, <2>2 DEF DraftInv, Settled
<1> QED
  BY <1>1, DraftInvariant, PTL

(* A submission that was saved leaves its row only after the provider took
   its message. *)
THEOREM SubmissionsStay == DraftsSpec => SubmittedStays
<1>1. DraftInv /\ [DraftsNext]_draftVars =>
        [draft.id # 0 /\ draft'.id # draft.id => WasAccepted(draft.id)]_draftVars
  <2> SUFFICES ASSUME DraftInv, DraftsNext, draft.id # 0, draft'.id # draft.id
               PROVE  WasAccepted(draft.id)
    OBVIOUS
  <2>1. ASSUME NEW q \in saves, SaveUpdate(q) \/ SaveInsert(q) PROVE draft' = draft
    <3>1. draft.rev = 0 => draft.id = 0
      BY DEF DraftInv, Within, NoDraft
    <3> QED
      BY <2>1, <3>1 DEF SaveUpdate, SaveInsert, Replaces
  <2>2. PICK t \in Tabs : Clear(t)
    BY <2>1 DEF DraftsNext, ReadDraft, Hydrate, Type, Autosave, Submit, SaveSubmission, SendDraft,
       SendSucceeded, SendUncertain, Confirm, Reload, SaveRecover, GiveUp, TakeMessage
  <2>3. draft.id = tab[t].id /\ tab[t].at = "clearing"
    BY <2>2 DEF Clear
  <2> QED
    BY <2>3 DEF DraftInv, TabFits
<1> QED
  BY <1>1, DraftInvariant, PTL DEF DraftsSpec, SubmittedStays
=============================================================================
