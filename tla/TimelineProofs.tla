---------------------------- MODULE TimelineProofs ----------------------------
(***************************************************************************)
(* Theorems about a conversation and what surrounds it in the inbox.  For  *)
(* its timeline, with every set of events, replies and invocations, and    *)
(* any number of faults; then for snoozes, for call queues, and for        *)
(* comments and tags, with any number of requests.                         *)
(***************************************************************************)
EXTENDS ConversationTimeline, ConversationDesk, CallQueues, ConversationNotes,
        FiniteSetTheorems, TLAPS

-----------------------------------------------------------------------------
(* The inductive invariant.                                                 *)

(* An invocation that is not idle handles a message, a webhook one an event,
   and only webhooks route. *)
Handling ==
  /\ \A p \in Procs : pc[p] # "idle" => msg[p] \in Messages
  /\ \A d \in Deliveries : pc[d] # "idle" => msg[d] \in Events

(* Of the invocations that handle an event one at most has the claim, and then
   its rules did not run yet. *)
RulesGuarded ==
  /\ RulesRunOnce
  /\ \A e \in Events : e \notin claimed => ruleRuns[e] = 0
  /\ \A d \in Deliveries : pc[d] = "rules" => msg[d] \in claimed /\ ruleRuns[msg[d]] = 0
  /\ \A d, b \in Deliveries :
       pc[d] = "rules" /\ pc[b] = "rules" /\ msg[d] = msg[b] => d = b

(* The list's count is the greatest seq that has a row. *)
CountIsTop ==
  /\ count \in summary \cup {0}
  /\ \A i \in summary : i <= count
  /\ preview = IF count = 0 THEN None ELSE log[count]

(* The seq that an invocation holds is the place of its message. *)
SeqIsPlace ==
  /\ \A p \in Procs : pc[p] \in {"project", "reply"} =>
       seq[p] \in DOMAIN log /\ log[seq[p]] = msg[p]
  /\ \A p \in Procs : pc[p] = "reply" => seq[p] \in summary

TimelineInv ==
  /\ TypeOK
  /\ Handling
  /\ StoredOnce
  /\ RulesGuarded
  /\ CountIsTop
  /\ SeqIsPlace
  /\ AcknowledgedIsListed

-----------------------------------------------------------------------------
(* Lemmas.                                                                  *)

(* The timeline only grows at its end. *)
LEMMA Longer ==
  ASSUME log \in Seq(Messages), NEW m \in Messages
  PROVE  /\ Append(log, m) \in Seq(Messages)
         /\ Len(Append(log, m)) = Len(log) + 1
         /\ Len(log) \in Nat
         /\ DOMAIN log = 1 .. Len(log)
         /\ DOMAIN Append(log, m) = 1 .. Len(log) + 1
         /\ \A i \in DOMAIN log : Append(log, m)[i] = log[i]
         /\ Append(log, m)[Len(log) + 1] = m
  OBVIOUS

(* The place of a stored message. *)
LEMMA Place ==
  ASSUME NEW m, Stored(m)
  PROVE  SeqOf(m) \in DOMAIN log /\ log[SeqOf(m)] = m
<1>1. \E i \in DOMAIN log : log[i] = m
  BY DEF Stored, Range
<1> QED BY <1>1 DEF SeqOf

LEMMA Kinds ==
  /\ Deliveries \subseteq Procs /\ Senders \subseteq Procs
  /\ Events \subseteq Messages /\ Replies \subseteq Messages
  /\ None \notin Messages /\ 0 \in 0 .. Faults
  BY NameAssumption DEF Procs, Messages

(* An invocation that ends leaves the invariant's facts about it behind. *)
LEMMA ExitKeeps ==
  ASSUME TimelineInv, NEW p \in Procs, Exit(p),
         UNCHANGED <<people, routing, listing, timeline, appended>>,
         answered' \in SUBSET Events, faults' \in 0 .. Faults
  PROVE  TimelineInv'
<1> USE Kinds DEF TimelineInv, people, routing, listing, timeline
<1>1. TypeOK'
  BY DEF TypeOK, Exit, Goto, Labels
<1>2. Handling'
  BY DEF TypeOK, Exit, Goto, Handling
<1>3. RulesGuarded'
  BY DEF TypeOK, Exit, Goto, RulesGuarded, RulesRunOnce
<1>4. SeqIsPlace'
  BY DEF TypeOK, Exit, Goto, SeqIsPlace
<1>5. StoredOnce' /\ CountIsTop' /\ AcknowledgedIsListed'
  BY DEF StoredOnce, CountIsTop, AcknowledgedIsListed
<1> QED BY <1>1, <1>2, <1>3, <1>4, <1>5

(* A step of one invocation that touches none of the stores. *)
LEMMA LocalKeeps ==
  ASSUME TimelineInv, NEW p \in Procs, NEW stage \in Labels \ {"idle", "rules", "project", "reply"},
         Goto(p, stage), msg'[p] \in Messages, p \in Deliveries => msg'[p] \in Events,
         msg' \in [Procs -> Messages \cup {None}], \A q \in Procs \ {p} : msg'[q] = msg[q],
         contact' \in [Procs -> Deliveries \cup {None}],
         identity' \in Deliveries \cup {None}, owner' \in Deliveries \cup {None},
         UNCHANGED <<seq, routing, listing, timeline, seenOutside, faults>>
  PROVE  TimelineInv'
<1> USE Kinds DEF TimelineInv, routing, listing, timeline, seenOutside
<1>1. TypeOK'
  BY DEF TypeOK, Goto
<1>2. Handling'
  BY DEF TypeOK, Goto, Handling
<1>3. RulesGuarded'
  BY DEF TypeOK, Goto, RulesGuarded, RulesRunOnce
<1>4. SeqIsPlace'
  BY DEF TypeOK, Goto, SeqIsPlace
<1>5. StoredOnce' /\ CountIsTop' /\ AcknowledgedIsListed'
  BY DEF StoredOnce, CountIsTop, AcknowledgedIsListed
<1> QED BY <1>1, <1>2, <1>3, <1>4, <1>5

-----------------------------------------------------------------------------
(* The steps that write.                                                    *)

LEMMA ClaimKeeps ==
  ASSUME TimelineInv, NEW d \in Deliveries, Claim(d)
  PROVE  TimelineInv'
<1> USE Kinds DEF TimelineInv, people, routing, listing, timeline, seenOutside
<1>0. pc[d] = "claim" /\ msg[d] \in Events /\ d \in Procs
  BY DEF Claim, Handling
<1>1. CASE msg[d] \in claimed
  <2>1. Exit(d) /\ answered' = answered \cup {msg[d]}
    BY <1>1 DEF Claim, Answer
  <2> QED BY <1>0, <1>1, <2>1, ExitKeeps DEF Claim, TypeOK
<1>2. CASE msg[d] \notin claimed
  <2>1. /\ claimed' = claimed \cup {msg[d]} /\ pc' = [pc EXCEPT ![d] = "rules"]
        /\ UNCHANGED <<msg, contact, seq, answered, appended, ruleRuns, faults>>
        /\ UNCHANGED <<people, listing, timeline>>
    BY <1>2 DEF Claim, Goto
  <2>2. TypeOK'
    BY <1>0, <2>1 DEF TypeOK, Labels
  <2>3. Handling' /\ SeqIsPlace'
    BY <1>0, <2>1 DEF TypeOK, Handling, SeqIsPlace
  <2>4. RulesGuarded'
    BY <1>0, <1>2, <2>1 DEF TypeOK, RulesGuarded, RulesRunOnce
  <2>5. StoredOnce' /\ CountIsTop' /\ AcknowledgedIsListed'
    BY <2>1 DEF StoredOnce, CountIsTop, AcknowledgedIsListed
  <2> QED BY <2>2, <2>3, <2>4, <2>5
<1> QED BY <1>1, <1>2

LEMMA RulesKeep ==
  ASSUME TimelineInv, NEW d \in Deliveries, Rules(d)
  PROVE  TimelineInv'
<1> USE Kinds DEF TimelineInv, people, routing, listing, timeline, seenOutside
<1>1. /\ pc[d] = "rules" /\ msg[d] \in Events /\ d \in Procs /\ ruleRuns[msg[d]] = 0
      /\ ruleRuns' = [ruleRuns EXCEPT ![msg[d]] = 1] /\ pc' = [pc EXCEPT ![d] = "append"]
      /\ UNCHANGED <<claimed, msg, contact, seq, answered, appended, faults>>
      /\ UNCHANGED <<people, listing, timeline>>
  BY DEF Rules, Goto, Handling, RulesGuarded, TypeOK
<1>2. TypeOK'
  BY <1>1 DEF TypeOK, Labels
<1>3. Handling' /\ SeqIsPlace'
  BY <1>1 DEF TypeOK, Handling, SeqIsPlace
<1>4. RulesGuarded'
  BY <1>1 DEF TypeOK, RulesGuarded, RulesRunOnce
<1>5. StoredOnce' /\ CountIsTop' /\ AcknowledgedIsListed'
  BY <1>1 DEF StoredOnce, CountIsTop, AcknowledgedIsListed
<1> QED BY <1>2, <1>3, <1>4, <1>5

LEMMA AppendNewKeeps ==
  ASSUME TimelineInv, NEW p \in Procs, AppendNew(p)
  PROVE  TimelineInv'
<1> USE Kinds DEF TimelineInv, people, routing, listing, timeline, seenOutside
<1> DEFINE n == Len(log) + 1
<1>1. /\ pc[p] = "append" /\ msg[p] \in Messages
      /\ log' = Append(log, msg[p]) /\ seq' = [seq EXCEPT ![p] = n]
      /\ pc' = [pc EXCEPT ![p] = "project"]
      /\ UNCHANGED <<claimed, ruleRuns, summary, count, preview, msg, contact>>
      /\ UNCHANGED <<answered, appended, faults, identity, owner>>
  BY DEF AppendNew, Goto, Handling
<1>2. /\ log \in Seq(Messages) /\ summary \subseteq DOMAIN log /\ count \in 0 .. Len(log)
      /\ seq \in [Procs -> 0 .. Len(log)] /\ pc \in [Procs -> Labels]
  BY DEF TypeOK
<1>3. /\ log' \in Seq(Messages) /\ Len(log) \in Nat /\ Len(log') = n
      /\ DOMAIN log = 1 .. Len(log) /\ DOMAIN log' = 1 .. n
      /\ \A i \in DOMAIN log : log'[i] = log[i]
      /\ log'[n] = msg[p]
  BY <1>1, <1>2, Longer
<1>4. \A i \in DOMAIN log : log[i] # msg[p]
  BY DEF AppendNew, Stored, Range
<1>5. TypeOK'
  <2>1. author' \in [Events -> Deliveries \cup {None}]
    BY DEF AppendNew, TypeOK
  <2>2. summary' \in SUBSET (DOMAIN log') /\ count' \in 0 .. Len(log')
    BY <1>1, <1>2, <1>3
  <2>3. seq' \in [Procs -> 0 .. Len(log')]
    BY <1>1, <1>2, <1>3
  <2> QED BY <1>1, <1>3, <2>1, <2>2, <2>3 DEF TypeOK, Labels
<1>6. Handling'
  BY <1>1, <1>2 DEF Handling
<1>7. StoredOnce'
  BY <1>3, <1>4 DEF StoredOnce
<1>8. RulesGuarded'
  BY <1>1, <1>2 DEF RulesGuarded, RulesRunOnce
<1>9. CountIsTop'
  BY <1>1, <1>2, <1>3 DEF CountIsTop
<1>10. SeqIsPlace'
  <2>1. ASSUME NEW q \in Procs, pc'[q] \in {"project", "reply"}
        PROVE  seq'[q] \in DOMAIN log' /\ log'[seq'[q]] = msg'[q]
    BY <1>1, <1>2, <1>3, <2>1 DEF SeqIsPlace
  <2>2. ASSUME NEW q \in Procs, pc'[q] = "reply"
        PROVE  seq'[q] \in summary'
    BY <1>1, <1>2, <2>2 DEF SeqIsPlace
  <2> QED BY <2>1, <2>2 DEF SeqIsPlace
<1>11. AcknowledgedIsListed'
  BY <1>1, <1>2, <1>3 DEF AcknowledgedIsListed
<1> QED BY <1>5, <1>6, <1>7, <1>8, <1>9, <1>10, <1>11

LEMMA AppendAgainKeeps ==
  ASSUME TimelineInv, NEW p \in Procs, AppendAgain(p)
  PROVE  TimelineInv'
<1> USE Kinds DEF TimelineInv, people, routing, listing, timeline, seenOutside
<1> DEFINE n == SeqOf(msg[p])
<1>1. /\ pc[p] = "append" /\ seq' = [seq EXCEPT ![p] = n]
      /\ pc' = [pc EXCEPT ![p] = "project"]
      /\ UNCHANGED <<claimed, ruleRuns, summary, count, preview, msg, contact>>
      /\ UNCHANGED <<answered, appended, faults, identity, owner, log, author>>
  BY DEF AppendAgain, Goto
<1>2. n \in DOMAIN log /\ log[n] = msg[p]
  BY Place DEF AppendAgain
<1>3. n \in 0 .. Len(log)
  BY <1>2 DEF TypeOK
<1> HIDE DEF n
<1>4. TypeOK'
  BY <1>1, <1>3 DEF TypeOK, Labels
<1>5. Handling' /\ SeqIsPlace'
  BY <1>1, <1>2 DEF TypeOK, Handling, SeqIsPlace
<1>6. RulesGuarded'
  BY <1>1 DEF TypeOK, RulesGuarded, RulesRunOnce
<1>7. StoredOnce' /\ CountIsTop' /\ AcknowledgedIsListed'
  BY <1>1 DEF StoredOnce, CountIsTop, AcknowledgedIsListed
<1> QED BY <1>4, <1>5, <1>6, <1>7

LEMMA ProjectKeeps ==
  ASSUME TimelineInv, NEW p \in Procs, Project(p)
  PROVE  TimelineInv'
<1> USE Kinds DEF TimelineInv, people, routing, listing, timeline, seenOutside
<1>1. /\ pc[p] = "project" /\ summary' = summary \cup {seq[p]}
      /\ pc' = [pc EXCEPT ![p] = "reply"]
      /\ UNCHANGED <<claimed, ruleRuns, msg, contact, seq>>
      /\ UNCHANGED <<answered, appended, faults, identity, owner, log, author>>
  BY DEF Project, Goto
<1>2. seq[p] \in DOMAIN log /\ log[seq[p]] = msg[p] /\ msg[p] \in Messages
  BY <1>1 DEF SeqIsPlace, Handling
<1>3. DOMAIN log = 1 .. Len(log) /\ Len(log) \in Nat
  BY DEF TypeOK
<1>4. \/ count <= seq[p] /\ count' = seq[p] /\ preview' = msg[p]
      \/ ~ (count <= seq[p]) /\ count' = count /\ preview' = preview
  BY DEF Project, Newest
<1>5. TypeOK'
  <2>1. /\ summary' \in SUBSET (DOMAIN log) /\ count' \in 0 .. Len(log)
        /\ preview' \in Messages \cup {None}
    BY <1>1, <1>2, <1>3, <1>4 DEF TypeOK
  <2> QED BY <1>1, <2>1 DEF TypeOK, Labels
<1>6. Handling' /\ SeqIsPlace'
  BY <1>1, <1>2 DEF TypeOK, Handling, SeqIsPlace
<1>7. RulesGuarded'
  BY <1>1 DEF TypeOK, RulesGuarded, RulesRunOnce
<1>8. CountIsTop'
  <2>1. summary \subseteq 1 .. Len(log) /\ count \in 0 .. Len(log)
    BY <1>3 DEF TypeOK
  <2>2. CASE count <= seq[p]
    BY <1>1, <1>2, <1>3, <1>4, <2>1, <2>2 DEF CountIsTop
  <2>3. CASE ~ (count <= seq[p])
    BY <1>1, <1>2, <1>3, <1>4, <2>1, <2>3 DEF CountIsTop
  <2> QED BY <2>2, <2>3
<1>9. StoredOnce' /\ AcknowledgedIsListed'
  BY <1>1 DEF StoredOnce, AcknowledgedIsListed
<1> QED BY <1>5, <1>6, <1>7, <1>8, <1>9

LEMMA ReplyKeeps ==
  ASSUME TimelineInv, NEW p \in Procs, Reply(p)
  PROVE  TimelineInv'
<1> USE Kinds DEF TimelineInv, people, routing, listing, timeline, seenOutside
<1>1. /\ pc[p] = "reply" /\ Exit(p) /\ appended' = appended \cup {msg[p]}
      /\ UNCHANGED <<people, routing, listing, timeline, faults>>
      /\ answered' \in SUBSET Events
  BY DEF Reply, Answer, Handling, TypeOK
<1>2. msg[p] \in Messages /\ seq[p] \in summary /\ log[seq[p]] = msg[p]
  BY <1>1 DEF Handling, SeqIsPlace
<1>3. TypeOK'
  BY <1>1, <1>2 DEF TypeOK, Exit, Goto, Labels
<1>4. Handling' /\ SeqIsPlace'
  BY <1>1 DEF TypeOK, Exit, Goto, Handling, SeqIsPlace
<1>5. RulesGuarded'
  BY <1>1 DEF TypeOK, Exit, Goto, RulesGuarded, RulesRunOnce
<1>6. StoredOnce' /\ CountIsTop'
  BY <1>1 DEF StoredOnce, CountIsTop
<1>7. AcknowledgedIsListed'
  BY <1>1, <1>2 DEF AcknowledgedIsListed
<1> QED BY <1>3, <1>4, <1>5, <1>6, <1>7

-----------------------------------------------------------------------------
LEMMA RouteKeeps ==
  ASSUME TimelineInv, NEW d \in Deliveries, Route(d)
  PROVE  TimelineInv'
<1> USE Kinds DEF TimelineInv, people, Handling
<1>1. CASE Lookup(d)
  <2>1. PICK stage \in {"identify", "converse"} : Goto(d, stage)
    BY <1>1 DEF Lookup
  <2> QED BY <1>1, <2>1, LocalKeeps DEF Lookup, TypeOK, Labels
<1>2. CASE Identify(d)
  BY <1>2, LocalKeeps DEF Identify, TypeOK, Labels
<1>3. CASE Converse(d)
  BY <1>3, LocalKeeps DEF Converse, TypeOK, Labels
<1>4. CASE Claim(d)
  BY <1>4, ClaimKeeps
<1>5. CASE Rules(d)
  BY <1>5, RulesKeep
<1> QED BY <1>1, <1>2, <1>3, <1>4, <1>5 DEF Route

LEMMA NextKeeps == TimelineInv /\ [Next]_vars => TimelineInv'
<1> SUFFICES ASSUME TimelineInv, [Next]_vars PROVE TimelineInv'
  OBVIOUS
<1> USE Kinds
<1>1. ASSUME NEW d \in Deliveries, NEW e \in Events, Deliver(d, e) PROVE TimelineInv'
  BY <1>1, LocalKeeps DEF Deliver, TimelineInv, TypeOK, Labels, people
<1>2. ASSUME NEW s \in Senders, NEW m \in Replies, Send(s, m) PROVE TimelineInv'
  BY <1>2, LocalKeeps, NameAssumption DEF Send, TimelineInv, TypeOK, Labels, people
<1>3. ASSUME NEW d \in Deliveries, Route(d) PROVE TimelineInv'
  BY <1>3, RouteKeeps
<1>4. ASSUME NEW p \in Procs, Store(p) PROVE TimelineInv'
  BY <1>4, AppendNewKeeps, AppendAgainKeeps, ProjectKeeps, ReplyKeeps DEF Store
<1>5. ASSUME NEW p \in Procs, Fault(p) PROVE TimelineInv'
  <2>1. faults' \in 0 .. Faults
    BY <1>5, NameAssumption DEF Fault, TimelineInv, TypeOK
  <2> QED BY <1>5, <2>1, ExitKeeps DEF Fault, seenOutside, TimelineInv, TypeOK
<1>6. CASE UNCHANGED vars
  BY <1>6 DEF vars, people, routing, listing, timeline, locals, seenOutside,
       TimelineInv, TypeOK, Handling, StoredOnce, RulesGuarded, RulesRunOnce,
       CountIsTop, SeqIsPlace, AcknowledgedIsListed
<1> QED BY <1>1, <1>2, <1>3, <1>4, <1>5, <1>6 DEF Next

LEMMA InitInv == Init => TimelineInv
<1> SUFFICES ASSUME Init PROVE TimelineInv
  OBVIOUS
<1>1. TypeOK
  BY Kinds, NameAssumption DEF Init, TypeOK, Labels
<1>2. Handling /\ StoredOnce /\ RulesGuarded /\ CountIsTop /\ SeqIsPlace /\ AcknowledgedIsListed
  BY Kinds DEF Init, Handling, StoredOnce, RulesGuarded, RulesRunOnce, CountIsTop,
                SeqIsPlace, AcknowledgedIsListed
<1> QED BY <1>1, <1>2 DEF TimelineInv

LEMMA Invariant == Spec => []TimelineInv
  BY InitInv, NextKeeps, PTL DEF Spec

-----------------------------------------------------------------------------
(* The properties.                                                          *)

(* Every seq, in D1, in the DO and in an invocation's hands, is a place of the
   timeline. *)
THEOREM TimelineTypeCorrect == Spec => []TypeOK
<1>1. TimelineInv => TypeOK
  BY DEF TimelineInv
<1> QED BY <1>1, Invariant, PTL

(* For any number of deliveries, retries and reconciliations, the DO's
   synchronous lookup and insert store a message once (conversation-do.ts:187)
   and the claim in processed_messages lets one delivery of an event run the
   rules, whichever of them fail (ingest.ts:300). *)
THEOREM NothingIsHandledTwice == Spec => []HandledOnce
<1>1. TimelineInv => HandledOnce
  BY DEF TimelineInv, RulesGuarded, HandledOnce
<1> QED BY <1>1, Invariant, PTL

(* Projections that reach D1 in any order leave the newest projected message
   on top of the list (conversation-do.ts:248). *)
THEOREM NewestOnTop == Spec => []ListShowsNewest
<1>1. TimelineInv => ListShowsNewest
  <2> SUFFICES ASSUME TimelineInv PROVE ListShowsNewest
    OBVIOUS
  <2> DEFINE S == summary \cup {0}
             top == CHOOSE x \in S : \A y \in S : x >= y
  <2>1. count \in S /\ S \subseteq Nat /\ \A y \in S : count >= y
    BY DEF TimelineInv, CountIsTop, TypeOK
  <2>2. top \in S /\ \A y \in S : top >= y
    BY <2>1
  <2>3. top = count
    BY <2>1, <2>2
  <2> QED BY <2>3 DEF TimelineInv, CountIsTop, ListShowsNewest, Max
<1> QED BY <1>1, Invariant, PTL

(* Whatever an append was acknowledged for has a row in the summary, also when
   the first projection failed and a retry met the stored message
   (conversation-do.ts:187-195). *)
THEOREM NothingAcknowledgedIsHidden == Spec => []AcknowledgedIsListed
<1>1. TimelineInv => AcknowledgedIsListed
  BY DEF TimelineInv
<1> QED BY <1>1, Invariant, PTL

-----------------------------------------------------------------------------
(* Snoozes.                                                                 *)

(* The now of a revival whose update is still to come has passed. *)
DeskInv ==
  /\ clock \in Nat
  /\ DOMAIN revival = Revivals
  /\ \A k \in Revivals :
       /\ DOMAIN revival[k] = DOMAIN Rested
       /\ revival[k].at = "update" => revival[k].now \in Nat /\ revival[k].now <= clock

LEMMA DeskStarts == DeskInit => DeskInv
BY DEF DeskInit, DeskInv, Rested

LEMMA DeskStep == DeskInv /\ [DeskNext]_deskVars => DeskInv'
<1>. SUFFICES ASSUME DeskInv, [DeskNext]_deskVars
              PROVE  DeskInv'
  OBVIOUS
<1>1. CASE UNCHANGED <<clock, revival>>
  BY <1>1 DEF DeskInv
<1>2. CASE Pass
  <2>1. clock \in Nat /\ clock' \in Nat /\ clock <= clock' /\ revival' = revival
    BY <1>2 DEF Pass, DeskInv
  <2>2. \A k \in Revivals : revival[k].at = "update" => revival[k].now \in Nat /\ revival[k].now <= clock'
    BY <2>1 DEF DeskInv
  <2>. QED  BY <2>1, <2>2 DEF DeskInv
<1>3. ASSUME NEW k \in Revivals, NEW row, revival' = [revival EXCEPT ![k] = row], clock' = clock,
             DOMAIN row = DOMAIN Rested, row.at = "update" => row.now = clock
      PROVE  DeskInv'
  BY <1>3 DEF DeskInv
<1>4. ASSUME NEW k \in Revivals, SelectDue(k)
      PROVE  DeskInv'
  <2>. DEFINE row == [at |-> "update", now |-> clock, due |-> {c \in Threads : Due(c, clock)}]
  <2>1. revival' = [revival EXCEPT ![k] = row] /\ clock' = clock
    BY <1>4 DEF SelectDue
  <2>2. DOMAIN row = DOMAIN Rested /\ (row.at = "update" => row.now = clock)
    BY DEF Rested
  <2>. HIDE DEF row
  <2>. QED  BY <1>3, <2>1, <2>2
<1>5. ASSUME NEW k \in Revivals, Revive(k)
      PROVE  DeskInv'
  <2>. DEFINE row == [revival[k] EXCEPT !.at = "record"]
  <2>1. revival' = [revival EXCEPT ![k] = row] /\ clock' = clock
    BY <1>5 DEF Revive, DeskInv
  <2>2. DOMAIN row = DOMAIN Rested /\ (row.at = "update" => row.now = clock)
    BY DEF Rested, DeskInv
  <2>. HIDE DEF row
  <2>. QED  BY <1>3, <2>1, <2>2
<1>6. ASSUME NEW k \in Revivals, NEW c \in Threads, RecordExpiry(k, c)
      PROVE  DeskInv'
  <2>. DEFINE left == [revival[k] EXCEPT !.due = revival[k].due \ {c}]
              row == IF revival[k].due = {c} THEN Rested ELSE left
  <2>1. revival' = [revival EXCEPT ![k] = row] /\ clock' = clock
    BY <1>6 DEF RecordExpiry, DeskInv
  <2>2. DOMAIN row = DOMAIN Rested /\ (row.at = "update" => row.now = clock)
    <3>1. DOMAIN left = DOMAIN Rested /\ left.at = "record"
      BY <1>6 DEF RecordExpiry, DeskInv, Rested
    <3>2. Rested.at = "idle"
      BY DEF Rested
    <3>. HIDE DEF left
    <3>. QED  BY <3>1, <3>2
  <2>. HIDE DEF row
  <2>. QED  BY <1>3, <2>1, <2>2
<1>7. ASSUME NEW k \in Revivals, RevivalDies(k)
      PROVE  DeskInv'
  <2>1. revival' = [revival EXCEPT ![k] = Rested] /\ clock' = clock
    BY <1>7 DEF RevivalDies
  <2>2. Rested.at = "idle"
    BY DEF Rested
  <2>. QED  BY <1>3, <2>1, <2>2
<1>8. ASSUME NEW a \in Helpers,
             \/ WritePatch(a) \/ RecordPatch(a) \/ RequestFails(a)
             \/ \E c \in Threads, patch \in Patches : ReadForPatch(a, c, patch)
      PROVE  UNCHANGED <<clock, revival>>
  BY <1>8 DEF WritePatch, RecordPatch, RequestFails, ReadForPatch
<1>. QED  BY <1>1, <1>2, <1>4, <1>5, <1>6, <1>7, <1>8 DEF DeskNext, deskVars

THEOREM DeskInvariant == DeskSpec => []DeskInv
<1>. QED  BY DeskStarts, DeskStep, PTL DEF DeskSpec

(* The update of a revival ends no snooze that is not due, and none of an
   archived conversation, whatever agents did since its selection. *)
THEOREM SnoozesStand == DeskSpec => SnoozeStands
<1>. DEFINE Ended == \A k \in Revivals, c \in Threads :
       revival[k].at = "update" /\ revival'[k].at = "record" /\ thread'[c] # thread[c] =>
         thread[c].status = "open" /\ thread[c].snooze <= clock
<1>1. DeskInv /\ [DeskNext]_deskVars => [Ended]_deskVars
  <2>. SUFFICES ASSUME DeskInv, DeskNext, NEW k \in Revivals, NEW c \in Threads,
                       revival[k].at = "update", revival'[k].at = "record", thread'[c] # thread[c]
                PROVE  thread[c].status = "open" /\ thread[c].snooze <= clock
    OBVIOUS
  <2>1. Revive(k)
    <3>1. ASSUME NEW j \in Revivals, SelectDue(j) \/ RevivalDies(j) \/ \E d \in Threads : RecordExpiry(j, d)
          PROVE  FALSE
      BY <3>1 DEF SelectDue, RevivalDies, RecordExpiry
    <3>2. ASSUME NEW j \in Revivals, Revive(j)
          PROVE  j = k
      BY <3>2 DEF Revive, DeskInv
    <3>3. revival' # revival
      OBVIOUS
    <3>. QED  BY <3>1, <3>2, <3>3 DEF DeskNext, Pass, WritePatch, RecordPatch, RequestFails, ReadForPatch
  <2>2. thread[c].status = "open" /\ thread[c].snooze \in 1 .. revival[k].now
    BY <2>1 DEF Revive, Revived, Due
  <2>3. revival[k].now \in Nat /\ revival[k].now <= clock /\ clock \in Nat
    BY DEF DeskInv
  <2>. QED  BY <2>2, <2>3
<1>. QED  BY <1>1, DeskInvariant, PTL DEF DeskSpec, SnoozeStands

-----------------------------------------------------------------------------
(* Call queues.                                                             *)

(* The rows, the enabled queue of a Page, and the reserved one. *)
QueueRows ==
  /\ queue = [q \in Queues |-> queue[q]]
  /\ \A q \in Queues : DOMAIN queue[q] = DOMAIN NoQueue /\ queue[q].on \in BOOLEAN

OneLease ==
  \A q, s \in Queues :
    queue[q].lease # Nil /\ queue[s].lease # Nil /\ queue[q].page = queue[s].page => q = s

QueueInv == QueueRows /\ OneEnabled /\ OneLease

LEMMA QueuesStart == QueuesInit => QueueInv
<1>. SUFFICES ASSUME QueuesInit PROVE QueueInv
  OBVIOUS
<1>1. queue = [q \in Queues |-> queue[q]] /\ \A q \in Queues : queue[q] = NoQueue
  BY DEF QueuesInit
<1>2. NoQueue.on = FALSE /\ NoQueue.lease = Nil
  BY DEF NoQueue
<1>. QED  BY <1>1, <1>2 DEF QueueInv, QueueRows, OneEnabled, OneLease

LEMMA OtherRow ==
  ASSUME QueueRows, NEW q, NEW row, [queue EXCEPT ![q] = row] # queue
  PROVE  q \in Queues
<1>1. SUFFICES ASSUME q \notin Queues
               PROVE  [queue EXCEPT ![q] = row] = queue
  OBVIOUS
<1>. QED  BY <1>1 DEF QueueRows

(* A row is stored that meets both indexes. *)
LEMMA UniqueRow ==
  ASSUME QueueInv, NEW q, NEW row, DOMAIN row = DOMAIN NoQueue, row.on \in BOOLEAN, Unique(q, row),
         queue' = [queue EXCEPT ![q] = row]
  PROVE  QueueInv'
<1>1. QueueRows'
  BY DEF QueueInv, QueueRows
<1>2. \A s \in Queues : s # q => queue'[s] = queue[s]
  BY DEF QueueInv, QueueRows
<1>3. q \in Queues => queue'[q] = row
  BY DEF QueueInv, QueueRows
<1>4. OneEnabled'
  BY <1>2, <1>3 DEF QueueInv, QueueRows, OneEnabled, Unique
<1>5. OneLease'
  BY <1>2, <1>3 DEF QueueInv, QueueRows, OneLease, Unique
<1>. QED  BY <1>1, <1>4, <1>5 DEF QueueInv

(* A row that keeps its page and gets neither on nor a lease meets them. *)
LEMMA LesserRow ==
  ASSUME QueueInv, NEW q \in Queues, NEW row, DOMAIN row = DOMAIN NoQueue, row.on \in BOOLEAN,
         row.page = queue[q].page, row.on => queue[q].on, row.lease # Nil => queue[q].lease # Nil,
         queue' = [queue EXCEPT ![q] = row]
  PROVE  QueueInv'
<1>1. Unique(q, row)
  BY DEF Unique, QueueInv, OneEnabled, OneLease
<1>. QED  BY <1>1, UniqueRow

LEMMA SameQueues ==
  ASSUME QueueInv, queue' = queue
  PROVE  QueueInv'
BY DEF QueueInv, QueueRows, OneEnabled, OneLease

LEMMA QueueWritesKeep ==
  ASSUME QueueInv, NEW a \in Admins, StoreQueue(a) \/ StoreStages(a) \/ ClearLease(a)
  PROVE  QueueInv'
<1>. DEFINE q == admin[a].to
<1>1. CASE queue' = queue
  BY <1>1, SameQueues
<1>2. CASE StoreQueue(a) /\ queue' # queue
  <2>. DEFINE r == admin[a]
              row == [page |-> r.page, team |-> r.team, group |-> r.group, on |-> FALSE,
                      lease |-> queue[r.to].lease]
  <2>1. queue' = [queue EXCEPT ![q] = row] /\ Unique(q, row)
    BY <1>2 DEF StoreQueue
  <2>2. DOMAIN row = DOMAIN NoQueue /\ row.on \in BOOLEAN
    BY DEF NoQueue
  <2>. HIDE DEF row, q
  <2>. QED  BY <2>1, <2>2, UniqueRow
<1>3. CASE StoreStages(a) /\ queue' # queue
  <2>. DEFINE row == [queue[q] EXCEPT !.group = admin[a].group, !.on = FALSE]
  <2>1. queue' = [queue EXCEPT ![q] = row]
    BY <1>3 DEF StoreStages, QueueInv, QueueRows
  <2>2. q \in Queues
    <3>. HIDE DEF row, q
    <3>. QED  BY <2>1, <1>3, OtherRow DEF QueueInv
  <2>3. DOMAIN row = DOMAIN NoQueue /\ row.on = FALSE /\ row.page = queue[q].page /\ row.lease = queue[q].lease
    BY <2>2 DEF QueueInv, QueueRows, NoQueue
  <2>. HIDE DEF row, q
  <2>. QED  BY <2>1, <2>2, <2>3, LesserRow
<1>4. CASE ClearLease(a) /\ queue' # queue
  <2>. DEFINE row == [queue[q] EXCEPT !.lease = Nil]
  <2>1. queue' = [queue EXCEPT ![q] = row]
    BY <1>4 DEF ClearLease, QueueInv, QueueRows
  <2>2. q \in Queues
    <3>. HIDE DEF row, q
    <3>. QED  BY <2>1, <1>4, OtherRow DEF QueueInv
  <2>3. DOMAIN row = DOMAIN NoQueue /\ row.on = queue[q].on /\ row.page = queue[q].page /\ row.lease = Nil
    BY <2>2 DEF QueueInv, QueueRows, NoQueue
  <2>4. row.on \in BOOLEAN
    BY <2>2, <2>3 DEF QueueInv, QueueRows
  <2>. HIDE DEF row, q
  <2>. QED  BY <2>1, <2>2, <2>3, <2>4, LesserRow
<1>. QED  BY <1>1, <1>2, <1>3, <1>4

(* Enabling: the reservation looks at every queue of the Page, the end meets
   the indexes. *)
LEMMA EnablesKeep ==
  ASSUME QueueInv, NEW a \in Admins, Reserve(a) \/ Complete(a)
  PROVE  QueueInv'
<1>. DEFINE q == admin[a].to
<1>1. CASE queue' = queue
  BY <1>1, SameQueues
<1>2. CASE Reserve(a) /\ queue' # queue
  <2>. DEFINE row == [queue[q] EXCEPT !.lease = a]
  <2>1. queue' = [queue EXCEPT ![q] = row] /\ Reservable(q)
    BY <1>2 DEF Reserve, QueueInv, QueueRows
  <2>2. q \in Queues
    <3>. HIDE DEF row, q
    <3>. QED  BY <2>1, <1>2, OtherRow DEF QueueInv
  <2>3. DOMAIN row = DOMAIN NoQueue /\ row.on = queue[q].on /\ row.page = queue[q].page
    BY <2>2 DEF QueueInv, QueueRows, NoQueue
  <2>4. row.on \in BOOLEAN
    BY <2>2, <2>3 DEF QueueInv, QueueRows
  <2>. HIDE DEF row, q
  <2>5. Unique(q, row)
    BY <2>1, <2>3 DEF Unique, Reservable
  <2>. QED  BY <2>1, <2>3, <2>4, <2>5, UniqueRow
<1>3. CASE Complete(a) /\ queue' # queue
  <2>. DEFINE row == [queue[q] EXCEPT !.on = TRUE, !.lease = Nil]
  <2>1. queue' = [queue EXCEPT ![q] = row] /\ Unique(q, row)
    BY <1>3 DEF Complete
  <2>2. q \in Queues
    <3>. HIDE DEF row, q
    <3>. QED  BY <2>1, <1>3, OtherRow DEF QueueInv
  <2>3. DOMAIN row = DOMAIN NoQueue /\ row.on \in BOOLEAN
    BY <2>2 DEF QueueInv, QueueRows, NoQueue
  <2>. HIDE DEF row, q
  <2>. QED  BY <2>1, <2>3, UniqueRow
<1>. QED  BY <1>1, <1>2, <1>3

LEMMA RemovalsKeep ==
  ASSUME QueueInv, NEW q \in Queues, Disable(q) \/ DeleteQueue(q)
  PROVE  QueueInv'
<1>1. CASE Disable(q)
  <2>. DEFINE row == [queue[q] EXCEPT !.on = FALSE, !.lease = Nil]
  <2>1. queue' = [queue EXCEPT ![q] = row]
    BY <1>1 DEF Disable, QueueInv, QueueRows
  <2>2. DOMAIN row = DOMAIN NoQueue /\ row.on = FALSE /\ row.page = queue[q].page /\ row.lease = Nil
    BY DEF QueueInv, QueueRows, NoQueue
  <2>. HIDE DEF row
  <2>. QED  BY <2>1, <2>2, LesserRow
<1>2. CASE DeleteQueue(q)
  <2>1. queue' = [queue EXCEPT ![q] = NoQueue]
    BY <1>2 DEF DeleteQueue
  <2>2. NoQueue.on = FALSE /\ NoQueue.lease = Nil
    BY DEF NoQueue
  <2>3. Unique(q, NoQueue)
    BY <2>2 DEF Unique
  <2>. QED  BY <2>1, <2>2, <2>3, UniqueRow
<1>. QED  BY <1>1, <1>2

LEMMA QueuesStep == QueueInv /\ [QueuesNext]_queueVars => QueueInv'
<1>. SUFFICES ASSUME QueueInv, [QueuesNext]_queueVars
              PROVE  QueueInv'
  OBVIOUS
<1>1. CASE UNCHANGED queueVars
  BY <1>1, SameQueues DEF queueVars
<1>2. ASSUME NEW a \in Admins,
             \/ StoreQueue(a) \/ StoreStages(a) \/ ClearLease(a) \/ Reserve(a) \/ Complete(a)
      PROVE  QueueInv'
  BY <1>2, QueueWritesKeep, EnablesKeep
<1>3. ASSUME NEW a \in Admins,
             \/ CheckGroup(a) \/ StoreGroup(a) \/ Configure(a) \/ RequestDies(a)
             \/ \E g \in Groups, t \in Teams : WriteGroup(a, g, t)
             \/ \E q \in Queues, p \in Pages, t \in Teams, g \in Groups : WriteQueue(a, q, p, t, g)
             \/ \E q \in Queues, g \in Groups : ChangeStages(a, q, g)
             \/ \E q \in Queues : Enable(a, q)
      PROVE  QueueInv'
  <2>1. queue' = queue
    BY <1>3 DEF CheckGroup, StoreGroup, Configure, RequestDies, WriteGroup, WriteQueue, ChangeStages,
                Enable, Ask
  <2>. QED  BY <2>1, SameQueues
<1>4. ASSUME NEW g \in Groups, DeleteGroup(g)
      PROVE  QueueInv'
  BY <1>4, SameQueues DEF DeleteGroup
<1>5. ASSUME NEW q \in Queues, Disable(q) \/ DeleteQueue(q)
      PROVE  QueueInv'
  BY <1>5, RemovalsKeep
<1>. QED  BY <1>1, <1>2, <1>3, <1>4, <1>5 DEF QueuesNext

THEOREM QueueInvariant == QueuesSpec => []QueueInv
<1>. QED  BY QueuesStart, QueuesStep, PTL DEF QueuesSpec

(* A Page has one enabled queue, although queues change their Pages while an
   enable configures Meta. *)
THEOREM PagesHaveOneQueue == QueuesSpec => []OneEnabled
<1>1. QueueInv => OneEnabled
  BY DEF QueueInv
<1>. QED  BY <1>1, QueueInvariant, PTL

-----------------------------------------------------------------------------
(* Comments and tags.                                                       *)

(* What a request carries from one of its steps to the next holds when it
   arrives there; S is what has been said. *)
RequestTrue(n, S) ==
  /\ DOMAIN n = DOMAIN Silent
  /\ n.at = "notify" => n.about \in S
  /\ n.op = "update" => n.private \in BOOLEAN /\ (n.private <=> n.owner # Absent)
  /\ n.at \in {"tag", "row", "log"} => n.op \in {"add", "remove"} /\ n.about \in TagIds

NoteRows ==
  /\ note = [r \in Askers |-> note[r]] /\ DOMAIN notice = Remarks /\ DOMAIN label = TagIds
  /\ \A c \in Remarks : DOMAIN notice[c] = DOMAIN NoNotice
  /\ \A r \in Askers : RequestTrue(note[r], said)

WordsInv == NoteRows /\ NoticedIsSaid /\ PrivateIsOwned

LEMMA SilenceIsTrue ==
  ASSUME NEW S
  PROVE  RequestTrue(Silent, S)
BY DEF RequestTrue, Silent

LEMMA MoreIsSaid ==
  ASSUME NEW n, NEW S, NEW T, S \subseteq T, RequestTrue(n, S)
  PROVE  RequestTrue(n, T)
BY DEF RequestTrue

(* A request goes on to n, and the rows that it leaves are in order. *)
LEMMA WordsGoOn ==
  ASSUME WordsInv, NEW r \in Askers, NEW n, note' = [note EXCEPT ![r] = n],
         said \subseteq said', RequestTrue(n, said'),
         DOMAIN notice' = Remarks, DOMAIN label' = TagIds,
         \A c \in Remarks : DOMAIN notice'[c] = DOMAIN NoNotice,
         NoticedIsSaid', PrivateIsOwned'
  PROVE  WordsInv'
<1>1. ASSUME NEW s \in Askers
      PROVE  RequestTrue(note'[s], said')
  <2>1. CASE s = r
    <3>1. note'[s] = n
      BY <2>1 DEF WordsInv, NoteRows
    <3>. QED  BY <3>1
  <2>2. CASE s # r
    <3>1. note'[s] = note[s] /\ RequestTrue(note[s], said)
      BY <2>2 DEF WordsInv, NoteRows
    <3>. QED  BY <3>1, MoreIsSaid
  <2>. QED  BY <2>1, <2>2
<1>2. note' = [s \in Askers |-> note'[s]]
  BY DEF WordsInv, NoteRows
<1>. QED  BY <1>1, <1>2 DEF WordsInv, NoteRows

(* The same for steps that change no comment and no tag of the workspace. *)
LEMMA WordsStay ==
  ASSUME WordsInv, NEW r \in Askers, NEW n, note' = [note EXCEPT ![r] = n], RequestTrue(n, said),
         UNCHANGED <<said, notice, label>>
  PROVE  WordsInv'
<1>1. NoticedIsSaid' /\ PrivateIsOwned'
  BY DEF WordsInv, NoticedIsSaid, PrivateIsOwned
<1>2. DOMAIN notice' = Remarks /\ DOMAIN label' = TagIds /\ \A c \in Remarks : DOMAIN notice'[c] = DOMAIN NoNotice
  BY DEF WordsInv, NoteRows
<1>. QED  BY <1>1, <1>2, WordsGoOn

LEMMA WordsEnd ==
  ASSUME WordsInv, NEW r \in Askers, Ends(r), UNCHANGED <<said, notice, label>>
  PROVE  WordsInv'
BY SilenceIsTrue, WordsStay DEF Ends

LEMMA WordsStart == NotesInit => WordsInv
<1>. SUFFICES ASSUME NotesInit PROVE WordsInv
  OBVIOUS
<1>1. NoNotice.to = Absent /\ NoLabel.private = FALSE /\ NoLabel.owner = Absent
  BY DEF NoNotice, NoLabel
<1>2. NoteRows
  BY SilenceIsTrue DEF NotesInit, NoteRows
<1>3. NoticedIsSaid /\ PrivateIsOwned
  BY <1>1 DEF NotesInit, NoticedIsSaid, PrivateIsOwned
<1>. QED  BY <1>2, <1>3 DEF WordsInv

(* What does not touch the account of the tags. *)
Unlogging(r) ==
  /\ note[r].at # "log" /\ note'[r].at # "log" /\ \A s \in Askers : s # r => note'[s] = note[s]
  /\ UNCHANGED <<tagged, activity, unlogged>>

(* What a request begins with. *)
LEMMA BeginningsAreTrue ==
  ASSUME WordsInv, NEW r \in Askers, NEW u \in People
  PROVE  /\ \A c \in Remarks, to \in People \cup {Absent} : BeginComment(r, u, c, to) => WordsInv' /\ Unlogging(r)
         /\ \A c \in Remarks : BeginReadNotice(r, u, c) => WordsInv' /\ Unlogging(r)
         /\ \A n \in 1 .. MaxSeq : BeginMarkRead(r, u, n) => WordsInv' /\ Unlogging(r)
         /\ \A l \in TagIds, private \in BOOLEAN : BeginUpdateTag(r, u, l, private) => WordsInv' /\ Unlogging(r)
         /\ \A l \in TagIds : BeginDeleteTag(r, u, l) => WordsInv' /\ Unlogging(r)
         /\ \A op \in {"add", "remove"}, l \in TagIds : BeginTag(r, u, op, l) => WordsInv' /\ Unlogging(r)
<1>0. Silent.at # "log" /\ DOMAIN note = Askers
  BY DEF Silent, WordsInv, NoteRows
<1>1. ASSUME NEW c \in Remarks, NEW to \in People \cup {Absent}, BeginComment(r, u, c, to)
      PROVE  WordsInv' /\ Unlogging(r)
  <2>. DEFINE n == [Silent EXCEPT !.op = "comment", !.at = IF to = Absent THEN "append" ELSE "mention",
                                  !.by = u, !.to = to, !.about = c]
  <2>1. /\ note' = [note EXCEPT ![r] = n] /\ note[r] = Silent
        /\ UNCHANGED <<said, notice, label, tagged, activity, unlogged>>
    BY <1>1 DEF BeginComment, Asks, tables
  <2>2. DOMAIN n = DOMAIN Silent /\ n.op = "comment" /\ n.at \in {"append", "mention"}
    BY DEF Silent
  <2>. HIDE DEF n
  <2>3. RequestTrue(n, said)
    BY <2>2 DEF RequestTrue
  <2>5. Unlogging(r)
    BY <1>0, <2>1, <2>2 DEF Unlogging
  <2>. QED  BY <2>1, <2>3, <2>5, WordsStay
<1>2. ASSUME NEW c \in Remarks, BeginReadNotice(r, u, c)
      PROVE  WordsInv' /\ Unlogging(r)
  <2>. DEFINE n == [Silent EXCEPT !.op = "notice", !.at = "write", !.by = u, !.about = c]
  <2>1. /\ note' = [note EXCEPT ![r] = n] /\ note[r] = Silent
        /\ UNCHANGED <<said, notice, label, tagged, activity, unlogged>>
    BY <1>2 DEF BeginReadNotice, Asks, tables
  <2>2. DOMAIN n = DOMAIN Silent /\ n.op = "notice" /\ n.at = "write"
    BY DEF Silent
  <2>. HIDE DEF n
  <2>3. RequestTrue(n, said)
    BY <2>2 DEF RequestTrue
  <2>5. Unlogging(r)
    BY <1>0, <2>1, <2>2 DEF Unlogging
  <2>. QED  BY <2>1, <2>3, <2>5, WordsStay
<1>3. ASSUME NEW m \in 1 .. MaxSeq, BeginMarkRead(r, u, m)
      PROVE  WordsInv' /\ Unlogging(r)
  <2>. DEFINE n == [Silent EXCEPT !.op = "cursor", !.at = "write", !.by = u, !.about = m]
  <2>1. /\ note' = [note EXCEPT ![r] = n] /\ note[r] = Silent
        /\ UNCHANGED <<said, notice, label, tagged, activity, unlogged>>
    BY <1>3 DEF BeginMarkRead, Asks, tables
  <2>2. DOMAIN n = DOMAIN Silent /\ n.op = "cursor" /\ n.at = "write"
    BY DEF Silent
  <2>. HIDE DEF n
  <2>3. RequestTrue(n, said)
    BY <2>2 DEF RequestTrue
  <2>5. Unlogging(r)
    BY <1>0, <2>1, <2>2 DEF Unlogging
  <2>. QED  BY <2>1, <2>3, <2>5, WordsStay
<1>4. ASSUME NEW l \in TagIds, NEW private \in BOOLEAN, BeginUpdateTag(r, u, l, private)
      PROVE  WordsInv' /\ Unlogging(r)
  <2>. DEFINE keeps == IF ~private THEN Absent ELSE IF label[l].owner = Absent THEN u ELSE label[l].owner
              n == [Silent EXCEPT !.op = "update", !.at = "write", !.by = u, !.about = l,
                                  !.private = private, !.owner = keeps]
  <2>1. /\ note' = [note EXCEPT ![r] = n] /\ note[r] = Silent
        /\ UNCHANGED <<said, notice, label, tagged, activity, unlogged>>
    BY <1>4 DEF BeginUpdateTag, Asks, tables
  <2>2. DOMAIN n = DOMAIN Silent /\ n.at = "write" /\ n.private = private /\ n.owner = keeps
    BY DEF Silent
  <2>3. private <=> keeps # Absent
    BY NotesAssumption
  <2>. HIDE DEF n, keeps
  <2>4. RequestTrue(n, said)
    BY <2>2, <2>3 DEF RequestTrue
  <2>5. Unlogging(r)
    BY <1>0, <2>1, <2>2 DEF Unlogging
  <2>. QED  BY <2>1, <2>4, <2>5, WordsStay
<1>5. ASSUME NEW l \in TagIds, BeginDeleteTag(r, u, l)
      PROVE  WordsInv' /\ Unlogging(r)
  <2>. DEFINE n == [Silent EXCEPT !.op = "delete", !.at = "write", !.by = u, !.about = l]
  <2>1. /\ note' = [note EXCEPT ![r] = n] /\ note[r] = Silent
        /\ UNCHANGED <<said, notice, label, tagged, activity, unlogged>>
    BY <1>5 DEF BeginDeleteTag, Asks, tables
  <2>2. DOMAIN n = DOMAIN Silent /\ n.op = "delete" /\ n.at = "write"
    BY DEF Silent
  <2>. HIDE DEF n
  <2>3. RequestTrue(n, said)
    BY <2>2 DEF RequestTrue
  <2>5. Unlogging(r)
    BY <1>0, <2>1, <2>2 DEF Unlogging
  <2>. QED  BY <2>1, <2>3, <2>5, WordsStay
<1>6. ASSUME NEW op \in {"add", "remove"}, NEW l \in TagIds, BeginTag(r, u, op, l)
      PROVE  WordsInv' /\ Unlogging(r)
  <2>. DEFINE n == [Silent EXCEPT !.op = op, !.at = "tag", !.by = u, !.about = l]
  <2>1. /\ note' = [note EXCEPT ![r] = n] /\ note[r] = Silent
        /\ UNCHANGED <<said, notice, label, tagged, activity, unlogged>>
    BY <1>6 DEF BeginTag, Asks, tables
  <2>2. DOMAIN n = DOMAIN Silent /\ n.op = op /\ n.at = "tag" /\ n.about = l
    BY DEF Silent
  <2>. HIDE DEF n
  <2>3. RequestTrue(n, said)
    BY <2>2 DEF RequestTrue
  <2>5. Unlogging(r)
    BY <1>0, <2>1, <2>2 DEF Unlogging
  <2>. QED  BY <2>1, <2>3, <2>5, WordsStay
<1>. QED  BY <1>1, <1>2, <1>3, <1>4, <1>5, <1>6

LEMMA RequestsTrue ==
  ASSUME WordsInv, NEW r \in Askers
  PROVE  RequestTrue(note[r], said) /\ DOMAIN note = Askers
BY DEF WordsInv, NoteRows

(* A request that only comes to another stage. *)
LEMMA StageIsTrue ==
  ASSUME NEW n, NEW S, RequestTrue(n, S), NEW stage,
         stage \notin {"notify", "tag"}, stage \in {"row", "log"} => n.at \in {"tag", "row"}
  PROVE  RequestTrue([n EXCEPT !.at = stage], S)
<1>. DEFINE m == [n EXCEPT !.at = stage]
<1>1. /\ DOMAIN m = DOMAIN Silent /\ m.at = stage /\ m.op = n.op /\ m.about = n.about
      /\ m.private = n.private /\ m.owner = n.owner
  BY DEF RequestTrue, Silent
<1>. HIDE DEF m
<1>2. RequestTrue(m, S)
  BY <1>1 DEF RequestTrue
<1>. QED  BY <1>2 DEF m

LEMMA StagesStay ==
  ASSUME WordsInv, NEW r \in Askers, NEW stage, Goes(r, stage), UNCHANGED <<said, notice, label>>,
         stage \notin {"notify", "tag"}, stage \in {"row", "log"} => note[r].at \in {"tag", "row"}
  PROVE  WordsInv'
<1>. DEFINE n == [note[r] EXCEPT !.at = stage]
<1>1. RequestTrue(n, said)
  BY RequestsTrue, StageIsTrue
<1>2. note' = [note EXCEPT ![r] = n]
  BY RequestsTrue DEF Goes
<1>. HIDE DEF n
<1>. QED  BY <1>1, <1>2, WordsStay

LEMMA StepsKeepWords ==
  ASSUME WordsInv, NEW r \in Askers,
         CheckMention(r) \/ FindTag(r) \/ ChangeTag(r) \/ LogTag(r) \/ MarkRead(r) \/ GivesUp(r)
  PROVE  WordsInv'
<1>1. UNCHANGED <<said, notice, label>>
  BY DEF CheckMention, FindTag, ChangeTag, LogTag, MarkRead, GivesUp, tables
<1>2. CASE Ends(r)
  BY <1>1, <1>2, WordsEnd
<1>3. CASE Goes(r, "append")
  BY <1>1, <1>3, StagesStay
<1>4. CASE Goes(r, "row") /\ note[r].at = "tag"
  BY <1>1, <1>4, StagesStay
<1>5. CASE Goes(r, "log") /\ note[r].at = "row"
  BY <1>1, <1>5, StagesStay
<1>. QED  BY <1>2, <1>3, <1>4, <1>5 DEF CheckMention, FindTag, ChangeTag, LogTag, MarkRead, GivesUp

(* The comment is in the timeline before its notification is written. *)
LEMMA CommentsKeepWords ==
  ASSUME WordsInv, NEW r \in Askers, AppendComment(r) \/ Notify(r) \/ ReadNotice(r)
  PROVE  WordsInv'
<1>0. RequestTrue(note[r], said) /\ DOMAIN notice = Remarks /\ DOMAIN label = TagIds
  BY DEF WordsInv, NoteRows
<1>1. CASE AppendComment(r)
  <2>1. said' = said \cup {note[r].about} /\ UNCHANGED <<notice, label>>
    BY <1>1 DEF AppendComment
  <2>2. NoticedIsSaid' /\ PrivateIsOwned'
    BY <2>1 DEF WordsInv, NoticedIsSaid, PrivateIsOwned
  <2>3. \A c \in Remarks : DOMAIN notice'[c] = DOMAIN NoNotice
    BY <2>1 DEF WordsInv, NoteRows
  <2>4. PICK n : note' = [note EXCEPT ![r] = n] /\ RequestTrue(n, said')
    <3>1. CASE Ends(r)
      BY <3>1, SilenceIsTrue DEF Ends
    <3>2. CASE Goes(r, "notify")
      <4>. DEFINE m == [note[r] EXCEPT !.at = "notify"]
      <4>1. note' = [note EXCEPT ![r] = m]
        BY <3>2, RequestsTrue DEF Goes
      <4>2. /\ DOMAIN m = DOMAIN Silent /\ m.at = "notify" /\ m.about = note[r].about
            /\ m.op = note[r].op /\ m.private = note[r].private /\ m.owner = note[r].owner
        BY <1>0 DEF RequestTrue, Silent
      <4>. HIDE DEF m
      <4>3. RequestTrue(m, said')
        BY <1>0, <2>1, <4>2 DEF RequestTrue
      <4>. QED  BY <4>1, <4>3
    <3>. QED  BY <1>1, <3>1, <3>2 DEF AppendComment
  <2>. QED  BY <1>0, <2>1, <2>2, <2>3, <2>4, WordsGoOn
<1>2. CASE Notify(r)
  <2>. DEFINE row == [to |-> note[r].to, read |-> FALSE]
  <2>1. notice' = [notice EXCEPT ![note[r].about] = row] /\ UNCHANGED <<said, label>> /\ Ends(r)
    BY <1>2 DEF Notify
  <2>2. note[r].about \in said
    BY <1>0, <1>2 DEF Notify, At, RequestTrue
  <2>3. DOMAIN row = DOMAIN NoNotice
    BY DEF NoNotice
  <2>. HIDE DEF row
  <2>4. DOMAIN notice' = Remarks /\ \A c \in Remarks : DOMAIN notice'[c] = DOMAIN NoNotice
    BY <2>1, <2>3 DEF WordsInv, NoteRows
  <2>5. NoticedIsSaid'
    BY <1>0, <2>1, <2>2 DEF WordsInv, NoticedIsSaid
  <2>6. PrivateIsOwned'
    BY <2>1 DEF WordsInv, PrivateIsOwned
  <2>. QED  BY <1>0, <2>1, <2>4, <2>5, <2>6, SilenceIsTrue, WordsGoOn DEF Ends
<1>3. CASE ReadNotice(r)
  <2>. DEFINE d == note[r].about
              row == [notice[d] EXCEPT !.read = TRUE]
  <2>1. notice' = [notice EXCEPT ![d] = row] /\ UNCHANGED <<said, label>> /\ Ends(r)
    BY <1>3 DEF ReadNotice
  <2>2. d \in Remarks => DOMAIN row = DOMAIN NoNotice /\ row.to = notice[d].to
    BY DEF WordsInv, NoteRows, NoNotice
  <2>. HIDE DEF row, d
  <2>4. DOMAIN notice' = Remarks /\ \A c \in Remarks : DOMAIN notice'[c] = DOMAIN NoNotice
    BY <2>1, <2>2 DEF WordsInv, NoteRows
  <2>5. NoticedIsSaid'
    BY <1>0, <2>1, <2>2 DEF WordsInv, NoticedIsSaid
  <2>6. PrivateIsOwned'
    BY <2>1 DEF WordsInv, PrivateIsOwned
  <2>. QED  BY <1>0, <2>1, <2>4, <2>5, <2>6, SilenceIsTrue, WordsGoOn DEF Ends
<1>. QED  BY <1>1, <1>2, <1>3

(* A row of the tags is written whole. *)
LEMMA LabelWritten ==
  ASSUME WordsInv, NEW l, NEW row, label' = [label EXCEPT ![l] = row], row.private <=> row.owner # Absent
  PROVE  PrivateIsOwned' /\ DOMAIN label' = TagIds
<1>1. DOMAIN label' = TagIds
  BY DEF WordsInv, NoteRows
<1>2. ASSUME NEW m \in TagIds
      PROVE  label'[m].private <=> label'[m].owner # Absent
  <2>1. CASE m = l
    <3>1. label'[m] = row
      BY <2>1 DEF WordsInv, NoteRows
    <3>. QED  BY <3>1
  <2>2. CASE m # l
    <3>1. label'[m] = label[m] /\ (label[m].private <=> label[m].owner # Absent)
      BY <2>2 DEF WordsInv, NoteRows, PrivateIsOwned
    <3>. QED  BY <3>1
  <2>. QED  BY <2>1, <2>2
<1>. QED  BY <1>1, <1>2 DEF PrivateIsOwned

LEMMA LabelsKeepWords ==
  ASSUME WordsInv, NEW r \in Askers,
         \/ UpdateTag(r) \/ DeleteTag(r)
         \/ \E u \in People, l \in TagIds, private \in BOOLEAN : CreateTag(r, u, l, private)
  PROVE  WordsInv'
<1>0. /\ RequestTrue(note[r], said) /\ note = [s \in Askers |-> note[s]]
      /\ DOMAIN notice = Remarks /\ \A c \in Remarks : DOMAIN notice[c] = DOMAIN NoNotice
  BY DEF WordsInv, NoteRows
<1>1. UNCHANGED <<said, notice>>
  BY DEF UpdateTag, DeleteTag, CreateTag
<1>2. PrivateIsOwned' /\ DOMAIN label' = TagIds
  <2>1. CASE label' = label
    BY <2>1 DEF WordsInv, NoteRows, PrivateIsOwned
  <2>2. CASE UpdateTag(r) /\ label' # label
    <3>. DEFINE row == [exists |-> TRUE, private |-> note[r].private, owner |-> note[r].owner]
    <3>1. label' = [label EXCEPT ![note[r].about] = row]
      BY <2>2 DEF UpdateTag
    <3>2. row.private <=> row.owner # Absent
      BY <1>0, <2>2 DEF UpdateTag, At, RequestTrue
    <3>. HIDE DEF row
    <3>. QED  BY <3>1, <3>2, LabelWritten
  <2>3. CASE DeleteTag(r)
    <3>1. label' = [label EXCEPT ![note[r].about] = NoLabel]
      BY <2>3 DEF DeleteTag
    <3>2. NoLabel.private <=> NoLabel.owner # Absent
      BY DEF NoLabel
    <3>. QED  BY <3>1, <3>2, LabelWritten
  <2>4. ASSUME NEW u \in People, NEW l \in TagIds, NEW private \in BOOLEAN, CreateTag(r, u, l, private)
        PROVE  PrivateIsOwned' /\ DOMAIN label' = TagIds
    <3>. DEFINE row == [exists |-> TRUE, private |-> private, owner |-> IF private THEN u ELSE Absent]
    <3>1. label' = [label EXCEPT ![l] = row]
      BY <2>4 DEF CreateTag
    <3>2. row.private <=> row.owner # Absent
      BY NotesAssumption
    <3>. HIDE DEF row
    <3>. QED  BY <3>1, <3>2, LabelWritten
  <2>. QED  BY <2>1, <2>2, <2>3, <2>4
<1>3. PICK n : note' = [note EXCEPT ![r] = n] /\ RequestTrue(n, said')
  <2>1. CASE Ends(r)
    BY <2>1, SilenceIsTrue DEF Ends
  <2>2. CASE note' = note
    <3>1. note = [note EXCEPT ![r] = note[r]]
      BY <1>0
    <3>. QED  BY <1>0, <1>1, <2>2, <3>1
  <2>. QED  BY <2>1, <2>2 DEF UpdateTag, DeleteTag, CreateTag
<1>4. NoticedIsSaid'
  BY <1>1 DEF WordsInv, NoticedIsSaid
<1>. QED  BY <1>0, <1>1, <1>2, <1>3, <1>4, WordsGoOn

(* The requests that have still to log their change.  They are finitely many,
   as every step makes one at most. *)
Loggers(N, l, op) == {r \in Askers : N[r].op = op /\ N[r].at = "log" /\ N[r].about = l}
Indebted(N) == {r \in Askers : N[r].at = "log"}

Balance(T, A, N) ==
  \A l \in TagIds :
    (IF l \in T THEN 1 ELSE 0) =
      (A[l].added + Cardinality(Loggers(N, l, "add"))) - (A[l].removed + Cardinality(Loggers(N, l, "remove")))

TagsInv ==
  /\ IsFiniteSet(Indebted(note))
  /\ activity \in [TagIds -> [added : Nat, removed : Nat]]
  /\ unlogged \in BOOLEAN
  /\ ~unlogged => Balance(tagged, activity, note)

LEMMA BalanceIsLog == LogAccountsForTags <=> (~unlogged => Balance(tagged, activity, note))
BY DEF LogAccountsForTags, Balance, Logging, Loggers, At

LEMMA LoggersFinite ==
  ASSUME NEW N, NEW l, NEW op, IsFiniteSet(Indebted(N))
  PROVE  IsFiniteSet(Loggers(N, l, op)) /\ Cardinality(Loggers(N, l, op)) \in Nat
<1>1. Loggers(N, l, op) \subseteq Indebted(N)
  BY DEF Loggers, Indebted
<1>2. IsFiniteSet(Loggers(N, l, op))
  BY <1>1, FS_Subset
<1>. QED  BY <1>2, FS_CardinalityType

(* M has one more than N. *)
LEMMA OneMoreLogger ==
  ASSUME NEW N, NEW M, NEW r \in Askers, \A s \in Askers : s # r => M[s] = N[s],
         N[r].at # "log", M[r].at = "log", IsFiniteSet(Indebted(N)), NEW l, NEW op
  PROVE  /\ IsFiniteSet(Indebted(M))
         /\ Cardinality(Loggers(M, l, op)) =
              Cardinality(Loggers(N, l, op)) + IF M[r].about = l /\ M[r].op = op THEN 1 ELSE 0
<1>1. Indebted(M) = Indebted(N) \cup {r}
  BY DEF Indebted
<1>2. IsFiniteSet(Indebted(M))
  BY <1>1, FS_AddElement
<1>3. IsFiniteSet(Loggers(N, l, op)) /\ Cardinality(Loggers(N, l, op)) \in Nat
  BY LoggersFinite
<1>4. CASE M[r].about = l /\ M[r].op = op
  <2>1. Loggers(M, l, op) = Loggers(N, l, op) \cup {r} /\ r \notin Loggers(N, l, op)
    BY <1>4 DEF Loggers
  <2>2. Cardinality(Loggers(N, l, op) \cup {r}) = Cardinality(Loggers(N, l, op)) + 1
    BY <1>3, <2>1, FS_AddElement
  <2>. QED  BY <1>2, <1>4, <2>1, <2>2
<1>5. CASE ~(M[r].about = l /\ M[r].op = op)
  <2>1. Loggers(M, l, op) = Loggers(N, l, op)
    BY <1>5 DEF Loggers
  <2>. QED  BY <1>2, <1>3, <1>5, <2>1
<1>. QED  BY <1>4, <1>5

LEMMA TagsStart == NotesInit => TagsInv
<1>. SUFFICES ASSUME NotesInit PROVE TagsInv
  OBVIOUS
<1>1. \A r \in Askers : note[r].at = "none"
  BY DEF NotesInit, Silent
<1>2. Indebted(note) = {} /\ \A l, op : Loggers(note, l, op) = {}
  BY <1>1 DEF Indebted, Loggers
<1>3. IsFiniteSet({}) /\ Cardinality({}) = 0
  BY FS_EmptySet
<1>4. \A l \in TagIds : activity[l].added = 0 /\ activity[l].removed = 0 /\ l \notin tagged
  BY DEF NotesInit
<1>5. Balance(tagged, activity, note)
  <2>1. ASSUME NEW l \in TagIds, NEW op
        PROVE  Cardinality(Loggers(note, l, op)) = 0
    BY <1>2, <1>3
  <2>. QED  BY <1>4, <2>1 DEF Balance
<1>6. activity \in [TagIds -> [added : Nat, removed : Nat]] /\ unlogged \in BOOLEAN
  BY DEF NotesInit
<1>. QED  BY <1>2, <1>3, <1>5, <1>6 DEF TagsInv

(* A request that neither comes to log nor has logged. *)
LEMMA TagsStay ==
  ASSUME TagsInv, NEW r \in Askers, Unlogging(r)
  PROVE  TagsInv'
<1>1. Indebted(note') = Indebted(note)
  BY DEF Indebted, Unlogging
<1>2. Balance(tagged, activity, note) => Balance(tagged', activity', note')
  <2>1. ASSUME NEW l \in TagIds, NEW op
        PROVE  Loggers(note', l, op) = Loggers(note, l, op)
    BY DEF Loggers, Unlogging
  <2>. QED  BY <2>1 DEF Balance, Unlogging
<1>. QED  BY <1>1, <1>2 DEF TagsInv, Unlogging

(* The account is given up. *)
LEMMA TagsExcused ==
  ASSUME TagsInv, NEW r \in Askers, DOMAIN note = Askers, Ends(r),
         unlogged' = TRUE, UNCHANGED activity
  PROVE  TagsInv'
<1>1. \A s \in Askers : s # r => note'[s] = note[s]
  BY DEF Ends
<1>2. note'[r].at # "log"
  BY DEF Ends, Silent
<1>3. Indebted(note') \subseteq Indebted(note)
  BY <1>1, <1>2 DEF Indebted
<1>4. IsFiniteSet(Indebted(note'))
  BY <1>3, FS_Subset DEF TagsInv
<1>. QED  BY <1>4 DEF TagsInv

(* The one statement changes a row, and then there is something to log. *)
LEMMA ChangeKeepsTags ==
  ASSUME WordsInv, TagsInv, NEW r \in Askers, ChangeTag(r)
  PROVE  TagsInv'
<1>. DEFINE d == note[r].about
            what == note[r].op
<1>1. /\ note[r].at = "row" /\ UNCHANGED <<activity, unlogged>>
      /\ tagged' = IF what = "add" THEN tagged \cup {d} ELSE tagged \ {d}
  BY DEF ChangeTag
<1>2. /\ what \in {"add", "remove"} /\ d \in TagIds
      /\ DOMAIN note = Askers /\ DOMAIN note[r] = DOMAIN Silent
  BY <1>1 DEF WordsInv, NoteRows, RequestTrue
<1>3. CASE ~Changed(r)
  <2>1. tagged' = tagged
    BY <1>1, <1>2, <1>3 DEF Changed
  <2>2. Ends(r) /\ Silent.at # "log"
    BY <1>3 DEF ChangeTag, Silent
  <2>. QED  BY <1>1, <1>2, <2>1, <2>2, TagsStay DEF Ends, Unlogging
<1>4. CASE Changed(r)
  <2>1. /\ note'[r].at = "log" /\ note'[r].about = d /\ note'[r].op = what
        /\ \A s \in Askers : s # r => note'[s] = note[s]
    BY <1>2, <1>4 DEF ChangeTag, Goes, Silent
  <2>2. IsFiniteSet(Indebted(note)) /\ note[r].at # "log"
    BY <1>1 DEF TagsInv
  <2>. HIDE DEF d, what
  <2>3. ASSUME NEW l \in TagIds, NEW op \in {"add", "remove"}
        PROVE  /\ IsFiniteSet(Indebted(note'))
               /\ Cardinality(Loggers(note', l, op)) =
                    Cardinality(Loggers(note, l, op)) + IF d = l /\ what = op THEN 1 ELSE 0
    BY <2>1, <2>2, OneMoreLogger
  <2>4. Balance(tagged, activity, note) => Balance(tagged', activity', note')
    <3>1. SUFFICES ASSUME Balance(tagged, activity, note), NEW l \in TagIds
                   PROVE  (IF l \in tagged' THEN 1 ELSE 0) =
                            (activity[l].added + Cardinality(Loggers(note', l, "add")))
                              - (activity[l].removed + Cardinality(Loggers(note', l, "remove")))
      BY <1>1 DEF Balance
    <3>. DEFINE more == Cardinality(Loggers(note, l, "add"))
                less == Cardinality(Loggers(note, l, "remove"))
    <3>2. activity[l].added \in Nat /\ activity[l].removed \in Nat
      BY DEF TagsInv
    <3>3. more \in Nat /\ less \in Nat
      BY <2>2, LoggersFinite
    <3>4. (IF l \in tagged THEN 1 ELSE 0) = (activity[l].added + more) - (activity[l].removed + less)
      BY <3>1 DEF Balance
    <3>5. Cardinality(Loggers(note', l, "add")) = more + IF d = l /\ what = "add" THEN 1 ELSE 0
      BY <2>3
    <3>6. Cardinality(Loggers(note', l, "remove")) = less + IF d = l /\ what = "remove" THEN 1 ELSE 0
      BY <2>3
    <3>7. CASE d # l
      <4>1. l \in tagged' <=> l \in tagged
        BY <1>1, <3>7 DEF d
      <4>. HIDE DEF more, less
      <4>. QED  BY <3>2, <3>3, <3>4, <3>5, <3>6, <3>7, <4>1
    <3>8. CASE d = l /\ what = "add"
      <4>1. l \in tagged' /\ l \notin tagged
        BY <1>1, <1>4, <3>8 DEF Changed, d, what
      <4>. HIDE DEF more, less
      <4>. QED  BY <3>2, <3>3, <3>4, <3>5, <3>6, <3>8, <4>1
    <3>9. CASE d = l /\ what = "remove"
      <4>1. l \notin tagged' /\ l \in tagged
        BY <1>1, <1>4, <3>9 DEF Changed, d, what
      <4>. HIDE DEF more, less
      <4>. QED  BY <3>2, <3>3, <3>4, <3>5, <3>6, <3>9, <4>1
    <3>. QED  BY <1>2, <3>7, <3>8, <3>9
  <2>5. IsFiniteSet(Indebted(note'))
    BY <1>2, <2>3
  <2>. QED  BY <1>1, <2>4, <2>5 DEF TagsInv
<1>. QED  BY <1>3, <1>4

(* What is logged is no longer to be logged. *)
LEMMA LogKeepsTags ==
  ASSUME WordsInv, TagsInv, NEW r \in Askers, LogTag(r)
  PROVE  TagsInv'
<1>. DEFINE d == note[r].about
            what == note[r].op
<1>1. /\ note[r].at = "log" /\ UNCHANGED <<tagged, unlogged>>
      /\ activity' = IF what = "add" THEN [activity EXCEPT ![d].added = @ + 1]
                     ELSE [activity EXCEPT ![d].removed = @ + 1]
  BY DEF LogTag
<1>2. what \in {"add", "remove"} /\ d \in TagIds /\ DOMAIN note = Askers
  BY <1>1 DEF WordsInv, NoteRows, RequestTrue
<1>3. note'[r].at # "log" /\ \A s \in Askers : s # r => note[s] = note'[s]
  BY <1>2 DEF LogTag, Ends, Silent
<1>4. Indebted(note') \subseteq Indebted(note)
  BY <1>3 DEF Indebted
<1>5. IsFiniteSet(Indebted(note'))
  BY <1>4, FS_Subset DEF TagsInv
<1>6. activity \in [TagIds -> [added : Nat, removed : Nat]]
  BY DEF TagsInv
<1>. HIDE DEF d, what
<1>7. ASSUME NEW l \in TagIds
      PROVE  /\ activity'[l].added = activity[l].added + IF d = l /\ what = "add" THEN 1 ELSE 0
             /\ activity'[l].removed = activity[l].removed + IF d = l /\ what = "remove" THEN 1 ELSE 0
  <2>1. activity[l].added \in Nat /\ activity[l].removed \in Nat
    BY <1>6
  <2>2. CASE d = l /\ what = "add"
    BY <1>1, <1>6, <2>1, <2>2
  <2>3. CASE d = l /\ what = "remove"
    BY <1>1, <1>6, <2>1, <2>3
  <2>4. CASE d # l
    BY <1>1, <1>6, <2>1, <2>4
  <2>. QED  BY <1>2, <2>2, <2>3, <2>4
<1>8. activity' \in [TagIds -> [added : Nat, removed : Nat]]
  <2>. DEFINE row == IF what = "add" THEN [activity[d] EXCEPT !.added = @ + 1]
                     ELSE [activity[d] EXCEPT !.removed = @ + 1]
  <2>1. row \in [added : Nat, removed : Nat]
    BY <1>2, <1>6
  <2>2. activity' = [activity EXCEPT ![d] = row]
    BY <1>1, <1>2, <1>6
  <2>. HIDE DEF row
  <2>. QED  BY <1>6, <2>1, <2>2
<1>9. Balance(tagged, activity, note) => Balance(tagged', activity', note')
  <2>1. SUFFICES ASSUME Balance(tagged, activity, note), NEW l \in TagIds
                 PROVE  (IF l \in tagged THEN 1 ELSE 0) =
                          (activity'[l].added + Cardinality(Loggers(note', l, "add")))
                            - (activity'[l].removed + Cardinality(Loggers(note', l, "remove")))
    BY <1>1 DEF Balance
  <2>. DEFINE more == Cardinality(Loggers(note', l, "add"))
              less == Cardinality(Loggers(note', l, "remove"))
  <2>2. activity[l].added \in Nat /\ activity[l].removed \in Nat
    BY <1>6
  <2>3. more \in Nat /\ less \in Nat
    BY <1>5, LoggersFinite
  <2>4. (IF l \in tagged THEN 1 ELSE 0) =
          (activity[l].added + Cardinality(Loggers(note, l, "add")))
            - (activity[l].removed + Cardinality(Loggers(note, l, "remove")))
    BY <2>1 DEF Balance
  <2>5. ASSUME NEW op \in {"add", "remove"}
        PROVE  Cardinality(Loggers(note, l, op)) =
                 Cardinality(Loggers(note', l, op)) + IF d = l /\ what = op THEN 1 ELSE 0
    <3>1. /\ note[r].at = "log" /\ note'[r].at # "log" /\ IsFiniteSet(Indebted(note'))
          /\ \A s \in Askers : s # r => note[s] = note'[s]
      BY <1>1, <1>3, <1>5
    <3>2. Cardinality(Loggers(note, l, op)) =
            Cardinality(Loggers(note', l, op)) + IF note[r].about = l /\ note[r].op = op THEN 1 ELSE 0
      BY <3>1, OneMoreLogger
    <3>. QED  BY <3>2 DEF d, what
  <2>6. Cardinality(Loggers(note, l, "add")) = more + IF d = l /\ what = "add" THEN 1 ELSE 0
    BY <2>5
  <2>7. Cardinality(Loggers(note, l, "remove")) = less + IF d = l /\ what = "remove" THEN 1 ELSE 0
    BY <2>5
  <2>. HIDE DEF more, less
  <2>8. /\ activity'[l].added + more = activity[l].added + Cardinality(Loggers(note, l, "add"))
        /\ activity'[l].removed + less = activity[l].removed + Cardinality(Loggers(note, l, "remove"))
    <3>1. CASE d # l
      BY <1>7, <2>2, <2>3, <2>6, <2>7, <3>1
    <3>2. CASE d = l /\ what = "add"
      BY <1>7, <2>2, <2>3, <2>6, <2>7, <3>2
    <3>3. CASE d = l /\ what = "remove"
      BY <1>7, <2>2, <2>3, <2>6, <2>7, <3>3
    <3>. QED  BY <1>2, <3>1, <3>2, <3>3
  <2>. QED  BY <2>4, <2>8 DEF more, less
<1>. QED  BY <1>1, <1>5, <1>8, <1>9 DEF TagsInv

(* Everything that a request does apart from the change and its log. *)
LEMMA OthersKeepTags ==
  ASSUME TagsInv, WordsInv, NEW r \in Askers,
         \/ CheckMention(r) \/ AppendComment(r) \/ Notify(r) \/ ReadNotice(r) \/ MarkRead(r)
         \/ UpdateTag(r) \/ FindTag(r)
  PROVE  TagsInv'
<1>1. note[r].at # "log" /\ UNCHANGED <<tagged, activity, unlogged>>
  BY DEF CheckMention, AppendComment, Notify, ReadNotice, MarkRead, UpdateTag, FindTag, At, tables
<1>2. PICK stage \in {"append", "notify", "row"} : Ends(r) \/ Goes(r, stage)
  BY DEF CheckMention, AppendComment, Notify, ReadNotice, MarkRead, UpdateTag, FindTag
<1>3. CASE Ends(r)
  <2>1. Silent.at # "log"
    BY DEF Silent
  <2>. QED  BY <1>1, <1>3, <2>1, RequestsTrue, TagsStay DEF Ends, Unlogging
<1>4. CASE Goes(r, stage)
  <2>. DEFINE n == [note[r] EXCEPT !.at = stage]
  <2>1. note' = [note EXCEPT ![r] = n]
    BY <1>4, RequestsTrue DEF Goes
  <2>2. n.at = stage
    BY RequestsTrue DEF RequestTrue, Silent
  <2>. HIDE DEF n
  <2>. QED  BY <1>1, <2>1, <2>2, RequestsTrue, TagsStay DEF Unlogging
<1>. QED  BY <1>2, <1>3, <1>4

(* A death before the log, and a deleted tag, are the two excuses. *)
LEMMA LossesKeepTags ==
  ASSUME TagsInv, WordsInv, NEW r \in Askers, GivesUp(r) \/ DeleteTag(r)
  PROVE  TagsInv'
<1>1. Ends(r) /\ UNCHANGED activity /\ Silent.at # "log"
  BY DEF GivesUp, DeleteTag, Silent
<1>2. CASE unlogged' = TRUE
  BY <1>1, <1>2, RequestsTrue, TagsExcused
<1>3. CASE unlogged' # TRUE
  <2>1. note[r].at # "log" /\ tagged' = tagged /\ unlogged' = unlogged
    BY <1>3 DEF GivesUp, DeleteTag, At, TagsInv
  <2>. QED  BY <1>1, <2>1, RequestsTrue, TagsStay DEF Ends, Unlogging
<1>. QED  BY <1>2, <1>3

LEMMA NotesStep == WordsInv /\ TagsInv /\ [NotesNext]_noteVars => WordsInv' /\ TagsInv'
<1>. SUFFICES ASSUME WordsInv, TagsInv, [NotesNext]_noteVars
              PROVE  WordsInv' /\ TagsInv'
  OBVIOUS
<1>1. CASE UNCHANGED <<said, notice, label, note, tagged, activity, unlogged>>
  BY <1>1 DEF WordsInv, NoteRows, NoticedIsSaid, PrivateIsOwned, TagsInv
<1>2. ASSUME NEW r \in Askers, NEW u \in People,
             \/ \E c \in Remarks, to \in People \cup {Absent} : BeginComment(r, u, c, to)
             \/ \E c \in Remarks : BeginReadNotice(r, u, c)
             \/ \E n \in 1 .. MaxSeq : BeginMarkRead(r, u, n)
             \/ \E l \in TagIds, private \in BOOLEAN : BeginUpdateTag(r, u, l, private)
             \/ \E l \in TagIds : BeginDeleteTag(r, u, l)
             \/ \E op \in {"add", "remove"}, l \in TagIds : BeginTag(r, u, op, l)
      PROVE  WordsInv' /\ TagsInv'
  <2>1. WordsInv' /\ Unlogging(r)
    BY <1>2, BeginningsAreTrue
  <2>. QED  BY <2>1, TagsStay DEF Unlogging
<1>3. ASSUME NEW r \in Askers, NEW u \in People, NEW l \in TagIds, NEW private \in BOOLEAN,
             CreateTag(r, u, l, private)
      PROVE  WordsInv' /\ TagsInv'
  BY <1>3, LabelsKeepWords DEF CreateTag, TagsInv
<1>4. ASSUME NEW r \in Askers, ChangeTag(r) \/ LogTag(r) \/ GivesUp(r)
      PROVE  WordsInv' /\ TagsInv'
  BY <1>4, StepsKeepWords, ChangeKeepsTags, LogKeepsTags, LossesKeepTags
<1>5. ASSUME NEW r \in Askers, DeleteTag(r)
      PROVE  WordsInv' /\ TagsInv'
  BY <1>5, LabelsKeepWords, LossesKeepTags
<1>6. ASSUME NEW r \in Askers,
             \/ CheckMention(r) \/ AppendComment(r) \/ Notify(r) \/ ReadNotice(r) \/ MarkRead(r)
             \/ UpdateTag(r) \/ FindTag(r)
      PROVE  WordsInv' /\ TagsInv'
  BY <1>6, StepsKeepWords, CommentsKeepWords, LabelsKeepWords, OthersKeepTags
<1>7. ASSUME NEW R \in SUBSET People, Reassign(R)
      PROVE  UNCHANGED <<said, notice, label, note, tagged, activity, unlogged>>
  BY <1>7 DEF Reassign, tables
<1>. QED  BY <1>1, <1>2, <1>3, <1>4, <1>5, <1>6, <1>7 DEF NotesNext, noteVars

THEOREM NotesInvariant == NotesSpec => [](WordsInv /\ TagsInv)
<1>. QED  BY WordsStart, TagsStart, NotesStep, PTL DEF NotesSpec

(* Who is notified finds the comment, the activities account for the tags of
   the conversation while no request died before its log and no tag was
   deleted, and a tag is private if and only if it has an owner. *)
THEOREM NotesStayTrue == NotesSpec => []NotesAreTrue
<1>1. WordsInv /\ TagsInv => NotesAreTrue
  BY BalanceIsLog DEF WordsInv, TagsInv, NotesAreTrue
<1>. QED  BY <1>1, NotesInvariant, PTL
=============================================================================
