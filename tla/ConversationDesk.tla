---------------------------- MODULE ConversationDesk ----------------------------
(***************************************************************************)
(* Status and snooze of a conversation: the metadata that an agent writes  *)
(* with PATCH /api/conversations/:id, and the revival of due snoozes by    *)
(* the minutely cron (snooze.ts).                                          *)
(*                                                                         *)
(* Times are ticks, a snooze of 0 is none.  Every statement on D1 and      *)
(* every call of a Durable Object is a step; an invocation may fail or die *)
(* between two of them, and those of the cron may overlap.  Left out:      *)
(* assignee and inbox, which are patched in the same way, who may read a   *)
(* conversation, and the relay to open sockets.                            *)
(***************************************************************************)
EXTENDS Naturals

CONSTANTS
  Threads,      \* conversations
  Helpers,      \* agents' requests
  Revivals,     \* cron invocations
  NoThread,
  Horizon,      \* bound on the clock
  MaxChanges    \* bound on the requests

ASSUME DeskAssumption == NoThread \notin Threads /\ {Horizon, MaxChanges} \subseteq Nat /\ Horizon > 0

VARIABLES
  clock,
  thread,     \* conversations: status, snooze (snoozed_until)
  revival,    \* a cron invocation: its stage, its now, and the rows it selected
  helper,     \* a request: its stage, its patch, and the row it read
  history,    \* activities of the Durable Objects
  changes

deskVars == <<clock, thread, revival, helper, history, changes>>

Rows == [status : {"open", "archived"}, snooze : 0 .. Horizon]
Patches == [status : {"open", "archived"}] \cup [snooze : 0 .. Horizon]
Open == [status |-> "open", snooze |-> 0]
Rested == [at |-> "idle", now |-> 0, due |-> {}]
Unasked == [at |-> "idle", to |-> NoThread, patch |-> Open, saw |-> Open]

DeskInit ==
  /\ clock = 1
  /\ thread = [c \in Threads |-> Open]
  /\ revival = [k \in Revivals |-> Rested]
  /\ helper = [a \in Helpers |-> Unasked]
  /\ history = {}
  /\ changes = 0

DeskTypeOK ==
  /\ clock \in 1 .. Horizon
  /\ thread \in [Threads -> Rows]
  /\ \A k \in Revivals : revival[k].at \in {"idle", "update", "record"} /\ revival[k].due \subseteq Threads
  /\ \A a \in Helpers : helper[a].at \in {"idle", "write", "record"} /\ helper[a].saw \in Rows
  /\ changes \in 0 .. MaxChanges

Pass ==
  /\ clock < Horizon
  /\ clock' = clock + 1
  /\ UNCHANGED <<thread, revival, helper, history, changes>>

-----------------------------------------------------------------------------
(* The cron.                                                                *)

Due(c, now) == thread[c].status = "open" /\ thread[c].snooze \in 1 .. now

SelectDue(k) ==
  LET due == {c \in Threads : Due(c, clock)} IN
  /\ revival[k].at = "idle" /\ due # {}
  /\ revival' = [revival EXCEPT ![k] = [at |-> "update", now |-> clock, due |-> due]]
  /\ UNCHANGED <<clock, thread, helper, history, changes>>

(* Faulty: the rows that were selected. *)
Selected(k) == revival[k].due

(* The update states the condition once more and ignores the selection. *)
Revived(k) == {c \in Threads : Due(c, revival[k].now)}

Revive(k) ==
  /\ revival[k].at = "update"
  /\ thread' = [c \in Threads |-> IF c \in Revived(k) THEN [thread[c] EXCEPT !.snooze = 0] ELSE thread[c]]
  /\ revival' = [revival EXCEPT ![k].at = "record"]
  /\ UNCHANGED <<clock, helper, history, changes>>

(* snooze.expired, once for each selected row and in any order. *)
RecordExpiry(k, c) ==
  /\ revival[k].at = "record" /\ c \in revival[k].due
  /\ history' = history \cup {[on |-> c, action |-> "snooze.expired"]}
  /\ revival' = IF revival[k].due = {c} THEN [revival EXCEPT ![k] = Rested]
                ELSE [revival EXCEPT ![k].due = @ \ {c}]
  /\ UNCHANGED <<clock, thread, helper, changes>>

RevivalDies(k) ==
  /\ revival[k].at # "idle"
  /\ revival' = [revival EXCEPT ![k] = Rested]
  /\ UNCHANGED <<clock, thread, helper, history, changes>>

-----------------------------------------------------------------------------
(* An agent's request.                                                      *)

(* Any instant is a snooze, one that has passed included. *)
ReadForPatch(a, c, patch) ==
  /\ helper[a].at = "idle" /\ changes < MaxChanges
  /\ changes' = changes + 1
  /\ helper' = [helper EXCEPT ![a] = [at |-> "write", to |-> c, patch |-> patch, saw |-> thread[c]]]
  /\ UNCHANGED <<clock, thread, revival, history>>

Patched(row, patch) == [f \in DOMAIN row |-> IF f \in DOMAIN patch THEN patch[f] ELSE row[f]]

(* What the patch names is written whatever the row has become; there is
   something to record if it differs from the row that was read. *)
WritePatch(a) ==
  LET h == helper[a] IN
  /\ h.at = "write"
  /\ thread' = [thread EXCEPT ![h.to] = Patched(@, h.patch)]
  /\ helper' = [helper EXCEPT ![a] =
       IF Patched(h.saw, h.patch) = h.saw THEN Unasked ELSE [@ EXCEPT !.at = "record"]]
  /\ UNCHANGED <<clock, revival, history, changes>>

RecordPatch(a) ==
  /\ helper[a].at = "record"
  /\ history' = history \cup {[on |-> helper[a].to, action |-> "conversation.updated"]}
  /\ helper' = [helper EXCEPT ![a] = Unasked]
  /\ UNCHANGED <<clock, thread, revival, changes>>

RequestFails(a) ==
  /\ helper[a].at # "idle"
  /\ helper' = [helper EXCEPT ![a] = Unasked]
  /\ UNCHANGED <<clock, thread, revival, history, changes>>

DeskNext ==
  \/ Pass
  \/ \E k \in Revivals :
       \/ SelectDue(k) \/ Revive(k) \/ RevivalDies(k)
       \/ \E c \in Threads : RecordExpiry(k, c)
  \/ \E a \in Helpers :
       \/ WritePatch(a) \/ RecordPatch(a) \/ RequestFails(a)
       \/ \E c \in Threads, patch \in Patches : ReadForPatch(a, c, patch)

DeskSpec == DeskInit /\ [][DeskNext]_deskVars

-----------------------------------------------------------------------------
(* The cron ends only snoozes that are due, and not those of archived
   conversations, although agents snooze and archive again while its
   selection is under way (ADR 0019: it "cannot alter an
   archived/future-snoozed conversation"). *)
SnoozeStands ==
  [][\A k \in Revivals, c \in Threads :
       revival[k].at = "update" /\ revival'[k].at = "record" /\ thread'[c] # thread[c] =>
         thread[c].status = "open" /\ thread[c].snooze <= clock]_deskVars
=============================================================================
