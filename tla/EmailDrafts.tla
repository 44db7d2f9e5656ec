------------------------------ MODULE EmailDrafts ------------------------------
(***************************************************************************)
(* The draft of one agent's reply to one email conversation: the row and   *)
(* its revisions (email-drafts.ts), and the tabs that edit, save, submit   *)
(* and clear it (Composer.tsx).                                            *)
(*                                                                         *)
(* A text is the number of the edit that made it, 0 is no text; the id of  *)
(* a submission is a clientMessageId.  A save is a request on its way: its *)
(* answer may be lost, and it may reach the row after its tab gave it up   *)
(* or was reloaded.                                                        *)
(*                                                                         *)
(* Left out: attachments, subject, notes, other agents, permissions.       *)
(***************************************************************************)
EXTENDS Naturals

CONSTANTS
  Tabs,
  MaxEdits,     \* bound on the texts that are typed
  MaxTrouble    \* bound on lost answers, refused sends and reloads

ASSUME DraftAssumption == MaxEdits \in Nat /\ MaxTrouble \in Nat

VARIABLES
  draft,      \* email_drafts: revision (0 for no row), text, id (clientMessageId, 0 for none)
  tab,        \* the composer of a tab
  saves,      \* PUT requests that the Worker has not answered
  outbox,     \* messages given to POST messages: text and id
  accepted,   \* those of them that the provider took
  edits, submits, trouble

draftVars == <<draft, tab, saves, outbox, accepted, edits, submits, trouble>>

TabStages == {"loading", "loaded", "editing", "unusable", "submitting", "saving", "saving again",
           "sending", "sent", "locked", "clearing", "cleared"}

(* saw is the row that hydration read. *)
NoDraft == [rev |-> 0, text |-> 0, id |-> 0]
Opened(session) == [at |-> "loading", session |-> session, rev |-> 0, text |-> 0, id |-> 0,
                    dirty |-> FALSE, unsaved |-> FALSE, saw |-> NoDraft]

DraftsInit ==
  /\ draft = NoDraft
  /\ tab = [t \in Tabs |-> Opened(0)]
  /\ saves = {} /\ outbox = {} /\ accepted = {}
  /\ edits = 0 /\ submits = 0 /\ trouble = 0

DraftsTypeOK ==
  /\ draft \in [rev : Nat, text : 0 .. MaxEdits, id : Nat]
  /\ \A t \in Tabs :
       /\ tab[t].at \in TabStages /\ tab[t].text \in 0 .. MaxEdits
       /\ tab[t].dirty \in BOOLEAN /\ tab[t].unsaved \in BOOLEAN
  /\ accepted \subseteq outbox

Waiting(t) == \E q \in saves : q.by = t /\ q.session = tab[t].session /\ ~q.lost
MoveTo(t, stage) == tab' = [tab EXCEPT ![t].at = stage]

-----------------------------------------------------------------------------
(* The tab.                                                                 *)

(* GET draft; its answer takes a while. *)
ReadDraft(t) ==
  /\ tab[t].at = "loading"
  /\ tab' = [tab EXCEPT ![t].at = "loaded", ![t].saw = draft]
  /\ UNCHANGED <<draft, saves, outbox, accepted, edits, submits, trouble>>

(* What was typed meanwhile is kept; a submission of the server locks the
   composer, or makes it unusable if something was typed. *)
Hydrate(t) ==
  LET saw == tab[t].saw IN
  /\ tab[t].at = "loaded"
  /\ tab' = [tab EXCEPT
       ![t].rev = saw.rev, ![t].saw = NoDraft,
       ![t].text = IF tab[t].dirty THEN @ ELSE saw.text,
       ![t].id = IF tab[t].dirty THEN @ ELSE saw.id,
       ![t].at = IF saw.id = 0 THEN "editing" ELSE IF tab[t].dirty THEN "unusable" ELSE "locked"]
  /\ UNCHANGED <<draft, saves, outbox, accepted, edits, submits, trouble>>

Type(t) ==
  /\ tab[t].at \in {"loading", "loaded", "editing", "unusable"}
  /\ edits < MaxEdits
  /\ edits' = edits + 1
  /\ tab' = [tab EXCEPT ![t].text = edits + 1, ![t].dirty = TRUE, ![t].unsaved = TRUE]
  /\ UNCHANGED <<draft, saves, outbox, accepted, submits, trouble>>

Request(t) == [by |-> t, session |-> tab[t].session, rev |-> tab[t].rev, text |-> tab[t].text,
               id |-> tab[t].id, at |-> "update", lost |-> FALSE]

(* Saves of a tab wait for each other. *)
Autosave(t) ==
  /\ tab[t].at = "editing" /\ tab[t].unsaved /\ ~Waiting(t)
  /\ saves' = saves \cup {Request(t)}
  /\ tab' = [tab EXCEPT ![t].unsaved = FALSE]
  /\ UNCHANGED <<draft, outbox, accepted, edits, submits, trouble>>

(* The payload with its fresh id is fixed before any request is made. *)
Submit(t) ==
  /\ tab[t].at = "editing" /\ tab[t].text # 0
  /\ submits' = submits + 1
  /\ tab' = [tab EXCEPT ![t].at = "submitting", ![t].id = submits + 1]
  /\ UNCHANGED <<draft, saves, outbox, accepted, edits, trouble>>

SaveSubmission(t) ==
  /\ tab[t].at = "submitting" /\ ~Waiting(t)
  /\ saves' = saves \cup {Request(t)}
  /\ MoveTo(t, "saving")
  /\ UNCHANGED <<draft, outbox, accepted, edits, submits, trouble>>

SendDraft(t) ==
  /\ tab[t].at = "sending"
  /\ outbox' = outbox \cup {[text |-> tab[t].text, id |-> tab[t].id]}
  /\ MoveTo(t, "sent")
  /\ UNCHANGED <<draft, saves, accepted, edits, submits, trouble>>

(* sendOutbound, for one id at most once. *)
TakeMessage ==
  \E m \in outbox \ accepted :
    /\ accepted' = accepted \cup {m}
    /\ UNCHANGED <<draft, tab, saves, outbox, edits, submits, trouble>>

WasAccepted(id) == \E m \in accepted : m.id = id

(* The answer of the send, or the button that appears once the delivery is
   known to be accepted. *)
SendSucceeded(t) ==
  /\ tab[t].at \in {"sent", "locked"} /\ WasAccepted(tab[t].id)
  /\ MoveTo(t, "clearing")
  /\ UNCHANGED <<draft, saves, outbox, accepted, edits, submits, trouble>>

SendUncertain(t) ==
  /\ tab[t].at = "sent" /\ trouble < MaxTrouble
  /\ trouble' = trouble + 1
  /\ MoveTo(t, "locked")
  /\ UNCHANGED <<draft, saves, outbox, accepted, edits, submits>>

(* DELETE draft: only the submission that it names. *)
Clear(t) ==
  /\ tab[t].at = "clearing" /\ ~Waiting(t)
  /\ draft' = IF draft.id = tab[t].id /\ draft.rev > 0
              THEN [rev |-> draft.rev + 1, text |-> 0, id |-> 0] ELSE draft
  /\ MoveTo(t, "cleared")
  /\ UNCHANGED <<saves, outbox, accepted, edits, submits, trouble>>

(* The row is read back before the composer is emptied. *)
Confirm(t) ==
  /\ tab[t].at = "cleared"
  /\ IF draft.id = 0 /\ draft.text = 0
     THEN tab' = [tab EXCEPT ![t] = [Opened(@.session) EXCEPT !.at = "editing", !.rev = draft.rev]]
     ELSE MoveTo(t, "locked")
  /\ UNCHANGED <<draft, saves, outbox, accepted, edits, submits, trouble>>

Reload(t) ==
  /\ trouble < MaxTrouble
  /\ trouble' = trouble + 1
  /\ tab' = [tab EXCEPT ![t] = Opened(@.session + 1)]
  /\ UNCHANGED <<draft, saves, outbox, accepted, edits, submits>>

-----------------------------------------------------------------------------
(* A save on the Worker: saveEmailDraft.                                    *)

(* A save that was refused is tried once more if it is a submission. *)
Answered(q, rev) ==
  tab' = IF q.lost \/ tab[q.by].session # q.session THEN tab
         ELSE [tab EXCEPT ![q.by].rev = IF rev = 0 THEN @ ELSE rev,
                          ![q.by].at = IF @ \notin {"saving", "saving again"} THEN @
                                       ELSE IF rev > 0 THEN "sending"
                                       ELSE IF @ = "saving" THEN "saving again" ELSE "locked"]

Leave(q) == saves' = (saves \ {q}) \cup
  IF ~q.lost /\ tab[q.by].session = q.session /\ tab[q.by].at = "saving" /\ tab'[q.by].at = "saving again"
  THEN {[q EXCEPT !.at = "update"]} ELSE {}
Proceed(q, stage) == saves' = (saves \ {q}) \cup {[q EXCEPT !.at = stage]}

(* Faulty: the last save wins. *)
AnyRevision(q) == draft.rev > 0
Replaces(q) == draft.rev > 0 /\ draft.rev = q.rev /\ draft.id = 0

SaveUpdate(q) ==
  /\ q.at = "update"
  /\ IF Replaces(q)
     THEN /\ draft' = [rev |-> draft.rev + 1, text |-> q.text, id |-> q.id]
          /\ Answered(q, q.rev + 1) /\ Leave(q)
     ELSE Proceed(q, IF q.rev = 0 THEN "insert" ELSE "recover") /\ UNCHANGED <<draft, tab>>
  /\ UNCHANGED <<outbox, accepted, edits, submits, trouble>>

SaveInsert(q) ==
  /\ q.at = "insert"
  /\ IF draft.rev = 0
     THEN /\ draft' = [rev |-> 1, text |-> q.text, id |-> q.id]
          /\ Answered(q, 1) /\ Leave(q)
     ELSE Proceed(q, "recover") /\ UNCHANGED <<draft, tab>>
  /\ UNCHANGED <<outbox, accepted, edits, submits, trouble>>

(* Faulty: a submitted draft answers every later submission. *)
SomeSubmission(q) == q.id > 0 /\ draft.id > 0

(* Only an identical submission recovers a lost answer. *)
Identical(q) == q.id > 0 /\ draft.id = q.id /\ draft.text = q.text /\ draft.rev \in {q.rev, q.rev + 1}

SaveRecover(q) ==
  /\ q.at = "recover"
  /\ Answered(q, IF Identical(q) THEN draft.rev ELSE 0) /\ Leave(q)
  /\ UNCHANGED <<draft, outbox, accepted, edits, submits, trouble>>

(* The tab gives a save up; the request may still arrive, and a submission
   is repeated meanwhile. *)
GiveUp(q) ==
  /\ ~q.lost /\ trouble < MaxTrouble
  /\ trouble' = trouble + 1
  /\ Answered(q, 0)
  /\ saves' = (saves \ {q}) \cup {[q EXCEPT !.lost = TRUE]} \cup
       IF tab[q.by].session = q.session /\ tab[q.by].at = "saving"
       THEN {[q EXCEPT !.at = "update"]} ELSE {}
  /\ UNCHANGED <<draft, outbox, accepted, edits, submits>>

DraftsNext ==
  \/ \E t \in Tabs :
       \/ ReadDraft(t) \/ Hydrate(t) \/ Type(t) \/ Autosave(t) \/ Submit(t) \/ SaveSubmission(t)
       \/ SendDraft(t) \/ SendSucceeded(t) \/ SendUncertain(t) \/ Clear(t) \/ Confirm(t) \/ Reload(t)
  \/ \E q \in saves : SaveUpdate(q) \/ SaveInsert(q) \/ SaveRecover(q) \/ GiveUp(q)
  \/ TakeMessage

DraftsSpec == DraftsInit /\ [][DraftsNext]_draftVars

-----------------------------------------------------------------------------
(* What was typed once is not sent twice, whichever tabs show it, submit it,
   repeat a save or are reloaded (Composer.tsx: "Retry only the identical
   persisted submission, never a fresh ID"). *)
SentOnce == \A m, n \in outbox : m.text = n.text => m.id = n.id

(* A submission leaves the row only when its message was accepted. *)
SubmittedStays == [][draft.id # 0 /\ draft'.id # draft.id => WasAccepted(draft.id)]_draftVars
=============================================================================
