--------------------------- MODULE ConversationNotes ---------------------------
(***************************************************************************)
(* What agents note about one conversation: comments and the notifications *)
(* of those they mention, tags, and the read cursor (index.ts), the tags   *)
(* of the workspace (manage.ts), and the timeline of the conversation's    *)
(* Durable Object, which keeps the comments and the activities             *)
(* (conversation-do.ts, activity.ts).                                      *)
(*                                                                         *)
(* D1 and the object are written one after the other.  Each statement and  *)
(* each call of the object is a step, and a request may die before any of  *)
(* them.                                                                   *)
(*                                                                         *)
(* Left out: what a comment says, the list of mentions (one is enough), the *)
(* names, colours and parents of tags, and the broadcasts.                 *)
(***************************************************************************)
EXTENDS Integers, FiniteSets

CONSTANTS
  People,      \* the members of the workspace
  Managers,
  Remarks,     \* ids of comments
  TagIds,      \* ids of tags
  Askers,      \* requests
  Absent,      \* no one, no row
  MaxSeq,      \* bound on the messages
  MaxNotes     \* bound on the requests

ASSUME NotesAssumption == Managers \subseteq People /\ Absent \notin People \cup TagIds /\ MaxSeq \in Nat /\ MaxNotes \in Nat

VARIABLES
  mayRead,     \* canReadConversation
  said,        \* comments of the timeline
  notice,      \* comment_notifications: notice[c] names whom and whether it was read
  label,       \* tags
  tagged,      \* conversation_tags
  activity,    \* activities of the timeline: how often a tag was added and removed
  cursor,      \* conversation_reads
  note,        \* requests
  unlogged,    \* whether a change of the tags could not be logged
  noted

noteVars == <<mayRead, said, notice, label, tagged, activity, cursor, note, unlogged, noted>>

NoLabel == [exists |-> FALSE, private |-> FALSE, owner |-> Absent]
NoNotice == [to |-> Absent, read |-> FALSE]
Silent == [op |-> "none", at |-> "none", by |-> Absent, to |-> Absent, about |-> Absent, private |-> FALSE, owner |-> Absent]

NotesTypeOK ==
  /\ mayRead \subseteq People /\ said \subseteq Remarks /\ tagged \subseteq TagIds
  /\ \A c \in Remarks : notice[c].to \in People \cup {Absent}
  /\ \A l \in TagIds : label[l].owner \in People \cup {Absent}
  /\ cursor \in [People -> 0 .. MaxSeq]

NotesInit ==
  /\ mayRead = People
  /\ said = {}
  /\ notice = [c \in Remarks |-> NoNotice]
  /\ label = [l \in TagIds |-> NoLabel]
  /\ tagged = {}
  /\ activity = [l \in TagIds |-> [added |-> 0, removed |-> 0]]
  /\ cursor = [u \in People |-> 0]
  /\ note = [r \in Askers |-> Silent]
  /\ unlogged = FALSE
  /\ noted = 0

-----------------------------------------------------------------------------
tables == <<said, notice, label, tagged, activity, cursor, unlogged>>

Asks(r, q) ==
  /\ note[r] = Silent
  /\ noted < MaxNotes
  /\ noted' = noted + 1
  /\ note' = [note EXCEPT ![r] = q]
At(r, op, stage) == note[r].op = op /\ note[r].at = stage
Goes(r, stage) == note' = [note EXCEPT ![r].at = stage]
Ends(r) == note' = [note EXCEPT ![r] = Silent]

(* Access to the inbox or the mailbox of the conversation changes. *)
Reassign(R) ==
  /\ R # mayRead
  /\ mayRead' = R
  /\ UNCHANGED <<tables, note, noted>>

(* A request is refused or fails, or its Worker dies. *)
GivesUp(r) ==
  /\ note[r] # Silent
  /\ Ends(r)
  /\ unlogged' = (unlogged \/ note[r].at = "log")
  /\ UNCHANGED <<mayRead, said, notice, label, tagged, activity, cursor, noted>>

-----------------------------------------------------------------------------
(* Comments.                                                                *)

BeginComment(r, u, c, to) ==
  /\ u \in mayRead /\ u # to
  /\ c \notin said /\ \A x \in Askers : note[x].about # c
  /\ Asks(r, [Silent EXCEPT !.op = "comment", !.at = IF to = Absent THEN "append" ELSE "mention",
                            !.by = u, !.to = to, !.about = c])
  /\ UNCHANGED <<mayRead, tables>>

CheckMention(r) ==
  /\ At(r, "comment", "mention")
  /\ note[r].to \in mayRead
  /\ Goes(r, "append")
  /\ UNCHANGED <<mayRead, tables, noted>>

AppendComment(r) ==
  /\ At(r, "comment", "append")
  /\ said' = said \cup {note[r].about}
  /\ IF note[r].to = Absent THEN Ends(r) ELSE Goes(r, "notify")
  /\ UNCHANGED <<mayRead, notice, label, tagged, activity, cursor, unlogged, noted>>

Notify(r) ==
  /\ At(r, "comment", "notify")
  /\ notice' = [notice EXCEPT ![note[r].about] = [to |-> note[r].to, read |-> FALSE]]
  /\ Ends(r)
  /\ UNCHANGED <<mayRead, said, label, tagged, activity, cursor, unlogged, noted>>

(* filterReadableNotifications: who lost the conversation sees no
   notification of it, and cannot mark it as read. *)
Noticed(u) == {c \in Remarks : notice[c].to = u /\ u \in mayRead}
BeginReadNotice(r, u, c) ==
  /\ c \in Noticed(u)
  /\ Asks(r, [Silent EXCEPT !.op = "notice", !.at = "write", !.by = u, !.about = c])
  /\ UNCHANGED <<mayRead, tables>>
ReadNotice(r) ==
  /\ At(r, "notice", "write")
  /\ notice' = [notice EXCEPT ![note[r].about].read = TRUE]
  /\ Ends(r)
  /\ UNCHANGED <<mayRead, said, label, tagged, activity, cursor, unlogged, noted>>

(* The thread of a tab marks what it shows as read; the last write counts. *)
BeginMarkRead(r, u, n) ==
  /\ u \in mayRead
  /\ Asks(r, [Silent EXCEPT !.op = "cursor", !.at = "write", !.by = u, !.about = n])
  /\ UNCHANGED <<mayRead, tables>>
MarkRead(r) ==
  /\ At(r, "cursor", "write")
  /\ cursor' = [cursor EXCEPT ![note[r].by] = note[r].about]
  /\ Ends(r)
  /\ UNCHANGED <<mayRead, said, notice, label, tagged, activity, unlogged, noted>>

-----------------------------------------------------------------------------
(* Tags of the workspace.                                                   *)

OwnsTag(u, l) == label[l].private /\ label[l].owner = u
MayEdit(u, l) == label[l].exists /\ (u \in Managers \/ OwnsTag(u, l))

CreateTag(r, u, l, private) ==
  /\ note[r] = Silent
  /\ private \/ u \in Managers
  /\ ~label[l].exists /\ activity[l].added = 0
  /\ label' = [label EXCEPT ![l] = [exists |-> TRUE, private |-> private, owner |-> IF private THEN u ELSE Absent]]
  /\ UNCHANGED <<mayRead, said, notice, tagged, activity, cursor, note, unlogged, noted>>

(* updateTag, with a visibility: a private tag keeps its owner. *)
BeginUpdateTag(r, u, l, private) ==
  /\ MayEdit(u, l)
  /\ private \/ u \in Managers
  /\ Asks(r, [Silent EXCEPT !.op = "update", !.at = "write", !.by = u, !.about = l, !.private = private,
                !.owner = IF ~private THEN Absent ELSE IF label[l].owner = Absent THEN u ELSE label[l].owner])
  /\ UNCHANGED <<mayRead, tables>>
UpdateTag(r) ==
  LET l == note[r].about IN
  /\ At(r, "update", "write")
  /\ label' = IF label[l].exists
              THEN [label EXCEPT ![l] = [exists |-> TRUE, private |-> note[r].private, owner |-> note[r].owner]]
              ELSE label
  /\ Ends(r)
  /\ UNCHANGED <<mayRead, said, notice, tagged, activity, cursor, unlogged, noted>>

(* deleteTag: conversation_tags cascades, and no activity says so. *)
BeginDeleteTag(r, u, l) ==
  /\ MayEdit(u, l)
  /\ Asks(r, [Silent EXCEPT !.op = "delete", !.at = "write", !.by = u, !.about = l])
  /\ UNCHANGED <<mayRead, tables>>
DeleteTag(r) ==
  LET l == note[r].about IN
  /\ At(r, "delete", "write")
  /\ label' = [label EXCEPT ![l] = NoLabel]
  /\ tagged' = tagged \ {l}
  /\ unlogged' = (unlogged \/ l \in tagged)
  /\ Ends(r)
  /\ UNCHANGED <<mayRead, said, notice, activity, cursor, noted>>

-----------------------------------------------------------------------------
(* Tags of the conversation.                                                *)

BeginTag(r, u, op, l) ==
  /\ u \in mayRead
  /\ Asks(r, [Silent EXCEPT !.op = op, !.at = "tag", !.by = u, !.about = l])
  /\ UNCHANGED <<mayRead, tables>>

MayUse(u, l) == label[l].exists /\ (u \in Managers \/ ~label[l].private \/ label[l].owner = u)
FindTag(r) ==
  /\ note[r].at = "tag"
  /\ MayUse(note[r].by, note[r].about)
  /\ Goes(r, "row")
  /\ UNCHANGED <<mayRead, tables, noted>>

(* Faulty: whoever asked is on record. *)
Wanted(r) == TRUE

(* meta.changes of the one statement. *)
Changed(r) == note[r].op = "add" <=> note[r].about \notin tagged

(* The insert does nothing on a conflict, and fails if the tag is gone. *)
ChangeTag(r) ==
  LET l == note[r].about IN
  /\ note[r].at = "row"
  /\ note[r].op = "add" => label[l].exists
  /\ tagged' = IF note[r].op = "add" THEN tagged \cup {l} ELSE tagged \ {l}
  /\ IF Changed(r) THEN Goes(r, "log") ELSE Ends(r)
  /\ UNCHANGED <<mayRead, said, notice, label, activity, cursor, unlogged, noted>>

(* appendActivity, after the broadcast. *)
LogTag(r) ==
  LET l == note[r].about IN
  /\ note[r].at = "log"
  /\ activity' = IF note[r].op = "add" THEN [activity EXCEPT ![l].added = @ + 1] ELSE [activity EXCEPT ![l].removed = @ + 1]
  /\ Ends(r)
  /\ UNCHANGED <<mayRead, said, notice, label, tagged, cursor, unlogged, noted>>

NotesNext ==
  \/ \E R \in SUBSET People : Reassign(R)
  \/ \E r \in Askers :
       \/ \E u \in People :
            \/ \E c \in Remarks, to \in People \cup {Absent} : BeginComment(r, u, c, to)
            \/ \E c \in Remarks : BeginReadNotice(r, u, c)
            \/ \E n \in 1 .. MaxSeq : BeginMarkRead(r, u, n)
            \/ \E l \in TagIds, private \in BOOLEAN : CreateTag(r, u, l, private) \/ BeginUpdateTag(r, u, l, private)
            \/ \E l \in TagIds : BeginDeleteTag(r, u, l)
            \/ \E op \in {"add", "remove"}, l \in TagIds : BeginTag(r, u, op, l)
       \/ CheckMention(r) \/ AppendComment(r) \/ Notify(r) \/ ReadNotice(r) \/ MarkRead(r)
       \/ UpdateTag(r) \/ DeleteTag(r) \/ FindTag(r) \/ ChangeTag(r) \/ LogTag(r)
       \/ GivesUp(r)

NotesSpec == NotesInit /\ [][NotesNext]_noteVars

-----------------------------------------------------------------------------
(* A notification is about a comment that its reader finds in the timeline. *)
NoticedIsSaid == \A c \in Remarks : notice[c].to # Absent => c \in said

(* The activities of the timeline account for the tags of the conversation:
   what two agents do at the same time is logged once each if it changed
   something, and not if it did not.  That is so unless a request died after
   its change, or a tag was deleted. *)
Logging(l, op) == Cardinality({r \in Askers : At(r, op, "log") /\ note[r].about = l})
LogAccountsForTags ==
  ~unlogged => \A l \in TagIds :
    (IF l \in tagged THEN 1 ELSE 0) =
      (activity[l].added + Logging(l, "add")) - (activity[l].removed + Logging(l, "remove"))

(* A tag is private if and only if it has an owner. *)
PrivateIsOwned == \A l \in TagIds : label[l].private <=> label[l].owner # Absent

NotesAreTrue == NoticedIsSaid /\ LogAccountsForTags /\ PrivateIsOwned

(* What the code does not keep: "Existing private ownership is preserved
   unless it becomes shared" (manage.ts:177-179).  An administrator who read
   the shared tag before another one made it private takes it from him. *)
OwnershipStays ==
  [][\A l \in TagIds : label[l].private /\ label'[l].private => label'[l].owner = label[l].owner]_noteVars

(* Nor these: who is mentioned is notified, and a read cursor advances. *)
MentionedIsNotified ==
  (\A r \in Askers : note[r] = Silent) => \A c \in said : notice[c].to # Absent
CursorAdvances == [][\A u \in People : cursor'[u] >= cursor[u]]_noteVars
=============================================================================
