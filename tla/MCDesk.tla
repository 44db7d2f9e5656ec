-------------------------------- MODULE MCDesk --------------------------------
(***************************************************************************)
(* One instance for a conversation and what surrounds it in the inbox: its *)
(* timeline, drafts, mailboxes, snoozes, call queues and notes.  They      *)
(* share no state in these models, so a behaviour belongs to one of them:  *)
(* part is chosen at first, and the others stay where they began.          *)
(***************************************************************************)
EXTENDS ConversationTimeline, EmailDrafts, Mailboxes, ConversationDesk, CallQueues,
        ConversationNotes

VARIABLE part
allVars == <<vars, draftVars, mailboxVars, deskVars, queueVars, noteVars, part>>

MCInit ==
  /\ Init /\ DraftsInit /\ MailboxesInit /\ DeskInit /\ QueuesInit /\ NotesInit
  /\ part \in {"timeline", "drafts", "mailboxes", "desk", "queues", "notes"}
  /\ part # "mailboxes" => serials = 0
MCNext ==
  \/ /\ part = "timeline" /\ Next
     /\ UNCHANGED <<draftVars, mailboxVars, deskVars, queueVars, noteVars, part>>
  \/ /\ part = "drafts" /\ DraftsNext
     /\ UNCHANGED <<vars, mailboxVars, deskVars, queueVars, noteVars, part>>
  \/ /\ part = "mailboxes" /\ MailboxesNext
     /\ UNCHANGED <<vars, draftVars, deskVars, queueVars, noteVars, part>>
  \/ /\ part = "desk" /\ DeskNext
     /\ UNCHANGED <<vars, draftVars, mailboxVars, queueVars, noteVars, part>>
  \/ /\ part = "queues" /\ QueuesNext
     /\ UNCHANGED <<vars, draftVars, mailboxVars, deskVars, noteVars, part>>
  \/ /\ part = "notes" /\ NotesNext
     /\ UNCHANGED <<vars, draftVars, mailboxVars, deskVars, queueVars, part>>

MCSpec == MCInit /\ [][MCNext]_allVars
=============================================================================
