-------------------------------- MODULE Sidebar --------------------------------
(***************************************************************************)
(* The sidebar of one agent: getSidebar and updateSidebarPreferences       *)
(* (workspace-api.ts), the list that a click in it asks for                *)
(* (queries.ts), and the tabs of the agent that draw it and change how it  *)
(* is drawn (Sidebar.tsx, SidebarTree.tsx).                                *)
(*                                                                         *)
(* Three walks go over the tree of the inboxes, each in its own way: the   *)
(* rows that are drawn, the count beside each row (a recursive query) and  *)
(* the inboxes that a click selects (inbox-tree.ts).                       *)
(*                                                                         *)
(* Left out: labels and counts of smart views and channels, search, the    *)
(* order of rows and sections, and what the keyboard focuses.              *)
(***************************************************************************)
EXTENDS InboxTree

CONSTANTS
  Tabs,
  Items,       \* inboxes that the agent collapses, pins or hides
  NoField,
  MaxToggles

ASSUME SidebarAssumption == NoField \notin {"collapsed", "pinned"} /\ MaxToggles \in Nat

VARIABLES
  readable,    \* getReadableInboxIds of the agent
  kept,        \* the row of user_sidebar_preferences
  tab,         \* the tabs of the agent
  last,        \* what the agent last made of each field
  excused,     \* the fields whose last change failed or met another one
  toggles

sidebarVars == <<readable, kept, tab, last, excused, toggles>>

(* The six columns are treated alike; two stand for them. *)
Fields == {"collapsed", "pinned"}
DefaultPreferences == [f \in Fields |-> {}]

NoPatch == [field |-> NoField, ids |-> {}]
NoUpdate == [at |-> "none", patch |-> NoPatch, next |-> DefaultPreferences, alone |-> TRUE]
FreshTab == [shown |-> DefaultPreferences, timer |-> NoPatch, before |-> DefaultPreferences, update |-> NoUpdate]

Preferences == [Fields -> SUBSET Items]
Patches == {NoPatch} \cup [field : Fields, ids : SUBSET Items]
Updates == {NoUpdate} \cup [at : {"load", "permit", "write", "answer"}, patch : Patches \ {NoPatch},
                           next : Preferences, alone : BOOLEAN]

SidebarTypeOK ==
  /\ readable \subseteq Inboxes
  /\ kept \in Preferences /\ last \in Preferences
  /\ tab \in [Tabs -> [shown : Preferences, timer : Patches, before : Preferences, update : Updates]]
  /\ excused \subseteq Fields
  /\ toggles \in 0 .. MaxToggles

SidebarInit ==
  /\ readable = Inboxes
  /\ kept = DefaultPreferences
  /\ tab = [t \in Tabs |-> FreshTab]
  /\ last = DefaultPreferences
  /\ excused = {}
  /\ toggles = 0

-----------------------------------------------------------------------------
(* The three walks over a tree with the parents p, for an agent who may read
   the inboxes R.                                                           *)

(* Faulty: an inbox whose parent cannot be read hangs nowhere. *)
TopmostRows(p, R) == {i \in R : p[i] = Root}

(* getSidebar: the rows without a parent that can be read are drawn first,
   and below each row the readable inboxes of which it is the parent.  What
   can be read leaves out archived inboxes, so a row below an archived or an
   unreadable one goes to the top, whatever can be read further up:
   Promoted. *)
Rows(p, R) == {i \in R : p[i] = Root \/ p[i] \notin R}
Levels == 0 .. Cardinality(Inboxes)
DrawnBelow(p, i, R) ==
  LET down[k \in Levels] == IF k = 0 THEN {i} ELSE {j \in R : p[j] \in down[k-1]}
  IN UNION {down[k] : k \in Levels}
Drawn(p, R) == UNION {DrawnBelow(p, i, R) : i \in Rows(p, R)}

(* countInboxDescendants: the recursive query, UNION until nothing is new,
   over the readable rows of the table.  It stops at an inbox that cannot be
   read: CountedBelow. *)
Counted(p, i, R) ==
  LET found[k \in Levels] ==
        IF k = 0 THEN {i} \cap R ELSE found[k-1] \cup {j \in R : p[j] \in found[k-1]}
  IN found[Cardinality(Inboxes)]

(* nodeFilter and listConversations with getInboxDescendantIds: a row with
   children selects whatever readable inbox is below it in the whole tree,
   another row selects itself. *)
Selected(p, i, R) ==
  IF i \notin R THEN {}
  ELSE IF \E j \in R : p[j] = i THEN R \cap DrawnBelow(p, i, Inboxes) ELSE {i}

(* A saved view of an inbox and a tag, which is private or not and the
   agent's or not: when getSidebar draws it, and when resolveSavedViewFilters
   opens it. *)
ViewDrawn(i, private, own, R) == i \in R /\ (~private \/ own)
ViewOpens(i, private, own, R) == i \in R /\ ~(private /\ ~own)

-----------------------------------------------------------------------------
(* Preferences.                                                             *)

Change(t, change) == tab' = [tab EXCEPT ![t] = change]

(* The fields of which tab t has a change under way. *)
Busy(t) ==
  ({tab[t].timer.field} \cup (IF tab[t].update.at \in {"load", "permit", "write"} THEN {tab[t].update.patch.field} ELSE {}))
    \ {NoField}

(* patchPreferences: the tab shows the change at once and sends it when its
   timer fires; a later change of any field starts the timer anew. *)
Toggle(t, f, i) ==
  LET now == tab[t].shown
      ids == IF i \in now[f] THEN now[f] \ {i} ELSE now[f] \cup {i}
  IN /\ i \in Drawn(parent, readable)
     /\ toggles < MaxToggles
     /\ toggles' = toggles + 1
     /\ Change(t, [tab[t] EXCEPT !.shown[f] = ids, !.timer = [field |-> f, ids |-> ids], !.before = now])
     /\ last' = [last EXCEPT ![f] = ids]
     /\ excused' = (IF (\E u \in Tabs \ {t} : f \in Busy(u)) \/ ~(ids \subseteq Drawn(parent, readable))
                    THEN excused \cup {f} ELSE excused \ {f})
                   \cup ({tab[t].timer.field} \ {f, NoField})
     /\ UNCHANGED <<readable, kept>>

(* One request of a tab is in flight at a time in this model. *)
TimerFires(t) ==
  /\ tab[t].timer # NoPatch /\ tab[t].update = NoUpdate
  /\ Change(t, [tab[t] EXCEPT !.timer = NoPatch, !.update = [NoUpdate EXCEPT !.at = "load", !.patch = tab[t].timer]])
  /\ UNCHANGED <<readable, kept, last, excused, toggles>>

(* Faulty: what the request does not name has its default. *)
MergedAnew(p) == [DefaultPreferences EXCEPT ![p.field] = p.ids]

(* updateSidebarPreferences: what the request does not name is what the row
   says. *)
Merged(p) == [kept EXCEPT ![p.field] = p.ids]

LoadPreferences(t) ==
  /\ tab[t].update.at = "load"
  /\ Change(t, [tab[t] EXCEPT !.update.at = "permit", !.update.next = Merged(tab[t].update.patch)])
  /\ UNCHANGED <<readable, kept, last, excused, toggles>>

(* sanitizePreferences keeps what the sidebar of the moment draws. *)
Sanitized(p) == [f \in Fields |-> p[f] \cap Drawn(parent, readable)]
Permit(t) ==
  /\ tab[t].update.at = "permit"
  /\ Change(t, [tab[t] EXCEPT !.update.at = "write", !.update.next = Sanitized(@)])
  /\ UNCHANGED <<readable, kept, last, excused, toggles>>

Loaded(u) == tab[u].update.at \in {"permit", "write"}
Upsert(t) ==
  LET others == {u \in Tabs \ {t} : Loaded(u)}
      mine == tab[t].update
  IN /\ mine.at = "write"
     /\ kept' = mine.next
     /\ tab' = [u \in Tabs |->
          IF u = t THEN [tab[u] EXCEPT !.update.at = "answer"]
          ELSE IF u \in others THEN [tab[u] EXCEPT !.update.alone = FALSE] ELSE tab[u]]
     /\ excused' = IF mine.alone /\ others = {} THEN excused ELSE Fields
     /\ UNCHANGED <<readable, last, toggles>>

(* The tab shows what was stored, or what it showed before the change that
   set the latest timer. *)
Answer(t) ==
  /\ tab[t].update.at = "answer"
  /\ Change(t, [tab[t] EXCEPT !.shown = tab[t].update.next, !.update = NoUpdate])
  /\ UNCHANGED <<readable, kept, last, excused, toggles>>
UpdateFails(t) ==
  /\ tab[t].update # NoUpdate
  /\ Change(t, [tab[t] EXCEPT !.shown = tab[t].before, !.update = NoUpdate])
  /\ excused' = excused \cup {tab[t].update.patch.field}
  /\ UNCHANGED <<readable, kept, last, toggles>>

(* The sidebar is fetched every five seconds. *)
Refetch(t) ==
  /\ Change(t, [tab[t] EXCEPT !.shown = Sanitized(kept)])
  /\ UNCHANGED <<readable, kept, last, excused, toggles>>

(* Whoever manages the workspace changes what the agent may read. *)
Regrant(R) ==
  /\ R # readable
  /\ readable' = R
  /\ excused' = IF readable \subseteq R THEN excused ELSE Fields
  /\ UNCHANGED <<kept, tab, last, toggles>>

SidebarNext ==
  \/ \E R \in SUBSET Inboxes : Inboxes \ Items \subseteq R /\ Regrant(R)
  \/ \E t \in Tabs :
       \/ \E f \in Fields, i \in Items : Toggle(t, f, i)
       \/ TimerFires(t) \/ LoadPreferences(t) \/ Permit(t) \/ Upsert(t)
       \/ Answer(t) \/ UpdateFails(t) \/ Refetch(t)

(* The tabs, while administrators arrange the tree. *)
SidebarSpec ==
  /\ TreeInit /\ SidebarInit
  /\ [][(TreeNext /\ UNCHANGED sidebarVars) \/ (SidebarNext /\ UNCHANGED treeVars)]_<<treeVars, sidebarVars>>

-----------------------------------------------------------------------------
(* Whatever hangs below i and can be read hangs there by inboxes that can be
   read. *)
Unbroken(p, i, R) == \A j \in R \cap DrawnBelow(p, i, Inboxes) : j = i \/ p[j] \in R

(* Whatever is readable is drawn, and below one row; what is counted beside a
   row is what is drawn below it.  A click on the row lists just what is
   counted unless an inbox that cannot be read is between, and then no less,
   and nothing that the agent may not read.  A saved view is drawn if it
   opens. *)
Agree(p) ==
  \A R \in SUBSET Inboxes :
    /\ Drawn(p, R) = R
    /\ \A i, j \in Rows(p, R) : i # j => DrawnBelow(p, i, R) \cap DrawnBelow(p, j, R) = {}
    /\ \A i \in R :
         /\ Counted(p, i, R) = DrawnBelow(p, i, R)
         /\ Unbroken(p, i, R) => Selected(p, i, R) = Counted(p, i, R)
         /\ Counted(p, i, R) \subseteq Selected(p, i, R) /\ Selected(p, i, R) \subseteq R
    /\ \A i \in Inboxes, private, own \in BOOLEAN : ViewDrawn(i, private, own, R) = ViewOpens(i, private, own, R)

(* The walks agree on every tree that concurrent moves lead to.  (A set of
   its own, which TLC computes once.) *)
Agreeing == {p : p \in {q \in [Inboxes -> Inboxes \cup {Root}] : Agree(q)}}
WalksAgree == parent \in Agreeing

(* When the tabs are at rest, what the agent last made of each field is
   stored, unless its request failed, met another one, was replaced by a
   change of the other field before it was sent, or named what could not be
   read any more: an update of another field, by a tab that does not know of
   it, keeps it. *)
LastChangesStand ==
  (\A t \in Tabs : Busy(t) = {}) => \A f \in Fields \ excused : kept[f] = last[f]

SidebarIsTrue == WalksAgree /\ LastChangesStand

(* A row whose parent is not shown is drawn below the nearest ancestor that
   is, and at the top only if there is none (docs/tree-sidebar.md:67-69). *)
Promoted ==
  \A i \in Rows(parent, readable) : \A j \in readable \ {i} : i \notin DrawnBelow(parent, j, Inboxes)

(* The count beside a row takes in every inbox below it that can be read
   (docs/tree-sidebar.md:75-76). *)
CountedBelow ==
  \A i \in readable : Counted(parent, i, readable) = readable \cap DrawnBelow(parent, i, Inboxes)

(* Stated by the document of the sidebar, and neither half kept when inboxes
   that can be read lie above and below one that cannot: rows are drawn, and
   counts taken, as if the one in between cut the tree. *)
SidebarAsDocumented == Promoted /\ CountedBelow

(* What the code does not keep: no change is lost.  A change of one field
   within a quarter of a second after that of another is sent without it. *)
NothingUnsent ==
  [][\A t \in Tabs : tab[t].timer # NoPatch /\ tab'[t].timer # NoPatch => tab'[t].timer.field = tab[t].timer.field]_sidebarVars
=============================================================================
