----------------------------- MODULE ChannelRouting -----------------------------
(***************************************************************************)
(* Channels, inboxes and the links that route one to the other (manage.ts, *)
(* the partial unique index of migration 0004), and the look-up of an      *)
(* inbound message (ingest.ts).  Several administrators configure at once; *)
(* each read and each statement or batch of a request is a step.           *)
(*                                                                         *)
(* A channel is the identity of a Page or a phone at its provider: its row *)
(* is never removed, and its type never changes.                           *)
(*                                                                         *)
(* Left out: names and colours of inboxes, the Meta app of a channel, the  *)
(* provider's validation of a token (a request that fails it ends there),  *)
(* and the channels of mailboxes.                                          *)
(***************************************************************************)
EXTENDS Naturals, FiniteSets

CONSTANTS
  Channels,
  Boxes,       \* inboxes
  Editors,     \* requests
  Nowhere

ASSUME RoutingAssumption == Nowhere \notin Channels \cup Boxes

VARIABLES
  phones,      \* the channels that are WhatsApp phones; the others are Pages
  status,      \* channels.status, "none" without a row
  token,       \* whether channels.access_token is set
  box,         \* inboxes: "none", "open" or "archived"
  link,        \* inbox_channels: link[c][b] is "none", "plain" or "default"
  edit

routingVars == <<phones, status, token, box, link, edit>>

EditOps == {"none", "create", "update", "delete", "connect", "disconnect", "inbox", "archive",
            "link", "unlink", "default"}
EditStages == {"idle", "identity", "write", "inbox", "link", "promote", "check"}
NoEdit == [op |-> "none", at |-> "idle", channel |-> Nowhere, box |-> Nowhere, revive |-> FALSE]

RoutingTypeOK ==
  /\ phones \subseteq Channels
  /\ status \in [Channels -> {"none", "active", "disconnected", "deleted"}]
  /\ token \in [Channels -> BOOLEAN]
  /\ box \in [Boxes -> {"none", "open", "archived"}]
  /\ link \in [Channels -> [Boxes -> {"none", "plain", "default"}]]
  /\ edit \in [Editors -> [op : EditOps, at : EditStages, channel : Channels \cup {Nowhere},
                           box : Boxes \cup {Nowhere}, revive : BOOLEAN]]

RoutingInit ==
  /\ phones \in SUBSET Channels
  /\ status = [c \in Channels |-> "none"]
  /\ token = [c \in Channels |-> FALSE]
  /\ box = [b \in Boxes |-> "none"]
  /\ link = [c \in Channels |-> [b \in Boxes |-> "none"]]
  /\ edit = [e \in Editors |-> NoEdit]

-----------------------------------------------------------------------------
Open(e, op, stage, c, b) ==
  /\ edit[e] = NoEdit
  /\ edit' = [edit EXCEPT ![e] = [NoEdit EXCEPT !.op = op, !.at = stage, !.channel = c, !.box = b]]
Editing(e, op, stage) == edit[e].op = op /\ edit[e].at = stage
Advance(e, stage) == edit' = [edit EXCEPT ![e].at = stage]
Close(e) == edit' = [edit EXCEPT ![e] = NoEdit]

stored == <<phones, status, token>>
config == <<stored, box, link>>

DefaultsOf(c) == {b \in Boxes : link[c][b] = "default"}
Made(c) == status[c] # "none"

(* Faulty: without the index one_default_per_channel. *)
LinkedAlready(c, b) == link[c][b] # "none"

(* The unique indexes refuse a second link of the pair, and a second default
   of the channel. *)
RefusesDefault(c, b) == link[c][b] # "none" \/ DefaultsOf(c) # {}

-----------------------------------------------------------------------------
(* createFacebookChannel and createWhatsAppChannel.                         *)

BeginCreate(e, c, b) ==
  /\ box[b] = "open"
  /\ Open(e, "create", "identity", c, b)
  /\ UNCHANGED config

(* After Meta's answer: is there a deleted row with this identity? *)
ReadIdentity(e) ==
  /\ Editing(e, "create", "identity")
  /\ edit' = [edit EXCEPT ![e].at = "write", ![e].revive = status[edit[e].channel] = "deleted"]
  /\ UNCHANGED config

(* The batch revives or inserts the channel and inserts its default link; a
   conflict aborts both. *)
Create(e) ==
  LET c == edit[e].channel
      chosen == edit[e].box
      conflict == (~edit[e].revive /\ Made(c)) \/ RefusesDefault(c, chosen)
  IN /\ Editing(e, "create", "write")
     /\ Close(e)
     /\ IF conflict
        THEN UNCHANGED <<stored, link>>
        ELSE /\ link' = [link EXCEPT ![c][chosen] = "default"]
             /\ IF edit[e].revive /\ status[c] # "deleted"
                THEN UNCHANGED stored
                ELSE /\ status' = [status EXCEPT ![c] = "active"]
                     /\ token' = [token EXCEPT ![c] = TRUE]
     /\ UNCHANGED <<phones, box>>

(* updateWhatsAppChannel, with a new token. *)
BeginUpdate(e, c) ==
  /\ c \in phones
  /\ status[c] \in {"active", "disconnected"}
  /\ Open(e, "update", "write", c, Nowhere)
  /\ UNCHANGED config

UpdateToken(e) ==
  /\ Editing(e, "update", "write")
  /\ token' = [token EXCEPT ![edit[e].channel] = TRUE]
  /\ Close(e)
  /\ UNCHANGED <<phones, status, box, link>>

(* deleteFacebookChannel and deleteWhatsAppChannel. *)
BeginDeleteChannel(e, c) ==
  /\ status[c] \in {"active", "disconnected"}
  /\ Open(e, "delete", "write", c, Nowhere)
  /\ UNCHANGED config

DeleteChannel(e) ==
  LET c == edit[e].channel IN
  /\ Editing(e, "delete", "write")
  /\ link' = [link EXCEPT ![c] = [b \in Boxes |-> "none"]]
  /\ status' = [status EXCEPT ![c] = "deleted"]
  /\ token' = [token EXCEPT ![c] = FALSE]
  /\ Close(e)
  /\ UNCHANGED <<phones, box>>

(* connectChannelToken looks for the Page, whatever its status. *)
BeginConnect(e, c) ==
  /\ Made(c) /\ c \notin phones
  /\ Open(e, "connect", "write", c, Nowhere)
  /\ UNCHANGED config

ConnectToken(e) ==
  /\ Editing(e, "connect", "write")
  /\ status' = [status EXCEPT ![edit[e].channel] = "active"]
  /\ token' = [token EXCEPT ![edit[e].channel] = TRUE]
  /\ Close(e)
  /\ UNCHANGED <<phones, box, link>>

Disconnect(e, c) ==
  /\ edit[e] = NoEdit
  /\ Made(c)
  /\ status' = [status EXCEPT ![c] = "disconnected"]
  /\ token' = [token EXCEPT ![c] = FALSE]
  /\ UNCHANGED <<phones, box, link, edit>>

-----------------------------------------------------------------------------
(* Inboxes.                                                                 *)

(* createInbox; then it becomes the default of a channel, or of none. *)
CreateInbox(e, b, c) ==
  /\ box[b] = "none"
  /\ box' = [box EXCEPT ![b] = "open"]
  /\ IF c # Nowhere /\ Made(c)
     THEN Open(e, "default", "inbox", c, b)
     ELSE edit[e] = NoEdit /\ UNCHANGED edit
  /\ UNCHANGED <<stored, link>>

(* updateInbox with isArchived false. *)
Unarchive(e, b) ==
  /\ edit[e] = NoEdit
  /\ box[b] = "archived"
  /\ box' = [box EXCEPT ![b] = "open"]
  /\ UNCHANGED <<stored, link, edit>>

BeginArchive(e, b) ==
  /\ box[b] = "open"
  /\ Open(e, "archive", "check", Nowhere, b)
  /\ UNCHANGED config

(* Some channel would be left without another default. *)
Orphans(b) == \E c \in Channels : link[c][b] = "default" /\ Cardinality(DefaultsOf(c)) <= 1

CheckArchive(e) ==
  /\ Editing(e, "archive", "check")
  /\ IF Orphans(edit[e].box) THEN Close(e) ELSE Advance(e, "write")
  /\ UNCHANGED config

Archive(e) ==
  /\ Editing(e, "archive", "write")
  /\ box' = [box EXCEPT ![edit[e].box] = "archived"]
  /\ Close(e)
  /\ UNCHANGED <<stored, link>>

-----------------------------------------------------------------------------
(* Links.                                                                   *)

LinkPlain(e, c, b) ==
  /\ edit[e] = NoEdit
  /\ Made(c) /\ box[b] # "none"
  /\ link' = [link EXCEPT ![c][b] = IF @ = "none" THEN "plain" ELSE @]
  /\ UNCHANGED <<stored, box, edit>>

BeginUnlink(e, c, b) ==
  /\ link[c][b] # "none"
  /\ link[c][b] = "default" => Cardinality(DefaultsOf(c)) > 1
  /\ Open(e, "unlink", "write", c, b)
  /\ UNCHANGED config

Unlink(e) ==
  /\ Editing(e, "unlink", "write")
  /\ link' = [link EXCEPT ![edit[e].channel][edit[e].box] = "none"]
  /\ Close(e)
  /\ UNCHANGED <<stored, box>>

(* setDefaultInbox, also for linkChannelToInbox with isDefault. *)
BeginDefault(e, c, b) ==
  /\ Made(c) /\ box[b] # "none"
  /\ Open(e, "default", "inbox", c, b)
  /\ UNCHANGED config

CheckInbox(e) ==
  /\ Editing(e, "default", "inbox")
  /\ IF box[edit[e].box] = "archived" THEN Close(e) ELSE Advance(e, "link")
  /\ UNCHANGED config

EnsureLink(e) ==
  /\ Editing(e, "default", "link")
  /\ link' = [link EXCEPT ![edit[e].channel][edit[e].box] = IF @ = "none" THEN "plain" ELSE @]
  /\ Advance(e, "promote")
  /\ UNCHANGED <<stored, box>>

(* One batch: no link of the channel is the default, then this one is. *)
Promote(e) ==
  LET chosen == edit[e].box IN
  /\ Editing(e, "default", "promote")
  /\ link' = [link EXCEPT ![edit[e].channel] = [x \in Boxes |->
       IF @[x] = "none" THEN "none" ELSE IF x = chosen THEN "default" ELSE "plain"]]
  /\ Close(e)
  /\ UNCHANGED <<stored, box>>

-----------------------------------------------------------------------------
(* routeInbound takes an active channel to its default inbox, if it is open,
   and refuses the message otherwise. *)
Routable(c) == {b \in DefaultsOf(c) : box[b] = "open"}

Quit(e) == edit[e] # NoEdit /\ Close(e) /\ UNCHANGED config

RoutingNext ==
  \E e \in Editors :
    \/ \E c \in Channels :
         BeginUpdate(e, c) \/ BeginDeleteChannel(e, c) \/ BeginConnect(e, c) \/ Disconnect(e, c)
    \/ \E c \in Channels, b \in Boxes :
         BeginCreate(e, c, b) \/ LinkPlain(e, c, b) \/ BeginUnlink(e, c, b) \/ BeginDefault(e, c, b)
    \/ \E b \in Boxes, c \in Channels \cup {Nowhere} : CreateInbox(e, b, c)
    \/ \E b \in Boxes : Unarchive(e, b) \/ BeginArchive(e, b)
    \/ ReadIdentity(e) \/ Create(e) \/ UpdateToken(e) \/ DeleteChannel(e) \/ ConnectToken(e)
    \/ CheckArchive(e) \/ Archive(e) \/ Unlink(e)
    \/ CheckInbox(e) \/ EnsureLink(e) \/ Promote(e) \/ Quit(e)

RoutingSpec == RoutingInit /\ [][RoutingNext]_routingVars

-----------------------------------------------------------------------------
(* A channel never has two default inboxes (ADR 0017), so that the place of
   an inbound message is never a matter of luck. *)
OneDefault == \A c \in Channels : Cardinality(DefaultsOf(c)) <= 1

(* Stated by ADR 0017 (docs/adr/0017-inbox-routing-sidebar.md:95) and not
   kept: an active channel has a default inbox.  The token of a channel may be
   connected again after its deletion, which removed its links. *)
ActiveHasDefault == \A c \in Channels : status[c] = "active" => DefaultsOf(c) # {}

(* Nor this: its default inbox is open, or its messages are refused. *)
ActiveIsRoutable == \A c \in Channels : status[c] = "active" => Routable(c) # {}
=============================================================================
