------------------------------ MODULE MetaConnect ------------------------------
(***************************************************************************)
(* Meta Apps and the channels that are connected through them: meta-apps.ts, *)
(* meta-oauth.ts and the Page and WhatsApp channels of manage.ts.          *)
(*                                                                         *)
(* A Page is connected in three requests.  One starts an authorization,    *)
(* Meta's redirect completes it and stores the Pages that were approved,   *)
(* and a third turns one of them into a channel and forgets the others.  A *)
(* Page, or a phone, whose token is known is connected in one.  Apps and   *)
(* channels are administered meanwhile.  A request reads, waits for Meta   *)
(* and writes; each statement on D1 is a step.                             *)
(*                                                                         *)
(* Left out: names, secrets and the encryption of tokens, the inbox of the *)
(* channel (ChannelRouting has it), and other workspaces.                  *)
(***************************************************************************)
EXTENDS Naturals

CONSTANTS
  Apps,
  Pages,       \* of Facebook
  Phones,      \* of WhatsApp
  Sessions,    \* authorizations
  Managers,    \* requests of owners and redirects
  NoApp,       \* NULL
  MaxTokens,   \* bound on the webhook tokens of an app
  MaxAsked     \* bound on the requests

ASSUME MetaAssumption == NoApp \notin Apps /\ Pages \cap Phones = {} /\ MaxTokens \in Nat \ {0} /\ MaxAsked \in Nat

VARIABLES
  app,         \* meta_apps
  verified,    \* the token that Meta's dashboard verified last
  session,     \* meta_oauth_sessions
  channel,     \* channels
  owner,       \* the request that each owner has under way
  asked

Channels == Pages \cup Phones
metaVars == <<app, verified, session, channel, owner, asked>>

NoRow == [token |-> 0, confirmed |-> FALSE]
NoSession == [app |-> NoApp, consumed |-> FALSE, expired |-> FALSE, pages |-> {}]
Dropped == [NoSession EXCEPT !.expired = TRUE]
NoChannel == [status |-> "none", app |-> NoApp, token |-> FALSE]
Unoccupied == [op |-> "none", at |-> "none", app |-> NoApp, session |-> NoApp, channel |-> NoApp, revive |-> FALSE]

AppRows == [token : 0 .. MaxTokens, confirmed : BOOLEAN]
SessionRows == [app : Apps \cup {NoApp}, consumed : BOOLEAN, expired : BOOLEAN, pages : SUBSET Pages]
ChannelRows == [status : {"none", "active", "disconnected", "deleted"}, app : Apps \cup {NoApp}, token : BOOLEAN]
OwnerOps == {"none", "create", "token", "delete", "confirm", "start", "redirect", "connect",
             "disconnect", "reconnect", "update", "remove"}
OwnerStages == {"none", "read", "pages", "channel", "write", "clear"}
Requests == [op : OwnerOps, at : OwnerStages, app : Apps \cup {NoApp}, session : Sessions \cup {NoApp},
             channel : Channels \cup {NoApp}, revive : BOOLEAN]

MetaTypeOK ==
  /\ app \in [Apps -> AppRows]
  /\ verified \in [Apps -> 0 .. MaxTokens]
  /\ session \in [Sessions -> SessionRows]
  /\ channel \in [Channels -> ChannelRows]
  /\ owner \in [Managers -> Requests]
  /\ asked \in 0 .. MaxAsked

MetaInit ==
  /\ app = [a \in Apps |-> NoRow]
  /\ verified = [a \in Apps |-> 0]
  /\ session = [s \in Sessions |-> NoSession]
  /\ channel = [c \in Channels |-> NoChannel]
  /\ owner = [r \in Managers |-> Unoccupied]
  /\ asked = 0

-----------------------------------------------------------------------------
AppOnRecord(a) == a \in Apps /\ app[a].token > 0
Started(s) == session[s].app # NoApp

BeginOwner(r, q) ==
  /\ owner[r] = Unoccupied
  /\ asked < MaxAsked
  /\ asked' = asked + 1
  /\ owner' = [owner EXCEPT ![r] = q]
Proceed(r, at) == owner' = [owner EXCEPT ![r].at = at]
Finished(r) == owner' = [owner EXCEPT ![r] = Unoccupied]
Doing(r, op, at) == owner[r].op = op /\ owner[r].at = at
kept == <<verified, session, channel, asked>>

(* A request is refused, or Meta cannot be reached or says no. *)
Denied(r) ==
  /\ owner[r] # Unoccupied
  /\ Finished(r)
  /\ UNCHANGED <<app, kept>>

-----------------------------------------------------------------------------
(* Apps.                                                                    *)

BeginApp(r, op, a) ==
  /\ BeginOwner(r, [Unoccupied EXCEPT !.op = op, !.at = "read", !.app = a])
  /\ UNCHANGED <<app, verified, session, channel>>

(* createMetaApp: the insert fails if the app is on record.  An id is not
   used again. *)
CreateApp(r) ==
  LET a == owner[r].app IN
  /\ Doing(r, "create", "read")
  /\ ~AppOnRecord(a) /\ verified[a] = 0
  /\ app' = [app EXCEPT ![a] = [token |-> 1, confirmed |-> FALSE]]
  /\ Finished(r)
  /\ UNCHANGED kept

(* recreateMetaAppWebhookToken and deleteMetaApp find the app. *)
FindApp(r) ==
  /\ owner[r].op \in {"token", "delete"} /\ owner[r].at = "read"
  /\ AppOnRecord(owner[r].app)
  /\ Proceed(r, IF owner[r].op = "token" THEN "write" ELSE "pages")
  /\ UNCHANGED <<app, kept>>

RecreateToken(r) ==
  LET a == owner[r].app IN
  /\ Doing(r, "token", "write")
  /\ app[a].token < MaxTokens
  /\ app' = IF AppOnRecord(a) THEN [app EXCEPT ![a] = [token |-> @.token + 1, confirmed |-> FALSE]] ELSE app
  /\ Finished(r)
  /\ UNCHANGED kept

(* Meta's dashboard asks with the token it was given. *)
VerifyWebhook(a) ==
  /\ AppOnRecord(a) /\ verified[a] # app[a].token
  /\ verified' = [verified EXCEPT ![a] = app[a].token]
  /\ UNCHANGED <<app, session, channel, owner, asked>>

(* confirmMetaAppWebhookSubscription: an owner attests what Meta shows. *)
BeginConfirm(r, a) ==
  /\ AppOnRecord(a) /\ verified[a] = app[a].token
  /\ BeginApp(r, "confirm", a)
ConfirmWebhook(r) ==
  LET a == owner[r].app IN
  /\ Doing(r, "confirm", "read")
  /\ AppOnRecord(a)
  /\ app' = [app EXCEPT ![a].confirmed = TRUE]
  /\ Finished(r)
  /\ UNCHANGED kept

(* deleteMetaApp: a channel that names the app forbids it. *)
CheckChannels(r) ==
  /\ Doing(r, "delete", "pages")
  /\ \A c \in Channels : channel[c].app # owner[r].app
  /\ Proceed(r, "write")
  /\ UNCHANGED <<app, kept>>

(* Faulty: the check has been made. *)
Unguarded(a) == TRUE

(* channels.meta_app_id REFERENCES meta_apps ON DELETE RESTRICT. *)
Deletable(a) == \A c \in Channels : channel[c].app # a

(* The authorizations of the app are deleted with it. *)
DeleteApp(r) ==
  LET a == owner[r].app IN
  /\ Doing(r, "delete", "write")
  /\ Deletable(a)
  /\ app' = [app EXCEPT ![a] = NoRow]
  /\ session' = [s \in Sessions |-> IF session[s].app = a THEN Dropped ELSE session[s]]
  /\ Finished(r)
  /\ UNCHANGED <<verified, channel, asked>>

-----------------------------------------------------------------------------
(* Authorizations.                                                          *)

(* startMetaOAuth reads the app, then inserts the session, which REFERENCES
   the app. *)
BeginStart(r, a) ==
  /\ AppOnRecord(a)
  /\ BeginApp(r, "start", a)
StartSession(r, s) ==
  LET a == owner[r].app IN
  /\ Doing(r, "start", "read")
  /\ AppOnRecord(a)
  /\ session[s] = NoSession
  /\ session' = [session EXCEPT ![s].app = a]
  /\ Finished(r)
  /\ UNCHANGED <<app, verified, channel, asked>>

SessionExpires(s) ==
  /\ Started(s) /\ ~session[s].expired
  /\ session' = [session EXCEPT ![s].expired = TRUE]
  /\ UNCHANGED <<app, verified, channel, owner, asked>>

(* completeMetaOAuth: a redirect carries the state of a session that is not
   consumed. *)
BeginRedirect(r, s) ==
  /\ Started(s) /\ ~session[s].consumed /\ ~session[s].expired
  /\ BeginOwner(r, [Unoccupied EXCEPT !.op = "redirect", !.at = "write", !.session = s])
  /\ UNCHANGED <<app, verified, session, channel>>

(* What Meta approved is stored by the id of the session alone. *)
StorePages(r, approved) ==
  LET s == owner[r].session IN
  /\ Doing(r, "redirect", "write")
  /\ session' = IF Started(s) THEN [session EXCEPT ![s].consumed = TRUE, ![s].pages = approved] ELSE session
  /\ Finished(r)
  /\ UNCHANGED <<app, verified, channel, asked>>

(* connectAuthorizedPage calls createFacebookChannel with a Page of the
   session; requests call it, and createWhatsAppChannel, without a session. *)
BeginConnect(r, s, p) ==
  /\ session[s].consumed /\ ~session[s].expired /\ p \in session[s].pages
  /\ BeginOwner(r, [Unoccupied EXCEPT !.op = "connect", !.at = "read", !.session = s, !.app = session[s].app, !.channel = p])
  /\ UNCHANGED <<app, verified, session, channel>>

BeginCreate(r, a, c) ==
  /\ BeginOwner(r, [Unoccupied EXCEPT !.op = "connect", !.at = "read", !.app = a, !.channel = c])
  /\ UNCHANGED <<app, verified, session, channel>>

ReadApp(r) ==
  /\ Doing(r, "connect", "read")
  /\ AppOnRecord(owner[r].app)
  /\ Proceed(r, "channel")
  /\ UNCHANGED <<app, kept>>

(* After Meta validated the token: was the channel deleted here before? *)
ReadChannel(r) ==
  /\ Doing(r, "connect", "channel")
  /\ owner' = [owner EXCEPT ![r].at = "write", ![r].revive = channel[owner[r].channel].status = "deleted"]
  /\ UNCHANGED <<app, kept>>

(* The batch inserts the channel, or revives it, with the default link of its
   inbox.  It fails over a channel that is linked already, and if the app is
   gone.  A channel that got a token while it was deleted has no link: then the
   batch succeeds and its update finds no row. *)
Insertable(r) ==
  /\ AppOnRecord(owner[r].app)
  /\ channel[owner[r].channel].status = IF owner[r].revive THEN "deleted" ELSE "none"
Unlinked(c) == channel[c].status \in {"active", "disconnected"} /\ channel[c].app = NoApp
WriteChannel(r) ==
  LET c == owner[r].channel IN
  /\ Doing(r, "connect", "write")
  /\ Insertable(r) \/ (owner[r].revive /\ Unlinked(c))
  /\ channel' = IF Insertable(r)
                THEN [channel EXCEPT ![c] = [status |-> "active", app |-> owner[r].app, token |-> TRUE]]
                ELSE channel
  /\ IF owner[r].session = NoApp THEN Finished(r) ELSE Proceed(r, "clear")
  /\ UNCHANGED <<app, verified, session, asked>>
ClearPages(r) ==
  /\ Doing(r, "connect", "clear")
  /\ session' = [session EXCEPT ![owner[r].session].pages = {}]
  /\ Finished(r)
  /\ UNCHANGED <<app, verified, channel, asked>>

-----------------------------------------------------------------------------
(* Channels: disconnectChannel, connectChannelToken, updateWhatsAppChannel,
   deleteFacebookChannel and deleteWhatsAppChannel.                         *)

BeginChannel(r, op, c) ==
  /\ channel[c].status # "none"
  /\ op = "reconnect" => c \in Pages
  /\ op = "update" => c \in Phones
  /\ op \in {"update", "remove"} => channel[c].status # "deleted"
  /\ BeginOwner(r, [Unoccupied EXCEPT !.op = op, !.at = "write", !.channel = c])
  /\ UNCHANGED <<app, verified, session, channel>>

WriteRow(r, op, row) ==
  /\ Doing(r, op, "write")
  /\ channel' = [channel EXCEPT ![owner[r].channel] = row]
  /\ Finished(r)
  /\ UNCHANGED <<app, verified, session, asked>>

Row(r) == channel[owner[r].channel]
Disconnect(r) == WriteRow(r, "disconnect", [Row(r) EXCEPT !.status = "disconnected", !.token = FALSE])
ConnectToken(r) == WriteRow(r, "reconnect", [Row(r) EXCEPT !.status = "active", !.token = TRUE])
UpdatePhone(r) == WriteRow(r, "update", [Row(r) EXCEPT !.token = TRUE])
Remove(r) == WriteRow(r, "remove", [status |-> "deleted", app |-> NoApp, token |-> FALSE])

-----------------------------------------------------------------------------
MetaNext ==
  \/ \E a \in Apps : VerifyWebhook(a)
  \/ \E s \in Sessions : SessionExpires(s)
  \/ \E r \in Managers :
       \/ \E a \in Apps : BeginConfirm(r, a) \/ BeginStart(r, a)
       \/ \E a \in Apps, op \in {"create", "token", "delete"} : BeginApp(r, op, a)
       \/ \E s \in Sessions : StartSession(r, s) \/ BeginRedirect(r, s)
       \/ \E s \in Sessions, p \in Pages : BeginConnect(r, s, p)
       \/ \E a \in Apps, c \in Channels : BeginCreate(r, a, c)
       \/ \E op \in {"disconnect", "reconnect", "update", "remove"}, c \in Channels : BeginChannel(r, op, c)
       \/ \E approved \in SUBSET Pages : StorePages(r, approved)
       \/ Denied(r) \/ CreateApp(r) \/ FindApp(r) \/ RecreateToken(r) \/ ConfirmWebhook(r)
       \/ CheckChannels(r) \/ DeleteApp(r)
       \/ ReadApp(r) \/ ReadChannel(r) \/ WriteChannel(r) \/ ClearPages(r)
       \/ Disconnect(r) \/ ConnectToken(r) \/ UpdatePhone(r) \/ Remove(r)

MetaSpec == MetaInit /\ [][MetaNext]_metaVars

-----------------------------------------------------------------------------
(* A channel and an authorization name an app that is on record, whose secret
   verifies the channel's deliveries: an app that is deleted while a channel
   is connected through it is deleted before the channel or not at all. *)
ChannelHasApp ==
  /\ \A c \in Channels : channel[c].app # NoApp => AppOnRecord(channel[c].app)
  /\ \A s \in Sessions : Started(s) => AppOnRecord(session[s].app)

(* What the code does not keep: a confirmation is about the present token
   ("An Owner must attest only after Meta verifies the callback").  A token
   that is recreated while its predecessor is being confirmed is confirmed. *)
ConfirmedIsVerified == \A a \in Apps : app[a].confirmed => verified[a] = app[a].token

(* Nor this: a deleted channel has no token.  The update of a phone stores it
   by the id of the channel alone, though the channel was deleted while Meta
   validated the token. *)
DeletedHasNoToken == \A c \in Channels : channel[c].status = "deleted" => ~channel[c].token

(* Nor this: what an owner connected clears the Pages of the authorization
   for good.  A second redirect of the same state may store them later. *)
ClearedIsGone ==
  [][\A s \in Sessions : session[s].consumed /\ session[s].pages = {} => session'[s].pages = {}]_metaVars
=============================================================================
