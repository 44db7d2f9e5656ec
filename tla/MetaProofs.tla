------------------------------ MODULE MetaProofs ------------------------------
(***************************************************************************)
(* Theorems about MetaConnect, for any apps, channels, authorizations  *)
(* and requests, and any bounds.                                           *)
(***************************************************************************)
EXTENDS MetaConnect, TLAPS

-----------------------------------------------------------------------------
LEMMA Blank ==
  /\ NoRow \in AppRows /\ NoSession \in SessionRows /\ Dropped \in SessionRows
  /\ NoChannel \in ChannelRows /\ Unoccupied \in Requests
<1>1. NoRow \in AppRows
  BY MetaAssumption DEF NoRow, AppRows
<1>2. NoSession \in SessionRows /\ Dropped \in SessionRows
  BY DEF NoSession, Dropped, SessionRows
<1>3. NoChannel \in ChannelRows
  BY DEF NoChannel, ChannelRows
<1>4. Unoccupied \in Requests
  BY DEF Unoccupied, Requests, OwnerOps, OwnerStages
<1> QED
  BY <1>1, <1>2, <1>3, <1>4

(* How the steps of a request leave the requests. *)
LEMMA BeginType ==
  ASSUME MetaTypeOK, NEW r \in Managers, NEW q \in Requests, BeginOwner(r, q)
  PROVE  owner' \in [Managers -> Requests] /\ asked' \in 0 .. MaxAsked
  BY MetaAssumption DEF MetaTypeOK, BeginOwner

LEMMA FinishedType ==
  ASSUME MetaTypeOK, NEW r \in Managers, Finished(r)
  PROVE  owner' \in [Managers -> Requests]
  BY Blank DEF MetaTypeOK, Finished

LEMMA ProceedType ==
  ASSUME MetaTypeOK, NEW r \in Managers, NEW at \in OwnerStages, Proceed(r, at)
  PROVE  owner' \in [Managers -> Requests]
  BY DEF MetaTypeOK, Proceed, Requests

LEMMA BeginAppType ==
  ASSUME MetaTypeOK, NEW r \in Managers, NEW op \in OwnerOps, NEW a \in Apps, BeginApp(r, op, a)
  PROVE  MetaTypeOK'
<1>1. [Unoccupied EXCEPT !.op = op, !.at = "read", !.app = a] \in Requests
  BY DEF Unoccupied, Requests, OwnerStages
<1> QED
  BY <1>1, BeginType DEF BeginApp, MetaTypeOK

(* The steps by what they are about. *)
AppStep(r) ==
  \/ CreateApp(r) \/ FindApp(r) \/ RecreateToken(r) \/ ConfirmWebhook(r) \/ CheckChannels(r) \/ DeleteApp(r)
AuthorizationStep(r) ==
  \/ \E s \in Sessions : StartSession(r, s) \/ BeginRedirect(r, s)
  \/ \E s \in Sessions, p \in Pages : BeginConnect(r, s, p)
  \/ \E a \in Apps, c \in Channels : BeginCreate(r, a, c)
  \/ \E approved \in SUBSET Pages : StorePages(r, approved)
  \/ ReadApp(r) \/ ReadChannel(r) \/ WriteChannel(r) \/ ClearPages(r)
ChannelStep(r) ==
  \/ \E op \in {"disconnect", "reconnect", "update", "remove"}, c \in Channels : BeginChannel(r, op, c)
  \/ Disconnect(r) \/ ConnectToken(r) \/ UpdatePhone(r) \/ Remove(r)

LEMMA AppStepType ==
  ASSUME MetaTypeOK, NEW r \in Managers, AppStep(r)
  PROVE  MetaTypeOK'
<1> USE MetaAssumption
<1>1. CASE CreateApp(r)
  <2>1. [token |-> 1, confirmed |-> FALSE] \in AppRows
    BY DEF AppRows
  <2>2. app' \in [Apps -> AppRows]
    BY <1>1, <2>1 DEF CreateApp, MetaTypeOK
  <2> QED
    BY <1>1, <2>2, FinishedType DEF CreateApp, MetaTypeOK, kept
<1>2. CASE FindApp(r)
  <2>1. owner' \in [Managers -> Requests]
    BY <1>2, ProceedType DEF FindApp, OwnerStages
  <2> QED
    BY <1>2, <2>1 DEF FindApp, MetaTypeOK, kept
<1>3. CASE RecreateToken(r)
  <2>1. app' \in [Apps -> AppRows]
    BY <1>3 DEF RecreateToken, AppOnRecord, MetaTypeOK, AppRows
  <2> QED
    BY <1>3, <2>1, FinishedType DEF RecreateToken, MetaTypeOK, kept
<1>4. CASE ConfirmWebhook(r)
  <2>1. app' \in [Apps -> AppRows]
    BY <1>4 DEF ConfirmWebhook, MetaTypeOK, AppRows
  <2> QED
    BY <1>4, <2>1, FinishedType DEF ConfirmWebhook, MetaTypeOK, kept
<1>5. CASE CheckChannels(r)
  <2>1. owner' \in [Managers -> Requests]
    BY <1>5, ProceedType DEF CheckChannels, OwnerStages
  <2> QED
    BY <1>5, <2>1 DEF CheckChannels, MetaTypeOK, kept
<1>6. CASE DeleteApp(r)
  BY <1>6, FinishedType, Blank DEF DeleteApp, MetaTypeOK
<1> QED
  BY <1>1, <1>2, <1>3, <1>4, <1>5, <1>6 DEF AppStep

(* What an authorization approved is stored in its row and names no app. *)
LEMMA StoreShape ==
  ASSUME MetaTypeOK, NEW r \in Managers, NEW approved \in SUBSET Pages, StorePages(r, approved)
  PROVE  /\ session' \in [Sessions -> SessionRows]
         /\ \A t \in Sessions : session'[t].app = session[t].app
<1> DEFINE s == owner[r].session
           row == [session[s] EXCEPT !.consumed = TRUE, !.pages = approved]
<1>1. CASE Started(s) /\ s \in Sessions
  <2>1. session[s] \in SessionRows
    BY <1>1 DEF MetaTypeOK
  <2>2. row \in SessionRows /\ row.app = session[s].app
    BY <2>1 DEF SessionRows
  <2>3. session' = [session EXCEPT ![s] = row]
    <3>1. session' = [session EXCEPT ![s].consumed = TRUE, ![s].pages = approved]
      BY <1>1 DEF StorePages
    <3> HIDE DEF s
    <3>2. session = [t \in Sessions |-> session[t]]
      BY DEF MetaTypeOK
    <3> QED
      BY <1>1, <3>1, <3>2
  <2> QED
    BY <1>1, <2>2, <2>3 DEF MetaTypeOK
<1>2. CASE Started(s) /\ s \notin Sessions
  <2>1. session' = session
    BY <1>2 DEF StorePages, MetaTypeOK
  <2> QED
    BY <2>1 DEF MetaTypeOK
<1>3. CASE ~Started(s)
  BY <1>3 DEF StorePages, MetaTypeOK
<1> QED
  BY <1>1, <1>2, <1>3

LEMMA AuthorizationStepType ==
  ASSUME MetaTypeOK, NEW r \in Managers, AuthorizationStep(r)
  PROVE  MetaTypeOK'
<1>1. ASSUME NEW s \in Sessions, StartSession(r, s)
      PROVE  MetaTypeOK'
  <2>1. owner[r].app \in Apps \cup {NoApp}
    BY DEF MetaTypeOK, Requests
  <2>2. session' \in [Sessions -> SessionRows]
    BY <1>1, <2>1 DEF StartSession, MetaTypeOK, SessionRows
  <2> QED
    BY <1>1, <2>2, FinishedType DEF StartSession, MetaTypeOK
<1>2. ASSUME NEW s \in Sessions, BeginRedirect(r, s)
      PROVE  MetaTypeOK'
  <2>1. [Unoccupied EXCEPT !.op = "redirect", !.at = "write", !.session = s] \in Requests
    BY DEF Unoccupied, Requests, OwnerOps, OwnerStages
  <2> QED
    BY <1>2, <2>1, BeginType DEF BeginRedirect, MetaTypeOK
<1>3. ASSUME NEW s \in Sessions, NEW p \in Pages, BeginConnect(r, s, p)
      PROVE  MetaTypeOK'
  <2>1. session[s].app \in Apps \cup {NoApp}
    BY DEF MetaTypeOK, SessionRows
  <2>2. [Unoccupied EXCEPT !.op = "connect", !.at = "read", !.session = s, !.app = session[s].app, !.channel = p]
          \in Requests
    BY <2>1 DEF Channels, Unoccupied, Requests, OwnerOps, OwnerStages
  <2> QED
    BY <1>3, <2>2, BeginType DEF BeginConnect, MetaTypeOK
<1>4. ASSUME NEW approved \in SUBSET Pages, StorePages(r, approved)
      PROVE  MetaTypeOK'
  <2>1. session' \in [Sessions -> SessionRows]
    BY <1>4, StoreShape
  <2> QED
    BY <1>4, <2>1, FinishedType DEF StorePages, MetaTypeOK
<1>9. ASSUME NEW a \in Apps, NEW c \in Channels, BeginCreate(r, a, c)
      PROVE  MetaTypeOK'
  <2>1. [Unoccupied EXCEPT !.op = "connect", !.at = "read", !.app = a, !.channel = c] \in Requests
    BY DEF Unoccupied, Requests, OwnerOps, OwnerStages
  <2> QED
    BY <1>9, <2>1, BeginType DEF BeginCreate, MetaTypeOK
<1>5. CASE ReadApp(r)
  <2>1. owner' \in [Managers -> Requests]
    BY <1>5, ProceedType DEF ReadApp, OwnerStages
  <2> QED
    BY <1>5, <2>1 DEF ReadApp, MetaTypeOK, kept
<1>6. CASE ReadChannel(r)
  <2>1. owner' \in [Managers -> Requests]
    <3>1. (channel[owner[r].channel].status = "deleted") \in BOOLEAN
      OBVIOUS
    <3> DEFINE q == [owner[r] EXCEPT !.at = "write", !.revive = (channel[owner[r].channel].status = "deleted")]
    <3>2. q \in Requests
      BY <3>1 DEF MetaTypeOK, Requests, OwnerStages
    <3>3. owner' = [owner EXCEPT ![r] = q]
      BY <1>6 DEF ReadChannel
    <3> QED
      BY <3>2, <3>3 DEF MetaTypeOK
  <2> QED
    BY <1>6, <2>1 DEF ReadChannel, MetaTypeOK, kept
<1>7. CASE WriteChannel(r)
  <2>1. owner' \in [Managers -> Requests]
    BY <1>7, ProceedType, FinishedType DEF WriteChannel, OwnerStages
  <2>2. [status |-> "active", app |-> owner[r].app, token |-> TRUE] \in ChannelRows
    BY DEF MetaTypeOK, Requests, ChannelRows
  <2>3. channel' \in [Channels -> ChannelRows]
    BY <1>7, <2>2 DEF WriteChannel, MetaTypeOK
  <2> QED
    BY <1>7, <2>1, <2>3 DEF WriteChannel, MetaTypeOK
<1>8. CASE ClearPages(r)
  <2>1. session' \in [Sessions -> SessionRows]
    BY <1>8 DEF ClearPages, MetaTypeOK, SessionRows
  <2> QED
    BY <1>8, <2>1, FinishedType DEF ClearPages, MetaTypeOK
<1> QED
  BY <1>1, <1>2, <1>3, <1>4, <1>5, <1>6, <1>7, <1>8, <1>9 DEF AuthorizationStep

LEMMA ChannelStepType ==
  ASSUME MetaTypeOK, NEW r \in Managers, ChannelStep(r)
  PROVE  MetaTypeOK'
<1>1. ASSUME NEW op \in {"disconnect", "reconnect", "update", "remove"}, NEW c \in Channels, BeginChannel(r, op, c)
      PROVE  MetaTypeOK'
  <2>1. [Unoccupied EXCEPT !.op = op, !.at = "write", !.channel = c] \in Requests
    BY DEF Unoccupied, Requests, OwnerOps, OwnerStages
  <2> QED
    BY <1>1, <2>1, BeginType DEF BeginChannel, MetaTypeOK
<1>2. ASSUME NEW row \in ChannelRows, NEW op, WriteRow(r, op, row)
      PROVE  MetaTypeOK'
  <2>1. channel' \in [Channels -> ChannelRows]
    BY <1>2 DEF WriteRow, MetaTypeOK
  <2> QED
    BY <1>2, <2>1, FinishedType DEF WriteRow, MetaTypeOK
<1>3. CASE Remove(r)
  <2>1. [status |-> "deleted", app |-> NoApp, token |-> FALSE] \in ChannelRows
    BY DEF ChannelRows
  <2> QED
    BY <1>2, <1>3, <2>1 DEF Remove
<1>4. CASE owner[r].channel \in Channels /\ (Disconnect(r) \/ ConnectToken(r) \/ UpdatePhone(r))
  <2>1. Row(r) \in ChannelRows
    BY <1>4 DEF Row, MetaTypeOK
  <2>2. /\ [Row(r) EXCEPT !.status = "disconnected", !.token = FALSE] \in ChannelRows
        /\ [Row(r) EXCEPT !.status = "active", !.token = TRUE] \in ChannelRows
        /\ [Row(r) EXCEPT !.token = TRUE] \in ChannelRows
    BY <2>1 DEF ChannelRows
  <2> QED
    BY <1>2, <1>4, <2>2 DEF Disconnect, ConnectToken, UpdatePhone
<1>5. CASE owner[r].channel \notin Channels /\ (Disconnect(r) \/ ConnectToken(r) \/ UpdatePhone(r))
  <2>1. channel' = channel
    BY <1>5 DEF Disconnect, ConnectToken, UpdatePhone, WriteRow, MetaTypeOK
  <2> QED
    BY <1>5, <2>1, FinishedType DEF Disconnect, ConnectToken, UpdatePhone, WriteRow, MetaTypeOK
<1> QED
  BY <1>1, <1>2, <1>3, <1>4, <1>5 DEF ChannelStep

-----------------------------------------------------------------------------
(* A step of MetaNext, in the groups above. *)
LEMMA MetaSteps ==
  ASSUME MetaNext
  PROVE  \/ \E a \in Apps : VerifyWebhook(a)
         \/ \E s \in Sessions : SessionExpires(s)
         \/ \E r \in Managers :
              \/ \E a \in Apps, op \in OwnerOps : BeginApp(r, op, a)
              \/ Denied(r) \/ AppStep(r) \/ AuthorizationStep(r) \/ ChannelStep(r)
<1>1. {"create", "token", "delete", "confirm", "start"} \subseteq OwnerOps
  BY DEF OwnerOps
<1>2. \A r \in Managers, a \in Apps :
        BeginConfirm(r, a) \/ BeginStart(r, a) => \E op \in OwnerOps : BeginApp(r, op, a)
  BY <1>1 DEF BeginConfirm, BeginStart
<1> QED
  BY <1>1, <1>2, Zenon DEF MetaNext, AppStep, AuthorizationStep, ChannelStep

(* Rows and requests keep their shape. *)
THEOREM MetaTypes == MetaSpec => []MetaTypeOK
<1>1. MetaInit => MetaTypeOK
  BY MetaAssumption, Blank DEF MetaInit, MetaTypeOK
<1>2. MetaTypeOK /\ [MetaNext]_metaVars => MetaTypeOK'
  <2> SUFFICES ASSUME MetaTypeOK, [MetaNext]_metaVars PROVE MetaTypeOK'
    OBVIOUS
  <2>1. CASE UNCHANGED metaVars
    BY <2>1 DEF metaVars, MetaTypeOK
  <2>2. ASSUME NEW a \in Apps, VerifyWebhook(a) PROVE MetaTypeOK'
    BY <2>2 DEF VerifyWebhook, MetaTypeOK, AppRows
  <2>3. ASSUME NEW s \in Sessions, SessionExpires(s) PROVE MetaTypeOK'
    BY <2>3 DEF SessionExpires, MetaTypeOK, SessionRows
  <2>4. ASSUME NEW r \in Managers, Denied(r) PROVE MetaTypeOK'
    BY <2>4, FinishedType DEF Denied, MetaTypeOK, kept
  <2> QED
    BY <2>1, <2>2, <2>3, <2>4, MetaSteps, BeginAppType, AppStepType, AuthorizationStepType, ChannelStepType
<1> QED
  BY <1>1, <1>2, PTL DEF MetaSpec

-----------------------------------------------------------------------------
(* An app that is on record after the step. *)
OnRecordNext(a) == a \in Apps /\ app'[a].token > 0

(* A step that leaves the apps, what channels name and what authorizations name
   keeps the property. *)
LEMMA SameNames ==
  ASSUME MetaTypeOK, ChannelHasApp,
         \A a \in Apps : AppOnRecord(a) => OnRecordNext(a),
         \A c \in Channels : channel'[c].app \in {channel[c].app, NoApp} \/ OnRecordNext(channel'[c].app),
         \A s \in Sessions : session'[s].app \in {session[s].app, NoApp}
                               \/ OnRecordNext(session'[s].app)
  PROVE  ChannelHasApp'
  BY DEF MetaTypeOK, ChannelHasApp, Started, AppOnRecord, OnRecordNext, ChannelRows, SessionRows

LEMMA AppStepKeeps ==
  ASSUME MetaTypeOK, ChannelHasApp, NEW r \in Managers, AppStep(r)
  PROVE  ChannelHasApp'
<1> USE MetaAssumption
<1>1. CASE CreateApp(r)
  BY <1>1, SameNames DEF CreateApp, MetaTypeOK, kept, AppRows, AppOnRecord, OnRecordNext
<1>2. CASE FindApp(r) \/ CheckChannels(r)
  BY <1>2, SameNames DEF FindApp, CheckChannels, kept, AppOnRecord, OnRecordNext
<1>3. CASE RecreateToken(r)
  <2>1. \A a \in Apps : AppOnRecord(a) => OnRecordNext(a)
    BY <1>3 DEF RecreateToken, MetaTypeOK, AppRows, AppOnRecord, OnRecordNext
  <2> QED
    BY <1>3, <2>1, SameNames DEF RecreateToken, kept
<1>4. CASE ConfirmWebhook(r)
  BY <1>4, SameNames DEF ConfirmWebhook, MetaTypeOK, kept, AppRows, AppOnRecord, OnRecordNext
<1>5. CASE DeleteApp(r)
  <2>1. \A c \in Channels : channel'[c].app = channel[c].app /\ channel[c].app # owner[r].app
    BY <1>5 DEF DeleteApp, Deletable
  <2>2. \A s \in Sessions : \/ session'[s].app = NoApp
                            \/ session'[s].app = session[s].app /\ session[s].app # owner[r].app
    BY <1>5 DEF DeleteApp, Dropped, NoSession, MetaTypeOK, SessionRows
  <2>3. \A a \in Apps : a # owner[r].app => app'[a] = app[a]
    BY <1>5 DEF DeleteApp, MetaTypeOK
  <2> QED
    BY <2>1, <2>2, <2>3 DEF ChannelHasApp, MetaTypeOK, AppOnRecord, Started, ChannelRows, SessionRows
<1> QED
  BY <1>1, <1>2, <1>3, <1>4, <1>5 DEF AppStep

LEMMA AuthorizationStepKeeps ==
  ASSUME MetaTypeOK, ChannelHasApp, NEW r \in Managers, AuthorizationStep(r)
  PROVE  ChannelHasApp'
<1> USE MetaAssumption
<1>1. ASSUME NEW s \in Sessions, StartSession(r, s)
      PROVE  ChannelHasApp'
  <2>2. OnRecordNext(owner[r].app)
    BY <1>1 DEF StartSession, AppOnRecord, OnRecordNext
  <2>3. \A t \in Sessions : session'[t].app \in {session[t].app, owner[r].app}
    BY <1>1 DEF StartSession, MetaTypeOK, SessionRows
  <2> QED
    BY <1>1, <2>2, <2>3, SameNames DEF StartSession, AppOnRecord, OnRecordNext
<1>2. CASE \/ \E s \in Sessions : BeginRedirect(r, s)
           \/ \E s \in Sessions, p \in Pages : BeginConnect(r, s, p)
           \/ \E a \in Apps, c \in Channels : BeginCreate(r, a, c)
           \/ ReadApp(r) \/ ReadChannel(r)
  BY <1>2, SameNames DEF BeginRedirect, BeginConnect, BeginCreate, ReadApp, ReadChannel, kept, AppOnRecord, OnRecordNext
<1>3. CASE \E approved \in SUBSET Pages : StorePages(r, approved)
  <2>1. \A t \in Sessions : session'[t].app = session[t].app
    BY <1>3, StoreShape
  <2> QED
    BY <1>3, <2>1, SameNames DEF StorePages, AppOnRecord, OnRecordNext
<1>5. CASE ClearPages(r)
  <2>1. \A t \in Sessions : session'[t].app = session[t].app
    BY <1>5 DEF ClearPages, MetaTypeOK, SessionRows
  <2> QED
    BY <1>5, <2>1, SameNames DEF ClearPages, AppOnRecord, OnRecordNext
<1>4. CASE WriteChannel(r)
  <2>1. CASE ~Insertable(r)
    BY <1>4, <2>1, SameNames DEF WriteChannel, AppOnRecord, OnRecordNext
  <2>2. Insertable(r) => OnRecordNext(owner[r].app)
    BY <1>4 DEF WriteChannel, Insertable, AppOnRecord, OnRecordNext
  <2>3. CASE Insertable(r)
    <3>1. \A c \in Channels : channel'[c].app \in {channel[c].app, owner[r].app}
      BY <1>4, <2>3 DEF WriteChannel, MetaTypeOK, ChannelRows
    <3> QED
      BY <1>4, <2>2, <2>3, <3>1, SameNames DEF WriteChannel, AppOnRecord, OnRecordNext
  <2> QED
    BY <2>1, <2>3
<1> QED
  BY <1>1, <1>2, <1>3, <1>4, <1>5 DEF AuthorizationStep

LEMMA ChannelStepKeeps ==
  ASSUME MetaTypeOK, ChannelHasApp, NEW r \in Managers, ChannelStep(r)
  PROVE  ChannelHasApp'
<1>1. CASE \E op \in {"disconnect", "reconnect", "update", "remove"}, c \in Channels : BeginChannel(r, op, c)
  BY <1>1, SameNames DEF BeginChannel, AppOnRecord, OnRecordNext
<1>2. ASSUME NEW row, NEW op, WriteRow(r, op, row),
             owner[r].channel \in Channels => row.app \in {Row(r).app, NoApp}
      PROVE  ChannelHasApp'
  <2>1. \A c \in Channels : channel'[c].app \in {channel[c].app, NoApp}
    BY <1>2 DEF WriteRow, Row, MetaTypeOK
  <2> QED
    BY <1>2, <2>1, SameNames DEF WriteRow, AppOnRecord, OnRecordNext
<1>3. CASE Disconnect(r) \/ ConnectToken(r) \/ UpdatePhone(r)
  <2>1. owner[r].channel \in Channels => Row(r) \in ChannelRows
    BY DEF Row, MetaTypeOK
  <2>2. owner[r].channel \in Channels =>
          /\ [Row(r) EXCEPT !.status = "disconnected", !.token = FALSE].app = Row(r).app
          /\ [Row(r) EXCEPT !.status = "active", !.token = TRUE].app = Row(r).app
          /\ [Row(r) EXCEPT !.token = TRUE].app = Row(r).app
    BY <2>1 DEF ChannelRows
  <2> QED
    BY <1>2, <1>3, <2>2 DEF Disconnect, ConnectToken, UpdatePhone
<1>4. CASE Remove(r)
  BY <1>2, <1>4 DEF Remove
<1> QED
  BY <1>1, <1>3, <1>4 DEF ChannelStep

(* Whatever requests overlap, a channel and an authorization name an app that
   is on record: what a deletion checked long before is checked again by the
   foreign keys when it writes. *)
THEOREM ChannelsHaveApps == MetaSpec => []ChannelHasApp
<1>1. MetaInit => ChannelHasApp
  BY DEF MetaInit, ChannelHasApp, NoChannel, NoSession, Started
<1>2. MetaTypeOK /\ ChannelHasApp /\ [MetaNext]_metaVars => ChannelHasApp'
  <2> SUFFICES ASSUME MetaTypeOK, ChannelHasApp, [MetaNext]_metaVars PROVE ChannelHasApp'
    OBVIOUS
  <2>1. CASE UNCHANGED metaVars
    BY <2>1 DEF metaVars, ChannelHasApp, AppOnRecord, Started
  <2>2. ASSUME NEW a \in Apps, VerifyWebhook(a) PROVE ChannelHasApp'
    BY <2>2, SameNames DEF VerifyWebhook, AppOnRecord, OnRecordNext
  <2>3. ASSUME NEW s \in Sessions, SessionExpires(s) PROVE ChannelHasApp'
    BY <2>3, SameNames DEF SessionExpires, MetaTypeOK, SessionRows, AppOnRecord, OnRecordNext
  <2>4. ASSUME NEW r \in Managers, Denied(r) PROVE ChannelHasApp'
    BY <2>4, SameNames DEF Denied, kept, AppOnRecord, OnRecordNext
  <2>5. ASSUME NEW r \in Managers, NEW op \in OwnerOps, NEW a \in Apps, BeginApp(r, op, a) PROVE ChannelHasApp'
    BY <2>5, SameNames DEF BeginApp, AppOnRecord, OnRecordNext
  <2> QED
    BY <2>1, <2>2, <2>3, <2>4, <2>5, MetaSteps, AppStepKeeps, AuthorizationStepKeeps, ChannelStepKeeps
<1> QED
  BY <1>1, <1>2, MetaTypes, PTL DEF MetaSpec
=============================================================================
