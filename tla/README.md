# A TLA+ verification of msgflow

msgflow is a shared inbox for teams: Messenger, WhatsApp and email conversations,
inbound calls, rules, send-later messages. It runs as Cloudflare Workers
(`apps/worker/src`) over D1 (one SQLite database), R2, and Durable Objects (DO): one per
conversation, one per call, one per workspace for call dispatch. Nearly all of its
correctness questions come from one fact: **an operation is not a transaction**. A
handler reads D1, awaits a provider, writes a DO, awaits D1 again; at each await other
invocations run, the invocation may die, and what it calls may fail after having done
its work.

The modules model the handlers at that grain. One action is what a handler does between
two awaits; one D1 statement, or one batch, is a step. Constants stand for sets of
messages, agents and requests: TLC checks small sets, TLAPS proves the safety properties
it is used for about all of them.

Paths are under `apps/worker/src/` unless they name another directory.

## 1. Inventory

Per component: its state, its operations, whom it meets, what is hard, what makes it
correct, and which module has it.

**Outbound delivery** (`OutboundDelivery`, `ProviderHandoff`). `outbound.ts`,
`outbound-state.ts`, `scheduled.ts`, `scheduled-claim.ts`, `email-maintenance.ts`.
*State*: `outbound_intents`, `scheduled_messages` with its leases, the timeline in the
conversation's DO. *Operations*: `sendOutbound`, `scheduleOutbound`,
`reconcileProviderSent`, the three parts of a cron invocation. *Hard*: several requests
and cron invocations handle one message id at once; the provider's answer may be lost;
leases expire under their holder; several updates name the row by id alone. *Correct
if* the provider takes a message at most once from one sender at a time, the timeline
shows what was sent and nothing else, no acknowledgement is forgotten, an id stays bound
to its command, a definitive failure is retried within its attempts and an uncertain one
is not, and nothing stays in flight for ever.

**Provider adapters** (outcomes only, in `OutboundDelivery`).
`packages/channel/src/{facebook,whatsapp,email,types}.ts`. *Hard*: telling a definitive
failure from a lost answer; several requests per message. *Correct if* "definitive" means
that nothing was taken.

**Calls** (`CallSession`, `CallPresence`). `calling-service.ts`, `call-session-do.ts`,
`call-dispatch-do.ts`, `facebook-calling-provider.ts`. *State*: the session's stored state
and alarm, `call_events`, the assignee; the sockets at the dispatch DO and
`agent_call_presence`. *Hard*: a DO serialises its handlers only between awaits; handlers
keep a copy of the state across an await and store it afterwards; writes of presence
overtake each other. *Correct if* only agents that were rung may answer, one wins, session,
row and assignee agree, offers end in time, an accepted call stays accepted, every call
ends; an agent without a socket stops being rung.

**Inbound routing and the timeline** (`ConversationTimeline`). `ingest.ts`,
`conversation-do.ts`. *State*: contacts, conversations, `processed_messages`,
`messages_summary`, the DO's messages. *Hard*: Meta repeats webhooks, also while the first
runs; the claim comes before the work; projections overtake each other. *Correct if* rules
run once, a message is stored once, the list shows the newest and whatever was acknowledged.

**Realtime** (`ConversationRoom`). The sockets of `conversation-do.ts`. *Hard*: access is
revoked while a broadcast is asking for it, and the question is answered from several tables, read
one after the other. *Correct if* nothing reaches an agent who lost access before the event, and
presence shows who is there.

**Notes** (`ConversationNotes`). Comments, notifications, the read cursor and tags:
`index.ts`, `activity.ts`, `manage.ts`. *Hard*: DO and D1 are written one after the other,
tags are edited while they are attached. *Correct if* a notification is about a comment that
was made, the log accounts for the tags, a tag is private exactly when it has an owner.

**Status and snooze** (`ConversationDesk`). `snooze.ts`, `PATCH /api/conversations/:id`.
*Hard*: the cron selects before it updates, and invocations overlap. *Correct if* a new
snooze survives the revival of the old one.

**Rules and canned replies** (`RuleBook`). `rules.ts`, the administration in `manage.ts`,
`email-persistence.ts`. *Hard*: rules are read query by query while they are rewritten
statement by statement. *Correct if* an undisturbed evaluation is that of the book (first
routing action wins, the rest all applies, up to a rule that stops).

**Email ingress** (`EmailIngress`). `email-ingress.ts`, `email-persistence.ts`. *State*:
archive row with lease and attempts, canonical store, timeline. *Hard*: delivery, operator and
cron overlap, and each may die anywhere. *Correct if* what is archived is settled, what is
processed is shown, in one place, and stays processed.

**Email drafts** (`EmailDrafts`). `email-drafts.ts`, `Composer.tsx`. *Hard*: two tabs, lost
answers, reloads. *Correct if* one submission is sent once, whatever is repeated.

**Mailboxes and domains** (`Mailboxes`). `mailboxes.ts`, `email-transport.ts`. *Hard*: checks
and writes are apart; mailboxes that predate the transport trigger. *Correct if* a mailbox keeps
its domain, and one that is switched on can be served.

**Membership** (`Membership`). `setup.ts`, `agent-onboarding.ts`, `onboarding-api.ts`,
`team-management.ts`. *State*: the setup claim, accounts, roles, invitations. *Hard*: Better
Auth writes on its own and may fail afterwards; two owners demote each other; a resend races
an acceptance. *Correct if* a workspace keeps an owner, members were invited, claims are
handed out once.

**Access** (`InboxAccess`). `inbox-tree.ts`, `email-transport.ts`,
`conversation-permissions.ts`. *Hard*: one permission written three times, in TypeScript and
SQL. *Correct if* the three agree in every state that requests lead to.

**Meta Apps, authorizations, channels** (`MetaConnect`). `meta-apps.ts`, `meta-oauth.ts`,
`facebook-page.ts`, `manage.ts`. *Hard*: Meta is asked between read and write; an App is
deleted meanwhile. *Correct if* a connected channel and an authorization have their App.

**Channel routing** (`ChannelRouting`). Links, defaults, archives in `manage.ts`. *Hard*:
several administrators; each check is a query before the write. *Correct if* a channel has at
most one default inbox, in its own workspace.

**Inbox tree and sidebar** (`InboxTree`, `Sidebar`). `inbox-tree.ts`, `workspace-api.ts`,
`queries.ts`, `Sidebar.tsx`. *Hard*: concurrent moves; three walks over one tree; two tabs
that save the same row. *Correct if* the tree is a forest of bounded depth, what the agent last
chose is kept, and the walks agree. They do where the parents of a readable inbox are readable;
below an archived or unreadable one the code departs from its documents (section 3).

**Call queues** (`CallQueues`). `calling-config.ts`, migration 0028. *Hard*: Meta is
configured between reservation and completion. *Correct if* a Page has one enabled queue.

Not modelled: see section 8.

## 2. The modules

| module | lines of code it stands for |
|---|---|
| `ProviderHandoff` | abstract: a message is offered by one attempt at a time and closed for good once it was taken or its outcome is unknown |
| `OutboundDelivery` | the intent state machine, the queue and the cron; refines `ProviderHandoff` |
| `CallSession`, `CallPresence` | one call; the sockets of agents |
| `ConversationTimeline`, `ConversationDesk`, `ConversationNotes`, `ConversationRoom` | one conversation: its messages, its status, what agents note, its sockets |
| `EmailIngress`, `EmailDrafts`, `Mailboxes` | email in, email out, and where it goes |
| `RuleBook`, `ChannelRouting`, `InboxTree`, `Sidebar` | what decides where a message lands and is shown |
| `Membership`, `InboxAccess`, `MetaConnect`, `CallQueues` | administration |
| `OutboundProofs` | theorems about outbound delivery: at most once, the timeline, refinement, binding, settling and retries |
| `CallProofs` | about calls |
| `TimelineProofs` | about the timeline, snoozes, call queues and notes |
| `EmailProofs` | about ingress, mailboxes and drafts |
| `RoutingProofs` | about the inbox tree, the sidebar and channel routing |
| `MembershipProofs` | about membership, access and the sockets of a conversation |
| `MetaProofs` | about Meta Apps and channels |
| `RuleProofs` | about the evaluation of the rules |
| `MCOutbound`, `MCCall`, `MCDesk`, `MCEmail`, `MCRouting`, `MCSidebar`, `MCMembership`, `MCRoom`, `MCLive` | instances for TLC; `MCLive` puts `MCCall` and `MCRoom` together |

`Sidebar` extends `InboxTree` (its walks go over the tree that concurrent moves make), and
`ConversationRoom` extends `InboxAccess` (the permission that every delivery asks for). The
other compositions are calls that one module makes and another explains: rules and drafts
end in a send, which is `OutboundDelivery`; email and chat end in an append, which is
idempotent by message id.

Each definition's source lines are in `PROJECT.json` under `map`. A definition headed
"Faulty" is what a plausible bug would make of the definition that follows it. Under
`mutants`, every property of a passing run is shown to fail with one of them.

### Correspondence, where it is not plain
- *Processes.* In `OutboundDelivery`, `CallSession`, `ConversationTimeline` and `EmailIngress` a
  process is an invocation, `pc` (or `at`) the statement it is about to run. In the modules of
  administration a request is a record: its kind, its stage, its input, and what it has read.
- *Time.* A timestamp is its age, or a lease what is left of it, in ticks, capped where the code
  cannot tell two values apart. Only times that the code compares are kept.
- *Providers.* A request is taken or not, and reported as taken, refused or unknown. For
  `LossyMessages` "refused" may be wrong: this is `facebook.ts:73` on a 5xx or an answer without
  an id. WhatsApp and email tell the cases apart. Meta's other answers are chosen freely.
- *CallSession.* `held[r]` is the copy of the session a handler works on, `Put` stores it.
  `answerer` is Meta's side, which connects the first accept. `rang`, `lastOffer` are history.
- *ConversationRoom.* `canReadConversation` is three questions (member, inbox, mailbox), and each is
  one `Read` per table: the members first, what the code puts into one `Promise.all` in any order, the
  delegates of an inbox last. `InboxSays` and `MailSays` are what one table says; at one moment
  they amount to `InboxReadable` and `MailReadable` of `InboxAccess` (`ReadingsAnswer`). Tables that
  no modelled request changes (inboxes, mailboxes, teams) are no steps.
- *Sidebar.* `readable` is `getReadableInboxIds`, which leaves out archived inboxes too.
- *ConversationDesk.* `snoozedUntil` is a string that the code compares as one (`snooze.ts:19`);
  the model has numbers.
- *ConversationTimeline.* `Send` repeats the append of `reconcileProviderSent` at will.
- *EmailIngress.* The batch of `routeEmailRulesAtomically` is one step, guarded by the claim of
  the row; the chat path of the same rules is `ConversationTimeline`'s `Rules`, and what rules
  do, on both paths, is `RuleBook`.
- *RuleBook.* A condition is a pair of group and fact, an action a pair of type and value. The
  query's ordered rows are a set of rules, each with its `stop_processing` as it was read, of which
  the evaluation takes the one of highest priority; a rule is its place in that order. What
  `set_status` stores for a value is `StatusOf`.
  `OutcomeIsReference` compares the evaluation, query by query, with a definition that reads
  the book at once: `Matching`, `Runs`, `Effects`.
- *InboxTree.* `TriggerAborts` is the trigger of migration 0026, `Current` the version test in
  the one UPDATE of `moveInboxInTree`. `Fits`, the check before it, is kept, since it decides
  which requests get that far.
- *MetaConnect.* Keys of the database are guards of the write (`Deletable`, `Insertable`): the
  foreign key from channels and sessions to Apps is what holds when two requests overlap.

## 3. The runs

Most components are small and independent of each other. To keep the runs few, those that
share no state are put into one instance with a variable `part`: a behaviour chooses its
part at first and the others stay where they began. The states of such a run are the sum of
the states of its parts, never a product, and every part is explored entirely.

| run | parts, properties | result |
|---|---|---|
| `outbound_leases` | two API requests and two cron invocations overlap; a failure in any call, no crash: `HandedOverOnce`, `OneInFlight`, `TimelineWasSent`, `AcceptedIsInTimeline`, `DispatchIsBound`, `FailedIsRetried`, `SettledIsFinal` | holds |
| `outbound_delivery` | with a crash, under fairness: `HandoffSpec` (refinement), `RecordedIsAccepted`, `SendingIsResolved`, `QueueDrains` | holds |
| `live` | call: two requests, the alarm and a failing call: `OfferedWereRung`, `AnswererWasRung`, `WinnerAnswered`; room: sockets, broadcasts and frames while access changes between the reads: `NothingAfterRevocation` | holds |
| `call_liveness` | under fairness, no failure: `RingingEnds`, `RowSettles` | holds |
| `call_accepted` | `AcceptedStands` | **violated** |
| `conversation_lost` | `AnsweredIsStored` | **violated** |
| `desk` | timeline: `HandledOnce`, `ListShowsNewest`, `AcknowledgedIsListed`; drafts: `SentOnce`; mailboxes: `MailboxIsServed`; desk: `SnoozeStands`; queues: `OneEnabled`; notes: `NotesAreTrue` | holds |
| `email` | ingress: `ProcessedIsShown`, `OnePlace`, `ProcessedIsFinal`, `ArchivedIsSettled` (fair); presence: `GhostFades` (fair) | holds |
| `membership` | members: `OwnerRemains`, `MembersAreInvited`, `ClaimsAreExclusive`; access: `AccessAgrees`; meta: `ChannelHasApp` | holds |
| `routing` | tree: `Forest`, `MovesAreCurrent`; sidebar: `SidebarIsTrue`; channels: `OneDefault`; rules: `OutcomeIsReference` | holds |
| `rules_stored` | `StoredAsRequested` | **violated** |
| `sidebar_documented` | `SidebarAsDocumented` (`Promoted`, `CountedBelow`) | **violated** |

### What the violated ones show
Each states what a comment or a document of the repository says; `PROJECT.json` quotes it.

- `call_accepted`: `offerStage` awaits the dispatch DO and stores its older copy afterwards. An
  agent that was rung in between may have accepted: the accepted session is `ringing` again.
- `conversation_lost`: the claim of an event is not given back when rules or append fail. Meta
  delivers again, the claim is found, the webhook answers 200, the message is nowhere.
- `rules_stored`: a request for a new rule inserts it, active, and its children in later statements.
  It fails before the first of them: the rule in force has none of the conditions and actions
  that were asked for. (Two edits of one rule may mix their children as well.)
- `sidebar_documented`: a below b below c, and b cannot be read any more (or is archived).
  The documents draw a below c, the nearest ancestor that is shown, and count its conversations there.
  The code draws a at the top, and the recursive query behind the count of c stops at b.

### Stated, not kept
Further definitions state what one may expect and the code does not do. No run checks them. The
documents promise the first three, and the rest not or only in part; the modules model the behaviour
that breaks each.

| definition | what happens |
|---|---|
| `OutboundDelivery!NotRetriedBlindly` | Messenger's adapter calls an HTTP error definitive (`facebook.ts:73`, `:77`), and an answer without a message id too (`:80`), although Meta may have taken the message; WhatsApp's does not (`whatsapp.ts:20`). A send-later message is then queued again and handed over a second time. `types.ts:99`: "An ambiguous transport failure may have reached the provider; never retry it blindly." |
| `ChannelRouting!ActiveHasDefault` | a deleted Page, whose links are gone (`manage.ts:1175`), is given a token (`:1124`): it is active again, has no default inbox, and its messages are refused. ADR 0017 (`docs/adr/0017-inbox-routing-sidebar.md:95`): "The system never leaves an active channel without a default inbox" |
| `ChannelRouting!ActiveIsRoutable` | nor with an open one: the inbox that is a channel's default is archived between the check and the write of another request |
| `OutboundDelivery!NoPartTwice` | `facebook.ts` posts a text and each image as requests of their own; if an image is refused after the text was taken, the whole is sent again from the text |
| `ConversationTimeline!OneContact` | two first messages of one sender make two contacts |
| `CallPresence!ConnectedIsEligible` | the offline write of an old socket comes after the connected one of the new |
| `ConversationRoom!PresenceIsTrue` | the end of one of two sockets removes the agent; a frame that is checked while its socket closes brings him back (`conversation-do.ts` 473-490, 519). A broadcast of an older presence list may also be delivered later |
| `ConversationNotes!OwnershipStays`, `MentionedIsNotified`, `CursorAdvances` | an administrator takes a tag that became private meanwhile (against the comment at `manage.ts:177`); a request dies between comment and notification; the older of two cursor writes comes last (needs two messages, `MaxSeq = 2`; the run has one) |
| `RuleBook!UnnamedStays` | the end of an evaluation undoes an assignment or move that an agent made during it |
| `CallQueues!StagesOnTeam`, `EnabledIsConfigured` | a group changes team while a queue with it is stored; a queue is moved during its enable |
| `Mailboxes!SuspendedIsOff` | a mailbox that was checked before its domain was suspended is enabled after it; its mail is still refused (`Resolution`, `MaySend`) |
| `InboxAccess!RestrictionStays` | removing the last grant of a restricted shared inbox opens it to all (`docs/adr` 0026:86) |
| `MetaConnect!ConfirmedIsVerified`, `DeletedHasNoToken`, `ClearedIsGone` | a token that is recreated while the old one is being confirmed is confirmed; an update stores the token of a channel that was deleted meanwhile; a second redirect of one state stores the Pages again after an owner has connected and cleared them |
| `Sidebar!NothingUnsent` | a change within the debounce of a change of another field is sent without it |

One more is no definition, since it needs a memory of its own. Before an event a delegate of a private
mailbox loses the delegation. The event's broadcast reads the grants (`inbox-tree.ts:64`), which name
him; then an administrator takes the grant away and the owner gives the delegation back; the
broadcast reads the delegates (`:160`), which name him, and sends. At no moment since the event was
made did he have both, which ADR 0026 (`:107`) requires. Each single table had let him in when it was
read, which is what `NothingAfterRevocation` is about; behaviours like this one are among those of `live`.

Met while reading, and modelled as the code has it: `workspaceHasTag` is true of every tag
(`rules.ts:413`); no code writes the visibilities team, private and system, and private
mailbox inboxes get no synchronized grants (ADR 0026:92-108); delegations and grants
survive offboarding; `connectChannelToken` and `disconnectChannel` change a deleted channel; a
disconnected WhatsApp channel must be deleted before it is connected again; a parent
that is unreadable for a moment drops its pins when preferences are saved; `joinInbox`,
`leaveInbox`, `addInboxMember`, `removeInboxMember` and `channel-provisioning.ts` are called by
nothing.

## 4. Bounds

The bounds are in the `.cfg` files; none replaces a definition.

- *One message in the outbound runs.* No statement of the code relates two intents; a cron
  invocation loops over rows but handles them one at a time. The timeline has three messages,
  since places relate them.
- *`outbound_leases`*: `MaxLife` 1 is below `LeaseTicks` 2, an assumption the code states
  (`scheduled-claim.ts:3`: the lease is longer than any invocation), and it matters: with a
  longer life the fence of a stale `sending` can overwrite an acknowledgement (`SettledIsFinal`
  fails). It is `LivesAreShort`, the hypothesis of two theorems. In `outbound_delivery` a life may be as
  long as the lease. `RuleMessages` is empty in
  both: a canned reply is a row of the queue under an id that no client knows, so
  it meets fewer actors; its action is in the module and in the proofs, and fires in no run.
  `LossyMessages` is empty too, since there `HandedOverOnce` says less. Every run has messages of one
  part; those of several are in the module and in the theorems.
- *Calls*: two stages of one tick, the second group containing the first, two agents, two
  requests and the alarm; `Deadline` 2 < `MetaDeadline` 3 < `Horizon` 4, so that a start may come
  in time, after the budget, and too late.
- *`desk`*: two events with a reply, two webhooks and a sender, one fault; two tabs, two edits, one
  lost call; two owners and two addresses on one domain name that may be deleted and made again,
  four requests (from a domain: create, verify, ready, enable); two overlapping revivals with one
  agent, three changes; two queues, two pages, two teams, six requests; two agents with one
  comment, one tag and three requests.
- *`email`*: a mail, an answer to it and one that cannot be parsed; a delivery and a cron
  invocation, two requests, one fault, leases of one tick and two attempts, so that an
  invocation outlives its lease and attempts run out. Two sockets of one agent.
- *`membership`*: two people, two usernames, two invitations, two requests at once, two tokens
  of each invitation; one App, Page, phone and authorization with two requests for `meta`.
  Access: two users, a team and a mailbox of each kind, from every assignment of members, grants,
  teams and delegates, with one change.
- *`live`, the room*: the delegate of a private mailbox has a socket, two handlers are started, the second
  beside the broadcast of the first, and his membership, grant and delegation change three times:
  enough for one of them to be lost and given back while another is lost. Tables that have no say
  here are read as soon as they may be. Longer histories and more sockets are the theorem's.
- *`sidebar_documented`*: three inboxes, one administrator, two moves; one of the inboxes may
  become unreadable.
- *`routing`*: three inboxes, one of them a system inbox, two administrators, depth and versions up
  to 2: two moves below each other, and one that is stale. A channel and two inboxes with two
  administrators. Two rules, of which one stops and one must meet two facts, a chat message and
  an email, a writer and two writes, a tag, an agent and a canned reply that may go meanwhile.
  For the sidebar two tabs change two fields, each about two inboxes, twice in all, and what is
  readable changes at will, on the tree as it begins; the tree below a sidebar that is used at
  the same time is the theorem's (`SidebarSpec`), which no run explores.
- Symmetry is declared for interchangeable requests and people in runs without liveness.
- Deadlock is not checked where a bound on requests stops the system: everything may be at rest.

## 5. Fairness

Only the liveness properties use it.

- `Tick`, `CronStart` and the crons of `EmailIngress`: time passes and `wrangler.toml:67` starts a
  cron invocation every minute.
- Each handler's step (weak fairness): what a handler awaits is answered, one way or the other.
  The outcome (taken, refused, unknown, failed) is *not* under fairness.
- `AppendOk`, `AcceptOk` (strong fairness): the DO and D1 do not refuse a reconciliation for
  ever. Without it an acknowledged message could be retried each minute without end; the
  code offers no other way out, and does not claim one.
- `AlarmFires`: the platform runs an alarm that is due. Faults and crashes have no fairness.
- `GhostFades`: time passes, so that the heartbeat of a row that nobody refreshes runs out.
- Nothing is assumed of agents: they need not accept, reject or hang up.

`RingingEnds` and `RowSettles` are claimed of calls without a fault only (`CalmSpec`): `start` stores `ringing` first
and sets the alarm last, so a failure in between leaves a call that rings for ever.

## 6. What is proved

The theorems hold for every value of the constants that satisfies the named `ASSUME`s: any number
of messages, agents, requests, stages and failures. No theorem assumes a bounded execution. Two,
`SettledStaysSettled` and `FailuresAreRetried`, assume that an invocation's life is shorter than a
lease (`LivesAreShort`), as `scheduled-claim.ts:3` does; those on at most once and on the timeline
hold without it.

Three assumptions are more than types. `TreeAssumption` (`InboxTree`) takes the inboxes to be finitely
many, as the rows of a table are. `RowAssumption` (`Membership`): a row is not `None`.
`VisibilityAssumption` (`InboxAccess`): the inbox behind a shared mailbox without a team is `shared`;
no statement of the code writes `visibility_type`, whose default is `shared` (migration 0026:3).
`RuleAssumption` (`RuleBook`) has no more than the types of what a request may store, the numbers
of condition groups among them, which are not negative
(`packages/contracts/src/management-schema.ts:119`).

| theorem | says |
|---|---|
| `OutboundProofs!TypeCorrect` | `TypeOK` |
| `OutboundProofs!NeverHandedOverTwice` | `HandedOverOnce` |
| `OutboundProofs!OneSenderAtATime` | `OneInFlight` |
| `OutboundProofs!NothingUnsentIsShown` | `TimelineWasSent` |
| `OutboundProofs!AcceptedIsShown` | `AcceptedIsInTimeline` |
| `OutboundProofs!DispatchesWhatIsBound` | `DispatchIsBound` |
| `OutboundProofs!ImplementsHandoff` | `HandoffSpec`, the refinement |
| `OutboundProofs!SettledStaysSettled`, `FailuresAreRetried` | `SettledIsFinal`, `FailedIsRetried`, if lives are short |
| `CallProofs!CallTypeCorrect` | `TypeOK` |
| `CallProofs!OnlyTheRungMayAccept`, `OnlyTheRungAnswer` | `OfferedWereRung`, `AnswererWasRung` |
| `CallProofs!OneWinner` | `WinnerAnswered` |
| `CallProofs!NoLateOffer` | `OffersInBudget` |
| `TimelineProofs!TimelineTypeCorrect` | `TypeOK` |
| `TimelineProofs!NothingIsHandledTwice` | `HandledOnce` |
| `TimelineProofs!NewestOnTop` | `ListShowsNewest` |
| `TimelineProofs!NothingAcknowledgedIsHidden` | `AcknowledgedIsListed` |
| `TimelineProofs!SnoozesStand` | `SnoozeStands` |
| `TimelineProofs!PagesHaveOneQueue` | `OneEnabled` |
| `TimelineProofs!NotesStayTrue` | `NotesAreTrue` |
| `EmailProofs!IngressTypes` | `TypeOK` |
| `EmailProofs!ProcessedEmailsAreShown`, `EmailsHaveOnePlace`, `ProcessedEmailsStay` | `ProcessedIsShown`, `OnePlace`, `ProcessedIsFinal` |
| `EmailProofs!MailboxesAreServed` | `MailboxIsServed` |
| `EmailProofs!TextsAreSentOnce`, `SubmissionsStay` | `SentOnce`, `SubmittedStays` |
| `RoutingProofs!InboxesFormAForest`, `InboxesMoveFromWhereSeen` | `Forest`, `MovesAreCurrent` |
| `RoutingProofs!SidebarWalksAgree` | `WalksAgree`: rows and counts agree, and a click lists the same unless an unreadable inbox is between |
| `RoutingProofs!SidebarStaysTrue` | `SidebarIsTrue`, over a tree that moves |
| `RoutingProofs!ChannelsHaveOneDefault` | `OneDefault` |
| `MembershipProofs!MembershipTypes` | `TypeOK` |
| `MembershipProofs!WorkspacesAreOwned`, `MembershipIsFounded`, `ClaimsHold` | `OwnerRemains`, `MembersAreInvited`, `ClaimsAreExclusive` |
| `MembershipProofs!AccessTypes`, `AnswersAgree` | `AccessTypeOK`, `AccessAgrees` |
| `MembershipProofs!RoomTypes`, `RevokedAgentsHearNothing` | `RoomTypeOK`, `NothingAfterRevocation` |
| `MembershipProofs!ReadingsAnswer` | at one moment, the readings of the tables amount to `InboxReadable` and `MailReadable` |
| `RuleProofs!RulesStayInOrder` | `RuleInv` |
| `RuleProofs!RulesDoAsWritten` | `OutcomeIsReference` |
| `MetaProofs!MetaTypes` | `MetaTypeOK` |
| `MetaProofs!ChannelsHaveApps` | `ChannelHasApp` |

The arguments:

- **Fencing** (`DispatchInv`). "At most once" is not inductive: one must know that an intent which
  can still be claimed has nobody in flight and has not been taken. Every write by id alone,
  which is where staleness could hurt, either comes from the one invocation in flight or
  writes a status that cannot be claimed. So a late fence may lose an acknowledgement but never
  reopens.
- **Timeline** (`TimelineInv` of `OutboundDelivery`). Whoever is past the provider call, a cron
  invocation with a selection included, holds a message that was taken. This is what lets
  reconciliation append without looking again.
- **Binding** (`BindingInv`). Past the check of the command the intent exists, and its binding is
  never changed.
- **Refinement.** The abstract state of a message is `trying` while somebody has it in flight, else
  `open` or `closed` by its status. Each action is one abstract step or a stutter; the late fence
  of a reclaimable intent is `Withdraw`.
- **Calls** (`CallInv`). Handlers store old copies of the session, so nothing about the *current*
  session is stable. What is stable is what an old copy cannot lose: an agent that was rung
  stays rung, and Meta's answer, once given, is never taken back. `Backed` says this of the
  session and of every copy, whence one lemma covers all the overtaking.
- **Conversation** (`TimelineInv` of `TimelineProofs`). An invocation that is to project holds the
  place of its message, places never change since the timeline only grows, and the conditional
  update keeps the count at the greatest projected place.
- **Channels** (`MetaProofs`). Whatever a request has read is worthless by the time it writes: only
  the guards of the writes, which are the foreign keys, carry the invariant. With the types it is
  inductive as it stands; each kind of row is a lemma.
- **Settled** (`SettledInv`). While an invocation has a message in flight, its status is `sending` and
  no older than the invocation, hence not stale, so nobody else takes it over or fences it. Whoever
  fences finds it `sending` or `uncertain`; whoever settles finds an acknowledgement.
- **Retries** (`RowInv`). The cron invocation that works on a row of the queue holds its lease all
  along, so that nobody else counts, drops or replaces the row; what it counted is what the intent
  failed. A row it selected and that was replaced since is not due for it.
- **Email ingress** (`IngressInv`). Any number of invocations may work on one mail, so what each stage
  relies on is a fact about the store that no step takes back: a canonical row, the mark of the
  one commit, a place in the timeline. Only an invocation at `settle` makes a row processed, and
  its mail is shown. The row's claim is needed for `ProcessedIsFinal` alone: whoever still holds a
  mail has a row that is `processing`, so the others' late writes find no row of theirs.
- **Drafts** (`DraftInv`). A text that is typed and not saved is in its tab alone. A text that was sent,
  or that nothing keeps from being sent, is in the row under its one id, or else *dead*: every save
  and every tab that could bring it back has an older revision than the row, which the conditional
  update refuses. So it never gets a second id.
- **Mailboxes** (`MailboxInv`). The guards of the writes carry it: a domain with a mailbox is not
  deleted, and the trigger of the transport covers the mailboxes that predate it.
- **Forest** (`TreeInv`). The trigger measures the tree as it is at the UPDATE; a move then attaches a
  subtree that fits. That a walk passes the moved inbox once, at a bounded height, is induction over
  the length of the walk, done as a least counterexample (`Least`), since the induction theorems
  of the library are out of reach.
- **Sidebar**. The rows go down the tree level by level, the count grows one set until nothing is new.
  In a forest of finitely many inboxes each inbox is at one level below one topmost row
  (`TreeHasLevels`); what is counted is closed under children, so it holds every level
  (`CountedIsBelow`), and induction along a level is again a least counterexample. Hence whatever
  is readable is drawn (`ReadableIsDrawn`), which the preferences need: nothing that an agent can see is
  taken out when they are saved. `PreferencesInv` then says, field by field (`Stands`): one tab at
  most has a change of it under way, and what this tab carries, or the row when nobody does, is
  what the agent last made of it; a copy of the row that was read earlier has the field as the row
  has it.
- **Membership** (`MemberInv`). What a request read is stale when it writes, so the invariant says what
  each stage may still rely on: the claim it holds, the account it made. The owner is kept by the
  trigger alone, in whose terms the last owner is counted at the write.
- **Access**. Needs no invariant: the three forms are equivalent by `VisibilityAssumption` and
  `AccessAssumption` in every state. What is shown is the translation between them.
- **Sockets** (`RoomInv`). A broadcast carries, for each table, the agents whom it denied when the event
  was made and ever since (a variable of the model, not of the code). They are denied by it now,
  and each table that has a say is read after the event: the members for every question, grants,
  teams and delegates for the inbox (`InboxAsksMore`: what the mailbox asks of a table, the
  inbox asks of it too). So a task whose questions were answered with yes has an agent whom no table denied
  throughout (`Passed`). That is all that readings at different moments can show; it is why the
  property is about one and the same table (section 3, stated, not kept). `BoxAssumption`: the
  mailbox of the conversation is one of `Boxes`.
- **Rules** (`RuleInv`). The reference reads the whole book; the evaluation has read a prefix of it. So
  the invariant of an undisturbed evaluation (`Reads`) says where it is, in front of a rule, at the
  actions of a rule that runs or after some of them, and that the conversation and its buffers are
  what the effects of the book *up to there* make of them (`Does`). A step adds one effect, and then
  four lemmas say what one more effect does to the first routing action that applies, the last
  status, the tags and the replies (`RouteIs`, `LastStatusIs`, `TagIs`, `RepliesAre`); or it passes
  over rules that do not run, which adds none (`EffectsSkip`). A step of an administrator changes
  the book and ends what is claimed of the evaluation. Effects and replies are joins of sequences of
  sequences, defined by recursion over their number; that such a join exists, is unique and grows at
  its end (`JoinExists`, `JoinsAreOne`, `FlattenOneMore`) is proved with the induction theorems
  replaced by a least counterexample.
- **Snoozes, queues, notes** (`DeskInv`, `QueueInv`, `WordsInv`, `TagsInv`): what a request has read is tied
  to the rows as far as the condition of its write needs it.

What the proofs corrected. `FailedIsRetried` was stated of every message; a proof attempt ended at
`Deny`, and TLC confirmed that an email whose sender lost the mailbox between two attempts is given
up before its attempts are used, as the code means it (the denial is definitive), so the property
is about the other messages. `LastChangesStand` spoke of one inbox; with two it is false: an agent
whose tab still shows what he can no longer read stores a list from which the server takes that inbox
out. Such a change is now among the events that excuse a field, and the run has two inboxes. Overlapping arms of a `CASE` in `Resolution`, which left the
answer open where the code has an order, became an `IF`. In `RuleBook` every action took its value out
of the tags that an email is to lose, where the code does so at `add_tag` only; and a status was
stored as it was named, where `set_status` stores `closed` as archived and `snoozed` as open. Its
candidates became a set, and its effects one definition by prefix, so that both can be reasoned
about. Updates of a record within a record,
and `@` under a prime, were rewritten without them, with the same meaning.

To repeat: `tlc -config <run>.cfg <module>` for a run of `PROJECT.json`, `tlapm <module>.tla` for
the proofs.

## 7. Only model-checked

Every liveness property: liveness under fairness is outside what the prover does. Every invariant
and every action property that a run expects to hold is also a theorem. The type invariants of the small modules are parts of the invariants that are
proved; no run lists them, for the safety properties say more. The definitions of "Stated, not
kept" are not theorems.

## 8. Not modelled

- *The HTTP layer* (`index.ts` apart from the handlers the modules name, `validation.ts`,
  `client.ts`): decoding, response shapes, error texts. Sessions and roles are guards where a
  property depends on them, and else left to `access.ts`, which decides one request by one read.
- *Listings and search* (most of `queries.ts`, summaries of `team-management.ts`, `manage.ts`,
  `mailboxes.ts`): reads without an effect. The filter behind a click in the sidebar is modelled.
- *Pure functions of one input*: MIME parsing and composing, HTML sanitising, attachments, DNS
  records, address syntax, encryption of tokens and signatures of webhooks. Where they decide
  something, both outcomes are possible.
- *Contracts, schema, authentication packages*: the tables are the modules' variables; Better Auth
  is external.
- *The web application*, but for the parts named above.
- *Typing indicators, walkthrough state, call metrics, the execution log of rules, audit rows*:
  written, and read by nothing that decides.
- *Two workspaces*. Every query names its workspace; one is modelled.

## 9. What is left to do

1. `EmailIngress` composed with `RuleBook`: rules that are edited while a replay evaluates them.
2. `CallSession` composed with `CallPresence`, so that `Vet` reads the rows that sockets leave.
