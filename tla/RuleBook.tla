-------------------------------- MODULE RuleBook --------------------------------
(***************************************************************************)
(* The rules: their administration (validateAndWriteRule and deleteRule of *)
(* manage.ts), which writes a rule and its children one statement at a     *)
(* time, and their evaluation for an inbound message (evaluateRules of     *)
(* rules.ts), which reads them one query at a time.                        *)
(*                                                                         *)
(* A chat message writes its tags as it goes and the conversation if the   *)
(* rules changed its routing (ingest.ts); an email buffers every write and *)
(* commits them with the conversation (email-persistence.ts).  A canned    *)
(* reply is put on the queue of scheduled messages.  One message           *)
(* is evaluated: two share only the configuration, which they only read.   *)
(*                                                                         *)
(* A condition is a pair of its group and of a fact about the message, an  *)
(* action a pair of its type and value.  Left out: how an operator         *)
(* compares a field, the execution log, teams, the rules scoped to another *)
(* inbox or inactive, archived destinations, names.                        *)
(***************************************************************************)
EXTENDS Naturals, Sequences, FiniteSets, SequencesExt

CONSTANTS
  Size,         \* the rules are 1 .. Size, in the order of their priority
  Contents,     \* what an administrator may store as a rule
  Conditions,   \* Conditions[v], a sequence of <<group, fact>>
  Actions,      \* Actions[v], a sequence of <<type, value>>
  Stops,        \* Stops[v], stop_processing
  Messages,
  Facts,        \* Facts[message], the facts that hold of message m
  Emails,       \* the messages that arrive as email
  Writers,      \* requests of administrators
  Agents,
  Tags,         \* ids of tags that a rule may name
  Canned,       \* ids of canned replies
  Texts,        \* their bodies
  Destinations, \* inboxes
  Home,         \* the default one, a member
  Nobody,
  MaxWrites     \* bound on the requests of administrators

(* set_status: what is stored for the status that an action names; another
   value is skipped. *)
StatusOf == [open |-> "open", archived |-> "archived", closed |-> "archived", snoozed |-> "open"]

Values == Agents \cup Destinations \cup Tags \cup Canned \cup DOMAIN StatusOf

ASSUME RuleAssumption ==
  /\ Size \in Nat /\ MaxWrites \in Nat
  /\ Emails \subseteq Messages /\ Home \in Destinations
  /\ Conditions \in [Contents -> Seq(Nat \X STRING)]
  /\ Actions \in [Contents -> Seq(STRING \X Values)]
  /\ Stops \in [Contents -> BOOLEAN]

VARIABLES
  rule,         \* rule[k]: the row with its children, or Absent
  writer,
  writes,       \* requests so far
  member,       \* the agents that belong to the workspace
  known,        \* the tags that exist
  canned,       \* canned_replies: the body of each, or Nobody
  message,      \* the message that arrives
  routed,       \* its conversation: inbox, assignee and status
  tagged,       \* the tags of the conversation
  scheduled,    \* the replies that the rules put on its queue
  run           \* the evaluation

ruleVars == <<rule, writer, writes, member, known, canned, message, routed, tagged, scheduled, run>>

workspace == <<member, known, canned>>
configuration == <<rule, writer, writes, workspace>>
conversation == <<message, routed, tagged, scheduled>>

Book == 1 .. Size
Absent == [on |-> FALSE, stop |-> FALSE, conds |-> <<>>, acts |-> <<>>]
Resting == [at |-> "idle", rule |-> 0, content |-> 0, n |-> 0]
Fresh == [inbox |-> Home, assignee |-> Nobody, status |-> "open"]
Unread == [at |-> "idle", todo |-> {}, acts |-> <<>>, won |-> FALSE,
           from |-> Fresh, out |-> Fresh, adds |-> {}, drops |-> {}, says |-> <<>>, calm |-> TRUE]

RuleRows == [on : BOOLEAN, stop : BOOLEAN, conds : Seq(Nat \X STRING), acts : Seq(STRING \X Values)]
WriteStages == [at : {"conditions", "actions", "children"}, rule : Book, content : Contents, n : Nat]
Situations == [inbox : Destinations, assignee : Agents \cup {Nobody}, status : {"open", "archived"}]
Evaluations == [at : {"conditions", "actions", "apply", "done"}, todo : SUBSET (Book \X BOOLEAN),
                acts : Seq(STRING \X Values), won : BOOLEAN, from : Situations, out : Situations,
                adds : SUBSET Values, drops : SUBSET Values, says : Seq(Texts), calm : BOOLEAN]

RuleTypeOK ==
  /\ rule \in [Book -> RuleRows]
  /\ writer \in [Writers -> WriteStages \cup {Resting}]
  /\ writes \in 0 .. MaxWrites
  /\ member \subseteq Agents /\ known \subseteq Tags
  /\ canned \in [Canned -> Texts \cup {Nobody}]
  /\ message \in Messages
  /\ routed \in Situations /\ tagged \subseteq Tags /\ scheduled \in Seq(Texts)
  /\ run \in Evaluations \cup {Unread}

RuleInit ==
  /\ rule = [k \in Book |-> Absent]
  /\ writer = [w \in Writers |-> Resting]
  /\ writes = 0
  /\ member = Agents
  /\ known = Tags
  /\ canned \in [Canned -> Texts]
  /\ message \in Messages
  /\ routed = Fresh
  /\ tagged = {}
  /\ scheduled = <<>>
  /\ run = Unread

-----------------------------------------------------------------------------
(* Administration.                                                          *)

(* An evaluation that is under way has seen another book than the one it
   will end with; one that is over was of another book. *)
Over == [Unread EXCEPT !.at = "done", !.calm = FALSE]
Disturb == run' = CASE run.at = "idle" -> run
                    [] run.at = "done" -> Over
                    [] OTHER -> [run EXCEPT !.calm = FALSE]

(* A new rule is active at once, without its children; an existing one keeps
   them for two more statements. *)
BeginWrite(w, k, v) ==
  /\ writer[w].at = "idle"
  /\ writes < MaxWrites
  /\ writes' = writes + 1
  /\ rule' = [rule EXCEPT ![k].on = TRUE, ![k].stop = Stops[v]]
  /\ writer' = [writer EXCEPT ![w] = [at |-> IF rule[k].on THEN "conditions" ELSE "children",
                                      rule |-> k, content |-> v, n |-> 0]]
  /\ Disturb
  /\ UNCHANGED <<workspace, conversation>>

DropConditions(w) ==
  /\ writer[w].at = "conditions"
  /\ rule' = [rule EXCEPT ![writer[w].rule].conds = <<>>]
  /\ writer' = [writer EXCEPT ![w].at = "actions"]
  /\ Disturb
  /\ UNCHANGED <<writes, workspace, conversation>>

DropActions(w) ==
  /\ writer[w].at = "actions"
  /\ rule' = [rule EXCEPT ![writer[w].rule].acts = <<>>]
  /\ writer' = [writer EXCEPT ![w].at = "children"]
  /\ Disturb
  /\ UNCHANGED <<writes, workspace, conversation>>

(* The next condition, then the next action; a rule that was deleted in the
   meantime takes no more. *)
InsertChild(w) ==
  LET k == writer[w].rule
      cs == Conditions[writer[w].content]
      as == Actions[writer[w].content]
      n == writer[w].n + 1
  IN /\ writer[w].at = "children"
     /\ IF n > Len(cs) + Len(as) \/ ~rule[k].on
        THEN writer' = [writer EXCEPT ![w] = Resting] /\ UNCHANGED <<rule, run>>
        ELSE /\ writer' = [writer EXCEPT ![w].n = n]
             /\ rule' = IF n <= Len(cs)
                        THEN [rule EXCEPT ![k].conds = Append(@, cs[n])]
                        ELSE [rule EXCEPT ![k].acts = Append(@, as[n - Len(cs)])]
             /\ Disturb
     /\ UNCHANGED <<writes, workspace, conversation>>

(* A statement fails, and the request with it; there is no transaction. *)
Abandon(w) ==
  /\ writer[w] # Resting
  /\ writer' = [writer EXCEPT ![w] = Resting]
  /\ UNCHANGED <<rule, writes, workspace, conversation, run>>

(* The children go with their rule. *)
DeleteRule(k) ==
  /\ rule[k].on
  /\ writes < MaxWrites
  /\ writes' = writes + 1
  /\ rule' = [rule EXCEPT ![k] = Absent]
  /\ Disturb
  /\ UNCHANGED <<writer, workspace, conversation>>

(* deleteTag takes the tag off every conversation. *)
DeleteTag(t) ==
  /\ t \in known
  /\ known' = known \ {t}
  /\ tagged' = tagged \ {t}
  /\ Disturb
  /\ UNCHANGED <<rule, writer, writes, member, canned, message, routed, scheduled>>

Leave(a) ==
  /\ a \in member
  /\ member' = member \ {a}
  /\ Disturb
  /\ UNCHANGED <<rule, writer, writes, known, canned, conversation>>

(* createCannedReply, updateCannedReply and deleteCannedReply. *)
WriteReply(y, body) ==
  /\ canned[y] # body
  /\ writes < MaxWrites
  /\ writes' = writes + 1
  /\ canned' = [canned EXCEPT ![y] = body]
  /\ Disturb
  /\ UNCHANGED <<rule, writer, member, known, conversation>>

-----------------------------------------------------------------------------
(* Evaluation.                                                              *)

Routing == {"assign_user", "move_inbox"}

(* One member of every group holds. *)
Matches(conds, facts) ==
  \A c \in ToSet(conds) : \E d \in ToSet(conds) : d[1] = c[1] /\ d[2] \in facts

(* An agent assigns or moves the conversation, which an earlier message has
   made (PATCH /api/conversations/:id). *)
Desk(a, b) ==
  /\ run.at # "done"
  /\ routed' = [routed EXCEPT !.assignee = a, !.inbox = b]
  /\ UNCHANGED <<configuration, message, tagged, scheduled, run>>

(* The candidates are read once, with their stop_processing.  An email starts
   from its conversation as it is, a chat message from the default inbox. *)
Begin ==
  /\ run = Unread
  /\ LET from == IF message \in Emails THEN routed ELSE Fresh IN
     run' = [run EXCEPT !.at = "conditions", !.from = from, !.out = from,
       !.todo = {<<k, rule[k].stop>> : k \in {i \in Book : rule[i].on}}]
  /\ UNCHANGED <<configuration, conversation>>

(* They are taken in the order of their priority. *)
Candidate == CHOOSE c \in run.todo : \A d \in run.todo : c[1] <= d[1]
Rest == run.todo \ {Candidate}

ReadConditions ==
  /\ run.at = "conditions" /\ run.todo # {}
  /\ LET conds == rule[Candidate[1]].conds IN
     run' = IF Matches(conds, Facts[message])
            THEN [run EXCEPT !.at = "actions"]
            ELSE [run EXCEPT !.todo = Rest]
  /\ UNCHANGED <<configuration, conversation>>

(* What follows the read of the actions or one of them: the next action, or
   the next rule unless this one stops. *)
Continue(r) ==
  IF r.acts # <<>> THEN [r EXCEPT !.at = "apply"]
  ELSE [r EXCEPT !.at = "conditions", !.todo = IF Candidate[2] THEN {} ELSE Rest]

ReadActions ==
  /\ run.at = "actions"
  /\ run' = Continue([run EXCEPT !.acts = rule[Candidate[1]].acts])
  /\ UNCHANGED <<configuration, conversation>>

(* Faulty: the first match wins in each rule, not over all of them. *)
WinsInRule == \A i \in 1 .. Len(rule[Candidate[1]].acts) - Len(run.acts) :
                   rule[Candidate[1]].acts[i][1] \notin Routing

Wins == ~run.won

(* move_inbox looks for the destination, assign_user whether the agent is a
   member; add_tag fails on the foreign key if the tag is gone, and with it
   the rule.  workspaceHasTag holds of every tag. *)
Fails(type, t) == type = "add_tag" /\ t \notin known /\ message \notin Emails
Applies(type, x) == (type = "move_inbox" /\ x \in Destinations) \/ (type = "assign_user" /\ x \in member)
Restates(type, x) == type = "set_status" /\ x \in DOMAIN StatusOf

(* send_canned_reply of a reply that is gone is skipped. *)
Says(type, y) == IF type = "send_canned_reply" /\ y \in Canned /\ canned[y] # Nobody THEN <<canned[y]>> ELSE <<>>

Apply ==
  LET type == run.acts[1][1]
      x == run.acts[1][2]
      wins == type \in Routing /\ Wins /\ Applies(type, x)
      out == run.out
  IN /\ run.at = "apply"
     /\ run' = Continue([run EXCEPT
          !.acts = IF Fails(type, x) THEN <<>> ELSE Tail(@),
          !.won = @ \/ wins,
          !.out = [inbox |-> IF wins /\ type = "move_inbox" THEN x ELSE out.inbox,
                      assignee |-> IF wins /\ type = "assign_user" THEN x ELSE out.assignee,
                      status |-> IF Restates(type, x) THEN StatusOf[x] ELSE out.status],
          !.adds = IF message \in Emails /\ type = "add_tag" THEN @ \cup {x} ELSE @,
          !.drops = IF message \in Emails /\ type = "remove_tag" THEN @ \cup {x}
                    ELSE IF type = "add_tag" THEN @ \ {x} ELSE @,
          !.says = IF message \in Emails THEN @ \o Says(type, x) ELSE @])
     /\ scheduled' = IF message \in Emails THEN scheduled ELSE scheduled \o Says(type, x)
     /\ tagged' = IF message \in Emails THEN tagged ELSE
                  IF type = "add_tag" THEN tagged \cup ({x} \cap known)
                  ELSE IF type = "remove_tag" THEN tagged \ {x} ELSE tagged
     /\ UNCHANGED <<configuration, message, routed>>

(* The conversation is written, for a chat message only if the rules changed
   something; the batch of an email aborts if a tag that it adds is gone, and
   the email is evaluated again later. *)
Finish ==
  /\ run.at = "conditions" /\ run.todo = {}
  /\ IF message \in Emails /\ ~(run.adds \subseteq known)
     THEN run' = Unread /\ UNCHANGED <<routed, tagged, scheduled>>
     ELSE /\ routed' = IF message \in Emails \/ run.out # Fresh
                       THEN run.out ELSE routed
          /\ tagged' = (tagged \cup run.adds) \ run.drops
          /\ scheduled' = scheduled \o run.says
          /\ run' = [run EXCEPT !.at = "done", !.adds = {}, !.drops = {}, !.says = <<>>]
  /\ UNCHANGED <<configuration, message>>

RuleNext ==
  \/ \E w \in Writers :
       \/ \E k \in Book, v \in Contents : BeginWrite(w, k, v)
       \/ DropConditions(w) \/ DropActions(w) \/ InsertChild(w) \/ Abandon(w)
  \/ \E k \in Book : DeleteRule(k)
  \/ \E t \in Tags : DeleteTag(t)
  \/ \E a \in Agents : Leave(a)
  \/ \E y \in Canned, body \in Texts \cup {Nobody} : WriteReply(y, body)
  \/ \E a \in Agents, b \in Destinations : Desk(a, b)
  \/ Begin \/ ReadConditions \/ ReadActions \/ Apply \/ Finish

RuleSpec == RuleInit /\ [][RuleNext]_ruleVars

-----------------------------------------------------------------------------
(* What the book says of a message, as one reads it (ADR 0009): the matching
   rules up to the first that stops, the first routing action that applies,
   and every other action. *)
Matching == {k \in Book : rule[k].on /\ Matches(rule[k].conds, Facts[message])}
Runs == {k \in Matching : \A j \in Matching : j < k => ~rule[j].stop}
UpToFailure(acts) ==
  SelectInSeq(acts, LAMBDA x : Fails(x[1], x[2]))
Effective(k) ==
  LET acts == rule[k].acts
  IN IF UpToFailure(acts) = 0 THEN acts ELSE SubSeq(acts, 1, UpToFailure(acts) - 1)
EffectsUpTo(n) == FlattenSeq([k \in 1 .. n |-> IF k \in Runs THEN Effective(k) ELSE <<>>])
Effects == EffectsUpTo(Size)

(* What a sequence of effects makes of a conversation. *)
Route(effects) == SelectInSeq(effects, LAMBDA x : x[1] \in Routing /\ Applies(x[1], x[2]))
Routes(effects, type) == Route(effects) # 0 /\ effects[Route(effects)][1] = type
LastStatus(effects) == SelectLastInSeq(effects, LAMBDA x : Restates(x[1], x[2]))
Placed(effects, from) ==
  [inbox    |-> IF Routes(effects, "move_inbox") THEN effects[Route(effects)][2] ELSE from.inbox,
   assignee |-> IF Routes(effects, "assign_user") THEN effects[Route(effects)][2] ELSE from.assignee,
   status   |-> IF LastStatus(effects) = 0 THEN from.status ELSE StatusOf[effects[LastStatus(effects)][2]]]

TagIsOn(effects, t) ==
  LET i == SelectLastInSeq(effects, LAMBDA x : x[1] \in {"add_tag", "remove_tag"} /\ x[2] = t)
  IN i # 0 /\ effects[i][1] = "add_tag"
Replies(effects) == FlattenSeq([i \in DOMAIN effects |-> Says(effects[i][1], effects[i][2])])

(* An evaluation that met no administrator does what the book says: routing
   is first match wins in the order of the rules, the rest all applies
   (ADR 0009), however the reads and writes were spread. *)
OutcomeIsReference ==
  (run.at = "done" /\ run.calm) =>
    /\ run.out = Placed(Effects, run.from)
    /\ tagged = {t \in known : TagIsOn(Effects, t)}
    /\ scheduled = Replies(Effects)

(* The comment of validateAndWriteRule: the children are replaced wholesale,
   so that the stored tree always matches the request.  When no request is
   under way, every active rule is as one of them asked.  Not kept: a request
   that ends half way leaves what it has written so far. *)
StoredAsRequested ==
  (\A w \in Writers : writer[w] = Resting) =>
    \A k \in Book : rule[k].on =>
      \E v \in Contents : /\ rule[k].stop = Stops[v]
                          /\ rule[k].conds = Conditions[v] /\ rule[k].acts = Actions[v]

(* The comment of RuleEvaluationContext: the rules start from the inbox in
   which the conversation currently sits, so that the end of an evaluation
   leaves the inbox and the assignee that no rule changed. *)
UnnamedStays ==
  [][\A f \in {"inbox", "assignee"} :
       (run.at # "done" /\ run'.at = "done" /\ run.out[f] = run.from[f]) => routed'[f] = routed[f]]_ruleVars
=============================================================================
