----------------------------- MODULE MCRouting -----------------------------
(***************************************************************************)
(* One instance for the three modules of the routing configuration.  They  *)
(* share no state in these models, so a behaviour belongs to one of them:  *)
(* part is chosen at first, and the other two stay where they began.       *)
(***************************************************************************)
EXTENDS Sidebar, ChannelRouting, RuleBook, TLC

CONSTANTS a, b, s, ann, vip, hello, home, side, chat, mail

VARIABLE part
vars == <<treeVars, sidebarVars, routingVars, ruleVars, part>>

Init ==
  /\ TreeInit /\ SidebarInit /\ RoutingInit /\ RuleInit
  /\ part \in {"tree", "sidebar", "channels", "rules"}
  /\ part # "tree" => order[s] = 0
  /\ part # "rules" => message = chat
  /\ part # "channels" => phones = {}
Next ==
  \/ part = "tree" /\ TreeNext /\ UNCHANGED <<sidebarVars, routingVars, ruleVars, part>>
  \/ part = "sidebar" /\ SidebarNext /\ UNCHANGED <<treeVars, routingVars, ruleVars, part>>
  \/ part = "channels" /\ RoutingNext /\ UNCHANGED <<treeVars, sidebarVars, ruleVars, part>>
  \/ part = "rules" /\ RuleNext /\ UNCHANGED <<treeVars, sidebarVars, routingVars, part>>
Spec == Init /\ [][Next]_vars

Three == {a, b, s}
Ranked == (s :> 0) @@ (a :> 1) @@ (b :> 2)

(* An exclusive rule that both of two facts must hold for, and one that either
   does. *)
SomeContents == 1 .. 2
SomeConditions == << << <<0, "vip">>, <<1, "mail">> >>, << <<0, "vip">>, <<0, "none">> >> >>
SomeActions == << << <<"assign_user", ann>>, <<"remove_tag", vip>>, <<"set_status", "archived">> >>,
                  << <<"move_inbox", side>>, <<"add_tag", vip>>, <<"send_canned_reply", hello>> >> >>
SomeStops == <<TRUE, FALSE>>
SomeFacts == (chat :> {"vip"}) @@ (mail :> {"vip", "mail"})

Same == Permutations(Arrangers) \cup Permutations(Editors)
=============================================================================
