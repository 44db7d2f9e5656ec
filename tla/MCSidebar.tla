------------------------------- MODULE MCSidebar -------------------------------
(***************************************************************************)
(* The sidebar over three inboxes, of which the agent may lose b, while an *)
(* administrator arranges the tree: one below the other takes two moves.   *)
(***************************************************************************)
EXTENDS Sidebar, TLC

CONSTANTS a, b, c

Three == {a, b, c}
Ranked == (a :> 0) @@ (b :> 1) @@ (c :> 2)
=============================================================================
