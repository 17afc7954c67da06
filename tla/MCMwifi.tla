------------------------------ MODULE MCMwifi ------------------------------
(* Instances of Mwifi for TLC: the root hub with children mid and side,    *)
(* and leaf below mid.                                                     *)
EXTENDS Mwifi, TLC

CONSTANTS hub, mid, leaf, side, u, v

Shape == (hub :> hub) @@ (mid :> hub) @@ (leaf :> mid) @@ (side :> hub)
Homes == (u :> hub) @@ (v :> leaf)

None == [e \in Events |-> 0]

Write(kind, to, size) == [kind |-> kind, to |-> to, size |-> size]

(* Short packets: the tree changes under two writers.                      *)
Moving ==
  { [writes |-> (u :> us) @@ (v :> vs),
     limit |-> [None EXCEPT !["move"] = 2, !["query"] = 1]] :
    us \in { <<Write("list", {mid, leaf}, 1)>>,
              <<Write("each", {Others}, 1)>> },
    vs \in { <<Write("node", mid, 1), Write("node", DS, 1)>> } }

(* The lists of all nodes, over a tree that stays.                         *)
Still ==
  { [writes |-> (u :> us) @@ (v :> vs), limit |-> None] :
    us \in {<<Write("list", {to}, 1)>> : to \in {Everyone, Others}},
    vs \in {<<Write("group", to, 1)>> : to \in {Everyone, Others}} }

(* Long packets to the root and past it.                                   *)
Long ==
  { [writes |-> (u :> <<Write("each", {Everyone}, 2)>>) @@
               (v :> <<Write("node", DS, 3), Write("node", DS, 2)>>),
     limit |-> None] }

(* Long packets of one writer, and one fault.                              *)
Faulty ==
  { [writes |-> (u :> [k \in 1 .. 3 |-> Write("list", {mid, leaf}, size[k])])
               @@ (v :> <<>>),
     limit |-> [None EXCEPT ![e] = 1]] :
    size \in {<<2, 2, 2>>, <<3, 1, 2>>, <<1, 3, 1>>},
    e \in {"loss", "repeat", "failure", "timeout", "stop"} }

(* The nodes below a child are not known, in a list and past its end.      *)
Unknown ==
  { [writes |-> (u :> <<Write("list", to, 1)>>) @@ (v :> <<>>),
     limit |-> [None EXCEPT !["query"] = 2, !["move"] = 1]] :
    to \in {{mid, leaf}, {leaf, side}} }

(* The mesh stops once under mwifi_root_read().                            *)
Stopping ==
  { [writes |-> (u :> <<Write("list", {mid, leaf}, 2)>>)
               @@ (v :> [k \in 1 .. 3 |-> Write("node", DS, size[k])]),
     limit |-> [None EXCEPT !["root_stop"] = 1]] :
    size \in {<<2, 2, 1>>, <<1, 3, 1>>} }

AllPlans == Moving \cup Still \cup Long \cup Faulty \cup Unknown
              \cup Stopping

(* One fragment on the way to mwifi_root_read() is lost.                   *)
GapPlan ==
  { [writes |-> (u :> <<>>) @@ (v :> <<Write("node", DS, 2),
                 Write("node", DS, 1), Write("node", DS, 1)>>),
     limit |-> [None EXCEPT !["loss"] = 1]] }
=============================================================================
