----------------------------- MODULE MCMespnow ------------------------------
(* Instances of Mespnow for TLC: two tasks u and v of one node write to    *)
(* one pipe of another node.                                               *)
EXTENDS Mespnow, TLC

CONSTANTS u, v, x, pipe

Homes   == [w \in Writers |-> x]
Targets == [w \in Writers |-> CHOOSE r \in Readers : TRUE]

None == [e \in Events |-> 0]
Plan(a, b, limit) == [sizes |-> (u :> a) @@ (v :> b), limit |-> limit]

(* One event of each kind, over two tasks with long packets.               *)
OneFault ==
  {Plan(<<2, 1>>, <<2>>, [None EXCEPT ![e] = 1]) : e \in Events}
    \cup {Plan(<<2, 2, 2>>, <<>>, [None EXCEPT ![e] = 1]) : e \in Events}

(* Attempts that run out, and repeated frames that overtake nothing.       *)
Losses ==
  {Plan(<<2, 2, 1>>, <<1>>, [None EXCEPT !["loss"] = 3]),
   Plan(<<2, 2>>, <<2>>, [None EXCEPT !["loss"] = 2, !["ack loss"] = 2]),
   Plan(<<2, 2>>, <<1>>, [None EXCEPT !["loss"] = 2, !["damage"] = 1]),
   Plan(<<2, 3, 1>>, <<1>>, [None EXCEPT !["ack loss"] = 1,
                                         !["late callback"] = 2]),
   Plan(<<2, 2, 2>>, <<>>, [None EXCEPT !["loss"] = 2,
                                        !["late callback"] = 1])}

AllPlans == OneFault \cup Losses
=============================================================================
