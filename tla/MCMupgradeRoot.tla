--------------------------- MODULE MCMupgradeRoot ---------------------------
(* Instances of MupgradeRoot for TLC.                                      *)
EXTENDS MupgradeRoot, TLC

CONSTANTS A, B

OnePacket  == [f \in Firmware |-> 1]
TwoPackets == [f \in Firmware |-> 2]

(* Late answers and failing reads in one round; two rounds without.        *)
Late     == {[retry |-> 1, events |-> {"timeout", "read failure"}],
             [retry |-> 2, events |-> {}]}
AnyFault == {[retry |-> 2, events |-> Events \ {"root restart", "firmware stop"}],
             [retry |-> 1, events |-> Events \ {"device restart"}],
             [retry |-> 1, events |-> Events \ {"device stop", "firmware stop",
                                                "read failure"}]}
Stops    == {[retry |-> 1, events |-> {"firmware stop"}]}
Answers  == {[retry |-> 1, events |-> {"timeout"}]}

Symmetry == Permutations(Devices)
=============================================================================
