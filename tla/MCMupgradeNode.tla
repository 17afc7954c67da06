--------------------------- MODULE MCMupgradeNode ---------------------------
(* Instances of MupgradeNode for TLC.                                      *)
EXTENDS MupgradeNode, TLC

CONSTANTS A, B

(* The root distributes A, then another firmware B.                        *)
TwoFirmwares == <<A, B>>
(* The root returns to A after it offered B.                               *)
BackToFirst  == <<A, B, A>>
OneFirmware  == <<A>>

Packets == (A :> 3) @@ (B :> 1)
PacketsOne == (A :> 3)

(* Devices share no state: a run looks at one of them at a time, of either *)
(* mesh type.                                                              *)
VARIABLE focus

Rests(d) ==
  /\ <<config'[d], store'[d], flash'[d], boot'[d], finished'[d], pc'[d]>>
       = <<config[d], store[d], flash[d], boot[d], finished[d], pc[d]>>
  /\ <<next_percentage'[d], out'[d], offer'[d], answered'[d]>>
       = <<next_percentage[d], out[d], offer[d], answered[d]>>
  /\ <<erasedFor'[d], switched'[d]>> = <<erasedFor[d], switched[d]>>
  /\ <<stopping'[d], excused'[d]>> = <<stopping[d], excused[d]>>

FocusInit == Init /\ focus \in Devices
FocusNext == Next /\ UNCHANGED focus /\ \A d \in Devices \ {focus} : Rests(d)
FocusSpec == FocusInit /\ [][FocusNext]_<<vars, focus>>
FocusFairSpec == FocusSpec /\ Fairness
=============================================================================
