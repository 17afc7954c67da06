--------------------------- MODULE UpgradeDevice ----------------------------
(***************************************************************************)
(* What a device of Mupgrade promises, without saying how: it claims one   *)
(* firmware at a time, gathers the packets of the firmware it claims, and  *)
(* selects a firmware for its next boot only when it has gathered all of   *)
(* them.  A restart may cost it packets but never gives it one it did not  *)
(* gather, unless the upgrade had been halted before.                      *)
(*                                                                         *)
(* MupgradeNode implements this specification, and MupgradeRoot is         *)
(* composed with it.                                                       *)
(***************************************************************************)
EXTENDS Naturals

CONSTANTS
  Devices,    \* the devices
  Firmware,   \* the firmwares there are
  NoFw,       \* no firmware
  PacketNum   \* the number of packets of each firmware

ASSUME DeviceAssumption ==
  /\ NoFw \notin Firmware
  /\ PacketNum \in [Firmware -> Nat \ {0}]

VARIABLES
  claim,      \* the firmware each device is upgrading to
  got,        \* the packets of it that are counted as written
  halted,     \* the upgrade was stopped
  selected    \* the firmwares the device ever selected for boot

deviceVars == <<claim, got, halted, selected>>

All(f) == 0 .. PacketNum[f] - 1

DeviceInit ==
  /\ claim = [d \in Devices |-> NoFw]
  /\ got = [d \in Devices |-> {}]
  /\ halted = [d \in Devices |-> FALSE]
  /\ selected = [d \in Devices |-> {}]

(* A request for another firmware restarts the upgrade.                    *)
Start(d, f) ==
  /\ claim[d] # f
  /\ claim' = [claim EXCEPT ![d] = f]
  /\ got' = [got EXCEPT ![d] = {}]
  /\ halted' = [halted EXCEPT ![d] = FALSE]
  /\ UNCHANGED selected

(* One packet more.                                                        *)
Gather(d, p) ==
  /\ claim[d] # NoFw /\ ~halted[d]
  /\ p \in All(claim[d]) \ got[d]
  /\ got' = [got EXCEPT ![d] = @ \cup {p}]
  /\ UNCHANGED <<claim, halted, selected>>

(* Every packet is there: the firmware is selected, and said to be.        *)
Select(d) ==
  /\ claim[d] # NoFw
  /\ got[d] = All(claim[d])
  /\ selected' = [selected EXCEPT ![d] = @ \cup {claim[d]}]
  /\ got' \in {got, [got EXCEPT ![d] = {}]}
  /\ UNCHANGED <<claim, halted>>

(* The upgrade is stopped, or could not be completed.                      *)
Halt(d) ==
  /\ claim[d] # NoFw
  /\ halted' = [halted EXCEPT ![d] = TRUE]
  /\ got' \in {got, [got EXCEPT ![d] = {}]}
  /\ UNCHANGED <<claim, selected>>

(* A restart resumes what was saved of the firmware claimed, of an earlier *)
(* one, or nothing.                                                        *)
Resume(d, f, P) ==
  /\ (f = claim[d] /\ ~halted[d]) => P \subseteq got[d]
  /\ claim' = [claim EXCEPT ![d] = f]
  /\ got' = [got EXCEPT ![d] = P]
  /\ \E h \in BOOLEAN : halted' = [halted EXCEPT ![d] = h]
  /\ UNCHANGED selected

DeviceNext ==
  \E d \in Devices :
    \/ \E f \in Firmware : Start(d, f)
    \/ \E f \in Firmware : \E p \in All(f) : Gather(d, p)
    \/ Select(d)
    \/ Halt(d)
    \/ Resume(d, NoFw, {})
    \/ \E f \in Firmware : \E P \in SUBSET All(f) : Resume(d, f, P)

DeviceSpec == DeviceInit /\ [][DeviceNext]_deviceVars
=============================================================================
