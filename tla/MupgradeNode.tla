---------------------------- MODULE MupgradeNode ----------------------------
(***************************************************************************)
(* The device side of Mupgrade (components/mupgrade/mupgrade_node.c):      *)
(* devices receive status requests and firmware packets from the root,     *)
(* program the packets into the update partition, keep a record of their   *)
(* progress in RAM and, at intervals, in NVS, and select the partition for *)
(* the next boot when every packet is in.  A device may restart between    *)
(* any two persistent effects of a handler, and mupgrade_stop() runs in    *)
(* another task: its steps and those of a handler interleave.              *)
(*                                                                         *)
(* The root is an environment here: it distributes the firmwares of        *)
(* Campaigns one after the other, over a mesh that loses and repeats       *)
(* messages but keeps the order of what it delivers to one device.         *)
(* Firmware is a name together with a size: what line 44 compares.         *)
(***************************************************************************)
EXTENDS Integers, FiniteSets, Sequences

CONSTANTS
  Devices,     \* the devices on the list of mupgrade_firmware_send()
  RootTypes,   \* those of mesh type MESH_ROOT or MESH_STA
  Campaigns,   \* the firmwares the root distributes, in order
  NoFw,        \* no firmware: a NULL configuration, a missing NVS key
  PacketNum,   \* packets in each firmware: total_size / 1024
  MaxPacket,   \* packets the update partition holds
  SavedNum,    \* packets whose progress bit is inside the blob that is saved
  Interval,    \* CONFIG_MUPGRADE_STATUS_REPORT_INTERVAL, in percent
  Broadcast,   \* TRUE: data also goes to devices that answered no request
  UplinkCap    \* status messages a device may have on their way to the root

Firmware == {Campaigns[c] : c \in DOMAIN Campaigns}
Slots    == 0 .. MaxPacket
Erased   == "erased"      \* a flash slot that reads 0xff
Mixed    == "mixed"       \* a slot programmed twice, or an older image

ASSUME ConstantsAssumption ==
  /\ RootTypes \subseteq Devices
  /\ Campaigns \in Seq(Firmware) /\ Campaigns # <<>>
  /\ MaxPacket \in Nat /\ SavedNum \in Nat /\ UplinkCap \in Nat \ {0}
  /\ PacketNum \in [Firmware -> 1 .. MaxPacket]
  /\ Interval \in 1 .. 100
  /\ Broadcast \in BOOLEAN
  /\ NoFw \notin Firmware
  /\ {Erased, Mixed, NoFw} \cap Firmware = {}

VARIABLES
  config,    \* g_upgrade_config->status of each device
  store,     \* the record under MUPGRADE_STORE_CONFIG_KEY in NVS
  flash,     \* the slots of the update partition
  boot,      \* the firmware otadata selects for the next boot, or NoFw
  finished,  \* g_upgrade_finished_flag
  next_percentage,   \* s_next_written_percentage
  pc,        \* where the handler stands between two persistent effects
  stopping,  \* where mupgrade_stop() stands
  out,       \* status messages on their way to the root
  offer,     \* the campaign of the last message that reached the device
  answered,  \* the last campaign the device answered a request of
  erasedFor, \* history: the firmware the update partition was erased for
  switched,  \* history: the firmwares the device ever selected for boot
  excused    \* history: a selection mupgrade_stop() could not see was made

vars == <<config, store, flash, boot, finished, next_percentage, pc, stopping,
          out, offer, answered, erasedFor, switched, excused>>

Error  == {"OK", "FINISH", "FAIL", "STOP"}
Record == [fw : Firmware \cup {NoFw}, err : Error,
           written : 0 .. MaxPacket + 1, bits : SUBSET Slots]
Nothing == [fw |-> NoFw, err |-> "OK", written |-> 0, bits |-> {}]

AllSlots(v) == [s \in Slots |-> v]

(***************************************************************************)
(* Flash clears bits and never sets them: a slot takes what is programmed  *)
(* only when it was erased, or held the same data already.                 *)
(***************************************************************************)
Program(old, new) == IF old \in {Erased, new} THEN new ELSE Mixed

(***************************************************************************)
(* mdf_info_save(KEY, g_upgrade_config, sizeof(mupgrade_status_t) + 512):  *)
(* the record starts at the head of mupgrade_config_t and not at .status,  *)
(* so the bits past SavedNum are cut off; a load finds them 0.             *)
(***************************************************************************)
SavedWithoutCount(rec) == [rec EXCEPT !.written = 0]              \* mutant
SavedWithoutBits(rec) == [rec EXCEPT !.bits = {}]                 \* mutant
Saved(rec) == [rec EXCEPT !.bits = @ \cap (0 .. SavedNum - 1)]

(* The record a handler works on: the one in RAM or, when there is none,   *)
(* what mdf_info_load() finds.                                             *)
Loaded(d) == IF config[d].fw # NoFw THEN config[d] ELSE store[d]

(* The record restarted for a new firmware: memset() and memcpy() of the   *)
(* root's own status, whose error_code is FINISH.                          *)
FreshKeepsBits(rec, f) ==                                         \* mutant
  [rec EXCEPT !.fw = f, !.err = "FINISH", !.written = 0]
Fresh(rec, f) ==
  [rec EXCEPT !.fw = f, !.err = "FINISH", !.written = 0, !.bits = {}]

(* The exit of mupgrade_status(): a STOP is never replaced.                *)
SetError(rec, e) == IF rec.err = "STOP" THEN rec ELSE [rec EXCEPT !.err = e]

(* mwifi_write(NULL, ..., &status, ...): blocks while the uplink is full.  *)
Reply(d, rec) ==
  /\ Len(out[d]) < UplinkCap
  /\ out' = [out EXCEPT ![d] = Append(@, rec)]

-----------------------------------------------------------------------------
Init ==
  /\ config = [d \in Devices |-> Nothing]
  /\ store = [d \in Devices |-> Nothing]
  /\ flash = [d \in Devices |-> AllSlots(Mixed)]
  /\ boot = [d \in Devices |-> NoFw]
  /\ finished = [d \in Devices |-> FALSE]
  /\ next_percentage = [d \in Devices |-> Interval]
  /\ pc = [d \in Devices |-> "idle"]
  /\ stopping = [d \in Devices |-> "no"]
  /\ out = [d \in Devices |-> <<>>]
  /\ offer = [d \in Devices |-> 1]
  /\ answered = [d \in Devices |-> 0]
  /\ erasedFor = [d \in Devices |-> NoFw]
  /\ switched = [d \in Devices |-> {}]
  /\ excused = [d \in Devices |-> FALSE]

(* A message of campaign c reaches d, whose handler task is idle.          *)
Arrives(d, c) ==
  /\ pc[d] = "idle"
  /\ c >= offer[d]
  /\ offer' = [offer EXCEPT ![d] = c]

Answers(d, c, rec) ==
  /\ Reply(d, rec)
  /\ answered' = [answered EXCEPT ![d] = c]

-----------------------------------------------------------------------------
(* mupgrade_status()                                                       *)

(* The firmware is the one on record: report how far it got.               *)
StatusKnown(d, c) ==
  /\ Arrives(d, c)
  /\ Loaded(d).fw = Campaigns[c]
  /\ LET rec == SetError(Loaded(d), "OK")
     IN  /\ config' = [config EXCEPT ![d] = rec]
         /\ Answers(d, c, rec)
  /\ UNCHANGED <<store, flash, boot, finished, next_percentage, pc, stopping,
                 erasedFor, switched, excused>>

(* The boot partition is selected, whatever it holds.  A stop that has read *)
(* the flag already will not undo it.                                      *)
Select(d, f) ==
  /\ boot' = [boot EXCEPT ![d] = f]
  /\ switched' = [switched EXCEPT ![d] = @ \cup {f}]
  /\ excused' = [excused EXCEPT ![d] = @ \/ stopping[d] = "marking"]

(* A root has downloaded the firmware itself: it only selects it ...       *)
StatusOnRoot(d, c) ==
  /\ d \in RootTypes
  /\ Arrives(d, c)
  /\ Loaded(d).fw # Campaigns[c]
  /\ LET rec  == Fresh(Loaded(d), Campaigns[c])
         fail == SetError(rec, "FAIL")
     IN  \/ /\ Select(d, Campaigns[c])
            /\ config' = [config EXCEPT ![d] = rec]
            /\ pc' = [pc EXCEPT ![d] = "chosen"]
            /\ UNCHANGED <<out, answered>>
         \/ /\ config' = [config EXCEPT ![d] = fail]
            /\ Answers(d, c, fail)
            /\ UNCHANGED <<boot, switched, excused, pc>>
  /\ UNCHANGED <<store, flash, finished, next_percentage, stopping,
                 erasedFor>>

(* ... sets the flag ...                                                   *)
FlagOnRootSkipped(d) ==                                           \* mutant
  /\ pc[d] = "chosen"
  /\ pc' = [pc EXCEPT ![d] = "flagged"]
  /\ UNCHANGED <<config, store, flash, boot, finished, next_percentage,
                 stopping, out, offer, answered, erasedFor, switched,
                 excused>>
FlagOnRoot(d) ==
  /\ pc[d] = "chosen"
  /\ pc' = [pc EXCEPT ![d] = "flagged"]
  /\ finished' = [finished EXCEPT ![d] = TRUE]
  /\ UNCHANGED <<config, store, flash, boot, next_percentage, stopping, out,
                 offer, answered, erasedFor, switched, excused>>

(* ... and answers that all of it is written, STOP or not.                 *)
ReportOnRoot(d) ==
  /\ pc[d] = "flagged"
  /\ pc' = [pc EXCEPT ![d] = "idle"]
  /\ LET size == PacketNum[config[d].fw]
         rec  == SetError([config[d] EXCEPT !.written = size,
                                            !.bits = 0 .. size - 1], "OK")
     IN  /\ config' = [config EXCEPT ![d] = rec]
         /\ Answers(d, offer[d], rec)
  /\ UNCHANGED <<store, flash, boot, finished, next_percentage, stopping,
                 offer, erasedFor, switched, excused>>

(* A new firmware clears the flag.  The partition an earlier firmware was  *)
(* selected from stays selected, and no stop can tell.                     *)
Unflag(d) ==
  /\ finished' = [finished EXCEPT ![d] = FALSE]
  /\ excused' = [excused EXCEPT ![d] =
                   boot[d] # NoFw \/ (@ /\ stopping[d] # "no")]

(* esp_ota_begin() erases the update partition for it ...                  *)
StatusBegin(d, c) ==
  /\ d \notin RootTypes
  /\ Arrives(d, c)
  /\ Loaded(d).fw # Campaigns[c]
  /\ Unflag(d)
  /\ config' = [config EXCEPT ![d] = Fresh(Loaded(d), Campaigns[c])]
  /\ flash' = [flash EXCEPT ![d] = AllSlots(Erased)]
  /\ erasedFor' = [erasedFor EXCEPT ![d] = Campaigns[c]]
  /\ pc' = [pc EXCEPT ![d] = "begun"]
  /\ UNCHANGED <<store, boot, next_percentage, stopping, out, answered,
                 switched>>

(* ... or fails after erasing nothing, all or a first part of it.          *)
StatusBeginFails(d, c) ==
  /\ d \notin RootTypes
  /\ Arrives(d, c)
  /\ Loaded(d).fw # Campaigns[c]
  /\ Unflag(d)
  /\ \E n \in 0 .. MaxPacket + 1 :
       flash' = [flash EXCEPT ![d] =
                   [s \in Slots |-> IF s < n THEN Erased ELSE @[s]]]
  /\ erasedFor' = [erasedFor EXCEPT ![d] = NoFw]
  /\ LET rec == SetError(Fresh(Loaded(d), Campaigns[c]), "FAIL")
     IN  /\ config' = [config EXCEPT ![d] = rec]
         /\ Answers(d, c, rec)
  /\ UNCHANGED <<store, boot, next_percentage, pc, stopping, switched>>

(* After the erase the new record is saved, and the request answered.      *)
StatusSave(d) ==
  /\ pc[d] = "begun"
  /\ pc' = [pc EXCEPT ![d] = "idle"]
  /\ \E e \in {"OK", "FAIL"} :
       LET rec == SetError(config[d], e)
       IN  /\ store' = [store EXCEPT ![d] =
                          IF e = "OK" THEN Saved(config[d]) ELSE @]
           /\ config' = [config EXCEPT ![d] = rec]
           /\ Answers(d, offer[d], rec)
  /\ UNCHANGED <<flash, boot, finished, next_percentage, stopping, offer,
                 erasedFor, switched, excused>>

-----------------------------------------------------------------------------
(* mupgrade_write()                                                        *)

(* Packet s of campaign c.  The root numbers packets from 0 and sends them *)
(* to the devices that answered its request; with Broadcast, to all.       *)
PacketArrives(d, c, s) ==
  /\ Arrives(d, c)
  /\ s \in 0 .. PacketNum[Campaigns[c]] - 1
  /\ Broadcast \/ (c = offer[d] /\ c = answered[d])

(* A stopped upgrade: forget the progress and tell the root.               *)
DataStopped(d, c, s) ==
  /\ PacketArrives(d, c, s)
  /\ Loaded(d).fw # NoFw /\ Loaded(d).err = "STOP"
  /\ LET rec == [Loaded(d) EXCEPT !.written = 0, !.bits = {}]
     IN  /\ config' = [config EXCEPT ![d] = rec]
         /\ Reply(d, rec)
  /\ store' \in {store, [store EXCEPT ![d] = Nothing]}
  /\ UNCHANGED <<flash, boot, finished, next_percentage, pc, stopping,
                 answered, erasedFor, switched, excused>>

(* The packet may be written: there is a record, it is not stopped, seq is *)
(* within the firmware (one past its end included) and its bit is clear.   *)
AcceptsRepeated(rec, s) ==                                        \* mutant
  rec.fw # NoFw /\ rec.err # "STOP" /\ s <= PacketNum[rec.fw]
Accepts(rec, s) ==
  /\ rec.fw # NoFw
  /\ rec.err # "STOP"
  /\ s <= PacketNum[rec.fw]
  /\ s \notin rec.bits

(* NOT_INIT, an invalid seq, a duplicate, or a flash write that fails: the *)
(* only effect is that the record was loaded.                              *)
DataIgnored(d, c, s) ==
  /\ PacketArrives(d, c, s)
  /\ Loaded(d).err # "STOP"
  /\ config' = [config EXCEPT ![d] = Loaded(d)]
  /\ UNCHANGED <<store, flash, boot, finished, next_percentage, pc, stopping,
                 out, answered, erasedFor, switched, excused>>

(* The report interval: save at exactly next_percentage, skip past it.     *)
NextPercentage(p, nxt) ==
  CASE p = nxt -> nxt + Interval
    [] p > nxt -> (p \div Interval + 1) * Interval
    [] p < nxt -> nxt

(* A root that failed to select its partition has a NULL partition pointer *)
(* (line 50): a packet would abort it, which is a Restart.                 *)
DataWritten(d, c, s) ==
  /\ d \notin RootTypes
  /\ PacketArrives(d, c, s)
  /\ Accepts(Loaded(d), s)
  /\ LET old == Loaded(d)
         rec == [old EXCEPT !.bits = @ \cup {s}, !.written = @ + 1]
         p   == (rec.written * 100) \div PacketNum[rec.fw]
     IN  /\ flash' = [flash EXCEPT ![d][s] = Program(@, Campaigns[c])]
         /\ config' = [config EXCEPT ![d] = rec]
         /\ next_percentage' =
              [next_percentage EXCEPT ![d] = NextPercentage(p, @)]
         /\ \/ UNCHANGED store            \* no save is due, or it fails
            \/ /\ p = next_percentage[d]
               /\ store' = [store EXCEPT ![d] = Saved(rec)]
         /\ pc' = [pc EXCEPT ![d] =
                     IF rec.written = PacketNum[rec.fw] THEN "ended" ELSE @]
  /\ UNCHANGED <<boot, finished, stopping, out, answered, erasedFor, switched,
                 excused>>

(* Every packet is written: drop the record in NVS ...                     *)
FinishErase(d) ==
  /\ pc[d] = "ended"
  /\ pc' = [pc EXCEPT ![d] = "erased"]
  /\ store' \in {store, [store EXCEPT ![d] = Nothing]}
  /\ UNCHANGED <<config, flash, boot, finished, next_percentage, stopping,
                 out, offer, answered, erasedFor, switched, excused>>

(* ... select the partition for the next boot ...                          *)
FinishBoot(d) ==
  /\ pc[d] = "erased"
  /\ pc' = [pc EXCEPT ![d] = "booted"]
  /\ Select(d, config[d].fw)
  /\ UNCHANGED <<config, store, flash, finished, next_percentage, stopping,
                 out, offer, answered, erasedFor>>

FinishBootFailsCounted(d) ==                                      \* mutant
  /\ pc[d] = "erased"
  /\ pc' = [pc EXCEPT ![d] = "idle"]
  /\ config' = [config EXCEPT ![d].err = "STOP"]
  /\ UNCHANGED <<store, flash, boot, finished, next_percentage, stopping, out,
                 offer, answered, erasedFor, switched, excused>>
FinishBootFails(d) ==
  /\ pc[d] = "erased"
  /\ pc' = [pc EXCEPT ![d] = "idle"]
  /\ config' = [config EXCEPT ![d].written = 0, ![d].err = "STOP"]
  /\ UNCHANGED <<store, flash, boot, finished, next_percentage, stopping, out,
                 offer, answered, erasedFor, switched, excused>>

(* ... set the flag ...                                                    *)
FinishFlag(d) ==
  /\ pc[d] = "booted"
  /\ pc' = [pc EXCEPT ![d] = "reporting"]
  /\ finished' = [finished EXCEPT ![d] = TRUE]
  /\ UNCHANGED <<config, store, flash, boot, next_percentage, stopping, out,
                 offer, answered, erasedFor, switched, excused>>

(* ... and tell the root.                                                  *)
FinishReport(d) ==
  /\ pc[d] = "reporting"
  /\ pc' = [pc EXCEPT ![d] = "idle"]
  /\ Reply(d, config[d])
  /\ UNCHANGED <<config, store, flash, boot, finished, next_percentage,
                 stopping, offer, answered, erasedFor, switched, excused>>

-----------------------------------------------------------------------------
(* mupgrade_stop(), from a task of its own: its steps may fall between any *)
(* two of a handler's.  It reads the flag.  A handler that has selected    *)
(* the partition and not set the flag yet is not seen.                     *)
Stop(d) ==
  /\ stopping[d] = "no"
  /\ config[d].fw # NoFw
  /\ stopping' = [stopping EXCEPT ![d] =
                    IF finished[d] THEN "restoring" ELSE "marking"]
  /\ excused' = [excused EXCEPT ![d] =
                   @ \/ (~finished[d] /\ pc[d] \in {"chosen", "booted"})]
  /\ UNCHANGED <<config, store, flash, boot, finished, next_percentage, pc,
                 out, offer, answered, erasedFor, switched>>

(* The flag was set: esp_ota_set_boot_partition(running), or its failure,  *)
(* with which mupgrade_stop() returns.                                     *)
StopRestores(d) ==
  /\ stopping[d] = "restoring"
  /\ \/ /\ stopping' = [stopping EXCEPT ![d] = "marking"]
        /\ boot' = [boot EXCEPT ![d] = NoFw]
        /\ excused' = [excused EXCEPT ![d] = FALSE]
     \/ /\ stopping' = [stopping EXCEPT ![d] = "no"]
        /\ UNCHANGED <<boot, excused>>
  /\ UNCHANGED <<config, store, flash, finished, next_percentage, pc, out,
                 offer, answered, erasedFor, switched>>

(* The record is marked and its progress cleared, and the root is told of  *)
(* it or, when mwifi_write() fails, is not.  A handler that has the last   *)
(* packet selects the partition all the same.                              *)
StopMarks(d) ==
  /\ stopping[d] = "marking"
  /\ stopping' = [stopping EXCEPT ![d] = "erasing"]
  /\ LET rec == [config[d] EXCEPT !.err = "STOP", !.written = 0, !.bits = {}]
     IN  /\ config' = [config EXCEPT ![d] = rec]
         /\ Reply(d, rec) \/ UNCHANGED out
  /\ excused' = [excused EXCEPT ![d] = @ \/ pc[d] \in {"ended", "erased"}]
  /\ UNCHANGED <<store, flash, boot, finished, next_percentage, pc, offer,
                 answered, erasedFor, switched>>

(* mdf_info_erase(), which may fail.                                       *)
StopErases(d) ==
  /\ stopping[d] = "erasing"
  /\ stopping' = [stopping EXCEPT ![d] = "no"]
  /\ store' \in {store, [store EXCEPT ![d] = Nothing]}
  /\ UNCHANGED <<config, flash, boot, finished, next_percentage, pc, out,
                 offer, answered, erasedFor, switched, excused>>

(* A restart, wherever the handler stands.  When otadata selects the       *)
(* update partition the device now runs it, and the partition it ran from  *)
(* becomes the one to update.                                              *)
Restart(d) ==
  /\ config' = [config EXCEPT ![d] = Nothing]
  /\ finished' = [finished EXCEPT ![d] = FALSE]
  /\ next_percentage' = [next_percentage EXCEPT ![d] = Interval]
  /\ pc' = [pc EXCEPT ![d] = "idle"]
  /\ stopping' = [stopping EXCEPT ![d] = "no"]
  /\ excused' = [excused EXCEPT ![d] = FALSE]
  /\ \/ /\ boot[d] = NoFw
        /\ UNCHANGED <<flash, boot, erasedFor>>
     \/ /\ boot[d] # NoFw
        /\ boot' = [boot EXCEPT ![d] = NoFw]
        /\ flash' = [flash EXCEPT ![d] = AllSlots(Mixed)]
        /\ erasedFor' = [erasedFor EXCEPT ![d] = NoFw]
  /\ UNCHANGED <<store, out, offer, answered, switched>>

(* A root downloads the firmware of campaign c to its own update partition *)
(* (mupgrade_firmware_download() to the end) before it distributes it.     *)
Download(d, c) ==
  /\ d \in RootTypes
  /\ pc[d] = "idle"
  /\ c >= offer[d]
  /\ flash' = [flash EXCEPT ![d] = AllSlots(Campaigns[c])]
  /\ erasedFor' = [erasedFor EXCEPT ![d] = Campaigns[c]]
  /\ UNCHANGED <<config, store, boot, finished, next_percentage, pc, stopping,
                 out, offer, answered, switched, excused>>

(* The mesh delivers the oldest status to the root, or loses it.           *)
Uplink(d) ==
  /\ out[d] # <<>>
  /\ out' = [out EXCEPT ![d] = Tail(@)]
  /\ UNCHANGED <<config, store, flash, boot, finished, next_percentage, pc,
                 stopping, offer, answered, erasedFor, switched, excused>>

-----------------------------------------------------------------------------
Status(d, c) ==
  StatusKnown(d, c) \/ StatusOnRoot(d, c) \/ StatusBegin(d, c)
    \/ StatusBeginFails(d, c)

Data(d, c, s) ==
  DataStopped(d, c, s) \/ DataIgnored(d, c, s) \/ DataWritten(d, c, s)

Proceed(d) ==
  FlagOnRoot(d) \/ ReportOnRoot(d) \/ StatusSave(d)
    \/ FinishErase(d) \/ FinishBoot(d) \/ FinishBootFails(d)
    \/ FinishFlag(d) \/ FinishReport(d)

StopProceed(d) ==
  StopRestores(d) \/ StopMarks(d) \/ StopErases(d)

Next ==
  \E d \in Devices :
    \/ \E c \in DOMAIN Campaigns :
         \/ Status(d, c)
         \/ \E s \in Slots : Data(d, c, s)
         \/ Download(d, c)
    \/ Proceed(d)
    \/ Stop(d)
    \/ StopProceed(d)
    \/ Restart(d)
    \/ Uplink(d)

Spec == Init /\ [][Next]_vars

-----------------------------------------------------------------------------
(* The type of every variable of the device side.                          *)
TypeOK ==
  /\ config \in [Devices -> Record]
  /\ store \in [Devices -> Record]
  /\ flash \in [Devices -> [Slots -> Firmware \cup {Erased, Mixed}]]
  /\ boot \in [Devices -> Firmware \cup {NoFw}]
  /\ finished \in [Devices -> BOOLEAN]
  /\ next_percentage \in [Devices -> Int]
  /\ pc \in [Devices -> {"idle", "begun", "chosen", "flagged",
                         "ended", "erased", "booted", "reporting"}]
  /\ stopping \in [Devices -> {"no", "restoring", "marking", "erasing"}]
  /\ out \in [Devices -> Seq(Record)]
  /\ offer \in [Devices -> DOMAIN Campaigns]
  /\ answered \in [Devices -> Nat]
  /\ erasedFor \in [Devices -> Firmware \cup {NoFw}]
  /\ switched \in [Devices -> SUBSET Firmware]
  /\ excused \in [Devices -> BOOLEAN]

(* A packet a record marks as written really is in flash, whatever was     *)
(* lost, repeated or interrupted: of a record in RAM and of the record in  *)
(* NVS a restart would resume from (lines 146-190, 202-207).  It can only  *)
(* be asked of a record whose firmware the partition was erased for:       *)
(* erasedFor names that precondition, and the README says which steps of   *)
(* the code break it.  TLC refutes it when packets are broadcast.          *)
OnFlash(d, rec) ==
  (rec.fw # NoFw /\ erasedFor[d] = rec.fw)
     => \A s \in rec.bits : flash[d][s] = rec.fw

ProgressOnFlash ==
  \A d \in Devices : OnFlash(d, config[d]) /\ OnFlash(d, store[d])

(* written_size is the number of packets marked: the test that ends the    *)
(* upgrade (line 215) counts no packet twice and loses none, in RAM and    *)
(* after resuming from NVS.                                                *)
Counted(rec) == rec.err # "STOP" => rec.written = Cardinality(rec.bits)

WrittenCountsProgress ==
  \A d \in Devices : Counted(config[d]) /\ Counted(store[d])

(* A stopped device does not boot into the firmware it was stopped at:     *)
(* mupgrade_stop() selects the running partition again (lines 299-303).    *)
StopsBoot(d) ==
  (pc[d] = "idle" /\ stopping[d] = "no" /\ config[d].err = "STOP")
    => boot[d] = NoFw

(* It holds of every device whose stop did not overlap the end of an       *)
(* upgrade, and the exceptions are three: the partition was selected and   *)
(* the flag not set yet when the stop read it (between lines 228 and 239,  *)
(* or 58 and 60), the last packet was accepted before the stop marked the  *)
(* record and the partition selected after it had read the flag, or the    *)
(* request of a later firmware had cleared the flag (line 73) of a device  *)
(* that had selected an earlier one.                                       *)
StopHonoured == \A d \in Devices : excused[d] \/ StopsBoot(d)

(* A status with written_size = total_size, which the root counts as an    *)
(* upgraded device (mupgrade_root.c:196), is sent only by a device that    *)
(* had selected that firmware for boot.  TLC refutes it when the report    *)
(* interval divides 100: line 206 then saves a full record before line 228 *)
(* selects the partition, and a restart in between resumes it.             *)
FinishReportHonest ==
  \A d \in Devices : \A i \in DOMAIN out[d] :
    LET rec == out[d][i]
    IN  (rec.fw # NoFw /\ rec.written = PacketNum[rec.fw])
           => rec.fw \in switched[d]

-----------------------------------------------------------------------------
(* The root asks and sends until the upgrade is over: requests and packets *)
(* of the last campaign get through again and again.  A handler that has   *)
(* begun runs on, and the uplink drains.  Restarts and stops are never     *)
(* forced.                                                                 *)
LastCampaign == Len(Campaigns)

Fairness ==
  \A d \in Devices :
    /\ WF_vars(Proceed(d))
    /\ WF_vars(Uplink(d))
    /\ SF_vars(Status(d, LastCampaign))
    /\ \A s \in Slots : SF_vars(DataWritten(d, LastCampaign, s))

FairSpec == Spec /\ Fairness

(* Once a device no longer restarts, the packets that keep coming bring it *)
(* to select the firmware for boot, unless it was stopped: no combination  *)
(* of lost messages, failed writes and earlier restarts leaves a device    *)
(* that waits for packets the root believes it has.                        *)
UpgradeFinishes ==
  \A d \in Devices :
    <>[][~Restart(d)]_vars
      => <>(Campaigns[LastCampaign] \in switched[d] \/ config[d].err = "STOP")

(* The device side implements what UpgradeDevice promises, whatever is     *)
(* lost, restarted or stopped, on devices that are not the root: the       *)
(* firmware is selected only from a state in which every packet is         *)
(* counted, and a restart never resumes a packet that was not.  Between    *)
(* the last packet and the selection the count stands, even though a stop  *)
(* may clear the record meanwhile.                                         *)
Counts(d) ==
  IF pc[d] \in {"ended", "erased"}
  THEN 0 .. PacketNum[config[d].fw] - 1
  ELSE Loaded(d).bits

Device == INSTANCE UpgradeDevice WITH
            Devices  <- Devices \ RootTypes,
            claim    <- [d \in Devices \ RootTypes |-> Loaded(d).fw],
            got      <- [d \in Devices \ RootTypes |-> Counts(d)],
            halted   <- [d \in Devices \ RootTypes |-> Loaded(d).err = "STOP"],
            selected <- [d \in Devices \ RootTypes |-> switched[d]]

ImplementsDevice == Device!DeviceSpec
=============================================================================
