--------------------- MODULE MupgradeNodeRefines_proofs ---------------------
(***************************************************************************)
(* The device side implements UpgradeDevice, for every number of devices,  *)
(* campaigns and packets.  Needed are the assumptions of                   *)
(* FlashHoldsProgress, and that a later firmware has no more packets than  *)
(* an earlier one: a device whose record of the later one could not be     *)
(* saved resumes the earlier one after a restart, and counts the packets   *)
(* of the later one in it (mupgrade_node.c:179 looks at their number only).*)
(***************************************************************************)
EXTENDS MupgradeNode_proofs

NoLonger ==
  \A b, c \in DOMAIN Campaigns :
    b <= c => PacketNum[Campaigns[c]] <= PacketNum[Campaigns[b]]

Packets(f) == 0 .. PacketNum[f] - 1
Mapped     == Devices \ RootTypes

(***************************************************************************)
(* The invariant: records hold packets of their firmware only, a full one  *)
(* waits for the selection, and a restart resumes no more than is counted. *)
(***************************************************************************)
Within(rec) ==
  /\ rec.fw = NoFw => rec.bits = {}
  /\ rec.fw # NoFw => rec.bits \subseteq Packets(rec.fw)

Awaiting(d) ==
  pc[d] \in {"ended", "erased"} =>
    \/ config[d].bits = Packets(config[d].fw)
    \/ config[d].bits = {} /\ config[d].err = "STOP"

Resumable(d) ==
  (config[d].fw # NoFw /\ store[d].fw = config[d].fw /\ config[d].err # "STOP")
    => store[d].bits \subseteq Counts(d)

Refining(d) ==
  Within(config[d]) /\ Within(store[d]) /\ Awaiting(d) /\ Resumable(d)

AllRefining == \A d \in Mapped : Refining(d)

(***************************************************************************)
(* What a step of a device is to the abstract one.                         *)
(***************************************************************************)
Fw(d)     == Loaded(d).fw
Halted(d) == Loaded(d).err = "STOP"

Alike(d) == Fw(d)' = Fw(d) /\ switched'[d] = switched[d]

Stutters(d) == Alike(d) /\ Counts(d)' = Counts(d) /\ Halted(d)' = Halted(d)

Starts(d) ==
  /\ Fw(d)' \in Firmware /\ Fw(d)' # Fw(d)
  /\ Counts(d)' = {} /\ ~Halted(d)' /\ switched'[d] = switched[d]

Gathers(d) ==
  /\ Alike(d) /\ Fw(d) # NoFw /\ ~Halted(d) /\ ~Halted(d)'
  /\ \E p \in Packets(Fw(d)) \ Counts(d) : Counts(d)' = Counts(d) \cup {p}

Selects(d) ==
  /\ Fw(d) # NoFw /\ Fw(d)' = Fw(d) /\ Counts(d) = Packets(Fw(d))
  /\ switched'[d] = switched[d] \cup {Fw(d)}
  /\ Counts(d)' \in {Counts(d), {}} /\ Halted(d)' = Halted(d)

Halts(d) ==
  /\ Alike(d) /\ Fw(d) # NoFw /\ Halted(d)'
  /\ Counts(d)' \in {Counts(d), {}}

Resumes(d) ==
  /\ switched'[d] = switched[d]
  /\ \/ Fw(d)' = NoFw /\ Counts(d)' = {}
     \/ Fw(d)' \in Firmware /\ Counts(d)' \subseteq Packets(Fw(d)')
  /\ Fw(d)' = Fw(d) /\ ~Halted(d) => Counts(d)' \subseteq Counts(d)

Simulates(d) ==
  Stutters(d) \/ Starts(d) \/ Gathers(d) \/ Selects(d) \/ Halts(d) \/ Resumes(d)

LEMMA PacketsKnown ==
  ASSUME NEW f \in Firmware
  PROVE  /\ PacketNum[f] \in Nat \ {0} /\ f # NoFw
         /\ Packets(f) # {} /\ IsFiniteSet(Packets(f))
         /\ Cardinality(Packets(f)) = PacketNum[f]
<1>1. PacketNum[f] \in Nat \ {0} /\ f # NoFw
  BY CampaignsTyped
<1>2. IsFiniteSet(Packets(f)) /\ Cardinality(Packets(f)) = PacketNum[f]
  <2>1. PacketNum[f] - 1 \in Int /\ 0 \in Int /\ ~(0 > PacketNum[f] - 1)
        /\ (PacketNum[f] - 1) - 0 + 1 = PacketNum[f]
    BY <1>1
  <2>2. IsFiniteSet(0 .. PacketNum[f] - 1)
        /\ Cardinality(0 .. PacketNum[f] - 1) = PacketNum[f]
    BY <2>1, FS_Interval
  <2>3. QED BY <2>2 DEF Packets
<1>3. 0 \in Packets(f)
  BY <1>1 DEF Packets
<1>4. QED BY <1>1, <1>2, <1>3

(***************************************************************************)
(* From a step of one device to a step of the abstract specification.      *)
(***************************************************************************)
LEMMA StepsAbstractly ==
  ASSUME Known, NEW d \in Mapped, Simulates(d),
         \A x \in Mapped \ {d} : Stutters(x)
  PROVE  Device!DeviceNext \/ UNCHANGED Device!deviceVars
<1>1. \A x \in Mapped : Loaded(x).fw \in Firmware \cup {NoFw}
  BY Values, RecordFields DEF Mapped
<1>2. \A x \in Mapped \ {d} :
        /\ (Loaded(x).fw)' = Loaded(x).fw /\ Counts(x)' = Counts(x)
        /\ (Loaded(x).err = "STOP")' = (Loaded(x).err = "STOP")
        /\ switched'[x] = switched[x]
  BY DEF Stutters, Alike, Fw, Halted
<1>3. CASE Stutters(d)
  <2>1. \A x \in Mapped :
          /\ (Loaded(x).fw)' = Loaded(x).fw /\ Counts(x)' = Counts(x)
          /\ (Loaded(x).err = "STOP")' = (Loaded(x).err = "STOP")
          /\ switched'[x] = switched[x]
    BY <1>2, <1>3 DEF Stutters, Alike, Fw, Halted
  <2>2. QED BY <2>1 DEF Device!deviceVars, Mapped
<1> DEFINE claim    == [x \in Mapped |-> Fw(x)]
           got      == [x \in Mapped |-> Counts(x)]
           halted   == [x \in Mapped |-> Halted(x)]
           selected == [x \in Mapped |-> switched[x]]
<1>a. /\ claim' = [claim EXCEPT ![d] = Fw(d)']
      /\ got' = [got EXCEPT ![d] = Counts(d)']
      /\ halted' = [halted EXCEPT ![d] = Halted(d)']
      /\ selected' = [selected EXCEPT ![d] = switched'[d]]
  <2>1. \A x \in Mapped \ {d} :
          /\ Fw(x)' = Fw(x) /\ Counts(x)' = Counts(x)
          /\ Halted(x)' = Halted(x) /\ switched'[x] = switched[x]
    BY DEF Stutters, Alike
  <2>2. claim' = [claim EXCEPT ![d] = Fw(d)']
    BY <2>1
  <2>3. got' = [got EXCEPT ![d] = Counts(d)']
    BY <2>1
  <2>4. halted' = [halted EXCEPT ![d] = Halted(d)']
    BY <2>1
  <2>5. selected' = [selected EXCEPT ![d] = switched'[d]]
    BY <2>1
  <2>6. QED BY <2>2, <2>3, <2>4, <2>5
<1>b. /\ claim[d] = Fw(d) /\ got[d] = Counts(d) /\ halted[d] = Halted(d)
      /\ selected[d] = switched[d] /\ Halted(d)' \in BOOLEAN
      /\ claim = [claim EXCEPT ![d] = Fw(d)]
      /\ got = [got EXCEPT ![d] = Counts(d)]
      /\ selected = [selected EXCEPT ![d] = switched[d]]
  BY DEF Halted
<1> HIDE DEF claim, got, halted, selected
<1>4. CASE Starts(d)
  <2>1. /\ claim[d] # Fw(d)' /\ claim' = [claim EXCEPT ![d] = Fw(d)']
        /\ got' = [got EXCEPT ![d] = {}]
        /\ halted' = [halted EXCEPT ![d] = FALSE] /\ selected' = selected
    BY <1>4, <1>a, <1>b DEF Starts
  <2>2. Device!Start(d, Fw(d)')
    BY <2>1 DEF claim, got, halted, selected, Fw, Halted, Mapped, Device!Start
  <2>3. QED BY <1>4, <2>2 DEF Device!DeviceNext, Starts, Mapped
<1>5. CASE Gathers(d)
  <2>1. PICK p \in Packets(Fw(d)) \ Counts(d) : Counts(d)' = Counts(d) \cup {p}
    BY <1>5 DEF Gathers
  <2>2. Fw(d) \in Firmware /\ p \in Device!All(Fw(d))
    BY <1>1, <1>5, <2>1 DEF Gathers, Fw, Packets, Device!All
  <2>3. /\ claim[d] # NoFw /\ ~halted[d]
        /\ p \in Device!All(claim[d]) \ got[d]
        /\ got' = [got EXCEPT ![d] = got[d] \cup {p}]
        /\ claim' = claim /\ halted' = halted /\ selected' = selected
    <3>1. halted = [halted EXCEPT ![d] = Halted(d)]
      BY DEF halted
    <3>2. Fw(d) # NoFw /\ ~Halted(d) /\ ~Halted(d)' /\ Fw(d)' = Fw(d)
          /\ switched'[d] = switched[d]
      BY <1>5 DEF Gathers, Alike
    <3>3. Halted(d)' = Halted(d)
      BY <3>2 DEF Halted
    <3>4. p \in Device!All(claim[d]) \ got[d]
      BY <1>b, <2>1, <2>2
    <3>5. got' = [got EXCEPT ![d] = got[d] \cup {p}]
      BY <1>a, <1>b, <2>1
    <3>6. QED BY <1>a, <1>b, <3>1, <3>2, <3>3, <3>4, <3>5
  <2>4. Device!Gather(d, p)
    BY <2>3 DEF claim, got, halted, selected, Fw, Halted, Mapped, Device!Gather
  <2>5. QED BY <2>2, <2>4 DEF Device!DeviceNext, Mapped
<1>6. CASE Selects(d)
  <2>1. /\ claim[d] # NoFw /\ got[d] = Device!All(claim[d])
        /\ selected' = [selected EXCEPT ![d] = selected[d] \cup {claim[d]}]
        /\ got' \in {got, [got EXCEPT ![d] = {}]}
        /\ claim' = claim /\ halted' = halted
    <3>1. halted = [halted EXCEPT ![d] = Halted(d)]
      BY DEF halted
    <3>2. QED BY <1>6, <1>a, <1>b, <3>1 DEF Selects, Packets, Device!All
  <2>2. Device!Select(d)
    BY <2>1 DEF claim, got, halted, selected, Fw, Halted, Mapped, Device!Select
  <2>3. QED BY <2>2 DEF Device!DeviceNext, Mapped
<1>7. CASE Halts(d)
  <2>1. /\ claim[d] # NoFw /\ halted' = [halted EXCEPT ![d] = TRUE]
        /\ got' \in {got, [got EXCEPT ![d] = {}]}
        /\ claim' = claim /\ selected' = selected
    <3>1. Halted(d)' = TRUE
      BY <1>7 DEF Halts, Halted
    <3>2. QED BY <1>7, <1>a, <1>b, <3>1 DEF Halts, Alike
  <2>2. Device!Halt(d)
    BY <2>1 DEF claim, got, halted, selected, Fw, Halted, Mapped, Device!Halt
  <2>3. QED BY <2>2 DEF Device!DeviceNext, Mapped
<1>8. CASE Resumes(d)
  <2>1. /\ (Fw(d)' = claim[d] /\ ~halted[d]) => Counts(d)' \subseteq got[d]
        /\ claim' = [claim EXCEPT ![d] = Fw(d)']
        /\ got' = [got EXCEPT ![d] = Counts(d)']
        /\ \E h \in BOOLEAN : halted' = [halted EXCEPT ![d] = h]
        /\ selected' = selected
    BY <1>8, <1>a, <1>b DEF Resumes
  <2>2. Device!Resume(d, Fw(d)', Counts(d)')
    BY <2>1 DEF claim, got, halted, selected, Fw, Halted, Mapped, Device!Resume
  <2>3. CASE Fw(d)' = NoFw /\ Counts(d)' = {}
    BY <2>2, <2>3 DEF Device!DeviceNext, Mapped
  <2>4. CASE Fw(d)' \in Firmware /\ Counts(d)' \subseteq Packets(Fw(d)')
    BY <2>2, <2>4 DEF Device!DeviceNext, Device!All, Packets, Mapped
  <2>5. QED BY <1>8, <2>3, <2>4 DEF Resumes
<1>9. QED BY <1>3, <1>4, <1>5, <1>6, <1>7, <1>8 DEF Simulates

(***************************************************************************)
(* Every step of a device.                                                 *)
(***************************************************************************)

(* The record a handler works on, and what it counts between messages.     *)
LEMMA LoadedRefines ==
  ASSUME Known, NEW d \in Mapped, Refining(d)
  PROVE  /\ Within(Loaded(d)) /\ Loaded(d) \in SoundRecord /\ d \in Devices
         /\ Counts(d) = IF pc[d] \in {"ended", "erased"}
                        THEN Packets(config[d].fw) ELSE Loaded(d).bits
         /\ config[d].fw # NoFw => Loaded(d) = config[d]
         /\ pc[d] # "idle" => config[d].fw # NoFw
         /\ (store[d].fw = Loaded(d).fw /\ Loaded(d).err # "STOP")
              => store[d].bits \subseteq Counts(d)
<1>1. d \in Devices
  BY DEF Mapped
<1>2. pc[d] # "idle" => config[d].fw # NoFw
  BY <1>1 DEF Known, Handling
<1>3. QED
  BY <1>1, <1>2, Values
     DEF Refining, Resumable, Loaded, Counts, Packets

(* A handler that ends between two messages keeps the firmware on record.  *)
LEMMA KeepRefines ==
  ASSUME Known, NEW d \in Mapped, Refining(d),
         pc[d] \in {"idle", "begun"}, pc'[d] = "idle",
         switched'[d] = switched[d], config'[d].fw = Loaded(d).fw,
         config'[d].bits = Loaded(d).bits,
         config'[d].err = "STOP" <=> Loaded(d).err = "STOP",
         store'[d] \in {store[d], Loaded(d)},
         Loaded(d).fw = NoFw => store'[d] = store[d] /\ Loaded(d) = store[d]
  PROVE  Refining(d)' /\ Stutters(d)
<1>1. /\ Fw(d)' = Fw(d) /\ Counts(d)' = Counts(d)
      /\ Halted(d)' = Halted(d)
  BY LoadedRefines DEF Fw, Halted, Counts, Loaded
<1>2. Within(config'[d]) /\ Within(store'[d])
  BY LoadedRefines DEF Within, Refining
<1>3. Resumable(d)'
  BY LoadedRefines, <1>1 DEF Resumable
<1>4. QED BY <1>1, <1>2, <1>3 DEF Refining, Awaiting, Stutters, Alike

(* A new firmware.                                                         *)
LEMMA BeginRefines ==
  ASSUME Known, Setting, NEW d \in Mapped, DeviceTraced(d), Refining(d),
         NEW c \in DOMAIN Campaigns, c >= offer[d], Loaded(d).fw # Campaigns[c],
         pc[d] = "idle", pc'[d] \in {"idle", "begun"},
         switched'[d] = switched[d], store'[d] = store[d],
         config'[d].fw = Campaigns[c], config'[d].bits = {},
         config'[d].err # "STOP"
  PROVE  Refining(d)' /\ Starts(d)
<1>1. /\ c \in Nat /\ offer[d] \in Nat /\ offer[d] <= c /\ d \in Devices
      /\ Campaigns[c] \in Firmware /\ Campaigns[c] # NoFw
  BY Values, CampaignsTyped DEF Mapped
<1>2. store[d].fw # Campaigns[c]
  BY <1>1, OfferedIsCurrent, LoadedTraced
     DEF Setting, Current, DeviceTraced, OnlyOffered
<1>3. Fw(d)' = Campaigns[c] /\ Counts(d)' = {} /\ ~Halted(d)'
  BY <1>1 DEF Fw, Counts, Halted, Loaded
<1>4. Refining(d)'
  BY <1>1, <1>2 DEF Refining, Within, Awaiting, Resumable
<1>5. QED BY <1>1, <1>3, <1>4 DEF Starts, Fw

(* A stop, or a selection that fails: no more packets are counted.         *)
LEMMA HaltRefines ==
  ASSUME Known, NEW d \in Mapped, Refining(d),
         switched'[d] = switched[d], Loaded(d).fw # NoFw,
         config'[d].fw = Loaded(d).fw, config'[d].err = "STOP",
         \/ pc'[d] = pc[d] /\ config'[d].bits = {}
         \/ pc[d] = "erased" /\ pc'[d] = "idle"
              /\ config'[d].bits = Loaded(d).bits,
         store'[d] \in {store[d], Nothing}
  PROVE  Refining(d)' /\ Halts(d)
<1>1. Fw(d)' = Fw(d) /\ Fw(d) # NoFw /\ Halted(d)'
  BY DEF Fw, Halted, Loaded
<1>2. Counts(d)' \in {Counts(d), {}}
  BY LoadedRefines DEF Counts, Loaded, Packets, Refining, Awaiting
<1>3. Refining(d)'
  BY LoadedRefines, NothingFields DEF Refining, Within, Awaiting, Resumable
<1>4. QED BY <1>1, <1>2, <1>3 DEF Halts, Alike

(* One packet more.                                                        *)
LEMMA WriteRefines ==
  ASSUME Known, NoLonger, NEW d \in Mapped, DeviceTraced(d), Refining(d),
         NEW rec \in SoundRecord, NEW s \in Packets(Current(d)),
         Accepts(Loaded(d), s), pc[d] = "idle",
         pc'[d] = IF rec.written = PacketNum[rec.fw] THEN "ended" ELSE "idle",
         switched'[d] = switched[d], config'[d] = rec,
         store'[d] \in {store[d], rec}, rec.fw = Loaded(d).fw,
         rec.err = Loaded(d).err, rec.bits = Loaded(d).bits \cup {s},
         rec.written = Cardinality(rec.bits)
  PROVE  Refining(d)' /\ Gathers(d)
<1>1. rec.fw \in Firmware /\ rec.fw # NoFw /\ rec.err # "STOP"
  BY RecordFields DEF Accepts
<1>2. s \in Packets(rec.fw)
  <2>1. PICK b \in DOMAIN Campaigns : b <= offer[d] /\ rec.fw = Campaigns[b]
    BY <1>1, LoadedTraced DEF Offered, Mapped
  <2>2. PacketNum[Current(d)] <= PacketNum[rec.fw]
    BY <2>1, Values DEF NoLonger, Current, Mapped
  <2>3. PacketNum[Current(d)] \in Nat /\ PacketNum[rec.fw] \in Nat
    BY <1>1, Values, PacketsKnown DEF Mapped
  <2>4. QED BY <2>2, <2>3 DEF Packets
<1>3. s \notin Counts(d) /\ Counts(d) = Loaded(d).bits
  BY LoadedRefines DEF Accepts
<1>4. rec.bits \subseteq Packets(rec.fw)
  BY <1>1, <1>2, LoadedRefines DEF Within
<1>5. rec.written = PacketNum[rec.fw] => rec.bits = Packets(rec.fw)
  <2>1. IsFiniteSet(Packets(rec.fw))
        /\ Cardinality(Packets(rec.fw)) = PacketNum[rec.fw]
    BY <1>1, PacketsKnown
  <2>2. QED BY <1>4, <2>1, FS_Subset
<1>6. Counts(d)' = rec.bits /\ Fw(d)' = Fw(d) /\ ~Halted(d)'
  BY <1>1, <1>5 DEF Counts, Loaded, Packets, Fw, Halted
<1>7. Within(rec) /\ Within(store'[d])
  BY <1>1, <1>4 DEF Within, Refining
<1>8. Awaiting(d)'
  BY <1>1, <1>5 DEF Awaiting, Packets
<1>9. Resumable(d)'
  BY <1>1, <1>3, <1>6, LoadedRefines DEF Resumable
<1>10. QED
  BY <1>1, <1>2, <1>3, <1>6, <1>7, <1>8, <1>9
     DEF Refining, Gathers, Alike, Fw, Halted

(* The handler or mupgrade_stop() goes on, and may drop the record in NVS; *)
(* it counts the packets as before.                                        *)
Counting(d) == pc[d] \in {"ended", "erased"}

LEMMA GoOnRefines ==
  ASSUME Known, NEW d \in Mapped, Refining(d),
         pc[d] # "idle" \/ stopping[d] # "no" \/ config[d].fw # NoFw,
         Counting(d)' <=> Counting(d), config'[d] = config[d],
         switched'[d] = switched[d], store'[d] \in {store[d], Nothing}
  PROVE  Refining(d)' /\ Stutters(d)
<1>1. config[d].fw # NoFw
  BY DEF Known, Handling, Mapped
<1>2. Fw(d)' = Fw(d) /\ Counts(d)' = Counts(d) /\ Halted(d)' = Halted(d)
  BY <1>1 DEF Fw, Counts, Halted, Loaded, Counting
<1>3. Within(config'[d]) /\ Within(store'[d])
  BY NothingFields DEF Within, Refining
<1>4. Resumable(d)'
  BY <1>1, <1>2, NothingFields DEF Resumable, Refining
<1>5. QED
  BY <1>2, <1>3, <1>4 DEF Refining, Awaiting, Counting, Stutters, Alike

(* The partition is selected with every packet counted.                    *)
LEMMA BootRefines ==
  ASSUME Known, NEW d \in Mapped, Refining(d),
         pc[d] = "erased", pc'[d] = "booted", config'[d] = config[d],
         store'[d] = store[d],
         switched'[d] = switched[d] \cup {config[d].fw}
  PROVE  Refining(d)' /\ Selects(d)
<1>1. config[d].fw # NoFw /\ Loaded(d) = config[d]
      /\ Counts(d) = Packets(config[d].fw)
  BY LoadedRefines
<1>2. /\ Fw(d)' = Fw(d) /\ Fw(d) = config[d].fw /\ Halted(d)' = Halted(d)
      /\ Counts(d)' = config[d].bits
  BY <1>1 DEF Fw, Halted, Counts, Loaded
<1>3. config[d].bits \in {Packets(config[d].fw), {}}
      /\ (config[d].err # "STOP" => config[d].bits = Packets(config[d].fw))
  BY DEF Refining, Awaiting
<1>4. Resumable(d)'
  BY <1>1, <1>2, <1>3, LoadedRefines DEF Resumable
<1>5. Refining(d)'
  BY <1>4 DEF Refining, Within, Awaiting
<1>6. QED BY <1>1, <1>2, <1>3, <1>5 DEF Selects

(* A restart resumes the record in NVS.                                    *)
LEMMA RestartRefines ==
  ASSUME Known, NEW d \in Mapped, Refining(d),
         pc'[d] = "idle", config'[d] = Nothing, store'[d] = store[d],
         switched'[d] = switched[d]
  PROVE  Refining(d)' /\ Resumes(d)
<1>1. /\ Fw(d)' = store[d].fw /\ Counts(d)' = store[d].bits
  BY NothingFields DEF Fw, Counts, Loaded
<1>2. store[d].fw \in Firmware \cup {NoFw} /\ Within(store[d])
  BY Values, RecordFields DEF Mapped, Refining
<1>3. Fw(d)' = Fw(d) /\ ~Halted(d) => store[d].bits \subseteq Counts(d)
  BY <1>1, LoadedRefines DEF Fw, Halted
<1>4. Refining(d)'
  BY NothingFields DEF Refining, Within, Awaiting, Resumable
<1>5. QED BY <1>1, <1>2, <1>3, <1>4 DEF Resumes, Within

(***************************************************************************)
(* The actions.                                                            *)
(***************************************************************************)
LEMMA StatusRefines ==
  ASSUME Known, Setting, NEW d \in Mapped, DeviceTraced(d), Refining(d),
         NEW c \in DOMAIN Campaigns, Status(d, c)
  PROVE  Refining(d)' /\ Simulates(d)
<1>1. /\ d \in Devices /\ d \notin RootTypes /\ Loaded(d) \in SoundRecord
      /\ Campaigns[c] \in Firmware /\ Campaigns[c] # NoFw
  BY Values, CampaignsTyped DEF Mapped
<1>2. Fresh(Loaded(d), Campaigns[c]) \in SoundRecord
      /\ Fresh(Loaded(d), Campaigns[c]).fw = Campaigns[c]
      /\ Fresh(Loaded(d), Campaigns[c]).bits = {}
      /\ Fresh(Loaded(d), Campaigns[c]).err = "FINISH"
  BY <1>1, FreshSound DEF Fresh, SoundRecord, Record
<1>3. CASE StatusKnown(d, c)
  <2> DEFINE rec == SetError(Loaded(d), "OK")
  <2>1. /\ rec.fw = Loaded(d).fw /\ rec.bits = Loaded(d).bits
        /\ rec.err = "STOP" <=> Loaded(d).err = "STOP"
    BY <1>1, SetErrorSound DEF SetError, SoundRecord, Record
  <2>2. /\ config' = [config EXCEPT ![d] = rec] /\ pc[d] = "idle"
        /\ Loaded(d).fw = Campaigns[c]
        /\ UNCHANGED <<store, pc, switched>>
    BY <1>3, Zenon DEF StatusKnown, Arrives
  <2> HIDE DEF rec
  <2>3. config'[d] = rec
    BY <1>1, <2>2 DEF Known, Typed, RecordsSound
  <2>4. QED BY <1>1, <2>1, <2>2, <2>3, KeepRefines DEF Simulates
<1>4. CASE StatusBegin(d, c)
  <2>1. /\ config'[d] = Fresh(Loaded(d), Campaigns[c])
        /\ pc[d] = "idle" /\ pc'[d] = "begun" /\ store'[d] = store[d]
        /\ switched'[d] = switched[d]
        /\ c >= offer[d] /\ Loaded(d).fw # Campaigns[c]
    BY <1>1, <1>4
       DEF StatusBegin, Arrives, Known, Typed, RecordsSound, OthersTyped
  <2>2. QED BY <1>2, <2>1, BeginRefines DEF Simulates
<1>5. CASE StatusBeginFails(d, c)
  <2> DEFINE rec == SetError(Fresh(Loaded(d), Campaigns[c]), "FAIL")
  <2>1. rec.fw = Campaigns[c] /\ rec.bits = {} /\ rec.err = "FAIL"
    BY <1>2, SetErrorSound DEF SetError, SoundRecord, Record
  <2>2. /\ config' = [config EXCEPT ![d] = rec] /\ pc[d] = "idle"
        /\ c >= offer[d] /\ Loaded(d).fw # Campaigns[c]
        /\ UNCHANGED <<store, pc, switched>>
    BY <1>5, Zenon DEF StatusBeginFails, Arrives
  <2> HIDE DEF rec
  <2>3. config'[d] = rec
    BY <1>1, <2>2 DEF Known, Typed, RecordsSound
  <2>4. QED BY <2>1, <2>2, <2>3, BeginRefines DEF Simulates
<1>6. QED BY <1>1, <1>3, <1>4, <1>5 DEF Status, StatusOnRoot

LEMMA DataRefines ==
  ASSUME Known, Setting, NoLonger, NEW d \in Mapped, DeviceTraced(d),
         Refining(d),
         NEW c \in DOMAIN Campaigns, NEW s \in Slots, Data(d, c, s)
  PROVE  Refining(d)' /\ Simulates(d)
<1>1. /\ c = offer[d] /\ pc[d] = "idle"
      /\ s \in 0 .. PacketNum[Campaigns[c]] - 1
  BY DEF Data, DataStopped, DataIgnored, DataWritten, PacketArrives, Arrives,
     Setting
<1>2. d \in Devices /\ Loaded(d) \in SoundRecord
  BY Values DEF Mapped
<1>3. CASE DataStopped(d, c, s)
  <2> DEFINE rec == [Loaded(d) EXCEPT !.written = 0, !.bits = {}]
  <2>1. rec.fw = Loaded(d).fw /\ rec.bits = {} /\ rec.err = Loaded(d).err
    BY <1>2 DEF SoundRecord, Record
  <2>2. /\ config' = [config EXCEPT ![d] = rec]
        /\ Loaded(d).fw # NoFw /\ Loaded(d).err = "STOP"
        /\ store' \in {store, [store EXCEPT ![d] = Nothing]}
        /\ UNCHANGED <<pc, switched>>
    BY <1>3, Zenon DEF DataStopped
  <2> HIDE DEF rec
  <2>3. config'[d] = rec /\ store'[d] \in {store[d], Nothing}
    BY <1>2, <2>2 DEF Known, Typed, RecordsSound
  <2>4. QED BY <2>1, <2>2, <2>3, HaltRefines DEF Simulates
<1>4. CASE DataIgnored(d, c, s)
  <2>1. config'[d] = Loaded(d) /\ UNCHANGED <<store, pc, switched>>
    BY <1>2, <1>4 DEF DataIgnored, Known, Typed, RecordsSound
  <2>2. Loaded(d).fw = NoFw => Loaded(d) = store[d]
    BY DEF Loaded
  <2>3. QED BY <1>1, <2>1, <2>2, KeepRefines DEF Simulates
<1>5. CASE DataWritten(d, c, s)
  <2> DEFINE rec == [Loaded(d) EXCEPT !.bits = @ \cup {s}, !.written = @ + 1]
  <2>1. Accepts(Loaded(d), s)
    BY <1>5, Zenon DEF DataWritten
  <2>2. /\ rec \in SoundRecord /\ rec.fw = Loaded(d).fw
        /\ rec.err = Loaded(d).err
        /\ rec.bits = Loaded(d).bits \cup {s}
        /\ rec.written = Cardinality(rec.bits)
    BY <1>2, <2>1, WrittenSound
  <2>3. /\ config' = [config EXCEPT ![d] = rec]
        /\ UNCHANGED store \/ store' = [store EXCEPT ![d] = Saved(rec)]
        /\ pc' = [pc EXCEPT ![d] =
                    IF rec.written = PacketNum[rec.fw] THEN "ended" ELSE @]
        /\ UNCHANGED switched
    BY <1>5, Zenon DEF DataWritten
  <2> HIDE DEF rec
  <2>4. Saved(rec) = rec
    BY <2>2, SavedSound DEF Setting
  <2>5. /\ config'[d] = rec /\ store'[d] \in {store[d], rec}
        /\ pc'[d] = IF rec.written = PacketNum[rec.fw] THEN "ended" ELSE "idle"
    BY <1>1, <1>2, <2>3, <2>4 DEF Known, Typed, RecordsSound, OthersTyped
  <2>6. s \in Packets(Current(d))
    BY <1>1 DEF Packets, Current
  <2>7. QED BY <1>1, <2>1, <2>2, <2>3, <2>5, <2>6, WriteRefines DEF Simulates
<1>6. QED BY <1>3, <1>4, <1>5 DEF Data

LEMMA ProceedRefines ==
  ASSUME Known, Setting, NEW d \in Mapped, Refining(d), Proceed(d)
  PROVE  Refining(d)' /\ Simulates(d)
<1>1. d \in Devices /\ config[d] \in SoundRecord
  BY Values DEF Mapped
<1>2. pc[d] # "idle" => config[d].fw # NoFw /\ Loaded(d) = config[d]
  BY LoadedRefines
<1>3. CASE StatusSave(d)
  <2>1. PICK e \in {"OK", "FAIL"} :
          /\ store' = [store EXCEPT ![d] =
                         IF e = "OK" THEN Saved(config[d]) ELSE @]
          /\ config' = [config EXCEPT ![d] = SetError(config[d], e)]
    BY <1>3, Zenon DEF StatusSave
  <2>2. /\ SetError(config[d], e).fw = config[d].fw
        /\ SetError(config[d], e).bits = config[d].bits
        /\ SetError(config[d], e).err = "STOP" <=> config[d].err = "STOP"
        /\ Saved(config[d]) = config[d]
    BY <1>1, SetErrorSound, SavedSound DEF Setting, SetError, SoundRecord, Record
  <2>3. /\ config'[d] = SetError(config[d], e)
        /\ store'[d] \in {store[d], config[d]}
    BY <1>1, <2>1, <2>2 DEF Known, Typed, RecordsSound
  <2>4. pc[d] = "begun" /\ pc'[d] = "idle" /\ UNCHANGED switched
    BY <1>1, <1>3 DEF StatusSave, Known, Typed, OthersTyped
  <2>5. QED BY <1>2, <2>2, <2>3, <2>4, KeepRefines DEF Simulates
<1>4. CASE FinishErase(d)
  <2>1. /\ pc[d] = "ended" /\ pc'[d] = "erased"
        /\ store'[d] \in {store[d], Nothing}
        /\ UNCHANGED <<config, switched>>
    BY <1>1, <1>4 DEF FinishErase, Known, Typed, RecordsSound, OthersTyped
  <2>2. QED BY <2>1, GoOnRefines DEF Counting, Simulates
<1>5. CASE FinishBoot(d)
  <2>1. /\ pc[d] = "erased" /\ pc'[d] = "booted"
        /\ switched'[d] = switched[d] \cup {config[d].fw}
        /\ UNCHANGED <<config, store>>
    BY <1>1, <1>5 DEF FinishBoot, Select, Known, Typed, OthersTyped
  <2>2. QED BY <2>1, BootRefines DEF Simulates
<1>6. CASE FinishBootFails(d)
  <2>1. /\ config'[d].fw = config[d].fw /\ config'[d].bits = config[d].bits
        /\ config'[d].err = "STOP" /\ pc[d] = "erased" /\ pc'[d] = "idle"
        /\ UNCHANGED <<store, switched>>
    BY <1>1, <1>6
       DEF FinishBootFails, Known, Typed, RecordsSound, OthersTyped,
           SoundRecord, Record
  <2>2. QED BY <1>2, <2>1, HaltRefines DEF Simulates
<1>7. CASE FinishFlag(d) \/ FinishReport(d)
  <2>1. /\ pc[d] \in {"booted", "reporting"} /\ pc'[d] \in {"reporting", "idle"}
        /\ UNCHANGED <<config, store, switched>>
    BY <1>1, <1>7 DEF FinishFlag, FinishReport, Known, Typed, OthersTyped
  <2>2. QED BY <2>1, GoOnRefines DEF Counting, Simulates
<1>8. ~FlagOnRoot(d) /\ ~ReportOnRoot(d)
  <2>1. pc[d] \notin {"chosen", "flagged"}
    BY DEF Known, Sided, Mapped
  <2>2. QED BY <2>1, Zenon DEF FlagOnRoot, ReportOnRoot
<1>9. QED BY <1>3, <1>4, <1>5, <1>6, <1>7, <1>8 DEF Proceed

LEMMA OutsideRefines ==
  ASSUME Known, NEW d \in Mapped, Refining(d),
         Stop(d) \/ StopProceed(d) \/ Restart(d) \/ Uplink(d)
  PROVE  Refining(d)' /\ Simulates(d)
<1>1. d \in Devices /\ config[d] \in SoundRecord
  BY Values DEF Mapped
<1>2. CASE StopMarks(d)
  <2>1. config[d].fw # NoFw /\ Loaded(d) = config[d]
    BY <1>1, <1>2 DEF StopMarks, Known, Handling, Loaded
  <2>2. Stopped(d).err = "STOP"
    BY <1>1 DEF Stopped, SoundRecord, Record
  <2>3. /\ config'[d] = Stopped(d) /\ Stopped(d).fw = config[d].fw
        /\ Stopped(d).bits = {} /\ UNCHANGED <<store, pc, switched>>
    BY <1>1, <1>2, StopMarksIt DEF Known, Typed, RecordsSound
  <2>4. QED BY <2>1, <2>2, <2>3, HaltRefines DEF Simulates
<1>3. CASE Restart(d)
  <2>1. /\ pc'[d] = "idle" /\ config'[d] = Nothing
        /\ UNCHANGED <<store, switched>>
    BY <1>1, <1>3 DEF Restart, Known, Typed, RecordsSound, OthersTyped
  <2>2. QED BY <2>1, RestartRefines DEF Simulates
<1>4. CASE Uplink(d)
  <2>1. UNCHANGED <<config, store, pc, switched>>
    BY <1>4 DEF Uplink
  <2>2. QED
    BY <2>1 DEF Simulates, Stutters, Alike, Fw, Halted, Counts, Loaded,
       Refining, Within, Awaiting, Resumable
<1>5. CASE Stop(d) \/ StopRestores(d) \/ StopErases(d)
  <2>1. /\ stopping[d] # "no" \/ config[d].fw # NoFw
        /\ store'[d] \in {store[d], Nothing}
        /\ UNCHANGED <<config, pc, switched>>
    BY <1>1, <1>5
       DEF Stop, StopRestores, StopErases, Known, Typed, RecordsSound
  <2>2. QED BY <2>1, GoOnRefines DEF Counting, Simulates
<1>6. QED BY <1>2, <1>3, <1>4, <1>5 DEF StopProceed

(* A step of one device, or of a root, leaves the others as they are.      *)
LEMMA FrameRefines ==
  ASSUME NEW x \in Mapped, Refining(x),
         config'[x] = config[x], store'[x] = store[x], pc'[x] = pc[x],
         switched'[x] = switched[x]
  PROVE  Refining(x)' /\ Stutters(x)
  BY DEF Refining, Within, Awaiting, Resumable, Stutters, Alike, Fw, Halted,
     Counts, Loaded

LEMMA InitRefines == Init => AllRefining /\ Device!DeviceInit
<1> SUFFICES ASSUME Init PROVE AllRefining /\ Device!DeviceInit
  OBVIOUS
<1>1. ASSUME NEW d \in Mapped
      PROVE  /\ config[d] = Nothing /\ store[d] = Nothing /\ pc[d] = "idle"
             /\ switched[d] = {}
  BY DEF Init, Mapped
<1>2. AllRefining
  BY <1>1, NothingFields DEF AllRefining, Refining, Within, Awaiting, Resumable
<1>3. \A d \in Mapped : /\ Loaded(d) = Nothing /\ Counts(d) = {}
                        /\ switched[d] = {}
  BY <1>1, NothingFields DEF Loaded, Counts
<1>4. Nothing.fw = NoFw /\ (Nothing.err = "STOP") = FALSE
  BY DEF Nothing
<1>5. Device!DeviceInit
  BY <1>3, <1>4 DEF Device!DeviceInit, Mapped
<1>6. QED BY <1>2, <1>5

LEMMA NextRefines ==
  ASSUME Known, Setting, NoLonger, AllTraced, AllRefining, Next
  PROVE  AllRefining' /\ (Device!DeviceNext \/ UNCHANGED Device!deviceVars)
<1>1. PICK d \in Devices : Moves(d)
  BY NextMoves
<1>2. ASSUME NEW x \in Mapped \ {d} PROVE Refining(x)' /\ Stutters(x)
  <2>1. x \in Devices \ {d} /\ Refining(x)
    BY DEF Mapped, AllRefining
  <2>2. /\ config'[x] = config[x] /\ store'[x] = store[x] /\ pc'[x] = pc[x]
        /\ switched'[x] = switched[x]
    BY <1>1, <2>1, OthersKept DEF Known, Same
  <2>3. QED BY <2>1, <2>2, FrameRefines
<1>3. CASE d \in Mapped
  <2>1. DeviceTraced(d) /\ Refining(d)
    BY <1>3 DEF AllTraced, Traced, AllRefining, Mapped
  <2>2. \A c \in DOMAIN Campaigns : ~Download(d, c)
    BY <1>3 DEF Download, Mapped
  <2>3. Refining(d)' /\ Simulates(d)
    BY <1>1, <1>3, <2>1, <2>2, StatusRefines, DataRefines, ProceedRefines,
       OutsideRefines DEF Moves
  <2>4. AllRefining'
    BY <1>2, <2>3 DEF AllRefining
  <2>5. QED BY <1>2, <1>3, <2>3, <2>4, StepsAbstractly
<1>4. CASE d \notin Mapped
  <2>1. \A x \in Mapped : Refining(x)' /\ Stutters(x)
    BY <1>2, <1>4
  <2>2. \A x \in Mapped :
          /\ (Loaded(x).fw)' = Loaded(x).fw /\ Counts(x)' = Counts(x)
          /\ (Loaded(x).err = "STOP")' = (Loaded(x).err = "STOP")
          /\ switched'[x] = switched[x]
    BY <2>1 DEF Stutters, Alike, Fw, Halted
  <2>3. QED BY <2>1, <2>2 DEF AllRefining, Device!deviceVars, Mapped
<1>5. QED BY <1>3, <1>4

(* The device side implements UpgradeDevice on every device that is not a  *)
(* root: what MupgradeRoot relies on, whatever is lost, repeated, stopped  *)
(* or restarted.                                                           *)
THEOREM DeviceImplemented ==
  ASSUME Distinct, ~Broadcast, SavedNum > MaxPacket, NoLonger
  PROVE  Spec => ImplementsDevice
<1>1. Setting
  BY DEF Setting
<1> DEFINE Inv == Known /\ AllTraced /\ AllRefining
<1>2. Init => Inv /\ Device!DeviceInit
  BY InitTyped, InitTraced, InitRefines DEF Init, Handling, Sided, Known
<1>3. Inv /\ [Next]_vars => Inv' /\ [Device!DeviceNext]_(Device!deviceVars)
  <2>1. ASSUME Known, AllTraced, AllRefining, Next
        PROVE  /\ Known' /\ AllTraced' /\ AllRefining'
               /\ Device!DeviceNext \/ UNCHANGED Device!deviceVars
    BY <1>1, <2>1, NextTyped, HandlingStep, SidedStep, NextTraced, NextRefines
       DEF Known, Setting
  <2>2. ASSUME Known, AllTraced, AllRefining, UNCHANGED vars
        PROVE  /\ Known' /\ AllTraced' /\ AllRefining'
               /\ UNCHANGED Device!deviceVars
    <3>1. Known'
      BY <2>2 DEF vars, Known, Typed, RecordsSound, OthersTyped, Handling, Sided
    <3>2. AllTraced'
      BY <2>2, FrameTraced DEF vars, AllTraced, Same
    <3>3. \A x \in Mapped : Refining(x)' /\ Stutters(x)
      BY <2>2, FrameRefines DEF vars, AllRefining
    <3>4. UNCHANGED Device!deviceVars
      BY <2>2 DEF vars, Device!deviceVars, Loaded, Counts
    <3>5. QED BY <3>1, <3>2, <3>3, <3>4 DEF AllRefining
  <2>3. QED BY <2>1, <2>2
<1> HIDE DEF Inv
<1>4. QED BY <1>2, <1>3, PTL DEF Spec, ImplementsDevice, Device!DeviceSpec
=============================================================================
