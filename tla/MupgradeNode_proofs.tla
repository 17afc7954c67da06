------------------------ MODULE MupgradeNode_proofs -------------------------
(***************************************************************************)
(* Proofs about the device side of Mupgrade, for every number of devices,  *)
(* campaigns and packets and every report interval, of devices whose saved *)
(* record holds all of the progress bits (SavedNum > MaxPacket).           *)
(*                                                                         *)
(* NodeTypes, RecordsCount: types, and the count of packets on record.     *)
(* FlashHoldsProgress: what is on record is in flash.                      *)
(* StoppedDevicesStay: a stopped device boots as it was, but for the three *)
(* orders of a stop and a handler in which the code loses the stop.        *)
(* ReportsAreHonest: a device that reports a complete firmware has         *)
(* selected it, when the report interval does not divide 100.              *)
(***************************************************************************)
EXTENDS MupgradeNode, FiniteSetTheorems, TLAPS

(* A record whose written_size is the number of its progress bits.         *)
SoundRecord == {rec \in Record : Counted(rec)}

(***************************************************************************)
(* Lemmas: every way the handlers make a record makes a sound one.         *)
(***************************************************************************)

LEMMA RecordFields ==
  ASSUME NEW rec \in SoundRecord
  PROVE  /\ rec \in Record /\ Counted(rec)
         /\ rec.fw \in Firmware \cup {NoFw} /\ rec.err \in Error
         /\ rec.written \in 0 .. MaxPacket + 1 /\ rec.bits \in SUBSET Slots
  BY DEF SoundRecord, Record

(* The progress bits are finitely many, of at most MaxPacket + 1 slots.    *)
LEMMA SlotsFinite ==
  /\ IsFiniteSet(Slots) /\ Cardinality(Slots) = MaxPacket + 1
  /\ \A B \in SUBSET Slots :
       IsFiniteSet(B) /\ Cardinality(B) \in 0 .. MaxPacket + 1
<1>1. MaxPacket \in Nat
  BY ConstantsAssumption DEF ConstantsAssumption
<1>2. IsFiniteSet(Slots) /\ Cardinality(Slots) = MaxPacket + 1
  BY <1>1, FS_Interval DEF Slots
<1>3. ASSUME NEW B \in SUBSET Slots
      PROVE  IsFiniteSet(B) /\ Cardinality(B) \in 0 .. MaxPacket + 1
  <2>1. IsFiniteSet(B) /\ Cardinality(B) <= Cardinality(Slots)
    BY <1>2, FS_Subset
  <2>2. Cardinality(B) \in Nat
    BY <2>1, FS_CardinalityType
  <2>3. QED BY <1>1, <1>2, <2>1, <2>2
<1>4. QED BY <1>2, <1>3

(* No progress: 0 is the number of bits, and in range.                     *)
LEMMA NoBits ==
  /\ Cardinality({}) = 0
  /\ 0 \in 0 .. MaxPacket + 1 /\ {} \in SUBSET Slots
<1>1. Cardinality({}) = 0 BY FS_EmptySet
<1>2. MaxPacket \in Nat BY ConstantsAssumption DEF ConstantsAssumption
<1>3. QED BY <1>1, <1>2

LEMMA NothingSound == Nothing \in SoundRecord
  BY NoBits DEF Nothing, SoundRecord, Record, Counted, Error

LEMMA SetErrorSound ==
  ASSUME NEW rec \in SoundRecord, NEW e \in {"OK", "FAIL"}
  PROVE  /\ SetError(rec, e) \in SoundRecord
         /\ SetError(rec, e).fw = rec.fw /\ SetError(rec, e).bits = rec.bits
  BY DEF SetError, SoundRecord, Record, Counted, Error

LEMMA FreshSound ==
  ASSUME NEW rec \in SoundRecord, NEW f \in Firmware
  PROVE  /\ Fresh(rec, f) \in SoundRecord
         /\ Fresh(rec, f).fw = f /\ Fresh(rec, f).bits = {}
  BY NoBits DEF Fresh, SoundRecord, Record, Counted, Error

(* A stop: the error is STOP and the progress is forgotten, or kept.       *)
LEMMA StoppedSound ==
  ASSUME NEW rec \in SoundRecord
  PROVE  /\ LET s == [rec EXCEPT !.err = "STOP", !.written = 0, !.bits = {}]
            IN  s \in SoundRecord /\ s.fw = rec.fw /\ s.bits = {}
         /\ LET s == [rec EXCEPT !.written = 0, !.err = "STOP"]
            IN  s \in SoundRecord /\ s.fw = rec.fw /\ s.bits = rec.bits
         /\ LET s == [rec EXCEPT !.written = 0, !.bits = {}]
            IN  s \in SoundRecord /\ s.fw = rec.fw /\ s.bits = {}
  BY NoBits DEF SoundRecord, Record, Counted, Error

(* What is saved of a record, when the blob covers the progress bits.      *)
LEMMA SavedSound ==
  ASSUME NEW rec \in SoundRecord, SavedNum > MaxPacket
  PROVE  Saved(rec) = rec
<1>1. MaxPacket \in Nat /\ SavedNum \in Nat
  BY ConstantsAssumption DEF ConstantsAssumption
<1>2. rec.bits \cap (0 .. SavedNum - 1) = rec.bits
  BY <1>1, RecordFields DEF Slots
<1>3. QED BY <1>2 DEF Saved, SoundRecord, Record

(* The record of a firmware that is complete.                              *)
LEMMA DoneSound ==
  ASSUME NEW rec \in SoundRecord, rec.fw \in Firmware
  PROVE  LET new == [rec EXCEPT !.written = PacketNum[rec.fw],
                                !.bits = 0 .. PacketNum[rec.fw] - 1]
         IN  new \in SoundRecord /\ new.fw = rec.fw /\ new.err = rec.err
<1> DEFINE n == PacketNum[rec.fw]
           B == 0 .. n - 1
<1>1. MaxPacket \in Nat /\ n \in 1 .. MaxPacket
  BY ConstantsAssumption DEF ConstantsAssumption
<1>2. Cardinality(B) = n
  BY <1>1, FS_Interval
<1>3. B \in SUBSET Slots
  BY <1>1 DEF Slots
<1>4. n \in 0 .. MaxPacket + 1
  BY <1>1
<1> HIDE DEF n, B
<1>5. [rec EXCEPT !.written = n, !.bits = B] \in SoundRecord
  BY <1>2, <1>3, <1>4 DEF SoundRecord, Record, Counted, Error
<1>6. QED BY <1>5 DEF n, B, SoundRecord, Record

(* One packet more.                                                        *)
LEMMA WrittenSound ==
  ASSUME NEW rec \in SoundRecord, NEW s \in Slots, Accepts(rec, s)
  PROVE  LET new == [rec EXCEPT !.bits = @ \cup {s}, !.written = @ + 1]
         IN  /\ new \in SoundRecord
             /\ new.fw = rec.fw /\ new.bits = rec.bits \cup {s}
             /\ new.written = rec.written + 1 /\ new.err = rec.err
             /\ new.written = Cardinality(new.bits)
<1> DEFINE B == rec.bits \cup {s}
<1>1. rec.written = Cardinality(rec.bits)
  BY RecordFields DEF Accepts, Counted
<1>2. B \in SUBSET Slots
  BY RecordFields
<1>3. Cardinality(B) = rec.written + 1
  <2>1. IsFiniteSet(rec.bits) BY RecordFields, SlotsFinite
  <2>2. s \notin rec.bits BY DEF Accepts
  <2>3. QED BY <1>1, <2>1, <2>2, FS_AddElement
<1>4. rec.written + 1 \in 0 .. MaxPacket + 1
  BY <1>2, <1>3, SlotsFinite
<1>5. QED BY <1>2, <1>3, <1>4 DEF SoundRecord, Record, Counted, Error

-----------------------------------------------------------------------------
(***************************************************************************)
(* Types and counts.  TypeOK alone is not inductive: written stays within  *)
(* its range only because it counts progress bits, so both are proved      *)
(* together, with the records on their way to the root.                    *)
(***************************************************************************)
RecordsSound ==
  /\ config \in [Devices -> SoundRecord]
  /\ store \in [Devices -> SoundRecord]
  /\ out \in [Devices -> Seq(SoundRecord)]

(* Where a handler stands.                                                 *)
Points == {"idle", "begun", "chosen", "flagged",
           "ended", "erased", "booted", "reporting"}

OthersTyped ==
  /\ flash \in [Devices -> [Slots -> Firmware \cup {Erased, Mixed}]]
  /\ boot \in [Devices -> Firmware \cup {NoFw}]
  /\ finished \in [Devices -> BOOLEAN]
  /\ next_percentage \in [Devices -> Int]
  /\ pc \in [Devices -> Points]
  /\ stopping \in [Devices -> {"no", "restoring", "marking", "erasing"}]
  /\ excused \in [Devices -> BOOLEAN]
  /\ offer \in [Devices -> DOMAIN Campaigns]
  /\ answered \in [Devices -> Nat]
  /\ erasedFor \in [Devices -> Firmware \cup {NoFw}]
  /\ switched \in [Devices -> SUBSET Firmware]

(* A handler that has begun has a record, and so has a mupgrade_stop(): it *)
(* is its firmware that FinishBoot selects.                                *)
Handling ==
  \A d \in Devices : pc[d] # "idle" \/ stopping[d] # "no" => config[d].fw # NoFw

(* What one device does in a step.                                         *)
Moves(d) ==
  \/ \E c \in DOMAIN Campaigns :
       Status(d, c) \/ (\E s \in Slots : Data(d, c, s)) \/ Download(d, c)
  \/ Proceed(d) \/ Stop(d) \/ StopProceed(d) \/ Restart(d) \/ Uplink(d)

LEMMA NextMoves == Next => \E d \in Devices : Moves(d)
  BY Zenon DEF Next, Moves

Typed == RecordsSound /\ OthersTyped

LEMMA TypedImplies == Typed => TypeOK /\ WrittenCountsProgress
<1> SUFFICES ASSUME Typed PROVE TypeOK /\ WrittenCountsProgress
  OBVIOUS
<1>1. SoundRecord \subseteq Record
  BY DEF SoundRecord
<1>2. out \in [Devices -> Seq(Record)]
  BY <1>1 DEF Typed, RecordsSound
<1>3. config \in [Devices -> Record] /\ store \in [Devices -> Record]
  BY <1>1 DEF Typed, RecordsSound
<1>4. WrittenCountsProgress
  BY DEF Typed, RecordsSound, WrittenCountsProgress, SoundRecord
<1>5. QED BY <1>2, <1>3, <1>4 DEF Typed, OthersTyped, Points, TypeOK

(* What Campaigns and Firmware are.                                        *)
LEMMA CampaignsTyped ==
  /\ DOMAIN Campaigns = 1 .. Len(Campaigns) /\ 1 \in DOMAIN Campaigns
  /\ DOMAIN Campaigns \subseteq Nat \ {0}
  /\ \A c \in DOMAIN Campaigns : Campaigns[c] \in Firmware
  /\ \A f \in Firmware : PacketNum[f] \in 1 .. MaxPacket
                             /\ f # NoFw /\ f \notin {Erased, Mixed}
  /\ MaxPacket \in Nat /\ Interval \in Nat \ {0}
<1>1. Campaigns \in Seq(Firmware) /\ Campaigns # <<>>
  BY ConstantsAssumption DEF ConstantsAssumption
<1>2. Len(Campaigns) \in Nat \ {0} /\ DOMAIN Campaigns = 1 .. Len(Campaigns)
  BY <1>1
<1>3. \A c \in DOMAIN Campaigns : Campaigns[c] \in Firmware
  BY DEF Firmware
<1>4. \A f \in Firmware : PacketNum[f] \in 1 .. MaxPacket
  BY ConstantsAssumption DEF ConstantsAssumption
<1>5. \A f \in Firmware : f # NoFw /\ f \notin {Erased, Mixed}
  BY ConstantsAssumption DEF ConstantsAssumption
<1>6. MaxPacket \in Nat /\ Interval \in Nat \ {0}
  BY ConstantsAssumption DEF ConstantsAssumption
<1>7. QED BY <1>2, <1>3, <1>4, <1>5, <1>6

LEMMA LoadedSound ==
  ASSUME Typed, NEW d \in Devices
  PROVE  Loaded(d) \in SoundRecord
  BY DEF Typed, RecordsSound, Loaded

LEMMA InitTyped == Init => Typed
<1> SUFFICES ASSUME Init PROVE Typed
  OBVIOUS
<1>1. RecordsSound
  BY NothingSound DEF Init, RecordsSound
<1>2. OthersTyped
  BY CampaignsTyped DEF Init, OthersTyped, Points, AllSlots
<1>3. QED BY <1>1, <1>2 DEF Typed

(* A status that is sent is sound: then so is what is on its way.          *)
LEMMA ReplySound ==
  ASSUME Typed, NEW d \in Devices, NEW rec \in SoundRecord, Reply(d, rec)
  PROVE  out' \in [Devices -> Seq(SoundRecord)]
<1>1. out[d] \in Seq(SoundRecord)
  BY DEF Typed, RecordsSound
<1>2. Append(out[d], rec) \in Seq(SoundRecord)
  BY <1>1
<1>3. QED BY <1>2 DEF Reply, Typed, RecordsSound

LEMMA StatusTyped ==
  ASSUME Typed, NEW d \in Devices, NEW c \in DOMAIN Campaigns, Status(d, c)
  PROVE  Typed'
<1>1. /\ Campaigns[c] \in Firmware /\ c \in Nat /\ Loaded(d) \in SoundRecord
      /\ Fresh(Loaded(d), Campaigns[c]) \in SoundRecord
  BY CampaignsTyped, LoadedSound, FreshSound
<1>2. CASE StatusKnown(d, c)
  <2>1. SetError(Loaded(d), "OK") \in SoundRecord
    BY <1>1, SetErrorSound
  <2>2. RecordsSound'
    BY <1>2, <2>1, ReplySound DEF StatusKnown, Answers, Typed, RecordsSound
  <2>3. OthersTyped'
    BY <1>1, <1>2 DEF StatusKnown, Arrives, Answers, Typed, OthersTyped
  <2>4. QED BY <2>2, <2>3 DEF Typed
<1>3. CASE StatusOnRoot(d, c)
  <2> DEFINE rec  == Fresh(Loaded(d), Campaigns[c])
             fail == SetError(rec, "FAIL")
  <2>1. rec \in SoundRecord /\ fail \in SoundRecord
    BY <1>1, SetErrorSound
  <2>2. \/ /\ Select(d, Campaigns[c]) /\ config' = [config EXCEPT ![d] = rec]
           /\ pc' = [pc EXCEPT ![d] = "chosen"] /\ UNCHANGED <<out, answered>>
        \/ /\ config' = [config EXCEPT ![d] = fail] /\ Answers(d, c, fail)
           /\ UNCHANGED <<boot, switched, excused, pc>>
    BY <1>3, Zenon DEF StatusOnRoot
  <2>3. /\ Arrives(d, c)
        /\ UNCHANGED <<store, flash, finished, next_percentage, stopping,
                       erasedFor>>
    BY <1>3, Zenon DEF StatusOnRoot
  <2> HIDE DEF rec, fail
  <2>4. RecordsSound'
    BY <2>1, <2>2, <2>3, ReplySound DEF Answers, Typed, RecordsSound
  <2>5. OthersTyped'
    <3>1. CASE /\ Select(d, Campaigns[c]) /\ pc' = [pc EXCEPT ![d] = "chosen"]
               /\ UNCHANGED answered
      BY <1>1, <2>3, <3>1 DEF Select, Arrives, Points, Typed, OthersTyped
    <3>2. CASE Answers(d, c, fail) /\ UNCHANGED <<boot, switched, excused, pc>>
      BY <1>1, <2>3, <3>2 DEF Answers, Arrives, Typed, OthersTyped
    <3>3. QED BY <2>2, <3>1, <3>2
  <2>6. QED BY <2>4, <2>5 DEF Typed
<1>4. CASE StatusBegin(d, c)
  <2>1. RecordsSound'
    BY <1>1, <1>4 DEF StatusBegin, Typed, RecordsSound
  <2>2. OthersTyped'
    BY <1>1, <1>4 DEF StatusBegin, Unflag, Arrives, Points, Typed, OthersTyped,
                         AllSlots
  <2>3. QED BY <2>1, <2>2 DEF Typed
<1>5. CASE StatusBeginFails(d, c)
  <2>1. SetError(Fresh(Loaded(d), Campaigns[c]), "FAIL") \in SoundRecord
    BY <1>1, SetErrorSound
  <2>2. RecordsSound'
    BY <1>5, <2>1, ReplySound DEF StatusBeginFails, Answers, Typed, RecordsSound
  <2>3. OthersTyped'
    BY <1>1, <1>5 DEF StatusBeginFails, Unflag, Arrives, Answers, Typed,
                         OthersTyped
  <2>4. QED BY <2>2, <2>3 DEF Typed
<1>6. QED BY <1>2, <1>3, <1>4, <1>5 DEF Status

LEMMA DataTyped ==
  ASSUME Typed, SavedNum > MaxPacket,
         NEW d \in Devices, NEW c \in DOMAIN Campaigns, NEW s \in Slots,
         Data(d, c, s)
  PROVE  Typed'
<1>1. /\ Campaigns[c] \in Firmware /\ c \in Nat /\ Loaded(d) \in SoundRecord
      /\ Nothing \in SoundRecord
  BY CampaignsTyped, LoadedSound, NothingSound
<1>2. CASE DataStopped(d, c, s)
  <2> DEFINE rec == [Loaded(d) EXCEPT !.written = 0, !.bits = {}]
  <2>1. rec \in SoundRecord
    BY <1>1, StoppedSound
  <2>2. /\ config' = [config EXCEPT ![d] = rec] /\ Reply(d, rec)
        /\ store' \in {store, [store EXCEPT ![d] = Nothing]}
        /\ PacketArrives(d, c, s)
        /\ UNCHANGED <<flash, boot, finished, next_percentage, pc, stopping,
                       answered, erasedFor, switched, excused>>
    BY <1>2, Zenon DEF DataStopped
  <2> HIDE DEF rec
  <2>3. RecordsSound'
    BY <1>1, <2>1, <2>2, ReplySound DEF Typed, RecordsSound
  <2>4. OthersTyped'
    BY <1>1, <2>2 DEF PacketArrives, Arrives, Typed, OthersTyped
  <2>5. QED BY <2>3, <2>4 DEF Typed
<1>3. CASE DataIgnored(d, c, s)
  BY <1>1, <1>3 DEF DataIgnored, PacketArrives, Arrives, Typed, RecordsSound,
     OthersTyped
<1>4. CASE DataWritten(d, c, s)
  <2>0. PICK old \in SoundRecord : old = Loaded(d)
    BY <1>1
  <2> DEFINE rec == [old EXCEPT !.bits = @ \cup {s}, !.written = @ + 1]
             p   == (rec.written * 100) \div PacketNum[rec.fw]
  <2>1. /\ PacketArrives(d, c, s) /\ Accepts(old, s)
        /\ flash' = [flash EXCEPT ![d][s] = Program(@, Campaigns[c])]
        /\ config' = [config EXCEPT ![d] = rec]
        /\ next_percentage' =
             [next_percentage EXCEPT ![d] = NextPercentage(p, @)]
        /\ UNCHANGED store \/ store' = [store EXCEPT ![d] = Saved(rec)]
        /\ pc' = [pc EXCEPT ![d] =
                    IF rec.written = PacketNum[rec.fw] THEN "ended" ELSE @]
        /\ UNCHANGED <<boot, finished, stopping, out, answered, erasedFor,
                       switched, excused>>
    BY <1>4, <2>0, Zenon DEF DataWritten
  <2>2. rec \in SoundRecord /\ rec.fw = old.fw
    BY <2>1, WrittenSound
  <2>3. old.fw \in Firmware
    BY <2>1, RecordFields DEF Accepts
  <2> HIDE DEF rec
  <2>4. Saved(rec) \in SoundRecord
    BY <2>2, SavedSound
  <2>5. /\ rec.written \in Int /\ PacketNum[rec.fw] \in Int
        /\ PacketNum[rec.fw] > 0
    BY <2>2, <2>3, CampaignsTyped, RecordFields
  <2>6. p \in Int
    <3>1. \A x \in Int, y \in Int : y > 0 => (x * 100) \div y \in Int
      OBVIOUS
    <3>2. QED BY <2>5, <3>1
  <2> HIDE DEF p
  <2>7. RecordsSound'
    BY <2>1, <2>2, <2>4 DEF Typed, RecordsSound
  <2>8. NextPercentage(p, next_percentage[d]) \in Int
    BY <2>6, CampaignsTyped DEF NextPercentage, Typed, OthersTyped
  <2>9. Program(flash[d][s], Campaigns[c]) \in Firmware \cup {Erased, Mixed}
    BY <1>1 DEF Program
  <2>10. flash' \in [Devices -> [Slots -> Firmware \cup {Erased, Mixed}]]
    BY <2>1, <2>9 DEF Typed, OthersTyped
  <2>11. OthersTyped'
    BY <1>1, <2>1, <2>8, <2>10
       DEF PacketArrives, Arrives, Points, Typed, OthersTyped
  <2>12. QED BY <2>7, <2>11 DEF Typed
<1>5. QED BY <1>2, <1>3, <1>4 DEF Data

LEMMA ProceedTyped ==
  ASSUME Typed, Handling, SavedNum > MaxPacket, NEW d \in Devices, Proceed(d)
  PROVE  Typed'
<1>1. config[d] \in SoundRecord /\ Nothing \in SoundRecord
  BY NothingSound DEF Typed, RecordsSound
<1>2. CASE StatusSave(d)
  <2>1. PICK e \in {"OK", "FAIL"} :
          /\ store' = [store EXCEPT ![d] =
                         IF e = "OK" THEN Saved(config[d]) ELSE @]
          /\ config' = [config EXCEPT ![d] = SetError(config[d], e)]
          /\ Answers(d, offer[d], SetError(config[d], e))
    BY <1>2, Zenon DEF StatusSave
  <2>2. SetError(config[d], e) \in SoundRecord /\ Saved(config[d]) \in SoundRecord
    BY <1>1, SetErrorSound, SavedSound
  <2>3. RecordsSound'
    BY <1>1, <2>1, <2>2, ReplySound DEF Answers, Typed, RecordsSound
  <2>4. OthersTyped'
    BY <1>2, <2>1, CampaignsTyped
       DEF StatusSave, Answers, Points, Typed, OthersTyped
  <2>5. QED BY <2>3, <2>4 DEF Typed
<1>3. CASE FinishErase(d)
  BY <1>1, <1>3 DEF FinishErase, Points, Typed, RecordsSound, OthersTyped
<1>4. CASE FinishBoot(d)
  <2>1. config[d].fw \in Firmware
    BY <1>1, <1>4, RecordFields DEF FinishBoot, Handling
  <2>2. QED
    BY <1>4, <2>1 DEF FinishBoot, Select, Points, Typed, RecordsSound, OthersTyped
<1>5. CASE FinishBootFails(d)
  <2>1. [config[d] EXCEPT !.written = 0, !.err = "STOP"] \in SoundRecord
    BY <1>1, StoppedSound
  <2>2. config' = [config EXCEPT
                     ![d] = [config[d] EXCEPT !.written = 0, !.err = "STOP"]]
    BY <1>5 DEF FinishBootFails, Typed, RecordsSound
  <2>3. RecordsSound'
    BY <1>5, <2>1, <2>2 DEF FinishBootFails, Typed, RecordsSound
  <2>4. OthersTyped'
    BY <1>5 DEF FinishBootFails, Points, Typed, OthersTyped
  <2>5. QED BY <2>3, <2>4 DEF Typed
<1>6. CASE FlagOnRoot(d) \/ FinishFlag(d)
  BY <1>6 DEF FlagOnRoot, FinishFlag, Points, Typed, RecordsSound, OthersTyped
<1>7. CASE ReportOnRoot(d)
  <2> DEFINE size == PacketNum[config[d].fw]
             done == [config[d] EXCEPT !.written = size, !.bits = 0 .. size - 1]
             rec  == SetError(done, "OK")
  <2>1. config[d].fw \in Firmware
    BY <1>1, <1>7, RecordFields DEF ReportOnRoot, Handling
  <2>2. done \in SoundRecord
    BY <1>1, <2>1, DoneSound
  <2>3. rec \in SoundRecord
    BY <2>2, SetErrorSound
  <2>4. /\ config' = [config EXCEPT ![d] = rec] /\ Answers(d, offer[d], rec)
        /\ pc' = [pc EXCEPT ![d] = "idle"]
        /\ UNCHANGED <<store, flash, boot, finished, next_percentage, stopping,
                       offer, erasedFor, switched, excused>>
    BY <1>7, Zenon DEF ReportOnRoot
  <2> HIDE DEF rec
  <2>5. RecordsSound'
    BY <2>3, <2>4, ReplySound DEF Answers, Typed, RecordsSound
  <2>6. OthersTyped'
    BY <2>4, CampaignsTyped DEF Answers, Points, Typed, OthersTyped
  <2>7. QED BY <2>5, <2>6 DEF Typed
<1>8. CASE FinishReport(d)
  <2>1. RecordsSound'
    BY <1>1, <1>8, ReplySound DEF FinishReport, Typed, RecordsSound
  <2>2. OthersTyped'
    BY <1>8 DEF FinishReport, Points, Typed, OthersTyped
  <2>3. QED BY <2>1, <2>2 DEF Typed
<1>9. QED BY <1>2, <1>3, <1>4, <1>5, <1>6, <1>7, <1>8 DEF Proceed

(* The record mupgrade_stop() marks.                                       *)
Stopped(d) == [config[d] EXCEPT !.err = "STOP", !.written = 0, !.bits = {}]

LEMMA StopMarksIt ==
  ASSUME Typed, NEW d \in Devices, StopMarks(d)
  PROVE  /\ Stopped(d) \in SoundRecord
         /\ Stopped(d).fw = config[d].fw /\ Stopped(d).bits = {}
         /\ config' = [config EXCEPT ![d] = Stopped(d)]
         /\ Reply(d, Stopped(d)) \/ UNCHANGED out
         /\ stopping' = [stopping EXCEPT ![d] = "erasing"]
         /\ excused' = [excused EXCEPT ![d] = @ \/ pc[d] \in {"ended", "erased"}]
         /\ UNCHANGED <<store, flash, boot, finished, next_percentage, pc, offer,
                        answered, erasedFor, switched>>
<1>1. Stopped(d) \in SoundRecord /\ Stopped(d).fw = config[d].fw
      /\ Stopped(d).bits = {}
  BY StoppedSound DEF Stopped, Typed, RecordsSound
<1>2. QED BY <1>1, Zenon DEF StopMarks, Stopped

LEMMA StopTyped ==
  ASSUME Typed, NEW d \in Devices, Stop(d) \/ StopProceed(d)
  PROVE  Typed'
<1>1. CASE Stop(d)
  BY <1>1 DEF Stop, Typed, RecordsSound, OthersTyped
<1>2. CASE StopRestores(d)
  BY <1>2 DEF StopRestores, Typed, RecordsSound, OthersTyped
<1>3. CASE StopMarks(d)
  <2>1. RecordsSound'
    BY <1>3, StopMarksIt, ReplySound DEF Typed, RecordsSound
  <2>2. OthersTyped'
    BY <1>3, StopMarksIt DEF Typed, OthersTyped
  <2>3. QED BY <2>1, <2>2 DEF Typed
<1>4. CASE StopErases(d)
  BY <1>4, NothingSound DEF StopErases, Typed, RecordsSound, OthersTyped
<1>5. QED BY <1>1, <1>2, <1>3, <1>4 DEF StopProceed

LEMMA RestartTyped ==
  ASSUME Typed, NEW d \in Devices, Restart(d)
  PROVE  Typed'
<1>1. RecordsSound'
  BY NothingSound DEF Restart, Typed, RecordsSound
<1>2. OthersTyped'
  <2>1. CASE boot[d] = NoFw
    BY <2>1, CampaignsTyped DEF Restart, Points, Typed, OthersTyped
  <2>2. CASE boot[d] # NoFw
    <3>1. boot[d] \in Firmware
      BY <2>2 DEF Typed, OthersTyped
    <3>2. /\ boot' = [boot EXCEPT ![d] = NoFw]
          /\ flash' = [flash EXCEPT ![d] = AllSlots(Mixed)]
          /\ erasedFor' = [erasedFor EXCEPT ![d] = NoFw]
      BY <2>2, Zenon DEF Restart
    <3>3. /\ finished' = [finished EXCEPT ![d] = FALSE]
          /\ next_percentage' = [next_percentage EXCEPT ![d] = Interval]
          /\ pc' = [pc EXCEPT ![d] = "idle"]
          /\ stopping' = [stopping EXCEPT ![d] = "no"]
          /\ excused' = [excused EXCEPT ![d] = FALSE]
          /\ UNCHANGED <<offer, answered, switched>>
      BY Zenon DEF Restart
    <3>4. AllSlots(Mixed) \in [Slots -> Firmware \cup {Erased, Mixed}]
      BY DEF AllSlots
    <3>5. QED
      BY <3>1, <3>2, <3>3, <3>4, CampaignsTyped DEF Points, Typed, OthersTyped
  <2>3. QED BY <2>1, <2>2
<1>3. QED BY <1>1, <1>2 DEF Typed

LEMMA DownloadTyped ==
  ASSUME Typed, NEW d \in Devices, NEW c \in DOMAIN Campaigns, Download(d, c)
  PROVE  Typed'
<1>1. Campaigns[c] \in Firmware
  BY CampaignsTyped
<1>2. RecordsSound'
  BY DEF Download, Typed, RecordsSound
<1>3. OthersTyped'
  BY <1>1 DEF Download, Typed, OthersTyped, AllSlots
<1>4. QED BY <1>2, <1>3 DEF Typed

LEMMA UplinkTyped ==
  ASSUME Typed, NEW d \in Devices, Uplink(d)
  PROVE  Typed'
<1>1. out[d] \in Seq(SoundRecord) /\ out[d] # <<>>
  BY DEF Uplink, Typed, RecordsSound
<1>2. Tail(out[d]) \in Seq(SoundRecord)
  BY <1>1
<1>3. RecordsSound'
  BY <1>2 DEF Uplink, Typed, RecordsSound
<1>4. OthersTyped'
  BY DEF Uplink, Typed, OthersTyped
<1>5. QED BY <1>3, <1>4 DEF Typed

(* No step but a restart takes the record of a device away.                *)
LEMMA HandlingKept ==
  ASSUME Typed, Handling, NEW d \in Devices,
         \/ pc'[d] = "idle" /\ stopping'[d] = "no"
         \/ config'[d].fw # NoFw
         \/ /\ config[d].fw # NoFw => config'[d].fw # NoFw
            /\ pc'[d] \in {pc[d], "idle"} /\ stopping'[d] \in {stopping[d], "no"},
         \A x \in Devices \ {d} : /\ pc'[x] = pc[x] /\ config'[x] = config[x]
                                 /\ stopping'[x] = stopping[x]
  PROVE  Handling'
  BY DEF Handling

LEMMA HandlingStep ==
  ASSUME Typed, Handling, SavedNum > MaxPacket, Next
  PROVE  Handling'
<1>1. PICK d \in Devices : Moves(d)
  BY NextMoves
<1>2. /\ config \in [Devices -> SoundRecord] /\ config[d] \in SoundRecord
      /\ pc \in [Devices -> Points]
      /\ stopping \in [Devices -> {"no", "restoring", "marking", "erasing"}]
  BY DEF Typed, RecordsSound, OthersTyped
<1>3. ASSUME NEW c \in DOMAIN Campaigns, Status(d, c)
      PROVE  Handling'
  <2>1. CASE StatusKnown(d, c)
    <3>1. /\ config' = [config EXCEPT ![d] = SetError(Loaded(d), "OK")]
          /\ pc' = pc /\ stopping' = stopping /\ Loaded(d).fw = Campaigns[c]
      BY <2>1, Zenon DEF StatusKnown
    <3>2. SetError(Loaded(d), "OK").fw # NoFw
      BY <3>1, LoadedSound, SetErrorSound, CampaignsTyped
    <3>3. QED BY <1>2, <3>1, <3>2, HandlingKept
  <2>2. CASE StatusOnRoot(d, c) \/ StatusBegin(d, c) \/ StatusBeginFails(d, c)
    <3> DEFINE rec == Fresh(Loaded(d), Campaigns[c])
    <3>1. rec.fw # NoFw /\ SetError(rec, "FAIL").fw # NoFw
      BY LoadedSound, CampaignsTyped, FreshSound, SetErrorSound
    <3>2. /\ \/ config' = [config EXCEPT ![d] = rec]
             \/ config' = [config EXCEPT ![d] = SetError(rec, "FAIL")]
          /\ pc' = pc \/ \E p : pc' = [pc EXCEPT ![d] = p]
          /\ stopping' = stopping
      BY <2>2, Zenon DEF StatusOnRoot, StatusBegin, StatusBeginFails
    <3> HIDE DEF rec
    <3>3. config'[d].fw # NoFw
      BY <1>2, <3>1, <3>2
    <3>4. \A x \in Devices \ {d} : /\ pc'[x] = pc[x] /\ config'[x] = config[x]
                                  /\ stopping'[x] = stopping[x]
      BY <1>2, <3>2
    <3>5. QED BY <3>3, <3>4, HandlingKept
  <2>3. QED BY <1>3, <2>1, <2>2 DEF Status
<1>4. ASSUME NEW c \in DOMAIN Campaigns, NEW s \in Slots, Data(d, c, s)
      PROVE  Handling'
  <2>1. CASE DataStopped(d, c, s) \/ DataIgnored(d, c, s)
    <3> DEFINE rec == [Loaded(d) EXCEPT !.written = 0, !.bits = {}]
    <3>1. Loaded(d) \in SoundRecord /\ rec.fw = Loaded(d).fw
      BY LoadedSound, StoppedSound
    <3>2. /\ \/ config' = [config EXCEPT ![d] = rec]
             \/ config' = [config EXCEPT ![d] = Loaded(d)]
          /\ pc' = pc /\ stopping' = stopping
      BY <2>1, Zenon DEF DataStopped, DataIgnored
    <3> HIDE DEF rec
    <3>3. config'[d].fw = Loaded(d).fw
      BY <1>2, <3>1, <3>2
    <3>4. config[d].fw # NoFw => Loaded(d).fw = config[d].fw
      BY DEF Loaded
    <3>5. QED BY <1>2, <3>2, <3>3, <3>4, HandlingKept
  <2>2. CASE DataWritten(d, c, s)
    <3>1. Accepts(Loaded(d), s)
          /\ config' = [config EXCEPT ![d] = [Loaded(d) EXCEPT
                                  !.bits = @ \cup {s}, !.written = @ + 1]]
      BY <2>2, Zenon DEF DataWritten
    <3>2. config'[d].fw # NoFw
      BY <1>2, <3>1, LoadedSound, WrittenSound DEF Accepts
    <3>3. \A x \in Devices \ {d} : /\ pc'[x] = pc[x] /\ config'[x] = config[x]
                                  /\ stopping'[x] = stopping[x]
      BY <1>2, <2>2, <3>1 DEF DataWritten
    <3>4. QED BY <3>2, <3>3, HandlingKept
  <2>3. QED BY <1>4, <2>1, <2>2 DEF Data
<1>5. ASSUME NEW c \in DOMAIN Campaigns, Download(d, c)
      PROVE  Handling'
  BY <1>5 DEF Download, Handling
<1>6. CASE Proceed(d)
  <2>1. pc[d] # "idle" /\ config[d].fw # NoFw
    BY <1>6 DEF Proceed, FlagOnRoot, ReportOnRoot, StatusSave, FinishErase,
       FinishBoot, FinishBootFails, FinishFlag, FinishReport, Handling
  <2>2. CASE FinishErase(d) \/ FinishBoot(d) \/ FlagOnRoot(d)
             \/ FinishFlag(d) \/ FinishReport(d)
    BY <1>2, <2>1, <2>2, HandlingKept
       DEF FinishErase, FinishBoot, FlagOnRoot, FinishFlag, FinishReport
  <2>3. CASE FinishBootFails(d)
    <3>1. config'[d].fw = config[d].fw
      BY <1>2, <2>3 DEF FinishBootFails, SoundRecord, Record
    <3>2. QED BY <1>2, <2>1, <2>3, <3>1, HandlingKept DEF FinishBootFails
  <2>4. CASE StatusSave(d)
    <3>1. PICK e \in {"OK", "FAIL"} :
            /\ config' = [config EXCEPT ![d] = SetError(config[d], e)]
            /\ pc' = [pc EXCEPT ![d] = "idle"] /\ stopping' = stopping
      BY <2>4, Zenon DEF StatusSave
    <3>2. SetError(config[d], e).fw # NoFw
      BY <1>2, <2>1, SetErrorSound
    <3>3. QED BY <1>2, <3>1, <3>2, HandlingKept
  <2>5. CASE ReportOnRoot(d)
    <3> DEFINE done == [config[d] EXCEPT !.written = PacketNum[config[d].fw],
                             !.bits = 0 .. PacketNum[config[d].fw] - 1]
    <3>1. done \in SoundRecord /\ done.fw = config[d].fw
      BY <1>2, <2>1, DoneSound, RecordFields
    <3>2. SetError(done, "OK").fw # NoFw
      BY <2>1, <3>1, SetErrorSound
    <3>3. /\ config' = [config EXCEPT ![d] = SetError(done, "OK")]
          /\ pc' = [pc EXCEPT ![d] = "idle"] /\ stopping' = stopping
      BY <2>5, Zenon DEF ReportOnRoot
    <3> HIDE DEF done
    <3>4. QED BY <1>2, <3>2, <3>3, HandlingKept
  <2>6. QED BY <1>6, <2>2, <2>3, <2>4, <2>5 DEF Proceed
<1>7. CASE Stop(d) \/ StopRestores(d) \/ StopErases(d)
  BY <1>2, <1>7, HandlingKept DEF Stop, StopRestores, StopErases, Handling
<1>8. CASE StopMarks(d)
  <2>1. config[d].fw # NoFw
    BY <1>8 DEF StopMarks, Handling
  <2>2. QED BY <1>2, <1>8, <2>1, StopMarksIt, HandlingKept
<1>9. CASE Restart(d)
  BY <1>2, <1>9, HandlingKept DEF Restart
<1>10. CASE Uplink(d)
  BY <1>10 DEF Uplink, Handling
<1>11. QED BY <1>1, <1>3, <1>4, <1>5, <1>6, <1>7, <1>8, <1>9, <1>10
           DEF Moves, StopProceed

LEMMA NextTyped ==
  ASSUME Typed, Handling, SavedNum > MaxPacket, Next
  PROVE  Typed'
  BY NextMoves, StatusTyped, DataTyped, ProceedTyped, StopTyped, RestartTyped,
     DownloadTyped, UplinkTyped, Zenon DEF Moves

(* The handler of a root takes the way of lines 57-71, that of another     *)
(* device the others.                                                      *)
Sided ==
  \A d \in Devices :
    /\ pc[d] \in {"chosen", "flagged"} => d \in RootTypes
    /\ pc[d] \notin {"idle", "chosen", "flagged"} => d \notin RootTypes

(* All that is known of every state.                                       *)
Known == Typed /\ Handling /\ Sided

(* Nothing of a device changes ...                                         *)
Same(x) ==
  /\ config'[x] = config[x] /\ store'[x] = store[x] /\ flash'[x] = flash[x]
  /\ boot'[x] = boot[x] /\ finished'[x] = finished[x] /\ pc'[x] = pc[x]
  /\ next_percentage'[x] = next_percentage[x] /\ stopping'[x] = stopping[x]
  /\ out'[x] = out[x] /\ offer'[x] = offer[x] /\ answered'[x] = answered[x]
  /\ erasedFor'[x] = erasedFor[x] /\ switched'[x] = switched[x]
  /\ excused'[x] = excused[x]

(* ... in a step of another one.                                           *)
LEMMA OthersKept ==
  ASSUME Typed, NEW d \in Devices, NEW x \in Devices \ {d}, Moves(d)
  PROVE  Same(x)
<1>1. /\ config \in [Devices -> SoundRecord] /\ store \in [Devices -> SoundRecord]
      /\ flash \in [Devices -> [Slots -> Firmware \cup {Erased, Mixed}]]
      /\ boot \in [Devices -> Firmware \cup {NoFw}]
      /\ finished \in [Devices -> BOOLEAN]
      /\ next_percentage \in [Devices -> Int]
      /\ pc \in [Devices -> Points]
      /\ stopping \in [Devices -> {"no", "restoring", "marking", "erasing"}]
      /\ excused \in [Devices -> BOOLEAN]
      /\ out \in [Devices -> Seq(SoundRecord)]
      /\ offer \in [Devices -> DOMAIN Campaigns]
      /\ answered \in [Devices -> Nat]
      /\ erasedFor \in [Devices -> Firmware \cup {NoFw}]
      /\ switched \in [Devices -> SUBSET Firmware]
  BY DEF Typed, RecordsSound, OthersTyped
<1>2. ASSUME NEW c \in DOMAIN Campaigns, Status(d, c)
      PROVE  Same(x)
  <2>1. CASE StatusKnown(d, c)
    BY <1>1, <2>1 DEF StatusKnown, Arrives, Answers, Reply, Same
  <2>2. CASE StatusOnRoot(d, c)
    BY <1>1, <2>2 DEF StatusOnRoot, Select, Arrives, Answers, Reply, Same
  <2>3. CASE StatusBegin(d, c)
    BY <1>1, <2>3 DEF StatusBegin, Arrives, Unflag, Same
  <2>4. CASE StatusBeginFails(d, c)
    <3>1. \E v : flash' = [flash EXCEPT ![d] = v]
      BY <2>4, Zenon DEF StatusBeginFails
    <3>2. flash'[x] = flash[x]
      BY <1>1, <3>1
    <3>3. QED
      BY <1>1, <2>4, <3>2
         DEF StatusBeginFails, Arrives, Unflag, Answers, Reply, Same
  <2>5. QED BY <1>2, <2>1, <2>2, <2>3, <2>4 DEF Status
<1>3. ASSUME NEW c \in DOMAIN Campaigns, NEW s \in Slots, Data(d, c, s)
      PROVE  Same(x)
  <2>1. CASE DataStopped(d, c, s)
    BY <1>1, <2>1 DEF DataStopped, PacketArrives, Arrives, Reply, Same
  <2>2. CASE DataIgnored(d, c, s)
    BY <1>1, <2>2 DEF DataIgnored, PacketArrives, Arrives, Same
  <2>3. CASE DataWritten(d, c, s)
    BY <1>1, <2>3 DEF DataWritten, PacketArrives, Arrives, Same
  <2>4. QED BY <1>3, <2>1, <2>2, <2>3 DEF Data
<1>4. ASSUME NEW c \in DOMAIN Campaigns, Download(d, c)
      PROVE  Same(x)
  BY <1>1, <1>4 DEF Download, Same
<1>5. CASE Proceed(d)
  <2>1. CASE FlagOnRoot(d) \/ ReportOnRoot(d) \/ StatusSave(d)
    BY <1>1, <2>1 DEF FlagOnRoot, ReportOnRoot, StatusSave, Answers, Reply, Same
  <2>2. CASE FinishErase(d) \/ FinishBoot(d) \/ FinishBootFails(d)
             \/ FinishFlag(d) \/ FinishReport(d)
    BY <1>1, <2>2 DEF FinishErase, FinishBoot, FinishBootFails, FinishFlag,
       FinishReport, Select, Reply, Same
  <2>3. QED BY <1>5, <2>1, <2>2 DEF Proceed
<1>6. CASE Stop(d) \/ StopProceed(d)
  BY <1>1, <1>6
     DEF Stop, StopProceed, StopRestores, StopMarks, StopErases, Reply, Same
<1>7. CASE Restart(d)
  BY <1>1, <1>7 DEF Restart, Same
<1>8. CASE Uplink(d)
  BY <1>1, <1>8 DEF Uplink, Same
<1>9. QED BY <1>2, <1>3, <1>4, <1>5, <1>6, <1>7, <1>8 DEF Moves

LEMMA SidedStep ==
  ASSUME Typed, Sided, Next
  PROVE  Sided'
<1>1. PICK d \in Devices : Moves(d)
  BY NextMoves
<1>2. pc \in [Devices -> Points]
  BY DEF Typed, OthersTyped
<1>3. ASSUME NEW x \in Devices \ {d} PROVE pc'[x] = pc[x]
  BY <1>1, OthersKept DEF Same
<1>4. \/ pc'[d] \in {pc[d], "idle"}
      \/ d \in RootTypes /\ pc'[d] \in {"chosen", "flagged"}
      \/ d \notin RootTypes /\ pc'[d] \notin {"chosen", "flagged"}
  <2>1. ASSUME NEW c \in DOMAIN Campaigns, Status(d, c)
        PROVE  \/ pc'[d] \in {pc[d], "idle"}
               \/ d \in RootTypes /\ pc'[d] \in {"chosen", "flagged"}
               \/ d \notin RootTypes /\ pc'[d] \notin {"chosen", "flagged"}
    BY <1>2, <2>1
       DEF Status, StatusKnown, StatusOnRoot, StatusBegin, StatusBeginFails
  <2>2. ASSUME NEW c \in DOMAIN Campaigns, NEW s \in Slots, Data(d, c, s)
        PROVE  \/ pc'[d] \in {pc[d], "idle"}
               \/ d \notin RootTypes /\ pc'[d] \notin {"chosen", "flagged"}
    <3>1. CASE DataStopped(d, c, s) \/ DataIgnored(d, c, s)
      BY <3>1 DEF DataStopped, DataIgnored
    <3>2. CASE DataWritten(d, c, s)
      <4>1. d \notin RootTypes /\ \E b \in BOOLEAN :
              pc' = [pc EXCEPT ![d] = IF b THEN "ended" ELSE @]
        BY <3>2, Zenon DEF DataWritten
      <4>2. QED BY <1>2, <4>1
    <3>3. QED BY <2>2, <3>1, <3>2 DEF Data
  <2>3. CASE Proceed(d)
    BY <1>2, <2>3 DEF Proceed, FlagOnRoot, ReportOnRoot, StatusSave,
       FinishErase, FinishBoot, FinishBootFails, FinishFlag, FinishReport, Sided
  <2>4. CASE Stop(d) \/ StopProceed(d) \/ Uplink(d)
    BY <2>4 DEF Stop, StopProceed, StopRestores, StopMarks, StopErases, Uplink
  <2>5. CASE Restart(d)
    BY <1>2, <2>5 DEF Restart
  <2>6. ASSUME NEW c \in DOMAIN Campaigns, Download(d, c)
        PROVE  pc'[d] = pc[d]
    BY <2>6 DEF Download
  <2>7. QED BY <1>1, <2>1, <2>2, <2>3, <2>4, <2>5, <2>6 DEF Moves
<1>5. QED BY <1>3, <1>4 DEF Sided

LEMMA NodeInvariant ==
  ASSUME SavedNum > MaxPacket
  PROVE  Spec => []Known
<1>1. Init => Known
  BY InitTyped DEF Init, Handling, Sided, Known
<1>2. Known /\ [Next]_vars => Known'
  <2>1. CASE Next
    BY <2>1, NextTyped, HandlingStep, SidedStep DEF Known
  <2>2. ASSUME Known, UNCHANGED vars PROVE Known'
    BY <2>2 DEF vars, Known, Typed, RecordsSound, OthersTyped, Handling, Sided
  <2>3. QED BY <2>1, <2>2
<1>3. QED BY <1>1, <1>2, PTL DEF Spec

(* Every variable of the device side keeps its type, the count of packets  *)
(* in a record included: it never passes the packets there is room for by  *)
(* more than one, although seq may be one past the end (lines 166-190).    *)
THEOREM NodeTypes ==
  ASSUME SavedNum > MaxPacket
  PROVE  Spec => []TypeOK
<1>1. Spec => []Known
  BY NodeInvariant
<1>2. Known => Typed
  BY DEF Known
<1>3. QED BY <1>1, <1>2, TypedImplies, PTL

(* The number of packets on record, in RAM and in NVS, is the number of    *)
(* those marked, through every restart, stop and failed write: the test of *)
(* line 215 that ends an upgrade counts no packet twice and none that is   *)
(* missing.                                                                *)
THEOREM RecordsCount ==
  ASSUME SavedNum > MaxPacket
  PROVE  Spec => []WrittenCountsProgress
<1>1. Spec => []Known
  BY NodeInvariant
<1>2. Known => Typed
  BY DEF Known
<1>3. QED BY <1>1, <1>2, TypedImplies, PTL

-----------------------------------------------------------------------------
(***************************************************************************)
(* Flash.  When the root distributes each firmware once and sends packets  *)
(* only to devices that answered (lines 457-475 of mupgrade_root.c with an *)
(* address list), the firmware of the last message is the only one that    *)
(* the partition of a device can be erased for and written with, from the  *)
(* moment the device knows of it.                                          *)
(***************************************************************************)
Distinct ==
  \A b, c \in DOMAIN Campaigns : Campaigns[b] = Campaigns[c] => b = c

Current(d) == Campaigns[offer[d]]

(* f is a firmware of the first o campaigns, or none.                      *)
Offered(o, f) ==
  f = NoFw \/ \E c \in DOMAIN Campaigns : c <= o /\ f = Campaigns[c]

OnlyOffered(d) ==
  /\ Offered(offer[d], erasedFor[d])
  /\ Offered(offer[d], config[d].fw) /\ Offered(offer[d], store[d].fw)
  /\ answered[d] <= offer[d]

(* Who knows of the current firmware has erased the partition for no other *)
(* one since, and has not gone back to an older record.                    *)
ErasedForCurrent(d) ==
  /\ (\/ config[d].fw = Current(d) \/ store[d].fw = Current(d)
      \/ answered[d] = offer[d])
        => erasedFor[d] \in {NoFw, Current(d)}
  /\ (config[d].fw # NoFw /\ store[d].fw = Current(d))
        => config[d].fw = Current(d)
  /\ pc[d] = "begun" => config[d].fw = Current(d)

(* The packets of a record are in these slots, erased for firmware e.      *)
Marked(e, slots, rec) ==
  (rec.fw # NoFw /\ e = rec.fw)
    => \A s \in rec.bits : s \in 0 .. PacketNum[rec.fw] - 1 /\ slots[s] = rec.fw

FlashTraced(d) ==
  /\ erasedFor[d] # NoFw
       => \A s \in Slots : flash[d][s] \in {Erased, erasedFor[d]}
  /\ Marked(erasedFor[d], flash[d], config[d])
  /\ Marked(erasedFor[d], flash[d], store[d])

(* A root has downloaded the whole firmware to the partition.              *)
Downloaded(d) ==
  erasedFor[d] # NoFw => \A s \in Slots : flash[d][s] = erasedFor[d]

DeviceTraced(d) == OnlyOffered(d) /\ ErasedForCurrent(d) /\ FlashTraced(d)

Traced(d) == IF d \in RootTypes THEN Downloaded(d) ELSE DeviceTraced(d)

AllTraced == \A d \in Devices : Traced(d)

(* What is assumed of the system.                                          *)
Setting == Distinct /\ ~Broadcast /\ SavedNum > MaxPacket

(* The values at d, out of the functions.                                  *)
LEMMA Values ==
  ASSUME Known, NEW d \in Devices
  PROVE  /\ config[d] \in SoundRecord /\ store[d] \in SoundRecord
         /\ Loaded(d) \in SoundRecord
         /\ offer[d] \in DOMAIN Campaigns /\ offer[d] \in Nat
         /\ answered[d] \in Nat /\ Current(d) \in Firmware
         /\ Current(d) # NoFw
  BY CampaignsTyped, LoadedSound
     DEF Known, Typed, RecordsSound, OthersTyped, Current

LEMMA OfferedLater ==
  ASSUME NEW o \in Nat, NEW p \in Nat, o <= p, NEW f, Offered(o, f)
  PROVE  Offered(p, f)
  BY CampaignsTyped DEF Offered

(* A firmware that is offered and not older than the current one is it.    *)
LEMMA OfferedIsCurrent ==
  ASSUME Distinct, NEW o \in Nat, NEW c \in DOMAIN Campaigns,
         o <= c, Offered(o, Campaigns[c])
  PROVE  c = o
<1>1. PICK b \in DOMAIN Campaigns : b <= o /\ Campaigns[c] = Campaigns[b]
  BY CampaignsTyped DEF Offered
<1>2. b = c /\ b \in Nat
  BY <1>1, CampaignsTyped DEF Distinct
<1>3. QED BY <1>1, <1>2

LEMMA MarkedTrivially ==
  ASSUME NEW e, NEW slots, NEW rec, rec.bits = {} \/ rec.fw = NoFw \/ rec.fw # e
  PROVE  Marked(e, slots, rec)
  BY DEF Marked

LEMMA MarkedAlike ==
  ASSUME NEW e, NEW slots, NEW rec, NEW new, Marked(e, slots, rec),
         new.fw = rec.fw, new.bits \in {rec.bits, {}}
  PROVE  Marked(e, slots, new)
  BY DEF Marked

LEMMA NothingFields == Nothing.fw = NoFw /\ Nothing.bits = {}
  BY DEF Nothing

(* What holds of both records holds of the one a handler loads.            *)
LEMMA LoadedTraced ==
  ASSUME Known, NEW d \in Devices, DeviceTraced(d)
  PROVE  /\ Offered(offer[d], Loaded(d).fw)
         /\ Marked(erasedFor[d], flash[d], Loaded(d))
         /\ Loaded(d).fw = Current(d) => erasedFor[d] \in {NoFw, Current(d)}
         /\ store[d].fw = Current(d) => Loaded(d).fw = Current(d)
  BY Values DEF Loaded, DeviceTraced, OnlyOffered, ErasedForCurrent, FlashTraced

(***************************************************************************)
(* Steps that keep the firmware, the partition and the selection.          *)
(***************************************************************************)

(* A handler adopts the record it loaded, with all or no progress.         *)
LEMMA AdoptTraced ==
  ASSUME Known, NEW d \in Devices, DeviceTraced(d),
         pc'[d] = "idle",
         offer'[d] = offer[d], erasedFor'[d] = erasedFor[d],
         flash'[d] = flash[d],
         config'[d].fw = Loaded(d).fw,
         config'[d].bits \in {Loaded(d).bits, {}},
         store'[d] \in {store[d], Nothing},
         answered'[d] \in {answered[d], offer[d]},
         answered'[d] = answered[d] \/ Loaded(d).fw = Current(d)
  PROVE  DeviceTraced(d)'
<1>1. OnlyOffered(d)'
  <2>1. Offered(offer'[d], config'[d].fw) /\ Offered(offer'[d], store'[d].fw)
    BY LoadedTraced, NothingFields DEF DeviceTraced, OnlyOffered, Offered
  <2>2. answered'[d] <= offer'[d]
    BY Values DEF DeviceTraced, OnlyOffered
  <2>3. QED BY <2>1, <2>2 DEF DeviceTraced, OnlyOffered
<1>2. ErasedForCurrent(d)'
  BY LoadedTraced, Values, NothingFields
     DEF DeviceTraced, ErasedForCurrent, Current
<1>3. FlashTraced(d)'
  <2>1. Marked(erasedFor'[d], flash'[d], config'[d])
    BY LoadedTraced, MarkedAlike
  <2>2. Marked(erasedFor'[d], flash'[d], store'[d])
    BY NothingFields, MarkedTrivially DEF DeviceTraced, FlashTraced
  <2>3. QED BY <2>1, <2>2 DEF DeviceTraced, FlashTraced
<1>4. QED BY <1>1, <1>2, <1>3 DEF DeviceTraced

(* A handler goes on, or mupgrade_stop() runs: the record keeps its        *)
(* firmware, with all or no progress.                                      *)
LEMMA KeepTraced ==
  ASSUME Known, NEW d \in Devices, DeviceTraced(d),
         pc'[d] = "begun" => pc[d] = "begun",
         offer'[d] = offer[d], erasedFor'[d] = erasedFor[d],
         answered'[d] = answered[d],
         flash'[d] = flash[d],
         config'[d].fw = config[d].fw,
         config'[d].bits \in {config[d].bits, {}},
         store'[d] \in {store[d], Nothing}
  PROVE  DeviceTraced(d)'
<1>1. OnlyOffered(d)'
  BY NothingFields DEF DeviceTraced, OnlyOffered, Offered
<1>2. ErasedForCurrent(d)'
  BY Values, NothingFields DEF DeviceTraced, ErasedForCurrent, Current
<1>3. FlashTraced(d)'
  <2>1. Marked(erasedFor'[d], flash'[d], config'[d])
    BY MarkedAlike DEF DeviceTraced, FlashTraced
  <2>2. Marked(erasedFor'[d], flash'[d], store'[d])
    BY NothingFields, MarkedTrivially DEF DeviceTraced, FlashTraced
  <2>3. QED BY <2>1, <2>2 DEF DeviceTraced, FlashTraced
<1>4. QED BY <1>1, <1>2, <1>3 DEF DeviceTraced

(***************************************************************************)
(* Steps that change the partition or the selection.                       *)
(***************************************************************************)

(* A new firmware: the partition is erased for it, or for nothing.         *)
LEMMA BeginTraced ==
  ASSUME Known, Setting, NEW d \in Devices, NEW c \in DOMAIN Campaigns,
         DeviceTraced(d), c >= offer[d], Loaded(d).fw # Campaigns[c],
         offer'[d] = c, config'[d].fw = Campaigns[c], config'[d].bits = {},
         store'[d] = store[d], answered'[d] \in {answered[d], c},
         \/ pc'[d] = "begun" /\ flash'[d] = AllSlots(Erased)
              /\ erasedFor'[d] = Campaigns[c]
         \/ pc'[d] = "idle" /\ erasedFor'[d] = NoFw
  PROVE  DeviceTraced(d)'
<1>1. c \in Nat /\ offer[d] \in Nat /\ offer[d] <= c
      /\ Campaigns[c] \in Firmware /\ Campaigns[c] # NoFw
  BY Values, CampaignsTyped
<1>2. OnlyOffered(d)'
  <2>1. /\ Offered(c, store[d].fw)
        /\ Offered(c, Campaigns[c]) /\ Offered(c, NoFw)
    <3>1. Offered(offer[d], store[d].fw)
      BY DEF DeviceTraced, OnlyOffered
    <3>2. Offered(c, store[d].fw)
      BY <1>1, <3>1, OfferedLater
    <3>3. Offered(c, Campaigns[c]) /\ Offered(c, NoFw)
      BY <1>1 DEF Offered
    <3>4. QED BY <3>2, <3>3
  <2>2. answered'[d] <= c
    BY <1>1, Values DEF DeviceTraced, OnlyOffered
  <2>3. QED BY <2>1, <2>2 DEF OnlyOffered
<1>3. store[d].fw # Campaigns[c] \/ Loaded(d).fw = Campaigns[c]
  BY <1>1, OfferedIsCurrent, LoadedTraced
     DEF Setting, Current, DeviceTraced, OnlyOffered
<1>4. ErasedForCurrent(d)'
  BY <1>1, <1>3 DEF ErasedForCurrent, Current
<1>5. FlashTraced(d)'
  <2>1. /\ Marked(erasedFor'[d], flash'[d], config'[d])
        /\ Marked(erasedFor'[d], flash'[d], store'[d])
    BY <1>3, MarkedTrivially
  <2>2. erasedFor'[d] # NoFw => \A s \in Slots : flash'[d][s] = Erased
    BY <1>1 DEF AllSlots
  <2>3. QED BY <1>1, <2>1, <2>2 DEF FlashTraced
<1>6. QED BY <1>2, <1>4, <1>5 DEF DeviceTraced

(* The new record is saved, or that fails.                                 *)
LEMMA SaveTraced ==
  ASSUME Known, NEW d \in Devices, DeviceTraced(d), pc[d] = "begun",
         pc'[d] = "idle", offer'[d] = offer[d], erasedFor'[d] = erasedFor[d],
         flash'[d] = flash[d],
         config'[d].fw = config[d].fw, config'[d].bits = config[d].bits,
         store'[d] \in {store[d], config[d]}, answered'[d] = offer[d]
  PROVE  DeviceTraced(d)'
<1>1. OnlyOffered(d)'
  BY Values DEF DeviceTraced, OnlyOffered
<1>2. ErasedForCurrent(d)'
  BY Values DEF DeviceTraced, ErasedForCurrent, Current
<1>3. FlashTraced(d)'
  BY MarkedAlike DEF DeviceTraced, FlashTraced
<1>4. QED BY <1>1, <1>2, <1>3 DEF DeviceTraced

(* A packet is programmed and marked.                                      *)
LEMMA WriteTraced ==
  ASSUME Known, NEW d \in Devices, DeviceTraced(d), NEW rec \in SoundRecord,
         NEW s \in Slots, Accepts(Loaded(d), s),
         s \in 0 .. PacketNum[Current(d)] - 1,
         answered[d] = offer[d], answered'[d] = answered[d],
         offer'[d] = offer[d], erasedFor'[d] = erasedFor[d],
         config'[d] = rec, store'[d] \in {store[d], rec},
         rec.fw = Loaded(d).fw, rec.bits = Loaded(d).bits \cup {s},
         rec.written = Cardinality(rec.bits),
         flash'[d] = [flash[d] EXCEPT ![s] = Program(@, Current(d))],
         pc'[d] = IF rec.written = PacketNum[rec.fw] THEN "ended" ELSE "idle"
  PROVE  DeviceTraced(d)'
<1>1. erasedFor[d] \in {NoFw, Current(d)}
  BY DEF DeviceTraced, ErasedForCurrent
<1>2. flash[d] \in [Slots -> Firmware \cup {Erased, Mixed}]
  BY DEF Known, Typed, OthersTyped
<1>3. OnlyOffered(d)'
  BY LoadedTraced DEF DeviceTraced, OnlyOffered
<1>4. ErasedForCurrent(d)'
  BY LoadedTraced, Values DEF DeviceTraced, ErasedForCurrent, Current
<1>5. FlashTraced(d)'
  <2>1. CASE erasedFor[d] = NoFw
    BY <2>1, MarkedTrivially, Values DEF FlashTraced, Accepts
  <2>2. CASE erasedFor[d] = Current(d)
    <3>1. Current(d) \in Firmware /\ Current(d) # NoFw
          /\ Current(d) \notin {Erased, Mixed}
      BY Values, CampaignsTyped
    <3>2. flash[d][s] \in {Erased, Current(d)}
      BY <2>2, <3>1 DEF DeviceTraced, FlashTraced
    <3>3. flash'[d] = [flash[d] EXCEPT ![s] = Current(d)]
      BY <1>2, <3>2 DEF Program
    <3>4. /\ flash'[d][s] = Current(d)
          /\ \A x \in Slots :
               /\ flash'[d][x] \in {Erased, erasedFor[d]}
               /\ flash[d][x] = Current(d) => flash'[d][x] = Current(d)
      BY <1>2, <2>2, <3>1, <3>3 DEF DeviceTraced, FlashTraced
    <3>5. ASSUME NEW r \in SoundRecord, Marked(erasedFor[d], flash[d], r)
          PROVE  Marked(erasedFor[d], flash'[d], r)
      BY <2>2, <3>4, <3>5, RecordFields DEF Marked
    <3>6. Marked(erasedFor[d], flash'[d], Loaded(d))
          /\ Marked(erasedFor[d], flash'[d], store[d])
      BY <3>5, Values, LoadedTraced DEF DeviceTraced, FlashTraced
    <3>7. Marked(erasedFor[d], flash'[d], rec)
      BY <2>2, <3>4, <3>6 DEF Marked
    <3>8. QED BY <3>4, <3>6, <3>7 DEF FlashTraced
  <2>3. QED BY <1>1, <2>1, <2>2
<1>6. QED BY <1>3, <1>4, <1>5 DEF DeviceTraced

(* A restart forgets the record in RAM, and may change the partition.      *)
LEMMA RestartTraced ==
  ASSUME Known, NEW d \in Devices, DeviceTraced(d),
         pc'[d] = "idle", config'[d] = Nothing,
         store'[d] = store[d], offer'[d] = offer[d], answered'[d] = answered[d],
         \/ erasedFor'[d] = erasedFor[d] /\ flash'[d] = flash[d]
         \/ erasedFor'[d] = NoFw
  PROVE  DeviceTraced(d)'
<1>1. OnlyOffered(d)'
  BY NothingFields DEF DeviceTraced, OnlyOffered, Offered
<1>2. ErasedForCurrent(d)'
  BY Values, NothingFields DEF DeviceTraced, ErasedForCurrent, Current
<1>3. FlashTraced(d)'
  BY MarkedTrivially, NothingFields DEF DeviceTraced, FlashTraced, Marked
<1>4. QED BY <1>1, <1>2, <1>3 DEF DeviceTraced

(***************************************************************************)
(* Every step.                                                             *)
(***************************************************************************)
LEMMA StatusTraced ==
  ASSUME Known, Setting, NEW d \in Devices, DeviceTraced(d), d \notin RootTypes,
         NEW c \in DOMAIN Campaigns, Status(d, c)
  PROVE  DeviceTraced(d)'
<1>1. Loaded(d) \in SoundRecord /\ Fresh(Loaded(d), Campaigns[c]) \in SoundRecord
      /\ Fresh(Loaded(d), Campaigns[c]).fw = Campaigns[c]
      /\ Fresh(Loaded(d), Campaigns[c]).bits = {}
  BY Values, CampaignsTyped, FreshSound
<1>2. CASE StatusKnown(d, c)
  <2> DEFINE rec == SetError(Loaded(d), "OK")
  <2>1. rec.fw = Loaded(d).fw /\ rec.bits = Loaded(d).bits
    BY <1>1, SetErrorSound
  <2>2. c = offer[d]
    BY <1>2, Values, LoadedTraced, OfferedIsCurrent
       DEF StatusKnown, Arrives, Setting
  <2>3. /\ config' = [config EXCEPT ![d] = rec]
        /\ answered' = [answered EXCEPT ![d] = c]
        /\ offer' = [offer EXCEPT ![d] = c]
        /\ pc[d] = "idle" /\ Loaded(d).fw = Campaigns[c]
        /\ UNCHANGED <<store, flash, pc, erasedFor>>
    BY <1>2, Zenon DEF StatusKnown, Arrives, Answers
  <2> HIDE DEF rec
  <2>4. /\ config'[d] = rec /\ answered'[d] = c /\ offer'[d] = c
    BY <2>3 DEF Known, Typed, RecordsSound, OthersTyped
  <2>5. QED BY <2>1, <2>2, <2>3, <2>4, AdoptTraced DEF Current
<1>3. CASE StatusBegin(d, c)
  <2>1. /\ config'[d] = Fresh(Loaded(d), Campaigns[c])
        /\ offer'[d] = c /\ pc'[d] = "begun"
        /\ flash'[d] = AllSlots(Erased) /\ erasedFor'[d] = Campaigns[c]
        /\ store'[d] = store[d] /\ answered'[d] = answered[d]
        /\ c >= offer[d] /\ Loaded(d).fw # Campaigns[c]
    BY <1>3 DEF StatusBegin, Arrives, Known, Typed, RecordsSound, OthersTyped
  <2>2. QED BY <1>1, <2>1, BeginTraced
<1>4. CASE StatusBeginFails(d, c)
  <2> DEFINE rec == SetError(Fresh(Loaded(d), Campaigns[c]), "FAIL")
  <2>1. rec.fw = Campaigns[c] /\ rec.bits = {}
    BY <1>1, SetErrorSound
  <2>2. /\ config' = [config EXCEPT ![d] = rec]
        /\ answered' = [answered EXCEPT ![d] = c]
        /\ offer' = [offer EXCEPT ![d] = c]
        /\ erasedFor' = [erasedFor EXCEPT ![d] = NoFw]
        /\ pc[d] = "idle" /\ c >= offer[d] /\ Loaded(d).fw # Campaigns[c]
        /\ UNCHANGED <<store, pc>>
    BY <1>4, Zenon DEF StatusBeginFails, Arrives, Answers
  <2> HIDE DEF rec
  <2>3. /\ config'[d] = rec /\ answered'[d] = c /\ offer'[d] = c
        /\ erasedFor'[d] = NoFw
    BY <2>2 DEF Known, Typed, RecordsSound, OthersTyped
  <2>4. QED BY <2>1, <2>2, <2>3, BeginTraced
<1>5. QED BY <1>2, <1>3, <1>4 DEF Status, StatusOnRoot, StatusKnown

LEMMA DataTraced ==
  ASSUME Known, Setting, NEW d \in Devices, DeviceTraced(d),
         NEW c \in DOMAIN Campaigns, NEW s \in Slots, Data(d, c, s)
  PROVE  DeviceTraced(d)'
<1>1. /\ c = offer[d] /\ c = answered[d] /\ pc[d] = "idle"
      /\ s \in 0 .. PacketNum[Campaigns[c]] - 1
      /\ offer' = [offer EXCEPT ![d] = c]
  BY DEF Data, DataStopped, DataIgnored, DataWritten, PacketArrives, Arrives,
     Setting
<1>2. offer'[d] = offer[d] /\ Loaded(d) \in SoundRecord
  BY <1>1, Values DEF Known, Typed, OthersTyped
<1>3. CASE DataStopped(d, c, s)
  <2> DEFINE rec == [Loaded(d) EXCEPT !.written = 0, !.bits = {}]
  <2>1. rec.fw = Loaded(d).fw /\ rec.bits = {}
    BY <1>2, StoppedSound
  <2>2. /\ config' = [config EXCEPT ![d] = rec]
        /\ store' \in {store, [store EXCEPT ![d] = Nothing]}
        /\ UNCHANGED <<flash, pc, answered, erasedFor>>
    BY <1>3, Zenon DEF DataStopped
  <2> HIDE DEF rec
  <2>3. config'[d] = rec /\ store'[d] \in {store[d], Nothing}
    BY <2>2 DEF Known, Typed, RecordsSound
  <2>4. QED BY <1>1, <1>2, <2>1, <2>2, <2>3, AdoptTraced
<1>4. CASE DataIgnored(d, c, s)
  <2>1. config'[d] = Loaded(d)
        /\ UNCHANGED <<store, flash, pc, answered, erasedFor>>
    BY <1>4 DEF DataIgnored, Known, Typed, RecordsSound
  <2>2. QED BY <1>1, <1>2, <2>1, AdoptTraced
<1>5. CASE DataWritten(d, c, s)
  <2> DEFINE rec == [Loaded(d) EXCEPT !.bits = @ \cup {s}, !.written = @ + 1]
  <2>1. Accepts(Loaded(d), s)
    BY <1>5, Zenon DEF DataWritten
  <2>2. /\ rec \in SoundRecord /\ rec.fw = Loaded(d).fw
        /\ rec.bits = Loaded(d).bits \cup {s}
        /\ rec.written = Cardinality(rec.bits)
    BY <1>2, <2>1, WrittenSound
  <2>3. /\ config' = [config EXCEPT ![d] = rec]
        /\ UNCHANGED store \/ store' = [store EXCEPT ![d] = Saved(rec)]
        /\ flash' = [flash EXCEPT ![d][s] = Program(@, Campaigns[c])]
        /\ pc' = [pc EXCEPT ![d] =
                    IF rec.written = PacketNum[rec.fw] THEN "ended" ELSE @]
        /\ UNCHANGED <<answered, erasedFor>>
    BY <1>5, Zenon DEF DataWritten
  <2> HIDE DEF rec
  <2>4. Saved(rec) = rec
    BY <2>2, SavedSound DEF Setting
  <2>5. /\ config'[d] = rec /\ store'[d] \in {store[d], rec}
        /\ pc'[d] = IF rec.written = PacketNum[rec.fw] THEN "ended" ELSE "idle"
    BY <1>1, <2>3, <2>4 DEF Known, Typed, RecordsSound, OthersTyped
  <2>6. flash'[d] = [flash[d] EXCEPT ![s] = Program(@, Current(d))]
    BY <1>1, <2>3 DEF Known, Typed, OthersTyped, Current
  <2>7. s \in 0 .. PacketNum[Current(d)] - 1
    BY <1>1 DEF Current
  <2>8. QED BY <1>1, <1>2, <2>1, <2>2, <2>3, <2>5, <2>6, <2>7, WriteTraced
<1>6. QED BY <1>3, <1>4, <1>5 DEF Data

LEMMA ProceedTraced ==
  ASSUME Known, Setting, NEW d \in Devices, DeviceTraced(d), d \notin RootTypes,
         Proceed(d)
  PROVE  DeviceTraced(d)'
<1>1. config[d] \in SoundRecord
  BY Values
<1>2. CASE StatusSave(d)
  <2>1. PICK e \in {"OK", "FAIL"} :
          /\ store' = [store EXCEPT ![d] =
                         IF e = "OK" THEN Saved(config[d]) ELSE @]
          /\ config' = [config EXCEPT ![d] = SetError(config[d], e)]
          /\ answered' = [answered EXCEPT ![d] = offer[d]]
    BY <1>2, Zenon DEF StatusSave, Answers
  <2>2. /\ SetError(config[d], e).fw = config[d].fw
        /\ SetError(config[d], e).bits = config[d].bits
        /\ Saved(config[d]) = config[d]
    BY <1>1, SetErrorSound, SavedSound DEF Setting
  <2>3. /\ config'[d] = SetError(config[d], e) /\ answered'[d] = offer[d]
        /\ store'[d] \in {store[d], config[d]}
    BY <2>1, <2>2 DEF Known, Typed, RecordsSound, OthersTyped
  <2>4. /\ pc[d] = "begun" /\ pc'[d] = "idle"
        /\ UNCHANGED <<flash, offer, erasedFor>>
    BY <1>2 DEF StatusSave, Known, Typed, OthersTyped
  <2>5. QED BY <2>2, <2>3, <2>4, SaveTraced
<1>3. CASE FinishErase(d)
  <2>1. /\ pc'[d] = "erased" /\ store'[d] \in {store[d], Nothing}
        /\ UNCHANGED <<config, flash, offer, answered, erasedFor>>
    BY <1>3 DEF FinishErase, Known, Typed, RecordsSound, OthersTyped
  <2>2. QED BY <2>1, KeepTraced
<1>4. CASE FinishBoot(d) \/ FinishFlag(d) \/ FinishReport(d)
  <2>1. /\ pc'[d] # "begun"
        /\ UNCHANGED <<config, store, flash, offer, answered, erasedFor>>
    BY <1>4 DEF FinishBoot, FinishFlag, FinishReport, Known, Typed, OthersTyped
  <2>2. QED BY <2>1, KeepTraced
<1>5. CASE FinishBootFails(d)
  <2>1. /\ config'[d].fw = config[d].fw /\ config'[d].bits = config[d].bits
        /\ pc'[d] = "idle"
        /\ UNCHANGED <<store, flash, offer, answered, erasedFor>>
    BY <1>1, <1>5
       DEF FinishBootFails, Known, Typed, RecordsSound, OthersTyped,
           SoundRecord, Record
  <2>2. QED BY <2>1, KeepTraced
<1>6. ~FlagOnRoot(d) /\ ~ReportOnRoot(d)
  <2>1. pc[d] \notin {"chosen", "flagged"}
    BY DEF Known, Sided
  <2>2. QED BY <2>1, Zenon DEF FlagOnRoot, ReportOnRoot
<1>7. QED BY <1>2, <1>3, <1>4, <1>5, <1>6 DEF Proceed

LEMMA OutsideTraced ==
  ASSUME Known, NEW d \in Devices, DeviceTraced(d),
         Stop(d) \/ StopProceed(d) \/ Restart(d) \/ Uplink(d)
  PROVE  DeviceTraced(d)'
<1>1. CASE Stop(d) \/ StopRestores(d)
  BY <1>1, KeepTraced DEF Stop, StopRestores
<1>2. CASE StopMarks(d)
  <2>1. /\ config'[d] = Stopped(d) /\ Stopped(d).fw = config[d].fw
        /\ Stopped(d).bits = {}
        /\ UNCHANGED <<store, flash, pc, offer, answered, erasedFor>>
    BY <1>2, StopMarksIt DEF Known, Typed, RecordsSound
  <2>2. QED BY <2>1, KeepTraced
<1>3. CASE StopErases(d)
  <2>1. /\ store'[d] \in {store[d], Nothing}
        /\ UNCHANGED <<config, flash, pc, offer, answered, erasedFor>>
    BY <1>3 DEF StopErases, Known, Typed, RecordsSound
  <2>2. QED BY <2>1, KeepTraced
<1>4. CASE Restart(d)
  <2>1. /\ pc'[d] = "idle" /\ config'[d] = Nothing
        /\ UNCHANGED <<store, offer, answered>>
    BY <1>4 DEF Restart, Known, Typed, RecordsSound, OthersTyped
  <2>2. UNCHANGED <<erasedFor, flash>> \/ erasedFor'[d] = NoFw
    BY <1>4 DEF Restart, Known, Typed, OthersTyped
  <2>3. QED BY <2>1, <2>2, RestartTraced
<1>5. CASE Uplink(d)
  BY <1>5, KeepTraced DEF Uplink
<1>6. QED BY <1>1, <1>2, <1>3, <1>4, <1>5 DEF StopProceed

(* A root erases its partition only to download the whole firmware.        *)
LEMMA RootTraced ==
  ASSUME Known, NEW d \in RootTypes, Downloaded(d),
         Moves(d)
  PROVE  Downloaded(d)'
<1>1. d \in Devices /\ erasedFor \in [Devices -> Firmware \cup {NoFw}]
      /\ flash \in [Devices -> [Slots -> Firmware \cup {Erased, Mixed}]]
  BY ConstantsAssumption DEF ConstantsAssumption, Known, Typed, OthersTyped
<1>2. ASSUME NEW c \in DOMAIN Campaigns, Download(d, c)
      PROVE  Downloaded(d)'
  BY <1>1, <1>2 DEF Download, AllSlots, Downloaded
<1>3. CASE Restart(d)
  BY <1>1, <1>3 DEF Restart, Downloaded
<1>4. ASSUME UNCHANGED <<flash, erasedFor>>
      PROVE  Downloaded(d)'
  BY <1>4 DEF Downloaded
<1>5. ASSUME NEW c \in DOMAIN Campaigns, Status(d, c)
      PROVE  UNCHANGED <<flash, erasedFor>>
  BY <1>5, Zenon
     DEF Status, StatusKnown, StatusOnRoot, StatusBegin, StatusBeginFails
<1>6. ASSUME NEW c \in DOMAIN Campaigns, NEW s \in Slots, Data(d, c, s)
      PROVE  UNCHANGED <<flash, erasedFor>>
  BY <1>6, Zenon DEF Data, DataStopped, DataIgnored, DataWritten
<1>7. Proceed(d) \/ Stop(d) \/ StopProceed(d) \/ Uplink(d)
        => UNCHANGED <<flash, erasedFor>>
  BY Zenon DEF Proceed, FlagOnRoot, ReportOnRoot, StatusSave, FinishErase,
     FinishBoot, FinishBootFails, FinishFlag, FinishReport, Stop, StopProceed,
     StopRestores, StopMarks, StopErases, Uplink
<1>8. QED BY <1>2, <1>3, <1>4, <1>5, <1>6, <1>7 DEF Moves

(* A step of one device leaves the others as they are.                     *)
LEMMA FrameTraced ==
  ASSUME NEW x \in Devices, Traced(x), Same(x)
  PROVE  Traced(x)'
  BY DEF Traced, Downloaded, DeviceTraced, OnlyOffered, ErasedForCurrent,
     FlashTraced, Current, Same

LEMMA InitTraced == Init => AllTraced
<1> SUFFICES ASSUME Init, NEW d \in Devices PROVE Traced(d)
  BY DEF AllTraced
<1>1. /\ config[d] = Nothing /\ store[d] = Nothing /\ erasedFor[d] = NoFw
      /\ pc[d] = "idle" /\ offer[d] = 1 /\ answered[d] = 0
  BY DEF Init
<1>2. Current(d) # NoFw
  BY <1>1, CampaignsTyped DEF Current
<1>3. QED
  BY <1>1, <1>2, NothingFields
     DEF Traced, Downloaded, DeviceTraced, OnlyOffered, Offered,
         ErasedForCurrent, FlashTraced, Marked

LEMMA NextTraced ==
  ASSUME Known, Setting, AllTraced, Next
  PROVE  AllTraced'
<1>1. PICK d \in Devices : Moves(d)
  BY NextMoves
<1>2. ASSUME NEW x \in Devices \ {d} PROVE Traced(x)'
  BY <1>1, OthersKept, FrameTraced DEF AllTraced, Known
<1>3. Traced(d)'
  <2>1. CASE d \in RootTypes
    BY <1>1, <2>1, RootTraced DEF AllTraced, Traced
  <2>2. CASE d \notin RootTypes
    <3>1. DeviceTraced(d)
      BY <2>2 DEF AllTraced, Traced
    <3>2. \A c \in DOMAIN Campaigns : ~Download(d, c)
      BY <2>2 DEF Download
    <3>3. DeviceTraced(d)'
      BY <1>1, <2>2, <3>1, <3>2, StatusTraced, DataTraced, ProceedTraced,
         OutsideTraced DEF Moves
    <3>4. QED BY <2>2, <3>3 DEF Traced
  <2>3. QED BY <2>1, <2>2
<1>4. QED BY <1>2, <1>3 DEF AllTraced

(* What is traced is what the properties ask for.                          *)
LEMMA TracedImplies ==
  ASSUME Known, AllTraced
  PROVE  ProgressOnFlash
<1>1. ASSUME NEW d \in Devices
      PROVE  OnFlash(d, config[d]) /\ OnFlash(d, store[d])
  <2>1. CASE d \in RootTypes
    <3>1. erasedFor[d] # NoFw => \A s \in Slots : flash[d][s] = erasedFor[d]
      BY <2>1 DEF AllTraced, Traced, Downloaded
    <3>2. config[d].bits \subseteq Slots /\ store[d].bits \subseteq Slots
      BY Values, RecordFields
    <3>3. QED BY <3>1, <3>2 DEF OnFlash
  <2>2. CASE d \notin RootTypes
    BY <2>2 DEF AllTraced, Traced, DeviceTraced, FlashTraced, Marked, OnFlash
  <2>3. QED BY <2>1, <2>2
<1>2. QED BY <1>1 DEF ProgressOnFlash

LEMMA FlashInvariant ==
  ASSUME Distinct, ~Broadcast, SavedNum > MaxPacket
  PROVE  Spec => [](Known /\ AllTraced)
<1>1. Setting
  BY DEF Setting
<1>2. Init => Known /\ AllTraced
  BY InitTyped, InitTraced DEF Init, Handling, Sided, Known
<1>3. Known /\ AllTraced /\ [Next]_vars => (Known /\ AllTraced)'
  <2>1. ASSUME Known, AllTraced, Next
        PROVE  Known' /\ AllTraced'
    BY <1>1, <2>1, NextTyped, HandlingStep, SidedStep, NextTraced
       DEF Known, Setting
  <2>2. ASSUME Known, AllTraced, UNCHANGED vars
        PROVE  Known' /\ AllTraced'
    <3>1. Known'
      BY <2>2 DEF vars, Known, Typed, RecordsSound, OthersTyped, Handling,
         Sided
    <3>2. AllTraced'
      BY <2>2, FrameTraced DEF vars, AllTraced, Same
    <3>3. QED BY <3>1, <3>2
  <2>3. QED BY <2>1, <2>2
<1>4. QED BY <1>2, <1>3, PTL DEF Spec

(* When no firmware is distributed twice and packets go only to devices    *)
(* that answered, a packet that the record in RAM or in NVS marks is in    *)
(* flash, whatever is lost, repeated, restarted or stopped.                *)
THEOREM FlashHoldsProgress ==
  ASSUME Distinct, ~Broadcast, SavedNum > MaxPacket
  PROVE  Spec => []ProgressOnFlash
<1>1. Spec => [](Known /\ AllTraced)
  BY FlashInvariant
<1>2. QED BY <1>1, TracedImplies, PTL

-----------------------------------------------------------------------------
-----------------------------------------------------------------------------
(***************************************************************************)
(* A device that was stopped.  mupgrade_stop() runs beside the handler, so *)
(* the invariant follows the selection through both: who has selected the  *)
(* partition has set the flag, or is about to, or is excused; a stop that  *)
(* goes on to mark the record leaves nothing selected; and a handler that  *)
(* holds the last packet has not set the flag.                             *)
(***************************************************************************)
Stoppable(d) ==
  /\ config[d].fw = NoFw => boot[d] = NoFw /\ ~finished[d]
  /\ boot[d] # NoFw
       => excused[d] \/ finished[d] \/ pc[d] \in {"chosen", "booted"}
  /\ stopping[d] = "marking" => excused[d] \/ boot[d] = NoFw
  /\ config[d].err = "STOP"
       => excused[d] \/ (boot[d] = NoFw /\ pc[d] \notin {"ended", "erased"})
  /\ pc[d] \in {"ended", "erased"}
       => ~finished[d] /\ (stopping[d] = "restoring" => config[d].err # "STOP")
  /\ (pc[d] \in {"ended", "erased", "booted"} /\ config[d].err # "STOP")
       => config[d].written = PacketNum[config[d].fw]
  /\ (d \notin RootTypes /\ finished[d] /\ config[d].err # "STOP")
       => config[d].written >= PacketNum[config[d].fw]

AllStoppable == \A d \in Devices : Stoppable(d)

(* The values at d, and what becomes of a record's error and count.        *)
LEMMA StopValues ==
  ASSUME Known, NEW d \in Devices
  PROVE  /\ config[d] \in SoundRecord /\ Loaded(d) \in SoundRecord
         /\ \A f \in Firmware : PacketNum[f] \in Nat \ {0}
         /\ \A rec \in SoundRecord : rec.written \in Nat
         /\ Nothing.err = "OK" /\ Nothing.fw = NoFw
         /\ pc[d] # "idle" \/ stopping[d] # "no"
              => config[d].fw # NoFw /\ Loaded(d) = config[d]
         /\ config[d].fw # NoFw => Loaded(d) = config[d]
<1>1. \A rec \in SoundRecord : rec.written \in Nat
  BY RecordFields
<1>2. \A f \in Firmware : PacketNum[f] \in Nat \ {0}
  BY CampaignsTyped
<1>3. QED
  BY <1>1, <1>2, Values DEF Known, Handling, Loaded, Nothing

LEMMA ErrorsSet ==
  ASSUME NEW rec \in SoundRecord, NEW e \in {"OK", "FAIL"}
  PROVE  /\ SetError(rec, e).err = "STOP" <=> rec.err = "STOP"
         /\ SetError(rec, e).fw = rec.fw /\ SetError(rec, e).written = rec.written
  BY DEF SetError, SoundRecord, Record

LEMMA FreshIsNotStopped ==
  ASSUME NEW rec \in SoundRecord, NEW f \in Firmware
  PROVE  /\ Fresh(rec, f) \in SoundRecord /\ Fresh(rec, f).fw = f
         /\ Fresh(rec, f).err = "FINISH"
         /\ SetError(Fresh(rec, f), "FAIL").fw = f
         /\ SetError(Fresh(rec, f), "FAIL").err = "FAIL"
<1>1. Fresh(rec, f) \in SoundRecord /\ Fresh(rec, f).fw = f
  BY FreshSound
<1>2. Fresh(rec, f).err = "FINISH"
  BY DEF Fresh, SoundRecord, Record
<1>3. QED BY <1>1, <1>2 DEF SetError, SoundRecord, Record

LEMMA StatusStoppable ==
  ASSUME Known, NEW d \in Devices, Stoppable(d),
         NEW c \in DOMAIN Campaigns, Status(d, c)
  PROVE  Stoppable(d)'
<1>1. /\ Campaigns[c] \in Firmware /\ Campaigns[c] # NoFw
      /\ Loaded(d) \in SoundRecord
  BY StopValues, CampaignsTyped
<1> DEFINE rec == Fresh(Loaded(d), Campaigns[c])
<1>2. /\ rec.fw = Campaigns[c] /\ rec.err = "FINISH"
      /\ SetError(rec, "FAIL").fw = Campaigns[c]
      /\ SetError(rec, "FAIL").err = "FAIL"
  BY <1>1, FreshIsNotStopped
<1>3. CASE StatusKnown(d, c)
  <2>1. /\ config' = [config EXCEPT ![d] = SetError(Loaded(d), "OK")]
        /\ pc[d] = "idle" /\ Loaded(d).fw = Campaigns[c]
        /\ UNCHANGED <<boot, finished, pc, stopping, excused>>
    BY <1>3, Zenon DEF StatusKnown, Arrives
  <2>2. /\ config'[d].fw = Loaded(d).fw
        /\ config'[d].err = "STOP" <=> Loaded(d).err = "STOP"
        /\ config'[d].written = Loaded(d).written
    BY <1>1, <2>1, ErrorsSet DEF Known, Typed, RecordsSound
  <2>3. QED BY <1>1, <2>1, <2>2, StopValues DEF Stoppable
<1>4. CASE StatusOnRoot(d, c)
  <2>1. /\ d \in RootTypes /\ pc[d] = "idle"
        /\ UNCHANGED <<finished, stopping>>
        /\ \/ Select(d, Campaigns[c]) /\ config' = [config EXCEPT ![d] = rec]
                /\ pc' = [pc EXCEPT ![d] = "chosen"]
           \/ config' = [config EXCEPT ![d] = SetError(rec, "FAIL")]
                /\ UNCHANGED <<boot, excused, pc>>
    BY <1>4, Zenon DEF StatusOnRoot, Arrives
  <2> HIDE DEF rec
  <2>2. \/ /\ config'[d].fw = Campaigns[c] /\ config'[d].err = "FINISH"
           /\ pc'[d] = "chosen"
           /\ excused'[d] = (excused[d] \/ stopping[d] = "marking")
        \/ /\ config'[d].fw = Campaigns[c] /\ config'[d].err = "FAIL"
           /\ UNCHANGED <<boot, excused, pc>>
    BY <1>2, <2>1 DEF Select, Known, Typed, RecordsSound, OthersTyped
  <2>3. QED BY <1>1, <2>1, <2>2 DEF Stoppable
<1>5. CASE StatusBegin(d, c) \/ StatusBeginFails(d, c)
  <2>1. /\ d \notin RootTypes /\ pc[d] = "idle" /\ Unflag(d)
        /\ UNCHANGED <<boot, stopping>>
        /\ \/ config' = [config EXCEPT ![d] = rec]
                /\ pc' = [pc EXCEPT ![d] = "begun"]
           \/ config' = [config EXCEPT ![d] = SetError(rec, "FAIL")]
                /\ UNCHANGED pc
    BY <1>5, Zenon DEF StatusBegin, StatusBeginFails, Arrives
  <2> HIDE DEF rec
  <2>2. /\ config'[d].fw = Campaigns[c] /\ config'[d].err # "STOP"
        /\ pc'[d] \in {"idle", "begun"} /\ ~finished'[d]
        /\ excused'[d] = (boot[d] # NoFw \/ (excused[d] /\ stopping[d] # "no"))
    BY <1>2, <2>1 DEF Unflag, Known, Typed, RecordsSound, OthersTyped
  <2>3. QED BY <1>1, <2>1, <2>2 DEF Stoppable
<1>6. QED BY <1>3, <1>4, <1>5 DEF Status

LEMMA DataStoppable ==
  ASSUME Known, NEW d \in Devices, Stoppable(d),
         NEW c \in DOMAIN Campaigns, NEW s \in Slots, Data(d, c, s)
  PROVE  Stoppable(d)'
<1>1. pc[d] = "idle" /\ UNCHANGED <<boot, finished, stopping, excused>>
  BY Zenon DEF Data, DataStopped, DataIgnored, DataWritten, PacketArrives,
     Arrives
<1>2. Loaded(d) \in SoundRecord
  BY StopValues
<1>3. CASE DataStopped(d, c, s)
  <2> DEFINE rec == [Loaded(d) EXCEPT !.written = 0, !.bits = {}]
  <2>1. /\ config' = [config EXCEPT ![d] = rec] /\ pc' = pc
        /\ Loaded(d).fw # NoFw /\ Loaded(d).err = "STOP"
    BY <1>3, Zenon DEF DataStopped
  <2>2. rec.fw = Loaded(d).fw /\ rec.err = Loaded(d).err
    BY <1>2 DEF SoundRecord, Record
  <2> HIDE DEF rec
  <2>3. config'[d] = rec
    BY <2>1 DEF Known, Typed, RecordsSound
  <2>4. QED BY <1>1, <2>1, <2>2, <2>3, StopValues DEF Stoppable
<1>4. CASE DataIgnored(d, c, s)
  <2>1. config'[d] = Loaded(d) /\ pc' = pc /\ Loaded(d).err # "STOP"
    BY <1>4 DEF DataIgnored, Known, Typed, RecordsSound
  <2>2. QED BY <1>1, <2>1, StopValues DEF Stoppable
<1>5. CASE DataWritten(d, c, s)
  <2> DEFINE rec == [Loaded(d) EXCEPT !.bits = @ \cup {s}, !.written = @ + 1]
  <2>1. /\ config' = [config EXCEPT ![d] = rec]
        /\ pc' = [pc EXCEPT ![d] =
                    IF rec.written = PacketNum[rec.fw] THEN "ended" ELSE @]
        /\ d \notin RootTypes /\ Loaded(d).fw # NoFw /\ Loaded(d).err # "STOP"
    BY <1>5, Zenon DEF DataWritten, Accepts
  <2>2. /\ rec.fw = Loaded(d).fw /\ rec.err = Loaded(d).err
        /\ rec.written = Loaded(d).written + 1
    BY <1>2 DEF SoundRecord, Record
  <2> HIDE DEF rec
  <2>3. /\ config'[d] = rec
        /\ pc'[d] = IF rec.written = PacketNum[rec.fw] THEN "ended" ELSE "idle"
    BY <1>1, <2>1 DEF Known, Typed, RecordsSound, OthersTyped
  <2>4. Loaded(d).fw \in Firmware /\ Loaded(d).written \in Nat
    BY <1>2, <2>1, RecordFields
  <2>5. PacketNum[Loaded(d).fw] \in Nat
    BY <2>4, StopValues
  <2>6. finished[d] => Loaded(d).written >= PacketNum[Loaded(d).fw]
    BY <2>1, StopValues DEF Stoppable
  <2>7. pc'[d] = "ended" => ~finished[d]
    BY <2>2, <2>3, <2>4, <2>5, <2>6
  <2>8. finished[d] => rec.written >= PacketNum[rec.fw]
    BY <2>2, <2>4, <2>5, <2>6
  <2>9. QED BY <1>1, <2>1, <2>2, <2>3, <2>7, <2>8, StopValues DEF Stoppable
<1>6. QED BY <1>3, <1>4, <1>5 DEF Data

LEMMA ProceedStoppable ==
  ASSUME Known, NEW d \in Devices, Stoppable(d), Proceed(d)
  PROVE  Stoppable(d)'
<1>1. /\ config[d] \in SoundRecord /\ UNCHANGED stopping
      /\ pc[d] # "idle" /\ config[d].fw # NoFw
      /\ pc[d] \in {"chosen", "flagged"} <=> d \in RootTypes
  BY StopValues DEF Proceed, FlagOnRoot, ReportOnRoot, StatusSave, FinishErase,
     FinishBoot, FinishBootFails, FinishFlag, FinishReport, Known, Sided
<1>2. CASE FlagOnRoot(d)
  <2>1. /\ pc[d] = "chosen" /\ pc'[d] = "flagged" /\ finished'[d]
        /\ UNCHANGED <<config, boot, excused>>
    BY <1>2 DEF FlagOnRoot, Known, Typed, OthersTyped
  <2>2. QED BY <1>1, <2>1 DEF Stoppable
<1>3. CASE ReportOnRoot(d)
  <2> DEFINE done == [config[d] EXCEPT !.written = PacketNum[config[d].fw],
                           !.bits = 0 .. PacketNum[config[d].fw] - 1]
  <2>1. /\ config' = [config EXCEPT ![d] = SetError(done, "OK")]
        /\ pc[d] = "flagged" /\ pc' = [pc EXCEPT ![d] = "idle"]
        /\ UNCHANGED <<boot, finished, excused>>
    BY <1>3, Zenon DEF ReportOnRoot
  <2>2. done \in SoundRecord /\ done.fw = config[d].fw
        /\ done.err = config[d].err
    BY <1>1, DoneSound, RecordFields DEF SoundRecord, Record
  <2>3. /\ SetError(done, "OK").fw = config[d].fw
        /\ SetError(done, "OK").err = "STOP" <=> config[d].err = "STOP"
    BY <2>2, ErrorsSet
  <2> HIDE DEF done
  <2>4. config'[d] = SetError(done, "OK") /\ pc'[d] = "idle"
    BY <2>1 DEF Known, Typed, RecordsSound, OthersTyped
  <2>5. QED BY <1>1, <2>1, <2>3, <2>4 DEF Stoppable
<1>4. CASE StatusSave(d)
  <2>1. PICK e \in {"OK", "FAIL"} :
          /\ config' = [config EXCEPT ![d] = SetError(config[d], e)]
          /\ pc[d] = "begun" /\ pc' = [pc EXCEPT ![d] = "idle"]
          /\ UNCHANGED <<boot, finished, excused>>
    BY <1>4, Zenon DEF StatusSave
  <2>2. /\ config'[d].fw = config[d].fw /\ config'[d].written = config[d].written
        /\ config'[d].err = "STOP" <=> config[d].err = "STOP"
        /\ pc'[d] = "idle"
    BY <1>1, <2>1, ErrorsSet DEF Known, Typed, RecordsSound, OthersTyped
  <2>3. QED BY <1>1, <2>1, <2>2 DEF Stoppable
<1>5. CASE FinishErase(d)
  <2>1. /\ pc[d] = "ended" /\ pc'[d] = "erased"
        /\ UNCHANGED <<config, boot, finished, excused>>
    BY <1>5 DEF FinishErase, Known, Typed, OthersTyped
  <2>2. QED BY <1>1, <2>1 DEF Stoppable
<1>6. CASE FinishBoot(d)
  <2>1. /\ pc[d] = "erased" /\ pc'[d] = "booted"
        /\ excused'[d] = (excused[d] \/ stopping[d] = "marking")
        /\ UNCHANGED <<config, finished>>
    BY <1>6 DEF FinishBoot, Select, Known, Typed, OthersTyped
  <2>2. QED BY <1>1, <2>1 DEF Stoppable
<1>7. CASE FinishBootFails(d)
  <2>1. /\ pc[d] = "erased" /\ pc'[d] = "idle"
        /\ config'[d].fw = config[d].fw /\ config'[d].err = "STOP"
        /\ UNCHANGED <<boot, finished, excused>>
    BY <1>1, <1>7 DEF FinishBootFails, Known, Typed, RecordsSound, OthersTyped,
       SoundRecord, Record
  <2>2. QED BY <1>1, <2>1 DEF Stoppable
<1>8. CASE FinishFlag(d)
  <2>1. /\ pc[d] = "booted" /\ pc'[d] = "reporting" /\ finished'[d]
        /\ UNCHANGED <<config, boot, excused>>
    BY <1>8 DEF FinishFlag, Known, Typed, OthersTyped
  <2>2. config[d].written \in Nat /\ config[d].fw \in Firmware
    BY <1>1, RecordFields
  <2>3. config[d].err # "STOP" => config[d].written >= PacketNum[config[d].fw]
    BY <2>1, <2>2, StopValues DEF Stoppable
  <2>4. QED BY <1>1, <2>1, <2>3 DEF Stoppable
<1>9. CASE FinishReport(d)
  <2>1. /\ pc[d] = "reporting" /\ pc'[d] = "idle"
        /\ UNCHANGED <<config, boot, finished, excused>>
    BY <1>9 DEF FinishReport, Known, Typed, OthersTyped
  <2>2. QED BY <1>1, <2>1 DEF Stoppable
<1>10. QED BY <1>2, <1>3, <1>4, <1>5, <1>6, <1>7, <1>8, <1>9 DEF Proceed

LEMMA StopStoppable ==
  ASSUME Known, NEW d \in Devices, Stoppable(d), Stop(d) \/ StopProceed(d)
  PROVE  Stoppable(d)'
<1>1. CASE Stop(d)
  <2>1. /\ stopping[d] = "no"
        /\ stopping'[d] = IF finished[d] THEN "restoring" ELSE "marking"
        /\ excused'[d] = (excused[d] \/ (~finished[d]
                                         /\ pc[d] \in {"chosen", "booted"}))
        /\ UNCHANGED <<config, boot, finished, pc>>
    BY <1>1 DEF Stop, Known, Typed, OthersTyped
  <2>2. QED BY <2>1 DEF Stoppable
<1>2. CASE StopRestores(d)
  <2>1. /\ stopping[d] = "restoring"
        /\ \/ stopping'[d] = "marking" /\ boot'[d] = NoFw
           \/ stopping'[d] = "no" /\ UNCHANGED <<boot, excused>>
        /\ UNCHANGED <<config, finished, pc>>
    BY <1>2 DEF StopRestores, Known, Typed, OthersTyped
  <2>2. QED BY <2>1 DEF Stoppable
<1>3. CASE StopMarks(d)
  <2>1. /\ stopping[d] = "marking" /\ config[d].fw # NoFw
    BY <1>3 DEF StopMarks, Known, Handling
  <2>2. /\ stopping'[d] = "erasing" /\ config'[d].fw = config[d].fw
        /\ config'[d].err = "STOP"
        /\ excused'[d] = (excused[d] \/ pc[d] \in {"ended", "erased"})
        /\ UNCHANGED <<boot, finished, pc>>
    <3>1. Stopped(d).err = "STOP"
      BY StopValues DEF Stopped, SoundRecord, Record
    <3>2. config'[d] = Stopped(d) /\ Stopped(d).fw = config[d].fw
      BY <1>3, StopMarksIt DEF Known, Typed, RecordsSound
    <3>3. QED
      BY <1>3, <3>1, <3>2, StopMarksIt DEF Known, Typed, OthersTyped
  <2>3. QED BY <2>1, <2>2 DEF Stoppable
<1>4. CASE StopErases(d)
  <2>1. stopping'[d] = "no" /\ UNCHANGED <<config, boot, finished, pc, excused>>
    BY <1>4 DEF StopErases, Known, Typed, OthersTyped
  <2>2. QED BY <2>1 DEF Stoppable
<1>5. QED BY <1>1, <1>2, <1>3, <1>4 DEF StopProceed

LEMMA MoveStoppable ==
  ASSUME Known, NEW d \in Devices, Stoppable(d), Moves(d)
  PROVE  Stoppable(d)'
<1>1. CASE Restart(d)
  <2>1. /\ config'[d] = Nothing /\ boot'[d] = NoFw /\ ~finished'[d]
        /\ pc'[d] = "idle" /\ stopping'[d] = "no"
    BY <1>1 DEF Restart, Known, Typed, RecordsSound, OthersTyped
  <2>2. QED BY <2>1, StopValues DEF Stoppable
<1>2. ASSUME Uplink(d) \/ \E c \in DOMAIN Campaigns : Download(d, c)
      PROVE  Stoppable(d)'
  <2>1. UNCHANGED <<config, boot, finished, pc, stopping, excused>>
    BY <1>2, Zenon DEF Uplink, Download
  <2>2. QED BY <2>1 DEF Stoppable
<1>3. QED
  BY <1>1, <1>2, StatusStoppable, DataStoppable, ProceedStoppable,
     StopStoppable DEF Moves

(* A device that was stopped does not boot into the firmware it was        *)
(* stopped at (lines 295-312), wherever its handler stood when             *)
(* mupgrade_stop() ran, but for the three overlaps StopHonoured names.     *)
THEOREM StoppedDevicesStay ==
  ASSUME SavedNum > MaxPacket
  PROVE  Spec => []StopHonoured
<1>1. Init => AllStoppable
  BY DEF Init, Nothing, AllStoppable, Stoppable
<1>2. Known /\ AllStoppable /\ [Next]_vars => AllStoppable'
  <2>1. ASSUME Known, AllStoppable, Next PROVE AllStoppable'
    <3>1. PICK d \in Devices : Moves(d)
      BY <2>1, NextMoves
    <3>2. ASSUME NEW x \in Devices \ {d} PROVE Stoppable(x)'
      BY <2>1, <3>1, OthersKept DEF AllStoppable, Known, Same, Stoppable
    <3>3. Stoppable(d)'
      BY <2>1, <3>1, MoveStoppable DEF AllStoppable
    <3>4. QED BY <3>2, <3>3 DEF AllStoppable
  <2>2. ASSUME AllStoppable, UNCHANGED vars PROVE AllStoppable'
    BY <2>2 DEF vars, AllStoppable, Stoppable
  <2>3. QED BY <2>1, <2>2
<1>3. AllStoppable => StopHonoured
  BY DEF AllStoppable, Stoppable, StopHonoured, StopsBoot
<1>4. QED BY <1>1, <1>2, <1>3, NodeInvariant, PTL DEF Spec
-----------------------------------------------------------------------------
(***************************************************************************)
(* The report of the last packet: with a report interval that does not     *)
(* divide 100, the record of a complete firmware is never saved, so that   *)
(* only a device that has selected the firmware for boot ever reports it   *)
(* as complete.  Packets may be broadcast and firmwares distributed twice. *)
(***************************************************************************)

(* A record of a firmware with every packet counted.                       *)
Full(rec) == rec.fw # NoFw /\ rec.written = PacketNum[rec.fw]

(* next_percentage never is 100, where line 206 would save a full record.  *)
OffInterval == \A k \in Nat : k * Interval # 100

AtInterval(d) == \E k \in Nat : next_percentage[d] = k * Interval

(* A full record is one that was selected for boot or is about to be.      *)
ConfigHonest(d) ==
  /\ Full(config[d])
       => config[d].fw \in switched[d] \/ pc[d] \in {"ended", "erased"}
  /\ pc[d] = "begun" => ~Full(config[d])
  /\ pc[d] \in {"chosen", "flagged"} => config[d].fw \in switched[d]

OutHonest(d) ==
  \A i \in DOMAIN out[d] : Full(out[d][i]) => out[d][i].fw \in switched[d]

HonestAt(d) ==
  AtInterval(d) /\ ~Full(store[d]) /\ ConfigHonest(d) /\ OutHonest(d)

Honest == \A d \in Devices : HonestAt(d)

(***************************************************************************)
(* Lemmas: percentages, and which records are full.                        *)
(***************************************************************************)

LEMMA FullPercent ==
  ASSUME NEW P \in Nat \ {0} PROVE (P * 100) \div P = 100
  OBVIOUS

LEMMA NextInterval ==
  ASSUME NEW p \in Nat, NEW nxt \in Int, NEW k \in Nat, nxt = k * Interval
  PROVE  \E j \in Nat : NextPercentage(p, nxt) = j * Interval
<1>1. Interval \in Nat \ {0}
  BY CampaignsTyped
<1>2. CASE p = nxt
  <2>1. nxt + Interval = (k + 1) * Interval
    BY <1>1
  <2>2. QED BY <1>2, <2>1 DEF NextPercentage
<1>3. CASE p > nxt
  <2>1. p \div Interval + 1 \in Nat
    BY <1>1
  <2>2. NextPercentage(p, nxt) = (p \div Interval + 1) * Interval
    BY <1>1, <1>3 DEF NextPercentage
  <2>3. QED BY <2>1, <2>2
<1>4. CASE p < nxt
  BY <1>1, <1>4 DEF NextPercentage
<1>5. QED BY <1>2, <1>3, <1>4

(* No packet is counted: the firmwares have packets, so none is complete.  *)
LEMMA EmptyNotFull ==
  ASSUME NEW rec, rec.fw \in Firmware \cup {NoFw}, rec.written = 0
  PROVE  ~Full(rec)
  BY CampaignsTyped DEF Full

LEMMA SetErrorFull ==
  ASSUME NEW rec \in SoundRecord, NEW e \in {"OK", "FAIL"}
  PROVE  Full(SetError(rec, e)) <=> Full(rec)
  BY DEF SetError, SoundRecord, Record, Full

LEMMA FreshFull ==
  ASSUME NEW rec \in SoundRecord, NEW f \in Firmware
  PROVE  ~Full(Fresh(rec, f))
<1>1. Fresh(rec, f).fw = f /\ Fresh(rec, f).written = 0
  BY DEF Fresh, SoundRecord, Record
<1>2. QED BY <1>1, EmptyNotFull

LEMMA NothingNotFull == ~Full(Nothing)
  BY DEF Full, Nothing

LEMMA StoppedNotFull ==
  ASSUME NEW rec \in SoundRecord
  PROVE  /\ ~Full([rec EXCEPT !.err = "STOP", !.written = 0, !.bits = {}])
         /\ ~Full([rec EXCEPT !.written = 0, !.err = "STOP"])
         /\ ~Full([rec EXCEPT !.written = 0, !.bits = {}])
  BY EmptyNotFull DEF SoundRecord, Record

(* A reply of a device that has selected what it reports complete.         *)
LEMMA ReplyHonest ==
  ASSUME Typed, NEW d \in Devices, OutHonest(d), NEW rec \in SoundRecord,
         Reply(d, rec), switched[d] \subseteq switched'[d],
         Full(rec) => rec.fw \in switched'[d]
  PROVE  OutHonest(d)'
<1>1. out[d] \in Seq(SoundRecord)
  BY DEF Typed, RecordsSound
<1>2. out'[d] = Append(out[d], rec)
  BY DEF Reply, Typed, RecordsSound
<1>3. ASSUME NEW i \in DOMAIN out'[d], Full(out'[d][i])
      PROVE  out'[d][i].fw \in switched'[d]
  <2>1. CASE i \in DOMAIN out[d]
    <3>1. out'[d][i] = out[d][i]
      BY <1>1, <1>2, <2>1
    <3>2. QED BY <1>3, <2>1, <3>1 DEF OutHonest
  <2>2. CASE i \notin DOMAIN out[d]
    <3>1. out'[d][i] = rec
      BY <1>1, <1>2, <1>3, <2>2
    <3>2. QED BY <1>3, <3>1
  <2>3. QED BY <2>1, <2>2
<1>4. QED BY <1>3 DEF OutHonest, Full

(* What a handler works on between messages.                               *)
LEMMA LoadedHonest ==
  ASSUME Typed, NEW d \in Devices, HonestAt(d), pc[d] = "idle"
  PROVE  Full(Loaded(d)) => Loaded(d).fw \in switched[d]
  BY DEF HonestAt, ConfigHonest, Loaded

(* The values at d that these proofs look at, out of the functions.        *)
LEMMA ReportValues ==
  ASSUME Typed, NEW d \in Devices
  PROVE  /\ config[d] \in SoundRecord /\ store[d] \in SoundRecord
         /\ Loaded(d) \in SoundRecord /\ switched[d] \in SUBSET Firmware
         /\ next_percentage[d] \in Int
         /\ pc[d] \in Points
  BY LoadedSound DEF Typed, RecordsSound, OthersTyped

-----------------------------------------------------------------------------
(***************************************************************************)
(* One lemma for each group of actions.                                    *)
(***************************************************************************)

LEMMA StatusHonest ==
  ASSUME Typed, NEW d \in Devices, HonestAt(d),
         NEW c \in DOMAIN Campaigns, Status(d, c)
  PROVE  HonestAt(d)'
<1>1. /\ Campaigns[c] \in Firmware /\ Loaded(d) \in SoundRecord
      /\ Fresh(Loaded(d), Campaigns[c]) \in SoundRecord
  BY CampaignsTyped, ReportValues, FreshSound
<1>2. pc[d] = "idle" /\ next_percentage' = next_percentage /\ store' = store
  BY Zenon DEF Status, StatusKnown, StatusOnRoot, StatusBegin,
     StatusBeginFails, Arrives
<1>3. AtInterval(d)' /\ ~Full(store'[d])
  BY <1>2 DEF HonestAt, AtInterval
<1>4. CASE StatusKnown(d, c)
  <2> DEFINE rec == SetError(Loaded(d), "OK")
  <2>1. rec \in SoundRecord /\ rec.fw = Loaded(d).fw
    BY <1>1, SetErrorSound
  <2>2. Full(rec) => rec.fw \in switched[d]
    BY <1>1, <1>2, <2>1, SetErrorFull, LoadedHonest
  <2>3. /\ config' = [config EXCEPT ![d] = rec] /\ Reply(d, rec)
        /\ pc' = pc /\ switched' = switched
    BY <1>4, Zenon DEF StatusKnown, Answers
  <2> HIDE DEF rec
  <2>4. config'[d] = rec
    BY <2>3 DEF Typed, RecordsSound
  <2>5. OutHonest(d)'
    BY <2>1, <2>2, <2>3, ReplyHonest DEF HonestAt
  <2>6. ConfigHonest(d)'
    BY <1>2, <2>2, <2>3, <2>4 DEF ConfigHonest, Full
  <2>7. QED BY <1>3, <2>5, <2>6 DEF HonestAt, Full
<1>5. CASE StatusOnRoot(d, c)
  <2> DEFINE f    == Campaigns[c]
             rec  == Fresh(Loaded(d), f)
             fail == SetError(rec, "FAIL")
  <2>1. fail \in SoundRecord /\ rec.fw = f /\ ~Full(rec) /\ ~Full(fail)
    BY <1>1, FreshSound, SetErrorSound, SetErrorFull, FreshFull
  <2>2. \/ /\ Select(d, f) /\ config' = [config EXCEPT ![d] = rec]
           /\ pc' = [pc EXCEPT ![d] = "chosen"] /\ out' = out
        \/ /\ config' = [config EXCEPT ![d] = fail] /\ Reply(d, fail)
           /\ UNCHANGED <<switched, pc>>
    BY <1>5, Zenon DEF StatusOnRoot, Answers
  <2> HIDE DEF rec, fail
  <2>3. CASE /\ Select(d, f) /\ config' = [config EXCEPT ![d] = rec]
             /\ pc' = [pc EXCEPT ![d] = "chosen"] /\ out' = out
    <3>1. /\ switched'[d] = switched[d] \cup {f} /\ config'[d] = rec
          /\ pc'[d] = "chosen"
      BY <2>3 DEF Select, Typed, RecordsSound, OthersTyped
    <3>2. QED
      BY <1>3, <2>1, <2>3, <3>1 DEF HonestAt, ConfigHonest, OutHonest, Full
  <2>4. CASE /\ config' = [config EXCEPT ![d] = fail] /\ Reply(d, fail)
             /\ UNCHANGED <<switched, pc>>
    <3>1. config'[d] = fail
      BY <2>4 DEF Typed, RecordsSound
    <3>2. OutHonest(d)'
      BY <2>1, <2>4, ReplyHonest DEF HonestAt
    <3>3. ConfigHonest(d)'
      BY <1>2, <2>1, <2>4, <3>1 DEF ConfigHonest, Full
    <3>4. QED BY <1>3, <3>2, <3>3 DEF HonestAt, Full
  <2>5. QED BY <2>2, <2>3, <2>4
<1>6. CASE StatusBegin(d, c)
  <2>1. /\ config' = [config EXCEPT ![d] = Fresh(Loaded(d), Campaigns[c])]
        /\ pc' = [pc EXCEPT ![d] = "begun"]
        /\ switched' = switched /\ out' = out
    BY <1>6, Zenon DEF StatusBegin
  <2>2. config'[d] = Fresh(Loaded(d), Campaigns[c])
    BY <2>1 DEF Typed, RecordsSound
  <2>3. ~Full(config'[d]) /\ pc'[d] = "begun"
    BY <1>1, <2>1, <2>2, FreshFull DEF Typed, OthersTyped
  <2>4. QED
    BY <1>3, <2>1, <2>3 DEF HonestAt, ConfigHonest, OutHonest, Full
<1>7. CASE StatusBeginFails(d, c)
  <2> DEFINE rec == SetError(Fresh(Loaded(d), Campaigns[c]), "FAIL")
  <2>1. rec \in SoundRecord /\ ~Full(rec)
    BY <1>1, SetErrorSound, SetErrorFull, FreshFull
  <2>2. /\ config' = [config EXCEPT ![d] = rec] /\ Reply(d, rec)
        /\ switched' = switched /\ pc' = pc
    BY <1>7, Zenon DEF StatusBeginFails, Answers
  <2> HIDE DEF rec
  <2>3. config'[d] = rec
    BY <2>2 DEF Typed, RecordsSound
  <2>4. OutHonest(d)'
    BY <2>1, <2>2, ReplyHonest DEF HonestAt
  <2>5. ConfigHonest(d)'
    BY <1>2, <2>1, <2>2, <2>3 DEF ConfigHonest, Full
  <2>6. QED BY <1>3, <2>4, <2>5 DEF HonestAt, Full
<1>8. QED BY <1>4, <1>5, <1>6, <1>7 DEF Status

(* The packet that makes a record full is followed by the selection; the   *)
(* percentage is 100 then, which is not one that is saved.                 *)
LEMMA WrittenHonest ==
  ASSUME Typed, OffInterval, SavedNum > MaxPacket,
         NEW d \in Devices, HonestAt(d),
         NEW c \in DOMAIN Campaigns, NEW s \in Slots, DataWritten(d, c, s)
  PROVE  HonestAt(d)'
<1>0. PICK old \in SoundRecord : old = Loaded(d)
  BY ReportValues
<1> DEFINE rec == [old EXCEPT !.bits = @ \cup {s}, !.written = @ + 1]
           p   == (rec.written * 100) \div PacketNum[rec.fw]
<1>1. /\ Accepts(old, s)
      /\ config' = [config EXCEPT ![d] = rec]
      /\ next_percentage' =
           [next_percentage EXCEPT ![d] = NextPercentage(p, @)]
      /\ UNCHANGED store
           \/ (p = next_percentage[d] /\ store' = [store EXCEPT ![d] = Saved(rec)])
      /\ pc' = [pc EXCEPT ![d] =
                  IF rec.written = PacketNum[rec.fw] THEN "ended" ELSE @]
      /\ UNCHANGED <<out, switched>>
  BY <1>0, Zenon DEF DataWritten
<1>2. pc[d] = "idle"
  BY DEF DataWritten, PacketArrives, Arrives
<1>3. rec \in SoundRecord /\ rec.fw = old.fw
  BY <1>1, WrittenSound
<1>4. old.fw \in Firmware
  BY <1>1, RecordFields DEF Accepts
<1> HIDE DEF rec
<1>5. rec.written \in Nat /\ PacketNum[rec.fw] \in Nat \ {0}
  BY <1>3, <1>4, CampaignsTyped, RecordFields
<1>6. p \in Nat
  <2>1. \A x \in Nat, y \in Nat \ {0} : (x * 100) \div y \in Nat
    OBVIOUS
  <2>2. QED BY <1>5, <2>1
<1>7. Full(rec) => p = 100
  BY <1>5, FullPercent DEF Full
<1> HIDE DEF p
<1>8. PICK k \in Nat : next_percentage[d] = k * Interval
  BY DEF HonestAt, AtInterval
<1>9. AtInterval(d)'
  <2>1. \E j \in Nat : NextPercentage(p, next_percentage[d]) = j * Interval
    BY <1>6, <1>8, ReportValues, NextInterval
  <2>2. next_percentage'[d] = NextPercentage(p, next_percentage[d])
    BY <1>1 DEF Typed, OthersTyped
  <2>3. QED BY <2>1, <2>2 DEF AtInterval
<1>10. ~Full(store'[d])
  <2>1. CASE UNCHANGED store
    BY <2>1 DEF HonestAt
  <2>2. CASE p = next_percentage[d] /\ store' = [store EXCEPT ![d] = Saved(rec)]
    <3>1. store'[d] = rec
      BY <1>3, <2>2, SavedSound DEF Typed, RecordsSound
    <3>2. p # 100
      BY <1>8, <2>2 DEF OffInterval
    <3>3. QED BY <1>7, <3>1, <3>2
  <2>3. QED BY <1>1, <2>1, <2>2
<1>11. ConfigHonest(d)'
  <2>1. config'[d] = rec
    BY <1>1 DEF Typed, RecordsSound
  <2>2. pc'[d] = IF rec.written = PacketNum[rec.fw] THEN "ended" ELSE "idle"
    BY <1>1, <1>2 DEF Typed, OthersTyped
  <2>3. QED BY <2>1, <2>2 DEF ConfigHonest, Full
<1>12. OutHonest(d)'
  BY <1>1 DEF HonestAt, OutHonest, Full
<1>13. QED BY <1>9, <1>10, <1>11, <1>12 DEF HonestAt, Full

LEMMA DataHonest ==
  ASSUME Typed, OffInterval, SavedNum > MaxPacket,
         NEW d \in Devices, HonestAt(d),
         NEW c \in DOMAIN Campaigns, NEW s \in Slots, Data(d, c, s)
  PROVE  HonestAt(d)'
<1>1. CASE DataStopped(d, c, s)
  <2> DEFINE rec == [Loaded(d) EXCEPT !.written = 0, !.bits = {}]
  <2>1. rec \in SoundRecord /\ ~Full(rec)
    BY ReportValues, StoppedSound, StoppedNotFull
  <2>2. /\ config' = [config EXCEPT ![d] = rec] /\ Reply(d, rec)
        /\ store' \in {store, [store EXCEPT ![d] = Nothing]}
        /\ pc[d] = "idle" /\ UNCHANGED <<next_percentage, switched, pc>>
    BY <1>1, Zenon DEF DataStopped, PacketArrives, Arrives
  <2> HIDE DEF rec
  <2>3. config'[d] = rec /\ store'[d] \in {store[d], Nothing}
    BY <2>2 DEF Typed, RecordsSound
  <2>4. AtInterval(d)' /\ ~Full(store'[d])
    BY <2>2, <2>3, NothingNotFull DEF HonestAt, AtInterval
  <2>5. OutHonest(d)'
    BY <2>1, <2>2, ReplyHonest DEF HonestAt
  <2>6. ConfigHonest(d)'
    BY <2>1, <2>2, <2>3 DEF ConfigHonest, Full
  <2>7. QED BY <2>4, <2>5, <2>6 DEF HonestAt, Full
<1>2. CASE DataIgnored(d, c, s)
  <2>1. /\ config' = [config EXCEPT ![d] = Loaded(d)] /\ pc[d] = "idle"
        /\ UNCHANGED <<store, next_percentage, pc, out, switched>>
    BY <1>2, Zenon DEF DataIgnored, PacketArrives, Arrives
  <2>2. config'[d] = Loaded(d)
    BY <2>1 DEF Typed, RecordsSound
  <2>3. Full(Loaded(d)) => Loaded(d).fw \in switched[d]
    BY <2>1, LoadedHonest
  <2>4. ConfigHonest(d)'
    BY <2>1, <2>2, <2>3 DEF ConfigHonest, Full
  <2>5. QED BY <2>1, <2>4 DEF HonestAt, AtInterval, OutHonest, Full
<1>3. CASE DataWritten(d, c, s)
  BY <1>3, WrittenHonest
<1>4. QED BY <1>1, <1>2, <1>3 DEF Data

LEMMA ProceedHonest ==
  ASSUME Known, SavedNum > MaxPacket,
         NEW d \in Devices, HonestAt(d), Proceed(d)
  PROVE  HonestAt(d)'
<1>1. Typed /\ config[d] \in SoundRecord
  BY ReportValues DEF Known
<1>2. CASE StatusSave(d)
  <2>1. PICK e \in {"OK", "FAIL"} :
          /\ store' = [store EXCEPT ![d] =
                         IF e = "OK" THEN Saved(config[d]) ELSE @]
          /\ config' = [config EXCEPT ![d] = SetError(config[d], e)]
          /\ Reply(d, SetError(config[d], e))
    BY <1>2, Zenon DEF StatusSave, Answers
  <2> DEFINE rec == SetError(config[d], e)
  <2>2. /\ pc[d] = "begun" /\ pc' = [pc EXCEPT ![d] = "idle"]
        /\ UNCHANGED <<next_percentage, switched>>
    BY <1>2, Zenon DEF StatusSave
  <2>3. ~Full(config[d])
    BY <2>2 DEF HonestAt, ConfigHonest
  <2>4. rec \in SoundRecord /\ ~Full(rec) /\ Saved(config[d]) = config[d]
    BY <1>1, <2>3, SetErrorSound, SetErrorFull, SavedSound
  <2>5. /\ store'[d] \in {store[d], config[d]} /\ config'[d] = rec
        /\ pc'[d] = "idle"
    BY <1>1, <2>1, <2>2, <2>4 DEF Typed, RecordsSound, OthersTyped
  <2> HIDE DEF rec
  <2>6. AtInterval(d)' /\ ~Full(store'[d])
    BY <2>2, <2>3, <2>5 DEF HonestAt, AtInterval
  <2>7. OutHonest(d)'
    BY <1>1, <2>1, <2>2, <2>4, ReplyHonest DEF HonestAt, rec
  <2>8. ConfigHonest(d)'
    BY <2>4, <2>5 DEF ConfigHonest, Full
  <2>9. QED BY <2>6, <2>7, <2>8 DEF HonestAt, Full
<1>3. CASE FinishErase(d)
  <2>1. /\ pc[d] = "ended" /\ pc' = [pc EXCEPT ![d] = "erased"]
        /\ store' \in {store, [store EXCEPT ![d] = Nothing]}
        /\ UNCHANGED <<config, next_percentage, out, switched>>
    BY <1>3, Zenon DEF FinishErase
  <2>2. pc'[d] = "erased" /\ store'[d] \in {store[d], Nothing}
    BY <1>1, <2>1 DEF Typed, RecordsSound, OthersTyped
  <2>3. QED
    BY <2>1, <2>2, NothingNotFull
       DEF HonestAt, AtInterval, ConfigHonest, OutHonest, Full
<1>4. CASE FinishBoot(d)
  <2>1. /\ pc' = [pc EXCEPT ![d] = "booted"] /\ Select(d, config[d].fw)
        /\ UNCHANGED <<config, store, next_percentage, out>>
    BY <1>4, Zenon DEF FinishBoot
  <2>2. pc'[d] = "booted" /\ switched'[d] = switched[d] \cup {config[d].fw}
    BY <1>1, <2>1 DEF Select, Typed, OthersTyped
  <2>3. QED
    BY <2>1, <2>2 DEF HonestAt, AtInterval, ConfigHonest, OutHonest, Full
<1>5. CASE FinishBootFails(d)
  <2> DEFINE rec == [config[d] EXCEPT !.written = 0, !.err = "STOP"]
  <2>1. /\ config' = [config EXCEPT ![d] = rec] /\ pc'[d] = "idle"
        /\ UNCHANGED <<store, next_percentage, out, switched>>
    BY <1>1, <1>5 DEF FinishBootFails, Typed, RecordsSound, OthersTyped
  <2>2. ~Full(rec)
    BY <1>1, StoppedNotFull
  <2> HIDE DEF rec
  <2>3. config'[d] = rec
    BY <1>1, <2>1 DEF Typed, RecordsSound
  <2>4. QED
    BY <2>1, <2>2, <2>3
       DEF HonestAt, AtInterval, ConfigHonest, OutHonest, Full
<1>6. CASE FinishFlag(d) \/ FlagOnRoot(d)
  <2>1. /\ \/ pc[d] = "booted" /\ pc'[d] = "reporting"
           \/ pc[d] = "chosen" /\ pc'[d] = "flagged"
        /\ UNCHANGED <<config, store, next_percentage, out, switched>>
    BY <1>1, <1>6 DEF FinishFlag, FlagOnRoot, Typed, OthersTyped
  <2>2. QED
    BY <2>1 DEF HonestAt, AtInterval, ConfigHonest, OutHonest, Full
<1>7. CASE FinishReport(d)
  <2>1. /\ pc[d] = "reporting" /\ pc' = [pc EXCEPT ![d] = "idle"]
        /\ Reply(d, config[d])
        /\ UNCHANGED <<config, store, next_percentage, switched>>
    BY <1>7, Zenon DEF FinishReport
  <2>2. Full(config[d]) => config[d].fw \in switched[d]
    BY <2>1 DEF HonestAt, ConfigHonest
  <2>3. OutHonest(d)'
    BY <1>1, <2>1, <2>2, ReplyHonest DEF HonestAt
  <2>4. pc'[d] = "idle"
    BY <1>1, <2>1 DEF Typed, OthersTyped
  <2>5. QED
    BY <2>1, <2>2, <2>3, <2>4 DEF HonestAt, AtInterval, ConfigHonest, Full
<1>8. CASE ReportOnRoot(d)
  <2> DEFINE done == [config[d] EXCEPT !.written = PacketNum[config[d].fw],
                           !.bits = 0 .. PacketNum[config[d].fw] - 1]
             rec  == SetError(done, "OK")
  <2>1. /\ pc[d] = "flagged" /\ pc' = [pc EXCEPT ![d] = "idle"]
        /\ config' = [config EXCEPT ![d] = rec] /\ Reply(d, rec)
        /\ UNCHANGED <<store, next_percentage, switched>>
    BY <1>8, Zenon DEF ReportOnRoot, Answers
  <2>2. config[d].fw # NoFw
    BY <2>1 DEF Known, Handling
  <2>3. rec \in SoundRecord /\ rec.fw = config[d].fw
    BY <1>1, <2>2, DoneSound, SetErrorSound, RecordFields
  <2>4. config[d].fw \in switched[d]
    BY <2>1 DEF HonestAt, ConfigHonest
  <2> HIDE DEF rec
  <2>5. config'[d] = rec /\ pc'[d] = "idle"
    BY <1>1, <2>1 DEF Typed, RecordsSound, OthersTyped
  <2>6. OutHonest(d)'
    BY <1>1, <2>1, <2>3, <2>4, ReplyHonest DEF HonestAt
  <2>7. QED
    BY <2>1, <2>3, <2>4, <2>5, <2>6
       DEF HonestAt, AtInterval, ConfigHonest, Full
<1>9. QED BY <1>2, <1>3, <1>4, <1>5, <1>6, <1>7, <1>8 DEF Proceed

(* A stop forgets the count; a restart resumes from a record that is not   *)
(* full, at the first interval; the uplink only loses reports.             *)
LEMMA OutsideHonest ==
  ASSUME Typed, NEW d \in Devices, HonestAt(d),
         \/ Stop(d) \/ StopProceed(d) \/ Restart(d) \/ Uplink(d)
         \/ \E c \in DOMAIN Campaigns : Download(d, c)
  PROVE  HonestAt(d)'
<1>1. CASE StopMarks(d)
  <2>1. /\ config'[d] = Stopped(d) /\ Stopped(d) \in SoundRecord
        /\ Stopped(d).fw = config[d].fw
        /\ Reply(d, Stopped(d)) \/ UNCHANGED out
        /\ UNCHANGED <<store, next_percentage, pc, switched>>
    BY <1>1, StopMarksIt DEF Typed, RecordsSound
  <2>2. ~Full(Stopped(d))
    BY ReportValues, StoppedNotFull DEF Stopped
  <2>3. OutHonest(d)'
    <3>1. CASE Reply(d, Stopped(d))
      BY <2>1, <2>2, <3>1, ReplyHonest DEF HonestAt
    <3>2. CASE UNCHANGED out
      BY <2>1, <3>2 DEF HonestAt, OutHonest, Full
    <3>3. QED BY <2>1, <3>1, <3>2
  <2>4. QED
    BY <2>1, <2>2, <2>3 DEF HonestAt, AtInterval, ConfigHonest, Full
<1>2. CASE Restart(d)
  <2>1. /\ config' = [config EXCEPT ![d] = Nothing]
        /\ next_percentage' = [next_percentage EXCEPT ![d] = Interval]
        /\ pc' = [pc EXCEPT ![d] = "idle"]
        /\ UNCHANGED <<store, out, switched>>
    BY <1>2, Zenon DEF Restart
  <2>2. /\ config'[d] = Nothing /\ next_percentage'[d] = 1 * Interval
        /\ pc'[d] = "idle"
    BY <2>1, CampaignsTyped DEF Typed, RecordsSound, OthersTyped
  <2>3. AtInterval(d)'
    BY <2>2 DEF AtInterval
  <2>4. QED
    BY <2>1, <2>2, <2>3, NothingNotFull
       DEF HonestAt, ConfigHonest, OutHonest, Full
<1>3. CASE Uplink(d)
  <2>1. out[d] \in Seq(SoundRecord) /\ out[d] # <<>>
    BY <1>3 DEF Uplink, Typed, RecordsSound
  <2>2. out'[d] = Tail(out[d])
        /\ UNCHANGED <<config, store, next_percentage, pc, switched>>
    BY <1>3 DEF Uplink, Typed, RecordsSound
  <2>3. \A i \in DOMAIN out'[d] :
          i + 1 \in DOMAIN out[d] /\ out'[d][i] = out[d][i + 1]
    BY <2>1, <2>2
  <2>4. OutHonest(d)'
    BY <2>2, <2>3 DEF HonestAt, OutHonest, Full
  <2>5. QED BY <2>2, <2>4 DEF HonestAt, AtInterval, ConfigHonest, Full
<1>4. ASSUME NEW c \in DOMAIN Campaigns, Download(d, c)
      PROVE  HonestAt(d)'
  BY <1>4
     DEF Download, HonestAt, AtInterval, ConfigHonest, OutHonest, Full
<1>5. CASE Stop(d) \/ StopRestores(d) \/ StopErases(d)
  <2>1. /\ store'[d] \in {store[d], Nothing}
        /\ UNCHANGED <<config, next_percentage, pc, out, switched>>
    BY <1>5 DEF Stop, StopRestores, StopErases, Typed, RecordsSound
  <2>2. QED
    BY <2>1, NothingNotFull
       DEF HonestAt, AtInterval, ConfigHonest, OutHonest, Full
<1>6. QED BY <1>1, <1>2, <1>3, <1>4, <1>5 DEF StopProceed

(* A step of one device leaves the others as they are.                     *)
LEMMA FrameHonest ==
  ASSUME NEW x \in Devices, HonestAt(x), Same(x)
  PROVE  HonestAt(x)'
  BY DEF HonestAt, AtInterval, ConfigHonest, OutHonest, Full, Same

LEMMA InitHonest == Init => Honest
<1> SUFFICES ASSUME Init, NEW d \in Devices PROVE HonestAt(d)
  BY DEF Honest
<1>1. /\ config[d] = Nothing /\ store[d] = Nothing /\ out[d] = <<>>
      /\ pc[d] = "idle" /\ next_percentage[d] = 1 * Interval
  BY CampaignsTyped DEF Init
<1>2. AtInterval(d)
  BY <1>1 DEF AtInterval
<1>3. QED
  BY <1>1, <1>2, NothingNotFull DEF HonestAt, ConfigHonest, OutHonest

LEMMA NextHonest ==
  ASSUME Known, OffInterval, SavedNum > MaxPacket, Honest, Next
  PROVE  Honest'
<1>1. PICK d \in Devices : Moves(d)
  BY NextMoves
<1>2. Typed /\ HonestAt(d)
  BY DEF Known, Honest
<1>3. ASSUME NEW x \in Devices \ {d} PROVE HonestAt(x)'
  BY <1>1, <1>2, OthersKept, FrameHonest DEF Honest
<1>4. HonestAt(d)'
  BY <1>1, <1>2, StatusHonest, DataHonest, ProceedHonest, OutsideHonest
     DEF Moves
<1>5. QED BY <1>3, <1>4 DEF Honest

(* Only a device that has selected a firmware for boot reports all of its  *)
(* packets written, whatever is lost, repeated, restarted or stopped, if   *)
(* the report interval does not divide 100: the status the root counts as  *)
(* a finished device (mupgrade_root.c:196) is then never sent by one that  *)
(* resumed a full record from NVS.                                         *)
THEOREM ReportsAreHonest ==
  ASSUME OffInterval, SavedNum > MaxPacket
  PROVE  Spec => []FinishReportHonest
<1>1. Init => Honest
  BY InitHonest
<1>2. Known /\ Honest /\ [Next]_vars => Honest'
  <2>1. ASSUME Known, Honest, Next PROVE Honest'
    BY <2>1, NextHonest
  <2>2. ASSUME Honest, UNCHANGED vars PROVE Honest'
    BY <2>2, FrameHonest DEF vars, Honest, Same
  <2>3. QED BY <2>1, <2>2
<1>3. Honest => FinishReportHonest
  BY DEF Honest, HonestAt, OutHonest, Full, FinishReportHonest
<1>4. QED BY <1>1, <1>2, <1>3, NodeInvariant, PTL DEF Spec
=============================================================================
