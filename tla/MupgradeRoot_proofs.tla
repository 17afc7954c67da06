------------------------- MODULE MupgradeRoot_proofs -------------------------
(***************************************************************************)
(* Proofs about the root side of Mupgrade, for any devices, firmwares,     *)
(* retries and bounds, and whatever the mesh loses: the types, that the    *)
(* three lists of addresses add up (RInv), that the statuses are honest    *)
(* and a request ends well only when all are done (Reported), and that a   *)
(* packet that is skipped is held (Lasting).                               *)
(***************************************************************************)
EXTENDS MupgradeRoot, TLAPS

Stages == {"off", "round", "drain", "ask", "collect", "send", "poll", "exit",
           "flush", "give"}

Sends(r) == [pc : Stages, round : 0 .. r, try : 0 .. 3, seq : 0 .. MaxPacket,
             unfinished : SUBSET Devices, successed : Seq(Devices),
             requested : SUBSET Devices, request : SUBSET Devices,
             progress : SUBSET Bits]

SendTyped == send \in Sends(plan.retry)

RootTyped ==
  /\ plan \in Plans
  /\ upgrade \in [fw : Firmware \cup {NoFw}, err : {"OK", "FAIL", "FINISH"}]
  /\ queue \in Seq(StatusRecord) /\ Len(queue) <= QueueCap
  /\ alive \in BOOLEAN /\ running \in BOOLEAN
  /\ sem \in {"none", "empty", "given"}
  /\ stop \in {"off", "create", "clear", "wait"}
  /\ held = {} \/ \E st \in StatusRecord : held = {st}
  /\ targets \in SUBSET Devices /\ retired \in SUBSET Devices

DevicesTyped ==
  /\ claim \in [Devices -> Firmware \cup {NoFw}]
  /\ got \in [Devices -> SUBSET Bits]
  /\ halted \in [Devices -> BOOLEAN]
  /\ selected \in [Devices -> SUBSET Firmware]
  /\ busy \in [Devices -> BOOLEAN]
  /\ lost \in SUBSET Devices /\ resumed \in [Devices -> SUBSET Firmware]

MeshTyped ==
  /\ down \in [Devices -> Seq(MessageRecord)]
  /\ up \in [Devices -> Seq(StatusRecord)]

(* What a stage of the sending task knows of its counts, and that there is *)
(* a firmware to send.                                                     *)
Counts(s) ==
  /\ s.pc \in {"drain", "ask", "collect", "send", "poll"} => s.round < plan.retry
  /\ s.pc = "collect" => s.try < 3
  /\ s.pc = "poll" => s.seq < MaxPacket

Placed ==
  /\ upgrade.err = "FINISH" \/ send.pc # "off" => upgrade.fw # NoFw
  /\ Counts(send)

RInv == RootTyped /\ DevicesTyped /\ MeshTyped /\ SendTyped /\ Placed /\ AccountedFor

LEMMA Typing ==
  TypeOK <=> RootTyped /\ DevicesTyped /\ MeshTyped /\ SendTyped
  BY DEF TypeOK, RootTyped, DevicesTyped, MeshTyped, SendTyped, Sends, Stages

(* A firmware has packets, and the record of a status holds them.          *)
LEMMA Packets ==
  ASSUME NEW f \in Firmware
  PROVE  /\ PacketNum[f] \in Nat /\ PacketNum[f] > 0 /\ PacketNum[f] <= MaxPacket
         /\ All(f) # {} /\ All(f) \subseteq Bits
  BY DeviceAssumption, RootAssumption DEF DeviceAssumption, RootAssumption, All, Bits

LEMMA Retries ==
  ASSUME RootTyped
  PROVE  plan.retry \in Nat
  BY RootAssumption DEF RootAssumption, RootTyped

-----------------------------------------------------------------------------
(***************************************************************************)
(* The address lists.                                                      *)
(***************************************************************************)
Split(s, R) ==
  /\ targets = s.unfinished \cup Range(s.successed) \cup (R \cap targets)
  /\ s.unfinished \cap (Range(s.successed) \cup R) = {}
  /\ IsInjective(s.successed)

Asks(s) == s.pc \in {"ask", "collect"} => s.request \subseteq s.unfinished

LEMMA Lists == AccountedFor <=> Split(send, retired) /\ Asks(send)
  BY DEF AccountedFor, Split, Asks, Successes

LEMMA Appended ==
  ASSUME NEW q \in Seq(Devices), NEW d \in Devices, d \notin Range(q), IsInjective(q)
  PROVE  /\ Append(q, d) \in Seq(Devices)
         /\ Range(Append(q, d)) = Range(q) \cup {d}
         /\ IsInjective(Append(q, d))
<1> DEFINE r == Append(q, d)
<1>1. /\ r \in Seq(Devices) /\ Len(q) \in Nat
      /\ DOMAIN q = 1 .. Len(q) /\ DOMAIN r = 1 .. Len(q) + 1
      /\ \A i \in DOMAIN q : r[i] = q[i]
      /\ r[Len(q) + 1] = d
  OBVIOUS
<1> HIDE DEF r
<1>2. Range(r) = Range(q) \cup {d}
  BY <1>1 DEF Range
<1>3. IsInjective(r)
  <2> SUFFICES ASSUME NEW a \in DOMAIN r, NEW b \in DOMAIN r, r[a] = r[b]
               PROVE  a = b
    BY DEF IsInjective
  <2>1. \A i \in DOMAIN q : q[i] # d
    BY DEF Range
  <2>2. \A i \in DOMAIN r : i \in DOMAIN q \/ i = Len(q) + 1
    BY <1>1
  <2>3. QED BY <1>1, <2>1, <2>2 DEF IsInjective
<1>4. QED BY <1>1, <1>2, <1>3 DEF r

(* addrs_remove(), of a device that said STOP ...                          *)
LEMMA RetireSplits ==
  ASSUME NEW r, NEW s \in Sends(r), NEW R \in SUBSET Devices, NEW d \in Devices, Split(s, R)
  PROVE  /\ Retire(s, d) \in Sends(r)
         /\ Split(Retire(s, d), R \cup {d})
         /\ Retire(s, d) = [s EXCEPT !.unfinished = @ \ {d}]
<1>1. /\ Retire(s, d) \in Sends(r)
      /\ Retire(s, d).unfinished = s.unfinished \ {d}
      /\ Retire(s, d).successed = s.successed
  BY DEF Retire, Sends
<1>2. QED BY <1>1 DEF Split, Retire

(* ... and of one that is done.                                            *)
LEMMA SucceedSplits ==
  ASSUME NEW r, NEW s \in Sends(r), NEW R \in SUBSET Devices, NEW d \in Devices, Split(s, R),
         NEW u, u = Succeed(s, d)
  PROVE  /\ u \in Sends(r) /\ Split(u, R)
         /\ u.unfinished = s.unfinished \ {d}
         /\ u.pc = s.pc /\ u.round = s.round /\ u.try = s.try /\ u.seq = s.seq
         /\ u.request = s.request
<1>1. CASE d \notin s.unfinished
  BY <1>1 DEF Succeed
<1>2. CASE d \in s.unfinished
  <2> DEFINE q == Append(s.successed, d)
             t == [[s EXCEPT !.unfinished = @ \ {d}] EXCEPT !.successed = q]
  <2>1. s.successed \in Seq(Devices) /\ d \notin Range(s.successed) /\ IsInjective(s.successed)
    BY <1>2 DEF Split, Sends
  <2>2. /\ q \in Seq(Devices) /\ Range(q) = Range(s.successed) \cup {d}
        /\ IsInjective(q)
    BY <2>1, Appended
  <2>3. Succeed(s, d) = t
    BY <1>2 DEF Succeed, Retire, Sends
  <2> HIDE DEF q
  <2>4. /\ t \in Sends(r) /\ t.unfinished = s.unfinished \ {d} /\ t.successed = q
        /\ t.pc = s.pc /\ t.round = s.round /\ t.try = s.try /\ t.seq = s.seq
        /\ t.request = s.request
    BY <2>2 DEF Sends
  <2> HIDE DEF t
  <2>5. Split(t, R)
    BY <1>2, <2>2, <2>4 DEF Split
  <2>6. QED BY <2>3, <2>4, <2>5
<1>3. QED BY <1>1, <1>2

-----------------------------------------------------------------------------
(***************************************************************************)
(* The sending task.                                                       *)
(***************************************************************************)
Fits(s, R) == s \in Sends(plan.retry) /\ Counts(s) /\ Split(s, R) /\ Asks(s)

LEMMA Current ==
  ASSUME RInv
  PROVE  Fits(send, retired)
  BY Lists DEF RInv, Fits, SendTyped, Placed

(* What a step of the task, or of the task and the queue, has to show.     *)
LEMMA TaskSteps ==
  ASSUME RInv, plan' = plan, send.pc # "off", UNCHANGED <<notSend, busy>>,
         MeshTyped', queue' \in Seq(StatusRecord), Len(queue') <= QueueCap,
         retired' \in SUBSET Devices, Fits(send', retired')
  PROVE  RInv'
<1>1. RootTyped' /\ DevicesTyped' /\ SendTyped' /\ Placed'
  BY DEF RInv, RootTyped, DevicesTyped, SendTyped, Placed, Counts, Fits, notSend, deviceVars,
     history, stopVars
<1>2. AccountedFor'
  BY DEF AccountedFor, Fits, Split, Asks, Successes, notSend
<1>3. QED BY <1>1, <1>2 DEF RInv

LEMMA QueueKept ==
  ASSUME RInv, plan' = plan, send.pc # "off", UNCHANGED <<notQueue, meshVars>>,
         Fits(send', retired)
  PROVE  RInv'
<1>1. UNCHANGED <<notSend, busy>> /\ queue' = queue /\ retired' = retired /\ MeshTyped'
  BY DEF notQueue, meshVars, RInv, MeshTyped
<1>2. QED BY <1>1, TaskSteps DEF RInv, RootTyped

LEMMA Received ==
  ASSUME RInv, Receive
  PROVE  /\ Head(queue) \in StatusRecord
         /\ queue' \in Seq(StatusRecord) /\ Len(queue') <= QueueCap
  BY RootAssumption DEF RootAssumption, RInv, RootTyped, Receive

LEMMA StatusTaken ==
  ASSUME RInv, plan' = plan, send.pc # "off", UNCHANGED <<notSend, meshVars>>, Receive,
         retired' \in SUBSET Devices, Fits(send', retired')
  PROVE  RInv'
<1>1. UNCHANGED <<notSend, busy>> /\ MeshTyped'
  BY DEF meshVars, RInv, MeshTyped
<1>2. QED BY <1>1, Received, TaskSteps

LEMMA RoundSteps ==
  ASSUME RInv, plan' = plan, Round
  PROVE  RInv'
<1>1. send.pc # "off" /\ UNCHANGED <<notQueue, meshVars>>
  BY DEF Round
<1>2. Fits(send', retired)
  BY Current DEF Round, Fits, Sends, Stages, Counts, Split, Asks
<1>3. QED BY <1>1, <1>2, QueueKept

LEMMA DoneFits ==
  ASSUME NEW s, NEW R, Fits(s, R)
  PROVE  Fits(UnlessDone(s), R)
  BY DEF UnlessDone, Fits, Sends, Stages, Counts, Split, Asks

LEMMA DrainSteps ==
  ASSUME RInv, plan' = plan, Drain
  PROVE  RInv'
<1> DEFINE st == Head(queue)
           R  == retired \cup (IF Stopped(st) /\ ~Finished(st) THEN {st.src} ELSE {})
           s  == AfterDrain(send, st)
<1>1. /\ send.pc = "drain" /\ UNCHANGED <<notSend, meshVars>> /\ Receive
      /\ send' = UnlessDone(s) /\ retired' = R
  BY DEF Drain
<1>2. st.src \in Devices /\ retired \in SUBSET Devices
  BY <1>1, Received DEF StatusRecord, RInv, RootTyped
<1>3. Fits(s, R)
  <2>1. CASE Finished(st)
    <3>1. s = Succeed(send, st.src) /\ R = retired
      BY <2>1 DEF AfterDrain
    <3>2. send \in Sends(plan.retry) /\ Split(send, retired) /\ Counts(send)
      BY Current DEF Fits
    <3>3. /\ s \in Sends(plan.retry) /\ Split(s, R)
          /\ s.pc = send.pc /\ s.round = send.round
      <4> HIDE DEF s, R
      <4>1. QED BY <1>2, <3>1, <3>2, SucceedSplits
    <3>4. QED BY <1>1, <3>2, <3>3 DEF Fits, Counts, Asks
  <2>2. CASE Stopped(st) /\ ~Finished(st)
    <3>1. s = Retire(send, st.src) /\ R = retired \cup {st.src}
      BY <2>2 DEF AfterDrain
    <3>2. /\ s.pc = send.pc /\ s.round = send.round
      BY <3>1, Current DEF Retire, Fits, Sends
    <3>3. QED BY <1>1, <1>2, <3>1, <3>2, Current, RetireSplits DEF Fits, Counts, Asks
  <2>3. CASE ~Stopped(st) /\ ~Finished(st)
    BY <2>3, Current DEF AfterDrain
  <2>4. QED BY <2>1, <2>2, <2>3
<1>4. Fits(send', retired') /\ retired' \in SUBSET Devices
  BY <1>1, <1>2, <1>3, DoneFits
<1>5. QED BY <1>1, <1>4, StatusTaken

LEMMA DrainEndsSteps ==
  ASSUME RInv, plan' = plan, DrainEnds
  PROVE  RInv'
<1>1. /\ send.pc = "drain" /\ UNCHANGED <<notQueue, meshVars>>
      /\ send' = [send EXCEPT !.pc = "ask", !.request = send.unfinished,
                              !.progress = Bits, !.try = 0]
  BY DEF DrainEnds
<1>2. send \in Sends(plan.retry) /\ Counts(send) /\ Split(send, retired)
  BY Current DEF Fits
<1>3. /\ send' \in Sends(plan.retry)
  <2> DEFINE u == [send EXCEPT !.pc = "ask", !.request = send.unfinished]
  <2>1. u \in Sends(plan.retry)
    BY <1>2 DEF Sends, Stages
  <2>2. Bits \in SUBSET Bits /\ 0 \in 0 .. 3
    OBVIOUS
  <2>3. send' = [u EXCEPT !.progress = Bits, !.try = 0]
    BY <1>1, <1>2 DEF Sends
  <2> HIDE DEF u
  <2>4. QED BY <2>1, <2>2, <2>3 DEF Sends
<1>4. /\ send'.pc = "ask" /\ send'.round = send.round
      /\ send'.unfinished = send.unfinished /\ send'.successed = send.successed
      /\ send'.request = send.unfinished
  BY <1>1, <1>2 DEF Sends, Stages
<1>5. Fits(send', retired)
  BY <1>1, <1>2, <1>3, <1>4 DEF Fits, Counts, Split, Asks
<1>6. QED BY <1>1, <1>5, QueueKept

(* mwifi_root_write() adds one message to some of the queues.              *)
LEMMA Written ==
  ASSUME RInv, NEW D, NEW m \in MessageRecord, Write(D, m), up' = up
  PROVE  MeshTyped'
<1>1. PICK S : down' = [d \in Devices |-> IF d \in S THEN Append(down[d], m) ELSE down[d]]
  BY DEF Write
<1>2. \A d \in Devices : Append(down[d], m) \in Seq(MessageRecord)
  BY DEF RInv, MeshTyped
<1>3. QED BY <1>1, <1>2 DEF RInv, MeshTyped

LEMMA AskSteps ==
  ASSUME RInv, plan' = plan, Ask
  PROVE  RInv'
<1> DEFINE m == [type |-> "status", fw |-> upgrade.fw]
<1>1. /\ send.pc = "ask" /\ send.try < 3 /\ Write(send.request, m)
      /\ send' = [send EXCEPT !.pc = "collect"]
      /\ UNCHANGED notQueue /\ up' = up /\ busy' = busy
  BY DEF Ask
<1>2. m \in MessageRecord
  BY <1>1 DEF MessageRecord, RInv, RootTyped, Placed
<1> HIDE DEF m
<1>3. MeshTyped'
  BY <1>1, <1>2, Written
<1>4. Fits(send', retired)
  BY <1>1, Current DEF Fits, Sends, Stages, Counts, Split, Asks
<1>5. QED BY <1>1, <1>3, <1>4, TaskSteps DEF notQueue, RInv, RootTyped

(* What an answer leaves of the lists.                                     *)
LEMMA AnswerFits ==
  ASSUME RInv, send.pc = "collect", NEW st \in StatusRecord,
         NEW s, s = AfterCollect(send, st),
         NEW R, R = retired \cup (IF Stopped(st) THEN {st.src} ELSE {})
  PROVE  /\ s \in Sends(plan.retry) /\ Split(s, R) /\ s.request \subseteq s.unfinished
         /\ s.pc = "collect" /\ s.round = send.round /\ s.try = send.try
<1> DEFINE d == st.src
           t == [send EXCEPT !.request = @ \ {d}]
<1>1. /\ send \in Sends(plan.retry) /\ Split(send, retired)
      /\ send.request \subseteq send.unfinished
  BY Current DEF Fits, Asks
<1>2. d \in Devices /\ retired \in SUBSET Devices
  BY DEF StatusRecord, RInv, RootTyped
<1>3. /\ t \in Sends(plan.retry)
      /\ t.request = send.request \ {d} /\ t.unfinished = send.unfinished
      /\ t.successed = send.successed
      /\ t.pc = send.pc /\ t.round = send.round /\ t.try = send.try
  BY <1>1 DEF Sends
<1> HIDE DEF d
<1>4. Split(t, retired)
  <2> HIDE DEF t
  <2>1. QED BY <1>1, <1>3 DEF Split
<1>5. CASE Stopped(st)
  <2> HIDE DEF t
  <2>1. s = Retire(t, d) /\ R = retired \cup {d}
    BY <1>5 DEF AfterCollect, d, t
  <2>2. s \in Sends(plan.retry) /\ Split(s, R)
    BY <1>2, <1>3, <1>4, <2>1, RetireSplits
  <2>3. /\ s.request = t.request /\ s.unfinished = t.unfinished \ {d}
        /\ s.pc = t.pc /\ s.round = t.round /\ s.try = t.try
    BY <1>3, <2>1 DEF Retire, Sends
  <2>4. QED BY <1>1, <1>3, <2>2, <2>3
<1>6. CASE ~Stopped(st) /\ st.src \notin send.request
  BY <1>1, <1>6 DEF AfterCollect
<1>7. CASE ~Stopped(st) /\ st.src \in send.request
  <2> DEFINE u == Answered(t, st)
  <2>1. /\ u \in Sends(plan.retry) /\ Split(u, retired)
        /\ u.request = t.request /\ u.request \subseteq u.unfinished
        /\ u.pc = t.pc /\ u.round = t.round /\ u.try = t.try
    <3> HIDE DEF t
    <3>1. CASE Finished(st)
      <4>1. u = Succeed(t, d)
        BY <3>1 DEF Answered, d
      <4> HIDE DEF u
      <4>2. QED BY <1>1, <1>2, <1>3, <1>4, <4>1, SucceedSplits
    <3>2. CASE ~Finished(st)
      <4>1. u = [t EXCEPT !.requested = @ \cup {d}]
        BY <3>2 DEF Answered, d
      <4>2. QED BY <1>1, <1>2, <1>3, <1>4, <4>1 DEF Split, Sends
    <3>3. QED BY <3>1, <3>2
  <2>2. Merge(u.progress, st) \in SUBSET Bits
    BY <2>1 DEF Merge, Sends
  <2>3. s = [u EXCEPT !.progress = Merge(u.progress, st)]
    BY <1>7, <2>1 DEF AfterCollect, Sends, t, d
  <2>4. R = retired
    BY <1>7
  <2> HIDE DEF t, u
  <2>5. QED BY <1>3, <2>1, <2>2, <2>3, <2>4 DEF Split, Sends
<1>8. QED BY <1>5, <1>6, <1>7

LEMMA CollectSteps ==
  ASSUME RInv, plan' = plan, Collect
  PROVE  RInv'
<1> DEFINE st == Head(queue)
           s  == AfterCollect(send, st)
           R  == retired \cup (IF Stopped(st) THEN {st.src} ELSE {})
<1>1. /\ send.pc = "collect" /\ UNCHANGED <<notSend, meshVars>> /\ Receive
      /\ send' = IF s.request = {} THEN [s EXCEPT !.pc = "ask"] ELSE s
      /\ retired' = R
  BY DEF Collect
<1>2. st \in StatusRecord /\ retired \in SUBSET Devices
  BY <1>1, Received DEF RInv, RootTyped
<1>3. /\ s \in Sends(plan.retry) /\ Split(s, R) /\ s.request \subseteq s.unfinished
      /\ s.pc = "collect" /\ s.round = send.round /\ s.try = send.try
  BY <1>1, <1>2, AnswerFits
<1>4. send.round < plan.retry /\ send.try < 3
  BY <1>1, Current DEF Fits, Counts
<1>5. R \in SUBSET Devices
  BY <1>2 DEF StatusRecord
<1> HIDE DEF s, R
<1>6. Fits(send', retired')
  BY <1>1, <1>3, <1>4 DEF Fits, Sends, Stages, Counts, Split, Asks
<1>7. QED BY <1>1, <1>5, <1>6, StatusTaken

LEMMA CollectEndsSteps ==
  ASSUME RInv, plan' = plan, CollectEnds
  PROVE  RInv'
<1>1. /\ send.pc = "collect" /\ UNCHANGED <<notQueue, meshVars>>
      /\ send' = [send EXCEPT !.pc = "ask", !.try = @ + 1]
  BY DEF CollectEnds
<1>2. /\ send \in Sends(plan.retry) /\ Counts(send) /\ Split(send, retired) /\ Asks(send)
  BY Current DEF Fits
<1>3. send.try + 1 \in 0 .. 3
  BY <1>1, <1>2 DEF Sends, Counts
<1>4. Fits(send', retired)
  BY <1>1, <1>2, <1>3 DEF Fits, Sends, Stages, Counts, Split, Asks
<1>5. QED BY <1>1, <1>4, QueueKept

LEMMA RequestEndsSteps ==
  ASSUME RInv, plan' = plan, RequestEnds
  PROVE  RInv'
<1>1. /\ send.pc = "ask" /\ UNCHANGED <<notQueue, meshVars>>
      /\ \/ send' = [send EXCEPT !.pc = "exit"]
         \/ send' = [send EXCEPT !.pc = "send", !.seq = 0]
  BY DEF RequestEnds
<1>2. /\ send \in Sends(plan.retry) /\ Counts(send) /\ Split(send, retired)
  BY Current DEF Fits
<1>3. 0 \in 0 .. MaxPacket
  BY RootAssumption DEF RootAssumption
<1>4. Fits(send', retired)
  BY <1>1, <1>2, <1>3 DEF Fits, Sends, Stages, Counts, Split, Asks
<1>5. QED BY <1>1, <1>4, QueueKept

LEMMA SequenceInRange ==
  ASSUME RInv, send.pc # "off", Sending
  PROVE  send.seq + 1 \in 0 .. MaxPacket /\ send.seq < MaxPacket
<1>1. upgrade.fw \in Firmware
  BY DEF RInv, RootTyped, Placed
<1>2. PacketNum[upgrade.fw] \in Nat /\ PacketNum[upgrade.fw] <= MaxPacket /\ MaxPacket \in Nat
  BY <1>1, Packets, RootAssumption DEF RootAssumption
<1>3. send.seq \in Nat
  BY RootAssumption DEF RootAssumption, RInv, SendTyped, Sends
<1>4. QED BY <1>2, <1>3 DEF Sending

LEMMA SendSteps ==
  ASSUME RInv, plan' = plan, SendEnds \/ SendSkips \/ SendReads
  PROVE  RInv'
<1>1. /\ send.pc = "send" /\ UNCHANGED <<notQueue, meshVars>>
      /\ \/ send' = [send EXCEPT !.pc = "round", !.round = @ + 1]
         \/ Sending /\ send' = [send EXCEPT !.seq = @ + 1]
         \/ Sending /\ send' = [send EXCEPT !.pc = "poll"]
         \/ send' = [send EXCEPT !.pc = "exit"]
  BY DEF SendEnds, SendSkips, SendReads
<1>2. /\ send \in Sends(plan.retry) /\ Counts(send) /\ Split(send, retired)
  BY Current DEF Fits
<1>3. send.round + 1 \in 0 .. plan.retry
  BY <1>1, <1>2, Retries DEF RInv, Sends, Counts
<1>4. Sending => send.seq + 1 \in 0 .. MaxPacket /\ send.seq < MaxPacket
  BY <1>1, SequenceInRange
<1>5. Fits(send', retired)
  <2>1. CASE send' = [send EXCEPT !.pc = "round", !.round = @ + 1]
    BY <1>1, <1>2, <1>3, <2>1 DEF Fits, Sends, Stages, Counts, Split, Asks
  <2>2. CASE Sending /\ send' = [send EXCEPT !.seq = @ + 1]
    BY <1>1, <1>2, <1>4, <2>2 DEF Fits, Sends, Stages, Counts, Split, Asks
  <2>3. CASE Sending /\ send' = [send EXCEPT !.pc = "poll"]
    BY <1>1, <1>2, <1>4, <2>3 DEF Fits, Sends, Stages, Counts, Split, Asks
  <2>4. CASE send' = [send EXCEPT !.pc = "exit"]
    BY <1>1, <1>2, <2>4 DEF Fits, Sends, Stages, Counts, Split, Asks
  <2>5. QED BY <1>1, <2>1, <2>2, <2>3, <2>4
<1>6. QED BY <1>1, <1>5, QueueKept

(* A status with written_size 0 is never one of a device that is done, so  *)
(* the first branch of the poll, which could drop an address, is not taken.*)
LEMMA NoEmptyFinish ==
  ASSUME NEW st \in StatusRecord
  PROVE  ~PollsFinish(st)
  BY Packets DEF PollsFinish, Finished, StatusRecord

LEMMA PollSteps ==
  ASSUME RInv, plan' = plan, Poll
  PROVE  RInv'
<1> DEFINE st == Head(queue)
           R  == retired \cup (IF Stopped(st) /\ ~PollsFinish(st) THEN {st.src} ELSE {})
           s  == AfterPoll(send, st)
<1>1. /\ send.pc = "poll" /\ UNCHANGED <<notSend, meshVars>> /\ Receive
      /\ send' = UnlessDone(s) /\ retired' = R
  BY DEF Poll
<1>2. st \in StatusRecord /\ st.src \in Devices /\ retired \in SUBSET Devices
  BY <1>1, Received DEF StatusRecord, RInv, RootTyped
<1>3. /\ send \in Sends(plan.retry) /\ Split(send, retired) /\ Counts(send)
  BY Current DEF Fits
<1>4. Fits(s, R)
  <2>1. CASE Stopped(st)
    <3> DEFINE u == Retire(send, st.src)
    <3>1. s = [u EXCEPT !.requested = @ \ {st.src}] /\ R = retired \cup {st.src}
      BY <1>2, <2>1, NoEmptyFinish DEF AfterPoll, Unrequest
    <3>2. u \in Sends(plan.retry) /\ Split(u, retired \cup {st.src})
      BY <1>2, <1>3, RetireSplits
    <3>3. u.pc = send.pc /\ u.round = send.round /\ u.seq = send.seq
      BY <1>3 DEF Retire, Sends
    <3> HIDE DEF u, s, R
    <3>4. QED BY <1>1, <1>3, <3>1, <3>2, <3>3 DEF Fits, Sends, Counts, Split, Asks
  <2>2. CASE ~Stopped(st)
    <3>1. s = send /\ R = retired
      BY <1>2, <2>2, NoEmptyFinish DEF AfterPoll
    <3>2. QED BY <3>1, Current
  <2>3. QED BY <2>1, <2>2
<1>5. Fits(send', retired') /\ retired' \in SUBSET Devices
  BY <1>1, <1>2, <1>4, DoneFits
<1>6. QED BY <1>1, <1>5, StatusTaken

LEMMA PollEndsSteps ==
  ASSUME RInv, plan' = plan, PollEnds
  PROVE  RInv'
<1> DEFINE m == [type |-> "data", seq |-> send.seq]
<1>1. /\ send.pc = "poll" /\ Write(Destinations, m)
      /\ send' = [send EXCEPT !.pc = "send", !.seq = @ + 1]
      /\ UNCHANGED notQueue /\ up' = up /\ busy' = busy
  BY DEF PollEnds
<1>2. /\ send \in Sends(plan.retry) /\ Counts(send) /\ Split(send, retired)
  BY Current DEF Fits
<1>3. send.seq \in Bits /\ send.seq + 1 \in 0 .. MaxPacket
  BY <1>1, <1>2, RootAssumption DEF RootAssumption, Sends, Counts, Bits
<1>4. m \in MessageRecord
  BY <1>3 DEF MessageRecord
<1> HIDE DEF m
<1>5. MeshTyped'
  BY <1>1, <1>4, Written
<1>6. Fits(send', retired)
  BY <1>1, <1>2, <1>3 DEF Fits, Sends, Stages, Counts, Split, Asks
<1>7. QED BY <1>1, <1>5, <1>6, TaskSteps DEF notQueue, RInv, RootTyped

LEMMA NothingQueued ==
  <<>> \in Seq(StatusRecord) /\ Len(<<>>) <= QueueCap
  BY RootAssumption DEF RootAssumption

(* What a step that leaves the lists and the stage alone has to show.      *)
LEMMA ListsKept ==
  ASSUME RInv, plan' = plan, RootTyped', DevicesTyped', MeshTyped',
         UNCHANGED <<send, targets, retired>>,
         upgrade'.err = "FINISH" \/ send.pc # "off" => upgrade'.fw # NoFw
  PROVE  RInv'
  BY DEF RInv, SendTyped, Placed, Counts, AccountedFor, Successes

LEMMA ExitSteps ==
  ASSUME RInv, plan' = plan, Exit \/ Flush \/ Give
  PROVE  RInv'
<1>1. /\ send \in Sends(plan.retry) /\ Counts(send) /\ Split(send, retired)
      /\ send.pc # "off"
  BY Current DEF Fits, Exit, Flush, Give
<1>2. DevicesTyped' /\ MeshTyped' /\ targets' = targets /\ upgrade' = upgrade
  BY DEF RInv, DevicesTyped, MeshTyped, Exit, Flush, Give, notSend, deviceVars, meshVars, history
<1>3. RootTyped' /\ retired' = retired
  BY NothingQueued DEF RInv, RootTyped, Exit, Flush, Give, notSend, stopVars
<1>4. CASE Exit \/ Flush
  <2>1. PICK pc \in {"flush", "give"} : send' = [send EXCEPT !.pc = pc]
    BY <1>4 DEF Exit, Flush
  <2>2. Fits(send', retired)
    BY <1>1, <2>1 DEF Fits, Sends, Stages, Counts, Split, Asks
  <2>3. QED BY <1>1, <1>2, <1>3, <2>2 DEF RInv, Fits, SendTyped, Placed, Counts, AccountedFor,
            Split, Asks, Successes
<1>5. CASE Give
  <2>1. send' = [Idle EXCEPT !.unfinished = send.unfinished, !.successed = send.successed]
    BY <1>5 DEF Give
  <2>2. plan.retry \in Nat /\ MaxPacket \in Nat
    BY Retries, RootAssumption DEF RInv, RootAssumption
  <2>3. Idle \in Sends(plan.retry)
    <3>1. 0 \in 0 .. plan.retry /\ 0 \in 0 .. 3 /\ 0 \in 0 .. MaxPacket
      BY <2>2
    <3>2. <<>> \in Seq(Devices) /\ {} \in SUBSET Devices /\ {} \in SUBSET Bits
      OBVIOUS
    <3>3. QED BY <3>1, <3>2 DEF Idle, Sends, Stages
  <2>4. /\ send' \in Sends(plan.retry) /\ send'.pc = "off"
        /\ send'.unfinished = send.unfinished /\ send'.successed = send.successed
    <3>1. Idle.pc = "off"
      BY DEF Idle
    <3> HIDE DEF Idle
    <3>2. QED BY <1>1, <2>1, <2>3, <3>1 DEF Sends
  <2>5. Fits(send', retired)
    BY <1>1, <2>4 DEF Fits, Counts, Split, Asks
  <2>6. QED BY <1>1, <1>2, <1>3, <2>5 DEF RInv, Fits, SendTyped, Placed, Counts, AccountedFor,
            Split, Asks, Successes
<1>6. QED BY <1>4, <1>5

-----------------------------------------------------------------------------
(***************************************************************************)
(* The other tasks of the root.                                            *)
(***************************************************************************)
LEMMA StartSteps ==
  ASSUME RInv, plan' = plan, NEW T \in SUBSET Devices, SendStart(T)
  PROVE  RInv'
<1>1. /\ upgrade.err = "FINISH" /\ targets' = T /\ retired' = {}
      /\ send' = [Idle EXCEPT !.pc = "round", !.unfinished = T]
  BY DEF SendStart
<1>2. RootTyped' /\ DevicesTyped' /\ MeshTyped' /\ upgrade' = upgrade
  BY DEF RInv, RootTyped, DevicesTyped, MeshTyped, SendStart, deviceVars, stopVars, meshVars,
     history
<1>3. Idle \in Sends(plan.retry) /\ Idle.successed = <<>>
  <2>1. plan.retry \in Nat /\ MaxPacket \in Nat
    BY Retries, RootAssumption DEF RInv, RootAssumption
  <2>2. 0 \in 0 .. plan.retry /\ 0 \in 0 .. 3 /\ 0 \in 0 .. MaxPacket
    BY <2>1
  <2>3. <<>> \in Seq(Devices) /\ {} \in SUBSET Devices /\ {} \in SUBSET Bits
    OBVIOUS
  <2>4. QED BY <2>2, <2>3 DEF Idle, Sends, Stages
<1>4. /\ send' \in Sends(plan.retry) /\ send'.pc = "round"
      /\ send'.unfinished = T /\ send'.successed = <<>>
  <2> HIDE DEF Idle
  <2>1. QED BY <1>1, <1>3 DEF Sends, Stages
<1>5. AccountedFor'
  BY <1>1, <1>4 DEF AccountedFor, Successes, Range, IsInjective
<1>6. Placed'
  BY <1>1, <1>2, <1>4 DEF RInv, Placed, Counts
<1>7. QED BY <1>2, <1>4, <1>5, <1>6 DEF RInv, SendTyped

LEMMA DownloadSteps ==
  ASSUME RInv, plan' = plan,
         FirmwareDownload \/ \E f \in Firmware : FirmwareInit(f)
  PROVE  RInv'
<1>1. DevicesTyped' /\ MeshTyped' /\ UNCHANGED <<send, targets, retired>>
  BY DEF RInv, DevicesTyped, MeshTyped, FirmwareDownload, FirmwareInit, deviceVars, meshVars, history
<1>2. /\ RootTyped' /\ send.pc = "off"
      /\ upgrade'.err = "FINISH" => upgrade'.fw # NoFw
  <2>1. CASE FirmwareDownload
    BY <2>1 DEF RInv, RootTyped, FirmwareDownload, stopVars
  <2>2. CASE \E f \in Firmware : FirmwareInit(f)
    BY <2>2, DeviceAssumption DEF DeviceAssumption, RInv, RootTyped, FirmwareInit
  <2>3. QED BY <2>1, <2>2
<1>3. QED BY <1>1, <1>2, ListsKept

LEMMA HandleSteps ==
  ASSUME RInv, plan' = plan, HandleTask
  PROVE  RInv'
<1>1. DevicesTyped' /\ UNCHANGED <<send, targets, retired, upgrade>>
  BY DEF RInv, DevicesTyped, HandleTask, Enqueue, Handle, deviceVars, meshVars, history
<1>2. CASE Enqueue
  <2>1. \A st \in StatusRecord : Len(queue) < QueueCap =>
           Append(queue, st) \in Seq(StatusRecord) /\ Len(Append(queue, st)) <= QueueCap
    BY RootAssumption DEF RootAssumption, RInv, RootTyped
  <2>2. queue' = queue \/ \E st \in StatusRecord : Len(queue) < QueueCap /\ queue' = Append(queue, st)
    BY <1>2 DEF Enqueue, RInv, RootTyped
  <2>3. RootTyped' /\ MeshTyped'
    BY <1>2, <2>1, <2>2 DEF Enqueue, RInv, RootTyped, MeshTyped, stopVars, meshVars
  <2>4. QED BY <1>1, <2>3, ListsKept DEF RInv, Placed
<1>3. ASSUME NEW d \in Devices, Handle(d) PROVE RInv'
  <2>1. Head(up[d]) \in StatusRecord /\ Tail(up[d]) \in Seq(StatusRecord)
    BY <1>3 DEF Handle, RInv, MeshTyped
  <2>2. RootTyped' /\ MeshTyped'
    BY <1>3, <2>1 DEF Handle, RInv, RootTyped, MeshTyped, stopVars
  <2>3. QED BY <1>1, <2>2, ListsKept DEF RInv, Placed
<1>4. QED BY <1>2, <1>3 DEF HandleTask

LEMMA StopSteps ==
  ASSUME RInv, plan' = plan, StopBegin \/ StopTask
  PROVE  RInv'
<1>1. UNCHANGED notStop
  BY DEF StopBegin, StopTask, StopCreate, StopClear, StopDelete
<1>2. DevicesTyped' /\ MeshTyped' /\ UNCHANGED <<send, targets, retired, upgrade>>
  BY <1>1 DEF RInv, DevicesTyped, MeshTyped, notStop, deviceVars, meshVars, history
<1>3. RootTyped'
  BY NothingQueued DEF RInv, RootTyped, StopBegin, StopTask, StopCreate, StopClear, StopDelete, notStop
<1>4. QED BY <1>2, <1>3, ListsKept DEF RInv, Placed

LEMMA RestartSteps ==
  ASSUME RInv, plan' = plan, RootRestart
  PROVE  RInv'
<1>1. DevicesTyped' /\ MeshTyped'
  BY DEF RInv, DevicesTyped, MeshTyped, RootRestart, deviceVars, meshVars, history
<1>2. RootTyped'
  BY NothingQueued DEF RInv, RootTyped, RootRestart
<1>3. SendTyped'
  <2>1. plan.retry \in Nat /\ MaxPacket \in Nat
    BY Retries, RootAssumption DEF RInv, RootAssumption
  <2>2. 0 \in 0 .. plan.retry /\ 0 \in 0 .. 3 /\ 0 \in 0 .. MaxPacket
    BY <2>1
  <2>3. <<>> \in Seq(Devices) /\ {} \in SUBSET Devices /\ {} \in SUBSET Bits
    OBVIOUS
  <2>4. QED BY <2>2, <2>3 DEF RootRestart, SendTyped, Idle, Sends, Stages
<1>4. Placed' /\ AccountedFor'
  <2>1. /\ send'.pc = "off" /\ send'.unfinished = {} /\ send'.successed = <<>>
        /\ targets' = {} /\ retired' = {} /\ upgrade'.err = "OK"
    BY DEF RootRestart, Idle
  <2>2. QED BY <2>1 DEF Placed, Counts, AccountedFor, Successes, Range, IsInjective
<1>5. QED BY <1>1, <1>2, <1>3, <1>4 DEF RInv

-----------------------------------------------------------------------------
(***************************************************************************)
(* The devices.                                                            *)
(***************************************************************************)
LEMMA DevicesKeepLists ==
  ASSUME RInv, plan' = plan, UNCHANGED rootVars, DevicesTyped', MeshTyped'
  PROVE  RInv'
<1>1. RootTyped' /\ UNCHANGED <<send, targets, retired, upgrade>>
  BY DEF RInv, RootTyped, rootVars, stopVars
<1>2. QED BY <1>1, ListsKept DEF RInv, Placed

DeviceData ==
  /\ claim \in [Devices -> Firmware \cup {NoFw}]
  /\ got \in [Devices -> SUBSET Bits]
  /\ halted \in [Devices -> BOOLEAN]
  /\ selected \in [Devices -> SUBSET Firmware]

LEMMA DeviceDataTyped ==
  ASSUME DeviceData, NEW d \in Devices,
         \/ UNCHANGED deviceVars
         \/ \E f \in Firmware : Start(d, f)
         \/ \E p \in Bits : Gather(d, p)
         \/ Select(d)
         \/ Halt(d)
         \/ \E f \in Firmware \cup {NoFw} : \E P \in SUBSET Bits : Resume(d, f, P)
  PROVE  DeviceData'
<1>1. CASE UNCHANGED deviceVars
  BY <1>1 DEF DeviceData, deviceVars
<1>2. CASE \E f \in Firmware : Start(d, f)
  BY <1>2 DEF DeviceData, Start
<1>3. CASE \E p \in Bits : Gather(d, p)
  <2>1. PICK p \in Bits : got' = [got EXCEPT ![d] = got[d] \cup {p}]
    BY <1>3 DEF Gather
  <2>2. got[d] \cup {p} \in SUBSET Bits
    BY DEF DeviceData
  <2>3. QED BY <1>3, <2>1, <2>2 DEF DeviceData, Gather
<1>4. CASE Select(d)
  <2>1. /\ selected' = [selected EXCEPT ![d] = selected[d] \cup {claim[d]}]
        /\ got' = got \/ got' = [got EXCEPT ![d] = {}]
        /\ UNCHANGED <<claim, halted>>
    BY <1>4 DEF Select
  <2>2. selected[d] \cup {claim[d]} \in SUBSET Firmware
    BY <1>4 DEF DeviceData, Select
  <2>3. {} \in SUBSET Bits
    OBVIOUS
  <2>4. QED BY <2>1, <2>2, <2>3 DEF DeviceData
<1>5. CASE Halt(d)
  <2>1. /\ halted' = [halted EXCEPT ![d] = TRUE]
        /\ got' = got \/ got' = [got EXCEPT ![d] = {}]
        /\ UNCHANGED <<claim, selected>>
    BY <1>5 DEF Halt
  <2>2. {} \in SUBSET Bits
    OBVIOUS
  <2>3. QED BY <2>1, <2>2 DEF DeviceData
<1>6. CASE \E f \in Firmware \cup {NoFw} : \E P \in SUBSET Bits : Resume(d, f, P)
  BY <1>6 DEF DeviceData, Resume
<1>7. QED BY <1>1, <1>2, <1>3, <1>4, <1>5, <1>6

LEMMA ReplyTyped ==
  ASSUME MeshTyped, NEW d \in Devices, DeviceData', Reply(d)
  PROVE  up' \in [Devices -> Seq(StatusRecord)]
<1>1. Report(d) \in StatusRecord
  BY DEF Report, DeviceData, StatusRecord
<1>2. Append(up[d], Report(d)) \in Seq(StatusRecord)
  BY <1>1 DEF MeshTyped
<1>3. up' = up \/ up' = [up EXCEPT ![d] = Append(up[d], Report(d))]
  BY DEF Reply
<1> HIDE DEF StatusRecord
<1>4. QED BY <1>2, <1>3 DEF MeshTyped

LEMMA ConsumeTyped ==
  ASSUME MeshTyped, NEW d \in Devices, Consume(d)
  PROVE  /\ down' \in [Devices -> Seq(MessageRecord)]
         /\ Message(d) \in MessageRecord
<1>1. down[d] \in Seq(MessageRecord) /\ down[d] # <<>>
  BY DEF MeshTyped, Consume
<1>2. Head(down[d]) \in MessageRecord /\ Tail(down[d]) \in Seq(MessageRecord)
  BY <1>1
<1>3. QED BY <1>2 DEF MeshTyped, Consume, Message

LEMMA DeviceSteps ==
  ASSUME RInv, plan' = plan, NEW d \in Devices,
         Device(d) \/ DeviceStops(d) \/ DeviceRestarts(d)
  PROVE  RInv'
<1>1. UNCHANGED rootVars
  BY DEF Device, DeviceStatus, DeviceGathers, DeviceRefuses, DeviceIgnores, DeviceFinishes,
     DeviceStops, DeviceRestarts
<1>2. DeviceData /\ MeshTyped
  BY DEF RInv, DevicesTyped, DeviceData
<1>3. DeviceData'
  <2>1. \/ UNCHANGED deviceVars
        \/ \E f \in Firmware : Start(d, f)
        \/ \E p \in Bits : Gather(d, p)
        \/ Select(d)
        \/ Halt(d)
        \/ \E f \in Firmware \cup {NoFw} : \E P \in SUBSET Bits : Resume(d, f, P)
    <3>1. CASE DeviceStatus(d)
      BY <1>2, <3>1, ConsumeTyped DEF DeviceStatus, MessageRecord
    <3>2. CASE DeviceGathers(d)
      BY <1>2, <3>2, ConsumeTyped DEF DeviceGathers, MessageRecord
    <3>3. CASE DeviceRefuses(d) \/ DeviceIgnores(d) \/ DeviceFinishes(d) \/ DeviceStops(d)
      BY <3>3 DEF DeviceRefuses, DeviceIgnores, DeviceFinishes, DeviceStops
    <3>4. CASE DeviceRestarts(d)
      <4>1. CASE Resume(d, NoFw, {})
        BY <4>1
      <4>2. CASE \E f \in Firmware : \E P \in SUBSET All(f) : Resume(d, f, P)
        BY <4>2, Packets
      <4>3. QED BY <3>4, <4>1, <4>2 DEF DeviceRestarts
    <3>5. QED BY <3>1, <3>2, <3>3, <3>4 DEF Device
  <2>2. QED BY <1>2, <2>1, DeviceDataTyped
<1>4. busy' \in [Devices -> BOOLEAN]
  BY DEF RInv, DevicesTyped, Device, DeviceStatus, DeviceGathers, DeviceRefuses, DeviceIgnores,
     DeviceFinishes, DeviceStops, DeviceRestarts
<1>5. lost' \in SUBSET Devices
  BY DEF RInv, DevicesTyped, Device, DeviceStatus, DeviceGathers, DeviceRefuses, DeviceIgnores,
     DeviceFinishes, DeviceStops, DeviceRestarts, history
<1>9. resumed' \in [Devices -> SUBSET Firmware]
  <2>1. resumed \in [Devices -> SUBSET Firmware]
    BY DEF RInv, DevicesTyped
  <2>2. FullRecord(d) => claim'[d] \in Firmware
    BY <1>3 DEF FullRecord, DeviceData
  <2>3. CASE DeviceRestarts(d)
    BY <2>1, <2>2, <2>3 DEF DeviceRestarts
  <2>4. CASE ~DeviceRestarts(d)
    BY <2>1, <2>4 DEF Device, DeviceStatus, DeviceGathers, DeviceRefuses, DeviceIgnores,
       DeviceFinishes, DeviceStops, history
  <2>5. QED BY <2>3, <2>4
<1>6. down' \in [Devices -> Seq(MessageRecord)]
  <2>1. CASE Consume(d)
    BY <1>2, <2>1, ConsumeTyped
  <2>2. CASE DeviceFinishes(d) \/ DeviceStops(d)
    BY <1>2, <2>2 DEF DeviceFinishes, DeviceStops, MeshTyped
  <2>3. CASE DeviceRestarts(d)
    <3>1. <<>> \in Seq(MessageRecord)
      OBVIOUS
    <3>2. down' = [down EXCEPT ![d] = <<>>]
      BY <2>3 DEF DeviceRestarts
    <3>3. QED BY <1>2, <3>1, <3>2 DEF MeshTyped
  <2>4. QED BY <2>1, <2>2, <2>3 DEF Device, DeviceStatus, DeviceGathers, DeviceRefuses, DeviceIgnores
<1>7. up' \in [Devices -> Seq(StatusRecord)]
  <2>1. up' = up \/ Reply(d)
    BY DEF Device, DeviceStatus, DeviceGathers, DeviceRefuses, DeviceIgnores, DeviceFinishes,
       DeviceStops, DeviceRestarts
  <2>2. QED BY <1>2, <1>3, <2>1, ReplyTyped DEF MeshTyped
<1>8. QED BY <1>1, <1>3, <1>4, <1>5, <1>6, <1>7, <1>9, DevicesKeepLists
          DEF DevicesTyped, DeviceData, MeshTyped

-----------------------------------------------------------------------------
LEMMA RootStarts == Init => RInv
<1> SUFFICES ASSUME Init PROVE RInv
  OBVIOUS
<1>1. RootTyped
  BY NothingQueued DEF Init, RootInit, RootTyped
<1>2. DevicesTyped /\ MeshTyped
  BY DEF Init, DeviceInit, DevicesTyped, MeshTyped
<1>3. SendTyped
  <2>1. plan.retry \in Nat /\ MaxPacket \in Nat
    BY <1>1, Retries, RootAssumption DEF RootAssumption
  <2>2. 0 \in 0 .. plan.retry /\ 0 \in 0 .. 3 /\ 0 \in 0 .. MaxPacket
    BY <2>1
  <2>3. <<>> \in Seq(Devices) /\ {} \in SUBSET Devices /\ {} \in SUBSET Bits
    OBVIOUS
  <2>4. QED BY <2>2, <2>3 DEF Init, RootInit, SendTyped, Idle, Sends, Stages
<1>4. Placed /\ AccountedFor
  <2>1. /\ send.pc = "off" /\ send.unfinished = {} /\ send.successed = <<>>
        /\ targets = {} /\ retired = {} /\ upgrade.err = "OK"
    BY DEF Init, RootInit, Idle
  <2>2. QED BY <2>1 DEF Placed, Counts, AccountedFor, Successes, Range, IsInjective
<1>5. QED BY <1>1, <1>2, <1>3, <1>4 DEF RInv

LEMMA RootSteps == RInv /\ [Next]_vars => RInv'
<1> SUFFICES ASSUME RInv, [Next]_vars PROVE RInv'
  OBVIOUS
<1>1. CASE UNCHANGED vars
  BY <1>1, DevicesKeepLists DEF vars, deviceVars, meshVars, history, RInv, DevicesTyped,
     MeshTyped
<1>2. CASE Next
  <2>1. plan' = plan
    BY <1>2 DEF Next
  <2>2. CASE FirmwareDownload \/ \E f \in Firmware : FirmwareInit(f)
    BY <2>1, <2>2, DownloadSteps
  <2>3. CASE \E T \in SUBSET Devices \ {{}} : SendStart(T)
    BY <2>1, <2>3, StartSteps
  <2>4. CASE SendTask
    <3>1. CASE RequestStatus
      BY <2>1, <3>1, DrainSteps, DrainEndsSteps, AskSteps, CollectSteps, CollectEndsSteps,
         RequestEndsSteps DEF RequestStatus
    <3>2. CASE ~RequestStatus
      BY <2>1, <2>4, <3>2, RoundSteps, SendSteps, PollSteps, PollEndsSteps, ExitSteps DEF SendTask
    <3>3. QED BY <3>1, <3>2
  <2>5. CASE HandleTask \/ StopBegin \/ StopTask \/ RootRestart
    BY <2>1, <2>5, HandleSteps, StopSteps, RestartSteps
  <2>6. CASE \E d \in Devices : Device(d) \/ DeviceStops(d) \/ DeviceRestarts(d)
    BY <2>1, <2>6, DeviceSteps
  <2>7. QED BY <1>2, <2>2, <2>3, <2>4, <2>5, <2>6 DEF Next
<1>3. QED BY <1>1, <1>2

(* Every variable of the root side and of the mesh keeps its type: the     *)
(* queue what it has room for, the sending task its counters of rounds,    *)
(* tries and packets (mupgrade_root.c:221-305, 369-498).                   *)
THEOREM RootTypes == Spec => []TypeOK
<1>1. RInv => TypeOK
  BY Typing DEF RInv
<1>2. QED BY RootStarts, RootSteps, <1>1, PTL DEF Spec

(* The sum of the three lists: each target is unfinished, or has succeeded *)
(* once, or said STOP, whatever is lost or late and whoever restarts.      *)
THEOREM ListsAddUp == Spec => []AccountedFor
<1>1. RInv => AccountedFor
  BY Typing DEF RInv
<1>2. QED BY RootStarts, RootSteps, <1>1, PTL DEF Spec

-----------------------------------------------------------------------------
(***************************************************************************)
(* What the statuses say.  A status with all packets comes from a device   *)
(* that selected its firmware or resumed a full record of it, however late *)
(* it is read; and as long as a device has answered without being done, a  *)
(* packet is missing.                                                      *)
(***************************************************************************)
Honest(S, st) ==
  /\ st \in StatusRecord
  /\ st.fw = NoFw => st.bits = {}
  /\ st.fw # NoFw => st.bits \subseteq All(st.fw)
  /\ Finished(st) => st.fw \in S[st.src]

Vouched(S, q) == \A i \in DOMAIN q : Honest(S, q[i])

(* The firmwares a device selected, or has a full record of.               *)
Vouch == [d \in Devices |-> selected[d] \cup resumed[d]]

Gathered(d) ==
  /\ claim[d] = NoFw => got[d] = {}
  /\ claim[d] # NoFw => got[d] \subseteq All(claim[d])
  /\ claim[d] # NoFw /\ got[d] = All(claim[d]) => claim[d] \in Vouch[d] \/ busy[d]

RootHonest == Vouched(Vouch, queue) /\ \A st \in held : Honest(Vouch, st)
MeshHonest == \A d \in Devices : Gathered(d) /\ Vouched(Vouch, up[d])

Chosen(S, s) == \A d \in Range(s.successed) : S[d] # {}

Missing(s) ==
  s.pc \in {"ask", "collect"} => s.unfinished \subseteq s.request \/ s.progress # Bits

Reported == RootHonest /\ MeshHonest /\ Chosen(Vouch, send) /\ Missing(send)

(* Nothing is deselected, and no record forgotten.                         *)
Grows(S, T) == \A d \in Devices : S[d] \subseteq T[d]

LEMMA VouchKept ==
  ASSUME UNCHANGED <<deviceVars, resumed>>
  PROVE  Vouch' = Vouch
  BY DEF Vouch, deviceVars

LEMMA HonestStays ==
  ASSUME NEW S, NEW T, Grows(S, T), NEW st, Honest(S, st)
  PROVE  Honest(T, st)
  BY DEF Honest, Grows, StatusRecord

LEMMA VouchedStays ==
  ASSUME NEW S, NEW T, Grows(S, T), NEW q, Vouched(S, q)
  PROVE  Vouched(T, q)
  BY HonestStays DEF Vouched

LEMMA VouchedHead ==
  ASSUME NEW S, NEW q \in Seq(StatusRecord), Vouched(S, q), q # <<>>
  PROVE  Honest(S, Head(q)) /\ Vouched(S, Tail(q))
<1>1. /\ Len(q) \in Nat /\ Len(q) > 0 /\ DOMAIN q = 1 .. Len(q) /\ Head(q) = q[1]
      /\ DOMAIN Tail(q) = 1 .. Len(q) - 1
      /\ \A i \in 1 .. Len(q) - 1 : Tail(q)[i] = q[i + 1]
  OBVIOUS
<1>2. QED BY <1>1 DEF Vouched

LEMMA VouchedAppend ==
  ASSUME NEW S, NEW q \in Seq(StatusRecord), Vouched(S, q), NEW st \in StatusRecord, Honest(S, st)
  PROVE  Vouched(S, Append(q, st))
<1> DEFINE r == Append(q, st)
<1>1. /\ Len(q) \in Nat /\ DOMAIN q = 1 .. Len(q) /\ DOMAIN r = 1 .. Len(q) + 1
      /\ \A i \in 1 .. Len(q) : r[i] = q[i]
      /\ r[Len(q) + 1] = st
  OBVIOUS
<1> HIDE DEF r
<1>2. Vouched(S, r)
  BY <1>1 DEF Vouched
<1>3. QED BY <1>2 DEF r

LEMMA VouchedNone ==
  ASSUME NEW S
  PROVE  Vouched(S, <<>>)
  BY DEF Vouched

(***************************************************************************)
(* The devices: what they send is what they have.                          *)
(***************************************************************************)
(* The operators of a device, read at that device and at the others.       *)
LEMMA SelectsHere ==
  ASSUME DeviceData, NEW d \in Devices, Select(d)
  PROVE  /\ claim' = claim /\ halted' = halted
         /\ claim[d] # NoFw /\ got[d] = All(claim[d])
         /\ got'[d] \in {got[d], {}} /\ selected'[d] = selected[d] \cup {claim[d]}
         /\ \A e \in Devices \ {d} : got'[e] = got[e] /\ selected'[e] = selected[e]
<1>1. claim' = claim /\ halted' = halted /\ claim[d] # NoFw /\ got[d] = All(claim[d])
  BY DEF Select
<1>2. /\ selected'[d] = selected[d] \cup {claim[d]}
      /\ \A e \in Devices \ {d} : selected'[e] = selected[e]
  BY DEF Select, DeviceData
<1>3. got'[d] \in {got[d], {}} /\ \A e \in Devices \ {d} : got'[e] = got[e]
  BY DEF Select, DeviceData
<1>4. QED BY <1>1, <1>2, <1>3

LEMMA HaltsHere ==
  ASSUME DeviceData, NEW d \in Devices, Halt(d)
  PROVE  /\ claim' = claim /\ selected' = selected
         /\ claim[d] # NoFw /\ got'[d] \in {got[d], {}}
         /\ \A e \in Devices \ {d} : got'[e] = got[e] /\ halted'[e] = halted[e]
<1>1. claim' = claim /\ selected' = selected /\ claim[d] # NoFw
  BY DEF Halt
<1>2. got'[d] \in {got[d], {}} /\ \A e \in Devices \ {d} : got'[e] = got[e]
  BY DEF Halt, DeviceData
<1>3. \A e \in Devices \ {d} : halted'[e] = halted[e]
  BY DEF Halt, DeviceData
<1>4. QED BY <1>1, <1>2, <1>3

LEMMA ResumesHere ==
  ASSUME DeviceData, NEW d \in Devices, NEW f, NEW P, Resume(d, f, P)
  PROVE  /\ selected' = selected /\ claim'[d] = f /\ got'[d] = P
         /\ \A e \in Devices \ {d} : /\ claim'[e] = claim[e] /\ got'[e] = got[e]
                                     /\ halted'[e] = halted[e]
<1>1. selected' = selected
  BY DEF Resume
<1>2. claim'[d] = f /\ \A e \in Devices \ {d} : claim'[e] = claim[e]
  BY DEF Resume, DeviceData
<1>3. got'[d] = P /\ \A e \in Devices \ {d} : got'[e] = got[e]
  BY DEF Resume, DeviceData
<1>4. \A e \in Devices \ {d} : halted'[e] = halted[e]
  BY DEF Resume, DeviceData
<1>5. QED BY <1>1, <1>2, <1>3, <1>4

(* A restarted device claims nothing, or what its record holds.            *)
LEMMA RestartsHere ==
  ASSUME DeviceData, busy \in [Devices -> BOOLEAN],
         resumed \in [Devices -> SUBSET Firmware], NEW d \in Devices, DeviceRestarts(d)
  PROVE  /\ up' = up /\ selected' = selected /\ ~busy'[d] /\ lost' = lost \cup {d}
         /\ \A e \in Devices \ {d} : /\ claim'[e] = claim[e] /\ got'[e] = got[e]
                                     /\ halted'[e] = halted[e] /\ busy'[e] = busy[e]
                                     /\ resumed'[e] = resumed[e]
         /\ resumed[d] \subseteq resumed'[d]
         /\ FullRecord(d) => claim'[d] \in resumed'[d]
         /\ \/ claim'[d] = NoFw /\ got'[d] = {}
            \/ claim'[d] \in Firmware /\ got'[d] \subseteq All(claim'[d])
<1>1. up' = up /\ lost' = lost \cup {d}
  BY DEF DeviceRestarts
<1>2. busy' = [busy EXCEPT ![d] = FALSE]
  BY DEF DeviceRestarts
<1>3. ~busy'[d] /\ \A e \in Devices \ {d} : busy'[e] = busy[e]
  BY <1>2
<1>4. /\ \A e \in Devices \ {d} : resumed'[e] = resumed[e]
      /\ resumed[d] \subseteq resumed'[d]
      /\ FullRecord(d) => claim'[d] \in resumed'[d]
  BY DEF DeviceRestarts
<1>5. CASE Resume(d, NoFw, {})
  BY <1>1, <1>3, <1>4, <1>5, ResumesHere
<1>6. CASE \E f \in Firmware : \E P \in SUBSET All(f) : Resume(d, f, P)
  <2>1. PICK f \in Firmware : \E P \in SUBSET All(f) : Resume(d, f, P)
    BY <1>6
  <2>2. PICK P \in SUBSET All(f) : Resume(d, f, P)
    BY <2>1
  <2>3. QED BY <1>1, <1>3, <1>4, <2>2, ResumesHere
<1>7. QED BY <1>5, <1>6 DEF DeviceRestarts

LEMMA FinishesHere ==
  ASSUME DeviceData, busy \in [Devices -> BOOLEAN], NEW d \in Devices, DeviceFinishes(d)
  PROVE  /\ ~busy'[d] /\ claim' = claim /\ claim[d] # NoFw
         /\ got'[d] \in {got[d], {}} /\ resumed' = resumed
         /\ \A e \in Devices \ {d} : /\ got'[e] = got[e] /\ selected'[e] = selected[e]
                                     /\ halted'[e] = halted[e] /\ busy'[e] = busy[e]
         /\ \/ /\ selected'[d] = selected[d] \cup {claim[d]} /\ Reply(d)
               /\ got' = got /\ lost' = lost /\ halted' = halted
            \/ /\ selected' = selected /\ got'[d] = {} /\ up' = up
               /\ lost' = lost \cup {d}
<1>1. busy' = [busy EXCEPT ![d] = FALSE]
  BY DEF DeviceFinishes
<1>2. ~busy'[d] /\ \A e \in Devices \ {d} : busy'[e] = busy[e]
  BY <1>1
<1>5. resumed' = resumed
  BY DEF DeviceFinishes
<1>3. CASE Select(d) /\ got' = got /\ Reply(d) /\ lost' = lost
  BY <1>2, <1>3, <1>5, SelectsHere
<1>4. CASE Halt(d) /\ got'[d] = {} /\ lost' = lost \cup {d} /\ up' = up
  BY <1>2, <1>4, <1>5, HaltsHere
<1>6. QED BY <1>3, <1>4 DEF DeviceFinishes

LEMMA ReportHonest ==
  ASSUME NEW d \in Devices, DeviceData', Gathered(d)', ~busy'[d]
  PROVE  Report(d) \in StatusRecord /\ Honest(Vouch', Report(d))
<1>1. Report(d) \in StatusRecord
  BY DEF Report, DeviceData, StatusRecord
<1>2. /\ Report(d).src = d /\ Report(d).fw = claim'[d] /\ Report(d).bits = got'[d]
  BY DEF Report
<1>3. QED BY <1>1, <1>2 DEF Honest, Finished, Gathered

LEMMA DevicesReported ==
  ASSUME RInv, Reported, plan' = plan, NEW d \in Devices,
         Device(d) \/ DeviceStops(d) \/ DeviceRestarts(d)
  PROVE  Reported'
<1>1. UNCHANGED <<queue, held, send>>
  BY DEF Device, DeviceStatus, DeviceGathers, DeviceRefuses, DeviceIgnores, DeviceFinishes,
     DeviceStops, DeviceRestarts, rootVars
<1>2. /\ DeviceData /\ MeshTyped /\ busy \in [Devices -> BOOLEAN]
      /\ resumed \in [Devices -> SUBSET Firmware]
  BY DEF RInv, DevicesTyped, DeviceData
<1>3. RInv' /\ DeviceData'
  BY DeviceSteps DEF RInv, DevicesTyped, DeviceData
<1>0. resumed' = resumed \/ DeviceRestarts(d)
  BY DEF Device, DeviceStatus, DeviceGathers, DeviceRefuses, DeviceIgnores, DeviceFinishes,
     DeviceStops, history
<1>4. /\ Grows(selected, selected') /\ Grows(resumed, resumed')
      /\ \A e \in Devices \ {d} : /\ claim'[e] = claim[e] /\ got'[e] = got[e]
                                  /\ selected'[e] = selected[e] /\ busy'[e] = busy[e]
                                  /\ resumed'[e] = resumed[e] /\ up'[e] = up[e]
  <2>1. CASE DeviceStatus(d)
    BY <1>2, <2>1 DEF DeviceStatus, history, Start, deviceVars, DeviceData, MeshTyped, Reply, Grows
  <2>2. CASE DeviceGathers(d) \/ DeviceIgnores(d)
    BY <1>2, <2>2 DEF history, DeviceGathers, DeviceIgnores, Gather, deviceVars, DeviceData, Grows
  <2>3. CASE DeviceRefuses(d) \/ DeviceStops(d)
    BY <1>2, <2>3 DEF history, DeviceRefuses, DeviceStops, Halt, DeviceData, MeshTyped, Reply, Grows
  <2>4. CASE DeviceFinishes(d)
    <3>1. \A e \in Devices \ {d} : up'[e] = up[e]
      BY <1>2, <2>4 DEF DeviceFinishes, MeshTyped, Reply
    <3>2. selected[d] \subseteq selected'[d]
      BY <1>2, <2>4, FinishesHere
    <3>3. QED BY <1>2, <2>4, <3>1, <3>2, FinishesHere DEF Grows
  <2>5. CASE DeviceRestarts(d)
    BY <1>2, <2>5, RestartsHere DEF Grows
  <2>6. QED BY <2>1, <2>2, <2>3, <2>4, <2>5 DEF Device
<1>11. /\ Grows(Vouch, Vouch')
       /\ \A e \in Devices \ {d} : Vouch'[e] = Vouch[e]
  BY <1>4 DEF Grows, Vouch
<1>5. Gathered(d)' /\ (up'[d] # up[d] => ~busy'[d])
  <2>0. Gathered(d) /\ \A f \in Firmware : All(f) # {}
    BY Packets DEF Reported, MeshHonest
  <2>1. CASE DeviceStatus(d)
    <3>1. Vouch' = Vouch
      BY <2>1 DEF DeviceStatus, Start, deviceVars, history, Vouch
    <3>2. QED BY <1>2, <2>0, <2>1, <3>1, ConsumeTyped DEF DeviceStatus, Consume, Start,
              deviceVars, DeviceData, MessageRecord, Gathered
  <2>2. CASE DeviceGathers(d)
    <3>1. busy'[d] = (got'[d] = All(claim[d]))
      BY <1>2, <2>2, Zenon DEF DeviceGathers
    <3>2. /\ claim' = claim /\ up' = up
          /\ claim[d] # NoFw /\ got'[d] \subseteq All(claim[d])
      BY <1>2, <2>0, <2>2 DEF DeviceGathers, Gather, DeviceData, Gathered
    <3>3. QED BY <3>1, <3>2 DEF Gathered
  <2>3. CASE DeviceIgnores(d)
    <3>1. Vouch' = Vouch
      BY <2>3 DEF DeviceIgnores, deviceVars, history, Vouch
    <3>2. QED BY <1>2, <2>0, <2>3, <3>1 DEF DeviceIgnores, Consume, deviceVars, Gathered
  <2>4. CASE DeviceRefuses(d) \/ DeviceStops(d)
    <3>1. Vouch' = Vouch
      BY <2>4 DEF DeviceRefuses, DeviceStops, Halt, history, Vouch
    <3>2. QED BY <1>2, <2>0, <2>4, <3>1 DEF DeviceRefuses, DeviceStops, Consume, Halt,
              DeviceData, Gathered
  <2>5. CASE DeviceFinishes(d)
    <3>1. /\ ~busy'[d] /\ claim'[d] = claim[d] /\ claim[d] # NoFw
          /\ got'[d] \subseteq All(claim[d])
      BY <1>2, <2>0, <2>5, FinishesHere DEF Gathered
    <3>2. claim[d] \in selected'[d] \/ got'[d] = {}
      BY <1>2, <2>5, FinishesHere
    <3>3. got'[d] = All(claim[d]) => claim[d] \in selected'[d]
      BY <1>2, <2>0, <3>1, <3>2 DEF DeviceData
    <3>4. QED BY <3>1, <3>3 DEF Gathered, Vouch
  <2>6. CASE DeviceRestarts(d)
    BY <1>2, <2>6, RestartsHere, DeviceAssumption DEF DeviceAssumption, FullRecord, Gathered,
       Vouch
  <2>7. QED BY <2>1, <2>2, <2>3, <2>4, <2>5, <2>6 DEF Device
<1>6. Vouched(Vouch', up'[d])
  <2>1. up[d] \in Seq(StatusRecord) /\ Vouched(Vouch', up[d])
    BY <1>2, <1>11, VouchedStays DEF Reported, MeshHonest, MeshTyped
  <2>2. up' = up \/ Reply(d)
    BY DEF Device, DeviceStatus, DeviceGathers, DeviceRefuses, DeviceIgnores, DeviceFinishes,
       DeviceStops, DeviceRestarts
  <2>3. CASE up'[d] = up[d]
    BY <2>1, <2>3
  <2>4. CASE Reply(d) /\ up'[d] # up[d]
    <3>1. up'[d] = Append(up[d], Report(d))
      BY <1>2, <2>4 DEF Reply, MeshTyped
    <3>2. Report(d) \in StatusRecord /\ Honest(Vouch', Report(d))
      BY <1>3, <1>5, <2>4, ReportHonest
    <3>3. QED BY <2>1, <3>1, <3>2, VouchedAppend
  <2>5. QED BY <2>2, <2>3, <2>4
<1>7. MeshHonest'
  <2> SUFFICES ASSUME NEW e \in Devices
               PROVE  Gathered(e)' /\ Vouched(Vouch', up'[e])
    BY DEF MeshHonest
  <2>1. CASE e = d
    BY <1>5, <1>6, <2>1
  <2>2. CASE e # d
    <3>1. Gathered(e) /\ Vouched(Vouch, up[e])
      BY DEF Reported, MeshHonest
    <3>2. Gathered(e)'
      BY <1>4, <1>11, <2>2, <3>1 DEF Gathered
    <3>3. Vouched(Vouch', up'[e])
      BY <1>4, <1>11, <2>2, <3>1, VouchedStays
    <3>4. QED BY <3>2, <3>3
  <2>3. QED BY <2>1, <2>2
<1>8. RootHonest'
  BY <1>1, <1>11, VouchedStays, HonestStays DEF Reported, RootHonest
<1>9. Chosen(Vouch', send') /\ Missing(send')
  <2>1. \A e \in Range(send.successed) : e \in Devices
    BY DEF RInv, SendTyped, Sends, Range
  <2>2. QED BY <1>1, <1>11, <2>1 DEF Reported, Chosen, Missing, Grows
<1>10. QED BY <1>7, <1>8, <1>9 DEF Reported

(***************************************************************************)
(* The sending task: whom it counts as upgraded, and what it misses.       *)
(***************************************************************************)
LEMMA TaskReported ==
  ASSUME Reported, UNCHANGED <<deviceVars, resumed, held, busy, up>>, Vouched(Vouch, queue'),
         Chosen(Vouch, send'), Missing(send')
  PROVE  Reported'
  BY VouchKept DEF Reported, RootHonest, MeshHonest, Gathered, deviceVars

LEMMA SucceedChosen ==
  ASSUME NEW r, NEW s \in Sends(r), NEW R \in SUBSET Devices, Split(s, R),
         NEW st, Honest(Vouch, st), Finished(st), Chosen(Vouch, s),
         NEW u, u = Succeed(s, st.src)
  PROVE  Chosen(Vouch, u) /\ u.progress = s.progress
<1>1. st.src \in Devices /\ Vouch[st.src] # {}
  BY DEF Honest, StatusRecord
<1>2. CASE st.src \notin s.unfinished
  BY <1>2 DEF Succeed
<1>3. CASE st.src \in s.unfinished
  <2>1. s.successed \in Seq(Devices) /\ st.src \notin Range(s.successed) /\ IsInjective(s.successed)
    BY <1>3 DEF Split, Sends
  <2>2. Range(Append(s.successed, st.src)) = Range(s.successed) \cup {st.src}
    BY <1>1, <2>1, Appended
  <2>3. u.successed = Append(s.successed, st.src) /\ u.progress = s.progress
    BY <1>3 DEF Succeed, Retire, Sends
  <2>4. QED BY <1>1, <2>2, <2>3 DEF Chosen
<1>4. QED BY <1>2, <1>3

LEMMA RetireChosen ==
  ASSUME NEW r, NEW s \in Sends(r), NEW d, Chosen(Vouch, s)
  PROVE  Chosen(Vouch, Retire(s, d)) /\ Retire(s, d).progress = s.progress
  BY DEF Chosen, Retire, Sends

LEMMA DoneChosen ==
  ASSUME NEW s \in Sends(plan.retry), Chosen(Vouch, s), s.pc \notin {"ask", "collect"}
  PROVE  Chosen(Vouch, UnlessDone(s)) /\ Missing(UnlessDone(s))
<1>1. /\ UnlessDone(s).successed = s.successed
      /\ UnlessDone(s).pc \notin {"ask", "collect"}
  BY DEF UnlessDone, Sends
<1>2. QED BY <1>1 DEF Chosen, Missing

LEMMA ReceivedHonest ==
  ASSUME RInv, Reported, Receive
  PROVE  Honest(Vouch, Head(queue)) /\ Vouched(Vouch, queue')
  BY VouchedHead DEF RInv, RootTyped, Receive, Reported, RootHonest

LEMMA DrainReported ==
  ASSUME RInv, Reported, plan' = plan, Drain
  PROVE  Reported'
<1> DEFINE st == Head(queue)
           s  == AfterDrain(send, st)
<1>1. /\ send.pc = "drain" /\ UNCHANGED <<notSend, meshVars>> /\ Receive
      /\ send' = UnlessDone(s)
  BY DEF Drain
<1>2. Honest(Vouch, st) /\ st.src \in Devices /\ Vouched(Vouch, queue')
  BY <1>1, ReceivedHonest DEF Honest, StatusRecord
<1>3. /\ send \in Sends(plan.retry) /\ Split(send, retired) /\ Chosen(Vouch, send)
      /\ retired \in SUBSET Devices
  BY Current DEF Fits, Reported, RInv, RootTyped
<1>4. s \in Sends(plan.retry) /\ Chosen(Vouch, s) /\ s.pc = "drain"
  <2>1. CASE Finished(st)
    <3>1. s = Succeed(send, st.src)
      BY <2>1 DEF AfterDrain
    <3> HIDE DEF s, st
    <3>2. QED BY <1>1, <1>2, <1>3, <2>1, <3>1, SucceedSplits, SucceedChosen
  <2>2. CASE Stopped(st) /\ ~Finished(st)
    <3>1. s = Retire(send, st.src)
      BY <2>2 DEF AfterDrain
    <3>2. s.pc = send.pc
      BY <1>3, <3>1 DEF Retire, Sends
    <3>3. Retire(send, st.src) \in Sends(plan.retry)
      BY <1>2, <1>3, RetireSplits
    <3>4. Chosen(Vouch, Retire(send, st.src))
      BY <1>3, RetireChosen
    <3> HIDE DEF s, st
    <3>5. QED BY <1>1, <3>1, <3>2, <3>3, <3>4
  <2>3. CASE ~Stopped(st) /\ ~Finished(st)
    BY <1>1, <1>3, <2>3 DEF AfterDrain
  <2>4. QED BY <2>1, <2>2, <2>3
<1> HIDE DEF s
<1>5. Chosen(Vouch, send') /\ Missing(send')
  BY <1>1, <1>4, DoneChosen
<1>6. UNCHANGED <<deviceVars, resumed, held, busy, up>>
  BY <1>1 DEF notSend, meshVars, history
<1>7. QED BY <1>2, <1>5, <1>6, TaskReported

(* An answer of a device that is not done shows a packet missing.          *)
LEMMA AnswerMisses ==
  ASSUME RInv, send.pc # "off", NEW st, Honest(Vouch, st), ~Finished(st), NEW b
  PROVE  Merge(b, st) # Bits
<1>1. upgrade.fw \in Firmware
  BY DEF RInv, RootTyped, Placed
<1>2. Bits # {}
  BY <1>1, Packets
<1>3. CASE st.bits = {}
  BY <1>2, <1>3 DEF Merge
<1>4. CASE st.bits # {}
  <2>1. st.fw \in Firmware /\ st.bits \subseteq All(st.fw) /\ st.bits # All(st.fw)
    BY <1>4, DeviceAssumption DEF DeviceAssumption, Honest, StatusRecord, Finished
  <2>2. All(st.fw) \subseteq Bits
    BY <2>1, Packets
  <2>3. Merge(b, st) = b \cap st.bits
    BY <1>4 DEF Merge
  <2>4. QED BY <2>1, <2>2, <2>3
<1>5. QED BY <1>3, <1>4

LEMMA CollectReported ==
  ASSUME RInv, Reported, plan' = plan, Collect
  PROVE  Reported'
<1> DEFINE st == Head(queue)
           s  == AfterCollect(send, st)
           d  == st.src
           t  == [send EXCEPT !.request = @ \ {d}]
<1>1. /\ send.pc = "collect" /\ UNCHANGED <<notSend, meshVars>> /\ Receive
      /\ send' = IF s.request = {} THEN [s EXCEPT !.pc = "ask"] ELSE s
  BY DEF Collect
<1>2. Honest(Vouch, st) /\ d \in Devices /\ Vouched(Vouch, queue')
  BY <1>1, ReceivedHonest DEF Honest, StatusRecord
<1>3. /\ send \in Sends(plan.retry) /\ Split(send, retired) /\ Chosen(Vouch, send)
      /\ retired \in SUBSET Devices
      /\ send.unfinished \subseteq send.request \/ send.progress # Bits
  BY <1>1, Current DEF Fits, Reported, Missing, RInv, RootTyped
<1>4. /\ t \in Sends(plan.retry) /\ Chosen(Vouch, t)
      /\ t.request = send.request \ {d} /\ t.unfinished = send.unfinished
      /\ t.progress = send.progress /\ t.successed = send.successed
  BY <1>3 DEF Sends, Chosen
<1>5. Split(t, retired)
  <2> HIDE DEF t
  <2>1. QED BY <1>3, <1>4 DEF Split
<1>6. /\ s \in Sends(plan.retry)
  BY <1>1, <1>2, AnswerFits DEF Honest
<1>7. /\ Chosen(Vouch, s)
      /\ s.unfinished \subseteq s.request \/ s.progress # Bits
  <2>1. CASE Stopped(st)
    <3>1. s = Retire(t, d)
      BY <2>1 DEF AfterCollect
    <3> HIDE DEF s, t, d, st
    <3>2. s.unfinished = t.unfinished \ {d} /\ s.request = t.request
      BY <1>4, <3>1 DEF Retire, Sends
    <3>3. QED BY <1>3, <1>4, <3>1, <3>2, RetireChosen
  <2>2. CASE ~Stopped(st) /\ d \notin send.request
    BY <1>3, <2>2 DEF AfterCollect
  <2>3. CASE ~Stopped(st) /\ d \in send.request
    <3> DEFINE u == Answered(t, st)
    <3>1. s = [u EXCEPT !.progress = Merge(@, st)]
      BY <2>3 DEF AfterCollect
    <3>2. CASE Finished(st)
      <4>1. u = Succeed(t, d)
        BY <3>2 DEF Answered
      <4>2. st.bits # {}
        BY <1>2, <3>2, Packets, DeviceAssumption DEF DeviceAssumption, Finished, Honest, StatusRecord
      <4>3. \A b : Merge(b, st) = b
        BY <3>2, <4>2 DEF Merge
      <4> HIDE DEF u, s, t
      <4>4. /\ u \in Sends(plan.retry) /\ Chosen(Vouch, u)
            /\ u.progress = t.progress /\ u.request = t.request
            /\ u.unfinished = t.unfinished \ {d}
        BY <1>2, <1>3, <1>4, <1>5, <3>2, <4>1, SucceedSplits, SucceedChosen
      <4>5. QED BY <1>3, <1>4, <3>1, <4>3, <4>4 DEF Sends, Chosen
    <3>3. CASE ~Finished(st)
      <4>1. u = [t EXCEPT !.requested = @ \cup {d}]
        BY <3>3 DEF Answered
      <4> HIDE DEF u, s, t
      <4>2. u \in Sends(plan.retry) /\ u.successed = t.successed
        BY <1>2, <1>4, <4>1 DEF Sends
      <4>3. Merge(u.progress, st) # Bits
        BY <1>1, <1>2, <3>3, AnswerMisses
      <4>4. s.progress = Merge(u.progress, st) /\ s.successed = t.successed
        BY <3>1, <4>2 DEF Sends
      <4>5. QED BY <1>4, <4>3, <4>4 DEF Chosen
    <3>4. QED BY <3>2, <3>3
  <2>4. QED BY <2>1, <2>2, <2>3
<1> HIDE DEF s
<1>8. Chosen(Vouch, send') /\ Missing(send')
  BY <1>1, <1>6, <1>7 DEF Chosen, Missing, Sends
<1>9. UNCHANGED <<deviceVars, resumed, held, busy, up>>
  BY <1>1 DEF notSend, meshVars, history
<1>10. QED BY <1>2, <1>8, <1>9, TaskReported

LEMMA PollReported ==
  ASSUME RInv, Reported, plan' = plan, Poll
  PROVE  Reported'
<1> DEFINE st == Head(queue)
           s  == AfterPoll(send, st)
<1>1. /\ send.pc = "poll" /\ UNCHANGED <<notSend, meshVars>> /\ Receive
      /\ send' = UnlessDone(s)
  BY DEF Poll
<1>2. Honest(Vouch, st) /\ st \in StatusRecord /\ Vouched(Vouch, queue')
  BY <1>1, ReceivedHonest DEF Honest
<1>3. send \in Sends(plan.retry) /\ Chosen(Vouch, send)
  BY Current DEF Fits, Reported
<1>4. s = send \/ s = Unrequest(Retire(send, st.src), st.src)
  BY <1>2, NoEmptyFinish DEF AfterPoll
<1> HIDE DEF s
<1>5. s \in Sends(plan.retry) /\ Chosen(Vouch, s) /\ s.pc = "poll"
  <2> DEFINE u == Retire(send, st.src)
             v == Unrequest(u, st.src)
  <2>1. u \in Sends(plan.retry) /\ u.pc = "poll" /\ u.successed = send.successed
    BY <1>1, <1>3 DEF Retire, Sends
  <2> HIDE DEF u
  <2>2. /\ v \in Sends(plan.retry) /\ v.pc = "poll"
        /\ v.successed = send.successed
    BY <2>1 DEF Unrequest, Sends
  <2> HIDE DEF v
  <2>3. Chosen(Vouch, v)
    BY <1>3, <2>2 DEF Chosen
  <2>4. CASE s = send
    BY <1>1, <1>3, <2>4
  <2>5. CASE s = v
    BY <2>2, <2>3, <2>5
  <2>6. QED BY <1>4, <2>4, <2>5 DEF u, v
<1>6. Chosen(Vouch, send') /\ Missing(send')
  BY <1>1, <1>5, DoneChosen
<1>7. UNCHANGED <<deviceVars, resumed, held, busy, up>>
  BY <1>1 DEF notSend, meshVars, history
<1>8. QED BY <1>2, <1>6, <1>7, TaskReported

LEMMA SendTaskReported ==
  ASSUME RInv, Reported, plan' = plan, SendTask
  PROVE  Reported'
<1>1. CASE Drain \/ Collect \/ Poll
  BY <1>1, DrainReported, CollectReported, PollReported
<1>2. CASE /\ Round \/ DrainEnds \/ Ask \/ CollectEnds \/ RequestEnds \/ SendEnds \/ SendSkips
              \/ SendReads \/ PollEnds \/ Exit \/ Flush \/ Give
           /\ ~(Drain \/ Collect \/ Poll)
  <2>1. UNCHANGED <<deviceVars, resumed, held, busy, up>>
    BY <1>2 DEF Round, DrainEnds, Ask, CollectEnds, RequestEnds, SendEnds, SendSkips, SendReads,
       PollEnds, Exit, Flush, Give, notQueue, notSend, meshVars, history
  <2>2. Vouched(Vouch, queue')
    <3>1. queue' = queue \/ queue' = <<>>
      BY <1>2 DEF Round, DrainEnds, Ask, CollectEnds, RequestEnds, SendEnds, SendSkips, SendReads,
         PollEnds, Exit, Flush, Give, notQueue, notSend, meshVars, history
    <3>2. QED BY <3>1, VouchedNone DEF Reported, RootHonest
  <2>3. send \in Sends(plan.retry) /\ Chosen(Vouch, send) /\ Missing(send)
    BY Current DEF Fits, Reported
  <2>4. send'.successed = send.successed
    <3>1. CASE Give
      BY <2>3, <3>1 DEF Give, Idle
    <3>2. CASE ~Give
      BY <1>2, <2>3, <3>2 DEF Round, DrainEnds, Ask, CollectEnds, RequestEnds, SendEnds, SendSkips,
         SendReads, PollEnds, Exit, Flush, Sends
    <3>3. QED BY <3>1, <3>2
  <2>5. Missing(send')
    <3>1. CASE DrainEnds
      BY <2>3, <3>1 DEF DrainEnds, Missing, Sends
    <3>2. CASE Ask \/ CollectEnds
      BY <2>3, <3>2 DEF Ask, CollectEnds, Missing, Sends
    <3>3. CASE Give
      BY <3>3 DEF Give, Idle, Missing
    <3>4. CASE Round \/ RequestEnds
      BY <2>3, <3>4 DEF Round, RequestEnds, Missing, Sends
    <3>5. CASE SendEnds \/ SendSkips \/ SendReads
      BY <2>3, <3>5 DEF SendEnds, SendSkips, SendReads, Missing, Sends
    <3>6. CASE PollEnds \/ Exit \/ Flush
      BY <2>3, <3>6 DEF PollEnds, Exit, Flush, Missing, Sends
    <3>7. QED BY <1>2, <3>1, <3>2, <3>3, <3>4, <3>5, <3>6
  <2>6. Chosen(Vouch, send')
    BY <2>3, <2>4 DEF Chosen
  <2>7. QED BY <2>1, <2>2, <2>5, <2>6, TaskReported
<1>3. QED BY <1>1, <1>2 DEF SendTask, RequestStatus

LEMMA RootTasksReported ==
  ASSUME RInv, Reported, plan' = plan,
         \/ \E f \in Firmware : FirmwareInit(f)
         \/ FirmwareDownload
         \/ \E T \in SUBSET Devices \ {{}} : SendStart(T)
         \/ StopBegin \/ StopTask \/ RootRestart
  PROVE  Reported'
<1>1. UNCHANGED <<deviceVars, resumed, busy, up>>
  BY DEF FirmwareInit, FirmwareDownload, SendStart, StopBegin, StopTask, StopCreate, StopClear,
     StopDelete, RootRestart, notStop, meshVars, history
<1>2. (queue' = queue \/ queue' = <<>>) /\ (held' = held \/ held' = {})
  BY DEF FirmwareInit, FirmwareDownload, SendStart, StopBegin, StopTask, StopCreate, StopClear,
     StopDelete, RootRestart, notStop
<1>3. \/ send' = send
      \/ send' = [Idle EXCEPT !.pc = "round", !.unfinished = targets']
      \/ send' = Idle
  BY DEF FirmwareInit, FirmwareDownload, SendStart, StopBegin, StopTask, StopCreate, StopClear,
     StopDelete, RootRestart, notStop
<1>4. Chosen(Vouch, send') /\ Missing(send')
  <2>1. CASE send' = send
    BY <2>1 DEF Reported
  <2>2. CASE send' # send
    <3>1. send'.successed = <<>> /\ send'.pc \in {"round", "off"}
      <4>1. CASE send' = Idle
        BY <4>1 DEF Idle
      <4>2. CASE send' = [Idle EXCEPT !.pc = "round", !.unfinished = targets']
        BY <4>2 DEF Idle
      <4>3. QED BY <1>3, <2>2, <4>1, <4>2
    <3>2. QED BY <3>1 DEF Chosen, Missing, Range
  <2>3. QED BY <2>1, <2>2
<1>5. RootHonest'
  BY <1>1, <1>2, VouchKept, VouchedNone DEF Reported, RootHonest
<1>6. MeshHonest'
  BY <1>1, VouchKept DEF Reported, MeshHonest, Gathered, deviceVars
<1>7. QED BY <1>1, <1>4, <1>5, <1>6, VouchKept DEF Reported

LEMMA HandleReported ==
  ASSUME RInv, Reported, plan' = plan, HandleTask
  PROVE  Reported'
<1>1. UNCHANGED <<deviceVars, resumed, busy, send>>
  BY DEF HandleTask, Enqueue, Handle, meshVars, history
<1>2. CASE Enqueue
  <2>1. /\ held' = {} /\ up' = up
        /\ queue' = queue \/ \E st \in held : queue' = Append(queue, st)
    BY <1>2 DEF Enqueue, meshVars
  <2>2. \A st \in held : st \in StatusRecord /\ Honest(Vouch, st)
    BY DEF Reported, RootHonest, Honest
  <2>3. queue \in Seq(StatusRecord) /\ Vouched(Vouch, queue)
    BY DEF RInv, RootTyped, Reported, RootHonest
  <2>4. Vouched(Vouch, queue')
    BY <2>1, <2>2, <2>3, VouchedAppend
  <2>5. QED BY <1>1, <2>1, <2>4, VouchKept DEF Reported, RootHonest, MeshHonest, Gathered,
            deviceVars
<1>3. ASSUME NEW d \in Devices, Handle(d) PROVE Reported'
  <2>1. /\ queue' = queue /\ up[d] # <<>> /\ up[d] \in Seq(StatusRecord)
        /\ up' = [up EXCEPT ![d] = Tail(up[d])]
        /\ held' \subseteq {Head(up[d])}
    BY <1>3 DEF Handle, RInv, MeshTyped
  <2>2. Vouched(Vouch, Tail(up[d])) /\ Honest(Vouch, Head(up[d]))
    BY <2>1, VouchedHead DEF Reported, MeshHonest
  <2>3. \A e \in Devices : Vouched(Vouch, up'[e])
    BY <2>1, <2>2 DEF RInv, MeshTyped, Reported, MeshHonest
  <2>4. QED BY <1>1, <2>1, <2>2, <2>3, VouchKept DEF Reported, RootHonest, MeshHonest, Gathered,
            deviceVars
<1>4. QED BY <1>2, <1>3 DEF HandleTask

LEMMA ReportsStart == Init => Reported
<1> SUFFICES ASSUME Init PROVE Reported
  OBVIOUS
<1>1. RootHonest /\ MeshHonest
  BY VouchedNone DEF Init, DeviceInit, RootInit, RootHonest, MeshHonest, Gathered
<1>2. send.successed = <<>> /\ send.pc = "off"
  BY DEF Init, RootInit, Idle
<1>3. QED BY <1>1, <1>2 DEF Reported, Chosen, Missing, Range

LEMMA ReportsStep == RInv /\ Reported /\ [Next]_vars => Reported'
<1> SUFFICES ASSUME RInv, Reported, [Next]_vars PROVE Reported'
  OBVIOUS
<1>1. CASE UNCHANGED vars
  BY <1>1, VouchKept DEF vars, rootVars, deviceVars, meshVars, history, Reported, RootHonest,
     MeshHonest, Gathered
<1>2. CASE Next
  BY <1>2, SendTaskReported, RootTasksReported, HandleReported, DevicesReported DEF Next
<1>3. QED BY <1>1, <1>2

LEMMA RootInvariant == Spec => [](RInv /\ Reported)
  BY RootStarts, RootSteps, ReportsStart, ReportsStep, PTL DEF Spec

(* A device counted as upgraded did select the firmware that was           *)
(* distributed, or resumed a full record of it after a restart, if there   *)
(* is only one firmware: a status does not say in which distribution it    *)
(* was sent.                                                               *)
THEOREM SuccessesSelected ==
  ASSUME \A f, g \in Firmware : f = g
  PROVE  Spec => []SuccessTrue
<1>1. RInv /\ Reported => SuccessTrue
  <2> SUFFICES ASSUME RInv, Reported, send.pc # "off", NEW d \in Successes
               PROVE  upgrade.fw \in selected[d] \cup resumed[d]
    BY DEF SuccessTrue
  <2>1. upgrade.fw \in Firmware
    BY DEF RInv, RootTyped, Placed
  <2>2. d \in Devices
    BY DEF RInv, SendTyped, Sends, Successes, Range
  <2>3. Vouch[d] # {} /\ Vouch[d] = selected[d] \cup resumed[d]
    BY <2>2 DEF Reported, Chosen, Successes, Vouch
  <2>4. selected[d] \cup resumed[d] \subseteq Firmware
    BY <2>2 DEF RInv, DevicesTyped
  <2>5. QED BY <2>1, <2>3, <2>4
<1>2. QED BY RootInvariant, <1>1, PTL

(* mupgrade_request_status() returns MDF_OK only when no device is left    *)
(* unfinished.                                                             *)
THEOREM OkOnlyWhenDone == Spec => OkMeansDone
<1>1. RInv /\ Reported => (RequestEnds /\ send'.pc = "exit" => send.unfinished = {})
  <2> SUFFICES ASSUME RInv, Reported, RequestEnds, send'.pc = "exit"
               PROVE  send.unfinished = {}
    OBVIOUS
  <2>1. send \in Sends(plan.retry)
    BY DEF RInv, SendTyped
  <2>2. send.pc = "ask" /\ send.request = {} /\ send.progress = Bits
    BY <2>1 DEF RequestEnds, Sends
  <2>3. QED BY <2>2 DEF Reported, Missing
<1>2. QED BY RootInvariant, <1>1, PTL DEF OkMeansDone

-----------------------------------------------------------------------------
(***************************************************************************)
(* The packets that are skipped.  While one firmware is distributed, what  *)
(* a status says stays true of its device, unless the device restarts or   *)
(* stops; so a packet counted as present everywhere is.                    *)
(***************************************************************************)
Had(G, L, st) == st.src \notin L => st.bits \subseteq G[st.src]

HadAll(G, L, q) == \A i \in DOMAIN q : Had(G, L, q[i])

Covered(G, L, s, f) ==
  /\ s.pc = "drain" => s.requested = {}
  /\ s.pc \in {"ask", "collect", "send", "poll"} =>
       \A d \in s.requested \ L : s.progress \cap All(f) \subseteq G[d]

Lasting ==
  /\ \A d \in Devices : halted[d] => d \in lost
  /\ HadAll(got, lost, queue)
  /\ \A st \in held : Had(got, lost, st)
  /\ \A d \in Devices : HadAll(got, lost, up[d])
  /\ Covered(got, lost, send, upgrade.fw)

(* Only devices on the list of the lost ones lose packets.                 *)
Keeps(G, L, H, M) == L \subseteq M /\ \A d \in Devices \ M : G[d] \subseteq H[d]

LEMMA HadStays ==
  ASSUME NEW G, NEW L, NEW H, NEW M, Keeps(G, L, H, M),
         NEW st \in StatusRecord, Had(G, L, st)
  PROVE  Had(H, M, st)
  BY DEF Keeps, Had, StatusRecord

LEMMA HadAllStays ==
  ASSUME NEW G, NEW L, NEW H, NEW M, Keeps(G, L, H, M),
         NEW q \in Seq(StatusRecord), HadAll(G, L, q)
  PROVE  HadAll(H, M, q)
<1>1. \A i \in DOMAIN q : q[i] \in StatusRecord
  OBVIOUS
<1>2. QED BY <1>1, HadStays DEF HadAll

LEMMA HadHead ==
  ASSUME NEW G, NEW L, NEW q \in Seq(StatusRecord), HadAll(G, L, q), q # <<>>
  PROVE  Had(G, L, Head(q)) /\ HadAll(G, L, Tail(q))
<1>1. /\ Len(q) \in Nat /\ Len(q) > 0 /\ DOMAIN q = 1 .. Len(q) /\ Head(q) = q[1]
      /\ DOMAIN Tail(q) = 1 .. Len(q) - 1
      /\ \A i \in 1 .. Len(q) - 1 : Tail(q)[i] = q[i + 1]
  OBVIOUS
<1>2. QED BY <1>1 DEF HadAll

LEMMA HadAppend ==
  ASSUME NEW G, NEW L, NEW q \in Seq(StatusRecord), HadAll(G, L, q),
         NEW st \in StatusRecord, Had(G, L, st)
  PROVE  HadAll(G, L, Append(q, st))
<1> DEFINE r == Append(q, st)
<1>1. /\ Len(q) \in Nat /\ DOMAIN q = 1 .. Len(q) /\ DOMAIN r = 1 .. Len(q) + 1
      /\ \A i \in 1 .. Len(q) : r[i] = q[i]
      /\ r[Len(q) + 1] = st
  OBVIOUS
<1> HIDE DEF r
<1>2. HadAll(G, L, r)
  BY <1>1 DEF HadAll
<1>3. QED BY <1>2 DEF r

LEMMA HadNone ==
  ASSUME NEW G, NEW L
  PROVE  HadAll(G, L, <<>>)
  BY DEF HadAll

LEMMA CoveredStays ==
  ASSUME NEW G, NEW L, NEW H, NEW M, Keeps(G, L, H, M),
         NEW r, NEW s \in Sends(r), NEW f, Covered(G, L, s, f)
  PROVE  Covered(H, M, s, f)
<1>1. s.requested \subseteq Devices
  BY DEF Sends
<1>2. QED BY <1>1 DEF Keeps, Covered

LEMMA DevicesLasting ==
  ASSUME \A f, g \in Firmware : f = g,
         RInv, Reported, Lasting, plan' = plan, NEW d \in Devices,
         Device(d) \/ DeviceStops(d) \/ DeviceRestarts(d)
  PROVE  Lasting'
<1>1. UNCHANGED <<queue, held, send, upgrade>>
  BY DEF Device, DeviceStatus, DeviceGathers, DeviceRefuses, DeviceIgnores, DeviceFinishes,
     DeviceStops, DeviceRestarts, rootVars
<1>2. /\ DeviceData /\ MeshTyped /\ lost \in SUBSET Devices
      /\ busy \in [Devices -> BOOLEAN] /\ resumed \in [Devices -> SUBSET Firmware]
  BY DEF RInv, DevicesTyped, DeviceData
<1>3. RInv' /\ DeviceData'
  BY DeviceSteps DEF RInv, DevicesTyped, DeviceData
<1>4. Gathered(d) /\ (halted[d] => d \in lost)
  BY DEF Reported, MeshHonest, Lasting
<1>5. /\ Keeps(got, lost, got', lost')
      /\ \A e \in Devices : halted'[e] => e \in lost'
  <2>0. \A e \in Devices : halted[e] => e \in lost
    BY DEF Lasting
  <2>1. CASE DeviceStatus(d)
    <3>1. CASE UNCHANGED deviceVars
      BY <2>0, <2>1, <3>1 DEF DeviceStatus, deviceVars, Keeps, history
    <3>2. CASE \E f \in Firmware : Start(d, f)
      <4>1. claim[d] = NoFw
        BY <1>2, <3>2 DEF Start, DeviceData
      <4>2. QED BY <1>2, <1>4, <2>0, <2>1, <3>2, <4>1 DEF DeviceStatus, Start, DeviceData, Gathered, Keeps, history
    <3>3. Message(d).fw \in Firmware
      BY <1>2, <2>1, ConsumeTyped DEF DeviceStatus, MessageRecord
    <3>4. QED BY <2>1, <3>1, <3>2, <3>3 DEF DeviceStatus
  <2>2. CASE DeviceGathers(d)
    BY <1>2, <2>0, <2>2 DEF DeviceGathers, Gather, DeviceData, Keeps, history
  <2>3. CASE DeviceIgnores(d)
    BY <1>2, <2>0, <2>3 DEF DeviceIgnores, deviceVars, Keeps, history
  <2>4. CASE DeviceRefuses(d)
    BY <1>2, <1>4, <2>0, <2>4 DEF DeviceRefuses, Halt, DeviceData, Keeps, history
  <2>5. CASE DeviceStops(d)
    BY <1>2, <2>0, <2>5 DEF DeviceStops, Halt, DeviceData, Keeps
  <2>6. CASE DeviceFinishes(d)
    <3>1. /\ \A e \in Devices \ {d} : got'[e] = got[e] /\ halted'[e] = halted[e]
          /\ \/ got' = got /\ lost' = lost /\ halted' = halted
             \/ lost' = lost \cup {d}
      BY <1>2, <2>6, FinishesHere
    <3>2. QED BY <2>0, <3>1 DEF Keeps
  <2>7. CASE DeviceRestarts(d)
    <3>1. /\ lost' = lost \cup {d}
          /\ \A e \in Devices \ {d} : got'[e] = got[e] /\ halted'[e] = halted[e]
      BY <1>2, <2>7, RestartsHere
    <3>2. QED BY <2>0, <3>1 DEF Keeps
  <2>8. QED BY <2>1, <2>2, <2>3, <2>4, <2>5, <2>6, <2>7 DEF Device
<1>6. \A e \in Devices : HadAll(got', lost', up'[e])
  <2>1. \A e \in Devices : up[e] \in Seq(StatusRecord) /\ HadAll(got', lost', up[e])
    BY <1>2, <1>5, HadAllStays DEF Lasting, MeshTyped
  <2>2. up' = up \/ Reply(d)
    BY DEF Device, DeviceStatus, DeviceGathers, DeviceRefuses, DeviceIgnores, DeviceFinishes,
       DeviceStops, DeviceRestarts
  <2>3. CASE up' = up
    BY <2>1, <2>3
  <2>4. CASE up' = [up EXCEPT ![d] = Append(up[d], Report(d))]
    <3>1. Report(d) \in StatusRecord /\ Had(got', lost', Report(d))
      BY <1>3 DEF Report, DeviceData, StatusRecord, Had
    <3>2. HadAll(got', lost', Append(up[d], Report(d)))
      BY <2>1, <3>1, HadAppend
    <3>3. QED BY <1>2, <2>1, <2>4, <3>2 DEF MeshTyped
  <2>5. QED BY <2>2, <2>3, <2>4 DEF Reply
<1>7. HadAll(got', lost', queue') /\ \A st \in held' : Had(got', lost', st)
  BY <1>1, <1>5, HadAllStays, HadStays DEF Lasting, RInv, RootTyped
<1>8. Covered(got', lost', send', upgrade'.fw)
  BY <1>1, <1>5, CoveredStays DEF Lasting, RInv, SendTyped
<1>9. QED BY <1>5, <1>6, <1>7, <1>8 DEF Lasting

LEMMA TaskLasting ==
  ASSUME Lasting, UNCHANGED <<deviceVars, held, up, lost>>, HadAll(got, lost, queue'),
         Covered(got, lost, send', upgrade'.fw)
  PROVE  Lasting'
  BY DEF Lasting, deviceVars

LEMMA ReceivedHad ==
  ASSUME RInv, Lasting, Receive
  PROVE  Had(got, lost, Head(queue)) /\ HadAll(got, lost, queue')
  BY HadHead DEF RInv, RootTyped, Receive, Lasting

LEMMA CollectLasting ==
  ASSUME RInv, Lasting, plan' = plan, Collect
  PROVE  Lasting'
<1> DEFINE st == Head(queue)
           s  == AfterCollect(send, st)
           d  == st.src
           t  == [send EXCEPT !.request = @ \ {d}]
           f  == upgrade.fw
           Covers(v) == \A e \in v.requested \ lost : v.progress \cap All(f) \subseteq got[e]
<1>1. /\ send.pc = "collect" /\ UNCHANGED <<notSend, meshVars>> /\ Receive
      /\ send' = IF s.request = {} THEN [s EXCEPT !.pc = "ask"] ELSE s
  BY DEF Collect
<1>2. st \in StatusRecord /\ d \in Devices /\ Had(got, lost, st) /\ HadAll(got, lost, queue')
  BY <1>1, Received, ReceivedHad DEF StatusRecord
<1>3. send \in Sends(plan.retry) /\ Split(send, retired) /\ Covers(send)
      /\ retired \in SUBSET Devices
  BY <1>1, Current DEF Fits, Lasting, Covered, RInv, RootTyped
<1>4. /\ t \in Sends(plan.retry) /\ t.requested = send.requested
      /\ t.progress = send.progress /\ t.unfinished = send.unfinished
      /\ t.successed = send.successed
  BY <1>3 DEF Sends
<1>5. s \in Sends(plan.retry)
  BY <1>1, <1>2, AnswerFits
<1>6. Covers(s)
  <2>1. CASE Stopped(st)
    <3>1. s = Retire(t, d)
      BY <2>1 DEF AfterCollect
    <3> HIDE DEF s, t, d, st
    <3>2. s.requested = t.requested /\ s.progress = t.progress
      BY <1>4, <3>1 DEF Retire, Sends
    <3>3. QED BY <1>3, <1>4, <3>2
  <2>2. CASE ~Stopped(st) /\ d \notin send.request
    BY <1>3, <2>2 DEF AfterCollect
  <2>3. CASE ~Stopped(st) /\ d \in send.request
    <3> DEFINE u == Answered(t, st)
    <3>1. s = [u EXCEPT !.progress = Merge(@, st)]
      BY <2>3 DEF AfterCollect
    <3>2. \A b : Merge(b, st) \subseteq b
      BY DEF Merge
    <3>3. CASE Finished(st)
      <4>1. u = Succeed(t, d)
        BY <3>3 DEF Answered
      <4> HIDE DEF u, s, t, d
      <4>2. u = t \/ u = [[t EXCEPT !.unfinished = @ \ {d}] EXCEPT !.successed = Append(@, d)]
        BY <4>1 DEF Succeed, Retire
      <4>3. /\ s.requested = t.requested /\ s.progress \subseteq t.progress
        BY <1>4, <3>1, <3>2, <4>2 DEF Sends
      <4>4. QED BY <1>3, <1>4, <4>3
    <3>4. CASE ~Finished(st)
      <4>1. u = [t EXCEPT !.requested = @ \cup {d}]
        BY <3>4 DEF Answered
      <4>2. \A b : Merge(b, st) \subseteq st.bits
        BY <3>4 DEF Merge
      <4> HIDE DEF u, s, t
      <4>3. /\ s.requested = t.requested \cup {d}
            /\ s.progress \subseteq t.progress /\ s.progress \subseteq st.bits
        BY <1>4, <3>1, <3>2, <4>1, <4>2 DEF Sends
      <4>4. QED BY <1>2, <1>3, <1>4, <4>3 DEF Had
    <3>5. QED BY <3>3, <3>4
  <2>4. QED BY <2>1, <2>2, <2>3
<1> HIDE DEF s
<1>7. /\ send'.requested = s.requested /\ send'.progress = s.progress
      /\ send'.pc # "drain"
  <2>1. s.pc = "collect"
    BY <1>1, <1>2, AnswerFits DEF s
  <2>2. QED BY <1>1, <1>5, <2>1 DEF Sends
<1>8. upgrade' = upgrade /\ UNCHANGED <<deviceVars, held, up, lost>>
  BY <1>1 DEF notSend, meshVars, history
<1>9. Covered(got, lost, send', upgrade'.fw)
  BY <1>6, <1>7, <1>8 DEF Covered
<1>10. QED BY <1>2, <1>8, <1>9, TaskLasting

LEMMA PollLasting ==
  ASSUME RInv, Lasting, plan' = plan, Drain \/ Poll
  PROVE  Lasting'
<1> DEFINE st == Head(queue)
<1>1. UNCHANGED <<notSend, meshVars>> /\ Receive
  BY DEF Drain, Poll
<1>2. upgrade' = upgrade /\ UNCHANGED <<deviceVars, held, up, lost>>
  BY <1>1 DEF notSend, meshVars, history
<1>3. st \in StatusRecord /\ HadAll(got, lost, queue')
  BY <1>1, Received, ReceivedHad
<1>4. send \in Sends(plan.retry) /\ Covered(got, lost, send, upgrade.fw)
  BY Current DEF Fits, Lasting
<1>5. CASE Drain
  <2> DEFINE s == AfterDrain(send, st)
  <2>1. /\ send.pc = "drain" /\ send' = UnlessDone(s)
    BY <1>5 DEF Drain
  <2>2. \/ s = send
        \/ s = Retire(send, st.src)
        \/ s = [Retire(send, st.src) EXCEPT !.successed = Append(@, st.src)]
    BY DEF AfterDrain, Succeed
  <2> HIDE DEF s
  <2>3. send'.pc \in {"drain", "exit"} /\ send'.requested = send.requested
    <3>1. /\ s.pc = "drain" /\ s.requested = send.requested
          /\ [s EXCEPT !.pc = "exit"].pc = "exit"
          /\ [s EXCEPT !.pc = "exit"].requested = s.requested
      BY <1>4, <2>1, <2>2 DEF Retire, Sends
    <3>2. QED BY <2>1, <3>1 DEF UnlessDone
  <2>4. QED BY <1>2, <1>3, <1>4, <2>1, <2>3, TaskLasting DEF Covered
<1>6. CASE Poll
  <2> DEFINE s == AfterPoll(send, st)
  <2>1. send.pc = "poll" /\ send' = UnlessDone(s)
    BY <1>6 DEF Poll
  <2>2. s = send \/ s = Unrequest(Retire(send, st.src), st.src)
    BY <1>3, NoEmptyFinish DEF AfterPoll
  <2> HIDE DEF s
  <2>3. /\ send'.pc \in {"poll", "exit"} /\ send'.requested \subseteq send.requested
        /\ send'.progress = send.progress
    <3>1. CASE s = send
      <4>1. /\ [s EXCEPT !.pc = "exit"].pc = "exit"
            /\ [s EXCEPT !.pc = "exit"].requested = s.requested
            /\ [s EXCEPT !.pc = "exit"].progress = s.progress
        BY <1>4, <3>1 DEF Sends
      <4>2. QED BY <2>1, <3>1, <4>1 DEF UnlessDone
    <3>2. CASE s = Unrequest(Retire(send, st.src), st.src)
      <4> DEFINE v == [send EXCEPT !.unfinished = @ \ {st.src},
                                   !.requested = @ \ {st.src}]
      <4>1. s = v
        BY <1>4, <3>2 DEF Unrequest, Retire, Sends
      <4>2. /\ v.pc = send.pc /\ v.progress = send.progress
            /\ v.requested = send.requested \ {st.src}
        BY <1>4 DEF Sends
      <4>3. /\ [v EXCEPT !.pc = "exit"].pc = "exit"
            /\ [v EXCEPT !.pc = "exit"].requested = v.requested
            /\ [v EXCEPT !.pc = "exit"].progress = v.progress
        BY <1>4 DEF Sends
      <4> HIDE DEF v
      <4>4. QED BY <2>1, <4>1, <4>2, <4>3 DEF UnlessDone
    <3>3. QED BY <2>2, <3>1, <3>2
  <2>4. QED BY <1>2, <1>3, <1>4, <2>1, <2>3, TaskLasting DEF Covered
<1>7. QED BY <1>5, <1>6

LEMMA SendTaskLasting ==
  ASSUME RInv, Lasting, plan' = plan, SendTask
  PROVE  Lasting'
<1>1. CASE Drain \/ Collect \/ Poll
  BY <1>1, CollectLasting, PollLasting
<1>2. CASE /\ Round \/ DrainEnds \/ Ask \/ CollectEnds \/ RequestEnds \/ SendEnds \/ SendSkips
              \/ SendReads \/ PollEnds \/ Exit \/ Flush \/ Give
           /\ ~(Drain \/ Collect \/ Poll)
  <2>1. UNCHANGED <<deviceVars, held, up, lost>> /\ upgrade' = upgrade
    BY <1>2 DEF Round, DrainEnds, Ask, CollectEnds, RequestEnds, SendEnds, SendSkips, SendReads,
       PollEnds, Exit, Flush, Give, notQueue, notSend, meshVars, history
  <2>2. HadAll(got, lost, queue')
    <3>1. queue' = queue \/ queue' = <<>>
      BY <1>2 DEF Round, DrainEnds, Ask, CollectEnds, RequestEnds, SendEnds, SendSkips, SendReads,
         PollEnds, Exit, Flush, Give, notQueue, notSend, meshVars, history
    <3>2. QED BY <3>1, HadNone DEF Lasting
  <2>3. send \in Sends(plan.retry) /\ Covered(got, lost, send, upgrade.fw)
    BY Current DEF Fits, Lasting
  <2>4. Covered(got, lost, send', upgrade.fw)
    <3>1. CASE Round
      BY <2>3, <3>1 DEF Round, Covered, Sends
    <3>2. CASE DrainEnds
      BY <2>3, <3>2 DEF DrainEnds, Covered, Sends
    <3>3. CASE Ask \/ CollectEnds
      BY <2>3, <3>3 DEF Ask, CollectEnds, Covered, Sends
    <3>4. CASE RequestEnds
      BY <2>3, <3>4 DEF RequestEnds, Covered, Sends
    <3>5. CASE SendEnds \/ SendSkips \/ SendReads \/ PollEnds
      BY <2>3, <3>5 DEF SendEnds, SendSkips, SendReads, PollEnds, Covered, Sends
    <3>6. CASE Exit \/ Flush
      BY <2>3, <3>6 DEF Exit, Flush, Covered, Sends
    <3>7. CASE Give
      BY <3>7 DEF Give, Idle, Covered
    <3>8. QED BY <1>2, <3>1, <3>2, <3>3, <3>4, <3>5, <3>6, <3>7
  <2>5. QED BY <2>1, <2>2, <2>4, TaskLasting
<1>3. QED BY <1>1, <1>2 DEF SendTask, RequestStatus

LEMMA OtherTasksLasting ==
  ASSUME RInv, Lasting, plan' = plan,
         \/ \E f \in Firmware : FirmwareInit(f)
         \/ FirmwareDownload
         \/ \E T \in SUBSET Devices \ {{}} : SendStart(T)
         \/ StopBegin \/ StopTask \/ RootRestart
  PROVE  Lasting'
<1>1. UNCHANGED <<deviceVars, lost, up>>
  BY DEF FirmwareInit, FirmwareDownload, SendStart, StopBegin, StopTask, StopCreate, StopClear,
     StopDelete, RootRestart, notStop, meshVars, history
<1>2. (queue' = queue \/ queue' = <<>>) /\ (held' = held \/ held' = {})
  BY DEF FirmwareInit, FirmwareDownload, SendStart, StopBegin, StopTask, StopCreate, StopClear,
     StopDelete, RootRestart, notStop
<1>3. Covered(got, lost, send', upgrade'.fw)
  <2>1. CASE FirmwareDownload \/ \E f \in Firmware : FirmwareInit(f)
    BY <2>1 DEF FirmwareDownload, FirmwareInit, Covered
  <2>2. CASE \E T \in SUBSET Devices \ {{}} : SendStart(T)
    BY <2>2 DEF SendStart, Idle, Covered
  <2>3. CASE StopBegin \/ StopTask
    BY <2>3 DEF StopBegin, StopTask, StopCreate, StopClear, StopDelete, notStop, Lasting
  <2>4. CASE RootRestart
    BY <2>4 DEF RootRestart, Idle, Covered
  <2>5. QED BY <2>1, <2>2, <2>3, <2>4
<1>4. HadAll(got, lost, queue') /\ \A st \in held' : Had(got, lost, st)
  BY <1>2, HadNone DEF Lasting
<1>5. QED BY <1>1, <1>3, <1>4 DEF Lasting, deviceVars

LEMMA HandleLasting ==
  ASSUME RInv, Lasting, plan' = plan, HandleTask
  PROVE  Lasting'
<1>1. UNCHANGED <<deviceVars, lost, send, upgrade>>
  BY DEF HandleTask, Enqueue, Handle, meshVars, history
<1>2. CASE Enqueue
  <2>1. /\ held' = {} /\ up' = up
        /\ queue' = queue \/ \E st \in held : queue' = Append(queue, st)
    BY <1>2 DEF Enqueue, meshVars
  <2>2. \A st \in held : st \in StatusRecord /\ Had(got, lost, st)
    BY DEF Lasting, RInv, RootTyped
  <2>3. queue \in Seq(StatusRecord) /\ HadAll(got, lost, queue)
    BY DEF RInv, RootTyped, Lasting
  <2>4. HadAll(got, lost, queue')
    BY <2>1, <2>2, <2>3, HadAppend
  <2>5. QED BY <1>1, <2>1, <2>4 DEF Lasting, deviceVars
<1>3. ASSUME NEW d \in Devices, Handle(d) PROVE Lasting'
  <2>1. /\ queue' = queue /\ up[d] # <<>> /\ up[d] \in Seq(StatusRecord)
        /\ up' = [up EXCEPT ![d] = Tail(up[d])]
        /\ held' \subseteq {Head(up[d])}
    BY <1>3 DEF Handle, RInv, MeshTyped
  <2>2. HadAll(got, lost, Tail(up[d])) /\ Had(got, lost, Head(up[d]))
    BY <2>1, HadHead DEF Lasting
  <2>3. \A e \in Devices : HadAll(got, lost, up'[e])
    BY <2>1, <2>2 DEF RInv, MeshTyped, Lasting
  <2>4. QED BY <1>1, <2>1, <2>2, <2>3 DEF Lasting, deviceVars
<1>4. QED BY <1>2, <1>3 DEF HandleTask

LEMMA LastingStarts == Init => Lasting
<1> SUFFICES ASSUME Init PROVE Lasting
  OBVIOUS
<1>1. send.pc = "off"
  BY DEF Init, RootInit, Idle
<1>2. QED BY <1>1, HadNone DEF Init, DeviceInit, RootInit, Lasting, Covered

LEMMA LastingSteps ==
  ASSUME \A f, g \in Firmware : f = g
  PROVE  RInv /\ Reported /\ Lasting /\ [Next]_vars => Lasting'
<1> SUFFICES ASSUME RInv, Reported, Lasting, [Next]_vars PROVE Lasting'
  OBVIOUS
<1>1. CASE UNCHANGED vars
  BY <1>1 DEF vars, rootVars, deviceVars, meshVars, history, Lasting
<1>2. CASE Next
  BY <1>2, SendTaskLasting, OtherTasksLasting, HandleLasting, DevicesLasting DEF Next
<1>3. QED BY <1>1, <1>2

(* A packet that is not sent is one that every device on the requested     *)
(* list has, of devices that lost none, if one firmware is distributed.    *)
THEOREM SkippedPacketsHeld ==
  ASSUME \A f, g \in Firmware : f = g
  PROVE  Spec => []SkippedHeld
<1>1. Lasting => SkippedHeld
  BY DEF Lasting, Covered, SkippedHeld
<1>2. RInv /\ Reported /\ Lasting /\ [Next]_vars => Lasting'
  BY LastingSteps
<1>3. Spec => []Lasting
  BY RootInvariant, LastingStarts, <1>2, PTL DEF Spec
<1>4. QED BY <1>1, <1>3, PTL
=============================================================================
