---------------------------- MODULE MupgradeRoot ----------------------------
(***************************************************************************)
(* The root side of Mupgrade (components/mupgrade/mupgrade_root.c) above   *)
(* devices that are only known to behave as UpgradeDevice says.            *)
(*                                                                         *)
(* Four tasks of the root share g_upgrade_config, its queue and two flags: *)
(* the one that downloads a firmware, the one in mupgrade_firmware_send(), *)
(* the one that reads the mesh and calls mupgrade_root_handle(), and the   *)
(* one that calls mupgrade_firmware_stop().  One distribution runs at a    *)
(* time and a download does not start during one: the callers see to that. *)
(*                                                                         *)
(* A status is abstracted to who sent it, its firmware, whether it says    *)
(* STOP, and the packets marked in it, whose number is written_size.       *)
(***************************************************************************)
EXTENDS UpgradeDevice, FiniteSets, Sequences, Functions

CONSTANTS
  MaxPacket,  \* MUPGRADE_PACKET_MAX_NUM
  QueueCap,   \* length of the queue, 3 in the code
  MeshCap,    \* messages between the root and a device, each way
  ToAll,      \* the address list is MWIFI_ADDR_ANY or MWIFI_ADDR_BROADCAST
  Plans       \* CONFIG_MUPGRADE_RETRY_COUNT with what may go wrong

Events == {"loss", "timeout", "device restart", "device stop", "root restart",
           "firmware stop", "read failure"}

ASSUME RootAssumption ==
  /\ MaxPacket \in Nat /\ \A f \in Firmware : PacketNum[f] <= MaxPacket
  /\ QueueCap \in Nat \ {0} /\ MeshCap \in Nat \ {0}
  /\ ToAll \in BOOLEAN
  /\ \A p \in Plans : p.retry \in Nat /\ p.events \subseteq Events

VARIABLES
  plan,       \* one of Plans, chosen at the start
  upgrade,    \* name and error_code of g_upgrade_config; NoFw while it is NULL
  queue,      \* g_upgrade_config->queue
  alive,      \* the queue exists
  running,    \* g_mupgrade_send_running_flag
  sem,        \* g_mupgrade_send_exit_sem: "none", "empty" or "given"
  send,       \* the task in mupgrade_firmware_send(), see Idle
  stop,       \* where the task in mupgrade_firmware_stop() stands
  held,       \* the status mupgrade_root_handle() is about to queue, if any
  down,       \* messages on their way to each device
  up,         \* status messages on their way to the root
  busy,       \* the device has its last packet and selects the partition
  targets,    \* history: the addresses the distribution was called with
  retired,    \* history: devices taken off the list because they said STOP
  lost,       \* history: devices that restarted or stopped, losing packets
  resumed     \* history: firmwares of which a device resumed a full record

meshVars == <<down, up, busy>>
stopVars == <<alive, sem, stop>>
history  == <<lost, resumed>>
rootVars == <<upgrade, queue, running, send, held, stopVars, targets, retired>>
vars == <<plan, deviceVars, rootVars, meshVars, history>>

(* What a step of the sending task on its own, or with the queue, leaves.  *)
notSend  == <<deviceVars, upgrade, running, held, stopVars, targets,
              history>>
notQueue == <<notSend, queue, retired>>

Bits == 0 .. MaxPacket - 1

(* pc; the counts of the outer loop and of the requests; packet->seq; the  *)
(* address lists of result and request_addrs; progress_array.              *)
Idle == [pc |-> "off", round |-> 0, try |-> 0, seq |-> 0,
         unfinished |-> {}, successed |-> <<>>, requested |-> {},
         request |-> {}, progress |-> {}]

FinishedEarly(st) ==                                              \* mutant
  st.fw # NoFw /\ Cardinality(st.bits) >= PacketNum[st.fw] - 1
Finished(st) == st.fw # NoFw /\ st.bits = All(st.fw)

Stopped(st)  == st.err = "STOP"

RootInit ==
  /\ upgrade = [fw |-> NoFw, err |-> "OK"]
  /\ queue = <<>> /\ alive = FALSE
  /\ running = FALSE /\ sem = "none"
  /\ send = Idle /\ stop = "off" /\ held = {}
  /\ targets = {} /\ retired = {}

Init ==
  /\ plan \in Plans
  /\ DeviceInit
  /\ RootInit
  /\ down = [d \in Devices |-> <<>>]
  /\ up = [d \in Devices |-> <<>>]
  /\ busy = [d \in Devices |-> FALSE]
  /\ lost = {} /\ resumed = [d \in Devices |-> {}]

-----------------------------------------------------------------------------
(* mupgrade_firmware_init() and mupgrade_firmware_download()               *)

(* The queue is created together with the configuration, once.             *)
FirmwareInit(f) ==
  /\ send.pc = "off"
  /\ \E e \in {"OK", "FAIL"} : upgrade' = [fw |-> f, err |-> e]
  /\ alive' = (alive \/ upgrade.fw = NoFw)
  /\ UNCHANGED <<deviceVars, queue, running, send, held, sem, stop, targets,
                 retired, meshVars, history>>

(* The last piece of the firmware is in and valid, or writing it failed.   *)
FirmwareDownload ==
  /\ send.pc = "off"
  /\ upgrade.fw # NoFw /\ upgrade.err = "OK"
  /\ \E e \in {"FINISH", "FAIL"} : upgrade' = [upgrade EXCEPT !.err = e]
  /\ UNCHANGED <<deviceVars, queue, running, send, held, stopVars, targets,
                 retired, meshVars, history>>

-----------------------------------------------------------------------------
(* mupgrade_firmware_send()                                                *)

(* mwifi_root_write(): every device of the set, less those the mesh loses. *)
Write(D, m) ==
  \E S \in SUBSET {d \in D : Len(down[d]) < MeshCap} :
    /\ S = D \/ "loss" \in plan.events
    /\ down' = [d \in Devices |->
                  IF d \in S THEN Append(down[d], m) ELSE down[d]]

(* xQueueReceive() returns the oldest status ...                           *)
Receive ==
  /\ alive
  /\ queue # <<>>
  /\ queue' = Tail(queue)

(* ... or nothing within CONFIG_MUPGRADE_WAIT_RESPONSE_TIMEOUT: the mesh   *)
(* is silent, or an answer is late.                                        *)
Silent ==
  /\ held = {}
  /\ \A d \in Devices : down[d] = <<>> /\ up[d] = <<>> /\ ~busy[d]

Timeout ==
  /\ alive
  /\ queue = <<>>
  /\ Silent \/ "timeout" \in plan.events

(* addrs_remove() from the unfinished list, alone or as a success.         *)
Retire(s, d)  == [s EXCEPT !.unfinished = @ \ {d}]
Succeed(s, d) ==
  IF d \in s.unfinished
  THEN [Retire(s, d) EXCEPT !.successed = Append(@, d)]
  ELSE s

SendStart(T) ==
  /\ send.pc = "off"
  /\ upgrade.err = "FINISH"
  /\ running' = TRUE
  /\ send' = [Idle EXCEPT !.pc = "round", !.unfinished = T]
  /\ targets' = T /\ retired' = {}
  /\ UNCHANGED <<deviceVars, upgrade, queue, held, stopVars, meshVars, history>>

(* The head of the outer loop.                                             *)
Round ==
  /\ send.pc = "round"
  /\ send' = IF send.round < plan.retry /\ send.unfinished # {} /\ running
             THEN [send EXCEPT !.pc = "drain", !.requested = {}]
             ELSE [send EXCEPT !.pc = "exit"]
  /\ UNCHANGED <<notQueue, meshVars>>

(* mupgrade_request_status(): first the statuses that are already there.   *)
AfterDrain(s, st) ==
  IF Finished(st) THEN Succeed(s, st.src)
  ELSE IF Stopped(st) THEN Retire(s, st.src) ELSE s

(* The task goes on with s, or to its exit when no device is left.         *)
UnlessDone(s) == IF s.unfinished = {} THEN [s EXCEPT !.pc = "exit"] ELSE s

Drain ==
  /\ send.pc = "drain"
  /\ Receive
  /\ LET st == Head(queue)
     IN  /\ send' = UnlessDone(AfterDrain(send, st))
         /\ retired' = retired \cup
              (IF Stopped(st) /\ ~Finished(st) THEN {st.src} ELSE {})
  /\ UNCHANGED <<notSend, meshVars>>

DrainEnds ==
  /\ send.pc = "drain"
  /\ Timeout
  /\ send' = [send EXCEPT !.pc = "ask", !.request = send.unfinished,
                          !.progress = Bits, !.try = 0]
  /\ UNCHANGED <<notQueue, meshVars>>

(* Ask all devices that have not answered, up to three times.              *)
Ask ==
  /\ send.pc = "ask"
  /\ send.try < 3 /\ send.request # {}
  /\ Write(send.request, [type |-> "status", fw |-> upgrade.fw])
  /\ send' = [send EXCEPT !.pc = "collect"]
  /\ UNCHANGED <<notQueue, up, busy>>

(* progress_array after the answer st: a packet is skipped only when every *)
(* device that answered has it.                                            *)
MergeLast(bits, st) ==                                            \* mutant
  IF Finished(st) THEN bits ELSE st.bits
MergeEmpty(bits, st) ==                                           \* mutant
  IF Finished(st) \/ st.bits = {} THEN bits ELSE bits \cap st.bits
Merge(bits, st) ==
  IF st.bits = {} THEN {}
  ELSE IF Finished(st) THEN bits ELSE bits \cap st.bits

(* An answer takes its device off the request list; one that says STOP     *)
(* counts from any device, any other one only from a device on that list.  *)
Answered(s, st) ==
  IF Finished(st) THEN Succeed(s, st.src)
  ELSE [s EXCEPT !.requested = @ \cup {st.src}]

AfterCollect(s, st) ==
  LET t == [s EXCEPT !.request = @ \ {st.src}]
  IN  IF Stopped(st) THEN Retire(t, st.src)
      ELSE IF st.src \in s.request
      THEN [Answered(t, st) EXCEPT !.progress = Merge(@, st)]
      ELSE s

Collect ==
  /\ send.pc = "collect"
  /\ Receive
  /\ LET st == Head(queue)
         s  == AfterCollect(send, st)
     IN  /\ send' = IF s.request = {} THEN [s EXCEPT !.pc = "ask"] ELSE s
         /\ retired' = retired \cup (IF Stopped(st) THEN {st.src} ELSE {})
  /\ UNCHANGED <<notSend, meshVars>>

CollectKeepsAsking ==                                             \* mutant
  /\ send.pc = "collect"
  /\ Timeout
  /\ send' = [send EXCEPT !.pc = "ask"]
  /\ UNCHANGED <<notQueue, meshVars>>
CollectEnds ==
  /\ send.pc = "collect"
  /\ Timeout
  /\ send' = [send EXCEPT !.pc = "ask", !.try = @ + 1]
  /\ UNCHANGED <<notQueue, meshVars>>

(* MDF_OK ends the distribution: all answered and no packet is missing.    *)
RequestEnds ==
  /\ send.pc = "ask"
  /\ send.try = 3 \/ send.request = {}
  /\ send' = IF send.request = {} /\ send.progress = Bits
             THEN [send EXCEPT !.pc = "exit"]
             ELSE [send EXCEPT !.pc = "send", !.seq = 0]
  /\ UNCHANGED <<notQueue, meshVars>>

(* The loop over the packets.                                              *)
SendingPastEnd ==                                                 \* mutant
  send.requested # {} /\ send.seq <= PacketNum[upgrade.fw] /\ running
Sending ==
  send.requested # {} /\ send.seq < PacketNum[upgrade.fw] /\ running

SendEnds ==
  /\ send.pc = "send"
  /\ ~Sending
  /\ send' = [send EXCEPT !.pc = "round", !.round = @ + 1]
  /\ UNCHANGED <<notQueue, meshVars>>

SendSkips ==
  /\ send.pc = "send"
  /\ Sending /\ send.seq \in send.progress
  /\ send' = [send EXCEPT !.seq = @ + 1]
  /\ UNCHANGED <<notQueue, meshVars>>

(* esp_partition_read() of the packet; a failure gives up.                 *)
SendReads ==
  /\ send.pc = "send"
  /\ Sending /\ send.seq \notin send.progress
  /\ \/ send' = [send EXCEPT !.pc = "poll"]
     \/ "read failure" \in plan.events /\ send' = [send EXCEPT !.pc = "exit"]
  /\ UNCHANGED <<notQueue, meshVars>>

(* Statuses that came in meanwhile.  The condition of line 427 asks for a  *)
(* written_size of 0 that equals total_size.                               *)
PollsAnyFinish(st) == Finished(st)                                \* mutant
PollsFinish(st)    == Finished(st) /\ st.bits = {}

Unrequest(s, d) == [s EXCEPT !.requested = @ \ {d}]

AfterPoll(s, st) ==
  IF PollsFinish(st)
  THEN IF st.src \in s.requested THEN Unrequest(Succeed(s, st.src), st.src)
       ELSE Retire(s, st.src)
  ELSE IF Stopped(st) THEN Unrequest(Retire(s, st.src), st.src) ELSE s

Poll ==
  /\ send.pc = "poll"
  /\ Receive
  /\ LET st == Head(queue)
     IN  /\ send' = UnlessDone(AfterPoll(send, st))
         /\ retired' = retired \cup
              (IF Stopped(st) /\ ~PollsFinish(st) THEN {st.src} ELSE {})
  /\ UNCHANGED <<notSend, meshVars>>

(* With MWIFI_ADDR_ANY or MWIFI_ADDR_BROADCAST a packet goes to all, until *)
(* two devices are done.                                                   *)
Destinations ==
  IF ToAll /\ Len(send.successed) < 2 THEN Devices ELSE send.requested

PollEnds ==
  /\ send.pc = "poll"
  /\ alive /\ queue = <<>>
  /\ Write(Destinations, [type |-> "data", seq |-> send.seq])
  /\ send' = [send EXCEPT !.pc = "send", !.seq = @ + 1]
  /\ UNCHANGED <<notQueue, up, busy>>

(* EXIT: clear the flag, empty the queue, wake the stopping task.  What    *)
(* the caller keeps is the result.                                         *)
Exit ==
  /\ send.pc = "exit"
  /\ running' = FALSE
  /\ send' = [send EXCEPT !.pc = "flush"]
  /\ UNCHANGED <<deviceVars, upgrade, queue, held, stopVars, targets, retired,
                 meshVars, history>>

Flush ==
  /\ send.pc = "flush"
  /\ alive
  /\ queue' = <<>>
  /\ send' = [send EXCEPT !.pc = "give"]
  /\ UNCHANGED <<notSend, retired, meshVars>>

Give ==
  /\ send.pc = "give"
  /\ sem' = IF sem = "none" THEN "none" ELSE "given"
  /\ send' = [Idle EXCEPT !.unfinished = send.unfinished,
                          !.successed = send.successed]
  /\ UNCHANGED <<deviceVars, upgrade, queue, running, held, alive, stop,
                 targets, retired, meshVars, history>>

-----------------------------------------------------------------------------
(* mupgrade_root_handle(), on the task that reads the mesh                 *)

(* The flag is read before the status is queued.                           *)
Handle(d) ==
  /\ held = {}
  /\ up[d] # <<>>
  /\ up' = [up EXCEPT ![d] = Tail(@)]
  /\ held' = IF upgrade.fw # NoFw /\ running THEN {Head(up[d])} ELSE {}
  /\ UNCHANGED <<deviceVars, upgrade, queue, running, send, stopVars, targets,
                 retired, down, busy, history>>

Enqueue ==
  /\ alive
  /\ held # {} /\ held' = {}
  /\ \/ Len(queue) < QueueCap /\ \E st \in held : queue' = Append(queue, st)
     \/ Len(queue) = QueueCap /\ "timeout" \in plan.events /\ UNCHANGED queue
  /\ UNCHANGED <<deviceVars, upgrade, running, send, stopVars, targets,
                 retired, meshVars, history>>

-----------------------------------------------------------------------------
(* mupgrade_firmware_stop(), on the task of the HTTP server                *)
notStop ==
  <<deviceVars, upgrade, send, held, targets, retired, meshVars, history>>

StopBegin ==
  /\ "firmware stop" \in plan.events
  /\ running
  /\ stop = "off" /\ stop' = "create"
  /\ UNCHANGED <<notStop, queue, running, alive, sem>>

StopCreate ==
  /\ stop = "create" /\ stop' = "clear"
  /\ sem' = IF sem = "none" THEN "empty" ELSE sem
  /\ UNCHANGED <<notStop, queue, running, alive>>

StopClear ==
  /\ stop = "clear" /\ stop' = "wait"
  /\ running' = FALSE
  /\ UNCHANGED <<notStop, queue, alive, sem>>

(* The semaphore is given: delete it, and the queue of g_upgrade_config.   *)
StopDelete ==
  /\ stop = "wait" /\ stop' = "off"
  /\ sem = "given" /\ sem' = "none"
  /\ alive' = FALSE /\ queue' = <<>>
  /\ UNCHANGED <<notStop, running>>

(* The root restarts: by itself, or because a task used the queue that was *)
(* deleted, which is undefined; the outcomes other than a restart are left *)
(* out, and QueueLive says where they may happen.                          *)
UsesQueue ==
  send.pc \in {"drain", "collect", "poll", "flush"} \/ held # {}

RootRestart ==
  /\ "root restart" \in plan.events \/ (UsesQueue /\ ~alive)
  /\ upgrade' = [fw |-> NoFw, err |-> "OK"]
  /\ queue' = <<>> /\ alive' = FALSE
  /\ running' = FALSE /\ sem' = "none"
  /\ send' = Idle /\ stop' = "off" /\ held' = {}
  /\ targets' = {} /\ retired' = {}
  /\ UNCHANGED <<deviceVars, meshVars, history>>

-----------------------------------------------------------------------------
(* The devices: steps of UpgradeDevice together with the messages that     *)
(* cause them and the statuses they send.                                  *)
Message(d) == Head(down[d])

Consume(d) ==
  /\ ~busy[d]
  /\ down[d] # <<>>
  /\ down' = [down EXCEPT ![d] = Tail(@)]

Report(d) ==
  [src |-> d, fw |-> claim'[d], err |-> IF halted'[d] THEN "STOP" ELSE "OK",
   bits |-> got'[d]]

Reply(d) ==
  \/ /\ Len(up[d]) < MeshCap
     /\ up' = [up EXCEPT ![d] = Append(@, Report(d))]
  \/ /\ "loss" \in plan.events
     /\ UNCHANGED up

(* A request: for the firmware it has, or for another one.                 *)
DeviceStatus(d) ==
  /\ Consume(d)
  /\ Message(d).type = "status"
  /\ \/ claim[d] = Message(d).fw /\ UNCHANGED deviceVars
     \/ Start(d, Message(d).fw)
  /\ Reply(d)
  /\ UNCHANGED <<rootVars, busy, history>>

(* A packet that is missing; the last one of all ends the upgrade.         *)
DeviceGathers(d) ==
  /\ Consume(d)
  /\ Message(d).type = "data"
  /\ Gather(d, Message(d).seq)
  /\ busy' = [busy EXCEPT ![d] = (got'[d] = All(claim[d]))]
  /\ UNCHANGED <<rootVars, up, history>>

(* A packet after a stop: the device forgets its progress and says STOP.   *)
DeviceRefuses(d) ==
  /\ Consume(d)
  /\ Message(d).type = "data"
  /\ halted[d] /\ Halt(d) /\ got'[d] = {}
  /\ Reply(d)
  /\ UNCHANGED <<rootVars, busy, history>>

(* A packet it has, cannot place, or fails to write.                       *)
DeviceIgnores(d) ==
  /\ Consume(d)
  /\ Message(d).type = "data"
  /\ \/ claim[d] = NoFw
     \/ /\ claim[d] # NoFw /\ ~halted[d]
        /\ Message(d).seq \notin All(claim[d]) \ got[d] \/ "loss" \in plan.events
  /\ UNCHANGED <<deviceVars, rootVars, up, busy, history>>

DeviceFinishes(d) ==
  /\ busy[d]
  /\ busy' = [busy EXCEPT ![d] = FALSE]
  /\ \/ Select(d) /\ got' = got /\ Reply(d) /\ UNCHANGED lost
     \/ /\ "device stop" \in plan.events
        /\ Halt(d) /\ got'[d] = {} /\ lost' = lost \cup {d}
        /\ UNCHANGED up
  /\ UNCHANGED <<rootVars, down, resumed>>

DeviceStops(d) ==
  /\ "device stop" \in plan.events
  /\ ~busy[d]
  /\ Halt(d) /\ got'[d] = {}
  /\ Reply(d)
  /\ lost' = lost \cup {d}
  /\ UNCHANGED <<rootVars, down, busy, resumed>>

(* A restart resumes whatever UpgradeDevice allows.  It may be a full      *)
(* record of a firmware the device did not select: MupgradeNodeLostFinish. *)
FullRecord(d) == claim'[d] # NoFw /\ got'[d] = All(claim'[d])

DeviceRestarts(d) ==
  /\ "device restart" \in plan.events
  /\ \/ Resume(d, NoFw, {})
     \/ \E f \in Firmware : \E P \in SUBSET All(f) : Resume(d, f, P)
  /\ busy' = [busy EXCEPT ![d] = FALSE]
  /\ down' = [down EXCEPT ![d] = <<>>]
  /\ lost' = lost \cup {d}
  /\ resumed' = IF FullRecord(d)
                THEN [resumed EXCEPT ![d] = @ \cup {claim'[d]}] ELSE resumed
  /\ UNCHANGED <<rootVars, up>>

-----------------------------------------------------------------------------
RequestStatus ==
  Drain \/ DrainEnds \/ Ask \/ Collect \/ CollectEnds \/ RequestEnds

SendTask ==
  \/ Round \/ RequestStatus
  \/ SendEnds \/ SendSkips \/ SendReads \/ Poll \/ PollEnds
  \/ Exit \/ Flush \/ Give

HandleTask == Enqueue \/ \E d \in Devices : Handle(d)

StopTask == StopCreate \/ StopClear \/ StopDelete

Device(d) ==
  DeviceStatus(d) \/ DeviceGathers(d) \/ DeviceRefuses(d) \/ DeviceIgnores(d)
    \/ DeviceFinishes(d)

Next ==
  /\ UNCHANGED plan
  /\ \/ \E f \in Firmware : FirmwareInit(f)
     \/ FirmwareDownload
     \/ \E T \in SUBSET Devices \ {{}} : SendStart(T)
     \/ SendTask \/ HandleTask \/ StopBegin \/ StopTask \/ RootRestart
     \/ \E d \in Devices : Device(d) \/ DeviceStops(d) \/ DeviceRestarts(d)

Spec == Init /\ [][Next]_vars

(* The tasks of the root run on; nothing is asked of the devices or of the *)
(* mesh.                                                                   *)
FairSpec ==
  /\ Spec
  /\ WF_vars(SendTask /\ UNCHANGED plan)
  /\ WF_vars(HandleTask /\ UNCHANGED plan)
  /\ WF_vars(StopTask /\ UNCHANGED plan)

-----------------------------------------------------------------------------
StatusRecord == [src : Devices, fw : Firmware \cup {NoFw},
                 err : {"OK", "STOP"}, bits : SUBSET Bits]
MessageRecord == [type : {"status"}, fw : Firmware]
                   \cup [type : {"data"}, seq : Bits]

(* The type of every variable of the root, of the mesh and of the devices. *)
TypeOK ==
  /\ plan \in Plans
  /\ claim \in [Devices -> Firmware \cup {NoFw}]
  /\ got \in [Devices -> SUBSET Bits]
  /\ halted \in [Devices -> BOOLEAN]
  /\ selected \in [Devices -> SUBSET Firmware]
  /\ upgrade \in [fw : Firmware \cup {NoFw}, err : {"OK", "FAIL", "FINISH"}]
  /\ queue \in Seq(StatusRecord) /\ Len(queue) <= QueueCap
  /\ alive \in BOOLEAN /\ running \in BOOLEAN
  /\ sem \in {"none", "empty", "given"}
  /\ send \in [pc : {"off", "round", "drain", "ask", "collect", "send", "poll",
                    "exit", "flush", "give"},
               round : 0 .. plan.retry, try : 0 .. 3, seq : 0 .. MaxPacket,
               unfinished : SUBSET Devices, successed : Seq(Devices),
               requested : SUBSET Devices, request : SUBSET Devices,
               progress : SUBSET Bits]
  /\ stop \in {"off", "create", "clear", "wait"}
  /\ held = {} \/ \E st \in StatusRecord : held = {st}
  /\ down \in [Devices -> Seq(MessageRecord)]
  /\ up \in [Devices -> Seq(StatusRecord)]
  /\ busy \in [Devices -> BOOLEAN]
  /\ targets \in SUBSET Devices /\ retired \in SUBSET Devices
  /\ lost \in SUBSET Devices /\ resumed \in [Devices -> SUBSET Firmware]

Successes == Range(send.successed)

(* A device reported as upgraded did select the firmware that was          *)
(* distributed, or resumed a full record of it after a restart, which a    *)
(* device keeps whose restart came between its last packet and its         *)
(* selection (lines 196-207, 278-287, 427-444), however late, lost or      *)
(* repeated the statuses are.  True while the root distributes one         *)
(* firmware; with two of them TLC refutes it.                              *)
SuccessTrue ==
  send.pc # "off" =>
    \A d \in Successes : upgrade.fw \in selected[d] \cup resumed[d]

(* No address gets lost or is counted twice between the three lists: each  *)
(* target is unfinished, or has succeeded once, or said STOP.              *)
AccountedFor ==
  /\ targets = send.unfinished \cup Successes
                  \cup (retired \cap targets)
  /\ send.unfinished \cap (Successes \cup retired) = {}
  /\ IsInjective(send.successed)
  /\ send.pc \in {"ask", "collect"} => send.request \subseteq send.unfinished

(* A packet that is not sent is one that every device on the requested     *)
(* list has (lines 275-294, 411): of devices that lost none meanwhile.     *)
SkippedHeld ==
  send.pc \in {"send", "poll"} =>
    \A d \in send.requested \ lost :
      send.progress \cap All(upgrade.fw) \subseteq got[d]

(* mupgrade_request_status() returns MDF_OK, which ends the distribution,  *)
(* only when no device is left unfinished.                                 *)
OkMeansDone ==
  [][RequestEnds /\ send'.pc = "exit" => send.unfinished = {}]_vars

(* When the mesh loses nothing and answers in time, and no device stops or *)
(* restarts, two rounds complete the upgrade of every device: one to send, *)
(* one to learn that it is done.                                           *)
TimelyCompletes ==
  (plan.events = {} /\ plan.retry > 1 /\ send.pc \in {"exit", "flush", "give"})
    => Successes = targets

(* mupgrade_firmware_send() returns, whatever is lost and however the      *)
(* devices restart, unless they keep stopping: only a device that stops    *)
(* sends statuses nobody asked for.  Or its queue was deleted by           *)
(* mupgrade_firmware_stop(): see QueueLive.                                *)
SendReturns ==
  (<>[][\A d \in Devices : ~DeviceStops(d)]_vars)
    => []<>(send.pc = "off" \/ ~alive)

(* No task uses the queue after mupgrade_firmware_stop() deleted it.  TLC  *)
(* refutes it: mupgrade_root_handle() looks at the flag first and queues   *)
(* later, and the next distribution finds no queue, which is created only  *)
(* together with g_upgrade_config (lines 52-58).                           *)
QueueLive == UsesQueue => alive
=============================================================================
