# ESP-MDF in TLA+

This directory holds the formal model of ESP-MDF, the development framework of
Espressif for ESP-WIFI-MESH networks.  The modules are translated from the C
code under `src/components`, model-checked with TLC on small instances, and in
part proved with TLAPS for every value of their constants.  `PROJECT.json` lists
components, runs, mutants, the source lines of each definition, findings,
hazards and theorems; this file explains them.

Line numbers without a file are those of the source file the section is about.

## 1. The system

ESP-MDF is a set of C components above FreeRTOS and ESP-IDF.  A mesh network has
one root, which has the connection to the router, and nodes below it in a tree.

| Component | State it keeps | Operations | What must hold |
|---|---|---|---|
| Mesh transport (`mwifi.c`) | started/connected flags, send lock, for each reader the packet gathered and the last magic seen | `mwifi_write`, `mwifi_root_write`, `mwifi_read`, `mwifi_root_read`, start/stop, event callback | packets whole, once, at the readers they are for |
| Upgrade, device side (`mupgrade_node.c`) | record of progress in RAM and NVS, update partition, boot selection | `mupgrade_handle` (status request, packet), `mupgrade_stop` | the record never runs ahead of flash; only a firmware of which all packets are counted is selected; a stopped device does not boot it; the upgrade ends |
| Upgrade, root side (`mupgrade_root.c`) | configuration, queue of statuses, three address lists, running flag, exit semaphore | `mupgrade_firmware_init`, `_download`, `_send`, `_stop`, `mupgrade_root_handle` | no device lost or counted twice; no needed packet skipped; the result is true |
| Version fallback (`mupgrade_check.c`) | count of restarts in NVS | fallback, timer, `kmp_find` | a firmware that fails to start is given up |
| Event loop (`mdf_event_loop.c`, callbacks of `mwifi.c`) | queue of events, static buffers of their data | send, delayed send, dispatch to the handler of the app | an event finds its own data; the handler comes back; what it starts and stops follows the last event |
| Info store, memory, error names (`mcommon`) | NVS, table of live allocations | save/load/erase, malloc/realloc/free | the table mirrors the heap |
| Network configuration chain (`mconfig_chain.c`, `mconfig_queue.c`) | master and slave task, one-slot queue, exit semaphores | init, deinit of both; pass the configuration on | a configuration is for the device that takes it; every device that takes part and is welcome gets one in the end; start and stop return |
| Configuration security, BLUFI | keys, Bluetooth state | handshake, parse | — |
| ESP-NOW packets (`mespnow.c`) | event group of the send callback, receive queues, last magic per pipe | add/delete peer (in `MconfigChain`), write, read | packets whole and once; write returns |
| Debug (`mdebug_*`) | ring of log sectors, log queue, console | write, read, erase of the log | the log read is the log written |
| Local control (`mlink_handle.c`, `_json`, `_utils`, `_ble`) | table of handlers | request by name | — |
| HTTP server (`mlink_httpd.c`) | table of connections with timers, queue of requests | start, stop, request, read, write, timeout | an answer reaches its own client, complete and framed; entries are not lost; every request ends |
| Trigger and notice (`mlink_trigger.c`, `mlink_notice.c`) | associations in NVS; queue of notices and the message being gathered | add, delete, handle; notify, start, stop | associations survive restarts whole; no notice vanishes |
| Sniffer, gateway (`mlink_sniffer.c`, `mlink_espnow.c`) | list of nearby devices | callback, query | — |
| Aliyun gateway, miniz (`third_party`) | — | — | not modelled: a cloud protocol, and a vendored library |

**Interactions.**  On the root a task calls `mupgrade_firmware_send()`, which sends
requests and packets with `mwifi_root_write()`.  On each device another task reads
them with `mwifi_read()` and hands them to `mupgrade_handle()`, which answers with
`mwifi_write()`.  A third task, on the root, takes the answers from `mwifi_root_read()`
to `mupgrade_root_handle()`, which queues them for the first.  `mlink_httpd.c` calls
`mupgrade_firmware_stop()` from a task of its own.  `mconfig_chain` and the debug
transport use `mespnow` in the same manner.  Every component reports through the
event loop; its handler, a function of the app, starts and stops the notices and the
HTTP server, whose requests and answers two more tasks of the app carry to and from
the mesh.

**What is hard here.**  Packets get lost, repeated and late; devices restart between
two writes to persistent storage; handlers run in several tasks around flags and
queues that no lock protects; reassembly and resumption work with sequence numbers
and bit sets whose boundaries matter.  `PROJECT.json` lists the hazards at the
lines where they bite, with the properties that cover them.

## 2. The modules

| Module | Models | Composition |
|---|---|---|
| `UpgradeDevice` | what a device promises during an upgrade, abstractly | refined by `MupgradeNode`, extended by `MupgradeRoot` |
| `MupgradeNode` | `mupgrade_node.c`: any number of devices, the root as environment | `Device == INSTANCE UpgradeDevice WITH ...` |
| `MupgradeNode_proofs` | theorems about `MupgradeNode`: types, counts, flash, reports | extends it |
| `MupgradeNodeRefines_proofs` | the theorem that `MupgradeNode` implements `UpgradeDevice` | extends `MupgradeNode_proofs` |
| `MupgradeRoot` | `mupgrade_root.c`: the tasks of the root above abstract devices and a lossy mesh | extends `UpgradeDevice` |
| `MupgradeRoot_proofs` | theorems about `MupgradeRoot` | extends it |
| `Mwifi` | writing, forwarding and reassembly in `mwifi.c` | — |
| `Mwifi_proofs` | theorems about `Mwifi`: types, and packets of one fragment | extends it |
| `Mespnow` | frames, retries and reassembly in `mespnow.c` | — |
| `Mespnow_proofs` | theorems about packets: acknowledged, in order, whole; and types | extends `Mespnow` |
| `EventLoop` | `mdf_event_loop.c` and the callbacks of `mwifi.c` that feed it | — |
| `MlinkNotice` | `mlink_notice.c` | — |
| `MlinkHttpd` | `mlink_httpd.c` | — |
| `MlinkRoot` | the event handler and the tasks of the app on the root | extends `EventLoop`, `MlinkNotice`, `MlinkHttpd` |
| `MconfigChain` | `mconfig_chain.c`, `mconfig_queue.c`, the peers of `mespnow.c` | — |
| `EventLoop_proofs` | the theorem about the data of events | extends `EventLoop` |
| `MlinkRoot_proofs` | theorems about the services of the root | extends `MlinkRoot`, `EventLoop_proofs` |
| `MconfigChain_proofs` | theorems about the chain: configurations, and types | extends `MconfigChain` |
| `MCMupgradeNode`, `MCMupgradeRoot`, `MCMwifi`, `MCMespnow`, `MCMlinkRoot`, `MCMconfigChain` | the instances TLC checks | extend the module they are named after |

The upgrade is verified by composition: TLC checks and TLAPS proves that every behaviour
of `MupgradeNode` is one of `UpgradeDevice` (property `ImplementsDevice`), and
each step of a device in `MupgradeRoot` is one of `UpgradeDevice`.  Which one follows there from the
message that arrives; a stop is not put between the last packet and the selection (the
device then halts instead of selecting); and a device that restarts may resume any record that
`UpgradeDevice` allows, a full one included.

### 2.1 MupgradeNode

State: `config` is `g_upgrade_config->status` in RAM, `store` the record in NVS, `flash`
the slots of the update partition, `boot` what otadata selects, `finished` and
`next_percentage` the statics of the same names.  `pc` says where the handler stands
between two effects that a restart or a stop can tell apart: `idle`; `begun` after
`esp_ota_begin()` and before the record in NVS is replaced; for a device of mesh type
root `chosen` after the selection of the partition (58) and `flagged` after the flag (60);
for the others `ended` after the last packet, `erased` after the record in NVS was
erased, `booted` after the selection (228) and `reporting` after the flag (239).  `stopping`
says the same of `mupgrade_stop()`, which runs in a task of its own: `restoring`, `marking`,
`erasing`.  One stop runs at a time.  `erasedFor`, `switched` and `excused` are history: they
only serve the properties.

A slot of flash holds the name of the firmware whose packet is there, `"erased"` or
`"mixed"`; programming what is not erased gives `"mixed"`, as flash does.  A record is
a firmware, an error code, `written_size` in packets and the set of progress bits.

Actions: `Status(d, c)` (with its branches known firmware, mesh type root, begin, failed
begin), `FlagOnRoot`, `ReportOnRoot` and `StatusSave` are `mupgrade_status()`; `DataStopped`,
`DataIgnored` and `DataWritten` are the paths of `mupgrade_write()`; `FinishErase`, `FinishBoot`,
`FinishBootFails`, `FinishFlag` and `FinishReport` the steps at its end; `Stop`, `StopRestores`,
`StopMarks` and `StopErases` are `mupgrade_stop()`, and may come between any two steps of the
handler.  `DataWritten` is one step from line 160 to 215: it programs one slot of flash and
saves at most one record, and a restart between the two leaves a packet in flash that is
not on record, which is what a save that fails leaves too.  A device of mesh type root
selects its partition whatever it downloaded, as lines 55-71 do: `esp_ota_set_boot_partition()`
is of ESP-IDF, and may refuse or accept.  `Restart` loses RAM and starts what `boot` selects; `Download` is the root that writes
the firmware into its own partition; `Uplink` is the mesh taking a status away.

The root is an environment that distributes the firmwares of `Campaigns` in order.
Loss and repetition need no actions: a message that is lost is one that never
arrives, and a repeated one arrives again.  Order per device is kept, which
ESP-WIFI-MESH promises (`offer`).

### 2.2 MupgradeRoot

State: `upgrade` (name and error code of `g_upgrade_config`), `queue` and `alive` (the
queue exists), `running` and `sem` (flag and exit semaphore), `send` (the locals of
`mupgrade_firmware_send()`: place, loop counts, address lists, merged progress), `stop`,
`held` (the status `mupgrade_root_handle()` is about to queue), `down`, `up` and `busy` (the
mesh and the devices).  One action is one stretch of code of a task between two
calls that other tasks can observe.

Actions: `FirmwareInit`, `FirmwareDownload`; `SendStart`, `Round`; `Drain`, `DrainEnds`, `Ask`,
`Collect`, `CollectEnds`, `RequestEnds` (together `mupgrade_request_status()`); `SendSkips`,
`SendReads`, `SendEnds`, `Poll`, `PollEnds` (the packet loop); `Exit`, `Flush`, `Give`; `Handle`
and `Enqueue` (`mupgrade_root_handle()`); `StopBegin`, `StopCreate`, `StopClear`, `StopDelete`
(`mupgrade_firmware_stop()`); `RootRestart`; and the actions of the devices.

`Events` says what may go wrong in an instance: loss, timeout (an answer that comes
too late), restart or stop of a device, restart of the root, stop of the
distribution, a packet that cannot be read from flash.  A device that restarts resumes
what `UpgradeDevice!Resume` lets it resume, a full record of a firmware it never selected
included; `resumed` is the history of that.

### 2.3 Mwifi

State: `parent` (the tree), `path` (the fragments between two nodes, in order), `tx` (what
each writing task or forwarding reader is doing), `rx` (`expect_seq`, the parts gathered
and the last magic of each reader), `got` (what the readers returned).  `plan` is
chosen at the start: what the writers write (each a `Packet` that `mwifi_write()` or
`mwifi_root_write()` takes) and how often each event may happen.  A fragment the mesh
delivers `again` is marked: its random number (`magic`, drawn for each send) is that of
the last fragment only when it is a copy of it, and this is what the filter of
`mwifi_read()` compares.

Actions: `WriteNode` and `WriteGroup` start `mwifi_write()`, `RootWriteEach` and
`RootWriteList` start `mwifi_root_write()` for single addresses and for a list;
`NextChild`, `ChildFails`, `BelowUnknown` (the question for the nodes below a child fails, 768)
and `ChildrenDone` are the loop of `mwifi_transmit_write()`;
`SendFragment` and `SendFails` are `mwifi_subcontract_write()`; `NodeReads`, `ForwardReturns` and
`RootReads` are the reading loops; `Timeout` their exit, `NotStarted` a turn that finds the mesh
not started (`rx.total` is `total_size` of the last fragment, which such a turn keeps); `Lose` and `Move`
are the mesh.

### 2.4 Mespnow

State: `lock` is `s_send_lock` of each node, `bits` the event group its send callback
sets, `tx` where each task stands in `mespnow_write()` with its retries, `air` the
frames the radio has taken, `queue` and `last` the receive queue and last magic of a
pipe, `rx` and `got` what a reader has gathered and returned.  A task that finds no memory
keeps the lock (`KeptForGood`), as line 237 does.  `heard` and `full` are
history.  `plan` is as in `Mwifi`.

Actions: `Call`, `TakeLock`, `NoMemory`, `LockTimeout`, `StartFrame`, `SendFrame`, `SendError`,
`Acked`, `Unacked` and `LateCallback` are the path of `mespnow_write()`; `Delivered`, `AckLost`,
`Lost` and `Damaged` are the radio, which runs both callbacks; `ReadFirst`, `ReadNext` and
`ReadTimeout` are `mespnow_read()`.

### 2.5 MlinkRoot with EventLoop, MlinkNotice and MlinkHttpd

The four modules are one system: the services a root offers to the app on the local
network.  `MlinkRoot` extends the other three and says which task takes which of their
actions.

`EventLoop`: `events` is the queue, `posting` the event each task has prepared and not yet
queued, `infos` and `index` the static buffers (`s_event_info`, `s_evet_info`) with the place
that comes next.  `callback` holds the turns that are left of the call of a callback each
task is in: a turn copies data or not and sends an event or not, and some calls have two
(`Turns`: `esp_ip_event_cb()` copies for every event and sends some, 140; a change of the network
state takes a buffer of its own, and sends one event or two, 263-290; an event without data copies
nothing, 285).  `Post` is the first turn of a call, `GoOn` the next ones, both copy the data and
make room; `Queue` sends, `Dispatch` hands the oldest event to the handler; between a turn and
its `Queue` another task may take the room.
Both callbacks run on the event task of ESP-IDF, delayed events on the timer task, which
does not wait.

`MlinkNotice`: `notices` is the queue, `task` and `message` where `mlink_notice_udp_task()`
stands and what it has gathered, `closing` an earlier task whose sockets are still open,
`sem` the exit semaphore, `held` the notice another task is about to queue.  `written`,
`aired` and `dropped` are history.

`MlinkHttpd`: `mqueue` is `g_mlink_queue`, `conns` `g_conn_list`, `sockets` who has each socket
number, `http`, `reader`, `writer` and `timeout` where the server, the two tasks of the app and
the timer task stand.  `reply` is what was written on each connection.  `closed`, `crossed` and
`hasty` are history: the requests whose connection was closed before their last answer was
written to it, those that got no timer, whose entry was cleared or taken while a task still held it, or freed
with the table, and whether a start did not wait for the end of the last stop.  `mlink_httpd_write()` is cut at every piece it writes, for the timer may
come in between (`WriteFind` to `WriteRemove` against `TimerFires` and `TimerCloses`).  An entry is
added in two steps, `AddConnection` and `AddTimer` (211), whose timer may not be created; a `send()`
that fails on an open socket closes it and removes the entry (137-145); and the timer may find its
socket open and not writable (177).

`MlinkRoot`: `handler` is where `event_loop_cb()` of `light_example.c` stands, which calls
`mlink_notice_init()`, `mlink_notice_write()`, `mlink_httpd_start()` and the two stops in turn,
and waits for the semaphore of the notices; `plan` bounds what comes from outside.

### 2.6 MconfigChain

State for each node: `app`, `slave` and `master` are its three tasks with their local
variables; `slave_flag`, `slave_sem`, `ticks` (`g_chain_master_duration_ticks`) and `master_sem` the
statics they share; `queue` the one-slot queue; `ie` and `seen` the beacons and the queue of the
scan; `peers` and `pipe` those of ESP-NOW.  `ending` is a master task that has cleared its ticks and has
not looked at the semaphore yet: a new one may run already.

Actions: `SlaveScan` to `SlaveEnd` are `mconfig_chain_slave_task()` from one call to the next, `MasterAdvertise` to
`MasterGive` are `mconfig_chain_master_task()`, `MasterCall` to `MasterStart` `mconfig_chain_master()`,
`SlaveInit`, `SlaveDeinit` and `SlaveJoin` the start and stop of the slave, `Again` the phone that
brings a second list of devices, `Blufi` a configuration over Bluetooth.  The whitelist of a
configuration names nodes (`Listed`) or begins with the address ANY (`Open`, 100-102);
`WhitelistEnable` is `CONFIG_MCONFIG_WHITELIST_ENABLE` of the build (y unless changed), without which
a reply is one packet and every node is welcome (96-98, 240, 454).

## 3. The runs

Every run takes less than five minutes.

| Run | Instance | Expected | What it shows |
|---|---|---|---|
| `node` | a device of either mesh type, firmwares A (3 packets) then B (1) | pass | types; `ProgressOnFlash`, `WrittenCountsProgress`, `FinishReportHonest`, `StopHonoured`; the refinement `ImplementsDevice` |
| `node_live` | 1 device, 1 firmware, fairness | pass | `UpgradeFinishes` |
| `node_lost_finish` | report interval 50 | violation of `FinishReportHonest` | see 3.1 |
| `root` | 2 devices, 2 packets, all addresses, late answers and failing reads | pass | `AccountedFor`, `SkippedHeld`, `OkMeansDone`, `TimelyCompletes` |
| `root_faults` | 1 device, 1 packet, 3 plans that leave no event out | pass | `SuccessTrue`, `SendReturns` (liveness) |
| `root_stale` | 2 firmwares, late answers | violation of `SuccessTrue` | see 3.1 |
| `root_queue` | stop of the distribution | violation of `QueueLive` | see 3.1 |
| `mwifi` | 4 nodes, 2 writers, 6 kinds of plans | pass | `Whole`, `OnceAndAddressed`, `AllReached`, `FaultCostsTwo` |
| `espnow` | 2 tasks of one node, 1 reader, 21 plans, fairness | pass | `Whole`, `InOrderOnce`, `AckedHeard`, `FaultCosts`, `WritesReturn` (liveness) |
| `root_services` | 2 requests, 2 devices, 2 connections, 5 plans, fairness | pass | `AnswersRight`, `AnswersComplete`, `SlotsWatched`, `QueueThere`, `NoticesKept`, `ServicesFollow`, `OwnData`; `HandlerReturns`, `RequestEnds` (liveness) |
| `config_chain` | 3 nodes in a chain, 6 budgets, one of the build without the whitelist, fairness | pass | `Configured`; `MasterReturns`, `EventuallyConfigured` (liveness) |
| `mwifi_gap` | 3 packets to the root's reader, one fragment lost | violation of `Whole` | see 3.1 |

**Properties in words.**

- `ProgressOnFlash`: a packet that the record in RAM or in NVS marks is in flash.
  That is asked while the partition was last erased for the firmware on the record; 3.2
  says when it was not.
  `WrittenCountsProgress`: `written_size` is the number of marked packets.
- `FinishReportHonest`: a device that reports `written_size = total_size` has selected
  that firmware.  `StopHonoured`: when a stop is over and no handler runs, a device of
  either mesh type that is marked STOP does not boot the new firmware, but for three
  overlaps, which `excused` records: the stop read the flag between the selection and the
  flag (58-60, 228-239); the last packet was accepted before the stop marked the record
  and the partition selected after the stop had read the flag; or the request of a later firmware had
  cleared the flag (73) of a device that had selected an earlier one.
- `UpgradeFinishes`: with a root that keeps trying, a device that in the end stops
  restarting selects the firmware, unless it is stopped or the selection fails.
- `ImplementsDevice`: a firmware is selected only when all packets are counted, and a
  restart never gives a device a packet it did not have.
- `SuccessTrue`: who is in `successed_addr` did select the firmware, or resumed a full
  record of it after a restart (what `node_lost_finish` shows it can do).  Which of the two
  it was no status says.  `AccountedFor`: each
  target is unfinished, succeeded once, or has said STOP.  `SkippedHeld`: a packet is
  skipped only when every requested device has it.  `OkMeansDone`: the distribution
  ends early only when nobody is unfinished.  `SendReturns`: it ends.
  `TimelyCompletes`: without faults two rounds are enough.
- `Whole`: a packet that is read is one that was written.  `OnceAndAddressed`: it is read
  only by those it is for, and once while the mesh repeats no fragment; when it does, by
  `mwifi_read()` of a reader that has one sender, if nothing else goes wrong.  Both leave out
  `mwifi_root_read()` once the mesh was not started under it.  `AllReached`: without faults all of those read it, although
  nodes move.  `FaultCostsTwo`: one fault costs a reader two packets at most.
- In `Mespnow`, `Whole` is the same while no frame is damaged and no callback is late, while
  none is damaged or lost, and under a single fault of any kind; a full queue is excluded
  (3.2 says what is joined otherwise).
  `InOrderOnce`: the packets of a writer are returned in order and once.  `AckedHeard`:
  `MDF_OK` means that every frame was received, while no callback was late and no frame
  damaged.  `FaultCosts`: a lost frame or
  acknowledgement costs nothing, any other single fault two packets at most, memory that runs
  out and a full queue apart: without memory the lock is kept, and every later packet of the node is lost.
  `WritesReturn`: every call of `mespnow_write()` returns, unless memory ran out.
- In `MlinkRoot`, `AnswersRight`: a client reads an answer to another client's request only
  when the connection of that request was closed before its own last answer was written.  `AnswersComplete`: an answer is
  framed, and one that the server completed has the word of every device asked, once;
  both are asked of requests whose entry and socket number were their own.
  `SlotsWatched`: the slots that no timer will clear are at most as many as the requests
  that got no timer or whose entry was cleared, or freed with the table, while a task still held
  it; the entry just being added is not counted.  `QueueThere`: the server finds a queue,
  unless it was started before the reader had deleted the old one.  `NoticesKept`: a
  notice that was written is queued, gathered, broadcast, or was turned away.
  `ServicesFollow`: with all events handled and none lost, the services are as the last
  address event left the root.  `OwnData`: an event that carries data reads its own while
  the callbacks of its source took fewer buffers since than the source has others; a turn that
  sends nothing and one that copies nothing count too.  `HandlerReturns`: the handler comes
  back from every event, unless it waits for a task that died.  `RequestEnds`: every
  client has its answer or its connection is closed.
- In `MconfigChain`, `Configured`: the whitelist of a configuration a node is given names the node
  or is open, whichever master it came from.  (That its halves belong together is what the sum in
  `uncompress()` gives.)  `MasterReturns`: a call that replaces the
  master comes back, unless it stands before the creation of the semaphore (595) when the task that
  runs has gone past its look at it (292): `Missed` says just that.  `EventuallyConfigured`: every device that
  takes part and that every configuration in play welcomes gets one, over one hop or two, and its slave
  ends, while no duration expires.

### 3.1 Disagreements the runs show

1. `node_lost_finish`.  With an interval that divides 100, among them the default 10,
   the last packet saves a full record (line 206) before the boot partition is
   selected (line 228).  After a restart in between the device reports a finished
   upgrade for ever and never selects the firmware.
2. `root_stale`.  A status is compared with its own `total_size` and never with the name
   of the firmware being distributed; a late finished status of an earlier firmware
   counts its device as upgraded.
3. `root_queue`.  `mupgrade_firmware_stop()` deletes the queue and keeps
   `g_upgrade_config`; the next distribution uses the deleted queue.
4. `mwifi_gap`.  `mwifi_root_read()` takes the fragment that shows a gap and then asks for
   another first one, so two packets are returned as one.

### 3.2 Behaviour of the code outside the passing runs

The following was met while modelling.  No run states it as a finding; the passing runs
exclude it by their instance, or by a property that names the exception.  Some of
it disagrees with the documents:

- `docs/en/api-guides/mwifi.rst:18` says "When receiving data packets using the API provided by
  Mwifi, duplicated packets will be filtered out".  `mwifi_root_read()` (`mwifi.c:1330-1374`) has no filter:
  a packet of one fragment that the mesh delivers twice is returned twice.  `mwifi_read()` (1049) knows only the last
  fragment, of whichever sender.
- `mwifi.h:32` says of `MWIFI_ADDR_BROADCAST` "Other node except the root".  `mwifi_write()` puts the
  address of the writer in front (900-903), and the readers leave out the node that has it (1100-1108):
  the writer is spared, and the root only when it writes.
- `mwifi.h:512-517` lists what `mwifi_root_read()` returns when the mesh is not started.  In its second turn
  without the mesh the loop (1330, 1343-1346) ends, and the call returns `MDF_OK` with what it had gathered, a packet that
  is empty or cut.
- `docs/en/api-guides/mupgrade.rst:21` says "Each firmware fragment contains Mupgrade identification", and
  line 59 "The target devices verify the IDs of the received firmware fragments".  `mupgrade_packet_t`
  (`mupgrade.h:70-75`) has a sequence number and no name of its firmware: with the
  address lists "any" and "broadcast" a device that missed a request writes the packets of
  the new firmware over the old one; the constant `Broadcast` allows it and TLC then
  refutes `ProgressOnFlash`.
- `mupgrade.h:265` says of `mupgrade_stop()` "Stop upgrading".  In the three overlaps that `StopHonoured`
  excepts (`mupgrade_node.c:299` against 57-60, 73 and 228-239) the device boots the
  firmware it was stopped at.
- `mespnow.c:293` says "ESP-NOW send completed, release send lock".  Without memory `mespnow_write()` returns
  at line 237 with the lock, and every later write of the node fails or waits for ever.
- `mconfig_chain.h:79-87` says that `mconfig_chain_master()` returns.  A master task whose duration expires
  and that looks at the semaphore (292) between lines 594 and 595 of a call does not give it, and
  the call waits for ever.

And, for the rest:

- `mupgrade_node.c`.  The saved blob starts at the head of the configuration and has the
  size of the status, so the bits past it are cut (206): `SavedNum`.
  `esp_ota_begin()` erases before the record in NVS is replaced (96-104): firmwares
  offered in the order A, B, A (`BackToFirst` in `MCMupgradeNode`) can resume a record
  whose flash is gone; this is why `ProgressOnFlash` speaks of the firmware the
  partition was erased for, and why `Campaigns` has no firmware twice in the runs.  A
  failed `esp_ota_begin()` followed by a second request is answered `MDF_OK` (44-48,
  97), and its packets go to flash that is not erased.  A partition already selected
  for boot may be erased (96).  A device of mesh type root selects what it downloaded and
  counts no packets (55-71).  So no property says that the selected partition holds a
  whole firmware: that is left to `esp_ota_set_boot_partition()`, which is not part of this
  repository and may refuse it.  `s_next_written_percentage` is never reset (196).
- `mupgrade_root.c`.  The test at 427 is negated and never true while packets are sent.
  A stop that finds the flag set and creates the semaphore after the distribution
  looked for it waits for ever (509, 518-528).  `mupgrade_firmware_init()` returns
  `MDF_OK` when `esp_ota_begin()` fails (69).  A device that answers STOP while
  statuses are collected stays in the requested list (249-254).
- `mwifi.c`.  Readers do not look at the sender and the send lock is held per fragment,
  so long packets of two writers to one reader may be joined without any fault; the
  plans give long packets to one writer per reader.  A fragment repeated inside a
  packet drops the packet.  A failure at a child loses its subtree while
  `mwifi_transmit_write()` may return `MDF_OK`.  The addresses that go with a packet
  (773-794) take room in its last fragment; the model takes it that they fit.
- `mespnow.c`.  `mespnow_read()` compares neither the sender nor `total_size`.  When a
  full queue turns away the end of one packet and the head of the next, their parts
  are joined; so are a packet given up by its writer and one whose first frame was
  damaged, or acknowledged by the late callback of an earlier frame.  With two
  senders to one pipe frames join without any fault, and the filter of repeated
  frames, which knows the last magic of the pipe, lets a repeated frame pass that
  follows a frame of the other sender; the runs have one sending node.  A callback after the timeout is
  taken for that of the next attempt or frame.  `mespnow_add_peer()` deletes a peer
  that exists and returns `MDF_OK` (168).

- `mdf_event_loop.c` and `mwifi.c`.  Twenty events may wait while their data lies in three
  buffers, those of IP in one, which every event of IP overwrites, also those that are not
  sent (140), as are most without `CONFIG_MWIFI_WAIVE_ROOT` (150-158): a late handler reads the data of
  a later event, and one of an event without data (285) that of an earlier one.  An event that
  finds the queue full takes the place of the oldest, whatever that announces:
  `ServicesFollow` says nothing when an event was lost, and the services may then stay
  as they were.
- `mlink_httpd.c`.  The timer clears an entry that `mlink_httpd_write()` is using (186):
  its later writes go to socket 0, which counts as sent (138), `num` wraps to 65535 and the entry
  is in use with no timer for good.  A connection is found by its socket number (192),
  and the number of a client that hung up is given to the next: late answers, and the
  timer's close, reach the wrong client.  A server started before the reader has drained the
  queue of the last one loses it (893-907), and the next request aborts; so does one
  that finds the queue full with the mark of the end first (442-447).  A stop frees
  the table (971) while an answer may still be written.  When the table is full the
  request is forwarded and its client gets nothing.
- `mlink_notice.c`.  The semaphore is given before the sockets are closed (277): a task
  started in between dies, and the next stop waits for ever.
- `mconfig_chain.c`.  `mespnow_read()` overwrites `dest_addr`, so that what is left in the pipe decides whom
  a slave asks (395-417), and a peer kept by an earlier round is deleted instead of added
  (`mespnow.c:168`): such rounds fail, and a later one succeeds.

### 3.3 Bounds

- Node: three packets give a first, a middle and a last one, so progress with a hole,
  out of order and complete are all reached; two firmwares are what is needed for a
  stale record.  `SavedNum = 4 > MaxPacket` saves all bits.  With `Interval = 33`
  the first and the second packet of A reach 33% and 66% exactly, which is when the
  code saves, so a restart resumes records with one and with two packets, and the
  last packet saves nothing; 50 skips a save and saves at the last packet.  `UplinkCap = 1` makes a
  reply wait for the previous one.  Devices do not interact: `FocusSpec` moves one device,
  of either mesh type in `node`, while the other rests.
- Root: two devices are needed for merged progress and for lists that differ, two
  packets for one that is skipped and one that is sent.  `Retry` bounds the rounds as in
  the code.  `QueueCap` (3 in the code) and `MeshCap` are 1 or 2 so that a full queue
  happens.  The three plans of `root_faults` leave out, in turn, the restart of the root and the stop
  of the distribution; the restart of devices; and the stops and failing reads: each event
  meets each other one in some plan, but for these.  `Devices` are symmetric in `root`, which checks no liveness.
- Mwifi: the tree has a root, two children and a grandchild, so a packet is forwarded
  once and a node has where to move.  The plans separate what would multiply: short
  packets under two moves of nodes and a failed query; the lists of all nodes; long
  packets of two writers; three long packets under one fault of each kind; lists under two failed
  queries and a move; packets to the root whose mesh stops once.
  `MaxWrites` bounds the packets of a writer.  `CHECK_DEADLOCK FALSE` is set since a
  plan ends: all is written and read.
- Mespnow: packets of one to three frames, `Retry = 2`, a queue of two frames, a buffer
  that a packet of three frames does not fit.  The plans put one event of each kind
  under two tasks, or under three packets of one, and combine losses, lost
  acknowledgements, late callbacks and damage so that attempts run out.

- Root services: the plans separate what would multiply: two requests on a server that
  stays, one to two devices, with a client that hangs up; a server that stops and starts
  under one request; notices of two devices between changes of the address, with mDNS
  failing; more events than the queue takes; every call of the callbacks that takes two buffers,
  or sends an event without data.  Two connections and two socket numbers make
  the table full and numbers come again; `QueueLen = 1` (3 in the code) and `QueueNum = 3`
  (20) make both queues full; two buffers (3) make the ring turn.
  `Heard` lets clients come only when the notices of this address are out, which keeps
  the graph small: a client learns the address from them.  `Calm` lets one thing go wrong on a
  server that stays: a connection breaks or is hung up, or a timer is not created; timers expire
  at any time.
- Configuration chain: `a` hears the root, `b` hears the root and `a`, so `b` may be configured
  by either; the first whitelist names both, the second `a` alone, the third begins with ANY.
  `Budgets` says which nodes take part, whether the build has the whitelist, how many
  packets are lost, waits end early, durations expire, and how often the phone calls again
  or BLUFI brings a configuration.  `Retry = 2` and four keys (as many as are in
  use at once).  The waits of the code (500 ms, 100 ms, 1 s, 10 s) are longer than a master
  takes for a reply, so that one ends early only out of the budget (`Late`).  A plan ends,
  and so `CHECK_DEADLOCK FALSE` is set.

### 3.4 Fairness

`MupgradeNode!FairSpec`: weak fairness of `Proceed` (a handler that has begun runs on: it
blocks on nothing but the uplink) and of `Uplink`; strong fairness of `Status` and
`DataWritten` of the last firmware, which says that the root asks and sends again and
again (the retry loops of `mupgrade_firmware_send()`, which an application repeats
until it succeeds) and that not every message is lost nor every write fails.
Restarts and stops are never forced.

`MupgradeRoot!FairSpec`: weak fairness of the three tasks of the root, which FreeRTOS
schedules.  Nothing is asked of the devices or of the mesh; `SendReturns` excepts
devices that keep stopping (each sends a status nobody asked for, which the
draining loop would take for ever) and a deleted queue.

`Mespnow!FairSpec`: weak fairness of each writing task and of the radio, which gives its
callback for every frame it takes.  A task that waits for the lock takes it once it stays free,
and gets it in the end since the packets of the others are bounded; no wait is forced
to time out, for `wait_ticks` may be `portMAX_DELAY`.

`MlinkRoot!Fairness`: weak fairness of the handler, of the tasks that send events (which finish
the call of a callback they are in), of the server, of both tasks of the app, of the notice task, and of the timer task, all scheduled
by FreeRTOS; nothing is asked of clients, devices and the network.

`MconfigChain!Fairness`: weak fairness of the three tasks of every node, and strong fairness of
hearing each neighbour, whose beacons are on the air every few hundred milliseconds as long as
it shows itself: a scan that goes on for ever hears one in the end.

## 4. The proofs

Eight modules of proofs are checked by TLAPS.  The first theorems are about
`MupgradeNode`, for any devices, campaigns, numbers of packets and report intervals.

- **`NodeTypes`** and **`RecordsCount`**: `[]TypeOK` and `[]WrittenCountsProgress`, assuming
  `SavedNum > MaxPacket`.  The invariant is `Typed /\ Handling`.  `Typed` strengthens the
  two in that every record, also those on their way to the root, is typed and counts
  its bits; `Handling` says that between two effects of a handler there is a firmware
  on record, whatever stop came in between, which the selection of the boot partition
  needs.  The heart is
  `WrittenSound`: a bit that was not set is counted once, through
  `FS_AddElement` and the bound on the cardinality of the bits.
- **`FlashHoldsProgress`**: `[]ProgressOnFlash`, assuming in addition `~Broadcast` and that no firmware occurs twice in `Campaigns`.  The invariant
  `AllTraced` relates each record, flash, the partition's firmware and the campaigns
  the device has seen: a record belongs to a firmware that was offered, of the
  current or of an earlier campaign, and the partition was erased for the latest one
  begun.  Without the part on campaigns the step `StatusKnown` would resume a record of
  a firmware whose flash was erased meanwhile, which is what the order A, B, A does.

- **`StoppedDevicesStay`**: `Spec => []StopHonoured`, assuming `SavedNum > MaxPacket`, for devices of
  either mesh type.  The invariant `AllStoppable`, above that of `ReportsAreHonest`' part `Known`, says for
  every place of the handler and of the stop what the selection, the flag and the mark on the record can be
  (`Stoppable`): a selection made while no stop runs is one whose flag is set or about to be, and a
  handler that goes on past a stop has either seen its mark or is in `excused`.

- **`ReportsAreHonest`**: `Spec => []FinishReportHonest`, assuming `SavedNum > MaxPacket` and
  that no multiple of the report interval is 100; packets may be broadcast and
  firmwares distributed twice.  The invariant is `Known /\ Honest`: the next percentage
  is a multiple of the interval, so line 206, which saves at exactly that percentage,
  never saves a record with every packet counted; a full record in RAM is then one the
  device has selected, or is about to select (`pc` is `ended` or `erased`), and only such
  records are sent.  With an interval that divides 100 the run `node_lost_finish`
  refutes it.

- **`DeviceImplemented`**: `Spec => ImplementsDevice`, under the assumptions of
  `FlashHoldsProgress` and `NoLonger`, that a later firmware has no more packets than an
  earlier one.  `StepsAbstractly` says which six relations between a state and the next
  are steps of `UpgradeDevice`; each action is then shown to be one of them: a status for
  a new firmware is a `Start`, a packet written a `Gather`, the last step of the handler a
  `Select` or a `Halt`, a restart a `Resume`, the rest stutters.  The invariant
  `AllRefining` adds to `AllTraced` that records hold packets of their own firmware only,
  that a record waiting for the selection is full or was stopped meanwhile, and that the
  record in NVS marks nothing the one in RAM does not.  `NoLonger` is needed: a device that
  could not save the record of a new firmware (or begin its upgrade) resumes the old one
  after a restart, is sent the packets of the new one because it had answered, and line 179
  accepts those up to the old size, the old size itself included.

The next are about `MupgradeRoot`, for any devices, retries and bounds, and whatever
the mesh loses.

- **`RootTypes`** and **`ListsAddUp`**: `[]TypeOK` and `[]AccountedFor`.  The invariant `RInv` adds the bounds
  of the counters at each place of the loop and that a distribution has a firmware
  (`Placed`).  `NoEmptyFinish` shows on the way that the first branch of the poll is never
  taken: it asks for a finished device with nothing written.  Taken, it could drop
  an address.
- **`SuccessesSelected`** (`[]SuccessTrue`, of one firmware) and **`OkOnlyWhenDone`**
  (`OkMeansDone`): `Reported` says that whoever sent a complete status, still on its way, in the queue or in a
  task's hands, has selected that firmware or resumed a full record of it (`Vouch`), that only such devices count as upgraded, and
  that once an unfinished device has answered a packet is missing, so that the request
  cannot end well.  With two firmwares the run `root_stale` refutes `SuccessTrue`: a
  status does not say to which distribution it belongs.
- **`SkippedPacketsHeld`**: `Spec => []SkippedHeld`, of one firmware.  `Lasting` says of every status, wherever
  it is, that its packets are still held by its sender, or that the sender is in `lost`.

- **`AcknowledgedIsHeard`** (`Mespnow`): `Spec => []AckedHeard`, for any tasks, nodes, packets, retries
  and room.  The lock keeps the other tasks of a node out, the bits are cleared when a frame goes
  out, and one frame of a node is on the air at a time; so a bit that is set while a task waits
  belongs to its own frame, unless a callback came after its wait had ended (`Noticed`).
- **`PacketsKeepOrder`**: `Spec => []InOrderOnce`, assuming `OneSender`, that the tasks that write to
  one reader are on one node.  The filter of the receive callback remembers the last frame
  of a pipe only (`mespnow.c:56`, 79, 118-123).  `Lined` says that the frames of a node on the air
  come in order and that copies of a frame follow one another, since a task sends its next frame
  only when it is past the last one; `Remembered`, that a frame that was heard comes again only
  while it is the last one heard; `InOrder`, that what a pipe holds and what its reader has gathered and
  returned are the heads of packets in their order.  The hypothesis was found while proving: with
  writers on two nodes a frame that is sent again after a frame of the other node passes the filter, and a
  packet of one frame is returned twice.  The run has writers of one node.
- **`PacketsAreWhole`**: `Spec => []Whole`, assuming `OneSender`.  What a reader takes next must begin a
  packet, go on with the one it has, or have a number that it does not accept; the invariant `WInv` says when
  that is so, along the way of a frame.  While no callback is late, a task goes on only when its frame was
  received, so that a new frame follows the last one heard (`InTurn`), whatever is lost and however often
  it is sent.  While none is lost, callbacks may be late, since the frames on the air follow one another
  and are heard in that order (`Chained`, `Ended`).  After one damaged frame there is a gap of one.  A reader with a
  part of the packet sees it, since the next frame has another number (`Close`); when the first
  frame is the damaged one, the packet before it was not given up (`Kept`) and is whole.  `Stream` carries this
  through the queue to the packet that is gathered.  `OneSender` is needed: with tasks of two nodes TLC
  finds the first frame of one packet joined to the second of another without any fault, since
  `mespnow_read()` compares no sender (3.2).
- **`PacketTypes`**: `[]TypeOK`, from the invariants of the first two.

- **`MwifiTypes`** (`Mwifi`): `Spec => []TypeOK`, for any tree, writers, lists and events.  `TInv` says what a
  call may hold at each place of its loops (`Calling`: below the children there is no address of all
  nodes left, and a fragment is within its packet) and that a waiting node has gathered less than the eight
  fragments of the longest packet (`ShortOfPacket`); so `packet_seq` fits its three bits, and
  `expect_seq` passes them only by the turns of a loop that finds the mesh not started.
- **`ShortPacketsWhole`**: `Spec => [](ShortPackets => Whole)`.  `ShortPackets` says of the plan that each packet
  is one fragment, whoever writes it, to whomever, and that `mwifi_root_read()` is not called while the mesh is not
  started (it then returns an empty packet).  Fragments are lost, repeated and late, sends and
  queries fail and nodes move without bound.  `SInv`: what is in a path, a call or a reader is a part of a packet that was
  written, a reader has nothing gathered between two packets, and a node that passes a packet on still has
  it (`ShortNodes`), since it reads nothing else meanwhile.
- **`ShortListsOnce`** and **`ShortListsReached`**: `Spec => [](ShortLists => OnceAndAddressed)` and
  `Spec => [](ShortLists => AllReached)`.  `ShortLists` adds to `ShortPackets` that packets go to single nodes or
  to lists of nodes and that the mesh repeats nothing; nodes move at any time, everything else
  fails as often as it likes (and for `AllReached` the property itself asks for no fault).  The argument counts tokens: a
  token is a part and a reader it is for, a place is a call, a position of a path or a
  position of what a reader returned.  `LInv`: a token is at one place at most (`Apart`), no place holds
  a token of another packet or another reader (`Addressed`), and without faults every token
  is at a place (`Covered`).  `Straight` and `Direct` are what the steps need: the list of a call,
  the addresses it is sending and the reader they go to are apart, and no node is in its own
  list.  Each step maps every place after it to the place its tokens came from; `Carried` says once
  that such a map, when it joins no two places that hold the same token, keeps the first two, and `HandedOver`,
  `CallLets` and `HeadTaken` are its uses: a token handed over, some dropped, and a
  fragment taken off a path, where the others move up.  That `NextChild` asks for the subnet of a
  child after nodes have moved is harmless, since what it finds below the child leaves the list and the
  rest is sent to directly.  The hypotheses are needed: a repeated fragment passes the filter when one of another
  path came between, `mwifi_root_read()` has no filter, and a packet for all nodes is passed on by
  every node to its children of that moment, so a node that moves meanwhile gets it twice or never.

- **`EventsFindTheirData`** (`EventLoop`) and **`RootEventsFindTheirData`** (`MlinkRoot`): `[]OwnData`, for any
  sources, tasks, calls of callbacks, rings and queues.  The invariant places every event on the ring: the
  distance from its buffer to the next free one is the number of later turns of
  its source, counted around the ring, an event still being posted excepted, whose buffer is
  the next one.  A turn that sends nothing, or copies nothing, takes a buffer all the same.  For the root it is enough that every step is a step of `EventLoop`.
- **`RootKeepsNotices`**: `Spec => []NoticesKept`.  Besides the types the invariant needs the
  phases of the service (`NoticePhase`): a message is being gathered only while a task runs
  that has not given its semaphore, so no start finds one half gathered.
- **`RootServicesFollow`** and **`RequestsFindQueue`**: `[]ServicesFollow` and `[]QueueThere`.  The invariant says for every
  place of the handler what it has done of a start or a stop, and that a queue exists
  while the server runs, but for a start that did not wait.
- **`AnswersReachTheirClient`**: `Spec => []AnswersRight`, for any requests, devices, connections and
  sockets.  The invariant `AInv`: an entry is whole, or was cleared and holds only what a
  task that still has it writes (`Conn`); a request is in one place on its way and each of its devices answers once (`Singly`);
  a request whose socket number is no longer its own was closed before its last answer, or has all
  of them (`LeftEarly`); and the entry the writer has in hand is that of its answer, or the
  client of that answer is gone (`Own`), across the timer's `memset()`, a stop and the next start.
- **`LostSlotsAccounted`**: `Spec => []SlotsWatched`.  `WInv` counts: the slots that are lost, or will
  be when the writer sets the flag of an entry that was cleared under it (`Loose`), are at most as many as the
  crossed requests that have no entry any more, or never got a timer (`Lost`).  A slot becomes loose by
  the timer, by the stop that frees the table, and when no timer could be created, and each time a crossed request loses its
  entry, which no other entry carries (`Alone`) and no later one will (`Fresh`).
- **`AnswersWhole`**: `Spec => []AnswersComplete`, assuming fewer than 65536 devices, since the
  number of answers an entry still waits for is a `uint16_t`.  `DInv` relates each entry whose
  socket number was never spoiled (`Spotless`: no request of that number was closed early or
  lost its entry) to what its client has read, for every place at which the writer and the
  timer may stand with it (`Staged`): nothing or the header before the first answer; after it
  pairs of a size and an answer (`Rows`), where the answers written and those the entry waits
  for make up the devices asked; and which last piece the timer will send with it.  For each
  piece there is a lemma on the sequence alone (`WroteHeader`, `WroteSize`, `WroteAnswer`,
  `Counted`, `TimerWrote`), and one that the step of the code takes an entry from one stage to
  the next.  `Holder` is why they write to the right client: while the answer is not
  ended, the socket number of a spotless entry is still its request's.  The invariant
  itself was first checked on the run.
- **`ServicesTypes`**: `[]TypeOK`, from the invariants of all parts; `QueueTyped` bounds the queue
  of requests.

  Two corrections of the history variables came out of these proofs.  `closed` was kept as long
  as the client had not seen the end of its answer; a client with one device that is answered twice
  was closed after its end and before its last answer.  `crossed` did not count the entries that a stop
  frees while the writer or the timer holds one: the writer can set the flag of that slot in the table
  of the next start.  Both were out of the bounds of the run.
- **`ConfigurationsWhole`** (`MconfigChain`): `Spec => []Configured`, for any nodes, neighbourhood and
  whitelists, and builds with and without the whitelist.  The invariant `CInv`: every configuration, on its
  way or in the hands of a slave or a master, lets its receiver in, whoever sent it; and no step changes
  the build (`BuildKept`).
- **`ChainTypes`** (`MconfigChain`): `[]TypeOK`.  That a node has at most one configuration, read or
  queued, is part of `CInv` (`One`); the flags and semaphores (`FlagsTyped`) are an
  invariant of their own, and the tables of peers (`PeersTyped`) one above `CInv`.

The hypotheses of the theorems about `MupgradeNode` are those under which TLC finds the properties
true; for each
(`SavedNum`, `Broadcast`, `Distinct`, `NoLonger`) there is an instance in which TLC refutes a property
without it (a small `SavedNum`, `Broadcast = TRUE`, `BackToFirst`, one packet in A and three in B).

Assumptions about constants, which TLC evaluates on every run: those of the modelled modules
(numbers of slots, sockets, retries and lengths are positive, `Devices` is finite, a plan of
`MlinkRoot` names the devices of each request).  The history variables are the model's own.

Only model-checked, and why:

- `TimelyCompletes` of `MupgradeRoot`, which speaks of two rounds in a mesh that answers in time.
- `FaultCosts` of `Mespnow` and `FaultCostsTwo` of `Mwifi`, which count packets: that one fault costs two at
  most is a statement about the number of those missing at the end, and needs an account of
  each of them over the whole run.
- The other properties of `Mwifi` for long packets and packets for all nodes.  A long packet passes through several
  nodes, each of which gathers it and sends it on; and with two writers of long packets to one
  reader the invariants are false (3.2), which the plans exclude and no assumption does.
- Liveness under fairness (`UpgradeFinishes`, `SendReturns`, `WritesReturn`, `HandlerReturns`,
  `RequestEnds`, `MasterReturns`, `EventuallyConfigured`), which is out of the prover's reach.

## 5. What is not modelled

- Of the modelled files: log text, messages to the event loop, allocation failures
  (a device without memory restarts), the failure "No partition is found" of
  `mupgrade_node.c` (79-81).  On the root one distribution runs at a time and no
  firmware is initialised during it, to which the callers see; the use of a deleted
  queue is stated (`QueueLive`), its outcome is only a restart.  In `mwifi.c`: start, stop,
  events, the root that waives its role, the group flag of `mwifi_root_write()`, buffer
  sizes, compression, and the 13 bits of `total_size`; sizes are whole fragments, and
  a list of addresses has no duplicates.
  In `mespnow.c`: init and deinit, and the creation of the send lock, for which two tasks
  may race.  `mdf_event_loop_deinit()`, which nothing in the repository calls.  In `mlink_httpd.c`:
  malformed requests, those that want no answer, and the pages that ask no device.
  In `mconfig_chain.c`: the threshold of the signal, the channels of a scan, and of
  encryption and compression all but that a wrong key is noticed.  In `MlinkRoot` the device
  stays the root of its mesh.
- Conversions and I/O: `mlink_handle`, `mlink_json`, `mlink_ble`, `mdebug_console`,
  `mconfig_blufi`, `mconfig_security` (calls of cryptographic libraries), error names.
- The gateway to the Aliyun cloud and miniz (`third_party`), examples, tools.
- The components of section 6.

## 6. Plan

Done: `UpgradeDevice`, `MupgradeNode` and `MupgradeRoot` with their proofs, `Mwifi` and `Mespnow` with their proofs, `EventLoop`,
`MlinkNotice`, `MlinkHttpd` and `MlinkRoot` with their proofs, `MconfigChain` with its proofs.  Next, in this order:

1. `MlinkTrigger` (associations in NVS under restarts) and `MlinkSniffer`.
2. `MdebugFlash`, the ring of log sectors under restarts, and `MdfMem`.
3. `MupgradeCheck`: `kmp_find` as a function, checked against its definition.

Abstract specifications worth stating: a reliable packet channel, implemented by
`Mespnow` without faults.

Theorems next: `Whole` of `Mwifi` for long packets of one writer to each reader, where the steps of
`PacketsAreWhole` apply at each node; `mupgrade_firmware_send()` from one round to the next.
