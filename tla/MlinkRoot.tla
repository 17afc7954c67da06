------------------------------ MODULE MlinkRoot ------------------------------
(***************************************************************************)
(* The services of the root in the local network: the handler of the app   *)
(* (event_loop_cb() of examples/development_kit/light/main/light_example.c,*)
(* the same in the other development kits) starts and stops the notices    *)
(* and the HTTP server when the root gets and loses its IP address;        *)
(* root_read_task() and root_write_task() serve them.                      *)
(*                                                                         *)
(* The callbacks post events of the kinds "got", "lost" and "table" (a     *)
(* change of the routing table), and others, which do not concern the      *)
(* services.  The device stays the root of its mesh.  plan bounds what     *)
(* happens from outside.                                                   *)
(***************************************************************************)
EXTENDS EventLoop, MlinkNotice, MlinkHttpd

CONSTANT
  Plans \* how many calls of each callback, notices of devices and hang-ups
        \* there are, the devices of each request, whether mDNS may fail

ASSUME MlinkRootAssumption ==
  /\ "dest" \notin Calls
  /\ \A p \in Plans : "dest" \in DOMAIN p /\ p.dest \in [Requests -> SUBSET Devices]

VARIABLES
  plan,    \* what is left of it
  handler, \* where event_loop_cb() stands
  overrun, \* history: an event was dropped
  last     \* history: the last of "got" and "lost", if the handler saw it

rootVars == <<plan, handler, overrun, last>>
vars == <<rootVars, loopVars, noticeVars, httpdVars>>

RootInit ==
  /\ EventInit /\ NoticeInit /\ HttpdInit
  /\ plan \in Plans /\ handler = "idle" /\ overrun = FALSE /\ last = "none"

Spend(field) ==
  /\ plan[field] > 0
  /\ plan' = [plan EXCEPT ![field] = @ - 1]

-----------------------------------------------------------------------------
(* The event loop                                                          *)
EventPosted ==
  /\ \E c \in Calls : Spend(c) /\ Post(c)
  /\ overrun' = (overrun \/ events' # events)
  /\ UNCHANGED <<handler, last, noticeVars, httpdVars>>

EventGoesOn ==
  /\ \E t \in Senders : GoOn(t)
  /\ overrun' = (overrun \/ events' # events)
  /\ UNCHANGED <<plan, handler, last, noticeVars, httpdVars>>

EventQueued ==
  /\ \E t \in Senders : Queue(t)
  /\ overrun' = (overrun \/ events' = events)
  /\ UNCHANGED <<plan, handler, last, noticeVars, httpdVars>>

Handles(pc, next) ==
  /\ handler = pc /\ handler' = next
  /\ UNCHANGED <<plan, overrun, last>>
Noticing(pc, next) == Handles(pc, next) /\ UNCHANGED <<loopVars, httpdVars>>
Serving(pc, next)  == Handles(pc, next) /\ UNCHANGED <<loopVars, noticeVars>>

EventTaken ==
  /\ handler = "idle" /\ Dispatch
  /\ LET kind == Head(events).kind
     IN  /\ handler' = IF kind \in {"got", "lost", "table"} THEN kind ELSE "idle"
         /\ last' = IF kind \in {"got", "lost"} THEN kind ELSE last
  /\ UNCHANGED <<plan, overrun, noticeVars, httpdVars>>

HandleTable == Noticing("table", "idle") /\ NoticeHttp

(* The root has an address.                                                *)
StartNotice == Noticing("got", "announce") /\ NoticeStart
StartFails ==
  /\ handler = "got" /\ handler' = "idle" /\ last' = "failed"
  /\ Spend("mdns") /\ NoticeFails
  /\ UNCHANGED <<overrun, loopVars, httpdVars>>
Announce   == Noticing("announce", "serve") /\ NoticeHttp
StartHttpd ==
  /\ Serving("serve", IF server THEN "idle" ELSE "create")
  /\ HttpdStart
CreateTasks ==
  /\ Serving("create", "idle")
  /\ reader' = IF reader = "off" THEN "call" ELSE reader
  /\ UNCHANGED <<server, mqueue, asked, http, writer, timeout, mesh, hasty,
                 tableVars>>

(* The root has lost its address, or its router was switched.              *)
StopNotice  == Noticing("lost", IF stopped THEN "halt" ELSE "wait") /\ NoticeStop
AwaitNotice == Noticing("wait", "halt") /\ NoticeDelete
SkipHttpd   == ~server /\ Serving("halt", "idle") /\ UNCHANGED httpdVars
StopHttpd   == server /\ Serving("halt", "exit") /\ HttpdStop
ExitHttpd   == Serving("exit", "free") /\ HttpdExit
FreeHttpd   == Serving("free", "idle") /\ HttpdFree

Handler ==
  \/ EventTaken \/ HandleTable
  \/ StartNotice \/ StartFails \/ Announce \/ StartHttpd \/ CreateTasks
  \/ StopNotice \/ AwaitNotice \/ SkipHttpd \/ StopHttpd \/ ExitHttpd
  \/ FreeHttpd

-----------------------------------------------------------------------------
(* The tasks                                                               *)
notHttpd  == <<loopVars, noticeVars, handler, overrun, last>>
notNotice == <<loopVars, httpdVars, handler, overrun, last>>

Client ==
  /\ \/ \E r \in Requests :
          /\ plan.dest[r] # {} /\ Arrive(r, plan.dest[r]) /\ UNCHANGED plan
     \/ \E f \in Fds : HangUp(f) /\ Spend("hangups")
  /\ UNCHANGED notHttpd

Server == (AddConnection \/ AddTimer \/ PutRequest) /\ UNCHANGED <<plan, notHttpd>>

root_read_task ==
  /\ ReadCall \/ ReadExit \/ DeleteQueue \/ Forward
  /\ UNCHANGED <<plan, notHttpd>>

WriteAnswer ==
  \/ held = {} /\ \E a \in mesh : WriteCall(a)
  \/ WriteFind \/ WriteHeader \/ WriteSize \/ WriteData \/ WriteCount
  \/ WriteRemove

(* It is there after the first start.                                      *)
WriteNotice ==
  \/ /\ reader # "off" /\ writer.pc = "idle"
     /\ \E n \in Nodes : NoticeCall([type |-> "status", dev |-> n])
     /\ Spend("notices")
  \/ NoticeQueue /\ UNCHANGED plan

root_write_task ==
  \/ WriteAnswer /\ UNCHANGED <<plan, notHttpd>>
  \/ WriteNotice /\ UNCHANGED notNotice

Timer ==
  /\ TimerCloses \/ \E i \in Slots : TimerFires(i)
  /\ UNCHANGED <<plan, notHttpd>>

mlink_notice_udp_task ==
  /\ NoticeBind \/ NoticeTake \/ NoticeMerge \/ NoticeAir \/ NoticeEnd
     \/ NoticeClose
  /\ UNCHANGED <<plan, notNotice>>

Next ==
  \/ EventPosted \/ EventGoesOn \/ EventQueued \/ Handler \/ Client \/ Server
  \/ root_read_task \/ root_write_task \/ Timer \/ mlink_notice_udp_task

Spec == RootInit /\ [][Next]_vars

(* Tasks run, and timers fire; nothing is asked of clients and devices.    *)
Fairness ==
  /\ WF_vars(EventGoesOn) /\ WF_vars(EventQueued) /\ WF_vars(Handler) /\ WF_vars(Server)
  /\ WF_vars(root_read_task) /\ WF_vars(WriteAnswer /\ UNCHANGED <<plan, notHttpd>>)
  /\ WF_vars(NoticeQueue /\ UNCHANGED <<plan, notNotice>>)
  /\ WF_vars(Timer) /\ WF_vars(mlink_notice_udp_task)

FairSpec == Spec /\ Fairness

-----------------------------------------------------------------------------
TypeOK ==
  /\ \A i \in DOMAIN events : events[i] \in Event
  /\ stopped \in BOOLEAN /\ sem \in {"none", "empty", "given"}
  /\ task \in {"none", "create", "loop", "merge", "air", "dead"}
  /\ message \cup held \cup written \cup aired \cup dropped \subseteq Notice
  /\ notices = NoNotices \/ Elements(notices) \subseteq Notice
  /\ server \in BOOLEAN
  /\ mqueue = NoQueue \/ Len(mqueue) <= QueueLen
  /\ conns = Freed \/ DOMAIN conns = Slots
  /\ sockets \in [Fds -> Requests \cup {NoRequest}]
  /\ reader \in {"off", "call", "wait", "drain"}
  /\ \A r \in Requests : asked[r] \in [fd : {NoFd} \cup Fds, dest : SUBSET Devices]
  /\ closed \cup crossed \subseteq Requests

(* Its entry was its own, and so was its socket number: no other request   *)
(* of that number was closed before its last answer or lost its entry.     *)
Clean(r) ==
  /\ r \notin crossed
  /\ \A q \in (closed \cup crossed) \ {r} : asked[q].fd # asked[r].fd

Answers(r)  == {i \in DOMAIN reply[r] : Len(reply[r][i]) = 2}
Answered(r) == {reply[r][i] : i \in Answers(r)}

(* A client finds an answer to another client's request only when that     *)
(* client was gone before its own last answer (mlink_httpd.c:192: a        *)
(* connection is found by its socket number, which is used again).         *)
AnswersRight ==
  \A r \in Requests : \A a \in Answered(r) : a[1] # r => a[1] \in closed

(* The answer of a clean request to several devices is framed: the header, *)
(* each answer behind its size, the end; or the error alone.  When the     *)
(* server completed it before its time, every device asked answered, once  *)
(* (mlink_httpd.c:811-871 against the timer, 159-187).                     *)
Framed(s, alone) ==
  \/ s \in {<<>>, <<<<"400">>>>}
  \/ alone /\ Len(s) = 1 /\ Len(s[1]) = 2
  \/ /\ ~alone /\ s[1] = <<"header">>
     /\ \A i \in 2 .. Len(s) :
          \/ i % 2 = 0 /\ s[i] = <<"size">>
          \/ i % 2 = 1 /\ Len(s[i]) = 2
          \/ i % 2 = 0 /\ s[i] = <<"footer">> /\ i = Len(s)

AnswersComplete ==
  \A r \in Requests : Clean(r) =>
    /\ Framed(reply[r], Cardinality(asked[r].dest) = 1)
    /\ Complete(r) /\ r \notin closed =>
         /\ Cardinality(Answers(r)) = Cardinality(asked[r].dest)
         /\ Answered(r) = {<<r, d>> : d \in asked[r].dest}

(* An entry of the table that no timer will clear is a slot lost for good: *)
(* there is at most one for each request that got no timer, or whose entry *)
(* was cleared by its timer while its answer was written (mlink_httpd.c:   *)
(* 175, 186, 211 and 826).  The entry that is just added does not count.   *)
SlotsWatched ==
  conns # Freed =>
    Cardinality({i \in Slots : conns[i].flag # "none" /\ ~conns[i].timer
                                /\ ~Adding(i)})
      <= Cardinality(crossed)

(* The server finds a queue for its request, except after a start that did *)
(* not wait for root_read_task() to delete the old one (mlink_httpd.c:449, *)
(* 893-907, 965).                                                          *)
QueueThere == http.pc = "put" => mqueue # NoQueue \/ hasty

(* Every notice written is on its way, was broadcast, or was turned away   *)
(* by a full queue or by the end of the service, also when it had to wait  *)
(* for those of another type (mlink_notice.c:193-248, 297-308).            *)
NoticesKept ==
  written \subseteq Elements(notices) \cup message \cup aired \cup dropped

(* When all events are handled and none was lost, the services are as the  *)
(* last address event left the root (light_example.c:540-588).             *)
ServicesFollow ==
  handler = "idle" /\ events = <<>> /\ ~overrun /\ (\A t \in Senders : posting[t] = {}) =>
    /\ last = "got" => server /\ conns # Freed /\ ~stopped
    /\ last = "lost" => ~server /\ conns = Freed /\ stopped

(* The handler comes back from every event, except from the stop of a      *)
(* notice task that died because an earlier one still had the port         *)
(* (mlink_notice.c:174-188, 277-282, 346).                                 *)
HandlerReturns == handler # "idle" ~> handler = "idle" \/ task = "dead"

(* A request whose entry is its own ends: the client has its answer, or    *)
(* its connection was closed (mlink_httpd.c:159-187).                      *)
RequestEnds ==
  \A r \in Requests :
    (\E i \in DOMAIN conns : conns[i].req = r /\ Clean(r))
      ~> Complete(r) \/ r \in closed \/ ~Clean(r)
=============================================================================
