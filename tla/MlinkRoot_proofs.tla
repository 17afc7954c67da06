-------------------------- MODULE MlinkRoot_proofs --------------------------
(***************************************************************************)
(* Proofs about the services of the root, for every number of requests,    *)
(* devices, connections and events and every length of the queues.         *)
(*                                                                         *)
(* RootEventsFindTheirData: every step is one of EventLoop.                *)
(* RootKeepsNotices: no notice is lost between its queue and the air.      *)
(* AnswersReachTheirClient: an answer on the connection of another request *)
(* is one whose own connection was closed before it.                       *)
(* LostSlotsAccounted: a slot is lost only to a request whose entry was    *)
(* cleared while its answer was written, or got no timer.                  *)
(* RootServicesFollow: the services are as the last address event left     *)
(* the root, and a request finds a queue.                                  *)
(* AnswersWhole: the answer of a request whose entry and socket number     *)
(* were its own is framed, and complete when the server says it is.        *)
(***************************************************************************)
EXTENDS MlinkRoot, EventLoop_proofs, FiniteSetTheorems,
        WellFoundedInduction

LEMMA StepOfEvents == [Next]_vars => [EventNext]_loopVars
<1> SUFFICES ASSUME [Next]_vars PROVE [EventNext]_loopVars
  OBVIOUS
<1>1. CASE EventPosted
  BY <1>1 DEF EventPosted, EventNext
<1>2. CASE EventGoesOn \/ EventQueued
  BY <1>2 DEF EventGoesOn, EventQueued, EventNext
<1>3. CASE Handler
  BY <1>3 DEF Handler, EventTaken, EventNext, HandleTable, StartNotice, StartFails,
     Announce, StartHttpd, CreateTasks, StopNotice, AwaitNotice, SkipHttpd,
     StopHttpd, ExitHttpd, FreeHttpd, Noticing, Serving
<1>4. CASE Client \/ Server \/ root_read_task \/ root_write_task \/ Timer
           \/ mlink_notice_udp_task
  BY <1>4 DEF Client, Server, root_read_task, root_write_task, Timer,
     mlink_notice_udp_task, WriteAnswer, WriteNotice, notHttpd, notNotice
<1>5. CASE UNCHANGED vars
  BY <1>5 DEF vars
<1>6. QED BY <1>1, <1>2, <1>3, <1>4, <1>5 DEF Next

(* An event that carries data finds it while its callbacks took fewer      *)
(* buffers since than their source has others, also on a root whose        *)
(* handler waits for other tasks while events pile up (mwifi.c:137-157,    *)
(* 170-290).                                                               *)
THEOREM RootEventsFindTheirData == Spec => []OwnData
<1>1. RootInit => IInv
  BY Starts DEF RootInit
<1>2. IInv /\ [Next]_vars => IInv'
  BY StepKeeps, StepOfEvents
<1>3. QED BY <1>1, <1>2, PlacedOwnData, PTL DEF Spec

(***************************************************************************)
(* The notices.                                                            *)
(***************************************************************************)
NoticesTyped ==
  /\ notices = NoNotices \/ notices \in Seq(Notice)
  /\ message \in SUBSET Notice /\ written \in SUBSET Notice
  /\ held \in SUBSET Notice /\ \A n \in held : held = {n}

(* A task is started when the one before it has given its semaphore, and   *)
(* so never with a message.                                                *)
NoticePhase ==
  /\ ~stopped => sem = "empty" /\ handler # "wait"
  /\ stopped /\ handler = "wait" => sem = "empty" \/ (sem = "given" /\ task = "none")
  /\ stopped /\ handler # "wait" => sem = "none" /\ task = "none"
  /\ task \notin {"merge", "air"} => message = {}

NInv == NoticesTyped /\ NoticePhase /\ NoticesKept

NoticeNone == [type |-> "none", dev |-> Root]

LEMMA NoticeKinds == NoticeNone \notin Notice
  BY DEF Notice, NoticeNone

LEMMA NoneElements == Elements(NoNotices) = {NoticeNone}
  BY DEF Elements, NoNotices, NoticeNone

LEMMA EmptyElements == Elements(<<>>) = {}
  BY DEF Elements

LEMMA TailElements ==
  ASSUME NEW q \in Seq(Notice), q # <<>>
  PROVE  /\ Tail(q) \in Seq(Notice) /\ Head(q) \in Notice
         /\ Elements(q) = {Head(q)} \cup Elements(Tail(q))
<1>1. /\ Tail(q) \in Seq(Notice) /\ Len(Tail(q)) = Len(q) - 1 /\ Len(q) \in Nat \ {0}
      /\ \A i \in 1 .. Len(q) - 1 : Tail(q)[i] = q[i + 1]
      /\ Head(q) = q[1] /\ Head(q) \in Notice
  OBVIOUS
<1>2. \A i \in DOMAIN q : i = 1 \/ i - 1 \in DOMAIN Tail(q)
  BY <1>1
<1>3. QED BY <1>1, <1>2 DEF Elements

LEMMA AppendElements ==
  ASSUME NEW q \in Seq(Notice), NEW n \in Notice
  PROVE  Append(q, n) \in Seq(Notice) /\ Elements(Append(q, n)) = Elements(q) \cup {n}
<1>1. /\ Append(q, n) \in Seq(Notice) /\ Len(Append(q, n)) = Len(q) + 1 /\ Len(q) \in Nat
      /\ \A i \in 1 .. Len(q) : Append(q, n)[i] = q[i]
      /\ Append(q, n)[Len(q) + 1] = n
  OBVIOUS
<1>2. QED BY <1>1 DEF Elements

LEMMA NoneBefore ==
  ASSUME NEW q \in Seq(Notice)
  PROVE  Elements(NoNotices \o q) = {NoticeNone} \cup Elements(q)
<1> DEFINE c == NoNotices \o q
<1>1. /\ Len(c) = Len(q) + 1 /\ Len(q) \in Nat /\ DOMAIN c = 1 .. Len(q) + 1
      /\ c[1] = NoticeNone /\ \A i \in 1 .. Len(q) : c[i + 1] = q[i]
      /\ DOMAIN q = 1 .. Len(q)
  BY DEF NoNotices, NoticeNone
<1>2. \A i \in DOMAIN c : i = 1 \/ (i - 1 \in DOMAIN q /\ c[i] = q[i - 1])
  BY <1>1
<1>3. \A i \in DOMAIN q : i + 1 \in DOMAIN c
  BY <1>1
<1> HIDE DEF c
<1>4. 1 \in DOMAIN c
  BY <1>1
<1>5. Elements(c) = {NoticeNone} \cup Elements(q)
  BY <1>1, <1>2, <1>3, <1>4 DEF Elements
<1>6. QED BY <1>5 DEF c

(* What MakeRoom takes away is counted as displaced.                       *)
LEMMA RoomMade ==
  ASSUME NoticesTyped
  PROVE  /\ MakeRoom \in Seq(Notice)
         /\ Elements(notices) \subseteq {NoticeNone} \cup Elements(MakeRoom) \cup Displaced
<1>1. MakeRoom \in Seq(Notice)
  <2>1. CASE notices = NoNotices
    BY <2>1 DEF MakeRoom
  <2>2. CASE notices # NoNotices /\ Len(notices) = NoticeLen
    <3>1. notices \in Seq(Notice) /\ notices # <<>>
      BY <2>2, MlinkNoticeAssumption DEF NoticesTyped, MlinkNoticeAssumption
    <3>2. QED BY <2>2, <3>1, TailElements DEF MakeRoom
  <2>3. CASE notices # NoNotices /\ Len(notices) # NoticeLen
    BY <2>3 DEF MakeRoom, NoticesTyped
  <2>4. QED BY <2>1, <2>2, <2>3
<1>2. QED BY <1>1, NoneBefore DEF Displaced

LEMMA NoticesStart == RootInit => NInv
  BY DEF RootInit, NoticeInit, NInv, NoticesTyped, NoticePhase, NoticesKept

(* The queue: every notice that waited waits on, or was turned away.       *)
LEMMA CallKeeps ==
  ASSUME NInv, NEW n \in Nodes, NoticeCall([type |-> "status", dev |-> n]),
         handler' = handler
  PROVE  NInv'
<1>1. [type |-> "status", dev |-> n] \in Notice
  BY DEF Notice
<1>2. NoticesTyped'
  BY <1>1, RoomMade DEF NoticeCall, NInv, NoticesTyped, notWrite
<1>3. NoticePhase'
  BY DEF NoticeCall, NInv, NoticePhase, notWrite
<1>4. NoticesKept'
  BY RoomMade, NoticeKinds DEF NoticeCall, NInv, NoticesTyped, NoticesKept, notWrite
<1>5. QED BY <1>2, <1>3, <1>4 DEF NInv

LEMMA QueueNoticeKeeps ==
  ASSUME NInv, NoticeQueue, handler' = handler
  PROVE  NInv'
<1>1. notices \in Seq(Notice)
  BY DEF NInv, NoticesTyped, NoticeQueue
<1>2. NoticePhase'
  BY DEF NoticeQueue, NInv, NoticePhase, notWrite
<1>3. CASE Len(notices) < NoticeLen
  <2>1. PICK n \in held : notices' = Append(notices, n)
    BY <1>3 DEF NoticeQueue
  <2>2. n \in Notice /\ Elements(notices') = Elements(notices) \cup {n}
        /\ notices' \in Seq(Notice)
    BY <1>1, <2>1, AppendElements DEF NInv, NoticesTyped
  <2>3. NoticesTyped'
    BY <2>2 DEF NoticeQueue, NInv, NoticesTyped, notWrite
  <2>4. QED BY <1>2, <1>3, <2>1, <2>2, <2>3 DEF NoticeQueue, NInv, NoticesTyped, NoticesKept, notWrite
<1>4. CASE ~(Len(notices) < NoticeLen)
  BY <1>2, <1>4 DEF NoticeQueue, NInv, NoticesTyped, NoticesKept, notWrite
<1>5. QED BY <1>3, <1>4

LEMMA HttpNoticeKeeps ==
  ASSUME NInv, NoticeHttp, handler # "wait", handler' # "wait"
  PROVE  NInv'
<1> DEFINE n == [type |-> "http", dev |-> Root]
<1>1. n \in Notice
  BY DEF Notice
<1>2. MakeRoom \in Seq(Notice) /\ notices' = Append(MakeRoom, n)
      /\ notices' \in Seq(Notice) /\ Elements(notices') = Elements(MakeRoom) \cup {n}
  BY <1>1, RoomMade, AppendElements DEF NoticeHttp, NInv
<1>3. written' = written \cup {n} /\ dropped' = dropped \cup Displaced
  BY DEF NoticeHttp
<1>4. NoticesTyped' /\ NoticePhase'
  BY <1>1, <1>2, <1>3 DEF NoticeHttp, NInv, NoticesTyped, NoticePhase, notWrite
<1>5. NoticesKept'
  BY <1>2, <1>3, RoomMade, NoticeKinds DEF NoticeHttp, NInv, NoticesTyped, NoticesKept, notWrite
<1>6. QED BY <1>4, <1>5 DEF NInv

(* The task: a notice goes to the message, back to the line, or on the air. *)
LEMMA NoticeTakeKeeps ==
  ASSUME NInv, NoticeTake, handler' = handler
  PROVE  NInv'
<1>1. notices \in Seq(Notice) /\ notices # <<>>
  BY DEF NInv, NoticesTyped, NoticeTake
<1>2. message = {}
  BY DEF NInv, NoticePhase, NoticeTake
<1>3. QED BY <1>1, <1>2, TailElements
          DEF NInv, NoticesTyped, NoticePhase, NoticesKept, NoticeTake, notTask

LEMMA MergeKeeps ==
  ASSUME NInv, NoticeMerge, handler' = handler
  PROVE  NInv'
<1>1. /\ notices \in Seq(Notice) /\ notices # <<>>
      /\ Tail(notices) \in Seq(Notice) /\ Head(notices) \in Notice
      /\ Elements(notices) = {Head(notices)} \cup Elements(Tail(notices))
  BY TailElements DEF NInv, NoticesTyped, NoticeMerge
<1>2. CASE Joins(Head(notices))
  BY <1>1, <1>2 DEF NInv, NoticesTyped, NoticePhase, NoticesKept, NoticeMerge, notTask
<1>3. CASE ~Joins(Head(notices))
  <2>1. /\ notices' = PutBack(Head(notices), Tail(notices)) /\ task' = "air"
        /\ dropped' = IF Len(Tail(notices)) < NoticeLen THEN dropped
                      ELSE dropped \cup {Head(notices)}
        /\ message' = message
    BY <1>3 DEF NoticeMerge
  <2>2. notices' \in Seq(Notice)
        /\ Elements(notices) \subseteq Elements(notices') \cup dropped'
    BY <1>1, <2>1, AppendElements DEF PutBack
  <2>3. QED BY <2>1, <2>2 DEF NInv, NoticesTyped, NoticePhase, NoticesKept,
                              NoticeMerge, notTask
<1>4. QED BY <1>2, <1>3

LEMMA TaskKeeps ==
  ASSUME NInv, handler' = handler,
         NoticeBind \/ NoticeTake \/ NoticeMerge \/ NoticeAir \/ NoticeEnd \/ NoticeClose
  PROVE  NInv'
<1>1. CASE NoticeBind
  BY <1>1 DEF NoticeBind, NInv, NoticesTyped, NoticePhase, NoticesKept, notTask
<1>2. CASE NoticeAir
  BY <1>2 DEF NoticeAir, NInv, NoticesTyped, NoticePhase, NoticesKept, notTask
<1>3. CASE NoticeEnd
  BY <1>3 DEF NoticeEnd, Given, NInv, NoticesTyped, NoticePhase, NoticesKept, notTask
<1>4. CASE NoticeClose
  BY <1>4 DEF NoticeClose, NInv, NoticesTyped, NoticePhase, NoticesKept, notTask
<1>5. QED BY <1>1, <1>2, <1>3, <1>4, NoticeTakeKeeps, MergeKeeps

(* Start and stop.                                                         *)
LEMMA StartKeeps ==
  ASSUME NInv, NoticeStart, handler # "wait", handler' # "wait"
  PROVE  NInv'
  BY NoneElements, NoticeKinds, EmptyElements
     DEF NoticeStart, NInv, NoticesTyped, NoticePhase, NoticesKept, notSwitch

LEMMA StopKeeps ==
  ASSUME NInv, NoticeStop, handler # "wait",
         handler' = IF stopped THEN "halt" ELSE "wait"
  PROVE  NInv'
  BY DEF NoticeStop, NInv, NoticesTyped, NoticePhase, NoticesKept, notSwitch

LEMMA DeleteKeeps ==
  ASSUME NInv, NoticeDelete, handler = "wait", handler' = "halt"
  PROVE  NInv'
  BY NoneElements, NoticeKinds
     DEF NoticeDelete, NInv, NoticesTyped, NoticePhase, NoticesKept, notSwitch

LEMMA OthersKeep ==
  ASSUME NInv, UNCHANGED noticeVars, handler' = "wait" <=> handler = "wait"
  PROVE  NInv'
  BY DEF NInv, NoticesTyped, NoticePhase, NoticesKept, noticeVars

LEMMA NoticesStep == NInv /\ [Next]_vars => NInv'
<1> SUFFICES ASSUME NInv, [Next]_vars PROVE NInv'
  OBVIOUS
<1>1. CASE EventPosted \/ EventGoesOn \/ EventQueued \/ Client \/ Server
           \/ root_read_task \/ Timer \/ UNCHANGED vars
  BY <1>1, OthersKeep DEF EventPosted, EventGoesOn, EventQueued, Client, Server, root_read_task,
     Timer, notHttpd, vars, rootVars
<1>2. CASE Handler
  <2>1. CASE EventTaken \/ StartFails \/ StartHttpd \/ CreateTasks \/ SkipHttpd
             \/ StopHttpd \/ ExitHttpd \/ FreeHttpd
    BY <2>1, OthersKeep DEF EventTaken, StartFails, NoticeFails, StartHttpd,
       CreateTasks, SkipHttpd, StopHttpd, ExitHttpd, FreeHttpd, Serving, Handles
  <2>2. CASE HandleTable \/ Announce
    BY <2>2, HttpNoticeKeeps DEF HandleTable, Announce, Noticing, Handles
  <2>3. CASE StartNotice
    BY <2>3, StartKeeps DEF StartNotice, Noticing, Handles
  <2>4. CASE StopNotice
    BY <2>4, StopKeeps DEF StopNotice, Noticing, Handles
  <2>5. CASE AwaitNotice
    BY <2>5, DeleteKeeps DEF AwaitNotice, Noticing, Handles
  <2>6. QED BY <1>2, <2>1, <2>2, <2>3, <2>4, <2>5 DEF Handler
<1>3. CASE root_write_task
  <2>1. CASE WriteAnswer /\ UNCHANGED <<plan, notHttpd>>
    BY <2>1, OthersKeep DEF notHttpd
  <2>2. CASE WriteNotice /\ UNCHANGED notNotice
    BY <2>2, CallKeeps, QueueNoticeKeeps DEF WriteNotice, notNotice
  <2>3. QED BY <1>3, <2>1, <2>2 DEF root_write_task
<1>4. CASE mlink_notice_udp_task
  BY <1>4, TaskKeeps DEF mlink_notice_udp_task, notNotice
<1>5. QED BY <1>1, <1>2, <1>3, <1>4 DEF Next

(* Every notice written is on its way, was broadcast, or was turned away   *)
(* by a full queue or the end of the service (mlink_notice.c:193-248,      *)
(* 297-308): the loop never starts a task that has a message in hand.      *)
THEOREM RootKeepsNotices == Spec => []NoticesKept
<1>1. RootInit => NInv
  BY NoticesStart
<1>2. NInv /\ [Next]_vars => NInv'
  BY NoticesStep
<1>3. NInv => NoticesKept
  BY DEF NInv
<1>4. QED BY <1>1, <1>2, <1>3, PTL DEF Spec

(***************************************************************************)
(* The services and the queue of requests.                                 *)
(***************************************************************************)
ServerTyped ==
  /\ conns = Freed \/ DOMAIN conns = Slots
  /\ server => conns # Freed
  /\ http.pc # "idle" => server
  /\ http.pc # "idle" => http.req \in Requests

(* Where the handler stands says what is there.                            *)
HandlerPhase ==
  /\ ~server /\ handler \notin {"exit", "free"} => conns = Freed
  /\ handler \in {"exit", "free"} => ~server
  /\ handler \in {"announce", "serve", "create"} => last = "got" /\ ~stopped
  /\ handler = "create" => server
  /\ handler = "got" => last = "got"
  /\ handler \in {"lost", "wait", "halt", "exit", "free"} => last = "lost"
  /\ handler \in {"wait", "halt", "exit", "free"} => stopped
  /\ last = "got" /\ handler \in {"idle", "table"} => server /\ ~stopped
  /\ last = "lost" /\ handler \in {"idle", "table"} => ~server /\ stopped

Entry == Requests \cup {Exit}
NoExit(q) == \A i \in DOMAIN q : q[i] # Exit

(* The queue of a server is its own, unless the start was hasty.           *)
QueueKept ==
  /\ mqueue = NoQueue \/ mqueue \in Seq(Entry)
  /\ reader = "wait" => mqueue # NoQueue
  /\ server /\ ~hasty =>
       /\ mqueue # NoQueue /\ reader # "drain"
       /\ NoExit(mqueue)

HInv == ServerTyped /\ HandlerPhase /\ QueueKept

(* Steps of the tasks leave a table a table.                               *)
TableStays == conns' = conns \/ (conns # Freed /\ DOMAIN conns' = Slots)

LEMMA TableNotFreed == ASSUME NEW f, DOMAIN f = Slots PROVE f # Freed
<1>1. 1 \in Slots
  BY MlinkHttpdAssumption DEF MlinkHttpdAssumption, Slots
<1>2. DOMAIN Freed = {}
  BY DEF Freed
<1>3. QED BY <1>1, <1>2

LEMMA ClearedTable == ASSUME NEW f, NEW S PROVE DOMAIN Cleared(f, S) = Slots
  BY DEF Cleared

LEMMA MarkedTable ==
  ASSUME ServerTyped, conns # Freed
  PROVE  DOMAIN Marked = Slots
  BY DEF Marked, ServerTyped

LEMMA PieceTable ==
  ASSUME NEW table, NEW piece, NEW pc, conns # Freed, DOMAIN table = Slots,
         Write(table, piece, pc)
  PROVE  TableStays
  BY ClearedTable DEF Write, Sent, NotSent, TableStays

LEMMA WriterTable == ASSUME ServerTyped, WriteAnswer PROVE TableStays
<1>0. conns # Freed => DOMAIN conns = Slots
  BY DEF ServerTyped
<1>1. CASE \E a \in mesh : WriteCall(a)
  BY <1>1 DEF WriteCall, TableStays, tableVars
<1>2. CASE WriteFind
  BY <1>2 DEF WriteFind, TableStays
<1>3. CASE WriteHeader \/ WriteData
  BY <1>0, <1>3, PieceTable DEF WriteHeader, WriteData, At
<1>4. CASE WriteSize
  <2>1. conns # Freed
    BY <1>4 DEF WriteSize, At
  <2>2. QED BY <1>4, <2>1, MarkedTable, PieceTable DEF WriteSize, TableStays
<1>5. CASE WriteCount
  <2> DEFINE counted == [conns EXCEPT ![writer.slot].num = Less(Slot.num)]
  <2>1. conns # Freed /\ DOMAIN counted = Slots
    BY <1>0, <1>5 DEF WriteCount, At
  <2>2. \/ conns' = counted \/ conns' = Cleared(counted, {writer.slot})
        \/ Write(counted, <<"footer">>, "remove")
    BY <1>5 DEF WriteCount
  <2> HIDE DEF counted
  <2>3. QED BY <2>1, <2>2, ClearedTable, PieceTable DEF TableStays
<1>6. CASE WriteRemove
  BY <1>6, ClearedTable DEF WriteRemove, At, TableStays
<1>7. QED BY <1>1, <1>2, <1>3, <1>4, <1>5, <1>6 DEF WriteAnswer

LEMMA TimerTable ==
  ASSUME ServerTyped, TimerCloses \/ \E i \in Slots : TimerFires(i)
  PROVE  TableStays
<1>1. CASE TimerCloses
  BY <1>1, ClearedTable DEF TimerCloses, TableStays
<1>2. CASE \E i \in Slots : TimerFires(i)
  BY <1>2 DEF TimerFires, TableStays, ServerTyped
<1>3. QED BY <1>1, <1>2

LEMMA QueueReal == ASSUME NEW q \in Seq(Entry) PROVE q # NoQueue
<1>1. SUFFICES ASSUME q = NoQueue PROVE FALSE
  OBVIOUS
<1>2. q[1] = "none" /\ q[1] \in Entry
  BY <1>1 DEF NoQueue
<1>3. QED BY <1>2, MlinkHttpdAssumption DEF MlinkHttpdAssumption, Entry, Exit

LEMMA TailEntries ==
  ASSUME NEW q \in Seq(Entry), q # <<>>
  PROVE  Tail(q) \in Seq(Entry) /\ (NoExit(q) => NoExit(Tail(q)))
<1>1. /\ Tail(q) \in Seq(Entry) /\ Len(Tail(q)) = Len(q) - 1
      /\ \A i \in 1 .. Len(q) - 1 : Tail(q)[i] = q[i + 1]
  OBVIOUS
<1>2. QED BY <1>1 DEF NoExit

LEMMA AppendEntries ==
  ASSUME NEW q \in Seq(Entry), NEW e \in Entry
  PROVE  /\ Append(q, e) \in Seq(Entry)
         /\ NoExit(q) /\ e # Exit => NoExit(Append(q, e))
  BY DEF NoExit

(* A step of the tasks, with the server and the handler as they are.       *)
notSwitched == <<server, hasty, handler, last, stopped>>

LEMMA InsideKeeps ==
  ASSUME HInv, UNCHANGED notSwitched, TableStays, UNCHANGED http, QueueKept'
  PROVE  HInv'
<1>1. ServerTyped'
  BY TableNotFreed DEF HInv, ServerTyped, TableStays, notSwitched
<1>2. HandlerPhase'
  BY DEF HInv, HandlerPhase, ServerTyped, TableStays, notSwitched
<1>3. QED BY <1>1, <1>2 DEF HInv

LEMMA IdleKeeps ==
  ASSUME HInv, UNCHANGED <<httpdVars, handler, last, stopped>>
  PROVE  HInv'
<1>1. UNCHANGED <<notSwitched, http, mqueue, reader, conns>>
  BY DEF httpdVars, tableVars, notSwitched
<1>2. QED BY <1>1, InsideKeeps DEF HInv, QueueKept, NoExit, TableStays, notSwitched

LEMMA ClientKeeps == ASSUME HInv, Client PROVE HInv'
<1>1. CASE \E f \in Fds : HangUp(f)
  <2>1. UNCHANGED <<notSwitched, conns, http, mqueue, reader>>
    BY <1>1 DEF Client, HangUp, notHttp, notHttpd, noticeVars, notSwitched
  <2>2. QED BY <2>1, InsideKeeps DEF HInv, QueueKept, NoExit, TableStays, notSwitched
<1>2. CASE \E r \in Requests : Arrive(r, plan.dest[r])
  <2>1. UNCHANGED <<notSwitched, conns, mqueue, reader>> /\ server
        /\ http'.req \in Requests
    BY <1>2 DEF Client, Arrive, NotAsking, notHttp, notHttpd, noticeVars, notSwitched
  <2>2. QED BY <2>1 DEF HInv, ServerTyped, HandlerPhase, QueueKept, NoExit, notSwitched
<1>3. QED BY <1>1, <1>2 DEF Client

LEMMA ServerKeeps == ASSUME HInv, Server PROVE HInv'
<1>0. UNCHANGED notSwitched
  BY DEF Server, AddConnection, AddTimer, PutRequest, notHttp, notHttpd, noticeVars,
         notSwitched
<1>1. CASE AddConnection \/ AddTimer
  <2>1. UNCHANGED <<mqueue, reader>> /\ http.pc # "idle" /\ http'.req = http.req
    <3>1. CASE AddConnection
      <4>1. \/ http' = [http EXCEPT !.pc = "put"]
            \/ \E i : http' = [pc |-> "timer", slot |-> i, req |-> http.req]
        BY <3>1 DEF AddConnection
      <4>2. CASE http' = [http EXCEPT !.pc = "put"]
        BY <3>1, <4>2 DEF AddConnection, notHttp
      <4>3. CASE \E i : http' = [pc |-> "timer", slot |-> i, req |-> http.req]
        BY <3>1, <4>3 DEF AddConnection, notHttp
      <4>4. QED BY <4>1, <4>2, <4>3
    <3>2. CASE AddTimer
      BY <3>2 DEF AddTimer, notHttp
    <3>3. QED BY <1>1, <3>1, <3>2
  <2>3. conns # Freed /\ DOMAIN conns = Slots
    BY <2>1 DEF HInv, ServerTyped
  <2>7. TableStays
    BY <1>1, <2>3 DEF AddConnection, AddTimer, TableStays
  <2>4. ServerTyped'
    BY <1>0, <2>1, <2>3, <2>7, TableNotFreed DEF HInv, ServerTyped, TableStays, notSwitched
  <2>5. HandlerPhase' /\ QueueKept'
    BY <1>0, <2>1, <2>3 DEF HInv, HandlerPhase, ServerTyped, QueueKept, NoExit, notSwitched
  <2>6. QED BY <2>4, <2>5 DEF HInv
<1>2. CASE PutRequest
  <2>1. /\ UNCHANGED <<reader, conns>> /\ http'.pc = "idle"
        /\ mqueue' = Append(Spared, http.req) /\ mqueue \in Seq(Entry)
    BY <1>2 DEF PutRequest, NotAsking, notHttp, tableVars, HInv, QueueKept
  <2>2. http.req \in Entry /\ http.req # Exit
    BY <1>2, MlinkHttpdAssumption
       DEF PutRequest, HInv, ServerTyped, Entry, Exit, MlinkHttpdAssumption
  <2>3. Spared \in Seq(Entry) /\ (NoExit(mqueue) => NoExit(Spared))
    <3>1. CASE Len(mqueue) = QueueLen
      <4>1. mqueue # <<>>
        BY <3>1, MlinkHttpdAssumption DEF MlinkHttpdAssumption
      <4>2. QED BY <2>1, <3>1, <4>1, TailEntries DEF Spared
    <3>2. CASE Len(mqueue) # QueueLen
      BY <2>1, <3>2 DEF Spared
    <3>3. QED BY <3>1, <3>2
  <2>4. mqueue' \in Seq(Entry) /\ (NoExit(mqueue) => NoExit(mqueue'))
    BY <2>1, <2>2, <2>3, AppendEntries
  <2>5. QueueKept'
    BY <1>0, <2>1, <2>4, QueueReal DEF HInv, QueueKept, notSwitched
  <2>6. ServerTyped' /\ HandlerPhase'
    BY <1>0, <2>1 DEF HInv, ServerTyped, HandlerPhase, notSwitched
  <2>7. QED BY <2>5, <2>6 DEF HInv
<1>3. QED BY <1>1, <1>2 DEF Server

LEMMA ReaderKeeps == ASSUME HInv, root_read_task PROVE HInv'
<1>0. UNCHANGED <<notSwitched, http, conns>>
  BY DEF root_read_task, ReadCall, ReadExit, DeleteQueue, Forward, notReader,
         tableVars, notHttpd, noticeVars, notSwitched
<1>1. CASE ReadCall
  <2>1. reader' = "wait" /\ reader = "call"
        /\ mqueue' = IF mqueue = NoQueue THEN <<>> ELSE mqueue
    BY <1>1 DEF ReadCall
  <2>2. mqueue' \in Seq(Entry) /\ (mqueue # NoQueue => mqueue' = mqueue)
    BY <2>1 DEF HInv, QueueKept
  <2>3. QueueKept'
    BY <1>0, <2>1, <2>2, QueueReal DEF HInv, QueueKept, NoExit, notSwitched
  <2>4. QED BY <1>0, <2>3, InsideKeeps DEF TableStays
<1>2. CASE ReadExit \/ Forward
  <2>1. /\ reader = "wait" /\ reader' \in {"drain", "call"}
        /\ mqueue # <<>> /\ mqueue' = Tail(mqueue)
        /\ reader' = "drain" => Head(mqueue) = Exit
    BY <1>2 DEF ReadExit, Forward
  <2>2. mqueue \in Seq(Entry)
    BY <2>1 DEF HInv, QueueKept
  <2>3. reader' = "drain" => ~NoExit(mqueue)
    BY <2>1, <2>2 DEF NoExit
  <2>4. mqueue' \in Seq(Entry) /\ (NoExit(mqueue) => NoExit(mqueue'))
    BY <2>1, <2>2, TailEntries
  <2>5. QueueKept'
    BY <1>0, <2>1, <2>3, <2>4, QueueReal DEF HInv, QueueKept, notSwitched
  <2>6. QED BY <1>0, <2>5, InsideKeeps DEF TableStays
<1>3. CASE DeleteQueue
  <2>1. reader = "drain" /\ reader' = "call" /\ mqueue' = NoQueue
    BY <1>3 DEF DeleteQueue
  <2>2. QueueKept'
    BY <1>0, <2>1 DEF HInv, QueueKept, notSwitched
  <2>3. QED BY <1>0, <2>2, InsideKeeps DEF TableStays
<1>4. QED BY <1>1, <1>2, <1>3 DEF root_read_task

LEMMA WriterKeeps ==
  ASSUME HInv, WriteAnswer, UNCHANGED notHttpd
  PROVE  HInv'
<1>1. UNCHANGED <<notSwitched, http, mqueue, reader>>
  BY DEF WriteAnswer, WriteCall, WriteFind, WriteHeader, WriteSize, WriteData,
         WriteCount, WriteRemove, At, notWriter, notHttpd, noticeVars, notSwitched
<1>2. TableStays
  BY WriterTable DEF HInv
<1>3. QED BY <1>1, <1>2, InsideKeeps DEF HInv, QueueKept, NoExit, notSwitched

LEMMA TimerKeeps == ASSUME HInv, Timer PROVE HInv'
<1>1. UNCHANGED <<notSwitched, http, mqueue, reader>>
  BY DEF Timer, TimerCloses, TimerFires, notTimer, notHttpd, noticeVars, notSwitched
<1>2. TableStays
  BY TimerTable DEF HInv, Timer
<1>3. QED BY <1>1, <1>2, InsideKeeps DEF HInv, QueueKept, NoExit, notSwitched

(* The handler.                                                            *)
LEMMA NoticeStepsKeep ==
  ASSUME HInv, EventTaken \/ HandleTable \/ StartNotice \/ StartFails \/ Announce
               \/ StopNotice \/ AwaitNotice
  PROVE  HInv'
<1>1. UNCHANGED httpdVars
  BY DEF EventTaken, HandleTable, StartNotice, StartFails, Announce, StopNotice,
         AwaitNotice, Noticing
<1>2. UNCHANGED <<server, mqueue, http, reader, hasty, conns>>
  BY <1>1 DEF httpdVars, tableVars
<1>3. ServerTyped' /\ QueueKept'
  BY <1>2 DEF HInv, ServerTyped, QueueKept, NoExit
<1>4. CASE EventTaken
  <2>1. PICK kind \in {Head(events).kind} :
          /\ handler' = IF kind \in {"got", "lost", "table"} THEN kind ELSE "idle"
          /\ last' = IF kind \in {"got", "lost"} THEN kind ELSE last
    BY <1>4 DEF EventTaken
  <2>2. handler = "idle" /\ stopped' = stopped
    BY <1>4 DEF EventTaken, noticeVars
  <2>3. HandlerPhase'
    BY <1>2, <2>1, <2>2 DEF HInv, HandlerPhase
  <2>4. QED BY <1>3, <2>3 DEF HInv
<1>5. CASE StartFails
  <2>1. handler = "got" /\ handler' = "idle" /\ last' = "failed" /\ stopped' = stopped
    BY <1>5 DEF StartFails, NoticeFails, noticeVars
  <2>2. HandlerPhase'
    BY <1>2, <2>1 DEF HInv, HandlerPhase
  <2>3. QED BY <1>3, <2>2 DEF HInv
<1>6. CASE HandleTable \/ Announce
  <2>1. /\ last' = last /\ stopped' = stopped
        /\ \/ handler = "table" /\ handler' = "idle"
           \/ handler = "announce" /\ handler' = "serve"
    BY <1>6 DEF HandleTable, Announce, Noticing, Handles, NoticeHttp, notWrite
  <2>2. HandlerPhase'
    BY <1>2, <2>1 DEF HInv, HandlerPhase
  <2>3. QED BY <1>3, <2>2 DEF HInv
<1>7. CASE StartNotice
  <2>1. handler = "got" /\ handler' = "announce" /\ last' = last /\ stopped' = FALSE
    BY <1>7 DEF StartNotice, Noticing, Handles, NoticeStart
  <2>2. HandlerPhase'
    BY <1>2, <2>1 DEF HInv, HandlerPhase
  <2>3. QED BY <1>3, <2>2 DEF HInv
<1>8. CASE StopNotice \/ AwaitNotice
  <2>1. /\ last' = last
        /\ \/ handler = "lost" /\ handler' \in {"wait", "halt"} /\ stopped' = TRUE
           \/ handler = "wait" /\ handler' = "halt" /\ stopped' = stopped
    BY <1>8 DEF StopNotice, AwaitNotice, Noticing, Handles, NoticeStop, NoticeDelete
  <2>2. HandlerPhase'
    BY <1>2, <2>1 DEF HInv, HandlerPhase
  <2>3. QED BY <1>3, <2>2 DEF HInv
<1>9. QED BY <1>4, <1>5, <1>6, <1>7, <1>8

(* The table that a start makes, when there is none.                       *)
LEMMA HttpdStepsKeep ==
  ASSUME HInv, StartHttpd \/ CreateTasks \/ SkipHttpd \/ StopHttpd \/ ExitHttpd \/ FreeHttpd
  PROVE  HInv'
<1>0. UNCHANGED <<last, stopped>>
  BY DEF StartHttpd, CreateTasks, SkipHttpd, StopHttpd, ExitHttpd, FreeHttpd, Serving,
         Handles, noticeVars
<1>1. CASE StartHttpd
  <2>1. /\ handler = "serve" /\ handler' = (IF server THEN "idle" ELSE "create")
        /\ mqueue' = OpenedQueue /\ server' = TRUE
        /\ conns' = IF conns = Freed THEN [i \in Slots |-> Unused] ELSE conns
        /\ hasty' = (hasty \/ (~server /\ \/ reader = "drain"
                                          \/ \E i \in DOMAIN mqueue : mqueue[i] = Exit))
        /\ UNCHANGED <<http, reader>>
    BY <1>1 DEF StartHttpd, Serving, Handles, HttpdStart, notLoop
  <2>2. ServerTyped'
    BY <2>1, TableNotFreed DEF HInv, ServerTyped
  <2>3. HandlerPhase'
    BY <1>0, <2>1 DEF HInv, HandlerPhase
  <2>4. mqueue' \in Seq(Entry) /\ (mqueue # NoQueue => mqueue' = mqueue)
        /\ (mqueue = NoQueue => mqueue' = <<>>)
    BY <2>1 DEF OpenedQueue, HInv, QueueKept
  <2>5. ASSUME ~hasty' PROVE reader' # "drain" /\ NoExit(mqueue')
    <3>1. CASE server
      <4>1. ~hasty /\ mqueue # NoQueue /\ reader # "drain" /\ NoExit(mqueue)
        BY <2>1, <2>5, <3>1 DEF HInv, QueueKept
      <4>2. QED BY <4>1, <2>1, <2>4
    <3>2. CASE ~server
      <4>1. reader # "drain" /\ NoExit(mqueue)
        BY <2>1, <2>5, <3>2 DEF NoExit
      <4>2. NoExit(<<>>)
        BY DEF NoExit
      <4>3. QED BY <4>1, <4>2, <2>1, <2>4
    <3>3. QED BY <3>1, <3>2
  <2>6. QueueKept'
    BY <2>4, <2>5, QueueReal DEF QueueKept
  <2>7. QED BY <2>2, <2>3, <2>6 DEF HInv
<1>2. CASE CreateTasks
  <2>1. handler = "create" /\ handler' = "idle"
        /\ UNCHANGED <<server, mqueue, http, hasty, conns>>
        /\ reader' \in {reader, "call"}
    BY <1>2 DEF CreateTasks, Serving, Handles, tableVars
  <2>2. QED BY <1>0, <2>1 DEF HInv, ServerTyped, HandlerPhase, QueueKept, NoExit
<1>3. CASE SkipHttpd
  <2>1. ~server /\ handler = "halt" /\ handler' = "idle"
        /\ UNCHANGED <<server, mqueue, http, hasty, conns, reader>>
    BY <1>3 DEF SkipHttpd, Serving, Handles, httpdVars, tableVars
  <2>2. QED BY <1>0, <2>1 DEF HInv, ServerTyped, HandlerPhase, QueueKept, NoExit
<1>4. CASE StopHttpd
  <2>1. http.pc = "idle" /\ server' = FALSE /\ handler = "halt" /\ handler' = "exit"
        /\ UNCHANGED <<mqueue, http, hasty, conns, reader>>
    BY <1>4 DEF StopHttpd, Serving, Handles, HttpdStop, notLoop
  <2>2. QED BY <1>0, <2>1 DEF HInv, ServerTyped, HandlerPhase, QueueKept, NoExit
<1>5. CASE ExitHttpd
  <2>1. /\ mqueue # NoQueue /\ handler = "exit" /\ handler' = "free"
        /\ mqueue' = IF Len(mqueue) < QueueLen THEN Append(mqueue, Exit) ELSE mqueue
        /\ UNCHANGED <<server, http, hasty, conns, reader>>
    BY <1>5 DEF ExitHttpd, Serving, Handles, HttpdExit, notLoop, tableVars
  <2>2. ~server
    BY <2>1 DEF HInv, HandlerPhase
  <2>3. mqueue \in Seq(Entry) /\ Exit \in Entry
    BY <2>1 DEF HInv, QueueKept, Entry
  <2>4. mqueue' \in Seq(Entry)
    BY <2>1, <2>3, AppendEntries
  <2>5. QED BY <1>0, <2>1, <2>2, <2>4, QueueReal
            DEF HInv, ServerTyped, HandlerPhase, QueueKept
<1>6. CASE FreeHttpd
  <2>1. conns' = Freed /\ handler = "free" /\ handler' = "idle"
        /\ UNCHANGED <<server, mqueue, http, hasty, reader>>
    BY <1>6 DEF FreeHttpd, Serving, Handles, HttpdFree, notLoop
  <2>2. QED BY <1>0, <2>1 DEF HInv, ServerTyped, HandlerPhase, QueueKept, NoExit
<1>7. QED BY <1>1, <1>2, <1>3, <1>4, <1>5, <1>6

LEMMA ServicesStart == RootInit => HInv
<1> SUFFICES ASSUME RootInit PROVE HInv
  OBVIOUS
<1>1. handler = "idle" /\ last = "none" /\ ~server /\ conns = Freed
      /\ mqueue = NoQueue /\ reader = "off" /\ http.pc = "idle"
  BY DEF RootInit, HttpdInit, NotAsking
<1>2. QED BY <1>1 DEF HInv, ServerTyped, HandlerPhase, QueueKept

LEMMA ServicesStep == HInv /\ [Next]_vars => HInv'
<1> SUFFICES ASSUME HInv, [Next]_vars PROVE HInv'
  OBVIOUS
<1>1. CASE EventPosted \/ EventGoesOn \/ EventQueued \/ mlink_notice_udp_task
           \/ UNCHANGED vars
  <2>1. UNCHANGED <<httpdVars, handler, last, stopped>>
    BY <1>1 DEF EventPosted, EventGoesOn, EventQueued, mlink_notice_udp_task, notNotice, vars,
       rootVars, noticeVars, NoticeBind, NoticeTake, NoticeMerge, NoticeAir,
       NoticeEnd, NoticeClose, notTask
  <2>2. QED BY <2>1, IdleKeeps
<1>2. CASE Handler
  BY <1>2, NoticeStepsKeep, HttpdStepsKeep DEF Handler
<1>3. CASE root_write_task
  <2>1. CASE WriteNotice /\ UNCHANGED notNotice
    <3>1. UNCHANGED <<httpdVars, handler, last, stopped>>
      BY <2>1 DEF WriteNotice, NoticeCall, NoticeQueue, notWrite, notNotice
    <3>2. QED BY <3>1, IdleKeeps
  <2>2. QED BY <1>3, <2>1, WriterKeeps DEF root_write_task
<1>4. QED BY <1>1, <1>2, <1>3, ClientKeeps, ServerKeeps, ReaderKeeps, TimerKeeps DEF Next

(* When the handler rests, the services are as the last address event it   *)
(* saw left the root (light_example.c:540-588).                            *)
THEOREM RootServicesFollow == Spec => []ServicesFollow
<1>1. HInv => ServicesFollow
  BY DEF HInv, ServerTyped, HandlerPhase, QueueKept, ServicesFollow
<1>2. QED BY ServicesStart, ServicesStep, <1>1, PTL DEF Spec

(* A request finds a queue, except after a start that did not wait for     *)
(* root_read_task() to delete the old one (mlink_httpd.c:449, 893-907,     *)
(* 965).                                                                   *)
THEOREM RequestsFindQueue == Spec => []QueueThere
<1>1. HInv => QueueThere
  BY DEF HInv, ServerTyped, QueueKept, QueueThere
<1>2. QED BY ServicesStart, ServicesStep, <1>1, PTL DEF Spec

-----------------------------------------------------------------------------
(***************************************************************************)
(* The answers of the devices.                                             *)
(***************************************************************************)
Answer == Requests \X Devices
Piece == {<<"header">>, <<"size">>, <<"footer">>, <<"400">>} \cup Answer

(* An entry is whole, with its timer or before it has one, or was cleared; *)
(* what a task that still holds it writes to a cleared one is its flag and *)
(* its number.                                                             *)
Filled == [flag : {"data", "header", "body"}, num : Nat, fd : Fds, timer : BOOLEAN,
           req : Requests]
Blank == [flag : {"none", "body"}, num : Nat, fd : {NoFd}, timer : {FALSE},
          req : {NoRequest}]
Conn == Filled \cup Blank

TableTyped ==
  /\ conns = Freed \/ conns \in [Slots -> Conn]
  /\ sockets \in [Fds -> Requests \cup {NoRequest}]
  /\ asked \in [Requests -> [fd : {NoFd} \cup Fds, dest : SUBSET Devices]]
  /\ mesh \in SUBSET Answer
  /\ reply \in [Requests -> Seq(Piece)]
  /\ closed \in SUBSET Requests /\ crossed \in SUBSET Requests

PlanTyped == "dest" \in DOMAIN plan /\ plan.dest \in [Requests -> SUBSET Devices]

WriterSteps == {"header", "mark", "size", "data", "count", "remove"}
WriterTyped ==
  \/ writer = Resting
  \/ writer \in [pc : {"find"}, slot : {0}, answer : Answer]
  \/ writer \in [pc : WriterSteps, slot : Slots, answer : Answer]

TimerTyped ==
  \/ timeout = Resting
  \/ timeout \in [pc : {"send"}, slot : Slots, answer : {<<"footer">>, <<"400">>}]

SocketsShut == ~server => \A f \in Fds : sockets[f] = NoRequest

(* A request is added once, forwarded once, and answered once by each of   *)
(* its devices.                                                            *)
Asking  == IF http.pc = "idle" THEN {} ELSE {http.req}
Queued  == Elements(mqueue) \cap Requests
Told(s) == Elements(s) \cap Answer
Out     == {a \in Answer : a \in Told(reply[a[1]])}
InHand  == IF writer.pc = "idle" THEN {} ELSE {writer.answer}
ToWrite == writer.pc \in {"find", "header", "mark", "size", "data"}
Distinct(q) == \A i, j \in DOMAIN q : q[i] = q[j] /\ q[i] # Exit => i = j

Singly ==
  /\ Distinct(mqueue)
  /\ Asking \cap Queued = {}
  /\ \A r \in Asking \cup Queued : asked[r].fd # NoFd
  /\ \A a \in mesh \cup InHand \cup Out :
       asked[a[1]].fd # NoFd /\ a[1] \notin Asking \cup Queued
  /\ mesh \cap (InHand \cup Out) = {}
  /\ ToWrite => writer.answer \notin Out

(* An answer goes to the connection of its request, or to another one when *)
(* that is gone: then it was closed before this answer.                    *)
Gone(r) == asked[r].fd # NoFd /\ sockets[asked[r].fd] # r
AllTold(r) == \A d \in asked[r].dest : <<r, d>> \in Told(reply[r])
LeftEarly == \A r \in Requests : Gone(r) => r \in closed \/ AllTold(r)
Own ==
  ToWrite /\ writer.slot # 0 =>
    \/ Gone(writer.answer[1])
    \/ conns # Freed /\ conns[writer.slot].fd = asked[writer.answer[1]].fd
Right == \A r \in Requests : \A a \in Told(reply[r]) : a[1] # r => a[1] \in closed
Asked == \A a \in mesh \cup InHand : a[2] \in asked[a[1]].dest

(* The entry that is just added waits for its timer, and is of its request.*)
Half ==
  http.pc = "timer" =>
    /\ http.slot \in Slots /\ conns # Freed
    /\ conns[http.slot].req = http.req /\ ~conns[http.slot].timer
    /\ timeout.slot = http.slot => http.req \in crossed

AInv ==
  /\ TableTyped /\ WriterTyped /\ TimerTyped
  /\ SocketsShut /\ Singly /\ Asked /\ LeftEarly /\ Own /\ Right

-----------------------------------------------------------------------------
LEMMA Numbers ==
  /\ NoFd \notin Fds /\ 0 \notin Slots /\ NoRequest \notin Requests
  /\ Slots \subseteq Nat /\ Fds \subseteq Nat
  BY MlinkHttpdAssumption DEF MlinkHttpdAssumption, NoFd, Fds, Slots

LEMMA ControlPieces ==
  \A p \in {<<"header">>, <<"size">>, <<"footer">>, <<"400">>} :
    p \in Piece /\ p \notin Answer
<1>1. \A a \in Answer : Len(a) = 2
  BY DEF Answer
<1>2. \A p \in {<<"header">>, <<"size">>, <<"footer">>, <<"400">>} : Len(p) = 1
  OBVIOUS
<1>3. QED BY <1>1, <1>2 DEF Piece

LEMMA Entries ==
  ASSUME NEW t \in [Slots -> Conn]
  PROVE  /\ t # Freed
         /\ \A i \in Slots :
              /\ t[i].fd \in {NoFd} \cup Fds /\ t[i].num \in Nat
              /\ t[i].flag = "none" => t[i].fd = NoFd
              /\ t[i].fd # NoFd => t[i].req \in Requests
              /\ t[i].timer => t[i].req \in Requests /\ t[i].fd # NoFd
              /\ t[i].req \in Requests \cup {NoRequest}
         /\ \A S : Cleared(t, S) \in [Slots -> Conn]
<1>1. t # Freed
  BY TableNotFreed
<1>2. Unused \in Conn
  BY DEF Unused, Conn, Blank
<1>3. \A S : Cleared(t, S) \in [Slots -> Conn]
  BY <1>2 DEF Cleared
<1>4. ASSUME NEW i \in Slots
      PROVE  /\ t[i].fd \in {NoFd} \cup Fds /\ t[i].num \in Nat
             /\ t[i].flag = "none" => t[i].fd = NoFd
             /\ t[i].fd # NoFd => t[i].req \in Requests
             /\ t[i].timer => t[i].req \in Requests /\ t[i].fd # NoFd
             /\ t[i].req \in Requests \cup {NoRequest}
  <2>1. t[i] \in Conn
    OBVIOUS
  <2>2. CASE t[i] \in Filled
    BY <2>2, Numbers DEF Filled
  <2>3. CASE t[i] \in Blank
    BY <2>3 DEF Blank
  <2>4. QED BY <2>1, <2>2, <2>3 DEF Conn
<1>5. QED BY <1>1, <1>3, <1>4

(* The entry of a slot takes another flag, or another number.              *)
LEMMA FlagSet ==
  ASSUME NEW t \in [Slots -> Conn], NEW i \in Slots
  PROVE  /\ [t EXCEPT ![i].flag = "body"] \in [Slots -> Conn]
         /\ t[i].timer => [t EXCEPT ![i].flag = "data"] \in [Slots -> Conn]
         /\ \A j \in Slots :
              /\ [t EXCEPT ![i].flag = "body"][j].fd = t[j].fd
              /\ [t EXCEPT ![i].flag = "data"][j].fd = t[j].fd
<1>1. t[i] \in Filled \/ t[i] \in Blank
  BY DEF Conn
<1>2. CASE t[i] \in Filled
  <2>1. /\ [t[i] EXCEPT !.flag = "body"] \in Filled /\ [t[i] EXCEPT !.flag = "data"] \in Filled
    BY <1>2 DEF Filled
  <2>2. [t[i] EXCEPT !.flag = "body"].fd = t[i].fd /\ [t[i] EXCEPT !.flag = "data"].fd = t[i].fd
    BY <1>2 DEF Filled
  <2>3. QED BY <2>1, <2>2 DEF Conn
<1>3. CASE t[i] \in Blank
  <2>1. [t[i] EXCEPT !.flag = "body"] \in Blank /\ ~t[i].timer
    BY <1>3 DEF Blank
  <2>2. [t[i] EXCEPT !.flag = "body"].fd = t[i].fd /\ [t[i] EXCEPT !.flag = "data"].fd = t[i].fd
    BY <1>3 DEF Blank
  <2>3. QED BY <2>1, <2>2 DEF Conn
<1>4. QED BY <1>1, <1>2, <1>3

LEMMA NumberSet ==
  ASSUME NEW t \in [Slots -> Conn], NEW i \in Slots, NEW n \in Nat
  PROVE  /\ [t EXCEPT ![i].num = n] \in [Slots -> Conn]
         /\ [t EXCEPT ![i].num = n][i].fd = t[i].fd
<1>1. t[i] \in Filled \/ t[i] \in Blank
  BY DEF Conn
<1>2. CASE t[i] \in Filled
  <2>1. [t[i] EXCEPT !.num = n] \in Filled /\ [t[i] EXCEPT !.num = n].fd = t[i].fd
    BY <1>2 DEF Filled
  <2>2. QED BY <2>1 DEF Conn
<1>3. CASE t[i] \in Blank
  <2>1. [t[i] EXCEPT !.num = n] \in Blank /\ [t[i] EXCEPT !.num = n].fd = t[i].fd
    BY <1>3 DEF Blank
  <2>2. QED BY <2>1 DEF Conn
<1>4. QED BY <1>1, <1>2, <1>3

(* ... and its timer.                                                      *)
LEMMA TimerSet ==
  ASSUME NEW t \in [Slots -> Conn], NEW i \in Slots, t[i].req # NoRequest
  PROVE  [t EXCEPT ![i].timer = TRUE] \in [Slots -> Conn]
<1>1. t[i] \in Filled
  BY DEF Conn, Blank
<1>2. [t[i] EXCEPT !.timer = TRUE] \in Filled
  BY <1>1 DEF Filled
<1>3. QED BY <1>2 DEF Conn

LEMMA AppendPieces ==
  ASSUME NEW s \in Seq(Piece), NEW p \in Piece
  PROVE  /\ Append(s, p) \in Seq(Piece)
         /\ Told(Append(s, p)) = Told(s) \cup ({p} \cap Answer)
<1>1. /\ Append(s, p) \in Seq(Piece) /\ Len(Append(s, p)) = Len(s) + 1 /\ Len(s) \in Nat
      /\ \A i \in 1 .. Len(s) : Append(s, p)[i] = s[i]
      /\ Append(s, p)[Len(s) + 1] = p
  OBVIOUS
<1>2. Elements(Append(s, p)) = Elements(s) \cup {p}
  BY <1>1 DEF Elements
<1>3. QED BY <1>1, <1>2 DEF Told

(* What is written on a connection, by whom.                               *)
NoNews == \A r \in Requests : Told(reply'[r]) = Told(reply[r])
Reaches(q, a) ==
  /\ Told(reply'[q]) = Told(reply[q]) \cup {a}
  /\ \A r \in Requests \ {q} : Told(reply'[r]) = Told(reply[r])

LEMMA ReplyGrows ==
  ASSUME TableTyped, NEW q \in Requests, NEW p \in Piece,
         reply' = [reply EXCEPT ![q] = Append(@, p)]
  PROVE  /\ reply' \in [Requests -> Seq(Piece)]
         /\ p \notin Answer => NoNews
         /\ p \in Answer => Reaches(q, p)
<1>1. reply[q] \in Seq(Piece)
  BY DEF TableTyped
<1>2. /\ Append(reply[q], p) \in Seq(Piece)
      /\ Told(Append(reply[q], p)) = Told(reply[q]) \cup ({p} \cap Answer)
  BY <1>1, AppendPieces
<1>3. /\ reply'[q] = Append(reply[q], p)
      /\ \A r \in Requests \ {q} : reply'[r] = reply[r]
  BY DEF TableTyped
<1>4. reply' \in [Requests -> Seq(Piece)]
  BY <1>2 DEF TableTyped
<1>5. QED BY <1>2, <1>3, <1>4 DEF NoNews, Reaches

(* A piece is sent on the connection of the socket number, or that is      *)
(* closed and the task rests.                                              *)
Shuts(fd) == fd # NoFd /\ Close({fd}) /\ writer' = Resting /\ NoNews

LEMMA PieceMoves ==
  ASSUME TableTyped, NEW t \in [Slots -> Conn], writer.slot \in Slots,
         NEW p \in Piece, NEW pc, Write(t, p, pc)
  PROVE  /\ conns' \in [Slots -> Conn]
         /\ reply' \in [Requests -> Seq(Piece)]
         /\ UNCHANGED <<sockets, closed>> \/ Shuts(t[writer.slot].fd)
         /\ \/ writer' = Resting
            \/ writer' = [writer EXCEPT !.pc = pc] /\ conns' = t
         /\ \/ NoNews
            \/ /\ UNCHANGED <<sockets, closed>>
               /\ p \in Answer /\ conns' = t /\ writer' = [writer EXCEPT !.pc = pc]
               /\ t[writer.slot].fd \in Fds /\ sockets[t[writer.slot].fd] \in Requests
               /\ Reaches(sockets[t[writer.slot].fd], p)
<1> DEFINE fd == t[writer.slot].fd
<1>1. fd \in {NoFd} \cup Fds
  BY Entries
<1>2. CASE Sent(t, fd, p) /\ Goto(pc)
  <2>1. /\ conns' = t /\ UNCHANGED <<sockets, closed>>
        /\ writer' = [writer EXCEPT !.pc = pc]
    BY <1>2 DEF Sent, Goto
  <2>2. CASE fd = NoFd
    <3>1. reply' = reply
      BY <1>2, <2>2 DEF Sent
    <3>2. QED BY <2>1, <3>1 DEF TableTyped, NoNews
  <2>3. CASE fd # NoFd
    <3>1. fd \in Fds /\ sockets[fd] \in Requests
          /\ reply' = [reply EXCEPT ![sockets[fd]] = Append(@, p)]
      BY <1>1, <1>2, <2>3 DEF Sent, TableTyped
    <3>2. QED BY <2>1, <3>1, ReplyGrows
  <2>4. QED BY <2>2, <2>3
<1>3. CASE NotSent(t, fd) /\ writer' = Resting
  <2>1. conns' \in [Slots -> Conn]
    BY <1>3, Entries DEF NotSent
  <2>2. reply' = reply /\ fd # NoFd /\ Close({fd})
    BY <1>3 DEF NotSent
  <2>3. QED BY <1>3, <2>1, <2>2 DEF TableTyped, NoNews, Shuts
<1>4. QED BY <1>2, <1>3 DEF Write

notWrites == <<server, mqueue, asked, http, timeout, mesh>>

(* The writer with an entry in hand.                                       *)
LEMMA WriterDoes ==
  ASSUME TableTyped, WriterTyped,
         WriteHeader \/ WriteSize \/ WriteData \/ WriteCount \/ WriteRemove
  PROVE  /\ UNCHANGED notWrites /\ crossed' = crossed
         /\ conns # Freed /\ conns \in [Slots -> Conn] /\ conns' \in [Slots -> Conn]
         /\ reply' \in [Requests -> Seq(Piece)]
         /\ writer \in [pc : WriterSteps, slot : Slots, answer : Answer]
         /\ \/ writer' = Resting
            \/ /\ writer' \in [pc : WriterSteps, slot : {writer.slot}, answer : {writer.answer}]
               /\ ToWrite' => ToWrite /\ writer.pc # "data"
               /\ conns'[writer.slot].fd = conns[writer.slot].fd
         /\ UNCHANGED <<sockets, closed>> \/ Shuts(conns[writer.slot].fd)
         /\ \/ NoNews
            \/ /\ writer.pc = "data" /\ ~ToWrite' /\ UNCHANGED <<sockets, closed>>
               /\ conns[writer.slot].fd \in Fds
               /\ sockets[conns[writer.slot].fd] \in Requests
               /\ Reaches(sockets[conns[writer.slot].fd], writer.answer)
<1> DEFINE i == writer.slot
<1>1. /\ writer.pc \in WriterSteps /\ conns # Freed
      /\ UNCHANGED <<server, mqueue, asked, http, timeout, mesh, crossed>>
  BY DEF WriteHeader, WriteSize, WriteData, WriteCount, WriteRemove, At, notWriter,
         WriterSteps
<1>2. writer \in [pc : WriterSteps, slot : Slots, answer : Answer]
  BY <1>1 DEF WriterTyped, Resting, WriterSteps
<1>3. i \in Slots /\ conns \in [Slots -> Conn] /\ writer.answer \in Answer
  BY <1>1, <1>2 DEF TableTyped
<1>4. \A pc \in WriterSteps :
        /\ [writer EXCEPT !.pc = pc] \in
             [pc : WriterSteps, slot : {writer.slot}, answer : {writer.answer}]
        /\ [writer EXCEPT !.pc = pc].pc = pc
  BY <1>2
<1>5. Resting.pc = "idle"
  BY DEF Resting
<1>6. CASE WriteHeader
  <2>1. Write(conns, <<"header">>, "mark") /\ writer.pc = "header"
    BY <1>6 DEF WriteHeader, At
  <2>2. "mark" \in WriterSteps
    BY DEF WriterSteps
  <2>3. QED BY <1>1, <1>2, <1>3, <1>4, <1>5, <2>1, <2>2, PieceMoves, ControlPieces
            DEF notWrites, ToWrite
<1>7. CASE WriteSize
  <2>0. writer.pc \in {"size", "mark"} /\ "data" \in WriterSteps
    BY <1>7 DEF WriteSize, At, WriterSteps
  <2>1. Marked \in [Slots -> Conn] /\ Marked[i].fd = conns[i].fd
    <3>1. CASE writer.pc = "mark"
      <4>1. Marked = [conns EXCEPT ![i].flag = "body"]
        BY <3>1 DEF Marked
      <4>2. PICK t, w : t = conns /\ w = i
        OBVIOUS
      <4>3. PICK n : n = [t EXCEPT ![w].flag = "body"]
        OBVIOUS
      <4>4. t \in [Slots -> Conn] /\ w \in Slots
        BY <1>3, <4>2
      <4>5. n \in [Slots -> Conn] /\ n[w].fd = t[w].fd
        BY <4>3, <4>4, FlagSet
      <4>6. Marked = n
        BY <4>1, <4>2, <4>3
      <4>7. QED BY <4>2, <4>5, <4>6
    <3>2. CASE writer.pc # "mark"
      BY <1>3, <3>2 DEF Marked
    <3>3. QED BY <3>1, <3>2
  <2>2. CASE Write(Marked, <<"size">>, "data")
    <3> HIDE DEF i
    <3>1. /\ conns' \in [Slots -> Conn] /\ reply' \in [Requests -> Seq(Piece)]
          /\ UNCHANGED <<sockets, closed>> \/ Shuts(conns[i].fd)
          /\ NoNews
          /\ \/ writer' = Resting
             \/ writer' = [writer EXCEPT !.pc = "data"] /\ conns' = Marked
      BY <1>3, <2>1, <2>2, PieceMoves, ControlPieces DEF i
    <3>2. QED BY <1>1, <1>2, <1>3, <1>4, <1>5, <2>0, <2>1, <3>1 DEF notWrites, ToWrite, i
  <2>3. CASE Goto("data") /\ UNCHANGED <<conns, sockets, reply, closed>>
    BY <1>1, <1>2, <1>3, <1>4, <2>0, <2>3 DEF Goto, NoNews, TableTyped, notWrites, ToWrite
  <2>4. QED BY <1>7, <2>2, <2>3 DEF WriteSize
<1>8. CASE WriteData
  <2>1. Write(conns, writer.answer, "count") /\ writer.pc = "data"
    BY <1>8 DEF WriteData, At
  <2>2. "count" \in WriterSteps
    BY DEF WriterSteps
  <2>3. writer.answer \in Piece
    BY <1>3 DEF Piece
  <2>4. /\ conns' \in [Slots -> Conn] /\ reply' \in [Requests -> Seq(Piece)]
        /\ UNCHANGED <<sockets, closed>> \/ Shuts(conns[i].fd)
        /\ \/ writer' = Resting
           \/ writer' = [writer EXCEPT !.pc = "count"] /\ conns' = conns
        /\ \/ NoNews
           \/ /\ writer' = [writer EXCEPT !.pc = "count"] /\ UNCHANGED <<sockets, closed>>
              /\ conns[i].fd \in Fds /\ sockets[conns[i].fd] \in Requests
              /\ Reaches(sockets[conns[i].fd], writer.answer)
    BY <1>3, <2>1, <2>3, PieceMoves
  <2>5. QED BY <1>1, <1>2, <1>3, <1>4, <1>5, <2>1, <2>2, <2>4 DEF notWrites, ToWrite
<1>9. CASE WriteCount
  <2>0. writer.pc = "count" /\ "remove" \in WriterSteps
    BY <1>9 DEF WriteCount, At, WriterSteps
  <2>1. PICK left \in Nat : left = Less(conns[i].num)
    <3>1. conns[i].num \in Nat
      BY <1>3, Entries
    <3>2. QED BY <3>1 DEF Less
  <2> DEFINE counted == [conns EXCEPT ![i].num = left]
  <2>2. counted \in [Slots -> Conn] /\ counted[i].fd = conns[i].fd
    BY <1>3, NumberSet
  <2>3. \/ conns' = counted /\ writer' = Resting /\ UNCHANGED <<sockets, reply, closed>>
        \/ Write(counted, <<"footer">>, "remove")
        \/ conns' = Cleared(counted, {i}) /\ writer' = Resting
           /\ UNCHANGED <<sockets, reply, closed>>
    BY <1>9, <2>1 DEF WriteCount, Slot
  <2> HIDE DEF counted, i
  <2>4. CASE Write(counted, <<"footer">>, "remove")
    <3>1. /\ conns' \in [Slots -> Conn] /\ reply' \in [Requests -> Seq(Piece)]
          /\ UNCHANGED <<sockets, closed>> \/ Shuts(conns[i].fd)
          /\ NoNews
          /\ \/ writer' = Resting
             \/ writer' = [writer EXCEPT !.pc = "remove"] /\ conns' = counted
      BY <1>3, <2>2, <2>4, PieceMoves, ControlPieces DEF i
    <3>2. QED BY <1>1, <1>2, <1>3, <1>4, <1>5, <2>0, <2>2, <3>1 DEF notWrites, ToWrite, i
  <2>5. CASE conns' \in {counted, Cleared(counted, {i})} /\ writer' = Resting
             /\ UNCHANGED <<sockets, reply, closed>>
    <3>1. conns' \in [Slots -> Conn]
      BY <2>2, <2>5, Entries
    <3>2. QED BY <1>1, <1>2, <1>3, <2>5, <3>1 DEF notWrites, NoNews, TableTyped
  <2>6. QED BY <2>3, <2>4, <2>5
<1>10. CASE WriteRemove
  <2>1. conns' = Cleared(conns, {i}) /\ writer' = Resting
        /\ UNCHANGED <<sockets, reply, closed>>
    BY <1>10 DEF WriteRemove
  <2>2. conns' \in [Slots -> Conn]
    BY <1>3, <2>1, Entries
  <2>3. QED BY <1>1, <1>2, <1>3, <2>1, <2>2 DEF notWrites, NoNews, TableTyped
<1>11. QED BY <1>6, <1>7, <1>8, <1>9, <1>10

-----------------------------------------------------------------------------
(* Parts of the invariant that a step leaves alone.                        *)
LEMMA SinglyStays ==
  ASSUME TableTyped, Singly, NoNews, UNCHANGED <<asked, writer, mesh, mqueue, http>>
  PROVE  Singly'
<1>1. Out' = Out
  BY DEF Out, NoNews, Answer
<1>2. UNCHANGED <<Asking, Queued, InHand, ToWrite>> /\ (Distinct(mqueue))' = Distinct(mqueue)
  BY DEF Asking, Queued, InHand, ToWrite
<1>3. QED BY <1>1, <1>2 DEF Singly

(* A connection goes; its client had all answers, or is counted.           *)
LEMMA ClosingKeeps ==
  ASSUME LeftEarly, Right, NoNews, asked' = asked, closed \subseteq closed',
         \A r \in Requests : (Gone(r))' /\ ~Gone(r) => r \in closed' \/ AllTold(r)
  PROVE  LeftEarly' /\ Right'
<1>1. \A r \in Requests : (AllTold(r))' <=> AllTold(r)
  BY DEF AllTold, NoNews
<1>2. LeftEarly'
  BY <1>1 DEF LeftEarly
<1>3. Right'
  BY DEF Right, NoNews
<1>4. QED BY <1>2, <1>3

LEMMA ServedTold ==
  ASSUME TableTyped, NEW r \in Requests
  PROVE  Served(r) <=> AllTold(r)
<1>1. \A d \in asked[r].dest : <<r, d>> \in Answer
  BY DEF TableTyped, Answer
<1>2. QED BY <1>1 DEF Served, AllTold, Told, Elements

LEMMA CloseCounts ==
  ASSUME TableTyped, NEW F, Close(F), asked' = asked
  PROVE  /\ sockets' \in [Fds -> Requests \cup {NoRequest}]
         /\ \A f \in Fds : sockets'[f] \in {sockets[f], NoRequest}
         /\ closed' \in SUBSET Requests /\ closed \subseteq closed'
         /\ \A r \in Requests : Gone(r) => (Gone(r))'
         /\ \A r \in Requests : (Gone(r))' /\ ~Gone(r) => r \in closed' \/ AllTold(r)
<1>1. /\ sockets' = [f \in Fds |-> IF f \in F THEN NoRequest ELSE sockets[f]]
      /\ closed' = closed \cup {r \in Requests : /\ ~(Complete(r) /\ Served(r))
                                                 /\ \E f \in F : sockets[f] = r}
  BY DEF Close
<1>2. sockets' \in [Fds -> Requests \cup {NoRequest}]
      /\ \A f \in Fds : sockets'[f] \in {sockets[f], NoRequest}
  BY <1>1 DEF TableTyped
<1>3. \A r \in Requests : asked[r].fd # NoFd => asked[r].fd \in Fds
  BY DEF TableTyped
<1>4. \A r \in Requests : Gone(r) => (Gone(r))'
  BY <1>2, <1>3, Numbers DEF Gone
<1>5. ASSUME NEW r \in Requests, (Gone(r))', ~Gone(r) PROVE r \in closed' \/ AllTold(r)
  <2>1. asked[r].fd \in Fds /\ sockets[asked[r].fd] = r /\ asked[r].fd \in F
    BY <1>1, <1>3, <1>5 DEF Gone
  <2>2. QED BY <1>1, <2>1, ServedTold
<1>6. QED BY <1>1, <1>2, <1>4, <1>5 DEF TableTyped

(* The writer with an entry in hand: an answer that reaches another client *)
(* is one of a client that left early, since it was not written before.    *)
LEMMA WritingKeeps ==
  ASSUME AInv,
         WriteHeader \/ WriteSize \/ WriteData \/ WriteCount \/ WriteRemove
  PROVE  AInv'
<1> DEFINE a == writer.answer
           fd == conns[writer.slot].fd
<1>0. TableTyped /\ WriterTyped
  BY DEF AInv
<1>1. /\ UNCHANGED notWrites /\ crossed' = crossed
      /\ conns # Freed /\ conns \in [Slots -> Conn] /\ conns' \in [Slots -> Conn]
      /\ reply' \in [Requests -> Seq(Piece)]
      /\ writer \in [pc : WriterSteps, slot : Slots, answer : Answer]
  BY <1>0, WriterDoes
<1>2. \/ writer' = Resting
      \/ /\ writer' \in [pc : WriterSteps, slot : {writer.slot}, answer : {a}]
         /\ ToWrite' => ToWrite /\ writer.pc # "data"
         /\ conns'[writer.slot].fd = fd
  BY <1>0, WriterDoes
<1>3. \/ NoNews
      \/ /\ writer.pc = "data" /\ ~ToWrite' /\ UNCHANGED <<sockets, closed>>
         /\ fd \in Fds /\ sockets[fd] \in Requests
         /\ Reaches(sockets[fd], a)
  BY <1>0, WriterDoes
<1>4. /\ a \in Answer /\ writer.slot \in Slots /\ writer.slot # 0 /\ InHand = {a}
      /\ writer.pc # "idle" /\ conns' # Freed
  BY <1>1, Numbers, Entries DEF InHand, WriterSteps
<1>9. /\ sockets' \in [Fds -> Requests \cup {NoRequest}]
      /\ \A f \in Fds : sockets'[f] \in {sockets[f], NoRequest}
      /\ closed' \in SUBSET Requests /\ closed \subseteq closed'
      /\ \A r \in Requests : Gone(r) => (Gone(r))'
      /\ \A r \in Requests : (Gone(r))' /\ ~Gone(r) => r \in closed' \/ AllTold(r)
  <2>0. asked' = asked
    BY <1>1 DEF notWrites
  <2>1. CASE UNCHANGED <<sockets, closed>>
    BY <1>0, <2>0, <2>1 DEF TableTyped, Gone
  <2>2. CASE Shuts(fd)
    BY <1>0, <2>0, <2>2, CloseCounts DEF Shuts
  <2>3. QED BY <1>0, <2>1, <2>2, WriterDoes
<1>5. TableTyped' /\ WriterTyped' /\ TimerTyped' /\ SocketsShut'
  BY <1>1, <1>2, <1>4, <1>9 DEF AInv, TableTyped, WriterTyped, TimerTyped, SocketsShut, notWrites
<1>6. InHand' \subseteq {a} /\ (ToWrite' => ToWrite /\ NoNews /\ writer'.answer = a
                                         /\ writer'.slot = writer.slot
                                         /\ conns'[writer.slot].fd = fd)
  <2>1. CASE writer' = Resting
    BY <2>1 DEF InHand, ToWrite, Resting
  <2>2. CASE writer' # Resting
    BY <1>2, <1>3, <2>2 DEF InHand
  <2>3. QED BY <2>1, <2>2
<1>7. Singly'
  <2>1. Out' \subseteq Out \cup {a} /\ (NoNews => Out' = Out)
    BY <1>3, <1>4 DEF Out, NoNews, Reaches, Answer
  <2>2. UNCHANGED <<Asking, Queued, mesh, asked>> /\ (Distinct(mqueue))' = Distinct(mqueue)
    BY <1>1 DEF notWrites, Asking, Queued
  <2>3. QED BY <1>4, <1>6, <2>1, <2>2 DEF AInv, Singly
<1>8. Asked'
  BY <1>1, <1>4, <1>6 DEF AInv, Asked, notWrites
<1>10. LeftEarly'
  <2>1. \A r \in Requests : Told(reply[r]) \subseteq Told(reply'[r])
    BY <1>3 DEF NoNews, Reaches
  <2>2. \A r \in Requests : AllTold(r) => (AllTold(r))'
    BY <1>1, <2>1 DEF AllTold, notWrites
  <2>3. QED BY <1>9, <2>2 DEF AInv, LeftEarly
<1>11. Own'
  BY <1>1, <1>4, <1>6, <1>9 DEF AInv, Own, notWrites, Answer
<1>12. Right'
  <2>1. CASE NoNews
    BY <1>9, <2>1 DEF AInv, Right, NoNews
  <2>2. CASE ~NoNews
    <3>1. ToWrite /\ a \notin Out /\ a \in InHand
      BY <1>3, <1>4, <2>2 DEF ToWrite, AInv, Singly
    <3>2. a[1] \in Requests /\ a = <<a[1], a[2]>> /\ asked[a[1]].fd # NoFd
          /\ a[2] \in asked[a[1]].dest
      BY <1>4, <3>1 DEF Answer, AInv, Singly, Asked
    <3>3. ~AllTold(a[1])
      BY <1>4, <3>1, <3>2 DEF AllTold, Out
    <3>4. sockets[fd] # a[1] => Gone(a[1])
      BY <1>4, <3>1, <3>2 DEF AInv, Own, Gone
    <3>5. sockets[fd] # a[1] => a[1] \in closed
      BY <3>2, <3>3, <3>4 DEF AInv, LeftEarly
    <3>6. QED BY <1>1, <1>3, <2>2, <3>5 DEF AInv, Right, Reaches, notWrites
  <2>3. QED BY <2>1, <2>2
<1>13. QED BY <1>5, <1>7, <1>8, <1>10, <1>11, <1>12 DEF AInv

(* CHOOSE finds the least number of a set.                                 *)
LEMMA LeastThere ==
  ASSUME NEW S \in SUBSET Nat, S # {}
  PROVE  Least(S) \in S
<1> DEFINE R == {ss \in Nat \X Nat : ss[1] < ss[2]}
<1>1. IsWellFoundedOn(R, Nat)
  BY NatLessThanWellFounded DEF OpToRel
<1>2. \A x, y \in Nat : x < y => <<x, y>> \in R
  OBVIOUS
<1> HIDE DEF R
<1>3. PICK x \in S : \A y \in S : ~(<<y, x>> \in R)
  BY <1>1, WFMin
<1>4. \A y \in S : ~(y < x)
  BY <1>2, <1>3
<1>5. \A y \in S : x <= y
  BY <1>4
<1>6. QED BY <1>5 DEF Least

LEMMA FoundEntry ==
  ASSUME NEW t \in [Slots -> Conn], NEW fd, FirstFound(t, fd) # {}
  PROVE  \E i \in Slots : /\ FirstFound(t, fd) = {i} /\ Least(FirstFound(t, fd)) = i
                          /\ t[i].fd = fd /\ t[i].flag # "none"
<1> DEFINE i == Least(Found(t, fd))
<1>1. Found(t, fd) # {} /\ FirstFound(t, fd) = {i}
  BY DEF FirstFound
<1>2. Found(t, fd) \in SUBSET Nat
  BY Numbers DEF Found
<1>3. i \in Found(t, fd)
  BY <1>1, <1>2, LeastThere
<1>4. i \in Slots /\ t[i].fd = fd /\ t[i].flag # "none"
  BY <1>3 DEF Found
<1>5. Least({i}) = i
  BY <1>4, LeastThere, Numbers
<1> HIDE DEF i
<1>6. QED BY <1>1, <1>4, <1>5

LEMMA FoundRequest ==
  ASSUME NEW t \in [Slots -> Conn], NEW fd, fd # NoFd, FirstFound(t, fd) # {}
  PROVE  LET w == Least(FirstFound(t, fd))
         IN  /\ w \in Slots /\ FirstFound(t, fd) = {w}
             /\ t[w].fd = fd /\ t[w].flag # "none" /\ t[w].req \in Requests
<1>1. PICK i \in Slots : /\ FirstFound(t, fd) = {i} /\ Least(FirstFound(t, fd)) = i
                         /\ t[i].fd = fd /\ t[i].flag # "none"
  BY FoundEntry
<1>2. t[i].req \in Requests
  BY <1>1, Entries
<1>3. QED BY <1>1, <1>2

LEMMA CallingKeeps ==
  ASSUME AInv, NEW a \in mesh, WriteCall(a)
  PROVE  AInv'
<1>1. /\ UNCHANGED <<server, mqueue, asked, http, timeout, conns, sockets, reply, closed, crossed>>
      /\ writer.pc = "idle" /\ mesh' = mesh \ {a}
  BY DEF WriteCall, notWriter, tableVars
<1>2. a \in Answer
  BY DEF AInv, TableTyped
<1>3. \/ writer' = writer
      \/ writer' \in [pc : {"find"}, slot : {0}, answer : {a}]
  <2>1. [Resting EXCEPT !.pc = "find", !.answer = a] \in [pc : {"find"}, slot : {0}, answer : {a}]
    BY DEF Resting
  <2>2. QED BY <2>1 DEF WriteCall
<1>4. TableTyped' /\ WriterTyped' /\ TimerTyped' /\ SocketsShut' /\ NoNews
  BY <1>1, <1>2, <1>3 DEF AInv, TableTyped, WriterTyped, TimerTyped, SocketsShut, NoNews
<1>5. InHand = {} /\ InHand' \subseteq {a} /\ (ToWrite' => writer'.answer = a /\ writer'.slot = 0)
  BY <1>1, <1>3 DEF InHand, ToWrite
<1>6. Singly'
  <2>1. UNCHANGED <<Asking, Queued, Out>> /\ (Distinct(mqueue))' = Distinct(mqueue)
    BY <1>1 DEF Asking, Queued, Out
  <2>2. a \notin mesh'
    BY <1>1
  <2>3. QED BY <1>1, <1>5, <2>1, <2>2 DEF AInv, Singly
<1>7. Asked'
  BY <1>1, <1>5 DEF AInv, Asked
<1>8. LeftEarly' /\ Right'
  BY <1>1, <1>4, ClosingKeeps DEF AInv, Gone
<1>9. Own'
  BY <1>5 DEF Own
<1>10. QED BY <1>4, <1>6, <1>7, <1>8, <1>9 DEF AInv

LEMMA FindingKeeps ==
  ASSUME AInv, WriteFind
  PROVE  AInv'
<1> DEFINE F == FirstFound(conns, asked[writer.answer[1]].fd)
<1>1. /\ UNCHANGED <<server, mqueue, asked, http, timeout, mesh, conns, sockets, reply, closed>>
      /\ writer.pc = "find" /\ conns # Freed
      /\ crossed' = crossed \cup {conns[i].req : i \in F \cap {timeout.slot}}
      /\ writer' = IF F = {} THEN Resting
                   ELSE [writer EXCEPT !.slot = Least(F),
                           !.pc = IF conns[Least(F)].flag = "header" THEN "header" ELSE "size"]
  BY DEF WriteFind, notWriter
<1>2. conns \in [Slots -> Conn] /\ writer \in [pc : {"find"}, slot : {0}, answer : Answer]
  BY <1>1 DEF AInv, TableTyped, WriterTyped, Resting, WriterSteps
<1>3. asked[writer.answer[1]].fd # NoFd
  BY <1>1 DEF AInv, Singly, InHand
<1>4. F # {} => /\ Least(F) \in Slots /\ F = {Least(F)}
                /\ conns[Least(F)].fd = asked[writer.answer[1]].fd
                /\ conns[Least(F)].req \in Requests
  BY <1>2, <1>3, FoundRequest
<1>5. \/ writer' = Resting
      \/ /\ F # {} /\ writer'.slot = Least(F)
         /\ writer' \in [pc : WriterSteps, slot : Slots, answer : {writer.answer}]
  BY <1>1, <1>2, <1>4 DEF WriterSteps
<1>6. crossed' \in SUBSET Requests
  BY <1>1, <1>4 DEF AInv, TableTyped
<1> HIDE DEF F
<1>7. TableTyped' /\ WriterTyped' /\ TimerTyped' /\ SocketsShut' /\ NoNews
  BY <1>1, <1>2, <1>5, <1>6 DEF AInv, TableTyped, WriterTyped, TimerTyped, SocketsShut, NoNews
<1>8. InHand' \subseteq InHand /\ (ToWrite' => ToWrite /\ writer'.answer = writer.answer)
  BY <1>1, <1>2, <1>5 DEF InHand, ToWrite, Resting
<1>9. Singly'
  <2>1. UNCHANGED <<Asking, Queued, Out>> /\ (Distinct(mqueue))' = Distinct(mqueue)
    BY <1>1 DEF Asking, Queued, Out
  <2>2. QED BY <1>1, <1>8, <2>1 DEF AInv, Singly
<1>10. Asked'
  BY <1>1, <1>8 DEF AInv, Asked
<1>11. LeftEarly' /\ Right'
  BY <1>1, <1>7, ClosingKeeps DEF AInv, Gone
<1>12. Own'
  <2>1. CASE writer' = Resting
    BY <2>1 DEF Own, ToWrite, Resting
  <2>2. CASE writer' # Resting
    BY <1>1, <1>4, <1>5, <2>2 DEF Own
  <2>3. QED BY <2>1, <2>2
<1>13. QED BY <1>7, <1>9, <1>10, <1>11, <1>12 DEF AInv

(* The timer.                                                              *)
LEMMA FiringKeeps ==
  ASSUME AInv, NEW i \in Slots, TimerFires(i)
  PROVE  AInv'
<1>1. /\ UNCHANGED <<server, mqueue, asked, http, writer, mesh, sockets, reply, closed>>
      /\ conns # Freed /\ conns[i].timer
      /\ timeout' = [pc |-> "send", slot |-> i,
                     answer |-> <<IF conns[i].flag = "body" THEN "footer" ELSE "400">>]
      /\ conns' = [conns EXCEPT ![i].flag = "data"]
      /\ crossed' = IF writer.slot = i THEN crossed \cup {conns[i].req} ELSE crossed
  BY DEF TimerFires, Expires, notTimer
<1>2. conns \in [Slots -> Conn]
  BY <1>1 DEF AInv, TableTyped
<1>3. conns' \in [Slots -> Conn] /\ conns' # Freed
      /\ \A j \in Slots : conns'[j].fd = conns[j].fd
  <2>1. conns' \in [Slots -> Conn]
    BY <1>1, <1>2, FlagSet
  <2>2. \A j \in Slots : conns'[j].fd = conns[j].fd
    BY <1>1, <1>2, FlagSet
  <2>3. QED BY <2>1, <2>2, Entries
<1>4. crossed' \in SUBSET Requests
  BY <1>1, <1>2, Entries DEF AInv, TableTyped
<1>5. timeout' \in [pc : {"send"}, slot : Slots, answer : {<<"footer">>, <<"400">>}]
  BY <1>1
<1>6. TableTyped' /\ WriterTyped' /\ TimerTyped' /\ SocketsShut' /\ NoNews
  BY <1>1, <1>3, <1>4, <1>5 DEF AInv, TableTyped, WriterTyped, TimerTyped, SocketsShut, NoNews
<1>7. Singly' /\ Asked'
  BY <1>1, <1>6, SinglyStays DEF AInv, Asked, InHand
<1>8. LeftEarly' /\ Right'
  BY <1>1, <1>6, ClosingKeeps DEF AInv, Gone
<1>9. Own'
  <2>1. ToWrite /\ writer.slot # 0 => writer.slot \in Slots
    BY DEF AInv, WriterTyped, ToWrite, Resting
  <2>2. QED BY <1>1, <1>3, <2>1 DEF AInv, Own, ToWrite, Gone
<1>10. QED BY <1>6, <1>7, <1>8, <1>9 DEF AInv

LEMMA ClosingTimerKeeps ==
  ASSUME AInv, TimerCloses
  PROVE  AInv'
<1> DEFINE fd == conns[timeout.slot].fd
           q  == sockets[fd]
           F  == FirstFound(conns, fd)
<1>1. /\ UNCHANGED <<server, mqueue, asked, http, writer, mesh>>
      /\ conns # Freed /\ timeout.pc = "send" /\ timeout' = Resting
      /\ \/ conns' = Cleared(conns, {timeout.slot}) /\ crossed' = crossed
         \/ /\ fd # NoFd /\ conns' = Cleared(conns, F \cup {timeout.slot})
            /\ crossed' = crossed \cup {conns[i].req : i \in F \cap {writer.slot}}
  BY DEF TimerCloses, notTimer
<1>2. \/ /\ fd # NoFd /\ q # NoRequest
         /\ closed' = closed \cup {q}
         /\ \/ reply' = [reply EXCEPT ![q] = Append(@, timeout.answer)]
            \/ reply' = reply
         /\ sockets' = [sockets EXCEPT ![fd] = NoRequest]
      \/ ~(fd # NoFd /\ q # NoRequest) /\ UNCHANGED <<closed, reply, sockets>>
  BY DEF TimerCloses
<1>3. conns \in [Slots -> Conn] /\ timeout.slot \in Slots
      /\ timeout.answer \in {<<"footer">>, <<"400">>}
  BY <1>1 DEF AInv, TableTyped, TimerTyped, Resting
<1>14. fd # NoFd => \A i \in F : i \in Slots /\ conns[i].fd = fd /\ conns[i].req \in Requests
  BY <1>3, FoundRequest
<1>15. crossed' \in SUBSET Requests
  BY <1>1, <1>14 DEF AInv, TableTyped
<1>4. conns' \in [Slots -> Conn] /\ conns' # Freed /\ fd \in {NoFd} \cup Fds
      /\ \A j \in Slots : conns'[j].fd = conns[j].fd \/ conns[j].fd = fd
  <2>1. PICK S : /\ conns' = Cleared(conns, S)
                 /\ \A j \in S : j = timeout.slot \/ conns[j].fd = fd
    BY <1>1, <1>14
  <2>2. \A j \in Slots : conns'[j] = conns[j] \/ j \in S
    BY <2>1 DEF Cleared
  <2>3. QED BY <1>3, <2>1, <2>2, Entries
<1>5. /\ reply' \in [Requests -> Seq(Piece)] /\ NoNews
      /\ sockets' \in [Fds -> Requests \cup {NoRequest}]
      /\ closed' \in SUBSET Requests /\ closed \subseteq closed'
      /\ \A f \in Fds : sockets'[f] = IF f = fd THEN NoRequest ELSE sockets[f]
      /\ \A f \in Fds : sockets'[f] # sockets[f] => sockets[f] \in closed'
  <2>1. CASE fd # NoFd /\ q # NoRequest
    <3>1. fd \in Fds /\ q \in Requests
      BY <1>4, <2>1 DEF AInv, TableTyped
    <3>2. reply' \in [Requests -> Seq(Piece)] /\ NoNews
      <4>1. CASE reply' = reply
        BY <4>1 DEF AInv, TableTyped, NoNews
      <4>2. CASE reply' # reply
        BY <1>2, <1>3, <2>1, <3>1, <4>2, ReplyGrows, ControlPieces DEF AInv
      <4>3. QED BY <4>1, <4>2
    <3>3. \A f \in Fds : sockets'[f] = IF f = fd THEN NoRequest ELSE sockets[f]
      BY <1>2, <2>1, <3>1 DEF AInv, TableTyped
    <3>4. sockets' \in [Fds -> Requests \cup {NoRequest}]
      BY <1>2, <2>1, <3>1 DEF AInv, TableTyped
    <3>5. closed' = closed \cup {q} /\ closed \in SUBSET Requests
      BY <1>2, <2>1 DEF AInv, TableTyped
    <3>6. \A f \in Fds : sockets'[f] # sockets[f] => sockets[f] \in closed'
      BY <3>3, <3>5
    <3>7. QED BY <3>1, <3>2, <3>3, <3>4, <3>5, <3>6
  <2>2. CASE ~(fd # NoFd /\ q # NoRequest)
    BY <1>2, <1>4, <2>2, Numbers DEF AInv, TableTyped, NoNews
  <2>3. QED BY <2>1, <2>2
<1>6. TableTyped' /\ WriterTyped' /\ TimerTyped' /\ SocketsShut'
  BY <1>1, <1>4, <1>5, <1>15 DEF AInv, TableTyped, WriterTyped, TimerTyped, SocketsShut
<1>7. Singly' /\ Asked'
  BY <1>1, <1>5, SinglyStays DEF AInv, Asked, InHand
<1>8. \A r \in Requests : asked[r].fd # NoFd => asked[r].fd \in Fds
  BY DEF AInv, TableTyped
<1>9. \A r \in Requests : (Gone(r))' /\ ~Gone(r) => r \in closed'
  BY <1>1, <1>5, <1>8 DEF Gone
<1>10. LeftEarly' /\ Right'
  BY <1>1, <1>5, <1>9, ClosingKeeps DEF AInv
<1>11. \A r \in Requests : Gone(r) => (Gone(r))'
  BY <1>1, <1>5, <1>8, Numbers DEF Gone
<1>12. Own'
  <2>1. ASSUME ToWrite, writer.slot # 0
        PROVE  writer.slot \in Slots /\ writer.answer[1] \in Requests
               /\ asked[writer.answer[1]].fd # NoFd
    BY <2>1 DEF AInv, WriterTyped, ToWrite, Resting, Answer, Singly, InHand
  <2>2. ASSUME ToWrite, writer.slot # 0, conns[writer.slot].fd = asked[writer.answer[1]].fd,
               conns'[writer.slot].fd # conns[writer.slot].fd
        PROVE  (Gone(writer.answer[1]))'
    <3>1. PICK p \in Requests : p = writer.answer[1]
      BY <2>1, <2>2
    <3>2. writer.slot \in Slots /\ asked[p].fd # NoFd /\ asked[p].fd \in Fds
      BY <1>8, <2>1, <2>2, <3>1
    <3>3. conns[writer.slot].fd = fd
      BY <1>4, <2>2, <3>2
    <3>4. asked[p].fd = fd /\ sockets'[asked[p].fd] = NoRequest
      BY <1>5, <2>2, <3>1, <3>2, <3>3
    <3>5. asked'[p].fd # NoFd /\ sockets'[asked'[p].fd] # p
      BY <1>1, <3>2, <3>4, Numbers
    <3>6. writer'.answer[1] = p
      BY <1>1, <3>1
    <3>7. QED BY <3>5, <3>6 DEF Gone
  <2>3. QED BY <1>1, <1>4, <1>11, <2>1, <2>2 DEF AInv, Own, ToWrite
<1>13. QED BY <1>6, <1>7, <1>10, <1>12 DEF AInv

-----------------------------------------------------------------------------
(* The queue of requests.                                                  *)
LEMMA TailDistinct ==
  ASSUME NEW q \in Seq(Entry), q # <<>>, Distinct(q)
  PROVE  /\ Distinct(Tail(q)) /\ Elements(Tail(q)) \subseteq Elements(q)
         /\ Head(q) \in Elements(q)
         /\ Head(q) # Exit => Head(q) \notin Elements(Tail(q))
<1>1. /\ Len(q) \in Nat \ {0} /\ DOMAIN q = 1 .. Len(q) /\ Head(q) = q[1]
      /\ DOMAIN Tail(q) = 1 .. Len(q) - 1
      /\ \A i \in 1 .. Len(q) - 1 : Tail(q)[i] = q[i + 1]
  OBVIOUS
<1>2. \A i \in DOMAIN Tail(q) : i + 1 \in DOMAIN q /\ i + 1 # 1 /\ Tail(q)[i] = q[i + 1]
  BY <1>1
<1>3. \A i, j \in DOMAIN Tail(q) : i + 1 = j + 1 => i = j
  BY <1>1
<1>4. Distinct(Tail(q))
  BY <1>2, <1>3 DEF Distinct
<1>5. 1 \in DOMAIN q
  BY <1>1
<1>6. QED BY <1>1, <1>2, <1>4, <1>5 DEF Distinct, Elements

LEMMA AppendDistinct ==
  ASSUME NEW q \in Seq(Entry), NEW e \in Entry, Distinct(q),
         e # Exit => e \notin Elements(q)
  PROVE  Distinct(Append(q, e)) /\ Elements(Append(q, e)) = Elements(q) \cup {e}
<1>1. /\ Len(q) \in Nat /\ DOMAIN q = 1 .. Len(q) /\ DOMAIN Append(q, e) = 1 .. Len(q) + 1
      /\ \A i \in 1 .. Len(q) : Append(q, e)[i] = q[i]
      /\ Append(q, e)[Len(q) + 1] = e
  OBVIOUS
<1>2. \A i \in DOMAIN Append(q, e) :
        \/ i \in DOMAIN q /\ Append(q, e)[i] = q[i]
        \/ i = Len(q) + 1 /\ Append(q, e)[i] = e
  BY <1>1
<1>3. Distinct(Append(q, e))
  BY <1>2 DEF Distinct, Elements
<1>4. \A i \in DOMAIN q : i \in DOMAIN Append(q, e) /\ Append(q, e)[i] = q[i]
  BY <1>1
<1>5. Len(q) + 1 \in DOMAIN Append(q, e)
  BY <1>1
<1>6. Elements(Append(q, e)) = Elements(q) \cup {e}
  BY <1>1, <1>2, <1>4, <1>5 DEF Elements
<1>7. QED BY <1>3, <1>6

LEMMA NoneQueued == Distinct(NoQueue) /\ Elements(NoQueue) \cap Requests = {}
<1>1. Elements(NoQueue) = {"none"}
  BY DEF Elements, NoQueue
<1>2. QED BY <1>1, MlinkHttpdAssumption DEF MlinkHttpdAssumption, Distinct, NoQueue

LEMMA EmptyQueued == Distinct(<<>>) /\ Elements(<<>>) = {}
  BY DEF Elements, Distinct

(* The queue loses entries, or takes the mark of the end.                  *)
LEMMA MqueueChanges ==
  ASSUME Singly, (Distinct(mqueue))', Queued' \subseteq Queued,
         UNCHANGED <<asked, http, mesh, writer, reply>>
  PROVE  Singly'
<1>1. UNCHANGED <<Asking, InHand, ToWrite, Out>>
  BY DEF Asking, InHand, ToWrite, Out
<1>2. QED BY <1>1 DEF Singly

(* A step that leaves the answers, the table and the tasks as they are.    *)
notAnswers == <<asked, mesh, writer, timeout, conns, sockets, reply, closed, crossed>>

LEMMA QueueStepKeeps ==
  ASSUME AInv, UNCHANGED notAnswers, server' = server, Singly'
  PROVE  AInv'
<1>1. TableTyped' /\ WriterTyped' /\ TimerTyped' /\ SocketsShut' /\ NoNews
  BY DEF AInv, TableTyped, WriterTyped, TimerTyped, SocketsShut, notAnswers, NoNews
<1>2. Asked' /\ Own'
  BY DEF AInv, Asked, InHand, Own, ToWrite, Gone, notAnswers
<1>3. LeftEarly' /\ Right'
  BY <1>1, ClosingKeeps DEF AInv, notAnswers, Gone
<1>4. QED BY <1>1, <1>2, <1>3 DEF AInv

LEMMA ReadingKeeps ==
  ASSUME HInv, AInv, ReadCall \/ ReadExit \/ DeleteQueue
  PROVE  AInv'
<1>1. UNCHANGED <<notAnswers, server, http>>
  BY DEF ReadCall, ReadExit, DeleteQueue, notReader, tableVars, notAnswers
<1>2. (Distinct(mqueue))' /\ Queued' \subseteq Queued
  <2>1. CASE ReadCall
    BY <2>1, EmptyQueued DEF ReadCall, AInv, Singly, Queued
  <2>2. CASE ReadExit
    <3>1. mqueue \in Seq(Entry) /\ mqueue # <<>> /\ mqueue' = Tail(mqueue) /\ Distinct(mqueue)
      BY <2>2 DEF ReadExit, HInv, QueueKept, AInv, Singly
    <3>2. QED BY <3>1, TailDistinct DEF Queued
  <2>3. CASE DeleteQueue
    BY <2>3, NoneQueued DEF DeleteQueue, Queued
  <2>4. QED BY <2>1, <2>2, <2>3
<1>3. Singly'
  <2>1. Singly /\ UNCHANGED <<asked, http, mesh, writer, reply>>
    BY <1>1 DEF AInv, notAnswers
  <2>2. QED BY <1>2, <2>1, MqueueChanges
<1>4. QED BY <1>1, <1>3, QueueStepKeeps

LEMMA ForwardingKeeps ==
  ASSUME HInv, AInv, Forward
  PROVE  AInv'
<1> DEFINE r == Head(mqueue)
<1>1. /\ UNCHANGED <<server, asked, http, writer, timeout, conns, sockets, reply, closed, crossed>>
      /\ reader = "wait" /\ mqueue # <<>> /\ r # Exit /\ mqueue' = Tail(mqueue)
  BY DEF Forward, notReader, tableVars
<1>2. PICK D \in SUBSET asked[r].dest : mesh' = mesh \cup {<<r, d>> : d \in D}
  BY DEF Forward
<1>3. mqueue \in Seq(Entry) /\ Distinct(mqueue)
  BY <1>1 DEF HInv, QueueKept, AInv, Singly
<1>4. /\ Distinct(mqueue') /\ Elements(mqueue') \subseteq Elements(mqueue)
      /\ r \in Elements(mqueue) /\ r \notin Elements(mqueue')
  BY <1>1, <1>3, TailDistinct
<1>5. r \in Requests
  BY <1>1, <1>3 DEF Entry
<1> DEFINE new == {<<r, d>> : d \in D}
<1>6. /\ new \subseteq Answer /\ \A a \in new : a[1] = r /\ a[2] \in asked[r].dest
      /\ mesh' = mesh \cup new
  BY <1>2, <1>5 DEF AInv, TableTyped, Answer
<1> HIDE DEF new, r
<1>7. TableTyped' /\ WriterTyped' /\ TimerTyped' /\ SocketsShut' /\ NoNews
  BY <1>1, <1>6 DEF AInv, TableTyped, WriterTyped, TimerTyped, SocketsShut, NoNews
<1>8. r \in Queued /\ r \notin Queued' /\ Queued' \subseteq Queued
  BY <1>4, <1>5 DEF Queued
<1>9. Singly'
  <2>1. UNCHANGED <<Asking, InHand, ToWrite, Out>> /\ (Distinct(mqueue))' = Distinct(mqueue')
    BY <1>1 DEF Asking, InHand, ToWrite, Out, Distinct
  <2>2. r \notin Asking
    BY <1>8 DEF AInv, Singly
  <2>3. new \cap (InHand \cup Out) = {}
    BY <1>6, <1>8 DEF AInv, Singly
  <2>4. QED BY <1>1, <1>4, <1>6, <1>8, <2>1, <2>2, <2>3 DEF AInv, Singly
<1>10. Asked'
  BY <1>1, <1>6 DEF AInv, Asked, InHand
<1>11. LeftEarly' /\ Right'
  BY <1>1, <1>7, ClosingKeeps DEF AInv, Gone
<1>12. Own'
  BY <1>1 DEF AInv, Own, ToWrite, Gone
<1>13. QED BY <1>7, <1>9, <1>10, <1>11, <1>12 DEF AInv

(* The server.                                                             *)
LEMMA ArrivingKeeps ==
  ASSUME HInv, PlanTyped, AInv, NEW r \in Requests, Arrive(r, plan.dest[r])
  PROVE  AInv'
<1> DEFINE dest == plan.dest[r]
           fd   == Least({f \in Fds : sockets[f] = NoRequest})
<1>1. /\ UNCHANGED <<server, mqueue, writer, timeout, mesh, conns, reply, closed, crossed>>
      /\ server /\ http.pc = "idle" /\ asked[r].fd = NoFd
      /\ sockets' = [sockets EXCEPT ![fd] = r]
      /\ asked' = [asked EXCEPT ![r] = [fd |-> fd, dest |-> dest]]
      /\ http' = [pc |-> "add", slot |-> 0, req |-> r]
  BY DEF Arrive, NotAsking, notHttp
<1>2. fd \in Fds /\ sockets[fd] = NoRequest
  <2>1. {f \in Fds : sockets[f] = NoRequest} \in SUBSET Nat
    BY Numbers
  <2>2. {f \in Fds : sockets[f] = NoRequest} # {}
    BY DEF Arrive
  <2>3. QED BY <2>1, <2>2, LeastThere
<1>3. dest \in SUBSET Devices
  BY DEF PlanTyped
<1> HIDE DEF fd, dest
<1>4. /\ TableTyped' /\ WriterTyped' /\ TimerTyped' /\ SocketsShut' /\ NoNews
      /\ asked'[r].fd = fd /\ \A q \in Requests \ {r} : asked'[q] = asked[q]
  BY <1>1, <1>2, <1>3 DEF AInv, TableTyped, WriterTyped, TimerTyped, SocketsShut, NoNews
<1>5. /\ r \notin Queued /\ Asking = {} /\ Asking' = {r}
      /\ \A a \in mesh \cup InHand \cup Out : a[1] # r /\ a[1] \in Requests
  <2>1. InHand \subseteq Answer
    BY DEF AInv, WriterTyped, InHand, Resting
  <2>2. mesh \cup InHand \cup Out \subseteq Answer
    BY <2>1 DEF AInv, TableTyped, Out
  <2>3. QED BY <1>1, <2>2 DEF AInv, Singly, Asking, Answer
<1>6. Singly'
  <2>1. UNCHANGED <<Queued, InHand, ToWrite, Out>> /\ (Distinct(mqueue))' = Distinct(mqueue)
    BY <1>1 DEF Queued, InHand, ToWrite, Out
  <2>2. r # NoRequest /\ fd # NoFd
    BY <1>2, Numbers
  <2>3. Queued \subseteq Requests
    BY DEF Queued
  <2>4. QED BY <1>1, <1>4, <1>5, <2>1, <2>2, <2>3 DEF AInv, Singly
<1>7. Asked'
  BY <1>1, <1>4, <1>5 DEF AInv, Asked, InHand
<1>8. \A q \in Requests \ {r} : (Gone(q))' <=> Gone(q)
  BY <1>1, <1>2, <1>4, Numbers DEF Gone, AInv, TableTyped
<1>9. ~(Gone(r))'
  BY <1>1, <1>2, <1>4 DEF Gone, AInv, TableTyped
<1>10. LeftEarly' /\ Right'
  <2>1. \A q \in Requests \ {r} : (AllTold(q))' <=> AllTold(q)
    BY <1>1, <1>4 DEF AllTold
  <2>2. QED BY <1>1, <1>8, <1>9, <2>1 DEF AInv, LeftEarly, Right
<1>11. Own'
  <2>1. ToWrite => writer.answer[1] \in Requests \ {r}
    BY <1>5 DEF ToWrite, InHand
  <2>2. QED BY <1>1, <1>4, <1>8, <2>1 DEF AInv, Own, ToWrite
<1>12. QED BY <1>4, <1>6, <1>7, <1>10, <1>11 DEF AInv

LEMMA AddingKeeps ==
  ASSUME HInv, AInv, AddConnection
  PROVE  AInv'
<1> DEFINE r     == http.req
           num   == Cardinality(asked[r].dest)
           free  == {i \in Slots : conns[i].flag = "none"}
           entry == [flag |-> IF num > 1 THEN "header" ELSE "data", num |-> num,
                     fd |-> asked[r].fd, timer |-> FALSE, req |-> r]
<1>1. /\ UNCHANGED <<server, mqueue, writer, timeout, mesh, asked, sockets, reply, closed>>
      /\ http.pc = "add"
      /\ \/ http' = [http EXCEPT !.pc = "put"]
         \/ http' = [pc |-> "timer", slot |-> Least(free), req |-> r]
      /\ \/ UNCHANGED <<conns, crossed>>
         \/ /\ free # {}
            /\ conns' = [conns EXCEPT ![Least(free)] = entry]
            /\ crossed' = IF Least(free) \in {writer.slot, timeout.slot}
                          THEN crossed \cup {r} ELSE crossed
  BY DEF AddConnection, notHttp
<1>2. r \in Requests /\ server /\ conns # Freed
  BY <1>1 DEF HInv, ServerTyped
<1>3. conns \in [Slots -> Conn] /\ asked[r].fd # NoFd /\ asked[r].fd \in {NoFd} \cup Fds
      /\ asked[r].dest \in SUBSET Devices
  BY <1>1, <1>2 DEF AInv, TableTyped, Singly, Asking
<1>4. num \in Nat
  BY <1>3, MlinkHttpdAssumption, FS_Subset, FS_CardinalityType DEF MlinkHttpdAssumption
<1>5. entry \in Conn
  BY <1>2, <1>3, <1>4 DEF Conn, Filled
<1>6. free # {} => Least(free) \in Slots /\ conns[Least(free)].fd = NoFd
  <2>1. free \in SUBSET Nat
    BY Numbers
  <2>2. free # {} => Least(free) \in free
    BY <2>1, LeastThere
  <2>3. QED BY <1>3, <2>2, Entries
<1> DEFINE i == Least(free)
<1> HIDE DEF entry, free, i
<1>7. /\ conns' \in [Slots -> Conn] /\ crossed' \in SUBSET Requests
      /\ \A j \in Slots : conns[j].fd # NoFd => conns'[j].fd = conns[j].fd
  <2>1. CASE UNCHANGED <<conns, crossed>>
    BY <1>3, <2>1 DEF AInv, TableTyped
  <2>2. CASE ~UNCHANGED <<conns, crossed>>
    <3>1. /\ conns' = [conns EXCEPT ![i] = entry] /\ i \in Slots /\ conns[i].fd = NoFd
          /\ crossed' \in {crossed, crossed \cup {r}}
      BY <1>1, <1>6, <2>2 DEF i
    <3>2. QED BY <1>2, <1>3, <1>5, <3>1 DEF AInv, TableTyped
  <2>3. QED BY <2>1, <2>2
<1>8. conns' # Freed
  BY <1>7, Entries
<1>9. TableTyped' /\ WriterTyped' /\ TimerTyped' /\ SocketsShut' /\ NoNews
  BY <1>1, <1>7 DEF AInv, TableTyped, WriterTyped, TimerTyped, SocketsShut, NoNews
<1>10. Singly'
  <2>1. UNCHANGED <<Queued, InHand, ToWrite, Out>> /\ (Distinct(mqueue))' = Distinct(mqueue)
    BY <1>1 DEF Queued, InHand, ToWrite, Out
  <2>2. Asking' \subseteq Asking
    <3>1. CASE http' = [http EXCEPT !.pc = "put"]
      BY <1>1, <3>1 DEF Asking
    <3>2. CASE http' = [pc |-> "timer", slot |-> Least(free), req |-> r]
      BY <1>1, <3>2 DEF Asking
    <3>3. QED BY <1>1, <3>1, <3>2
  <2>3. QED BY <1>1, <2>1, <2>2 DEF AInv, Singly
<1>11. Asked'
  BY <1>1 DEF AInv, Asked, InHand
<1>12. LeftEarly' /\ Right'
  BY <1>1, <1>9, ClosingKeeps DEF AInv, Gone
<1>13. Own'
  <2>1. ASSUME ToWrite, writer.slot # 0
        PROVE  writer.slot \in Slots /\ asked[writer.answer[1]].fd # NoFd
    BY <2>1 DEF AInv, WriterTyped, ToWrite, Resting, Singly, InHand
  <2>2. QED BY <1>1, <1>7, <1>8, <2>1 DEF AInv, Own, ToWrite, Gone
<1>14. QED BY <1>9, <1>10, <1>11, <1>12, <1>13 DEF AInv

(* The timer is created, or not.                                           *)
LEMMA TimingKeeps ==
  ASSUME HInv, AInv, Half, AddTimer
  PROVE  AInv'
<1>1. /\ UNCHANGED <<server, mqueue, writer, timeout, mesh, asked, sockets, reply, closed>>
      /\ http.pc = "timer" /\ http' = [http EXCEPT !.pc = "put"]
      /\ \/ conns' = [conns EXCEPT ![http.slot].timer = TRUE] /\ crossed' = crossed
         \/ crossed' = crossed \cup {http.req} /\ conns' = conns
  BY DEF AddTimer, notHttp
<1>2. http.req \in Requests /\ conns \in [Slots -> Conn] /\ http.slot \in Slots
      /\ conns[http.slot].req = http.req
  BY <1>1 DEF HInv, ServerTyped, Half, AInv, TableTyped
<1>3. /\ conns' \in [Slots -> Conn] /\ crossed' \in SUBSET Requests
      /\ \A j \in Slots : conns'[j].fd = conns[j].fd
  <2>1. CASE conns' = [conns EXCEPT ![http.slot].timer = TRUE] /\ crossed' = crossed
    <3>1. PICK i \in Slots : i = http.slot
      BY <1>2
    <3>2. conns[i].req # NoRequest
      BY <1>2, <3>1, Numbers
    <3>3. conns' = [conns EXCEPT ![i].timer = TRUE]
      BY <2>1, <3>1
    <3>4. conns' \in [Slots -> Conn] /\ \A j \in Slots : conns'[j].fd = conns[j].fd
      BY <1>2, <3>2, <3>3, TimerSet
    <3>5. QED BY <2>1, <3>4 DEF AInv, TableTyped
  <2>2. CASE crossed' = crossed \cup {http.req} /\ conns' = conns
    BY <1>2, <2>2 DEF AInv, TableTyped
  <2>3. QED BY <1>1, <2>1, <2>2
<1>4. conns' # Freed
  BY <1>3, Entries
<1>5. TableTyped' /\ WriterTyped' /\ TimerTyped' /\ SocketsShut' /\ NoNews
  BY <1>1, <1>3 DEF AInv, TableTyped, WriterTyped, TimerTyped, SocketsShut, NoNews
<1>6. Singly'
  <2>1. UNCHANGED <<Queued, InHand, ToWrite, Out>> /\ (Distinct(mqueue))' = Distinct(mqueue)
    BY <1>1 DEF Queued, InHand, ToWrite, Out
  <2>2. Asking' \subseteq Asking
    BY <1>1 DEF Asking
  <2>3. QED BY <1>1, <2>1, <2>2 DEF AInv, Singly
<1>7. Asked'
  BY <1>1 DEF AInv, Asked, InHand
<1>8. LeftEarly' /\ Right'
  BY <1>1, <1>5, ClosingKeeps DEF AInv, Gone
<1>9. Own'
  <2>1. ToWrite /\ writer.slot # 0 => writer.slot \in Slots
    BY DEF AInv, WriterTyped, ToWrite, Resting
  <2>2. QED BY <1>1, <1>3, <1>4, <2>1 DEF AInv, Own, ToWrite, Gone
<1>10. QED BY <1>5, <1>6, <1>7, <1>8, <1>9 DEF AInv

LEMMA PuttingKeeps ==
  ASSUME HInv, AInv, PutRequest
  PROVE  AInv'
<1> DEFINE r == http.req
<1>1. /\ UNCHANGED notAnswers /\ server' = server
      /\ http.pc = "put" /\ http'.pc = "idle"
      /\ mqueue # NoQueue /\ mqueue' = Append(Spared, r)
  BY DEF PutRequest, NotAsking, notHttp, tableVars, notAnswers
<1>2. r \in Requests /\ Asking = {r} /\ Asking' = {}
  BY <1>1 DEF HInv, ServerTyped, Asking
<1>3. r \in Entry /\ r # Exit
  BY <1>2, MlinkHttpdAssumption DEF Entry, Exit, MlinkHttpdAssumption
<1>4. mqueue \in Seq(Entry) /\ Distinct(mqueue) /\ r \notin Elements(mqueue)
  BY <1>1, <1>2 DEF HInv, QueueKept, AInv, Singly, Queued
<1>5. Spared \in Seq(Entry) /\ Distinct(Spared) /\ Elements(Spared) \subseteq Elements(mqueue)
  <2>1. CASE Len(mqueue) = QueueLen
    <3>1. mqueue # <<>>
      BY <2>1, MlinkHttpdAssumption DEF MlinkHttpdAssumption
    <3>2. QED BY <1>4, <2>1, <3>1, TailEntries, TailDistinct DEF Spared
  <2>2. CASE Len(mqueue) # QueueLen
    BY <1>4, <2>2 DEF Spared
  <2>3. QED BY <2>1, <2>2
<1>6. Distinct(mqueue') /\ Elements(mqueue') \subseteq Elements(mqueue) \cup {r}
  BY <1>1, <1>3, <1>4, <1>5, AppendDistinct
<1> HIDE DEF r
<1>7. Singly'
  <2>1. UNCHANGED <<asked, mesh, InHand, ToWrite, Out>> /\ (Distinct(mqueue))' = Distinct(mqueue')
        /\ Queued' \subseteq Queued \cup {r}
    BY <1>1, <1>6 DEF notAnswers, Queued, InHand, ToWrite, Out, Distinct
  <2>2. writer' = writer
    BY <1>1 DEF notAnswers
  <2>3. QED BY <1>2, <1>6, <2>1, <2>2 DEF AInv, Singly
<1>8. QED BY <1>1, <1>7, QueueStepKeeps

(* A connection closes.                                                    *)
LEMMA HangingUpKeeps ==
  ASSUME AInv, NEW F, Close(F), server' = server \/ F = Fds,
         UNCHANGED <<asked, mesh, writer, timeout, conns, reply, crossed, mqueue, http>>
  PROVE  AInv'
<1>1. /\ sockets' \in [Fds -> Requests \cup {NoRequest}]
      /\ \A f \in Fds : sockets'[f] \in {sockets[f], NoRequest}
      /\ closed' \in SUBSET Requests /\ closed \subseteq closed'
      /\ \A r \in Requests : Gone(r) => (Gone(r))'
      /\ \A r \in Requests : (Gone(r))' /\ ~Gone(r) => r \in closed' \/ AllTold(r)
  BY CloseCounts DEF AInv
<1>2. TableTyped' /\ WriterTyped' /\ TimerTyped' /\ NoNews
  BY <1>1 DEF AInv, TableTyped, WriterTyped, TimerTyped, NoNews
<1>3. SocketsShut'
  BY <1>1 DEF AInv, SocketsShut, Close
<1>4. Singly' /\ Asked'
  BY <1>2, SinglyStays DEF AInv, Asked, InHand
<1>5. LeftEarly' /\ Right'
  BY <1>1, <1>2, ClosingKeeps DEF AInv
<1>6. Own'
  <2>1. ToWrite => writer.answer[1] \in Requests
    BY DEF AInv, WriterTyped, ToWrite, Resting, Answer
  <2>2. QED BY <1>1, <2>1 DEF AInv, Own, ToWrite
<1>7. QED BY <1>2, <1>3, <1>4, <1>5, <1>6 DEF AInv

(* The event loop starts and stops the server.                             *)
LEMMA LoopTableKeeps ==
  ASSUME AInv, UNCHANGED <<asked, http, writer, timeout, mesh, sockets, reply, closed>>,
         crossed' \in SUBSET Requests,
         Singly', SocketsShut',
         \/ conns' = conns
         \/ conns' \in [Slots -> Conn] /\ conns = Freed
         \/ conns' = Freed /\ ~server
  PROVE  AInv'
<1>1. TableTyped' /\ WriterTyped' /\ TimerTyped' /\ NoNews
  BY DEF AInv, TableTyped, WriterTyped, TimerTyped, NoNews
<1>2. Asked'
  BY DEF AInv, Asked, InHand
<1>3. LeftEarly' /\ Right'
  BY <1>1, ClosingKeeps DEF AInv, Gone
<1>4. Own'
  <2>1. ASSUME ToWrite, writer.slot # 0
        PROVE  writer.answer[1] \in Requests /\ asked[writer.answer[1]].fd # NoFd
    BY <2>1 DEF AInv, WriterTyped, ToWrite, Resting, Answer, Singly, InHand
  <2>2. ~server => \A r \in Requests : asked[r].fd # NoFd => Gone(r)
    BY Numbers DEF AInv, TableTyped, SocketsShut, Gone
  <2>3. \A r \in Requests : (Gone(r))' <=> Gone(r)
    BY DEF Gone
  <2>4. ToWrite' <=> ToWrite
    BY DEF ToWrite
  <2>5. CASE conns' = conns
    BY <2>1, <2>3, <2>4, <2>5 DEF AInv, Own
  <2>6. CASE conns = Freed
    BY <2>1, <2>3, <2>4, <2>6 DEF AInv, Own
  <2>7. CASE ~server
    BY <2>1, <2>2, <2>3, <2>4, <2>7 DEF Own
  <2>8. QED BY <2>5, <2>6, <2>7
<1>5. QED BY <1>1, <1>2, <1>3, <1>4 DEF AInv

LEMMA LoopKeeps ==
  ASSUME HInv, AInv, StartHttpd \/ CreateTasks \/ SkipHttpd \/ StopHttpd \/ ExitHttpd \/ FreeHttpd
  PROVE  AInv'
<1>1. CASE StartHttpd
  <2>1. /\ UNCHANGED <<asked, http, writer, timeout, mesh, sockets, reply, closed, crossed>>
        /\ mqueue' = OpenedQueue /\ server' = TRUE
        /\ conns' = IF conns = Freed THEN [i \in Slots |-> Unused] ELSE conns
    BY <1>1 DEF StartHttpd, Serving, HttpdStart, notLoop
  <2>2. [i \in Slots |-> Unused] \in [Slots -> Conn]
    BY DEF Unused, Conn, Blank
  <2>3. (Distinct(mqueue))' /\ Queued' \subseteq Queued
    BY <2>1, EmptyQueued DEF OpenedQueue, AInv, Singly, Queued
  <2>4. Singly'
    BY <2>1, <2>3, MqueueChanges DEF AInv
  <2>5. QED BY <2>1, <2>2, <2>4, LoopTableKeeps DEF AInv, TableTyped, SocketsShut
<1>2. CASE CreateTasks \/ SkipHttpd
  <2>1. UNCHANGED <<notAnswers, server, mqueue, http>>
    BY <1>2 DEF CreateTasks, SkipHttpd, httpdVars, tableVars, notAnswers
  <2>2. Singly'
    BY <2>1, MqueueChanges DEF AInv, Singly, Distinct, Queued, notAnswers
  <2>3. QED BY <2>1, <2>2, QueueStepKeeps
<1>3. CASE StopHttpd
  <2>1. Close(Fds) /\ UNCHANGED <<asked, mesh, writer, timeout, conns, reply, crossed, mqueue, http>>
    BY <1>3 DEF StopHttpd, Serving, HttpdStop, notLoop
  <2>2. QED BY <2>1, HangingUpKeeps
<1>4. CASE ExitHttpd
  <2>1. /\ UNCHANGED <<notAnswers, server, http>> /\ mqueue # NoQueue
        /\ mqueue' = IF Len(mqueue) < QueueLen THEN Append(mqueue, Exit) ELSE mqueue
    BY <1>4 DEF ExitHttpd, Serving, HttpdExit, notLoop, tableVars, notAnswers
  <2>2. mqueue \in Seq(Entry) /\ Exit \in Entry /\ Exit \notin Requests /\ Distinct(mqueue)
    BY <2>1, MlinkHttpdAssumption
       DEF MlinkHttpdAssumption, HInv, QueueKept, AInv, Singly, Entry, Exit
  <2>3. Distinct(mqueue') /\ Elements(mqueue') \subseteq Elements(mqueue) \cup {Exit}
    BY <2>1, <2>2, AppendDistinct
  <2>4. (Distinct(mqueue))' /\ Queued' \subseteq Queued
    BY <2>2, <2>3 DEF Queued, Distinct
  <2>5. Singly'
    BY <2>1, <2>4, MqueueChanges DEF AInv, notAnswers
  <2>6. QED BY <2>1, <2>5, QueueStepKeeps
<1>5. CASE FreeHttpd
  <2>1. /\ UNCHANGED <<asked, http, writer, timeout, mesh, sockets, reply, closed, server, mqueue>>
        /\ conns' = Freed /\ handler = "free"
        /\ crossed' = crossed \cup
             ({conns[i].req : i \in {writer.slot, timeout.slot} \cap DOMAIN conns}
                \ {NoRequest})
    BY <1>5 DEF FreeHttpd, Serving, Handles, HttpdFree, notLoop
  <2>2. ~server
    BY <2>1 DEF HInv, HandlerPhase
  <2>3. crossed' \in SUBSET Requests
    <3>1. CASE conns = Freed
      <4>1. DOMAIN conns = {}
        BY <3>1 DEF Freed
      <4>2. crossed' = crossed
        BY <2>1, <4>1
      <4>3. QED BY <4>2 DEF AInv, TableTyped
    <3>2. CASE conns # Freed
      <4>1. conns \in [Slots -> Conn] /\ DOMAIN conns = Slots
        BY <3>2 DEF AInv, TableTyped
      <4>2. QED BY <2>1, <4>1, Entries DEF AInv, TableTyped
    <3>3. QED BY <3>1, <3>2
  <2>4. Singly'
    BY <2>1, MqueueChanges DEF AInv, Singly, Distinct, Queued
  <2>5. QED BY <2>1, <2>2, <2>3, <2>4, LoopTableKeeps DEF AInv, SocketsShut
<1>6. QED BY <1>1, <1>2, <1>3, <1>4, <1>5

LEMMA PlanStays ==
  PlanTyped /\ [Next]_vars => PlanTyped'
<1> SUFFICES ASSUME PlanTyped, [Next]_vars PROVE PlanTyped'
  OBVIOUS
<1>1. ASSUME NEW field, field # "dest", Spend(field) PROVE PlanTyped'
  BY <1>1 DEF Spend, PlanTyped
<1>2. CASE plan' = plan
  BY <1>2 DEF PlanTyped
<1>3. CASE EventPosted
  BY <1>1, <1>3, MlinkRootAssumption DEF EventPosted, MlinkRootAssumption
<1>4. CASE Client
  BY <1>1, <1>2, <1>4 DEF Client
<1>5. CASE root_write_task
  BY <1>1, <1>2, <1>5 DEF root_write_task, WriteNotice
<1>6. CASE Handler
  BY <1>1, <1>2, <1>6 DEF Handler, EventTaken, HandleTable, StartNotice, StartFails, Announce,
     StartHttpd, CreateTasks, StopNotice, AwaitNotice, SkipHttpd, StopHttpd, ExitHttpd, FreeHttpd,
     Noticing, Serving, Handles
<1>7. CASE EventGoesOn \/ EventQueued \/ Server \/ root_read_task \/ Timer
           \/ mlink_notice_udp_task \/ UNCHANGED vars
  BY <1>2, <1>7 DEF EventGoesOn, EventQueued, Server, root_read_task, Timer, mlink_notice_udp_task,
     vars, rootVars
<1>8. QED BY <1>3, <1>4, <1>5, <1>6, <1>7 DEF Next

LEMMA AnswersStart == RootInit => HInv /\ PlanTyped /\ AInv
<1> SUFFICES ASSUME RootInit PROVE PlanTyped /\ AInv
  BY ServicesStart
<1>1. PlanTyped
  BY MlinkRootAssumption DEF RootInit, MlinkRootAssumption, PlanTyped
<1>2. HttpdInit
  BY DEF RootInit
<1>3. TableTyped /\ WriterTyped /\ TimerTyped /\ SocketsShut
  BY <1>2 DEF HttpdInit, TableTyped, WriterTyped, TimerTyped, SocketsShut
<1>4. \A r \in Requests : Told(reply[r]) = {}
  BY <1>2 DEF HttpdInit, Told, Elements
<1>5. Asking = {} /\ Queued = {} /\ InHand = {} /\ Out = {} /\ ~ToWrite /\ Distinct(mqueue)
  BY <1>2, <1>4, NoneQueued
     DEF HttpdInit, NotAsking, Asking, Queued, InHand, Out, ToWrite, Resting, Answer
<1>6. Singly /\ Asked /\ Own
  BY <1>2, <1>5 DEF HttpdInit, Singly, Asked, Own
<1>7. LeftEarly /\ Right
  BY <1>2, <1>4 DEF HttpdInit, LeftEarly, Right, Gone
<1>8. QED BY <1>1, <1>3, <1>6, <1>7 DEF AInv

LEMMA AnswersStep == HInv /\ PlanTyped /\ AInv /\ Half /\ [Next]_vars => AInv'
<1> SUFFICES ASSUME HInv, PlanTyped, AInv, Half, [Next]_vars PROVE AInv'
  OBVIOUS
<1>1. CASE UNCHANGED httpdVars
  <2>1. UNCHANGED <<notAnswers, server, mqueue, http>>
    BY <1>1 DEF httpdVars, tableVars, notAnswers
  <2>2. Singly'
    BY <2>1, MqueueChanges DEF AInv, Singly, Distinct, Queued, notAnswers
  <2>3. QED BY <2>1, <2>2, QueueStepKeeps
<1>2. CASE EventPosted \/ EventGoesOn \/ EventQueued \/ mlink_notice_udp_task
           \/ UNCHANGED vars
  BY <1>1, <1>2 DEF EventPosted, EventGoesOn, EventQueued, mlink_notice_udp_task,
     notNotice, vars
<1>3. CASE Handler
  <2>1. CASE EventTaken \/ HandleTable \/ StartNotice \/ StartFails \/ Announce
             \/ StopNotice \/ AwaitNotice
    BY <1>1, <2>1 DEF EventTaken, HandleTable, StartNotice, StartFails, Announce, StopNotice,
       AwaitNotice, Noticing
  <2>2. QED BY <1>3, <2>1, LoopKeeps DEF Handler
<1>4. CASE Client
  <2>1. ASSUME NEW f \in Fds, HangUp(f) PROVE AInv'
    <3>1. Close({f}) /\ server' = server
          /\ UNCHANGED <<asked, mesh, writer, timeout, conns, reply, crossed, mqueue, http>>
      BY <2>1 DEF HangUp, notHttp
    <3>2. QED BY <3>1, HangingUpKeeps
  <2>2. QED BY <1>4, <2>1, ArrivingKeeps DEF Client
<1>5. CASE Server
  BY <1>5, AddingKeeps, TimingKeeps, PuttingKeeps DEF Server
<1>6. CASE root_read_task
  BY <1>6, ReadingKeeps, ForwardingKeeps DEF root_read_task
<1>7. CASE root_write_task
  <2>1. CASE WriteNotice /\ UNCHANGED notNotice
    BY <1>1, <2>1 DEF notNotice
  <2>2. CASE WriteAnswer
    BY <2>2, CallingKeeps, FindingKeeps, WritingKeeps DEF WriteAnswer
  <2>3. QED BY <1>7, <2>1, <2>2 DEF root_write_task
<1>8. CASE Timer
  BY <1>8, FiringKeeps, ClosingTimerKeeps DEF Timer
<1>9. QED BY <1>2, <1>3, <1>4, <1>5, <1>6, <1>7, <1>8 DEF Next

LEMMA ToldRight == TableTyped /\ Right => AnswersRight
<1> SUFFICES ASSUME TableTyped, Right, NEW r \in Requests, NEW a \in Answered(r), a[1] # r
             PROVE  a[1] \in closed
  BY DEF AnswersRight
<1>1. a \in Elements(reply[r]) /\ Len(a) = 2
  BY DEF Answered, Answers, Elements
<1>2. a \in Piece
  BY <1>1 DEF TableTyped, Elements
<1>3. a \in Answer
  <2>1. \A p \in {<<"header">>, <<"size">>, <<"footer">>, <<"400">>} : Len(p) = 1
    OBVIOUS
  <2>2. QED BY <1>1, <1>2, <2>1 DEF Piece
<1>4. QED BY <1>1, <1>3 DEF Right, Told

(***************************************************************************)
(* The types of the rest, and the length of the queue of requests.         *)
(***************************************************************************)
SwitchTyped ==
  /\ stopped \in BOOLEAN /\ sem \in {"none", "empty", "given"}
  /\ task \in {"none", "create", "loop", "merge", "air", "dead"}
  /\ aired \in SUBSET Notice /\ dropped \in SUBSET Notice

QueueTyped ==
  /\ server \in BOOLEAN /\ reader \in {"off", "call", "wait", "drain"}
  /\ mqueue # NoQueue => Len(mqueue) <= QueueLen

(* What a full or a deleted queue of notices drops are notices.            *)
LEMMA DroppedNotices ==
  ASSUME NInv
  PROVE  /\ Elements(notices) \ Elements(NoNotices) \subseteq Notice
         /\ Displaced \subseteq Notice
<1>1. Elements(notices) \ Elements(NoNotices) \subseteq Notice
  BY DEF NInv, NoticesTyped, Elements
<1>2. Elements(NoNotices) \subseteq Elements(NoNotices \o MakeRoom)
  BY NoneElements, RoomMade, NoneBefore DEF NInv
<1>3. QED BY <1>1, <1>2 DEF Displaced

LEMMA SwitchStays ==
  ASSUME NInv, SwitchTyped, [Next]_vars
  PROVE  SwitchTyped'
<1>1. CASE UNCHANGED noticeVars
  BY <1>1 DEF noticeVars, SwitchTyped
<1>2. CASE NoticeHttp \/ NoticeQueue \/ \E n : NoticeCall(n)
  <2>1. /\ UNCHANGED <<stopped, sem, task, aired>>
        /\ dropped' \in {dropped, dropped \cup held, dropped \cup Displaced}
    BY <1>2 DEF NoticeHttp, NoticeQueue, NoticeCall, notWrite
  <2>2. QED BY <2>1, DroppedNotices DEF NInv, NoticesTyped, SwitchTyped
<1>3. CASE NoticeStart
  BY <1>3 DEF NoticeStart, notSwitch, SwitchTyped
<1>4. CASE NoticeStop
  BY <1>4 DEF NoticeStop, notSwitch, SwitchTyped
<1>5. CASE NoticeDelete
  BY <1>5, DroppedNotices DEF NoticeDelete, notSwitch, SwitchTyped
<1>6. CASE NoticeBind \/ NoticeTake \/ NoticeAir \/ NoticeEnd \/ NoticeClose
  BY <1>6 DEF NoticeBind, NoticeTake, NoticeAir, NoticeEnd, NoticeClose, Given, notTask,
     NInv, NoticesTyped, SwitchTyped
<1>7. CASE NoticeMerge
  <2>1. notices \in Seq(Notice) /\ notices # <<>>
    BY <1>7 DEF NoticeMerge, NInv, NoticesTyped
  <2>2. Head(notices) \in Notice
    BY <2>1
  <2>3. /\ UNCHANGED <<stopped, sem, aired>> /\ task' \in {"merge", "air"}
        /\ dropped' \in {dropped, dropped \cup {Head(notices)}}
    BY <1>7 DEF NoticeMerge, notTask
  <2>4. QED BY <2>2, <2>3 DEF SwitchTyped
<1>8. CASE Handler
  BY <1>1, <1>2, <1>3, <1>4, <1>5, <1>8 DEF Handler, EventTaken, HandleTable, StartNotice,
     StartFails, NoticeFails, Announce, StartHttpd, CreateTasks, StopNotice, AwaitNotice,
     SkipHttpd, StopHttpd, ExitHttpd, FreeHttpd, Noticing, Serving
<1>9. CASE EventPosted \/ EventGoesOn \/ EventQueued \/ Client \/ Server \/ root_read_task
           \/ Timer \/ UNCHANGED vars
  BY <1>1, <1>9 DEF EventPosted, EventGoesOn, EventQueued, Client, Server, root_read_task,
     Timer, notHttpd, vars
<1>10. CASE root_write_task \/ mlink_notice_udp_task
  BY <1>1, <1>2, <1>6, <1>7, <1>10 DEF root_write_task, WriteNotice, notHttpd,
     mlink_notice_udp_task
<1>11. QED BY <1>8, <1>9, <1>10 DEF Next

LEMMA QueueStays ==
  ASSUME HInv, QueueTyped, [Next]_vars
  PROVE  QueueTyped'
<1>0. mqueue # NoQueue => mqueue \in Seq(Entry)
  BY DEF HInv, QueueKept
<1>1. CASE UNCHANGED <<server, reader, mqueue>>
  BY <1>1 DEF QueueTyped
<1>2. CASE Handler
  <2>1. CASE EventTaken \/ HandleTable \/ StartNotice \/ StartFails \/ Announce
             \/ StopNotice \/ AwaitNotice \/ SkipHttpd \/ FreeHttpd
    BY <1>1, <2>1 DEF EventTaken, HandleTable, StartNotice, StartFails, Announce, StopNotice,
       AwaitNotice, Noticing, SkipHttpd, FreeHttpd, HttpdFree, notLoop, httpdVars
  <2>2. CASE StartHttpd
    <3>1. server' = TRUE /\ reader' = reader
          /\ mqueue' = IF mqueue = NoQueue THEN <<>> ELSE mqueue
      BY <2>2 DEF StartHttpd, HttpdStart, OpenedQueue, notLoop
    <3>2. Len(<<>>) <= QueueLen
      BY MlinkHttpdAssumption DEF MlinkHttpdAssumption
    <3>3. QED BY <3>1, <3>2 DEF QueueTyped
  <2>3. CASE CreateTasks \/ StopHttpd
    BY <2>3 DEF CreateTasks, StopHttpd, HttpdStop, notLoop, QueueTyped
  <2>4. CASE ExitHttpd
    <3>1. /\ UNCHANGED <<server, reader>> /\ mqueue # NoQueue
          /\ mqueue' = IF Len(mqueue) < QueueLen THEN Append(mqueue, Exit) ELSE mqueue
      BY <2>4 DEF ExitHttpd, HttpdExit, notLoop
    <3>2. Len(Append(mqueue, Exit)) = Len(mqueue) + 1 /\ Len(mqueue) \in Nat
      BY <1>0, <3>1
    <3>3. QED BY <3>1, <3>2, MlinkHttpdAssumption DEF MlinkHttpdAssumption, QueueTyped
  <2>5. QED BY <1>2, <2>1, <2>2, <2>3, <2>4 DEF Handler
<1>3. CASE Server
  <2>1. CASE AddConnection \/ AddTimer
    BY <1>1, <2>1 DEF AddConnection, AddTimer, notHttp
  <2>2. CASE PutRequest
    <3>1. /\ UNCHANGED <<server, reader>> /\ mqueue # NoQueue
          /\ mqueue' = Append(Spared, http.req)
      BY <2>2 DEF PutRequest, notHttp
    <3>2. mqueue \in Seq(Entry) /\ Len(mqueue) <= QueueLen /\ Len(mqueue) \in Nat
      BY <1>0, <3>1 DEF QueueTyped
    <3>3. Spared \in Seq(Entry) /\ Len(Spared) < QueueLen
      <4>1. CASE Len(mqueue) = QueueLen
        <5>1. mqueue # <<>>
          BY <4>1, MlinkHttpdAssumption DEF MlinkHttpdAssumption
        <5>2. QED BY <3>2, <4>1, <5>1 DEF Spared
      <4>2. CASE Len(mqueue) # QueueLen
        BY <3>2, <4>2, MlinkHttpdAssumption DEF Spared, MlinkHttpdAssumption
      <4>3. QED BY <4>1, <4>2
    <3>4. Len(mqueue') = Len(Spared) + 1 /\ Len(Spared) \in Nat
      BY <3>1, <3>3
    <3>5. QED BY <3>1, <3>3, <3>4, MlinkHttpdAssumption DEF MlinkHttpdAssumption, QueueTyped
  <2>3. QED BY <1>3, <2>1, <2>2 DEF Server
<1>4. CASE root_read_task
  <2>1. CASE ReadCall
    <3>1. Len(<<>>) <= QueueLen
      BY MlinkHttpdAssumption DEF MlinkHttpdAssumption
    <3>2. QED BY <2>1, <3>1 DEF ReadCall, notReader, QueueTyped
  <2>2. CASE ReadExit \/ Forward
    <3>1. /\ server' = server /\ reader' \in {"drain", "call"} /\ reader = "wait"
          /\ mqueue # <<>> /\ mqueue' = Tail(mqueue)
      BY <2>2 DEF ReadExit, Forward, notReader
    <3>2. mqueue \in Seq(Entry) /\ Len(mqueue) <= QueueLen
      BY <3>1 DEF HInv, QueueKept, QueueTyped
    <3>3. Len(mqueue') = Len(mqueue) - 1 /\ Len(mqueue) \in Nat
      BY <3>1, <3>2
    <3>4. QED BY <3>1, <3>2, <3>3, MlinkHttpdAssumption DEF MlinkHttpdAssumption, QueueTyped
  <2>3. CASE DeleteQueue
    BY <2>3 DEF DeleteQueue, notReader, QueueTyped
  <2>4. QED BY <1>4, <2>1, <2>2, <2>3 DEF root_read_task
<1>5. CASE EventPosted \/ EventGoesOn \/ EventQueued \/ mlink_notice_udp_task
           \/ UNCHANGED vars
  BY <1>1, <1>5 DEF EventPosted, EventGoesOn, EventQueued, mlink_notice_udp_task, notNotice,
     httpdVars, vars
<1>6. CASE Client \/ Timer
  BY <1>1, <1>6 DEF Client, Arrive, HangUp, notHttp, Timer, TimerFires, TimerCloses, notTimer
<1>7. CASE root_write_task
  BY <1>1, <1>7 DEF root_write_task, WriteAnswer, WriteCall, WriteFind, WriteHeader, WriteSize,
     WriteData, WriteCount, WriteRemove, At, notWriter, notNotice, httpdVars
<1>8. QED BY <1>2, <1>3, <1>4, <1>5, <1>6, <1>7 DEF Next

-----------------------------------------------------------------------------
(* The entries no timer will clear.                                        *)
Watched(i) == conns # Freed /\ conns[i].timer
Guarded(i) == Watched(i) \/ Adding(i)
Marking(i) == writer.pc \in {"header", "mark"} /\ writer.slot = i
Flagged(i) == conns # Freed /\ conns[i].flag # "none"
Holds(i, r) == conns # Freed /\ conns[i].req = r

(* A slot is lost, or will be when the writer sets the flag of an entry    *)
(* that was cleared; each time a crossed request has no entry with a timer.*)
Loose == {i \in Slots : ~Guarded(i) /\ (Marking(i) \/ Flagged(i))}
Lost  == {r \in crossed : \A i \in Slots : ~(Holds(i, r) /\ Guarded(i))}
Count == IsFiniteSet(crossed) /\ Cardinality(Loose) <= Cardinality(Lost)

(* A request has one entry, and none before it is added.                   *)
Alone == \A r \in Requests : \A i, j \in Slots : Holds(i, r) /\ Holds(j, r) => i = j
Unadded(r) == asked[r].fd = NoFd \/ (http.pc = "add" /\ http.req = r)
Fresh == \A r \in Requests : Unadded(r) => r \notin crossed /\ \A i \in Slots : ~Holds(i, r)

(* A request whose entry gets no timer is crossed.                         *)
Timed == \A r \in Requests : \A i \in Slots : Holds(i, r) => Guarded(i) \/ r \in crossed

(* The timer and the writer have the same entry: its request is crossed.   *)
Overtaken ==
  timeout.pc = "send" /\ Marking(timeout.slot) /\ Watched(timeout.slot)
    => conns[timeout.slot].req \in crossed

HttpTyped ==
  http \in [pc : {"idle", "add", "timer", "put"}, slot : {0} \cup Slots,
            req : Requests \cup {NoRequest}]

WInv == Count /\ Alone /\ Fresh /\ Half /\ Timed /\ Overtaken

LEMMA FewSlots == IsFiniteSet(Slots) /\ \A S \in SUBSET Slots : IsFiniteSet(S)
<1>1. IsFiniteSet(Slots)
  BY FS_Interval, MlinkHttpdAssumption DEF MlinkHttpdAssumption, Slots
<1>2. QED BY <1>1, FS_Subset

LEMMA CountKeeps ==
  ASSUME Count, IsFiniteSet(crossed'), Loose' \subseteq Loose, Lost \subseteq Lost'
  PROVE  Count'
<1>1. IsFiniteSet(Loose) /\ IsFiniteSet(Lost')
  BY FewSlots, FS_Subset DEF Loose, Lost
<1>2. /\ Cardinality(Loose') <= Cardinality(Loose) /\ Cardinality(Lost) <= Cardinality(Lost')
      /\ Cardinality(Loose) \in Nat /\ Cardinality(Lost') \in Nat
      /\ Cardinality(Loose') \in Nat /\ Cardinality(Lost) \in Nat
  BY <1>1, FS_Subset, FS_CardinalityType
<1>3. QED BY <1>2 DEF Count

(* ... or an entry has lost its timer, and its request with it.            *)
LEMMA LooseGains ==
  ASSUME Count, IsFiniteSet(crossed'), NEW w, NEW q, q \notin Lost,
         Loose' \subseteq Loose \cup {w}, Lost \cup {q} \subseteq Lost'
  PROVE  Count'
<1>1. IsFiniteSet(Loose) /\ IsFiniteSet(Lost) /\ IsFiniteSet(Lost')
  BY FewSlots, FS_Subset DEF Loose, Lost, Count
<1>2. /\ IsFiniteSet(Lost \cup {q}) /\ Cardinality(Lost \cup {q}) = Cardinality(Lost) + 1
      /\ IsFiniteSet(Loose \cup {w}) /\ Cardinality(Loose \cup {w}) \in
              {Cardinality(Loose), Cardinality(Loose) + 1}
  BY <1>1, FS_AddElement
<1>3. /\ Cardinality(Loose') <= Cardinality(Loose \cup {w})
      /\ Cardinality(Lost \cup {q}) <= Cardinality(Lost')
      /\ IsFiniteSet(Loose')
  BY <1>1, <1>2, FS_Subset
<1>4. /\ Cardinality(Loose) \in Nat /\ Cardinality(Lost') \in Nat
      /\ Cardinality(Loose') \in Nat /\ Cardinality(Lost) \in Nat
  BY <1>1, <1>3, FS_CardinalityType
<1>5. Cardinality(Loose') <= Cardinality(Lost')
  BY <1>2, <1>3, <1>4 DEF Count
<1>6. QED BY <1>5 DEF Count

(* A step that gives no entry and no request a new holder, and takes no    *)
(* timer from a request that holds an entry.                               *)
Steady(i) ==
  /\ \A r \in Requests : (Holds(i, r))' => Holds(i, r) /\ ((Guarded(i))' <=> Guarded(i))
  /\ conns # Freed /\ ~conns[i].timer
       => conns' # Freed /\ ~conns'[i].timer /\ conns'[i].req = conns[i].req
  /\ i \in Loose' => i \in Loose
  /\ (Marking(i))' /\ (Watched(i))'
       => Marking(i) /\ Watched(i) /\ conns'[i].req = conns[i].req

HttpStays == http' = http \/ (http.pc # "timer" /\ http'.pc # "timer")

LEMMA SteadyKeeps ==
  ASSUME WInv, TableTyped, TimerTyped, UNCHANGED <<timeout, crossed>>, HttpStays,
         \A r \in Requests : (Unadded(r))' => Unadded(r),
         \A i \in Slots : Steady(i)
  PROVE  WInv'
<1>1. Loose' \subseteq Loose
  BY DEF Loose, Steady
<1>2. \A i \in Slots : \A r \in Requests :
        (Holds(i, r))' => Holds(i, r) /\ ((Guarded(i))' <=> Guarded(i))
  BY DEF Steady
<1>3. Lost \subseteq Lost'
  BY <1>2 DEF Lost, TableTyped
<1>4. Count'
  BY <1>1, <1>3, CountKeeps DEF WInv, Count
<1>5. Alone' /\ Fresh'
  BY <1>2 DEF WInv, Alone, Fresh
<1>6. Overtaken'
  <2>1. timeout.pc = "send" => timeout.slot \in Slots
    BY DEF TimerTyped, Resting
  <2>2. QED BY <2>1 DEF WInv, Overtaken, Steady
<1>7. Timed'
  BY <1>2 DEF WInv, Timed
<1>8. Half'
  <2>1. CASE http' = http
    BY <2>1 DEF WInv, Half, Steady
  <2>2. CASE http'.pc # "timer"
    BY <2>2 DEF Half
  <2>3. QED BY <2>1, <2>2 DEF HttpStays
<1>9. QED BY <1>4, <1>5, <1>6, <1>7, <1>8 DEF WInv

LEMMA TableSteady ==
  ASSUME UNCHANGED <<writer, conns>>, HttpStays
  PROVE  \A i \in Slots : Steady(i)
<1>1. \A i : (Adding(i))' <=> Adding(i)
  BY DEF HttpStays, Adding
<1>2. \A i : /\ (Guarded(i))' <=> Guarded(i)
             /\ (Marking(i))' <=> Marking(i)
             /\ (Watched(i))' <=> Watched(i)
             /\ (Flagged(i))' <=> Flagged(i)
  BY <1>1 DEF Guarded, Marking, Watched, Flagged
<1>3. QED BY <1>2 DEF Steady, Holds, Loose

(* What the writer does to an entry.                                       *)
Fades(t, i) ==
  \/ conns'[i] = Unused /\ t[i].timer
  \/ conns'[i].timer = t[i].timer /\ conns'[i].req = t[i].req /\ conns'[i].flag = t[i].flag

LEMMA ClearedFades ==
  ASSUME NEW t \in [Slots -> Conn], NEW S, conns' = Cleared(t, S)
  PROVE  \A i \in Slots : Fades(t, i)
BY DEF Cleared, Fades

LEMMA PieceFades ==
  ASSUME NEW t \in [Slots -> Conn], NEW p, NEW pc, pc \notin {"header"}, Write(t, p, pc)
  PROVE  /\ \A i \in Slots : Fades(t, i)
         /\ \/ writer' = Resting
            \/ writer' = [writer EXCEPT !.pc = pc] /\ conns' = t
<1>1. CASE Sent(t, t[writer.slot].fd, p) /\ Goto(pc)
  BY <1>1 DEF Sent, Goto, Fades
<1>2. CASE NotSent(t, t[writer.slot].fd) /\ writer' = Resting
  BY <1>2, ClearedFades DEF NotSent
<1>3. QED BY <1>1, <1>2 DEF Write

LEMMA MarkedEntry ==
  ASSUME NEW t \in [Slots -> Conn], NEW w \in Slots, NEW i \in Slots
  PROVE  LET m == [t EXCEPT ![w].flag = "body"]
         IN  m[i].timer = t[i].timer /\ m[i].req = t[i].req /\ (w = i \/ m[i] = t[i])
<1>1. t[w] \in Filled \/ t[w] \in Blank
  BY DEF Conn
<1>2. LET e == [t[w] EXCEPT !.flag = "body"]
      IN  e.timer = t[w].timer /\ e.req = t[w].req
  BY <1>1 DEF Filled, Blank
<1>3. QED BY <1>2

LEMMA CountedEntry ==
  ASSUME NEW t \in [Slots -> Conn], NEW w \in Slots, NEW i \in Slots, NEW n
  PROVE  LET m == [t EXCEPT ![w].num = n]
         IN  m[i].timer = t[i].timer /\ m[i].req = t[i].req /\ m[i].flag = t[i].flag
<1>1. t[w] \in Filled \/ t[w] \in Blank
  BY DEF Conn
<1>2. LET e == [t[w] EXCEPT !.num = n]
      IN  e.timer = t[w].timer /\ e.req = t[w].req /\ e.flag = t[w].flag
  BY <1>1 DEF Filled, Blank
<1>3. QED BY <1>2

LEMMA WritingSteady ==
  ASSUME TableTyped, WriterTyped,
         WriteHeader \/ WriteSize \/ WriteData \/ WriteCount \/ WriteRemove
  PROVE  \A i \in Slots : Steady(i)
<1>1. /\ conns # Freed /\ conns \in [Slots -> Conn] /\ conns' \in [Slots -> Conn]
      /\ conns' # Freed
      /\ writer \in [pc : WriterSteps, slot : Slots, answer : Answer] /\ http' = http
  BY WriterDoes, Entries DEF notWrites
<1> SUFFICES ASSUME NEW i \in Slots PROVE Steady(i)
  OBVIOUS
<1>2. /\ \/ ~(Marking(i))'
         \/ writer.pc = "header" /\ Marking(i) /\ conns' = conns
      /\ \/ Fades(conns, i)
         \/ writer.pc = "mark" /\ writer.slot = i
            /\ conns'[i].timer = conns[i].timer /\ conns'[i].req = conns[i].req
  <2>1. /\ writer' = Resting => ~(Marking(i))'
        /\ \A pc : writer' = [writer EXCEPT !.pc = pc]
             => (Marking(i))' = (pc \in {"header", "mark"} /\ writer.slot = i)
    BY <1>1 DEF Resting, Marking
  <2>2. CASE WriteHeader
    <3>1. Write(conns, <<"header">>, "mark") /\ writer.pc = "header"
      BY <2>2 DEF WriteHeader, At
    <3>2. /\ \A j \in Slots : Fades(conns, j)
          /\ \/ writer' = Resting
             \/ writer' = [writer EXCEPT !.pc = "mark"] /\ conns' = conns
      BY <1>1, <3>1, PieceFades
    <3>3. QED BY <2>1, <3>1, <3>2 DEF Marking
  <2>3. CASE WriteSize
    <3>1. writer.pc \in {"size", "mark"}
      BY <2>3 DEF WriteSize, At
    <3>2. /\ Marked \in [Slots -> Conn]
          /\ Marked[i].timer = conns[i].timer /\ Marked[i].req = conns[i].req
          /\ \/ writer.pc = "mark" /\ writer.slot = i
             \/ Marked[i] = conns[i]
      <4>1. CASE writer.pc = "mark"
        <5>1. Marked = [conns EXCEPT ![writer.slot].flag = "body"] /\ writer.slot \in Slots
          BY <1>1, <4>1 DEF Marked
        <5>2. Marked \in [Slots -> Conn]
          BY <1>1, <5>1, FlagSet
        <5>3. /\ Marked[i].timer = conns[i].timer /\ Marked[i].req = conns[i].req
              /\ writer.slot = i \/ Marked[i] = conns[i]
          BY <1>1, <5>1, MarkedEntry
        <5>4. QED BY <4>1, <5>2, <5>3
      <4>2. CASE writer.pc # "mark"
        BY <1>1, <4>2 DEF Marked
      <4>3. QED BY <4>1, <4>2
    <3>3. CASE Write(Marked, <<"size">>, "data")
      <4>1. /\ \A j \in Slots : Fades(Marked, j)
            /\ writer' = Resting \/ writer' = [writer EXCEPT !.pc = "data"]
        BY <3>2, <3>3, PieceFades
      <4>2. ~(Marking(i))'
        BY <2>1, <4>1
      <4>3. QED BY <3>1, <3>2, <4>1, <4>2 DEF Fades
    <3>4. CASE Goto("data") /\ conns' = conns
      <4>1. writer' = [writer EXCEPT !.pc = "data"]
        BY <3>4 DEF Goto
      <4>2. (Marking(i))' = ("data" \in {"header", "mark"} /\ writer.slot = i)
        BY <2>1, <4>1, Zenon
      <4>3. Fades(conns, i)
        BY <3>4 DEF Fades
      <4>4. QED BY <4>2, <4>3
    <3>5. QED BY <2>3, <3>3, <3>4 DEF WriteSize
  <2>4. CASE WriteData
    <3>1. Write(conns, writer.answer, "count")
      BY <2>4 DEF WriteData
    <3>2. /\ \A j \in Slots : Fades(conns, j)
          /\ writer' = Resting \/ writer' = [writer EXCEPT !.pc = "count"]
      BY <1>1, <3>1, PieceFades
    <3>3. QED BY <2>1, <3>2
  <2>5. CASE WriteCount
    <3>1. PICK left \in Nat : left = Less(conns[writer.slot].num)
      <4>1. conns[writer.slot].num \in Nat
        BY <1>1, Entries
      <4>2. QED BY <4>1 DEF Less
    <3> DEFINE counted == [conns EXCEPT ![writer.slot].num = left]
    <3>2. /\ counted \in [Slots -> Conn]
          /\ counted[i].timer = conns[i].timer /\ counted[i].req = conns[i].req
          /\ counted[i].flag = conns[i].flag
      BY <1>1, NumberSet, CountedEntry
    <3>3. \/ conns' = counted /\ writer' = Resting
          \/ Write(counted, <<"footer">>, "remove")
          \/ conns' = Cleared(counted, {writer.slot}) /\ writer' = Resting
      BY <2>5, <3>1 DEF WriteCount, Slot
    <3> HIDE DEF counted
    <3>4. Fades(counted, i) /\ (writer' = Resting \/ writer' = [writer EXCEPT !.pc = "remove"])
      BY <3>2, <3>3, PieceFades, ClearedFades DEF Fades
    <3>5. Fades(conns, i)
      BY <3>2, <3>4 DEF Fades
    <3>6. QED BY <2>1, <3>4, <3>5
  <2>6. CASE WriteRemove
    BY <1>1, <2>1, <2>6, ClearedFades DEF WriteRemove
  <2>7. QED BY <2>2, <2>3, <2>4, <2>5, <2>6
<1>8. (Adding(i))' <=> Adding(i)
  BY <1>1 DEF Adding
<1>4. \A r \in Requests : (Holds(i, r))' => Holds(i, r) /\ ((Guarded(i))' <=> Guarded(i))
  BY <1>1, <1>2, <1>8, Numbers DEF Holds, Fades, Unused, Guarded, Watched
<1>5. i \in Loose' => i \in Loose
  BY <1>1, <1>2, <1>8 DEF Loose, Fades, Unused, Marking, Watched, Flagged, Guarded
<1>6. (Marking(i))' => Marking(i) /\ (Watched(i))' = Watched(i) /\ conns'[i].req = conns[i].req
  BY <1>1, <1>2 DEF Watched
<1>9. ~conns[i].timer => ~conns'[i].timer /\ conns'[i].req = conns[i].req
  BY <1>2 DEF Fades
<1>7. QED BY <1>1, <1>4, <1>5, <1>6, <1>9 DEF Steady

(* The other steps that leave the table or only clear it.                  *)
LEMMA CallingSteady ==
  ASSUME NEW a \in mesh, WriteCall(a)
  PROVE  \A i \in Slots : Steady(i)
<1>1. conns' = conns /\ http' = http /\ \A i : ~(Marking(i))'
  BY DEF WriteCall, tableVars, notWriter, Marking, Resting
<1>2. QED BY <1>1 DEF Steady, Holds, Loose, Guarded, Adding, Watched, Flagged

(* The writer and the timer meet.                                          *)
LEMMA CrossedGrows ==
  ASSUME WInv, crossed \subseteq Requests, NEW S, crossed' = crossed \cup S, IsFiniteSet(S),
         UNCHANGED <<asked, http>>, S \subseteq Requests,
         \A r \in S : \E i \in Slots : Holds(i, r),
         \A i \in Slots : (Guarded(i))' <=> Guarded(i),
         \A i \in Slots : \A r \in Requests : (Holds(i, r))' <=> Holds(i, r)
  PROVE  /\ IsFiniteSet(crossed') /\ Lost \subseteq Lost'
         /\ Alone' /\ Fresh' /\ Timed'
<1>1. IsFiniteSet(crossed')
  BY FS_Union DEF WInv, Count
<1>2. Lost \subseteq Lost'
  BY DEF Lost
<1>3. Alone' /\ Fresh' /\ Timed'
  BY DEF WInv, Alone, Fresh, Timed, Unadded
<1>4. QED BY <1>1, <1>2, <1>3

LEMMA FindingCounts ==
  ASSUME AInv, WInv, WriteFind
  PROVE  WInv'
<1> DEFINE F == FirstFound(conns, asked[writer.answer[1]].fd)
           S == {conns[i].req : i \in F \cap {timeout.slot}}
<1>1. /\ UNCHANGED <<asked, http, timeout, conns>>
      /\ writer.pc = "find" /\ conns # Freed
      /\ crossed' = crossed \cup S
      /\ writer' = IF F = {} THEN Resting
                   ELSE [writer EXCEPT !.slot = Least(F),
                           !.pc = IF conns[Least(F)].flag = "header" THEN "header" ELSE "size"]
  BY DEF WriteFind, notWriter
<1>2. conns \in [Slots -> Conn] /\ writer \in [pc : {"find"}, slot : {0}, answer : Answer]
  BY <1>1 DEF AInv, TableTyped, WriterTyped, Resting, WriterSteps
<1>3. asked[writer.answer[1]].fd # NoFd
  BY <1>1 DEF AInv, Singly, InHand
<1>4. F # {} => /\ Least(F) \in Slots /\ F = {Least(F)}
                /\ conns[Least(F)].flag # "none"
                /\ conns[Least(F)].req \in Requests
  BY <1>2, <1>3, FoundRequest
<1> DEFINE w == Least(F)
<1> HIDE DEF F, w
<1>5. ASSUME NEW i, (Marking(i))'
      PROVE  F # {} /\ i = w
  BY <1>1, <1>2, <1>5 DEF Marking, Resting, w
<1>6. S \subseteq {conns[timeout.slot].req} /\ (S # {} => F # {} /\ timeout.slot = w)
  BY <1>4 DEF w
<1>7. S \subseteq Requests /\ \A r \in S : \E i \in Slots : Holds(i, r)
  BY <1>1, <1>4, <1>6 DEF w, Holds
<1>8. \A i \in Slots : \A r \in Requests : (Holds(i, r))' <=> Holds(i, r)
  BY <1>1 DEF Holds
<1> HIDE DEF S
<1>9. IsFiniteSet(S)
  <2>1. S \in SUBSET {conns[timeout.slot].req} /\ IsFiniteSet({conns[timeout.slot].req})
    BY <1>6, FS_Singleton
  <2>2. QED BY <2>1, FS_Subset
<1>15. \A i \in Slots : (Guarded(i))' <=> Guarded(i)
  BY <1>1 DEF Guarded, Adding, Watched
<1>10. IsFiniteSet(crossed') /\ Lost \subseteq Lost' /\ Alone' /\ Fresh' /\ Timed'
  BY <1>1, <1>7, <1>8, <1>9, <1>15, CrossedGrows DEF AInv, TableTyped
<1>16. Half'
  BY <1>1 DEF WInv, Half
<1>11. Loose' \subseteq Loose
  BY <1>1, <1>4, <1>5, <1>15 DEF Loose, Flagged, w
<1>12. Count'
  BY <1>10, <1>11, CountKeeps DEF WInv
<1>13. Overtaken'
  BY <1>1, <1>4, <1>5 DEF Overtaken, S, w
<1>14. QED BY <1>10, <1>12, <1>13, <1>16 DEF WInv

LEMMA FiringCounts ==
  ASSUME AInv, WInv, NEW i \in Slots, TimerFires(i)
  PROVE  WInv'
<1> DEFINE S == IF writer.slot = i THEN {conns[i].req} ELSE {}
<1>1. /\ UNCHANGED <<asked, http, writer>>
      /\ conns # Freed /\ conns[i].timer /\ timeout'.slot = i
      /\ conns' = [conns EXCEPT ![i].flag = "data"]
      /\ crossed' = crossed \cup S
  BY DEF TimerFires, Expires, notTimer
<1>2. conns \in [Slots -> Conn] /\ conns[i].req \in Requests
  BY <1>1, Entries DEF AInv, TableTyped
<1>3. conns' # Freed
  <2>1. conns' \in [Slots -> Conn]
    BY <1>1, <1>2, FlagSet
  <2>2. QED BY <2>1, Entries
<1>4. /\ conns'[i].timer = conns[i].timer /\ conns'[i].req = conns[i].req
      /\ \A j \in Slots \ {i} : conns'[j] = conns[j]
  <2>1. conns[i] \in Filled
    BY <1>1, <1>2 DEF Conn, Blank
  <2>2. QED BY <1>1, <1>2, <2>1 DEF Filled
<1>5. \A j \in Slots : \A r \in Requests : (Holds(j, r))' <=> Holds(j, r)
  BY <1>1, <1>3, <1>4 DEF Holds
<1>6. IsFiniteSet(S) /\ S \subseteq Requests /\ \A r \in S : \E j \in Slots : Holds(j, r)
  BY <1>1, <1>2, FS_Singleton, FS_EmptySet DEF Holds
<1> HIDE DEF S
<1>12. \A j \in Slots : (Guarded(j))' <=> Guarded(j)
  BY <1>1, <1>3, <1>4 DEF Guarded, Adding, Watched
<1>7. IsFiniteSet(crossed') /\ Lost \subseteq Lost' /\ Alone' /\ Fresh' /\ Timed'
  BY <1>1, <1>5, <1>6, <1>12, CrossedGrows DEF AInv, TableTyped
<1>13. Half'
  BY <1>1, <1>3, <1>4 DEF WInv, Half
<1>8. Loose' \subseteq Loose
  BY <1>1, <1>3, <1>4, <1>12 DEF Loose, Guarded, Watched, Flagged, Marking
<1>9. Count'
  BY <1>7, <1>8, CountKeeps DEF WInv
<1>10. Overtaken'
  BY <1>1, <1>4 DEF Overtaken, Marking, S
<1>11. QED BY <1>7, <1>9, <1>10, <1>13 DEF WInv

(* The timer clears an entry: it is lost if the writer will set its flag,  *)
(* and then its request is crossed and has lost its entry.                 *)
LEMMA ClosingCounts ==
  ASSUME AInv, WInv, TimerCloses
  PROVE  WInv'
<1> DEFINE fd == conns[timeout.slot].fd
           F  == FirstFound(conns, fd)
<1>0. PICK w, z : w = timeout.slot /\ z = writer.slot
  OBVIOUS
<1>1. /\ UNCHANGED <<asked, http, writer>>
      /\ conns # Freed /\ timeout.pc = "send" /\ timeout' = Resting
      /\ \/ conns' = Cleared(conns, {w}) /\ crossed' = crossed
         \/ /\ fd # NoFd /\ conns' = Cleared(conns, F \cup {w})
            /\ crossed' = crossed \cup {conns[i].req : i \in F \cap {z}}
  BY <1>0 DEF TimerCloses, notTimer
<1>2. conns \in [Slots -> Conn] /\ w \in Slots
  BY <1>0, <1>1 DEF AInv, TableTyped, TimerTyped, Resting
<1>3. fd # NoFd => F \subseteq Slots /\ \A i \in F : conns[i].req \in Requests
  <2>1. CASE F = {}
    BY <2>1
  <2>2. CASE F # {} /\ fd # NoFd
    <3>1. PICK i \in Slots : F = {i} /\ conns[i].fd = fd
      BY <1>2, <2>2, FoundEntry
    <3>2. conns[i].req \in Requests
      BY <1>2, <2>2, <3>1, Entries
    <3>3. QED BY <3>1, <3>2
  <2>3. QED BY <2>1, <2>2
<1> HIDE DEF fd, F
<1> DEFINE Clears(W, S) ==
             /\ conns' = Cleared(conns, W) /\ crossed' = crossed \cup S
             /\ w \in W /\ W \subseteq Slots
             /\ S \subseteq {conns[z].req} /\ S \subseteq Requests
             /\ S # {} => z \in Slots
             /\ z \in W => z = w \/ conns[z].req \in S
<1>4. PICK W, S : Clears(W, S)
  <2>1. CASE conns' = Cleared(conns, {w}) /\ crossed' = crossed
    <3>1. Clears({w}, {})
      BY <1>2, <2>1
    <3> HIDE DEF Clears
    <3>2. QED BY <3>1
  <2>2. CASE /\ fd # NoFd /\ conns' = Cleared(conns, F \cup {w})
             /\ crossed' = crossed \cup {conns[i].req : i \in F \cap {z}}
    <3>1. Clears(F \cup {w}, {conns[i].req : i \in F \cap {z}})
      BY <1>2, <1>3, <2>2
    <3>2. QED BY <3>1
  <2>3. QED BY <1>1, <2>1, <2>2
<1>5. conns' \in [Slots -> Conn] /\ conns' # Freed
  BY <1>2, <1>4, Entries
<1>6. \A i \in Slots :
        \/ /\ i \in W /\ conns[i].timer /\ ~conns'[i].timer
           /\ conns'[i].req \notin Requests /\ conns'[i].flag = "none"
        \/ conns'[i] = conns[i] /\ ~(i \in W /\ conns[i].timer)
  BY <1>2, <1>4, Numbers DEF Cleared, Unused
<1>7. \A i \in Slots : \A r \in Requests :
        (Holds(i, r))' => Holds(i, r) /\ conns'[i] = conns[i]
  BY <1>1, <1>6 DEF Holds
<1>8. IsFiniteSet(crossed')
  <2>1. S \in SUBSET {conns[z].req} /\ IsFiniteSet({conns[z].req})
    BY <1>4, FS_Singleton
  <2>2. IsFiniteSet(S)
    BY <2>1, FS_Subset
  <2>3. QED BY <1>4, <2>2, FS_Union DEF WInv, Count
<1>9. \A r \in S : z \in Slots /\ Holds(z, r)
  BY <1>1, <1>4 DEF Holds
<1>10. Alone' /\ Fresh'
  <2>1. Alone'
    BY <1>7 DEF WInv, Alone
  <2>2. \A r \in Requests : (Unadded(r))' => Unadded(r)
    BY <1>1 DEF Unadded
  <2>3. Fresh'
    BY <1>4, <1>7, <1>9, <2>2 DEF WInv, Fresh
  <2>4. QED BY <2>1, <2>3
<1>11. Overtaken'
  BY <1>1 DEF Overtaken, Resting
<1>12. \A i \in Slots : /\ (Adding(i))' <=> Adding(i)
                        /\ (Marking(i))' <=> Marking(i)
                        /\ (Watched(i))' <=> conns'[i].timer
                        /\ Watched(i) <=> conns[i].timer
                        /\ (Flagged(i))' <=> conns'[i].flag # "none"
                        /\ Flagged(i) <=> conns[i].flag # "none"
  BY <1>1, <1>5 DEF Adding, Marking, Watched, Flagged
<1>13. \A i \in Slots : conns'[i] = conns[i] => ((Guarded(i))' <=> Guarded(i))
  BY <1>12 DEF Guarded
<1>14. Timed'
  BY <1>4, <1>7, <1>13 DEF WInv, Timed
<1>15. Half'
  <2>1. ASSUME http.pc = "timer"
        PROVE  /\ http.slot \in Slots /\ conns[http.slot].req = http.req
               /\ ~conns[http.slot].timer
    BY <2>1 DEF WInv, Half
  <2>2. http.pc = "timer" => conns'[http.slot] = conns[http.slot]
    BY <1>6, <2>1
  <2>3. timeout'.slot \notin Slots
    BY <1>1, Numbers DEF Resting
  <2>4. QED BY <1>1, <1>5, <2>1, <2>2, <2>3 DEF Half
<1>16. Lost \subseteq Lost'
  BY <1>4, <1>7, <1>13 DEF Lost, AInv, TableTyped
<1>17. CASE ~(z \in Slots /\ z \in W /\ Watched(z) /\ Marking(z))
  <2>1. Loose' \subseteq Loose
    BY <1>0, <1>6, <1>12, <1>17 DEF Loose, Guarded, Marking
  <2>2. Count'
    BY <1>8, <1>16, <2>1, CountKeeps DEF WInv
  <2>3. QED BY <1>10, <1>11, <1>14, <1>15, <2>2 DEF WInv
<1>18. CASE z \in Slots /\ z \in W /\ Watched(z) /\ Marking(z)
  <2>1. PICK q : q = conns[z].req
    OBVIOUS
  <2>2. q \in Requests /\ q \in crossed'
    <3>1. z = w => q \in crossed
      BY <1>0, <1>1, <1>18, <2>1 DEF WInv, Overtaken
    <3>2. QED BY <1>2, <1>4, <1>12, <1>18, <2>1, <3>1, Entries
  <2>3. Holds(z, q) /\ q \notin Lost
    BY <1>1, <1>18, <2>1 DEF Holds, Lost, Guarded
  <2>4. \A i \in Slots : ~(Holds(i, q))'
    <3>1. ~(Holds(z, q))'
      BY <1>6, <1>12, <1>18, <2>2 DEF Holds
    <3>2. QED BY <1>7, <1>18, <2>2, <2>3, <3>1 DEF WInv, Alone
  <2>5. Lost \cup {q} \subseteq Lost'
    <3>1. q \in Lost'
      BY <2>2, <2>4 DEF Lost
    <3>2. QED BY <1>16, <3>1
  <2>6. Loose' \subseteq Loose \cup {z}
    BY <1>0, <1>6, <1>12 DEF Loose, Guarded, Marking
  <2>7. Count'
    BY <1>8, <2>3, <2>5, <2>6, LooseGains DEF WInv
  <2>8. QED BY <1>10, <1>11, <1>14, <1>15, <2>7 DEF WInv
<1>19. QED BY <1>17, <1>18

(* A new entry is its server's until it has a timer, and its request is    *)
(* fresh.                                                                  *)
LEMMA AddingCounts ==
  ASSUME HInv, AInv, HttpTyped, WInv, AddConnection
  PROVE  WInv'
<1> DEFINE r     == http.req
           num   == Cardinality(asked[r].dest)
           free  == {i \in Slots : conns[i].flag = "none"}
           entry == [flag |-> IF num > 1 THEN "header" ELSE "data", num |-> num,
                     fd |-> asked[r].fd, timer |-> FALSE, req |-> r]
           i     == Least(free)
<1>1. /\ UNCHANGED <<writer, timeout, asked>> /\ http.pc = "add"
      /\ \/ /\ http'.pc = "put" /\ UNCHANGED <<conns, crossed>>
         \/ /\ free # {} /\ http' = [pc |-> "timer", slot |-> i, req |-> r]
            /\ conns' = [conns EXCEPT ![i] = entry]
            /\ crossed' = IF i \in {writer.slot, timeout.slot}
                          THEN crossed \cup {r} ELSE crossed
  <2>1. [http EXCEPT !.pc = "put"].pc = "put"
    BY DEF HttpTyped
  <2>2. QED BY <2>1 DEF AddConnection, notHttp
<1>2. r \in Requests /\ server /\ conns # Freed
  BY <1>1 DEF HInv, ServerTyped
<1>3. conns \in [Slots -> Conn] /\ asked[r].fd # NoFd
  BY <1>1, <1>2 DEF AInv, TableTyped, Singly, Asking
<1>4. r \notin crossed /\ \A j \in Slots : ~Holds(j, r)
  BY <1>1, <1>2 DEF WInv, Fresh, Unadded
<1>5. CASE http'.pc = "put" /\ UNCHANGED <<conns, crossed>>
  <2>1. HttpStays /\ \A p \in Requests : (Unadded(p))' => Unadded(p)
    BY <1>1, <1>5 DEF HttpStays, Unadded
  <2>2. QED BY <1>1, <1>5, <2>1, SteadyKeeps, TableSteady DEF AInv
<1>6. CASE /\ free # {} /\ http' = [pc |-> "timer", slot |-> i, req |-> r]
           /\ conns' = [conns EXCEPT ![i] = entry]
           /\ crossed' = IF i \in {writer.slot, timeout.slot}
                         THEN crossed \cup {r} ELSE crossed
  <2>1. i \in Slots /\ conns[i].flag = "none"
    <3>1. free \in SUBSET Nat /\ free # {}
      BY <1>6, Numbers
    <3>2. QED BY <3>1, LeastThere
  <2>2. entry.timer = FALSE /\ entry.req = r
    OBVIOUS
  <2> HIDE DEF entry, i, free
  <2>3. /\ conns'[i] = entry /\ \A j \in Slots \ {i} : conns'[j] = conns[j]
        /\ crossed' = IF i \in {writer.slot, timeout.slot} THEN crossed \cup {r} ELSE crossed
        /\ DOMAIN conns' = Slots
    BY <1>3, <1>6, <2>1
  <2>4. /\ http'.pc = "timer" /\ http'.slot = i /\ http'.req = r
    BY <1>6
  <2>5. conns' # Freed /\ conns[i].req \notin Requests /\ ~conns[i].timer
    <3>1. conns[i] \in Blank
      BY <1>3, <2>1 DEF Conn, Filled
    <3>2. QED BY <2>3, <3>1, TableNotFreed, Numbers DEF Blank
  <2>6. \A j \in Slots : \A p \in Requests :
          (Holds(j, p))' <=> (IF j = i THEN p = r ELSE Holds(j, p))
    BY <1>2, <2>2, <2>3, <2>5 DEF Holds
  <2>7. \A j \in Slots :
          /\ (Guarded(j))' <=> (j = i \/ Guarded(j))
          /\ (Marking(j))' <=> Marking(j)
          /\ j # i => ((Flagged(j))' <=> Flagged(j)) /\ ((Watched(j))' <=> Watched(j))
          /\ j = i => ~(Watched(j))'
    <3>1. \A j \in Slots :
            /\ (Marking(j))' <=> Marking(j)
            /\ j # i => ((Flagged(j))' <=> Flagged(j)) /\ ((Watched(j))' <=> Watched(j))
            /\ j = i => ~(Watched(j))'
      BY <1>1, <1>2, <2>2, <2>3, <2>5 DEF Watched, Marking, Flagged
    <3>2. \A j \in Slots : ~Adding(j) /\ ((Adding(j))' <=> j = i)
      BY <1>1, <2>4 DEF Adding
    <3>3. QED BY <3>1, <3>2 DEF Guarded
  <2>8. Alone'
    BY <1>4, <2>6 DEF WInv, Alone
  <2>9. \A p \in Requests : (Unadded(p))' => Unadded(p) /\ p # r
    BY <1>1, <1>3, <2>4 DEF Unadded
  <2>10. Fresh'
    BY <2>3, <2>6, <2>9 DEF WInv, Fresh
  <2>11. Timed'
    BY <2>3, <2>6, <2>7 DEF WInv, Timed
  <2>12. Half'
    BY <1>1, <2>1, <2>2, <2>3, <2>4, <2>5 DEF Half
  <2>13. Lost \subseteq Lost'
    BY <1>4, <2>3, <2>6, <2>7 DEF Lost, AInv, TableTyped
  <2>14. Loose' \subseteq Loose
    BY <2>7 DEF Loose
  <2>15. IsFiniteSet(crossed')
    BY <2>3, FS_AddElement DEF WInv, Count
  <2>16. Count'
    BY <2>13, <2>14, <2>15, CountKeeps DEF WInv
  <2>17. Overtaken'
    <3>1. timeout.pc = "send" => timeout.slot \in Slots
      BY DEF AInv, TimerTyped, Resting
    <3>2. CASE timeout.slot = i
      BY <1>1, <2>7, <3>1, <3>2 DEF Overtaken
    <3>3. CASE timeout.slot # i
      BY <1>1, <2>3, <2>7, <3>1, <3>3 DEF WInv, Overtaken
    <3>4. QED BY <3>2, <3>3
  <2>18. QED BY <2>8, <2>10, <2>11, <2>12, <2>16, <2>17 DEF WInv
<1>7. QED BY <1>1, <1>5, <1>6

(* The entry gets its timer, or its request is crossed and has an entry    *)
(* that nobody will clear.                                                 *)
LEMMA TimingCounts ==
  ASSUME HInv, AInv, HttpTyped, WInv, AddTimer
  PROVE  WInv'
<1>0. PICK i, r : i = http.slot /\ r = http.req
  OBVIOUS
<1>1. /\ UNCHANGED <<asked, writer, timeout>> /\ http.pc = "timer" /\ http'.pc = "put"
      /\ \/ conns' = [conns EXCEPT ![i].timer = TRUE] /\ crossed' = crossed
         \/ crossed' = crossed \cup {r} /\ conns' = conns
  <2>1. [http EXCEPT !.pc = "put"].pc = "put"
    BY DEF HttpTyped
  <2>2. QED BY <1>0, <2>1 DEF AddTimer, notHttp
<1>2. /\ r \in Requests /\ i \in Slots /\ conns # Freed /\ conns \in [Slots -> Conn]
      /\ conns[i].req = r /\ ~conns[i].timer
      /\ timeout.slot = i => r \in crossed
  BY <1>0, <1>1 DEF HInv, ServerTyped, WInv, Half, AInv, TableTyped
<1>3. /\ \A j \in Slots : (Guarded(j))' <=> (Watched(j))'
      /\ \A j \in Slots : Guarded(j) <=> (j = i \/ Watched(j))
      /\ \A j \in Slots : (Marking(j))' <=> Marking(j)
      /\ ~Watched(i) /\ Holds(i, r)
  BY <1>0, <1>1, <1>2 DEF Guarded, Adding, Watched, Marking, Holds
<1>4. Half' /\ \A p \in Requests : (Unadded(p))' => Unadded(p)
  BY <1>1 DEF Half, Unadded
<1>5. \A p \in Requests : Unadded(p) => p # r
  BY <1>2, <1>3 DEF WInv, Fresh
<1>6. CASE conns' = [conns EXCEPT ![i].timer = TRUE] /\ crossed' = crossed
  <2>1. conns[i] \in Filled
    BY <1>2, Numbers DEF Conn, Blank
  <2>2. /\ conns'[i].timer /\ conns'[i].req = r /\ conns'[i].flag = conns[i].flag
        /\ \A j \in Slots \ {i} : conns'[j] = conns[j]
    BY <1>2, <1>6, <2>1 DEF Filled
  <2>3. conns' # Freed
    BY <1>2, <1>6, TableNotFreed
  <2>4. \A j \in Slots : /\ (Guarded(j))' <=> Guarded(j)
                         /\ (Flagged(j))' <=> Flagged(j)
                         /\ \A p \in Requests : (Holds(j, p))' <=> Holds(j, p)
                         /\ j # i => ((Watched(j))' <=> Watched(j))
    BY <1>2, <1>3, <2>2, <2>3 DEF Watched, Flagged, Holds
  <2>5. Loose' = Loose /\ Lost' = Lost
    BY <1>3, <1>6, <2>4 DEF Loose, Lost, AInv, TableTyped
  <2>6. Count' /\ Alone' /\ Fresh' /\ Timed'
    BY <1>4, <1>6, <2>4, <2>5 DEF WInv, Count, Alone, Fresh, Timed
  <2>7. Overtaken'
    <3>1. timeout.pc = "send" => timeout.slot \in Slots
      BY DEF AInv, TimerTyped, Resting
    <3>2. QED BY <1>1, <1>2, <1>3, <1>6, <2>2, <2>4, <3>1 DEF WInv, Overtaken
  <2>8. QED BY <1>4, <2>6, <2>7 DEF WInv
<1>7. CASE crossed' = crossed \cup {r} /\ conns' = conns
  <2>1. \A j \in Slots : /\ (Watched(j))' <=> Watched(j)
                         /\ (Flagged(j))' <=> Flagged(j)
                         /\ \A p \in Requests : (Holds(j, p))' <=> Holds(j, p)
    BY <1>7 DEF Watched, Flagged, Holds
  <2>2. Loose' \subseteq Loose \cup {i}
    BY <1>3, <2>1 DEF Loose
  <2>3. r \notin Lost
    BY <1>2, <1>3 DEF Lost
  <2>4. Lost \cup {r} \subseteq Lost'
    <3>1. r \in Lost'
      BY <1>2, <1>3, <1>7, <2>1 DEF Lost, WInv, Alone
    <3>2. Lost \subseteq Lost'
      BY <1>3, <1>7, <2>1 DEF Lost, AInv, TableTyped
    <3>3. QED BY <3>1, <3>2
  <2>5. IsFiniteSet(crossed')
    BY <1>7, FS_AddElement DEF WInv, Count
  <2>6. Count'
    BY <2>2, <2>3, <2>4, <2>5, LooseGains DEF WInv
  <2>7. Alone' /\ Fresh'
    BY <1>4, <1>5, <1>7, <2>1 DEF WInv, Alone, Fresh
  <2>8. Timed'
    <3>1. ASSUME NEW p \in Requests, NEW j \in Slots, (Holds(j, p))'
          PROVE  (Guarded(j))' \/ p \in crossed'
      <4>1. j = i => p = r
        BY <1>2, <2>1, <3>1 DEF Holds
      <4>2. QED BY <1>3, <1>7, <2>1, <3>1, <4>1 DEF WInv, Timed
    <3>2. QED BY <3>1 DEF Timed
  <2>9. Overtaken'
    BY <1>1, <1>7 DEF WInv, Overtaken, Marking, Watched
  <2>10. QED BY <1>4, <2>6, <2>7, <2>8, <2>9 DEF WInv
<1>8. QED BY <1>1, <1>6, <1>7

(* The table comes and goes.                                               *)
LEMMA OpeningSteady ==
  ASSUME StartHttpd
  PROVE  \A i \in Slots : Steady(i)
<1>1. /\ writer' = writer /\ http' = http
      /\ conns' = IF conns = Freed THEN [i \in Slots |-> Unused] ELSE conns
  BY DEF StartHttpd, Serving, HttpdStart, notLoop
<1>2. CASE conns # Freed
  BY <1>1, <1>2, TableSteady DEF HttpStays
<1>3. CASE conns = Freed
  <2>1. \A i \in Slots : conns'[i] = Unused
    BY <1>1, <1>3
  <2>2. Unused.req \notin Requests /\ ~Unused.timer /\ Unused.flag = "none"
    BY Numbers DEF Unused
  <2>3. QED BY <1>1, <1>3, <2>1, <2>2 DEF Steady, Holds, Loose, Guarded, Adding, Watched,
               Flagged, Marking
<1>4. QED BY <1>2, <1>3

LEMMA FreeingCounts ==
  ASSUME HInv, AInv, WInv, FreeHttpd
  PROVE  WInv'
<1>0. PICK w, S : w = writer.slot
                  /\ S = ({conns[i].req : i \in {writer.slot, timeout.slot} \cap DOMAIN conns}
                            \ {NoRequest})
  OBVIOUS
<1>1. /\ UNCHANGED <<asked, http, writer, timeout>>
      /\ conns' = Freed /\ crossed' = crossed \cup S
  BY <1>0 DEF FreeHttpd, Serving, HttpdFree, notLoop
<1>5. http.pc = "idle"
  BY DEF FreeHttpd, Serving, Handles, HInv, HandlerPhase, ServerTyped
<1>6. \A i \in Slots : ~Adding(i) /\ ~(Adding(i))'
  BY <1>1, <1>5 DEF Adding
<1>2. CASE conns = Freed
  <2>1. S = {}
    BY <1>0, <1>2 DEF Freed
  <2>2. UNCHANGED <<timeout, crossed, writer, conns>>
    BY <1>1, <1>2, <2>1
  <2>3. \A r \in Requests : (Unadded(r))' => Unadded(r)
    BY <1>1 DEF Unadded
  <2>4. QED BY <1>1, <2>2, <2>3, SteadyKeeps, TableSteady DEF AInv, HttpStays
<1>3. CASE conns # Freed
  <2>1. conns \in [Slots -> Conn] /\ DOMAIN conns = Slots
    BY <1>3 DEF AInv, TableTyped
  <2>2. \A r \in S : r \in Requests /\ \E i \in Slots : Holds(i, r)
    BY <1>0, <1>3, <2>1, Entries DEF Holds
  <2>3. IsFiniteSet(S)
    <3>1. S \in SUBSET {conns[w].req, conns[timeout.slot].req}
      BY <1>0
    <3>2. IsFiniteSet({conns[w].req, conns[timeout.slot].req})
      <4>1. IsFiniteSet({conns[w].req})
        BY FS_Singleton
      <4>2. {conns[w].req, conns[timeout.slot].req}
              = {conns[w].req} \cup {conns[timeout.slot].req}
        OBVIOUS
      <4>3. QED BY <4>1, <4>2, FS_AddElement
    <3>3. QED BY <3>1, <3>2, FS_Subset
  <2>4. IsFiniteSet(crossed')
    BY <1>1, <2>3, FS_Union DEF WInv, Count
  <2>5. \A i \in Slots : \A r : /\ ~(Holds(i, r))' /\ ~(Watched(i))' /\ ~(Flagged(i))'
                                /\ ~(Guarded(i))' /\ (Guarded(i) <=> Watched(i))
    BY <1>1, <1>6 DEF Holds, Watched, Flagged, Guarded
  <2>6. Lost' = crossed' /\ Lost \subseteq Lost'
    BY <1>1, <2>5 DEF Lost
  <2>7. Alone' /\ Overtaken' /\ Timed' /\ Half'
    BY <1>1, <1>5, <2>5 DEF Alone, Overtaken, Watched, Timed, Half
  <2>8. Fresh'
    BY <1>1, <2>2, <2>5 DEF WInv, Fresh, Unadded
  <2>9. Loose' = {i \in Slots : Marking(i)}
    BY <1>1, <2>5 DEF Loose, Marking
  <2>10. Count'
    <3>1. CASE ~Watched(w) \/ ~Marking(w)
      <4>1. Loose' \subseteq Loose
        BY <1>0, <2>5, <2>9, <3>1 DEF Loose, Marking
      <4>2. QED BY <2>4, <2>6, <4>1, CountKeeps DEF WInv
    <3>2. CASE Watched(w) /\ Marking(w)
      <4>1. w \in Slots
        BY <1>0, <3>2 DEF AInv, WriterTyped, Resting, Marking
      <4>2. conns[w].req \in Requests
        BY <2>1, <3>2, <4>1, Entries DEF Watched
      <4>3. conns[w].req \in Lost'
        BY <1>0, <1>1, <2>1, <2>6, <4>1, <4>2, Numbers
      <4>4. Loose' = {w}
        BY <1>0, <2>9, <3>2, <4>1 DEF Marking
      <4>5. IsFiniteSet({w}) /\ Cardinality({w}) = 1
        BY FS_Singleton
      <4>6. IsFiniteSet(Lost') /\ Cardinality(Lost') \in Nat /\ Cardinality(Lost') # 0
        BY <2>4, <2>6, <4>3, FS_CardinalityType, FS_EmptySet
      <4>7. QED BY <2>4, <4>4, <4>5, <4>6 DEF Count
    <3>3. QED BY <3>1, <3>2
  <2>11. QED BY <2>7, <2>8, <2>10 DEF WInv
<1>4. QED BY <1>2, <1>3

SInv == HInv /\ PlanTyped /\ AInv /\ HttpTyped /\ WInv

LEMMA SlotsStart == RootInit => SInv
<1> SUFFICES ASSUME RootInit PROVE SInv
  OBVIOUS
<1>1. /\ conns = Freed /\ writer = Resting /\ timeout = Resting /\ crossed = {}
      /\ http = [pc |-> "idle", slot |-> 0, req |-> NoRequest]
  BY DEF RootInit, HttpdInit, NotAsking
<1>2. Loose = {} /\ Lost = {}
  BY <1>1 DEF Loose, Lost, Marking, Flagged, Resting
<1>3. Count
  BY <1>1, <1>2, FS_EmptySet DEF Count
<1>4. Alone /\ Fresh /\ Half /\ Timed /\ Overtaken
  BY <1>1 DEF Alone, Fresh, Half, Timed, Overtaken, Holds, Resting
<1>5. HttpTyped /\ WInv
  BY <1>1, <1>3, <1>4 DEF HttpTyped, WInv
<1>6. QED BY <1>5, AnswersStart DEF SInv

LEMMA SlotsStep == SInv /\ [Next]_vars => HttpTyped' /\ WInv'
<1> SUFFICES ASSUME HInv, PlanTyped, AInv, HttpTyped, WInv, [Next]_vars
             PROVE  HttpTyped' /\ WInv'
  BY DEF SInv
<1>1. ASSUME UNCHANGED <<http, asked, writer, timeout, conns, crossed>>
      PROVE  HttpTyped' /\ WInv'
  <2>1. \A r \in Requests : (Unadded(r))' => Unadded(r)
    BY <1>1 DEF Unadded
  <2>2. QED BY <1>1, <2>1, SteadyKeeps, TableSteady DEF AInv, HttpTyped, HttpStays
<1>2. CASE EventPosted \/ EventGoesOn \/ EventQueued \/ mlink_notice_udp_task
           \/ UNCHANGED vars
  BY <1>1, <1>2 DEF EventPosted, EventGoesOn, EventQueued, mlink_notice_udp_task, notNotice, vars,
     httpdVars, tableVars
<1>3. CASE Handler
  <2>1. CASE EventTaken \/ HandleTable \/ StartNotice \/ StartFails \/ Announce
             \/ StopNotice \/ AwaitNotice \/ SkipHttpd
    BY <1>1, <2>1 DEF EventTaken, HandleTable, StartNotice, StartFails, Announce, StopNotice,
       AwaitNotice, SkipHttpd, Noticing, httpdVars, tableVars
  <2>2. CASE CreateTasks \/ StopHttpd \/ ExitHttpd
    BY <1>1, <2>2 DEF CreateTasks, StopHttpd, HttpdStop, ExitHttpd, HttpdExit, Serving,
       notLoop, tableVars
  <2>3. CASE StartHttpd
    <3>1. UNCHANGED <<http, asked, timeout, crossed>>
      BY <2>3 DEF StartHttpd, Serving, HttpdStart, notLoop
    <3>2. \A r \in Requests : (Unadded(r))' => Unadded(r)
      BY <3>1 DEF Unadded
    <3>3. QED BY <2>3, <3>1, <3>2, OpeningSteady, SteadyKeeps DEF AInv, HttpTyped, HttpStays
  <2>4. CASE FreeHttpd
    <3>1. http' = http
      BY <2>4 DEF FreeHttpd, Serving, HttpdFree, notLoop
    <3>2. QED BY <2>4, <3>1, FreeingCounts DEF HttpTyped
  <2>5. QED BY <1>3, <2>1, <2>2, <2>3, <2>4 DEF Handler
<1>4. CASE Client
  <2>1. ASSUME NEW f \in Fds, HangUp(f) PROVE HttpTyped' /\ WInv'
    BY <1>1, <2>1 DEF HangUp, notHttp
  <2>2. ASSUME NEW r \in Requests, Arrive(r, plan.dest[r]) PROVE HttpTyped' /\ WInv'
    <3>1. /\ UNCHANGED <<writer, timeout, conns, crossed>> /\ asked[r].fd = NoFd
          /\ http.pc = "idle" /\ http' = [pc |-> "add", slot |-> 0, req |-> r]
          /\ \A q \in Requests \ {r} : asked'[q] = asked[q]
      BY <2>2 DEF Arrive, notHttp, NotAsking, AInv, TableTyped
    <3>2. \A q \in Requests : (Unadded(q))' => Unadded(q)
      BY <3>1 DEF Unadded
    <3>3. QED BY <3>1, <3>2, SteadyKeeps, TableSteady DEF AInv, HttpTyped, HttpStays
  <2>3. QED BY <1>4, <2>1, <2>2 DEF Client
<1>5. CASE Server
  <2>1. CASE AddConnection
    <3>1. HttpTyped'
      <4> DEFINE free == {i \in Slots : conns[i].flag = "none"}
      <4>1. \/ http' = [http EXCEPT !.pc = "put"]
            \/ free # {} /\ http' = [pc |-> "timer", slot |-> Least(free), req |-> http.req]
        BY <2>1 DEF AddConnection
      <4>2. free # {} => Least(free) \in Slots
        <5>1. free \in SUBSET Nat
          BY Numbers
        <5>2. QED BY <5>1, LeastThere
      <4> HIDE DEF free
      <4>3. QED BY <4>1, <4>2 DEF HttpTyped
    <3>2. QED BY <2>1, <3>1, AddingCounts
  <2>2. CASE AddTimer
    <3>1. http' = [http EXCEPT !.pc = "put"]
      BY <2>2 DEF AddTimer
    <3>2. QED BY <2>2, <3>1, TimingCounts DEF HttpTyped
  <2>3. CASE PutRequest
    <3>1. /\ UNCHANGED <<asked, writer, timeout, conns, crossed>> /\ http.pc = "put"
          /\ http' = [pc |-> "idle", slot |-> 0, req |-> NoRequest]
      BY <2>3 DEF PutRequest, notHttp, tableVars, NotAsking
    <3>2. \A q \in Requests : (Unadded(q))' => Unadded(q)
      BY <3>1 DEF Unadded
    <3>3. QED BY <3>1, <3>2, SteadyKeeps, TableSteady DEF AInv, HttpTyped, HttpStays
  <2>4. QED BY <1>5, <2>1, <2>2, <2>3 DEF Server
<1>6. CASE root_read_task
  BY <1>1, <1>6 DEF root_read_task, ReadCall, ReadExit, DeleteQueue, Forward, notReader, tableVars
<1>7. CASE root_write_task
  <2>1. CASE WriteNotice /\ UNCHANGED notNotice
    BY <1>1, <2>1 DEF notNotice, httpdVars, tableVars
  <2>2. CASE WriteHeader \/ WriteSize \/ WriteData \/ WriteCount \/ WriteRemove
    <3>1. UNCHANGED <<asked, http, timeout, crossed>>
      BY <2>2, WriterDoes DEF AInv, notWrites
    <3>2. \A q \in Requests : (Unadded(q))' => Unadded(q)
      BY <3>1 DEF Unadded
    <3>3. QED BY <2>2, <3>1, <3>2, SteadyKeeps, WritingSteady DEF AInv, HttpTyped, HttpStays
  <2>3. ASSUME NEW a \in mesh, WriteCall(a) PROVE HttpTyped' /\ WInv'
    <3>1. UNCHANGED <<asked, http, timeout, crossed>>
      BY <2>3 DEF WriteCall, notWriter, tableVars
    <3>2. \A q \in Requests : (Unadded(q))' => Unadded(q)
      BY <3>1 DEF Unadded
    <3>3. QED BY <2>3, <3>1, <3>2, SteadyKeeps, CallingSteady DEF AInv, HttpTyped, HttpStays
  <2>4. CASE WriteFind
    BY <2>4, FindingCounts DEF HttpTyped, WriteFind, notWriter
  <2>5. QED BY <1>7, <2>1, <2>2, <2>3, <2>4 DEF root_write_task, WriteAnswer
<1>8. CASE Timer
  <2>1. http' = http
    BY <1>8 DEF Timer, TimerFires, TimerCloses, notTimer
  <2>2. QED BY <1>8, <2>1, FiringCounts, ClosingCounts DEF Timer, HttpTyped
<1>9. QED BY <1>2, <1>3, <1>4, <1>5, <1>6, <1>7, <1>8 DEF Next

LEMMA ServedStep == SInv /\ [Next]_vars => SInv'
<1> SUFFICES ASSUME SInv, [Next]_vars PROVE SInv'
  OBVIOUS
<1>1. HInv' /\ PlanTyped'
  BY ServicesStep, PlanStays DEF SInv
<1>2. AInv'
  BY AnswersStep DEF SInv, WInv
<1>3. HttpTyped' /\ WInv'
  BY SlotsStep
<1>4. QED BY <1>1, <1>2, <1>3 DEF SInv

LEMMA LooseWatched == WInv => SlotsWatched
<1> DEFINE U == {i \in Slots : conns[i].flag # "none" /\ ~conns[i].timer /\ ~Adding(i)}
<1> SUFFICES ASSUME WInv, conns # Freed
             PROVE  Cardinality(U) <= Cardinality(crossed)
  BY DEF SlotsWatched
<1>1. U \subseteq Loose /\ Lost \subseteq crossed
  BY DEF Loose, Lost, Guarded, Watched, Flagged
<1>2. IsFiniteSet(Loose) /\ IsFiniteSet(crossed)
  BY FewSlots DEF Loose, WInv, Count
<1> HIDE DEF U
<1>3. /\ Cardinality(U) <= Cardinality(Loose) /\ Cardinality(Lost) <= Cardinality(crossed)
      /\ IsFiniteSet(U) /\ IsFiniteSet(Lost)
  BY <1>1, <1>2, FS_Subset
<1>4. /\ Cardinality(U) \in Nat /\ Cardinality(Loose) \in Nat
      /\ Cardinality(Lost) \in Nat /\ Cardinality(crossed) \in Nat
  BY <1>2, <1>3, FS_CardinalityType
<1>5. Cardinality(U) <= Cardinality(crossed)
  BY <1>3, <1>4 DEF WInv, Count
<1>6. QED BY <1>5 DEF U

(* An entry of the table that no timer will clear is a slot lost for good: *)
(* there is at most one for each request that got no timer, or whose entry *)
(* was cleared by its timer while its answer was written (mlink_httpd.c:   *)
(* 175, 186, 211 and 826).  The entry that is just added does not count.   *)
THEOREM LostSlotsAccounted == Spec => []SlotsWatched
<1>1. SInv => SlotsWatched
  BY LooseWatched DEF SInv
<1>2. QED BY SlotsStart, ServedStep, <1>1, PTL DEF Spec

(* A client finds an answer to another client's request only when that     *)
(* client was gone before its own last answer (mlink_httpd.c:192: a        *)
(* connection is found by its socket number, which is used again),         *)
(* whatever the timer, the writer, clients that hang up and a server that  *)
(* starts again do in between.                                             *)
THEOREM AnswersReachTheirClient == Spec => []AnswersRight
<1>1. SInv => AnswersRight
  BY ToldRight DEF SInv, AInv
<1>2. QED BY SlotsStart, ServedStep, <1>1, PTL DEF Spec

(* The parts of the root have their types: what is sent and written are    *)
(* requests, answers and notices, and the queue of requests keeps its      *)
(* length (mlink_httpd.c:449, 893-907, 965).                               *)
THEOREM ServicesTypes == Spec => []TypeOK
<1> DEFINE Inv == IInv /\ NInv /\ SInv /\ SwitchTyped /\ QueueTyped
<1>1. RootInit => Inv
  <2>1. RootInit => SwitchTyped /\ QueueTyped
    BY DEF RootInit, NoticeInit, HttpdInit, SwitchTyped, QueueTyped
  <2>2. RootInit => IInv
    BY Starts DEF RootInit
  <2>3. QED BY <2>1, <2>2, NoticesStart, SlotsStart
<1>2. Inv /\ [Next]_vars => Inv'
  BY StepKeeps, StepOfEvents, NoticesStep, ServedStep, SwitchStays, QueueStays DEF SInv
<1>3. Inv => TypeOK
  <2> SUFFICES ASSUME Inv PROVE TypeOK
    OBVIOUS
  <2>1. \A i \in DOMAIN events : events[i] \in Event
    BY DEF IInv, Typed
  <2>2. message \cup held \cup written \cup aired \cup dropped \subseteq Notice
        /\ (notices = NoNotices \/ Elements(notices) \subseteq Notice)
    BY DEF NInv, NoticesTyped, SwitchTyped, Elements
  <2>3. /\ stopped \in BOOLEAN /\ sem \in {"none", "empty", "given"}
        /\ task \in {"none", "create", "loop", "merge", "air", "dead"}
        /\ server \in BOOLEAN /\ (mqueue = NoQueue \/ Len(mqueue) <= QueueLen)
        /\ reader \in {"off", "call", "wait", "drain"}
    BY DEF SwitchTyped, QueueTyped
  <2>4. /\ conns = Freed \/ DOMAIN conns = Slots
        /\ sockets \in [Fds -> Requests \cup {NoRequest}]
        /\ \A r \in Requests : asked[r] \in [fd : {NoFd} \cup Fds, dest : SUBSET Devices]
        /\ closed \cup crossed \subseteq Requests
    BY DEF SInv, AInv, TableTyped
  <2>5. QED BY <2>1, <2>2, <2>3, <2>4 DEF TypeOK
<1> HIDE DEF Inv
<1>4. QED BY <1>1, <1>2, <1>3, PTL DEF Spec

-----------------------------------------------------------------------------
(***************************************************************************)
(* The pieces of an answer.                                                *)
(***************************************************************************)
Control == {<<"header">>, <<"size">>, <<"footer">>, <<"400">>}
AnswersOf(s) == {j \in DOMAIN s : Len(s[j]) = 2}
Ended(s, n) == s # <<>> /\ (n = 1 \/ s[Len(s)] \in {<<"footer">>, <<"400">>})

(* The header, and answers that each follow their size.                    *)
Rows(s) ==
  /\ s # <<>> /\ s[1] = <<"header">>
  /\ \A j \in 2 .. Len(s) : IF j % 2 = 0 THEN s[j] = <<"size">> ELSE s[j] \in Answer

AnswersTo(r, D) == {<<r, d>> : d \in D}

(* What the client of r has read, of a request to the devices D; shut when *)
(* its connection was closed before its time.                              *)
Good(r, s, D, shut) ==
  /\ Framed(s, Cardinality(D) = 1)
  /\ Told(s) \subseteq AnswersTo(r, D)
  /\ Cardinality(Told(s)) = Cardinality(AnswersOf(s))
  /\ Ended(s, Cardinality(D)) /\ ~shut => Cardinality(AnswersOf(s)) = Cardinality(D)

(* An entry e of a request to n devices, whose client has read s, while the *)
(* writer stands at w with it and the timer will send t with it.           *)
Staged(e, n, s, w, t) ==
  \/ /\ t = <<>> /\ n = 1 /\ e.flag = "data" /\ e.num = 1
     /\ w = "count" \/ (w \in {"rest", "size", "data"} /\ s = <<>>)
  \/ /\ t = <<>> /\ n > 1 /\ e.flag = "header" /\ e.num = n
     /\ (w \in {"rest", "header"} /\ s = <<>>) \/ (w = "mark" /\ s = <<<<"header">>>>)
  \/ /\ t = <<>> /\ n > 1 /\ e.flag = "body" /\ Rows(s)
     /\ \/ /\ w \in {"rest", "size"} /\ Len(s) % 2 = 1
           /\ e.num + Cardinality(AnswersOf(s)) = n
        \/ /\ w = "data" /\ Len(s) % 2 = 0
           /\ e.num + Cardinality(AnswersOf(s)) = n
        \/ /\ w = "count" /\ Len(s) % 2 = 1
           /\ e.num + Cardinality(AnswersOf(s)) = n + 1
  \/ t = <<>> /\ w = "remove"
  \/ /\ w = "rest"
     /\ \/ t = <<"400">> /\ s = <<>>
        \/ t = <<"footer">> /\ n > 1 /\ Rows(s) /\ Len(s) % 2 = 1

LEMMA PieceLengths ==
  /\ \A p \in Control : Len(p) = 1 /\ p \in Piece /\ p \notin Answer
  /\ \A a \in Answer : Len(a) = 2 /\ a \in Piece
  /\ \A p \in Piece : Len(p) = 2 <=> p \in Answer
<1>1. \A a \in Answer : Len(a) = 2
  BY DEF Answer
<1>2. \A p \in Control : Len(p) = 1
  BY DEF Control
<1>3. QED BY <1>1, <1>2 DEF Piece, Control

LEMMA AppendFacts ==
  ASSUME NEW s \in Seq(Piece), NEW p \in Piece
  PROVE  /\ Append(s, p) \in Seq(Piece) /\ Len(Append(s, p)) = Len(s) + 1 /\ Len(s) \in Nat
         /\ \A j \in 1 .. Len(s) : Append(s, p)[j] = s[j]
         /\ Append(s, p)[Len(s) + 1] = p /\ Append(s, p) # <<>>
         /\ DOMAIN s = 1 .. Len(s) /\ DOMAIN Append(s, p) = 1 .. Len(s) + 1
  OBVIOUS

LEMMA AnswersFinite ==
  ASSUME NEW s \in Seq(Piece)
  PROVE  IsFiniteSet(AnswersOf(s)) /\ Cardinality(AnswersOf(s)) \in Nat
<1>1. DOMAIN s = 1 .. Len(s) /\ Len(s) \in Nat
  OBVIOUS
<1>2. IsFiniteSet(1 .. Len(s))
  BY <1>1, FS_Interval
<1>3. AnswersOf(s) \in SUBSET (1 .. Len(s))
  BY <1>1 DEF AnswersOf
<1>4. QED BY <1>2, <1>3, FS_Subset, FS_CardinalityType

LEMMA AppendCounts ==
  ASSUME NEW s \in Seq(Piece), NEW p \in Piece
  PROVE  /\ p \notin Answer => AnswersOf(Append(s, p)) = AnswersOf(s)
         /\ p \in Answer => Cardinality(AnswersOf(Append(s, p))) = Cardinality(AnswersOf(s)) + 1
<1>1. PICK u : u = Append(s, p)
  OBVIOUS
<1>2. /\ Len(s) \in Nat /\ \A j \in 1 .. Len(s) : u[j] = s[j]
      /\ u[Len(s) + 1] = p /\ DOMAIN s = 1 .. Len(s) /\ DOMAIN u = 1 .. Len(s) + 1
  BY <1>1, AppendFacts
<1>3. Len(p) = 2 <=> p \in Answer
  BY PieceLengths
<1>4. AnswersOf(u) = AnswersOf(s) \cup (IF p \in Answer THEN {Len(s) + 1} ELSE {})
  BY <1>2, <1>3 DEF AnswersOf
<1>5. Len(s) + 1 \notin AnswersOf(s)
  BY <1>2 DEF AnswersOf
<1>6. IsFiniteSet(AnswersOf(s))
  BY AnswersFinite
<1>7. Cardinality(AnswersOf(s) \cup {Len(s) + 1}) = Cardinality(AnswersOf(s)) + 1
  BY <1>5, <1>6, FS_AddElement
<1>8. QED BY <1>1, <1>4, <1>7

LEMMA EmptyAnswers ==
  /\ <<>> \in Seq(Piece) /\ AnswersOf(<<>>) = {} /\ Cardinality(AnswersOf(<<>>)) = 0
  /\ Told(<<>>) = {} /\ Cardinality(Told(<<>>)) = 0
  BY FS_EmptySet DEF AnswersOf, Told, Elements

LEMMA RowsGrow ==
  ASSUME NEW s \in Seq(Piece), Rows(s)
  PROVE  /\ Len(s) % 2 = 1 => /\ Rows(Append(s, <<"size">>))
                              /\ Len(Append(s, <<"size">>)) % 2 = 0
                              /\ Framed(Append(s, <<"footer">>), FALSE)
         /\ \A a \in Answer : Len(s) % 2 = 0 => Rows(Append(s, a)) /\ Len(Append(s, a)) % 2 = 1
<1>0. Len(s) \in Nat /\ Len(s) > 0
  BY DEF Rows
<1>1. ASSUME NEW p \in Piece, Len(s) % 2 = 1 <=> p = <<"size">>, p = <<"size">> \/ p \in Answer
      PROVE  Rows(Append(s, p))
  <2>1. PICK u : u = Append(s, p)
    OBVIOUS
  <2>2. /\ u # <<>> /\ u[Len(s) + 1] = p /\ Len(u) = Len(s) + 1
        /\ \A j \in 1 .. Len(s) : u[j] = s[j]
    BY <1>1, <2>1, AppendFacts
  <2>3. ASSUME NEW j \in 2 .. Len(u)
        PROVE  IF j % 2 = 0 THEN u[j] = <<"size">> ELSE u[j] \in Answer
    <3>1. CASE j = Len(s) + 1
      <4>1. j % 2 = 0 <=> Len(s) % 2 = 1
        BY <1>0, <3>1
      <4>2. QED BY <1>1, <2>2, <3>1, <4>1
    <3>2. CASE j # Len(s) + 1
      <4>1. j \in 2 .. Len(s) /\ j \in 1 .. Len(s)
        BY <1>0, <2>2, <3>2
      <4>2. QED BY <2>2, <4>1 DEF Rows
    <3>3. QED BY <3>1, <3>2
  <2>4. u[1] = <<"header">>
    BY <1>0, <2>2 DEF Rows
  <2>5. QED BY <2>1, <2>2, <2>3, <2>4 DEF Rows
<1>2. \A p \in Piece : Len(Append(s, p)) = Len(s) + 1
  OBVIOUS
<1>3. <<"size">> \in Piece /\ <<"size">> \notin Answer /\ <<"footer">> \in Piece
      /\ \A a \in Answer : a \in Piece /\ Len(a) = 2
  BY PieceLengths DEF Control
<1>4. ASSUME Len(s) % 2 = 1 PROVE Framed(Append(s, <<"footer">>), FALSE)
  <2>1. PICK u : u = Append(s, <<"footer">>)
    OBVIOUS
  <2>2. /\ u # <<>> /\ u[Len(s) + 1] = <<"footer">> /\ Len(u) = Len(s) + 1
        /\ \A j \in 1 .. Len(s) : u[j] = s[j]
    BY <1>3, <2>1, AppendFacts
  <2>3. ASSUME NEW j \in 2 .. Len(u)
        PROVE  \/ j % 2 = 0 /\ u[j] = <<"size">>
               \/ j % 2 = 1 /\ Len(u[j]) = 2
               \/ j % 2 = 0 /\ u[j] = <<"footer">> /\ j = Len(u)
    <3>1. CASE j = Len(s) + 1
      BY <1>0, <1>4, <2>2, <3>1
    <3>2. CASE j # Len(s) + 1
      <4>1. j \in 2 .. Len(s) /\ j \in 1 .. Len(s) /\ (j % 2 = 0 \/ j % 2 = 1)
        BY <1>0, <2>2, <3>2
      <4>2. QED BY <1>3, <2>2, <4>1 DEF Rows
    <3>3. QED BY <3>1, <3>2
  <2>4. u[1] = <<"header">>
    BY <1>0, <2>2 DEF Rows
  <2>5. QED BY <2>1, <2>3, <2>4 DEF Framed
<1>5. ASSUME Len(s) % 2 = 1
      PROVE  Rows(Append(s, <<"size">>)) /\ Len(Append(s, <<"size">>)) % 2 = 0
  BY <1>0, <1>1, <1>2, <1>3, <1>5
<1>6. ASSUME NEW a \in Answer, Len(s) % 2 = 0
      PROVE  Rows(Append(s, a)) /\ Len(Append(s, a)) % 2 = 1
  <2>1. (Len(s) + 1) % 2 = 1 /\ ~(Len(s) % 2 = 1)
    BY <1>0, <1>6
  <2>2. QED BY <1>1, <1>2, <1>3, <1>6, <2>1
<1>7. QED BY <1>4, <1>5, <1>6

LEMMA RowsFramed ==
  ASSUME NEW s \in Seq(Piece), Rows(s)
  PROVE  Framed(s, FALSE) /\ \A n : n # 1 => ~Ended(s, n)
<1>0. Len(s) \in Nat /\ Len(s) > 0
  BY DEF Rows
<1>1. ASSUME NEW j \in 2 .. Len(s)
      PROVE  (j % 2 = 0 /\ s[j] = <<"size">>) \/ (j % 2 = 1 /\ Len(s[j]) = 2 /\ s[j] \in Answer)
  <2>1. j % 2 = 0 \/ j % 2 = 1
    OBVIOUS
  <2>2. QED BY <2>1, PieceLengths DEF Rows
<1>2. Framed(s, FALSE)
  BY <1>1 DEF Rows, Framed
<1>3. s[Len(s)] \notin {<<"footer">>, <<"400">>}
  <2>1. CASE Len(s) = 1
    BY <2>1 DEF Rows
  <2>2. CASE Len(s) # 1
    <3>1. PICK n \in Nat : n = Len(s)
      BY <1>0
    <3>2. n \in 2 .. Len(s)
      BY <1>0, <2>2, <3>1
    <3>3. s[n] = <<"size">> \/ s[n] \in Answer
      BY <1>1, <3>2
    <3>4. s[n] # <<"footer">> /\ s[n] # <<"400">>
      BY <3>3, PieceLengths DEF Control
    <3>5. QED BY <3>1, <3>4
  <2>3. QED BY <2>1, <2>2
<1>4. QED BY <1>2, <1>3 DEF Ended

(* A request has no more answers than devices.                             *)
LEMMA FewAnswers ==
  ASSUME NEW D \in SUBSET Devices, NEW r, NEW T, T \subseteq AnswersTo(r, D)
  PROVE  /\ IsFiniteSet(D) /\ IsFiniteSet(T) /\ Cardinality(D) \in Nat
         /\ Cardinality(T) \in Nat /\ Cardinality(T) <= Cardinality(D)
         /\ Cardinality(T) = Cardinality(D) => T = AnswersTo(r, D)
<1> DEFINE P == AnswersTo(r, D)
           f == [d \in D |-> <<r, d>>]
<1>1. IsFiniteSet(D) /\ Cardinality(D) \in Nat
  BY MlinkHttpdAssumption, FS_Subset, FS_CardinalityType DEF MlinkHttpdAssumption
<1>2. f \in Surjection(D, P)
  BY DEF Surjection, AnswersTo
<1> HIDE DEF f
<1>3. IsFiniteSet(P) /\ Cardinality(P) <= Cardinality(D)
  BY <1>1, <1>2, FS_Surjection
<1>4. T \in SUBSET P
  OBVIOUS
<1> HIDE DEF P
<1>5. /\ IsFiniteSet(T) /\ Cardinality(T) <= Cardinality(P)
      /\ Cardinality(T) = Cardinality(P) => T = P
  BY <1>3, <1>4, FS_Subset
<1>6. Cardinality(T) \in Nat /\ Cardinality(P) \in Nat
  BY <1>3, <1>5, FS_CardinalityType
<1>7. Cardinality(T) <= Cardinality(D) /\ (Cardinality(T) = Cardinality(D) => T = P)
  BY <1>1, <1>3, <1>5, <1>6
<1>8. QED BY <1>1, <1>5, <1>6, <1>7 DEF P

(* A piece that is no answer, and an answer that was not there.            *)
LEMMA GoodGrows ==
  ASSUME NEW r, NEW s \in Seq(Piece), NEW D, NEW shut, NEW p \in Control, Good(r, s, D, shut),
         Framed(Append(s, p), Cardinality(D) = 1),
         shut \/ ~Ended(Append(s, p), Cardinality(D)) \/ Cardinality(AnswersOf(s)) = Cardinality(D)
  PROVE  Good(r, Append(s, p), D, shut)
<1>1. p \in Piece /\ p \notin Answer
  BY PieceLengths
<1>2. PICK u : u = Append(s, p)
  OBVIOUS
<1>3. AnswersOf(u) = AnswersOf(s) /\ Told(u) = Told(s)
  <2>1. Told(u) = Told(s) \cup ({p} \cap Answer)
    BY <1>1, <1>2, AppendPieces
  <2>2. {p} \cap Answer = {}
    BY <1>1
  <2>3. QED BY <1>1, <1>2, <2>1, <2>2, AppendCounts
<1>4. Good(r, u, D, shut)
  BY <1>2, <1>3 DEF Good
<1>5. QED BY <1>2, <1>4

LEMMA GoodAnswer ==
  ASSUME NEW r \in Requests, NEW s \in Seq(Piece), NEW D \in SUBSET Devices, NEW shut,
         NEW d \in D, Good(r, s, D, shut), <<r, d>> \notin Told(s),
         Framed(Append(s, <<r, d>>), Cardinality(D) = 1),
         \/ ~Ended(Append(s, <<r, d>>), Cardinality(D))
         \/ Cardinality(AnswersOf(s)) + 1 = Cardinality(D)
  PROVE  Good(r, Append(s, <<r, d>>), D, shut)
<1>1. PICK a : a = <<r, d>>
  OBVIOUS
<1>2. a \in Answer /\ a \in Piece
  BY <1>1 DEF Answer, Piece
<1>3. PICK u : u = Append(s, a)
  OBVIOUS
<1>4. Cardinality(AnswersOf(u)) = Cardinality(AnswersOf(s)) + 1 /\ Told(u) = Told(s) \cup {a}
  BY <1>2, <1>3, AppendCounts, AppendPieces
<1>5. IsFiniteSet(Told(s)) /\ a \notin Told(s)
  BY <1>1, FewAnswers DEF Good
<1>6. Cardinality(Told(s) \cup {a}) = Cardinality(Told(s)) + 1
  BY <1>5, FS_AddElement
<1>7. a \in AnswersTo(r, D)
  BY <1>1 DEF AnswersTo
<1>8. Good(r, u, D, shut)
  BY <1>1, <1>3, <1>4, <1>6, <1>7 DEF Good
<1>9. QED BY <1>1, <1>3, <1>8

LEMMA GoodEmpty ==
  ASSUME NEW r, NEW D, NEW shut
  PROVE  Good(r, <<>>, D, shut)
<1>1. Framed(<<>>, Cardinality(D) = 1) /\ ~Ended(<<>>, Cardinality(D))
  BY DEF Framed, Ended
<1>2. QED BY <1>1, EmptyAnswers DEF Good

LEMMA EndedAppend ==
  ASSUME NEW s \in Seq(Piece), NEW p \in Piece, NEW n
  PROVE  Ended(Append(s, p), n) <=> n = 1 \/ p \in {<<"footer">>, <<"400">>}
<1>1. PICK u : u = Append(s, p)
  OBVIOUS
<1>2. u # <<>> /\ Len(u) = Len(s) + 1 /\ u[Len(s) + 1] = p
  BY <1>1, AppendFacts
<1>3. u[Len(u)] = p
  BY <1>2
<1>4. QED BY <1>1, <1>2, <1>3 DEF Ended

-----------------------------------------------------------------------------
(* The pieces, one by one.                                                 *)
LEMMA Unended ==
  ASSUME NEW e, NEW n, NEW s \in Seq(Piece), NEW w, NEW t, Staged(e, n, s, w, t),
         w # "remove", w = "count" => n # 1
  PROVE  ~Ended(s, n)
<1>1. CASE s = <<>>
  BY <1>1 DEF Ended
<1>2. CASE n # 1 /\ s = <<<<"header">>>>
  <2>1. <<"header">> # <<"footer">> /\ <<"header">> # <<"400">>
    OBVIOUS
  <2>2. QED BY <1>2, <2>1 DEF Ended
<1>3. CASE n # 1 /\ Rows(s)
  BY <1>3, RowsFramed
<1>4. \/ s = <<>>
      \/ n > 1 /\ s = <<<<"header">>>>
      \/ n > 1 /\ Rows(s)
  BY DEF Staged
<1>5. QED BY <1>1, <1>2, <1>3, <1>4

LEMMA WroteHeader ==
  ASSUME NEW e, NEW D, NEW s \in Seq(Piece), NEW t, NEW r, NEW shut, NEW n, n = Cardinality(D),
         Staged(e, n, s, "header", t)
  PROVE  /\ t = <<>> /\ Staged(e, n, Append(s, <<"header">>), "mark", t)
         /\ Good(r, Append(s, <<"header">>), D, shut)
<1>1. t = <<>> /\ n > 1 /\ n # 1 /\ s = <<>> /\ e.flag = "header" /\ e.num = n
  BY DEF Staged
<1>2. Append(s, <<"header">>) = <<<<"header">>>>
  BY <1>1
<1>3. Framed(<<<<"header">>>>, FALSE)
  BY DEF Framed
<1>4. Framed(Append(s, <<"header">>), Cardinality(D) = 1)
  BY <1>1, <1>2, <1>3
<1>5. <<"header">> \in Control /\ <<"header">> \in Piece
      /\ <<"header">> \notin {<<"footer">>, <<"400">>}
  BY PieceLengths DEF Control
<1>6. ~Ended(Append(s, <<"header">>), n)
  BY <1>1, <1>5, EndedAppend
<1>7. Good(r, s, D, shut)
  BY <1>1, GoodEmpty
<1>8. Good(r, Append(s, <<"header">>), D, shut)
  BY <1>4, <1>5, <1>6, <1>7, GoodGrows
<1>9. QED BY <1>1, <1>2, <1>8 DEF Staged

LEMMA WroteSize ==
  ASSUME NEW e, NEW D, NEW s \in Seq(Piece), NEW t, NEW w \in {"size", "mark"},
         NEW r, NEW shut, NEW n \in Nat, n = Cardinality(D), Staged(e, n, s, w, t), Good(r, s, D, shut),
         w = "size" => e.flag = "body"
  PROVE  /\ t = <<>> /\ Good(r, Append(s, <<"size">>), D, shut)
         /\ \A f : f.num = e.num /\ f.flag = "body"
                     => Staged(f, n, Append(s, <<"size">>), "data", t)
<1>1. t = <<>> /\ n > 1 /\ n # 1 /\ Rows(s) /\ Len(s) % 2 = 1
      /\ e.num + Cardinality(AnswersOf(s)) = n
  <2>1. CASE w = "size"
    BY <2>1 DEF Staged
  <2>2. CASE w = "mark"
    <3>1. t = <<>> /\ n > 1 /\ s = <<<<"header">>>> /\ e.num = n
      BY <2>2 DEF Staged
    <3>2. Len(s) = 1 /\ s[1] = <<"header">> /\ Rows(s) /\ Len(s) % 2 = 1
      BY <3>1 DEF Rows
    <3>3. <<"header">> \in Piece /\ <<"header">> \notin Answer
      BY PieceLengths DEF Control
    <3>4. AnswersOf(s) = {}
      <4>1. ASSUME NEW j \in DOMAIN s PROVE Len(s[j]) # 2
        <5>1. j = 1
          BY <3>2
        <5>2. Len(<<"header">>) = 1
          OBVIOUS
        <5>3. QED BY <3>2, <5>1, <5>2
      <4>2. QED BY <4>1 DEF AnswersOf
    <3>5. n + Cardinality(AnswersOf(s)) = n
      BY <3>4, FS_EmptySet
    <3>6. e.num + Cardinality(AnswersOf(s)) = n
      BY <3>1, <3>5
    <3>7. n # 1
      BY <3>1
    <3>8. QED BY <3>1, <3>2, <3>6, <3>7
  <2>3. QED BY <2>1, <2>2
<1>2. <<"size">> \in Control /\ <<"size">> \in Piece /\ <<"size">> \notin Answer
      /\ <<"size">> \notin {<<"footer">>, <<"400">>}
  BY PieceLengths DEF Control
<1>3. PICK u : u = Append(s, <<"size">>)
  OBVIOUS
<1>4. Rows(u) /\ Len(u) % 2 = 0 /\ u \in Seq(Piece)
  <2>1. Rows(Append(s, <<"size">>)) /\ Len(Append(s, <<"size">>)) % 2 = 0
    BY <1>1, RowsGrow
  <2>2. Append(s, <<"size">>) \in Seq(Piece)
    BY <1>2, AppendFacts
  <2>3. QED BY <1>3, <2>1, <2>2
<1>5. Framed(u, FALSE) /\ ~Ended(u, n) /\ AnswersOf(u) = AnswersOf(s)
  BY <1>1, <1>2, <1>3, <1>4, RowsFramed, AppendCounts
<1>6. Framed(u, Cardinality(D) = 1)
  BY <1>1, <1>5
<1>7. Good(r, u, D, shut)
  BY <1>2, <1>3, <1>5, <1>6, GoodGrows
<1>8. ASSUME NEW f, f.num = e.num, f.flag = "body" PROVE Staged(f, n, u, "data", t)
  BY <1>1, <1>4, <1>5, <1>8 DEF Staged
<1>9. QED BY <1>1, <1>3, <1>7, <1>8

LEMMA WroteAnswer ==
  ASSUME NEW e, NEW D \in SUBSET Devices, NEW s \in Seq(Piece), NEW t, NEW r \in Requests,
         NEW d \in D, NEW shut, NEW n \in Nat, n = Cardinality(D), e.num \in Nat,
         Staged(e, n, s, "data", t), Good(r, s, D, shut), <<r, d>> \notin Told(s)
  PROVE  /\ t = <<>> /\ Staged(e, n, Append(s, <<r, d>>), "count", t)
         /\ Good(r, Append(s, <<r, d>>), D, shut)
<1>1. PICK a : a = <<r, d>>
  OBVIOUS
<1>2. a \in Answer /\ a \in Piece /\ Len(a) = 2
  BY <1>1 DEF Answer, Piece
<1>3. a \notin {<<"footer">>, <<"400">>}
  <2>1. Len(<<"footer">>) = 1 /\ Len(<<"400">>) = 1
    OBVIOUS
  <2>2. QED BY <1>2, <2>1
<1>4. PICK u : u = Append(s, a)
  OBVIOUS
<1>5. Cardinality(AnswersOf(u)) = Cardinality(AnswersOf(s)) + 1
      /\ Cardinality(AnswersOf(s)) \in Nat
  BY <1>2, <1>4, AppendCounts, AnswersFinite
<1>6. CASE n = 1 /\ s = <<>> /\ t = <<>> /\ e.flag = "data" /\ e.num = 1
  <2>1. u = <<a>>
    BY <1>4, <1>6
  <2>2. Framed(u, TRUE)
    BY <1>2, <2>1 DEF Framed
  <2>3. Cardinality(AnswersOf(s)) + 1 = Cardinality(D)
    BY <1>6, EmptyAnswers
  <2>4. Framed(Append(s, <<r, d>>), Cardinality(D) = 1)
    BY <1>1, <1>4, <1>6, <2>2
  <2>5. Good(r, Append(s, <<r, d>>), D, shut)
    BY <1>1, <2>3, <2>4, GoodAnswer
  <2>6. QED BY <1>6, <2>5 DEF Staged
<1>7. CASE /\ n > 1 /\ t = <<>> /\ e.flag = "body" /\ Rows(s) /\ Len(s) % 2 = 0
           /\ e.num + Cardinality(AnswersOf(s)) = n
  <2>0. e.num + Cardinality(AnswersOf(u)) = n + 1
    <3>1. PICK c \in Nat : c = Cardinality(AnswersOf(s))
      BY <1>5
    <3>2. PICK m \in Nat : m = e.num
      OBVIOUS
    <3>3. m + c = n
      BY <1>7, <3>1, <3>2
    <3>4. Cardinality(AnswersOf(u)) = c + 1
      BY <1>5, <3>1
    <3>5. m + (c + 1) = n + 1
      BY <3>3
    <3>6. QED BY <3>2, <3>4, <3>5
  <2>1. Rows(u) /\ Len(u) % 2 = 1 /\ u \in Seq(Piece)
    <3>1. Rows(Append(s, a)) /\ Len(Append(s, a)) % 2 = 1
      BY <1>2, <1>7, RowsGrow
    <3>2. Append(s, a) \in Seq(Piece)
      BY <1>2, AppendFacts
    <3>3. QED BY <1>4, <3>1, <3>2
  <2>2. n # 1
    BY <1>7
  <2>3. Framed(u, FALSE) /\ ~Ended(u, n)
    BY <2>1, <2>2, RowsFramed
  <2>4. Framed(Append(s, <<r, d>>), Cardinality(D) = 1) /\ ~Ended(Append(s, <<r, d>>), Cardinality(D))
    BY <1>1, <1>4, <2>2, <2>3
  <2>5. Good(r, Append(s, <<r, d>>), D, shut)
    BY <2>4, GoodAnswer
  <2>6. Staged(e, n, u, "count", t)
    BY <1>7, <2>0, <2>1 DEF Staged
  <2>7. QED BY <1>1, <1>4, <1>7, <2>5, <2>6
<1>8. QED BY <1>6, <1>7 DEF Staged

(* The uint16_t does not turn over when there are fewer than 65536 devices. *)
Holding(n) == \A m \in Nat : 0 < m /\ m <= n + 1 => Less(m) = m - 1

LEMMA LessHolds == ASSUME NEW n \in Nat, n < 65536 PROVE Holding(n)
<1>1. \A m \in Nat : 0 < m /\ m <= 65536 => (m + 65535) % 65536 = m - 1
  OBVIOUS
<1>2. \A m \in Nat : m <= n + 1 => m <= 65536
  OBVIOUS
<1>3. QED BY <1>1, <1>2 DEF Holding, Less

LEMMA Counted ==
  ASSUME NEW e, NEW f, NEW D \in SUBSET Devices, NEW s \in Seq(Piece), NEW t, NEW r,
         NEW shut, NEW n \in Nat, n = Cardinality(D), Holding(n), e.num \in Nat,
         Staged(e, n, s, "count", t), Good(r, s, D, shut),
         f.num = Less(e.num), f.flag = e.flag
  PROVE  /\ t = <<>>
         /\ f.num > 0 => Staged(f, n, s, "rest", t)
         /\ f.num = 0 /\ e.flag = "body" =>
              /\ n # 1 /\ Staged(f, n, Append(s, <<"footer">>), "remove", t)
              /\ Good(r, Append(s, <<"footer">>), D, shut)
<1>1. Cardinality(AnswersOf(s)) \in Nat /\ Cardinality(AnswersOf(s)) <= n
  <2>1. Told(s) \subseteq AnswersTo(r, D) /\ Cardinality(Told(s)) = Cardinality(AnswersOf(s))
    BY DEF Good
  <2>2. Cardinality(Told(s)) \in Nat /\ Cardinality(Told(s)) <= Cardinality(D)
    BY <2>1, FewAnswers
  <2>3. QED BY <2>1, <2>2
<1>2. CASE t = <<>> /\ n = 1 /\ e.flag = "data" /\ e.num = 1
  <2>1. Less(1) = 0
    BY <1>2 DEF Holding
  <2>2. QED BY <1>2, <2>1
<1>3. CASE /\ t = <<>> /\ n > 1 /\ e.flag = "body" /\ Rows(s) /\ Len(s) % 2 = 1
           /\ e.num + Cardinality(AnswersOf(s)) = n + 1
  <2>1. PICK c \in Nat, m \in Nat : c = Cardinality(AnswersOf(s)) /\ m = e.num
    BY <1>1
  <2>2. c <= n /\ m + c = n + 1
    BY <1>1, <1>3, <2>1
  <2>3. 0 < m /\ m <= n + 1
    BY <2>2
  <2>4. Less(m) = m - 1
    BY <2>3 DEF Holding
  <2>5. f.num = m - 1 /\ f.num + c = n
    BY <2>1, <2>2, <2>4
  <2>6. Staged(f, n, s, "rest", t)
    BY <1>3, <2>1, <2>5 DEF Staged
  <2>7. ASSUME f.num = 0
        PROVE  Good(r, Append(s, <<"footer">>), D, shut)
    <3>1. c = n
      BY <2>5, <2>7
    <3>2. Framed(Append(s, <<"footer">>), FALSE)
      BY <1>3, RowsGrow
    <3>3. n # 1
      BY <1>3
    <3>4. Framed(Append(s, <<"footer">>), Cardinality(D) = 1)
      BY <3>2, <3>3
    <3>5. Cardinality(AnswersOf(s)) = Cardinality(D)
      BY <2>1, <3>1
    <3>6. <<"footer">> \in Control
      BY DEF Control
    <3>7. QED BY <3>4, <3>5, <3>6, GoodGrows
  <2>8. Staged(f, n, Append(s, <<"footer">>), "remove", t) /\ n # 1
    BY <1>3 DEF Staged
  <2>9. QED BY <1>3, <2>6, <2>7, <2>8
<1>4. QED BY <1>2, <1>3 DEF Staged

LEMMA LastPieces ==
  ASSUME NEW t \in {<<"footer">>, <<"400">>}
  PROVE  t # <<>> /\ t \in Control
  BY DEF Control

LEMMA TimedStaged ==
  ASSUME NEW e, NEW s, NEW w, NEW t, NEW n, t # <<>>, Staged(e, n, s, w, t)
  PROVE  w = "rest" /\ \/ t = <<"400">> /\ s = <<>>
                       \/ t = <<"footer">> /\ n > 1 /\ Rows(s) /\ Len(s) % 2 = 1
  BY DEF Staged

LEMMA TimerWrote ==
  ASSUME NEW e, NEW D, NEW s \in Seq(Piece), NEW w, NEW t, NEW n \in Nat, n = Cardinality(D),
         t # <<>>, Staged(e, n, s, w, t)
  PROVE  Framed(Append(s, t), Cardinality(D) = 1) /\ w = "rest"
<1>1. w = "rest" /\ \/ t = <<"400">> /\ s = <<>>
                    \/ t = <<"footer">> /\ n > 1 /\ Rows(s) /\ Len(s) % 2 = 1
  BY TimedStaged
<1>2. Framed(Append(s, t), n = 1)
  <2>1. CASE t = <<"400">> /\ s = <<>>
    <3>1. Append(s, t) = <<<<"400">>>>
      BY <2>1
    <3>2. QED BY <3>1 DEF Framed
  <2>2. CASE t = <<"footer">> /\ n > 1 /\ Rows(s) /\ Len(s) % 2 = 1
    <3>1. Framed(Append(s, <<"footer">>), FALSE)
      BY <2>2, RowsGrow
    <3>2. n # 1
      BY <2>2
    <3>3. QED BY <2>2, <3>1, <3>2
  <2>3. QED BY <1>1, <2>1, <2>2
<1>3. QED BY <1>1, <1>2

(* An entry that gets its timer.                                           *)
LEMMA SameStaged ==
  ASSUME NEW e, NEW f, NEW n, NEW s, NEW w, NEW t, Staged(e, n, s, w, t),
         f.flag = e.flag, f.num = e.num
  PROVE  Staged(f, n, s, w, t)
  BY DEF Staged

(* The writer finds an entry, and the timer of an entry fires.             *)
LEMMA FoundStaged ==
  ASSUME NEW e, NEW n, NEW s, Staged(e, n, s, "rest", <<>>)
  PROVE  Staged(e, n, s, IF e.flag = "header" THEN "header" ELSE "size", <<>>)
<1>1. <<>> # <<"400">> /\ <<>> # <<"footer">>
  OBVIOUS
<1>2. QED BY <1>1 DEF Staged

LEMMA UnsizedStaged ==
  ASSUME NEW e, NEW n, NEW s, NEW t, Staged(e, n, s, "size", t), e.flag # "body"
  PROVE  Staged(e, n, s, "data", t)
  BY DEF Staged

LEMMA FiredStaged ==
  ASSUME NEW e, NEW f, NEW n, NEW s, Staged(e, n, s, "rest", <<>>)
  PROVE  Staged(f, n, s, "rest", <<IF e.flag = "body" THEN "footer" ELSE "400">>)
<1>1. <<>> # <<"400">> /\ <<>> # <<"footer">>
  OBVIOUS
<1>2. CASE e.flag = "body"
  BY <1>1, <1>2 DEF Staged
<1>3. CASE e.flag # "body"
  BY <1>1, <1>3 DEF Staged
<1>4. QED BY <1>2, <1>3

-----------------------------------------------------------------------------
(* Each entry in use, and what its client has read.                        *)
Size(r)     == Cardinality(asked[r].dest)
Spotless(f) == \A q \in closed \cup crossed : asked[q].fd # f
Step(i)     == IF writer.slot = i THEN writer.pc ELSE "rest"
Timing(i)   == IF timeout.slot = i THEN timeout.answer ELSE <<>>

Kept(i) ==
  conns[i].fd # NoFd /\ Spotless(conns[i].fd) =>
    /\ Staged(conns[i], Size(conns[i].req), reply[conns[i].req], Step(i), Timing(i))
    /\ ToWrite /\ writer.slot = i => asked[writer.answer[1]].fd = conns[i].fd
    /\ i \in {writer.slot, timeout.slot} => conns[i].timer
Stages == conns # Freed => \A i \in Slots : Kept(i)

Seats  == \A f \in Fds : sockets[f] \in Requests => asked[sockets[f]].fd = f
Seated ==
  conns # Freed => \A i \in Slots : conns[i].fd # NoFd => asked[conns[i].req].fd = conns[i].fd
Departed  == \A r \in closed : Gone(r)
LeftDone  == \A r \in Requests : Gone(r) => r \in closed \/ Complete(r)
AskSome   == \A r \in Requests : asked[r].fd # NoFd => asked[r].dest # {}
Unwritten == \A r \in Requests : Unadded(r) /\ Spotless(asked[r].fd) => reply[r] = <<>>
Goods == \A r \in Requests : Clean(r) => Good(r, reply[r], asked[r].dest, r \in closed)

DInv == Seats /\ Seated /\ Departed /\ LeftDone /\ AskSome /\ Unwritten /\ Stages /\ Goods

LEMMA Spots ==
  ASSUME asked' = asked, closed \subseteq closed', crossed \subseteq crossed'
  PROVE  /\ \A f : (Spotless(f))' => Spotless(f)
         /\ \A r : (Clean(r))' => Clean(r)
  BY DEF Spotless, Clean

(* Nothing is written.                                                     *)
LEMMA SilentKeeps ==
  ASSUME TableTyped, DInv, UNCHANGED <<asked, reply>>,
         closed \subseteq closed', crossed \subseteq crossed',
         \A f \in Fds : sockets'[f] \in {sockets[f], NoRequest},
         \A r \in Requests : (Gone(r))' /\ ~Gone(r) => r \in closed' \/ Complete(r),
         \A r \in closed' \ closed : (Gone(r))',
         \A r \in Requests : (Unadded(r))' => Unadded(r),
         Seated', Stages'
  PROVE  DInv'
<1>1. /\ \A f : (Spotless(f))' => Spotless(f)
      /\ \A r : (Clean(r))' => Clean(r)
  BY Spots
<1>2. Seats' /\ AskSome'
  BY Numbers DEF DInv, Seats, AskSome
<1>3. \A r \in Requests : asked[r].fd # NoFd => asked[r].fd \in Fds
  BY DEF TableTyped
<1>4. \A r \in Requests : Gone(r) => (Gone(r))'
  BY <1>3, Numbers DEF Gone
<1>5. Departed'
  BY <1>4 DEF DInv, Departed, TableTyped
<1>6. \A r \in Requests : (Complete(r))' <=> Complete(r)
  BY DEF Complete
<1>7. LeftDone'
  BY <1>6 DEF DInv, LeftDone
<1>8. Unwritten'
  BY <1>1 DEF DInv, Unwritten
<1>9. Goods'
  BY <1>1 DEF DInv, Goods, Good
<1>10. QED BY <1>2, <1>5, <1>7, <1>8, <1>9 DEF DInv

LEMMA QuietKeeps ==
  ASSUME TableTyped, DInv, UNCHANGED <<asked, reply, sockets, closed>>,
         crossed \subseteq crossed', \A r \in Requests : (Unadded(r))' => Unadded(r),
         Seated', Stages'
  PROVE  DInv'
<1>1. \A r : (Gone(r))' <=> Gone(r)
  BY DEF Gone
<1>2. QED BY <1>1, SilentKeeps

(* The entry and the tasks at it stay.                                     *)
LEMMA KeptStays ==
  ASSUME NEW i \in Slots, Kept(i), asked' = asked, closed \subseteq closed',
         crossed \subseteq crossed', conns'[i] = conns[i] \/ conns'[i].fd = NoFd,
         reply'[conns[i].req] = reply[conns[i].req] \/ ~Spotless(conns[i].fd),
         (Step(i))' = Step(i), (Timing(i))' = Timing(i),
         i \in {writer'.slot, timeout'.slot} => i \in {writer.slot, timeout.slot},
         ToWrite' /\ writer'.slot = i => ToWrite /\ writer.slot = i /\ writer'.answer = writer.answer
  PROVE  (Kept(i))'
<1>1. \A f : (Spotless(f))' => Spotless(f)
  BY Spots
<1>2. CASE conns'[i].fd = NoFd
  BY <1>2 DEF Kept
<1>3. CASE conns'[i] = conns[i] /\ conns[i].fd # NoFd /\ (Spotless(conns[i].fd))'
  <2>1. PICK e : e = conns[i]
    OBVIOUS
  <2>2. conns'[i] = e /\ e.fd # NoFd /\ Spotless(e.fd)
    BY <1>1, <1>3, <2>1
  <2>3. PICK n, z, x, t : n = Size(e.req) /\ z = reply[e.req] /\ x = Step(i) /\ t = Timing(i)
    OBVIOUS
  <2>4. Staged(e, n, z, x, t)
    BY <2>1, <2>2, <2>3 DEF Kept
  <2>5. /\ (Size(e.req))' = n /\ reply'[e.req] = z /\ (Step(i))' = x /\ (Timing(i))' = t
    BY <2>1, <2>2, <2>3 DEF Size
  <2>6. ToWrite' /\ writer'.slot = i => asked'[writer'.answer[1]].fd = e.fd
    BY <2>1, <2>2 DEF Kept
  <2>7. i \in {writer'.slot, timeout'.slot} => e.timer
    BY <2>1, <2>2 DEF Kept
  <2>8. QED BY <2>2, <2>4, <2>5, <2>6, <2>7 DEF Kept
<1>4. CASE conns'[i] = conns[i] /\ ~(Spotless(conns[i].fd))'
  <2>1. PICK e : e = conns[i]
    OBVIOUS
  <2>2. conns'[i] = e /\ ~(Spotless(e.fd))'
    BY <1>4, <2>1
  <2>3. QED BY <2>2 DEF Kept
<1>5. QED BY <1>2, <1>3, <1>4

(* The client of an entry still listens while its answer is not ended.     *)
LEMMA Holder ==
  ASSUME TableTyped, DInv, conns # Freed, NEW i \in Slots, conns[i].fd # NoFd,
         Spotless(conns[i].fd), ~Ended(reply[conns[i].req], Size(conns[i].req))
  PROVE  sockets[conns[i].fd] = conns[i].req /\ conns[i].req \in Requests
<1>1. PICK q : q = conns[i].req
  OBVIOUS
<1>2. q \in Requests /\ asked[q].fd = conns[i].fd
  BY <1>1, Entries DEF TableTyped, DInv, Seated
<1>3. q \notin closed
  BY <1>2 DEF Spotless
<1>4. ~Complete(q)
  BY <1>1 DEF Complete, Ended, Size
<1>5. ~Gone(q)
  BY <1>2, <1>3, <1>4 DEF DInv, LeftDone
<1>6. QED BY <1>1, <1>2, <1>5 DEF Gone

(* The entries the writer has not in hand.                                 *)
LEMMA OthersKept ==
  ASSUME TableTyped, DInv, Alone, conns # Freed, NEW w \in Slots, writer.slot = w,
         UNCHANGED <<asked, timeout>>, closed \subseteq closed', crossed \subseteq crossed',
         \A j \in Slots \ {w} : conns'[j] = conns[j] \/ conns'[j].fd = NoFd,
         writer'.slot \in {0, w},
         \A r \in Requests : \/ reply'[r] = reply[r] \/ r = conns[w].req
                             \/ ~Spotless(asked[r].fd)
  PROVE  \A j \in Slots \ {w} : (Kept(j))'
<1> SUFFICES ASSUME NEW j \in Slots \ {w} PROVE (Kept(j))'
  OBVIOUS
<1>1. Kept(j)
  BY DEF DInv, Stages
<1>2. (Step(j))' = Step(j) /\ (Timing(j))' = Timing(j) /\ writer'.slot # j
  BY Numbers DEF Step, Timing
<1>3. CASE conns[j].fd # NoFd
  <2>1. PICK r : r = conns[j].req
    OBVIOUS
  <2>2. r \in Requests /\ asked[r].fd = conns[j].fd
    BY <1>3, <2>1, Entries DEF TableTyped, DInv, Seated
  <2>3. r # conns[w].req
    BY <2>1, <2>2 DEF Alone, Holds
  <2>4. reply'[r] = reply[r] \/ ~Spotless(conns[j].fd)
    BY <2>2, <2>3
  <2>5. QED BY <1>1, <1>2, <2>1, <2>4, KeptStays
<1>4. CASE conns[j].fd = NoFd
  <2>1. conns'[j].fd = NoFd
    BY <1>4
  <2>2. QED BY <2>1 DEF Kept
<1>5. QED BY <1>3, <1>4

(* A piece on its own connection is one more of a good answer; on another  *)
(* one it comes only where the socket number is no longer spotless.        *)
LEMMA SpoiledOwner ==
  ASSUME TableTyped, DInv, NEW f \in Fds, NEW g \in Requests, sockets[f] = g, ~Spotless(f)
  PROVE  ~Clean(g)
<1>1. asked[g].fd = f
  BY DEF DInv, Seats
<1>2. f # NoFd
  BY Numbers
<1>3. ~Gone(g) /\ g \notin closed
  BY <1>1 DEF Gone, DInv, Departed
<1>4. PICK p \in closed \cup crossed : asked[p].fd = f
  BY DEF Spotless
<1>5. QED BY <1>1, <1>3, <1>4 DEF Clean

LEMMA SentKeeps ==
  ASSUME TableTyped, DInv, Fresh, Alone, conns # Freed,
         NEW w \in Slots, writer.slot = w, NEW t \in [Slots -> Conn],
         t[w].fd = conns[w].fd, t[w].req = conns[w].req, t[w].timer = conns[w].timer,
         \A j \in Slots \ {w} : t[j] = conns[j],
         NEW p \in Piece, NEW pc, Sent(t, t[w].fd, p), writer' = [writer EXCEPT !.pc = pc],
         writer'.slot = w, writer'.pc = pc, writer'.answer = writer.answer,
         UNCHANGED <<asked, http, timeout, crossed>>, ToWrite' => ToWrite,
         NEW q, q = conns[w].req,
         conns[w].fd # NoFd /\ Spotless(conns[w].fd) =>
           /\ ~Ended(reply[q], Size(q))
           /\ Staged(t[w], Size(q), Append(reply[q], p), pc, Timing(w))
           /\ Good(q, Append(reply[q], p), asked[q].dest, FALSE)
  PROVE  DInv'
<1>1. /\ conns' = t /\ t # Freed /\ UNCHANGED <<sockets, closed>>
      /\ conns \in [Slots -> Conn]
  BY Entries DEF Sent, TableTyped
<1>2. Seated'
  <2>1. \A j \in Slots : t[j].fd = conns[j].fd /\ t[j].req = conns[j].req
    OBVIOUS
  <2>2. QED BY <1>1, <2>1 DEF DInv, Seated
<1>3. \A r \in Requests : (Unadded(r))' <=> Unadded(r)
  BY DEF Unadded
<1>4. PICK f : f = conns[w].fd
  OBVIOUS
<1>5. \A h : (Spotless(h))' <=> Spotless(h)
  BY <1>1 DEF Spotless
<1>6. CASE f = NoFd
  <2>1. reply' = reply
    BY <1>4, <1>6 DEF Sent
  <2>2. \A j \in Slots \ {w} : (Kept(j))'
    BY <1>1, <2>1, OthersKept
  <2>3. (Kept(w))'
    BY <1>1, <1>4, <1>6 DEF Kept
  <2>4. Stages'
    BY <2>2, <2>3 DEF Stages
  <2>5. QED BY <1>1, <1>2, <1>3, <2>1, <2>4, QuietKeeps
<1>7. CASE f # NoFd
  <2>1. PICK g : g = sockets[f]
    OBVIOUS
  <2>2. f \in Fds /\ g \in Requests
    <3>1. f \in {NoFd} \cup Fds
      BY <1>1, <1>4, Entries
    <3>2. QED BY <1>4, <1>7, <2>1, <3>1 DEF TableTyped, Sent
  <2>3. reply' = [reply EXCEPT ![g] = Append(@, p)]
    BY <1>4, <1>7, <2>1 DEF Sent
  <2>4. reply'[g] = Append(reply[g], p) /\ \A r \in Requests \ {g} : reply'[r] = reply[r]
    BY <2>2, <2>3 DEF TableTyped
  <2>5. asked[g].fd = f /\ ~Gone(g)
    BY <2>1, <2>2 DEF DInv, Seats, Gone
  <2>6. Spotless(f) => g = q /\ q \in Requests
    <3>1. ASSUME Spotless(f) PROVE g = q
      <4>1. ~Ended(reply[conns[w].req], Size(conns[w].req))
        BY <1>4, <1>7, <3>1
      <4>2. sockets[conns[w].fd] = conns[w].req
        BY <1>4, <1>7, <3>1, <4>1, Holder
      <4>3. QED BY <1>4, <2>1, <4>2
    <3>2. QED BY <2>2, <3>1
  <2>7. \A j \in Slots \ {w} : (Kept(j))'
    <3>1. \A r \in Requests : \/ reply'[r] = reply[r] \/ r = conns[w].req
                              \/ ~Spotless(asked[r].fd)
      BY <2>4, <2>5, <2>6
    <3>2. QED BY <1>1, <3>1, OthersKept
  <2>8. (Kept(w))'
    <3>1. CASE ~Spotless(f)
      BY <1>1, <1>4, <1>5, <3>1 DEF Kept
    <3>2. CASE Spotless(f)
      <4>1. PICK e, n, z, x : e = t[w] /\ n = Size(q) /\ z = Append(reply[q], p) /\ x = Timing(w)
        OBVIOUS
      <4>2. Staged(e, n, z, pc, x)
        BY <1>4, <1>7, <3>2, <4>1
      <4>3. conns'[w] = e /\ e.fd = f /\ e.req = q
        BY <1>1, <1>4, <4>1
      <4>4. (Size(q))' = n /\ reply'[q] = z /\ (Step(w))' = pc /\ (Timing(w))' = x
        BY <2>4, <2>6, <3>2, <4>1 DEF Size, Step, Timing
      <4>5. (ToWrite' => asked'[writer'.answer[1]].fd = f) /\ e.timer
        BY <1>4, <1>7, <3>2, <4>1 DEF DInv, Stages, Kept
      <4>6. QED BY <4>2, <4>3, <4>4, <4>5 DEF Kept
    <3>3. QED BY <3>1, <3>2
  <2>9. Stages'
    BY <2>7, <2>8 DEF Stages
  <2>10. \A r \in Requests : (Gone(r))' <=> Gone(r)
    BY <1>1 DEF Gone
  <2>11. Seats' /\ Departed' /\ AskSome'
    BY <1>1, <2>10 DEF DInv, Seats, Departed, AskSome, TableTyped
  <2>12. LeftDone'
    <3>1. \A r \in Requests \ {g} : (Complete(r))' <=> Complete(r)
      BY <2>4 DEF Complete
    <3>2. QED BY <1>1, <2>5, <2>10, <3>1 DEF DInv, LeftDone
  <2>13. Unwritten'
    <3>1. ~(Unadded(g) /\ Spotless(f))
      BY <2>6 DEF Fresh, Holds
    <3>2. QED BY <1>3, <1>5, <2>4, <2>5, <3>1 DEF DInv, Unwritten
  <2>14. Goods'
    <3>1. \A r \in Requests : (Clean(r))' <=> Clean(r)
      BY <1>1 DEF Clean
    <3>2. ASSUME NEW r \in Requests, Clean(r), r # g
          PROVE  Good(r, reply'[r], asked'[r].dest, r \in closed')
      BY <1>1, <2>4, <3>2 DEF DInv, Goods
    <3>3. ASSUME Clean(g)
          PROVE  Good(g, reply'[g], asked'[g].dest, g \in closed')
      <4>1. Spotless(f)
        BY <2>1, <2>2, <3>3, SpoiledOwner
      <4>2. g \notin closed
        BY <2>5 DEF DInv, Departed
      <4>3. Good(g, Append(reply[g], p), asked[g].dest, FALSE)
        BY <1>4, <1>7, <2>6, <4>1
      <4>4. QED BY <1>1, <2>4, <4>2, <4>3 DEF Good
    <3>4. QED BY <3>1, <3>2, <3>3 DEF Goods
  <2>15. QED BY <1>2, <2>9, <2>11, <2>12, <2>13, <2>14 DEF DInv
<1>8. QED BY <1>6, <1>7

(* Connections that close.                                                 *)
LEMMA ClosingGone ==
  ASSUME TableTyped, DInv, NEW F \in SUBSET Fds, Close(F), asked' = asked
  PROVE  /\ \A f \in Fds : sockets'[f] \in {sockets[f], NoRequest}
         /\ closed \subseteq closed'
         /\ \A r \in Requests : (Gone(r))' /\ ~Gone(r) => r \in closed' \/ Complete(r)
         /\ \A r \in closed' \ closed : (Gone(r))'
<1>1. /\ \A f \in Fds : sockets'[f] \in {sockets[f], NoRequest}
      /\ closed \subseteq closed'
  BY CloseCounts
<1>2. /\ sockets' = [f \in Fds |-> IF f \in F THEN NoRequest ELSE sockets[f]]
      /\ closed' = closed \cup {r \in Requests : /\ ~(Complete(r) /\ Served(r))
                                                 /\ \E f \in F : sockets[f] = r}
  BY DEF Close
<1>3. sockets \in [Fds -> Requests \cup {NoRequest}]
      /\ \A r \in Requests : asked[r].fd # NoFd => asked[r].fd \in Fds
  BY DEF TableTyped
<1>4. ASSUME NEW r \in Requests, (Gone(r))', ~Gone(r) PROVE r \in closed' \/ Complete(r)
  <2>1. asked[r].fd \in Fds /\ sockets[asked[r].fd] = r /\ asked[r].fd \in F
    BY <1>2, <1>3, <1>4 DEF Gone
  <2>2. QED BY <1>2, <2>1
<1>5. ASSUME NEW r \in closed' \ closed PROVE (Gone(r))'
  <2>1. PICK f \in F : sockets[f] = r /\ r \in Requests
    BY <1>2
  <2>2. asked[r].fd = f /\ f # NoFd
    BY <2>1, Numbers DEF DInv, Seats
  <2>3. sockets'[f] # r
    BY <1>2, <2>1, Numbers
  <2>4. QED BY <2>2, <2>3 DEF Gone
<1>6. QED BY <1>1, <1>4, <1>5

LEMMA NotSentKeeps ==
  ASSUME TableTyped, DInv, Alone, conns # Freed,
         NEW w \in Slots, writer.slot = w, NEW t \in [Slots -> Conn],
         t[w].fd = conns[w].fd, t[w].req = conns[w].req, \A j \in Slots \ {w} : t[j] = conns[j],
         NotSent(t, t[w].fd), writer' = Resting,
         UNCHANGED <<asked, http, timeout, crossed>>,
         NEW q, q = conns[w].req,
         conns[w].fd # NoFd /\ Spotless(conns[w].fd) => ~Ended(reply[q], Size(q))
  PROVE  DInv'
<1>1. /\ conns' \in [Slots -> Conn] /\ conns' # Freed /\ reply' = reply
      /\ \A j \in Slots : conns'[j] = t[j] \/ conns'[j].fd = NoFd
  <2>1. PICK S : conns' = Cleared(t, S)
    BY DEF NotSent
  <2>2. \A j \in Slots : conns'[j] = t[j] \/ conns'[j].fd = NoFd
    BY <2>1 DEF Cleared, Unused
  <2>3. conns' \in [Slots -> Conn]
    BY <2>1, Entries
  <2>4. QED BY <2>2, <2>3, Entries DEF NotSent
<1>2. /\ conns[w].fd \in Fds /\ conns[w].fd # NoFd /\ Close({conns[w].fd})
      /\ {conns[w].fd} \in SUBSET Fds
  BY Entries DEF NotSent, TableTyped
<1>10. /\ \A f \in Fds : sockets'[f] \in {sockets[f], NoRequest}
       /\ closed \subseteq closed'
       /\ \A r \in Requests : (Gone(r))' /\ ~Gone(r) => r \in closed' \/ Complete(r)
       /\ \A r \in closed' \ closed : (Gone(r))'
  BY <1>2, ClosingGone
<1>11. PICK f : f = conns[w].fd
  OBVIOUS
<1>3. ~(Spotless(f))'
  <2>1. ASSUME Spotless(conns[w].fd), q \notin closed' PROVE FALSE
    <3>1. ~Ended(reply[q], Size(q))
      BY <1>2, <2>1
    <3>2. sockets[conns[w].fd] = q /\ q \in Requests
      BY <1>2, <2>1, <3>1, Holder
    <3>3. ~Complete(q)
      BY <3>1 DEF Complete, Ended, Size
    <3>4. QED BY <1>2, <2>1, <3>2, <3>3 DEF Close
  <2>2. q \in closed' => asked[q].fd = conns[w].fd
    BY <1>2 DEF DInv, Seated
  <2>3. q \in closed' \/ ~Spotless(conns[w].fd)
    BY <2>1
  <2>4. asked' = asked /\ closed \cup crossed \subseteq closed' \cup crossed'
    BY <1>10
  <2>5. QED BY <1>11, <2>2, <2>3, <2>4 DEF Spotless
<1>4. Seated'
  <2>1. \A j \in Slots : conns'[j].fd = NoFd
                         \/ (conns'[j].fd = conns[j].fd /\ conns'[j].req = conns[j].req)
    BY <1>1
  <2>2. QED BY <2>1 DEF DInv, Seated
<1>5. (Kept(w))'
  <2>1. conns'[w].fd \in {f, NoFd}
    BY <1>1, <1>11
  <2>2. QED BY <1>3, <2>1 DEF Kept
<1>6. \A j \in Slots \ {w} : (Kept(j))'
  <2>1. writer'.slot = 0
    BY DEF Resting
  <2>2. \A j \in Slots \ {w} : conns'[j] = conns[j] \/ conns'[j].fd = NoFd
    BY <1>1
  <2>3. QED BY <1>1, <1>10, <2>1, <2>2, OthersKept
<1>7. Stages'
  BY <1>5, <1>6 DEF Stages
<1>8. \A r \in Requests : (Unadded(r))' => Unadded(r)
  BY DEF Unadded
<1>9. QED BY <1>1, <1>4, <1>7, <1>8, <1>10, SilentKeeps

LEMMA MoveKeeps ==
  ASSUME TableTyped, DInv, Alone, conns # Freed, NEW w \in Slots, writer.slot = w,
         UNCHANGED <<asked, http, timeout, crossed, sockets, closed, reply>>,
         writer'.slot \in {0, w}, \A j \in Slots \ {w} : conns'[j] = conns[j],
         \/ conns'[w].fd = NoFd
         \/ conns'[w].fd = conns[w].fd /\ conns'[w].req = conns[w].req /\ (Kept(w))'
  PROVE  DInv'
<1>1. Seated'
  BY DEF DInv, Seated
<1>2. \A j \in Slots \ {w} : (Kept(j))'
  BY OthersKept
<1>3. (Kept(w))'
  BY DEF Kept
<1>4. Stages'
  BY <1>2, <1>3 DEF Stages
<1>5. \A r \in Requests : (Unadded(r))' => Unadded(r)
  BY DEF Unadded
<1>6. QED BY <1>1, <1>4, <1>5, QuietKeeps

(* What the invariant says of the entry in hand.                           *)
LEMMA InHandStaged ==
  ASSUME AInv, DInv, conns # Freed, NEW w \in Slots, writer.slot = w,
         conns[w].fd # NoFd, Spotless(conns[w].fd), NEW q, q = conns[w].req
  PROVE  /\ q \in Requests /\ asked[q].fd = conns[w].fd
         /\ reply[q] \in Seq(Piece) /\ asked[q].dest \in SUBSET Devices
         /\ Size(q) = Cardinality(asked[q].dest) /\ Size(q) \in Nat /\ conns[w].num \in Nat
         /\ Staged(conns[w], Size(q), reply[q], writer.pc, Timing(w))
         /\ Good(q, reply[q], asked[q].dest, FALSE) /\ conns[w].timer
<1>1. conns \in [Slots -> Conn] /\ TableTyped
  BY DEF AInv, TableTyped
<1>2. q \in Requests /\ asked[q].fd = conns[w].fd /\ conns[w].num \in Nat
  BY <1>1, Entries DEF DInv, Seated
<1>3. reply[q] \in Seq(Piece) /\ asked[q].dest \in SUBSET Devices
  BY <1>1, <1>2 DEF TableTyped
<1>4. Size(q) = Cardinality(asked[q].dest) /\ Size(q) \in Nat
  BY <1>3, MlinkHttpdAssumption, FS_Subset, FS_CardinalityType DEF Size, MlinkHttpdAssumption
<1>5. Staged(conns[w], Size(q), reply[q], writer.pc, Timing(w))
  <2>1. Step(w) = writer.pc
    BY DEF Step
  <2>2. QED BY <2>1 DEF DInv, Stages, Kept
<1>6. Good(q, reply[q], asked[q].dest, FALSE)
  <2>1. q \notin closed /\ Clean(q)
    BY <1>2 DEF Spotless, Clean
  <2>2. QED BY <1>2, <2>1 DEF DInv, Goods, Good
<1>7. conns[w].timer
  BY DEF DInv, Stages, Kept
<1>8. QED BY <1>2, <1>3, <1>4, <1>5, <1>6, <1>7

LEMMA HeaderKeeps ==
  ASSUME AInv, WInv, DInv, WriteHeader
  PROVE  DInv'
<1>1. /\ UNCHANGED <<asked, http, timeout, crossed>>
      /\ conns # Freed /\ conns \in [Slots -> Conn] /\ writer.slot \in Slots
      /\ writer.pc = "header" /\ Write(conns, <<"header">>, "mark")
      /\ writer \in [pc : WriterSteps, slot : Slots, answer : Answer]
  BY WriterDoes DEF AInv, WriteHeader, At, notWrites
<1>2. PICK w, q : w \in Slots /\ w = writer.slot /\ q = conns[w].req
  BY <1>1
<1>3. <<"header">> \in Piece
  BY ControlPieces
<1>4. ASSUME conns[w].fd # NoFd, Spotless(conns[w].fd)
      PROVE  /\ ~Ended(reply[q], Size(q))
             /\ Staged(conns[w], Size(q), Append(reply[q], <<"header">>), "mark", Timing(w))
             /\ Good(q, Append(reply[q], <<"header">>), asked[q].dest, FALSE)
  <2>1. /\ reply[q] \in Seq(Piece) /\ Size(q) = Cardinality(asked[q].dest)
        /\ Staged(conns[w], Size(q), reply[q], "header", Timing(w))
    BY <1>1, <1>2, <1>4, InHandStaged
  <2>2. ~Ended(reply[q], Size(q))
    BY <2>1, Unended
  <2>3. QED BY <2>1, <2>2, WroteHeader
<1>5. CASE Sent(conns, conns[w].fd, <<"header">>) /\ Goto("mark")
  <2>1. writer' = [writer EXCEPT !.pc = "mark"]
    BY <1>5 DEF Goto
  <2>2. writer'.slot = w /\ writer'.pc = "mark" /\ writer'.answer = writer.answer
    BY <1>1, <1>2, <2>1
  <2>3. ToWrite
    BY <1>1 DEF ToWrite
  <2>4. QED BY <1>1, <1>2, <1>3, <1>4, <1>5, <2>1, <2>2, <2>3, SentKeeps DEF AInv, WInv
<1>6. CASE NotSent(conns, conns[w].fd) /\ writer' = Resting
  BY <1>1, <1>2, <1>4, <1>6, NotSentKeeps DEF AInv, WInv
<1>7. QED BY <1>1, <1>2, <1>5, <1>6 DEF Write

LEMMA EntryMarked ==
  ASSUME NEW c \in [Slots -> Conn], NEW w \in Slots, NEW t, t = [c EXCEPT ![w].flag = "body"]
  PROVE  /\ t \in [Slots -> Conn] /\ \A j \in Slots \ {w} : t[j] = c[j]
         /\ t[w].fd = c[w].fd /\ t[w].req = c[w].req /\ t[w].num = c[w].num
         /\ t[w].flag = "body" /\ t[w].timer = c[w].timer
<1>1. t \in [Slots -> Conn] /\ t[w].fd = c[w].fd
  BY FlagSet
<1>2. PICK e \in Conn : e = c[w]
  OBVIOUS
<1>3. PICK m : m = [e EXCEPT !.flag = "body"]
  OBVIOUS
<1>4. m.req = e.req /\ m.num = e.num /\ m.flag = "body" /\ m.timer = e.timer
  BY <1>3 DEF Conn, Filled, Blank
<1>5. t[w] = m /\ \A j \in Slots \ {w} : t[j] = c[j]
  BY <1>2, <1>3
<1>6. QED BY <1>1, <1>2, <1>4, <1>5

LEMMA EntryCounted ==
  ASSUME NEW c \in [Slots -> Conn], NEW w \in Slots, NEW n \in Nat, NEW t,
         t = [c EXCEPT ![w].num = n]
  PROVE  /\ t \in [Slots -> Conn] /\ \A j \in Slots \ {w} : t[j] = c[j]
         /\ t[w].fd = c[w].fd /\ t[w].req = c[w].req /\ t[w].num = n
         /\ t[w].flag = c[w].flag /\ t[w].timer = c[w].timer
<1>1. t \in [Slots -> Conn] /\ t[w].fd = c[w].fd
  BY NumberSet
<1>2. PICK e \in Conn : e = c[w]
  OBVIOUS
<1>3. PICK m : m = [e EXCEPT !.num = n]
  OBVIOUS
<1>4. m.req = e.req /\ m.num = n /\ m.flag = e.flag /\ m.timer = e.timer
  BY <1>3 DEF Conn, Filled, Blank
<1>5. t[w] = m /\ \A j \in Slots \ {w} : t[j] = c[j]
  BY <1>2, <1>3
<1>6. QED BY <1>1, <1>2, <1>4, <1>5

LEMMA SizeKeeps ==
  ASSUME AInv, WInv, DInv, WriteSize
  PROVE  DInv'
<1>1. /\ UNCHANGED <<asked, http, timeout, crossed>>
      /\ conns # Freed /\ conns \in [Slots -> Conn] /\ writer.slot \in Slots
      /\ writer.pc \in {"size", "mark"}
      /\ writer \in [pc : WriterSteps, slot : Slots, answer : Answer]
  BY WriterDoes DEF AInv, WriteSize, At, notWrites
<1>2. PICK w, q, x : w \in Slots /\ w = writer.slot /\ q = conns[w].req /\ x = writer.pc
  BY <1>1
<1>3. PICK t : t = Marked
  OBVIOUS
<1>4. /\ t \in [Slots -> Conn] /\ \A j \in Slots \ {w} : t[j] = conns[j]
      /\ t[w].fd = conns[w].fd /\ t[w].req = conns[w].req /\ t[w].num = conns[w].num
      /\ t[w].flag = IF x = "mark" THEN "body" ELSE conns[w].flag
      /\ t[w].timer = conns[w].timer
  <2>1. CASE x = "mark"
    <3>1. t = [conns EXCEPT ![writer.slot].flag = "body"]
      BY <1>2, <1>3, <2>1 DEF Marked
    <3>2. /\ t \in [Slots -> Conn] /\ \A j \in Slots \ {writer.slot} : t[j] = conns[j]
          /\ t[writer.slot].fd = conns[writer.slot].fd
          /\ t[writer.slot].req = conns[writer.slot].req
          /\ t[writer.slot].num = conns[writer.slot].num
          /\ t[writer.slot].flag = "body" /\ t[writer.slot].timer = conns[writer.slot].timer
      BY <1>1, <3>1, EntryMarked
    <3>3. QED BY <1>2, <2>1, <3>2
  <2>2. CASE x # "mark"
    <3>1. t = conns
      BY <1>2, <1>3, <2>2 DEF Marked
    <3>2. QED BY <1>1, <2>2, <3>1
  <2>3. QED BY <2>1, <2>2
<1>5. <<"size">> \in Piece
  BY ControlPieces
<1>6. ToWrite /\ \A pc : writer' = [writer EXCEPT !.pc = pc] =>
                   writer'.slot = w /\ writer'.pc = pc /\ writer'.answer = writer.answer
  BY <1>1, <1>2 DEF ToWrite
<1>7. CASE t[w].flag = "body"
  <2>1. Write(t, <<"size">>, "data")
    BY <1>2, <1>3, <1>7 DEF WriteSize
  <2>2. ASSUME conns[w].fd # NoFd, Spotless(conns[w].fd)
        PROVE  /\ ~Ended(reply[q], Size(q))
               /\ Staged(t[w], Size(q), Append(reply[q], <<"size">>), "data", Timing(w))
               /\ Good(q, Append(reply[q], <<"size">>), asked[q].dest, FALSE)
    <3>1. /\ reply[q] \in Seq(Piece) /\ Size(q) = Cardinality(asked[q].dest) /\ Size(q) \in Nat
          /\ Staged(conns[w], Size(q), reply[q], x, Timing(w))
          /\ Good(q, reply[q], asked[q].dest, FALSE)
      BY <1>1, <1>2, <2>2, InHandStaged
    <3>2. PICK D, n, z, e, f, v : /\ D = asked[q].dest /\ n = Size(q) /\ z = reply[q]
                                  /\ e = conns[w] /\ f = t[w] /\ v = Timing(w)
      OBVIOUS
    <3>3. /\ z \in Seq(Piece) /\ n = Cardinality(D) /\ n \in Nat /\ x \in {"size", "mark"}
          /\ Staged(e, n, z, x, v) /\ Good(q, z, D, FALSE)
      BY <1>1, <1>2, <3>1, <3>2
    <3>4. ~Ended(z, n)
      BY <3>3, Unended
    <3>5. f.num = e.num /\ f.flag = "body" /\ (x = "size" => e.flag = "body")
      BY <1>4, <1>7, <3>2
    <3>6. Staged(f, n, Append(z, <<"size">>), "data", v) /\ Good(q, Append(z, <<"size">>), D, FALSE)
      <4>1. CASE x = "size"
        BY <3>3, <3>5, <4>1, WroteSize
      <4>2. CASE x = "mark"
        BY <3>3, <3>5, <4>2, WroteSize
      <4>3. QED BY <3>3, <4>1, <4>2
    <3>7. QED BY <3>2, <3>4, <3>6
  <2>3. CASE Sent(t, t[w].fd, <<"size">>) /\ Goto("data")
    <3>1. writer' = [writer EXCEPT !.pc = "data"]
      BY <2>3 DEF Goto
    <3>2. QED BY <1>1, <1>2, <1>4, <1>5, <1>6, <2>2, <2>3, <3>1, SentKeeps DEF AInv, WInv
  <2>4. CASE NotSent(t, t[w].fd) /\ writer' = Resting
    BY <1>1, <1>2, <1>4, <2>2, <2>4, NotSentKeeps DEF AInv, WInv
  <2>5. QED BY <1>2, <2>1, <2>3, <2>4 DEF Write
<1>8. CASE t[w].flag # "body"
  <2>1. /\ writer' = [writer EXCEPT !.pc = "data"] /\ UNCHANGED <<conns, sockets, reply, closed>>
        /\ x = "size" /\ conns[w].flag # "body"
    BY <1>1, <1>2, <1>3, <1>4, <1>8 DEF WriteSize, Goto
  <2>2. writer'.slot = w /\ writer'.pc = "data" /\ writer'.answer = writer.answer
    BY <1>6, <2>1
  <2>3. (Kept(w))'
    <3>1. \A h : (Spotless(h))' <=> Spotless(h)
      BY <1>1, <2>1 DEF Spotless
    <3>2. PICK e : e = conns[w]
      OBVIOUS
    <3>3. ASSUME e.fd # NoFd, Spotless(e.fd)
          PROVE  /\ Staged(e, (Size(q))', reply'[q], (Step(w))', (Timing(w))')
                 /\ ToWrite' /\ writer'.slot = w => asked'[writer'.answer[1]].fd = e.fd
                 /\ e.timer
      <4>1. PICK n, z, v : n = Size(q) /\ z = reply[q] /\ v = Timing(w)
        OBVIOUS
      <4>2. Staged(e, n, z, "size", v)
        BY <1>1, <1>2, <2>1, <3>2, <3>3, <4>1, InHandStaged
      <4>3. Staged(e, n, z, "data", v)
        BY <2>1, <3>2, <4>2, UnsizedStaged
      <4>4. (Size(q))' = n /\ reply'[q] = z /\ (Step(w))' = "data" /\ (Timing(w))' = v
        BY <1>1, <2>1, <2>2, <4>1 DEF Size, Step, Timing
      <4>5. asked[writer.answer[1]].fd = e.fd /\ e.timer
        BY <1>1, <1>2, <1>6, <3>2, <3>3 DEF DInv, Stages, Kept
      <4>6. QED BY <1>1, <2>2, <4>3, <4>4, <4>5
    <3>4. conns'[w] = e /\ e.req = q
      BY <1>2, <2>1, <3>2
    <3>5. QED BY <3>1, <3>3, <3>4 DEF Kept
  <2>4. QED BY <1>1, <1>2, <2>1, <2>2, <2>3, MoveKeeps DEF AInv, WInv
<1>9. QED BY <1>7, <1>8

(* The answer is one of the request whose entry the writer has in hand.    *)
LEMMA DataKeeps ==
  ASSUME AInv, WInv, DInv, WriteData
  PROVE  DInv'
<1>1. /\ UNCHANGED <<asked, http, timeout, crossed>>
      /\ conns # Freed /\ conns \in [Slots -> Conn] /\ writer.slot \in Slots
      /\ writer.pc = "data" /\ Write(conns, writer.answer, "count")
      /\ writer \in [pc : WriterSteps, slot : Slots, answer : Answer]
  BY WriterDoes DEF AInv, WriteData, At, notWrites
<1>0. PICK w, q, a : w = writer.slot /\ q = conns[w].req /\ a = writer.answer
  OBVIOUS
<1>2. /\ w \in Slots /\ a \in Answer
      /\ w = writer.slot /\ q = conns[w].req /\ a = writer.answer
  BY <1>0, <1>1
<1>3. a \in Piece
  BY <1>2 DEF Piece
<1>4. PICK b \in Requests, d \in Devices : a = <<b, d>> /\ a[1] = b /\ a[2] = d
  BY <1>2 DEF Answer
<1>5. ToWrite /\ InHand = {a}
  BY <1>1, <1>2 DEF ToWrite, InHand
<1>6. a \notin Told(reply[b]) /\ d \in asked[b].dest /\ asked[b].fd # NoFd
  BY <1>2, <1>4, <1>5 DEF AInv, Singly, Asked, Out
<1>7. ASSUME conns[w].fd # NoFd, Spotless(conns[w].fd)
      PROVE  /\ ~Ended(reply[q], Size(q))
             /\ Staged(conns[w], Size(q), Append(reply[q], a), "count", Timing(w))
             /\ Good(q, Append(reply[q], a), asked[q].dest, FALSE)
  <2>1. /\ q \in Requests /\ reply[q] \in Seq(Piece) /\ asked[q].dest \in SUBSET Devices
        /\ Size(q) = Cardinality(asked[q].dest) /\ Size(q) \in Nat /\ conns[w].num \in Nat
        /\ Staged(conns[w], Size(q), reply[q], "data", Timing(w))
        /\ Good(q, reply[q], asked[q].dest, FALSE)
    BY <1>1, <1>2, <1>7, InHandStaged
  <2>2. ~Ended(reply[q], Size(q))
    BY <2>1, Unended
  <2>3. sockets[conns[w].fd] = q
    BY <1>1, <1>2, <1>7, <2>2, Holder DEF AInv
  <2>4. asked[b].fd = conns[w].fd
    BY <1>1, <1>2, <1>4, <1>5, <1>7 DEF DInv, Stages, Kept
  <2>5. b \notin closed
    BY <1>7, <2>4 DEF Spotless
  <2>6. ~AllTold(b)
    BY <1>4, <1>6 DEF AllTold
  <2>7. ~Gone(b)
    BY <2>5, <2>6 DEF AInv, LeftEarly
  <2>8. b = q
    BY <1>6, <2>3, <2>4, <2>7 DEF Gone
  <2>9. PICK D, n, z, e, v : /\ D = asked[q].dest /\ n = Size(q) /\ z = reply[q]
                             /\ e = conns[w] /\ v = Timing(w)
    OBVIOUS
  <2>10. /\ z \in Seq(Piece) /\ D \in SUBSET Devices /\ n = Cardinality(D) /\ n \in Nat
         /\ e.num \in Nat /\ Staged(e, n, z, "data", v) /\ Good(q, z, D, FALSE)
         /\ d \in D /\ a = <<q, d>> /\ a \notin Told(z) /\ q \in Requests
    BY <1>4, <1>6, <2>1, <2>8, <2>9
  <2>11. Staged(e, n, Append(z, a), "count", v) /\ Good(q, Append(z, a), D, FALSE)
    BY <2>10, WroteAnswer
  <2>12. QED BY <2>2, <2>9, <2>11
<1>8. CASE Sent(conns, conns[w].fd, a) /\ Goto("count")
  <2>1. writer' = [writer EXCEPT !.pc = "count"]
    BY <1>8 DEF Goto
  <2>2. writer'.slot = w /\ writer'.pc = "count" /\ writer'.answer = writer.answer
    BY <1>1, <1>2, <2>1
  <2>3. QED BY <1>1, <1>2, <1>3, <1>5, <1>7, <1>8, <2>1, <2>2, SentKeeps DEF AInv, WInv
<1>9. CASE NotSent(conns, conns[w].fd) /\ writer' = Resting
  BY <1>1, <1>2, <1>7, <1>9, NotSentKeeps DEF AInv, WInv
<1>10. QED BY <1>1, <1>2, <1>8, <1>9 DEF Write

(* The counts of all requests hold.                                        *)
CountsHold == \A D \in SUBSET Devices : Holding(Cardinality(D))

LEMMA FewDevices == ASSUME Cardinality(Devices) < 65536 PROVE CountsHold
<1>1. ASSUME NEW D \in SUBSET Devices PROVE Holding(Cardinality(D))
  <2>1. PICK n, m : n = Cardinality(D) /\ m = Cardinality(Devices)
    OBVIOUS
  <2>2. n \in Nat /\ m \in Nat /\ n <= m
    BY <2>1, MlinkHttpdAssumption, FS_Subset, FS_CardinalityType DEF MlinkHttpdAssumption
  <2>3. n < 65536
    BY <2>1, <2>2
  <2>4. QED BY <2>1, <2>2, <2>3, LessHolds
<1>2. QED BY <1>1 DEF CountsHold

(* An entry with a timer that is cleared is gone.                          *)
LEMMA ClearedGone ==
  ASSUME NEW t \in [Slots -> Conn], NEW S, NEW c, c = Cleared(t, S)
  PROVE  /\ \A j \in S \cap Slots : c[j].fd = NoFd \/ (c[j] = t[j] /\ ~t[j].timer)
         /\ \A j \in Slots \ S : c[j] = t[j]
<1>1. \A j \in Slots : c[j] = (IF j \in S /\ t[j].timer THEN Unused ELSE t[j])
  BY DEF Cleared
<1>2. Unused.fd = NoFd
  BY DEF Unused
<1>3. QED BY <1>1, <1>2

(* The writer is done with its entry and clears it.                        *)
LEMMA ClearedKeeps ==
  ASSUME AInv, WInv, DInv, conns # Freed, NEW w \in Slots, writer.slot = w, writer' = Resting,
         UNCHANGED <<asked, http, timeout, crossed, sockets, closed, reply>>,
         NEW t \in [Slots -> Conn], \A j \in Slots \ {w} : t[j] = conns[j],
         t[w].fd = conns[w].fd, t[w].req = conns[w].req, t[w].timer = conns[w].timer,
         conns' = Cleared(t, {w})
  PROVE  DInv'
<1>1. writer'.slot = 0
  BY DEF Resting
<1>2. /\ conns'[w].fd = NoFd \/ (conns'[w] = t[w] /\ ~conns[w].timer)
      /\ \A j \in Slots \ {w} : conns'[j] = conns[j]
  BY ClearedGone
<1>3. ASSUME conns'[w] = t[w], ~conns[w].timer PROVE (Kept(w))'
  <2>1. PICK f : f = conns[w].fd
    OBVIOUS
  <2>2. f = NoFd \/ ~Spotless(f)
    BY <1>3, <2>1 DEF DInv, Stages, Kept
  <2>3. conns'[w].fd = f /\ ((Spotless(f))' <=> Spotless(f))
    BY <1>3, <2>1 DEF Spotless
  <2>4. QED BY <2>2, <2>3 DEF Kept
<1>4. \/ conns'[w].fd = NoFd
      \/ conns'[w].fd = conns[w].fd /\ conns'[w].req = conns[w].req /\ (Kept(w))'
  BY <1>2, <1>3
<1>5. QED BY <1>1, <1>2, <1>4, MoveKeeps DEF AInv, WInv

LEMMA CountStepKeeps ==
  ASSUME CountsHold, AInv, WInv, DInv, WriteCount
  PROVE  DInv'
<1>1. /\ UNCHANGED <<asked, http, timeout, crossed>>
      /\ conns # Freed /\ conns \in [Slots -> Conn] /\ writer.slot \in Slots
      /\ writer.pc = "count"
      /\ writer \in [pc : WriterSteps, slot : Slots, answer : Answer]
  BY WriterDoes DEF AInv, WriteCount, At, notWrites
<1>2. PICK w, q : w = writer.slot /\ q = conns[w].req
  OBVIOUS
<1>3. w \in Slots /\ conns[w].num \in Nat
  BY <1>1, <1>2, Entries
<1>4. PICK left \in Nat : left = Less(conns[w].num)
  BY <1>3 DEF Less
<1>5. PICK t : t = [conns EXCEPT ![w].num = left]
  OBVIOUS
<1>6. /\ t \in [Slots -> Conn] /\ \A j \in Slots \ {w} : t[j] = conns[j]
      /\ t[w].fd = conns[w].fd /\ t[w].req = conns[w].req /\ t[w].num = left
      /\ t[w].flag = conns[w].flag /\ t[w].timer = conns[w].timer
  BY <1>1, <1>3, <1>5, EntryCounted
<1>7. ASSUME conns[w].fd # NoFd, Spotless(conns[w].fd)
      PROVE  /\ conns[w].timer
             /\ left > 0 => Staged(t[w], Size(q), reply[q], "rest", Timing(w))
             /\ left = 0 /\ conns[w].flag = "body" =>
                  /\ ~Ended(reply[q], Size(q))
                  /\ Staged(t[w], Size(q), Append(reply[q], <<"footer">>), "remove", Timing(w))
                  /\ Good(q, Append(reply[q], <<"footer">>), asked[q].dest, FALSE)
  <2>1. /\ reply[q] \in Seq(Piece) /\ asked[q].dest \in SUBSET Devices
        /\ Size(q) = Cardinality(asked[q].dest) /\ Size(q) \in Nat
        /\ Staged(conns[w], Size(q), reply[q], "count", Timing(w))
        /\ Good(q, reply[q], asked[q].dest, FALSE) /\ conns[w].timer
    BY <1>1, <1>2, <1>3, <1>7, InHandStaged
  <2>3. Holding(Size(q))
    BY <2>1 DEF CountsHold
  <2>4. PICK D, n, z, e, f, v : /\ D = asked[q].dest /\ n = Size(q) /\ z = reply[q]
                                /\ e = conns[w] /\ f = t[w] /\ v = Timing(w)
    OBVIOUS
  <2>5. /\ z \in Seq(Piece) /\ D \in SUBSET Devices /\ n = Cardinality(D) /\ n \in Nat
        /\ Holding(n) /\ e.num \in Nat /\ Staged(e, n, z, "count", v) /\ Good(q, z, D, FALSE)
        /\ f.num = Less(e.num) /\ f.flag = e.flag /\ f.num = left
    BY <1>3, <1>4, <1>6, <2>1, <2>3, <2>4
  <2>6. /\ f.num > 0 => Staged(f, n, z, "rest", v)
        /\ f.num = 0 /\ e.flag = "body" =>
             /\ n # 1 /\ Staged(f, n, Append(z, <<"footer">>), "remove", v)
             /\ Good(q, Append(z, <<"footer">>), D, FALSE)
    BY <2>5, Counted
  <2>7. n # 1 => ~Ended(z, n)
    BY <2>5, Unended
  <2>8. QED BY <2>1, <2>4, <2>5, <2>6, <2>7
<1>8. CASE left > 0
  <2>1. conns' = t /\ writer' = Resting /\ UNCHANGED <<sockets, reply, closed>>
    BY <1>2, <1>4, <1>5, <1>8 DEF WriteCount, Slot
  <2>2. writer'.slot = 0 /\ ~ToWrite' /\ (Step(w))' = "rest"
    BY <1>3, <2>1, Numbers DEF Resting, ToWrite, Step
  <2>3. (Kept(w))'
    <3>1. \A h : (Spotless(h))' <=> Spotless(h)
      BY <1>1, <2>1 DEF Spotless
    <3>2. PICK f, n, z, v : f = t[w] /\ n = Size(q) /\ z = reply[q] /\ v = Timing(w)
      OBVIOUS
    <3>3. f.fd # NoFd /\ Spotless(f.fd) => Staged(f, n, z, "rest", v) /\ f.timer
      BY <1>6, <1>7, <1>8, <3>2
    <3>4. /\ conns'[w] = f /\ f.req = q /\ (Size(q))' = n /\ reply'[q] = z
          /\ (Timing(w))' = v
      BY <1>1, <1>2, <1>6, <2>1, <3>2 DEF Size, Timing
    <3>5. QED BY <2>2, <3>1, <3>3, <3>4 DEF Kept
  <2>4. QED BY <1>1, <1>2, <1>3, <1>6, <2>1, <2>2, <2>3, MoveKeeps DEF AInv, WInv
<1>9. CASE left = 0 /\ conns[w].flag = "body"
  <2>1. Write(t, <<"footer">>, "remove")
    BY <1>2, <1>4, <1>5, <1>9 DEF WriteCount, Slot
  <2>2. <<"footer">> \in Piece
    BY ControlPieces
  <2>3. ASSUME conns[w].fd # NoFd, Spotless(conns[w].fd)
        PROVE  /\ ~Ended(reply[q], Size(q))
               /\ Staged(t[w], Size(q), Append(reply[q], <<"footer">>), "remove", Timing(w))
               /\ Good(q, Append(reply[q], <<"footer">>), asked[q].dest, FALSE)
    BY <1>7, <1>9, <2>3
  <2>4. CASE Sent(t, t[w].fd, <<"footer">>) /\ Goto("remove")
    <3>1. writer' = [writer EXCEPT !.pc = "remove"]
      BY <2>4 DEF Goto
    <3>2. /\ writer'.slot = w /\ writer'.pc = "remove" /\ writer'.answer = writer.answer
          /\ ~ToWrite'
      BY <1>1, <1>2, <3>1 DEF ToWrite
    <3>3. QED BY <1>1, <1>2, <1>3, <1>6, <2>2, <2>3, <2>4, <3>1, <3>2, SentKeeps DEF AInv, WInv
  <2>5. CASE NotSent(t, t[w].fd) /\ writer' = Resting
    BY <1>1, <1>2, <1>3, <1>6, <2>3, <2>5, NotSentKeeps DEF AInv, WInv
  <2>6. QED BY <1>2, <2>1, <2>4, <2>5 DEF Write
<1>10. CASE left = 0 /\ conns[w].flag # "body"
  <2>1. conns' = Cleared(t, {w}) /\ writer' = Resting /\ UNCHANGED <<sockets, reply, closed>>
    BY <1>2, <1>4, <1>5, <1>10 DEF WriteCount, Slot
  <2>2. QED BY <1>1, <1>2, <1>3, <1>6, <2>1, ClearedKeeps
<1>11. QED BY <1>4, <1>8, <1>9, <1>10

LEMMA RemoveKeeps ==
  ASSUME AInv, WInv, DInv, WriteRemove
  PROVE  DInv'
<1>1. /\ UNCHANGED <<asked, http, timeout, crossed>>
      /\ conns # Freed /\ conns \in [Slots -> Conn] /\ writer.slot \in Slots
  BY WriterDoes DEF AInv, notWrites
<1>2. PICK w \in Slots : w = writer.slot
  BY <1>1
<1>3. conns' = Cleared(conns, {w}) /\ writer' = Resting /\ UNCHANGED <<sockets, reply, closed>>
  BY <1>2 DEF WriteRemove
<1>4. QED BY <1>1, <1>2, <1>3, ClearedKeeps

(* The writer takes an answer and finds its entry.                         *)
LEMMA CallStepKeeps ==
  ASSUME AInv, DInv, NEW a \in mesh, WriteCall(a)
  PROVE  DInv'
<1>1. /\ UNCHANGED <<asked, http, timeout, conns, sockets, reply, closed, crossed>>
      /\ writer.pc = "idle" /\ writer'.slot = 0
  <2>1. writer = Resting
    BY DEF WriteCall, AInv, WriterTyped, WriterSteps
  <2>2. [Resting EXCEPT !.pc = "find", !.answer = a].slot = 0 /\ Resting.slot = 0
    BY DEF Resting
  <2>3. QED BY <2>1, <2>2 DEF WriteCall, notWriter, tableVars
<1>2. writer.slot = 0
  BY <1>1 DEF AInv, WriterTyped, Resting, WriterSteps
<1>3. Seated'
  BY <1>1 DEF DInv, Seated
<1>4. \A i \in Slots : (Step(i))' = Step(i) /\ (Timing(i))' = Timing(i) /\ writer'.slot # i
  BY <1>1, <1>2, Numbers DEF Step, Timing
<1>5. conns # Freed => \A i \in Slots : (Kept(i))'
  BY <1>1, <1>4, KeptStays DEF DInv, Stages
<1>6. Stages'
  BY <1>1, <1>5 DEF Stages
<1>7. \A r \in Requests : (Unadded(r))' => Unadded(r)
  BY <1>1 DEF Unadded
<1>8. QED BY <1>1, <1>3, <1>6, <1>7, QuietKeeps DEF AInv

(* An entry found on a spotless socket has its timer: another request      *)
(* whose answer comes while the entry is added would have gone before.     *)
LEMMA FoundTimed ==
  ASSUME AInv, WInv, DInv, conns # Freed, writer.pc = "find", NEW w \in Slots,
         NEW b, b = writer.answer[1], asked[b].fd # NoFd, conns[w].fd = asked[b].fd,
         conns[w].req \in Requests, Spotless(conns[w].fd)
  PROVE  conns[w].timer
<1>1. PICK q, f : q = conns[w].req /\ f = conns[w].fd
  OBVIOUS
<1>2. q \in Requests /\ asked[q].fd = f /\ asked[b].fd = f /\ f # NoFd
  BY <1>1 DEF DInv, Seated
<1>3. q \notin crossed /\ q \notin closed /\ b \notin closed
  BY <1>1, <1>2 DEF Spotless
<1>4. Watched(w) \/ Adding(w)
  BY <1>1, <1>2, <1>3 DEF WInv, Timed, Holds, Guarded
<1>5. ASSUME Adding(w) PROVE FALSE
  <2>1. http.pc = "timer" /\ q = http.req
    BY <1>1, <1>5 DEF Adding, WInv, Half
  <2>2. q \in Asking
    BY <2>1 DEF Asking
  <2>3. writer.answer \in Answer /\ writer.answer \in InHand /\ ToWrite
    BY DEF AInv, WriterTyped, WriterSteps, Resting, InHand, ToWrite
  <2>4. PICK d \in Devices : writer.answer = <<b, d>> /\ b \in Requests
    BY <2>3 DEF Answer
  <2>5. b # q /\ <<b, d>> \notin Out /\ d \in asked[b].dest
    BY <2>2, <2>3, <2>4 DEF AInv, Singly, Asked
  <2>6. ~AllTold(b)
    BY <2>3, <2>4, <2>5 DEF AllTold, Out
  <2>7. ~AllTold(q)
    <3>1. PICK c : c \in asked[q].dest
      BY <1>2 DEF DInv, AskSome
    <3>2. ASSUME <<q, c>> \in Told(reply[q]) PROVE FALSE
      <4>1. <<q, c>> \in Answer
        BY <3>2 DEF Told
      <4>2. <<q, c>> \in Out
        BY <3>2, <4>1 DEF Out
      <4>3. QED BY <2>2, <4>2 DEF AInv, Singly
    <3>3. QED BY <3>1, <3>2 DEF AllTold
  <2>8. ~Gone(b) /\ ~Gone(q)
    BY <1>2, <1>3, <2>4, <2>6, <2>7 DEF AInv, LeftEarly
  <2>9. QED BY <1>2, <2>5, <2>8 DEF Gone
<1>6. QED BY <1>4, <1>5 DEF Watched

LEMMA FindStepKeeps ==
  ASSUME AInv, WInv, DInv, WriteFind
  PROVE  DInv'
<1>1. PICK F, b : F = FirstFound(conns, asked[writer.answer[1]].fd) /\ b = writer.answer[1]
  OBVIOUS
<1>2. /\ UNCHANGED <<asked, http, timeout, conns, sockets, reply, closed>>
      /\ writer.pc = "find" /\ conns # Freed
      /\ crossed' = crossed \cup {conns[i].req : i \in F \cap {timeout.slot}}
      /\ writer' = IF F = {} THEN Resting
                   ELSE [writer EXCEPT !.slot = Least(F),
                           !.pc = IF conns[Least(F)].flag = "header" THEN "header" ELSE "size"]
  BY <1>1 DEF WriteFind, notWriter
<1>3. conns \in [Slots -> Conn] /\ writer \in [pc : {"find"}, slot : {0}, answer : Answer]
  BY <1>2 DEF AInv, TableTyped, WriterTyped, Resting, WriterSteps
<1>4. asked[b].fd # NoFd
  BY <1>1, <1>2 DEF AInv, Singly, InHand
<1>5. Seated'
  BY <1>2 DEF DInv, Seated
<1>6. \A r \in Requests : (Unadded(r))' => Unadded(r)
  BY <1>2 DEF Unadded
<1>7. \A i \in Slots : Step(i) = "rest" /\ (Timing(i))' = Timing(i) /\ Kept(i)
  BY <1>2, <1>3, Numbers DEF Step, Timing, DInv, Stages
<1>8. CASE F = {}
  <2>1. writer'.slot = 0
    BY <1>2, <1>8 DEF Resting
  <2>2. \A i \in Slots : (Step(i))' = "rest" /\ writer'.slot # i
    BY <2>1, Numbers DEF Step
  <2>3. \A i \in Slots : (Kept(i))'
    BY <1>2, <1>7, <2>2, KeptStays
  <2>4. Stages'
    BY <2>3 DEF Stages
  <2>5. QED BY <1>2, <1>5, <1>6, <2>4, QuietKeeps DEF AInv
<1>9. CASE F # {}
  <2>1. PICK w \in Slots : /\ F = {w} /\ Least(F) = w /\ conns[w].fd = asked[b].fd
                           /\ conns[w].req \in Requests
    BY <1>1, <1>3, <1>4, <1>9, FoundRequest
  <2>2. /\ writer'.slot = w /\ writer'.answer = writer.answer
        /\ writer'.pc = IF conns[w].flag = "header" THEN "header" ELSE "size"
    BY <1>2, <1>3, <1>9, <2>1
  <2>3. \A i \in Slots \ {w} : (Kept(i))'
    <3>1. \A i \in Slots \ {w} : (Step(i))' = "rest" /\ writer'.slot # i
      BY <2>2 DEF Step
    <3>2. QED BY <1>2, <1>7, <3>1, KeptStays
  <2>4. (Kept(w))'
    <3>1. PICK e, q : e = conns[w] /\ q = e.req
      OBVIOUS
    <3>2. ASSUME (Spotless(e.fd))' PROVE Spotless(e.fd) /\ timeout.slot # w
      <4>1. Spotless(e.fd)
        BY <1>2, <3>2 DEF Spotless
      <4>2. asked[q].fd = e.fd
        BY <1>2, <1>4, <2>1, <3>1 DEF DInv, Seated
      <4>3. q \notin crossed'
        BY <1>2, <3>2, <4>2 DEF Spotless
      <4>4. timeout.slot = w => q \in crossed'
        BY <1>2, <2>1, <3>1
      <4>5. QED BY <4>1, <4>3, <4>4
    <3>3. PICK n, z : n = Size(q) /\ z = reply[q]
      OBVIOUS
    <3>4. ASSUME e.fd # NoFd, (Spotless(e.fd))'
          PROVE  Staged(e, n, z, (Step(w))', (Timing(w))')
      <4>1. Staged(e, n, z, "rest", <<>>)
        BY <1>7, <3>1, <3>2, <3>3, <3>4 DEF Kept, Timing
      <4>2. Staged(e, n, z, IF e.flag = "header" THEN "header" ELSE "size", <<>>)
        BY <4>1, FoundStaged
      <4>3. (Step(w))' = IF e.flag = "header" THEN "header" ELSE "size"
        BY <2>2, <3>1 DEF Step
      <4>4. (Timing(w))' = <<>>
        BY <1>2, <3>2, <3>4 DEF Timing
      <4>5. QED BY <4>2, <4>3, <4>4
    <3>5. (Size(q))' = n /\ reply'[q] = z /\ conns'[w] = e
      BY <1>2, <3>1, <3>3 DEF Size
    <3>6. asked'[writer'.answer[1]].fd = e.fd
      BY <1>1, <1>2, <2>1, <2>2, <3>1
    <3>7. ASSUME (Spotless(e.fd))' PROVE e.timer
      BY <1>1, <1>2, <1>4, <2>1, <3>1, <3>2, <3>7, FoundTimed
    <3>8. QED BY <3>1, <3>4, <3>5, <3>6, <3>7 DEF Kept
  <2>5. Stages'
    BY <2>3, <2>4 DEF Stages
  <2>6. QED BY <1>2, <1>5, <1>6, <2>5, QuietKeeps DEF AInv
<1>10. QED BY <1>8, <1>9

-----------------------------------------------------------------------------
(* The timer.                                                              *)
LEMMA FireStepKeeps ==
  ASSUME AInv, DInv, NEW i \in Slots, TimerFires(i)
  PROVE  DInv'
<1>1. /\ UNCHANGED <<asked, http, writer, sockets, reply, closed>>
      /\ conns # Freed /\ timeout.pc = "idle" /\ conns[i].timer
      /\ timeout' = [pc |-> "send", slot |-> i,
                     answer |-> <<IF conns[i].flag = "body" THEN "footer" ELSE "400">>]
      /\ conns' = [conns EXCEPT ![i].flag = "data"]
      /\ crossed' = IF writer.slot = i THEN crossed \cup {conns[i].req} ELSE crossed
  BY DEF TimerFires, Expires, notTimer
<1>2. conns \in [Slots -> Conn] /\ timeout.slot = 0
  BY <1>1 DEF AInv, TableTyped, TimerTyped, Resting
<1>3. PICK e \in Conn : e = conns[i]
  BY <1>2
<1>4. PICK m : m = [e EXCEPT !.flag = "data"]
  OBVIOUS
<1>5. /\ e.fd # NoFd /\ m.fd = e.fd /\ m.req = e.req /\ m.timer
      /\ conns'[i] = m /\ \A j \in Slots \ {i} : conns'[j] = conns[j]
  <2>1. e \in Filled
    BY <1>1, <1>3 DEF Conn, Blank
  <2>2. e.fd # NoFd
    BY <2>1, Numbers DEF Filled
  <2>3. m.fd = e.fd /\ m.req = e.req /\ m.timer
    BY <1>1, <1>3, <1>4, <2>1 DEF Filled
  <2>4. conns'[i] = m /\ \A j \in Slots \ {i} : conns'[j] = conns[j]
    BY <1>1, <1>2, <1>3, <1>4
  <2>5. QED BY <2>2, <2>3, <2>4
<1>6. crossed \subseteq crossed' /\ ToWrite' = ToWrite
  BY <1>1 DEF ToWrite
<1>7. Seated'
  <2>1. \A j \in Slots : conns'[j].fd = conns[j].fd /\ conns'[j].req = conns[j].req
    BY <1>3, <1>5
  <2>2. QED BY <1>1, <2>1 DEF DInv, Seated
<1>8. \A j \in Slots \ {i} : (Kept(j))'
  <2>1. timeout'.slot = i
    BY <1>1
  <2>2. \A j \in Slots \ {i} : (Step(j))' = Step(j) /\ (Timing(j))' = Timing(j)
    BY <1>1, <1>2, <2>1, Numbers DEF Step, Timing
  <2>3. \A j \in Slots \ {i} :
          j \in {writer'.slot, timeout'.slot} => j \in {writer.slot, timeout.slot}
    BY <1>1, <2>1
  <2>4. QED BY <1>1, <1>5, <1>6, <2>2, <2>3, KeptStays DEF DInv, Stages
<1>9. (Kept(i))'
  <2>1. PICK q, n, z : q = e.req /\ n = Size(q) /\ z = reply[q]
    OBVIOUS
  <2>2. ASSUME (Spotless(e.fd))' PROVE Spotless(e.fd) /\ writer.slot # i
    <3>1. Spotless(e.fd)
      BY <1>1, <1>6, <2>2, Spots
    <3>2. asked[q].fd = e.fd
      BY <1>1, <1>3, <1>5, <2>1 DEF DInv, Seated
    <3>3. q \notin crossed'
      BY <1>1, <2>2, <3>2 DEF Spotless
    <3>4. writer.slot = i => q \in crossed'
      BY <1>1, <1>3, <2>1
    <3>5. QED BY <3>1, <3>3, <3>4
  <2>3. ASSUME (Spotless(e.fd))'
        PROVE  Staged(m, n, z, (Step(i))', (Timing(i))') /\ writer'.slot # i
    <3>1. Step(i) = "rest" /\ Timing(i) = <<>>
      BY <1>2, <2>2, <2>3, Numbers DEF Step, Timing
    <3>2. Staged(e, n, z, "rest", <<>>)
      BY <1>1, <1>3, <1>5, <2>1, <2>2, <2>3, <3>1 DEF DInv, Stages, Kept
    <3>3. Staged(m, n, z, "rest", <<IF e.flag = "body" THEN "footer" ELSE "400">>)
      BY <3>2, FiredStaged
    <3>4. (Step(i))' = "rest"
      BY <1>1, <2>2, <2>3 DEF Step
    <3>5. (Timing(i))' = <<IF e.flag = "body" THEN "footer" ELSE "400">>
      <4>1. timeout'.slot = i /\ timeout'.answer = <<IF e.flag = "body" THEN "footer" ELSE "400">>
        BY <1>1, <1>3
      <4>2. QED BY <4>1 DEF Timing
    <3>6. QED BY <1>1, <2>2, <2>3, <3>3, <3>4, <3>5
  <2>4. (Size(q))' = n /\ reply'[q] = z
    BY <1>1, <2>1 DEF Size
  <2>5. QED BY <1>5, <2>1, <2>3, <2>4 DEF Kept
<1>10. Stages'
  BY <1>8, <1>9 DEF Stages
<1>11. \A r \in Requests : (Unadded(r))' => Unadded(r)
  BY <1>1 DEF Unadded
<1>12. QED BY <1>1, <1>6, <1>7, <1>10, <1>11, QuietKeeps DEF AInv

LEMMA CloseStepKeeps ==
  ASSUME AInv, WInv, DInv, TimerCloses
  PROVE  DInv'
<1>1. PICK i, f, open : /\ i = timeout.slot /\ f = conns[i].fd
                        /\ open = (f # NoFd /\ sockets[f] # NoRequest)
  OBVIOUS
<1>2. /\ UNCHANGED <<asked, http, writer>> /\ timeout' = Resting
      /\ conns # Freed /\ timeout.pc = "send"
  BY DEF TimerCloses, notTimer
<1>3. /\ conns \in [Slots -> Conn] /\ i \in Slots /\ TableTyped
      /\ timeout.answer \in {<<"footer">>, <<"400">>}
  BY <1>1, <1>2 DEF AInv, TableTyped, TimerTyped, Resting
<1>4. \/ open /\ crossed' = crossed
          /\ reply' = [reply EXCEPT ![sockets[f]] = Append(@, timeout.answer)]
      \/ UNCHANGED <<reply, crossed>>
      \/ open /\ UNCHANGED reply /\ crossed \subseteq crossed'
  BY <1>1 DEF TimerCloses
<1>5. /\ closed' = IF open THEN closed \cup {sockets[f]} ELSE closed
      /\ sockets' = IF open THEN [sockets EXCEPT ![f] = NoRequest] ELSE sockets
  BY <1>1 DEF TimerCloses
<1>6. /\ \A j \in Slots : conns'[j] = conns[j] \/ conns'[j].fd = NoFd
      /\ conns'[i].fd = NoFd \/ ~conns[i].timer
      /\ conns' # Freed
  <2>1. PICK S : conns' = Cleared(conns, S) /\ i \in S
    BY <1>1 DEF TimerCloses
  <2>2. conns' # Freed
    BY <1>3, <2>1, Entries
  <2>3. QED BY <1>3, <2>1, <2>2, ClearedGone
<1>7. Seated'
  BY <1>2, <1>6 DEF DInv, Seated
<1>8. /\ \A j \in Slots \ {i} : (Step(j))' = Step(j) /\ (Timing(j))' = Timing(j)
      /\ timeout'.slot = 0 /\ ToWrite' = ToWrite
  <2>1. timeout'.slot = 0
    BY <1>2 DEF Resting
  <2>2. QED BY <1>1, <1>2, <2>1, Numbers DEF Step, Timing, ToWrite
<1>9. \A r \in Requests : (Unadded(r))' <=> Unadded(r)
  BY <1>2 DEF Unadded
<1>10. CASE ~open
  <2>0. UNCHANGED <<closed, reply, sockets, crossed>>
    BY <1>4, <1>5, <1>10
  <2>1. \A j \in Slots \ {i} : (Kept(j))'
    <3>1. \A j \in Slots \ {i} : j \in {writer'.slot, timeout'.slot} => j \in {writer.slot, timeout.slot}
      BY <1>2, <1>8, Numbers
    <3>2. QED BY <1>2, <1>6, <1>8, <2>0, <3>1, KeptStays DEF DInv, Stages
  <2>2. (Kept(i))'
    <3>1. CASE conns'[i].fd = NoFd
      BY <3>1 DEF Kept
    <3>2. CASE conns'[i].fd # NoFd
      <4>1. conns'[i].fd = f /\ ~conns[i].timer
        BY <1>1, <1>3, <1>6, <3>2
      <4>2. ~Spotless(f)
        BY <1>1, <1>2, <1>3, <1>6, <3>2, <4>1 DEF DInv, Stages, Kept
      <4>3. ~(Spotless(f))'
        BY <1>2, <2>0, <4>2 DEF Spotless
      <4>4. QED BY <4>1, <4>3 DEF Kept
    <3>3. QED BY <3>1, <3>2
  <2>3. Stages'
    BY <2>1, <2>2 DEF Stages
  <2>4. QED BY <1>2, <1>3, <1>7, <1>9, <2>0, <2>3, QuietKeeps
<1>11. CASE open
  <2>1. PICK g : g = sockets[f]
    OBVIOUS
  <2>2. f \in Fds /\ g \in Requests /\ f # NoFd
    <3>1. f \in {NoFd} \cup Fds
      BY <1>1, <1>3, Entries
    <3>2. QED BY <1>1, <1>3, <1>11, <2>1, <3>1 DEF TableTyped
  <2>3. /\ sockets'[f] = NoRequest /\ \A h \in Fds \ {f} : sockets'[h] = sockets[h]
        /\ closed' = closed \cup {g}
        /\ \/ /\ reply'[g] = Append(reply[g], timeout.answer) /\ crossed' = crossed
              /\ \A r \in Requests \ {g} : reply'[r] = reply[r]
           \/ reply' = reply /\ crossed \subseteq crossed'
    BY <1>3, <1>4, <1>5, <1>11, <2>1, <2>2 DEF TableTyped
  <2>4. asked[g].fd = f /\ ~Gone(g) /\ g \notin closed
    BY <2>1, <2>2 DEF DInv, Seats, Gone, Departed
  <2>5. /\ \A h : (Spotless(h))' => Spotless(h) /\ h # f
        /\ \A r \in Requests : (Clean(r))' => Clean(r)
    <3>1. closed \subseteq closed' /\ crossed \subseteq crossed' /\ g \in closed'
      BY <2>3
    <3>2. \A h : (Spotless(h))' => h # f
      BY <1>2, <2>4, <3>1 DEF Spotless
    <3>3. QED BY <1>2, <3>1, <3>2, Spots
  <2>6. Spotless(f) => /\ g = conns[i].req /\ Clean(g)
                       /\ Good(g, Append(reply[g], timeout.answer), asked[g].dest, TRUE)
    <3>1. SUFFICES ASSUME Spotless(f)
                   PROVE  /\ g = conns[i].req /\ Clean(g)
                          /\ Good(g, Append(reply[g], timeout.answer), asked[g].dest, TRUE)
      OBVIOUS
    <3>2. PICK q, e, n, z, D, x, t :
            /\ q = conns[i].req /\ e = conns[i] /\ n = Size(q) /\ z = reply[q]
            /\ D = asked[q].dest /\ x = Step(i) /\ t = timeout.answer
      OBVIOUS
    <3>3. /\ q \in Requests /\ asked[q].fd = f
      BY <1>1, <1>2, <1>3, <2>2, <3>2, Entries DEF DInv, Seated
    <3>4. q \notin closed /\ Clean(q)
      BY <3>1, <3>3 DEF Spotless, Clean
    <3>5. /\ z \in Seq(Piece) /\ D \in SUBSET Devices /\ n = Cardinality(D) /\ n \in Nat
      <4>1. z \in Seq(Piece) /\ D \in SUBSET Devices
        BY <1>3, <3>2, <3>3 DEF TableTyped
      <4>2. n = Cardinality(D)
        BY <3>2 DEF Size
      <4>3. QED BY <4>1, <4>2, MlinkHttpdAssumption, FS_Subset, FS_CardinalityType
                DEF MlinkHttpdAssumption
    <3>6. Staged(e, n, z, x, t)
      <4>1. Timing(i) = t
        BY <1>1, <3>2 DEF Timing
      <4>2. QED BY <1>1, <1>2, <1>3, <2>2, <3>1, <3>2, <4>1 DEF DInv, Stages, Kept
    <3>7. Good(q, z, D, FALSE)
      BY <3>2, <3>3, <3>4 DEF DInv, Goods, Good
    <3>8. t \in {<<"footer">>, <<"400">>}
      BY <1>3, <3>2
    <3>9. Good(q, Append(z, t), D, TRUE) /\ x = "rest"
      <4>1. t # <<>> /\ t \in Control
        BY <3>8, LastPieces
      <4>2. Framed(Append(z, t), Cardinality(D) = 1) /\ x = "rest"
        BY <3>5, <3>6, <4>1, TimerWrote
      <4>3. Good(q, z, D, TRUE)
        BY <3>7 DEF Good
      <4>4. QED BY <3>5, <4>1, <4>2, <4>3, GoodGrows
    <3>10. ~Ended(z, n)
      BY <3>5, <3>6, <3>9, Unended
    <3>11. g = q
      BY <1>1, <1>2, <1>3, <2>1, <2>2, <3>1, <3>2, <3>10, Holder
    <3>12. QED BY <3>2, <3>4, <3>9, <3>11
  <2>7. Stages'
    <3>1. ASSUME NEW j \in Slots PROVE (Kept(j))'
      <4>1. PICK h, q : h = conns[j].fd /\ q = conns[j].req
        OBVIOUS
      <4>2. CASE conns'[j].fd = NoFd \/ h = f
        <5>1. conns'[j].fd = NoFd \/ conns'[j].fd = f
          BY <1>6, <4>1, <4>2
        <5>2. QED BY <2>5, <5>1 DEF Kept
      <4>3. CASE conns'[j].fd # NoFd /\ h # f
        <5>1. conns'[j] = conns[j] /\ h # NoFd /\ j # i
          BY <1>1, <1>6, <4>1, <4>3
        <5>2. q \in Requests /\ asked[q].fd = h
          BY <1>2, <1>3, <4>1, <5>1, Entries DEF DInv, Seated
        <5>3. reply'[q] = reply[q]
          BY <2>3, <2>4, <4>3, <5>2
        <5>4. j \in {writer'.slot, timeout'.slot} => j \in {writer.slot, timeout.slot}
          BY <1>2, <1>8, Numbers
        <5>5. closed \subseteq closed' /\ crossed \subseteq crossed'
          BY <2>3
        <5>6. QED BY <1>2, <1>8, <4>1, <5>1, <5>3, <5>4, <5>5, KeptStays DEF DInv, Stages
      <4>4. QED BY <4>2, <4>3
    <3>2. QED BY <3>1 DEF Stages
  <2>8. \A r \in Requests : asked[r].fd # NoFd => asked[r].fd \in Fds
    BY <1>3 DEF TableTyped
  <2>9. \A r \in Requests \ {g} : (Gone(r))' <=> Gone(r)
    BY <1>2, <2>1, <2>3, <2>8, Numbers DEF Gone
  <2>10. (Gone(g))'
    BY <1>2, <2>2, <2>3, <2>4, Numbers DEF Gone
  <2>16. CASE reply' = reply /\ crossed \subseteq crossed'
    <3>1. \A h \in Fds : sockets'[h] \in {sockets[h], NoRequest}
      BY <2>3
    <3>2. closed \subseteq closed'
      BY <2>3
    <3>3. \A r \in Requests : (Gone(r))' /\ ~Gone(r) => r \in closed'
      BY <2>3, <2>9
    <3>4. \A r \in closed' \ closed : (Gone(r))'
      BY <2>3, <2>10
    <3>5. QED BY <1>2, <1>3, <1>7, <1>9, <2>7, <2>16, <3>1, <3>2, <3>3, <3>4, SilentKeeps
  <2>17. CASE /\ reply'[g] = Append(reply[g], timeout.answer) /\ crossed' = crossed
              /\ \A r \in Requests \ {g} : reply'[r] = reply[r]
    <3>1. Seats' /\ AskSome'
      BY <1>2, <2>3, Numbers DEF DInv, Seats, AskSome
    <3>2. Departed'
      BY <1>2, <1>3, <2>3, <2>9, <2>10 DEF DInv, Departed, TableTyped
    <3>3. LeftDone'
      <4>1. \A r \in Requests \ {g} : (Complete(r))' <=> Complete(r)
        BY <1>2, <2>17 DEF Complete
      <4>2. QED BY <2>3, <2>9, <4>1 DEF DInv, LeftDone
    <3>4. Unwritten'
      BY <1>2, <1>9, <2>17, <2>4, <2>5 DEF DInv, Unwritten
    <3>5. Goods'
      <4>1. ASSUME NEW r \in Requests \ {g}, Clean(r)
            PROVE  Good(r, reply'[r], asked'[r].dest, r \in closed')
        <5>1. r \in closed' <=> r \in closed
          BY <2>3
        <5>2. QED BY <1>2, <2>17, <4>1, <5>1 DEF DInv, Goods
      <4>2. ASSUME Clean(g) PROVE Good(g, reply'[g], asked'[g].dest, g \in closed')
        <5>1. Spotless(f)
          BY <1>3, <2>1, <2>2, <4>2, SpoiledOwner
        <5>2. Good(g, reply'[g], asked'[g].dest, TRUE)
          BY <1>2, <2>6, <2>17, <5>1
        <5>3. QED BY <2>3, <5>2 DEF Good
      <4>3. QED BY <2>5, <4>1, <4>2 DEF Goods
    <3>6. QED BY <1>7, <2>7, <3>1, <3>2, <3>3, <3>4, <3>5 DEF DInv
  <2>18. QED BY <2>3, <2>16, <2>17
<1>12. QED BY <1>10, <1>11

-----------------------------------------------------------------------------
(* The server: a new request has read nothing yet.                         *)
LEMMA ArriveStepKeeps ==
  ASSUME HInv, PlanTyped, AInv, WInv, DInv, NEW r \in Requests,
         plan.dest[r] # {}, Arrive(r, plan.dest[r])
  PROVE  DInv'
<1>1. PICK D, h : D = plan.dest[r] /\ h = Least({f \in Fds : sockets[f] = NoRequest})
  OBVIOUS
<1>2. /\ UNCHANGED <<writer, timeout, conns, reply, closed, crossed>>
      /\ http.pc = "idle" /\ asked[r].fd = NoFd
      /\ sockets' = [sockets EXCEPT ![h] = r]
      /\ asked' = [asked EXCEPT ![r] = [fd |-> h, dest |-> D]]
      /\ http' = [pc |-> "add", slot |-> 0, req |-> r]
  BY <1>1 DEF Arrive, notHttp, NotAsking
<1>3. h \in Fds /\ h # NoFd /\ sockets[h] = NoRequest
  <2>1. {f \in Fds : sockets[f] = NoRequest} \in SUBSET Nat
    BY Numbers
  <2>2. {f \in Fds : sockets[f] = NoRequest} # {}
    BY DEF Arrive
  <2>3. QED BY <1>1, <2>1, <2>2, LeastThere, Numbers
<1>4. /\ asked'[r].fd = h /\ asked'[r].dest = D /\ D # {}
      /\ \A q \in Requests \ {r} : asked'[q] = asked[q]
      /\ sockets'[h] = r /\ \A f \in Fds \ {h} : sockets'[f] = sockets[f]
  BY <1>1, <1>2, <1>3 DEF AInv, TableTyped
<1>5. r \notin closed /\ r \notin crossed /\ \A i \in Slots : ~Holds(i, r)
  <2>1. ~Gone(r) /\ Unadded(r)
    BY <1>2 DEF Gone, Unadded
  <2>2. QED BY <2>1 DEF DInv, Departed, WInv, Fresh
<1>6. closed \cup crossed \subseteq Requests \ {r}
  BY <1>5 DEF AInv, TableTyped
<1>7. /\ \A f : (Spotless(f))' <=> Spotless(f)
      /\ \A q \in Requests \ {r} : (Clean(q))' <=> Clean(q)
  BY <1>2, <1>4, <1>6 DEF Spotless, Clean
<1>8. reply[r] = <<>>
  <2>1. \A q \in closed : asked[q].fd # NoFd
    BY DEF DInv, Departed, Gone
  <2>2. \A q \in crossed : asked[q].fd # NoFd
    BY <1>6 DEF WInv, Fresh, Unadded
  <2>3. Spotless(NoFd) /\ Unadded(r)
    BY <1>2, <2>1, <2>2 DEF Spotless, Unadded
  <2>4. QED BY <1>2, <2>3 DEF DInv, Unwritten
<1>9. \A q \in Requests \ {r} : (Gone(q))' <=> Gone(q)
  BY <1>2, <1>3, <1>4, Numbers DEF Gone, AInv, TableTyped
<1>10. ~(Gone(r))'
  BY <1>4 DEF Gone
<1>11. Seats'
  BY <1>2, <1>4, Numbers DEF DInv, Seats
<1>12. Seated'
  <2>1. ASSUME conns # Freed, NEW i \in Slots, conns[i].fd # NoFd
        PROVE  conns[i].req \in Requests \ {r}
    BY <1>5, <2>1, Entries DEF AInv, TableTyped, Holds
  <2>2. QED BY <1>2, <1>4, <2>1 DEF DInv, Seated
<1>13. Departed'
  BY <1>2, <1>6, <1>9 DEF DInv, Departed
<1>14. LeftDone'
  <2>1. \A q \in Requests \ {r} : (Complete(q))' <=> Complete(q)
    BY <1>2, <1>4 DEF Complete
  <2>2. QED BY <1>2, <1>9, <1>10, <2>1 DEF DInv, LeftDone
<1>15. AskSome'
  BY <1>4 DEF DInv, AskSome
<1>16. Unwritten'
  <2>1. \A q \in Requests \ {r} : (Unadded(q))' => Unadded(q)
    BY <1>2, <1>4 DEF Unadded
  <2>2. QED BY <1>2, <1>4, <1>7, <1>8, <2>1 DEF DInv, Unwritten
<1>17. Goods'
  <2>1. ASSUME NEW q \in Requests \ {r}, Clean(q)
        PROVE  Good(q, reply'[q], asked'[q].dest, q \in closed')
    BY <1>2, <1>4, <2>1 DEF DInv, Goods
  <2>2. Good(r, reply'[r], asked'[r].dest, r \in closed')
    BY <1>2, <1>8, GoodEmpty
  <2>3. QED BY <1>7, <2>1, <2>2 DEF Goods
<1>18. Stages'
  <2>1. ASSUME conns # Freed, NEW i \in Slots PROVE (Kept(i))'
    <3>1. PICK e, q : e = conns[i] /\ q = conns[i].req
      OBVIOUS
    <3>2. CASE e.fd = NoFd
      BY <1>2, <3>1, <3>2 DEF Kept
    <3>3. CASE e.fd # NoFd
      <4>1. q \in Requests \ {r}
        BY <1>5, <2>1, <3>1, <3>3, Entries DEF AInv, TableTyped, Holds
      <4>2. ToWrite => writer.answer[1] \in Requests \ {r}
        BY <1>2 DEF AInv, WriterTyped, ToWrite, Resting, Answer, Singly, InHand
      <4>3. PICK n, z, w, t, a : n = Size(q) /\ z = reply[q] /\ w = Step(i) /\ t = Timing(i)
                                 /\ a = writer.answer[1]
        OBVIOUS
      <4>4. (Size(q))' = n /\ reply'[q] = z /\ (Step(i))' = w /\ (Timing(i))' = t
            /\ writer'.answer[1] = a
        BY <1>2, <1>4, <4>1, <4>3 DEF Size, Step, Timing
      <4>5. Spotless(e.fd) => /\ Staged(e, n, z, w, t)
                              /\ ToWrite /\ writer.slot = i => asked[a].fd = e.fd
                              /\ i \in {writer.slot, timeout.slot} => e.timer
        BY <2>1, <3>1, <3>3, <4>3 DEF DInv, Stages, Kept
      <4>6. ToWrite => asked'[a] = asked[a]
        BY <1>4, <4>2, <4>3
      <4>7. ToWrite' = ToWrite /\ UNCHANGED <<writer, timeout>> /\ conns'[i] = e
        BY <1>2, <3>1 DEF ToWrite
      <4>8. QED BY <1>7, <3>1, <4>4, <4>5, <4>6, <4>7 DEF Kept
    <3>4. QED BY <3>2, <3>3
  <2>2. QED BY <1>2, <2>1 DEF Stages
<1>19. QED BY <1>11, <1>12, <1>13, <1>14, <1>15, <1>16, <1>17, <1>18 DEF DInv

LEMMA FreshStaged ==
  ASSUME NEW e, NEW n \in Nat, n # 0, e.num = n, e.flag = IF n > 1 THEN "header" ELSE "data"
  PROVE  Staged(e, n, <<>>, "rest", <<>>)
<1>1. CASE n > 1
  BY <1>1 DEF Staged
<1>2. CASE ~(n > 1)
  <2>1. n = 1
    BY <1>2
  <2>2. QED BY <1>2, <2>1 DEF Staged
<1>3. QED BY <1>1, <1>2

LEMMA AddStepKeeps ==
  ASSUME HInv, AInv, HttpTyped, WInv, DInv, AddConnection
  PROVE  DInv'
<1>1. PICK r, n, i, e :
        /\ r = http.req /\ n = Size(r)
        /\ i = Least({j \in Slots : conns[j].flag = "none"})
        /\ e = [flag |-> IF n > 1 THEN "header" ELSE "data", num |-> n,
                fd |-> asked[r].fd, timer |-> FALSE, req |-> r]
  OBVIOUS
<1>2. /\ UNCHANGED <<writer, timeout, asked, sockets, reply, closed>>
      /\ http.pc = "add" /\ http'.pc \in {"put", "timer"}
      /\ \/ UNCHANGED <<conns, crossed>>
         \/ /\ {j \in Slots : conns[j].flag = "none"} # {}
            /\ conns' = [conns EXCEPT ![i] = e]
            /\ crossed' = IF i \in {writer.slot, timeout.slot} THEN crossed \cup {r} ELSE crossed
  <2>1. [http EXCEPT !.pc = "put"].pc = "put"
    BY DEF HttpTyped
  <2>2. [pc |-> "timer", slot |-> i, req |-> r].pc = "timer"
    OBVIOUS
  <2>3. PICK R : R = {j \in Slots : conns[j].flag = "none"}
    OBVIOUS
  <2>4. CASE R = {}
    BY <1>1, <2>1, <2>3, <2>4 DEF AddConnection, notHttp
  <2>5. CASE R # {}
    <3>1. /\ http' = [pc |-> "timer", slot |-> i, req |-> r]
          /\ conns' = [conns EXCEPT ![i] = e]
          /\ crossed' = IF i \in {writer.slot, timeout.slot} THEN crossed \cup {r} ELSE crossed
      BY <1>1, <2>3, <2>5 DEF AddConnection, Size
    <3>2. QED BY <2>2, <2>3, <2>5, <3>1 DEF AddConnection, notHttp
  <2>6. QED BY <2>4, <2>5
<1>3. r \in Requests /\ conns # Freed
  BY <1>1, <1>2 DEF HInv, ServerTyped
<1>4. conns \in [Slots -> Conn] /\ asked[r].fd # NoFd /\ asked[r].dest \in SUBSET Devices
  BY <1>1, <1>2, <1>3 DEF AInv, TableTyped, Singly, Asking
<1>5. n \in Nat /\ n # 0
  <2>1. asked[r].dest # {} /\ IsFiniteSet(asked[r].dest)
    BY <1>3, <1>4, MlinkHttpdAssumption, FS_Subset DEF MlinkHttpdAssumption, DInv, AskSome
  <2>2. QED BY <1>1, <2>1, FS_CardinalityType, FS_EmptySet DEF Size
<1>6. \A p \in Requests : (Unadded(p))' => Unadded(p)
  BY <1>2 DEF Unadded
<1>7. e.num = n /\ e.fd = asked[r].fd /\ e.req = r
      /\ e.flag = IF n > 1 THEN "header" ELSE "data"
  BY <1>1
<1>8. CASE UNCHANGED <<conns, crossed>>
  <2>1. Seated' /\ Stages'
    BY <1>2, <1>8 DEF DInv, Seated, Stages, Kept, Spotless, Size, Step, Timing, ToWrite
  <2>2. QED BY <1>2, <1>6, <1>8, <2>1, QuietKeeps DEF AInv
<1>9. CASE ~UNCHANGED <<conns, crossed>>
  <2>1. i \in Slots
    <3>1. {j \in Slots : conns[j].flag = "none"} \in SUBSET Nat
      BY Numbers
    <3>2. QED BY <1>1, <1>2, <1>9, <3>1, LeastThere
  <2>2. /\ conns'[i] = e /\ \A j \in Slots \ {i} : conns'[j] = conns[j]
        /\ crossed' = IF i \in {writer.slot, timeout.slot} THEN crossed \cup {r} ELSE crossed
    BY <1>2, <1>4, <1>9, <2>1
  <2>3. crossed \subseteq crossed'
    BY <2>2
  <2>4. Seated'
    BY <1>2, <1>3, <1>7, <2>2 DEF DInv, Seated
  <2>5. \A j \in Slots \ {i} : (Kept(j))'
    <3>1. \A j \in Slots \ {i} : (Step(j))' = Step(j) /\ (Timing(j))' = Timing(j)
      BY <1>2 DEF Step, Timing
    <3>2. ToWrite' = ToWrite
      BY <1>2 DEF ToWrite
    <3>3. QED BY <1>2, <1>3, <2>2, <2>3, <3>1, <3>2, KeptStays DEF DInv, Stages
  <2>6. ASSUME (Spotless(e.fd))'
        PROVE  /\ writer.slot # i /\ timeout.slot # i /\ reply[r] = <<>>
    <3>1. Spotless(e.fd)
      BY <1>2, <2>3, <2>6, Spots
    <3>2. r \notin crossed'
      BY <1>2, <1>7, <2>6 DEF Spotless
    <3>3. reply[r] = <<>>
      BY <1>1, <1>2, <1>3, <1>7, <3>1 DEF DInv, Unwritten, Unadded
    <3>4. QED BY <2>2, <3>2, <3>3
  <2>7. (Kept(i))'
    <3>1. Staged(e, n, <<>>, "rest", <<>>)
      BY <1>5, <1>7, FreshStaged
    <3>2. ASSUME (Spotless(e.fd))'
          PROVE  /\ (Size(r))' = n /\ reply'[r] = <<>> /\ (Step(i))' = "rest"
                 /\ (Timing(i))' = <<>> /\ writer'.slot # i /\ timeout'.slot # i
      BY <1>1, <1>2, <2>6, <3>2 DEF Size, Step, Timing
    <3>3. QED BY <1>7, <2>2, <3>1, <3>2 DEF Kept
  <2>8. Stages'
    BY <2>5, <2>7 DEF Stages
  <2>9. QED BY <1>2, <1>6, <2>3, <2>4, <2>8, QuietKeeps DEF AInv
<1>10. QED BY <1>8, <1>9

(* The entry gets its timer, or its request is crossed.                    *)
LEMMA AddTimerKeeps ==
  ASSUME HInv, AInv, HttpTyped, WInv, DInv, AddTimer
  PROVE  DInv'
<1>1. PICK i, r : i = http.slot /\ r = http.req
  OBVIOUS
<1>2. /\ UNCHANGED <<writer, timeout, asked, sockets, reply, closed>>
      /\ http.pc = "timer" /\ http'.pc = "put"
      /\ \/ conns' = [conns EXCEPT ![i].timer = TRUE] /\ crossed' = crossed
         \/ crossed' = crossed \cup {r} /\ conns' = conns
  <2>1. [http EXCEPT !.pc = "put"].pc = "put"
    BY DEF HttpTyped
  <2>2. QED BY <1>1, <2>1 DEF AddTimer, notHttp
<1>3. i \in Slots /\ conns # Freed /\ conns \in [Slots -> Conn] /\ conns[i].req \in Requests
  BY <1>1, <1>2 DEF HInv, ServerTyped, WInv, Half, AInv, TableTyped
<1>4. /\ \A p \in Requests : (Unadded(p))' => Unadded(p)
      /\ \A j \in Slots : (Step(j))' = Step(j) /\ (Timing(j))' = Timing(j)
      /\ ToWrite' = ToWrite /\ crossed \subseteq crossed'
  BY <1>2 DEF Unadded, Step, Timing, ToWrite
<1>5. PICK e \in Filled : e = conns[i]
  BY <1>3, Numbers DEF Conn, Blank
<1>6. PICK m : m = [e EXCEPT !.timer = TRUE]
  OBVIOUS
<1>7. /\ m.fd = e.fd /\ m.req = e.req /\ m.num = e.num /\ m.flag = e.flag /\ m.timer
      /\ conns'[i] = m \/ conns'[i] = e
      /\ \A j \in Slots \ {i} : conns'[j] = conns[j]
  BY <1>2, <1>3, <1>5, <1>6 DEF Filled
<1>8. Seated'
  BY <1>2, <1>3, <1>5, <1>7 DEF DInv, Seated
<1>9. \A j \in Slots : conns'[j] = conns[j] => (Kept(j))'
  BY <1>2, <1>3, <1>4, KeptStays DEF DInv, Stages
<1>10. ASSUME conns'[i] = m PROVE (Kept(i))'
  <2>1. PICK q, n, z, w, t : /\ q = e.req /\ n = Size(q) /\ z = reply[q]
                             /\ w = Step(i) /\ t = Timing(i)
    OBVIOUS
  <2>2. (Size(q))' = n /\ reply'[q] = z /\ (Step(i))' = w /\ (Timing(i))' = t
    BY <1>2, <1>3, <1>4, <2>1 DEF Size
  <2>3. ASSUME (Spotless(e.fd))', e.fd # NoFd
        PROVE  /\ Staged(m, n, z, w, t)
               /\ ToWrite /\ writer.slot = i => asked[writer.answer[1]].fd = e.fd
    <3>1. Spotless(e.fd)
      BY <1>2, <1>4, <2>3, Spots
    <3>2. /\ Staged(e, n, z, w, t)
          /\ ToWrite /\ writer.slot = i => asked[writer.answer[1]].fd = e.fd
      BY <1>3, <1>5, <2>1, <2>3, <3>1 DEF DInv, Stages, Kept
    <3>3. QED BY <1>7, <3>2, SameStaged
  <2>4. QED BY <1>2, <1>4, <1>7, <1>10, <2>1, <2>2, <2>3 DEF Kept
<1>11. Stages'
  BY <1>5, <1>7, <1>9, <1>10 DEF Stages
<1>12. QED BY <1>2, <1>4, <1>8, <1>11, QuietKeeps DEF AInv

(* A step that leaves the answers, the table and the tasks at it.          *)
LEMMA IdleStepKeeps ==
  ASSUME AInv, DInv, UNCHANGED notAnswers \/ UNCHANGED <<asked, writer, timeout, tableVars>>,
         \A p \in Requests : (Unadded(p))' => Unadded(p)
  PROVE  DInv'
<1>1. UNCHANGED <<asked, writer, timeout, conns, sockets, reply, closed, crossed>>
  BY DEF notAnswers, tableVars
<1>2. Seated' /\ Stages'
  BY <1>1 DEF DInv, Seated, Stages, Kept, Spotless, Size, Step, Timing, ToWrite
<1>3. QED BY <1>1, <1>2, QuietKeeps DEF AInv

(* Connections close.                                                      *)
LEMMA CloseKeeps ==
  ASSUME AInv, DInv, NEW F \in SUBSET Fds, Close(F),
         UNCHANGED <<asked, writer, timeout, conns, reply, crossed, http>>
  PROVE  DInv'
<1>1. /\ \A f \in Fds : sockets'[f] \in {sockets[f], NoRequest}
      /\ closed \subseteq closed'
      /\ \A r \in Requests : (Gone(r))' /\ ~Gone(r) => r \in closed' \/ Complete(r)
      /\ \A r \in closed' \ closed : (Gone(r))'
  BY ClosingGone DEF AInv
<1>2. \A r \in Requests : (Unadded(r))' => Unadded(r)
  BY DEF Unadded
<1>3. Seated'
  BY DEF DInv, Seated
<1>4. Stages'
  <2>1. ASSUME conns # Freed, NEW i \in Slots PROVE (Kept(i))'
    <3>1. Kept(i) /\ (Step(i))' = Step(i) /\ (Timing(i))' = Timing(i) /\ ToWrite' = ToWrite
      BY <2>1 DEF DInv, Stages, Step, Timing, ToWrite
    <3>2. QED BY <1>1, <3>1, KeptStays
  <2>2. QED BY <2>1 DEF Stages
<1>5. QED BY <1>1, <1>2, <1>3, <1>4, SilentKeeps DEF AInv

(* The table comes and goes.                                               *)
LEMMA TableComes ==
  ASSUME AInv, DInv, StartHttpd \/ FreeHttpd
  PROVE  DInv'
<1>1. /\ UNCHANGED <<asked, http, writer, timeout, sockets, reply, closed>>
      /\ crossed \subseteq crossed'
  BY DEF StartHttpd, FreeHttpd, Serving, HttpdStart, HttpdFree, notLoop
<1>2. (conns' = conns /\ crossed' = crossed) \/ conns' = Freed \/ conns' = [i \in Slots |-> Unused]
  BY DEF StartHttpd, FreeHttpd, Serving, HttpdStart, HttpdFree
<1>3. \A r \in Requests : (Unadded(r))' => Unadded(r)
  BY <1>1 DEF Unadded
<1>4. CASE conns' = conns /\ crossed' = crossed
  BY <1>1, <1>3, <1>4, IdleStepKeeps DEF tableVars
<1>5. CASE conns' = Freed \/ conns' = [i \in Slots |-> Unused]
  <2>1. Seated' /\ Stages'
    BY <1>5 DEF Seated, Stages, Kept, Unused
  <2>2. QED BY <1>1, <1>3, <2>1, QuietKeeps DEF AInv
<1>6. QED BY <1>2, <1>4, <1>5

LEMMA DetailsStart == RootInit => DInv
<1> SUFFICES ASSUME RootInit PROVE DInv
  OBVIOUS
<1>1. /\ conns = Freed /\ closed = {} /\ crossed = {}
      /\ sockets = [f \in Fds |-> NoRequest]
      /\ asked = [r \in Requests |-> [fd |-> NoFd, dest |-> {}]]
      /\ reply = [r \in Requests |-> <<>>]
  BY DEF RootInit, HttpdInit
<1>2. Seats /\ Seated /\ Departed /\ LeftDone /\ AskSome /\ Unwritten /\ Stages
  BY <1>1, Numbers DEF Seats, Seated, Departed, LeftDone, AskSome, Unwritten, Stages, Gone
<1>3. Goods
  BY <1>1, GoodEmpty DEF Goods
<1>4. QED BY <1>2, <1>3 DEF DInv

LEMMA DetailsStep == CountsHold /\ SInv /\ DInv /\ [Next]_vars => DInv'
<1> SUFFICES ASSUME CountsHold, HInv, PlanTyped, AInv, HttpTyped, WInv, DInv, [Next]_vars
             PROVE  DInv'
  BY DEF SInv
<1>1. ASSUME UNCHANGED <<http, asked, writer, timeout, tableVars>>
      PROVE  DInv'
  <2>1. \A r \in Requests : (Unadded(r))' => Unadded(r)
    BY <1>1 DEF Unadded
  <2>2. QED BY <1>1, <2>1, IdleStepKeeps
<1>2. CASE EventPosted \/ EventGoesOn \/ EventQueued \/ mlink_notice_udp_task \/ UNCHANGED vars
  BY <1>1, <1>2 DEF EventPosted, EventGoesOn, EventQueued, mlink_notice_udp_task, notNotice,
     vars, httpdVars
<1>3. CASE Handler
  <2>1. CASE EventTaken \/ HandleTable \/ StartNotice \/ StartFails \/ Announce
             \/ StopNotice \/ AwaitNotice \/ SkipHttpd
    BY <1>1, <2>1 DEF EventTaken, HandleTable, StartNotice, StartFails, Announce, StopNotice,
       AwaitNotice, SkipHttpd, Noticing, httpdVars
  <2>2. CASE CreateTasks \/ ExitHttpd
    BY <1>1, <2>2 DEF CreateTasks, ExitHttpd, HttpdExit, Serving, notLoop
  <2>3. CASE StopHttpd
    <3>1. Close(Fds) /\ UNCHANGED <<asked, writer, timeout, conns, reply, crossed, http>>
      BY <2>3 DEF StopHttpd, HttpdStop, Serving, notLoop
    <3>2. QED BY <3>1, CloseKeeps
  <2>4. QED BY <1>3, <2>1, <2>2, <2>3, TableComes DEF Handler
<1>4. CASE Client
  <2>1. ASSUME NEW f \in Fds, HangUp(f) PROVE DInv'
    <3>1. Close({f}) /\ UNCHANGED <<asked, writer, timeout, conns, reply, crossed, http>>
      BY <2>1 DEF HangUp, notHttp
    <3>2. QED BY <3>1, CloseKeeps
  <2>2. ASSUME NEW r \in Requests, plan.dest[r] # {}, Arrive(r, plan.dest[r]) PROVE DInv'
    BY <2>2, ArriveStepKeeps
  <2>3. QED BY <1>4, <2>1, <2>2 DEF Client
<1>5. CASE Server
  <2>1. CASE PutRequest
    <3>1. UNCHANGED <<asked, writer, timeout, tableVars>> /\ http'.pc = "idle"
      BY <2>1 DEF PutRequest, notHttp, NotAsking
    <3>2. \A r \in Requests : (Unadded(r))' => Unadded(r)
      BY <3>1 DEF Unadded
    <3>3. QED BY <3>1, <3>2, IdleStepKeeps
  <2>2. QED BY <1>5, <2>1, AddStepKeeps, AddTimerKeeps DEF Server
<1>6. CASE root_read_task
  BY <1>1, <1>6 DEF root_read_task, ReadCall, ReadExit, DeleteQueue, Forward, notReader
<1>7. CASE root_write_task
  <2>1. CASE WriteNotice /\ UNCHANGED notNotice
    BY <1>1, <2>1 DEF notNotice, httpdVars
  <2>2. CASE WriteHeader
    BY <2>2, HeaderKeeps
  <2>3. CASE WriteSize
    BY <2>3, SizeKeeps
  <2>4. CASE WriteData
    BY <2>4, DataKeeps
  <2>5. CASE WriteCount
    BY <2>5, CountStepKeeps
  <2>6. CASE WriteRemove
    BY <2>6, RemoveKeeps
  <2>7. QED BY <1>7, <2>1, <2>2, <2>3, <2>4, <2>5, <2>6, CallStepKeeps, FindStepKeeps
            DEF root_write_task, WriteAnswer
<1>8. CASE Timer
  BY <1>8, FireStepKeeps, CloseStepKeeps DEF Timer
<1>9. QED BY <1>2, <1>3, <1>4, <1>5, <1>6, <1>7, <1>8 DEF Next

LEMMA DetailsComplete == AInv /\ DInv => AnswersComplete
<1> SUFFICES ASSUME AInv, DInv, NEW r \in Requests, Clean(r)
             PROVE  /\ Framed(reply[r], Cardinality(asked[r].dest) = 1)
                    /\ Complete(r) /\ r \notin closed =>
                         /\ Cardinality(Answers(r)) = Cardinality(asked[r].dest)
                         /\ Answered(r) = {<<r, d>> : d \in asked[r].dest}
  BY DEF AnswersComplete
<1>1. PICK s, D, shut : s = reply[r] /\ D = asked[r].dest /\ shut = (r \in closed)
  OBVIOUS
<1>2. Good(r, s, D, shut)
  BY <1>1 DEF DInv, Goods
<1>3. s \in Seq(Piece) /\ D \in SUBSET Devices
  BY <1>1 DEF AInv, TableTyped
<1>4. Framed(s, Cardinality(D) = 1)
  BY <1>2 DEF Good
<1>5. ASSUME Complete(r), r \notin closed
      PROVE  /\ Cardinality(Answers(r)) = Cardinality(asked[r].dest)
             /\ Answered(r) = {<<r, d>> : d \in asked[r].dest}
  <2>1. Ended(s, Cardinality(D)) /\ ~shut
    BY <1>1, <1>5 DEF Complete, Ended
  <2>2. Cardinality(AnswersOf(s)) = Cardinality(D) /\ Cardinality(Told(s)) = Cardinality(D)
        /\ Told(s) \subseteq AnswersTo(r, D)
    BY <1>2, <2>1 DEF Good
  <2>3. PICK T : T = Told(s)
    OBVIOUS
  <2>4. T = AnswersTo(r, D)
    BY <1>3, <2>2, <2>3, FewAnswers
  <2>5. Answers(r) = AnswersOf(s)
    BY <1>1 DEF Answers, AnswersOf
  <2>6. Answered(r) = Told(s)
    <3>1. \A j \in DOMAIN s : s[j] \in Piece
      BY <1>3
    <3>2. \A j \in DOMAIN s : Len(s[j]) = 2 <=> s[j] \in Answer
      BY <3>1, PieceLengths
    <3>3. Answered(r) = {s[j] : j \in {h \in DOMAIN s : Len(s[h]) = 2}}
      BY <1>1 DEF Answered, Answers
    <3>4. Told(s) = {s[j] : j \in DOMAIN s} \cap Answer
      BY DEF Told, Elements
    <3>5. QED BY <3>2, <3>3, <3>4
  <2>7. QED BY <1>1, <2>2, <2>3, <2>4, <2>5, <2>6 DEF AnswersTo
<1>6. QED BY <1>1, <1>4, <1>5

(* The answer of a request whose entry and socket number were its own is   *)
(* framed: the header, each answer behind its size, the end; or the error  *)
(* alone.  When the server completed it before its time, every device      *)
(* asked answered, once (mlink_httpd.c:811-871 against the timer,          *)
(* 159-187), also when a piece is not sent (130-148), the timer finds the  *)
(* socket not writable (177) or cannot be created (211).  num is a         *)
(* uint16_t.                                                               *)
THEOREM AnswersWhole ==
  ASSUME Cardinality(Devices) < 65536
  PROVE  Spec => []AnswersComplete
<1> DEFINE Inv == SInv /\ DInv
<1>1. CountsHold
  BY FewDevices
<1>2. RootInit => Inv
  BY SlotsStart, DetailsStart
<1>3. Inv /\ [Next]_vars => Inv'
  BY <1>1, ServedStep, DetailsStep
<1>4. Inv => AnswersComplete
  BY DetailsComplete DEF SInv
<1> HIDE DEF Inv
<1>5. QED BY <1>2, <1>3, <1>4, PTL DEF Spec
=============================================================================
