----------------------------- MODULE MlinkNotice ----------------------------
(***************************************************************************)
(* The notices of the root (components/mlink/mlink_notice.c): devices ask  *)
(* the app for a visit, and mlink_notice_udp_task() broadcasts that on the *)
(* local network, several devices with one message.                        *)
(*                                                                         *)
(* A notice is [type, dev].  Those of type "http" say where the server is: *)
(* all are of the root.  The event loop starts and stops the task, the     *)
(* event loop and root_write_task() write notices.                         *)
(***************************************************************************)
EXTENDS Naturals, FiniteSets, Sequences

CONSTANTS
  Root, Nodes, \* who a notice may be of
  NoticeLen,   \* MLINK_NOTICE_UDP_QUEUE_NUM
  Batch        \* devices that fit one message, 10 in the code

ASSUME MlinkNoticeAssumption ==
  NoticeLen \in Nat \ {0} /\ Batch \in Nat \ {0} /\ Root \notin Nodes

VARIABLES
  mdns,      \* g_notice_mdns_init_flag
  stopped,   \* g_notice_udp_exit_flag
  sem,       \* g_notice_udp_exit_sem: "none", "empty" or "given"
  notices,   \* g_notice_udp_queue, or NoNotices
  task,      \* where mlink_notice_udp_task() stands
  closing,   \* an earlier task still has the port
  message,   \* what the task is going to broadcast
  held,      \* the notice mlink_notice_write() is about to queue, if any
  written,   \* history: the notices written, aired, and turned away
  aired,
  dropped

noticeVars == <<mdns, stopped, sem, notices, task, closing, message, held,
                written, aired, dropped>>

Notice == [type : {"http"}, dev : {Root}] \cup [type : {"status"}, dev : Nodes]
NoNotices == <<[type |-> "none", dev |-> Root]>>
Elements(s) == {s[i] : i \in DOMAIN s}

NoticeInit ==
  /\ mdns = FALSE /\ stopped = TRUE /\ sem = "none"
  /\ notices = NoNotices /\ task = "none" /\ closing = FALSE
  /\ message = {} /\ held = {}
  /\ written = {} /\ aired = {} /\ dropped = {}

-----------------------------------------------------------------------------
(* mlink_notice_udp_task()                                                 *)
notTask == <<mdns, stopped, held, written>>

(* It dies, without a word, when a socket cannot be had: the port is not   *)
(* free before an earlier task closed its own.                             *)
NoticeBind ==
  /\ task = "create"
  /\ task' = IF closing THEN "dead" ELSE "loop"
  /\ UNCHANGED <<notTask, sem, notices, closing, message, aired, dropped>>

(* The first notice of a message.                                          *)
NoticeTake ==
  /\ task = "loop" /\ ~stopped
  /\ notices \notin {NoNotices, <<>>}
  /\ message' = {Head(notices)}
  /\ notices' = Tail(notices)
  /\ task' = "merge"
  /\ UNCHANGED <<notTask, sem, closing, aired, dropped>>

(* Another one of its type joins it; one of another type goes back to the  *)
(* end of the line, or is lost when the line is full again.                *)
Joins(n) == \A first \in message : n.type = first.type
PutBackLost(n, rest) == rest                                      \* mutant
PutBack(n, rest) == IF Len(rest) < NoticeLen THEN Append(rest, n) ELSE rest

NoticeMerge ==
  /\ task = "merge" /\ notices \notin {NoNotices, <<>>}
  /\ LET n    == Head(notices)
         rest == Tail(notices)
     IN  IF Joins(n)
         THEN /\ message' = message \cup {n} /\ notices' = rest
              /\ task' = IF Cardinality(message') < Batch THEN "merge" ELSE "air"
              /\ UNCHANGED dropped
         ELSE /\ notices' = PutBack(n, rest) /\ task' = "air"
              /\ dropped' = IF Len(rest) < NoticeLen THEN dropped
                            ELSE dropped \cup {n}
              /\ UNCHANGED message
  /\ UNCHANGED <<notTask, sem, closing, aired>>

NoticeAir ==
  /\ task = "air" \/ (task = "merge" /\ notices \in {NoNotices, <<>>})
  /\ aired' = aired \cup message /\ message' = {}
  /\ task' = "loop"
  /\ UNCHANGED <<notTask, sem, notices, closing, dropped>>

GivenNot == sem                                                   \* mutant
Given    == IF sem = "none" THEN sem ELSE "given"

(* The semaphore is given first, the sockets are closed later.             *)
NoticeEnd ==
  /\ task = "loop" /\ stopped
  /\ task' = "none" /\ closing' = TRUE
  /\ sem' = Given
  /\ UNCHANGED <<notTask, notices, message, aired, dropped>>

NoticeClose ==
  /\ closing /\ closing' = FALSE
  /\ UNCHANGED <<notTask, sem, notices, task, message, aired, dropped>>

-----------------------------------------------------------------------------
(* mlink_notice_write(): makes room, then queues.                          *)
notWrite == <<mdns, stopped, sem, task, closing, message, aired>>

MakeRoom ==
  IF notices = NoNotices THEN <<>>
  ELSE IF Len(notices) = NoticeLen THEN Tail(notices) ELSE notices
Displaced == Elements(notices) \ Elements(NoNotices \o MakeRoom)

(* On root_write_task() the event loop may come in between.                *)
NoticeCall(n) ==
  /\ held = {} /\ held' = {n}
  /\ notices' = MakeRoom /\ dropped' = dropped \cup Displaced
  /\ UNCHANGED <<notWrite, written>>

(* Room may have gone meanwhile; without a queue the root aborts.          *)
NoticeQueue ==
  /\ held # {} /\ held' = {} /\ notices # NoNotices
  /\ written' = written \cup held
  /\ IF Len(notices) < NoticeLen
     THEN /\ \E n \in held : notices' = Append(notices, n)
          /\ UNCHANGED dropped
     ELSE dropped' = dropped \cup held /\ UNCHANGED notices
  /\ UNCHANGED notWrite

(* The event loop announces the server.                                    *)
NoticeHttp ==
  LET n == [type |-> "http", dev |-> Root]
  IN  /\ notices' = Append(MakeRoom, n) /\ dropped' = dropped \cup Displaced
      /\ written' = written \cup {n}
      /\ UNCHANGED <<notWrite, held>>

-----------------------------------------------------------------------------
(* mlink_notice_init() and mlink_notice_deinit(), on the event loop        *)
notSwitch == <<closing, message, held, written, aired>>

NoticeFails == ~mdns /\ UNCHANGED noticeVars

(* Nothing happens to a task that is there already.                        *)
NoticeStart ==
  /\ mdns' = TRUE /\ stopped' = FALSE
  /\ notices' = IF notices = NoNotices THEN <<>> ELSE notices
  /\ sem' = IF sem = "none" THEN "empty" ELSE sem
  /\ task' = IF stopped THEN "create" ELSE task
  /\ UNCHANGED <<notSwitch, dropped>>

NoticeStop ==
  /\ mdns' = FALSE /\ stopped' = TRUE
  /\ UNCHANGED <<notSwitch, sem, notices, task, dropped>>

(* The task gave the semaphore: what still waits is dropped.               *)
NoticeDelete ==
  /\ sem = "given" /\ sem' = "none"
  /\ dropped' = dropped \cup (Elements(notices) \ Elements(NoNotices))
  /\ notices' = NoNotices
  /\ UNCHANGED <<notSwitch, mdns, stopped, task>>
=============================================================================
