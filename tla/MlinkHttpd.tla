----------------------------- MODULE MlinkHttpd -----------------------------
(***************************************************************************)
(* The HTTP server of the root (components/mlink/mlink_httpd.c): requests  *)
(* of the app go to devices of the mesh, the answers of the devices go     *)
(* back on the connection of the request.                                  *)
(*                                                                         *)
(* Five tasks work on the queue of requests and on the table of            *)
(* connections: the server, root_read_task() that forwards the requests,   *)
(* root_write_task() that writes the answers, the timer task, and the      *)
(* event loop that starts and stops the server.                            *)
(*                                                                         *)
(* A request comes on a connection of its own, named like the request.     *)
(* What is written on it is abstracted to the pieces <<"header">>,         *)
(* <<"size">>, <<"footer">>, <<"400">> and <<request, device>>, an answer. *)
(***************************************************************************)
EXTENDS Naturals, FiniteSets, Sequences

CONSTANTS
  Requests, NoRequest,
  Devices,
  MaxConnect,  \* MLINK_HTTPD_MAX_CONNECT
  MaxSockets,  \* the socket numbers of lwIP
  QueueLen     \* of g_mlink_queue, 3 in the code

ASSUME MlinkHttpdAssumption ==
  /\ NoRequest \notin Requests /\ Requests \cap {"exit", "none"} = {}
  /\ MaxConnect \in Nat \ {0} /\ MaxSockets \in Nat \ {0}
  /\ QueueLen \in Nat \ {0} /\ IsFiniteSet(Devices)

VARIABLES
  server,   \* g_httpd_handle is set
  mqueue,   \* g_mlink_queue, or NoQueue
  conns,    \* g_conn_list, or Freed
  sockets,  \* the request whose connection has this number
  asked,    \* the socket number and the devices of each request
  http,     \* where the server stands in mlink_device_request()
  reader,   \* where root_read_task() stands
  writer,   \* where root_write_task() stands in mlink_httpd_write()
  timeout,  \* where the timer task stands in mlink_connection_timeout_cb()
  mesh,     \* the answers devices may still give
  reply,    \* what was written on each connection
  closed,   \* history: connections closed before their last answer was written
  crossed,  \* history: requests whose entry was cleared or taken in use, or
            \* has no timer
  hasty     \* history: a start did not wait for the end of the last stop

tableVars == <<conns, sockets, reply, closed, crossed>>
httpdVars == <<server, mqueue, asked, http, reader, writer, timeout, mesh,
               hasty, tableVars>>

Slots  == 1 .. MaxConnect
Fds    == 1 .. MaxSockets
NoFd   == 0
Exit   == "exit"
NoQueue == <<"none">>
Freed  == <<>>
Least(S) == CHOOSE x \in S : \A y \in S : x <= y

(* The entry after memset(); req is history.                               *)
Unused == [flag |-> "none", num |-> 0, fd |-> NoFd, timer |-> FALSE,
           req |-> NoRequest]
Resting == [pc |-> "idle", slot |-> 0, answer |-> <<>>]
NotAsking == [pc |-> "idle", slot |-> 0, req |-> NoRequest]

HttpdInit ==
  /\ server = FALSE /\ mqueue = NoQueue /\ conns = Freed
  /\ sockets = [f \in Fds |-> NoRequest]
  /\ asked = [r \in Requests |-> [fd |-> NoFd, dest |-> {}]]
  /\ http = NotAsking
  /\ reader = "off" /\ writer = Resting /\ timeout = Resting
  /\ mesh = {} /\ reply = [r \in Requests |-> <<>>]
  /\ closed = {} /\ crossed = {} /\ hasty = FALSE

(* What the client sees of its answer.                                     *)
Complete(r) ==
  /\ reply[r] # <<>>
  /\ \/ Cardinality(asked[r].dest) = 1
     \/ reply[r][Len(reply[r])] \in {<<"footer">>, <<"400">>}

(* The answers of its devices were all written to it.                      *)
Served(r) ==
  \A d \in asked[r].dest : \E i \in DOMAIN reply[r] : reply[r][i] = <<r, d>>

(* The connections of the sockets F are closed.                            *)
Close(F) ==
  /\ sockets' = [f \in Fds |-> IF f \in F THEN NoRequest ELSE sockets[f]]
  /\ closed' = closed \cup {r \in Requests : /\ ~(Complete(r) /\ Served(r))
                                            /\ \E f \in F : sockets[f] = r}

(* mlink_connection_find() and mlink_connection_remove()                   *)
FoundInUse(table, fd) ==                                          \* mutant
  {i \in Slots : table[i].flag # "none"}
Found(table, fd) ==
  {i \in Slots : table[i].fd = fd /\ table[i].flag # "none"}

ClearedTimer(table, S) ==                                         \* mutant
  [i \in Slots |-> IF i \in S THEN [table[i] EXCEPT !.timer = FALSE] ELSE table[i]]
Cleared(table, S) ==
  [i \in Slots |-> IF i \in S /\ table[i].timer THEN Unused ELSE table[i]]
FirstFound(table, fd) ==
  IF Found(table, fd) = {} THEN {} ELSE {Least(Found(table, fd))}

(* httpd_default_send(): the error of its parameter check is positive, so  *)
(* a piece for no socket counts as sent.                                   *)
Sent(table, fd, piece) ==
  /\ conns' = table
  /\ fd # NoFd => sockets[fd] # NoRequest
  /\ reply' = IF fd = NoFd THEN reply
              ELSE [reply EXCEPT ![sockets[fd]] = Append(@, piece)]
  /\ UNCHANGED <<sockets, closed>>

(* send() fails on a connection that is gone, and may on any other one:    *)
(* the socket is closed and the entry found is removed.                    *)
NotSent(table, fd) ==
  /\ fd # NoFd
  /\ conns' = Cleared(table, FirstFound(table, fd))
  /\ Close({fd}) /\ UNCHANGED reply

-----------------------------------------------------------------------------
(* The server: mlink_device_request()                                      *)
notHttp == <<server, reader, writer, timeout, mesh, hasty>>

Arrive(r, dest) ==
  /\ server /\ http.pc = "idle"
  /\ asked[r].fd = NoFd
  /\ \E f \in Fds : sockets[f] = NoRequest
  /\ LET fd == Least({f \in Fds : sockets[f] = NoRequest})
     IN  /\ sockets' = [sockets EXCEPT ![fd] = r]
         /\ asked' = [asked EXCEPT ![r] = [fd |-> fd, dest |-> dest]]
  /\ http' = [NotAsking EXCEPT !.pc = "add", !.req = r]
  /\ UNCHANGED <<notHttp, mqueue, conns, reply, closed, crossed>>

(* mlink_connection_add(): the entry is filled, then its timer is created. *)
(* The caller ignores that the table was full or that there is no timer.   *)
AddConnection ==
  /\ http.pc = "add"
  /\ LET r     == http.req
         num   == Cardinality(asked[r].dest)
         free  == {i \in Slots : conns[i].flag = "none"}
         entry == [flag |-> IF num > 1 THEN "header" ELSE "data", num |-> num,
                   fd |-> asked[r].fd, timer |-> FALSE, req |-> r]
     IN  IF free = {}
         THEN http' = [http EXCEPT !.pc = "put"] /\ UNCHANGED <<conns, crossed>>
         ELSE /\ http' = [pc |-> "timer", slot |-> Least(free), req |-> r]
              /\ conns' = [conns EXCEPT ![Least(free)] = entry]
              /\ crossed' = IF Least(free) \in {writer.slot, timeout.slot}
                            THEN crossed \cup {r} ELSE crossed
  /\ UNCHANGED <<notHttp, mqueue, asked, sockets, reply, closed>>

Adding(i) == http.pc = "timer" /\ http.slot = i

AddTimer ==
  /\ http.pc = "timer" /\ http' = [http EXCEPT !.pc = "put"]
  /\ \/ conns' = [conns EXCEPT ![http.slot].timer = TRUE] /\ UNCHANGED crossed
     \/ crossed' = crossed \cup {http.req} /\ UNCHANGED conns
  /\ UNCHANGED <<notHttp, mqueue, asked, sockets, reply, closed>>

(* A full queue loses its oldest request.  The root aborts without a       *)
(* queue, and when the oldest is the mark of the end.                      *)
Unspared == mqueue                                                \* mutant
Spared == IF Len(mqueue) = QueueLen THEN Tail(mqueue) ELSE mqueue

PutRequest ==
  /\ http.pc = "put" /\ mqueue # NoQueue
  /\ Len(mqueue) = QueueLen => Head(mqueue) # Exit
  /\ mqueue' = Append(Spared, http.req)
  /\ http' = NotAsking
  /\ UNCHANGED <<notHttp, asked, tableVars>>

(* The client closes: it has its answer, or gives up.  The server closes   *)
(* its socket; nobody tells the table.                                     *)
HangUp(f) ==
  /\ sockets[f] # NoRequest /\ http.pc = "idle"
  /\ Close({f})
  /\ UNCHANGED <<notHttp, http, mqueue, asked, conns, reply, crossed>>

-----------------------------------------------------------------------------
(* root_read_task(): mlink_httpd_read(), then mwifi_root_write()           *)
notReader == <<server, asked, http, writer, timeout, hasty, tableVars>>

ReadCall ==
  /\ reader = "call" /\ reader' = "wait"
  /\ mqueue' = IF mqueue = NoQueue THEN <<>> ELSE mqueue
  /\ UNCHANGED <<notReader, mesh>>

ReadExit ==
  /\ reader = "wait" /\ mqueue # <<>> /\ Head(mqueue) = Exit
  /\ mqueue' = Tail(mqueue)
  /\ reader' = "drain"
  /\ UNCHANGED <<notReader, mesh>>

DeleteQueue ==
  /\ reader = "drain" /\ reader' = "call"
  /\ mqueue' = NoQueue
  /\ UNCHANGED <<notReader, mesh>>

(* The request reaches the devices, or some of them.                       *)
Forward ==
  /\ reader = "wait" /\ mqueue # <<>> /\ Head(mqueue) # Exit
  /\ mqueue' = Tail(mqueue)
  /\ reader' = "call"
  /\ \E D \in SUBSET asked[Head(mqueue)].dest :
       mesh' = mesh \cup {<<Head(mqueue), d>> : d \in D}
  /\ UNCHANGED notReader

-----------------------------------------------------------------------------
(* root_write_task(): mlink_httpd_write() of the answer of a device        *)
notWriter == <<server, mqueue, asked, http, reader, timeout, hasty>>

Slot  == conns[writer.slot]
At(pc) ==
  /\ writer.pc = pc /\ conns # Freed
  /\ UNCHANGED <<notWriter, mesh, crossed>>
Goto(pc) == writer' = [writer EXCEPT !.pc = pc]

(* The next piece is sent and the task goes on, or its connection is gone. *)
Write(table, piece, pc) ==
  \/ Sent(table, table[writer.slot].fd, piece) /\ Goto(pc)
  \/ NotSent(table, table[writer.slot].fd) /\ writer' = Resting

(* The handle is read first, the table after that.                         *)
WriteCall(a) ==
  /\ writer.pc = "idle" /\ a \in mesh
  /\ mesh' = mesh \ {a}
  /\ writer' = IF server THEN [Resting EXCEPT !.pc = "find", !.answer = a]
               ELSE writer
  /\ UNCHANGED <<notWriter, tableVars>>

WriteFind ==
  /\ writer.pc = "find" /\ conns # Freed
  /\ LET F == FirstFound(conns, asked[writer.answer[1]].fd)
     IN  /\ writer' = IF F = {} THEN Resting
                      ELSE [writer EXCEPT !.slot = Least(F),
                              !.pc = IF conns[Least(F)].flag = "header"
                                     THEN "header" ELSE "size"]
         /\ crossed' = crossed \cup {conns[i].req : i \in F \cap {timeout.slot}}
  /\ UNCHANGED <<notWriter, mesh, conns, sockets, reply, closed>>

WriteHeader == At("header") /\ Write(conns, <<"header">>, "mark")

(* The flag is set after the header is out.                                *)
Unmarked == conns                                                 \* mutant
Marked ==
  IF writer.pc = "mark" THEN [conns EXCEPT ![writer.slot].flag = "body"]
  ELSE conns

WriteSize ==
  /\ At("size") \/ At("mark")
  /\ IF Marked[writer.slot].flag = "body" THEN Write(Marked, <<"size">>, "data")
     ELSE Goto("data") /\ UNCHANGED <<conns, sockets, reply, closed>>

WriteData == At("data") /\ Write(conns, writer.answer, "count")

(* num is a uint16_t.                                                      *)
Less(num) == (num + 65535) % 65536

WriteCount ==
  /\ At("count")
  /\ LET left    == Less(Slot.num)
         counted == [conns EXCEPT ![writer.slot].num = left]
     IN  IF left > 0
         THEN /\ conns' = counted /\ writer' = Resting
              /\ UNCHANGED <<sockets, reply, closed>>
         ELSE IF Slot.flag = "body" THEN Write(counted, <<"footer">>, "remove")
         ELSE /\ conns' = Cleared(counted, {writer.slot})
              /\ writer' = Resting
              /\ UNCHANGED <<sockets, reply, closed>>

WriteRemove ==
  /\ At("remove")
  /\ conns' = Cleared(conns, {writer.slot})
  /\ writer' = Resting
  /\ UNCHANGED <<sockets, reply, closed>>

-----------------------------------------------------------------------------
(* The timer task: mlink_connection_timeout_cb(), 15 s after the request   *)
(* or the last answer of several.  The text is chosen by the flag.         *)
notTimer == <<server, mqueue, asked, http, reader, writer, mesh, hasty>>

ExpiresUnheard(i) == conns[i].timer /\ conns[i].flag = "header"   \* mutant
Expires(i) == conns[i].timer /\ conns[i].flag # "none"

TimerFires(i) ==
  /\ timeout.pc = "idle" /\ conns # Freed /\ Expires(i)
  /\ timeout' = [pc |-> "send", slot |-> i,
                 answer |-> <<IF conns[i].flag = "body" THEN "footer" ELSE "400">>]
  /\ conns' = [conns EXCEPT ![i].flag = "data"]
  /\ crossed' = IF writer.slot = i THEN crossed \cup {conns[i].req} ELSE crossed
  /\ UNCHANGED <<notTimer, sockets, reply, closed>>

(* The text is sent, or the socket is not writable, as when its connection *)
(* is gone, or send() fails, which removes the entry found as well.        *)
TimerCloses ==
  /\ timeout.pc = "send" /\ conns # Freed
  /\ timeout' = Resting
  /\ LET fd   == conns[timeout.slot].fd
         open == fd # NoFd /\ sockets[fd] # NoRequest
     IN  /\ closed' = IF open THEN closed \cup {sockets[fd]} ELSE closed
         /\ sockets' = IF open THEN [sockets EXCEPT ![fd] = NoRequest] ELSE sockets
         /\ \/ /\ open
               /\ reply' = [reply EXCEPT ![sockets[fd]] = Append(@, timeout.answer)]
               /\ conns' = Cleared(conns, {timeout.slot}) /\ UNCHANGED crossed
            \/ /\ conns' = Cleared(conns, {timeout.slot}) /\ UNCHANGED <<reply, crossed>>
            \/ /\ open /\ UNCHANGED reply
               /\ LET F == FirstFound(conns, fd)
                  IN  /\ conns' = Cleared(conns, F \cup {timeout.slot})
                      /\ crossed' = crossed \cup
                                     {conns[i].req : i \in F \cap {writer.slot}}
  /\ UNCHANGED notTimer

-----------------------------------------------------------------------------
(* mlink_httpd_start() and mlink_httpd_stop(), on the event loop           *)
notLoop == <<asked, http, reader, writer, timeout, mesh>>

UnopenedQueue == mqueue                                           \* mutant
OpenedQueue == IF mqueue = NoQueue THEN <<>> ELSE mqueue

(* A second server on the port does not start.                             *)
HttpdStart ==
  /\ mqueue' = OpenedQueue
  /\ conns' = IF conns = Freed THEN [i \in Slots |-> Unused] ELSE conns
  /\ server' = TRUE
  /\ hasty' = (hasty \/ (~server /\ \/ reader = "drain"
                                    \/ \E i \in DOMAIN mqueue : mqueue[i] = Exit))
  /\ UNCHANGED <<notLoop, sockets, reply, closed, crossed>>

(* httpd_stop() waits for the handler that runs and closes all sockets.    *)
HttpdStop ==
  /\ http.pc = "idle"
  /\ server' = FALSE
  /\ Close(Fds)
  /\ UNCHANGED <<notLoop, mqueue, conns, reply, crossed, hasty>>

(* The mark of the end is lost when the queue is full; without a queue the *)
(* root aborts.                                                            *)
HttpdExit ==
  /\ mqueue # NoQueue
  /\ mqueue' = IF Len(mqueue) < QueueLen THEN Append(mqueue, Exit) ELSE mqueue
  /\ UNCHANGED <<notLoop, server, tableVars, hasty>>

(* A task that still holds an entry goes no further: use after free.       *)
HttpdFreeNot == UNCHANGED httpdVars                               \* mutant
HttpdFree ==
  /\ conns' = Freed
  /\ crossed' = crossed \cup
       ({conns[i].req : i \in {writer.slot, timeout.slot} \cap DOMAIN conns}
          \ {NoRequest})
  /\ UNCHANGED <<notLoop, server, mqueue, sockets, reply, closed, hasty>>
=============================================================================
