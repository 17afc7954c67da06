----------------------------- MODULE MCMlinkRoot -----------------------------
EXTENDS MlinkRoot, TLC

CONSTANTS r1, r2, d1, d2

MCSource  == [got |-> "ip", lost |-> "ip", dhcp |-> "ip", table |-> "mesh",
              mesh |-> "mesh", exception |-> "null", reset |-> "value"]
MCBuffers == [ip |-> 1, mesh |-> 2, null |-> 1, value |-> 1]
MCTask    == [ip |-> "event", mesh |-> "event", null |-> "event", value |-> "timer"]

Told(kind)   == [kind |-> kind, copies |-> TRUE, sends |-> TRUE]
Untold(kind) == [kind |-> kind, copies |-> TRUE, sends |-> FALSE]
Bare(kind)   == [kind |-> kind, copies |-> FALSE, sends |-> TRUE]
MCTurns ==
  [got |-> <<Told("got")>>, lost |-> <<Told("lost")>>, dhcp |-> <<Untold("dhcp")>>,
   table |-> <<Told("table")>>, started |-> <<Bare("mesh")>>,
   network |-> <<Untold("mesh"), Told("mesh")>>,
   rootless |-> <<Told("mesh"), Told("mesh")>>,
   disconnected |-> <<Bare("exception"), Told("mesh")>>,
   reset |-> <<Told("reset")>>]

Quiet == [got |-> 1, lost |-> 0, dhcp |-> 0, table |-> 0, started |-> 0,
          network |-> 0, rootless |-> 0, disconnected |-> 0, reset |-> 0,
          notices |-> 0, hangups |-> 0, mdns |-> 0, dest |-> [r \in Requests |-> {}]]
Asks(p, R) == [p EXCEPT !.dest = R]

(* Two requests on a server that stays, one to both devices.               *)
Clients == Asks([Quiet EXCEPT !.hangups = 1], (r1 :> {d1, d2} @@ r2 :> {d1}))
(* A server that stops and starts again.                                   *)
Switch  == Asks([Quiet EXCEPT !.got = 2, !.lost = 2], (r1 :> {d1} @@ r2 :> {}))
(* Notices of devices between the changes of the address.                  *)
News    == [Quiet EXCEPT !.got = 2, !.lost = 1, !.notices = 2, !.mdns = 1]
(* More events than the queue takes.                                       *)
Flood   == [Quiet EXCEPT !.lost = 1, !.dhcp = 1, !.table = 2, !.reset = 1]
(* Every other call of the callbacks.                                      *)
Mesh    == [Quiet EXCEPT !.table = 1, !.started = 1, !.network = 1,
                         !.rootless = 1, !.disconnected = 1]
MCPlans == {Clients, Switch, News, Flood, Mesh}

(* To keep the graph small, clients come when the root has announced itself *)
(* and the notices of this address are out.                                 *)
Heard == asked' # asked => notices \in {NoNotices, <<>>} /\ message = {}

(* On a server that stays, one thing goes wrong: a connection breaks or is *)
(* hung up, or a timer is not created; after that only timers expire.      *)
Calm ==
  \/ closed \cup crossed = {}
  \/ /\ closed' # closed /\ reply' = reply => ~server'
     /\ http.pc = "timer" /\ conns' = conns => crossed' = crossed

HeardSpec == RootInit /\ [][Next /\ Heard /\ Calm]_vars /\ Fairness
=============================================================================
