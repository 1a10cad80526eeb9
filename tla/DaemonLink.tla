----------------------------- MODULE DaemonLink -----------------------------
(***************************************************************************)
(* The TCP link between the orai_munka firmware (user/daemon-handle.c) and *)
(* the daemon on the PC (daemon.py; development/server.py runs the same    *)
(* loop).                                                                  *)
(*                                                                         *)
(* Firmware: daemonSts and one espconn.  Its callbacks and mainTask run to *)
(* their end one after the other.  A closed or failed connection leaves    *)
(* espconn's list before its callback runs, and espconn's own task runs    *)
(* before mainTask does, so losing a connection is one step.               *)
(* Daemon: one thread that accepts a connection, reads from it once and    *)
(* goes back to accept.  Rebinding self.conn closes the previous socket.   *)
(* TCP: an ordered stream each way; a read returns what has arrived.       *)
(*                                                                         *)
(* A measurement is abstracted to the events it will post (see Dht): one,  *)
(* or two if its parity is wrong.                                          *)
(***************************************************************************)
EXTENDS Naturals, Sequences, SequencesExt

CONSTANTS
  LATCH,       \* cmdsts is assigned after DHT_GET (server.py), or only
               \* compared (daemon.py)
  MAX_CONN,    \* bound: connections the firmware opens
  MAX_FAULTS   \* bound: lost connections, refusals, restarts of either side

ASSUME LinkAssumption ==
  /\ LATCH \in BOOLEAN
  /\ MAX_CONN \in Nat \ {0}
  /\ MAX_FAULTS \in Nat

VARIABLES
  daemonSts,  \* firmware: 0 ask, 1 reading wanted, 2 reading handed over
  node,       \* espconn's record of the connection
  conn,       \* number of the connection node stands for (0: none yet)
  unacked,    \* the connection's one send buffer awaits its ACK
  ip,         \* the station has an IP address
  started,    \* socketStarter has run
  events,     \* COMPL events the current measurement still brings
  up, down,   \* per connection: messages not yet read by daemon, firmware
  link,       \* per connection: how it stands (see Link)
  backlog,    \* daemon: connections established and not accepted
  dpc,        \* daemon thread: where it blocks
  dconn,      \* daemon: self.conn (0: none)
  cmdsts,     \* daemon: self.cmdsts
  faults,     \* faults so far
  gets,       \* history: DHT_GET commands the firmware received
  temps,      \* history: readings espconn_send accepted
  claims      \* history: "Espconn dht tcp ok data" lines

espVars    == <<daemonSts, node, conn, unacked, ip, started, events>>
netVars    == <<up, down, link>>
daemonVars == <<backlog, dpc, dconn, cmdsts>>
history    == <<gets, temps, claims>>
vars       == <<espVars, netVars, daemonVars, faults, history>>

Conn == 1..MAX_CONN

(* open; the firmware is gone and the daemon does not know; the firmware's *)
(* RST reached the daemon; the daemon closed; it closed with data unread.  *)
Link == {"open", "lost", "reset", "fin", "rst"}

(* Both ends keep to their types: daemonSts stays below 3, so it needs no  *)
(* reset, and espconn and the thread are in one of their states.           *)
LinkTypeOK ==
  /\ daemonSts \in 0..2
  /\ node \in {"none", "syn", "est"}
  /\ conn \in 0..MAX_CONN
  /\ unacked \in BOOLEAN /\ ip \in BOOLEAN /\ started \in BOOLEAN
  /\ events \in 0..2
  /\ up \in [Conn -> Seq({"DAEMON_ASK", "TEMP"})]
  /\ down \in [Conn -> Seq({"DHT_GET", "OK"})]
  /\ link \in [Conn -> Link]
  /\ backlog \in Seq(Conn)
  /\ dpc \in {"accept", "recv", "dead"}
  /\ dconn \in 0..MAX_CONN
  /\ cmdsts \in {0, 1}
  /\ faults \in 0..MAX_FAULTS
  /\ gets \in Nat /\ temps \in Nat /\ claims \in Nat

Init ==
  /\ daemonSts = 0 /\ node = "none" /\ conn = 0 /\ unacked = FALSE
  /\ ip \in BOOLEAN /\ started = FALSE
  /\ events \in {1, 2}          \* user_init has called dhtStart
  /\ up = [c \in Conn |-> <<>>] /\ down = [c \in Conn |-> <<>>]
  /\ link = [c \in Conn |-> "open"]
  /\ backlog = <<>> /\ dpc = "accept" /\ dconn = 0 /\ cmdsts = 0
  /\ faults = 0
  /\ gets = 0 /\ temps = 0 /\ claims = 0

-----------------------------------------------------------------------------
(* espconn, as daemon-handle.c uses it.  nd is the record at the time of   *)
(* the call.                                                               *)

(* ESPCONN_ISCONN while the record exists, ESPCONN_RTE without an address. *)
espconn_connect(nd) ==
  IF nd = "none" /\ ip /\ conn < MAX_CONN
    THEN node' = "syn" /\ conn' = conn + 1
    ELSE node' = nd /\ UNCHANGED conn

(* ESPCONN_ARG for a NULL pointer and before the handshake is over,        *)
(* ESPCONN_MAXNUM while the one buffer is in use.  The callers only print  *)
(* the error.                                                              *)
Sendable(nd, msg) == nd = "est" /\ msg # "NULL" /\ ~unacked

espconn_send(nd, msg) ==
  IF Sendable(nd, msg)
    THEN /\ up' = [up EXCEPT ![conn] = Append(@, msg)]
         /\ unacked' = TRUE
         /\ temps' = temps + (IF msg = "TEMP" THEN 1 ELSE 0)
    ELSE /\ unacked' = (nd = "est" /\ unacked)
         /\ UNCHANGED <<up, temps>>

(***************************************************************************)
(* daemonRequest(data).  sizeof(data) is the size of a pointer: only the   *)
(* four bytes "TEMP" of the reading are sent.  daemonSts moves on whether  *)
(* or not anything was sent.  The mutant does not move on.                 *)
(***************************************************************************)
daemonRequest_again(nd, data) ==
  /\ espconn_send(nd, IF daemonSts = 0 THEN "DAEMON_ASK" ELSE data)
  /\ node' = nd
  /\ UNCHANGED <<daemonSts, conn, claims>>

daemonRequest(nd, data) ==
  \/ /\ daemonSts = 0
     /\ espconn_send(nd, "DAEMON_ASK")
     /\ node' = nd
     /\ UNCHANGED <<daemonSts, conn, claims>>
  \/ /\ daemonSts = 1
     /\ espconn_connect(nd)
     /\ espconn_send(nd, data)
     /\ daemonSts' = daemonSts + 1
     /\ claims' = claims + 1
  \/ /\ daemonSts > 1
     /\ node' = nd
     /\ unacked' = (nd = "est" /\ unacked)
     /\ UNCHANGED <<daemonSts, conn, up, temps, claims>>

-----------------------------------------------------------------------------
(* The firmware.                                                           *)

(* socketStarter, six seconds after boot: daemonConInit connects once.     *)
socketStarter ==
  /\ ~started
  /\ started' = TRUE
  /\ espconn_connect(node)
  /\ daemonSts' = 0
  /\ UNCHANGED <<unacked, ip, events, netVars, daemonVars, faults, history>>

(* The handshake ends: daemonConnCbk.  The daemon's kernel queues the      *)
(* connection for accept.  Both ports are fixed (13001), so the handshake  *)
(* has cleared away what the daemon still held of an earlier connection.   *)
daemonConnCbk ==
  /\ node = "syn"
  /\ daemonRequest("est", "NULL")
  /\ backlog' = Append(backlog, conn)
  /\ link' = [c \in Conn |-> IF link[c] = "lost" THEN "reset" ELSE link[c]]
  /\ UNCHANGED <<ip, started, events, down, dpc, dconn, cmdsts, faults, gets>>

(* The peer's ACK frees the send buffer: espconn_client_sent.              *)
Acked ==
  /\ node = "est" /\ unacked /\ link[conn] = "open"
  /\ unacked' = FALSE
  /\ UNCHANGED <<daemonSts, node, conn, ip, started, events, netVars,
                 daemonVars, faults, history>>

(* daemonConRecvCbk, daemonHandleAnswer.  The segment also acknowledges    *)
(* what the daemon had read when it answered.                              *)
daemonHandleAnswer ==
  /\ node = "est" /\ down[conn] # <<>> /\ link[conn] \in {"open", "fin"}
  /\ down' = [down EXCEPT ![conn] = Tail(@)]
  /\ unacked' = (unacked /\ up[conn] # <<>>)
  /\ IF Head(down[conn]) = "DHT_GET"
       THEN daemonSts' = daemonSts + 1 /\ gets' = gets + 1 /\ events' \in {1, 2}
       ELSE daemonSts' = 0 /\ UNCHANGED <<gets, events>>
  /\ UNCHANGED <<node, conn, ip, started, up, link, daemonVars, faults, temps,
                 claims>>

(* mainTask, case COMPL: daemonRequest(&printbuf).                         *)
mainTaskReport ==
  /\ events > 0
  /\ events' = events - 1
  /\ daemonRequest(node, "TEMP")
  /\ UNCHANGED <<ip, started, down, link, daemonVars, faults, gets>>

(* The daemon's FIN, after all it sent: daemonDiscCbk only prints.         *)
daemonDiscCbk ==
  /\ node = "est" /\ link[conn] = "fin" /\ down[conn] = <<>>
  /\ node' = "none"
  /\ unacked' = FALSE
  /\ UNCHANGED <<daemonSts, conn, ip, started, events, netVars, daemonVars,
                 faults, history>>

(* An error ends the connection: daemonReconnCbk calls daemonRequest(NULL) *)
(* when there is no connection any more.                                   *)
daemonReconnCbk ==
  /\ daemonRequest("none", "NULL")
  /\ UNCHANGED <<ip, started, events, down, daemonVars, gets>>

(* The daemon's RST arrives.                                               *)
PeerReset ==
  /\ node = "est" /\ link[conn] = "rst"
  /\ daemonReconnCbk
  /\ UNCHANGED <<link, faults>>

(* The handshake is refused or never answered.                             *)
Refused ==
  /\ node = "syn" /\ faults < MAX_FAULTS
  /\ faults' = faults + 1
  /\ daemonReconnCbk
  /\ UNCHANGED link

(* The firmware gives an established connection up; its RST reaches the    *)
(* daemon or it doesn't.                                                   *)
ConnLost ==
  /\ node = "est" /\ link[conn] = "open" /\ faults < MAX_FAULTS
  /\ faults' = faults + 1
  /\ \E l \in {"lost", "reset"} : link' = [link EXCEPT ![conn] = l]
  /\ daemonReconnCbk

(* The board restarts: the daemon hears nothing, and what was on its way   *)
(* to it arrives or doesn't.                                               *)
Reboot ==
  /\ faults < MAX_FAULTS
  /\ faults' = faults + 1
  /\ daemonSts' = 0 /\ node' = "none" /\ unacked' = FALSE /\ started' = FALSE
  /\ events' \in {1, 2}
  /\ IF node = "est" /\ link[conn] = "open"
       THEN /\ link' = [link EXCEPT ![conn] = "lost"]
            /\ \E q \in {up[conn], <<>>} : up' = [up EXCEPT ![conn] = q]
       ELSE UNCHANGED <<link, up>>
  /\ ip' \in BOOLEAN
  /\ UNCHANGED <<conn, down, daemonVars, history>>

-----------------------------------------------------------------------------
(* The daemon.                                                             *)

(* Closing sockets S: data left unread turns the FIN into a RST.           *)
Closed(S) == [c \in Conn |->
                IF c \in S /\ link[c] = "open"
                  THEN IF up[c] = <<>> THEN "fin" ELSE "rst"
                  ELSE link[c]]

(* self.conn, self.addr = self.espsocket.accept()                          *)
Accept ==
  /\ dpc = "accept" /\ backlog # <<>>
  /\ dconn' = Head(backlog)
  /\ backlog' = Tail(backlog)
  /\ link' = Closed({dconn})
  /\ dpc' = "recv"
  /\ UNCHANGED <<espVars, up, down, cmdsts, faults, history>>

(* What the loop body answers to the messages of data, and cmdsts after    *)
(* it; the mutant asks for a reading only when one is already under way.   *)
SendsGet_swapped(data) == Contains(data, "DAEMON_ASK") /\ cmdsts = 1
SendsGet(data) == Contains(data, "DAEMON_ASK") /\ cmdsts = 0

AfterGet(data) == IF SendsGet(data) /\ LATCH THEN 1 ELSE cmdsts

SendsOk(data) == Contains(data, "TEMP") /\ AfterGet(data) = 1

(* data = self.conn.recv(1024) and the rest of the loop body; the mutant   *)
(* goes on reading from the same connection.                               *)
Answer(data) ==
  /\ up' = [up EXCEPT ![dconn] = SubSeq(@, Len(data) + 1, Len(@))]
  /\ down' = [down EXCEPT ![dconn] = @
                \o (IF SendsGet(data) THEN <<"DHT_GET">> ELSE <<>>)
                \o (IF SendsOk(data) THEN <<"OK">> ELSE <<>>)]
  /\ cmdsts' = IF SendsOk(data) THEN 0 ELSE AfterGet(data)
  /\ UNCHANGED <<espVars, link, backlog, dconn, faults, history>>
Recv_loops ==
  /\ dpc = "recv" /\ up[dconn] # <<>> /\ link[dconn] # "reset"
  /\ \E n \in 1..Len(up[dconn]) : Answer(SubSeq(up[dconn], 1, n))
  /\ UNCHANGED dpc
Recv ==
  /\ dpc = "recv" /\ up[dconn] # <<>> /\ link[dconn] # "reset"
  /\ \E n \in 1..Len(up[dconn]) : Answer(SubSeq(up[dconn], 1, n))
  /\ dpc' = "accept"

(* recv raises on a reset connection; nothing catches it and the thread    *)
(* ends.                                                                   *)
RecvRaises ==
  /\ dpc = "recv" /\ link[dconn] = "reset"
  /\ dpc' = "dead"
  /\ UNCHANGED <<espVars, netVars, backlog, dconn, cmdsts, faults, history>>

(* The daemon is stopped and started again: its sockets are closed.        *)
Restart ==
  /\ faults < MAX_FAULTS
  /\ faults' = faults + 1
  /\ link' = Closed({dconn} \union ToSet(backlog))
  /\ backlog' = <<>> /\ dpc' = "accept" /\ dconn' = 0 /\ cmdsts' = 0
  /\ UNCHANGED <<espVars, up, down, history>>

Esp    == \/ socketStarter \/ daemonConnCbk \/ Acked \/ daemonHandleAnswer
          \/ mainTaskReport \/ daemonDiscCbk \/ PeerReset
Daemon == Accept \/ Recv \/ RecvRaises

Faults == Refused \/ ConnLost \/ Reboot \/ Restart

Next == Esp \/ Daemon \/ Faults

Spec == Init /\ [][Next]_vars

(***************************************************************************)
(* Both programs and the network keep going; no fault has to happen.  Only *)
(* finitely many steps are possible, so this makes every one of them that  *)
(* stays possible happen.                                                  *)
(***************************************************************************)
FairSpec == Spec /\ WF_vars(Esp \/ Daemon)

-----------------------------------------------------------------------------
(* Every reading handed to TCP answers a DHT_GET of its own, across lost   *)
(* connections, restarts, repeated events and asks: the firmware never     *)
(* volunteers a reading and never sends one twice.                         *)
ReadingsAsked == temps + (IF daemonSts = 1 THEN 1 ELSE 0) <= gets

(* The status never skips a stage: while a reading is owed (1) or has been *)
(* handed over (2) no second DHT_GET gets through, although the firmware   *)
(* repeats its ask with every event it takes in stage 0.                   *)
OneGetAtATime == daemonSts > 0 => down[conn] = <<>>

(* An established connection gets its DHT_GET, unless it breaks first: of  *)
(* all the places where both sides could wait for each other at this stage *)
(* only two are left, a daemon thread that an earlier connection's reset   *)
(* has ended, and a server.py still waiting for a reading it was promised  *)
(* before the board restarted.                                             *)
AskServed == node = "est" ~> (\/ daemonSts >= 1 \/ node # "est"
                              \/ dpc = "dead" \/ cmdsts = 1)

-----------------------------------------------------------------------------
(* daemon-handle.c:106 "GOT DhT ACK", daemon.py:56 "ACK requested": a      *)
(* reading that was handed over is acknowledged, which makes the firmware  *)
(* ready to ask again.                                                     *)
AckArrives == daemonSts = 2 ~> daemonSts = 0

(* daemon-handle.c:129 "Espconn dht tcp ok data: %s": a reading logged as  *)
(* sent was accepted by espconn_send.                                      *)
OkMeansSent == claims = temps
=============================================================================
