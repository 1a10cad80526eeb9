----------------------------- MODULE MqttClient -----------------------------
(***************************************************************************)
(* The MQTT client of esp_mqtt_proj (mqtt.c) with the demo that drives it  *)
(* (user_main.c, wifi.c) and the client half of espconn (espconn.c,        *)
(* espconn_tcp.c), whose list of active connections, plink_active, is      *)
(* links.  A connection object (struct espconn) is a number, 0 is NULL; a  *)
(* new object gets a number nothing refers to any more.                    *)
(*                                                                         *)
(* Handlers and tasks run to completion.  The timers, of half a second and *)
(* more, run when no posted event is waiting.                              *)
(***************************************************************************)
EXTENDS Naturals, FiniteSets

CONSTANTS KEEPALIVE,       \* seconds of silence before a ping
          RECONNECT,       \* MQTT_RECONNECT_TIMEOUT
          SENDTIME,        \* MQTT_SEND_TIMOUT
          QUEUE,           \* messages that fit into the queue
          DOMAIN_HOST,     \* MQTT_HOST is a name and not an address
          SEEN,            \* wifi_check_ip misses no change of the Wi-Fi
          PROMPT,          \* the broker acknowledges within a second
          FAULTS,          \* library calls that may fail for lack of memory
          DROPS, FLIPS, CALLS, FAILS   \* bounds: connections lost, changes
                           \* of the Wi-Fi status, messages, failed calls

ASSUME MqttAssumption ==
  /\ {KEEPALIVE, RECONNECT, SENDTIME, QUEUE} \subseteq Nat \ {0}
  /\ {DROPS, FLIPS, CALLS, FAILS} \subseteq Nat
  /\ {DOMAIN_HOST, SEEN, PROMPT} \subseteq BOOLEAN
  /\ FAULTS \subseteq {"connect", "close", "send"}

VARIABLES mqtt,     \* the MQTT_Client
          links,    \* plink_active: [con, st, sig, busy, discb]
          queries,  \* connection objects with an unanswered name query
          posted,   \* the one slot of the MQTT task's queue is taken
          wifi,     \* lastWifiStatus
          sntp,     \* sntp_timer is armed
          left      \* what is left of the bounds

mqttVars == <<mqtt, links, queries, posted, wifi, sntp, left>>

ConnStates ==
  {"WIFI_INIT", "TCP_DISCONNECTING", "TCP_DISCONNECTED", "TCP_RECONNECT_DISCONNECTING",
   "TCP_RECONNECT_REQ", "TCP_RECONNECT", "TCP_CONNECTING", "MQTT_CONNECT_SENDING",
   "MQTT_DATA", "MQTT_KEEPALIVE_SEND", "MQTT_DELETING", "MQTT_DELETED"}

Con == 1..4

Link == [con : Con, st : {"syn", "up"}, sig : {"none", "close", "err"},
         busy : BOOLEAN, discb : BOOLEAN]

(* user_init *)
MqttInit ==
  /\ mqtt = [connState |-> "WIFI_INIT", pCon |-> 0, armed |-> FALSE, keepAliveTick |-> 0,
             reconnectTick |-> 0, sendTimeout |-> 0, pending |-> "none", queue |-> 0]
  /\ links = {} /\ queries = {} /\ posted = TRUE
  /\ wifi = "STATION_IDLE" /\ sntp = FALSE
  /\ left = [drops |-> DROPS, flips |-> FLIPS, calls |-> CALLS, fails |-> FAILS,
             deletes |-> 1]

Use(what) == left[what] > 0 /\ left' = [left EXCEPT ![what] = @ - 1]
(* The station is down while wifi_check_ip has seen it down, give or take  *)
(* what happened since it last looked.                                     *)
Up   == wifi = "STATION_GOT_IP" \/ ~SEEN
Down == wifi # "STATION_GOT_IP" \/ ~SEEN
Arrives(l) == l.con = mqtt.pCon /\ l.sig = "none" /\ Up
Quiet == ~posted /\ \A l \in links : l.sig = "none"

-----------------------------------------------------------------------------
(* espconn.  A result is [links, ok, fails]: fails is 1 when the call      *)
(* failed for lack of memory.                                              *)
Failing(f) == IF f \in FAULTS /\ left.fails > 0 THEN {0, 1} ELSE {0}
Spent(n) == left' = [left EXCEPT !.fails = @ - n]

(* espconn_connect: there is no route while the station has no address *)
NewLink(con) ==
  [con |-> con, st |-> "syn", sig |-> "none", busy |-> FALSE, discb |-> FALSE]

espconn_connect(con) ==
         [links : IF Up THEN {links \union {NewLink(con)}} ELSE {}, fails : {0}]
  \union [links : IF Down THEN {links} ELSE {}, fails : {0}]
  \union [links : {links}, fails : Failing("connect") \ {0}]

(* espconn_sent takes one message at a time.  A message that failed may    *)
(* have been kept and be sent after all; on a connection that has ended    *)
(* but is still listed anything may come back.                             *)
espconn_send(con) ==
  LET free    == {l \in links : l.con = con /\ l.st = "up" /\ ~l.busy}
      Kept(l) == (links \ {l}) \union {[l EXCEPT !.busy = TRUE]}
      Fail    == [links : {links}, ok : {FALSE}, fails : {0}]
  IN  IF free = {} THEN Fail
      ELSE UNION {  [links : {Kept(l)}, ok : {TRUE}, fails : {0}]
             \union [links : {links, Kept(l)}, ok : {FALSE}, fails : Failing("send") \ {0}]
             \union (IF l.sig = "none" THEN {} ELSE Fail) : l \in free}

(* espconn_client_close: tcp_close may fail, and then nothing is posted *)
CloseLink(l) ==
  {[links |-> IF n = 1 THEN links ELSE (links \ {l}) \union {[l EXCEPT !.sig = "close"]},
    fails |-> n] : n \in Failing("close")}

espconn_disconnect(con) ==
  IF \E l \in links : l.con = con /\ l.sig = "none"
    THEN CloseLink(CHOOSE l \in links : l.con = con /\ l.sig = "none")
    ELSE {[links |-> links, fails |-> 0]}

-----------------------------------------------------------------------------
(* mqtt_tcpclient_delete: espconn_delete only knows servers *)
mqtt_tcpclient_delete(d) == [d EXCEPT !.pCon = 0]

FreshCon == CHOOSE n \in Con : n \notin queries \union {l.con : l \in links}

(* MQTT_Connect, on the client d *)
MQTT_Connect(d) ==
  /\ mqtt' = [d EXCEPT !.pCon = FreshCon, !.keepAliveTick = 0, !.reconnectTick = 0,
                    !.armed = TRUE, !.connState = "TCP_CONNECTING"]
  /\ IF DOMAIN_HOST
       THEN queries' = queries \union {FreshCon} /\ UNCHANGED <<links, left>>
       ELSE \E r \in espconn_connect(FreshCon) :
              links' = r.links /\ Spent(r.fails) /\ UNCHANGED queries

(* mqtt_dns_found *)
mqtt_dns_found(q) ==
  /\ q \in queries /\ q = mqtt.pCon
  /\ queries' = queries \ {q}
  /\ \/ /\ mqtt' = [mqtt EXCEPT !.connState = "TCP_RECONNECT_REQ"] /\ Use("drops")
        /\ UNCHANGED <<links, posted>>
     \/ /\ mqtt' = [mqtt EXCEPT !.connState = "TCP_CONNECTING"]
        /\ \E r \in espconn_connect(mqtt.pCon) : links' = r.links /\ Spent(r.fails)
        /\ posted' = TRUE
  /\ UNCHANGED <<wifi, sntp>>

(* mqtt_tcpclient_connect_cb *)
mqtt_tcpclient_connect_cb(l) ==
  /\ Arrives(l) /\ l.st = "syn"
  /\ \E n \in Failing("send") :
       /\ links' = (links \ {l}) \union
                     {[l EXCEPT !.st = "up", !.discb = TRUE, !.busy = (n = 0)]}
       /\ Spent(n)
  /\ mqtt' = [mqtt EXCEPT !.pending = "CONNECT", !.sendTimeout = SENDTIME,
                    !.connState = "MQTT_CONNECT_SENDING"]
  /\ posted' = TRUE
  /\ UNCHANGED <<queries, wifi, sntp>>

-----------------------------------------------------------------------------
(* MQTT_Publish and its like: the oldest messages make room. *)
Stored(d, n) == [d EXCEPT !.queue = IF @ + n > QUEUE THEN QUEUE ELSE @ + n]

(* mqtt_tcpclient_recv.  CONNACK: mqttConnectedCb queues the demo's        *)
(* messages.  A message that asks for an answer: it is queued if it fits.  *)
RecvConnack(l) ==
  /\ Arrives(l) /\ l.st = "up"
  /\ mqtt.connState = "MQTT_CONNECT_SENDING"
  /\ posted' = TRUE
  /\ IF mqtt.pending = "CONNECT"
       THEN /\ mqtt' = [Stored(mqtt, 2) EXCEPT !.keepAliveTick = 0,
                                                !.connState = "MQTT_DATA"]
            /\ UNCHANGED <<links, left>>
       ELSE /\ mqtt' = [mqtt EXCEPT !.keepAliveTick = 0]
            /\ \E r \in espconn_disconnect(mqtt.pCon) : links' = r.links /\ Spent(r.fails)
  /\ UNCHANGED <<queries, wifi, sntp>>

RecvOther(l) ==
  /\ Arrives(l) /\ l.st = "up"
  /\ Use("calls")
  /\ posted' = TRUE
  /\ mqtt' = [(IF mqtt.connState \in {"MQTT_DATA", "MQTT_KEEPALIVE_SEND"}
              THEN Stored(mqtt, 1) ELSE mqtt) EXCEPT !.keepAliveTick = 0]
  /\ UNCHANGED <<links, queries, wifi, sntp>>

(* espconn_tcp_finish releases the acknowledged message. *)
espconn_client_sent(l) ==
  l.busy /\ links' = (links \ {l}) \union {[l EXCEPT !.busy = FALSE]}

mqtt_tcpclient_sent_cb(l) ==
  /\ Arrives(l) /\ l.st = "up" /\ espconn_client_sent(l)
  /\ mqtt' = [mqtt EXCEPT !.sendTimeout = 0, !.keepAliveTick = 0]
  /\ posted' = TRUE
  /\ UNCHANGED <<queries, wifi, sntp, left>>

(* tcp_err: a connection that fails, espconn_client_err; and one that the  *)
(* broker closes, espconn_client_recv without data.                        *)
espconn_client_err(l) ==
  /\ l.con = mqtt.pCon /\ l.sig = "none" /\ Use("drops")
  /\ links' = (links \ {l}) \union {[l EXCEPT !.sig = "err"]}
  /\ UNCHANGED <<mqtt, queries, posted, wifi, sntp>>

PeerCloses(l) ==
  /\ Arrives(l) /\ l.st = "up" /\ left.drops > 0
  /\ \E r \in CloseLink(l) :
       /\ links' = r.links
       /\ left' = [left EXCEPT !.drops = @ - 1, !.fails = @ - r.fails]
  /\ UNCHANGED <<mqtt, queries, posted, wifi, sntp>>

(* espconn_Task: mqtt_tcpclient_recon_cb and mqtt_tcpclient_discon_cb,     *)
(* which is only registered once the connection is up.  The mutant takes a *)
(* close before a reconnection for a final one.                            *)
Discon(final, s) ==
  CASE s \in final           -> "TCP_DISCONNECTED"
    [] s = "MQTT_DELETING"   -> "MQTT_DELETED"
    [] OTHER                 -> "TCP_RECONNECT_REQ"
mqtt_tcpclient_discon_cb_final(s) ==
  Discon({"TCP_DISCONNECTING", "TCP_RECONNECT_DISCONNECTING"}, s)
mqtt_tcpclient_discon_cb(s) == Discon({"TCP_DISCONNECTING"}, s)

espconn_Task(l) ==
  /\ l.con = mqtt.pCon /\ l.sig # "none"
  /\ links' = links \ {l}
  /\ \/ /\ l.sig = "err"
        /\ mqtt' = [mqtt EXCEPT !.connState = "TCP_RECONNECT_REQ"] /\ posted' = TRUE
     \/ /\ l.sig = "close" /\ l.discb
        /\ mqtt' = [mqtt EXCEPT !.connState = mqtt_tcpclient_discon_cb(@)] /\ posted' = TRUE
     \/ l.sig = "close" /\ ~l.discb /\ UNCHANGED <<mqtt, posted>>
  /\ UNCHANGED <<queries, wifi, sntp, left>>

-----------------------------------------------------------------------------
(* MQTT_Task *)
TaskReconnect ==
  /\ mqtt.connState = "TCP_RECONNECT"
  /\ MQTT_Connect(mqtt_tcpclient_delete(mqtt))
  /\ posted' = FALSE

TaskDisconnect ==
  /\ mqtt.connState \in {"MQTT_DELETING", "TCP_DISCONNECTING", "TCP_RECONNECT_DISCONNECTING"}
  /\ \E r \in espconn_disconnect(mqtt.pCon) : links' = r.links /\ Spent(r.fails)
  /\ posted' = FALSE
  /\ UNCHANGED <<mqtt, queries>>

TaskDelete ==
  /\ mqtt.connState \in {"TCP_DISCONNECTED", "MQTT_DELETED"}
  /\ mqtt' = mqtt_tcpclient_delete(mqtt)
  /\ posted' = FALSE
  /\ UNCHANGED <<links, queries, left>>

(* mqtt_send_keepalive.  The mutant reconnects without closing first. *)
KeepaliveFailing(s) ==
  /\ mqtt.connState = "MQTT_KEEPALIVE_SEND"
  /\ \E r \in espconn_send(mqtt.pCon) :
       /\ links' = r.links /\ Spent(r.fails)
       /\ mqtt' = [mqtt EXCEPT !.pending = "PINGREQ", !.sendTimeout = SENDTIME,
                  !.keepAliveTick = IF r.ok THEN 0 ELSE @,
                  !.connState = IF r.ok THEN "MQTT_DATA" ELSE s]
  /\ posted' = TRUE
  /\ UNCHANGED queries
mqtt_send_keepalive_hasty == KeepaliveFailing("TCP_RECONNECT")
mqtt_send_keepalive == KeepaliveFailing("TCP_RECONNECT_DISCONNECTING")

(* MQTT_DATA: the result of espconn_send is ignored *)
TaskSend ==
  /\ mqtt.connState = "MQTT_DATA" /\ mqtt.queue > 0 /\ mqtt.sendTimeout = 0
  /\ \E r \in espconn_send(mqtt.pCon) : links' = r.links /\ Spent(r.fails)
  /\ mqtt' = [mqtt EXCEPT !.queue = @ - 1, !.pending = "queued", !.sendTimeout = SENDTIME]
  /\ posted' = FALSE
  /\ UNCHANGED queries

TaskNothing ==
  /\ \/ mqtt.connState \in {"WIFI_INIT", "TCP_RECONNECT_REQ", "TCP_CONNECTING",
                         "MQTT_CONNECT_SENDING"}
     \/ mqtt.connState = "MQTT_DATA" /\ (mqtt.queue = 0 \/ mqtt.sendTimeout # 0)
  /\ posted' = FALSE
  /\ UNCHANGED <<mqtt, links, queries, left>>

MQTT_Task ==
  /\ posted
  /\ \/ TaskReconnect \/ TaskDisconnect \/ TaskDelete \/ mqtt_send_keepalive
     \/ TaskSend \/ TaskNothing
  /\ UNCHANGED <<wifi, sntp>>

(* mqtt_timer *)
Pinging(d) == [d EXCEPT !.keepAliveTick = @ + 1,
                        !.connState = IF d.keepAliveTick + 1 > KEEPALIVE
                                        THEN "MQTT_KEEPALIVE_SEND" ELSE @]
Retrying(d) == IF d.reconnectTick + 1 > RECONNECT
                 THEN [d EXCEPT !.reconnectTick = 0, !.connState = "TCP_RECONNECT"]
                 ELSE [d EXCEPT !.reconnectTick = @ + 1]

mqtt_timer ==
  /\ mqtt.armed /\ Quiet
  /\ PROMPT => \A l \in links : ~(l.busy /\ Arrives(l))
  /\ LET d == CASE mqtt.connState = "MQTT_DATA"         -> Pinging(mqtt)
                [] mqtt.connState = "TCP_RECONNECT_REQ" -> Retrying(mqtt)
                [] OTHER                                -> mqtt
     IN  /\ mqtt' = [d EXCEPT !.sendTimeout = IF @ > 0 THEN @ - 1 ELSE 0]
         /\ posted' = (d.connState # mqtt.connState)
  /\ UNCHANGED <<links, queries, wifi, sntp, left>>

-----------------------------------------------------------------------------
(* The application: wifi_check_ip and wifiConnectCb, sntpfn, and calls of  *)
(* MQTT_Publish and of MQTT_DeleteClient.                                  *)
Deleted == left.deletes = 0   \* the application has let go of the client

Told(s) ==
  /\ mqtt' = [mqtt EXCEPT !.connState = s, !.armed = FALSE]
  /\ posted' = TRUE
MQTT_Disconnect == Told("TCP_DISCONNECTING")

wifi_check_ip(s) ==
  /\ ~Deleted /\ Quiet /\ s # wifi /\ Use("flips")
  /\ wifi' = s
  /\ IF s = "STATION_GOT_IP" THEN sntp' = TRUE /\ UNCHANGED <<mqtt, posted>>
     ELSE MQTT_Disconnect /\ UNCHANGED sntp
  /\ UNCHANGED <<links, queries>>

sntpfn ==
  /\ ~Deleted /\ Quiet /\ sntp /\ sntp' = FALSE
  /\ MQTT_Connect(mqtt_tcpclient_delete(mqtt))
  /\ UNCHANGED <<posted, wifi>>

MQTT_Publish ==
  /\ ~Deleted /\ Use("calls")
  /\ mqtt' = Stored(mqtt, 1) /\ posted' = TRUE
  /\ UNCHANGED <<links, queries, wifi, sntp>>

MQTT_DeleteClient ==
  /\ Use("deletes")
  /\ Told("MQTT_DELETING")
  /\ UNCHANGED <<links, queries, wifi, sntp>>

Network(l) ==
  \/ mqtt_tcpclient_connect_cb(l) \/ RecvConnack(l) \/ RecvOther(l)
  \/ mqtt_tcpclient_sent_cb(l) \/ espconn_client_err(l) \/ PeerCloses(l)

MqttNext ==
  \/ \E q \in queries : mqtt_dns_found(q)
  \/ \E l \in links : Network(l) \/ espconn_Task(l)
  \/ MQTT_Task \/ mqtt_timer
  \/ \E s \in {"STATION_CONNECTING", "STATION_GOT_IP"} : wifi_check_ip(s)
  \/ sntpfn \/ MQTT_Publish \/ MQTT_DeleteClient

MqttSpec == MqttInit /\ [][MqttNext]_mqttVars

(* Tasks and timers run; the broker accepts connections, acknowledges and  *)
(* answers CONNECT; name queries end.                                      *)
MqttFairness ==
  /\ WF_mqttVars(MQTT_Task) /\ WF_mqttVars(mqtt_timer) /\ WF_mqttVars(sntpfn)
  /\ WF_mqttVars(\E l \in links : espconn_Task(l))
  /\ WF_mqttVars(\E l \in links : mqtt_tcpclient_connect_cb(l))
  /\ WF_mqttVars(\E l \in links : RecvConnack(l))
  /\ WF_mqttVars(\E l \in links : mqtt_tcpclient_sent_cb(l))
  /\ WF_mqttVars(\E q \in queries : mqtt_dns_found(q))

MqttFairSpec == MqttSpec /\ MqttFairness

-----------------------------------------------------------------------------
(* The ranges of the client's fields.                                      *)
MqttTypeOK ==
  /\ mqtt \in [connState : ConnStates, pCon : Con \union {0}, armed : BOOLEAN,
            keepAliveTick : 0..KEEPALIVE+1, reconnectTick : 0..RECONNECT,
            sendTimeout : 0..SENDTIME,
            pending : {"none", "CONNECT", "PINGREQ", "queued"}, queue : 0..QUEUE]
  /\ links \subseteq Link /\ queries \subseteq Con
  /\ posted \in BOOLEAN /\ sntp \in BOOLEAN

(* Every connection espconn still works for is the client's present one:   *)
(* no callback can arrive for an object MQTT_Connect has freed.            *)
OldConnectionGone ==
  /\ \A l \in links : l.con = mqtt.pCon
  /\ queries \subseteq {mqtt.pCon}

(* In the states in which the client sends, its connection is in espconn's *)
(* list and established, and a CONNACK finds the CONNECT still pending.    *)
DataConnected ==
  /\ mqtt.connState \in {"MQTT_CONNECT_SENDING", "MQTT_DATA", "MQTT_KEEPALIVE_SEND"} =>
       \E l \in links : l.con = mqtt.pCon /\ l.st = "up"
  /\ mqtt.connState = "MQTT_CONNECT_SENDING" => mqtt.pending = "CONNECT"

(* The client of mqtt.c: its fields stay in their ranges, no callback      *)
(* reaches a freed connection, and it sends on established ones only.      *)
MqttSound == MqttTypeOK /\ OldConnectionGone /\ DataConnected

(* Whatever the broker, the network and the Wi-Fi did before, once the     *)
(* station keeps its address the client gets to MQTT_DATA again.           *)
Recovers ==
  <>[](wifi = "STATION_GOT_IP" /\ ~Deleted) => []<>(mqtt.connState = "MQTT_DATA")

(* A queue is emptied as long as the client stays connected: a wakeup lost *)
(* with a refused message is made up for by the next ping.                 *)
Drains ==
  <>[](wifi = "STATION_GOT_IP" /\ ~Deleted) => []<>(mqtt.queue = 0)
=============================================================================
