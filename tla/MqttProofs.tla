----------------------------- MODULE MqttProofs -----------------------------
(***************************************************************************)
(* MqttSound for any timeouts, queue and numbers of lost connections,      *)
(* failed calls and changes of the Wi-Fi.  MQTT_Connect neither ends the   *)
(* connection espconn still has nor cancels a name query, so what keeps    *)
(* the client from being called back with a freed object is the order of   *)
(* things alone: the old connection has always ended before.  That order   *)
(* rests on what Reliable says of the rest of the system.                  *)
(***************************************************************************)
EXTENDS MqttClient, Integers, TLAPS

(* wifi_check_ip sees every change of the Wi-Fi and tcp_close does not     *)
(* fail; with a name for a host, whose query nothing can cancel, the Wi-Fi *)
(* comes up once.                                                          *)
Reliable == SEEN /\ "close" \notin FAULTS /\ (DOMAIN_HOST => FLIPS <= 1)

Wifis == {"STATION_IDLE", "STATION_CONNECTING", "STATION_GOT_IP"}
Client == [connState : ConnStates, pCon : Con \union {0}, armed : BOOLEAN,
           keepAliveTick : 0..KEEPALIVE+1, reconnectTick : 0..RECONNECT,
           sendTimeout : 0..SENDTIME,
           pending : {"none", "CONNECT", "PINGREQ", "queued"}, queue : 0..QUEUE]
Left == [drops : Int, flips : Nat, calls : Int, fails : Int, deletes : Int]

ClientTypes ==
  /\ mqtt \in Client /\ links \subseteq Link /\ queries \subseteq Con
  /\ posted \in BOOLEAN /\ sntp \in BOOLEAN /\ wifi \in Wifis /\ left \in Left

Bare == links = {} /\ queries = {}

(* espconn has at most one connection, the client's present one, and not   *)
(* while a name query is under way.                                        *)
OneLink ==
  /\ \A l, m \in links : l = m
  /\ \A l \in links : l.con = mqtt.pCon /\ l.discb = (l.st = "up")
  /\ queries \subseteq {mqtt.pCon}
  /\ links = {} \/ queries = {}
  /\ queries # {} => DOMAIN_HOST

(* In the states from which another connection is opened or the client     *)
(* forgets its own there is none left.                                     *)
Ended ==
  mqtt.connState \in {"TCP_RECONNECT_REQ", "TCP_RECONNECT", "TCP_DISCONNECTED",
                      "MQTT_DELETED", "WIFI_INIT"} => Bare

(* While the station is off line, or has just come back, the connection is *)
(* closing or the task is about to close it.                               *)
Ending == posted /\ mqtt.connState \in {"TCP_DISCONNECTING", "MQTT_DELETING"}
Away == wifi # "STATION_GOT_IP" \/ sntp
OffLine ==
  /\ Away /\ ~DOMAIN_HOST => (\A l \in links : l.sig # "none") \/ Ending
  /\ sntp /\ wifi = "STATION_GOT_IP" => \A l \in links : l.sig # "none"
  /\ Away /\ DOMAIN_HOST => Bare

(* With a name the Wi-Fi comes up once.                                    *)
OneFlip ==
  DOMAIN_HOST => /\ left.flips <= 1
                 /\ left.flips > 0 => wifi # "STATION_GOT_IP" /\ ~sntp
                 /\ sntp => wifi = "STATION_GOT_IP"

Ticks == mqtt.connState = "MQTT_DATA" => mqtt.keepAliveTick <= KEEPALIVE

(* Away or deleted the client does not reconnect: its timer is off as long *)
(* as anything could still make it ask for a reconnection.                 *)
NoRetry ==
  Away \/ Deleted =>
    /\ mqtt.connState # "TCP_RECONNECT"
    /\ mqtt.connState = "TCP_RECONNECT_REQ" \/ links # {} \/ queries # {} => ~mqtt.armed

ClientInv ==
  /\ ClientTypes /\ OneLink /\ Ended /\ OffLine /\ OneFlip /\ Ticks /\ NoRetry
  /\ DataConnected

-----------------------------------------------------------------------------
LEMMA ClientSizes ==
  /\ KEEPALIVE \in Nat /\ RECONNECT \in Nat /\ SENDTIME \in Nat /\ QUEUE \in Nat
  /\ KEEPALIVE > 0 /\ RECONNECT > 0 /\ SENDTIME > 0 /\ QUEUE > 0
  /\ DROPS \in Nat /\ FLIPS \in Nat /\ CALLS \in Nat /\ FAILS \in Nat
  /\ DOMAIN_HOST \in BOOLEAN /\ SEEN \in BOOLEAN
  BY MqttAssumption

(* The client before user_init has found the Wi-Fi.                        *)
LEMMA InitClientInv == Reliable /\ MqttInit => ClientInv
<1> SUFFICES ASSUME Reliable, MqttInit PROVE ClientInv
  OBVIOUS
<1>1. ClientTypes
  <2>1. mqtt \in Client
    BY ClientSizes DEF MqttInit, Client, ConnStates
  <2>2. left \in Left
    BY ClientSizes DEF MqttInit, Left
  <2> QED BY <2>1, <2>2 DEF MqttInit, ClientTypes, Wifis
<1>2. OneLink /\ Ended
  BY DEF MqttInit, OneLink, Ended, Bare
<1>3. OffLine
  BY DEF MqttInit, OffLine, Bare
<1>4. OneFlip /\ Ticks /\ NoRetry /\ DataConnected
  BY DEF MqttInit, OneFlip, Ticks, NoRetry, DataConnected, Reliable
<1> QED BY <1>1, <1>2, <1>3, <1>4 DEF ClientInv

(* What the calls of espconn leave of the one connection.                  *)
Alike(ls) ==
  \/ links = {} /\ ls = {}
  \/ \E l \in links : \E m \in Link :
       /\ links = {l} /\ ls = {m} /\ m.con = l.con /\ m.st = l.st /\ m.discb = l.discb
       /\ l.sig # "none" => m.sig # "none"

LEMMA AlikeSelf == ClientTypes /\ OneLink => Alike(links)
<1> SUFFICES ASSUME ClientTypes, OneLink, links # {} PROVE Alike(links)
  BY DEF Alike
<1>1. PICK l \in links : TRUE
  OBVIOUS
<1>2. links = {l} /\ l \in Link
  BY <1>1 DEF OneLink, ClientTypes
<1> QED BY <1>1, <1>2 DEF Alike

(* espconn_sent takes a message or refuses it.                             *)
LEMMA SendAlike ==
  ASSUME ClientTypes, OneLink, NEW con, NEW r \in espconn_send(con)
  PROVE  Alike(r.links) /\ r.fails \in {0, 1}
<1> DEFINE free == {l \in links : l.con = con /\ l.st = "up" /\ ~l.busy}
           Kept(l) == (links \ {l}) \union {[l EXCEPT !.busy = TRUE]}
<1>1. r.fails \in {0, 1} /\ (r.links = links \/ \E l \in links : r.links = Kept(l))
  <2>1. Failing("send") \subseteq {0, 1}
    BY DEF Failing
  <2>2. CASE free = {}
    BY <2>2 DEF espconn_send
  <2>3. CASE free # {}
    <3> DEFINE A(l) == [links : {Kept(l)}, ok : {TRUE}, fails : {0}]
               B(l) == [links : {links, Kept(l)}, ok : {FALSE},
                        fails : Failing("send") \ {0}]
               C(l) == IF l.sig = "none" THEN {}
                       ELSE [links : {links}, ok : {FALSE}, fails : {0}]
    <3>1. PICK l \in free : r \in A(l) \union B(l) \union C(l)
      BY <2>3 DEF espconn_send
    <3> HIDE DEF Kept
    <3>2. CASE r \in A(l)
      BY <3>2
    <3>3. CASE r \in B(l)
      BY <3>3, <2>1
    <3>4. CASE r \in C(l)
      BY <3>4
    <3> QED BY <3>1, <3>2, <3>3, <3>4
  <2> QED BY <2>2, <2>3
<1>2. ASSUME NEW l \in links, r.links = Kept(l) PROVE Alike(r.links)
  <2>1. links = {l} /\ l \in Link
    BY DEF OneLink, ClientTypes
  <2> DEFINE m == [l EXCEPT !.busy = TRUE]
  <2>2. r.links = {m}
    BY <1>2, <2>1
  <2>3. m \in Link /\ m.con = l.con /\ m.st = l.st /\ m.discb = l.discb /\ m.sig = l.sig
    BY <2>1 DEF Link
  <2> HIDE DEF m
  <2> QED BY <2>1, <2>2, <2>3 DEF Alike
<1> QED BY <1>1, <1>2, AlikeSelf

(* tcp_close, which does not fail: the end of the connection is posted.    *)
LEMMA CloseAlike ==
  ASSUME Reliable, ClientTypes, OneLink, NEW l \in links, NEW r \in CloseLink(l)
  PROVE  Alike(r.links) /\ r.fails = 0 /\ \A m \in r.links : m.sig # "none"
<1>1. links = {l} /\ l \in Link
  BY DEF OneLink, ClientTypes
<1> DEFINE m == [l EXCEPT !.sig = "close"]
<1>2. Failing("close") = {0}
  BY DEF Failing, Reliable
<1>3. r.links = {m} /\ r.fails = 0
  BY <1>1, <1>2 DEF CloseLink
<1>4. m \in Link /\ m.con = l.con /\ m.st = l.st /\ m.discb = l.discb /\ m.sig = "close"
  BY <1>1 DEF Link
<1> HIDE DEF m
<1> QED BY <1>1, <1>3, <1>4 DEF Alike

LEMMA DisconnectAlike ==
  ASSUME Reliable, ClientTypes, OneLink, NEW r \in espconn_disconnect(mqtt.pCon)
  PROVE  Alike(r.links) /\ r.fails = 0 /\ \A m \in r.links : m.sig # "none"
<1>1. CASE \E l \in links : l.con = mqtt.pCon /\ l.sig = "none"
  <2> DEFINE l == CHOOSE l \in links : l.con = mqtt.pCon /\ l.sig = "none"
  <2>1. l \in links /\ r \in CloseLink(l)
    BY <1>1 DEF espconn_disconnect
  <2> HIDE DEF l
  <2> QED BY <2>1, CloseAlike
<1>2. CASE ~\E l \in links : l.con = mqtt.pCon /\ l.sig = "none"
  <2>1. r.links = links /\ r.fails = 0
    BY <1>2 DEF espconn_disconnect
  <2> QED BY <2>1, <1>2, AlikeSelf DEF OneLink
<1> QED BY <1>1, <1>2

(* espconn_connect opens nothing while the station is off line.            *)
LEMMA ConnectLinks ==
  ASSUME Reliable, NEW con \in Con, NEW r \in espconn_connect(con), links = {}
  PROVE  /\ r.fails \in {0, 1}
         /\ \/ r.links = {}
            \/ /\ wifi = "STATION_GOT_IP" /\ NewLink(con) \in Link
               /\ r.links = {NewLink(con)}
<1>1. Failing("connect") \subseteq {0, 1}
  BY DEF Failing
<1>2. NewLink(con) \in Link
  BY DEF NewLink, Link
<1> QED BY <1>1, <1>2 DEF espconn_connect, Reliable, Up, Down

(* A step that only works on the present connection.                       *)
LEMMA AlikeStep ==
  ASSUME ClientTypes, OneLink, Alike(links'), queries' = queries, mqtt'.pCon = mqtt.pCon
  PROVE  /\ links' \subseteq Link /\ OneLink' /\ (Bare' <=> Bare)
         /\ links' = {} <=> links = {}
         /\ (\A l \in links : l.sig # "none") => (\A l \in links' : l.sig # "none")
         /\ (\E l \in links : l.con = mqtt.pCon /\ l.st = "up") =>
              (\E l \in links' : l.con = mqtt'.pCon /\ l.st = "up")
<1>1. CASE links = {} /\ links' = {}
  BY <1>1 DEF OneLink, Bare
<1>2. CASE ~(links = {} /\ links' = {})
  <2>1. PICK l \in links, m \in Link :
          /\ links = {l} /\ links' = {m} /\ m.con = l.con /\ m.st = l.st
          /\ m.discb = l.discb /\ (l.sig # "none" => m.sig # "none")
    BY <1>2 DEF Alike
  <2>2. OneLink'
    BY <2>1 DEF OneLink
  <2> QED BY <2>1, <2>2 DEF Bare
<1> QED BY <1>1, <1>2

LEMMA FreshIsCon == queries = {} /\ links = {} => FreshCon \in Con
  BY DEF FreshCon, Con

LEMMA SpentLeft ==
  ASSUME left \in Left, NEW n \in {0, 1}, Spent(n)
  PROVE  left' \in Left /\ left'.flips = left.flips /\ left'.deletes = left.deletes
  BY DEF Left, Spent

(* MQTT_Connect opens the one connection, or begins the query for it.      *)
LEMMA Opens ==
  ASSUME Reliable, ClientTypes, Bare, MQTT_Connect(mqtt_tcpclient_delete(mqtt))
  PROVE  /\ mqtt' \in Client /\ mqtt'.connState = "TCP_CONNECTING"
         /\ links' \subseteq Link /\ queries' \subseteq Con /\ OneLink'
         /\ left' \in Left /\ left'.flips = left.flips /\ left'.deletes = left.deletes
         /\ wifi # "STATION_GOT_IP" /\ ~DOMAIN_HOST => Bare'
<1> DEFINE f == FreshCon
<1>1. f \in Con
  BY FreshIsCon DEF Bare
<1>2. mqtt' \in Client /\ mqtt'.connState = "TCP_CONNECTING" /\ mqtt'.pCon = f
  <2>1. mqtt' = [[mqtt EXCEPT !.pCon = 0] EXCEPT !.pCon = f, !.keepAliveTick = 0,
                  !.reconnectTick = 0, !.armed = TRUE, !.connState = "TCP_CONNECTING"]
    BY DEF MQTT_Connect, mqtt_tcpclient_delete
  <2> HIDE DEF f
  <2>2. mqtt \in Client /\ {0} \subseteq 0..KEEPALIVE+1 /\ {0} \subseteq 0..RECONNECT
    BY ClientSizes DEF ClientTypes
  <2>3. mqtt' \in Client
    BY <1>1, <2>1, <2>2 DEF Client, ConnStates
  <2> QED BY <2>1, <2>2, <2>3 DEF Client
<1>3. CASE DOMAIN_HOST
  <2>1. links' = {} /\ queries' = {f} /\ left' = left
    BY <1>3 DEF MQTT_Connect, Bare
  <2> HIDE DEF f
  <2>2. OneLink'
    BY <1>2, <1>3, <2>1 DEF OneLink
  <2> QED BY <1>1, <1>2, <1>3, <2>1, <2>2 DEF ClientTypes
<1>4. CASE ~DOMAIN_HOST
  <2>1. PICK r \in espconn_connect(f) :
          links' = r.links /\ Spent(r.fails) /\ UNCHANGED queries
    BY <1>4 DEF MQTT_Connect
  <2>2. /\ r.fails \in {0, 1}
        /\ \/ r.links = {}
           \/ /\ wifi = "STATION_GOT_IP" /\ NewLink(f) \in Link
              /\ r.links = {NewLink(f)}
    BY <1>1, ConnectLinks DEF Bare
  <2>3. left' \in Left /\ left'.flips = left.flips /\ left'.deletes = left.deletes
    BY <2>1, <2>2, SpentLeft DEF ClientTypes
  <2>4. links' \subseteq Link /\ queries' = {}
    BY <2>1, <2>2 DEF Bare
  <2>5. OneLink'
    <3>1. NewLink(f).con = f /\ NewLink(f).discb = (NewLink(f).st = "up")
      BY DEF NewLink
    <3> QED BY <1>2, <2>1, <2>2, <2>4, <3>1 DEF OneLink
  <2> QED BY <1>2, <2>1, <2>2, <2>3, <2>4, <2>5 DEF Bare
<1> QED BY <1>3, <1>4 DEF ClientTypes

-----------------------------------------------------------------------------
(* The network's callbacks.                                                *)
LEMMA FoundStep ==
  ASSUME Reliable, ClientInv, NEW q \in queries, mqtt_dns_found(q)
  PROVE  ClientInv'
<1> USE DEF ClientInv
<1>1. queries' = {} /\ links = {} /\ DOMAIN_HOST /\ wifi' = wifi /\ sntp' = sntp
      /\ ~Bare /\ mqtt.pCon \in Con
  BY DEF mqtt_dns_found, OneLink, ClientTypes, Bare
<1>2. ~Away /\ (Deleted => ~mqtt.armed)
  BY <1>1 DEF OffLine, NoRetry
<1>3. CASE /\ mqtt' = [mqtt EXCEPT !.connState = "TCP_RECONNECT_REQ"] /\ Use("drops")
           /\ UNCHANGED <<links, posted>>
  <2>1. left' \in Left /\ left'.flips = left.flips /\ left'.deletes = left.deletes
    BY <1>3 DEF Use, Left, ClientTypes
  <2>2. /\ mqtt' \in Client /\ mqtt'.connState = "TCP_RECONNECT_REQ"
        /\ mqtt'.armed = mqtt.armed
    BY <1>3 DEF ClientTypes, Client, ConnStates
  <2>3. ClientTypes' /\ OneLink' /\ Bare'
    BY <1>1, <1>3, <2>1, <2>2 DEF ClientTypes, OneLink, Bare
  <2>4. OneFlip' /\ Away' = Away /\ Deleted' = Deleted
    BY <1>1, <2>1 DEF OneFlip, Away, Deleted
  <2> QED BY <1>2, <2>2, <2>3, <2>4 DEF Ended, OffLine, Ticks, NoRetry, DataConnected, Bare
<1>4. CASE /\ mqtt' = [mqtt EXCEPT !.connState = "TCP_CONNECTING"]
           /\ \E r \in espconn_connect(mqtt.pCon) : links' = r.links /\ Spent(r.fails)
           /\ posted' = TRUE
  <2>1. PICK r \in espconn_connect(mqtt.pCon) : links' = r.links /\ Spent(r.fails)
    BY <1>4
  <2>2. /\ r.fails \in {0, 1}
        /\ \/ r.links = {}
           \/ NewLink(mqtt.pCon) \in Link /\ r.links = {NewLink(mqtt.pCon)}
    BY <1>1, ConnectLinks
  <2>3. left' \in Left /\ left'.flips = left.flips /\ left'.deletes = left.deletes
    BY <2>1, <2>2, SpentLeft DEF ClientTypes
  <2>4. /\ mqtt' \in Client /\ mqtt'.connState = "TCP_CONNECTING"
        /\ mqtt'.armed = mqtt.armed /\ mqtt'.pCon = mqtt.pCon
    BY <1>4 DEF ClientTypes, Client, ConnStates
  <2>5. links' \subseteq Link /\ OneLink'
    <3>1. NewLink(mqtt.pCon).con = mqtt.pCon
          /\ NewLink(mqtt.pCon).discb = (NewLink(mqtt.pCon).st = "up")
      BY DEF NewLink
    <3> QED BY <1>1, <2>1, <2>2, <2>4, <3>1 DEF OneLink
  <2>6. ClientTypes' /\ OneFlip' /\ Away' = Away /\ Deleted' = Deleted
    BY <1>1, <1>4, <2>3, <2>4, <2>5 DEF OneFlip, Away, Deleted, ClientTypes
  <2> QED BY <1>1, <1>2, <2>4, <2>5, <2>6
          DEF Ended, OffLine, Ticks, NoRetry, DataConnected, Bare, Away
<1> QED BY <1>3, <1>4 DEF mqtt_dns_found

(* A callback arrives while the station is on line, and finds the one link *)
LEMMA Arriving ==
  ASSUME Reliable, ClientInv, NEW l \in links, Arrives(l)
  PROVE  /\ links = {l} /\ l \in Link /\ l.sig = "none" /\ l.con = mqtt.pCon /\ ~Away
         /\ queries = {} /\ (Deleted => ~mqtt.armed)
  BY DEF ClientInv, ClientTypes, OneLink, OffLine, Away, Arrives, Up, Reliable, NoRetry

LEMMA ConnectedStep ==
  ASSUME Reliable, ClientInv, NEW l \in links, mqtt_tcpclient_connect_cb(l)
  PROVE  ClientInv'
<1> USE DEF ClientInv
<1>1. /\ links = {l} /\ l \in Link /\ l.sig = "none" /\ l.con = mqtt.pCon /\ ~Away
      /\ queries = {} /\ (Deleted => ~mqtt.armed)
  BY Arriving DEF mqtt_tcpclient_connect_cb
<1>2. PICK n \in Failing("send") :
         /\ links' = (links \ {l}) \union
                       {[l EXCEPT !.st = "up", !.discb = TRUE, !.busy = (n = 0)]}
         /\ Spent(n)
  BY DEF mqtt_tcpclient_connect_cb
<1>3. n \in {0, 1}
  BY DEF Failing
<1> DEFINE m == [l EXCEPT !.st = "up", !.discb = TRUE, !.busy = (n = 0)]
<1>4. links' = {m}
  BY <1>1, <1>2
<1>5. m \in Link /\ m.con = l.con /\ m.st = "up" /\ m.discb = TRUE
  BY <1>1 DEF Link
<1> HIDE DEF m
<1>6. left' \in Left /\ left'.flips = left.flips /\ left'.deletes = left.deletes
  BY <1>2, <1>3, SpentLeft DEF ClientTypes
<1>7. /\ mqtt' \in Client /\ mqtt'.connState = "MQTT_CONNECT_SENDING"
      /\ mqtt'.armed = mqtt.armed /\ mqtt'.pCon = mqtt.pCon /\ mqtt'.pending = "CONNECT"
  <2>1. mqtt' = [mqtt EXCEPT !.pending = "CONNECT", !.sendTimeout = SENDTIME,
                             !.connState = "MQTT_CONNECT_SENDING"]
    BY DEF mqtt_tcpclient_connect_cb
  <2>2. SENDTIME \in 0..SENDTIME
    BY ClientSizes
  <2> QED BY <2>1, <2>2 DEF ClientTypes, Client, ConnStates
<1>8. queries' = queries /\ wifi' = wifi /\ sntp' = sntp /\ posted' = TRUE
  BY DEF mqtt_tcpclient_connect_cb
<1>9. ClientTypes' /\ OneLink'
  BY <1>1, <1>4, <1>5, <1>6, <1>7, <1>8 DEF ClientTypes, OneLink
<1>10. OneFlip' /\ Away' = Away /\ Deleted' = Deleted
  BY <1>6, <1>8 DEF OneFlip, Away, Deleted
<1>11. Ended' /\ Ticks' /\ DataConnected'
  BY <1>1, <1>4, <1>5, <1>7 DEF Ended, Ticks, DataConnected
<1>12. OffLine' /\ NoRetry'
  BY <1>1, <1>7, <1>10 DEF OffLine, NoRetry, Away
<1> QED BY <1>9, <1>10, <1>11, <1>12

LEMMA SameStation ==
  ASSUME OneFlip, wifi' = wifi, sntp' = sntp,
         left'.flips = left.flips, left'.deletes = left.deletes
  PROVE  OneFlip' /\ Away' = Away /\ Deleted' = Deleted
  BY DEF OneFlip, Away, Deleted

(* A step of the connected client: it stays with its connection, which may *)
(* end, and moves between states of the same kind.                         *)
EndStates == {"TCP_RECONNECT_REQ", "TCP_RECONNECT", "TCP_DISCONNECTED",
              "MQTT_DELETED", "WIFI_INIT"}
Sending == {"MQTT_CONNECT_SENDING", "MQTT_DATA", "MQTT_KEEPALIVE_SEND"}
Keeps ==
  /\ Alike(links') /\ queries' = queries /\ wifi' = wifi /\ sntp' = sntp
  /\ posted' \in BOOLEAN
  /\ left' \in Left /\ left'.flips = left.flips /\ left'.deletes = left.deletes
  /\ mqtt' \in Client /\ mqtt'.pCon = mqtt.pCon /\ mqtt'.armed = mqtt.armed
  /\ mqtt'.connState \in EndStates => mqtt'.connState = mqtt.connState
  /\ mqtt'.connState \in Sending => mqtt.connState \in Sending
  /\ mqtt'.connState = "MQTT_CONNECT_SENDING" => mqtt'.pending = "CONNECT"
  /\ Ending => Ending' \/ \A l \in links' : l.sig # "none"

LEMMA KeepsInv == ClientInv /\ Keeps /\ Ticks' => ClientInv'
<1> SUFFICES ASSUME ClientInv, Keeps, Ticks' PROVE ClientInv'
  OBVIOUS
<1> USE DEF ClientInv
<1>1. /\ links' \subseteq Link /\ OneLink' /\ (Bare' <=> Bare)
      /\ links' = {} <=> links = {}
      /\ (\A l \in links : l.sig # "none") => (\A l \in links' : l.sig # "none")
      /\ (\E l \in links : l.con = mqtt.pCon /\ l.st = "up") =>
           (\E l \in links' : l.con = mqtt'.pCon /\ l.st = "up")
  BY AlikeStep DEF Keeps
<1>2. OneFlip' /\ Away' = Away /\ Deleted' = Deleted
  BY SameStation DEF Keeps
<1>3. ClientTypes'
  BY <1>1 DEF ClientTypes, Keeps
<1>4. Ended'
  BY <1>1 DEF Ended, Keeps, EndStates
<1>5. OffLine'
  BY <1>1, <1>2 DEF OffLine, Keeps
<1>6. NoRetry'
  BY <1>1, <1>2 DEF NoRetry, Keeps, EndStates
<1>7. DataConnected'
  BY <1>1 DEF DataConnected, Keeps, Sending
<1> QED BY <1>1, <1>2, <1>3, <1>4, <1>5, <1>6, <1>7

LEMMA UseLeft ==
  ASSUME left \in Left, NEW what \in {"drops", "calls", "fails"}, Use(what)
  PROVE  left' \in Left /\ left'.flips = left.flips /\ left'.deletes = left.deletes
  BY DEF Left, Use

LEMMA StoredClient ==
  ASSUME NEW d \in Client, NEW n \in 0..2
  PROVE  /\ Stored(d, n) \in Client /\ Stored(d, n).connState = d.connState
         /\ Stored(d, n).pCon = d.pCon /\ Stored(d, n).armed = d.armed
         /\ Stored(d, n).pending = d.pending /\ Stored(d, n).keepAliveTick = d.keepAliveTick
<1> DEFINE q == IF d.queue + n > QUEUE THEN QUEUE ELSE d.queue + n
<1>1. q \in 0..QUEUE
  BY ClientSizes DEF Client
<1>2. Stored(d, n) = [d EXCEPT !.queue = q]
  BY DEF Stored, Client
<1> HIDE DEF q
<1> QED BY <1>1, <1>2 DEF Client

LEMMA ZeroTicks == 0 \in 0..KEEPALIVE+1 /\ 0 \in 0..SENDTIME /\ 0 \in 0..RECONNECT
  BY ClientSizes

(* A CONNACK always finds the CONNECT pending.                             *)
LEMMA ConnackStep ==
  ASSUME Reliable, ClientInv, NEW l \in links, RecvConnack(l)
  PROVE  ClientInv'
<1> USE DEF ClientInv
<1>1. mqtt.pending = "CONNECT" /\ mqtt.connState = "MQTT_CONNECT_SENDING"
  BY DEF RecvConnack, DataConnected
<1>2. /\ mqtt' = [Stored(mqtt, 2) EXCEPT !.keepAliveTick = 0, !.connState = "MQTT_DATA"]
      /\ UNCHANGED <<links, queries, wifi, sntp, left>> /\ posted' = TRUE
  BY <1>1 DEF RecvConnack
<1> DEFINE d == Stored(mqtt, 2)
<1>3. d \in Client /\ d.pCon = mqtt.pCon /\ d.armed = mqtt.armed
  BY StoredClient DEF ClientTypes
<1> HIDE DEF d
<1>4. mqtt' = [d EXCEPT !.keepAliveTick = 0, !.connState = "MQTT_DATA"]
  BY <1>2 DEF d
<1>5. /\ mqtt' \in Client /\ mqtt'.pCon = mqtt.pCon /\ mqtt'.armed = mqtt.armed
      /\ mqtt'.connState = "MQTT_DATA" /\ mqtt'.keepAliveTick = 0
  BY <1>3, <1>4, ZeroTicks DEF Client, ConnStates
<1>6. Ticks'
  BY <1>5, ClientSizes DEF Ticks
<1>7. Alike(links')
  BY <1>2, AlikeSelf
<1>8. ~Ending
  BY <1>1 DEF Ending
<1>9. Keeps
  BY <1>1, <1>2, <1>5, <1>7, <1>8 DEF Keeps, ClientTypes, EndStates, Sending
<1> QED BY <1>6, <1>9, KeepsInv

(* The client's own fields after a step that only stores, sends or counts. *)
Tending ==
  /\ mqtt' \in Client /\ mqtt'.pCon = mqtt.pCon /\ mqtt'.armed = mqtt.armed
  /\ mqtt'.connState = mqtt.connState
  /\ mqtt'.pending = mqtt.pending \/ mqtt.connState # "MQTT_CONNECT_SENDING"
  /\ mqtt'.keepAliveTick = mqtt.keepAliveTick \/ mqtt'.keepAliveTick = 0

LEMMA TendingInv ==
  ASSUME ClientInv, Tending, Alike(links'), queries' = queries, wifi' = wifi, sntp' = sntp,
         left' \in Left, left'.flips = left.flips, left'.deletes = left.deletes,
         posted' \in BOOLEAN,
         Ending => posted' \/ \A l \in links' : l.sig # "none"
  PROVE  ClientInv'
<1>1. Ticks'
  BY ClientSizes DEF ClientInv, Tending, Ticks
<1>2. Keeps
  BY DEF ClientInv, Keeps, Tending, DataConnected, EndStates, Sending, Ending
<1> QED BY <1>1, <1>2, KeepsInv

LEMMA OtherStep ==
  ASSUME Reliable, ClientInv, NEW l \in links, RecvOther(l)
  PROVE  ClientInv'
<1> USE DEF ClientInv
<1> DEFINE d == IF mqtt.connState \in {"MQTT_DATA", "MQTT_KEEPALIVE_SEND"}
                THEN Stored(mqtt, 1) ELSE mqtt
<1>1. mqtt' = [d EXCEPT !.keepAliveTick = 0]
  BY DEF RecvOther
<1>2. /\ d \in Client /\ d.pCon = mqtt.pCon /\ d.armed = mqtt.armed
      /\ d.connState = mqtt.connState /\ d.pending = mqtt.pending
  BY StoredClient DEF ClientTypes
<1> HIDE DEF d
<1>3. Tending
  BY <1>1, <1>2, ClientSizes DEF Tending, Client
<1>4. left' \in Left /\ left'.flips = left.flips /\ left'.deletes = left.deletes
  BY UseLeft DEF RecvOther, ClientTypes
<1>5. Alike(links')
  BY AlikeSelf DEF RecvOther
<1> QED BY <1>3, <1>4, <1>5, TendingInv DEF RecvOther

LEMMA SentStep ==
  ASSUME Reliable, ClientInv, NEW l \in links, mqtt_tcpclient_sent_cb(l)
  PROVE  ClientInv'
<1> USE DEF ClientInv
<1>1. links = {l} /\ l \in Link
  BY Arriving DEF mqtt_tcpclient_sent_cb
<1>2. links' = {[l EXCEPT !.busy = FALSE]}
  BY <1>1 DEF mqtt_tcpclient_sent_cb, espconn_client_sent
<1> DEFINE m == [l EXCEPT !.busy = FALSE]
<1>3. m \in Link /\ m.con = l.con /\ m.st = l.st /\ m.discb = l.discb /\ m.sig = l.sig
  BY <1>1 DEF Link
<1> HIDE DEF m
<1>4. Alike(links')
  BY <1>1, <1>2, <1>3 DEF Alike, m
<1>5. mqtt' = [mqtt EXCEPT !.sendTimeout = 0, !.keepAliveTick = 0]
  BY DEF mqtt_tcpclient_sent_cb
<1>6. Tending
  BY <1>5, ZeroTicks DEF Tending, Client, ClientTypes
<1> QED BY <1>4, <1>6, TendingInv DEF mqtt_tcpclient_sent_cb, ClientTypes

LEMMA ErrStep ==
  ASSUME Reliable, ClientInv, NEW l \in links, espconn_client_err(l)
  PROVE  ClientInv'
<1> USE DEF ClientInv
<1>1. links = {l} /\ l \in Link
  BY DEF OneLink, ClientTypes
<1> DEFINE m == [l EXCEPT !.sig = "err"]
<1>2. links' = {m}
  BY <1>1 DEF espconn_client_err
<1>3. m \in Link /\ m.con = l.con /\ m.st = l.st /\ m.discb = l.discb /\ m.sig = "err"
  BY <1>1 DEF Link
<1> HIDE DEF m
<1>4. Alike(links') /\ \A k \in links' : k.sig # "none"
  BY <1>1, <1>2, <1>3 DEF Alike
<1>5. left' \in Left /\ left'.flips = left.flips /\ left'.deletes = left.deletes
  BY UseLeft DEF espconn_client_err, ClientTypes
<1>6. Tending
  BY DEF espconn_client_err, Tending, ClientTypes
<1> QED BY <1>4, <1>5, <1>6, TendingInv DEF espconn_client_err, ClientTypes

LEMMA PeerClosesStep ==
  ASSUME Reliable, ClientInv, NEW l \in links, PeerCloses(l)
  PROVE  ClientInv'
<1> USE DEF ClientInv
<1>1. PICK r \in CloseLink(l) :
         /\ links' = r.links
         /\ left' = [left EXCEPT !.drops = @ - 1, !.fails = @ - r.fails]
  BY DEF PeerCloses
<1>2. Alike(links') /\ r.fails = 0 /\ \A m \in links' : m.sig # "none"
  BY <1>1, CloseAlike
<1> DEFINE d == left.drops - 1
           f == left.fails - r.fails
<1>3. d \in Int /\ f \in Int /\ left' = [left EXCEPT !.drops = d, !.fails = f]
  BY <1>1, <1>2 DEF Left, ClientTypes
<1> HIDE DEF d, f
<1>4. left' \in Left /\ left'.flips = left.flips /\ left'.deletes = left.deletes
  BY <1>3 DEF Left, ClientTypes
<1>5. Tending
  BY DEF PeerCloses, Tending, ClientTypes
<1> QED BY <1>2, <1>4, <1>5, TendingInv DEF PeerCloses, ClientTypes

(* The end of the connection.                                              *)
LEMMA EspconnStep ==
  ASSUME Reliable, ClientInv, NEW l \in links, espconn_Task(l)
  PROVE  ClientInv'
<1> USE DEF ClientInv
<1>1. links = {l} /\ l \in Link /\ queries = {} /\ l.discb = (l.st = "up")
  BY DEF OneLink, ClientTypes
<1>2. links' = {} /\ queries' = {} /\ UNCHANGED <<wifi, sntp, left>>
  BY <1>1 DEF espconn_Task
<1>3. /\ mqtt' \in Client /\ mqtt'.pCon = mqtt.pCon /\ mqtt'.armed = mqtt.armed
      /\ posted' \in BOOLEAN
      /\ \/ mqtt'.connState \in {"TCP_RECONNECT_REQ", "TCP_DISCONNECTED", "MQTT_DELETED"}
         \/ mqtt'.connState = mqtt.connState /\ l.st = "syn"
  <2>1. CASE mqtt' = [mqtt EXCEPT !.connState = "TCP_RECONNECT_REQ"] /\ posted' = TRUE
    BY <2>1 DEF ClientTypes, Client, ConnStates
  <2>2. CASE /\ mqtt' = [mqtt EXCEPT !.connState = mqtt_tcpclient_discon_cb(@)]
             /\ posted' = TRUE
    <3> DEFINE s == mqtt_tcpclient_discon_cb(mqtt.connState)
    <3>1. s \in {"TCP_RECONNECT_REQ", "TCP_DISCONNECTED", "MQTT_DELETED"}
      BY DEF mqtt_tcpclient_discon_cb, Discon
    <3>2. mqtt' = [mqtt EXCEPT !.connState = s]
      BY <2>2 DEF ClientTypes, Client
    <3> HIDE DEF s
    <3> QED BY <2>2, <3>1, <3>2 DEF ClientTypes, Client, ConnStates
  <2>3. CASE ~l.discb /\ UNCHANGED <<mqtt, posted>>
    <3>1. l.st = "syn"
      BY <1>1, <2>3 DEF Link
    <3> QED BY <2>3, <3>1 DEF ClientTypes
  <2> QED BY <2>1, <2>2, <2>3 DEF espconn_Task
<1>4. mqtt'.connState \notin Sending
  <2>1. l.st = "syn" => mqtt.connState \notin Sending
    BY <1>1 DEF DataConnected, Sending
  <2> QED BY <1>3, <2>1 DEF Sending
<1>5. OneFlip' /\ Away' = Away /\ Deleted' = Deleted
  BY <1>2, SameStation
<1>6. ClientTypes' /\ OneLink' /\ Bare'
  BY <1>2, <1>3 DEF ClientTypes, OneLink, Bare
<1>7. NoRetry'
  <2>1. Away \/ Deleted => ~mqtt.armed /\ mqtt.connState # "TCP_RECONNECT"
    BY <1>1 DEF NoRetry
  <2> QED BY <1>3, <1>5, <2>1 DEF NoRetry
<1> QED BY <1>4, <1>5, <1>6, <1>7 DEF Ended, OffLine, Ticks, DataConnected, Bare, Sending

-----------------------------------------------------------------------------
(* The task.                                                               *)
LEMMA ReconnectStep ==
  ASSUME Reliable, ClientInv, TaskReconnect, UNCHANGED <<wifi, sntp>>
  PROVE  ClientInv'
<1> USE DEF ClientInv
<1>1. Bare /\ ~Away /\ ~Deleted
  BY DEF TaskReconnect, Ended, NoRetry
<1>2. /\ mqtt' \in Client /\ mqtt'.connState = "TCP_CONNECTING"
      /\ links' \subseteq Link /\ queries' \subseteq Con /\ OneLink'
      /\ left' \in Left /\ left'.flips = left.flips /\ left'.deletes = left.deletes
  BY <1>1, Opens DEF TaskReconnect
<1>3. OneFlip' /\ ~Away' /\ ~Deleted'
  BY <1>1, <1>2, SameStation
<1>4. ClientTypes'
  BY <1>2 DEF ClientTypes, TaskReconnect
<1> QED BY <1>2, <1>3, <1>4 DEF Ended, OffLine, Ticks, NoRetry, DataConnected, Away

LEMMA DisconnectStep ==
  ASSUME Reliable, ClientInv, TaskDisconnect, UNCHANGED <<wifi, sntp>>
  PROVE  ClientInv'
<1> USE DEF ClientInv
<1>1. PICK r \in espconn_disconnect(mqtt.pCon) : links' = r.links /\ Spent(r.fails)
  BY DEF TaskDisconnect
<1>2. Alike(links') /\ r.fails = 0 /\ \A m \in links' : m.sig # "none"
  BY <1>1, DisconnectAlike
<1>3. left' \in Left /\ left'.flips = left.flips /\ left'.deletes = left.deletes
  BY <1>1, <1>2, SpentLeft DEF ClientTypes
<1>4. Tending
  BY DEF TaskDisconnect, Tending, ClientTypes
<1> QED BY <1>2, <1>3, <1>4, TendingInv DEF TaskDisconnect

LEMMA ForgetStep ==
  ASSUME Reliable, ClientInv, TaskDelete, UNCHANGED <<wifi, sntp>>
  PROVE  ClientInv'
<1> USE DEF ClientInv
<1>1. Bare /\ Bare' /\ posted' \in BOOLEAN /\ left' = left
  BY DEF TaskDelete, Ended, Bare
<1>2. /\ mqtt' \in Client /\ mqtt'.connState = mqtt.connState /\ mqtt'.armed = mqtt.armed
      /\ mqtt.connState \in {"TCP_DISCONNECTED", "MQTT_DELETED"}
  BY DEF TaskDelete, mqtt_tcpclient_delete, ClientTypes, Client
<1>3. ClientTypes' /\ OneLink'
  BY <1>1, <1>2 DEF ClientTypes, OneLink, Bare
<1>4. OneFlip' /\ Away' = Away /\ Deleted' = Deleted
  BY <1>1, SameStation
<1> QED BY <1>1, <1>2, <1>3, <1>4 DEF Ended, OffLine, Ticks, NoRetry, DataConnected, Bare

LEMMA KeepaliveStep ==
  ASSUME Reliable, ClientInv, mqtt_send_keepalive, UNCHANGED <<wifi, sntp>>
  PROVE  ClientInv'
<1> USE DEF ClientInv
<1>1. PICK r \in espconn_send(mqtt.pCon) :
         /\ links' = r.links /\ Spent(r.fails)
         /\ mqtt' = [mqtt EXCEPT !.pending = "PINGREQ", !.sendTimeout = SENDTIME,
                      !.keepAliveTick = IF r.ok THEN 0 ELSE @,
                      !.connState = IF r.ok THEN "MQTT_DATA"
                                    ELSE "TCP_RECONNECT_DISCONNECTING"]
  BY DEF mqtt_send_keepalive, KeepaliveFailing
<1>2. /\ mqtt.connState = "MQTT_KEEPALIVE_SEND" /\ posted' = TRUE /\ queries' = queries
  BY DEF mqtt_send_keepalive, KeepaliveFailing
<1>3. Alike(links') /\ r.fails \in {0, 1}
  BY <1>1, SendAlike
<1>4. left' \in Left /\ left'.flips = left.flips /\ left'.deletes = left.deletes
  BY <1>1, <1>3, SpentLeft DEF ClientTypes
<1> DEFINE t == IF r.ok THEN 0 ELSE mqtt.keepAliveTick
           s == IF r.ok THEN "MQTT_DATA" ELSE "TCP_RECONNECT_DISCONNECTING"
<1>5. /\ t \in 0..KEEPALIVE+1 /\ SENDTIME \in 0..SENDTIME
      /\ s \in {"MQTT_DATA", "TCP_RECONNECT_DISCONNECTING"}
      /\ s = "MQTT_DATA" => t = 0
  BY ZeroTicks, ClientSizes DEF ClientTypes, Client
<1>6. mqtt' = [mqtt EXCEPT !.pending = "PINGREQ", !.sendTimeout = SENDTIME,
                           !.keepAliveTick = t, !.connState = s]
  BY <1>1 DEF ClientTypes, Client
<1> HIDE DEF t, s
<1>7. /\ mqtt' \in Client /\ mqtt'.pCon = mqtt.pCon /\ mqtt'.armed = mqtt.armed
      /\ mqtt'.connState = s /\ mqtt'.keepAliveTick = t
  BY <1>5, <1>6 DEF ClientTypes, Client, ConnStates
<1>8. Ticks'
  BY <1>5, <1>7, ClientSizes DEF Ticks
<1>9. Keeps
  BY <1>2, <1>3, <1>4, <1>5, <1>7 DEF Keeps, EndStates, Sending, Ending
<1> QED BY <1>8, <1>9, KeepsInv

LEMMA SendStep ==
  ASSUME Reliable, ClientInv, TaskSend, UNCHANGED <<wifi, sntp>>
  PROVE  ClientInv'
<1> USE DEF ClientInv
<1>1. PICK r \in espconn_send(mqtt.pCon) : links' = r.links /\ Spent(r.fails)
  BY DEF TaskSend
<1>2. Alike(links') /\ r.fails \in {0, 1}
  BY <1>1, SendAlike
<1>3. left' \in Left /\ left'.flips = left.flips /\ left'.deletes = left.deletes
  BY <1>1, <1>2, SpentLeft DEF ClientTypes
<1> DEFINE n == mqtt.queue - 1
<1>4. n \in 0..QUEUE /\ SENDTIME \in 0..SENDTIME
  BY ClientSizes DEF TaskSend, ClientTypes, Client
<1>5. mqtt' = [mqtt EXCEPT !.queue = n, !.pending = "queued", !.sendTimeout = SENDTIME]
  BY DEF TaskSend, ClientTypes, Client
<1> HIDE DEF n
<1>6. Tending
  BY <1>4, <1>5 DEF Tending, ClientTypes, Client, TaskSend
<1>7. ~Ending /\ posted' \in BOOLEAN /\ queries' = queries
  BY DEF TaskSend, Ending
<1> QED BY <1>2, <1>3, <1>6, <1>7, TendingInv

LEMMA NothingStep ==
  ASSUME Reliable, ClientInv, TaskNothing, UNCHANGED <<wifi, sntp>>
  PROVE  ClientInv'
<1> USE DEF ClientInv
<1>1. Tending /\ ~Ending
  BY DEF TaskNothing, Tending, ClientTypes, Ending
<1>2. Alike(links')
  BY AlikeSelf DEF TaskNothing
<1> QED BY <1>1, <1>2, TendingInv DEF TaskNothing, ClientTypes

-----------------------------------------------------------------------------
(* The timer.                                                              *)
LEMMA TimerStep ==
  ASSUME Reliable, ClientInv, mqtt_timer
  PROVE  ClientInv'
<1> USE DEF ClientInv
<1> DEFINE d == CASE mqtt.connState = "MQTT_DATA"         -> Pinging(mqtt)
                  [] mqtt.connState = "TCP_RECONNECT_REQ" -> Retrying(mqtt)
                  [] OTHER                                -> mqtt
<1>1. /\ mqtt' = [d EXCEPT !.sendTimeout = IF @ > 0 THEN @ - 1 ELSE 0]
      /\ posted' \in BOOLEAN /\ mqtt.armed /\ ~posted
      /\ UNCHANGED <<links, queries, wifi, sntp, left>>
  BY DEF mqtt_timer, Quiet
<1>2. /\ d \in Client /\ d.pCon = mqtt.pCon /\ d.armed = mqtt.armed
      /\ d.pending = mqtt.pending
      /\ \/ /\ d.connState = mqtt.connState
            /\ mqtt.connState = "MQTT_DATA" => d.keepAliveTick <= KEEPALIVE
         \/ mqtt.connState = "MQTT_DATA" /\ d.connState = "MQTT_KEEPALIVE_SEND"
         \/ mqtt.connState = "TCP_RECONNECT_REQ" /\ d.connState = "TCP_RECONNECT"
  <2>1. CASE mqtt.connState = "MQTT_DATA"
    <3> DEFINE t == mqtt.keepAliveTick + 1
               s == IF t > KEEPALIVE THEN "MQTT_KEEPALIVE_SEND" ELSE "MQTT_DATA"
    <3>1. t \in 0..KEEPALIVE+1 /\ s \in {"MQTT_KEEPALIVE_SEND", "MQTT_DATA"}
          /\ (s = "MQTT_DATA" => t <= KEEPALIVE)
      BY <2>1, ClientSizes DEF Ticks, ClientTypes, Client
    <3>2. d = Pinging(mqtt)
      BY <2>1
    <3>3. Pinging(mqtt) = [mqtt EXCEPT !.keepAliveTick = t, !.connState = s]
      BY <2>1 DEF Pinging, ClientTypes, Client
    <3> HIDE DEF t, s, d
    <3> QED BY <2>1, <3>1, <3>2, <3>3 DEF ClientTypes, Client, ConnStates
  <2>2. CASE mqtt.connState = "TCP_RECONNECT_REQ"
    <3>1. d = Retrying(mqtt)
      BY <2>2
    <3> HIDE DEF d
    <3>2. CASE mqtt.reconnectTick + 1 > RECONNECT
      <4>1. d = [mqtt EXCEPT !.reconnectTick = 0, !.connState = "TCP_RECONNECT"]
        BY <3>1, <3>2 DEF Retrying
      <4> QED BY <2>2, <4>1, ZeroTicks DEF ClientTypes, Client, ConnStates
    <3>3. CASE ~(mqtt.reconnectTick + 1 > RECONNECT)
      <4> DEFINE t == mqtt.reconnectTick + 1
      <4>1. t \in 0..RECONNECT
        BY <3>3, ClientSizes DEF ClientTypes, Client
      <4>2. d = [mqtt EXCEPT !.reconnectTick = t]
        BY <3>1, <3>3 DEF Retrying, ClientTypes, Client
      <4> HIDE DEF t
      <4> QED BY <2>2, <4>1, <4>2 DEF ClientTypes, Client
    <3> QED BY <3>2, <3>3
  <2>3. CASE mqtt.connState \notin {"MQTT_DATA", "TCP_RECONNECT_REQ"}
    <3>1. d = mqtt
      BY <2>3
    <3> HIDE DEF d
    <3> QED BY <2>3, <3>1 DEF ClientTypes
  <2> QED BY <2>1, <2>2, <2>3
<1> HIDE DEF d
<1> DEFINE w == IF d.sendTimeout > 0 THEN d.sendTimeout - 1 ELSE 0
<1>3. w \in 0..SENDTIME
  BY <1>2, ClientSizes DEF Client
<1>4. mqtt' = [d EXCEPT !.sendTimeout = w]
  BY <1>1, <1>2 DEF Client
<1> HIDE DEF w
<1>5. /\ mqtt' \in Client /\ mqtt'.pCon = mqtt.pCon /\ mqtt'.armed = TRUE
      /\ mqtt'.pending = mqtt.pending /\ mqtt'.connState = d.connState
      /\ mqtt'.keepAliveTick = d.keepAliveTick
  BY <1>1, <1>2, <1>3, <1>4 DEF Client, ClientTypes
<1>6. mqtt.connState = "TCP_RECONNECT_REQ" => Bare /\ ~Away /\ ~Deleted
  BY <1>1 DEF NoRetry, Ended
<1>7. ~Ending
  BY <1>1 DEF Ending
<1>8. ClientTypes' /\ OneLink' /\ (Bare' <=> Bare)
  BY <1>1, <1>5 DEF ClientTypes, OneLink, Bare
<1>9. OneFlip' /\ Away' = Away /\ Deleted' = Deleted
  BY <1>1, SameStation
<1>10. Ended'
  BY <1>2, <1>5, <1>6, <1>8 DEF Ended
<1>11. OffLine'
  BY <1>1, <1>7, <1>8, <1>9 DEF OffLine
<1>12. Ticks'
  BY <1>2, <1>5 DEF Ticks
<1>13. NoRetry'
  BY <1>1, <1>2, <1>5, <1>6, <1>9 DEF NoRetry
<1>14. DataConnected'
  BY <1>1, <1>2, <1>5 DEF DataConnected
<1> QED BY <1>8, <1>9, <1>10, <1>11, <1>12, <1>13, <1>14

-----------------------------------------------------------------------------
(* The application.                                                        *)
LEMMA ToldClient ==
  ASSUME ClientTypes, NEW s \in {"TCP_DISCONNECTING", "MQTT_DELETING"}, Told(s)
  PROVE  /\ mqtt' \in Client /\ mqtt'.pCon = mqtt.pCon /\ mqtt'.armed = FALSE
         /\ mqtt'.connState = s /\ posted' = TRUE
  BY DEF Told, ClientTypes, Client, ConnStates

LEMMA WifiStep ==
  ASSUME Reliable, ClientInv, NEW s \in {"STATION_CONNECTING", "STATION_GOT_IP"},
         wifi_check_ip(s)
  PROVE  ClientInv'
<1> USE DEF ClientInv
<1>1. /\ ~Deleted /\ ~posted /\ wifi' = s /\ s # wifi /\ UNCHANGED <<links, queries>>
      /\ \A l \in links : l.sig = "none"
  BY DEF wifi_check_ip, Quiet
<1>2. /\ left.flips > 0 /\ left' \in Left /\ left'.flips = left.flips - 1
      /\ left'.deletes = left.deletes
  BY DEF wifi_check_ip, Use, Left, ClientTypes
<1>3. ~Deleted' /\ ~Ending
  BY <1>1, <1>2 DEF Deleted, Ending
<1>4. CASE s = "STATION_GOT_IP"
  <2>1. sntp' = TRUE /\ UNCHANGED <<mqtt, posted>> /\ Away /\ Away'
    BY <1>1, <1>4 DEF wifi_check_ip, Away
  <2>2. links = {} /\ (DOMAIN_HOST => Bare)
    BY <1>1, <1>3, <2>1 DEF OffLine, Bare
  <2>3. ClientTypes' /\ OneLink' /\ (Bare' <=> Bare)
    BY <1>1, <1>2, <1>4, <2>1 DEF ClientTypes, OneLink, Bare, Wifis
  <2>4. OneFlip'
    BY <1>1, <1>2, <1>4, <2>1 DEF OneFlip, ClientTypes, Left
  <2>5. OffLine'
    BY <1>1, <2>2, <2>3 DEF OffLine
  <2>6. Ended' /\ Ticks' /\ DataConnected'
    BY <1>1, <2>1, <2>3 DEF Ended, Ticks, DataConnected
  <2>7. NoRetry'
    BY <1>1, <2>1 DEF NoRetry
  <2> QED BY <2>3, <2>4, <2>5, <2>6, <2>7
<1>5. CASE s # "STATION_GOT_IP"
  <2>1. /\ mqtt' \in Client /\ mqtt'.pCon = mqtt.pCon /\ mqtt'.armed = FALSE
        /\ mqtt'.connState = "TCP_DISCONNECTING" /\ posted' = TRUE /\ sntp' = sntp
    BY <1>5, ToldClient DEF wifi_check_ip, MQTT_Disconnect
  <2>2. DOMAIN_HOST => Bare /\ ~sntp
    BY <1>2 DEF OneFlip, OffLine, Away
  <2>3. ClientTypes' /\ OneLink' /\ (Bare' <=> Bare)
    BY <1>1, <1>2, <2>1 DEF ClientTypes, OneLink, Bare, Wifis
  <2>4. OneFlip'
    BY <1>1, <1>2, <1>5, <2>1, <2>2 DEF OneFlip, ClientTypes, Left
  <2>5. OffLine'
    BY <1>1, <1>5, <2>1, <2>2, <2>3 DEF OffLine, Ending
  <2>6. Ended' /\ Ticks' /\ DataConnected' /\ NoRetry'
    BY <2>1 DEF Ended, Ticks, DataConnected, NoRetry
  <2> QED BY <2>3, <2>4, <2>5, <2>6
<1> QED BY <1>4, <1>5

LEMMA SntpStep ==
  ASSUME Reliable, ClientInv, sntpfn
  PROVE  ClientInv'
<1> USE DEF ClientInv
<1>1. /\ ~Deleted /\ ~posted /\ sntp /\ ~sntp' /\ sntp' \in BOOLEAN
      /\ UNCHANGED <<posted, wifi>> /\ \A l \in links : l.sig = "none"
  BY DEF sntpfn, Quiet
<1>2. Bare
  <2>1. Away /\ ~Ending
    BY <1>1 DEF Away, Ending
  <2>2. links = {}
    BY <1>1, <2>1 DEF OffLine, Bare
  <2> QED BY <2>1, <2>2 DEF OffLine, OneLink, Bare
<1>3. /\ mqtt' \in Client /\ mqtt'.connState = "TCP_CONNECTING"
      /\ links' \subseteq Link /\ queries' \subseteq Con /\ OneLink'
      /\ left' \in Left /\ left'.flips = left.flips /\ left'.deletes = left.deletes
      /\ wifi # "STATION_GOT_IP" /\ ~DOMAIN_HOST => Bare'
  BY <1>2, Opens DEF sntpfn
<1>4. ClientTypes' /\ ~Deleted'
  BY <1>1, <1>3 DEF ClientTypes, Deleted
<1>5. OneFlip' /\ (DOMAIN_HOST => wifi = "STATION_GOT_IP")
  BY <1>1, <1>3 DEF OneFlip
<1>6. Away' => Bare'
  BY <1>1, <1>3, <1>5 DEF Away
<1>7. OffLine' /\ NoRetry'
  BY <1>1, <1>3, <1>4, <1>6 DEF OffLine, NoRetry, Bare
<1> QED BY <1>3, <1>4, <1>5, <1>7 DEF Ended, Ticks, DataConnected

LEMMA PublishStep ==
  ASSUME Reliable, ClientInv, MQTT_Publish
  PROVE  ClientInv'
<1> USE DEF ClientInv
<1>1. Tending
  BY StoredClient DEF MQTT_Publish, Tending, ClientTypes
<1>2. left' \in Left /\ left'.flips = left.flips /\ left'.deletes = left.deletes
  BY UseLeft DEF MQTT_Publish, ClientTypes
<1>3. Alike(links')
  BY AlikeSelf DEF MQTT_Publish
<1> QED BY <1>1, <1>2, <1>3, TendingInv DEF MQTT_Publish

LEMMA DeleteStep ==
  ASSUME Reliable, ClientInv, MQTT_DeleteClient
  PROVE  ClientInv'
<1> USE DEF ClientInv
<1>1. UNCHANGED <<links, queries, wifi, sntp>>
  BY DEF MQTT_DeleteClient
<1>2. left' \in Left /\ left'.flips = left.flips
  BY DEF MQTT_DeleteClient, Use, Left, ClientTypes
<1>3. /\ mqtt' \in Client /\ mqtt'.pCon = mqtt.pCon /\ mqtt'.armed = FALSE
      /\ mqtt'.connState = "MQTT_DELETING" /\ posted' = TRUE
  BY ToldClient DEF MQTT_DeleteClient
<1>4. ClientTypes' /\ OneLink' /\ (Bare' <=> Bare)
  BY <1>1, <1>2, <1>3 DEF ClientTypes, OneLink, Bare
<1>5. OneFlip' /\ Away' = Away
  BY <1>1, <1>2 DEF OneFlip, Away
<1>6. OffLine'
  BY <1>1, <1>3, <1>4, <1>5 DEF OffLine, Ending
<1>7. Ended' /\ Ticks' /\ DataConnected' /\ NoRetry'
  BY <1>3 DEF Ended, Ticks, DataConnected, NoRetry
<1> QED BY <1>4, <1>5, <1>6, <1>7

-----------------------------------------------------------------------------
LEMMA ClientStep == Reliable /\ ClientInv /\ [MqttNext]_mqttVars => ClientInv'
<1> SUFFICES ASSUME Reliable, ClientInv, [MqttNext]_mqttVars PROVE ClientInv'
  OBVIOUS
<1>1. ASSUME NEW q \in queries, mqtt_dns_found(q) PROVE ClientInv'
  BY <1>1, FoundStep
<1>2. ASSUME NEW l \in links, Network(l) \/ espconn_Task(l) PROVE ClientInv'
  BY <1>2, ConnectedStep, ConnackStep, OtherStep, SentStep, ErrStep, PeerClosesStep,
     EspconnStep DEF Network
<1>3. CASE MQTT_Task
  BY <1>3, ReconnectStep, DisconnectStep, ForgetStep, KeepaliveStep, SendStep, NothingStep
     DEF MQTT_Task
<1>4. CASE mqtt_timer
  BY <1>4, TimerStep
<1>5. ASSUME NEW s \in {"STATION_CONNECTING", "STATION_GOT_IP"}, wifi_check_ip(s)
      PROVE  ClientInv'
  BY <1>5, WifiStep
<1>6. CASE sntpfn \/ MQTT_Publish \/ MQTT_DeleteClient
  BY <1>6, SntpStep, PublishStep, DeleteStep
<1>7. CASE UNCHANGED mqttVars
  <2>1. UNCHANGED <<mqtt, links, queries, posted, wifi, sntp, left>>
    BY <1>7 DEF mqttVars
  <2>2. ClientTypes' /\ OneLink' /\ Ended'
    BY <2>1 DEF ClientInv, ClientTypes, OneLink, Ended, Bare
  <2>3. OffLine' /\ OneFlip' /\ NoRetry'
    BY <2>1 DEF ClientInv, OffLine, OneFlip, NoRetry, Away, Deleted, Ending, Bare
  <2>4. Ticks' /\ DataConnected'
    BY <2>1 DEF ClientInv, Ticks, DataConnected
  <2> QED BY <2>2, <2>3, <2>4 DEF ClientInv
<1> QED BY <1>1, <1>2, <1>3, <1>4, <1>5, <1>6, <1>7 DEF MqttNext

(* The inductive invariant: one connection at most, ended before the next. *)
THEOREM MqttInvariance == Reliable => (MqttSpec => []ClientInv)
<1> SUFFICES ASSUME Reliable PROVE MqttSpec => []ClientInv
  OBVIOUS
<1>1. MqttInit => ClientInv
  BY InitClientInv
<1>2. ClientInv /\ [MqttNext]_mqttVars => ClientInv'
  BY ClientStep
<1> QED BY <1>1, <1>2, PTL DEF MqttSpec

(* No callback reaches an object MQTT_Connect has freed, and the client    *)
(* only sends on an established connection (mqtt.c, espconn_tcp.c).        *)
THEOREM MqttCorrect == Reliable => (MqttSpec => []MqttSound)
<1>1. ClientInv => MqttSound
  <2> SUFFICES ASSUME ClientInv PROVE MqttSound
    OBVIOUS
  <2>1. MqttTypeOK
    BY DEF ClientInv, ClientTypes, Client, MqttTypeOK
  <2>2. OldConnectionGone
    BY DEF ClientInv, OneLink, OldConnectionGone
  <2> QED BY <2>1, <2>2 DEF ClientInv, MqttSound
<1> QED BY <1>1, MqttInvariance, PTL
=============================================================================
