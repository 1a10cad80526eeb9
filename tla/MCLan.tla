------------------------------- MODULE MCLan --------------------------------
(***************************************************************************)
(* The protocols of the LAN and the MQTT client, side by side: part says   *)
(* which component moves and with which constants, the others stay in      *)
(* their initial states.  LanSpec has the parts that are checked for       *)
(* safety, LiveSpec, with fairness, smaller ones for liveness.             *)
(***************************************************************************)
EXTENDS DhcpClient, Etharp, Igmp, Dns, MqttClient

VARIABLES part,
  coarse, fine    \* toggled by the timers of DHCP, see LiveSpec

dhcpVars == <<vars, coarse, fine>>

-----------------------------------------------------------------------------
(* DhcpClient as it is extended: two addresses, a lease longer than the    *)
(* timer can count, two calls.  DhcpCalls: allocations fail.  DhcpLive: a  *)
(* lease of two coarse ticks and a limit on retransmissions.  Three        *)
(* transaction ids.                                                        *)
LongLease == {[t0 |-> 8, t1 |-> 2, t2 |-> -1]}
Short == [t0 |-> 4, t1 |-> -1, t2 |-> -1]

DhcpCalls == INSTANCE DhcpClient WITH
  IPS <- {"a"}, LEASES <- {Short}, MAX_FAILS <- 1
DhcpLive == INSTANCE DhcpClient WITH
  IPS <- {"a"}, LEASES <- {Short}, DHCP_MAXRTX <- 3, MAX_CALLS <- 1

(* Dns as it is extended: two entries, two names and two servers, random   *)
(* numbers one apart, so that an old id can mean another entry, and        *)
(* dns_seqno wraps round.  DnsBack: callbacks that ask again.  DnsLive:    *)
(* random numbers at both ends.                                            *)
DnsBack == INSTANCE Dns WITH SERVERS <- 1, ASKED <- 1
DnsLive == INSTANCE Dns WITH
  Random <- {0, 65535}, Ttl <- {0, 2}, START <- 0, REQS <- 2

(* A table of two.  Etharp as it is extended: three hosts, so that entries *)
(* are recycled.  ArpQueue: two hardware addresses and more packets than a *)
(* queue holds.                                                            *)
ArpQueue == INSTANCE Etharp WITH ARP_TABLE_SIZE <- 2, ARP_MAXAGE <- 3,
  ARP_AGE_REREQUEST_USED <- 2, ARP_MAXPENDING <- 1, Host <- {"a", "b"},
  Gw <- "none", Mac <- {"m", "n"}, LWIP_SNMP <- FALSE, ARP_NOMEM <- TRUE, PKTS <- 4
ArpLive == INSTANCE Etharp WITH ARP_TABLE_SIZE <- 2, ARP_MAXAGE <- 4,
  ARP_AGE_REREQUEST_USED <- 3, ARP_MAXPENDING <- 2, Host <- {"a", "b"},
  Gw <- "a", Mac <- {"m"}, LWIP_SNMP <- FALSE, ARP_NOMEM <- TRUE, PKTS <- 2

(* Igmp as it is extended: one interface, timers of several ticks.         *)
(* IgmpTwo: two interfaces, joins of which some fail.                      *)
Sta == <<"sta">>
IgmpTwo == INSTANCE Igmp WITH Netif <- <<"sta", "ap">>,
  Group <- {"allsystems", "g"}, JOIN_TMR <- 1, V1_TMR <- 1,
  MaxResp <- {0}, IGMP_NOMEM <- TRUE, USES <- 2

(* Short timeouts: a second of silence before a ping, one before another   *)
(* attempt, two to send a message.  MqttClient as it is extended: a broker *)
(* that may be slow.  MqttName: the broker is given by name and            *)
(* acknowledges at once; the Wi-Fi comes up once.                          *)
MqttName == INSTANCE MqttClient WITH
  DOMAIN_HOST <- TRUE, PROMPT <- TRUE, FAULTS <- {"send"}, FLIPS <- 1, CALLS <- 1
MqttLive == INSTANCE MqttClient WITH FAULTS <- {"send"}, FLIPS <- 3, CALLS <- 1
ASSUME /\ DhcpCalls!DhcpAssumption /\ DhcpLive!DhcpAssumption
       /\ DnsBack!DnsAssumption /\ DnsLive!DnsAssumption
       /\ ArpQueue!EtharpAssumption /\ ArpLive!EtharpAssumption
       /\ EtharpAssumption /\ IgmpAssumption /\ IgmpTwo!IgmpAssumption
       /\ MqttName!MqttAssumption /\ MqttLive!MqttAssumption

-----------------------------------------------------------------------------
ClientInit ==
  IF part = "mqttName" THEN MqttName!MqttInit
  ELSE IF part = "mqttLive" THEN MqttLive!MqttInit ELSE MqttInit

LanInit ==
  /\ Init /\ coarse = FALSE /\ fine = FALSE /\ ArpInit /\ ClientInit
  /\ IF part = "dnsLive" THEN DnsLive!DnsInit ELSE DnsInit
  /\ dns.reenter = (part = "dnsBack")
  /\ IF part = "igmpTwo" THEN IgmpTwo!IgmpInit ELSE IgmpInit

DhcpNext == \/ part = "dhcp" /\ Next /\ UNCHANGED <<coarse, fine>>
            \/ part = "dhcpCalls" /\ DhcpCalls!Next /\ UNCHANGED <<coarse, fine>>
            \/ /\ part = "dhcpLive" /\ DhcpLive!Next
               /\ coarse' = (coarse # DhcpLive!CoarseTmr)
               /\ fine' = (fine # DhcpLive!FineTmr)
NamesNext == \/ part = "dns" /\ DnsNext
             \/ part = "dnsBack" /\ DnsBack!DnsNext
             \/ part = "dnsLive" /\ DnsLive!DnsNext
CacheNext == \/ part = "arp" /\ ArpNext
             \/ part = "arpQueue" /\ ArpQueue!ArpNext
             \/ part = "arpLive" /\ ArpLive!ArpNext
GroupsNext == \/ part = "igmp" /\ IgmpNext
              \/ part = "igmpTwo" /\ IgmpTwo!IgmpNext
ClientNext == \/ part = "mqtt" /\ MqttNext
              \/ part = "mqttName" /\ MqttName!MqttNext
              \/ part = "mqttLive" /\ MqttLive!MqttNext

LanNext ==
  /\ UNCHANGED part
  /\ \/ DhcpNext /\ UNCHANGED <<dns, arp, igmp, mqttVars>>
     \/ NamesNext /\ UNCHANGED <<dhcpVars, arp, igmp, mqttVars>>
     \/ CacheNext /\ UNCHANGED <<dhcpVars, dns, igmp, mqttVars>>
     \/ GroupsNext /\ UNCHANGED <<dhcpVars, dns, arp, mqttVars>>
     \/ ClientNext /\ UNCHANGED <<dhcpVars, dns, arp, igmp>>

lanVars == <<part, dhcpVars, dns, arp, igmp, mqttVars>>

SafeInit ==
  /\ part \in {"dhcp", "dhcpCalls", "dns", "dnsBack", "arp", "arpQueue", "igmp",
               "igmpTwo", "mqtt", "mqttName"}
  /\ LanInit

LanSpec == SafeInit /\ [][LanNext]_lanVars

(* The fairness of each component's FairSpec, one conjunct for the actions *)
(* of both MQTT clients: they never run together.                          *)
Mqtts(live, name) == \/ part = "mqttLive" /\ live
                     \/ part = "mqttName" /\ name

LiveInit ==
  /\ part \in {"dhcpLive", "dnsLive", "arpLive", "igmp", "mqttLive", "mqttName"}
  /\ LanInit

LiveSpec ==
  /\ LiveInit /\ [][LanNext]_lanVars
  /\ \A b \in BOOLEAN :
       /\ []<>(part = "dhcpLive" /\ calls > 0 => coarse = b)
       /\ []<>(part = "dhcpLive" /\ c.timer /\ c.tries < 3 => fine = b)
  /\ WF_dns(part = "dnsLive" /\ DnsLive!dns_tmr)
  /\ WF_arp(part = "arpLive" /\ ArpLive!etharp_tmr)
  /\ WF_igmp(part = "igmp" /\ igmp_tmr)
  /\ WF_mqttVars(Mqtts(MqttLive!MQTT_Task, MqttName!MQTT_Task))
  /\ WF_mqttVars(Mqtts(MqttLive!mqtt_timer, MqttName!mqtt_timer))
  /\ WF_mqttVars(Mqtts(MqttLive!sntpfn, MqttName!sntpfn))
  /\ WF_mqttVars(\E l \in links :
       Mqtts(MqttLive!espconn_Task(l), MqttName!espconn_Task(l)))
  /\ WF_mqttVars(\E l \in links :
       Mqtts(MqttLive!mqtt_tcpclient_connect_cb(l),
             MqttName!mqtt_tcpclient_connect_cb(l)))
  /\ WF_mqttVars(\E l \in links :
       Mqtts(MqttLive!RecvConnack(l), MqttName!RecvConnack(l)))
  /\ WF_mqttVars(\E l \in links :
       Mqtts(MqttLive!mqtt_tcpclient_sent_cb(l), MqttName!mqtt_tcpclient_sent_cb(l)))
  /\ WF_mqttVars(part = "mqttName" /\ \E q \in queries : MqttName!mqtt_dns_found(q))

-----------------------------------------------------------------------------
(* Safety, a conjunction for each component.                               *)

(* DhcpSound, BindsAcked: those of DhcpClient, about every part.           *)

(* DnsSound, ArpSound, IgmpSound, MqttSound: those of Dns, Etharp, Igmp    *)
(* and MqttClient, about every part.                                       *)

-----------------------------------------------------------------------------
(* Liveness.                                                               *)

(* A renewal ends with the lease bound again or the address given up, a    *)
(* name request is called back, no packet waits for its address for ever,  *)
(* and queries cannot put a delayed report off for ever.                   *)
NobodyWaits == /\ DhcpLive!RenewalEnds
               /\ part = "dnsLive" => DnsLive!Answered
               /\ part = "arpLive" => ArpLive!NoneWaits
               /\ part = "igmp" => ReportComes

(* Once the station keeps its address the client gets to MQTT_DATA again,  *)
(* and its queue is emptied again and again.                               *)
MqttRecovers == /\ part = "mqttLive" => MqttLive!Recovers
                /\ part = "mqttName" => MqttName!Recovers /\ MqttName!Drains
=============================================================================
