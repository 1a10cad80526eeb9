SPECIFICATION LanSpec
INVARIANTS DhcpSound  ArpSound IgmpSound MqttSound
PROPERTIES BindsAcked LeastDestructive
CONSTANTS
  IPS = {"a", "b"}
  LEASES <- LongLease
  BAD_OFFERS = FALSE
  COARSE = 3
  XIDS = 3
  SELECT_TRIES = 1
  CHECK_TRIES = 1
  REBIND_TRIES = 1
  REBOOT_TRIES = 1
  DHCP_MAXRTX = 0
  NET = 1
  MAX_CALLS = 2
  MAX_FAILS = 0
  ARP_TABLE_SIZE = 2
  ARP_MAXAGE = 3
  ARP_AGE_REREQUEST_USED = 2
  ARP_MAXPENDING = 2
  Host = {"a", "b", "gw"}
  Gw = "gw"
  Mac = {"m"}
  LWIP_SNMP = FALSE
  ARP_NOMEM = FALSE
  PKTS = 2
  DNS_TABLE_SIZE = 2
  DNS_MAX_RETRIES = 2
  SERVERS = 2
  Name = {"a", "b"}
  Random = {100, 101}
  Ttl = {0, 1}
  SEQ = 256
  START = 254
  REQS = 3
  ASKED = 2
  Netif <- Sta
  Group = {"allsystems", "g"}
  JOIN_TMR = 3
  V1_TMR = 4
  MaxResp = {0, 2, 3}
  IGMP_NOMEM = TRUE
  USES = 2
  KEEPALIVE = 2
  RECONNECT = 1
  SENDTIME = 1
  QUEUE = 2
  DOMAIN_HOST = FALSE
  SEEN = TRUE
  PROMPT = FALSE
  FAULTS = {"connect", "send"}
  DROPS = 2
  FLIPS = 4
  CALLS = 2
  FAILS = 1
CHECK_DEADLOCK FALSE
