------------------------------- MODULE Etharp -------------------------------
(***************************************************************************)
(* The ARP cache of lwIP, etharp.c: the table that maps the addresses of   *)
(* neighbours to their hardware addresses, ages its entries and keeps      *)
(* packets that wait for an answer.                                        *)
(***************************************************************************)
EXTENDS Naturals, FiniteSets, SequencesExt

CONSTANTS ARP_TABLE_SIZE, ARP_MAXAGE, ARP_AGE_REREQUEST_USED, ARP_MAXPENDING,
          Host,        \* addresses on the local network
          Gw,          \* netif->gw, one of them, or "none"
          Mac,         \* hardware addresses
          LWIP_SNMP,   \* the build option, 0 in lwipopts.h
          ARP_NOMEM,   \* allocations may fail
          PKTS         \* bound: packets

ASSUME EtharpAssumption ==
  /\ {ARP_TABLE_SIZE, ARP_MAXPENDING, PKTS} \subseteq Nat \ {0}
  /\ ARP_MAXAGE \in Nat /\ ARP_AGE_REREQUEST_USED \in 1..ARP_MAXAGE-1
  /\ {LWIP_SNMP, ARP_NOMEM} \subseteq BOOLEAN

QLEN  == 3
Index == 1..ARP_TABLE_SIZE

(* arp: up, whether the interface is; table, the arp_table with, for the   *)
(* properties, of each entry how many requests went out for it in this     *)
(* period of the timer (asked) and whether a packet used it late and could *)
(* have made one (late); hint, etharp_cached_entry; n, the packets so far; *)
(* last, the last one sent to each host; heard, the hardware address each  *)
(* host was last heard with.                                               *)
VARIABLE arp

Empty == [state |-> "EMPTY", ip |-> "none", mac |-> "none", ctime |-> 0, q |-> <<>>,
          netif |-> "NULL", asked |-> 0, late |-> FALSE]

ArpInit == arp = [up |-> TRUE, table |-> [i \in Index |-> Empty], hint |-> 1, n |-> 0,
                 last |-> [h \in Host |-> 0], heard |-> [h \in Host |-> "none"]]

Stable(e) == e.state \in {"STABLE", "REREQUESTING"}

-----------------------------------------------------------------------------
(* free_entry, and etharp_tmr.                                             *)
free_entry(e) == [Empty EXCEPT !.netif = e.netif]

Expired(e) == \/ e.ctime + 1 >= ARP_MAXAGE
              \/ e.state = "PENDING" /\ e.ctime + 1 >= ARP_MAXPENDING
Aged(e) ==
  IF e.state = "EMPTY" THEN e
  ELSE IF Expired(e) THEN free_entry(e)
  ELSE [e EXCEPT !.ctime = @ + 1, !.asked = 0, !.late = FALSE,
                 !.state = IF @ = "REREQUESTING" THEN "STABLE" ELSE @]

etharp_tmr == arp' = [arp EXCEPT !.table = [i \in Index |-> Aged(@[i])]]

(* netif_set_down with etharp_cleanup_netif, and netif_set_up.             *)
etharp_cleanup_netif(t) ==
  [t EXCEPT !.table = [i \in Index |->
     IF @[i].state # "EMPTY" /\ @[i].netif = "netif" THEN free_entry(@[i]) ELSE @[i]]]
netif_set_down == arp.up /\ arp' = etharp_cleanup_netif([arp EXCEPT !.up = FALSE])
netif_set_up == ~arp.up /\ arp' = [arp EXCEPT !.up = TRUE]

-----------------------------------------------------------------------------
(* find_entry: the entry of the address or, unless it is only to be found, *)
(* a new one in place of the one that is missed least: an empty one, the   *)
(* oldest stable one, the oldest pending one, first without packets.  The  *)
(* mutants do not care for packets, make a found entry young again, or     *)
(* take an empty entry before they have searched all.                      *)
Rank_any(e) == IF e.state = "EMPTY" THEN 0 ELSE IF Stable(e) THEN 2 ELSE 1
Rank(e) == CASE e.state = "EMPTY" -> 0 [] Stable(e) -> 1
             [] e.state = "PENDING" /\ e.q = <<>> -> 2 [] OTHER -> 3

Worse(table, i, j) ==
  \/ Rank(table[i]) > Rank(table[j])
  \/ /\ Rank(table[i]) = Rank(table[j])
     /\ IF Rank(table[i]) = 0 THEN i > j
        ELSE \/ table[i].ctime < table[j].ctime
             \/ table[i].ctime = table[j].ctime /\ i < j
LeastMissed(table) == CHOOSE i \in Index : \A j \in Index \ {i} : Worse(table, j, i)
Victim(t) == LeastMissed(t.table)

Live(t) == {i \in Index : t.table[i].state # "EMPTY"}
Match_first(t, ip) == {i \in Live(t) : t.table[i].ip = ip /\ 1..i \subseteq Live(t)}
Match(t, ip) == {i \in Live(t) : t.table[i].ip = ip}

NewEntry(t, ip) ==
  LET i == Victim(t)
  IN  [t EXCEPT !.table[i] = [Empty EXCEPT !.ip = ip, !.netif = t.table[i].netif]]

Found(t, ip) == CHOOSE i \in Match(t, ip) : TRUE

-----------------------------------------------------------------------------
(* etharp_send_ip *)
etharp_send_ip(t, p, ip) == [t EXCEPT !.last[ip] = p]

(* update_arp_entry of a found or a new entry: stable, and what waits for  *)
(* it is sent, the last of the queue at last.                              *)
Update(t, i, mac) ==
  LET e == t.table[i]
  IN  [t EXCEPT !.table[i] =
                  [e EXCEPT !.state = "STABLE", !.mac = mac, !.ctime = 0, !.q = <<>>,
                            !.asked = 0, !.late = FALSE,
                            !.netif = IF LWIP_SNMP THEN "netif" ELSE @],
                !.last[e.ip] = IF e.q = <<>> THEN @ ELSE Last(e.q)]

update_arp_entry(t, ip, mac, hard) ==
  IF Match(t, ip) # {} THEN Update(t, Found(t, ip), mac)
  ELSE IF hard THEN Update(NewEntry(t, ip), Victim(t), mac)
  ELSE t

(* etharp_arp_input for a packet whose sender is a host: for us, or only   *)
(* overheard; and etharp_ip_input, which takes the address from an IP      *)
(* packet.                                                                 *)
Heard(ip, mac) == [arp EXCEPT !.heard[ip] = mac]

etharp_arp_input ==
  \E ip \in Host, mac \in Mac, for_us \in BOOLEAN :
    arp' = update_arp_entry(Heard(ip, mac), ip, mac, for_us)

etharp_ip_input ==
  \E ip \in Host, mac \in Mac : arp' = update_arp_entry(Heard(ip, mac), ip, mac, FALSE)

-----------------------------------------------------------------------------
(* etharp_query with a packet (or 0): a new entry is pending; a request is *)
(* sent for a pending entry or if there is no packet; the packet is sent,  *)
(* or queued when it can be copied, the oldest of four being dropped.  The *)
(* mutants queue one more, queue in front, and start the wait again.       *)
Queue(q, max, t, i, ok) ==
  IF ok THEN [t EXCEPT !.table[i].q = IF Len(q) > max THEN Tail(q) ELSE q] ELSE t
Queued_more(t, i, p, ok) == Queue(Append(t.table[i].q, p), QLEN + 1, t, i, ok)
Queued_front(t, i, p, ok) == Queue(<<p>> \o t.table[i].q, QLEN, t, i, ok)
Queued(t, i, p, ok) == Queue(Append(t.table[i].q, p), QLEN, t, i, ok)

Pending_again(t, ip) ==
  IF Match(t, ip) # {} THEN [t EXCEPT !.table[Found(t, ip)].ctime = 0]
  ELSE LET u == NewEntry(t, ip) IN [u EXCEPT !.table[Victim(t)].state = "PENDING"]
Pending(t, ip) ==
  IF Match(t, ip) # {} THEN t
  ELSE LET u == NewEntry(t, ip) IN [u EXCEPT !.table[Victim(t)].state = "PENDING"]

etharp_query(t, ip, p, ok) ==
  LET u == Pending(t, ip)
      i == Found(u, ip)
  IN  IF p = 0 THEN u
      ELSE IF Stable(u.table[i])
        THEN etharp_send_ip([u EXCEPT !.hint = i], p, ip)
        ELSE Queued(u, i, p, ok)

(* etharp_output_to_arp_index: a request when the entry is about to        *)
(* expire; the mutant does not note that it was made.                      *)
RequestLate(state, t, p, i, ok) ==
  LET e == t.table[i]
      u == IF ~(e.ctime >= ARP_AGE_REREQUEST_USED /\ ok) THEN t
           ELSE IF e.state = "STABLE"
             THEN [t EXCEPT !.table[i] = [e EXCEPT !.state = state,
                                                   !.asked = @ + 1, !.late = TRUE]]
             ELSE [t EXCEPT !.table[i].late = TRUE]
  IN  etharp_send_ip(u, p, e.ip)
etharp_output_to_arp_index_anew(t, p, i, ok) == RequestLate("STABLE", t, p, i, ok)
etharp_output_to_arp_index(t, p, i, ok) == RequestLate("REREQUESTING", t, p, i, ok)

(* etharp_output: a host of the local network, the gateway for another, or *)
(* a group; the cached entry, another stable one, or a query.              *)
Stables(t, ip) == {i \in Match(t, ip) : Stable(t.table[i])}

Unicast(t, ip, p, ok) ==
  IF t.hint \in Stables(t, ip) THEN etharp_output_to_arp_index(t, p, t.hint, ok)
  ELSE IF Stables(t, ip) # {}
    THEN LET i == Min(Stables(t, ip))
         IN  etharp_output_to_arp_index([t EXCEPT !.hint = i], p, i, ok)
    ELSE etharp_query(t, ip, p, ok)

etharp_output ==
  /\ arp.up /\ arp.n < PKTS
  /\ \E dest \in Host \union {"far", "group"}, ok \in BOOLEAN :
       LET ip == IF dest = "far" THEN Gw ELSE dest
           t  == [arp EXCEPT !.n = @ + 1]
       IN  /\ ok \/ ARP_NOMEM
           /\ arp' = IF ip \in Host THEN Unicast(t, ip, t.n, ok) ELSE t

(* etharp_query without a packet, as dhcp_check calls it *)
Probe == \E ip \in Host : arp' = etharp_query(arp, ip, 0, TRUE)

-----------------------------------------------------------------------------
ArpNext == \/ etharp_tmr \/ netif_set_down \/ netif_set_up
           \/ etharp_arp_input \/ etharp_ip_input \/ etharp_output \/ Probe

ArpSpec == ArpInit /\ [][ArpNext]_arp

(* etharp_tmr is called every five seconds *)
ArpFairSpec == ArpSpec /\ WF_arp(etharp_tmr)

(* What an entry can be: ages, queues, and no packets on a stable entry,   *)
(* as the assertions of find_entry want it.                                *)
EtharpTypeOK ==
  /\ arp.hint \in Index
  /\ \A i \in Index :
       LET e == arp.table[i]
       IN  /\ e.state \in {"EMPTY", "PENDING", "STABLE", "REREQUESTING"}
           /\ e.ctime < ARP_MAXAGE /\ Len(e.q) <= QLEN
           /\ e.state = "PENDING" => e.ctime < ARP_MAXPENDING
           /\ e.state # "PENDING" => e.q = <<>>

(* No address has two entries, whatever is evicted and learnt in between,  *)
(* and a stable one has the hardware address its host was last heard with. *)
OneEntry ==
  /\ \A h \in Host : Cardinality(Match(arp, h)) <= 1
  /\ \A i \in Index : Stable(arp.table[i]) => arp.table[i].mac = arp.heard[arp.table[i].ip]

(* Packets to the same hop leave in the order they came, each once: those  *)
(* that wait are newer than all that were sent, and in order.              *)
InOrder ==
  \A i \in Index :
    LET q == arp.table[i].q
    IN  q # <<>> => /\ q[1] > arp.last[arp.table[i].ip]
                    /\ \A k \in 2..Len(q) : q[k-1] < q[k]

(* "Re-request a used ARP entry 1 minute before it would expire [...] but  *)
(* only if its state is ETHARP_STATE_STABLE to prevent flooding": one      *)
(* request in each period in which a packet uses it, and no more.          *)
AskedOnce == \A i \in Index : arp.table[i].asked = IF arp.table[i].late THEN 1 ELSE 0

(* The safety of the cache, all in one.                                    *)
ArpSound == EtharpTypeOK /\ OneEntry /\ InOrder /\ AskedOnce

(* "Choose the least destructive entry to recycle": unless its time is     *)
(* over, an entry with packets is only given up when all others have       *)
(* packets too and are no older.                                           *)
LeastDestructive ==
  [][\A i \in Index : LET e == arp.table[i] IN
       (e.q # <<>> /\ arp'.table[i].ip # e.ip /\ arp'.table[i].ip # "none") =>
         \A j \in Index : arp.table[j].q # <<>> /\ arp.table[j].ctime <= e.ctime]_arp

(* No packet waits for ever, however often its address is asked for.       *)
Waiting(p) == \E i \in Index : p \in ToSet(arp.table[i].q)
NoneWaits == \A p \in 1..PKTS : Waiting(p) ~> ~Waiting(p)
=============================================================================
