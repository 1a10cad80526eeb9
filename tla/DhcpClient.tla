----------------------------- MODULE DhcpClient -----------------------------
(***************************************************************************)
(* lwip/core/dhcp.c: the DHCP client of one interface, with the server and *)
(* the network around it.  DHCP_DOES_ARP_CHECK is on and                   *)
(* LWIP_DHCP_AUTOIP_COOP off (lwipopts.h).                                 *)
(*                                                                         *)
(* c is struct dhcp with the interface it configures; the functions of the *)
(* file are operators from one value of c to the next, and c.sent collects *)
(* what a handler sends.  request_timeout is on or off: how long it runs   *)
(* is left to the interleaving.  The lease timers are counted, in units    *)
(* of 30 seconds as the server gives them and of DHCP_COARSE_TIMER_SECS,   *)
(* twice as long, in t1_timeout and t2_timeout.                            *)
(***************************************************************************)
EXTENDS Integers, FiniteSets

CONSTANTS
  IPS,           \* addresses of the server's pool
  LEASES,        \* lease, T1 and T2 options of an ACK, NONE if not given
  BAD_OFFERS,    \* BOOLEAN: offers without a server id may arrive
  COARSE,        \* 2^16: values of t1_timeout and t2_timeout
  XIDS,          \* 2^32: transaction ids
  SELECT_TRIES, CHECK_TRIES, REBIND_TRIES, REBOOT_TRIES,  \* 5, 1, 8 and 2
  DHCP_MAXRTX,   \* fine timer gives up at this many tries; 0: never
  NET,           \* bound: replies in flight
  MAX_CALLS,     \* bound: calls of the interface's user
  MAX_FAILS      \* bound: allocations that fail

IP_ADDR_ANY == "0.0.0.0"
NONE == -1
INF  == 4 * COARSE          \* 0xffffffff: a lease without end
TRIES_CAP == REBIND_TRIES + 2   \* no guard tells higher counts apart
Secs   == 0..INF
Option == Secs \cup {NONE}
Ticks16 == 0..COARSE-1
Xid    == 0..XIDS-1
Addr   == IPS \cup {IP_ADDR_ANY}

(* Options have 32 bits. The user calls less often than there are          *)
(* transaction ids.                                                        *)
ASSUME DhcpAssumption ==
  /\ IP_ADDR_ANY \notin IPS /\ IPS # {} /\ BAD_OFFERS \in BOOLEAN
  /\ LEASES \subseteq [t0 : Option, t1 : Option, t2 : Option]
  /\ COARSE \in Nat \ {0, 1} /\ XIDS \in Nat \ {0, 1, 2} /\ MAX_CALLS < XIDS
  /\ {SELECT_TRIES, CHECK_TRIES, REBOOT_TRIES} \subseteq 0..REBIND_TRIES
  /\ {REBIND_TRIES, DHCP_MAXRTX, NET, MAX_CALLS, MAX_FAILS} \subseteq Nat

VARIABLES
  c,              \* the client
  replies,        \* in flight from the server
  acked,          \* history: <<xid, address>> pairs the server acknowledged
  calls, fails    \* calls and failed allocations so far

vars == <<c, replies, acked, calls, fails>>

State == {"OFF", "REQUESTING", "REBOOTING", "REBINDING", "RENEWING",
          "SELECTING", "CHECKING", "BOUND", "BACKING_OFF"}

Message == [type : {"DISCOVER", "REQUEST", "DECLINE", "RELEASE", "INFORM"},
            xid : Xid, ip : Addr, dst : {"all", "server", "nobody"}]

Client == [state : State, tries : 0..TRIES_CAP, timer : BOOLEAN,
           t1 : Ticks16, t2 : Ticks16, ot0 : Secs, ot1 : Secs, ot2 : Secs,
           offered : Addr, ip : Addr, up : BOOLEAN, pcb : BOOLEAN,
           server : {"server", "nobody"}, xid : Xid, cxid : Xid,
           sent : SUBSET Message]

(* The lease timers fit their 16 bits, the client asks for and uses        *)
(* addresses of the pool only, and tries stays within its cap.             *)
DhcpTypeOK == c \in Client /\ acked \subseteq Xid \X IPS

Zeroed(d) == [d EXCEPT !.state = "OFF", !.tries = 0, !.timer = FALSE,
                !.t1 = 0, !.t2 = 0, !.ot0 = 0, !.ot1 = 0, !.ot2 = 0,
                !.offered = IP_ADDR_ANY, !.server = "nobody", !.pcb = FALSE,
                !.cxid = 0]

Init ==
  /\ c = [state |-> "OFF", tries |-> 0, timer |-> FALSE, t1 |-> 0, t2 |-> 0,
          ot0 |-> 0, ot1 |-> 0, ot2 |-> 0, offered |-> IP_ADDR_ANY, ip |-> IP_ADDR_ANY,
          up |-> FALSE, pcb |-> FALSE, server |-> "nobody", xid |-> 0,
          cxid |-> 0, sent |-> {}]
  /\ replies = {} /\ acked = {} /\ calls = 0 /\ fails = 0

-----------------------------------------------------------------------------
(* The functions.  ok: pbuf_alloc succeeds.                                *)

(* dhcp_set_state *)
SetState(d, s) ==
  IF s = d.state THEN d
  ELSE [d EXCEPT !.state = s, !.tries = 0, !.timer = FALSE]

(* dhcp_create_msg, the options and udp_sendto_if *)
Send(d, type, dst, ok) ==
  LET x == IF d.tries = 0 THEN (d.xid + 1) % XIDS ELSE d.xid
      e == IF type = "REQUEST" THEN d ELSE [d EXCEPT !.xid = x, !.cxid = x]
  IN  IF ~ok THEN d
      ELSE [e EXCEPT !.sent = @ \cup
              {[type |-> type, xid |-> e.cxid, ip |-> d.offered, dst |-> dst]}]

(* How each of them ends: another try, and request_timeout runs. *)
Armed(d) ==
  [d EXCEPT !.tries = IF @ < TRIES_CAP THEN @ + 1 ELSE @, !.timer = TRUE]

(* The mutant arms the timer and then sets the state, which clears it.     *)
Discover_late(d, ok) ==
  SetState(Armed(Send([d EXCEPT !.offered = IP_ADDR_ANY], "DISCOVER", "all", ok)),
           "SELECTING")
Discover(d, ok) ==
  Armed(Send(SetState([d EXCEPT !.offered = IP_ADDR_ANY], "SELECTING"),
             "DISCOVER", "all", ok))

Select(d, ok) == Armed(Send(SetState(d, "REQUESTING"), "REQUEST", "all", ok))
Renew(d, ok)  == Armed(Send(SetState(d, "RENEWING"), "REQUEST", d.server, ok))
Rebind(d, ok) == Armed(Send(SetState(d, "REBINDING"), "REQUEST", "all", ok))
Reboot(d, ok) == Armed(Send(SetState(d, "REBOOTING"), "REQUEST", "all", ok))
Check(d)      == Armed(SetState(d, "CHECKING"))
Decline(d, ok) == Armed(Send(SetState(d, "BACKING_OFF"), "DECLINE", "all", ok))

(* The server's address is cleared before the message is sent to it.       *)
Release(d, ok) ==
  LET off == [SetState(d, "OFF") EXCEPT !.server = "nobody", !.offered = IP_ADDR_ANY,
                !.ot0 = 0, !.ot1 = 0, !.ot2 = 0]
  IN  [Armed(Send(off, "RELEASE", off.server, ok))
         EXCEPT !.up = FALSE, !.ip = IP_ADDR_ANY]

Stop(d) == SetState([d EXCEPT !.pcb = FALSE], "OFF")

(* Ticks of a timer of dhcp_bind; the old value stays for a lease without  *)
(* end.  The mutant does not cap it to 16 bits.                            *)
TicksUpTo(max, secs, old) ==
  LET t == (secs + 1) \div 2
  IN  IF secs = INF THEN old
      ELSE IF t = 0 THEN 1 ELSE IF t > max THEN max ELSE t
Ticks_uncut(secs, old) == TicksUpTo(INF, secs, old)
Ticks(secs, old) == TicksUpTo(COARSE - 1, secs, old)

Bind(d) ==
  LET t1 == Ticks(d.ot1, d.t1)
      t2 == Ticks(d.ot2, d.t2)
  IN  SetState([d EXCEPT !.t1 = IF t1 >= t2 /\ t2 > 0 THEN 0 ELSE t1,
                         !.t2 = t2, !.ip = d.offered, !.up = TRUE],
               "BOUND")

HandleOffer(d, m, ok) ==
  IF m.sid
  THEN Select([d EXCEPT !.server = "server", !.offered = m.ip], ok)
  ELSE d

HandleAck(d, m) ==
  LET t0 == IF m.lease.t0 = NONE THEN d.ot0 ELSE m.lease.t0
  IN  [d EXCEPT !.ot0 = t0,
         !.ot1 = IF m.lease.t1 = NONE THEN t0 \div 2 ELSE m.lease.t1,
         !.ot2 = IF m.lease.t2 = NONE THEN t0 ELSE m.lease.t2,
         !.offered = m.ip]

HandleNak(d, ok) ==
  Discover(SetState([d EXCEPT !.up = FALSE, !.ip = IP_ADDR_ANY], "BACKING_OFF"), ok)

(* dhcp_timeout *)
Timeout(d, ok, ok2) ==
  LET again(n) == d.tries <= n
  IN  CASE d.state \in {"BACKING_OFF", "SELECTING"} -> Discover(d, ok)
        [] d.state = "REQUESTING" ->
             IF again(SELECT_TRIES) THEN Select(d, ok)
             ELSE Discover(Release(d, ok), ok2)
        [] d.state = "CHECKING" ->
             IF again(CHECK_TRIES) THEN Check(d) ELSE Bind(d)
        [] d.state = "RENEWING" -> Renew(d, ok)
        [] d.state = "REBINDING" ->
             IF again(REBIND_TRIES) THEN Rebind(d, ok)
             ELSE Discover(Release(d, ok), ok2)
        [] d.state = "REBOOTING" ->
             IF again(REBOOT_TRIES - 1) THEN Reboot(d, ok) ELSE Discover(d, ok)
        [] OTHER -> d

T1Timeout(d, ok) ==
  IF d.state \in {"REQUESTING", "BOUND", "RENEWING"} THEN Renew(d, ok) ELSE d

T2TimeoutIn(states, d, ok) ==
  IF d.state \in states THEN Rebind(d, ok) ELSE d
T2Timeout_bound(d, ok) == T2TimeoutIn({"REQUESTING", "BOUND"}, d, ok)
T2Timeout(d, ok) == T2TimeoutIn({"REQUESTING", "BOUND", "RENEWING"}, d, ok)

-----------------------------------------------------------------------------
(* Steps.  A client step leaves d; what it sends replaces what the last    *)
(* sending step sent.  A transaction id that comes up again does so 2^32   *)
(* transactions later, when nothing of its last use is left.               *)
Go(d, oks) ==
  LET bad   == Cardinality({i \in DOMAIN oks : ~oks[i]})
      reuse(x) == x = d.xid /\ d.xid # c.xid
  IN  /\ fails + bad <= MAX_FAILS
      /\ fails' = fails + bad
      /\ c' = d
      /\ replies' = {m \in replies : ~reuse(m.xid)}
      /\ acked' = {a \in acked : ~reuse(a[1])}

Fresh == [c EXCEPT !.sent = {}]

Call == calls < MAX_CALLS /\ calls' = calls + 1

(* dhcp_start: new is false when udp_new fails. *)
Start ==
  /\ Call
  /\ \E new, ok \in BOOLEAN :
       LET z == Zeroed(Fresh)
           d == Discover([z EXCEPT !.pcb = TRUE], ok)
       IN  Go(IF ~new THEN z ELSE IF ok THEN d ELSE Stop(d), <<new, ok>>)

DhcpStop == Call /\ Go(Stop(Fresh), <<>>)

(* dhcp_release, for a client that dhcp_start has started, and dhcp_renew, *)
(* for one with "an existing DHCP lease".                                  *)
DhcpRelease ==
  Call /\ c.pcb /\ \E ok \in BOOLEAN : Go(Release(Fresh, ok), <<ok>>)

DhcpRenew ==
  /\ Call
  /\ c.state \in {"BOUND", "RENEWING", "REBINDING"}
  /\ \E ok \in BOOLEAN : Go(Renew(Fresh, ok), <<ok>>)

(* dhcp_inform works on a struct of its own; the transaction counter is    *)
(* shared.                                                                 *)
Inform ==
  /\ Call
  /\ LET d == Send([Fresh EXCEPT !.tries = 0, !.offered = IP_ADDR_ANY],
                   "INFORM", "all", TRUE)
     IN  Go([Fresh EXCEPT !.xid = d.xid, !.sent = d.sent], <<>>)

(* dhcp_network_changed.  The mutant also wakes a client that is off.      *)
NetworkChangedIn(off) ==
  /\ Call
  /\ \E ok \in BOOLEAN :
       LET z == [Fresh EXCEPT !.tries = 0]
       IN  CASE c.state \in {"REBINDING", "RENEWING", "BOUND", "REBOOTING"} ->
                  Go(Reboot([z EXCEPT !.up = FALSE], ok), <<ok>>)
             [] c.state \in off -> Go(c, <<>>)
             [] OTHER -> Go(Discover(z, ok), <<ok>>)
NetworkChanged_wakes == NetworkChangedIn({})
NetworkChanged == NetworkChangedIn({"OFF"})

(* dhcp_coarse_tmr: the timers are decremented also when they are zero. *)
CoarseTmr ==
  /\ calls > 0
  /\ UNCHANGED calls
  /\ \E ok \in BOOLEAN :
       LET dec(t) == (t - 1) % COARSE
           d2 == [Fresh EXCEPT !.t2 = dec(@)]
           d1 == [d2 EXCEPT !.t1 = dec(@)]
       IN  IF c.t2 = 1 THEN Go(T2Timeout(d2, ok), <<ok>>)
           ELSE IF c.t1 = 1 THEN Go(T1Timeout(d1, ok), <<ok>>)
           ELSE Go([d1 EXCEPT !.sent = c.sent], <<>>)

(* dhcp_fine_tmr when request_timeout has run down.  After DHCP_MAXRTX     *)
(* tries it only calls dhcp_event.                                         *)
FineTmr ==
  /\ c.timer
  /\ DHCP_MAXRTX # 0 => c.tries < DHCP_MAXRTX
  /\ UNCHANGED calls
  /\ \E ok, ok2 \in BOOLEAN :
       Go(Timeout([Fresh EXCEPT !.timer = FALSE], ok, ok2), <<ok, ok2>>)

(* dhcp_arp_reply *)
ArpReply ==
  /\ c.state = "CHECKING"
  /\ UNCHANGED calls
  /\ \E ok \in BOOLEAN : Go(Decline(Fresh, ok), <<ok>>)

(* dhcp_recv; the message may arrive again.                                *)
Matches(m) == c.pcb /\ m.xid = c.cxid

(* The mutant takes an offer that comes again for the acknowledgement.     *)
HandledAs(acks, m, ok) ==
  CASE m.type \in acks /\ c.state = "REQUESTING" -> Check(HandleAck(Fresh, m))
    [] m.type \in acks /\ c.state \in {"REBOOTING", "REBINDING", "RENEWING"} ->
         Bind(Fresh)
    [] m.type = "NAK" /\ c.state \in {"REBOOTING", "REQUESTING", "REBINDING",
                                      "RENEWING"} -> HandleNak(Fresh, ok)
    [] m.type = "OFFER" /\ c.state = "SELECTING" ->
         HandleOffer([Fresh EXCEPT !.timer = FALSE], m, ok)
    [] OTHER -> c
Handled_offer(m, ok) == HandledAs({"ACK", "OFFER"}, m, ok)
Handled(m, ok) == HandledAs({"ACK"}, m, ok)

Recv ==
  /\ UNCHANGED calls
  /\ \E m \in replies, ok \in BOOLEAN :
       Matches(m) /\ Go(Handled(m, ok), <<ok>>)

(* The network loses a reply. *)
Lose ==
  /\ \E m \in replies : replies' = replies \ {m}
  /\ UNCHANGED <<c, acked, calls, fails>>

-----------------------------------------------------------------------------
(* The server, as the client sees it: it offers, acknowledges what was     *)
(* asked for, or refuses.                                                  *)
Reply(r) ==
  /\ Cardinality(replies \cup {r}) <= NET
  /\ replies' = replies \cup {r}
  /\ UNCHANGED <<c, calls, fails>>

NoLease == [t0 |-> NONE, t1 |-> NONE, t2 |-> NONE]

Offer ==
  \E m \in c.sent, ip \in IPS, sid \in IF BAD_OFFERS THEN BOOLEAN ELSE {TRUE} :
    /\ m.type = "DISCOVER"
    /\ Reply([type |-> "OFFER", xid |-> m.xid, ip |-> ip, sid |-> sid,
              lease |-> NoLease])
    /\ UNCHANGED acked

Ack ==
  \E m \in c.sent, l \in LEASES :
    /\ m.type = "REQUEST" /\ m.dst # "nobody" /\ m.ip \in IPS
    /\ Reply([type |-> "ACK", xid |-> m.xid, ip |-> m.ip, sid |-> TRUE,
              lease |-> l])
    /\ acked' = acked \cup {<<m.xid, m.ip>>}

Nak ==
  \E m \in c.sent :
    /\ m.type = "REQUEST" /\ m.dst # "nobody"
    /\ Reply([type |-> "NAK", xid |-> m.xid, ip |-> IP_ADDR_ANY, sid |-> TRUE,
              lease |-> NoLease])
    /\ UNCHANGED acked

Next == \/ Start \/ DhcpStop \/ DhcpRelease \/ DhcpRenew \/ Inform
        \/ NetworkChanged \/ CoarseTmr \/ FineTmr \/ ArpReply \/ Recv \/ Lose
        \/ Offer \/ Ack \/ Nak

Spec == Init /\ [][Next]_vars

(* The two timers of the stack keep running; nothing is assumed of the     *)
(* network and of the server.                                              *)
FairSpec == Spec /\ WF_vars(CoarseTmr) /\ WF_vars(FineTmr)

-----------------------------------------------------------------------------
(* As long as no allocation has failed, the interface only comes up with   *)
(* an address that the server has acknowledged to this client in the       *)
(* running transaction, whatever replies of earlier ones are still under   *)
(* way.                                                                    *)
BindsAcked ==
  [][fails' = 0 /\ c'.state = "BOUND" /\ c.state # "BOUND"
       => <<c'.cxid, c'.ip>> \in acked]_vars

(* A client that waits for an answer has its timer running: no sequence of *)
(* lost messages and failed allocations leaves it waiting for ever.        *)
NeverStuck == c.state \notin {"OFF", "BOUND"} => c.timer

(* A client without a pcb is off: nothing it does can send through the     *)
(* NULL pcb that dhcp_stop and a failed dhcp_start leave.                  *)
OffWithoutPcb == ~c.pcb => c.state = "OFF"

(* The three together; an offer without a server id does leave the client  *)
(* waiting (dhcp_recv, dhcp_handle_offer).                                 *)
DhcpSound == DhcpTypeOK /\ OffWithoutPcb /\ (BAD_OFFERS \/ NeverStuck)

(* "the rebind timer will eventually time-out if renew does not work":     *)
(* whatever is lost, a renewal ends, with the lease bound again or with    *)
(* the address given up.                                                   *)
Renewing == c.state \in {"RENEWING", "REBINDING"}
RenewalEnds == Renewing ~> ~Renewing
=============================================================================
