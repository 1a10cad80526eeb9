----------------------------- MODULE DhcpProofs -----------------------------
(***************************************************************************)
(* DhcpSound and BindsAcked for any pool, leases, timers, limits on tries  *)
(* and number of transaction ids.                                          *)
(***************************************************************************)
EXTENDS DhcpClient, Sequences, FiniteSetTheorems, TLAPS

(* What the sizes are, in the form that the leaves use.                    *)
LEMMA Sizes ==
  /\ XIDS \in Nat /\ XIDS > 2 /\ MAX_CALLS \in Nat /\ MAX_CALLS < XIDS
  /\ COARSE \in Nat /\ COARSE > 1 /\ TRIES_CAP \in Nat /\ INF \in Nat
  /\ 0 \in 0..TRIES_CAP /\ 0 \in Ticks16 /\ 0 \in Secs /\ 0 \in Xid
  /\ IP_ADDR_ANY \in Addr /\ IPS \subseteq Addr /\ IP_ADDR_ANY \notin IPS
  BY DhcpAssumption DEF TRIES_CAP, Ticks16, Secs, Xid, Addr, INF

-----------------------------------------------------------------------------
(* Transaction ids: the next one, and how many an id is ahead of another.  *)
Succ(x) == (x + 1) % XIDS
Ahead(x, y) == IF y >= x THEN y - x ELSE y - x + XIDS

(* The next id, without the modulo.                                        *)
LEMMA SuccIs ==
  ASSUME NEW x \in Xid
  PROVE  /\ Succ(x) = IF x + 1 = XIDS THEN 0 ELSE x + 1
         /\ Succ(x) \in Xid
  <1>1. x \in Nat /\ x < XIDS /\ XIDS \in Nat /\ XIDS > 2
    BY Sizes DEF Xid
  <1>2. CASE x + 1 = XIDS
    <2>1. XIDS % XIDS = 0
      BY <1>1
    <2> QED
      BY <1>1, <1>2, <2>1 DEF Succ, Xid
  <1>3. CASE x + 1 # XIDS
    <2>1. (x + 1) % XIDS = x + 1
      BY <1>1, <1>3
    <2> QED
      BY <1>1, <1>3, <2>1 DEF Succ, Xid
  <1> QED
    BY <1>2, <1>3

(* One or two new transactions have other ids.                             *)
LEMMA SuccOther ==
  ASSUME NEW x \in Xid
  PROVE  Succ(x) # x /\ Succ(Succ(x)) # x
  <1>1. x \in Nat /\ x < XIDS /\ XIDS \in Nat /\ XIDS > 2
    BY Sizes DEF Xid
  <1>2. /\ Succ(x) = IF x + 1 = XIDS THEN 0 ELSE x + 1
        /\ Succ(Succ(x)) = IF Succ(x) + 1 = XIDS THEN 0 ELSE Succ(x) + 1
    BY SuccIs
  <1> QED
    BY <1>1, <1>2

(* An id that is taken by somebody else is one further ahead.              *)
LEMMA AheadSucc ==
  ASSUME NEW x \in Xid, NEW y \in Xid, NEW n \in Nat, Ahead(x, y) <= n, n + 1 < XIDS
  PROVE  Ahead(x, Succ(y)) <= n + 1 /\ Succ(y) # x
  <1>1. /\ x \in Nat /\ x < XIDS /\ y \in Nat /\ y < XIDS
        /\ XIDS \in Nat /\ XIDS > 2
    BY Sizes DEF Xid
  <1>2. Succ(y) = IF y + 1 = XIDS THEN 0 ELSE y + 1
    BY SuccIs
  <1> QED
    BY <1>1, <1>2 DEF Ahead

(* An id is not ahead of itself.                                           *)
LEMMA AheadSame ==
  ASSUME NEW x \in Xid
  PROVE  Ahead(x, x) = 0
  BY Sizes DEF Ahead, Xid

-----------------------------------------------------------------------------
(* What the functions do to the client, first those that the others are    *)
(* built from. NoRequest: nothing that asks for an address is on its way;  *)
(* Requests: what is asks for the address offered in this transaction.     *)
NoRequest(d) == \A m \in d.sent : m.type # "REQUEST"
Requests(d)  == \A m \in d.sent :
                  m.type = "REQUEST" => m.xid = d.cxid /\ m.ip = d.offered
SameXid(d, e) == e.xid = d.xid /\ e.cxid = d.cxid

(* dhcp_set_state keeps all but the state, tries and the timer.            *)
LEMMA SetStateFields ==
  ASSUME NEW d \in Client, NEW s \in State
  PROVE  LET e == SetState(d, s)
         IN  /\ e \in Client /\ e.state = s /\ SameXid(d, e) /\ e.offered = d.offered
             /\ e.sent = d.sent /\ e.pcb = d.pcb /\ e.ip = d.ip
             /\ e.tries = IF s = d.state THEN d.tries ELSE 0
             /\ s = d.state => e = d
  BY Sizes DEF SetState, Client, SameXid

Type == {"DISCOVER", "REQUEST", "DECLINE", "RELEASE", "INFORM"}
Dst  == {"all", "server", "nobody"}

Sends(d, e, type, ok) ==
  /\ e \in Client /\ e.state = d.state /\ e.offered = d.offered
  /\ e.tries = d.tries /\ e.timer = d.timer /\ e.pcb = d.pcb /\ e.ip = d.ip
  /\ ~ok => e = d
  /\ type = "REQUEST" => SameXid(d, e)
  /\ type # "REQUEST" /\ ok =>
       e.cxid = e.xid /\ e.xid = IF d.tries = 0 THEN Succ(d.xid) ELSE d.xid
  /\ \A m \in e.sent : \/ m \in d.sent
                       \/ m.type = type /\ m.xid = e.cxid /\ m.ip = d.offered

(* Sending keeps the state; only a REQUEST goes on in the transaction.     *)
LEMMA SendFields ==
  ASSUME NEW d \in Client, NEW type \in Type, NEW dst \in Dst, NEW ok \in BOOLEAN
  PROVE  Sends(d, Send(d, type, dst, ok), type, ok)
  <1> DEFINE x == IF d.tries = 0 THEN Succ(d.xid) ELSE d.xid
             f == IF type = "REQUEST" THEN d ELSE [d EXCEPT !.xid = x, !.cxid = x]
             m == [type |-> type, xid |-> f.cxid, ip |-> d.offered, dst |-> dst]
             e == Send(d, type, dst, ok)
  <1>1. x \in Xid
    BY SuccIs DEF Client
  <1>2. e = IF ~ok THEN d ELSE [f EXCEPT !.sent = @ \cup {m}]
    BY DEF Send, Succ
  <1> HIDE DEF x
  <1>3. /\ f \in Client /\ f.state = d.state /\ f.offered = d.offered /\ f.sent = d.sent
        /\ f.tries = d.tries /\ f.timer = d.timer /\ f.pcb = d.pcb /\ f.ip = d.ip
        /\ type = "REQUEST" => f = d
        /\ type # "REQUEST" => f.cxid = x /\ f.xid = x
    BY <1>1 DEF Client
  <1> HIDE DEF f
  <1>4. m \in Message
    BY <1>3 DEF Client, Message, Type, Dst
  <1>5. m.type = type /\ m.xid = f.cxid /\ m.ip = d.offered
    OBVIOUS
  <1> HIDE DEF m, e
  <1>6. CASE ok
    <2>1. e = [f EXCEPT !.sent = @ \cup {m}]
      BY <1>2, <1>6
    <2>2. /\ e \in Client /\ e.state = f.state /\ e.offered = f.offered
          /\ e.sent = f.sent \cup {m} /\ e.xid = f.xid /\ e.cxid = f.cxid
          /\ e.tries = f.tries /\ e.timer = f.timer /\ e.pcb = f.pcb /\ e.ip = f.ip
      BY <1>3, <1>4, <2>1 DEF Client
    <2> QED
      BY <1>3, <1>5, <1>6, <2>2 DEF e, x, SameXid, Sends
  <1>7. CASE ~ok
    <2>1. e = d
      BY <1>2, <1>7
    <2> QED
      BY <1>7, <2>1 DEF e, SameXid, Sends
  <1> QED
    BY <1>6, <1>7

(* Afterwards the timer runs and the message counts as a try.              *)
LEMMA ArmedFields ==
  ASSUME NEW d \in Client
  PROVE  LET e == Armed(d)
         IN  /\ e \in Client /\ e.state = d.state /\ SameXid(d, e) /\ e.offered = d.offered
             /\ e.sent = d.sent /\ e.pcb = d.pcb /\ e.ip = d.ip /\ e.timer = TRUE
             /\ e.tries # 0
  <1> DEFINE n == IF d.tries < TRIES_CAP THEN d.tries + 1 ELSE d.tries
  <1>1. n \in 0..TRIES_CAP /\ n # 0
    BY Sizes, DhcpAssumption DEF Client, TRIES_CAP
  <1>2. Armed(d) = [d EXCEPT !.tries = n, !.timer = TRUE]
    BY DEF Armed
  <1> HIDE DEF n
  <1> QED
    BY <1>1, <1>2 DEF Client, SameXid

(* Select, Renew, Rebind and Reboot ask for the address in the running     *)
(* transaction.                                                            *)
AsksFor(d, e, s) ==
  /\ e \in Client /\ e.state = s /\ SameXid(d, e) /\ e.offered = d.offered
  /\ e.pcb = d.pcb /\ e.timer = TRUE
  /\ NoRequest(d) => Requests(e)

(* A REQUEST is such a step, from whatever state to whatever state.        *)
LEMMA AsksForIs ==
  ASSUME NEW d \in Client, NEW s \in State, NEW dst \in Dst,
         NEW ok \in BOOLEAN
  PROVE  AsksFor(d, Armed(Send(SetState(d, s), "REQUEST", dst, ok)), s)
  <1> DEFINE a == SetState(d, s)
             b == Send(a, "REQUEST", dst, ok)
             e == Armed(b)
  <1>0. e = Armed(Send(SetState(d, s), "REQUEST", dst, ok))
    OBVIOUS
  <1>1. /\ a \in Client /\ a.state = s /\ SameXid(d, a) /\ a.offered = d.offered
        /\ a.sent = d.sent /\ a.pcb = d.pcb
    BY SetStateFields
  <1> HIDE DEF a
  <1>2. /\ b \in Client /\ b.state = a.state /\ b.offered = a.offered /\ b.pcb = a.pcb
        /\ SameXid(a, b)
        /\ \A m \in b.sent : \/ m \in a.sent
                             \/ m.xid = b.cxid /\ m.ip = a.offered
    <2>1. Sends(a, b, "REQUEST", ok)
      BY <1>1, SendFields DEF Type
    <2> QED
      BY <2>1 DEF Sends
  <1> HIDE DEF b
  <1>3. /\ e \in Client /\ e.state = b.state /\ SameXid(b, e) /\ e.offered = b.offered
        /\ e.sent = b.sent /\ e.pcb = b.pcb /\ e.timer = TRUE
    BY <1>2, ArmedFields
  <1> HIDE DEF e
  <1>4. AsksFor(d, e, s)
    BY <1>1, <1>2, <1>3 DEF AsksFor, SameXid, NoRequest, Requests
  <1> QED
    BY <1>0, <1>4

(* Discover, Decline and Release begin another transaction, unless the     *)
(* state does not change, when they repeat what they have sent.            *)
Begins(d, e, s, ok) ==
  /\ e \in Client /\ e.state = s /\ e.pcb = d.pcb /\ e.timer = TRUE /\ e.tries # 0
  /\ NoRequest(d) => NoRequest(e)
  /\ ok => e.cxid = e.xid
  /\ ok /\ d.state # s => e.xid = Succ(d.xid)
  /\ d.state = s /\ d.tries # 0 => e.xid = d.xid
  /\ e.xid \in {d.xid, Succ(d.xid)}

(* The other messages are such steps.                                      *)
LEMMA BeginsIs ==
  ASSUME NEW d \in Client, NEW s \in State, NEW dst \in Dst,
         NEW ok \in BOOLEAN, NEW type \in {"DISCOVER", "DECLINE", "RELEASE"}
  PROVE  LET e == Armed(Send(SetState(d, s), type, dst, ok))
         IN  Begins(d, e, s, ok) /\ e.offered = d.offered
  <1> DEFINE a == SetState(d, s)
             b == Send(a, type, dst, ok)
             e == Armed(b)
  <1>0. e = Armed(Send(SetState(d, s), type, dst, ok))
    OBVIOUS
  <1>1. /\ a \in Client /\ a.state = s /\ SameXid(d, a) /\ a.offered = d.offered
        /\ a.sent = d.sent /\ a.pcb = d.pcb
        /\ a.tries = IF s = d.state THEN d.tries ELSE 0
    BY SetStateFields
  <1> HIDE DEF a
  <1>2. /\ b \in Client /\ b.state = a.state /\ b.offered = a.offered /\ b.pcb = a.pcb
        /\ ~ok => b = a
        /\ ok => b.cxid = b.xid /\ b.xid = IF a.tries = 0 THEN Succ(a.xid) ELSE a.xid
        /\ \A m \in b.sent : m \in a.sent \/ m.type = type
    <2>1. Sends(a, b, type, ok) /\ type # "REQUEST"
      BY <1>1, SendFields DEF Type
    <2> QED
      BY <2>1 DEF Sends
  <1> HIDE DEF b
  <1>3. /\ e \in Client /\ e.state = b.state /\ SameXid(b, e) /\ e.offered = b.offered
        /\ e.sent = b.sent /\ e.pcb = b.pcb /\ e.timer = TRUE /\ e.tries # 0
    BY <1>2, ArmedFields
  <1> HIDE DEF e
  <1>4. NoRequest(d) => NoRequest(e)
    BY <1>1, <1>2, <1>3 DEF NoRequest
  <1>5. Begins(d, e, s, ok) /\ e.offered = d.offered
    BY <1>1, <1>2, <1>3, <1>4 DEF Begins, SameXid
  <1> QED
    BY <1>0, <1>5

-----------------------------------------------------------------------------
(* The inductive invariant. What is on its way from the server:            *)
ReplyType == [type : {"OFFER", "ACK", "NAK"}, xid : Xid, ip : Addr, sid : BOOLEAN,
              lease : [t0 : Option, t1 : Option, t2 : Option]]

Sound(m) == /\ m \in ReplyType
            /\ m.type # "NAK" => m.ip \in IPS
            /\ m.sid \/ BAD_OFFERS

(* A client d that no allocation has failed, with replies rs, acknowledged *)
(* pairs as and after n calls.  An acknowledgement in the running          *)
(* transaction is of the address that is offered, of which there is none   *)
(* yet while the client selects one; a transaction id that somebody else   *)
(* has taken from the counter has not been acknowledged, and is not the    *)
(* running one.                                                            *)
Near(d, n) == Ahead(d.cxid, d.xid) <= n

Running(d, rs, as, n) ==
  /\ d.state \notin {"OFF", "BACKING_OFF"} =>
       \A m \in rs : m.type = "ACK" /\ m.xid = d.cxid => m.ip = d.offered
  /\ d.state = "SELECTING" => d.offered = IP_ADDR_ANY
  /\ \A m \in rs : m.type = "ACK" /\ m.xid = d.xid => d.xid = d.cxid
  /\ d.state = "CHECKING" => <<d.cxid, d.offered>> \in as
  /\ d.state # "OFF" => Near(d, n)

(* The history has every acknowledgement that is under way.                *)
Recorded(rs, as) == \A m \in rs : m.type = "ACK" => <<m.xid, m.ip>> \in as

Ready(d) == /\ d \in Client /\ Requests(d)
            /\ ~d.pcb => d.state = "OFF"
            /\ BAD_OFFERS \/ d.state \in {"OFF", "BOUND"} \/ d.timer

DhcpInv ==
  /\ Ready(c) /\ (\A m \in replies : Sound(m)) /\ acked \subseteq Xid \X IPS
  /\ calls \in 0..MAX_CALLS /\ fails \in Nat
  /\ Recorded(replies, acked)
  /\ fails = 0 => Running(c, replies, acked, calls)

-----------------------------------------------------------------------------
(* The functions of dhcp.c.                                                *)
LEMMA DiscoverFields ==
  ASSUME NEW d \in Client, NEW ok \in BOOLEAN
  PROVE  LET e == Discover(d, ok)
         IN  Begins(d, e, "SELECTING", ok) /\ e.offered = IP_ADDR_ANY
  <1> DEFINE a == [d EXCEPT !.offered = IP_ADDR_ANY]
             e == Discover(d, ok)
  <1>1. /\ a \in Client /\ a.state = d.state /\ a.xid = d.xid /\ a.tries = d.tries
        /\ a.pcb = d.pcb /\ a.sent = d.sent /\ a.offered = IP_ADDR_ANY
    BY Sizes DEF Client
  <1>2. e = Armed(Send(SetState(a, "SELECTING"), "DISCOVER", "all", ok))
    BY DEF Discover
  <1> HIDE DEF a
  <1>3. Begins(a, e, "SELECTING", ok) /\ e.offered = a.offered
    BY <1>1, <1>2, BeginsIs DEF State, Dst
  <1> QED
    BY <1>1, <1>3 DEF Begins, NoRequest

(* dhcp_decline begins a transaction.                                      *)
LEMMA DeclineFields ==
  ASSUME NEW d \in Client, NEW ok \in BOOLEAN
  PROVE  Begins(d, Decline(d, ok), "BACKING_OFF", ok)
  BY BeginsIs DEF Decline, State, Dst

(* dhcp_release begins a transaction, and the client is off.               *)
LEMMA ReleaseFields ==
  ASSUME NEW d \in Client, NEW ok \in BOOLEAN
  PROVE  Begins(d, Release(d, ok), "OFF", ok)
  <1> DEFINE a == [d EXCEPT !.server = "nobody", !.offered = IP_ADDR_ANY,
                            !.ot0 = 0, !.ot1 = 0, !.ot2 = 0]
             off == [SetState(d, "OFF") EXCEPT !.server = "nobody",
                       !.offered = IP_ADDR_ANY, !.ot0 = 0, !.ot1 = 0, !.ot2 = 0]
             b == Armed(Send(SetState(a, "OFF"), "RELEASE", "nobody", ok))
             e == Release(d, ok)
  <1>1. /\ a \in Client /\ a.state = d.state /\ a.xid = d.xid /\ a.tries = d.tries
        /\ a.pcb = d.pcb /\ a.sent = d.sent
    BY Sizes DEF Client
  <1>2. off = SetState(a, "OFF") /\ off.server = "nobody"
    BY DEF SetState, Client
  <1>3. e = [b EXCEPT !.up = FALSE, !.ip = IP_ADDR_ANY]
    BY <1>2 DEF Release
  <1>4. Begins(a, b, "OFF", ok)
    BY <1>1, BeginsIs DEF State, Dst
  <1> HIDE DEF a, b, e
  <1>5. b \in Client
    BY <1>4 DEF Begins
  <1>6. /\ e \in Client /\ e.state = b.state /\ e.pcb = b.pcb /\ e.timer = b.timer
        /\ e.tries = b.tries /\ e.xid = b.xid /\ e.cxid = b.cxid /\ e.sent = b.sent
    BY <1>3, <1>5, Sizes DEF Client
  <1>7. Begins(d, e, "OFF", ok)
    BY <1>1, <1>4, <1>6 DEF Begins, NoRequest
  <1> QED
    BY <1>7 DEF e

(* dhcp_select, dhcp_renew, dhcp_rebind and dhcp_reboot.                   *)
LEMMA SelectFields ==
  ASSUME NEW d \in Client, NEW ok \in BOOLEAN
  PROVE  /\ AsksFor(d, Select(d, ok), "REQUESTING")
         /\ AsksFor(d, Renew(d, ok), "RENEWING")
         /\ AsksFor(d, Rebind(d, ok), "REBINDING")
         /\ AsksFor(d, Reboot(d, ok), "REBOOTING")
  <1>1. d.server \in Dst
    BY DEF Client, Dst
  <1> QED
    BY <1>1, AsksForIs DEF Select, Renew, Rebind, Reboot, State, Dst

(* The client keeps its transaction and what it has sent.                  *)
Keeps(d, e, s) == /\ e \in Client /\ e.state = s /\ SameXid(d, e) /\ e.sent = d.sent
                  /\ e.offered = d.offered

(* dhcp_check waits for an answer to its ARP request.                      *)
LEMMA CheckFields ==
  ASSUME NEW d \in Client
  PROVE  Keeps(d, Check(d), "CHECKING") /\ Check(d).timer = TRUE /\ Check(d).pcb = d.pcb
  <1> DEFINE a == SetState(d, "CHECKING")
             e == Check(d)
  <1>1. /\ a \in Client /\ a.state = "CHECKING" /\ SameXid(d, a) /\ a.offered = d.offered
        /\ a.sent = d.sent /\ a.pcb = d.pcb
    BY SetStateFields DEF State
  <1>2. e = Armed(a)
    BY DEF Check
  <1> HIDE DEF a
  <1>3. /\ e \in Client /\ e.state = a.state /\ SameXid(a, e) /\ e.offered = a.offered
        /\ e.sent = a.sent /\ e.pcb = a.pcb /\ e.timer = TRUE
    BY <1>1, <1>2, ArmedFields
  <1> QED
    BY <1>1, <1>3 DEF Keeps, SameXid

(* dhcp_stop switches the client off.                                      *)
LEMMA StopFields ==
  ASSUME NEW d \in Client
  PROVE  Keeps(d, Stop(d), "OFF")
  <1> DEFINE a == [d EXCEPT !.pcb = FALSE]
  <1>1. /\ a \in Client /\ a.offered = d.offered /\ a.sent = d.sent /\ SameXid(d, a)
    BY DEF Client, SameXid
  <1>2. Stop(d) = SetState(a, "OFF")
    BY DEF Stop
  <1> HIDE DEF a
  <1>3. Keeps(a, SetState(a, "OFF"), "OFF")
    BY <1>1, SetStateFields DEF Keeps, State
  <1> QED
    BY <1>1, <1>2, <1>3 DEF Keeps, SameXid

(* The ticks of a lease timer fit 16 bits, whatever the lease.             *)
LEMMA TicksRange ==
  ASSUME NEW secs \in Secs, NEW old \in Ticks16
  PROVE  Ticks(secs, old) \in Ticks16
  <1>1. secs \in Nat /\ COARSE \in Nat /\ COARSE > 1
    BY Sizes DEF Secs
  <1>2. (secs + 1) \div 2 \in Nat
    BY <1>1
  <1> DEFINE t == (secs + 1) \div 2
  <1> HIDE DEF t
  <1>3. t \in Nat /\ Ticks(secs, old) =
          IF secs = INF THEN old
          ELSE IF t = 0 THEN 1 ELSE IF t > COARSE - 1 THEN COARSE - 1 ELSE t
    BY <1>2 DEF t, Ticks, TicksUpTo
  <1>4. CASE secs = INF
    BY <1>3, <1>4
  <1>5. CASE secs # INF
    BY <1>1, <1>3, <1>5 DEF Ticks16
  <1> QED
    BY <1>4, <1>5

(* dhcp_bind takes the offered address.                                    *)
LEMMA BindFields ==
  ASSUME NEW d \in Client
  PROVE  Keeps(d, Bind(d), "BOUND") /\ Bind(d).ip = d.offered /\ Bind(d).pcb = d.pcb
  <1> DEFINE t1 == Ticks(d.ot1, d.t1)
             t2 == Ticks(d.ot2, d.t2)
             n1 == IF t1 >= t2 /\ t2 > 0 THEN 0 ELSE t1
             a == [d EXCEPT !.t1 = n1, !.t2 = t2, !.ip = d.offered, !.up = TRUE]
  <1>1. t1 \in Ticks16 /\ t2 \in Ticks16
    BY TicksRange DEF Client
  <1>2. n1 \in Ticks16
    BY <1>1, Sizes
  <1>3. Bind(d) = SetState(a, "BOUND")
    BY DEF Bind
  <1> HIDE DEF t1, t2, n1
  <1>4. /\ a \in Client /\ a.offered = d.offered /\ a.sent = d.sent /\ SameXid(d, a)
        /\ a.ip = d.offered /\ a.pcb = d.pcb
    BY <1>1, <1>2 DEF Client, SameXid
  <1> HIDE DEF a
  <1> QED
    BY <1>3, <1>4, SetStateFields DEF Keeps, State, SameXid

(* dhcp_handle_ack takes the options and the address of the ACK.           *)
LEMMA HandleAckFields ==
  ASSUME NEW d \in Client, NEW m, Sound(m), m.type = "ACK"
  PROVE  LET e == HandleAck(d, m)
         IN  /\ e \in Client /\ SameXid(d, e) /\ e.sent = d.sent /\ e.offered = m.ip
             /\ e.state = d.state /\ e.pcb = d.pcb
  <1> DEFINE t0 == IF m.lease.t0 = NONE THEN d.ot0 ELSE m.lease.t0
             t1 == IF m.lease.t1 = NONE THEN t0 \div 2 ELSE m.lease.t1
             t2 == IF m.lease.t2 = NONE THEN t0 ELSE m.lease.t2
             e == HandleAck(d, m)
  <1>1. m.lease.t0 \in Option /\ m.lease.t1 \in Option /\ m.lease.t2 \in Option
    BY DEF Sound, ReplyType
  <1>2. t0 \in Secs
    BY <1>1 DEF Client, Option
  <1>3. t0 \div 2 \in Secs
    <2> HIDE DEF t0
    <2> QED
      BY <1>2, Sizes DEF Secs
  <1>4. t1 \in Secs /\ t2 \in Secs
    BY <1>1, <1>2, <1>3 DEF Option
  <1>5. e = [d EXCEPT !.ot0 = t0, !.ot1 = t1, !.ot2 = t2, !.offered = m.ip]
    BY DEF HandleAck
  <1>6. m.ip \in Addr
    BY DEF Sound, ReplyType
  <1> DEFINE ip == m.ip
  <1> HIDE DEF t0, t1, t2, e, ip
  <1>7. ip \in Addr /\ e = [d EXCEPT !.ot0 = t0, !.ot1 = t1, !.ot2 = t2, !.offered = ip]
    BY <1>5, <1>6 DEF ip
  <1>8. /\ e \in Client /\ SameXid(d, e) /\ e.sent = d.sent /\ e.offered = ip
        /\ e.state = d.state /\ e.pcb = d.pcb
    BY <1>2, <1>4, <1>7 DEF Client, SameXid
  <1> QED
    BY <1>8 DEF e, ip

-----------------------------------------------------------------------------
(* What is left of replies and of the history when the client d becomes e, *)
(* which may have used another transaction id.                             *)
Rest(rs, d, e)      == {m \in rs : e.xid = d.xid \/ m.xid # e.xid}
RestAcked(as, d, e) == {a \in as : e.xid = d.xid \/ a[1] # e.xid}

(* All is left while the transaction counter stays.                        *)
LEMMA RestIs ==
  ASSUME NEW d, NEW e, NEW rs, NEW as, e.xid = d.xid
  PROVE  Rest(rs, d, e) = rs /\ RestAcked(as, d, e) = as
  BY DEF Rest, RestAcked

(* The history still has what is under way.                                *)
LEMMA RestRecorded ==
  ASSUME NEW d, NEW e, NEW rs, NEW as, Recorded(rs, as)
  PROVE  Recorded(Rest(rs, d, e), RestAcked(as, d, e))
  BY DEF Recorded, Rest, RestAcked

(* A step of the client and its allocations.                               *)
Ok(oks) == \A i \in 1..Len(oks) : oks[i]

(* It leaves what is not of its new id, and counts the failures.           *)
LEMMA GoIs ==
  ASSUME fails \in Nat, NEW e, NEW oks \in Seq(BOOLEAN), Go(e, oks)
  PROVE  /\ c' = e /\ replies' = Rest(replies, c, e) /\ acked' = RestAcked(acked, c, e)
         /\ fails' \in Nat /\ (fails' = 0 => fails = 0 /\ Ok(oks))
  <1> DEFINE Bad == {i \in DOMAIN oks : ~oks[i]}
             bad == Cardinality(Bad)
  <1>1. /\ c' = e /\ replies' = Rest(replies, c, e) /\ acked' = RestAcked(acked, c, e)
        /\ fails' = fails + bad
    BY DEF Go, Rest, RestAcked
  <1>2. IsFiniteSet(Bad)
    <2>1. IsFiniteSet(1..Len(oks))
      BY FS_Interval
    <2>2. Bad \subseteq 1..Len(oks)
      OBVIOUS
    <2> QED
      BY <2>1, <2>2, FS_Subset
  <1>3. bad \in Nat
    BY <1>2, FS_CardinalityType
  <1>4. bad = 0 => Bad = {}
    BY <1>2, FS_EmptySet
  <1>5. Bad = {} => Ok(oks)
    BY DEF Ok
  <1> HIDE DEF bad, Bad
  <1> QED
    BY <1>1, <1>3, <1>4, <1>5

-----------------------------------------------------------------------------
(* A client that begins a transaction with a new id, of which nothing is   *)
(* under way.                                                              *)
LEMMA AnewRuns ==
  ASSUME NEW d, NEW e \in Client, NEW rs, NEW as, NEW n \in Nat,
         e.xid # d.xid, e.cxid = e.xid, e.state # "CHECKING",
         e.state = "SELECTING" => e.offered = IP_ADDR_ANY
  PROVE  Running(e, Rest(rs, d, e), RestAcked(as, d, e), n)
  <1>1. Near(e, n)
    BY AheadSame DEF Client, Near
  <1>2. \A m \in Rest(rs, d, e) : m.xid # e.xid
    BY DEF Rest
  <1> QED
    BY <1>1, <1>2 DEF Running

(* One that goes on in its transaction.                                    *)
LEMMA SameRuns ==
  ASSUME NEW d \in Client, NEW e \in Client, NEW rs, NEW as, NEW n \in Nat, NEW k \in Nat,
         Running(d, rs, as, n), n <= k, SameXid(d, e), e.offered = d.offered,
         e.state \in {"CHECKING", "SELECTING"} => d.state = e.state,
         d.state \in {"OFF", "BACKING_OFF"} => e.state \in {d.state, "OFF"}
  PROVE  Running(e, Rest(rs, d, e), RestAcked(as, d, e), k)
  <1>1. Rest(rs, d, e) = rs /\ RestAcked(as, d, e) = as
    BY RestIs DEF SameXid
  <1>2. Near(d, n) => Near(e, k)
    <2>1. Ahead(d.cxid, d.xid) \in Int
      BY Sizes DEF Ahead, Client, Xid
    <2> QED
      BY <2>1 DEF Near, SameXid
  <1>3. /\ e.state \notin {"OFF", "BACKING_OFF"} => d.state \notin {"OFF", "BACKING_OFF"}
        /\ e.state = "CHECKING" => d.state = "CHECKING"
        /\ e.state = "SELECTING" => d.state = "SELECTING"
    OBVIOUS
  <1> QED
    BY <1>1, <1>2, <1>3 DEF Running, SameXid

(* One that is off, or sends its DISCOVER again, perhaps with the id that  *)
(* an INFORM has taken in between.                                         *)
LEMMA AgainRuns ==
  ASSUME NEW d \in Client, NEW e \in Client, NEW rs, NEW as, NEW n \in Nat,
         Running(d, rs, as, n), \A m \in rs : Sound(m), e.xid = d.xid, e.cxid = e.xid,
         d.state = e.state, e.state \in {"OFF", "SELECTING"},
         e.state = "SELECTING" => e.offered = IP_ADDR_ANY
  PROVE  Running(e, Rest(rs, d, e), RestAcked(as, d, e), n)
  <1>1. Rest(rs, d, e) = rs /\ RestAcked(as, d, e) = as
    BY RestIs
  <1>2. Near(e, n)
    BY AheadSame DEF Client, Near
  <1>3. ASSUME NEW m \in rs, m.type = "ACK", m.xid = e.xid, e.state = "SELECTING"
        PROVE  FALSE
    <2>1. m.ip \in IPS
      BY <1>3 DEF Sound
    <2>2. d.xid = d.cxid /\ d.offered = IP_ADDR_ANY
      BY <1>3 DEF Running
    <2>3. m.ip = IP_ADDR_ANY
      BY <1>3, <2>2 DEF Running
    <2> QED
      BY <2>1, <2>3, Sizes
  <1> QED
    BY <1>1, <1>2, <1>3 DEF Running

(* One that sends a DISCOVER, DECLINE or RELEASE.                          *)
LEMMA BeginsRuns ==
  ASSUME NEW d \in Client, NEW e, NEW s \in {"OFF", "SELECTING", "BACKING_OFF"},
         NEW rs, NEW as, NEW n \in Nat, NEW k \in Nat, n <= k,
         Running(d, rs, as, n), \A m \in rs : Sound(m), Begins(d, e, s, TRUE),
         s = "SELECTING" => e.offered = IP_ADDR_ANY,
         s = "BACKING_OFF" => d.state # s
  PROVE  Running(e, Rest(rs, d, e), RestAcked(as, d, e), k)
  <1>1. e \in Client /\ e.state = s /\ e.cxid = e.xid
    BY DEF Begins
  <1>2. CASE e.xid # d.xid
    BY <1>1, <1>2, AnewRuns
  <1>3. CASE e.xid = d.xid
    <2>1. d.state = s
      <3>1. d.xid \in Xid
        BY DEF Client
      <3> QED
        BY <1>3, <3>1, SuccOther DEF Begins
    <2>2. s \in {"OFF", "SELECTING"}
      BY <2>1
    <2>3. Running(d, rs, as, k)
      <3>1. Ahead(d.cxid, d.xid) \in Int
        BY Sizes DEF Ahead, Client, Xid
      <3>2. Near(d, n) => Near(d, k)
        BY <3>1 DEF Near
      <3> QED
        BY <3>2, Zenon DEF Running
    <2> QED
      BY <1>1, <1>3, <2>1, <2>2, <2>3, AgainRuns
  <1> QED
    BY <1>2, <1>3

(* One that takes an offer: nothing has been acknowledged before it asks.  *)
LEMMA OfferRuns ==
  ASSUME NEW d \in Client, NEW e \in Client, NEW rs, NEW as, NEW n \in Nat,
         Running(d, rs, as, n), \A m \in rs : Sound(m), SameXid(d, e),
         d.state = "SELECTING", e.state = "REQUESTING"
  PROVE  Running(e, Rest(rs, d, e), RestAcked(as, d, e), n)
  <1>1. Rest(rs, d, e) = rs /\ RestAcked(as, d, e) = as
    BY RestIs DEF SameXid
  <1>2. \A m \in rs : m.type = "ACK" => m.xid # d.cxid
    BY Sizes DEF Running, Sound
  <1>3. Near(e, n)
    BY DEF Near, Running, SameXid
  <1> QED
    BY <1>1, <1>2, <1>3 DEF Running, SameXid

(* One that is acknowledged.                                               *)
LEMMA AckRuns ==
  ASSUME NEW d \in Client, NEW e \in Client, NEW rs, NEW as, NEW n \in Nat,
         Running(d, rs, as, n), Recorded(rs, as), SameXid(d, e),
         NEW m \in rs, m.type = "ACK", m.xid = d.cxid, e.offered = m.ip,
         d.state = "REQUESTING", e.state = "CHECKING"
  PROVE  Running(e, Rest(rs, d, e), RestAcked(as, d, e), n)
  <1>1. Rest(rs, d, e) = rs /\ RestAcked(as, d, e) = as
    BY RestIs DEF SameXid
  <1>2. m.ip = d.offered /\ <<e.cxid, e.offered>> \in as
    BY DEF Running, Recorded, SameXid
  <1>3. Near(e, n)
    BY DEF Near, Running, SameXid
  <1>4. \A r \in rs : r.type = "ACK" /\ r.xid = d.cxid => r.ip = d.offered
    BY DEF Running
  <1>5. \A r \in rs : r.type = "ACK" /\ r.xid = d.xid => d.xid = d.cxid
    BY DEF Running
  <1> QED
    BY <1>1, <1>2, <1>3, <1>4, <1>5, Zenon DEF Running, SameXid

(* An INFORM takes an id, which is not the running one.                    *)
LEMMA InformRuns ==
  ASSUME NEW d \in Client, NEW e \in Client, NEW rs, NEW as, NEW n \in Nat,
         Running(d, rs, as, n), n + 1 < XIDS, e.xid = Succ(d.xid), e.cxid = d.cxid,
         e.offered = d.offered, e.state = d.state
  PROVE  Running(e, Rest(rs, d, e), RestAcked(as, d, e), n + 1)
  <1>1. d.xid \in Xid /\ d.cxid \in Xid
    BY DEF Client
  <1>2. e.xid # d.xid
    BY <1>1, SuccOther
  <1>3. d.state # "OFF" => e.xid # e.cxid /\ Near(e, n + 1)
    BY <1>1, AheadSucc DEF Running, Near
  <1>4. \A m \in Rest(rs, d, e) : m \in rs /\ m.xid # e.xid
    BY <1>2 DEF Rest
  <1>5. d.state = "CHECKING" => <<e.cxid, e.offered>> \in RestAcked(as, d, e)
    BY <1>3 DEF RestAcked, Running
  <1> QED
    BY <1>3, <1>4, <1>5 DEF Running

-----------------------------------------------------------------------------
(* A step of the client to e, after which n calls have been made, as far   *)
(* as no allocation fails: it goes on with what is acknowledged, and binds *)
(* what has been.                                                          *)
Follows(e, n) ==
  /\ Running(e, Rest(replies, c, e), RestAcked(acked, c, e), n)
  /\ e.state = "BOUND" /\ c.state # "BOUND" => <<e.cxid, e.ip>> \in acked

Binds == fails' = 0 /\ c'.state = "BOUND" /\ c.state # "BOUND"
           => <<c'.cxid, c'.ip>> \in acked

(* Each action is proved by this lemma, from what its function leaves.     *)
LEMMA StepInv ==
  ASSUME DhcpInv, NEW e, NEW oks \in Seq(BOOLEAN), Go(e, oks), Ready(e),
         calls' \in 0..MAX_CALLS,
         Ok(oks) /\ Running(c, replies, acked, calls) => Follows(e, calls')
  PROVE  DhcpInv' /\ Binds
  <1>1. /\ c' = e /\ replies' = Rest(replies, c, e) /\ acked' = RestAcked(acked, c, e)
        /\ fails' \in Nat /\ (fails' = 0 => fails = 0 /\ Ok(oks))
    BY GoIs DEF DhcpInv
  <1>2. fails' = 0 => Follows(e, calls')
    BY <1>1 DEF DhcpInv
  <1>3. /\ \A m \in replies' : Sound(m)
        /\ acked' \subseteq Xid \X IPS
    BY <1>1 DEF DhcpInv, Rest, RestAcked
  <1>4. Recorded(replies', acked')
    BY <1>1, RestRecorded DEF DhcpInv
  <1>5. fails' = 0 => Running(c', replies', acked', calls')
    BY <1>1, <1>2 DEF Follows
  <1>6. DhcpInv'
    BY <1>1, <1>3, <1>4, <1>5 DEF DhcpInv
  <1>7. Binds
    BY <1>1, <1>2 DEF Follows, Binds
  <1> QED
    BY <1>6, <1>7

(* What a handler starts from: the client without what was sent before, or *)
(* with a timer changed.                                                   *)
Like(d, z) == /\ z \in Client /\ z.state = d.state /\ SameXid(d, z)
              /\ z.offered = d.offered /\ z.pcb = d.pcb /\ NoRequest(z)

(* All handlers that send start from Fresh.                                *)
LEMMA FreshLike ==
  ASSUME c \in Client
  PROVE  Like(c, Fresh) /\ Fresh.sent = {} /\ Fresh.timer = c.timer
  BY DEF Like, Fresh, Client, SameXid, NoRequest

(* The invariant is the same for what a handler starts from.               *)
LEMMA LikeRuns ==
  ASSUME NEW z, Like(c, z), NEW e, NEW rs, NEW as, NEW n
  PROVE  /\ Running(c, rs, as, n) => Running(z, rs, as, n)
         /\ Rest(rs, z, e) = Rest(rs, c, e) /\ RestAcked(as, z, e) = RestAcked(as, c, e)
  <1>1. z.state = c.state /\ z.xid = c.xid /\ z.cxid = c.cxid /\ z.offered = c.offered
    BY DEF Like, SameXid
  <1> QED
    BY <1>1 DEF Running, Near, Rest, RestAcked

(* Discover, Decline and Release.                                          *)
LEMMA BeginsFollows ==
  ASSUME DhcpInv, NEW z, Like(c, z), NEW s \in {"OFF", "SELECTING", "BACKING_OFF"}, NEW e,
         NEW ok \in BOOLEAN, Begins(z, e, s, ok),
         s = "SELECTING" => e.offered = IP_ADDR_ANY, s = "BACKING_OFF" => c.state # s,
         c.state # "OFF" \/ c.pcb \/ s = "OFF", NEW n \in Nat, calls <= n
  PROVE  /\ Ready(e)
         /\ ok /\ Running(c, replies, acked, calls) => Follows(e, n)
  <1>1. Ready(e)
    <2>1. c.pcb \/ s = "OFF"
      BY DEF DhcpInv, Ready
    <2> QED
      BY <2>1 DEF Begins, Like, Ready, NoRequest, Requests
  <1>2. ASSUME ok, Running(c, replies, acked, calls)
        PROVE  Follows(e, n)
    <2>1. Begins(z, e, s, TRUE)
      BY <1>2
    <2>2. Running(z, replies, acked, calls) /\ \A m \in replies : Sound(m)
      BY <1>2, LikeRuns DEF DhcpInv
    <2>3. z \in Client /\ z.state = c.state /\ calls \in Nat
      BY DEF Like, DhcpInv
    <2>4. Running(e, Rest(replies, z, e), RestAcked(acked, z, e), n)
      BY <2>1, <2>2, <2>3, BeginsRuns
    <2>5. e.state # "BOUND"
      BY DEF Begins
    <2> QED
      BY <2>4, <2>5, LikeRuns DEF Follows
  <1> QED
    BY <1>1, <1>2

(* A client that goes on in its transaction.                               *)
LEMMA KeepsFollows ==
  ASSUME DhcpInv, NEW e \in Client, SameXid(c, e), e.offered = c.offered,
         e.state \in {"CHECKING", "SELECTING", "BOUND"} => c.state = e.state,
         c.state \in {"OFF", "BACKING_OFF"} => e.state \in {c.state, "OFF"},
         NEW n \in Nat, calls <= n
  PROVE  Running(c, replies, acked, calls) => Follows(e, n)
  <1>1. c \in Client /\ calls \in Nat
    BY DEF DhcpInv, Ready
  <1>2. Running(c, replies, acked, calls) =>
          Running(e, Rest(replies, c, e), RestAcked(acked, c, e), n)
    BY <1>1, SameRuns
  <1> QED
    BY <1>2 DEF Follows

(* Select, Renew, Rebind and Reboot.                                       *)
LEMMA AsksFollows ==
  ASSUME DhcpInv, NEW z, Like(c, z), NEW e,
         NEW s \in {"REQUESTING", "RENEWING", "REBINDING", "REBOOTING"}, AsksFor(z, e, s),
         c.state \notin {"OFF", "BACKING_OFF"}, NEW n \in Nat, calls <= n
  PROVE  /\ Ready(e)
         /\ Running(c, replies, acked, calls) => Follows(e, n)
  <1>1. /\ e \in Client /\ e.state = s /\ SameXid(c, e) /\ e.offered = c.offered
        /\ e.pcb = c.pcb /\ e.timer = TRUE /\ Requests(e)
    BY DEF AsksFor, Like, SameXid
  <1>2. Ready(e)
    BY <1>1 DEF Ready, DhcpInv
  <1>3. Running(c, replies, acked, calls) => Follows(e, n)
    BY <1>1, KeepsFollows
  <1> QED
    BY <1>2, <1>3

(* A client that begins a transaction with a new id.                       *)
LEMMA AnewFollows ==
  ASSUME NEW e, NEW z, Begins(z, e, "SELECTING", TRUE), e.offered = IP_ADDR_ANY,
         e.xid # c.xid, NEW n \in Nat
  PROVE  Follows(e, n)
  <1>1. e \in Client /\ e.state = "SELECTING" /\ e.cxid = e.xid
    BY DEF Begins
  <1> QED
    BY <1>1, AnewRuns DEF Follows

(* Such a client waits with its timer running.                             *)
LEMMA BeginsReady ==
  ASSUME NEW z, NEW s, NEW e, NEW ok, NoRequest(z), z.pcb \/ s = "OFF",
         Begins(z, e, s, ok)
  PROVE  Ready(e)
  BY DEF Begins, Ready, NoRequest, Requests

(* One allocation, which succeeds.                                         *)
LEMMA OneOk ==
  ASSUME NEW ok \in BOOLEAN
  PROVE  <<ok>> \in Seq(BOOLEAN) /\ (Ok(<<ok>>) => ok)
  <1>1. Len(<<ok>>) = 1 /\ <<ok>>[1] = ok
    OBVIOUS
  <1>2. Ok(<<ok>>) => <<ok>>[1]
    BY <1>1 DEF Ok
  <1> QED
    BY <1>1, <1>2

(* Two allocations, both of which succeed.                                 *)
LEMMA TwoOk ==
  ASSUME NEW ok \in BOOLEAN, NEW ok2 \in BOOLEAN
  PROVE  <<ok, ok2>> \in Seq(BOOLEAN) /\ (Ok(<<ok, ok2>>) => ok /\ ok2)
  <1>1. Len(<<ok, ok2>>) = 2 /\ <<ok, ok2>>[1] = ok /\ <<ok, ok2>>[2] = ok2
    OBVIOUS
  <1>2. Ok(<<ok, ok2>>) => <<ok, ok2>>[1] /\ <<ok, ok2>>[2]
    <2>1. 1 \in 1..Len(<<ok, ok2>>) /\ 2 \in 1..Len(<<ok, ok2>>)
      BY <1>1
    <2> QED
      BY <2>1 DEF Ok
  <1> QED
    BY <1>1, <1>2

(* A step without allocations.                                             *)
LEMMA NoneOk == <<>> \in Seq(BOOLEAN)
  OBVIOUS

(* A call of the interface's user is counted.                              *)
LEMMA Called ==
  ASSUME DhcpInv, Call
  PROVE  calls' = calls + 1 /\ calls' \in 0..MAX_CALLS /\ calls' \in Nat /\ calls <= calls'
  BY Sizes DEF DhcpInv, Call

(* What the handlers change before they call a function.                   *)
LEMMA FreshWith ==
  ASSUME c \in Client
  PROVE  /\ Like(c, [Fresh EXCEPT !.timer = FALSE])
         /\ Like(c, [Fresh EXCEPT !.tries = 0])
         /\ Like(c, [[Fresh EXCEPT !.tries = 0] EXCEPT !.up = FALSE])
         /\ \A x, y \in Ticks16 :
              /\ Like(c, [Fresh EXCEPT !.t2 = x])
              /\ Like(c, [[Fresh EXCEPT !.t2 = x] EXCEPT !.t1 = y])
  <1>1. /\ Like(c, [Fresh EXCEPT !.timer = FALSE])
        /\ Like(c, [Fresh EXCEPT !.tries = 0])
    BY Sizes DEF Like, Fresh, Client, SameXid, NoRequest
  <1>2. Like(c, [[Fresh EXCEPT !.tries = 0] EXCEPT !.up = FALSE])
    BY Sizes DEF Like, Fresh, Client, SameXid, NoRequest
  <1>3. ASSUME NEW x \in Ticks16, NEW y \in Ticks16
        PROVE  /\ Like(c, [Fresh EXCEPT !.t2 = x])
               /\ Like(c, [[Fresh EXCEPT !.t2 = x] EXCEPT !.t1 = y])
    <2>1. Like(c, [Fresh EXCEPT !.t2 = x])
      BY Sizes DEF Like, Fresh, Client, SameXid, NoRequest
    <2>2. Like(c, [[Fresh EXCEPT !.t2 = x] EXCEPT !.t1 = y])
      BY Sizes DEF Like, Fresh, Client, SameXid, NoRequest
    <2> QED
      BY <2>1, <2>2
  <1> QED
    BY <1>1, <1>2, <1>3, Zenon

-----------------------------------------------------------------------------
(* One lemma for each action.                                              *)
LEMMA StartInv ==
  ASSUME DhcpInv, Start
  PROVE  DhcpInv' /\ Binds
  <1> DEFINE z == Zeroed(Fresh)
             y == [z EXCEPT !.pcb = TRUE]
  <1>1. PICK new \in BOOLEAN, ok \in BOOLEAN :
          Go(IF ~new THEN z ELSE IF ok THEN Discover(y, ok) ELSE Stop(Discover(y, ok)),
             <<new, ok>>)
    BY DEF Start
  <1>2. calls' \in 0..MAX_CALLS /\ calls' \in Nat
    BY Called DEF Start
  <1>3. <<new, ok>> \in Seq(BOOLEAN) /\ (Ok(<<new, ok>>) => new /\ ok)
    BY TwoOk
  <1>4. c \in Client
    BY DEF DhcpInv, Ready
  <1>a. Fresh \in Client /\ Fresh.sent = {} /\ Fresh.xid = c.xid
    BY <1>4 DEF Fresh, Client
  <1>b. /\ z \in Client /\ z.state = "OFF" /\ z.pcb = FALSE /\ z.sent = {} /\ z.xid = c.xid
    <2> DEFINE f == Fresh
    <2> HIDE DEF f
    <2>1. f \in Client /\ f.sent = {} /\ f.xid = c.xid
      BY <1>a DEF f
    <2>2. Zeroed(f) \in Client
      <3> DEFINE g == [f EXCEPT !.state = "OFF", !.tries = 0, !.timer = FALSE,
                        !.t1 = 0, !.t2 = 0]
                 h == [g EXCEPT !.ot0 = 0, !.ot1 = 0, !.ot2 = 0,
                        !.offered = IP_ADDR_ANY]
      <3>1. Zeroed(f) = [h EXCEPT !.server = "nobody", !.pcb = FALSE, !.cxid = 0]
        BY DEF Zeroed
      <3>2. g \in Client
        BY <2>1, Sizes DEF Client, State
      <3> HIDE DEF g
      <3>3. h \in Client
        BY <3>2, Sizes DEF Client
      <3> HIDE DEF h
      <3> QED
        BY <3>1, <3>3, Sizes DEF Client
    <2>3. /\ Zeroed(f).state = "OFF" /\ Zeroed(f).pcb = FALSE /\ Zeroed(f).sent = {}
          /\ Zeroed(f).xid = c.xid
      BY <2>1 DEF Zeroed, Client
    <2> QED
      BY <2>2, <2>3 DEF f
  <1> HIDE DEF z
  <1>c. y \in Client /\ y.state = "OFF" /\ y.pcb = TRUE /\ y.sent = {} /\ y.xid = c.xid
    BY <1>b DEF Client
  <1>5. /\ z \in Client /\ z.state = "OFF" /\ z.pcb = FALSE /\ z.sent = {}
        /\ y \in Client /\ y.state = "OFF" /\ y.pcb = TRUE /\ y.sent = {} /\ y.xid = c.xid
    BY <1>b, <1>c
  <1> HIDE DEF y
  <1>6. Begins(y, Discover(y, ok), "SELECTING", ok) /\ Discover(y, ok).offered = IP_ADDR_ANY
    BY <1>5, DiscoverFields
  <1>7. CASE ~new
    <2>1. Go(z, <<new, ok>>)
      BY <1>1, <1>7
    <2>2. Ready(z)
      BY <1>5 DEF Ready, Requests
    <2> QED
      BY <1>2, <1>3, <1>7, <2>1, <2>2, StepInv
  <1>8. CASE new /\ ~ok
    <2> DEFINE d == Discover(y, ok)
    <2>1. Go(Stop(d), <<new, ok>>)
      BY <1>1, <1>8
    <2>2. d \in Client /\ NoRequest(d)
      BY <1>5, <1>6 DEF Begins, NoRequest
    <2> HIDE DEF d
    <2>3. Ready(Stop(d))
      BY <2>2, StopFields DEF Keeps, Ready, Requests, NoRequest
    <2> QED
      BY <1>2, <1>3, <1>8, <2>1, <2>3, StepInv
  <1>9. CASE new /\ ok
    <2> DEFINE d == Discover(y, ok)
    <2>1. Go(d, <<new, ok>>)
      BY <1>1, <1>9
    <2>2. Begins(y, d, "SELECTING", TRUE) /\ d.offered = IP_ADDR_ANY
      BY <1>6, <1>9
    <2> HIDE DEF d
    <2>3. Ready(d)
      BY <1>5, <2>2, BeginsReady DEF NoRequest
    <2>4. d.xid # c.xid
      <3>1. c.xid \in Xid
        BY <1>4 DEF Client
      <3>2. d.xid = Succ(c.xid)
        BY <1>5, <2>2 DEF Begins
      <3> QED
        BY <3>1, <3>2, SuccOther
    <2>5. Follows(d, calls')
      BY <1>2, <2>2, <2>4, AnewFollows
    <2> QED
      BY <1>2, <1>3, <2>1, <2>3, <2>5, StepInv
  <1> QED
    BY <1>7, <1>8, <1>9

(* dhcp_stop goes off in the same transaction.                             *)
LEMMA StopInv ==
  ASSUME DhcpInv, DhcpStop
  PROVE  DhcpInv' /\ Binds
  <1> DEFINE e == Stop(Fresh)
  <1>1. Go(e, <<>>)
    BY DEF DhcpStop
  <1>2. calls' \in 0..MAX_CALLS /\ calls' \in Nat /\ calls <= calls'
    BY Called DEF DhcpStop
  <1>3. Like(c, Fresh) /\ Fresh.sent = {}
    BY FreshLike DEF DhcpInv, Ready
  <1>4. Keeps(Fresh, e, "OFF")
    BY <1>3, StopFields DEF Like
  <1> HIDE DEF e
  <1>5. e \in Client /\ e.state = "OFF" /\ SameXid(c, e) /\ e.offered = c.offered
    BY <1>3, <1>4 DEF Keeps, Like, SameXid
  <1>6. Ready(e)
    BY <1>3, <1>4 DEF Keeps, Ready, Requests
  <1>7. Running(c, replies, acked, calls) => Follows(e, calls')
    BY <1>2, <1>5, KeepsFollows
  <1> QED
    BY <1>1, <1>2, <1>6, <1>7, NoneOk, StepInv

(* dhcp_release takes a new id, or sends the RELEASE again.                *)
LEMMA ReleaseInv ==
  ASSUME DhcpInv, DhcpRelease
  PROVE  DhcpInv' /\ Binds
  <1>1. PICK ok \in BOOLEAN : Go(Release(Fresh, ok), <<ok>>)
    BY DEF DhcpRelease
  <1> DEFINE e == Release(Fresh, ok)
  <1>2. calls' \in 0..MAX_CALLS /\ calls' \in Nat /\ calls <= calls'
    BY Called DEF DhcpRelease
  <1>3. Like(c, Fresh)
    BY FreshLike DEF DhcpInv, Ready
  <1>4. Begins(Fresh, e, "OFF", ok)
    BY <1>3, ReleaseFields DEF Like
  <1> HIDE DEF e
  <1>5. Ready(e) /\ (ok /\ Running(c, replies, acked, calls) => Follows(e, calls'))
    BY <1>2, <1>3, <1>4, BeginsFollows
  <1>6. Go(e, <<ok>>)
    BY <1>1 DEF e
  <1> QED
    BY <1>2, <1>5, <1>6, OneOk, StepInv

(* dhcp_renew asks for the address it has.                                 *)
LEMMA RenewInv ==
  ASSUME DhcpInv, DhcpRenew
  PROVE  DhcpInv' /\ Binds
  <1>1. PICK ok \in BOOLEAN : Go(Renew(Fresh, ok), <<ok>>)
    BY DEF DhcpRenew
  <1> DEFINE e == Renew(Fresh, ok)
  <1>2. calls' \in 0..MAX_CALLS /\ calls' \in Nat /\ calls <= calls'
    BY Called DEF DhcpRenew
  <1>3. Like(c, Fresh)
    BY FreshLike DEF DhcpInv, Ready
  <1>4. AsksFor(Fresh, e, "RENEWING")
    BY <1>3, SelectFields DEF Like
  <1> HIDE DEF e
  <1>5. c.state \notin {"OFF", "BACKING_OFF"}
    BY DEF DhcpRenew
  <1>6. Ready(e) /\ (Running(c, replies, acked, calls) => Follows(e, calls'))
    BY <1>2, <1>3, <1>4, <1>5, AsksFollows
  <1>7. Go(e, <<ok>>)
    BY <1>1 DEF e
  <1> QED
    BY <1>2, <1>6, <1>7, OneOk, StepInv

(* dhcp_inform takes an id from under the client.                          *)
LEMMA InformInv ==
  ASSUME DhcpInv, Inform
  PROVE  DhcpInv' /\ Binds
  <1> DEFINE y == [Fresh EXCEPT !.tries = 0, !.offered = IP_ADDR_ANY]
             d == Send(y, "INFORM", "all", TRUE)
             e == [Fresh EXCEPT !.xid = d.xid, !.sent = d.sent]
  <1>1. Go(e, <<>>)
    BY DEF Inform
  <1>2. calls' \in 0..MAX_CALLS /\ calls' = calls + 1
    BY Called DEF Inform
  <1>3. c \in Client /\ calls \in 0..MAX_CALLS
    BY DEF DhcpInv, Ready
  <1>4. /\ y \in Client /\ y.tries = 0 /\ y.xid = c.xid /\ y.sent = {}
        /\ Fresh \in Client /\ Fresh.state = c.state /\ Fresh.cxid = c.cxid
        /\ Fresh.offered = c.offered /\ Fresh.pcb = c.pcb /\ Fresh.timer = c.timer
        /\ Fresh.ip = c.ip
    BY <1>3, Sizes DEF Fresh, Client
  <1> HIDE DEF y
  <1>5. /\ d \in Client /\ d.xid = Succ(c.xid)
        /\ \A m \in d.sent : m.type = "INFORM"
    <2>1. Sends(y, d, "INFORM", TRUE)
      BY <1>4, SendFields DEF Type, Dst
    <2> QED
      BY <1>4, <2>1 DEF Sends
  <1> HIDE DEF d
  <1>6. d.xid \in Xid /\ d.sent \subseteq Message
    BY <1>5 DEF Client
  <1> DEFINE f == Fresh
             x == d.xid
             ms == d.sent
  <1>7. e = [f EXCEPT !.xid = x, !.sent = ms]
    OBVIOUS
  <1> HIDE DEF e, f, x, ms
  <1>8. f \in Client /\ x \in Xid /\ ms \subseteq Message
    BY <1>4, <1>6 DEF f, x, ms
  <1>9. /\ e \in Client /\ e.state = f.state /\ e.cxid = f.cxid /\ e.offered = f.offered
        /\ e.pcb = f.pcb /\ e.timer = f.timer /\ e.xid = x /\ e.sent = ms
    BY <1>7, <1>8 DEF Client
  <1>10. /\ e \in Client /\ e.state = c.state /\ e.cxid = c.cxid /\ e.offered = c.offered
         /\ e.pcb = c.pcb /\ e.timer = c.timer /\ e.xid = Succ(c.xid)
         /\ \A m \in e.sent : m.type = "INFORM"
    BY <1>4, <1>5, <1>9 DEF f, x, ms
  <1>11. Ready(e)
    BY <1>10 DEF DhcpInv, Ready, Requests
  <1>12. ASSUME Running(c, replies, acked, calls)
         PROVE  Follows(e, calls')
    <2>1. calls \in Nat /\ calls + 1 < XIDS
      BY <1>2, <1>3, Sizes
    <2>2. Running(e, Rest(replies, c, e), RestAcked(acked, c, e), calls + 1)
      BY <1>3, <1>10, <1>12, <2>1, InformRuns
    <2> QED
      BY <1>2, <1>10, <2>2 DEF Follows
  <1> QED
    BY <1>1, <1>2, <1>11, <1>12, NoneOk, StepInv

(* A step after which the client is as it was, but for a timer.            *)
LEMMA IdleFollows ==
  ASSUME DhcpInv, NEW e \in Client, SameXid(c, e), e.offered = c.offered,
         e.state = c.state, NEW n \in Nat, calls <= n
  PROVE  Running(c, replies, acked, calls) => Follows(e, n)
  BY KeepsFollows DEF DhcpInv, Ready, Client

(* dhcp_network_changed asks for the old address or begins anew.           *)
LEMMA NetworkChangedInv ==
  ASSUME DhcpInv, NetworkChanged
  PROVE  DhcpInv' /\ Binds
  <1> DEFINE z == [Fresh EXCEPT !.tries = 0]
             y == [z EXCEPT !.up = FALSE]
  <1>1. calls' \in 0..MAX_CALLS /\ calls' \in Nat /\ calls <= calls'
    BY Called DEF NetworkChanged, NetworkChangedIn
  <1>2. c \in Client
    BY DEF DhcpInv, Ready
  <1>3. Like(c, z) /\ Like(c, y)
    BY <1>2, FreshWith, Zenon
  <1>4. PICK ok \in BOOLEAN :
          CASE c.state \in {"REBINDING", "RENEWING", "BOUND", "REBOOTING"} ->
                  Go(Reboot(y, ok), <<ok>>)
            [] c.state \in {"OFF"} -> Go(c, <<>>)
            [] OTHER -> Go(Discover(z, ok), <<ok>>)
    BY DEF NetworkChanged, NetworkChangedIn
  <1> HIDE DEF z, y
  <1>5. CASE c.state \in {"REBINDING", "RENEWING", "BOUND", "REBOOTING"}
    <2> DEFINE e == Reboot(y, ok)
    <2>1. Go(e, <<ok>>)
      BY <1>4, <1>5
    <2>2. AsksFor(y, e, "REBOOTING")
      BY <1>3, SelectFields DEF Like
    <2> HIDE DEF e
    <2>3. c.state \notin {"OFF", "BACKING_OFF"}
      BY <1>5
    <2>4. Ready(e) /\ (Running(c, replies, acked, calls) => Follows(e, calls'))
      BY <1>1, <1>3, <2>2, <2>3, AsksFollows
    <2> QED
      BY <1>1, <2>1, <2>4, OneOk, StepInv
  <1>6. CASE c.state = "OFF"
    <2>1. Go(c, <<>>)
      BY <1>4, <1>6
    <2>2. Ready(c)
      BY DEF DhcpInv
    <2>3. Running(c, replies, acked, calls) => Follows(c, calls')
      BY <1>1, <1>2, IdleFollows DEF SameXid
    <2> QED
      BY <1>1, <2>1, <2>2, <2>3, NoneOk, StepInv
  <1>7. CASE c.state \notin {"REBINDING", "RENEWING", "BOUND", "REBOOTING", "OFF"}
    <2> DEFINE e == Discover(z, ok)
    <2>1. Go(e, <<ok>>)
      BY <1>4, <1>7
    <2>2. Begins(z, e, "SELECTING", ok) /\ e.offered = IP_ADDR_ANY
      BY <1>3, DiscoverFields DEF Like
    <2> HIDE DEF e
    <2>3. Ready(e) /\ (ok /\ Running(c, replies, acked, calls) => Follows(e, calls'))
      BY <1>1, <1>3, <1>7, <2>2, BeginsFollows
    <2> QED
      BY <1>1, <2>1, <2>3, OneOk, StepInv
  <1> QED
    BY <1>5, <1>6, <1>7

(* dhcp_arp_reply declines the address that somebody else has.             *)
LEMMA ArpReplyInv ==
  ASSUME DhcpInv, ArpReply
  PROVE  DhcpInv' /\ Binds
  <1>1. PICK ok \in BOOLEAN : Go(Decline(Fresh, ok), <<ok>>)
    BY DEF ArpReply
  <1> DEFINE e == Decline(Fresh, ok)
  <1>2. calls' \in 0..MAX_CALLS /\ calls' \in Nat /\ calls <= calls'
    BY Sizes DEF ArpReply, DhcpInv
  <1>3. Like(c, Fresh)
    BY FreshLike DEF DhcpInv, Ready
  <1>4. Begins(Fresh, e, "BACKING_OFF", ok)
    BY <1>3, DeclineFields DEF Like
  <1>5. Go(e, <<ok>>)
    BY <1>1
  <1> HIDE DEF e
  <1>6. c.state = "CHECKING"
    BY DEF ArpReply
  <1>7. Ready(e) /\ (ok /\ Running(c, replies, acked, calls) => Follows(e, calls'))
    BY <1>2, <1>3, <1>4, <1>6, BeginsFollows
  <1> QED
    BY <1>2, <1>5, <1>7, OneOk, StepInv

(* A timer that is decremented at zero wraps round.                        *)
LEMMA DecTicks ==
  ASSUME NEW t \in Ticks16
  PROVE  (t - 1) % COARSE \in Ticks16
  <1>1. t \in Int /\ COARSE \in Nat /\ COARSE > 0 /\ t - 1 \in Int
    BY Sizes DEF Ticks16
  <1>2. \A i \in Int : i % COARSE \in 0..COARSE-1
    BY <1>1
  <1> QED
    BY <1>1, <1>2 DEF Ticks16

(* dhcp_coarse_tmr: T2, T1 or neither has run down.                        *)
LEMMA CoarseTmrInv ==
  ASSUME DhcpInv, CoarseTmr
  PROVE  DhcpInv' /\ Binds
  <1> DEFINE t2 == (c.t2 - 1) % COARSE
             t1 == (c.t1 - 1) % COARSE
             d2 == [Fresh EXCEPT !.t2 = t2]
             d1 == [d2 EXCEPT !.t1 = t1]
             e == [d1 EXCEPT !.sent = c.sent]
  <1>1. calls' = calls /\ calls' \in 0..MAX_CALLS /\ calls' \in Nat /\ calls <= calls'
    BY Sizes DEF CoarseTmr, DhcpInv
  <1>2. c \in Client
    BY DEF DhcpInv, Ready
  <1>3. t1 \in Ticks16 /\ t2 \in Ticks16
    BY <1>2, DecTicks DEF Client
  <1>4. Fresh.t2 = c.t2 /\ Fresh.t1 = c.t1
    BY <1>2 DEF Fresh, Client
  <1>5. PICK ok \in BOOLEAN :
          IF c.t2 = 1 THEN Go(T2Timeout(d2, ok), <<ok>>)
          ELSE IF c.t1 = 1 THEN Go(T1Timeout(d1, ok), <<ok>>)
          ELSE Go(e, <<>>)
    <2>1. [Fresh EXCEPT !.t2 = (Fresh.t2 - 1) % COARSE] = d2
      BY <1>4
    <2>2. d2.t1 = c.t1
      BY <1>2, <1>4 DEF Fresh, Client
    <2> QED
      BY <2>1, <2>2 DEF CoarseTmr
  <1> HIDE DEF t1, t2
  <1>6. Like(c, d2) /\ Like(c, d1)
    BY <1>2, <1>3, FreshWith, Zenon
  <1>7. d2.timer = c.timer /\ d1.timer = c.timer
    BY <1>2 DEF Fresh, Client
  <1>8. c.sent \subseteq Message
    BY <1>2 DEF Client
  <1> HIDE DEF d2, d1
  <1>9. CASE c.t2 = 1
    <2> DEFINE f == T2Timeout(d2, ok)
    <2>1. Go(f, <<ok>>)
      BY <1>5, <1>9
    <2>2. f = IF c.state \in {"REQUESTING", "BOUND", "RENEWING"} THEN Rebind(d2, ok) ELSE d2
      BY <1>6 DEF T2Timeout, T2TimeoutIn, Like
    <2> HIDE DEF f
    <2>3. Ready(f) /\ (Running(c, replies, acked, calls) => Follows(f, calls'))
      <3>1. CASE c.state \in {"REQUESTING", "BOUND", "RENEWING"}
        <4>1. AsksFor(d2, f, "REBINDING")
          BY <1>6, <2>2, <3>1, SelectFields DEF Like
        <4> QED
          BY <1>1, <1>6, <3>1, <4>1, AsksFollows
      <3>2. CASE c.state \notin {"REQUESTING", "BOUND", "RENEWING"}
        <4>1. f = d2
          BY <2>2, <3>2
        <4>2. Ready(f)
          BY <1>6, <1>7, <4>1 DEF Like, Ready, DhcpInv, NoRequest, Requests
        <4>3. f \in Client /\ SameXid(c, f) /\ f.offered = c.offered /\ f.state = c.state
          BY <1>6, <4>1 DEF Like
        <4> QED
          BY <1>1, <4>2, <4>3, IdleFollows
      <3> QED
        BY <3>1, <3>2
    <2> QED
      BY <1>1, <2>1, <2>3, OneOk, StepInv
  <1>10. CASE c.t2 # 1 /\ c.t1 = 1
    <2> DEFINE f == T1Timeout(d1, ok)
    <2>1. Go(f, <<ok>>)
      BY <1>5, <1>10
    <2>2. f = IF c.state \in {"REQUESTING", "BOUND", "RENEWING"} THEN Renew(d1, ok) ELSE d1
      BY <1>6 DEF T1Timeout, Like
    <2> HIDE DEF f
    <2>3. Ready(f) /\ (Running(c, replies, acked, calls) => Follows(f, calls'))
      <3>1. CASE c.state \in {"REQUESTING", "BOUND", "RENEWING"}
        <4>1. AsksFor(d1, f, "RENEWING")
          BY <1>6, <2>2, <3>1, SelectFields DEF Like
        <4> QED
          BY <1>1, <1>6, <3>1, <4>1, AsksFollows
      <3>2. CASE c.state \notin {"REQUESTING", "BOUND", "RENEWING"}
        <4>1. f = d1
          BY <2>2, <3>2
        <4>2. Ready(f)
          BY <1>6, <1>7, <4>1 DEF Like, Ready, DhcpInv, NoRequest, Requests
        <4>3. f \in Client /\ SameXid(c, f) /\ f.offered = c.offered /\ f.state = c.state
          BY <1>6, <4>1 DEF Like
        <4> QED
          BY <1>1, <4>2, <4>3, IdleFollows
      <3> QED
        BY <3>1, <3>2
    <2> QED
      BY <1>1, <2>1, <2>3, OneOk, StepInv
  <1>11. CASE c.t2 # 1 /\ c.t1 # 1
    <2>1. Go(e, <<>>)
      BY <1>5, <1>11
    <2> DEFINE ms == c.sent
    <2>2. e = [d1 EXCEPT !.sent = ms] /\ ms \subseteq Message /\ d1 \in Client
      BY <1>6, <1>8 DEF Like
    <2> HIDE DEF e, ms
    <2>3. /\ e \in Client /\ e.sent = ms /\ e.state = d1.state /\ SameXid(d1, e)
          /\ e.offered = d1.offered /\ e.pcb = d1.pcb /\ e.timer = d1.timer
      BY <2>2 DEF Client, SameXid
    <2>4. /\ e \in Client /\ e.sent = c.sent /\ e.state = c.state /\ SameXid(c, e)
          /\ e.offered = c.offered /\ e.pcb = c.pcb /\ e.timer = c.timer
      BY <1>6, <1>7, <2>3 DEF Like, SameXid, ms
    <2>5. Ready(e)
      BY <2>4 DEF Ready, DhcpInv, Requests, SameXid
    <2>6. Running(c, replies, acked, calls) => Follows(e, calls')
      BY <1>1, <2>4, IdleFollows
    <2> QED
      BY <1>1, <2>1, <2>5, <2>6, NoneOk, StepInv
  <1> QED
    BY <1>9, <1>10, <1>11

(* Two transactions at once, when it gives up its address.                 *)
LEMMA RestartFollows ==
  ASSUME DhcpInv, NEW z, Like(c, z), NEW ok \in BOOLEAN, NEW ok2 \in BOOLEAN,
         c.state # "OFF", NEW n \in Nat
  PROVE  LET e == Discover(Release(z, ok), ok2)
         IN  Ready(e) /\ (ok /\ ok2 => Follows(e, n))
  <1> DEFINE r == Release(z, ok)
             e == Discover(r, ok2)
  <1>0. e = Discover(Release(z, ok), ok2)
    OBVIOUS
  <1>1. Begins(z, r, "OFF", ok)
    BY ReleaseFields DEF Like
  <1> HIDE DEF r
  <1>2. Begins(r, e, "SELECTING", ok2) /\ e.offered = IP_ADDR_ANY
    BY <1>1, DiscoverFields DEF Begins
  <1> HIDE DEF e
  <1>3. r.pcb = c.pcb /\ c.pcb
    BY <1>1 DEF Begins, Like, DhcpInv, Ready
  <1>4. NoRequest(r)
    BY <1>1 DEF Begins, Like
  <1>5. Ready(e)
    BY <1>2, <1>3, <1>4, BeginsReady
  <1>6. ASSUME ok, ok2
        PROVE  Follows(e, n)
    <2>1. c.xid \in Xid
      BY DEF DhcpInv, Ready, Client
    <2>2. r.xid = Succ(c.xid) /\ r.state = "OFF"
      BY <1>1, <1>6 DEF Begins, Like, SameXid
    <2>3. e.xid = Succ(r.xid)
      BY <1>2, <1>6, <2>2 DEF Begins
    <2>4. e.xid # c.xid
      BY <2>1, <2>2, <2>3, SuccOther
    <2>5. Begins(r, e, "SELECTING", TRUE)
      BY <1>2, <1>6
    <2> QED
      BY <1>2, <2>4, <2>5, AnewFollows
  <1>7. Ready(e) /\ (ok /\ ok2 => Follows(e, n))
    BY <1>5, <1>6
  <1> QED
    BY <1>0, <1>7

(* What dhcp_timeout leaves.                                               *)
LEMMA TimeoutFollows ==
  ASSUME DhcpInv, NEW ok \in BOOLEAN, NEW ok2 \in BOOLEAN
  PROVE  LET e == Timeout([Fresh EXCEPT !.timer = FALSE], ok, ok2)
         IN  /\ Ready(e)
             /\ ok /\ ok2 /\ Running(c, replies, acked, calls) => Follows(e, calls)
  <1> DEFINE z == [Fresh EXCEPT !.timer = FALSE]
             e == Timeout(z, ok, ok2)
             Good == /\ Ready(e)
                     /\ ok /\ ok2 /\ Running(c, replies, acked, calls) => Follows(e, calls)
  <1> SUFFICES Good
    OBVIOUS
  <1>1. c \in Client /\ c.state \in State /\ calls \in Nat /\ calls <= calls
    BY Sizes DEF DhcpInv, Ready, Client
  <1>2. Like(c, z) /\ z.state = c.state /\ z \in Client
    BY <1>1, FreshWith, Zenon DEF Like
  <1>3. z.sent = {}
    BY <1>1 DEF Fresh, Client
  <1> HIDE DEF z, e
  <1>4. CASE c.state \in {"BACKING_OFF", "SELECTING"}
    <2>1. e = Discover(z, ok)
      BY <1>2, <1>4 DEF Timeout, e
    <2>2. Begins(z, e, "SELECTING", ok) /\ e.offered = IP_ADDR_ANY
      BY <1>2, <2>1, DiscoverFields
    <2> QED
      BY <1>1, <1>2, <1>4, <2>2, BeginsFollows
  <1>5. ASSUME NEW s \in {"REQUESTING", "RENEWING", "REBINDING", "REBOOTING"},
               c.state = s, AsksFor(z, e, s)
        PROVE  Good
    <2>1. Ready(e) /\ (Running(c, replies, acked, calls) => Follows(e, calls))
      BY <1>1, <1>2, <1>5, AsksFollows
    <2> QED
      BY <2>1
  <1>6. ASSUME e = Discover(Release(z, ok), ok2), c.state # "OFF"
        PROVE  Good
    BY <1>1, <1>2, <1>6, RestartFollows
  <1>7. CASE c.state = "REQUESTING"
    <2>1. e = Select(z, ok) \/ e = Discover(Release(z, ok), ok2)
      BY <1>2, <1>7 DEF Timeout, e
    <2>2. AsksFor(z, Select(z, ok), "REQUESTING")
      BY <1>2, SelectFields
    <2> QED
      BY <1>5, <1>6, <1>7, <2>1, <2>2
  <1>8. CASE c.state = "CHECKING"
    <2>1. e = Check(z) \/ e = Bind(z)
      BY <1>2, <1>8 DEF Timeout, e
    <2>2. CASE e = Check(z)
      <3>1. Keeps(z, e, "CHECKING") /\ e.timer = TRUE /\ e.pcb = z.pcb
        BY <1>2, <2>2, CheckFields
      <3>2. e \in Client /\ SameXid(c, e) /\ e.offered = c.offered /\ e.state = c.state
        BY <1>2, <1>8, <3>1 DEF Keeps, Like, SameXid
      <3>3. Ready(e)
        BY <1>2, <1>3, <1>8, <3>1 DEF Keeps, Like, Ready, DhcpInv, Requests
      <3>4. Running(c, replies, acked, calls) => Follows(e, calls)
        BY <1>1, <3>2, IdleFollows
      <3> QED
        BY <3>3, <3>4
    <2>3. CASE e = Bind(z)
      <3>1. Keeps(z, e, "BOUND") /\ e.ip = z.offered /\ e.pcb = z.pcb
        BY <1>2, <2>3, BindFields
      <3>2. /\ e \in Client /\ SameXid(c, e) /\ e.offered = c.offered /\ e.state = "BOUND"
            /\ e.ip = c.offered
        BY <1>2, <3>1 DEF Keeps, Like, SameXid
      <3>3. Ready(e)
        BY <1>2, <1>3, <1>8, <3>1 DEF Keeps, Like, Ready, DhcpInv, Requests
      <3>4. ASSUME Running(c, replies, acked, calls)
            PROVE  Follows(e, calls)
        <4>1. Running(e, Rest(replies, c, e), RestAcked(acked, c, e), calls)
          BY <1>1, <1>8, <3>2, <3>4, SameRuns
        <4>2. <<e.cxid, e.ip>> \in acked
          BY <1>8, <3>2, <3>4 DEF Running, SameXid
        <4> QED
          BY <4>1, <4>2 DEF Follows
      <3> QED
        BY <3>3, <3>4
    <2> QED
      BY <2>1, <2>2, <2>3
  <1>9. CASE c.state = "RENEWING"
    <2>1. e = Renew(z, ok)
      BY <1>2, <1>9 DEF Timeout, e
    <2>2. AsksFor(z, Renew(z, ok), "RENEWING")
      BY <1>2, SelectFields
    <2> QED
      BY <1>5, <1>9, <2>1, <2>2
  <1>10. CASE c.state = "REBINDING"
    <2>1. e = Rebind(z, ok) \/ e = Discover(Release(z, ok), ok2)
      BY <1>2, <1>10 DEF Timeout, e
    <2>2. AsksFor(z, Rebind(z, ok), "REBINDING")
      BY <1>2, SelectFields
    <2> QED
      BY <1>5, <1>6, <1>10, <2>1, <2>2
  <1>11. CASE c.state = "REBOOTING"
    <2>1. e = Reboot(z, ok) \/ e = Discover(z, ok)
      BY <1>2, <1>11 DEF Timeout, e
    <2>2. AsksFor(z, Reboot(z, ok), "REBOOTING")
      BY <1>2, SelectFields
    <2>3. CASE e = Discover(z, ok)
      <3>1. Begins(z, e, "SELECTING", ok) /\ e.offered = IP_ADDR_ANY
        BY <1>2, <2>3, DiscoverFields
      <3> QED
        BY <1>1, <1>2, <1>11, <3>1, BeginsFollows
    <2> QED
      BY <1>5, <1>11, <2>1, <2>2, <2>3
  <1>12. CASE c.state \in {"OFF", "BOUND"}
    <2>1. e = z
      BY <1>2, <1>12 DEF Timeout, e
    <2>2. e \in Client /\ SameXid(c, e) /\ e.offered = c.offered /\ e.state = c.state
      BY <1>2, <2>1 DEF Like
    <2>3. Ready(e)
      BY <1>2, <1>3, <1>12, <2>1 DEF Like, Ready, DhcpInv, Requests
    <2>4. Running(c, replies, acked, calls) => Follows(e, calls)
      BY <1>1, <2>2, IdleFollows
    <2> QED
      BY <2>3, <2>4
  <1> QED
    BY <1>1, <1>4, <1>7, <1>8, <1>9, <1>10, <1>11, <1>12 DEF State

(* dhcp_fine_tmr.                                                          *)
LEMMA FineTmrInv ==
  ASSUME DhcpInv, FineTmr
  PROVE  DhcpInv' /\ Binds
  <1>1. PICK ok \in BOOLEAN, ok2 \in BOOLEAN :
          Go(Timeout([Fresh EXCEPT !.timer = FALSE], ok, ok2), <<ok, ok2>>)
    BY DEF FineTmr
  <1> DEFINE e == Timeout([Fresh EXCEPT !.timer = FALSE], ok, ok2)
  <1>2. calls' = calls /\ calls' \in 0..MAX_CALLS
    BY DEF FineTmr, DhcpInv
  <1>3. Go(e, <<ok, ok2>>)
    BY <1>1
  <1>4. Ready(e) /\ (ok /\ ok2 /\ Running(c, replies, acked, calls) => Follows(e, calls))
    BY TimeoutFollows
  <1> HIDE DEF e
  <1> QED
    BY <1>2, <1>3, <1>4, TwoOk, StepInv

(* What dhcp_recv leaves.                                                  *)
LEMMA HandledFollows ==
  ASSUME DhcpInv, NEW m \in replies, NEW ok \in BOOLEAN, Matches(m)
  PROVE  LET e == Handled(m, ok)
         IN  /\ Ready(e)
             /\ ok /\ Running(c, replies, acked, calls) => Follows(e, calls)
  <1> DEFINE e == Handled(m, ok)
             Good == /\ Ready(e)
                     /\ ok /\ Running(c, replies, acked, calls) => Follows(e, calls)
  <1> SUFFICES Good
    OBVIOUS
  <1>1. c \in Client /\ c.state \in State /\ calls \in Nat /\ calls <= calls
    BY Sizes DEF DhcpInv, Ready, Client
  <1>2. c.pcb /\ m.xid = c.cxid /\ Sound(m)
    BY DEF Matches, DhcpInv
  <1>3. Like(c, Fresh) /\ Fresh.sent = {} /\ Fresh.timer = c.timer /\ Fresh \in Client
    BY <1>1, FreshLike DEF Like
  <1>4. CASE m.type = "ACK" /\ c.state = "REQUESTING"
    <2> DEFINE a == HandleAck(Fresh, m)
    <2>1. e = Check(a)
      BY <1>4 DEF Handled, HandledAs
    <2>2. a \in Client /\ SameXid(c, a) /\ a.sent = {} /\ a.offered = m.ip /\ a.pcb = c.pcb
      BY <1>2, <1>3, <1>4, HandleAckFields DEF Like, SameXid
    <2> HIDE DEF a, e
    <2>3. Keeps(a, e, "CHECKING") /\ e.timer = TRUE /\ e.pcb = a.pcb
      BY <2>1, <2>2, CheckFields
    <2>4. /\ e \in Client /\ e.state = "CHECKING" /\ SameXid(c, e) /\ e.offered = m.ip
          /\ e.sent = {} /\ e.timer = TRUE /\ e.pcb = c.pcb
      BY <2>2, <2>3 DEF Keeps, SameXid
    <2>5. Ready(e)
      BY <1>2, <2>4 DEF Ready, Requests
    <2>6. ASSUME Running(c, replies, acked, calls)
          PROVE  Follows(e, calls)
      <3>1. Recorded(replies, acked)
        BY DEF DhcpInv
      <3>2. Running(e, Rest(replies, c, e), RestAcked(acked, c, e), calls)
        BY <1>1, <1>2, <1>4, <2>4, <2>6, <3>1, AckRuns
      <3> QED
        BY <2>4, <3>2 DEF Follows
    <2> QED
      BY <2>5, <2>6
  <1>5. CASE m.type = "ACK" /\ c.state \in {"REBOOTING", "REBINDING", "RENEWING"}
    <2>1. e = Bind(Fresh)
      BY <1>5 DEF Handled, HandledAs
    <2> HIDE DEF e
    <2>2. Keeps(Fresh, e, "BOUND") /\ e.ip = Fresh.offered /\ e.pcb = Fresh.pcb
      BY <1>3, <2>1, BindFields
    <2>3. /\ e \in Client /\ e.state = "BOUND" /\ SameXid(c, e) /\ e.offered = c.offered
          /\ e.sent = {} /\ e.ip = c.offered /\ e.pcb = c.pcb
      BY <1>3, <2>2 DEF Keeps, Like, SameXid
    <2>4. Ready(e)
      BY <1>2, <2>3 DEF Ready, Requests
    <2>5. ASSUME Running(c, replies, acked, calls)
          PROVE  Follows(e, calls)
      <3>1. Running(e, Rest(replies, c, e), RestAcked(acked, c, e), calls)
        BY <1>1, <1>5, <2>3, <2>5, SameRuns
      <3>2. m.ip = c.offered /\ <<m.xid, m.ip>> \in acked
        BY <1>2, <1>5, <2>5 DEF Running, DhcpInv, Recorded
      <3>3. <<e.cxid, e.ip>> = <<m.xid, m.ip>>
        BY <1>2, <2>3, <3>2 DEF SameXid
      <3> QED
        BY <3>1, <3>2, <3>3 DEF Follows
    <2> QED
      BY <2>4, <2>5
  <1>6. CASE /\ m.type = "NAK"
             /\ c.state \in {"REBOOTING", "REQUESTING", "REBINDING", "RENEWING"}
    <2> DEFINE f == [Fresh EXCEPT !.up = FALSE, !.ip = IP_ADDR_ANY]
               a == SetState(f, "BACKING_OFF")
    <2>1. e = Discover(a, ok)
      BY <1>6 DEF Handled, HandledAs, HandleNak
    <2>2. f \in Client /\ SameXid(c, f) /\ f.sent = {} /\ f.pcb = c.pcb
      BY <1>1, Sizes DEF Fresh, Client, SameXid
    <2> HIDE DEF f
    <2>3. a \in Client /\ a.state = "BACKING_OFF" /\ SameXid(c, a) /\ a.sent = {}
          /\ a.pcb = c.pcb
      BY <2>2, SetStateFields DEF State, SameXid
    <2> HIDE DEF a, e
    <2>4. Begins(a, e, "SELECTING", ok) /\ e.offered = IP_ADDR_ANY
      BY <2>1, <2>3, DiscoverFields
    <2>5. Ready(e)
      BY <1>2, <2>3, <2>4, BeginsReady DEF NoRequest
    <2>6. ASSUME ok
          PROVE  Follows(e, calls)
      <3>1. Begins(a, e, "SELECTING", TRUE)
        BY <2>4, <2>6
      <3>2. c.xid \in Xid /\ e.xid = Succ(c.xid)
        BY <1>1, <2>3, <3>1 DEF Begins, SameXid, Client
      <3> QED
        BY <1>1, <2>4, <3>1, <3>2, SuccOther, AnewFollows
    <2> QED
      BY <2>5, <2>6
  <1>7. CASE m.type = "OFFER" /\ c.state = "SELECTING"
    <2> DEFINE z == [Fresh EXCEPT !.timer = FALSE]
               ip == m.ip
               y == [z EXCEPT !.server = "server", !.offered = ip]
    <2>1. e = IF m.sid THEN Select(y, ok) ELSE z
      BY <1>7 DEF Handled, HandledAs, HandleOffer
    <2>2. Like(c, z) /\ z.sent = {}
      <3>1. Like(c, z)
        BY <1>1, FreshWith, Zenon
      <3>2. z.sent = {}
        BY <1>1 DEF Fresh, Client
      <3> QED
        BY <3>1, <3>2
    <2> HIDE DEF e, z
    <2>3. CASE m.sid
      <3>1. ip \in Addr
        BY <1>2 DEF Sound, ReplyType
      <3> HIDE DEF ip
      <3>2. y \in Client /\ SameXid(c, y) /\ y.sent = {} /\ y.pcb = c.pcb
        BY <2>2, <3>1 DEF Like, Client, SameXid
      <3> HIDE DEF y
      <3>3. AsksFor(y, e, "REQUESTING")
        BY <2>1, <2>3, <3>2, SelectFields
      <3>4. /\ e \in Client /\ e.state = "REQUESTING" /\ SameXid(c, e) /\ e.pcb = c.pcb
            /\ e.timer = TRUE /\ Requests(e)
        BY <3>2, <3>3 DEF AsksFor, SameXid, NoRequest
      <3>5. Ready(e)
        BY <1>2, <3>4 DEF Ready
      <3>6. ASSUME Running(c, replies, acked, calls)
            PROVE  Follows(e, calls)
        <4>1. Running(e, Rest(replies, c, e), RestAcked(acked, c, e), calls)
          BY <1>1, <1>7, <3>4, <3>6, OfferRuns DEF DhcpInv
        <4> QED
          BY <3>4, <4>1 DEF Follows
      <3> QED
        BY <3>5, <3>6
    <2>4. CASE ~m.sid
      <3>1. e = z /\ BAD_OFFERS
        BY <1>2, <2>1, <2>4 DEF Sound
      <3>2. /\ e \in Client /\ SameXid(c, e) /\ e.offered = c.offered /\ e.state = c.state
            /\ e.pcb = c.pcb
        BY <2>2, <3>1 DEF Like
      <3>3. Ready(e)
        BY <1>2, <2>2, <3>1, <3>2 DEF Ready, Requests
      <3>4. Running(c, replies, acked, calls) => Follows(e, calls)
        BY <1>1, <3>2, IdleFollows
      <3> QED
        BY <3>3, <3>4
    <2> QED
      BY <2>3, <2>4
  <1>8. CASE e = c
    <2> HIDE DEF e
    <2>1. Ready(e)
      BY <1>8 DEF DhcpInv
    <2>2. Running(c, replies, acked, calls) => Follows(e, calls)
      BY <1>1, <1>8, IdleFollows DEF SameXid
    <2> QED
      BY <2>1, <2>2
  <1>9. \/ m.type = "ACK" /\ c.state = "REQUESTING"
        \/ m.type = "ACK" /\ c.state \in {"REBOOTING", "REBINDING", "RENEWING"}
        \/ m.type = "NAK" /\ c.state \in {"REBOOTING", "REQUESTING", "REBINDING", "RENEWING"}
        \/ m.type = "OFFER" /\ c.state = "SELECTING"
        \/ e = c
    BY DEF Handled, HandledAs
  <1> HIDE DEF e
  <1> QED
    BY <1>4, <1>5, <1>6, <1>7, <1>8, <1>9

(* dhcp_recv.                                                              *)
LEMMA RecvInv ==
  ASSUME DhcpInv, Recv
  PROVE  DhcpInv' /\ Binds
  <1>1. PICK m \in replies, ok \in BOOLEAN : Matches(m) /\ Go(Handled(m, ok), <<ok>>)
    BY DEF Recv
  <1> DEFINE e == Handled(m, ok)
  <1>2. calls' = calls /\ calls' \in 0..MAX_CALLS
    BY DEF Recv, DhcpInv
  <1>3. Go(e, <<ok>>)
    BY <1>1
  <1>4. Ready(e) /\ (ok /\ Running(c, replies, acked, calls) => Follows(e, calls))
    BY <1>1, HandledFollows
  <1> HIDE DEF e
  <1> QED
    BY <1>2, <1>3, <1>4, OneOk, StepInv

(* A step of the network or the server: a reply r comes or others go.      *)
LEMMA ReplyInv ==
  ASSUME DhcpInv, UNCHANGED <<c, calls, fails>>, NEW r,
         replies' \subseteq replies \cup {r}, r \in replies' => Sound(r),
         r \in replies' /\ r.type = "ACK" =>
           \/ r \in replies
           \/ r.xid = c.cxid /\ r.ip = c.offered /\ <<r.xid, r.ip>> \in acked',
         acked \subseteq acked', acked' \subseteq Xid \X IPS
  PROVE  DhcpInv' /\ Binds
  <1>1. c' = c /\ calls' = calls /\ fails' = fails
    OBVIOUS
  <1>2. /\ Ready(c) /\ calls \in 0..MAX_CALLS /\ fails \in Nat
        /\ \A m \in replies' : Sound(m)
    BY DEF DhcpInv
  <1>3. Recorded(replies', acked')
    BY DEF DhcpInv, Recorded
  <1>4. fails = 0 => Running(c, replies', acked', calls)
    <2>1. ASSUME fails = 0
          PROVE  Running(c, replies', acked', calls)
      <3>1. Running(c, replies, acked, calls)
        BY <2>1 DEF DhcpInv
      <3>2. ASSUME NEW m \in replies', m.type = "ACK", m \notin replies
            PROVE  m.xid = c.cxid /\ m.ip = c.offered
        <4>1. m = r
          BY <3>2
        <4> QED
          BY <3>2, <4>1
      <3>3. c.state = "CHECKING" => <<c.cxid, c.offered>> \in acked'
        BY <3>1 DEF Running
      <3> QED
        BY <3>1, <3>2, <3>3 DEF Running
    <2> QED
      BY <2>1
  <1>5. DhcpInv'
    BY <1>1, <1>2, <1>3, <1>4 DEF DhcpInv
  <1>6. Binds
    BY <1>1 DEF Binds
  <1> QED
    BY <1>5, <1>6

(* A message that the server sees.                                         *)
LEMMA SentIs ==
  ASSUME DhcpInv, NEW m \in c.sent
  PROVE  /\ m.xid \in Xid /\ m.ip \in Addr
         /\ m.type = "REQUEST" => m.xid = c.cxid /\ m.ip = c.offered
  <1>1. c.sent \subseteq Message /\ Requests(c)
    BY DEF DhcpInv, Ready, Client
  <1> QED
    BY <1>1 DEF Message, Requests

(* An offer or a NAK gives no lease.                                       *)
LEMMA NoLeaseIs == NoLease \in [t0 : Option, t1 : Option, t2 : Option]
  BY DEF NoLease, Option

(* The network only takes away.                                            *)
LEMMA LoseInv ==
  ASSUME DhcpInv, Lose
  PROVE  DhcpInv' /\ Binds
  <1>1. PICK r \in replies : replies' = replies \ {r}
    BY DEF Lose
  <1>2. UNCHANGED <<c, calls, fails>> /\ acked' = acked
    BY DEF Lose
  <1> QED
    BY <1>1, <1>2, ReplyInv DEF DhcpInv

(* Offers are not what the invariant is about.                             *)
LEMMA OfferInv ==
  ASSUME DhcpInv, Offer
  PROVE  DhcpInv' /\ Binds
  <1>1. PICK m \in c.sent, ip \in IPS, sid \in IF BAD_OFFERS THEN BOOLEAN ELSE {TRUE} :
          /\ m.type = "DISCOVER"
          /\ Reply([type |-> "OFFER", xid |-> m.xid, ip |-> ip, sid |-> sid,
                    lease |-> NoLease])
          /\ UNCHANGED acked
    BY DEF Offer
  <1> DEFINE x == m.xid
             r == [type |-> "OFFER", xid |-> x, ip |-> ip, sid |-> sid,
                   lease |-> NoLease]
  <1>2. Reply(r) /\ UNCHANGED acked
    BY <1>1
  <1>3. x \in Xid /\ ip \in Addr /\ sid \in BOOLEAN /\ (sid \/ BAD_OFFERS)
    BY SentIs, Sizes
  <1> HIDE DEF x
  <1>4. Sound(r) /\ r.type = "OFFER"
    BY <1>3, NoLeaseIs DEF Sound, ReplyType
  <1> HIDE DEF r
  <1>5. UNCHANGED <<c, calls, fails>> /\ replies' = replies \cup {r}
    BY <1>2 DEF Reply
  <1> QED
    BY <1>2, <1>4, <1>5, ReplyInv DEF DhcpInv

(* The server acknowledges what was asked for, in the running transaction. *)
LEMMA AckInv ==
  ASSUME DhcpInv, Ack
  PROVE  DhcpInv' /\ Binds
  <1>1. PICK m \in c.sent, l \in LEASES :
          /\ m.type = "REQUEST" /\ m.ip \in IPS
          /\ Reply([type |-> "ACK", xid |-> m.xid, ip |-> m.ip, sid |-> TRUE,
                    lease |-> l])
          /\ acked' = acked \cup {<<m.xid, m.ip>>}
    BY DEF Ack
  <1> DEFINE x == m.xid
             ip == m.ip
             r == [type |-> "ACK", xid |-> x, ip |-> ip, sid |-> TRUE, lease |-> l]
  <1>2. Reply(r) /\ acked' = acked \cup {<<x, ip>>} /\ ip \in IPS
    BY <1>1
  <1>3. x \in Xid /\ ip \in Addr /\ x = c.cxid /\ ip = c.offered
    BY <1>1, SentIs
  <1>4. l \in [t0 : Option, t1 : Option, t2 : Option]
    BY DhcpAssumption
  <1> HIDE DEF x, ip
  <1>5. Sound(r) /\ r.type = "ACK" /\ r.xid = x /\ r.ip = ip
    BY <1>2, <1>3, <1>4 DEF Sound, ReplyType
  <1> HIDE DEF r
  <1>6. UNCHANGED <<c, calls, fails>> /\ replies' = replies \cup {r}
    BY <1>2 DEF Reply
  <1>7. <<x, ip>> \in Xid \X IPS /\ acked \subseteq Xid \X IPS
    BY <1>2, <1>3 DEF DhcpInv
  <1>8. <<r.xid, r.ip>> = <<x, ip>>
    BY <1>5
  <1>9. r.xid = c.cxid /\ r.ip = c.offered /\ <<r.xid, r.ip>> \in acked'
    BY <1>2, <1>3, <1>5, <1>8
  <1>10. acked \subseteq acked' /\ acked' \subseteq Xid \X IPS
    BY <1>2, <1>7
  <1> QED
    BY <1>5, <1>6, <1>9, <1>10, ReplyInv

(* Nor are refusals.                                                       *)
LEMMA NakInv ==
  ASSUME DhcpInv, Nak
  PROVE  DhcpInv' /\ Binds
  <1>1. PICK m \in c.sent :
          /\ Reply([type |-> "NAK", xid |-> m.xid, ip |-> IP_ADDR_ANY, sid |-> TRUE,
                    lease |-> NoLease])
          /\ UNCHANGED acked
    BY DEF Nak
  <1> DEFINE x == m.xid
             r == [type |-> "NAK", xid |-> x, ip |-> IP_ADDR_ANY, sid |-> TRUE,
                   lease |-> NoLease]
  <1>2. Reply(r) /\ UNCHANGED acked
    BY <1>1
  <1>3. x \in Xid
    BY SentIs
  <1> HIDE DEF x
  <1>4. Sound(r) /\ r.type = "NAK"
    BY <1>3, NoLeaseIs, Sizes DEF Sound, ReplyType
  <1> HIDE DEF r
  <1>5. UNCHANGED <<c, calls, fails>> /\ replies' = replies \cup {r}
    BY <1>2 DEF Reply
  <1> QED
    BY <1>2, <1>4, <1>5, ReplyInv DEF DhcpInv

-----------------------------------------------------------------------------
(* The client is off and nothing is under way.                             *)
LEMMA InitDhcpInv == Init => DhcpInv
  <1> SUFFICES ASSUME Init
               PROVE  DhcpInv
    OBVIOUS
  <1>1. /\ c \in Client /\ c.state = "OFF" /\ c.sent = {} /\ replies = {} /\ acked = {}
        /\ calls = 0 /\ fails = 0
    BY Sizes DEF Init, Client, State
  <1>2. Ready(c)
    BY <1>1 DEF Ready, Requests
  <1>3. Running(c, replies, acked, calls)
    BY <1>1 DEF Running
  <1>4. 0 \in 0..MAX_CALLS
    BY Sizes
  <1> QED
    BY <1>1, <1>2, <1>3, <1>4 DEF DhcpInv, Recorded

(* Every step keeps the invariant and binds only what is acknowledged.     *)
LEMMA NextDhcpInv == DhcpInv /\ [Next]_vars => DhcpInv' /\ Binds
  <1> SUFFICES ASSUME DhcpInv, [Next]_vars
               PROVE  DhcpInv' /\ Binds
    OBVIOUS
  <1>1. CASE UNCHANGED vars
    <2>1. c' = c /\ replies' = replies /\ acked' = acked /\ calls' = calls /\ fails' = fails
      BY <1>1 DEF vars
    <2>2. DhcpInv'
      BY <2>1 DEF DhcpInv
    <2> QED
      BY <2>1, <2>2 DEF Binds
  <1>2. CASE Next
    BY <1>2, StartInv, StopInv, ReleaseInv, RenewInv, InformInv, NetworkChangedInv,
       CoarseTmrInv, FineTmrInv, ArpReplyInv, RecvInv, LoseInv, OfferInv, AckInv, NakInv,
       Zenon DEF Next
  <1> QED
    BY <1>1, <1>2

(* The invariant that the two theorems below rest on.                      *)
THEOREM DhcpInvariance == Spec => []DhcpInv
  BY InitDhcpInv, NextDhcpInv, PTL DEF Spec

(* The client has its fields in their ranges, is off without a pcb and,    *)
(* when it waits for an answer, waits with its timer running (dhcp.c).     *)
THEOREM DhcpCorrect == Spec => []DhcpSound
  <1>1. DhcpInv => DhcpSound
    BY DEF DhcpInv, Ready, DhcpSound, DhcpTypeOK, OffWithoutPcb, NeverStuck
  <1> QED
    BY <1>1, DhcpInvariance, PTL

(* The interface only comes up with an address acknowledged to it in the   *)
(* running transaction (dhcp_recv, dhcp_bind).                             *)
THEOREM DhcpBindsAcked == Spec => BindsAcked
  <1> DEFINE B == fails' = 0 /\ c'.state = "BOUND" /\ c.state # "BOUND"
                    => <<c'.cxid, c'.ip>> \in acked
  <1>1. DhcpInv /\ [Next]_vars => [B]_vars
    BY NextDhcpInv DEF Binds
  <1> QED
    BY <1>1, DhcpInvariance, PTL DEF Spec, BindsAcked
=============================================================================
