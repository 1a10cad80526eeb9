------------------------------ MODULE TcpSend ------------------------------
(***************************************************************************)
(* One direction of an established TCP connection at lwIP's sender.  The   *)
(* application writes the bytes 1..N and closes.  The network loses at     *)
(* most LOSSES packets, and may reorder all.  The peer, which is external, *)
(* takes what follows within its window and acknowledges every segment.    *)
(***************************************************************************)
EXTENDS TcpOut

CONSTANTS ISS, N,
          PIECES,       \* how many bytes the application writes at once
          PWND,         \* the window of the peer
          LOSSES,
          HELD,         \* the driver may hold segments when they are sent again
          FAILS,        \* memory may be short
          PATIENT,      \* a timer only runs out when nothing is under way
          STRAYS,       \* a SYN of the handshake may come again
          TCP_MAXRTX

ASSUME TcpSendAssumption ==
  /\ TcpInAssumption /\ TcpOutAssumption
  /\ ISS \in 0..SEQ-1 /\ {N, PWND, LOSSES} \subseteq Nat /\ TCP_MAXRTX \in Nat \ {0}
  /\ 2 * N < SEQ /\ PWND < WORD
  /\ PIECES \subseteq Nat \ {0} /\ {HELD, FAILS, PATIENT, STRAYS} \subseteq BOOLEAN

(* r: the pcb; wrote and closed, what the application did; told, how many  *)
(* bytes the sent callback reported; gone, the connection was given up;    *)
(* peer: the next byte and the right edge of its window; wire and acks,    *)
(* what is under way; lost, how much was lost; ticked changes when all     *)
(* timers are due.                                                         *)
VARIABLES r, wrote, closed, told, gone, peer, wire, acks, lost, ticked
vars == <<r, wrote, closed, told, gone, peer, wire, acks, lost, ticked>>

PEER_ISS == 0
Init ==
  /\ r = [state |-> "ESTABLISHED", snd_nxt |-> ISS, lastack |-> ISS, snd_lbb |-> ISS,
          snd_buf |-> TCP_SND_BUF, snd_queuelen |-> 0, snd_wnd |-> PWND,
          snd_wl1 |-> Minus(PEER_ISS, 1), snd_wl2 |-> Minus(ISS, 1), cwnd |-> 2 * MSS,
          ssthresh |-> 10 * MSS, unsent |-> <<>>, unacked |-> <<>>, oversize |-> 0,
          nrtx |-> 0, dupacks |-> 0, infr |-> FALSE, rtime |-> FALSE, persist |-> 0,
          fin |-> FALSE, memerr |-> FALSE, acked |-> 0, sent |-> {},
          rcv_nxt |-> PEER_ISS, ann_wnd |-> TCP_WND, edge |-> Plus(PEER_ISS, TCP_WND), ack |-> "no",
          answer |-> FALSE]
  /\ wrote = 0 /\ closed = FALSE /\ told = 0 /\ gone = FALSE
  /\ peer = [nxt |-> ISS, edge |-> Plus(ISS, PWND), fin |-> FALSE]
  /\ wire = {} /\ acks = {} /\ lost = 0 /\ ticked = FALSE

-----------------------------------------------------------------------------
(* A step leaves the pcb u; what it sent goes out, some of it is lost. *)
Leave(u, rest) ==
  \E drop \in SUBSET u.sent :
    /\ lost' = lost + Cardinality(drop) /\ lost' <= LOSSES
    /\ wire' = rest \cup {[g EXCEPT !.bufs = 1] : g \in u.sent \ drop}
    /\ r' = [u EXCEPT !.sent = {}, !.answer = FALSE]

(* espconn writes and calls tcp_output at once. *)
Write == \E n \in {k \in PIECES : k <= N - wrote}, ok \in BOOLEAN :
  LET u == tcp_write(r, [i \in 1..n |-> wrote + i], ok)
  IN  /\ ~closed /\ ~gone /\ (~ok => FAILS)
      /\ wrote' = wrote + Minus(u.snd_lbb, r.snd_lbb)
      /\ Leave(tcp_output(u, {}), wire)
      /\ UNCHANGED <<closed, told, gone, peer, acks, ticked>>

Close == \E ok \in BOOLEAN :
  /\ ~closed /\ ~gone /\ (~ok => FAILS)
  /\ closed' = FinQueued(r, ok)
  /\ Leave(IF closed' THEN tcp_output(tcp_send_fin(r, ok), {}) ELSE tcp_send_fin(r, ok), wire)
  /\ UNCHANGED <<wrote, told, gone, peer, acks, ticked>>

(* tcp_input with an acknowledgement that carries no data, or with a SYN   *)
(* of the handshake that comes again: tcp_process answers it and returns   *)
(* before tcp_receive.  Then the sent callback, and tcp_output.            *)
Driver(held) == held # {} => HELD
Sent == {g.seq : g \in {h \in Range(r.unacked \o r.unsent) : LT(h.seq, r.snd_nxt)}}

Input(u, held, rest) ==
  /\ told' = told + u.acked
  /\ Leave(tcp_output(u, held), wire)
  /\ acks' = rest
  /\ UNCHANGED <<wrote, closed, gone, peer, ticked>>

TakeAck == \E a \in acks, held \in SUBSET Sent :
  /\ ~gone /\ Driver(held)
  /\ Input(ReceiveAck(r, a), held, acks \ {a})

TOLD_MAX == N + 1      \* bounds how often a stray SYN comes
Stray ==
  /\ STRAYS /\ ~gone /\ told <= TOLD_MAX
  /\ Input(tcp_ack_now(r), {}, acks)

(* tcp_slowtmr.  polled: the poll interval is over too. *)
tcp_slowtmr == \E expired, polled \in BOOLEAN, held \in SUBSET Sent :
  /\ ~gone /\ Driver(held) /\ (expired /\ PATIENT => wire = {} /\ acks = {})
  /\ ticked' = IF expired /\ polled THEN ~ticked ELSE ticked
  /\ IF r.nrtx = TCP_MAXRTX
       THEN /\ gone' = TRUE
            /\ UNCHANGED <<r, wire, lost>>
       ELSE LET t == Timers(r, expired, held)
            IN  /\ Leave(IF polled THEN tcp_output(t, held) ELSE t, wire)
                /\ UNCHANGED gone
  /\ UNCHANGED <<wrote, closed, told, peer, acks>>

-----------------------------------------------------------------------------
(* External: the peer.  It acknowledges whatever it gets, and announces a  *)
(* window that its application has opened again.                           *)
Acknowledge(p) ==
  LET a == [seq |-> PEER_ISS, len |-> 0, fin |-> FALSE, syn |-> FALSE, ackno |-> p.nxt,
            wnd |-> Minus(p.edge, IF p.fin THEN Minus(p.nxt, 1) ELSE p.nxt)]
  IN  \/ acks' = acks \cup {a} /\ lost' = lost
      \/ acks' = acks /\ lost' = lost + 1 /\ lost < LOSSES

Reached(p, g) ==
  LET upto == Min({Minus(End(g), ISS), Minus(p.edge, ISS)})
      here == Minus(p.nxt, ISS)
  IN  IF p.fin \/ Minus(g.seq, ISS) > here THEN p
      ELSE [p EXCEPT !.nxt = Plus(ISS, Max({here, upto}) + IF g.fin /\ End(g) = Plus(ISS, Max({here, upto})) THEN 1 ELSE 0),
                     !.fin = g.fin /\ End(g) = Plus(ISS, Max({here, upto}))]

Peer == \E g \in wire :
  /\ peer' = Reached(peer, g)
  /\ wire' = wire \ {g}
  /\ Acknowledge(peer')
  /\ UNCHANGED <<r, wrote, closed, told, gone, ticked>>

PeerReads ==
  /\ ~peer.fin /\ peer.edge # Plus(peer.nxt, PWND)
  /\ peer' = [peer EXCEPT !.edge = Plus(peer.nxt, PWND)]
  /\ Acknowledge(peer')
  /\ UNCHANGED <<r, wrote, closed, told, gone, wire, ticked>>

Next == Write \/ Close \/ TakeAck \/ Stray \/ tcp_slowtmr \/ Peer \/ PeerReads

Spec == Init /\ [][Next]_vars

(* The timers go on until both are due; the network delivers what it did   *)
(* not lose; the application of the peer reads.                            *)
Fairness ==
  /\ []<>(wire = {} /\ acks = {})
  /\ []<>(peer.fin \/ peer.edge = Plus(peer.nxt, PWND))

FairSpec == Spec /\ Fairness /\ \A b \in BOOLEAN : []<>(gone \/ ticked = b)

-----------------------------------------------------------------------------
Queued == Range(r.unacked \o r.unsent)
Place(seq) == Minus(seq, ISS)

(* Counters and flags have their types, and what was sent has left.        *)
SendTypeOK ==
  /\ {r.snd_nxt, r.lastack, r.snd_lbb} \subseteq 0..SEQ-1
  /\ r.snd_buf \in 0..TCP_SND_BUF+1 /\ r.cwnd \in 1..WORD-1
  /\ r.sent = {} /\ r.nrtx \in 0..BYTE-1

(* "We may run out of memory at any point ... return ERR_MEM and not       *)
(* change anything": whatever is sent again, split, joined and freed, the  *)
(* two queues hold every byte that was written and not acknowledged, once, *)
(* under its number, and the FIN behind them.                              *)
Intact ==
  /\ \A g \in Queued : g.data = [i \in 1..g.len |-> Place(g.seq) + i]
  /\ \A k \in Place(r.lastack)..wrote-1 :
       Cardinality({i \in DOMAIN (r.unacked \o r.unsent) :
         LET g == (r.unacked \o r.unsent)[i] IN Place(g.seq) <= k /\ k < Place(g.seq) + g.len}) = 1
  /\ closed /\ Place(r.lastack) <= wrote => \E g \in Queued : g.fin /\ Place(End(g)) = wrote

(* "These are ordered by sequence number".                                 *)
Ordered == \A q \in {r.unsent, r.unacked} : \A i \in 1..Len(q)-1 : LT(q[i].seq, q[i+1].seq)

(* Only a probe goes beyond the window the peer has announced.             *)
WindowKept == \A g \in wire : GEQ(peer.edge, End(g)) \/ g.len <= 1

(* "The amount of bytes acknowledged": the application is told of every    *)
(* byte the peer has acknowledged once, and of no FIN.                     *)
SentTold == told = Min({Place(r.lastack), wrote})

(* The free buffer counts what was written and not acknowledged.           *)
BufferCounted == ~closed => r.snd_buf + Minus(r.snd_lbb, r.lastack) = TCP_SND_BUF

(* The queue length counts the pbufs of both queues, and is limited.       *)
QueueCounted ==
  /\ r.snd_queuelen = Bufs(r.unacked) + Bufs(r.unsent)
  /\ r.snd_queuelen <= TCP_SND_QUEUELEN

(* While a segment waits for its acknowledgement the timer runs.           *)
Armed == r.unacked # <<>> => r.rtime

(* What tcp_write checks before it takes data, snd_buf and snd_queuelen,   *)
(* neither leaks nor is given back twice, however segments are sent,       *)
(* acknowledged and queued again, and what is under way is never without   *)
(* a timer.                                                                *)
SendCounted == BufferCounted /\ QueueCounted /\ Armed

(* What is written is acknowledged in the end, or the connection is given  *)
(* up.                                                                     *)
Drained == []<>(gone \/ Queued = {})
=============================================================================
