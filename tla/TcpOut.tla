------------------------------- MODULE TcpOut -------------------------------
(***************************************************************************)
(* The sending half of lwIP's TCP: tcp_write and tcp_send_fin, which cut   *)
(* data into segments, tcp_output, which sends what the windows allow, the *)
(* first half of tcp_receive, which takes acknowledgements, and the three  *)
(* ways to send again: the retransmission timer, three duplicate           *)
(* acknowledgements and the persist timer.                                 *)
(*                                                                         *)
(* Everything works on a pcb r.  A segment has, as in TcpIn, its number,   *)
(* length, data and flags, and bufs, the number of its pbufs; sent is the  *)
(* set of segments that went out in the step at hand.                      *)
(***************************************************************************)
EXTENDS TcpIn

CONSTANTS TCP_SND_BUF, TCP_SND_QUEUELEN,
          BYTE,         \* 2^8: what dupacks and nrtx are counted in
          BACKOFFS      \* the steps of tcp_persist_backoff

TcpOutAssumption ==
  /\ {TCP_SND_BUF, TCP_SND_QUEUELEN, BYTE, BACKOFFS} \subseteq Nat \ {0}
  /\ TCP_SND_BUF < WORD /\ 2 * TCP_SND_BUF < SEQ

LT(a, b) == GT(b, a)

(* The place of a segment in a queue ordered by sequence number *)
InsertBySeq(queue, g) ==
  LET k == Cardinality({i \in DOMAIN queue : \A j \in 1..i : LT(queue[j].seq, g.seq)})
  IN  SubSeq(queue, 1, k) \o <<g>> \o SubSeq(queue, k + 1, Len(queue))

(* The pbufs of a queue *)
Bufs(queue) ==
  LET sum[n \in 0..Len(queue)] == IF n = 0 THEN 0 ELSE sum[n - 1] + queue[n].bufs
  IN  sum[Len(queue)]

-----------------------------------------------------------------------------
(* tcp_write_checks; the mutant forgets the buffer. *)
tcp_write_checks_queue(r, n) == r.snd_queuelen < TCP_SND_QUEUELEN
tcp_write_checks(r, n) == n <= r.snd_buf /\ r.snd_queuelen < TCP_SND_QUEUELEN

(* Phase 3: new segments for data, the first at seq *)
Chop(data, seq) ==
  [i \in 1..(Len(data) + MSS - 1) \div MSS |->
     LET part == SubSeq(data, (i-1) * MSS + 1, Min({i * MSS, Len(data)}))
     IN  [seq |-> Plus(seq, (i-1) * MSS), len |-> Len(part), data |-> part,
          fin |-> FALSE, syn |-> FALSE, bufs |-> 1]]

(* Data is first copied behind the last unsent segment, where its pbuf has *)
(* room (used bytes), then chained to it in a new pbuf (more bytes), then  *)
(* put into segments of its own.  tcp_pbuf_prealloc makes every pbuf MSS   *)
(* long, and counts what is left of it as room.  ok: memory is there.      *)
tcp_write(r, data, ok) ==
  LET n     == Len(data)
      chain == r.unsent # <<>>
      last  == Last(r.unsent)
      used  == IF chain THEN Min({r.oversize, n}) ELSE 0
      space == IF chain THEN (MSS - last.len - used) % WORD ELSE 0
      more  == IF chain /\ last.len > 0 THEN Min({space, n - used}) ELSE 0
      pos   == used + more
      segs  == Chop(SubSeq(data, pos + 1, n), Plus(r.snd_lbb, pos))
      qlen  == r.snd_queuelen + Len(segs) + (IF more > 0 THEN 1 ELSE 0)
      grown == IF pos = 0 THEN r.unsent
               ELSE Append(Front(r.unsent),
                      [last EXCEPT !.len = @ + pos, !.data = @ \o SubSeq(data, 1, pos),
                                   !.bufs = @ + (IF more > 0 THEN 1 ELSE 0)])
  IN  IF ~tcp_write_checks(r, n) \/ ~ok \/ (segs # <<>> /\ qlen > TCP_SND_QUEUELEN)
        THEN [r EXCEPT !.memerr = TRUE]
        ELSE [r EXCEPT !.unsent = grown \o segs, !.snd_queuelen = qlen,
                       !.snd_lbb = Plus(@, n), !.snd_buf = @ - n,
                       !.oversize = IF segs # <<>> THEN MSS - Last(segs).len
                                    ELSE IF more > 0 THEN (MSS - more) % WORD
                                    ELSE IF chain THEN @ - used ELSE 0]

(* tcp_enqueue_flags; the caller sees from snd_lbb whether it did. *)
tcp_enqueue_flags(r, syn, fin, ok) ==
  IF r.snd_queuelen >= TCP_SND_QUEUELEN \/ ~ok THEN [r EXCEPT !.memerr = TRUE]
  ELSE IF r.snd_buf = 0 THEN r
  ELSE [r EXCEPT !.unsent = Append(@, [seq |-> r.snd_lbb, len |-> 0, data |-> <<>>,
                                       fin |-> fin, syn |-> syn, bufs |-> 1]),
                 !.oversize = 0, !.snd_lbb = Plus(@, 1), !.snd_buf = @ - 1,
                 !.snd_queuelen = @ + 1, !.fin = @ \/ fin]

(* tcp_send_fin: a FIN goes onto the last unsent segment if it can. *)
Carries(r) == r.unsent # <<>> /\ ~Last(r.unsent).syn /\ ~Last(r.unsent).fin
tcp_send_fin(r, ok) ==
  IF Carries(r) THEN [r EXCEPT !.unsent[Len(r.unsent)].fin = TRUE]
                ELSE tcp_enqueue_flags(r, FALSE, TRUE, ok)
FinQueued(r, ok) == Carries(r) \/ tcp_send_fin(r, ok).snd_lbb # r.snd_lbb

-----------------------------------------------------------------------------
(* What g needs of the window, counted from lastack *)
Reach(r, g) == Plus(Minus(g.seq, r.lastack), g.len)

tcp_do_output_nagle(r) ==
  \/ r.unacked = <<>> \/ r.infr
  \/ r.unsent # <<>> /\ (Len(r.unsent) > 1 \/ Head(r.unsent).len >= MSS)

(* tcp_output_segment, and g moves from unsent to unacked.  The mutant     *)
(* does not start the timer.                                               *)
TransmitThen(runs, r, g) ==
  LET end == Plus(g.seq, TCPLEN(g))
  IN  [r EXCEPT !.unsent = Tail(@), !.unacked = InsertBySeq(@, g),
                !.ack = IF r.state = "SYN_SENT" THEN @ ELSE "no",
                !.edge = Plus(r.rcv_nxt, r.ann_wnd), !.rtime = @ \/ runs,
                !.snd_nxt = IF LT(@, end) THEN end ELSE @,
                !.sent = @ \cup {g}]
Transmit_untimed(r, g) == TransmitThen(FALSE, r, g)
Transmit(r, g) == TransmitThen(TRUE, r, g)

(* tcp_output.  held: the numbers of segments that the driver still holds. *)
(* The mutants forget the window of the peer, and do not start probing.    *)
Window_any(r) == r.cwnd
Window(r) == Min({r.snd_wnd, r.cwnd})

Sends(r, g, held) ==
  /\ r.unsent # <<>> /\ g = Head(r.unsent)
  /\ Reach(r, g) <= Window(r) /\ g.seq \notin held
  /\ tcp_do_output_nagle(r) \/ r.memerr \/ r.fin

(* A segment that cannot go stops those behind it. *)
Outputs(r, held) ==
  LET pcb[n \in 0..Len(r.unsent)] ==
        IF n = 0 THEN r
        ELSE LET u == pcb[n - 1]
                 g == r.unsent[n]
             IN  IF Sends(u, g, held) THEN Transmit(u, g) ELSE u
  IN  pcb[Len(r.unsent)]

Persists(r) ==
  r.unsent # <<>> /\ r.persist = 0 /\ Reach(r, Head(r.unsent)) > r.snd_wnd

AfterOutput(starts, u) ==
  [u EXCEPT !.oversize = IF u.unsent = <<>> THEN 0 ELSE @,
            !.persist = IF starts /\ Persists(u) THEN 1 ELSE @, !.memerr = FALSE]
Output(starts, r, held) ==
  IF r.ack = "now" /\ (r.unsent = <<>> \/ Reach(r, Head(r.unsent)) > Window(r)) THEN SendAck(r)
  ELSE AfterOutput(starts, Outputs(r, held))
tcp_output_only(r, held) == Output(FALSE, r, held)
tcp_output(r, held) == Output(TRUE, r, held)

-----------------------------------------------------------------------------
(* tcp_rexmit: the first unacknowledged segment is queued again. *)
tcp_rexmit(r) ==
  IF r.unacked = <<>> THEN r
  ELSE [r EXCEPT !.unacked = Tail(@), !.unsent = InsertBySeq(@, Head(r.unacked)),
                 !.nrtx = (@ + 1) % BYTE]

Ssthresh(half) == Max({half, 2 * MSS})

tcp_rexmit_fast(r) ==
  LET half == Ssthresh(Min({r.cwnd, r.snd_wnd}) \div 2)
  IN  IF r.unacked = <<>> \/ r.infr THEN r
      ELSE [tcp_rexmit(r) EXCEPT !.ssthresh = half, !.cwnd = (half + 3 * MSS) % WORD,
                                 !.infr = TRUE]

(* tcp_rexmit_rto: all unacknowledged segments but those the driver holds  *)
(* are queued again.  The mutant puts them behind what was never sent.     *)
Parted(queue, held) ==
  LET part[n \in 0..Len(queue)] ==
        IF n = 0 THEN [again |-> <<>>, kept |-> <<>>]
        ELSE IF queue[n].seq \in held
               THEN [part[n - 1] EXCEPT !.kept = Append(@, queue[n])]
               ELSE [part[n - 1] EXCEPT !.again = Append(@, queue[n])]
  IN  part[Len(queue)]
RexmitRto(Join(_, _), r, held) ==
  LET part == Parted(r.unacked, held)
  IN  IF r.unacked = <<>> THEN r
      ELSE tcp_output([r EXCEPT !.unsent = Join(part.again, @), !.nrtx = (@ + 1) % BYTE,
                                !.unacked = part.kept], held)
tcp_rexmit_rto_behind(r, held) == RexmitRto(LAMBDA a, b : b \o a, r, held)
tcp_rexmit_rto(r, held) == RexmitRto(LAMBDA a, b : a \o b, r, held)

(* tcp_zero_window_probe: one byte of the first segment, or a FIN alone. *)
tcp_zero_window_probe(r) ==
  LET queue == r.unacked \o r.unsent
      g     == Head(queue)
      isfin == g.fin /\ g.len = 0
  IN  IF queue = <<>> THEN r
      ELSE [r EXCEPT !.sent = @ \cup {[seq |-> g.seq, len |-> IF isfin THEN 0 ELSE 1,
                                       data |-> IF isfin THEN <<>> ELSE <<Head(g.data)>>, fin |-> isfin,
                                       syn |-> FALSE, bufs |-> 1]},
                     !.edge = Plus(r.rcv_nxt, r.ann_wnd)]

(* tcp_slowtmr for one connection that has not failed: expired says        *)
(* whether the timer at hand runs out at this tick.                        *)
Timers(r, expired, held) ==
  IF r.persist > 0
    THEN IF expired THEN tcp_zero_window_probe([r EXCEPT !.persist = Min({@ + 1, BACKOFFS})]) ELSE r
    ELSE IF expired /\ r.rtime /\ r.unacked # <<>>
           THEN tcp_rexmit_rto([r EXCEPT !.cwnd = MSS,
                                  !.ssthresh = Ssthresh(Min({r.cwnd, r.snd_wnd}) \div 2)], held)
           ELSE r

-----------------------------------------------------------------------------
(* The first half of tcp_receive.  The window is taken from segments that  *)
(* are not older than the last one it was taken from.                      *)
Newer(r, g) ==
  \/ LT(r.snd_wl1, g.seq)
  \/ r.snd_wl1 = g.seq /\ LT(r.snd_wl2, g.ackno)
  \/ r.snd_wl2 = g.ackno /\ g.wnd > r.snd_wnd

WindowUpdate(r, g) ==
  IF Newer(r, g)
    THEN [r EXCEPT !.snd_wnd = g.wnd, !.snd_wl1 = g.seq, !.snd_wl2 = g.ackno,
                   !.persist = IF g.wnd > 0 THEN 0 ELSE @]
    ELSE r

(* u: the pcb after the window update *)
Duplicate(r, u, g) ==
  /\ TCPLEN(g) = 0 /\ Plus(u.snd_wl2, u.snd_wnd) = Plus(r.snd_wl2, r.snd_wnd)
  /\ u.rtime /\ u.lastack = g.ackno

Again(u) ==
  LET d == [u EXCEPT !.dupacks = (@ + 1) % BYTE]
  IN  IF d.dupacks > 3 THEN [d EXCEPT !.cwnd = IF @ + MSS < WORD THEN @ + MSS ELSE @]
      ELSE IF d.dupacks = 3 THEN tcp_rexmit_fast(d) ELSE d

Opened(u) ==
  [u EXCEPT !.cwnd = IF @ < u.ssthresh THEN IF @ + MSS < WORD THEN @ + MSS ELSE @
                     ELSE Max({(@ + ((MSS * MSS) \div @)) % WORD, @})]

(* Segments from the front of the queue q, "unacked" or "unsent", that     *)
(* ackno covers are freed, and a FIN among them is not counted for the     *)
(* application.  The mutants free too early, count the FIN, and forget the *)
(* pbufs.                                                                  *)
Covers_early(g, ackno) == GEQ(Plus(ackno, 1), Plus(g.seq, TCPLEN(g)))
Covers(g, ackno) == GEQ(ackno, Plus(g.seq, TCPLEN(g)))
FreeElse(Less(_), u, q, ackno, limit) ==
  LET n    == Cardinality({i \in DOMAIN u[q] :
                             \A j \in 1..i : Covers(u[q][j], ackno) /\ GEQ(limit, ackno)})
      gone == SubSeq(u[q], 1, n)
  IN  [u EXCEPT ![q] = SubSeq(@, n + 1, Len(@)),
                !.snd_queuelen = @ - Bufs(gone),
                !.acked = IF @ # 0 /\ \E i \in DOMAIN gone : gone[i].fin THEN Less(@) ELSE @]
Free_fin(u, q, ackno, limit) == FreeElse(LAMBDA k : k, u, q, ackno, limit)
Free_bufs(u, q, ackno, limit) ==
  [FreeElse(LAMBDA k : k - 1, u, q, ackno, limit) EXCEPT !.snd_queuelen = u.snd_queuelen]
Free(u, q, ackno, limit) == FreeElse(LAMBDA k : k - 1, u, q, ackno, limit)

(* New data is acknowledged.  The mutant takes all that was sent for it. *)
Retimed(u) == [u EXCEPT !.rtime = u.unacked # <<>>]
AdvanceTo(last, u, g) ==
  Retimed(Free([Opened([u EXCEPT !.cwnd = IF u.infr THEN u.ssthresh ELSE @])
                  EXCEPT !.infr = FALSE, !.nrtx = 0, !.dupacks = 0, !.lastack = last,
                         !.acked = Minus(g.ackno, u.lastack) % WORD,
                         !.snd_buf = (@ + Minus(g.ackno, u.lastack)) % WORD],
               "unacked", g.ackno, g.ackno))
Advance_all(u, g) == AdvanceTo(u.snd_nxt, u, g)
Advance(u, g) == AdvanceTo(g.ackno, u, g)

TakeAckno(r, u, g) ==
  IF GEQ(u.lastack, g.ackno)
    THEN IF Duplicate(r, u, g) THEN Again([u EXCEPT !.acked = 0])
                               ELSE [u EXCEPT !.acked = 0, !.dupacks = 0]
  ELSE IF BETWEEN(g.ackno, Plus(u.lastack, 1), u.snd_nxt) THEN Advance(u, g)
  ELSE [u EXCEPT !.acked = 0]

(* What waits to be sent again may be covered too. *)
FreeUnsent(u, g) == Free(u, "unsent", g.ackno, u.snd_nxt)
ReceiveAck(r, g) == FreeUnsent(TakeAckno(r, WindowUpdate(r, g), g), g)
=============================================================================
