-------------------------------- MODULE TcpIn --------------------------------
(***************************************************************************)
(* What lwIP does with the data of a segment, the second half of           *)
(* tcp_receive: trimming at both ends, the queue of segments out of        *)
(* sequence, the receive window and what of it is announced.               *)
(*                                                                         *)
(* A segment has its number seq, the length len its header stands for, its *)
(* data, a sequence of bytes, and whether it is a FIN or a SYN.  All here  *)
(* works on the receiving half of a pcb; out is recv_data, what goes to    *)
(* the application.                                                        *)
(***************************************************************************)
EXTENDS Integers, FiniteSets, SequencesExt

CONSTANTS SEQ,          \* 2^32: the sequence numbers there are
          WORD,         \* 2^16: what a window is counted in
          TCP_WND, MSS

TcpInAssumption ==
  /\ {SEQ, WORD, TCP_WND, MSS} \subseteq Nat \ {0}
  /\ SEQ % 2 = 0 /\ 4 * WORD <= SEQ /\ TCP_WND + 1 < WORD

Plus(a, n) == (a + n) % SEQ
Minus(a, b) == (a - b) % SEQ
GEQ(a, b) == Minus(a, b) < SEQ \div 2
GT(a, b) == GEQ(a, b) /\ a # b
BETWEEN(a, b, c) == GEQ(a, b) /\ GEQ(c, a)

TCPLEN(g) == g.len + (IF g.fin \/ g.syn THEN 1 ELSE 0)
End(g) == Plus(g.seq, g.len)

(* pbuf_realloc: data only ever becomes shorter. *)
CutTo(g, n) == [g EXCEPT !.len = n % WORD, !.data = SubSeq(@, 1, Min({n, Len(@)}))]

-----------------------------------------------------------------------------
(* The announced window grows in steps that are worth it.  The mutant      *)
(* announces nothing in between.                                           *)
Grown(r) == GEQ(Plus(r.rcv_nxt, r.rcv_wnd), Plus(r.edge, Min({TCP_WND \div 2, MSS})))
tcp_update_rcv_ann_wnd_zero(r) ==
  [r EXCEPT !.ann_wnd = IF Grown(r) THEN r.rcv_wnd ELSE 0]
tcp_update_rcv_ann_wnd(r) ==
  [r EXCEPT !.ann_wnd = IF Grown(r) THEN r.rcv_wnd
                        ELSE IF GT(r.rcv_nxt, r.edge) THEN 0
                        ELSE Minus(r.edge, r.rcv_nxt)]

(* tcp_send_empty_ack; answer tells the caller that one was sent. *)
SendAck(r) ==
  [r EXCEPT !.ack = "no", !.edge = Plus(r.rcv_nxt, r.ann_wnd), !.answer = TRUE]

tcp_ack(r) == [r EXCEPT !.ack = IF @ = "no" THEN "delay" ELSE "now"]
tcp_ack_now(r) == [r EXCEPT !.ack = "now"]

-----------------------------------------------------------------------------
(* The left edge.  The mutant forgets to move the data. *)
Overlaps(r, g) == BETWEEN(r.rcv_nxt, Plus(g.seq, 1), Plus(g.seq, TCPLEN(g) - 1))
TrimLeft_len(r, g) ==
  IF Overlaps(r, g) THEN [g EXCEPT !.seq = r.rcv_nxt, !.len = @ - Minus(r.rcv_nxt, g.seq)]
                    ELSE g
TrimLeft(r, g) ==
  LET n == Minus(r.rcv_nxt, g.seq)
  IN  IF Overlaps(r, g)
        THEN [g EXCEPT !.seq = r.rcv_nxt, !.len = @ - n, !.data = SubSeq(@, n + 1, Len(@))]
        ELSE g

(* The right edge of a segment in sequence *)
Fit(r, g) ==
  IF TCPLEN(g) > r.rcv_wnd THEN CutTo([g EXCEPT !.fin = FALSE], r.rcv_wnd) ELSE g

(* How many segments of a queue g covers, when it reaches to right. *)
Covered(queue, right) ==
  Cardinality({i \in DOMAIN queue : \A j \in 1..i : GEQ(right, End(queue[j]))})

(* g is put before what is left of the queue, it is cut off where that     *)
(* begins and becomes a FIN if it covers one.                              *)
Before(g, right, queue) ==
  LET n == Covered(queue, right)
      h == [g EXCEPT !.fin = @ \/ \E i \in 1..n : queue[i].fin]
  IN  IF n < Len(queue) /\ GT(right, queue[n + 1].seq)
        THEN CutTo(h, Minus(queue[n + 1].seq, g.seq)) ELSE h
Behind(right, queue) == SubSeq(queue, Covered(queue, right) + 1, Len(queue))

Take(r, g) ==
  [tcp_update_rcv_ann_wnd([r EXCEPT !.rcv_nxt = Plus(g.seq, TCPLEN(g)),
                                    !.rcv_wnd = (@ - TCPLEN(g)) % WORD])
     EXCEPT !.out = @ \o g.data, !.got_fin = @ \/ g.fin]

(* Segments at the head of the queue that now follow are taken too;        *)
(* Followed(r)[n] is the pcb after at most n of them.                       *)
Followed(r) ==
  LET pcb[n \in 0..Len(r.ooseq)] ==
        IF n = 0 THEN r
        ELSE LET u == pcb[n - 1]
             IN  IF u.ooseq # <<>> /\ u.ooseq[1].seq = u.rcv_nxt
                   THEN Take([u EXCEPT !.ooseq = Tail(@)], u.ooseq[1]) ELSE u
  IN  pcb
Drain(r) == Followed(r)[Len(r.ooseq)]

InSequence(r, g) ==
  LET f     == Fit(r, g)
      right == Plus(f.seq, TCPLEN(f))
  IN  IF f.fin THEN Take([r EXCEPT !.ooseq = <<>>], f)
      ELSE Drain(Take([r EXCEPT !.ooseq = Behind(right, @)], Before(f, right, r.ooseq)))

-----------------------------------------------------------------------------
(* tcp_oos_insert_segment *)
tcp_oos_insert_segment(g, next) ==
  IF g.fin THEN <<g>> ELSE <<Before(g, End(g), next)>> \o Behind(End(g), next)

(* The last segment of the queue is cut off at the window, by a comparison *)
(* that takes numbers as they are.                                         *)
AtWindow(r, g) ==
  LET right == Plus(r.rcv_nxt, r.rcv_wnd)
  IN  IF Plus(g.seq, TCPLEN(g)) > right
        THEN CutTo([g EXCEPT !.fin = FALSE], Minus(right, g.seq)) ELSE g

(* The place of g in the queue: after k segments.  The one before it is    *)
(* cut off where g begins.                                                 *)
Insert(r, g) ==
  LET q    == r.ooseq
      k    == Cardinality({i \in DOMAIN q : GT(g.seq, q[i].seq)})
      pre  == SubSeq(q, 1, k)
      post == SubSeq(q, k + 1, Len(q))
      cut  == IF k > 0 /\ GT(End(q[k]), g.seq)
                THEN [pre EXCEPT ![k] = CutTo(@, Minus(g.seq, @.seq))] ELSE pre
  IN  IF q = <<>> THEN <<g>>
      ELSE IF post = <<>> THEN IF q[k].fin THEN q ELSE Append(cut, AtWindow(r, g))
      ELSE IF post[1].seq # g.seq THEN cut \o tcp_oos_insert_segment(g, post)
      ELSE IF g.len > post[1].len THEN pre \o tcp_oos_insert_segment(g, post)
      ELSE q

(* The second half of tcp_receive; ok says whether tcp_seg_copy finds      *)
(* memory.  SYN is never set: tcp_process answers it elsewhere.            *)
InWindow(r, g) == BETWEEN(g.seq, r.rcv_nxt, Plus(r.rcv_nxt, r.rcv_wnd - 1))

ReceiveData(r, g, ok) ==
  LET t == TrimLeft(r, g)
  IN  IF TCPLEN(g) = 0 THEN IF InWindow(r, g) THEN r ELSE tcp_ack_now(r)
      ELSE IF ~InWindow(r, t) THEN SendAck(r)
      ELSE IF t.seq = r.rcv_nxt THEN tcp_ack(InSequence(r, t))
      ELSE [SendAck(r) EXCEPT !.ooseq = IF ok THEN Insert(r, t) ELSE @]

(* tcp_recved without what it sends, how far the window has grown; the     *)
(* mutant does not open the window.                                        *)
Inflation(r) ==
  LET right == Plus(r.rcv_nxt, r.rcv_wnd)
  IN  IF GEQ(right, Plus(r.edge, Min({TCP_WND \div 2, MSS}))) THEN Minus(right, r.edge) ELSE 0

Recved_none(r, n) == tcp_update_rcv_ann_wnd(r)
Recved(r, n) ==
  LET w == [r EXCEPT !.rcv_wnd = Min({@ + n, TCP_WND})]
      u == tcp_update_rcv_ann_wnd(w)
  IN  IF Inflation(w) >= TCP_WND \div 4 THEN tcp_ack_now(u) ELSE u
==============================================================================
