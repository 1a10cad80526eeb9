----------------------------- MODULE TcpReceive -----------------------------
(***************************************************************************)
(* One direction of a TCP connection at lwIP's receiver.  The peer sends   *)
(* the bytes 1..N and then a FIN, cut into segments in any way, again and  *)
(* in any order, as far as the announced window lets it.                   *)
(***************************************************************************)
EXTENDS TcpIn

CONSTANTS IRS,        \* the number of the first byte
          N,
          FAILS       \* memory may be short

ASSUME TcpReceiveAssumption ==
  /\ TcpInAssumption
  /\ IRS \in 0..SEQ-1 /\ N \in Nat /\ N + WORD + TCP_WND + 2 < SEQ \div 2
  /\ FAILS \in BOOLEAN

(* r: the receiving half of the pcb; refused, data the application did not *)
(* take; taken, what it took; used, for how much of it tcp_recved was      *)
(* called; eof, how often it was told of the end; choosy, whether it may   *)
(* refuse data at all.  hit is for fairness: the segment that came last    *)
(* was the next one missing.                                               *)
VARIABLES r, refused, taken, used, eof, choosy, hit
vars == <<r, refused, taken, used, eof, choosy, hit>>

Init ==
  /\ r = [rcv_nxt |-> IRS, rcv_wnd |-> TCP_WND, ann_wnd |-> TCP_WND, edge |-> Plus(IRS, TCP_WND),
          ooseq |-> <<>>, out |-> <<>>, got_fin |-> FALSE, ack |-> "no", answer |-> FALSE]
  /\ refused = <<>> /\ taken = <<>> /\ used = 0 /\ eof = 0
  /\ choosy \in BOOLEAN /\ hit = FALSE

(* External: what the peer may send.  Of its bytes it sends those from     *)
(* a + 1 to b, within the window or as a probe of a closed one; a FIN may  *)
(* lie just beyond the window, where lwIP itself sends it.                 *)
Segment(a, b, fin) ==
  [seq |-> Plus(IRS, a), len |-> b - a, data |-> [i \in 1..b-a |-> a + i],
   fin |-> fin, syn |-> FALSE]

Sendable(g) ==
  \/ GEQ(r.edge, End(g))
  \/ r.edge = r.rcv_nxt /\ g.seq = r.rcv_nxt /\ TCPLEN(g) = 1

Segments == {g \in {Segment(a, b, fin) : a \in 0..N, b \in 0..N, fin \in BOOLEAN} :
               g.len >= 0 /\ (g.fin => g.seq = Plus(IRS, N - g.len)) /\ Sendable(g)}

(* The next segment missing, as much as the window and MSS allow.          *)
Missing ==
  LET a    == Minus(r.rcv_nxt, IRS)
      room == Min({MSS, Max({Minus(r.edge, r.rcv_nxt), 1})})
  IN  IF a < N THEN Segment(a, Min({a + room, N}), FALSE) ELSE Segment(N, N, TRUE)

-----------------------------------------------------------------------------
Sent(t) == IF t.ack = "now" THEN SendAck(t) ELSE t
Done(t) == [t EXCEPT !.out = <<>>, !.got_fin = FALSE, !.answer = FALSE]

(* pbuf_free_ooseq_new, when the driver is short of buffers *)
Freed(t, short) == IF short /\ t.ooseq # <<>> THEN [t EXCEPT !.ooseq = Front(@)] ELSE t

(* tcp_input with tcp_process in ESTABLISHED and CLOSE_WAIT: data refused  *)
(* before are offered again; if they are refused again, new data are       *)
(* dropped.  Then the new data are offered, the end is told, and           *)
(* acknowledgements go out.                                                *)
Ended(t) ==
  [tcp_ack_now(t) EXCEPT !.rcv_wnd = IF @ = TCP_WND THEN @ ELSE (@ + 1) % WORD]

Offer(t, again, takes, short) ==
  /\ r' = Freed(Done(Sent(IF t.got_fin THEN Ended(t) ELSE t)), short)
  /\ eof' = IF t.got_fin THEN eof + 1 ELSE eof
  /\ taken' = taken \o (IF again THEN refused ELSE <<>>) \o (IF takes THEN t.out ELSE <<>>)
  /\ refused' = IF takes \/ t.out = <<>> THEN IF again THEN <<>> ELSE refused ELSE t.out
  /\ UNCHANGED used

tcp_input(g, again, takes, ok, short) ==
  IF ~again /\ refused # <<>> /\ TCPLEN(g) > 0
    THEN UNCHANGED <<r, refused, taken, used, eof>>
    ELSE Offer(ReceiveData(r, g, ok), again, takes, short)

Arrive == \E g \in Segments, again, takes, ok, short \in BOOLEAN :
  /\ ~again \/ ~takes => choosy
  /\ ~ok \/ short => FAILS
  /\ tcp_input(g, again, takes, ok, short)
  /\ hit' = (g = Missing /\ again /\ takes)

tcp_recved(n) ==
  /\ n \in 1..Len(taken) - used
  /\ r' = Done(Sent(Recved(r, n)))
  /\ used' = used + n
  /\ hit' = FALSE /\ UNCHANGED <<refused, taken, eof>>

tcp_fasttmr == \E takes \in BOOLEAN :
  /\ takes \/ (choosy /\ refused # <<>>)
  /\ taken' = IF takes THEN taken \o refused ELSE taken
  /\ refused' = IF takes THEN <<>> ELSE refused
  /\ r' = IF r.ack = "delay" THEN Done(SendAck(r)) ELSE r
  /\ hit' = FALSE /\ UNCHANGED <<used, eof>>

(* the part of tcp_slowtmr for segments that have waited too long *)
tcp_slowtmr ==
  /\ r' = [r EXCEPT !.ooseq = <<>>] /\ hit' = FALSE
  /\ UNCHANGED <<refused, taken, used, eof>>

Next ==
  /\ UNCHANGED choosy
  /\ Arrive \/ tcp_fasttmr \/ tcp_slowtmr \/ \E n \in 1..TCP_WND : tcp_recved(n)

Spec == Init /\ [][Next]_vars

(* The peer repeats what is missing until it arrives; the application      *)
(* gives back the window of all it took.  Both can always happen until     *)
(* there is nothing left, so this is weak fairness of Arrive with Missing  *)
(* and of tcp_recved.                                                      *)
FairSpec ==
  /\ Spec
  /\ []<>(eof > 0 \/ hit)
  /\ []<>(used = Len(taken))

-----------------------------------------------------------------------------
Bytes == [i \in 1..N |-> i]

(* Windows, flags and queues have their types, and what is chained for the *)
(* application is handed over within tcp_input.                            *)
ReceiveTypeOK ==
  /\ r.rcv_nxt \in 0..SEQ-1 /\ r.edge \in 0..SEQ-1
  /\ r.ack \in {"no", "delay"} /\ r.out = <<>> /\ used \in 0..Len(taken)

(* The application gets the bytes of the peer, each once and in order,     *)
(* however they are cut up, overlap and come in.                           *)
InOrder == taken \o refused = SubSeq(Bytes, 1, Len(taken \o refused))

(* rcv_nxt stands for the bytes handed over, and for the FIN if it came.   *)
Numbered == Minus(r.rcv_nxt, IRS) = Len(taken \o refused) + eof

(* The queue is ordered and without overlaps, lies beyond rcv_nxt, and its *)
(* segments hold the bytes their numbers say.                              *)
QueueSound ==
  LET q == r.ooseq
  IN  /\ \A i \in DOMAIN q :
           /\ q[i] = Segment(Minus(q[i].seq, IRS), Minus(q[i].seq, IRS) + q[i].len, q[i].fin)
           /\ q[i].fin => i = Len(q)
      /\ \A i \in 1..Len(q)-1 : GEQ(q[i+1].seq, End(q[i]))
      /\ q # <<>> => GT(q[1].seq, r.rcv_nxt)

(* The window is what the application has not given back yet.              *)
WindowExact == r.rcv_wnd = TCP_WND - (Len(taken \o refused) - used)

(* The end is found once, and only behind all bytes.                       *)
EndFound == eof <= 1 /\ (eof > 0 => taken \o refused = Bytes)

(* "The received data (or NULL when the connection has been closed!)": the *)
(* end is told once, and after all data if none are refused.               *)
EndLast == ~choosy => eof <= 1 /\ (eof > 0 => taken = Bytes)

(* lwIP's receiver hands the peer's stream to the application, whole and   *)
(* in order, and keeps the pcb's numbers, queue and window true to it.     *)
ReceiveSound ==
  /\ ReceiveTypeOK /\ InOrder /\ Numbered /\ QueueSound /\ WindowExact /\ EndFound
  /\ EndLast

(* What was announced is kept: the edge never moves back.                  *)
EdgeKept == [][GEQ(r'.edge, r.edge)]_vars

(* Everything arrives.                                                     *)
AllArrives == <>(taken = Bytes /\ eof = 1)
=============================================================================
