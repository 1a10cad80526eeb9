--------------------------------- MODULE Tcp ---------------------------------
(***************************************************************************)
(* The life of a TCP connection between two hosts that both run lwIP: the  *)
(* client connects, both write and close, the network loses and reorders   *)
(* packets; they come again when a timer runs out too early.  The two      *)
(* halves of a pcb are those of TcpIn and TcpOut; this module adds the     *)
(* states, resets and what the application is told.                        *)
(***************************************************************************)
EXTENDS TcpOut

CONSTANTS Client, Server,
          N,            \* how many bytes each host may write
          LOSSES,       \* how many packets are lost
          UNREAD,       \* an application may close before it has read all
          HALF,         \* an application may end its own side first
          ABORTS,       \* an application may abort
          IDLE,         \* a connection may be left alone for long
          PATIENT,      \* timers only run out when nothing is under way
          TCP_MAXRTX, TCP_SYNMAXRTX

Hosts == {Client, Server}

TcpAssumption ==
  /\ Client # Server /\ N \in [Hosts -> Nat] /\ LOSSES \in Nat
  /\ {UNREAD, HALF, ABORTS, IDLE, PATIENT} \subseteq BOOLEAN
  /\ {TCP_MAXRTX, TCP_SYNMAXRTX} \subseteq Nat \ {0}

Other(h) == CHOOSE k \in Hosts : k # h

(* pcb: the connection of a host; old says how long ago its tmr is: 0, 1,  *)
(* or 2 for very long; "none" is no pcb, the server then only has its      *)
(* listening one.  wrote, got: how many bytes the application wrote, and   *)
(* what it received; eof, err: it was told of the end, of an error; done:  *)
(* it has closed, aborted or shut; ended: how the pcb went away; net: what *)
(* is under way, lost: how much was lost.                                  *)
VARIABLES pcb, wrote, got, eof, err, done, ended, net, lost
vars == <<pcb, wrote, got, eof, err, done, ended, net, lost>>

Iss == [h \in Hosts |-> IF h = Client THEN 3 ELSE SEQ - 2]
NoPcb == [state |-> "none", sent |-> {}, rsts |-> {}, answer |-> FALSE, res |-> ""]

(* tcp_alloc *)
tcp_alloc(h) ==
  [state |-> "CLOSED", snd_nxt |-> Iss[h], lastack |-> Iss[h], snd_lbb |-> Iss[h],
   snd_buf |-> TCP_SND_BUF, snd_queuelen |-> 0, snd_wnd |-> 0, snd_wl1 |-> 0, snd_wl2 |-> Iss[h],
   cwnd |-> 1, ssthresh |-> 0, unsent |-> <<>>, unacked |-> <<>>, oversize |-> 0, nrtx |-> 0,
   dupacks |-> 0, infr |-> FALSE, rtime |-> FALSE, persist |-> 0, fin |-> FALSE,
   memerr |-> FALSE, acked |-> 0, sent |-> {}, rcv_nxt |-> 0, rcv_wnd |-> TCP_WND,
   ann_wnd |-> TCP_WND, edge |-> 0, ooseq |-> <<>>, out |-> <<>>, got_fin |-> FALSE,
   ack |-> "no", answer |-> FALSE, rxclosed |-> FALSE, rsts |-> {}, res |-> "",
   old |-> 0]

Init ==
  /\ pcb = [h \in Hosts |-> NoPcb]
  /\ wrote = [h \in Hosts |-> 0] /\ got = [h \in Hosts |-> <<>>]
  /\ eof = [h \in Hosts |-> FALSE] /\ err = [h \in Hosts |-> FALSE]
  /\ done = [h \in Hosts |-> ""] /\ ended = [h \in Hosts |-> ""]
  /\ net = {} /\ lost = 0

-----------------------------------------------------------------------------
(* Packets.  A segment leaves with what the pcb acknowledges. *)
Packet(h, p, g) ==
  [to |-> Other(h), seq |-> g.seq, len |-> g.len, data |-> g.data, fin |-> g.fin, syn |-> g.syn,
   rst |-> FALSE, ack |-> p.state # "SYN_SENT", ackno |-> p.rcv_nxt, wnd |-> p.ann_wnd]
Empty(p) == [seq |-> p.snd_nxt, len |-> 0, data |-> <<>>, fin |-> FALSE, syn |-> FALSE]
tcp_rst(h, seq, ackno) ==
  [to |-> Other(h), seq |-> seq, len |-> 0, data |-> <<>>, fin |-> FALSE, syn |-> FALSE,
   rst |-> TRUE, ack |-> TRUE, ackno |-> ackno, wnd |-> TCP_WND]

Packets(h, p) ==
  {Packet(h, p, g) : g \in p.sent \cup (IF p.answer THEN {Empty(p)} ELSE {})} \cup p.rsts

Clear(p) == IF p.state = "none" THEN NoPcb
            ELSE [p EXCEPT !.sent = {}, !.rsts = {}, !.answer = FALSE, !.res = "",
                           !.out = <<>>, !.got_fin = FALSE]
(* tcp_pcb_remove and memp_free: a delayed acknowledgement is sent. *)
Freed(h, p) ==
  [NoPcb EXCEPT !.rsts = p.rsts \cup
     (IF p.ack = "delay" /\ p.state # "TIME_WAIT" THEN {Packet(h, p, Empty(p))} ELSE {})]

(* A step leaves p; some of what it sends is lost. *)
Leave(h, p, rest) ==
  \E drop \in SUBSET Packets(h, p) :
    /\ lost' = lost + Cardinality(drop) /\ lost' <= LOSSES
    /\ net' = rest \cup (Packets(h, p) \ drop)
    /\ pcb' = [pcb EXCEPT ![h] = Clear(p)]

tcp_pcb_purge(p) ==
  [p EXCEPT !.unsent = <<>>, !.unacked = <<>>, !.ooseq = <<>>, !.rtime = FALSE, !.oversize = 0]
TimeWait(p) == [tcp_pcb_purge(p) EXCEPT !.state = "TIME_WAIT"]

(* tcp_abandon with a reset *)
Reset(h, p) ==
  Freed(h, IF p.state = "TIME_WAIT" THEN p
           ELSE [p EXCEPT !.rsts = @ \cup {tcp_rst(h, p.snd_nxt, p.rcv_nxt)}])

-----------------------------------------------------------------------------
(* The application *)
tcp_connect ==
  LET a == tcp_alloc(Client)
      p == [a EXCEPT !.lastack = Minus(@, 1), !.snd_lbb = Minus(@, 1),
                     !.snd_wnd = TCP_WND, !.ssthresh = 10 * MSS]
  IN  /\ pcb[Client].state = "none" /\ ended[Client] = ""
      /\ Leave(Client, tcp_output([tcp_enqueue_flags(p, TRUE, FALSE, TRUE) EXCEPT !.state = "SYN_SENT"], {}), net)
      /\ UNCHANGED <<wrote, got, eof, err, done, ended>>

Write(h) ==
  /\ pcb[h].state \in {"ESTABLISHED", "CLOSE_WAIT"} /\ wrote[h] < N[h]
  /\ LET u == tcp_write(pcb[h], <<wrote[h] + 1>>, TRUE)
     IN  /\ wrote' = [wrote EXCEPT ![h] = @ + Minus(u.snd_lbb, pcb[h].snd_lbb)]
         /\ Leave(h, tcp_output(u, {}), net)
  /\ UNCHANGED <<got, eof, err, done, ended>>

Read(h) ==
  /\ pcb[h].state \notin {"none", "SYN_SENT", "TIME_WAIT"} /\ pcb[h].rcv_wnd < TCP_WND
  /\ LET u == Recved(pcb[h], TCP_WND - pcb[h].rcv_wnd)
     IN  Leave(h, IF u.ack = "now" THEN tcp_output(u, {}) ELSE u, net)
  /\ UNCHANGED <<wrote, got, eof, err, done, ended>>

(* tcp_close_shutdown of a connection that is open: the FIN is queued, or  *)
(* else the application has to try again.                                  *)
Ended(p) ==
  IF p.state \notin {"ESTABLISHED", "CLOSE_WAIT"} THEN p
  ELSE IF ~FinQueued(p, TRUE) THEN tcp_send_fin(p, TRUE)
  ELSE tcp_output([tcp_send_fin(p, TRUE) EXCEPT
                     !.state = IF @ = "CLOSE_WAIT" THEN "LAST_ACK" ELSE "FIN_WAIT_1"], {})
IsEnded(p) == p.state \in {"ESTABLISHED", "CLOSE_WAIT"} => FinQueued(p, TRUE)

(* tcp_close.  Data that was not read resets the connection.               *)
Unread(p) == p.rcv_wnd # TCP_WND

tcp_close(h) ==
  LET p == [pcb[h] EXCEPT !.rxclosed = TRUE]
      aborts == Unread(p) \/ p.state = "SYN_SENT"
  IN  /\ pcb[h].state \notin {"none", "SYN_RCVD", "TIME_WAIT"} /\ done[h] # "closed"
      /\ Unread(p) => UNREAD
      /\ Leave(h, IF Unread(p)
                    THEN TimeWait([p EXCEPT !.rsts = {tcp_rst(h, p.snd_nxt, p.rcv_nxt)}])
                  ELSE IF p.state = "SYN_SENT" THEN NoPcb ELSE Ended(p), net)
      /\ done' = [done EXCEPT ![h] = IF aborts \/ IsEnded(p) THEN "closed" ELSE @]
      /\ ended' = [ended EXCEPT ![h] = IF aborts THEN "abort" ELSE @]
      /\ UNCHANGED <<wrote, got, eof, err>>

(* tcp_shutdown of the sending side *)
tcp_shutdown(h) ==
  /\ HALF /\ pcb[h].state \in {"ESTABLISHED", "CLOSE_WAIT"} /\ done[h] = ""
  /\ Leave(h, Ended(pcb[h]), net)
  /\ done' = [done EXCEPT ![h] = IF IsEnded(pcb[h]) THEN "shut" ELSE @]
  /\ UNCHANGED <<wrote, got, eof, err, ended>>

tcp_abort(h) ==
  /\ ABORTS /\ pcb[h].state \notin {"none", "SYN_RCVD", "TIME_WAIT"} /\ done[h] # "closed"
  /\ Leave(h, Reset(h, pcb[h]), net)
  /\ done' = [done EXCEPT ![h] = "closed"] /\ err' = [err EXCEPT ![h] = TRUE]
  /\ ended' = [ended EXCEPT ![h] = "abort"]
  /\ UNCHANGED <<wrote, got, eof>>

-----------------------------------------------------------------------------
(* tcp_process.  res is "reset" for TF_RESET, "closed" for TF_CLOSED.      *)
Answer(h, p, g) == [p EXCEPT !.rsts = @ \cup {tcp_rst(h, g.ackno, Plus(g.seq, TCPLEN(g)))}]

tcp_receive(p, g) == ReceiveData(IF g.ack THEN ReceiveAck(p, g) ELSE p, g, TRUE)

(* The mutant frees more than the SYN took.  *)
SynSentWith(h, p, g, buf) ==
  LET rest == Tail(p.unacked)
  IN  IF g.ack /\ g.syn /\ g.ackno = Plus(Head(p.unacked).seq, 1)
        THEN tcp_ack_now([p EXCEPT !.snd_buf = @ + buf, !.rcv_nxt = Plus(g.seq, 1),
               !.edge = Plus(g.seq, 1), !.lastack = g.ackno, !.snd_wnd = g.wnd,
               !.snd_wl1 = Minus(g.seq, 1), !.state = "ESTABLISHED", !.ssthresh = 10 * MSS,
               !.cwnd = IF @ = 1 THEN 2 * MSS ELSE MSS, !.snd_queuelen = @ - 1,
               !.unacked = rest, !.rtime = rest # <<>>, !.nrtx = 0])
      ELSE IF g.ack THEN Answer(h, p, g) ELSE p
SynSent_twice(h, p, g) == SynSentWith(h, p, g, 3)
SynSent(h, p, g) == SynSentWith(h, p, g, 1)

(* The mutant forgets how far it has received. *)
Established(u) == IF u.got_fin THEN [tcp_ack_now(u) EXCEPT !.state = "CLOSE_WAIT"] ELSE u
SynRcvdWith(h, p, g, Receive(_, _)) ==
  IF g.ack
    THEN IF BETWEEN(g.ackno, Plus(p.lastack, 1), p.snd_nxt)
           THEN Established([Receive([p EXCEPT !.state = "ESTABLISHED"], g) EXCEPT
                               !.acked = IF @ # 0 THEN @ - 1 ELSE @,
                               !.cwnd = IF p.cwnd = 1 THEN 2 * MSS ELSE MSS])
           ELSE Answer(h, p, g)
    ELSE IF g.syn /\ g.seq = Minus(p.rcv_nxt, 1) THEN tcp_rexmit(p) ELSE p
SynRcvd_stale(h, p, g) ==
  SynRcvdWith(h, p, g, LAMBDA q, k : [tcp_receive(q, k) EXCEPT !.rcv_nxt = p.rcv_nxt])
SynRcvd(h, p, g) == SynRcvdWith(h, p, g, tcp_receive)

(* The states after ESTABLISHED.  All: the segment acknowledges everything *)
(* that was sent.  The mutant does not wait for that.                      *)
All_any(u, g) == g.ack
All(u, g) == g.ack /\ g.ackno = u.snd_nxt

Synchronized(u, g) ==
  CASE u.state \in {"ESTABLISHED", "CLOSE_WAIT"} -> Established(u)
    [] u.state = "FIN_WAIT_1" ->
         IF u.got_fin THEN IF All(u, g) THEN TimeWait(tcp_ack_now(u))
                           ELSE [tcp_ack_now(u) EXCEPT !.state = "CLOSING"]
         ELSE IF All(u, g) THEN [u EXCEPT !.state = "FIN_WAIT_2"] ELSE u
    [] u.state = "FIN_WAIT_2" -> IF u.got_fin THEN TimeWait(tcp_ack_now(u)) ELSE u
    [] u.state = "CLOSING"    -> IF All(u, g) THEN TimeWait(u) ELSE u
    [] u.state = "LAST_ACK"   -> IF All(u, g) THEN [u EXCEPT !.res = "closed"] ELSE u

(* Whether a reset is to be believed *)
Acceptable(p, g) ==
  IF p.state = "SYN_SENT" THEN g.ackno = p.snd_nxt
  ELSE BETWEEN(g.seq, p.rcv_nxt, Plus(p.rcv_nxt, p.rcv_wnd))

tcp_process(h, p, g) ==
  IF g.rst THEN IF Acceptable(p, g) THEN [p EXCEPT !.res = "reset", !.ack = "no"] ELSE p
  ELSE IF g.syn /\ p.state \notin {"SYN_SENT", "SYN_RCVD"} THEN tcp_ack_now(p)
  ELSE LET q == [p EXCEPT !.old = IF p.rxclosed THEN @ ELSE 0]
       IN  CASE p.state = "SYN_SENT" -> SynSent(h, q, g)
             [] p.state = "SYN_RCVD" -> SynRcvd(h, q, g)
             [] OTHER -> Synchronized(tcp_receive(q, g), g)

-----------------------------------------------------------------------------
(* tcp_listen_input *)
tcp_listen_input(h, g) ==
  LET p == [tcp_alloc(h) EXCEPT !.state = "SYN_RCVD", !.rcv_nxt = Plus(g.seq, 1),
              !.edge = Plus(g.seq, 1), !.snd_wnd = g.wnd, !.ssthresh = g.wnd,
              !.snd_wl1 = Minus(g.seq, 1)]
  IN  IF g.ack THEN [NoPcb EXCEPT !.rsts = {tcp_rst(h, Plus(g.ackno, 1), Plus(g.seq, TCPLEN(g)))}]
      ELSE IF g.syn THEN tcp_output(tcp_enqueue_flags(p, TRUE, FALSE, TRUE), {})
      ELSE NoPcb

(* The mutant does not acknowledge a FIN that comes again. *)
tcp_timewait_input_reset(h, p, g) == IF g.rst THEN p ELSE Answer(h, p, g)
tcp_timewait_input(h, p, g) ==
  IF g.rst THEN p
  ELSE IF g.syn /\ BETWEEN(g.seq, p.rcv_nxt, Plus(p.rcv_nxt, p.rcv_wnd)) THEN Answer(h, p, g)
  ELSE IF TCPLEN(g) > 0 THEN tcp_output([tcp_ack_now(p) EXCEPT !.old = IF g.fin /\ ~g.syn THEN 0 ELSE @], {})
  ELSE p

(* What tcp_input does with a segment that no connection takes *)
Unclaimed(h, g) ==
  IF g.rst THEN NoPcb
  ELSE IF h = Server /\ ended[h] = "" THEN tcp_listen_input(h, g)
  ELSE [NoPcb EXCEPT !.rsts = {tcp_rst(h, g.ackno, Plus(g.seq, TCPLEN(g)))}]

(* The part of tcp_input after tcp_process, which left u.  Data for an     *)
(* application that has closed reset the connection.                       *)
Unwanted(u) == u.out # <<>> /\ u.rxclosed
Told(h, u) ==
  IF Unwanted(u) THEN Reset(h, u)
  ELSE tcp_output([u EXCEPT !.rcv_wnd = IF u.got_fin /\ @ # TCP_WND THEN @ + 1 ELSE @], {})

Processed(h, u, rest) ==
  LET lives == u.res = "" /\ ~Unwanted(u)
  IN  /\ Leave(h, IF u.res # "" THEN Freed(h, u) ELSE Told(h, u), rest)
      /\ got' = [got EXCEPT ![h] = IF lives THEN @ \o u.out ELSE @]
      /\ eof' = [eof EXCEPT ![h] = @ \/ (lives /\ u.got_fin)]
      /\ err' = [err EXCEPT ![h] = @ \/ u.res = "reset" \/ (u.res = "" /\ ~lives)
                                     \/ (u.res = "closed" /\ ~u.rxclosed)]
      /\ ended' = [ended EXCEPT ![h] = IF lives THEN @
                                       ELSE IF u.res = "" THEN "abort" ELSE u.res]
      /\ UNCHANGED <<wrote, done>>

tcp_input(h, g, rest) ==
  \/ /\ pcb[h].state = "none"
     /\ Leave(h, Unclaimed(h, g), rest)
     /\ UNCHANGED <<wrote, got, eof, err, done, ended>>
  \/ /\ pcb[h].state = "TIME_WAIT"
     /\ Leave(h, tcp_timewait_input(h, pcb[h], g), rest)
     /\ UNCHANGED <<wrote, got, eof, err, done, ended>>
  \/ /\ pcb[h].state \notin {"none", "TIME_WAIT"}
     /\ Processed(h, tcp_process(h, pcb[h], g), rest)

Arrive == \E g \in net : tcp_input(g.to, g, net \ {g})

-----------------------------------------------------------------------------
(* tcp_slowtmr: expired, the timer that is running runs out; polled, the   *)
(* poll interval is over.  Waiting for the last acknowledgements of a      *)
(* connection ends when tmr is too long ago.  The mutant knows no timeout  *)
(* of FIN_WAIT_2.                                                          *)
Limit_ack(p) == IF p.state \in {"LAST_ACK", "TIME_WAIT"} THEN 2 ELSE 3
Limit(p) == IF p.state \in {"FIN_WAIT_2", "SYN_RCVD"} THEN 1
            ELSE IF p.state \in {"LAST_ACK", "TIME_WAIT"} THEN 2 ELSE 3
Late(p) == p.state # "none" /\ p.old >= Limit(p)
GivenUp(p) == p.nrtx = IF p.state = "SYN_SENT" THEN TCP_SYNMAXRTX ELSE TCP_MAXRTX

GoAway(h, p, how) ==
  /\ Leave(h, [NoPcb EXCEPT !.rsts = Packets(h, p)], net)
  /\ ended' = [ended EXCEPT ![h] = IF @ = "" THEN how ELSE @]

tcp_slowtmr(h) == \E expired, polled \in BOOLEAN :
  LET p == pcb[h]
      u == IF GivenUp(p) THEN p ELSE Timers(p, expired, {})
      t == [u EXCEPT !.ooseq = IF p.old > 0 THEN <<>> ELSE @]
  IN  /\ p.state \notin {"none", "TIME_WAIT"}
      /\ PATIENT /\ expired => net = {}
      /\ IF GivenUp(p) \/ Late(p)
           THEN /\ GoAway(h, t, IF Late(p) THEN "late" ELSE "timeout")
                /\ err' = [err EXCEPT ![h] = TRUE]
           ELSE /\ Leave(h, IF polled THEN tcp_output(t, {}) ELSE t, net)
                /\ UNCHANGED <<err, ended>>
      /\ UNCHANGED <<wrote, got, eof, done>>

TimeWaitOver(h) ==
  /\ pcb[h].state = "TIME_WAIT" /\ Late(pcb[h])
  /\ GoAway(h, pcb[h], "closed")
  /\ UNCHANGED <<wrote, got, eof, err, done>>

(* A long time passes while nothing is under way and no other timer is     *)
(* running, but that of a host that has sent again for long.               *)
Quiet(d) ==
  /\ net = {}
  /\ \A h \in Hosts : pcb[h].state # "none" =>
       /\ ~Late(pcb[h]) /\ d <= Limit(pcb[h])
       /\ pcb[h].ack = "delay" => pcb[h].state = "TIME_WAIT"
       /\ pcb[h].rtime \/ pcb[h].persist > 0 => Limit(pcb[h]) <= 2 /\ pcb[h].nrtx > 0

LongTime == \E d \in 1..2 :
  /\ Quiet(d)
  /\ IDLE \/ \E h \in Hosts : Limit(pcb[h]) <= 2
  /\ pcb' = [h \in Hosts |-> IF pcb[h].state = "none" THEN pcb[h]
                              ELSE [pcb[h] EXCEPT !.old = Max({@, d})]]
  /\ UNCHANGED <<wrote, got, eof, err, done, ended, net, lost>>

tcp_fasttmr(h) ==
  /\ pcb[h].state \notin {"none", "TIME_WAIT"} /\ pcb[h].ack = "delay"
  /\ Leave(h, [tcp_output(tcp_ack_now(pcb[h]), {}) EXCEPT !.ack = "no"], net)
  /\ UNCHANGED <<wrote, got, eof, err, done, ended>>

Next ==
  \/ tcp_connect \/ Arrive \/ LongTime
  \/ \E h \in Hosts : \/ Write(h) \/ Read(h) \/ tcp_close(h) \/ tcp_shutdown(h) \/ tcp_abort(h)
                      \/ tcp_slowtmr(h) \/ TimeWaitOver(h) \/ tcp_fasttmr(h)

Spec == Init /\ [][Next]_vars

(* Fairness is written out: what is under way arrives or is lost, no timer *)
(* that has something to do waits for ever, and time passes.               *)
Due(h) ==
  LET p == pcb[h]
  IN  /\ p.state # "none"
      /\ \/ Late(p)
         \/ /\ p.state # "TIME_WAIT"
            /\ \/ GivenUp(p) \/ p.ack = "delay"
               \/ p.unsent # <<>> /\ Sends(p, Head(p.unsent), {})
               \/ net = {} /\ IF p.persist > 0 THEN p.unacked \o p.unsent # <<>>
                               ELSE p.rtime /\ p.unacked # <<>>

Fairness ==
  /\ []<>(net = {})
  /\ \A h \in Hosts : []<>~Due(h)
  /\ []<>~(\E d \in 1..2, h \in Hosts :
             Quiet(d) /\ pcb[h].state # "none" /\ Limit(pcb[h]) = d)

FairSpec == Spec /\ Fairness

-----------------------------------------------------------------------------
States == {"none", "SYN_SENT", "SYN_RCVD", "ESTABLISHED", "CLOSE_WAIT", "FIN_WAIT_1",
           "FIN_WAIT_2", "CLOSING", "LAST_ACK", "TIME_WAIT"}

(* A pcb is in one of its states, and what was to be sent has left.        *)
TcpTypeOK ==
  \A h \in Hosts : /\ pcb[h].state \in States /\ pcb[h].sent = {} /\ pcb[h].rsts = {}
                   /\ pcb[h].state # "none" => pcb[h].snd_buf \in 0..TCP_SND_BUF+1
                   /\ ended[h] \in {"", "closed", "reset", "abort", "timeout", "late"}

(* "unsent data is sent from tcp timer functions, also": a connection is   *)
(* only over for a host when everything it wrote has arrived, unless one   *)
(* of the two has cut it off.                                              *)
Cut == {"abort", "timeout", "late"}
ClosedDelivered == \A h \in Hosts : ended[h] = "closed" /\ ended[Other(h)] \notin Cut =>
                     Len(got[Other(h)]) = wrote[h]

(* Whatever is lost, repeated and late, each application has a prefix of   *)
(* what the other wrote.                                                   *)
Prefix == \A h \in Hosts : got[h] = [i \in 1..Len(got[h]) |-> i] /\ Len(got[h]) <= wrote[Other(h)]

(* The end of the stream is told to one who has everything, after the      *)
(* other has closed.                                                       *)
EofExact == \A h \in Hosts : eof[h] => done[Other(h)] # "" /\ Len(got[h]) = wrote[Other(h)]

(* Two hosts that both hold the connection agree on what was received.     *)
Open == {"ESTABLISHED", "CLOSE_WAIT", "FIN_WAIT_1", "FIN_WAIT_2", "CLOSING", "LAST_ACK"}
Agree == \A h \in Hosts : pcb[h].state \in Open /\ pcb[Other(h)].state \in Open =>
           BETWEEN(pcb[Other(h)].rcv_nxt, pcb[h].lastack, pcb[h].snd_nxt)

(* Nobody resets a connection that no application has aborted, or closed   *)
(* too early, and that no timer has ended.                                 *)
NoStrayReset == (\A h \in Hosts : ended[h] \notin Cut) =>
                  \A h \in Hosts : ended[h] # "reset"

(* When both applications have closed, both pcbs go away: nothing is left  *)
(* waiting for the other for ever.                                         *)
AllGone == (\A h \in Hosts : done[h] = "closed") ~> (\A h \in Hosts : pcb[h].state = "none")
=============================================================================
