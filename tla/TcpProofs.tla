------------------------------ MODULE TcpProofs ------------------------------
(***************************************************************************)
(* ReceiveSound and EdgeKept for streams, windows, words and segments of   *)
(* any length, as long as no number wraps round (NoWrap).  Where they do,  *)
(* AtWindow compares them as if they did not, and ReceiveSound fails.      *)
(*                                                                         *)
(* Without wrapping round the comparisons of sequence numbers are those of *)
(* integers.  A segment is then a Piece of the stream, and everything the  *)
(* code does with a segment gives a Piece again.  Middle is what holds of  *)
(* the pcb between any two steps of tcp_receive, while out is ahead of     *)
(* what the application has; every step is shown to keep it.               *)
(***************************************************************************)
EXTENDS TcpReceive, SequenceTheorems, FiniteSetTheorems, TLAPS

(* No number of the connection or of a window at its end wraps round.      *)
NoWrap == IRS + N + WORD + TCP_WND + 2 <= SEQ

Starts == IRS..IRS + N
Nums   == IRS..IRS + N + WORD + TCP_WND + 1

(* A segment that holds bytes of the stream under their numbers, with the  *)
(* FIN behind the last one.                                                *)
Segs  == [seq : Starts, len : 0..N, data : Seq(Nat), fin : BOOLEAN, syn : {FALSE}]
Holds(g) == /\ g.seq + g.len <= IRS + N /\ (g.fin => g.seq + g.len = IRS + N)
            /\ Len(g.data) = g.len
            /\ \A i \in 1..g.len : g.data[i] = g.seq - IRS + i
Piece == {g \in Segs : Holds(g)}

(* A queue of pieces between lo and hi, in order and without overlaps.     *)
Queued(q, lo, hi) ==
  /\ q \in Seq(Piece)
  /\ \A i \in 1..Len(q) : /\ lo <= q[i].seq /\ q[i].seq + q[i].len <= hi
                          /\ q[i].fin => i = Len(q)
  /\ \A i, j \in 1..Len(q) : i < j => q[i].seq + q[i].len <= q[j].seq

Pcb == [rcv_nxt : IRS..IRS + N + 1, rcv_wnd : 0..WORD-1, ann_wnd : 0..WORD-1,
        edge : IRS..IRS + N + WORD, ooseq : Seq(Piece), out : Seq(Nat),
        got_fin : BOOLEAN, ack : {"no", "delay", "now"}, answer : BOOLEAN]

(* How many bytes have been handed over, and where the window ends that    *)
(* the application has room for.                                           *)
Have  == Len(taken) + Len(refused)
Right == IRS + eof + used + TCP_WND

(* The pcb within a step.  A FIN may be taken off a window that is full;   *)
(* then the window is short of one until Ended gives it back, and what is  *)
(* announced may be too much, but only behind the end of the stream.       *)
Stands(u) ==
  /\ ~u.got_fin => u.rcv_nxt = IRS + Have + Len(u.out) + eof
  /\ u.got_fin => u.rcv_nxt = IRS + Have + Len(u.out) + 1
  /\ Have + Len(u.out) <= N
  /\ u.got_fin => eof = 0 /\ Have + Len(u.out) = N
  /\ \A i \in 1..Len(u.out) : u.out[i] = Have + i
Windows(u) ==
  /\ Right - u.rcv_nxt \in -1..TCP_WND /\ (~u.got_fin => u.rcv_nxt <= Right)
  /\ u.rcv_wnd = (Right - u.rcv_nxt) % WORD
  /\ eof = 0 /\ ~u.got_fin => u.ann_wnd <= u.rcv_wnd
  /\ u.rcv_nxt - 1 <= u.edge /\ u.edge <= u.rcv_nxt + u.ann_wnd
Middle(u) == u \in Pcb /\ Stands(u) /\ Windows(u) /\ Queued(u.ooseq, u.rcv_nxt, u.edge)

(* What the application has, or what waits for it, is the stream.          *)
Stream ==
  /\ taken \in Seq(Nat) /\ refused \in Seq(Nat)
  /\ \A i \in 1..Len(taken) : taken[i] = i
  /\ \A i \in 1..Len(refused) : refused[i] = Len(taken) + i
  /\ used \in 0..Len(taken) /\ Have <= N /\ eof \in 0..1 /\ (eof = 1 => Have = N)

(* The pcb when out is handed over: n bytes have come, e ends were told,   *)
(* and the application gave back the window of k.                          *)
Even(u, n, e, k) ==
  /\ u \in Pcb /\ u.rcv_nxt = IRS + n + e /\ u.rcv_wnd = TCP_WND - (n - k)
  /\ e = 0 => u.ann_wnd <= u.rcv_wnd
  /\ u.rcv_nxt - 1 <= u.edge /\ u.edge <= u.rcv_nxt + u.ann_wnd
  /\ Queued(u.ooseq, u.rcv_nxt + 1, u.edge)

(* The inductive invariant: between two steps nothing is chained, the      *)
(* window is exact and the first segment of the queue does not follow.     *)
Rests(u) == u.out = <<>> /\ ~u.got_fin /\ ~u.answer /\ u.ack # "now"
TcpInv == Stream /\ Rests(r) /\ Even(r, Have, eof, used)

-----------------------------------------------------------------------------
(* The constants, as numbers. *)
LEMMA Sizes ==
  /\ SEQ \in Nat /\ WORD \in Nat /\ TCP_WND \in Nat /\ MSS \in Nat /\ N \in Nat /\ IRS \in Nat
  /\ 4 * WORD <= SEQ /\ TCP_WND + 1 < WORD /\ MSS >= 1 /\ TCP_WND >= 1
  /\ N + WORD + TCP_WND + 2 < SEQ \div 2 /\ IRS <= SEQ - 1 /\ SEQ % 2 = 0
  BY TcpReceiveAssumption DEF TcpReceiveAssumption, TcpInAssumption

(* Half of the numbers. *)
LEMMA Half == SEQ \div 2 \in Nat /\ SEQ = (SEQ \div 2) + (SEQ \div 2)
  BY Sizes

(* Remainders near 0. *)
LEMMA ModBelow ==
  ASSUME NEW m \in Nat \ {0}, NEW x \in Int
  PROVE  /\ 0 <= x /\ x < m => x % m = x
         /\ -m <= x /\ x < 0 => x % m = x + m
         /\ x % m \in 0..m - 1
  OBVIOUS

(* A number below the modulus is its remainder. *)
LEMMA ModSame ==
  ASSUME NEW m \in Nat \ {0}, NEW x \in 0..m - 1
  PROVE  x % m = x
  OBVIOUS

(* A number just below 0 comes round once. *)
LEMMA ModNext ==
  ASSUME NEW m \in Nat \ {0}, NEW x \in -m..-1
  PROVE  x % m = x + m
  OBVIOUS

(* The smaller of two numbers. *)
LEMMA MinOfTwo ==
  ASSUME NEW a \in Int, NEW b \in Int
  PROVE  Min({a, b}) = IF a <= b THEN a ELSE b
  <1>1. CASE a <= b
    BY <1>1 DEF Min
  <1>2. CASE ~(a <= b)
    BY <1>2 DEF Min
  <1> QED
    BY <1>1, <1>2

(* Sequence numbers that do not wrap round are compared as integers.       *)
LEMMA Compared ==
  ASSUME NoWrap, NEW a \in Nums, NEW b \in Nums
  PROVE  /\ GEQ(a, b) <=> a >= b
         /\ GT(a, b) <=> a > b
         /\ a >= b => Minus(a, b) = a - b
  <1>1. a \in Int /\ b \in Int /\ a - b < SEQ \div 2 /\ b - a < SEQ \div 2 /\ SEQ \in Nat \ {0}
    BY Sizes, Half DEF Nums
  <1>2. a >= b => (a - b) % SEQ = a - b
    <2>1. a >= b => a - b \in 0..SEQ - 1
      BY <1>1, Half
    <2> QED
      BY <2>1, <1>1, ModSame
  <1>3. a < b => (a - b) % SEQ = a - b + SEQ
    <2>1. a < b => a - b \in -SEQ..-1
      BY <1>1, Half
    <2> QED
      BY <2>1, <1>1, ModNext
  <1> QED
    BY <1>1, <1>2, <1>3, Half DEF GEQ, GT, Minus

(* A sum that does not wrap round is a sum. *)
LEMMA PlusIs ==
  ASSUME NEW a \in Int, NEW n \in Int, a + n \in 0..SEQ - 1
  PROVE  Plus(a, n) = a + n
  <1>1. SEQ \in Nat \ {0}
    BY Sizes
  <1> DEFINE x == a + n
  <1>2. x \in 0..SEQ - 1
    OBVIOUS
  <1> HIDE DEF x
  <1>3. x % SEQ = x
    BY <1>1, <1>2, ModSame
  <1> QED
    BY <1>3 DEF Plus, x

(* A sum that stays within the connection's numbers is a sum. *)
LEMMA PlusNums ==
  ASSUME NoWrap, NEW a \in Int, NEW n \in Int, a + n \in Nums
  PROVE  Plus(a, n) = a + n
  <1>1. a + n \in 0..SEQ - 1
    BY Sizes DEF Nums, NoWrap
  <1> QED
    BY ONLY <1>1, PlusIs, a \in Int, n \in Int

(* What is within a window: nothing, if it is closed.                      *)
LEMMA WithinIs ==
  ASSUME NoWrap, NEW u \in Pcb, NEW g \in Piece
  PROVE  InWindow(u, g) <=> u.rcv_nxt <= g.seq /\ g.seq < u.rcv_nxt + u.rcv_wnd
  <1> DEFINE a == g.seq
             b == u.rcv_nxt
             w == u.rcv_wnd
  <1>1. a \in IRS..IRS + N /\ b \in IRS..IRS + N + 1 /\ w \in 0..WORD - 1
    BY DEF Pcb, Piece, Segs, Starts
  <1>2. a \in Nums /\ b \in Nums
    BY <1>1, Sizes DEF Nums
  <1>3. GEQ(a, b) <=> a >= b
    BY <1>2, Compared
  <1>4. CASE w > 0
    <2>1. b + w - 1 \in Nums /\ b + (w - 1) = b + w - 1
      BY <1>1, <1>4, Sizes DEF Nums
    <2>2. Plus(b, w - 1) = b + w - 1
      BY <2>1, <1>1, PlusNums, Sizes
    <2>3. GEQ(b + w - 1, a) <=> b + w - 1 >= a
      BY <2>1, <1>2, Compared
    <2> QED
      BY <1>1, <1>3, <2>2, <2>3, Sizes DEF InWindow, BETWEEN
  <1>5. CASE w = 0 /\ a >= b
    <2> DEFINE c == Plus(b, w - 1)
    <2>1. b + (w - 1) = b - 1 /\ SEQ \in Nat \ {0} /\ b \in Int /\ a \in Int
      BY <1>1, <1>5, Sizes
    <2>2. ASSUME b = 0 PROVE ~GEQ(c, a)
      <3>1. b - 1 \in -SEQ..-1 /\ (b - 1) + SEQ - a \in 0..SEQ - 1
            /\ (b - 1) + SEQ - a >= SEQ \div 2
        BY <2>1, <2>2, <1>1, Sizes, Half DEF NoWrap
      <3>2. c = (b - 1) + SEQ
        BY <3>1, <2>1, ModNext DEF Plus
      <3>3. (c - a) % SEQ = (b - 1) + SEQ - a
        BY <3>1, <3>2, <2>1, ModSame
      <3> QED
        BY <3>1, <3>3, <2>1, Half DEF GEQ, Minus
    <2>3. ASSUME b # 0 PROVE ~GEQ(c, a)
      <3>1. b - 1 \in 0..SEQ - 1 /\ (b - 1) - a \in -SEQ..-1
            /\ (b - 1) - a + SEQ >= SEQ \div 2
        BY <2>1, <2>3, <1>1, <1>5, Sizes, Half DEF NoWrap
      <3>2. c = b - 1
        BY <3>1, <2>1, ModSame DEF Plus
      <3>3. (c - a) % SEQ = (b - 1) - a + SEQ
        BY <3>1, <3>2, <2>1, ModNext
      <3> QED
        BY <3>1, <3>3, <2>1, Half DEF GEQ, Minus
    <2>4. ~GEQ(c, a)
      BY <2>2, <2>3
    <2> QED
      BY <2>4, <1>5, <1>1 DEF InWindow, BETWEEN
  <1>6. CASE w = 0 /\ ~(a >= b)
    BY <1>3, <1>6, <1>1 DEF InWindow, BETWEEN
  <1> QED
    BY <1>1, <1>4, <1>5, <1>6

-----------------------------------------------------------------------------
(* The fields of the pcb. *)
LEMMA PcbIs ==
  ASSUME NEW u \in Pcb
  PROVE  /\ u.rcv_nxt \in IRS..IRS + N + 1 /\ u.rcv_wnd \in 0..WORD-1 /\ u.ann_wnd \in 0..WORD-1
         /\ u.edge \in IRS..IRS + N + WORD /\ u.ooseq \in Seq(Piece) /\ u.out \in Seq(Nat)
         /\ u.got_fin \in BOOLEAN /\ u.ack \in {"no", "delay", "now"} /\ u.answer \in BOOLEAN
  BY DEF Pcb

(* The numbers of the pcb and their bounds. *)
LEMMA PcbNumbers ==
  ASSUME NEW u \in Pcb
  PROVE  /\ u.rcv_nxt \in Int /\ IRS <= u.rcv_nxt /\ u.rcv_nxt <= IRS + N + 1
         /\ u.rcv_wnd \in Int /\ 0 <= u.rcv_wnd /\ u.rcv_wnd < WORD
         /\ u.ann_wnd \in Int /\ 0 <= u.ann_wnd /\ u.ann_wnd < WORD
         /\ u.edge \in Int /\ IRS <= u.edge /\ u.edge <= IRS + N + WORD
  BY PcbIs, Sizes

(* A piece lies within the stream. *)
LEMMA PieceIs ==
  ASSUME NEW g \in Piece
  PROVE  /\ g.seq \in Int /\ g.len \in Int /\ 0 <= g.len /\ g.len <= N
         /\ IRS <= g.seq /\ g.seq + g.len <= IRS + N
         /\ (g.fin => g.seq + g.len = IRS + N)
         /\ g.seq \in Nums /\ g.seq + g.len \in Nums
  <1>1. g \in Segs /\ Holds(g)
    BY DEF Piece
  <1>2. g.seq \in IRS..IRS + N /\ g.len \in 0..N
    BY <1>1 DEF Segs, Starts
  <1>4. g.seq + g.len <= IRS + N /\ (g.fin => g.seq + g.len = IRS + N)
    BY <1>1 DEF Holds
  <1>5. IRS \in Nat /\ N \in Nat /\ WORD \in Nat /\ TCP_WND \in Nat
    BY Sizes
  <1>7. g.seq \in Int /\ g.len \in Int /\ 0 <= g.len /\ IRS <= g.seq /\ g.len <= N
    BY <1>2, <1>5
  <1>8. g.seq \in Nums /\ g.seq + g.len \in Nums
    BY <1>4, <1>5, <1>7 DEF Nums
  <1> QED
    BY <1>4, <1>7, <1>8

(* TCPLEN counts the FIN of a piece, and no SYN. *)
LEMMA PieceFlags ==
  ASSUME NEW g \in Piece
  PROVE  /\ g.fin \in BOOLEAN /\ g.syn = FALSE
         /\ g.fin => TCPLEN(g) = g.len + 1
         /\ ~g.fin => TCPLEN(g) = g.len
         /\ TCPLEN(g) \in Int /\ 0 <= TCPLEN(g) /\ TCPLEN(g) <= g.len + 1
         /\ g.seq + TCPLEN(g) <= IRS + N + 1 /\ g.seq + TCPLEN(g) \in Nums
  <1>1. g \in Segs
    BY DEF Piece
  <1>2. g.fin \in BOOLEAN /\ g.syn = FALSE
    BY <1>1 DEF Segs
  <1>3. g.len \in Int /\ 0 <= g.len /\ g.seq \in Int /\ IRS <= g.seq /\ g.seq + g.len <= IRS + N
    BY PieceIs
  <1>4. (g.fin => TCPLEN(g) = g.len + 1) /\ (~g.fin => TCPLEN(g) = g.len)
    BY <1>2, <1>3 DEF TCPLEN
  <1>5. TCPLEN(g) \in Int /\ 0 <= TCPLEN(g) /\ TCPLEN(g) <= g.len + 1
    BY <1>3, <1>4
  <1>6. IRS \in Nat /\ N \in Nat /\ WORD \in Nat /\ TCP_WND \in Nat
    BY Sizes
  <1>7. g.seq + TCPLEN(g) <= IRS + N + 1 /\ g.seq + TCPLEN(g) \in Nums
    BY <1>3, <1>5, <1>6 DEF Nums
  <1> QED
    BY <1>2, <1>4, <1>5, <1>7

(* A piece holds the bytes its number says. *)
LEMMA PieceData ==
  ASSUME NEW g \in Piece
  PROVE  /\ g.data \in Seq(Nat) /\ Len(g.data) = g.len
         /\ \A i \in 1..g.len : g.data[i] = g.seq - IRS + i
  BY DEF Piece, Segs, Holds

(* The end of a piece. *)
LEMMA EndIs ==
  ASSUME NoWrap, NEW g \in Piece
  PROVE  End(g) = g.seq + g.len
  <1>1. g.seq \in Int /\ g.len \in Int /\ g.seq + g.len \in Nums
    BY PieceIs
  <1> QED
    BY <1>1, PlusNums DEF End

(* What the window is counted from are numbers. *)
LEMMA WindowSum ==
  ASSUME Stream
  PROVE  Have \in Nat /\ Right \in Nat /\ IRS \in Nat /\ N \in Nat /\ eof \in 0..1
  BY Sizes DEF Stream, Have, Right

(* What is announced reaches as far as what was announced before, and not  *)
(* beyond the window unless that was done before.                          *)
LEMMA Announces ==
  ASSUME NoWrap, NEW u \in Pcb, u.edge <= u.rcv_nxt + WORD - 1
  PROVE  \E c \in 0..WORD-1 :
           /\ tcp_update_rcv_ann_wnd(u) = [u EXCEPT !.ann_wnd = c]
           /\ u.edge <= u.rcv_nxt + c
           /\ u.edge <= u.rcv_nxt + u.rcv_wnd => c <= u.rcv_wnd
  <1> DEFINE p == u.rcv_nxt
             w == u.rcv_wnd
             e == u.edge
             m == Min({TCP_WND \div 2, MSS})
  <1>1. p \in IRS..IRS + N + 1 /\ w \in 0..WORD-1 /\ e \in IRS..IRS + N + WORD
    BY PcbIs
  <1>2. m \in 0..TCP_WND
    <2>1. TCP_WND \div 2 \in 0..TCP_WND /\ MSS \in Nat
      BY Sizes
    <2>2. m = IF TCP_WND \div 2 <= MSS THEN TCP_WND \div 2 ELSE MSS
      BY <2>1, MinOfTwo
    <2> QED
      BY <2>1, <2>2, Sizes
  <1>3. e <= p + WORD - 1
    OBVIOUS
  <1> HIDE DEF m
  <1>4. p \in Nums /\ e \in Nums /\ p + w \in Nums /\ e + m \in Nums
    BY <1>1, <1>2, Sizes DEF Nums
  <1>5. Grown(u) <=> p + w >= e + m
    <2>1. Plus(p, w) = p + w /\ Plus(e, m) = e + m
      BY <1>1, <1>2, <1>4, PlusNums, Sizes
    <2> QED
      BY <2>1, <1>4, Compared DEF Grown, m
  <1> DEFINE c == IF Grown(u) THEN w ELSE IF GT(p, e) THEN 0 ELSE Minus(e, p)
  <1>6. tcp_update_rcv_ann_wnd(u) = [u EXCEPT !.ann_wnd = c]
    BY DEF tcp_update_rcv_ann_wnd
  <1>7. GT(p, e) <=> p > e
    BY <1>4, Compared
  <1>8. e >= p => Minus(e, p) = e - p
    BY <1>4, Compared
  <1> HIDE DEF p, w, e
  <1>9. c \in 0..WORD-1 /\ e <= p + c /\ (e <= p + w => c <= w)
    BY <1>1, <1>2, <1>3, <1>5, <1>7, <1>8, Sizes
  <1> HIDE DEF c
  <1> QED
    BY <1>6, <1>9 DEF p, w, e

(* Taking the piece that follows.                                          *)
LEMMA TakeMiddle ==
  ASSUME NoWrap, Stream, eof = 0, NEW u \in Pcb, Stands(u), Windows(u), ~u.got_fin,
         NEW g \in Piece, g.seq = u.rcv_nxt, g.seq + g.len <= Right,
         g.seq + TCPLEN(g) <= u.edge + 1,
         Queued(u.ooseq, g.seq + TCPLEN(g), u.edge)
  PROVE  /\ Middle(Take(u, g))
         /\ Take(u, g).ooseq = u.ooseq /\ Take(u, g).edge = u.edge /\ Take(u, g).ack = u.ack
         /\ Take(u, g).answer = u.answer /\ Take(u, g).got_fin = g.fin
         /\ Take(u, g).rcv_nxt = g.seq + TCPLEN(g)
  <1> DEFINE n == g.seq + TCPLEN(g)
             w == (u.rcv_wnd - TCPLEN(g)) % WORD
             o == u.out \o g.data
             v == [u EXCEPT !.rcv_nxt = Plus(g.seq, TCPLEN(g)), !.rcv_wnd = w]
  <1>0. /\ u.rcv_nxt \in Int /\ IRS <= u.rcv_nxt /\ u.rcv_nxt <= IRS + N + 1
        /\ u.rcv_wnd \in Int /\ 0 <= u.rcv_wnd /\ u.rcv_wnd < WORD
        /\ u.ann_wnd \in Int /\ 0 <= u.ann_wnd /\ u.ann_wnd < WORD
        /\ u.edge \in Int /\ IRS <= u.edge /\ u.edge <= IRS + N + WORD
    BY PcbNumbers
  <1>s. /\ IRS \in Int /\ N \in Int /\ WORD \in Int /\ TCP_WND \in Int /\ 0 <= IRS /\ 0 <= N
        /\ 0 < TCP_WND /\ TCP_WND + 1 < WORD
    BY Sizes
  <1>o. u.out \in Seq(Nat) /\ Len(u.out) \in Int /\ 0 <= Len(u.out)
    BY PcbIs
  <1>g. /\ g.seq \in Int /\ g.len \in Int /\ 0 <= g.len /\ g.seq + g.len <= IRS + N
        /\ g.fin => g.seq + g.len = IRS + N
    BY PieceIs
  <1>f. /\ g.fin \in BOOLEAN
        /\ g.fin => TCPLEN(g) = g.len + 1
        /\ ~g.fin => TCPLEN(g) = g.len
        /\ TCPLEN(g) \in Int /\ 0 <= TCPLEN(g) /\ TCPLEN(g) <= g.len + 1
        /\ g.seq + TCPLEN(g) <= IRS + N + 1 /\ g.seq + TCPLEN(g) \in Nums
    BY PieceFlags
  <1>d. /\ g.data \in Seq(Nat) /\ Len(g.data) = g.len
        /\ \A i \in 1..g.len : g.data[i] = g.seq - IRS + i
    BY PieceData
  <1>h. Have \in Nat /\ Right \in Nat /\ Have \in Int /\ Right \in Int
    BY WindowSum
  <1>1. n \in IRS..IRS + N + 1 /\ n = u.rcv_nxt + TCPLEN(g) /\ n \in Nums
    BY <1>0, <1>s, <1>g, <1>f
  <1>2. Plus(g.seq, TCPLEN(g)) = n
    <2> HIDE DEF n
    <2>1. n = g.seq + TCPLEN(g)
      BY DEF n
    <2> QED
      BY <2>1, <1>g, <1>f, <1>1, PlusNums
  <1>6. /\ u.rcv_nxt - 1 <= u.edge /\ u.edge <= u.rcv_nxt + u.ann_wnd /\ u.ann_wnd <= u.rcv_wnd
        /\ u.rcv_wnd = Right - u.rcv_nxt /\ Right - u.rcv_nxt \in 0..TCP_WND
    <2>1. Right - u.rcv_nxt \in 0..TCP_WND
      BY <1>0, <1>s, <1>h DEF Windows
    <2>2. Right - u.rcv_nxt \in 0..WORD - 1
      BY <2>1, <1>0, <1>s
    <2>3. u.rcv_wnd = Right - u.rcv_nxt
      <3>1. (Right - u.rcv_nxt) % WORD = Right - u.rcv_nxt
        BY <2>2, <1>s, ModSame
      <3> QED
        BY <3>1 DEF Windows
    <2> QED
      BY <2>1, <2>3 DEF Windows
  <1>3. Right - n \in -1..TCP_WND /\ (~g.fin => n <= Right)
        /\ w = (Right - n) % WORD /\ w \in 0..WORD - 1
    <2>4. u.rcv_wnd - TCPLEN(g) = Right - n
      BY <1>0, <1>s, <1>f, <1>h, <1>6
    <2>5. Right - n \in -1..TCP_WND /\ (~g.fin => n <= Right)
      BY <1>0, <1>s, <1>g, <1>f, <1>h, <1>6
    <2>6. (Right - n) % WORD \in 0..WORD - 1
      <3>1. Right - n \in Int
        BY <2>5
      <3> HIDE DEF n
      <3> QED
        BY <3>1, <1>s, ModBelow
    <2> QED
      BY <2>4, <2>5, <2>6
  <1>4. v = [u EXCEPT !.rcv_nxt = n, !.rcv_wnd = w] /\ v \in Pcb
    <2> HIDE DEF n, w
    <2> QED
      BY <1>1, <1>2, <1>3 DEF Pcb
  <1>5. v.rcv_nxt = n /\ v.rcv_wnd = w /\ v.edge = u.edge /\ v.ooseq = u.ooseq /\ v.out = u.out
        /\ v.got_fin = u.got_fin /\ v.ack = u.ack /\ v.answer = u.answer
    <2> HIDE DEF n, w
    <2> QED
      BY <1>4, PcbIs DEF Pcb
  <1>7. v.edge <= v.rcv_nxt + WORD - 1
    <2> HIDE DEF n, w, v
    <2> QED
      BY <1>0, <1>s, <1>f, <1>1, <1>5, <1>6
  <1>8. PICK c \in 0..WORD-1 : /\ tcp_update_rcv_ann_wnd(v) = [v EXCEPT !.ann_wnd = c]
                               /\ v.edge <= v.rcv_nxt + c
                               /\ v.edge <= v.rcv_nxt + v.rcv_wnd => c <= v.rcv_wnd
    <2> HIDE DEF v
    <2> QED
      BY <1>4, <1>7, Announces
  <1> DEFINE z == [[v EXCEPT !.ann_wnd = c] EXCEPT !.out = @ \o g.data, !.got_fin = @ \/ g.fin]
  <1>9. Take(u, g) = z
    BY <1>8 DEF Take
  <1>10. o \in Seq(Nat) /\ Len(o) = Len(u.out) + g.len
         /\ \A i \in 1..Len(o) : o[i] = IF i <= Len(u.out) THEN u.out[i] ELSE g.data[i - Len(u.out)]
    <2>1. g.data \in Seq(Nat) /\ Len(g.data) = g.len /\ u.out \in Seq(Nat)
      BY <1>o, <1>d
    <2>2. \A a, b \in Seq(Nat) :
            /\ a \o b \in Seq(Nat) /\ Len(a \o b) = Len(a) + Len(b)
            /\ \A i \in 1..Len(a \o b) : (a \o b)[i] = IF i <= Len(a) THEN a[i] ELSE b[i - Len(a)]
      BY ConcatProperties
    <2> QED
      BY <2>1, <2>2
  <1>11. z \in Pcb /\ z.rcv_nxt = n /\ z.rcv_wnd = w /\ z.edge = u.edge /\ z.ooseq = u.ooseq
         /\ z.ann_wnd = c /\ z.out = o /\ z.got_fin = g.fin /\ z.ack = u.ack /\ z.answer = u.answer
    <2>1. z = [v EXCEPT !.ann_wnd = c, !.out = o, !.got_fin = g.fin]
      <3> HIDE DEF n, w
      <3> QED
        BY <1>4, <1>5, <1>f DEF Pcb
    <2>2. g.fin \in BOOLEAN
      BY <1>f
    <2> HIDE DEF n, w, o, z, v
    <2> QED
      BY <2>1, <2>2, <1>4, <1>5, <1>10 DEF Pcb
  <1> HIDE DEF v, z, w, o, n
  <1> DEFINE L == Len(u.out)
             M == Len(z.out)
             p == u.rcv_nxt
             s == g.seq
             l == g.len
             t == TCPLEN(g)
             a == u.ann_wnd
             e == u.edge
  <1>a. /\ L \in Int /\ 0 <= L /\ M = L + l /\ l \in Int /\ 0 <= l /\ s \in Int /\ s = p
        /\ s + l <= IRS + N /\ (g.fin => s + l = IRS + N) /\ n = p + t
        /\ (g.fin => t = l + 1) /\ (~g.fin => t = l)
    BY <1>o, <1>10, <1>11, <1>g, <1>f, <1>1
  <1>b. p = IRS + Have + L + eof /\ \A i \in 1..L : u.out[i] = Have + i
    BY DEF Stands
  <1>c. /\ z.rcv_nxt = n /\ z.got_fin = g.fin /\ z.edge = e /\ z.ann_wnd = c
        /\ z.rcv_wnd = w /\ g.fin \in BOOLEAN
    BY <1>11, <1>f
  <1>e. p \in Int /\ e \in Int /\ a \in Int /\ p - 1 <= e /\ e <= p + a /\ a <= Right - p
        /\ s + t <= e + 1
    BY <1>0, <1>6
  <1>x. e <= n + c /\ (e <= n + w => c <= w) /\ c \in Int
    BY <1>5, <1>8, <1>s
  <1>12. Stands(z)
    <2>1. ASSUME NEW i \in 1..M
          PROVE  z.out[i] = Have + i
      <3>0. i \in Int /\ i >= 1 /\ i <= M
            /\ z.out[i] = IF i <= L THEN u.out[i] ELSE g.data[i - L]
        BY <1>10, <1>11, <1>a
      <3>1. CASE i <= L
        <4>1. i \in 1..L
          BY <3>0, <3>1, <1>a
        <4> QED
          BY <4>1, <3>0, <3>1, <1>b
      <3>2. CASE ~(i <= L)
        <4> DEFINE j == i - L
        <4>1. j \in 1..l /\ s - IRS + j = Have + i
          <5> HIDE DEF L, M, p, s, l
          <5> QED
            BY <3>0, <3>2, <1>a, <1>b, <1>s, <1>h
        <4>2. g.data[j] = s - IRS + j
          <5> HIDE DEF j
          <5> QED
            BY <4>1, <1>d
        <4> QED
          BY <4>1, <4>2, <3>0, <3>2
      <3> QED
        BY <3>1, <3>2
    <2>2. /\ ~g.fin => n = IRS + Have + M + eof
          /\ g.fin => n = IRS + Have + M + 1
          /\ Have + M <= N /\ (g.fin => Have + M = N)
      <3> HIDE DEF L, M, p, s, l, t
      <3> QED
        BY <1>a, <1>b, <1>s, <1>h
    <2> QED
      BY <2>1, <2>2, <1>c DEF Stands
  <1>13. Windows(z)
    <2>1. n - 1 <= e
      <3> HIDE DEF L, M, p, s, l, t, e, a
      <3> QED
        BY <1>a, <1>e
    <2>2. ASSUME ~g.fin PROVE c <= w
      <3>1. Right - n \in 0..WORD - 1
        <4> HIDE DEF L, M, p, s, l, t, e, a
        <4> QED
          BY <2>2, <1>1, <1>3, <1>s, <1>h
      <3>2. w = Right - n
        <4>1. (Right - n) % WORD = Right - n
          BY <3>1, <1>s, ModSame
        <4> QED
          BY <4>1, <1>3
      <3>3. e <= n + w
        <4> HIDE DEF L, M, p, s, l, t, e, a
        <4> QED
          BY <3>2, <1>1, <1>e, <1>h
      <3> QED
        BY <3>3, <1>x
    <2> QED
      BY <2>1, <2>2, <1>c, <1>x, <1>3 DEF Windows
  <1>14. z.ooseq = u.ooseq /\ z.edge = u.edge /\ z.rcv_nxt = n /\ Queued(u.ooseq, n, u.edge)
    BY <1>11 DEF n
  <1>15. Queued(z.ooseq, z.rcv_nxt, z.edge)
    BY <1>14
  <1> QED
    BY <1>9, <1>11, <1>12, <1>13, <1>15 DEF Middle, n

-----------------------------------------------------------------------------
(* Some numbers have a least one. If not, every number below all of them   *)
(* can be followed by another, and the bounded, hence finite, set of these *)
(* has a map onto itself, k to k - 1, that is not injective: 0 and 1 go to *)
(* 0.                                                                      *)
LEMMA LeastNumber ==
  ASSUME NEW S, S \subseteq Nat, S # {}
  PROVE  \E m \in S : \A x \in S : m <= x
  <1> SUFFICES ASSUME \A m \in S : \E x \in S : x < m
               PROVE  FALSE
    OBVIOUS
  <1> DEFINE L == {k \in Nat : \A x \in S : k <= x}
             Pred == [k \in L |-> IF k = 0 THEN 0 ELSE k - 1]
  <1>1. 0 \in L /\ \A k \in L : k + 1 \in L
    OBVIOUS
  <1>2. IsFiniteSet(L)
    <2>1. PICK x \in S : TRUE
      OBVIOUS
    <2>2. x \in Nat /\ L \in SUBSET Nat /\ \A k \in L : k <= x
      BY <2>1
    <2> HIDE DEF L
    <2> QED
      BY <2>2, FS_BoundedSetOfNaturals
  <1>3. Pred \in Surjection(L, L)
    <2>1. Pred \in [L -> L]
      OBVIOUS
    <2>2. \A k \in L : k + 1 \in L /\ Pred[k + 1] = k
      BY <1>1
    <2> QED
      BY <2>1, <2>2 DEF Surjection
  <1>4. Pred \in Injection(L, L)
    BY <1>2, <1>3, FS_SurjSameCardinalityImpliesInj
  <1>5. 1 \in L /\ Pred[0] = 0 /\ Pred[1] = 0
    BY <1>1
  <1> QED
    BY <1>1, <1>4, <1>5 DEF Injection, IsInjective

(* A set of numbers that has, with each, all smaller ones from 1 on.       *)
LEMMA PrefixSet ==
  ASSUME NEW m \in Nat, NEW S, S \subseteq 1..m, \A i \in S : \A j \in 1..i : j \in S
  PROVE  Cardinality(S) \in 0..m /\ S = 1..Cardinality(S)
  <1>1. CASE S = 1..m
    <2>1. Cardinality(1..m) = m
      BY FS_Interval
    <2> QED
      BY <1>1, <2>1
  <1>2. CASE S # 1..m
    <2> DEFINE D == (1..m) \ S
    <2>1. D # {} /\ D \subseteq Nat
      <3>1. \E x \in 1..m : x \notin S
        BY <1>2
      <3>2. 1..m \subseteq Nat
        OBVIOUS
      <3> QED
        BY <3>1, <3>2
    <2> HIDE DEF D
    <2>2. PICK k \in D : \A x \in D : k <= x
      BY <2>1, LeastNumber
    <2>3. k \in 1..m /\ k \notin S
      BY <2>2 DEF D
    <2>4. k - 1 \in Nat /\ k - 1 \in 0..m
      BY <2>3
    <2>5. S = 1..k - 1
      <3>1. ASSUME NEW i \in 1..k - 1 PROVE i \in S
        <4>1. i \in 1..m /\ ~(k <= i)
          BY <2>3
        <4> QED
          BY <4>1, <2>2 DEF D
      <3>2. ASSUME NEW i \in S PROVE i \in 1..k - 1
        <4>1. i \in 1..m
          OBVIOUS
        <4>2. ~(k \in 1..i)
          BY <2>3
        <4> QED
          BY <4>1, <4>2, <2>3
      <3> QED
        BY <3>1, <3>2
    <2>6. Cardinality(1..k - 1) = k - 1
      <3>1. k - 1 \in Int /\ 1 \in Int
        BY <2>4
      <3>2. Cardinality(1..k - 1) = IF 1 > k - 1 THEN 0 ELSE (k - 1) - 1 + 1
        BY <3>1, FS_Interval
      <3> QED
        BY <3>2, <2>4
    <2> QED
      BY <2>4, <2>5, <2>6
  <1> QED
    BY <1>1, <1>2

-----------------------------------------------------------------------------
(* Cutting a piece gives a piece. *)
LEMMA CutIs ==
  ASSUME NEW g \in Piece, ~g.fin, NEW n \in 0..g.len, n < WORD
  PROVE  /\ CutTo(g, n) \in Piece /\ CutTo(g, n).seq = g.seq /\ CutTo(g, n).len = n
         /\ ~CutTo(g, n).fin
  <1> DEFINE d == SubSeq(g.data, 1, Min({n, Len(g.data)}))
             h == [g EXCEPT !.len = n, !.data = d]
  <1>1. g.seq \in Int /\ g.len \in Int /\ IRS <= g.seq /\ g.seq + g.len <= IRS + N /\ g.len <= N
        /\ g.seq \in Starts /\ g.fin = FALSE /\ g \in Segs
    BY PieceIs DEF Piece, Segs
  <1>2. n \in Int /\ 0 <= n /\ n <= g.len /\ IRS \in Nat /\ N \in Nat /\ WORD \in Nat \ {0}
    BY <1>1, Sizes
  <1>3. n % WORD = n
    <2>1. n \in 0..WORD - 1
      BY <1>2
    <2> QED
      BY <2>1, <1>2, ModSame
  <1>4. Min({n, Len(g.data)}) = n
    <2>1. Len(g.data) \in Int /\ n <= Len(g.data)
      BY <1>1, <1>2, PieceData
    <2> QED
      BY <2>1, <1>2, MinOfTwo
  <1>5. CutTo(g, n) = h
    BY <1>3 DEF CutTo
  <1>6. /\ d \in Seq(Nat) /\ Len(d) = n
        /\ \A i \in 1..n : d[i] = g.seq - IRS + i
    <2>0. g.data \in Seq(Nat) /\ Len(g.data) = g.len
          /\ \A i \in 1..g.len : g.data[i] = g.seq - IRS + i
      BY PieceData
    <2>1. \A i \in 1..n : g.data[i] \in Nat /\ g.data[i] = g.seq - IRS + i
      <3>1. \A i \in 1..n : i \in 1..g.len
        BY <1>1, <1>2
      <3>2. \A i \in 1..g.len : g.data[i] \in Nat
        BY <2>0, ElementOfSeq
      <3> QED
        BY <3>1, <3>2, <2>0
    <2>2. /\ SubSeq(g.data, 1, n) \in Seq(Nat)
          /\ Len(SubSeq(g.data, 1, n)) = IF 1 <= n THEN n - 1 + 1 ELSE 0
          /\ \A i \in 1..n - 1 + 1 : SubSeq(g.data, 1, n)[i] = g.data[1 + i - 1]
      BY <2>1, <1>2, SubSeqProperties
    <2>3. d = SubSeq(g.data, 1, n)
      BY <1>4
    <2>4. Len(d) = n
      <3>1. (IF 1 <= n THEN n - 1 + 1 ELSE 0) = n
        BY <1>2
      <3> HIDE DEF d
      <3> QED
        BY <3>1, <2>2, <2>3
    <2>5. \A i \in 1..n : i \in 1..n - 1 + 1 /\ 1 + i - 1 = i
      BY <1>2
    <2> QED
      BY <2>1, <2>2, <2>3, <2>4, <2>5
  <1> HIDE DEF d
  <1>7. h \in Segs /\ h.seq = g.seq /\ h.len = n /\ h.data = d /\ h.fin = FALSE
    <2>1. n \in 0..N
      BY <1>1, <1>2
    <2> QED
      BY <2>1, <1>1, <1>6 DEF Segs
  <1> HIDE DEF h
  <1>8. h \in Piece
    <2>1. g.seq + n <= IRS + N
      BY <1>1, <1>2
    <2> QED
      BY <2>1, <1>6, <1>7 DEF Piece, Holds
  <1> QED
    BY <1>5, <1>7, <1>8

(* A piece without its FIN is a piece. *)
LEMMA Unfinished ==
  ASSUME NEW g \in Piece
  PROVE  LET h == [g EXCEPT !.fin = FALSE]
         IN  h \in Piece /\ h.seq = g.seq /\ h.len = g.len /\ ~h.fin
  BY DEF Piece, Segs, Holds

(* A piece at the end of the stream may become a FIN. *)
LEMMA Finished ==
  ASSUME NEW g \in Piece, NEW b \in BOOLEAN, b => g.seq + g.len = IRS + N
  PROVE  LET h == [g EXCEPT !.fin = @ \/ b]
         IN  h \in Piece /\ h.seq = g.seq /\ h.len = g.len /\ (h.fin <=> g.fin \/ b)
  BY DEF Piece, Segs, Holds

-----------------------------------------------------------------------------
(* Queues. *)
LEMMA QueuedIs ==
  ASSUME NEW q, NEW lo, NEW hi, Queued(q, lo, hi)
  PROVE  /\ q \in Seq(Piece) /\ Len(q) \in Nat /\ DOMAIN q = 1..Len(q)
         /\ \A i \in 1..Len(q) : /\ q[i] \in Piece /\ lo <= q[i].seq
                                 /\ q[i].seq + q[i].len <= hi /\ (q[i].fin => i = Len(q))
         /\ \A i, j \in 1..Len(q) : i < j => q[i].seq + q[i].len <= q[j].seq
  BY DEF Queued

(* Nothing is queued. *)
LEMMA EmptyQueue ==
  ASSUME NEW lo, NEW hi
  PROVE  Queued(<<>>, lo, hi)
  BY DEF Queued

(* One piece is queued. *)
LEMMA OneQueue ==
  ASSUME NEW g \in Piece, NEW lo \in Int, NEW hi \in Int, lo <= g.seq, g.seq + g.len <= hi
  PROVE  Queued(<<g>>, lo, hi)
  <1>1. <<g>> \in Seq(Piece) /\ Len(<<g>>) = 1 /\ <<g>>[1] = g
    OBVIOUS
  <1>2. \A i \in 1..Len(<<g>>) : i = 1
    BY <1>1
  <1>3. \A i, j \in 1..Len(<<g>>) : ~(i < j)
    BY <1>2
  <1> QED
    BY <1>1, <1>2, <1>3 DEF Queued

(* A part of a queue is a queue. *)
LEMMA SubQueue ==
  ASSUME NEW q, NEW lo, NEW hi, Queued(q, lo, hi),
         NEW a \in 1..Len(q) + 1, NEW b \in a - 1..Len(q), NEW lo2 \in Int, NEW hi2 \in Int,
         \A i \in a..b : lo2 <= q[i].seq /\ q[i].seq + q[i].len <= hi2
  PROVE  /\ Queued(SubSeq(q, a, b), lo2, hi2) /\ Len(SubSeq(q, a, b)) = b - a + 1
         /\ \A i \in 1..b - a + 1 : SubSeq(q, a, b)[i] = q[a + i - 1]
  <1> DEFINE s == SubSeq(q, a, b)
             m == b - a + 1
             L == Len(q)
  <1>1. /\ q \in Seq(Piece) /\ L \in Nat
        /\ \A i \in 1..L : q[i] \in Piece /\ (q[i].fin => i = L)
        /\ \A i, j \in 1..L : i < j => q[i].seq + q[i].len <= q[j].seq
    BY QueuedIs
  <1>2. a \in Int /\ b \in Int /\ 1 <= a /\ b <= L /\ m \in Nat
    BY <1>1
  <1>3. s \in Seq(Piece) /\ Len(s) = m /\ \A i \in 1..m : s[i] = q[a + i - 1]
    <2>1. \A i \in a..b : q[i] \in Piece
      BY <1>1, <1>2
    <2>2. s \in Seq(Piece) /\ Len(s) = (IF a <= b THEN b - a + 1 ELSE 0)
          /\ \A i \in 1..b - a + 1 : s[i] = q[a + i - 1]
      BY <2>1, <1>2, SubSeqProperties
    <2> QED
      BY <2>2, <1>2
  <1>4. ASSUME NEW i \in 1..m
        PROVE  a + i - 1 \in a..b /\ a + i - 1 \in 1..L /\ (a + i - 1 = L => i = m)
    BY <1>2
  <1>5. \A i, j \in 1..m : i < j => a + i - 1 < a + j - 1
    BY <1>2
  <1> HIDE DEF s, m, L
  <1>6. \A i \in 1..Len(s) : /\ lo2 <= s[i].seq /\ s[i].seq + s[i].len <= hi2
                             /\ s[i].fin => i = Len(s)
    BY <1>1, <1>3, <1>4
  <1>7. \A i, j \in 1..Len(s) : i < j => s[i].seq + s[i].len <= s[j].seq
    BY <1>1, <1>3, <1>4, <1>5
  <1> QED
    BY <1>3, <1>6, <1>7 DEF Queued, s, m

(* Two queues, one behind the other, are a queue. *)
LEMMA ConcatQueue ==
  ASSUME NEW p, NEW q, NEW lo \in Int, NEW mid \in Int, NEW hi \in Int, mid <= hi, lo <= mid,
         Queued(p, lo, mid), Queued(q, mid, hi), \A i \in 1..Len(p) : ~p[i].fin
  PROVE  Queued(p \o q, lo, hi)
  <1> DEFINE K == Len(p)
             L == Len(q)
             s == p \o q
  <1>1. /\ p \in Seq(Piece) /\ K \in Nat
        /\ \A i \in 1..K : p[i] \in Piece /\ lo <= p[i].seq /\ p[i].seq + p[i].len <= mid
        /\ \A i, j \in 1..K : i < j => p[i].seq + p[i].len <= p[j].seq
    BY QueuedIs
  <1>2. /\ q \in Seq(Piece) /\ L \in Nat
        /\ \A i \in 1..L : /\ q[i] \in Piece /\ mid <= q[i].seq /\ q[i].seq + q[i].len <= hi
                           /\ (q[i].fin => i = L)
        /\ \A i, j \in 1..L : i < j => q[i].seq + q[i].len <= q[j].seq
    BY QueuedIs
  <1>3. /\ s \in Seq(Piece) /\ Len(s) = K + L
        /\ \A i \in 1..K + L : s[i] = IF i <= K THEN p[i] ELSE q[i - K]
    BY <1>1, <1>2, ConcatProperties
  <1>4. \A i \in 1..K : p[i].seq \in Int /\ p[i].seq + p[i].len \in Int /\ ~p[i].fin
    BY <1>1, PieceIs
  <1>5. \A i \in 1..L : q[i].seq \in Int /\ q[i].seq + q[i].len \in Int
    BY <1>2, PieceIs
  <1> HIDE DEF K, L, s
  <1>6. ASSUME NEW i \in 1..K + L
        PROVE  lo <= s[i].seq /\ s[i].seq + s[i].len <= hi /\ (s[i].fin => i = K + L)
    <2>1. CASE i <= K
      <3>1. i \in 1..K /\ s[i] = p[i]
        BY <2>1, <1>1, <1>2, <1>3
      <3> DEFINE x == p[i].seq
                 y == p[i].seq + p[i].len
      <3>2. x \in Int /\ y \in Int /\ lo <= x /\ y <= mid
        BY <3>1, <1>1, <1>4
      <3> HIDE DEF x, y
      <3>3. lo <= x /\ y <= hi
        BY <3>2
      <3> QED
        BY <3>1, <3>3, <1>4 DEF x, y
    <2>2. CASE ~(i <= K)
      <3>1. i - K \in 1..L /\ s[i] = q[i - K] /\ (i - K = L => i = K + L)
        BY <2>2, <1>1, <1>2, <1>3
      <3> DEFINE x == q[i - K].seq
      <3>2. x \in Int /\ mid <= x
        BY <3>1, <1>2, <1>5
      <3> HIDE DEF x
      <3>3. lo <= x
        BY <3>2
      <3> QED
        BY <3>1, <3>3, <1>2 DEF x
    <2> QED
      BY <2>1, <2>2
  <1>7. ASSUME NEW i \in 1..K + L, NEW j \in 1..K + L, i < j
        PROVE  s[i].seq + s[i].len <= s[j].seq
    <2>1. CASE j <= K
      <3>1. i \in 1..K /\ j \in 1..K /\ s[i] = p[i] /\ s[j] = p[j]
        BY <2>1, <1>1, <1>2, <1>3, <1>7
      <3> QED
        BY <3>1, <1>1, <1>7
    <2>2. CASE ~(j <= K) /\ i <= K
      <3>1. i \in 1..K /\ j - K \in 1..L /\ s[i] = p[i] /\ s[j] = q[j - K]
        BY <2>2, <1>1, <1>2, <1>3
      <3> DEFINE x == q[j - K].seq
                 y == p[i].seq + p[i].len
      <3>2. x \in Int /\ mid <= x /\ y \in Int /\ y <= mid
        BY <3>1, <1>1, <1>2, <1>4, <1>5
      <3> HIDE DEF x, y
      <3>3. y <= x
        BY <3>2
      <3> QED
        BY <3>1, <3>3 DEF x, y
    <2>3. CASE ~(j <= K) /\ ~(i <= K)
      <3>1. i - K \in 1..L /\ j - K \in 1..L /\ s[i] = q[i - K] /\ s[j] = q[j - K] /\ i - K < j - K
        BY <2>3, <1>1, <1>2, <1>3, <1>7
      <3> QED
        BY <3>1, <1>2
    <2> QED
      BY <2>1, <2>2, <2>3
  <1> QED
    BY <1>3, <1>6, <1>7 DEF Queued, s

-----------------------------------------------------------------------------
(* The segments that g covers come first in a queue.                       *)
LEMMA CoveredIs ==
  ASSUME NoWrap, NEW q, NEW lo, NEW hi, Queued(q, lo, hi), NEW right \in Nums
  PROVE  /\ Covered(q, right) \in 0..Len(q)
         /\ \A i \in 1..Covered(q, right) : q[i].seq + q[i].len <= right
         /\ Covered(q, right) < Len(q) =>
              LET m == Covered(q, right) + 1
              IN  q[m].seq + q[m].len > right
  <1> DEFINE S == {i \in DOMAIN q : \A j \in 1..i : GEQ(right, End(q[j]))}
             L == Len(q)
             n == Cardinality(S)
  <1>1. L \in Nat /\ DOMAIN q = 1..L /\ \A i \in 1..L : q[i] \in Piece
    BY QueuedIs
  <1>2. S \subseteq 1..L /\ \A i \in S : \A j \in 1..i : j \in S
    <2>1. S \subseteq 1..L
      BY <1>1
    <2>2. ASSUME NEW i \in S, NEW j \in 1..i PROVE j \in S
      <3>1. i \in 1..L /\ j \in 1..L /\ \A k \in 1..j : k \in 1..i
        BY <1>1, <2>1, <2>2
      <3> QED
        BY <3>1, <1>1
    <2> QED
      BY <2>1, <2>2
  <1>3. \A i \in 1..L : GEQ(right, End(q[i])) <=> q[i].seq + q[i].len <= right
    <2> SUFFICES ASSUME NEW i \in 1..L
                 PROVE  GEQ(right, End(q[i])) <=> q[i].seq + q[i].len <= right
      OBVIOUS
    <2> DEFINE e == q[i].seq + q[i].len
    <2>1. q[i] \in Piece
      BY <1>1
    <2>2. End(q[i]) = e /\ e \in Nums
      BY <2>1, EndIs, PieceIs
    <2> HIDE DEF e
    <2>3. GEQ(right, e) <=> right >= e
      BY <2>2, Compared
    <2>4. right \in Int /\ e \in Int
      BY <2>2, Sizes DEF Nums
    <2> QED
      BY <2>2, <2>3, <2>4 DEF e
  <1>4. n = Covered(q, right)
    BY DEF Covered
  <1>5. n \in 0..L /\ S = 1..n
    <2> HIDE DEF S, L
    <2> QED
      BY <1>1, <1>2, PrefixSet DEF L
  <1>6. \A i \in 1..n : q[i].seq + q[i].len <= right
    <2> SUFFICES ASSUME NEW i \in 1..n PROVE q[i].seq + q[i].len <= right
      OBVIOUS
    <2>1. i \in S /\ i \in 1..L
      BY <1>5
    <2>2. GEQ(right, End(q[i]))
      <3>1. i \in 1..i
        BY <2>1
      <3> QED
        BY <2>1, <3>1
    <2> QED
      BY <2>1, <2>2, <1>3
  <1>7. ASSUME n < L PROVE ~(q[n + 1].seq + q[n + 1].len <= right)
    <2>1. n + 1 \in 1..L /\ n + 1 \notin S
      <3>1. L \in Nat
        BY <1>1
      <3> HIDE DEF S, L, n
      <3> QED
        BY <3>1, <1>5, <1>7
    <2>2. PICK j \in 1..n + 1 : ~GEQ(right, End(q[j]))
      BY <2>1, <1>1
    <2>3. j = n + 1
      <3>1. j \in 1..n \/ j = n + 1
        BY <1>5, <1>1
      <3>2. j \in 1..n => j \in 1..L
        BY <1>5, <1>1
      <3> QED
        BY <3>1, <3>2, <1>3, <1>6, <2>2
    <2> QED
      BY <2>1, <2>2, <2>3, <1>3
  <1>8. n < L => q[n + 1].seq + q[n + 1].len > right
    <2> SUFFICES ASSUME n < L PROVE q[n + 1].seq + q[n + 1].len > right
      OBVIOUS
    <2> DEFINE e == q[n + 1].seq + q[n + 1].len
    <2>1. n + 1 \in 1..L
      BY <1>5, <1>1
    <2>2. e \in Nums
      BY <2>1, <1>1, PieceIs
    <2>3. ~(e <= right)
      BY <1>7
    <2> HIDE DEF e
    <2>4. e > right
      BY <2>2, <2>3, Sizes DEF Nums
    <2> QED
      BY <2>4 DEF e
  <1> HIDE DEF n
  <1> QED
    BY <1>4, <1>5, <1>6, <1>8

(* g before what is left of a queue that does not begin before it. *)
LEMMA BeforeIs ==
  ASSUME NoWrap, NEW q, NEW lo, NEW hi \in Int, Queued(q, lo, hi),
         NEW g \in Piece, ~g.fin, g.len < WORD, g.seq + g.len <= hi,
         \A i \in 1..Len(q) : g.seq <= q[i].seq
  PROVE  LET right == g.seq + g.len
             b     == Before(g, right, q)
             t     == Behind(right, q)
         IN  /\ b \in Piece /\ b.seq = g.seq /\ b.len <= g.len
             /\ Queued(t, b.seq + TCPLEN(b), hi) /\ (t # <<>> => ~b.fin)
             /\ \A i \in 1..Len(t) : \E j \in 1..Len(q) : t[i] = q[j]
             /\ b.fin => \E j \in 1..Len(q) : q[j].fin
  <1> DEFINE right == g.seq + g.len
             n == Covered(q, right)
             L == Len(q)
             c == \E i \in 1..n : q[i].fin
             h == [g EXCEPT !.fin = @ \/ c]
             b == Before(g, right, q)
             t == Behind(right, q)
  <1>1. /\ q \in Seq(Piece) /\ L \in Nat
        /\ \A i \in 1..L : /\ q[i] \in Piece /\ (q[i].fin => i = L)
                           /\ q[i].seq + q[i].len <= hi /\ g.seq <= q[i].seq
        /\ \A i, j \in 1..L : i < j => q[i].seq + q[i].len <= q[j].seq
    BY QueuedIs
  <1>2. \A i \in 1..L : q[i].seq \in Nums /\ q[i].seq \in Int /\ q[i].seq + q[i].len \in Int
                        /\ (q[i].fin => q[i].seq + q[i].len = IRS + N)
                        /\ 0 <= q[i].len /\ q[i].len \in Int
    BY <1>1, PieceIs
  <1>3. g.seq \in Int /\ g.len \in Int /\ 0 <= g.len /\ right <= IRS + N /\ right \in Nums
        /\ right \in Int /\ g.seq \in Nums
    <2>1. g.seq \in Int /\ g.len \in Int /\ 0 <= g.len /\ g.seq + g.len <= IRS + N
          /\ g.seq + g.len \in Nums /\ g.seq \in Nums
      BY PieceIs
    <2> QED
      BY <2>1
  <1>i. IRS \in Int /\ N \in Int /\ WORD \in Int
    BY Sizes
  <1>4. /\ n \in 0..L
        /\ \A i \in 1..n : q[i].seq + q[i].len <= right
        /\ n < L => q[n + 1].seq + q[n + 1].len > right
    <2> HIDE DEF right
    <2> QED
      BY <1>3, CoveredIs
  <1> HIDE DEF right, L, n
  <1>n. n \in Int /\ 0 <= n /\ n <= L /\ \A i \in 1..n : i \in 1..L
    BY <1>1, <1>4
  <1>5. c \in BOOLEAN /\ (c => right = IRS + N /\ n = L /\ \E i \in 1..L : q[i].fin)
    <2> SUFFICES ASSUME c PROVE right = IRS + N /\ n = L /\ \E i \in 1..L : q[i].fin
      OBVIOUS
    <2>1. PICK i \in 1..n : q[i].fin
      OBVIOUS
    <2>2. i \in 1..L /\ i = L
      BY <2>1, <1>1, <1>n
    <2> DEFINE e == q[i].seq + q[i].len
    <2>3. e = IRS + N /\ e <= right
      BY <2>1, <2>2, <1>2, <1>4
    <2> HIDE DEF e
    <2> QED
      BY <2>1, <2>2, <2>3, <1>n, <1>3, <1>i
  <1>6. h \in Piece /\ h.seq = g.seq /\ h.len = g.len /\ (h.fin <=> c)
    <2> HIDE DEF c
    <2> QED
      BY <1>5, Finished DEF right
  <1> HIDE DEF c, h
  <1>7. b = IF n < L /\ GT(right, q[n + 1].seq) THEN CutTo(h, Minus(q[n + 1].seq, g.seq)) ELSE h
    BY DEF Before, h, n, L, c
  <1>8. t = SubSeq(q, n + 1, L)
    BY DEF Behind, n, L
  <1> HIDE DEF b, t
  <1>9. CASE n < L
    <2> DEFINE s == q[n + 1].seq
               m == s - g.seq
    <2>1. n + 1 \in 1..L /\ s \in Nums /\ s \in Int /\ g.seq <= s /\ ~h.fin
      BY <1>9, <1>n, <1>1, <1>2, <1>5, <1>6
    <2> HIDE DEF s
    <2>2. (GT(right, s) <=> right > s) /\ Minus(s, g.seq) = m
      BY <2>1, <1>3, Compared
    <2>3. /\ b \in Piece /\ b.seq = g.seq /\ b.len <= g.len /\ ~b.fin /\ b.seq + b.len <= s
      <3>1. CASE right > s
        <4>1. m \in 0..h.len /\ m < WORD /\ m <= g.len /\ g.seq + m = s
          BY <2>1, <3>1, <1>3, <1>6, <1>i DEF right
        <4>2. b = CutTo(h, m)
          BY <1>7, <1>9, <2>2, <3>1 DEF s
        <4> HIDE DEF m
        <4>3. b \in Piece /\ b.seq = h.seq /\ b.len = m /\ ~b.fin
          BY <4>1, <4>2, <2>1, <1>6, CutIs
        <4> QED
          BY <4>1, <4>3, <2>1, <1>6, <1>3
      <3>2. CASE ~(right > s)
        <4>1. b = h
          BY <1>7, <2>2, <3>2 DEF s
        <4> QED
          BY <4>1, <3>2, <2>1, <1>3, <1>6 DEF right
      <3> QED
        BY <3>1, <3>2
    <2>4. b.seq + TCPLEN(b) = b.seq + b.len /\ b.seq + b.len \in Int
      <3>1. TCPLEN(b) = b.len
        BY <2>3, PieceFlags
      <3> DEFINE x == b.seq
                 y == b.len
      <3>2. x \in Int /\ y \in Int
        BY <2>3, PieceIs
      <3> HIDE DEF x, y
      <3>3. x + y \in Int
        BY <3>2
      <3> QED
        BY <3>1, <3>3 DEF x, y
    <2>5. ASSUME NEW i \in n + 1..L
          PROVE  b.seq + b.len <= q[i].seq /\ q[i].seq + q[i].len <= hi
      <3>1. i \in 1..L /\ (i = n + 1 \/ n + 1 < i)
        BY <1>n, <1>9, <1>1
      <3> DEFINE x == q[i].seq
                 y == q[n + 1].len
                 z == b.seq + b.len
      <3>2. x \in Int /\ y \in Int /\ 0 <= y /\ (i = n + 1 => x = s) /\ (n + 1 < i => s + y <= x)
        BY <3>1, <2>1, <1>1, <1>2 DEF s
      <3>3. z \in Int /\ z <= s
        BY <2>3, <2>4
      <3> HIDE DEF x, y, z
      <3>4. z <= x
        BY <3>1, <3>2, <3>3, <2>1
      <3> QED
        BY <3>1, <3>4, <1>1 DEF x, z
    <2>6. /\ Queued(t, b.seq + b.len, hi) /\ Len(t) = L - n
          /\ \A i \in 1..L - n : t[i] = q[n + i]
      <3> DEFINE z == b.seq + b.len
                 a == n + 1
      <3>0. a \in 1..L + 1 /\ L \in a - 1..L /\ L - a + 1 = L - n /\ a \in Int
            /\ \A i \in 1..L - n : a + i - 1 = n + i
        BY <1>n, <1>9, <1>1
      <3>1. z \in Int /\ \A i \in a..L : z <= q[i].seq /\ q[i].seq + q[i].len <= hi
        BY <2>4, <2>5
      <3>2. t = SubSeq(q, a, L)
        BY <1>8
      <3> HIDE DEF z, a
      <3>3. /\ Queued(t, z, hi) /\ Len(t) = L - a + 1
            /\ \A i \in 1..L - a + 1 : t[i] = q[a + i - 1]
        BY <3>0, <3>1, <3>2, SubQueue DEF L
      <3> QED
        BY <3>0, <3>3 DEF z
    <2>7. \A i \in 1..Len(t) : n + i \in 1..L /\ t[i] = q[n + i]
      BY <2>6, <1>n, <1>9, <1>1
    <2> QED
      BY <2>3, <2>4, <2>6, <2>7 DEF b, t, L, right
  <1>10. CASE ~(n < L)
    <2>1. n = L
      BY <1>10, <1>n, <1>1
    <2>2. b = h
      BY <1>7, <1>10
    <2>3. t = <<>>
      <3>1. L + 1 \in Int /\ L \in Int /\ L < L + 1
        BY <1>1
      <3> QED
        BY <3>1, <1>8, <2>1, SubSeqEmpty
    <2>4. Queued(t, b.seq + TCPLEN(b), hi) /\ Len(t) = 0
      BY <2>3, EmptyQueue
    <2>5. b \in Piece /\ b.seq = g.seq /\ b.len <= g.len
          /\ (b.fin => \E i \in 1..L : q[i].fin)
      BY <2>2, <1>3, <1>5, <1>6
    <2> QED
      BY <2>3, <2>4, <2>5 DEF b, t, L, right
  <1> QED
    BY <1>9, <1>10

-----------------------------------------------------------------------------
(* A new segment before the later ones.                                    *)
LEMMA OosIs ==
  ASSUME NoWrap, NEW q, NEW lo, NEW hi \in Int, Queued(q, lo, hi),
         NEW g \in Piece, g.len < WORD, g.seq + g.len <= hi,
         \A i \in 1..Len(q) : g.seq <= q[i].seq
  PROVE  Queued(tcp_oos_insert_segment(g, q), g.seq, hi)
  <1>g. g.seq \in Int /\ g.len \in Int /\ g.fin \in BOOLEAN
    BY PieceIs, PieceFlags
  <1>1. CASE g.fin
    <2>1. tcp_oos_insert_segment(g, q) = <<g>>
      BY <1>1 DEF tcp_oos_insert_segment
    <2>2. g.seq <= g.seq
      BY <1>g
    <2> QED
      BY <2>1, <2>2, <1>g, OneQueue
  <1>2. CASE ~g.fin
    <2> DEFINE right == g.seq + g.len
               b == Before(g, right, q)
               t == Behind(right, q)
    <2>1. tcp_oos_insert_segment(g, q) = <<b>> \o t
      BY <1>2, EndIs DEF tcp_oos_insert_segment
    <2>2. /\ b \in Piece /\ b.seq = g.seq /\ b.len <= g.len
          /\ Queued(t, b.seq + TCPLEN(b), hi) /\ (t # <<>> => ~b.fin)
      BY <1>2, BeforeIs
    <2> HIDE DEF b, t
    <2> DEFINE s == b.seq
               l == b.len
               m == s + l
    <2>3. s \in Int /\ l \in Int /\ 0 <= l /\ b.fin \in BOOLEAN /\ (~b.fin => TCPLEN(b) = l)
      BY <2>2, PieceIs, PieceFlags
    <2>4. m \in Int /\ s <= m /\ m <= hi /\ s <= s /\ m <= m
      <3>1. g.seq + l <= hi
        <4> DEFINE x == g.seq
                   y == g.len
        <4>1. x \in Int /\ y \in Int /\ x + y <= hi /\ l <= y
          BY <1>g, <2>2
        <4> HIDE DEF x, y, l
        <4>2. x + l <= hi
          BY <4>1, <2>3
        <4> QED
          BY <4>2 DEF x
      <3>2. s = g.seq
        BY <2>2
      <3>3. m <= hi
        BY <3>1, <3>2
      <3> HIDE DEF s, l
      <3> QED
        BY <3>3, <2>3
    <2>5. CASE b.fin
      <3>1. t = <<>> /\ <<b>> \in Seq(Piece)
        BY <2>2, <2>5
      <3>2. <<b>> \o t = <<b>>
        BY <3>1, ConcatEmptySeq
      <3>3. Queued(<<b>>, s, hi)
        <4>1. s <= b.seq /\ b.seq + b.len <= hi
          BY <2>4
        <4> QED
          BY <4>1, <2>2, <2>3, OneQueue
      <3> QED
        BY <2>1, <2>2, <3>2, <3>3
    <2>6. CASE ~b.fin
      <3>1. Queued(<<b>>, s, m)
        <4>1. s <= b.seq /\ b.seq + b.len <= m
          BY <2>4
        <4> QED
          BY <4>1, <2>2, <2>3, <2>4, OneQueue
      <3>2. Queued(t, m, hi)
        BY <2>2, <2>3, <2>6
      <3>3. \A i \in 1..Len(<<b>>) : ~<<b>>[i].fin
        BY <2>6
      <3> HIDE DEF m
      <3>4. Queued(<<b>> \o t, s, hi)
        BY <3>1, <3>2, <3>3, <2>3, <2>4, ConcatQueue
      <3> QED
        BY <2>1, <2>2, <3>4
    <2> QED
      BY <2>3, <2>5, <2>6
  <1> QED
    BY <1>g, <1>1, <1>2

(* The last segment of a queue, cut at the window.                         *)
LEMMA AtWindowIs ==
  ASSUME NoWrap, NEW u \in Pcb, NEW g \in Piece, g.len < WORD,
         u.rcv_nxt <= g.seq, g.seq < u.rcv_nxt + u.rcv_wnd
  PROVE  AtWindow(u, g) \in Piece /\ AtWindow(u, g).seq = g.seq /\ AtWindow(u, g).len <= g.len
  <1> DEFINE p == u.rcv_nxt
             w == u.rcv_wnd
             s == g.seq
             l == g.len
             t == TCPLEN(g)
             right == p + w
             h == [g EXCEPT !.fin = FALSE]
  <1>1. /\ p \in Int /\ w \in Int /\ IRS <= p /\ p <= IRS + N + 1 /\ 0 <= w /\ w < WORD
    BY PcbNumbers
  <1>2. /\ s \in Int /\ l \in Int /\ 0 <= l /\ s \in Nums /\ t \in Int /\ t <= l + 1 /\ s + t \in Nums
    BY PieceIs, PieceFlags
  <1>3. IRS \in Nat /\ N \in Nat /\ WORD \in Nat /\ TCP_WND \in Nat
    BY Sizes
  <1>5. s < right /\ p <= s /\ l < WORD
    OBVIOUS
  <1>h. h \in Piece /\ h.seq = s /\ h.len = l /\ ~h.fin
    BY Unfinished
  <1>6. AtWindow(u, g) = IF Plus(s, t) > Plus(p, w) THEN CutTo(h, Minus(Plus(p, w), s)) ELSE g
    BY DEF AtWindow
  <1> HIDE DEF p, w, s, l, t, h
  <1>7. right \in Nums /\ right \in Int
    BY <1>1, <1>3 DEF Nums
  <1>8. Plus(p, w) = right /\ Plus(s, t) = s + t
    BY <1>1, <1>2, <1>7, PlusNums
  <1> HIDE DEF right
  <1>9. CASE s + t > right
    <2>1. Minus(right, s) = right - s
      <3>1. right >= s
        BY <1>2, <1>5, <1>7
      <3> QED
        BY <3>1, <1>2, <1>7, Compared
    <2>2. right - s \in 0..h.len /\ right - s < WORD /\ right - s <= l
      BY <1>2, <1>3, <1>5, <1>7, <1>9, <1>h
    <2>3. AtWindow(u, g) = CutTo(h, right - s)
      BY <1>6, <1>8, <1>9, <2>1
    <2> DEFINE m == right - s
    <2> HIDE DEF m
    <2>4. CutTo(h, m) \in Piece /\ CutTo(h, m).seq = h.seq /\ CutTo(h, m).len = m
      BY <2>2, <1>h, CutIs DEF m
    <2> QED
      BY <2>2, <2>3, <2>4, <1>h DEF m, s, l
  <1>10. CASE ~(s + t > right)
    <2>1. AtWindow(u, g) = g
      BY <1>6, <1>8, <1>10
    <2>2. l <= l
      BY <1>2
    <2> QED
      BY <2>1, <2>2 DEF l
  <1> QED
    BY <1>9, <1>10

(* What is before the new segment, cut off where that begins.              *)
LEMMA BehindCut ==
  ASSUME NoWrap, NEW q, NEW lo \in Int, NEW hi \in Int, Queued(q, lo, hi), hi - lo < WORD,
         NEW s \in Nums, lo <= s, NEW k \in 0..Len(q),
         \A i \in 1..k : q[i].seq < s, \A i \in 1..k : ~q[i].fin
  PROVE  LET pre == SubSeq(q, 1, k)
             cut == IF k > 0 /\ GT(End(q[k]), s)
                      THEN [pre EXCEPT ![k] = CutTo(@, Minus(s, @.seq))] ELSE pre
         IN  Queued(cut, lo, s) /\ \A i \in 1..Len(cut) : ~cut[i].fin
  <1> DEFINE pre == SubSeq(q, 1, k)
             L == Len(q)
             cut == IF k > 0 /\ GT(End(q[k]), s)
                      THEN [pre EXCEPT ![k] = CutTo(@, Minus(s, @.seq))] ELSE pre
  <1>1. /\ q \in Seq(Piece) /\ L \in Nat
        /\ \A i \in 1..L : q[i] \in Piece /\ lo <= q[i].seq /\ q[i].seq + q[i].len <= hi
        /\ \A i, j \in 1..L : i < j => q[i].seq + q[i].len <= q[j].seq
    BY QueuedIs
  <1>k. k \in Int /\ 0 <= k /\ k <= L /\ s \in Int /\ WORD \in Int
    BY <1>1, Sizes DEF Nums
  <1>2. \A i \in 1..k : i \in 1..L
    BY <1>k, <1>1
  <1>3. pre \in Seq(Piece) /\ Len(pre) = k /\ \A i \in 1..k : pre[i] = q[i]
    <2>1. \A i \in 1..k : q[i] \in Piece
      BY <1>1, <1>2
    <2>2. /\ pre \in Seq(Piece) /\ Len(pre) = (IF 1 <= k THEN k - 1 + 1 ELSE 0)
          /\ \A i \in 1..k - 1 + 1 : pre[i] = q[1 + i - 1]
      BY <2>1, <1>k, SubSeqProperties
    <2>3. (IF 1 <= k THEN k - 1 + 1 ELSE 0) = k
      BY <1>k
    <2>4. \A i \in 1..k : i \in 1..k - 1 + 1 /\ 1 + i - 1 = i
      BY <1>k
    <2> HIDE DEF pre
    <2> QED
      BY <2>2, <2>3, <2>4
  <1> HIDE DEF pre, L
  (* Up to the k-th all segments end before s. *)
  <1>4. ASSUME NEW i \in 1..k, i # k
        PROVE  q[i].seq + q[i].len <= s
    <2>1. i \in 1..L /\ k \in 1..L /\ i < k /\ k \in 1..k
      BY <1>4, <1>k, <1>1, <1>2
    <2> DEFINE x == q[i].seq + q[i].len
               y == q[k].seq
    <2>2. x \in Int /\ y \in Int /\ x <= y /\ y < s
      BY <2>1, <1>1, PieceIs
    <2> HIDE DEF x, y
    <2>3. x <= s
      BY <2>2, <1>k
    <2> QED
      BY <2>3 DEF x
  <1>5. CASE ~(k > 0 /\ GT(End(q[k]), s))
    <2>1. cut = pre
      BY <1>5
    <2>2. \A i \in 1..k : lo <= q[i].seq /\ q[i].seq + q[i].len <= s
      <3> SUFFICES ASSUME NEW i \in 1..k PROVE lo <= q[i].seq /\ q[i].seq + q[i].len <= s
        OBVIOUS
      <3>1. CASE i # k
        BY <3>1, <1>1, <1>2, <1>4
      <3>2. CASE i = k
        <4> DEFINE e == q[k].seq + q[k].len
        <4>1. ~GT(End(q[k]), s) /\ k \in 1..L /\ q[k] \in Piece
          BY <3>2, <1>5, <1>k, <1>1, <1>2
        <4>2. End(q[k]) = e /\ e \in Nums
          BY <4>1, EndIs, PieceIs
        <4> HIDE DEF e
        <4>3. e \in Int
          BY <4>2, Sizes DEF Nums
        <4>4. e <= s
          BY <4>1, <4>2, <4>3, <1>k, Compared
        <4> QED
          BY <4>1, <4>4, <3>2, <1>1 DEF e
      <3> QED
        BY <3>1, <3>2
    <2>3. 1 \in 1..Len(q) + 1 /\ k \in 1 - 1..Len(q)
      BY <1>k, <1>1 DEF L
    <2>4. Queued(pre, lo, s)
      BY <2>2, <2>3, <1>k, SubQueue DEF pre
    <2>5. \A i \in 1..Len(pre) : ~pre[i].fin
      BY <1>3
    <2> QED
      BY <2>1, <2>4, <2>5 DEF pre
  <1>6. CASE k > 0 /\ GT(End(q[k]), s)
    <2> DEFINE c == CutTo(q[k], Minus(s, q[k].seq))
               x == q[k].seq
               y == q[k].len
               m == s - x
    <2>1. k \in 1..k /\ k \in 1..L /\ q[k] \in Piece /\ ~q[k].fin
      BY <1>6, <1>k, <1>1, <1>2
    <2>2. x \in Int /\ y \in Int /\ 0 <= y /\ x \in Nums /\ x + y \in Nums /\ lo <= x /\ x + y <= hi
          /\ x < s /\ End(q[k]) = x + y
      BY <2>1, <1>1, PieceIs, EndIs
    <2> HIDE DEF x, y
    <2>3. x + y > s
      <3>1. GT(x + y, s)
        BY <1>6, <2>2
      <3> QED
        BY <3>1, <2>2, Compared
    <2>4. Minus(s, x) = m
      <3>1. s >= x
        BY <2>2, <1>k
      <3> QED
        BY <3>1, <2>2, Compared
    <2>5. m \in 0..y /\ m < WORD /\ x + m = s
      BY <2>2, <2>3, <1>k
    <2>6. c \in Piece /\ c.seq = x /\ c.len = m /\ ~c.fin
      <3>1. c = CutTo(q[k], m)
        BY <2>4 DEF x
      <3>2. m \in 0..q[k].len
        BY <2>5 DEF y
      <3> HIDE DEF m
      <3> QED
        BY <3>1, <3>2, <2>1, <2>5, CutIs DEF x
    <2> HIDE DEF c, m
    <2>7. cut = [pre EXCEPT ![k] = c]
      <3>1. pre[k] = q[k]
        BY <2>1, <1>3
      <3> QED
        BY <3>1, <1>6 DEF c
    <2> HIDE DEF cut
    <2>8. /\ cut \in Seq(Piece) /\ Len(cut) = k
          /\ \A i \in 1..k : cut[i] = IF i = k THEN c ELSE q[i]
      BY <2>1, <2>6, <2>7, <1>3, ExceptSeq
    <2>9. c.seq + c.len <= s /\ lo <= c.seq
      BY <2>2, <2>5, <2>6, <1>k
    <2>10. \A i \in 1..Len(cut) : /\ lo <= cut[i].seq /\ cut[i].seq + cut[i].len <= s
                                  /\ ~cut[i].fin
      <3> SUFFICES ASSUME NEW i \in 1..k
                   PROVE  lo <= cut[i].seq /\ cut[i].seq + cut[i].len <= s /\ ~cut[i].fin
        BY <2>8
      <3>1. CASE i = k
        BY <3>1, <2>6, <2>8, <2>9
      <3>2. CASE i # k
        BY <3>2, <2>8, <1>1, <1>2, <1>4
      <3> QED
        BY <3>1, <3>2
    <2>11. \A i, j \in 1..Len(cut) : i < j => cut[i].seq + cut[i].len <= cut[j].seq
      <3> SUFFICES ASSUME NEW i \in 1..k, NEW j \in 1..k, i < j
                   PROVE  cut[i].seq + cut[i].len <= cut[j].seq
        BY <2>8
      <3>1. i \in 1..L /\ j \in 1..L /\ i # k
        BY <1>k, <1>2
      <3>2. cut[i] = q[i] /\ cut[j].seq = q[j].seq
        BY <3>1, <2>6, <2>8 DEF x
      <3>3. q[i].seq + q[i].len <= q[j].seq
        BY <3>1, <1>1
      <3> QED
        BY <3>2, <3>3
    <2>12. Queued(cut, lo, s) /\ \A i \in 1..Len(cut) : ~cut[i].fin
      BY <2>8, <2>10, <2>11 DEF Queued
    <2> QED
      BY <2>12 DEF cut, pre
  <1> QED
    BY <1>5, <1>6

(* Where a segment goes, the queue stays one. *)
LEMMA InsertIs ==
  ASSUME NoWrap, NEW u \in Pcb, NEW lo \in Int, NEW hi \in Int, Queued(u.ooseq, lo, hi),
         hi - lo < WORD, NEW g \in Piece, lo <= g.seq, g.seq + g.len <= hi,
         u.rcv_nxt <= g.seq, g.seq < u.rcv_nxt + u.rcv_wnd
  PROVE  Queued(Insert(u, g), lo, hi)
  <1> DEFINE q == u.ooseq
             L == Len(q)
             s == g.seq
             S == {i \in DOMAIN q : GT(s, q[i].seq)}
             k == Cardinality(S)
             pre == SubSeq(q, 1, k)
             post == SubSeq(q, k + 1, L)
             cut == IF k > 0 /\ GT(End(q[k]), s)
                      THEN [pre EXCEPT ![k] = CutTo(@, Minus(s, @.seq))] ELSE pre
  <1>1. /\ q \in Seq(Piece) /\ L \in Nat /\ DOMAIN q = 1..L
        /\ \A i \in 1..L : /\ q[i] \in Piece /\ lo <= q[i].seq /\ q[i].seq + q[i].len <= hi
                           /\ (q[i].fin => i = L)
        /\ \A i, j \in 1..L : i < j => q[i].seq + q[i].len <= q[j].seq
    BY QueuedIs
  <1>2. \A i \in 1..L : q[i].seq \in Nums /\ q[i].seq \in Int /\ q[i].len \in Int /\ 0 <= q[i].len
    BY <1>1, PieceIs
  <1>g. s \in Int /\ s \in Nums /\ g.len \in Int /\ 0 <= g.len /\ g.len < WORD /\ WORD \in Int
    <2> DEFINE l == g.len
    <2>1. s \in Int /\ s \in Nums /\ l \in Int /\ 0 <= l /\ lo <= s /\ s + l <= hi
      BY PieceIs
    <2>2. WORD \in Int
      BY Sizes
    <2> HIDE DEF s, l
    <2>3. l < WORD
      BY <2>1, <2>2
    <2> QED
      BY <2>1, <2>2, <2>3 DEF l
  <1>i. Insert(u, g) =
          IF q = <<>> THEN <<g>>
          ELSE IF post = <<>> THEN IF q[k].fin THEN q ELSE Append(cut, AtWindow(u, g))
          ELSE IF post[1].seq # g.seq THEN cut \o tcp_oos_insert_segment(g, post)
          ELSE IF g.len > post[1].len THEN pre \o tcp_oos_insert_segment(g, post)
          ELSE q
    BY DEF Insert
  <1>3. \A i \in 1..L : i \in S <=> q[i].seq < s
    <2> SUFFICES ASSUME NEW i \in 1..L PROVE GT(s, q[i].seq) <=> q[i].seq < s
      BY <1>1
    <2> DEFINE x == q[i].seq
    <2>1. x \in Nums /\ x \in Int
      BY <1>2
    <2> HIDE DEF x, s
    <2>2. GT(s, x) <=> s > x
      BY <2>1, <1>g, Compared
    <2>3. s > x <=> x < s
      BY <2>1, <1>g
    <2> QED
      BY <2>2, <2>3 DEF x, s
  <1>4. k \in 0..L /\ S = 1..k
    <2>1. S \subseteq 1..L
      BY <1>1
    <2>2. ASSUME NEW i \in S, NEW j \in 1..i PROVE j \in S
      <3>1. i \in 1..L /\ j \in 1..L /\ (j = i \/ j < i)
        BY <2>1, <1>1
      <3>2. CASE j < i
        <4> DEFINE x == q[j].seq
                   y == q[j].len
                   z == q[i].seq
        <4>1. x \in Int /\ y \in Int /\ 0 <= y /\ z \in Int /\ x + y <= z /\ z < s
          BY <3>1, <3>2, <1>1, <1>2, <1>3
        <4> HIDE DEF x, y, z, s
        <4>2. x < s
          BY <4>1, <1>g
        <4> QED
          BY <4>2, <3>1, <1>3 DEF x, s
      <3> QED
        BY <3>1, <3>2
    <2> HIDE DEF S, L
    <2> QED
      BY <2>1, <2>2, <1>1, PrefixSet
  <1>5. \A i \in 1..k : i \in 1..L /\ q[i].seq < s
    <2>1. \A i \in 1..k : i \in S
      BY <1>4
    <2> QED
      BY <2>1, <1>1, <1>3
  <1>6. \A i \in 1..L : ~(i \in 1..k) => s <= q[i].seq
    <2> SUFFICES ASSUME NEW i \in 1..L, i \notin 1..k PROVE s <= q[i].seq
      OBVIOUS
    <2> DEFINE x == q[i].seq
    <2>1. ~(x < s) /\ x \in Int
      BY <1>2, <1>3, <1>4
    <2> HIDE DEF x, s
    <2>2. s <= x
      BY <2>1, <1>g
    <2> QED
      BY <2>2 DEF x, s
  <1>7. pre = SubSeq(q, 1, k) /\ (q = <<>> <=> L = 0)
    BY <1>1
  <1> HIDE DEF S, k, L, pre
  <1>k. k \in Int /\ 0 <= k /\ k <= L /\ L \in Int /\ k + 1 \in Int
    BY <1>1, <1>4
  <1>8. ASSUME k < L \/ (k > 0 /\ ~q[k].fin)
        PROVE  Queued(cut, lo, s) /\ \A i \in 1..Len(cut) : ~cut[i].fin
    <2>1. \A i \in 1..k : ~q[i].fin
      <3> SUFFICES ASSUME NEW i \in 1..k, q[i].fin PROVE FALSE
        OBVIOUS
      <3>1. i = L
        BY <1>1, <1>5
      <3>2. k = L /\ i = k
        BY <3>1, <1>k
      <3> QED
        BY <3>2, <1>8, <1>k
    <2>2. k \in 0..Len(q)
      BY <1>4 DEF L
    <2> QED
      BY <2>1, <2>2, <1>5, <1>g, BehindCut DEF pre
  <1>9. Queued(post, s, hi) /\ Len(post) = L - k
        /\ \A i \in 1..L - k : post[i] = q[k + i]
    <2> DEFINE a == k + 1
    <2>1. a \in 1..L + 1 /\ L \in a - 1..L /\ L - a + 1 = L - k
          /\ \A i \in 1..L - k : a + i - 1 = k + i
      BY <1>k
    <2>2. \A i \in a..L : i \in 1..L /\ ~(i \in 1..k)
      BY <1>k
    <2>3. \A i \in a..L : s <= q[i].seq /\ q[i].seq + q[i].len <= hi
      BY <2>2, <1>1, <1>6
    <2> HIDE DEF a
    <2>4. /\ Queued(SubSeq(q, a, L), s, hi) /\ Len(SubSeq(q, a, L)) = L - a + 1
          /\ \A i \in 1..L - a + 1 : SubSeq(q, a, L)[i] = q[a + i - 1]
      BY <2>1, <2>3, <1>g, SubQueue DEF L
    <2> QED
      BY <2>1, <2>4 DEF a
  <1>10. (post = <<>> <=> k = L) /\ (k < L => post[1] = q[k + 1])
    <2>1. post \in Seq(Piece)
      BY <1>9, QueuedIs
    <2> HIDE DEF post
    <2>2. post = <<>> <=> Len(post) = 0
      BY <2>1
    <2>3. k < L => 1 \in 1..L - k
      BY <1>k
    <2> QED
      BY <2>2, <2>3, <1>9, <1>k
  <1>11. s <= hi /\ lo <= s
    <2> DEFINE l == g.len
    <2>1. s + l <= hi /\ l \in Int /\ 0 <= l
      BY <1>g
    <2> HIDE DEF l, s
    <2>2. s <= hi
      BY <2>1, <1>g
    <2> QED
      BY <2>2 DEF s
  <1>12. Queued(tcp_oos_insert_segment(g, post), s, hi)
    <2>1. \A i \in 1..Len(post) : g.seq <= post[i].seq
      BY <1>9, QueuedIs
    <2> HIDE DEF post
    <2> QED
      BY <2>1, <1>9, <1>g, OosIs
  <1> HIDE DEF cut, post
  <1>13. CASE q = <<>>
    <2>1. Insert(u, g) = <<g>>
      BY <1>13, <1>i
    <2> QED
      BY <2>1, OneQueue
  <1>14. CASE q # <<>> /\ k = L /\ q[k].fin
    BY <1>14, <1>i, <1>10
  <1>15. CASE q # <<>> /\ k = L /\ ~q[k].fin
    <2> DEFINE a == AtWindow(u, g)
    <2>1. a \in Piece /\ a.seq = s /\ a.len <= g.len
      BY <1>g, AtWindowIs
    <2>2. Insert(u, g) = Append(cut, a)
      BY <1>15, <1>i, <1>10
    <2>3. k > 0
      BY <1>15, <1>7, <1>k
    <2>4. Queued(cut, lo, s) /\ \A i \in 1..Len(cut) : ~cut[i].fin
      BY <2>3, <1>15, <1>8
    <2> HIDE DEF a
    <2>5. Queued(<<a>>, s, hi)
      <3> DEFINE x == a.len
                 l == g.len
                 z == a.seq
      <3>1. x \in Int /\ x <= l /\ s + l <= hi /\ l \in Int /\ z = s
        BY <2>1, <1>g, PieceIs
      <3> HIDE DEF x, l, s, z
      <3>2. s <= z /\ z + x <= hi
        BY <3>1, <1>g
      <3> QED
        BY <3>2, <2>1, <1>g, OneQueue DEF x, z
    <2>6. Append(cut, a) = cut \o <<a>>
      <3>1. cut \in Seq(Piece)
        BY <2>4, QueuedIs
      <3> QED
        BY <3>1, <2>1, AppendIsConcat
    <2> HIDE DEF s
    <2>7. Queued(cut \o <<a>>, lo, hi)
      BY <2>4, <2>5, <1>g, <1>11, ConcatQueue
    <2> QED
      BY <2>2, <2>6, <2>7
  <1>16. CASE k < L /\ post[1].seq # g.seq
    <2>1. Insert(u, g) = cut \o tcp_oos_insert_segment(g, post)
      BY <1>16, <1>i, <1>10, <1>7, <1>k
    <2> HIDE DEF s
    <2> QED
      BY <2>1, <1>8, <1>16, <1>11, <1>12, <1>g, ConcatQueue
  <1>17. CASE k < L /\ post[1].seq = g.seq
    <2>1. Insert(u, g) = IF g.len > post[1].len THEN pre \o tcp_oos_insert_segment(g, post) ELSE q
      BY <1>17, <1>i, <1>10, <1>7, <1>k
    <2>2. q[k + 1].seq = s /\ k + 1 \in 1..L
      BY <1>17, <1>10, <1>k
    <2>3. \A i \in 1..k : lo <= q[i].seq /\ q[i].seq + q[i].len <= s /\ ~q[i].fin
      <3> SUFFICES ASSUME NEW i \in 1..k
                   PROVE  lo <= q[i].seq /\ q[i].seq + q[i].len <= s /\ ~q[i].fin
        OBVIOUS
      <3>1. i \in 1..L /\ i < k + 1 /\ i # L
        BY <1>k, <1>5, <1>17
      <3> QED
        BY <3>1, <2>2, <1>1
    <2>4. Queued(pre, lo, s) /\ Len(pre) = k /\ \A i \in 1..k : pre[i] = q[i]
      <3>1. 1 \in 1..Len(q) + 1 /\ k \in 1 - 1..Len(q) /\ k - 1 + 1 = k
            /\ \A i \in 1..k : 1 + i - 1 = i
        BY <1>k DEF L
      <3> HIDE DEF s
      <3>2. Queued(SubSeq(q, 1, k), lo, s) /\ Len(SubSeq(q, 1, k)) = k - 1 + 1
            /\ \A i \in 1..k - 1 + 1 : SubSeq(q, 1, k)[i] = q[1 + i - 1]
        BY <3>1, <2>3, <1>g, SubQueue
      <3> QED
        BY <3>1, <3>2 DEF pre
    <2>5. \A i \in 1..Len(pre) : ~pre[i].fin
      BY <2>3, <2>4
    <2> HIDE DEF s
    <2>6. Queued(pre \o tcp_oos_insert_segment(g, post), lo, hi)
      BY <2>4, <2>5, <1>11, <1>12, <1>g, ConcatQueue
    <2> QED
      BY <2>1, <2>6
  <1> QED
    BY <1>k, <1>13, <1>14, <1>15, <1>16, <1>17

-----------------------------------------------------------------------------
(* The pcb at rest. *)
LEMMA EvenMiddle ==
  ASSUME Stream, NEW u, Even(u, Have, eof, used), u.out = <<>>, ~u.got_fin
  PROVE  Middle(u) /\ Right - u.rcv_nxt = u.rcv_wnd
  <1> DEFINE p == u.rcv_nxt
             w == u.rcv_wnd
             a == u.ann_wnd
             e == u.edge
  <1>1. /\ u \in Pcb /\ p = IRS + Have + eof /\ w = TCP_WND - (Have - used)
        /\ eof = 0 => a <= w
        /\ p - 1 <= e /\ e <= p + a /\ Queued(u.ooseq, p + 1, e)
    BY DEF Even
  <1>2. p \in Int /\ w \in Int /\ 0 <= w /\ w < WORD /\ e \in Int /\ a \in Int
    BY <1>1, PcbNumbers
  <1>3. Have \in Int /\ used \in Int /\ 0 <= used /\ used <= Have /\ eof \in 0..1 /\ Right \in Int
    BY WindowSum, Sizes DEF Stream, Have
  <1>s. IRS \in Int /\ N \in Int /\ WORD \in Nat \ {0} /\ TCP_WND \in Int /\ TCP_WND + 1 < WORD
    BY Sizes
  <1>4. Right = IRS + eof + used + TCP_WND
    BY DEF Right
  <1>5. Len(u.out) = 0 /\ \A i \in 1..Len(u.out) : u.out[i] = Have + i
    OBVIOUS
  <1>6. Have <= N
    BY DEF Stream
  <1>7. Stands(u)
    <2>1. Have + Len(u.out) = Have
      BY <1>3, <1>5
    <2>2. IRS + Have + Len(u.out) + eof = IRS + Have + eof
      BY <1>3, <1>5, <1>s
    <2> QED
      BY <2>1, <2>2, <1>1, <1>5, <1>6 DEF Stands
  <1> HIDE DEF p, w, a, e
  <1>8. Right - p = w /\ w \in -1..TCP_WND /\ p <= Right /\ w \in 0..WORD - 1
    BY <1>1, <1>2, <1>3, <1>4, <1>s
  <1>9. (Right - p) % WORD = w
    BY <1>8, <1>s, ModSame
  <1>10. Windows(u)
    BY <1>1, <1>8, <1>9 DEF Windows, p, w, a, e
  <1>11. Queued(u.ooseq, p, e)
    <2>1. \A i \in 1..Len(u.ooseq) : p <= u.ooseq[i].seq
      <3> SUFFICES ASSUME NEW i \in 1..Len(u.ooseq) PROVE p <= u.ooseq[i].seq
        OBVIOUS
      <3> DEFINE x == u.ooseq[i].seq
      <3>1. x \in Int /\ p + 1 <= x
        BY <1>1, QueuedIs, PieceIs
      <3> HIDE DEF x
      <3>2. p <= x
        BY <3>1, <1>2
      <3> QED
        BY <3>2 DEF x
    <2> QED
      BY <2>1, <1>1 DEF Queued
  <1> QED
    BY <1>1, <1>7, <1>8, <1>10, <1>11 DEF Middle, p, w, e

(* A queue that goes no further than before goes no further now.           *)
LEMMA WiderQueue ==
  ASSUME NEW q, NEW lo, NEW hi \in Int, NEW hi2 \in Int, hi <= hi2, Queued(q, lo, hi)
  PROVE  Queued(q, lo, hi2)
  <1>1. \A i \in 1..Len(q) : q[i].seq + q[i].len <= hi2
    <2> SUFFICES ASSUME NEW i \in 1..Len(q) PROVE q[i].seq + q[i].len <= hi2
      OBVIOUS
    <2> DEFINE x == q[i].seq + q[i].len
    <2>1. x \in Int /\ x <= hi
      BY QueuedIs, PieceIs
    <2> HIDE DEF x
    <2>2. x <= hi2
      BY <2>1
    <2> QED
      BY <2>2 DEF x
  <1> QED
    BY <1>1 DEF Queued

(* An acknowledgement announces the window. *)
LEMMA SendAckIs ==
  ASSUME NoWrap, NEW u \in Pcb, u.edge <= u.rcv_nxt + u.ann_wnd
  PROVE  LET v == SendAck(u)
         IN  /\ v \in Pcb /\ v.edge = u.rcv_nxt + u.ann_wnd /\ v.ack = "no" /\ v.answer = TRUE
             /\ v.rcv_nxt = u.rcv_nxt /\ v.rcv_wnd = u.rcv_wnd /\ v.ann_wnd = u.ann_wnd
             /\ v.ooseq = u.ooseq /\ v.out = u.out /\ v.got_fin = u.got_fin
             /\ u.edge <= v.edge
  <1> DEFINE p == u.rcv_nxt
             a == u.ann_wnd
             e == p + a
  <1>1. p \in Int /\ a \in Int /\ 0 <= a /\ a < WORD /\ IRS <= p /\ p <= IRS + N + 1
    BY PcbNumbers
  <1>2. IRS \in Nat /\ N \in Nat /\ WORD \in Nat /\ TCP_WND \in Nat
    BY Sizes
  <1>3. u.edge <= e
    OBVIOUS
  <1> HIDE DEF p, a
  <1>4. e \in Nums /\ e \in IRS..IRS + N + WORD
    BY <1>1, <1>2 DEF Nums
  <1>5. Plus(p, a) = e
    BY <1>1, <1>4, PlusNums
  <1> HIDE DEF e
  <1>6. SendAck(u) = [u EXCEPT !.ack = "no", !.edge = e, !.answer = TRUE]
    BY <1>5 DEF SendAck, p, a
  <1>7. e = u.rcv_nxt + u.ann_wnd
    BY DEF e, p, a
  <1> QED
    BY <1>3, <1>4, <1>6, <1>7 DEF Pcb

(* An acknowledgement leaves the pcb at rest. *)
LEMMA SendAckEven ==
  ASSUME NoWrap, NEW u, NEW n, NEW e, NEW k, Even(u, n, e, k)
  PROVE  LET v == SendAck(u)
         IN  /\ Even(v, n, e, k) /\ v.ack = "no" /\ v.out = u.out /\ v.got_fin = u.got_fin
             /\ v.rcv_nxt = u.rcv_nxt /\ v.rcv_wnd = u.rcv_wnd
             /\ u.edge <= v.edge /\ v.ooseq = u.ooseq
  <1> DEFINE v == SendAck(u)
  <1>1. u \in Pcb /\ u.edge <= u.rcv_nxt + u.ann_wnd /\ Queued(u.ooseq, u.rcv_nxt + 1, u.edge)
    BY DEF Even
  <1>2. /\ v \in Pcb /\ v.edge = u.rcv_nxt + u.ann_wnd /\ v.ack = "no"
        /\ v.rcv_nxt = u.rcv_nxt /\ v.rcv_wnd = u.rcv_wnd /\ v.ann_wnd = u.ann_wnd
        /\ v.ooseq = u.ooseq /\ v.out = u.out /\ v.got_fin = u.got_fin
        /\ u.edge <= v.edge
    BY <1>1, SendAckIs
  <1> HIDE DEF v
  <1>3. u.edge \in Int /\ v.edge \in Int /\ u.rcv_nxt \in Int /\ u.ann_wnd \in Int /\ 0 <= u.ann_wnd
    BY <1>1, <1>2, PcbNumbers
  <1>4. Queued(v.ooseq, v.rcv_nxt + 1, v.edge)
    BY <1>1, <1>2, <1>3, WiderQueue
  <1> DEFINE p == u.rcv_nxt
             a == u.ann_wnd
             f == v.edge
  <1>5. p \in Int /\ a \in Int /\ 0 <= a /\ f = p + a
    BY <1>2, <1>3
  <1> HIDE DEF p, a, f
  <1>6. p - 1 <= f /\ f <= p + a
    BY <1>5
  <1> QED
    BY <1>2, <1>4, <1>6 DEF Even, p, a, f, v

(* What of a segment is new. *)
LEMMA TrimIs ==
  ASSUME NoWrap, NEW u \in Pcb, NEW g \in Piece, TCPLEN(g) # 0
  PROVE  LET t == TrimLeft(u, g)
         IN  /\ t \in Piece /\ t.seq + t.len = g.seq + g.len /\ t.fin = g.fin /\ TCPLEN(t) # 0
             /\ g.seq = u.rcv_nxt => t = g
  <1> DEFINE p == u.rcv_nxt
             s == g.seq
             l == g.len
             m == TCPLEN(g)
             n == p - s
             d == SubSeq(g.data, n + 1, Len(g.data))
             h == [g EXCEPT !.seq = p, !.len = l - n, !.data = d]
  <1>1. p \in Int /\ IRS <= p /\ p <= IRS + N + 1
    BY PcbNumbers
  <1>2. /\ s \in Int /\ l \in Int /\ 0 <= l /\ IRS <= s /\ s + l <= IRS + N
        /\ m \in Int /\ m <= l + 1 /\ 0 < m /\ (g.fin => m = l + 1) /\ (~g.fin => m = l)
        /\ g.fin \in BOOLEAN /\ (g.fin => s + l = IRS + N)
    <2>1. /\ s \in Int /\ l \in Int /\ 0 <= l /\ IRS <= s /\ s + l <= IRS + N
          /\ (g.fin => s + l = IRS + N)
      BY PieceIs
    <2>2. /\ m \in Int /\ m <= l + 1 /\ 0 <= m /\ (g.fin => m = l + 1) /\ (~g.fin => m = l)
          /\ g.fin \in BOOLEAN
      BY PieceFlags
    <2>3. m # 0
      OBVIOUS
    <2> HIDE DEF m
    <2>4. 0 < m
      BY <2>2, <2>3
    <2> QED
      BY <2>1, <2>2, <2>4
  <1>3. IRS \in Nat /\ N \in Nat /\ WORD \in Nat /\ TCP_WND \in Nat
    BY Sizes
  <1>4. g.data \in Seq(Nat) /\ Len(g.data) = l /\ \A i \in 1..l : g.data[i] = s - IRS + i
    BY PieceData
  <1>5. TrimLeft(u, g) = IF Overlaps(u, g)
                           THEN [g EXCEPT !.seq = p, !.len = l - Minus(p, s),
                                          !.data = SubSeq(g.data, Minus(p, s) + 1, Len(g.data))]
                           ELSE g
    BY DEF TrimLeft
  <1>6. Overlaps(u, g) <=> BETWEEN(p, Plus(s, 1), Plus(s, m - 1))
    BY DEF Overlaps
  <1> HIDE DEF p, s, l, m
  <1>7. Overlaps(u, g) <=> s + 1 <= p /\ p <= s + m - 1
    <2>1. s + 1 \in Nums /\ s + m - 1 \in Nums /\ p \in Nums /\ s + (m - 1) = s + m - 1 /\ m - 1 \in Int
      BY <1>1, <1>2, <1>3 DEF Nums
    <2>2. Plus(s, 1) = s + 1
      BY <2>1, <1>2, PlusNums
    <2>3. Plus(s, m - 1) = s + m - 1
      <3> DEFINE x == m - 1
      <3>1. x \in Int /\ s + x \in Nums /\ s + x = s + m - 1
        BY <2>1
      <3> HIDE DEF x
      <3>2. Plus(s, x) = s + x
        BY <3>1, <1>2, PlusNums
      <3> QED
        BY <3>1, <3>2 DEF x
    <2>4. (GEQ(p, s + 1) <=> p >= s + 1) /\ (GEQ(s + m - 1, p) <=> s + m - 1 >= p)
      <3> DEFINE x == s + 1
                 y == s + m - 1
      <3> HIDE DEF x, y
      <3>1. (GEQ(p, x) <=> p >= x) /\ (GEQ(y, p) <=> y >= p)
        BY <2>1, Compared DEF x, y
      <3> QED
        BY <3>1 DEF x, y
    <2> QED
      BY <2>2, <2>3, <2>4, <1>6, <1>1, <1>2 DEF BETWEEN
  <1>8. CASE ~Overlaps(u, g)
    <2>1. TrimLeft(u, g) = g
      BY <1>5, <1>8
    <2>2. TCPLEN(g) # 0
      BY <1>2
    <2> QED
      BY <2>1, <2>2
  <1>9. CASE Overlaps(u, g)
    <2>1. n \in Int /\ 0 < n /\ n <= l /\ n <= m - 1 /\ p = s + n /\ p >= s
      BY <1>1, <1>2, <1>7, <1>9
    <2>2. p \in Nums /\ s \in Nums
      BY <1>1, <1>2, <1>3 DEF Nums
    <2>3. Minus(p, s) = n
      BY <2>1, <2>2, Compared
    <2>4. TrimLeft(u, g) = h
      BY <2>3, <1>5, <1>9
    <2>5. /\ d \in Seq(Nat) /\ Len(d) = l - n
          /\ \A i \in 1..l - n : d[i] = p - IRS + i
      <3> HIDE DEF n
      <3>1. \A i \in n + 1..l : i \in 1..l
        BY <2>1, <1>2
      <3>2. \A i \in n + 1..l : g.data[i] \in Nat
        BY <3>1, <1>4, ElementOfSeq
      <3>3. /\ SubSeq(g.data, n + 1, l) \in Seq(Nat)
            /\ Len(SubSeq(g.data, n + 1, l)) = IF n + 1 <= l THEN l - (n + 1) + 1 ELSE 0
            /\ \A i \in 1..l - (n + 1) + 1 : SubSeq(g.data, n + 1, l)[i] = g.data[n + 1 + i - 1]
        <4> DEFINE x == n + 1
        <4>1. x \in Int /\ \A i \in x..l : g.data[i] \in Nat
          BY <2>1, <3>2
        <4> HIDE DEF x
        <4>2. /\ SubSeq(g.data, x, l) \in Seq(Nat)
              /\ Len(SubSeq(g.data, x, l)) = IF x <= l THEN l - x + 1 ELSE 0
              /\ \A i \in 1..l - x + 1 : SubSeq(g.data, x, l)[i] = g.data[x + i - 1]
          BY <4>1, <1>2, SubSeqProperties
        <4> QED
          BY <4>2 DEF x
      <3>4. (IF n + 1 <= l THEN l - (n + 1) + 1 ELSE 0) = l - n
        BY <2>1, <1>2
      <3>5. d = SubSeq(g.data, n + 1, l)
        BY <1>4
      <3>6. ASSUME NEW i \in 1..l - n
            PROVE  d[i] = p - IRS + i
        <4>1. i \in 1..l - (n + 1) + 1 /\ n + 1 + i - 1 = n + i /\ n + i \in 1..l
              /\ s - IRS + (n + i) = p - IRS + i
          BY <2>1, <1>2, <1>3
        <4>2. d[i] = g.data[n + i]
          BY <4>1, <3>3, <3>5
        <4> DEFINE j == n + i
        <4> HIDE DEF j
        <4>3. g.data[j] = s - IRS + j
          BY <4>1, <1>4 DEF j
        <4> QED
          BY <4>1, <4>2, <4>3 DEF j
      <3>7. Len(d) = l - n
        <4> HIDE DEF d
        <4> QED
          BY <3>3, <3>4, <3>5
      <3> QED
        BY <3>3, <3>5, <3>6, <3>7
    <2> DEFINE k == l - n
    <2>6. k \in 0..N /\ p \in Starts /\ p + k = s + l /\ p + k <= IRS + N
      BY <2>1, <1>1, <1>2, <1>3 DEF Starts
    <2>7. g \in Segs
      BY DEF Piece
    <2> HIDE DEF d, n, k
    <2>8. h = [g EXCEPT !.seq = p, !.len = k, !.data = d]
      BY DEF k
    <2>9. h \in Segs /\ h.seq = p /\ h.len = k /\ h.data = d /\ h.fin = g.fin
      <3> HIDE DEF h
      <3> QED
        BY <2>5, <2>6, <2>7, <2>8 DEF Segs
    <2> HIDE DEF h
    <2>10. h \in Piece
      <3>1. h.fin => p + k = IRS + N
        BY <2>6, <2>9, <1>2
      <3> QED
        BY <3>1, <2>5, <2>6, <2>9 DEF Piece, Holds, k
    <2>11. TCPLEN(h) # 0
      <3>1. (h.fin => TCPLEN(h) = k + 1) /\ (~h.fin => TCPLEN(h) = k)
        BY <2>9, <2>10, PieceFlags
      <3>2. k \in Int /\ 0 <= k /\ (~g.fin => k > 0)
        BY <2>1, <2>6, <1>2 DEF k
      <3> QED
        BY <3>1, <3>2, <2>9, <1>2
    <2>12. s # p
      BY <2>1, <1>2
    <2> QED
      BY <2>4, <2>6, <2>9, <2>10, <2>11, <2>12 DEF s, l, p
  <1> QED
    BY <1>8, <1>9

(* What of a segment in sequence fits into the window.                     *)
LEMMA FitIs ==
  ASSUME NEW u \in Pcb, NEW g \in Piece
  PROVE  LET f == Fit(u, g)
         IN  /\ f \in Piece /\ f.seq = g.seq /\ f.len <= g.len
             /\ TCPLEN(f) <= u.rcv_wnd /\ TCPLEN(f) <= TCPLEN(g)
  <1> DEFINE w == u.rcv_wnd
             l == g.len
             m == TCPLEN(g)
             h == [g EXCEPT !.fin = FALSE]
             c == CutTo(h, w)
  <1>1. w \in Int /\ 0 <= w /\ w < WORD /\ l \in Int /\ 0 <= l /\ m \in Int /\ m <= l + 1
    BY PcbNumbers, PieceIs, PieceFlags
  <1>2. h \in Piece /\ h.seq = g.seq /\ h.len = l /\ ~h.fin
    BY Unfinished
  <1>3. Fit(u, g) = IF m > w THEN c ELSE g
    BY DEF Fit
  <1> HIDE DEF h, w, m, l
  <1>4. CASE m > w
    <2>1. w \in 0..h.len
      BY <1>1, <1>2, <1>4
    <2>2. c \in Piece /\ c.seq = h.seq /\ c.len = w /\ ~c.fin
      BY <2>1, <1>1, <1>2, CutIs
    <2>3. TCPLEN(c) = w
      BY <2>2, PieceFlags
    <2>4. w <= l /\ w <= w /\ w <= m
      BY <1>1, <1>4
    <2> QED
      BY <2>2, <2>3, <2>4, <1>2, <1>3, <1>4 DEF w, m, l
  <1>5. CASE ~(m > w)
    <2>1. m <= w /\ l <= l /\ m <= m
      BY <1>1, <1>5
    <2> QED
      BY <2>1, <1>3, <1>5 DEF w, m, l
  <1> QED
    BY <1>4, <1>5

-----------------------------------------------------------------------------
(* Induction over the numbers up to m, for a set.                          *)
LEMMA UpTo ==
  ASSUME NEW m \in Nat, NEW S, 0 \in S,
         \A n \in Nat : n < m /\ n \in S => n + 1 \in S
  PROVE  \A n \in 0..m : n \in S
  <1> DEFINE D == {n \in 0..m : n \notin S}
  <1> SUFFICES ASSUME D # {} PROVE FALSE
    OBVIOUS
  <1>1. PICK k \in D : \A x \in D : k <= x
    <2>1. D \subseteq Nat
      OBVIOUS
    <2> HIDE DEF D
    <2> QED
      BY <2>1, LeastNumber
  <1>2. k \in 0..m /\ k # 0 /\ k \notin S
    OBVIOUS
  <1>3. k - 1 \in Nat /\ k - 1 < m /\ (k - 1) + 1 = k /\ k - 1 \in 0..m
    BY <1>2
  <1>4. k - 1 \in S
    BY <1>1, <1>3
  <1> QED
    BY <1>2, <1>3, <1>4

(* What one round of the loop at the end of tcp_receive does. *)
Follows(u) == u.ooseq # <<>> /\ u.ooseq[1].seq = u.rcv_nxt
OneTaken(u) ==
  IF Follows(u) THEN Take([u EXCEPT !.ooseq = Tail(@)], u.ooseq[1]) ELSE u

(* The rounds of the loop, one after the other.                            *)
LEMMA FollowedIs ==
  ASSUME NEW u, Len(u.ooseq) \in Nat
  PROVE  /\ Followed(u)[0] = u
         /\ \A n \in Nat : n < Len(u.ooseq) => Followed(u)[n + 1] = OneTaken(Followed(u)[n])
  <1> DEFINE L == Len(u.ooseq)
             Step(g, k) == OneTaken(g[k - 1])
             Next1(g, n) == [k \in 0..n |-> IF k = 0 THEN u ELSE Step(g, k)]
             S == {n \in 0..L : \E g : g = Next1(g, n)}
  <1>0. L \in Nat
    OBVIOUS
  <1>1. Followed(u) = CHOOSE f : f = Next1(f, L)
    BY DEF Followed, OneTaken, Follows
  <1> HIDE DEF L
  <1>2. \E f : f = Next1(f, L)
    <2>1. 0 \in S
      <3> DEFINE g == [k \in 0..0 |-> u]
      <3>1. g = Next1(g, 0)
        <4> HIDE DEF Step
        <4> QED
          OBVIOUS
      <3> HIDE DEF Next1
      <3> QED
        BY <3>1, <1>0
    <2>2. ASSUME NEW n \in Nat, n < L, n \in S
          PROVE  n + 1 \in S
      <3>1. PICK g : g = Next1(g, n)
        BY <2>2
      <3> DEFINE h == [k \in 0..(n + 1) |-> IF k <= n THEN g[k] ELSE Step(g, k)]
      <3>2. ASSUME NEW k \in 0..(n + 1)
            PROVE  h[k] = IF k = 0 THEN u ELSE Step(h, k)
        <4>1. CASE k = 0
          <5>1. h[k] = g[0] /\ g[0] = u
            <6> HIDE DEF Step
            <6> QED
              BY <4>1, <3>1, <2>2
          <5> QED
            BY <5>1, <4>1
        <4>2. CASE k # 0
          <5>1. k - 1 \in 0..(n + 1) /\ k - 1 <= n
            BY <4>2, <2>2
          <5>2. h[k - 1] = g[k - 1]
            <6> HIDE DEF Step
            <6> QED
              BY <5>1
          <5>3. h[k] = Step(g, k)
            <6> HIDE DEF Step
            <6>1. CASE k <= n
              <7>1. k \in 0..n
                BY <6>1, <2>2
              <7> QED
                BY <7>1, <6>1, <4>2, <3>1
            <6>2. CASE ~(k <= n)
              BY <6>2
            <6> QED
              BY <6>1, <6>2
          <5> HIDE DEF h
          <5> QED
            BY <5>2, <5>3, <4>2
        <4> QED
          BY <4>1, <4>2
      <3>3. h = Next1(h, n + 1)
        <4>1. h = [k \in 0..(n + 1) |-> h[k]]
          <5> HIDE DEF Step
          <5> QED
            OBVIOUS
        <4> HIDE DEF h, Step
        <4> QED
          BY <3>2, <4>1
      <3>4. n + 1 \in 0..L
        BY <2>2, <1>0
      <3> HIDE DEF Next1, h
      <3> QED
        BY <3>3, <3>4
    <2>3. L \in S
      <3> HIDE DEF S
      <3>1. \A n \in 0..L : n \in S
        BY <2>1, <2>2, <1>0, UpTo
      <3>2. L \in 0..L
        BY <1>0
      <3> QED
        BY <3>1, <3>2
    <2> QED
      BY <2>3
  <1> DEFINE f == CHOOSE f : f = Next1(f, L)
  <1>3. f = Next1(f, L)
    <2> HIDE DEF Next1
    <2> QED
      BY <1>2
  <1>4. Followed(u) = f
    BY <1>1
  <1> HIDE DEF f
  <1>5. f[0] = u
    <2> HIDE DEF Step
    <2> QED
      BY <1>3, <1>0
  <1>6. ASSUME NEW n \in Nat, n < L
        PROVE  f[n + 1] = OneTaken(f[n])
    <2>1. n + 1 \in 0..L /\ n + 1 # 0 /\ (n + 1) - 1 = n
      BY <1>6, <1>0
    <2>2. f[n + 1] = Step(f, n + 1)
      <3> HIDE DEF Step
      <3> QED
        BY <2>1, <1>3
    <2> QED
      BY <2>1, <2>2
  <1> QED
    BY <1>4, <1>5, <1>6 DEF L

(* A segment at the head of the queue that follows is taken.               *)
LEMMA DrainOne ==
  ASSUME NoWrap, Stream, eof = 0, NEW u, Middle(u), Follows(u)
  PROVE  LET v == OneTaken(u)
         IN  /\ Middle(v) /\ v.edge = u.edge /\ v.ack = u.ack /\ v.answer = u.answer
             /\ Len(v.ooseq) = Len(u.ooseq) - 1
  <1> DEFINE q == u.ooseq
             g == q[1]
             p == u.rcv_nxt
             t == Tail(q)
             L == Len(q)
             m == TCPLEN(g)
             e == u.edge
             v == [u EXCEPT !.ooseq = t]
  <1>1. u \in Pcb /\ Stands(u) /\ Windows(u) /\ Queued(q, p, e)
    BY DEF Middle
  <1>2. /\ q \in Seq(Piece) /\ L \in Nat
        /\ \A i \in 1..L : q[i] \in Piece /\ q[i].seq + q[i].len <= e /\ (q[i].fin => i = L)
        /\ \A i, j \in 1..L : i < j => q[i].seq + q[i].len <= q[j].seq
    BY <1>1, QueuedIs
  <1>3. L >= 1 /\ g.seq = p /\ g \in Piece
    <2>1. q # <<>> /\ g.seq = p
      BY DEF Follows
    <2>2. L >= 1
      BY <1>2, <2>1, EmptySeq
    <2> QED
      BY <1>2, <2>1, <2>2
  <1>4. p \in Int /\ IRS <= p /\ p <= IRS + N + 1 /\ e \in Int /\ u.ann_wnd \in Int
    BY <1>1, PcbNumbers
  <1>5. /\ g.seq + g.len <= IRS + N /\ (g.fin => m = g.len + 1) /\ (~g.fin => m = g.len)
        /\ g.len \in Int /\ g.fin \in BOOLEAN /\ m \in Int /\ 0 <= g.len
    BY <1>3, PieceIs, PieceFlags
  <1>s. IRS \in Int /\ N \in Int /\ WORD \in Nat \ {0} /\ TCP_WND + 1 < WORD /\ TCP_WND \in Nat
    BY Sizes
  <1>6. ~u.got_fin
    <2> SUFFICES ASSUME u.got_fin PROVE FALSE
      OBVIOUS
    <2>1. p = IRS + Have + Len(u.out) + 1 /\ Have + Len(u.out) = N
      BY <1>1 DEF Stands
    <2>2. Have \in Int /\ Len(u.out) \in Int
      BY <1>1, WindowSum, PcbIs
    <2>3. p = IRS + N + 1
      <3> DEFINE x == Len(u.out)
      <3>1. p = IRS + Have + x + 1 /\ Have + x = N /\ Have \in Int /\ x \in Int /\ p \in Int
        BY <2>1, <2>2, <1>4
      <3> HIDE DEF x, p
      <3> QED
        BY <3>1, <1>s
    <2> HIDE DEF p, g
    <2> QED
      BY <2>3, <1>3, <1>4, <1>5, <1>s
  <1>7. g.seq + g.len <= e /\ e <= Right
    <2>1. g.seq + g.len <= e
      BY <1>2, <1>3
    <2>2. u.ann_wnd <= u.rcv_wnd /\ e <= p + u.ann_wnd /\ p <= Right
          /\ u.rcv_wnd = (Right - p) % WORD /\ Right - p \in -1..TCP_WND
      BY <1>1, <1>6 DEF Windows
    <2>3. Right \in Int
      BY WindowSum
    <2> DEFINE x == Right - p
    <2>4. x \in 0..WORD - 1
      BY <2>2, <2>3, <1>4, <1>s
    <2>5. x % WORD = x
      <3> HIDE DEF x
      <3> QED
        BY <2>4, <1>s, ModSame
    <2>6. u.rcv_wnd = Right - p
      BY <2>2, <2>5
    <2> QED
      BY <2>1, <2>2, <2>3, <2>6, <1>4
  <1>8. Queued(t, p + m, e) /\ Len(t) = L - 1
    <2>1. t = SubSeq(q, 2, L)
      BY DEF Tail
    <2>2. ASSUME NEW i \in 2..L PROVE p + m <= q[i].seq /\ q[i].seq + q[i].len <= e
      <3>1. i \in 1..L /\ 1 \in 1..L /\ 1 < i /\ 1 # L
        BY <1>2, <1>3
      <3>2. ~g.fin /\ q[1].seq + q[1].len <= q[i].seq
        BY <3>1, <1>2
      <3> QED
        BY <3>1, <3>2, <1>2, <1>3, <1>5
    <2> DEFINE lo == p + m
    <2>3. lo \in Int /\ 2 \in 1..L + 1 /\ L \in 2 - 1..L /\ L - 2 + 1 = L - 1
      BY <1>2, <1>3, <1>4, <1>5
    <2>4. \A i \in 2..L : lo <= q[i].seq /\ q[i].seq + q[i].len <= e
      BY <2>2
    <2> HIDE DEF lo, q, p, e, m
    <2>5. Queued(SubSeq(q, 2, L), lo, e) /\ Len(SubSeq(q, 2, L)) = L - 2 + 1
      BY <1>1, <2>3, <2>4, <1>4, SubQueue
    <2> QED
      BY <2>1, <2>3, <2>5 DEF lo
  <1>9. /\ v \in Pcb /\ v.rcv_nxt = p /\ v.rcv_wnd = u.rcv_wnd /\ v.ann_wnd = u.ann_wnd
        /\ v.edge = e /\ v.ooseq = t /\ v.out = u.out /\ v.got_fin = u.got_fin
        /\ v.ack = u.ack /\ v.answer = u.answer
    <2>1. t \in Seq(Piece)
      BY <1>8 DEF Queued
    <2> HIDE DEF t
    <2> QED
      BY <2>1, <1>1 DEF Pcb
  <1>10. Stands(v) /\ Windows(v)
    <2> HIDE DEF v
    <2>1. Stands(v)
      BY <1>1, <1>9 DEF Stands
    <2>2. Windows(v)
      BY <1>1, <1>9 DEF Windows
    <2> QED
      BY <2>1, <2>2
  <1>11. g.seq + m <= e + 1
    BY <1>5, <1>7, <1>3, <1>4
  <1> HIDE DEF v, t
  <1>12. /\ Middle(Take(v, g)) /\ Take(v, g).ooseq = v.ooseq /\ Take(v, g).edge = v.edge
         /\ Take(v, g).ack = v.ack /\ Take(v, g).answer = v.answer
    <2>1. /\ ~v.got_fin /\ g.seq = v.rcv_nxt /\ g.seq + g.len <= Right
          /\ g.seq + TCPLEN(g) <= v.edge + 1 /\ Queued(v.ooseq, g.seq + TCPLEN(g), v.edge)
      <3>0. g.seq + g.len <= Right
        <4> DEFINE x == g.seq + g.len
        <4>1. x \in Int /\ Right \in Int /\ x <= e
          BY <1>3, <1>4, <1>5, <1>7, WindowSum
        <4> HIDE DEF x
        <4>2. x <= Right
          BY <4>1, <1>4, <1>7
        <4> QED
          BY <4>2 DEF x
      <3>1. ~v.got_fin /\ g.seq = v.rcv_nxt /\ g.seq + g.len <= Right
        BY <1>3, <1>6, <1>7, <1>9, <3>0
      <3>2. g.seq + m <= v.edge + 1
        BY <1>9, <1>11
      <3>3. Queued(v.ooseq, g.seq + m, v.edge)
        BY <1>3, <1>8, <1>9
      <3> QED
        BY <3>1, <3>2, <3>3
    <2> HIDE DEF g
    <2> QED
      BY <2>1, <1>3, <1>9, <1>10, TakeMiddle
  <1>13. OneTaken(u) = Take(v, g)
    BY DEF OneTaken, v, t
  <1> QED
    BY <1>8, <1>9, <1>12, <1>13

(* The loop stops when the head does not follow, or the queue is empty.    *)
LEMMA DrainIs ==
  ASSUME NoWrap, Stream, eof = 0, NEW u, Middle(u)
  PROVE  LET v == Drain(u)
         IN  /\ Middle(v) /\ v.edge = u.edge /\ v.ack = u.ack /\ v.answer = u.answer
             /\ ~Follows(v)
  <1> DEFINE f == Followed(u)
             L == Len(u.ooseq)
             Good(n) == /\ Middle(f[n]) /\ f[n].edge = u.edge /\ f[n].ack = u.ack
                        /\ f[n].answer = u.answer
                        /\ (Follows(f[n]) => Len(f[n].ooseq) + n <= L)
             S == {n \in 0..L : Good(n)}
  <1>1. L \in Nat
    <2>1. u.ooseq \in Seq(Piece)
      BY DEF Middle, Queued
    <2> QED
      BY <2>1
  <1>2. f[0] = u /\ \A n \in Nat : n < L => f[n + 1] = OneTaken(f[n])
    BY <1>1, FollowedIs
  <1> HIDE DEF f, L
  <1>3. 0 \in S
    <2>1. Len(f[0].ooseq) + 0 <= L
      BY <1>1, <1>2 DEF L
    <2> QED
      BY <2>1, <1>1, <1>2
  <1>4. ASSUME NEW n \in Nat, n < L, n \in S
        PROVE  n + 1 \in S
    <2>1. Good(n) /\ n + 1 \in 0..L
      BY <1>1, <1>4
    <2>2. f[n + 1] = OneTaken(f[n])
      BY <1>2, <1>4
    <2>3. CASE Follows(f[n])
      <3> DEFINE w == f[n]
                 v == OneTaken(w)
      <3>1. Middle(w) /\ Follows(w) /\ Len(w.ooseq) + n <= L
        BY <2>1, <2>3
      <3> HIDE DEF w
      <3>2. /\ Middle(v) /\ v.edge = w.edge /\ v.ack = w.ack /\ v.answer = w.answer
            /\ Len(v.ooseq) = Len(w.ooseq) - 1
        BY <3>1, DrainOne
      <3>3. Len(w.ooseq) \in Nat
        <4>1. w.ooseq \in Seq(Piece)
          BY <3>1 DEF Middle, Queued
        <4> QED
          BY <4>1
      <3> HIDE DEF v
      <3>4. Len(v.ooseq) + (n + 1) <= L
        <4> DEFINE x == Len(v.ooseq)
                   y == Len(w.ooseq)
        <4>1. x = y - 1 /\ y \in Nat /\ y + n <= L
          BY <3>1, <3>2, <3>3
        <4> HIDE DEF x, y
        <4>2. x + (n + 1) <= L
          BY <4>1, <1>1
        <4> QED
          BY <4>2 DEF x
      <3>5. f[n + 1] = v
        BY <2>2 DEF v, w
      <3>6. f[n].edge = u.edge /\ f[n].ack = u.ack /\ f[n].answer = u.answer
        BY <2>1
      <3>7. Good(n + 1)
        BY <3>2, <3>4, <3>5, <3>6 DEF w
      <3> QED
        BY <3>7, <2>1
    <2>4. CASE ~Follows(f[n])
      <3>1. f[n + 1] = f[n]
        BY <2>2, <2>4 DEF OneTaken
      <3>2. Good(n + 1)
        BY <2>1, <2>4, <3>1
      <3> QED
        BY <2>1, <3>2
    <2> QED
      BY <2>3, <2>4
  <1>5. L \in S
    <2> HIDE DEF S
    <2>1. L \in 0..L
      BY <1>1
    <2> QED
      BY <2>1, <1>1, <1>3, <1>4, UpTo
  <1>6. Good(L)
    BY <1>5
  <1>7. ~Follows(f[L])
    <2> SUFFICES ASSUME Follows(f[L]) PROVE FALSE
      OBVIOUS
    <2> DEFINE y == f[L].ooseq
    <2>1. y \in Seq(Piece) /\ y # <<>>
      BY <1>6 DEF Middle, Queued, Follows
    <2>2. Len(y) \in Nat /\ Len(y) # 0
      BY <2>1, EmptySeq
    <2>3. Len(y) + L <= L
      BY <1>6
    <2> HIDE DEF y
    <2> QED
      BY <2>2, <2>3, <1>1
  <1>8. Drain(u) = f[L]
    BY DEF Drain, f, L
  <1> QED
    BY <1>6, <1>7, <1>8

-----------------------------------------------------------------------------
(* The pcb with another queue.                                             *)
LEMMA Requeued ==
  ASSUME NEW u \in Pcb, NEW t, t \in Seq(Piece)
  PROVE  LET v == [u EXCEPT !.ooseq = t]
         IN  /\ v \in Pcb /\ v.rcv_nxt = u.rcv_nxt /\ v.rcv_wnd = u.rcv_wnd
             /\ v.ann_wnd = u.ann_wnd /\ v.edge = u.edge /\ v.ooseq = t /\ v.out = u.out
             /\ v.got_fin = u.got_fin /\ v.ack = u.ack /\ v.answer = u.answer
             /\ (Stands(u) => Stands(v)) /\ (Windows(u) => Windows(v))
  <1> DEFINE v == [u EXCEPT !.ooseq = t]
  <1>1. /\ v \in Pcb /\ v.rcv_nxt = u.rcv_nxt /\ v.rcv_wnd = u.rcv_wnd
        /\ v.ann_wnd = u.ann_wnd /\ v.edge = u.edge /\ v.ooseq = t /\ v.out = u.out
        /\ v.got_fin = u.got_fin /\ v.ack = u.ack /\ v.answer = u.answer
    BY DEF Pcb
  <1> HIDE DEF v
  <1>2. Stands(u) => Stands(v)
    BY <1>1 DEF Stands
  <1>3. Windows(u) => Windows(v)
    BY <1>1 DEF Windows
  <1> QED
    BY <1>1, <1>2, <1>3 DEF v

(* The pcb with another acknowledgement due. *)
LEMMA Reacked ==
  ASSUME NEW u \in Pcb, NEW k \in {"no", "delay", "now"}
  PROVE  LET v == [u EXCEPT !.ack = k]
         IN  /\ v \in Pcb /\ v.rcv_nxt = u.rcv_nxt /\ v.rcv_wnd = u.rcv_wnd
             /\ v.ann_wnd = u.ann_wnd /\ v.edge = u.edge /\ v.ooseq = u.ooseq /\ v.out = u.out
             /\ v.got_fin = u.got_fin /\ v.ack = k /\ v.answer = u.answer
             /\ (Middle(u) => Middle(v))
             /\ \A n, e, c : Even(u, n, e, c) => Even(v, n, e, c)
  <1> DEFINE v == [u EXCEPT !.ack = k]
  <1>1. /\ v \in Pcb /\ v.rcv_nxt = u.rcv_nxt /\ v.rcv_wnd = u.rcv_wnd
        /\ v.ann_wnd = u.ann_wnd /\ v.edge = u.edge /\ v.ooseq = u.ooseq /\ v.out = u.out
        /\ v.got_fin = u.got_fin /\ v.ack = k /\ v.answer = u.answer
    BY DEF Pcb
  <1> HIDE DEF v
  <1>2. Middle(u) => Middle(v)
    <2>1. Stands(u) => Stands(v)
      BY <1>1 DEF Stands
    <2>2. Windows(u) => Windows(v)
      BY <1>1 DEF Windows
    <2> QED
      BY <1>1, <2>1, <2>2 DEF Middle
  <1>3. \A n, e, c : Even(u, n, e, c) => Even(v, n, e, c)
    BY <1>1 DEF Even
  <1> QED
    BY <1>1, <1>2, <1>3 DEF v

(* A queue whose head does not follow lies beyond.                         *)
LEMMA Beyond ==
  ASSUME NEW q, NEW lo \in Int, NEW hi, Queued(q, lo, hi), q # <<>> => q[1].seq # lo
  PROVE  Queued(q, lo + 1, hi)
  <1>1. /\ q \in Seq(Piece) /\ Len(q) \in Nat
        /\ \A i \in 1..Len(q) : q[i] \in Piece /\ lo <= q[i].seq
        /\ \A i, j \in 1..Len(q) : i < j => q[i].seq + q[i].len <= q[j].seq
    BY QueuedIs
  <1>2. ASSUME NEW i \in 1..Len(q) PROVE lo + 1 <= q[i].seq
    <2> DEFINE a == q[1].seq
               l == q[1].len
               x == q[i].seq
    <2>1. 1 \in 1..Len(q) /\ q # <<>>
      BY <1>1
    <2>2. a \in Int /\ l \in Int /\ 0 <= l /\ lo <= a /\ a # lo /\ x \in Int
      BY <1>1, <2>1, PieceIs
    <2>3. i = 1 \/ 1 < i
      BY <1>1
    <2>4. 1 < i => a + l <= x
      BY <1>1, <2>1
    <2>5. i = 1 => x = a
      OBVIOUS
    <2> HIDE DEF a, l, x
    <2>6. lo + 1 <= x
      BY <2>2, <2>3, <2>4, <2>5
    <2> QED
      BY <2>6 DEF x
  <1> QED
    BY <1>2 DEF Queued

(* A piece as the peer sends it: within the window, or a probe of one that *)
(* is closed.                                                              *)
Lets(u, g) == \/ g.seq + g.len <= u.edge
              \/ u.edge = u.rcv_nxt /\ g.seq = u.rcv_nxt /\ TCPLEN(g) = 1

(* What follows is taken, and with it what it joins to in the queue.       *)
LEMMA InSequenceIs ==
  ASSUME NoWrap, Stream, NEW u, Even(u, Have, eof, used), u.out = <<>>, ~u.got_fin,
         NEW g \in Piece, g.seq = u.rcv_nxt, Lets(u, g)
  PROVE  LET v == InSequence(u, g)
         IN  /\ Middle(v) /\ v.edge = u.edge /\ v.ack = u.ack /\ v.answer = u.answer
             /\ ~Follows(v)
  <1> DEFINE p == u.rcv_nxt
             w == u.rcv_wnd
             e == u.edge
             q == u.ooseq
             f == Fit(u, g)
             m == TCPLEN(f)
             k == f.len
             right == f.seq + k
             b == Before(f, right, q)
             t == Behind(right, q)
  <1>1. /\ Middle(u) /\ Right - p = w /\ u \in Pcb /\ Stands(u) /\ Windows(u)
        /\ Queued(q, p + 1, e)
    BY EvenMiddle DEF Middle, Even
  <1>2. p \in Int /\ IRS <= p /\ w \in Int /\ 0 <= w /\ w < WORD /\ e \in Int /\ Right \in Int
    BY <1>1, PcbNumbers, WindowSum
  <1>s. IRS \in Nat /\ N \in Nat /\ WORD \in Nat /\ TCP_WND \in Nat
    BY Sizes
  <1>3. /\ f \in Piece /\ f.seq = p /\ k <= g.len /\ m <= w /\ m <= TCPLEN(g)
    BY <1>1, FitIs
  <1>4. /\ k \in Int /\ 0 <= k /\ p + k <= IRS + N /\ p + k \in Nums
        /\ m \in Int /\ (f.fin => m = k + 1) /\ (~f.fin => m = k) /\ f.fin \in BOOLEAN
    <2>1. /\ f.len \in Int /\ 0 <= f.len /\ f.seq + f.len <= IRS + N /\ f.seq + f.len \in Nums
      BY <1>3, PieceIs
    <2>2. /\ m \in Int /\ (f.fin => m = f.len + 1) /\ (~f.fin => m = f.len) /\ f.fin \in BOOLEAN
      BY <1>3, PieceFlags
    <2> QED
      BY <1>3, <2>1, <2>2
  <1>5. p + k <= e \/ (e = p /\ m <= 1)
    <2> DEFINE l == g.len
               y == TCPLEN(g)
    <2>1. l \in Int /\ y \in Int /\ (p + l <= e \/ (e = p /\ y = 1)) /\ k <= l /\ m <= y
      BY <1>3, PieceIs, PieceFlags DEF Lets
    <2> HIDE DEF l, y, p, k, m, e
    <2> QED
      BY <2>1, <1>2, <1>4
  <1>6. eof = 0
    <2>1. eof = 1 => p = IRS + N + 1
      BY WindowSum DEF Even, Stream
    <2>2. p <= IRS + N
      <3> HIDE DEF p, k
      <3> QED
        BY <1>2, <1>4, <1>s
    <2> HIDE DEF p
    <2> QED
      BY <2>1, <2>2, <1>s DEF Stream
  <1>7. p + k <= Right /\ k < WORD /\ right = p + k
    <2>1. k <= m
      <3> HIDE DEF f, k, m
      <3> QED
        BY <1>4
    <2>2. right = p + k
      BY <1>3
    <2>3. m <= w /\ Right - p = w /\ k \in Int /\ m \in Int
      BY <1>1, <1>3, <1>4
    <2> HIDE DEF f, k, m, p, w, right
    <2>4. p + k <= Right /\ k < WORD
      BY <1>2, <1>s, <2>1, <2>3
    <2> QED
      BY <2>2, <2>4
  <1>8. p + m <= e + 1
    <2> HIDE DEF f, k, m, p, e
    <2>1. m <= k + 1
      BY <1>4
    <2> QED
      BY <2>1, <1>2, <1>4, <1>5
  <1> HIDE DEF f, k, m, right
  <1>9. ASSUME NEW h \in Piece, NEW z, h.seq = p, p + h.len <= Right, p + TCPLEN(h) <= e + 1,
               Queued(z, p + TCPLEN(h), e)
        PROVE  LET v == Take([u EXCEPT !.ooseq = z], h)
               IN  /\ Middle(v) /\ v.edge = e /\ v.ack = u.ack /\ v.answer = u.answer
                   /\ v.ooseq = z
    <2> DEFINE v == [u EXCEPT !.ooseq = z]
    <2>1. z \in Seq(Piece)
      BY <1>9 DEF Queued
    <2>2. /\ v \in Pcb /\ v.rcv_nxt = p /\ v.edge = e /\ v.ooseq = z
          /\ v.got_fin = u.got_fin /\ v.ack = u.ack /\ v.answer = u.answer
          /\ Stands(v) /\ Windows(v)
      BY <2>1, <1>1, Requeued
    <2> HIDE DEF v
    <2>3. /\ h.seq = v.rcv_nxt /\ h.seq + h.len <= Right /\ h.seq + TCPLEN(h) <= v.edge + 1
          /\ Queued(v.ooseq, h.seq + TCPLEN(h), v.edge) /\ ~v.got_fin
      BY <1>9, <2>2
    <2>4. /\ Middle(Take(v, h)) /\ Take(v, h).ooseq = v.ooseq /\ Take(v, h).edge = v.edge
          /\ Take(v, h).ack = v.ack /\ Take(v, h).answer = v.answer
      BY <2>2, <2>3, <1>6, TakeMiddle
    <2> QED
      BY <2>2, <2>4 DEF v
  <1>10. CASE f.fin
    <2> DEFINE v == Take([u EXCEPT !.ooseq = <<>>], f)
    <2>1. InSequence(u, g) = v
      BY <1>10 DEF InSequence, f
    <2>2. Queued(<<>>, p + TCPLEN(f), e)
      BY EmptyQueue
    <2>3. p + f.len <= Right /\ p + TCPLEN(f) <= e + 1
      BY <1>7, <1>8 DEF k, m
    <2>4. Middle(v) /\ v.edge = e /\ v.ack = u.ack /\ v.answer = u.answer /\ v.ooseq = <<>>
      BY <2>2, <2>3, <1>3, <1>9
    <2> HIDE DEF v
    <2> QED
      BY <2>1, <2>4 DEF Follows
  <1>11. CASE ~f.fin
    <2>1. Plus(f.seq, TCPLEN(f)) = right
      <3>1. m = k
        BY <1>4, <1>11
      <3>2. Plus(p, k) = p + k
        BY <1>2, <1>4, PlusNums
      <3> QED
        BY <3>1, <3>2, <1>3, <1>7 DEF m
    <2> DEFINE v == Take([u EXCEPT !.ooseq = t], b)
    <2>2. InSequence(u, g) = Drain(v)
      <3>1. InSequence(u, g) = Drain(Take([u EXCEPT !.ooseq = Behind(right, @)], b))
        BY <2>1, <1>11 DEF InSequence, f
      <3> QED
        BY <3>1
    <2>3. \A i \in 1..Len(q) : f.seq <= q[i].seq
      <3> SUFFICES ASSUME NEW i \in 1..Len(q) PROVE p <= q[i].seq
        BY <1>3
      <3> DEFINE x == q[i].seq
      <3>1. x \in Int /\ p + 1 <= x
        BY <1>1, QueuedIs, PieceIs
      <3> HIDE DEF x, p
      <3>2. p <= x
        BY <3>1, <1>2
      <3> QED
        BY <3>2 DEF x
    <2>4. /\ b \in Piece /\ b.seq = p /\ b.len <= k /\ Queued(t, p + TCPLEN(b), e)
          /\ p + TCPLEN(b) <= e + 1
      <3>1. CASE p + k <= e
        <4>1. f.seq + f.len <= e /\ f.len < WORD /\ right = f.seq + f.len
          BY <3>1, <1>3, <1>7 DEF k, right
        <4>2. /\ b \in Piece /\ b.seq = f.seq /\ b.len <= f.len /\ Queued(t, b.seq + TCPLEN(b), e)
          BY <4>1, <2>3, <1>1, <1>2, <1>3, <1>11, BeforeIs
        <4> DEFINE x == b.len
                   y == TCPLEN(b)
        <4>3. x \in Int /\ y \in Int /\ y <= x + 1 /\ x <= k
          BY <4>2, PieceIs, PieceFlags DEF k
        <4> HIDE DEF b, x, y, p, e
        <4>4. p + y <= e + 1
          BY <4>3, <3>1, <1>2, <1>4
        <4> QED
          BY <4>2, <4>3, <4>4, <1>3 DEF x, y
      <3>2. CASE ~(p + k <= e)
        <4>1. e = p /\ m <= 1
          BY <3>2, <1>5
        <4>2. Len(q) = 0 /\ q \in Seq(Piece)
          <5>1. Len(q) \in Nat /\ q \in Seq(Piece)
            BY <1>1, QueuedIs
          <5>2. ASSUME NEW i \in 1..Len(q) PROVE FALSE
            <6> DEFINE x == q[i].seq
                       y == q[i].len
            <6>1. x \in Int /\ y \in Int /\ 0 <= y /\ p + 1 <= x /\ x + y <= e
              BY <1>1, QueuedIs, PieceIs
            <6> HIDE DEF x, y, p, e
            <6> QED
              BY <6>1, <4>1, <1>2
          <5>3. Len(q) # 0 => 1 \in 1..Len(q)
            BY <5>1
          <5> QED
            BY <5>1, <5>2, <5>3
        <4> DEFINE hi == IRS + N
        <4>3. /\ f.seq + f.len <= hi /\ f.len < WORD /\ right = f.seq + f.len
              /\ hi \in Int
          BY <1>3, <1>4, <1>7, <1>s DEF k, right
        <4>4. Queued(q, p, hi)
          BY <4>2, EmptySeq, EmptyQueue
        <4> HIDE DEF hi
        <4>5. /\ b \in Piece /\ b.seq = f.seq /\ b.len <= f.len
              /\ Queued(t, b.seq + TCPLEN(b), hi)
              /\ \A i \in 1..Len(t) : \E j \in 1..Len(q) : t[i] = q[j]
              /\ b.fin => \E j \in 1..Len(q) : q[j].fin
          BY <4>3, <4>4, <2>3, <1>3, <1>11, BeforeIs
        <4> HIDE DEF b, t
        <4>6. t = <<>>
          <5>1. t \in Seq(Piece) /\ Len(t) \in Nat
            BY <4>5, QueuedIs
          <5>2. \A j \in 1..Len(q) : FALSE
            BY <4>2
          <5>3. Len(t) # 0 => 1 \in 1..Len(t)
            BY <5>1
          <5>4. Len(t) = 0
            BY <5>2, <5>3, <4>5
          <5> QED
            BY <5>1, <5>4, EmptySeq
        <4>7. ~b.fin
          BY <4>2, <4>5
        <4> DEFINE x == b.len
                   y == TCPLEN(b)
        <4>8. x \in Int /\ y = x /\ x <= k
          BY <4>5, <4>7, PieceIs, PieceFlags DEF k
        <4>9. m = k
          BY <1>4, <1>11
        <4> HIDE DEF x, y, p, e
        <4>10. p + y <= e + 1
          BY <4>1, <4>8, <4>9, <1>2, <1>4
        <4>11. Queued(t, p + y, e)
          BY <4>6, EmptyQueue
        <4> QED
          BY <4>5, <4>8, <4>10, <4>11, <1>3 DEF x, y
      <3> QED
        BY <3>1, <3>2
    <2>5. p + b.len <= Right
      <3> DEFINE x == b.len
      <3>1. x \in Int /\ x <= k
        BY <2>4, PieceIs
      <3> HIDE DEF x, p
      <3>2. p + x <= Right
        BY <3>1, <1>2, <1>4, <1>7
      <3> QED
        BY <3>2 DEF x
    <2> HIDE DEF b, t
    <2>6. /\ Middle(v) /\ v.edge = e /\ v.ack = u.ack /\ v.answer = u.answer
      BY <2>4, <2>5, <1>9
    <2> HIDE DEF v
    <2> QED
      BY <2>2, <2>6, <1>6, DrainIs
  <1> QED
    BY <1>10, <1>11

-----------------------------------------------------------------------------
(* What the peer sends is a piece, and the window lets it come. *)
LEMMA SegmentIs ==
  ASSUME NoWrap, r \in Pcb, NEW g \in Segments
  PROVE  g \in Piece /\ Lets(r, g)
  <1>s. IRS \in Nat /\ N \in Nat /\ WORD \in Nat /\ TCP_WND \in Nat
    BY Sizes
  <1>1. PICK a \in 0..N, b \in 0..N, fin \in BOOLEAN : g = Segment(a, b, fin)
    BY DEF Segments
  <1>2. g.len >= 0 /\ (g.fin => g.seq = Plus(IRS, N - g.len)) /\ Sendable(g)
    BY DEF Segments
  <1> DEFINE l == b - a
             d == [i \in 1..l |-> a + i]
             s == IRS + a
  <1>3. Plus(IRS, a) = s
    <2>1. s \in Nums
      BY <1>s DEF Nums
    <2> QED
      BY <2>1, <1>s, PlusNums
  <1> HIDE DEF s
  <1>4. g = [seq |-> s, len |-> l, data |-> d, fin |-> fin, syn |-> FALSE]
    BY <1>1, <1>3 DEF Segment
  <1>5. g.seq = s /\ g.len = l /\ g.data = d /\ g.fin = fin
    <2> HIDE DEF l, d
    <2> QED
      BY <1>4
  <1>6. l \in 0..N /\ s \in Starts /\ s + l <= IRS + N
    <2>1. l >= 0
      BY <1>2, <1>5
    <2> QED
      BY <2>1, <1>s DEF Starts, s
  <1>7. fin => s + l = IRS + N
    <2> SUFFICES ASSUME fin PROVE s + l = IRS + N
      OBVIOUS
    <2> DEFINE x == N - l
    <2>1. IRS + x \in Nums /\ x \in Int
      BY <1>6, <1>s DEF Nums
    <2>2. s = Plus(IRS, x)
      BY <1>2, <1>5
    <2> HIDE DEF x, l
    <2>3. s = IRS + x
      BY <2>1, <2>2, <1>s, PlusNums
    <2> QED
      BY <2>3, <1>6, <1>s DEF x
  <1>8. d \in Seq(Nat) /\ Len(d) = l /\ \A i \in 1..l : d[i] = s - IRS + i
    <2>1. \A i \in 1..l : a + i \in Nat
      BY <1>6
    <2>2. l \in Nat
      BY <1>6
    <2>3. s - IRS = a
      BY <1>s DEF s
    <2> HIDE DEF l
    <2>4. \A i \in 1..l : d[i] = a + i
      OBVIOUS
    <2>5. d \in Seq(Nat) /\ Len(d) = l
      BY <2>1, <2>2
    <2> QED
      BY <2>3, <2>4, <2>5
  <1> HIDE DEF l, d
  <1>9. g \in Piece
    <2>1. g \in Segs
      BY <1>4, <1>6, <1>8 DEF Segs
    <2>2. Holds(g)
      BY <1>5, <1>6, <1>7, <1>8 DEF Holds
    <2> QED
      BY <2>1, <2>2 DEF Piece
  <1>10. Lets(r, g)
    <2>1. End(g) = s + l /\ s + l \in Nums /\ g.seq + g.len = s + l
      BY <1>5, <1>9, EndIs, PieceIs
    <2>2. r.edge \in Nums
      BY <1>s, PcbIs DEF Nums
    <2>3. GEQ(r.edge, End(g)) => s + l <= r.edge
      <3> DEFINE x == s + l
                 y == r.edge
      <3> HIDE DEF x, y
      <3>1. GEQ(y, x) <=> y >= x
        BY <2>1, <2>2, Compared DEF x, y
      <3>2. y \in Int /\ x \in Int
        BY <2>1, <2>2, <1>s DEF Nums, x, y
      <3>3. GEQ(y, x) => x <= y
        BY <3>1, <3>2
      <3> QED
        BY <3>3, <2>1 DEF x, y
    <2> QED
      BY <2>1, <2>3, <1>2 DEF Sendable, Lets
  <1> QED
    BY <1>9, <1>10

(* The second half of tcp_receive.                                         *)
LEMMA ReceiveDataIs ==
  ASSUME NoWrap, Stream, Rests(r), Even(r, Have, eof, used), NEW g \in Piece, Lets(r, g), NEW ok
  PROVE  LET v == ReceiveData(r, g, ok)
         IN  /\ Middle(v) /\ Queued(v.ooseq, v.rcv_nxt + 1, v.edge) /\ r.edge <= v.edge
             /\ TCPLEN(g) = 0 => v.out = <<>>
  <1> DEFINE t == TrimLeft(r, g)
             v == ReceiveData(r, g, ok)
             p == r.rcv_nxt
             e == r.edge
  <1> SUFFICES /\ Middle(v) /\ Queued(v.ooseq, v.rcv_nxt + 1, v.edge) /\ e <= v.edge
               /\ TCPLEN(g) = 0 => v.out = <<>>
    OBVIOUS
  <1>1. /\ r \in Pcb /\ Middle(r) /\ Queued(r.ooseq, p + 1, e) /\ r.out = <<>> /\ ~r.got_fin
        /\ e <= p + r.ann_wnd /\ p - 1 <= e
    BY EvenMiddle DEF Rests, Even
  <1>2. p \in Int /\ e \in Int /\ r.ann_wnd \in Int /\ r.ann_wnd < WORD /\ r.rcv_wnd \in Int
        /\ r.ack \in {"no", "delay", "now"}
    BY <1>1, PcbNumbers, PcbIs
  <1>s. WORD \in Int
    BY Sizes
  <1>3. TCPLEN(g) # 0 => /\ t \in Piece /\ t.seq + t.len = g.seq + g.len
                         /\ (g.seq = p => t = g)
    <2> HIDE DEF p
    <2> QED
      BY <1>1, TrimIs DEF p
  <1>4. CASE TCPLEN(g) = 0
    <2>1. v = r \/ v = [r EXCEPT !.ack = "now"]
      BY <1>4 DEF ReceiveData, tcp_ack_now
    <2>2. e <= e
      BY <1>2
    <2>3. CASE v = r
      BY <2>2, <2>3, <1>1
    <2>4. CASE v = [r EXCEPT !.ack = "now"]
      <3>1. /\ Middle(v) /\ v.ooseq = r.ooseq /\ v.rcv_nxt = p /\ v.edge = e /\ v.out = r.out
        <4>1. "now" \in {"no", "delay", "now"}
          OBVIOUS
        <4> HIDE DEF v
        <4> QED
          BY <4>1, <2>4, <1>1, Reacked
      <3> HIDE DEF v
      <3> QED
        BY <3>1, <2>2, <1>1
    <2> QED
      BY <2>1, <2>3, <2>4
  <1> DEFINE c == SendAck(r)
  <1>5. /\ Even(c, Have, eof, used) /\ c.out = <<>> /\ ~c.got_fin /\ c.answer = TRUE
        /\ e <= c.edge /\ c.ooseq = r.ooseq /\ c.rcv_nxt = p /\ c \in Pcb
    <2>1. /\ Even(c, Have, eof, used) /\ c.out = r.out /\ c.got_fin = r.got_fin
          /\ e <= c.edge /\ c.ooseq = r.ooseq /\ c.rcv_nxt = p
      BY SendAckEven
    <2>2. c.answer = TRUE
      BY <1>1, SendAckIs
    <2> HIDE DEF c
    <2> QED
      BY <2>1, <2>2, <1>1 DEF Even
  <1>6. Middle(c)
    <2> HIDE DEF c
    <2> QED
      BY <1>5, EvenMiddle
  <1>7. CASE TCPLEN(g) # 0 /\ ~InWindow(r, t)
    <2>1. v = c
      BY <1>7 DEF ReceiveData
    <2>2. Queued(c.ooseq, c.rcv_nxt + 1, c.edge)
      <3> HIDE DEF c
      <3> QED
        BY <1>5 DEF Even
    <2> QED
      BY <2>1, <2>2, <1>5, <1>6, <1>7
  <1>8. CASE TCPLEN(g) # 0 /\ InWindow(r, t) /\ t.seq = p
    <2> DEFINE w == InSequence(r, t)
               k == IF w.ack = "no" THEN "delay" ELSE "now"
    <2>1. v = [w EXCEPT !.ack = k]
      BY <1>8 DEF ReceiveData, tcp_ack
    <2>2. Lets(r, t)
      <3>1. CASE g.seq + g.len <= e
        BY <3>1, <1>3, <1>8 DEF Lets
      <3>2. CASE e = p /\ g.seq = p /\ TCPLEN(g) = 1
        BY <3>2, <1>3, <1>8 DEF Lets
      <3> QED
        BY <3>1, <3>2 DEF Lets
    <2> HIDE DEF t
    <2>3. /\ Middle(w) /\ w.edge = e /\ w.answer = r.answer /\ ~Follows(w)
      BY <2>2, <1>1, <1>3, <1>8, InSequenceIs
    <2> HIDE DEF w
    <2>4. k \in {"no", "delay", "now"}
      OBVIOUS
    <2> HIDE DEF k, v
    <2>5. /\ Middle(v) /\ v.ooseq = w.ooseq /\ v.rcv_nxt = w.rcv_nxt /\ v.edge = w.edge
      BY <2>1, <2>3, <2>4, Reacked DEF Middle
    <2>6. Queued(w.ooseq, w.rcv_nxt + 1, w.edge)
      <3>1. w.rcv_nxt \in Int /\ Queued(w.ooseq, w.rcv_nxt, w.edge)
        BY <2>3, PcbNumbers DEF Middle
      <3>2. w.ooseq # <<>> => w.ooseq[1].seq # w.rcv_nxt
        BY <2>3 DEF Follows
      <3> QED
        BY <3>1, <3>2, Beyond
    <2>7. e <= e
      BY <1>2
    <2> QED
      BY <2>3, <2>5, <2>6, <2>7, <1>8
  <1>9. CASE TCPLEN(g) # 0 /\ InWindow(r, t) /\ t.seq # p
    <2> DEFINE x == IF ok THEN Insert(r, t) ELSE r.ooseq
    <2>1. v = [c EXCEPT !.ooseq = x]
      <3>1. v = [c EXCEPT !.ooseq = IF ok THEN Insert(r, t) ELSE @]
        BY <1>9 DEF ReceiveData
      <3>2. c.ooseq = r.ooseq
        BY <1>5
      <3> HIDE DEF c, v
      <3> QED
        BY <3>1, <3>2
    <2>2. p <= t.seq /\ t.seq < p + r.rcv_wnd /\ t \in Piece
      BY <1>1, <1>3, <1>9, WithinIs
    <2>3. p + 1 <= t.seq
      <3> DEFINE y == t.seq
      <3>1. y \in Int /\ p <= y /\ y # p
        BY <2>2, <1>9, PieceIs
      <3> HIDE DEF y, p
      <3>2. p + 1 <= y
        BY <3>1, <1>2
      <3> QED
        BY <3>2 DEF y
    <2>4. t.seq + t.len <= e
      BY <1>3, <1>9 DEF Lets
    <2>5. Queued(Insert(r, t), p + 1, e)
      <3> DEFINE lo == p + 1
      <3>1. lo \in Int /\ e - lo < WORD /\ lo <= t.seq /\ Queued(r.ooseq, lo, e)
        <4> DEFINE a == r.ann_wnd
        <4>1. a \in Int /\ a < WORD /\ e <= p + a
          BY <1>1, <1>2
        <4> HIDE DEF a, p, e
        <4>2. p + 1 \in Int /\ e - (p + 1) < WORD
          BY <4>1, <1>2, <1>s
        <4> QED
          BY <4>2, <2>3, <1>1 DEF p
      <3> HIDE DEF lo, t
      <3>2. Queued(Insert(r, t), lo, e)
        BY <3>1, <2>2, <2>4, <1>1, <1>2, InsertIs
      <3> QED
        BY <3>2 DEF lo
    <2>6. Queued(x, p + 1, e)
      BY <2>5, <1>1
    <2>7. Queued(x, p + 1, c.edge)
      <3>1. c.edge \in Int
        BY <1>5, PcbNumbers
      <3> HIDE DEF x, p, c
      <3> QED
        BY <3>1, <2>6, <1>2, <1>5, WiderQueue
    <2> HIDE DEF x, c
    <2>8. x \in Seq(Piece)
      BY <2>7 DEF Queued
    <2>9. /\ v \in Pcb /\ v.rcv_nxt = p /\ v.edge = c.edge /\ v.ooseq = x /\ v.answer = TRUE
          /\ Stands(v) /\ Windows(v)
      <3>1. Stands(c) /\ Windows(c)
        BY <1>6 DEF Middle
      <3> QED
        BY <3>1, <2>1, <2>8, <1>5, Requeued
    <2> HIDE DEF v, p
    <2>10. Queued(x, p, c.edge)
      <3>1. \A i \in 1..Len(x) : p <= x[i].seq
        <4> SUFFICES ASSUME NEW i \in 1..Len(x) PROVE p <= x[i].seq
          OBVIOUS
        <4> DEFINE y == x[i].seq
        <4>1. y \in Int /\ p + 1 <= y
          BY <2>7, QueuedIs, PieceIs
        <4> HIDE DEF y
        <4>2. p <= y
          BY <4>1, <1>2
        <4> QED
          BY <4>2 DEF y
      <3> QED
        BY <3>1, <2>7 DEF Queued
    <2> QED
      BY <2>7, <2>9, <2>10, <1>5, <1>9 DEF Middle
  <1> QED
    BY <1>4, <1>7, <1>8, <1>9

-----------------------------------------------------------------------------
(* The end of tcp_input.  A FIN that is told gives its place in the window *)
(* back.                                                                   *)
LEMMA EndedIs ==
  ASSUME Stream, NEW t, Middle(t), Queued(t.ooseq, t.rcv_nxt + 1, t.edge)
  PROVE  LET v == IF t.got_fin THEN Ended(t) ELSE t
             e == IF t.got_fin THEN eof + 1 ELSE eof
             n == Have + Len(t.out)
         IN  /\ Even(v, n, e, used) /\ v.edge = t.edge
             /\ e \in 0..1 /\ n <= N /\ (e = 1 => n = N)
  <1> DEFINE v == IF t.got_fin THEN Ended(t) ELSE t
             e == IF t.got_fin THEN eof + 1 ELSE eof
             l == Len(t.out)
             n == Have + l
             p == t.rcv_nxt
             w == t.rcv_wnd
             x == Right - p
  <1>1. t \in Pcb /\ Stands(t) /\ Windows(t)
    BY DEF Middle
  <1>2. p \in Int /\ w \in Int /\ l \in Nat /\ t.got_fin \in BOOLEAN
    BY <1>1, PcbNumbers, PcbIs
  <1>3. Have \in Nat /\ Right \in Int /\ eof \in 0..1 /\ used \in Nat /\ used <= Have
    BY WindowSum, Sizes DEF Stream, Have
  <1>s. IRS \in Int /\ N \in Int /\ WORD \in Nat \ {0} /\ TCP_WND \in Nat /\ TCP_WND + 1 < WORD
    BY Sizes
  <1>4. /\ (~t.got_fin => p = IRS + n + eof) /\ (t.got_fin => p = IRS + n + 1 /\ eof = 0 /\ n = N)
        /\ n <= N /\ n \in Nat
    <2>1. /\ (~t.got_fin => p = IRS + Have + l + eof) /\ (t.got_fin => p = IRS + Have + l + 1)
          /\ Have + l <= N /\ (t.got_fin => eof = 0 /\ Have + l = N)
      BY <1>1 DEF Stands
    <2> DEFINE b == t.got_fin
    <2> HIDE DEF p, l, b
    <2>2. /\ (~b => p = IRS + n + eof) /\ (b => p = IRS + n + 1 /\ eof = 0 /\ n = N)
          /\ n <= N /\ n \in Nat
      BY <2>1, <1>2, <1>3, <1>s DEF b
    <2> QED
      BY <2>2 DEF b
  <1>5. /\ x \in -1..TCP_WND /\ (~t.got_fin => p <= Right) /\ w = x % WORD
        /\ (eof = 0 /\ ~t.got_fin => t.ann_wnd <= w)
        /\ p - 1 <= t.edge /\ t.edge <= p + t.ann_wnd
    BY <1>1 DEF Windows
  <1>6. eof = 1 => Have = N
    BY DEF Stream
  <1>7. Right = IRS + eof + used + TCP_WND
    BY DEF Right
  <1>8. x >= 0 => x % WORD = x
    <2>1. x >= 0 => x \in 0..WORD - 1
      BY <1>5, <1>s
    <2> HIDE DEF x
    <2> QED
      BY <2>1, <1>s, ModSame
  <1>9. CASE ~t.got_fin
    <2>1. x >= 0 /\ x = TCP_WND - (n - used)
      <3>1. p = IRS + n + eof /\ p <= Right /\ n \in Nat
        BY <1>4, <1>5, <1>9
      <3> HIDE DEF p, n
      <3> QED
        BY <3>1, <1>2, <1>3, <1>7, <1>s
    <2>2. w = TCP_WND - (n - used)
      BY <2>1, <1>5, <1>8
    <2>3. v = t /\ e = eof
      BY <1>9
    <2>4. e = 1 => n = N
      <3> HIDE DEF e
      <3> QED
        BY <2>3, <1>2, <1>3, <1>4, <1>6, <1>s
    <2>5. Even(t, n, eof, used)
      <3> HIDE DEF n
      <3> QED
        BY <2>2, <1>1, <1>4, <1>5, <1>9 DEF Even
    <2> QED
      BY <2>3, <2>4, <2>5, <1>3, <1>4
  <1>10. CASE t.got_fin
    <2> DEFINE y == IF w = TCP_WND THEN w ELSE (w + 1) % WORD
               z == TCP_WND - (n - used)
    <2>1. x + 1 = z /\ p = IRS + n + 1 /\ x < TCP_WND /\ n <= N
      <3>1. p = IRS + n + 1 /\ eof = 0 /\ n \in Nat /\ n <= N /\ n >= used
        <4> HIDE DEF p
        <4>1. n >= used
          BY <1>2, <1>3
        <4> QED
          BY <4>1, <1>4, <1>10
      <3> HIDE DEF p, n
      <3> QED
        BY <3>1, <1>2, <1>3, <1>7, <1>s
    <2>2. y = z
      <3>1. CASE x >= 0
        <4>1. w = x /\ w # TCP_WND /\ w + 1 \in 0..WORD - 1
          <5> HIDE DEF x
          <5> QED
            BY <2>1, <3>1, <1>5, <1>8, <1>s
        <4>2. (w + 1) % WORD = w + 1
          <5> DEFINE a == w + 1
          <5> HIDE DEF a
          <5>1. a % WORD = a
            BY <4>1, <1>s, ModSame DEF a
          <5> QED
            BY <5>1 DEF a
        <4> QED
          BY <4>1, <4>2, <2>1
      <3>2. CASE ~(x >= 0)
        <4>1. x = -1
          <5> HIDE DEF x
          <5> QED
            BY <3>2, <1>5
        <4>2. x \in -WORD..-1
          <5> HIDE DEF x
          <5> QED
            BY <4>1, <1>s
        <4>3. x % WORD = x + WORD
          <5> HIDE DEF x
          <5> QED
            BY <4>2, <1>s, ModNext
        <4>4. w = WORD - 1
          <5> HIDE DEF x, w
          <5> QED
            BY <4>1, <4>3, <1>5, <1>s
        <4>5. w # TCP_WND /\ w + 1 = WORD /\ z = 0
          <5> HIDE DEF x, w, n
          <5> QED
            BY <4>1, <4>4, <2>1, <1>s
        <4>6. WORD % WORD = 0
          BY <1>s
        <4> HIDE DEF w, z
        <4> QED
          BY <4>5, <4>6
      <3> QED
        BY <3>1, <3>2
    <2>3. v = [t EXCEPT !.ack = "now", !.rcv_wnd = y]
      BY <1>10 DEF Ended, tcp_ack_now
    <2>4. e = 1
      BY <1>4, <1>10
    <2>5. z \in 0..WORD - 1
      <3> HIDE DEF x, n
      <3> QED
        BY <2>1, <1>5, <1>s
    <2> HIDE DEF y, z
    <2>6. /\ v \in Pcb /\ v.rcv_nxt = p /\ v.rcv_wnd = z /\ v.ann_wnd = t.ann_wnd
          /\ v.edge = t.edge /\ v.ooseq = t.ooseq
      <3> HIDE DEF v
      <3> QED
        BY <2>2, <2>3, <2>5, <1>1 DEF Pcb
    <2> HIDE DEF v
    <2>7. Queued(v.ooseq, v.rcv_nxt + 1, v.edge)
      BY <2>6
    <2>8. v.rcv_wnd = TCP_WND - (n - used)
      BY <2>6 DEF z
    <2>9. v.rcv_nxt = IRS + n + 1
      BY <2>1, <2>6
    <2> HIDE DEF n
    <2>10. Even(v, n, 1, used)
      BY <2>6, <2>7, <2>8, <2>9, <1>5 DEF Even
    <2>11. 1 \in 0..1 /\ n = N
      BY <1>4, <1>10
    <2> QED
      BY <2>1, <2>4, <2>6, <2>10, <2>11 DEF v, n
  <1> QED
    BY <1>9, <1>10, <1>2

(* What is done to the pcb behind it, tcp_output and the driver's freeing. *)
LEMMA TidyIs ==
  ASSUME NoWrap, NEW u, NEW n, NEW e, NEW k, Even(u, n, e, k), NEW short
  PROVE  LET v == Freed(Done(Sent(u)), short)
         IN  Even(v, n, e, k) /\ Rests(v) /\ u.edge <= v.edge
  <1> DEFINE s == Sent(u)
             d == Done(s)
             v == Freed(d, short)
  <1> SUFFICES Even(v, n, e, k) /\ Rests(v) /\ u.edge <= v.edge
    OBVIOUS
  <1>1. u \in Pcb /\ u.edge \in Int
    BY PcbNumbers DEF Even
  <1>2. Even(s, n, e, k) /\ s.ack # "now" /\ u.edge <= s.edge
    <2>1. CASE u.ack = "now"
      <3>1. s = SendAck(u)
        BY <2>1 DEF Sent
      <3> HIDE DEF s
      <3> QED
        BY <3>1, SendAckEven
    <2>2. CASE u.ack # "now"
      <3>1. s = u
        BY <2>2 DEF Sent
      <3>2. u.edge <= u.edge
        BY <1>1
      <3> HIDE DEF s
      <3> QED
        BY <3>1, <3>2, <2>2
    <2> QED
      BY <2>1, <2>2
  <1> HIDE DEF s
  <1>3. /\ d \in Pcb /\ d.rcv_nxt = s.rcv_nxt /\ d.rcv_wnd = s.rcv_wnd /\ d.ann_wnd = s.ann_wnd
        /\ d.edge = s.edge /\ d.ooseq = s.ooseq /\ d.ack = s.ack /\ d.out = <<>>
        /\ d.got_fin = FALSE /\ d.answer = FALSE
    <2>1. s \in Pcb /\ d = [s EXCEPT !.out = <<>>, !.got_fin = FALSE, !.answer = FALSE]
      BY <1>2 DEF Even, Done
    <2>2. <<>> \in Seq(Nat)
      OBVIOUS
    <2> HIDE DEF d
    <2> QED
      BY <2>1, <2>2 DEF Pcb
  <1> HIDE DEF d
  <1>4. Even(d, n, e, k) /\ Rests(d)
    BY <1>2, <1>3 DEF Even, Rests
  <1>5. CASE v = d
    BY <1>2, <1>3, <1>4, <1>5
  <1>6. CASE d.ooseq # <<>> /\ v = [d EXCEPT !.ooseq = Front(@)]
    <2> DEFINE q == d.ooseq
               f == Front(q)
               L == Len(q)
               lo == d.rcv_nxt + 1
    <2>1. Queued(q, lo, d.edge)
      BY <1>4 DEF Even
    <2>2. q \in Seq(Piece) /\ L \in Nat /\ L # 0
      BY <2>1, <1>6, QueuedIs, EmptySeq
    <2>3. f = SubSeq(q, 1, L - 1)
      BY DEF Front
    <2>4. \A i \in 1..L - 1 : lo <= q[i].seq /\ q[i].seq + q[i].len <= d.edge
      <3>1. \A i \in 1..L - 1 : i \in 1..L
        BY <2>2
      <3> QED
        BY <3>1, <2>1, QueuedIs
    <2>5. 1 \in 1..L + 1 /\ L - 1 \in 1 - 1..L
      BY <2>2
    <2>6. lo \in Int /\ d.edge \in Int
      BY <1>3, PcbNumbers
    <2> DEFINE a == L - 1
    <2> HIDE DEF q, lo, L, f, a
    <2>7. Queued(SubSeq(q, 1, a), lo, d.edge)
      BY <2>1, <2>4, <2>5, <2>6, SubQueue DEF L, a
    <2>8. Queued(f, lo, d.edge) /\ f \in Seq(Piece)
      BY <2>3, <2>7 DEF a, Queued
    <2>9. v = [d EXCEPT !.ooseq = f]
      BY <1>6 DEF f, q
    <2> HIDE DEF v
    <2>10. /\ v \in Pcb /\ v.rcv_nxt = d.rcv_nxt /\ v.rcv_wnd = d.rcv_wnd
           /\ v.ann_wnd = d.ann_wnd /\ v.edge = d.edge /\ v.ooseq = f /\ v.out = d.out
           /\ v.got_fin = d.got_fin /\ v.ack = d.ack /\ v.answer = d.answer
      BY <2>8, <2>9, <1>3, Requeued
    <2>11. Even(v, n, e, k)
      BY <2>8, <2>10, <1>4 DEF Even, lo
    <2>12. Rests(v)
      BY <2>10, <1>4 DEF Rests
    <2> QED
      BY <2>10, <2>11, <2>12, <1>2, <1>3 DEF v, d, s
  <1>7. v = d \/ (d.ooseq # <<>> /\ v = [d EXCEPT !.ooseq = Front(@)])
    BY DEF Freed
  <1> QED
    BY <1>5, <1>6, <1>7 DEF d, s

-----------------------------------------------------------------------------
(* Sequences that count on from k. *)
Counts(a, k) == a \in Seq(Nat) /\ \A i \in 1..Len(a) : a[i] = k + i

(* What counts on from where the first ends is counted with it. *)
LEMMA CountsOn ==
  ASSUME NEW a, NEW b, NEW k \in Nat, Counts(a, k), Counts(b, k + Len(a))
  PROVE  Counts(a \o b, k) /\ Len(a \o b) = Len(a) + Len(b)
  <1> DEFINE c == a \o b
             l == Len(a)
             m == Len(b)
  <1>1. a \in Seq(Nat) /\ b \in Seq(Nat) /\ l \in Nat /\ m \in Nat
    BY DEF Counts
  <1>2. /\ c \in Seq(Nat) /\ Len(c) = l + m
        /\ \A i \in 1..Len(c) : c[i] = IF i <= l THEN a[i] ELSE b[i - l]
    BY <1>1, ConcatProperties
  <1> HIDE DEF c
  <1>3. ASSUME NEW i \in 1..Len(c) PROVE c[i] = k + i
    <2>1. i \in Int /\ 1 <= i /\ i <= l + m /\ c[i] = IF i <= l THEN a[i] ELSE b[i - l]
      BY <1>1, <1>2
    <2>2. CASE i <= l
      <3>1. i \in 1..Len(a)
        BY <2>1, <2>2, <1>1
      <3> QED
        BY <3>1, <2>1, <2>2 DEF Counts
    <2>3. CASE ~(i <= l)
      <3> DEFINE j == i - l
      <3>1. j \in 1..Len(b) /\ k + l + j = k + i
        <4> HIDE DEF l, m
        <4> QED
          BY <2>1, <2>3, <1>1 DEF m
      <3> HIDE DEF j
      <3>2. b[j] = k + l + j
        BY <3>1 DEF Counts
      <3> QED
        BY <3>1, <3>2, <2>1, <2>3 DEF j
    <2> QED
      BY <2>2, <2>3
  <1> QED
    BY <1>2, <1>3 DEF Counts, c

(* Nothing counts on from anywhere. *)
LEMMA CountsNothing ==
  ASSUME NEW k
  PROVE  Counts(<<>>, k) /\ Len(<<>>) = 0
  BY DEF Counts

-----------------------------------------------------------------------------
(* The stream, as sequences that count on. *)
LEMMA StreamCounts ==
  /\ Stream => Counts(taken, 0) /\ Counts(refused, Len(taken)) /\ used \in 0..Len(taken)
  /\ Counts(taken', 0) /\ Counts(refused', Len(taken')) /\ used' \in 0..Len(taken')
       /\ Have' <= N /\ eof' \in 0..1 /\ (eof' = 1 => Have' = N) => Stream'
  <1>1. ASSUME NEW a, a \in Seq(Nat)
        PROVE  (\A i \in 1..Len(a) : a[i] = 0 + i) <=> (\A i \in 1..Len(a) : a[i] = i)
    <2>1. \A i \in 1..Len(a) : 0 + i = i
      BY <1>1
    <2> QED
      BY <2>1
  <1> QED
    BY <1>1 DEF Stream, Counts

(* What is offered at the end of tcp_input. *)
LEMMA OfferIs ==
  ASSUME NoWrap, TcpInv, NEW t, Middle(t), Queued(t.ooseq, t.rcv_nxt + 1, t.edge),
         r.edge <= t.edge, NEW again \in BOOLEAN, NEW takes \in BOOLEAN, NEW short,
         again \/ refused = <<>> \/ t.out = <<>>, Offer(t, again, takes, short)
  PROVE  TcpInv' /\ r.edge <= r'.edge
  <1> DEFINE v == IF t.got_fin THEN Ended(t) ELSE t
             e == IF t.got_fin THEN eof + 1 ELSE eof
             l == Len(t.out)
             n == Have + l
             z == Freed(Done(Sent(v)), short)
  <1>1. Stream
    BY DEF TcpInv
  <1>2. Even(v, n, e, used) /\ v.edge = t.edge /\ e \in 0..1 /\ n <= N /\ (e = 1 => n = N)
    BY <1>1, EndedIs
  <1> HIDE DEF v
  <1>3. Even(z, n, e, used) /\ Rests(z) /\ v.edge <= z.edge
    <2> HIDE DEF n, e
    <2> QED
      BY <1>2, TidyIs
  <1>4. r' = z /\ eof' = e /\ used' = used
    BY DEF Offer, v
  <1> HIDE DEF z, e, n
  <1>5. Counts(taken, 0) /\ Counts(refused, Len(taken)) /\ used \in 0..Len(taken)
    BY <1>1, StreamCounts
  <1>6. Counts(t.out, Have)
    <2>1. t.out \in Seq(Nat)
      BY PcbIs DEF Middle
    <2>2. \A i \in 1..Len(t.out) : t.out[i] = Have + i
      BY DEF Middle, Stands
    <2> QED
      BY <2>1, <2>2 DEF Counts
  <1>7. /\ Counts(taken', 0) /\ Counts(refused', Len(taken')) /\ Len(taken) <= Len(taken')
        /\ Len(taken') + Len(refused') = n
    <2> DEFINE c == t.out
               b1 == IF again THEN refused ELSE <<>>
               b2 == IF again THEN <<>> ELSE refused
               c1 == IF takes THEN c ELSE <<>>
               y == IF takes \/ c = <<>> THEN b2 ELSE c
               x == taken \o b1 \o c1
    <2>1. taken' = x /\ refused' = y
      BY DEF Offer
    <2>2. Counts(c, Len(taken) + Len(refused))
      BY <1>6 DEF Have
    <2>3. Len(taken) + Len(refused) + Len(c) = n
      BY DEF n, Have
    <2> HIDE DEF c
    <2>4. \/ b1 = refused /\ b2 = <<>>
          \/ b1 = <<>> /\ b2 = refused /\ (refused = <<>> \/ c = <<>>)
      BY DEF c
    <2>5. \/ c1 = c /\ y = b2
          \/ c1 = <<>> /\ c = <<>> /\ y = b2
          \/ c1 = <<>> /\ c # <<>> /\ y = c
      OBVIOUS
    <2> HIDE DEF b1, b2, c1, y
    <2> DEFINE a == taken
               b == refused
               x1 == a \o b1
               K == Len(a)
               L == Len(b)
               M == Len(c)
               K1 == Len(b1)
               K2 == Len(b2)
               M1 == Len(c1)
               X == Len(x)
               Y == Len(y)
               k1 == K + K1
               k2 == k1 + M1
    <2>z. Len(<<>>) = 0 /\ \A k : Counts(<<>>, k)
      BY CountsNothing
    <2>6. K \in Nat /\ L \in Nat /\ M \in Nat /\ Counts(a, 0) /\ Counts(b, K) /\ Counts(c, K + L)
          /\ (c = <<>> <=> M = 0) /\ (b = <<>> <=> L = 0)
      <3>1. Counts(a, 0) /\ Counts(b, K) /\ Counts(c, K + L)
        BY <1>5, <2>2
      <3>2. a \in Seq(Nat) /\ b \in Seq(Nat) /\ c \in Seq(Nat)
        BY <3>1 DEF Counts
      <3>3. K \in Nat /\ L \in Nat /\ M \in Nat
        BY <3>2
      <3> QED
        BY <3>1, <3>2, <3>3, EmptySeq
    <2> HIDE DEF a, b
    <2>7. /\ Counts(b1, K) /\ ((K1 = L /\ K2 = 0) \/ (K1 = 0 /\ K2 = L /\ (L = 0 \/ M = 0)))
          /\ Counts(b2, k1)
      <3> HIDE DEF k1
      <3>1. CASE b1 = b /\ b2 = <<>>
        <4>1. Counts(b2, k1) /\ K2 = 0
          BY <3>1, <2>z
        <4>2. Counts(b1, K) /\ K1 = L
          BY <3>1, <2>6
        <4> QED
          BY <4>1, <4>2
      <3>2. CASE b1 = <<>> /\ b2 = b /\ (b = <<>> \/ c = <<>>)
        <4>1. K1 = 0 /\ Counts(b1, K) /\ K2 = L
          BY <3>2, <2>z
        <4>2. k1 = K
          <5> HIDE DEF K, K1
          <5> QED
            BY <4>1, <2>6 DEF k1
        <4>3. Counts(b2, k1)
          BY <4>2, <3>2, <2>6
        <4> QED
          BY <4>1, <4>3, <3>2, <2>6
      <3> QED
        BY <3>1, <3>2, <2>4 DEF b
    <2>8. Counts(x1, 0) /\ Len(x1) = k1
      <3>1. 0 + Len(a) = K /\ 0 \in Nat
        BY <2>6
      <3> QED
        BY <3>1, <2>6, <2>7, CountsOn
    <2> HIDE DEF x1
    <2>9. Counts(c1, k1) /\ ((M1 = M /\ Y = K2) \/ (M1 = 0 /\ Y = M /\ M # 0)) /\ Counts(y, k2)
      <3>1. k1 \in Nat /\ (M # 0 => k1 = K + L) /\ (M1 = 0 => k2 = k1)
        <4> HIDE DEF K, L, M, K1, K2, M1
        <4> QED
          BY <2>6, <2>7
      <3>2. M # 0 => Counts(c, k1)
        BY <3>1, <2>6
      <3> HIDE DEF k1, k2
      <3>3. CASE c = <<>>
        <4>1. c1 = <<>> /\ y = b2 /\ M = 0
          BY <3>3, <2>5, <2>6
        <4>2. M1 = 0 /\ Counts(c1, k1) /\ Y = K2
          BY <4>1, <2>z
        <4>3. Counts(y, k2)
          BY <4>1, <4>2, <3>1, <2>7
        <4> QED
          BY <4>1, <4>2, <4>3
      <3>4. CASE c # <<>> /\ c1 = c /\ y = b2
        <4>1. M # 0 /\ M1 = M /\ Y = K2
          BY <3>4, <2>6
        <4>2. Counts(c1, k1)
          BY <4>1, <3>2, <3>4
        <4>3. b2 = <<>>
          <5>1. K2 = 0
            <6> HIDE DEF K, L, M, K1, K2, M1
            <6> QED
              BY <4>1, <2>6, <2>7
          <5>2. b2 \in Seq(Nat)
            BY <2>7 DEF Counts
          <5> QED
            BY <5>1, <5>2, EmptySeq
        <4>4. Counts(y, k2)
          BY <4>3, <3>4, <2>z
        <4> QED
          BY <4>1, <4>2, <4>4
      <3>5. CASE c # <<>> /\ c1 = <<>> /\ y = c
        <4>1. M # 0 /\ M1 = 0 /\ Y = M /\ Counts(c1, k1)
          BY <3>5, <2>z, <2>6
        <4>2. Counts(y, k2)
          BY <4>1, <3>1, <3>2, <3>5
        <4> QED
          BY <4>1, <4>2
      <3> QED
        BY <3>3, <3>4, <3>5, <2>5
    <2>10. Counts(x, 0) /\ X = k2
      <3>1. 0 + Len(x1) = k1 /\ 0 \in Nat
        BY <2>8 DEF Counts
      <3>2. x = x1 \o c1
        BY DEF x1, a
      <3> HIDE DEF x, k1
      <3>3. Counts(x, 0) /\ Len(x) = Len(x1) + Len(c1)
        BY <3>1, <3>2, <2>8, <2>9, CountsOn
      <3> QED
        BY <3>3, <2>8
    <2>11. Counts(y, X)
      BY <2>9, <2>10
    <2>12. K <= X /\ X + Y = K + L + M
      <3>1. X = K + K1 + M1
        BY <2>10
      <3> HIDE DEF K, L, M, K1, K2, M1, X, Y, k1, k2
      <3> QED
        BY <3>1, <2>6, <2>7, <2>9
    <2> QED
      BY <2>1, <2>3, <2>10, <2>11, <2>12 DEF a, b
  <1>8. Have' = n
    BY <1>7 DEF Have
  <1>9. used' \in 0..Len(taken')
    <2> DEFINE x == Len(taken)
               y == Len(taken')
    <2>1. x \in Nat /\ y \in Nat /\ x <= y /\ used \in 0..x
      BY <1>5, <1>7 DEF Counts
    <2> HIDE DEF x, y
    <2>2. used \in 0..y
      BY <2>1
    <2> QED
      BY <2>2, <1>4 DEF y
  <1>10. Stream'
    BY <1>2, <1>4, <1>7, <1>8, <1>9, StreamCounts
  <1>11. Even(r, Have, eof, used)' /\ Rests(r)'
    <2>1. Even(r', Have', eof', used') /\ Rests(r')
      BY <1>3, <1>4, <1>8
    <2> QED
      BY <2>1
  <1>12. r.edge <= r'.edge
    <2> DEFINE x == r.edge
               y == t.edge
               w == z.edge
    <2>1. x \in Int /\ y \in Int /\ w \in Int
      BY <1>2, <1>3, PcbNumbers DEF TcpInv, Even
    <2>2. x <= y /\ y <= w
      BY <1>2, <1>3
    <2> HIDE DEF x, y, w
    <2>3. x <= w
      BY <2>1, <2>2
    <2> QED
      BY <2>3, <1>4 DEF x, w
  <1> QED
    BY <1>10, <1>11, <1>12 DEF TcpInv

-----------------------------------------------------------------------------
(* The invariant, action by action, and with it that the edge of the       *)
(* window does not go back.                                                *)
Kept == TcpInv' /\ r.edge <= r'.edge

(* A step that leaves the receiver alone. *)
LEMMA RestKept ==
  TcpInv /\ UNCHANGED <<r, refused, taken, used, eof>> => Kept
  <1> SUFFICES ASSUME TcpInv, UNCHANGED <<r, refused, taken, used, eof>>
               PROVE  Kept
    OBVIOUS
  <1>1. Stream'
    BY DEF TcpInv, Stream, Have
  <1>2. Have' = Have
    BY DEF Have
  <1>3. Even(r', Have', eof', used') /\ Rests(r')
    BY <1>2 DEF TcpInv
  <1>4. Even(r, Have, eof, used)' /\ Rests(r)'
    BY <1>3
  <1>5. r.edge \in Int
    BY PcbNumbers DEF TcpInv, Even
  <1>6. r.edge <= r'.edge
    <2> DEFINE x == r.edge
    <2>1. x \in Int /\ r'.edge = x
      BY <1>5
    <2> HIDE DEF x
    <2>2. x <= x
      BY <2>1
    <2> QED
      BY <2>1, <2>2 DEF x
  <1> QED
    BY <1>1, <1>4, <1>6 DEF Kept, TcpInv

(* A segment arrives. *)
LEMMA ArriveKept ==
  NoWrap /\ TcpInv /\ Arrive => Kept
  <1> SUFFICES ASSUME NoWrap, TcpInv, Arrive
               PROVE  Kept
    OBVIOUS
  <1>1. PICK g \in Segments, again \in BOOLEAN, takes \in BOOLEAN, ok \in BOOLEAN, short \in BOOLEAN :
          tcp_input(g, again, takes, ok, short)
    BY DEF Arrive
  <1> DEFINE t == ReceiveData(r, g, ok)
             dropped == ~again /\ refused # <<>> /\ TCPLEN(g) > 0
  <1>2. Stream /\ Rests(r) /\ Even(r, Have, eof, used) /\ r \in Pcb
    BY DEF TcpInv, Even
  <1>3. g \in Piece /\ Lets(r, g)
    BY <1>2, SegmentIs
  <1>4. CASE dropped
    <2>1. UNCHANGED <<r, refused, taken, used, eof>>
      BY <1>1, <1>4 DEF tcp_input
    <2> QED
      BY <2>1, RestKept
  <1>5. CASE ~dropped
    <2>1. Offer(t, again, takes, short)
      BY <1>1, <1>5 DEF tcp_input
    <2>2. /\ Middle(t) /\ Queued(t.ooseq, t.rcv_nxt + 1, t.edge) /\ r.edge <= t.edge
          /\ TCPLEN(g) = 0 => t.out = <<>>
      BY <1>2, <1>3, ReceiveDataIs
    <2>3. again \/ refused = <<>> \/ t.out = <<>>
      <3>1. TCPLEN(g) \in Int /\ 0 <= TCPLEN(g)
        BY <1>3, PieceFlags
      <3>2. TCPLEN(g) > 0 \/ TCPLEN(g) = 0
        BY <3>1
      <3> HIDE DEF t
      <3> QED
        BY <3>2, <2>2, <1>5
    <2> HIDE DEF t
    <2>4. TcpInv' /\ r.edge <= r'.edge
      BY <2>1, <2>2, <2>3, OfferIs
    <2> QED
      BY <2>4 DEF Kept
  <1> QED
    BY <1>4, <1>5

(* tcp_recved gives the window back by n; as n is of what was taken, it is *)
(* never more than the whole window.                                       *)
LEMMA RecvedIs ==
  ASSUME NoWrap, TcpInv, NEW n \in 1..Len(taken) - used
  PROVE  Even(Recved(r, n), Have, eof, used + n) /\ Recved(r, n).edge = r.edge
  <1> DEFINE p == r.rcv_nxt
             w == r.rcv_wnd
             e == r.edge
             a == r.ann_wnd
             x == w + n
             v == [r EXCEPT !.rcv_wnd = x]
  <1>1. /\ r \in Pcb /\ p = IRS + Have + eof /\ w = TCP_WND - (Have - used)
        /\ (eof = 0 => a <= w) /\ p - 1 <= e /\ e <= p + a /\ Queued(r.ooseq, p + 1, e)
    BY DEF TcpInv, Even
  <1>2. /\ p \in Int /\ w \in Int /\ 0 <= w /\ e \in Int /\ a \in Int /\ 0 <= a /\ a < WORD
    BY <1>1, PcbNumbers
  <1>s. WORD \in Int /\ TCP_WND \in Int /\ TCP_WND + 1 < WORD
    BY Sizes
  <1>3. Have \in Int /\ used \in Int /\ n \in Int /\ 0 < n /\ used + n <= Have
    <2>1. used \in Int /\ Len(taken) \in Nat /\ Len(refused) \in Nat
      BY DEF TcpInv, Stream
    <2> DEFINE y == Len(taken)
               z == Len(refused)
    <2>2. Have = y + z /\ n \in 1..y - used
      BY DEF Have
    <2> HIDE DEF y, z
    <2> QED
      BY <2>1, <2>2 DEF y, z
  <1> HIDE DEF p, w, e, a
  <1>4. x = TCP_WND - (Have - (used + n)) /\ x <= TCP_WND /\ x \in 0..WORD - 1 /\ w <= x
    BY <1>1, <1>2, <1>3, <1>s
  <1>5. Min({w + n, TCP_WND}) = x
    <2>1. x \in Int /\ x <= TCP_WND
      BY <1>4
    <2> HIDE DEF x
    <2>2. Min({x, TCP_WND}) = x
      BY <2>1, <1>s, MinOfTwo
    <2> QED
      BY <2>2 DEF x
  <1> HIDE DEF x
  <1>6. /\ v \in Pcb /\ v.rcv_nxt = p /\ v.rcv_wnd = x /\ v.edge = e /\ v.ooseq = r.ooseq
    BY <1>1, <1>4 DEF Pcb, p, e
  <1> DEFINE u == tcp_update_rcv_ann_wnd(v)
  <1>7. Recved(r, n) = u \/ Recved(r, n) = [u EXCEPT !.ack = "now"]
    BY <1>5 DEF Recved, tcp_ack_now, w
  <1> HIDE DEF v
  <1>8. v.edge <= v.rcv_nxt + WORD - 1
    <2>1. e <= p + WORD - 1
      BY <1>1, <1>2, <1>s DEF e, p
    <2> QED
      BY <2>1, <1>6
  <1>9. PICK c \in 0..WORD - 1 : /\ u = [v EXCEPT !.ann_wnd = c] /\ v.edge <= v.rcv_nxt + c
                                /\ (v.edge <= v.rcv_nxt + v.rcv_wnd => c <= v.rcv_wnd)
    BY <1>6, <1>8, Announces
  <1> HIDE DEF u
  <1>10. /\ u \in Pcb /\ u.rcv_nxt = p /\ u.rcv_wnd = x /\ u.ann_wnd = c /\ u.edge = e
         /\ u.ooseq = r.ooseq
    BY <1>6, <1>9 DEF Pcb
  <1>11. eof = 0 => c <= x
    <2>1. e <= p + x => c <= x
      BY <1>6, <1>9
    <2>2. x \in Int
      BY <1>4
    <2>3. eof = 0 => e <= p + x
      BY <2>2, <1>1, <1>2, <1>4 DEF e, p, a, w
    <2> QED
      BY <2>1, <2>3
  <1>12. Even(u, Have, eof, used + n)
    <2>1. e <= p + c
      BY <1>6, <1>9
    <2>2. /\ u.rcv_nxt = IRS + Have + eof /\ u.rcv_wnd = TCP_WND - (Have - (used + n))
          /\ (eof = 0 => u.ann_wnd <= u.rcv_wnd) /\ u.rcv_nxt - 1 <= u.edge
          /\ u.edge <= u.rcv_nxt + u.ann_wnd /\ Queued(u.ooseq, u.rcv_nxt + 1, u.edge)
      BY <2>1, <1>1, <1>4, <1>10, <1>11 DEF p, e
    <2> QED
      BY <2>2, <1>10 DEF Even
  <1>13. "now" \in {"no", "delay", "now"}
    OBVIOUS
  <1>14. CASE Recved(r, n) = u
    BY <1>10, <1>12, <1>14 DEF e
  <1>15. CASE Recved(r, n) = [u EXCEPT !.ack = "now"]
    <2> DEFINE y == [u EXCEPT !.ack = "now"]
    <2>1. y.edge = e /\ Even(y, Have, eof, used + n)
      BY <1>10, <1>12, <1>13, Reacked
    <2> HIDE DEF y
    <2> QED
      BY <2>1, <1>15 DEF y, e
  <1> QED
    BY <1>7, <1>14, <1>15

(* The application gives a part of the window back. *)
LEMMA RecvedKept ==
  ASSUME NEW n \in 1..TCP_WND
  PROVE  NoWrap /\ TcpInv /\ tcp_recved(n) => Kept
  <1> SUFFICES ASSUME NoWrap, TcpInv, tcp_recved(n)
               PROVE  Kept
    OBVIOUS
  <1> DEFINE u == Recved(r, n)
             z == Freed(Done(Sent(u)), FALSE)
             k == used + n
  <1>1. n \in 1..Len(taken) - used /\ r' = z /\ used' = k /\ UNCHANGED <<refused, taken, eof>>
    BY DEF tcp_recved, Freed
  <1>2. Even(u, Have, eof, k) /\ u.edge = r.edge
    BY <1>1, RecvedIs
  <1> HIDE DEF u
  <1>3. Even(z, Have, eof, k) /\ Rests(z) /\ u.edge <= z.edge
    <2> HIDE DEF k
    <2> QED
      BY <1>2, TidyIs
  <1> HIDE DEF z
  <1>4. Have' = Have
    BY <1>1 DEF Have
  <1>5. k \in 0..Len(taken)
    <2> DEFINE y == Len(taken)
    <2>1. y \in Nat /\ used \in 0..y /\ n \in 1..y - used
      BY <1>1 DEF TcpInv, Stream
    <2> HIDE DEF y
    <2>2. used + n \in 0..y
      BY <2>1
    <2> QED
      BY <2>2 DEF y
  <1>6. Stream'
    BY <1>1, <1>4, <1>5 DEF TcpInv, Stream
  <1>7. Even(r', Have', eof', used') /\ Rests(r')
    BY <1>1, <1>3, <1>4
  <1>8. Even(r, Have, eof, used)' /\ Rests(r)'
    BY <1>7
  <1>9. r.edge <= r'.edge
    BY <1>1, <1>2, <1>3
  <1> QED
    BY <1>6, <1>8, <1>9 DEF Kept, TcpInv

(* The fast timer offers what was refused and acknowledges. *)
LEMMA FastKept ==
  NoWrap /\ TcpInv /\ tcp_fasttmr => Kept
  <1> SUFFICES ASSUME NoWrap, TcpInv, tcp_fasttmr
               PROVE  Kept
    OBVIOUS
  <1>1. PICK takes \in BOOLEAN :
          /\ taken' = IF takes THEN taken \o refused ELSE taken
          /\ refused' = IF takes THEN <<>> ELSE refused
          /\ r' = IF r.ack = "delay" THEN Done(SendAck(r)) ELSE r
          /\ UNCHANGED <<used, eof>>
    BY DEF tcp_fasttmr
  <1>2. Stream /\ Rests(r) /\ Even(r, Have, eof, used) /\ r \in Pcb
    BY DEF TcpInv, Even
  <1>3. Counts(taken, 0) /\ Counts(refused, Len(taken)) /\ used \in 0..Len(taken)
    BY <1>2, StreamCounts
  <1>4. /\ Counts(taken', 0) /\ Counts(refused', Len(taken')) /\ Len(taken) <= Len(taken')
        /\ Len(taken') + Len(refused') = Have
    <2> DEFINE K == Len(taken)
               L == Len(refused)
    <2>1. K \in Nat /\ L \in Nat /\ 0 + K = K /\ 0 \in Nat /\ K <= K /\ K <= K + L
          /\ (K + L) + 0 = K + L /\ Have = K + L
      <3>1. K \in Nat /\ L \in Nat /\ Have = K + L
        BY <1>3 DEF Counts, Have
      <3> HIDE DEF K, L
      <3> QED
        BY <3>1
    <2>2. CASE takes
      <3>1. taken' = taken \o refused /\ refused' = <<>>
        BY <1>1, <2>2
      <3>2. Counts(taken \o refused, 0) /\ Len(taken \o refused) = K + L
        BY <2>1, <1>3, CountsOn
      <3>3. Counts(<<>>, Len(taken \o refused)) /\ Len(<<>>) = 0
        BY CountsNothing
      <3> QED
        BY <3>1, <3>2, <3>3, <2>1
    <2>3. CASE ~takes
      <3>1. taken' = taken /\ refused' = refused
        BY <1>1, <2>3
      <3> QED
        BY <3>1, <2>1, <1>3
    <2> QED
      BY <2>2, <2>3
  <1>5. Have' = Have
    BY <1>4 DEF Have
  <1>6. used' \in 0..Len(taken')
    <2> DEFINE x == Len(taken)
               y == Len(taken')
    <2>1. x \in Nat /\ y \in Nat /\ x <= y /\ used \in 0..x
      BY <1>3, <1>4 DEF Counts
    <2> HIDE DEF x, y
    <2>2. used \in 0..y
      BY <2>1
    <2> QED
      BY <2>2, <1>1 DEF y
  <1>7. Stream'
    <2>1. Have <= N /\ eof \in 0..1 /\ (eof = 1 => Have = N)
      BY <1>2 DEF Stream
    <2> QED
      BY <2>1, <1>1, <1>4, <1>5, <1>6, StreamCounts
  <1>8. Even(r', Have, eof, used) /\ Rests(r') /\ r.edge <= r'.edge
    <2>1. CASE r.ack = "delay"
      <3> DEFINE c == SendAck(r)
                 z == Freed(Done(Sent(c)), FALSE)
      <3>1. Even(c, Have, eof, used) /\ r.edge <= c.edge /\ c.ack = "no"
        BY <1>2, SendAckEven
      <3> HIDE DEF c
      <3>2. Even(z, Have, eof, used) /\ Rests(z) /\ c.edge <= z.edge
        BY <3>1, TidyIs
      <3>3. r' = z
        BY <3>1, <2>1, <1>1 DEF Freed, Sent, c
      <3> HIDE DEF z
      <3>4. r.edge <= z.edge
        <4> DEFINE x == r.edge
                   y == c.edge
                   w == z.edge
        <4>1. x \in Int /\ y \in Int /\ w \in Int
          BY <3>1, <3>2, <1>2, PcbNumbers DEF Even
        <4>2. x <= y /\ y <= w
          BY <3>1, <3>2
        <4> HIDE DEF x, y, w
        <4>3. x <= w
          BY <4>1, <4>2
        <4> QED
          BY <4>3 DEF x, w
      <3> QED
        BY <3>2, <3>3, <3>4
    <2>2. CASE r.ack # "delay"
      <3>1. r' = r
        BY <2>2, <1>1
      <3>2. r.edge <= r.edge
        <4>1. r.edge \in Int
          BY <1>2, PcbNumbers
        <4> QED
          BY <4>1
      <3> QED
        BY <3>1, <3>2, <1>2
    <2> QED
      BY <2>1, <2>2
  <1>9. Even(r', Have', eof', used')
    BY <1>1, <1>5, <1>8
  <1>10. Even(r, Have, eof, used)' /\ Rests(r)'
    BY <1>8, <1>9
  <1> QED
    BY <1>7, <1>8, <1>10 DEF Kept, TcpInv

(* The slow timer drops the queue. *)
LEMMA SlowKept ==
  NoWrap /\ TcpInv /\ tcp_slowtmr => Kept
  <1> SUFFICES ASSUME NoWrap, TcpInv, tcp_slowtmr
               PROVE  Kept
    OBVIOUS
  <1>1. r' = [r EXCEPT !.ooseq = <<>>] /\ UNCHANGED <<refused, taken, used, eof>>
    BY DEF tcp_slowtmr
  <1>2. Stream /\ Rests(r) /\ Even(r, Have, eof, used) /\ r \in Pcb
    BY DEF TcpInv, Even
  <1> DEFINE v == [r EXCEPT !.ooseq = <<>>]
             lo == r.rcv_nxt + 1
  <1>3. Queued(<<>>, lo, r.edge)
    BY EmptyQueue
  <1>4. <<>> \in Seq(Piece)
    BY <1>3 DEF Queued
  <1>5. /\ v \in Pcb /\ v.rcv_nxt = r.rcv_nxt /\ v.rcv_wnd = r.rcv_wnd
        /\ v.ann_wnd = r.ann_wnd /\ v.edge = r.edge /\ v.ooseq = <<>> /\ v.out = r.out
        /\ v.got_fin = r.got_fin /\ v.ack = r.ack /\ v.answer = r.answer
    BY <1>2, <1>4, Requeued
  <1> HIDE DEF v
  <1>6. Even(v, Have, eof, used) /\ Rests(v)
    BY <1>2, <1>3, <1>5 DEF Even, Rests
  <1>7. Stream' /\ Have' = Have
    BY <1>1, <1>2 DEF Stream, Have
  <1>8. Even(r', Have', eof', used') /\ Rests(r') /\ r'.edge = r.edge
    BY <1>1, <1>5, <1>6, <1>7 DEF v
  <1>9. Even(r, Have, eof, used)' /\ Rests(r)'
    BY <1>8
  <1>10. r.edge <= r'.edge
    <2>1. r.edge \in Int
      BY <1>2, PcbNumbers
    <2> DEFINE x == r.edge
    <2> HIDE DEF x
    <2>2. x <= x
      BY <2>1 DEF x
    <2> QED
      BY <2>2, <1>8 DEF x
  <1> QED
    BY <1>7, <1>9, <1>10 DEF Kept, TcpInv

(* Every step keeps the invariant. *)
LEMMA NextKept ==
  NoWrap /\ TcpInv /\ [Next]_vars => Kept
  <1> SUFFICES ASSUME NoWrap, TcpInv, [Next]_vars
               PROVE  Kept
    OBVIOUS
  <1>1. CASE Arrive
    BY <1>1, ArriveKept
  <1>2. CASE tcp_fasttmr
    BY <1>2, FastKept
  <1>3. CASE tcp_slowtmr
    BY <1>3, SlowKept
  <1>4. CASE \E n \in 1..TCP_WND : tcp_recved(n)
    BY <1>4, RecvedKept
  <1>5. CASE UNCHANGED vars
    BY <1>5, RestKept DEF vars
  <1> QED
    BY <1>1, <1>2, <1>3, <1>4, <1>5 DEF Next

(* The invariant holds in a new pcb. *)
LEMMA InitKept ==
  NoWrap /\ Init => TcpInv
  <1> SUFFICES ASSUME NoWrap, Init
               PROVE  TcpInv
    OBVIOUS
  <1>s. /\ IRS \in Nat /\ N \in Nat /\ WORD \in Nat /\ TCP_WND \in Nat /\ TCP_WND + 1 < WORD
    BY Sizes
  <1> DEFINE e == IRS + TCP_WND
  <1>1. e \in Nums /\ e \in IRS..IRS + N + WORD /\ TCP_WND \in 0..WORD - 1 /\ IRS \in IRS..IRS + N + 1
    BY <1>s DEF Nums
  <1>2. Plus(IRS, TCP_WND) = e
    BY <1>1, <1>s, PlusNums
  <1> HIDE DEF e
  <1>3. r = [rcv_nxt |-> IRS, rcv_wnd |-> TCP_WND, ann_wnd |-> TCP_WND, edge |-> e,
             ooseq |-> <<>>, out |-> <<>>, got_fin |-> FALSE, ack |-> "no", answer |-> FALSE]
    BY <1>2 DEF Init
  <1>4. refused = <<>> /\ taken = <<>> /\ used = 0 /\ eof = 0
    BY DEF Init
  <1>5. Have = 0 /\ Len(taken) = 0 /\ Len(refused) = 0
    BY <1>4 DEF Have
  <1>6. Stream
    <2>1. taken \in Seq(Nat) /\ refused \in Seq(Nat)
      BY <1>4
    <2>2. used \in 0..Len(taken) /\ Have <= N /\ eof \in 0..1 /\ eof # 1
      BY <1>4, <1>5, <1>s
    <2> QED
      BY <2>1, <2>2, <1>5 DEF Stream
  <1>7. r \in Pcb
    <2>1. <<>> \in Seq(Nat) /\ <<>> \in Seq(Piece)
      OBVIOUS
    <2> QED
      BY <2>1, <1>1, <1>3 DEF Pcb
  <1>8. Rests(r)
    BY <1>3 DEF Rests
  <1>9. Even(r, 0, 0, 0)
    <2> DEFINE lo == IRS + 1
    <2>1. Queued(<<>>, lo, e)
      BY EmptyQueue
    <2>2. /\ IRS = IRS + 0 + 0 /\ TCP_WND = TCP_WND - (0 - 0) /\ TCP_WND <= TCP_WND
          /\ IRS - 1 <= e /\ e <= IRS + TCP_WND
      BY <1>s DEF e
    <2>3. r.rcv_nxt = IRS /\ r.rcv_wnd = TCP_WND /\ r.ann_wnd = TCP_WND /\ r.edge = e /\ r.ooseq = <<>>
      BY <1>3
    <2> QED
      BY <2>1, <2>2, <2>3, <1>7 DEF Even
  <1> QED
    BY <1>4, <1>5, <1>6, <1>8, <1>9 DEF TcpInv

(* The inductive invariant holds. *)
THEOREM TcpInvariance == NoWrap => (Spec => []TcpInv)
  <1> SUFFICES ASSUME NoWrap PROVE Spec => []TcpInv
    OBVIOUS
  <1>1. Init => TcpInv
    BY InitKept
  <1>2. TcpInv /\ [Next]_vars => TcpInv'
    BY NextKept DEF Kept
  <1> QED
    BY <1>1, <1>2, PTL DEF Spec

-----------------------------------------------------------------------------
(* A piece is a segment that the peer may send. *)
LEMMA PieceSegment ==
  ASSUME NoWrap, NEW g \in Piece
  PROVE  g = Segment(Minus(g.seq, IRS), Minus(g.seq, IRS) + g.len, g.fin)
  <1> DEFINE s == g.seq
             l == g.len
             a == s - IRS
             m == (a + l) - a
             d == [i \in 1..m |-> a + i]
  <1>s. /\ IRS \in Nat /\ N \in Nat /\ WORD \in Nat /\ TCP_WND \in Nat
    BY Sizes
  <1>1. s \in Int /\ l \in Nat /\ IRS <= s /\ s \in Nums /\ IRS \in Nums
    BY <1>s, PieceIs DEF Nums
  <1>2. g.data \in Seq(Nat) /\ Len(g.data) = l /\ \A i \in 1..l : g.data[i] = s - IRS + i
    BY PieceData
  <1>3. g = [seq |-> s, len |-> l, data |-> g.data, fin |-> g.fin, syn |-> FALSE]
    <2>1. g \in Segs
      BY DEF Piece
    <2> QED
      BY <2>1 DEF Segs
  <1> HIDE DEF s, l
  <1>4. Minus(s, IRS) = a
    <2>1. s >= IRS
      BY <1>1, <1>s
    <2> QED
      BY <2>1, <1>1, Compared
  <1>5. Plus(IRS, a) = s
    <2>1. IRS + a = s /\ a \in Int
      BY <1>1, <1>s
    <2>2. IRS \in Int /\ IRS + a \in Nums
      BY <2>1, <1>1, <1>s
    <2> HIDE DEF a
    <2>3. Plus(IRS, a) = IRS + a
      BY <2>1, <2>2, PlusNums
    <2> QED
      BY <2>1, <2>3
  <1>6. m = l /\ a \in Nat
    BY <1>1, <1>s
  <1>7. d = g.data
    <2> HIDE DEF a, m
    <2>1. \A i \in 1..l : a + i \in Nat
      BY <1>6
    <2>2. d \in Seq(Nat) /\ Len(d) = l
      BY <2>1, <1>1, <1>6
    <2>3. \A i \in 1..Len(d) : d[i] = g.data[i]
      <3> SUFFICES ASSUME NEW i \in 1..l PROVE d[i] = g.data[i]
        BY <2>2
      <3>1. d[i] = a + i
        BY <1>6
      <3>2. g.data[i] = a + i
        BY <1>2 DEF a
      <3> QED
        BY <3>1, <3>2
    <2> HIDE DEF d
    <2> QED
      BY <2>2, <2>3, <1>2, SeqEqual
  <1> HIDE DEF a
  <1>8. Segment(a, a + l, g.fin) = [seq |-> s, len |-> m, data |-> d, fin |-> g.fin, syn |-> FALSE]
    BY <1>5 DEF Segment
  <1> HIDE DEF m, d
  <1> QED
    BY <1>3, <1>4, <1>6, <1>7, <1>8 DEF s, l

(* What counts from 1 is the beginning of the stream, or all of it. *)
LEMMA BytesAre ==
  ASSUME NEW s, Counts(s, 0), NEW m \in 0..N, Len(s) = m
  PROVE  s = SubSeq(Bytes, 1, m) /\ (m = N => s = Bytes)
  <1>1. N \in Nat /\ m \in Nat
    BY Sizes
  <1>2. Bytes \in Seq(Nat) /\ Len(Bytes) = N /\ \A i \in 1..N : Bytes[i] = i
    BY <1>1 DEF Bytes
  <1>3. s \in Seq(Nat) /\ \A i \in 1..m : s[i] = 0 + i
    BY DEF Counts
  <1>4. \A i \in 1..m : 0 + i = i /\ i \in 1..N /\ (1 + i) - 1 = i
    BY <1>1
  <1>5. /\ SubSeq(Bytes, 1, m) \in Seq(Nat) /\ Len(SubSeq(Bytes, 1, m)) = m
        /\ \A i \in 1..m : SubSeq(Bytes, 1, m)[i] = i
    <2>1. \A i \in 1..m : Bytes[i] \in Nat
      BY <1>1, <1>2, <1>4
    <2>2. /\ SubSeq(Bytes, 1, m) \in Seq(Nat)
          /\ Len(SubSeq(Bytes, 1, m)) = IF 1 <= m THEN m - 1 + 1 ELSE 0
          /\ \A i \in 1..m - 1 + 1 : SubSeq(Bytes, 1, m)[i] = Bytes[1 + i - 1]
      BY <2>1, <1>1, SubSeqProperties
    <2>3. m - 1 + 1 = m /\ (IF 1 <= m THEN m - 1 + 1 ELSE 0) = m
      BY <1>1
    <2> HIDE DEF Bytes
    <2>4. ASSUME NEW i \in 1..m PROVE SubSeq(Bytes, 1, m)[i] = i
      <3>1. 1 + i - 1 = i
        OBVIOUS
      <3>2. SubSeq(Bytes, 1, m)[i] = Bytes[1 + i - 1]
        BY <2>2, <2>3
      <3> QED
        BY <3>1, <3>2, <1>2, <1>4
    <2> QED
      BY <2>2, <2>3, <2>4
  <1>6. s = SubSeq(Bytes, 1, m)
    BY <1>3, <1>4, <1>5, SeqEqual
  <1>7. m = N => s = Bytes
    BY <1>2, <1>3, <1>4, SeqEqual
  <1> QED
    BY <1>6, <1>7

(* Nothing waits for an application that takes everything.                 *)
NothingWaits == ~choosy => refused = <<>>

(* An application that refuses nothing has nothing waiting for it.         *)
LEMMA NothingRefused == Spec => []NothingWaits
  <1>1. Init => NothingWaits
    BY DEF Init, NothingWaits
  <1>2. NothingWaits /\ [Next]_vars => NothingWaits'
    <2> SUFFICES ASSUME ~choosy => refused = <<>>, [Next]_vars, ~choosy'
                 PROVE  refused' = <<>>
      BY DEF NothingWaits
    <2>0. ~choosy /\ refused = <<>>
      BY DEF Next, vars
    <2>1. CASE Arrive
      <3>1. PICK g \in Segments, again, takes, ok, short \in BOOLEAN :
              again /\ takes /\ tcp_input(g, again, takes, ok, short)
        BY <2>0, <2>1 DEF Arrive
      <3>2. tcp_input(g, TRUE, TRUE, ok, short)
        BY <3>1
      <3>3. Offer(ReceiveData(r, g, ok), TRUE, TRUE, short)
        BY <3>2, Zenon DEF tcp_input
      <3> QED
        BY <2>0, <3>3 DEF Offer
    <2>2. ASSUME NEW n \in 1..TCP_WND, tcp_recved(n)
          PROVE  refused' = <<>>
      BY <2>0, <2>2 DEF tcp_recved
    <2>3. CASE tcp_fasttmr
      BY <2>0, <2>3 DEF tcp_fasttmr
    <2>4. CASE tcp_slowtmr
      BY <2>0, <2>4 DEF tcp_slowtmr
    <2>5. CASE UNCHANGED vars
      BY <2>0, <2>5 DEF vars
    <2> QED
      BY <2>1, <2>2, <2>3, <2>4, <2>5 DEF Next
  <1> QED
    BY <1>1, <1>2, PTL DEF Spec

(* The two invariants are as strong as ReceiveSound.                       *)
LEMMA TcpSoundness ==
  ASSUME NoWrap, TcpInv, NothingWaits
  PROVE  ReceiveSound
  <1> DEFINE s == taken \o refused
             q == r.ooseq
  <1>s. /\ IRS \in Nat /\ N \in Nat /\ WORD \in Nat /\ TCP_WND \in Nat /\ SEQ \in Nat
        /\ IRS + N + WORD + TCP_WND + 2 <= SEQ
    BY Sizes DEF NoWrap
  <1>1. Stream /\ Rests(r) /\ Even(r, Have, eof, used) /\ r \in Pcb
    BY DEF TcpInv, Even
  <1>2. /\ r.rcv_nxt \in Int /\ IRS <= r.rcv_nxt /\ r.rcv_nxt <= IRS + N + 1
        /\ r.edge \in Int /\ IRS <= r.edge /\ r.edge <= IRS + N + WORD
    BY <1>1, PcbNumbers
  <1>3. Counts(s, 0) /\ Len(s) = Have /\ Have \in 0..N /\ eof \in 0..1 /\ (eof = 1 => Have = N)
    <2>1. Counts(taken, 0) /\ Counts(refused, Len(taken)) /\ 0 + Len(taken) = Len(taken)
      BY <1>1, StreamCounts DEF Counts
    <2>2. Counts(s, 0) /\ Len(s) = Len(taken) + Len(refused)
      BY <2>1, CountsOn
    <2>3. Have \in Nat /\ Have <= N
      BY <1>1, WindowSum DEF Stream
    <2> QED
      BY <2>2, <2>3, <1>1, <1>s DEF Have, Stream
  <1>4. ReceiveTypeOK
    <2>1. r.rcv_nxt \in 0..SEQ-1 /\ r.edge \in 0..SEQ-1
      BY <1>2, <1>s
    <2>2. r.ack \in {"no", "delay"} /\ r.out = <<>>
      BY <1>1, PcbIs DEF Rests
    <2>3. used \in 0..Len(taken)
      BY <1>1 DEF Stream
    <2> QED
      BY <2>1, <2>2, <2>3 DEF ReceiveTypeOK
  <1>5. InOrder
    <2> HIDE DEF s
    <2>1. s = SubSeq(Bytes, 1, Have)
      BY <1>3, BytesAre
    <2> QED
      BY <2>1, <1>3 DEF InOrder, s
  <1>6. Numbered
    <2> DEFINE p == r.rcv_nxt
    <2>1. p = IRS + Have + eof
      BY <1>1 DEF Even
    <2> HIDE DEF p, s
    <2>2. p \in Nums /\ IRS \in Nums /\ p >= IRS /\ p - IRS = Have + eof
      BY <2>1, <1>3, <1>s DEF Nums
    <2>3. Minus(p, IRS) = Have + eof
      BY <2>2, Compared
    <2> QED
      BY <2>3, <1>3 DEF Numbered, p, s
  <1>7. WindowExact
    <2>1. r.rcv_wnd = TCP_WND - (Have - used)
      BY <1>1 DEF Even
    <2> QED
      BY <2>1, <1>3 DEF WindowExact
  <1>8. EndFound
    <2> HIDE DEF s
    <2>1. eof <= 1 /\ (eof > 0 => eof = 1)
      BY <1>3
    <2>2. Have = N => s = Bytes
      BY <1>3, BytesAre
    <2> QED
      BY <2>1, <2>2, <1>3 DEF EndFound, s
  <1>9. QueueSound
    <2>1. Queued(q, r.rcv_nxt + 1, r.edge)
      BY <1>1 DEF Even
    <2>2. /\ q \in Seq(Piece) /\ Len(q) \in Nat /\ DOMAIN q = 1..Len(q)
          /\ \A i \in 1..Len(q) : q[i] \in Piece /\ r.rcv_nxt + 1 <= q[i].seq
                                  /\ (q[i].fin => i = Len(q))
          /\ \A i, j \in 1..Len(q) : i < j => q[i].seq + q[i].len <= q[j].seq
      BY <2>1, QueuedIs
    <2>3. \A i \in DOMAIN q :
            /\ q[i] = Segment(Minus(q[i].seq, IRS), Minus(q[i].seq, IRS) + q[i].len, q[i].fin)
            /\ q[i].fin => i = Len(q)
      BY <2>2, PieceSegment
    <2>4. \A i \in 1..Len(q)-1 : GEQ(q[i+1].seq, End(q[i]))
      <3> SUFFICES ASSUME NEW i \in 1..Len(q)-1 PROVE GEQ(q[i+1].seq, End(q[i]))
        OBVIOUS
      <3>1. i \in 1..Len(q) /\ i + 1 \in 1..Len(q) /\ i < i + 1
        BY <2>2
      <3> DEFINE x == q[i+1].seq
                 y == q[i].seq + q[i].len
      <3>2. x \in Nums /\ y \in Nums /\ x \in Int /\ y \in Int /\ y <= x /\ End(q[i]) = y
        BY <3>1, <2>2, PieceIs, EndIs
      <3> HIDE DEF x, y
      <3>3. GEQ(x, y)
        <4>1. x >= y
          BY <3>2
        <4> QED
          BY <4>1, <3>2, Compared
      <3> QED
        BY <3>2, <3>3 DEF x
    <2>5. q # <<>> => GT(q[1].seq, r.rcv_nxt)
      <3> SUFFICES ASSUME q # <<>> PROVE GT(q[1].seq, r.rcv_nxt)
        OBVIOUS
      <3>1. 1 \in 1..Len(q)
        BY <2>2, EmptySeq
      <3> DEFINE x == q[1].seq
                 p == r.rcv_nxt
      <3>2. x \in Nums /\ x \in Int /\ p + 1 <= x
        BY <3>1, <2>2, PieceIs
      <3>3. p \in Nums /\ p \in Int
        BY <1>2, <1>s DEF Nums
      <3> HIDE DEF x, p
      <3>4. GT(x, p)
        <4>1. x > p
          BY <3>2, <3>3
        <4> QED
          BY <4>1, <3>2, <3>3, Compared
      <3> QED
        BY <3>4 DEF x, p
    <2> QED
      BY <2>3, <2>4, <2>5 DEF QueueSound
  <1>10. EndLast
    <2>1. eof <= 1 /\ (eof > 0 => taken \o refused = Bytes)
      BY <1>8 DEF EndFound
    <2>2. ASSUME ~choosy PROVE taken \o refused = taken
      <3>1. refused = <<>> /\ taken \in Seq(Nat)
        BY <2>2, <1>1 DEF NothingWaits, Stream
      <3> QED
        BY <3>1
    <2> QED
      BY <2>1, <2>2 DEF EndLast
  <1> QED
    BY <1>4, <1>5, <1>6, <1>7, <1>8, <1>9, <1>10 DEF ReceiveSound

(* lwIP's receiver hands over the stream, whole and in order, and its      *)
(* numbers, queue and window are true to it.                               *)
THEOREM ReceiveCorrect == NoWrap => (Spec => []ReceiveSound)
  <1> SUFFICES ASSUME NoWrap PROVE Spec => []ReceiveSound
    OBVIOUS
  <1>1. Spec => []TcpInv
    BY TcpInvariance
  <1>2. Spec => []NothingWaits
    BY NothingRefused
  <1>3. TcpInv /\ NothingWaits => ReceiveSound
    BY TcpSoundness
  <1> QED
    BY <1>1, <1>2, <1>3, PTL

(* The edge of the window the peer was given never goes back.              *)
THEOREM EdgeCorrect == NoWrap => (Spec => EdgeKept)
  <1> SUFFICES ASSUME NoWrap PROVE Spec => EdgeKept
    OBVIOUS
  <1>1. Spec => []TcpInv
    BY TcpInvariance
  <1>2. TcpInv /\ [Next]_vars => [GEQ(r'.edge, r.edge)]_vars
    <2> SUFFICES ASSUME TcpInv, [Next]_vars
                 PROVE  GEQ(r'.edge, r.edge)
      OBVIOUS
    <2>1. TcpInv' /\ r.edge <= r'.edge
      BY NextKept DEF Kept
    <2> DEFINE x == r.edge
               y == r'.edge
    <2>2. /\ IRS \in Nat /\ N \in Nat /\ WORD \in Nat /\ TCP_WND \in Nat
      BY Sizes
    <2>3. x \in IRS..IRS + N + WORD /\ y \in IRS..IRS + N + WORD /\ x <= y
      <3>1. r \in Pcb /\ r' \in Pcb
        BY <2>1 DEF TcpInv, Even
      <3> QED
        BY <3>1, <2>1, PcbIs
    <2> HIDE DEF x, y
    <2>4. x \in Nums /\ y \in Nums /\ y >= x
      BY <2>2, <2>3 DEF Nums
    <2>5. GEQ(y, x)
      BY <2>4, Compared
    <2> QED
      BY <2>5 DEF x, y
  <1> QED
    BY <1>1, <1>2, PTL DEF Spec, EdgeKept
=============================================================================
