----------------------------- MODULE SendProofs -----------------------------
(***************************************************************************)
(* SendCounted for any sizes of the buffer, the queue, windows, words and  *)
(* segments, any way of writing, and any losses, reorderings and timeouts, *)
(* also where the driver holds segments and where sequence numbers wrap    *)
(* round.                                                                  *)
(*                                                                         *)
(* Every operator of TcpOut is shown to keep Good, what holds of the pcb   *)
(* between any two steps: the queues are sequences of segments, counted by *)
(* snd_queuelen, and while the application has not closed the numbers of   *)
(* the pcb and of the segments lie where the stream is, which is what      *)
(* snd_buf needs.  Bufs counts a queue whatever its order, so nothing is   *)
(* said about that.                                                        *)
(***************************************************************************)
EXTENDS TcpSend, SequenceTheorems, FiniteSetTheorems, TLAPS

(* Some numbers have a least one. If not, every number below all of them   *)
(* can be followed by another, and the bounded, hence finite, set of these *)
(* has a map onto itself, k to k - 1, that is not injective: 0 and 1 go to *)
(* 0.                                                                      *)
LEMMA LeastNumber ==
  ASSUME NEW S, S \subseteq Nat, S # {}
  PROVE  \E m \in S : \A x \in S : m <= x
  <1> SUFFICES ASSUME \A m \in S : \E x \in S : x < m
               PROVE  FALSE
    OBVIOUS
  <1> DEFINE L == {k \in Nat : \A x \in S : k <= x}
             Pred == [k \in L |-> IF k = 0 THEN 0 ELSE k - 1]
  <1>1. 0 \in L /\ \A k \in L : k + 1 \in L
    OBVIOUS
  <1>2. IsFiniteSet(L)
    <2>1. PICK x \in S : TRUE
      OBVIOUS
    <2>2. x \in Nat /\ L \in SUBSET Nat /\ \A k \in L : k <= x
      BY <2>1
    <2> HIDE DEF L
    <2> QED
      BY <2>2, FS_BoundedSetOfNaturals
  <1>3. Pred \in Surjection(L, L)
    <2>1. Pred \in [L -> L]
      OBVIOUS
    <2>2. \A k \in L : k + 1 \in L /\ Pred[k + 1] = k
      BY <1>1
    <2> QED
      BY <2>1, <2>2 DEF Surjection
  <1>4. Pred \in Injection(L, L)
    BY <1>2, <1>3, FS_SurjSameCardinalityImpliesInj
  <1>5. 1 \in L /\ Pred[0] = 0 /\ Pred[1] = 0
    BY <1>1
  <1> QED
    BY <1>1, <1>4, <1>5 DEF Injection, IsInjective

(* A set of numbers that has, with each, all smaller ones from 1 on.       *)
LEMMA PrefixSet ==
  ASSUME NEW m \in Nat, NEW S, S \subseteq 1..m, \A i \in S : \A j \in 1..i : j \in S
  PROVE  Cardinality(S) \in 0..m /\ S = 1..Cardinality(S)
  <1>1. CASE S = 1..m
    <2>1. Cardinality(1..m) = m
      BY FS_Interval
    <2> QED
      BY <1>1, <2>1
  <1>2. CASE S # 1..m
    <2> DEFINE D == (1..m) \ S
    <2>1. D # {} /\ D \subseteq Nat
      <3>1. \E x \in 1..m : x \notin S
        BY <1>2
      <3>2. 1..m \subseteq Nat
        OBVIOUS
      <3> QED
        BY <3>1, <3>2
    <2> HIDE DEF D
    <2>2. PICK k \in D : \A x \in D : k <= x
      BY <2>1, LeastNumber
    <2>3. k \in 1..m /\ k \notin S
      BY <2>2 DEF D
    <2>4. k - 1 \in Nat /\ k - 1 \in 0..m
      BY <2>3
    <2>5. S = 1..k - 1
      <3>1. ASSUME NEW i \in 1..k - 1 PROVE i \in S
        <4>1. i \in 1..m /\ ~(k <= i)
          BY <2>3
        <4> QED
          BY <4>1, <2>2 DEF D
      <3>2. ASSUME NEW i \in S PROVE i \in 1..k - 1
        <4>1. i \in 1..m
          OBVIOUS
        <4>2. ~(k \in 1..i)
          BY <2>3
        <4> QED
          BY <4>1, <4>2, <2>3
      <3> QED
        BY <3>1, <3>2
    <2>6. Cardinality(1..k - 1) = k - 1
      <3>1. k - 1 \in Int /\ 1 \in Int
        BY <2>4
      <3>2. Cardinality(1..k - 1) = IF 1 > k - 1 THEN 0 ELSE (k - 1) - 1 + 1
        BY <3>1, FS_Interval
      <3> QED
        BY <3>2, <2>4
    <2> QED
      BY <2>4, <2>5, <2>6
  <1> QED
    BY <1>1, <1>2

(* Induction over the numbers up to m, for a set.                          *)
LEMMA UpTo ==
  ASSUME NEW m \in Nat, NEW S, 0 \in S,
         \A n \in Nat : n < m /\ n \in S => n + 1 \in S
  PROVE  \A n \in 0..m : n \in S
  <1> DEFINE D == {n \in 0..m : n \notin S}
  <1> SUFFICES ASSUME D # {} PROVE FALSE
    OBVIOUS
  <1>1. PICK k \in D : \A x \in D : k <= x
    <2>1. D \subseteq Nat
      OBVIOUS
    <2> HIDE DEF D
    <2> QED
      BY <2>1, LeastNumber
  <1>2. k \in 0..m /\ k # 0 /\ k \notin S
    OBVIOUS
  <1>3. k - 1 \in Nat /\ k - 1 < m /\ (k - 1) + 1 = k /\ k - 1 \in 0..m
    BY <1>2
  <1>4. k - 1 \in S
    BY <1>1, <1>3
  <1> QED
    BY <1>2, <1>3, <1>4

Loop(f, m, X, x0, F) ==
  f \in [0..m -> X] /\ f[0] = x0 /\ \A k \in 1..m : f[k] = F[k][f[k - 1]]
Loops(f, m, X, x0, F) ==
  /\ f = [k \in 0..m |-> f[k]] /\ f[0] = x0
  /\ \A k \in 1..m : f[k - 1] \in X => f[k] = F[k][f[k - 1]]

(* A loop of m rounds, each a function of its number and of what the one   *)
(* before left in X, has a value after every number of rounds.             *)
LEMMA LoopExists ==
  ASSUME NEW m \in Nat, NEW X, NEW x0 \in X, NEW F \in [1..m -> [X -> X]]
  PROVE  \E f : Loop(f, m, X, x0, F)
  <1> DEFINE Is(f, n) == f[0] = x0 /\ \A k \in 1..n : f[k] = F[k][f[k - 1]]
             S == {n \in 0..m : \E f \in [0..n -> X] : Is(f, n)}
  <1>1. 0 \in S
    <2> DEFINE f == [k \in 0..0 |-> x0]
    <2>1. f \in [0..0 -> X] /\ Is(f, 0)
      OBVIOUS
    <2> HIDE DEF Is, f
    <2> QED
      BY <2>1
  <1>2. ASSUME NEW n \in Nat, n < m, n \in S PROVE n + 1 \in S
    <2>1. PICK f \in [0..n -> X] : Is(f, n)
      BY <1>2
    <2> DEFINE y == F[n + 1][f[n]]
               g == [k \in 0..(n + 1) |-> IF k <= n THEN f[k] ELSE y]
    <2>2. y \in X
      BY <1>2
    <2>3. g \in [0..(n + 1) -> X]
      <3> HIDE DEF y
      <3> QED
        BY <2>2, <1>2
    <2>4. ASSUME NEW k \in 1..(n + 1) PROVE g[k] = F[k][g[k - 1]]
      <3>1. k - 1 \in 0..n /\ g[k - 1] = f[k - 1]
        <4> HIDE DEF y
        <4> QED
          BY <1>2
      <3>2. CASE k <= n
        <4>1. k \in 1..n /\ g[k] = f[k]
          BY <3>2, <1>2
        <4> HIDE DEF g
        <4> QED
          BY <4>1, <3>1, <2>1
      <3>3. CASE k = n + 1
        <4>1. g[k] = y /\ k - 1 = n
          <5> HIDE DEF y
          <5> QED
            BY <3>3, <1>2
        <4> HIDE DEF g
        <4> QED
          BY <4>1, <3>1, <3>3
      <3> QED
        BY <3>2, <3>3, <1>2
    <2>5. g[0] = x0
      <3> HIDE DEF y
      <3> QED
        BY <2>1, <1>2
    <2>6. n + 1 \in 0..m
      BY <1>2
    <2> HIDE DEF g
    <2> QED
      BY <2>3, <2>4, <2>5, <2>6
  <1>3. m \in S
    <2> HIDE DEF S
    <2>1. \A n \in 0..m : n \in S
      BY <1>1, <1>2, UpTo
    <2> QED
      BY <2>1
  <1> QED
    BY <1>3 DEF Loop

(* A function that is such a loop has its values in X.                     *)
LEMMA LoopIn ==
  ASSUME NEW m \in Nat, NEW X, NEW x0 \in X, NEW F \in [1..m -> [X -> X]],
         NEW h, Loops(h, m, X, x0, F)
  PROVE  h \in [0..m -> X]
  <1> USE DEF Loops
  <1> DEFINE S == {n \in 0..m : h[n] \in X}
  <1>1. 0 \in S
    OBVIOUS
  <1>2. ASSUME NEW n \in Nat, n < m, n \in S PROVE n + 1 \in S
    <2>1. n + 1 \in 1..m /\ n + 1 \in 0..m /\ (n + 1) - 1 = n /\ h[n] \in X
      BY <1>2
    <2>2. h[n + 1] = F[n + 1][h[n]]
      BY <2>1
    <2> QED
      BY <2>1, <2>2
  <1> HIDE DEF S
  <1>3. \A n \in 0..m : n \in S
    BY <1>1, <1>2, UpTo
  <1>4. \A n \in 0..m : h[n] \in X
    BY <1>3 DEF S
  <1> QED
    BY <1>4

-----------------------------------------------------------------------------
(* What the constants are. *)
LEMMA Sizes ==
  /\ SEQ \in Nat \ {0} /\ WORD \in Nat \ {0} /\ MSS \in Nat \ {0} /\ N \in Nat
  /\ TCP_SND_BUF \in Nat \ {0} /\ TCP_SND_QUEUELEN \in Nat \ {0}
  /\ TCP_SND_BUF < WORD /\ 4 * WORD <= SEQ /\ SEQ % 2 = 0
  /\ ISS \in 0..SEQ - 1 /\ 2 * N < SEQ /\ PIECES \subseteq Nat \ {0}
  BY TcpSendAssumption DEF TcpSendAssumption, TcpInAssumption, TcpOutAssumption

LEMMA Half == SEQ \div 2 \in Nat /\ SEQ = (SEQ \div 2) + (SEQ \div 2)
  BY Sizes

(* A number below the modulus is its remainder. *)
LEMMA ModSame ==
  ASSUME NEW m \in Nat \ {0}, NEW x \in 0..m - 1
  PROVE  x % m = x
  OBVIOUS

(* A number just below 0 comes round once. *)
LEMMA ModNext ==
  ASSUME NEW m \in Nat \ {0}, NEW x \in -m..-1
  PROVE  x % m = x + m
  OBVIOUS

(* The smaller of two numbers. *)
LEMMA MinOfTwo ==
  ASSUME NEW a \in Int, NEW b \in Int
  PROVE  Min({a, b}) = IF a <= b THEN a ELSE b
  <1>1. CASE a <= b
    BY <1>1 DEF Min
  <1>2. CASE ~(a <= b)
    BY <1>2 DEF Min
  <1> QED
    BY <1>1, <1>2

Numbers == 0..SEQ - 1

(* Differences and sums of sequence numbers by their places in the stream. *)
LEMMA MinusIn == ASSUME NEW x \in Int, NEW y \in Int PROVE Minus(x, y) \in Numbers
  BY Sizes DEF Minus, Numbers

LEMMA PlaceIn == ASSUME NEW x \in Numbers PROVE Place(x) \in Numbers
  BY Sizes, MinusIn DEF Place, Numbers

LEMMA PlusIn == ASSUME NEW x \in Int, NEW n \in Int PROVE Plus(x, n) \in Numbers
  BY Sizes DEF Plus, Numbers

(* A difference of two numbers is one of the places or comes round.        *)
LEMMA Difference ==
  ASSUME NEW x \in Numbers, NEW y \in Numbers
  PROVE  Minus(x, y) = IF y <= x THEN x - y ELSE x - y + SEQ
  <1>1. SEQ \in Nat \ {0}
    BY Sizes
  <1>2. CASE y <= x
    <2>1. x - y \in 0..SEQ - 1
      BY <1>1, <1>2 DEF Numbers
    <2> QED
      BY <1>1, <1>2, <2>1, ModSame DEF Minus
  <1>3. CASE ~(y <= x)
    <2>1. x - y \in -SEQ..-1
      BY <1>1, <1>3 DEF Numbers
    <2> QED
      BY <1>1, <1>3, <2>1, ModNext DEF Minus
  <1> QED
    BY <1>2, <1>3

LEMMA PlacesApart ==
  ASSUME NEW x \in Numbers, NEW y \in Numbers
  PROVE  Minus(x, y) = IF Place(y) <= Place(x) THEN Place(x) - Place(y)
                       ELSE Place(x) - Place(y) + SEQ
  <1>1. ISS \in Numbers /\ SEQ \in Nat
    BY Sizes DEF Numbers
  <1>2. /\ Place(x) = IF ISS <= x THEN x - ISS ELSE x - ISS + SEQ
        /\ Place(y) = IF ISS <= y THEN y - ISS ELSE y - ISS + SEQ
    BY <1>1, Difference DEF Place
  <1>3. Minus(x, y) = IF y <= x THEN x - y ELSE x - y + SEQ
    BY Difference
  <1> QED
    BY <1>1, <1>2, <1>3 DEF Numbers

LEMMA PlusPlace ==
  ASSUME NEW x \in Numbers, NEW n \in Nat, Place(x) + n < SEQ
  PROVE  Plus(x, n) \in Numbers /\ Place(Plus(x, n)) = Place(x) + n
  <1>1. ISS \in Numbers /\ SEQ \in Nat \ {0}
    BY Sizes DEF Numbers
  <1>2. Place(x) = IF ISS <= x THEN x - ISS ELSE x - ISS + SEQ
    BY <1>1, Difference DEF Place
  <1>3. Plus(x, n) = IF x + n < SEQ THEN x + n ELSE x + n - SEQ
    <2>1. CASE x + n < SEQ
      <3>1. x + n \in 0..SEQ - 1
        BY <1>1, <2>1 DEF Numbers
      <3> QED
        BY <2>1, <3>1, <1>1, ModSame DEF Plus
    <2>2. CASE ~(x + n < SEQ)
      <3> DEFINE y == x + n - SEQ
      <3>1. y \in 0..SEQ - 1 /\ x + n = y + SEQ
        BY <1>1, <1>2, <2>2 DEF Numbers
      <3> HIDE DEF y
      <3>2. (y + SEQ) % SEQ = y
        BY <3>1, <1>1
      <3> QED
        BY <2>2, <3>1, <3>2 DEF Plus, y
    <2> QED
      BY <2>1, <2>2
  <1>4. Plus(x, n) \in Numbers
    BY <1>1, PlusIn DEF Numbers
  <1>5. Place(Plus(x, n)) = IF ISS <= Plus(x, n) THEN Plus(x, n) - ISS ELSE Plus(x, n) - ISS + SEQ
    BY <1>1, <1>4, Difference DEF Place
  <1> QED
    BY <1>1, <1>2, <1>3, <1>4, <1>5 DEF Numbers

(* Within the stream a number that is behind another has a lower place.    *)
LEMMA PlacesCompared ==
  ASSUME NEW x \in Numbers, NEW y \in Numbers, Place(x) <= N, Place(y) <= N, LT(x, y)
  PROVE  Place(x) < Place(y)
  <1>1. Place(x) \in Nat /\ Place(y) \in Nat
    BY PlaceIn DEF Numbers
  <1>2. Minus(y, x) < SEQ \div 2 /\ x # y
    BY DEF LT, GT, GEQ
  <1>3. Place(x) # Place(y)
    <2>1. Place(x) = Place(y) => Minus(x, y) = 0
      BY <1>1, PlacesApart
    <2>2. Minus(x, y) = IF y <= x THEN x - y ELSE x - y + SEQ
      BY Difference
    <2>3. SEQ \in Nat
      BY Sizes
    <2> QED
      BY <1>2, <2>1, <2>2, <2>3 DEF Numbers
  <1>4. Minus(y, x) = IF Place(x) <= Place(y) THEN Place(y) - Place(x)
                      ELSE Place(y) - Place(x) + SEQ
    BY PlacesApart
  <1> QED
    BY <1>1, <1>2, <1>3, <1>4, Half, Sizes

(* An acknowledgement that TakeAckno takes is for something that was sent. *)
LEMMA AckPlace ==
  ASSUME NEW a \in Numbers, NEW x \in Numbers, NEW k \in Numbers,
         Place(a) <= Place(x), Place(x) <= N, BETWEEN(k, Plus(a, 1), x)
  PROVE  Place(a) < Place(k) /\ Place(k) <= Place(x)
  <1>1. Place(a) \in Nat /\ Place(x) \in Nat /\ Place(k) \in Nat /\ Place(k) < SEQ
    BY PlaceIn, Sizes DEF Numbers
  <1>2. Plus(a, 1) \in Numbers /\ Place(Plus(a, 1)) = Place(a) + 1
    <2>1. 1 \in Nat /\ Place(a) + 1 < SEQ
      BY <1>1, Half, Sizes
    <2> QED
      BY <2>1, PlusPlace
  <1>3. Minus(k, Plus(a, 1)) < SEQ \div 2 /\ Minus(x, k) < SEQ \div 2
    BY DEF BETWEEN, GEQ
  <1>4. Minus(k, Plus(a, 1)) = IF Place(a) + 1 <= Place(k) THEN Place(k) - (Place(a) + 1)
                               ELSE Place(k) - (Place(a) + 1) + SEQ
    BY <1>2, PlacesApart
  <1>5. Minus(x, k) = IF Place(k) <= Place(x) THEN Place(x) - Place(k)
                      ELSE Place(x) - Place(k) + SEQ
    BY PlacesApart
  <1> QED
    BY <1>1, <1>3, <1>4, <1>5, Half, Sizes

-----------------------------------------------------------------------------
(* The pbufs of a queue, counted one by one.  T is whatever its segments   *)
(* are taken from.                                                         *)
Counted(q, h) == h[0] = 0 /\ \A k \in 1..Len(q) : h[k] = h[k - 1] + q[k].bufs

LEMMA BufsIs ==
  ASSUME NEW T, \A t \in T : t.bufs \in Nat, NEW q \in Seq(T)
  PROVE  \E h \in [0..Len(q) -> Nat] : Counted(q, h) /\ Bufs(q) = h[Len(q)]
  <1> DEFINE L == Len(q)
             St(k, x) == x + q[k].bufs
             F == [k \in 1..L |-> [x \in Nat |-> St(k, x)]]
             Fix(f) == [k \in 0..L |-> IF k = 0 THEN 0 ELSE St(k, f[k - 1])]
             h == CHOOSE f : f = Fix(f)
  <1>1. L \in Nat
    BY LenProperties
  <1>2. \A k \in 1..L, x \in Nat : St(k, x) \in Nat
    BY ElementOfSeq
  <1>3. Bufs(q) = [n \in 0..L |-> h[n]][L] /\ \A k, x : St(k, x) = x + q[k].bufs
    <2>1. Bufs(q) = h[L]
      BY DEF Bufs
    <2> HIDE DEF h, St
    <2>2. L \in 0..L
      BY <1>1
    <2>3. \A k, x : St(k, x) = x + q[k].bufs
      BY DEF St
    <2> QED
      BY <2>1, <2>2, <2>3
  <1> HIDE DEF L, St, F
  <1>4. F \in [1..L -> [Nat -> Nat]] /\ \A k \in 1..L, x \in Nat : F[k][x] = St(k, x)
    BY <1>2 DEF F
  <1>5. PICK g : Loop(g, L, Nat, 0, F)
    BY <1>1, <1>4, LoopExists
  <1>6. \A k \in 0..L : g[k] = IF k = 0 THEN 0 ELSE St(k, g[k - 1])
    <2>1. ASSUME NEW k \in 0..L, k # 0 PROVE g[k] = St(k, g[k - 1])
      <3>1. k \in 1..L /\ k - 1 \in 0..L
        BY <1>1, <2>1
      <3> QED
        BY <3>1, <1>4, <1>5 DEF Loop
    <2> QED
      BY <2>1, <1>5 DEF Loop
  <1>7. h = Fix(h)
    <2>1. g = Fix(g)
      BY <1>5, <1>6 DEF Loop
    <2> HIDE DEF Fix
    <2> QED
      BY <2>1
  <1> HIDE DEF h
  <1>9. /\ h = [k \in 0..L |-> h[k]] /\ h[0] = 0
        /\ \A k \in 1..L : h[k] = St(k, h[k - 1])
    <2>1. \A k \in 0..L : h[k] = IF k = 0 THEN 0 ELSE St(k, h[k - 1])
      BY <1>7, Zenon
    <2>2. h = [k \in 0..L |-> h[k]]
      BY <1>7, <2>1, Zenon
    <2>3. 0 \in 0..L /\ \A k \in 1..L : k \in 0..L /\ k # 0
      BY <1>1
    <2> QED
      BY <2>1, <2>2, <2>3, Zenon
  <1>10. h \in [0..L -> Nat]
    <2>1. Loops(h, L, Nat, 0, F)
      BY <1>4, <1>9 DEF Loops
    <2> QED
      BY <1>1, <1>4, <2>1, LoopIn
  <1>11. Counted(q, h)
    BY <1>3, <1>9 DEF Counted, L
  <1> QED
    BY <1>3, <1>9, <1>10, <1>11 DEF L

LEMMA BufsOf ==
  ASSUME NEW T, \A t \in T : t.bufs \in Nat, NEW q \in Seq(T), NEW f, Counted(q, f)
  PROVE  Bufs(q) = f[Len(q)] /\ Bufs(q) \in Nat
  <1>1. PICK h \in [0..Len(q) -> Nat] : Counted(q, h) /\ Bufs(q) = h[Len(q)]
    BY BufsIs
  <1>2. Len(q) \in Nat
    BY LenProperties
  <1> DEFINE S == {n \in 0..Len(q) : f[n] = h[n]}
  <1>3. 0 \in S
    BY <1>1, <1>2 DEF Counted
  <1>4. ASSUME NEW n \in Nat, n < Len(q), n \in S PROVE n + 1 \in S
    <2>1. n + 1 \in 1..Len(q) /\ (n + 1) - 1 = n /\ n + 1 \in 0..Len(q)
      BY <1>2, <1>4
    <2>2. f[n + 1] = f[n] + q[n + 1].bufs /\ h[n + 1] = h[n] + q[n + 1].bufs
      BY <1>1, <2>1 DEF Counted
    <2> QED
      BY <1>4, <2>1, <2>2
  <1>5. Len(q) \in S
    <2> HIDE DEF S
    <2>1. \A n \in 0..Len(q) : n \in S
      BY <1>2, <1>3, <1>4, UpTo
    <2> QED
      BY <1>2, <2>1
  <1> QED
    BY <1>1, <1>2, <1>5

LEMMA BufsNat ==
  ASSUME NEW T, \A t \in T : t.bufs \in Nat, NEW q \in Seq(T)
  PROVE  Bufs(q) \in Nat
  <1>1. PICK h \in [0..Len(q) -> Nat] : Counted(q, h) /\ Bufs(q) = h[Len(q)]
    BY BufsIs
  <1> QED
    BY <1>1, BufsOf

LEMMA BufsEmpty == Bufs(<<>>) = 0
  <1> DEFINE T == {t \in {} : t.bufs \in Nat}
  <1>1. <<>> \in Seq(T) /\ Len(<<>>) = 0
    BY EmptySeq
  <1>2. Counted(<<>>, [n \in 0..0 |-> 0])
    BY <1>1 DEF Counted
  <1> QED
    BY <1>1, <1>2, BufsOf

LEMMA BufsConcat ==
  ASSUME NEW T, \A t \in T : t.bufs \in Nat, NEW p \in Seq(T), NEW q \in Seq(T)
  PROVE  p \o q \in Seq(T) /\ Bufs(p \o q) = Bufs(p) + Bufs(q)
  <1>1. PICK h \in [0..Len(p) -> Nat] : Counted(p, h) /\ Bufs(p) = h[Len(p)]
    BY BufsIs
  <1>2. PICK k \in [0..Len(q) -> Nat] : Counted(q, k) /\ Bufs(q) = k[Len(q)]
    BY BufsIs
  <1>3. Len(p) \in Nat /\ Len(q) \in Nat
    BY LenProperties
  <1>4. /\ p \o q \in Seq(T) /\ Len(p \o q) = Len(p) + Len(q)
        /\ \A i \in 1..Len(p) + Len(q) : (p \o q)[i] = IF i <= Len(p) THEN p[i] ELSE q[i - Len(p)]
    BY ConcatProperties
  <1> DEFINE f == [n \in 0..Len(p) + Len(q) |->
                     IF n <= Len(p) THEN h[n] ELSE h[Len(p)] + k[n - Len(p)]]
  <1>5. ASSUME NEW i \in 1..Len(p) + Len(q) PROVE f[i] = f[i - 1] + (p \o q)[i].bufs
    <2>1. CASE i <= Len(p)
      <3>1. f[i] = h[i] /\ f[i - 1] = h[i - 1] /\ (p \o q)[i] = p[i] /\ i \in 1..Len(p)
        BY <1>3, <1>4, <2>1
      <3> HIDE DEF f
      <3> QED
        BY <3>1, <1>1 DEF Counted
    <2>2. CASE i = Len(p) + 1
      <3>1. f[i] = h[Len(p)] + k[1] /\ f[i - 1] = h[Len(p)] /\ (p \o q)[i] = q[1]
        BY <1>3, <1>4, <2>2
      <3>2. k[1] = k[0] + q[1].bufs /\ k[0] = 0
        BY <1>2, <1>3, <2>2 DEF Counted
      <3>3. q[1].bufs \in Nat /\ h[Len(p)] \in Nat
        BY <1>3, <2>2, ElementOfSeq
      <3> HIDE DEF f
      <3> QED
        BY <3>1, <3>2, <3>3
    <2>3. CASE i > Len(p) + 1
      <3> DEFINE j == i - Len(p)
      <3>1. f[i] = h[Len(p)] + k[j] /\ f[i - 1] = h[Len(p)] + k[j - 1] /\ (p \o q)[i] = q[j]
            /\ j \in 1..Len(q) /\ j - 1 \in 0..Len(q)
        <4>1. i - 1 - Len(p) = j - 1 /\ ~(i - 1 <= Len(p)) /\ ~(i <= Len(p))
              /\ j \in 1..Len(q) /\ j - 1 \in 0..Len(q)
              /\ i \in 0..Len(p) + Len(q) /\ i - 1 \in 0..Len(p) + Len(q)
          BY <1>3, <2>3
        <4> QED
          BY <4>1, <1>4
      <3> HIDE DEF f, j
      <3>2. k[j] = k[j - 1] + q[j].bufs
        BY <1>2, <3>1 DEF Counted
      <3>3. q[j].bufs \in Nat /\ h[Len(p)] \in Nat /\ k[j - 1] \in Nat
        <4>1. q[j] \in T
          BY <3>1, ElementOfSeq
        <4>2. Len(p) \in 0..Len(p)
          BY <1>3
        <4> QED
          BY <3>1, <4>1, <4>2
      <3> QED
        BY <3>1, <3>2, <3>3
    <2> QED
      BY <1>3, <2>1, <2>2, <2>3
  <1>6. f[0] = 0 /\ f[Len(p) + Len(q)] = h[Len(p)] + k[Len(q)]
    <2>1. h[0] = 0 /\ k[0] = 0 /\ h[Len(p)] \in Nat
      BY <1>1, <1>2, <1>3 DEF Counted
    <2>2. f[0] = 0
      BY <1>3, <2>1
    <2>3. CASE Len(q) = 0
      <3>1. Len(p) + Len(q) = Len(p) /\ Len(p) <= Len(p) /\ Len(p) \in 0..Len(p) + Len(q)
        BY <1>3, <2>3
      <3>2. f[Len(p) + Len(q)] = h[Len(p)]
        BY <3>1
      <3> HIDE DEF f
      <3> QED
        BY <2>1, <2>2, <2>3, <3>2
    <2>4. CASE Len(q) # 0
      <3>1. /\ ~(Len(p) + Len(q) <= Len(p)) /\ Len(p) + Len(q) \in 0..Len(p) + Len(q)
            /\ Len(p) + Len(q) - Len(p) = Len(q)
        BY <1>3, <2>4
      <3>2. f[Len(p) + Len(q)] = h[Len(p)] + k[Len(q)]
        BY <3>1
      <3> HIDE DEF f
      <3> QED
        BY <2>2, <3>2
    <2> QED
      BY <2>3, <2>4
  <1> HIDE DEF f
  <1>7. Counted(p \o q, f)
    BY <1>4, <1>5, <1>6 DEF Counted
  <1>8. Bufs(p \o q) = f[Len(p \o q)]
    BY <1>4, <1>7, BufsOf
  <1> QED
    BY <1>1, <1>2, <1>4, <1>6, <1>8

LEMMA BufsOne ==
  ASSUME NEW T, \A t \in T : t.bufs \in Nat, NEW g \in T
  PROVE  <<g>> \in Seq(T) /\ Bufs(<<g>>) = g.bufs
  <1> DEFINE f == [n \in 0..1 |-> IF n = 0 THEN 0 ELSE g.bufs]
  <1>1. <<g>> \in Seq(T) /\ Len(<<g>>) = 1 /\ <<g>>[1] = g
    OBVIOUS
  <1>2. Counted(<<g>>, f)
    BY <1>1 DEF Counted
  <1>3. f[1] = g.bufs
    OBVIOUS
  <1> HIDE DEF f
  <1> QED
    BY <1>1, <1>2, <1>3, BufsOf

LEMMA BufsAppend ==
  ASSUME NEW T, \A t \in T : t.bufs \in Nat, NEW q \in Seq(T), NEW g \in T
  PROVE  Append(q, g) \in Seq(T) /\ Bufs(Append(q, g)) = Bufs(q) + g.bufs
  <1> DEFINE s == <<g>>
  <1>1. Append(q, g) = q \o s
    BY AppendIsConcat
  <1>2. s \in Seq(T) /\ Bufs(s) = g.bufs
    BY BufsOne
  <1> HIDE DEF s
  <1>3. q \o s \in Seq(T) /\ Bufs(q \o s) = Bufs(q) + Bufs(s)
    BY <1>2, BufsConcat
  <1> QED
    BY <1>1, <1>2, <1>3

(* A queue is what comes before a place and what comes after it.           *)
LEMMA BufsSplit ==
  ASSUME NEW T, \A t \in T : t.bufs \in Nat, NEW q \in Seq(T), NEW k \in 0..Len(q)
  PROVE  /\ SubSeq(q, 1, k) \in Seq(T) /\ SubSeq(q, k + 1, Len(q)) \in Seq(T)
         /\ Bufs(q) = Bufs(SubSeq(q, 1, k)) + Bufs(SubSeq(q, k + 1, Len(q)))
  <1>1. Len(q) \in Nat /\ \A i \in 1..Len(q) : q[i] \in T
    BY LenProperties, ElementOfSeq
  <1>2. SubSeq(q, 1, k) \in Seq(T) /\ SubSeq(q, k + 1, Len(q)) \in Seq(T)
    <2>1. (\A i \in 1..k : q[i] \in T) /\ (\A i \in k + 1..Len(q) : q[i] \in T)
      BY <1>1
    <2>2. k \in Int /\ k + 1 \in Int /\ 1 \in Int /\ Len(q) \in Int
      BY <1>1
    <2> QED
      BY <2>1, <2>2, SubSeqProperties
  <1>3. SubSeq(q, 1, k) \o SubSeq(q, k + 1, Len(q)) = q
    <2>1. 1 \in 1..Len(q) + 1 /\ k \in 1 - 1..Len(q) /\ Len(q) \in k..Len(q)
      BY <1>1
    <2>2. SubSeq(q, 1, k) \o SubSeq(q, k + 1, Len(q)) = SubSeq(q, 1, Len(q))
      BY <2>1, ConcatAdjacentSubSeq
    <2> QED
      BY <2>2, SubSeqFull
  <1> QED
    BY <1>2, <1>3, BufsConcat

LEMMA BufsTail ==
  ASSUME NEW T, \A t \in T : t.bufs \in Nat, NEW q \in Seq(T), q # <<>>
  PROVE  /\ Head(q) \in T /\ Tail(q) \in Seq(T)
         /\ Bufs(q) = Head(q).bufs + Bufs(Tail(q))
  <1>1. Head(q) \in T /\ Tail(q) \in Seq(T) /\ Tail(q) = SubSeq(q, 2, Len(q))
    BY HeadTailProperties, TailIsSubSeq
  <1>2. Len(q) \in Nat \ {0} /\ q[1] = Head(q)
    BY EmptySeq
  <1>3. SubSeq(q, 1, 1) = <<Head(q)>>
    <2>1. 1 \in 1..Len(q) /\ 1 \in 1..Len(q)
      BY <1>2
    <2>2. SubSeq(q, 1, 1) = <<q[1]>> \o SubSeq(q, 1 + 1, 1)
      BY <1>2, SubSeqRecursiveFirst
    <2>3. SubSeq(q, 1 + 1, 1) = <<>>
      BY SubSeqEmpty
    <2>4. <<q[1]>> \in Seq(T)
      BY <1>1, <1>2, BufsOne
    <2> QED
      BY <1>2, <2>2, <2>3, <2>4, ConcatEmptySeq
  <1>4. 1 \in 0..Len(q) /\ 1 + 1 = 2
    BY <1>2
  <1>5. Bufs(q) = Bufs(SubSeq(q, 1, 1)) + Bufs(SubSeq(q, 2, Len(q)))
    BY <1>4, BufsSplit
  <1>6. Bufs(<<Head(q)>>) = Head(q).bufs
    BY <1>1, BufsOne
  <1> QED
    BY <1>1, <1>3, <1>5, <1>6

(* Where a segment is put is nothing to their number.                      *)
LEMMA BufsInsert ==
  ASSUME NEW T, \A t \in T : t.bufs \in Nat, NEW q \in Seq(T), NEW g \in T
  PROVE  InsertBySeq(q, g) \in Seq(T) /\ Bufs(InsertBySeq(q, g)) = Bufs(q) + g.bufs
  <1> DEFINE S == {i \in DOMAIN q : \A j \in 1..i : LT(q[j].seq, g.seq)}
             k == Cardinality(S)
             a == SubSeq(q, 1, k)
             b == SubSeq(q, k + 1, Len(q))
             s == <<g>>
             c == a \o s
  <1>1. k \in 0..Len(q)
    <2>1. Len(q) \in Nat /\ DOMAIN q = 1..Len(q)
      BY LenProperties
    <2>2. S \subseteq 1..Len(q) /\ \A i \in S : \A j \in 1..i : j \in S
      BY <2>1
    <2> HIDE DEF S
    <2> QED
      BY <2>1, <2>2, PrefixSet
  <1>2. InsertBySeq(q, g) = c \o b
    BY DEF InsertBySeq
  <1> HIDE DEF S, k
  <1>3. a \in Seq(T) /\ b \in Seq(T) /\ Bufs(q) = Bufs(a) + Bufs(b)
    BY <1>1, BufsSplit
  <1> HIDE DEF a, b
  <1>4. s \in Seq(T) /\ Bufs(s) = g.bufs
    BY BufsOne
  <1> HIDE DEF s
  <1>5. c \in Seq(T) /\ Bufs(c) = Bufs(a) + Bufs(s)
    BY <1>3, <1>4, BufsConcat
  <1> HIDE DEF c
  <1>6. c \o b \in Seq(T) /\ Bufs(c \o b) = Bufs(c) + Bufs(b)
    BY <1>3, <1>5, BufsConcat
  <1>7. Bufs(a) \in Nat /\ Bufs(b) \in Nat /\ g.bufs \in Nat
    BY <1>3, BufsNat
  <1> QED
    BY <1>2, <1>3, <1>4, <1>5, <1>6, <1>7

(* Segments with a pbuf each.                                              *)
LEMMA BufsSingle ==
  ASSUME NEW T, NEW q \in Seq(T), \A t \in T : t.bufs \in Nat,
         \A i \in 1..Len(q) : q[i].bufs = 1
  PROVE  Bufs(q) = Len(q)
  <1> DEFINE f == [n \in 0..Len(q) |-> n]
  <1>1. Len(q) \in Nat
    BY LenProperties
  <1>2. Counted(q, f) /\ f[Len(q)] = Len(q)
    BY <1>1 DEF Counted
  <1> HIDE DEF f
  <1> QED
    BY <1>2, BufsOf

-----------------------------------------------------------------------------
(* The fields of a pcb that the accounts are about.  Packet: what is known *)
(* of a segment under way.  Segs: what a queue holds, where the            *)
(* application has not closed (open) only data below the next byte it will *)
(* write, b.                                                               *)
Fields == {"snd_nxt", "lastack", "snd_lbb", "snd_buf", "snd_queuelen", "unsent", "unacked",
           "rtime", "oversize", "sent"}
Packet(g) == {"seq", "len"} \subseteq DOMAIN g /\ g.seq \in Numbers /\ g.len \in Nat

Seg == [seq : Numbers, len : Nat, data : Seq(Nat), fin : BOOLEAN, syn : BOOLEAN, bufs : Nat]
Segs(b, open) ==
  {g \in Seg : open => ~g.fin /\ ~g.syn /\ Place(g.seq) + g.len <= Place(b)}

(* The numbers of an open pcb lie in this order in the stream, and the     *)
(* free buffer is what the bytes between the first and the last leave.     *)
Stands(last, nxt, b, buf) ==
  /\ last \in Numbers /\ nxt \in Numbers /\ b \in Numbers /\ buf \in Nat
  /\ Place(last) <= Place(nxt) /\ Place(nxt) <= Place(b) /\ Place(b) <= N
  /\ buf + Place(b) - Place(last) = TCP_SND_BUF

Good(u, b, open) ==
  /\ Fields \subseteq DOMAIN u /\ u.snd_lbb = b
  /\ u.unsent \in Seq(Segs(b, open)) /\ u.unacked \in Seq(Segs(b, open))
  /\ u.snd_queuelen = Bufs(u.unacked) + Bufs(u.unsent)
  /\ u.snd_queuelen <= TCP_SND_QUEUELEN
  /\ u.rtime \in BOOLEAN /\ (u.unacked # <<>> => u.rtime)
  /\ u.oversize \in Nat
  /\ \A g \in u.sent : Packet(g)
  /\ open => Stands(u.lastack, u.snd_nxt, b, u.snd_buf)

LEMMA SegsBufs == ASSUME NEW b, NEW open PROVE \A t \in Segs(b, open) : t.bufs \in Nat
  BY DEF Segs, Seg

LEMMA SegsPacket == ASSUME NEW b, NEW open, NEW t \in Segs(b, open) PROVE Packet(t)
  BY DEF Segs, Seg, Packet

(* Other fields do not matter. *)
LEMMA Alike ==
  ASSUME NEW u, NEW w, NEW b, NEW open, Good(u, b, open),
         Fields \subseteq DOMAIN w, \A f \in Fields : w[f] = u[f]
  PROVE  Good(w, b, open)
  <1>1. /\ w.snd_nxt = u.snd_nxt /\ w.lastack = u.lastack /\ w.snd_lbb = u.snd_lbb
        /\ w.snd_buf = u.snd_buf /\ w.snd_queuelen = u.snd_queuelen /\ w.unsent = u.unsent
        /\ w.unacked = u.unacked /\ w.rtime = u.rtime /\ w.oversize = u.oversize
        /\ w.sent = u.sent
    BY DEF Fields
  <1> QED
    BY <1>1 DEF Good

-----------------------------------------------------------------------------
(* A multiple that fits. *)
LEMMA DivBelow ==
  ASSUME NEW a \in Nat, NEW m \in Nat \ {0}
  PROVE  a \div m \in Nat /\ (a \div m) * m <= a
  <1>1. a \div m \in Nat
    OBVIOUS
  <1>2. (a \div m) * m <= a
    BY Z3
  <1> QED
    BY <1>1, <1>2

LEMMA TimesMonotone ==
  ASSUME NEW a \in Int, NEW b \in Int, NEW m \in Nat, a <= b
  PROVE  a * m \in Int /\ b * m \in Int /\ a * m <= b * m
  OBVIOUS

LEMMA TimesLess ==
  ASSUME NEW a \in Int, NEW m \in Int
  PROVE  (a - 1) * m = a * m - m /\ a * m \in Int
  OBVIOUS

(* A piece of data. *)
Part(data, i) == SubSeq(data, (i - 1) * MSS + 1, Min({i * MSS, Len(data)}))

LEMMA PartIs ==
  ASSUME NEW data \in Seq(Nat), NEW i \in 1..(Len(data) + MSS - 1) \div MSS
  PROVE  /\ (i - 1) * MSS \in Nat /\ (i - 1) * MSS + Len(Part(data, i)) <= Len(data)
         /\ Part(data, i) \in Seq(Nat) /\ Len(Part(data, i)) \in 0..MSS
  <1> DEFINE L == Len(data)
             K == (L + MSS - 1) \div MSS
             from == (i - 1) * MSS
             m == Min({i * MSS, L})
  <1>1. MSS \in Nat \ {0} /\ L \in Nat
    BY Sizes, LenProperties
  <1>2. L + MSS - 1 \in Nat
    BY <1>1
  <1>3. K \in Nat /\ K * MSS <= L + MSS - 1
    <2> DEFINE a == L + MSS - 1
    <2>1. a \in Nat
      BY <1>2
    <2> HIDE DEF a
    <2>2. a \div MSS \in Nat /\ (a \div MSS) * MSS <= a
      BY <1>1, <2>1, DivBelow
    <2> QED
      BY <2>2 DEF a
  <1>4. i \in Int /\ 1 <= i /\ i <= K
    BY <1>3
  <1> HIDE DEF K
  <1>5. i * MSS \in Int /\ K * MSS \in Int /\ i * MSS <= K * MSS
    BY <1>1, <1>3, <1>4, TimesMonotone
  <1>6. from = i * MSS - MSS
    BY <1>1, <1>4, TimesLess
  <1>7. from \in Nat
    <2>1. 1 * MSS <= i * MSS
      BY <1>1, <1>4, TimesMonotone
    <2> QED
      BY <1>1, <1>5, <1>6, <2>1
  <1> DEFINE q == i * MSS
  <1>8. q \in Int /\ q <= L + MSS - 1 /\ from = q - MSS /\ m = IF q <= L THEN q ELSE L
    <2>1. q \in Int /\ L \in Int
      BY <1>1, <1>5
    <2> HIDE DEF q
    <2>2. m = IF q <= L THEN q ELSE L
      BY <2>1, MinOfTwo DEF q
    <2> QED
      BY <1>1, <1>3, <1>5, <1>6, <2>1, <2>2 DEF q
  <1> HIDE DEF q, m, from
  <1>9. m \in Int /\ m <= L /\ from + 1 \in Int /\ from < m /\ m <= from + MSS
    BY <1>1, <1>7, <1>8
  <1>10. \A j \in from + 1..m : data[j] \in Nat
    BY <1>1, <1>7, <1>9, ElementOfSeq
  <1>11. /\ SubSeq(data, from + 1, m) \in Seq(Nat)
         /\ Len(SubSeq(data, from + 1, m)) = m - (from + 1) + 1
    BY <1>7, <1>9, <1>10, SubSeqProperties
  <1>12. Part(data, i) = SubSeq(data, from + 1, m)
    BY DEF Part, from, m, L
  <1> QED
    BY <1>1, <1>7, <1>9, <1>11, <1>12 DEF from, L

(* New segments reach up to b, one pbuf each.                              *)
LEMMA ChopIs ==
  ASSUME NEW data \in Seq(Nat), NEW seq \in Numbers, NEW b \in Numbers,
         Place(seq) + Len(data) = Place(b)
  PROVE  /\ Chop(data, seq) \in Seq(Segs(b, TRUE))
         /\ Bufs(Chop(data, seq)) = Len(Chop(data, seq))
         /\ \A i \in 1..Len(Chop(data, seq)) : Chop(data, seq)[i].len <= MSS
  <1> DEFINE T == Segs(b, TRUE)
             K == (Len(data) + MSS - 1) \div MSS
             One(i) == [seq |-> Plus(seq, (i-1) * MSS), len |-> Len(Part(data, i)),
                        data |-> Part(data, i), fin |-> FALSE, syn |-> FALSE, bufs |-> 1]
             q == [i \in 1..K |-> One(i)]
  <1>1. Chop(data, seq) = q
    BY DEF Chop, Part
  <1>2. K \in Nat
    <2> DEFINE a == Len(data) + MSS - 1
    <2>1. a \in Nat /\ MSS \in Nat \ {0}
      BY Sizes, LenProperties
    <2> HIDE DEF a
    <2>2. a \div MSS \in Nat
      BY <2>1, DivBelow
    <2> QED
      BY <2>2 DEF a
  <1>3. ASSUME NEW i \in 1..K
        PROVE  One(i) \in T /\ One(i).bufs = 1 /\ One(i).len <= MSS
    <2> DEFINE from == (i - 1) * MSS
               p == Part(data, i)
    <2>1. /\ from \in Nat /\ from + Len(p) <= Len(data)
          /\ p \in Seq(Nat) /\ Len(p) \in 0..MSS
      BY PartIs
    <2>2. Len(data) \in Nat /\ Place(b) \in Numbers /\ Place(seq) \in Numbers /\ SEQ \in Nat
          /\ MSS \in Nat
      BY PlaceIn, LenProperties, Sizes
    <2>3. One(i) = [seq |-> Plus(seq, from), len |-> Len(p), data |-> p, fin |-> FALSE,
                    syn |-> FALSE, bufs |-> 1]
      OBVIOUS
    <2> HIDE DEF from, p, One
    <2>4. Place(seq) + from < SEQ
      BY <2>1, <2>2 DEF Numbers
    <2>5. Plus(seq, from) \in Numbers /\ Place(Plus(seq, from)) = Place(seq) + from
      BY <2>1, <2>4, PlusPlace
    <2>6. Place(One(i).seq) + One(i).len <= Place(b)
      BY <2>1, <2>2, <2>3, <2>5 DEF Numbers
    <2> QED
      BY <2>1, <2>2, <2>3, <2>5, <2>6 DEF Segs, Seg
  <1> HIDE DEF One, T
  <1>4. q \in Seq(T) /\ Len(q) = K /\ \A i \in 1..K : q[i] = One(i)
    <2> HIDE DEF K
    <2>1. q \in [1..K -> T]
      BY <1>3
    <2>2. q \in Seq(T) /\ Len(q) = K
      BY <1>2, <2>1
    <2> QED
      BY <2>2
  <1> HIDE DEF q, K
  <1>5. Bufs(q) = Len(q)
    <2>1. \A i \in 1..Len(q) : q[i].bufs = 1
      BY <1>3, <1>4
    <2>2. \A t \in T : t.bufs \in Nat
      BY SegsBufs DEF T
    <2> QED
      BY <1>4, <2>1, <2>2, BufsSingle
  <1> QED
    BY <1>1, <1>3, <1>4, <1>5 DEF T

-----------------------------------------------------------------------------
(* Writing and closing.                                                    *)
LEMMA BufsLast ==
  ASSUME NEW T, \A t \in T : t.bufs \in Nat, NEW q \in Seq(T), q # <<>>
  PROVE  /\ Front(q) \in Seq(T) /\ Last(q) \in T
         /\ Bufs(q) = Bufs(Front(q)) + Last(q).bufs
  <1> DEFINE L == Len(q)
             s == <<q[L]>>
  <1>1. L \in Nat \ {0} /\ q[L] \in T
    <2>1. L \in Nat \ {0}
      BY EmptySeq
    <2>2. L \in 1..L
      BY <2>1
    <2> QED
      BY <2>1, <2>2, ElementOfSeq
  <1>2. q = Front(q) \o s
    <2>1. 1 \in 1..L /\ L \in 1..L
      BY <1>1
    <2>2. SubSeq(q, 1, L) = SubSeq(q, 1, L - 1) \o s
      BY <2>1, SubSeqRecursiveSecond
    <2>3. SubSeq(q, 1, L) = q
      BY SubSeqFull
    <2> QED
      BY <2>2, <2>3 DEF Front
  <1>3. s \in Seq(T) /\ Bufs(s) = q[L].bufs
    BY <1>1, BufsOne
  <1>4. Front(q) \in Seq(T)
    <2>1. L - 1 \in 0..L
      BY <1>1
    <2> QED
      BY <2>1, BufsSplit DEF Front
  <1> HIDE DEF s
  <1>5. Bufs(Front(q) \o s) = Bufs(Front(q)) + Bufs(s)
    BY <1>3, <1>4, BufsConcat
  <1> QED
    BY <1>1, <1>2, <1>3, <1>4, <1>5 DEF Last

LEMMA BufsSame ==
  ASSUME NEW T, \A t \in T : t.bufs \in Nat, NEW p \in Seq(T), NEW q \in Seq(T),
         Len(q) = Len(p), \A i \in 1..Len(p) : q[i].bufs = p[i].bufs
  PROVE  Bufs(q) = Bufs(p)
  <1>1. PICK h \in [0..Len(p) -> Nat] : Counted(p, h) /\ Bufs(p) = h[Len(p)]
    BY BufsIs
  <1>2. Counted(q, h)
    BY <1>1 DEF Counted
  <1> QED
    BY <1>1, <1>2, BufsOf

(* What is written first fills the last segment, which keeps its place.    *)
LEMMA WriteIs ==
  ASSUME NEW pcb, NEW b, Good(pcb, b, TRUE), NEW data \in Seq(Nat), NEW ok,
         Place(b) + Len(data) <= N
  PROVE  \/ Good(tcp_write(pcb, data, ok), b, TRUE)
         \/ /\ Good(tcp_write(pcb, data, ok), Plus(b, Len(data)), TRUE)
            /\ Place(Plus(b, Len(data))) = Place(b) + Len(data)
  <1> DEFINE n == Len(data)
             c == Plus(b, n)
             T == Segs(b, TRUE)
             U == Segs(c, TRUE)
             chain == pcb.unsent # <<>>
             last  == Last(pcb.unsent)
             used  == IF chain THEN Min({pcb.oversize, n}) ELSE 0
             space == IF chain THEN (MSS - last.len - used) % WORD ELSE 0
             more  == IF chain /\ last.len > 0 THEN Min({space, n - used}) ELSE 0
             x     == IF more > 0 THEN 1 ELSE 0
             pos   == used + more
             segs  == Chop(SubSeq(data, pos + 1, n), Plus(pcb.snd_lbb, pos))
             qlen  == pcb.snd_queuelen + Len(segs) + x
             new   == [last EXCEPT !.len = @ + pos, !.data = @ \o SubSeq(data, 1, pos),
                                   !.bufs = @ + x]
             grown == IF pos = 0 THEN pcb.unsent ELSE Append(Front(pcb.unsent), new)
             over  == IF segs # <<>> THEN MSS - Last(segs).len
                      ELSE IF more > 0 THEN (MSS - more) % WORD
                      ELSE IF chain THEN pcb.oversize - used ELSE 0
             w == [pcb EXCEPT !.unsent = grown \o segs, !.snd_queuelen = qlen,
                            !.snd_lbb = Plus(@, n), !.snd_buf = @ - n, !.oversize = over]
             err == ~tcp_write_checks(pcb, n) \/ ~ok \/ (segs # <<>> /\ qlen > TCP_SND_QUEUELEN)
  <1>1. tcp_write(pcb, data, ok) = IF err THEN [pcb EXCEPT !.memerr = TRUE] ELSE w
    BY DEF tcp_write
  <1>2. CASE err
    <2> DEFINE v == [pcb EXCEPT !.memerr = TRUE]
    <2>1. Fields \subseteq DOMAIN v /\ \A f \in Fields : v[f] = pcb[f]
      BY DEF Good, Fields
    <2> HIDE DEF v
    <2>2. Good(v, b, TRUE)
      BY <2>1, Alike
    <2>3. tcp_write(pcb, data, ok) = v
      BY <1>1, <1>2 DEF v
    <2> QED
      BY <2>2, <2>3
  <1>3. CASE ~err
    <2>1. /\ pcb.unsent \in Seq(T) /\ pcb.unacked \in Seq(T) /\ pcb.oversize \in Nat /\ pcb.snd_lbb = b
          /\ Stands(pcb.lastack, pcb.snd_nxt, b, pcb.snd_buf) /\ Fields \subseteq DOMAIN pcb
          /\ pcb.snd_queuelen = Bufs(pcb.unacked) + Bufs(pcb.unsent)
          /\ pcb.rtime \in BOOLEAN /\ (pcb.unacked # <<>> => pcb.rtime) /\ \A g \in pcb.sent : Packet(g)
      BY DEF Good
    <2>2. /\ n <= pcb.snd_buf /\ pcb.snd_queuelen < TCP_SND_QUEUELEN
          /\ ~(segs # <<>> /\ qlen > TCP_SND_QUEUELEN)
      BY <1>3 DEF tcp_write_checks
    <2>3. /\ n \in Nat /\ b \in Numbers /\ Place(b) \in Nat /\ Place(b) + n <= N /\ N < SEQ
          /\ N \in Nat /\ SEQ \in Nat \ {0} /\ MSS \in Nat \ {0} /\ WORD \in Nat \ {0}
      BY <2>1, Sizes, PlaceIn, LenProperties DEF Stands, Numbers
    <2>4. c \in Numbers /\ Place(c) = Place(b) + n
      <3>1. Place(b) + n < SEQ
        BY <2>3
      <3> HIDE DEF n
      <3> QED
        BY <2>3, <3>1, PlusPlace
    <2>5. T \subseteq U /\ (\A t \in U : t.bufs \in Nat) /\ (\A t \in T : t.bufs \in Nat)
      <3>1. (\A t \in U : t.bufs \in Nat) /\ (\A t \in T : t.bufs \in Nat)
        BY SegsBufs
      <3>2. ASSUME NEW t \in T PROVE t \in U
        <4>1. t.seq \in Numbers /\ t.len \in Nat
          BY DEF Segs, Seg
        <4>2. Place(t.seq) \in Nat
          BY <4>1, PlaceIn DEF Numbers
        <4> HIDE DEF n, c
        <4> QED
          BY <2>3, <2>4, <4>1, <4>2 DEF Segs
      <3> QED
        BY <3>1, <3>2
    <2>6. pcb.unsent \in Seq(U) /\ pcb.unacked \in Seq(U)
      <3> HIDE DEF T, U
      <3> QED
        BY <2>1, <2>5, SeqMonotonic
    <2>7. chain => /\ last \in T /\ last.len \in Nat /\ last.seq \in Numbers
                   /\ Place(last.seq) \in Nat /\ Front(pcb.unsent) \in Seq(U)
                   /\ Bufs(pcb.unsent) = Bufs(Front(pcb.unsent)) + last.bufs
                   /\ Bufs(Front(pcb.unsent)) \in Nat /\ last.bufs \in Nat
      <3> SUFFICES ASSUME chain PROVE /\ last \in T /\ last.len \in Nat /\ last.seq \in Numbers
                   /\ Place(last.seq) \in Nat /\ Front(pcb.unsent) \in Seq(U)
                   /\ Bufs(pcb.unsent) = Bufs(Front(pcb.unsent)) + last.bufs
                   /\ Bufs(Front(pcb.unsent)) \in Nat /\ last.bufs \in Nat
        OBVIOUS
      <3> HIDE DEF T, U
      <3>1. /\ last \in T /\ Bufs(pcb.unsent) = Bufs(Front(pcb.unsent)) + last.bufs
            /\ Front(pcb.unsent) \in Seq(U)
        BY <2>1, <2>5, <2>6, BufsLast
      <3>2. last.seq \in Numbers /\ last.len \in Nat
        BY <3>1 DEF T, Segs, Seg
      <3>3. Place(last.seq) \in Nat
        BY <3>2, PlaceIn DEF Numbers
      <3> QED
        BY <2>5, <3>1, <3>2, <3>3, BufsNat
    <2> HIDE DEF last, n, c, T, U
    <2>8. used \in Nat /\ used <= n /\ (chain => used <= pcb.oversize) /\ (~chain => used = 0)
      <3>1. Min({pcb.oversize, n}) = IF pcb.oversize <= n THEN pcb.oversize ELSE n
        <4>1. pcb.oversize \in Int /\ n \in Int
          BY <2>1, <2>3
        <4> QED
          BY <4>1, MinOfTwo
      <3> QED
        BY <2>1, <2>3, <3>1
    <2> HIDE DEF used
    <2>9. space \in Nat
      <3>1. CASE chain
        <4>1. MSS - last.len - used \in Int
          BY <2>3, <2>7, <2>8, <3>1
        <4> QED
          BY <2>3, <3>1, <4>1
      <3> QED
        BY <3>1
    <2> HIDE DEF space
    <2>10. more \in Nat /\ used + more <= n /\ (~chain => more = 0)
      <3>1. Min({space, n - used}) = IF space <= n - used THEN space ELSE n - used
        BY <2>3, <2>8, <2>9, MinOfTwo
      <3> QED
        BY <2>3, <2>8, <2>9, <3>1
    <2> HIDE DEF more
    <2>11. pos \in Nat /\ pos <= n /\ (pos # 0 => chain) /\ (pos = 0 => x = 0) /\ x \in {0, 1}
      <3> QED
        BY <2>3, <2>8, <2>10
    <2> HIDE DEF pos, x
    <2>12. /\ SubSeq(data, pos + 1, n) \in Seq(Nat) /\ Len(SubSeq(data, pos + 1, n)) = n - pos
           /\ SubSeq(data, 1, pos) \in Seq(Nat)
      <3>1. \A j \in 1..n : data[j] \in Nat
        BY ElementOfSeq DEF n
      <3>2. (\A j \in pos + 1..n : data[j] \in Nat) /\ (\A j \in 1..pos : data[j] \in Nat)
            /\ pos + 1 \in Int /\ n \in Int /\ 1 \in Int /\ pos \in Int
        BY <2>3, <2>11, <3>1
      <3>3. SubSeq(data, pos + 1, n) \in Seq(Nat) /\ SubSeq(data, 1, pos) \in Seq(Nat)
            /\ Len(SubSeq(data, pos + 1, n)) = IF pos + 1 <= n THEN n - (pos + 1) + 1 ELSE 0
        BY <3>2, SubSeqProperties
      <3> QED
        BY <2>3, <2>11, <3>3
    <2>13. /\ segs \in Seq(U) /\ Bufs(segs) = Len(segs) /\ Len(segs) \in Nat
           /\ \A i \in 1..Len(segs) : segs[i].len <= MSS
      <3> DEFINE d == SubSeq(data, pos + 1, n)
                 at == Plus(b, pos)
      <3>1. Place(b) + pos < SEQ
        BY <2>3, <2>11
      <3>2. at \in Numbers /\ Place(at) = Place(b) + pos
        BY <2>3, <2>11, <3>1, PlusPlace
      <3>3. d \in Seq(Nat) /\ Len(d) = n - pos
        BY <2>12
      <3>4. segs = Chop(d, at)
        BY <2>1
      <3> HIDE DEF d, at, segs
      <3>5. Place(at) + Len(d) = Place(c)
        BY <2>3, <2>4, <2>11, <3>2, <3>3
      <3>6. /\ Chop(d, at) \in Seq(Segs(c, TRUE))
            /\ Bufs(Chop(d, at)) = Len(Chop(d, at))
            /\ \A i \in 1..Len(Chop(d, at)) : Chop(d, at)[i].len <= MSS
        BY <2>4, <3>2, <3>3, <3>5, ChopIs
      <3>7. Len(segs) \in Nat
        BY <3>4, <3>6, LenProperties
      <3> QED
        BY <3>4, <3>6, <3>7 DEF U
    <2>14. grown \in Seq(U) /\ Bufs(grown) = Bufs(pcb.unsent) + x
      <3>1. CASE pos = 0
        <4>1. Bufs(pcb.unsent) \in Nat
          BY <2>5, <2>6, BufsNat
        <4> QED
          BY <2>6, <2>11, <3>1, <4>1
      <3>2. CASE pos # 0
        <4>0. chain
          BY <2>11, <3>2
        <4>1. /\ new.seq = last.seq /\ new.len = last.len + pos /\ new.bufs = last.bufs + x
              /\ new \in Seg /\ new.fin = last.fin /\ new.syn = last.syn
          <5>1. last \in Seg
            BY <2>7, <4>0 DEF Segs, T
          <5>2. last.data \o SubSeq(data, 1, pos) \in Seq(Nat)
            <6>1. last.data \in Seq(Nat)
              BY <5>1 DEF Seg
            <6> QED
              BY <6>1, <2>12, ConcatProperties
          <5>3. last.len + pos \in Nat /\ last.bufs + x \in Nat
            BY <2>7, <2>11, <4>0
          <5> DEFINE d == last.data \o SubSeq(data, 1, pos)
          <5>4. new = [last EXCEPT !.len = last.len + pos, !.data = d, !.bufs = last.bufs + x]
            OBVIOUS
          <5> HIDE DEF d, new
          <5> QED
            BY <5>1, <5>2, <5>3, <5>4 DEF Seg, d
        <4>2. ~last.fin /\ ~last.syn /\ Place(last.seq) + last.len <= Place(b)
          BY <2>7, <4>0 DEF Segs, T
        <4>3. new \in U
          <5>1. Place(new.seq) + new.len <= Place(c)
            <6> HIDE DEF new
            <6> QED
              BY <2>3, <2>4, <2>7, <2>11, <4>0, <4>1, <4>2
          <5> HIDE DEF new
          <5> QED
            BY <4>1, <4>2, <5>1 DEF Segs, U
        <4> HIDE DEF new
        <4>4. /\ Append(Front(pcb.unsent), new) \in Seq(U)
              /\ Bufs(Append(Front(pcb.unsent), new)) = Bufs(Front(pcb.unsent)) + new.bufs
          BY <2>5, <2>7, <4>0, <4>3, BufsAppend
        <4> QED
          BY <2>7, <2>11, <3>2, <4>0, <4>1, <4>4
      <3> QED
        BY <3>1, <3>2
    <2> HIDE DEF grown
    <2>15. over \in Nat
      <3>1. CASE segs # <<>>
        <4> HIDE DEF segs
        <4>1. Last(segs) \in U
          BY <2>5, <2>13, <3>1, BufsLast
        <4>2. Len(segs) # 0
          BY <2>13, <3>1, EmptySeq
        <4>3. Last(segs).len <= MSS
          BY <2>13, <4>2 DEF Last
        <4>4. Last(segs).len \in Nat
          BY <4>1 DEF U, Segs, Seg
        <4> QED
          BY <2>3, <3>1, <4>3, <4>4
      <3>2. CASE segs = <<>>
        <4> HIDE DEF segs
        <4>1. (MSS - more) % WORD \in Nat
          BY <2>3, <2>10
        <4>2. chain => pcb.oversize - used \in Nat
          BY <2>1, <2>8
        <4> QED
          BY <3>2, <4>1, <4>2
      <3> QED
        BY <3>1, <3>2
    <2> HIDE DEF over, segs
    <2>16. grown \o segs \in Seq(U) /\ Bufs(grown \o segs) = Bufs(pcb.unsent) + x + Len(segs)
      <3>1. grown \o segs \in Seq(U) /\ Bufs(grown \o segs) = Bufs(grown) + Bufs(segs)
        BY <2>5, <2>13, <2>14, BufsConcat
      <3> QED
        BY <2>13, <2>14, <3>1
    <2>17. Bufs(pcb.unsent) \in Nat /\ Bufs(pcb.unacked) \in Nat
      <3> QED
        BY <2>5, <2>6, BufsNat
    <2>18. qlen <= TCP_SND_QUEUELEN /\ qlen = Bufs(pcb.unacked) + Bufs(grown \o segs)
      <3>1. segs = <<>> => Len(segs) = 0
        BY EmptySeq
      <3>2. qlen = Bufs(pcb.unacked) + Bufs(grown \o segs)
        BY <2>1, <2>11, <2>13, <2>16, <2>17
      <3>3. pcb.snd_queuelen \in Nat /\ TCP_SND_QUEUELEN \in Nat
        BY <2>1, <2>17, Sizes
      <3>4. CASE segs = <<>>
        BY <2>2, <2>11, <3>1, <3>2, <3>3, <3>4
      <3>5. CASE segs # <<>>
        BY <2>2, <2>11, <2>13, <3>2, <3>3, <3>5
      <3> QED
        BY <3>2, <3>4, <3>5
    <2> DEFINE q == grown \o segs
               buf == pcb.snd_buf - n
    <2>19. Stands(pcb.lastack, pcb.snd_nxt, c, buf)
      <3>1. Place(pcb.lastack) \in Nat /\ Place(pcb.snd_nxt) \in Nat
        BY <2>1, PlaceIn DEF Stands, Numbers
      <3>2. /\ pcb.lastack \in Numbers /\ pcb.snd_nxt \in Numbers /\ pcb.snd_buf \in Nat
            /\ Place(pcb.lastack) <= Place(pcb.snd_nxt) /\ Place(pcb.snd_nxt) <= Place(b)
            /\ pcb.snd_buf + Place(b) - Place(pcb.lastack) = TCP_SND_BUF
        BY <2>1 DEF Stands
      <3>3. buf \in Nat
        BY <2>2, <2>3, <3>2
      <3>4. Place(pcb.snd_nxt) <= Place(c) /\ Place(c) <= N
            /\ buf + Place(c) - Place(pcb.lastack) = TCP_SND_BUF
        BY <2>3, <2>4, <3>1, <3>2
      <3> HIDE DEF buf
      <3> QED
        BY <2>4, <3>2, <3>3, <3>4 DEF Stands
    <2>20. w = [pcb EXCEPT !.unsent = q, !.snd_queuelen = qlen, !.snd_lbb = c, !.snd_buf = buf,
                         !.oversize = over]
      BY <2>1 DEF c
    <2> HIDE DEF w, q, buf, qlen
    <2>21. /\ w.unsent = q /\ w.snd_queuelen = qlen /\ w.snd_lbb = c /\ w.snd_buf = buf
           /\ w.oversize = over /\ w.lastack = pcb.lastack /\ w.snd_nxt = pcb.snd_nxt
           /\ w.unacked = pcb.unacked /\ w.rtime = pcb.rtime /\ w.sent = pcb.sent
           /\ Fields \subseteq DOMAIN w
      BY <2>1, <2>20 DEF Fields
    <2>22. Good(w, c, TRUE)
      BY <2>1, <2>6, <2>15, <2>16, <2>18, <2>19, <2>21 DEF Good, q, U
    <2> QED
      BY <1>1, <1>3, <2>4, <2>22 DEF c, n
  <1> QED
    BY <1>2, <1>3

(* When a FIN is queued, the application has closed; otherwise the pcb is  *)
(* what it was.                                                            *)
LEMMA SegsClosed == ASSUME NEW b PROVE Segs(b, FALSE) = Seg
  BY DEF Segs

LEMMA SegsAll == ASSUME NEW b, NEW open PROVE Segs(b, open) \subseteq Seg
  BY DEF Segs

LEMMA FinIs ==
  ASSUME NEW pcb, NEW b, Good(pcb, b, TRUE), NEW ok
  PROVE  IF FinQueued(pcb, ok) THEN Good(tcp_send_fin(pcb, ok), tcp_send_fin(pcb, ok).snd_lbb, FALSE)
                             ELSE Good(tcp_send_fin(pcb, ok), b, TRUE)
  <1> DEFINE T == Segs(b, TRUE)
  <1>1. /\ pcb.unsent \in Seq(T) /\ pcb.unacked \in Seq(T) /\ pcb.oversize \in Nat /\ pcb.snd_lbb = b
        /\ Stands(pcb.lastack, pcb.snd_nxt, b, pcb.snd_buf) /\ Fields \subseteq DOMAIN pcb
        /\ pcb.snd_queuelen = Bufs(pcb.unacked) + Bufs(pcb.unsent) /\ pcb.snd_queuelen <= TCP_SND_QUEUELEN
        /\ pcb.rtime \in BOOLEAN /\ (pcb.unacked # <<>> => pcb.rtime) /\ \A g \in pcb.sent : Packet(g)
    BY DEF Good
  <1>2. T \subseteq Seg /\ (\A t \in Seg : t.bufs \in Nat)
    BY SegsAll DEF Seg
  <1> HIDE DEF T
  <1>3. pcb.unsent \in Seq(Seg) /\ pcb.unacked \in Seq(Seg)
    BY <1>1, <1>2, SeqMonotonic
  <1>4. Bufs(pcb.unsent) \in Nat /\ Bufs(pcb.unacked) \in Nat
    BY <1>2, <1>3, BufsNat
  <1>5. CASE Carries(pcb)
    <2> DEFINE L == Len(pcb.unsent)
               e == [pcb.unsent[L] EXCEPT !.fin = TRUE]
               q == [pcb.unsent EXCEPT ![L] = e]
               w == [pcb EXCEPT !.unsent = q]
    <2>1. tcp_send_fin(pcb, ok) = w
      BY <1>5 DEF tcp_send_fin
    <2>2. FinQueued(pcb, ok)
      BY <1>5 DEF FinQueued
    <2>3. L \in 1..L /\ pcb.unsent[L] \in Seg
      <3>1. L \in Nat \ {0}
        BY <1>3, <1>5, EmptySeq DEF Carries
      <3>2. L \in 1..L
        BY <3>1
      <3> QED
        BY <1>3, <3>2, ElementOfSeq
    <2>4. e \in Seg /\ e.bufs = pcb.unsent[L].bufs
      <3> DEFINE g == pcb.unsent[L]
      <3>1. g \in Seg /\ e = [g EXCEPT !.fin = TRUE]
        BY <2>3
      <3> HIDE DEF g, e
      <3> QED
        BY <3>1 DEF Seg, g
    <2> HIDE DEF e
    <2>5. q \in Seq(Seg) /\ Len(q) = L /\ \A i \in 1..L : q[i] = IF i = L THEN e ELSE pcb.unsent[i]
      BY <1>3, <2>3, <2>4, ExceptSeq
    <2> HIDE DEF q
    <2>6. Bufs(q) = Bufs(pcb.unsent)
      <3>1. \A i \in 1..L : q[i].bufs = pcb.unsent[i].bufs
        BY <2>4, <2>5
      <3> QED
        BY <1>2, <1>3, <2>5, <3>1, BufsSame
    <2>7. /\ w.unsent = q /\ w.snd_queuelen = pcb.snd_queuelen /\ w.unacked = pcb.unacked
          /\ w.oversize = pcb.oversize /\ w.rtime = pcb.rtime /\ w.sent = pcb.sent
          /\ Fields \subseteq DOMAIN w
      BY <1>1 DEF Fields
    <2> HIDE DEF w
    <2>8. Good(w, w.snd_lbb, FALSE)
      BY <1>1, <1>3, <2>5, <2>6, <2>7, SegsClosed DEF Good
    <2> QED
      BY <2>1, <2>2, <2>8
  <1>6. CASE ~Carries(pcb)
    <2> DEFINE u == tcp_send_fin(pcb, ok)
    <2>1. u = tcp_enqueue_flags(pcb, FALSE, TRUE, ok)
      BY <1>6 DEF tcp_send_fin
    <2>2. FinQueued(pcb, ok) <=> u.snd_lbb # b
      BY <1>1, <1>6 DEF FinQueued
    <2> HIDE DEF u
    <2>3. CASE pcb.snd_queuelen >= TCP_SND_QUEUELEN \/ ~ok
      <3> DEFINE v == [pcb EXCEPT !.memerr = TRUE]
      <3>1. Fields \subseteq DOMAIN v /\ \A f \in Fields : v[f] = pcb[f]
        BY <1>1 DEF Fields
      <3>2. u = v
        BY <2>1, <2>3 DEF tcp_enqueue_flags
      <3> HIDE DEF v
      <3>3. Good(u, b, TRUE)
        BY <3>1, <3>2, Alike
      <3>4. u.snd_lbb = b
        BY <3>3 DEF Good
      <3> QED
        BY <2>2, <3>3, <3>4 DEF u
    <2>4. CASE ~(pcb.snd_queuelen >= TCP_SND_QUEUELEN \/ ~ok) /\ pcb.snd_buf = 0
      <3>1. u = pcb
        BY <2>1, <2>4 DEF tcp_enqueue_flags
      <3> QED
        BY <1>1, <2>2, <3>1 DEF u
    <2>5. CASE ~(pcb.snd_queuelen >= TCP_SND_QUEUELEN \/ ~ok) /\ pcb.snd_buf # 0
      <3> DEFINE g == [seq |-> b, len |-> 0, data |-> <<>>, fin |-> TRUE, syn |-> FALSE, bufs |-> 1]
                 q == Append(pcb.unsent, g)
      <3>1. g \in Seg /\ g.bufs = 1
        <4>1. b \in Numbers /\ <<>> \in Seq(Nat)
          BY <1>1 DEF Stands
        <4> QED
          BY <4>1 DEF Seg
      <3> HIDE DEF g
      <3>2. q \in Seq(Seg) /\ Bufs(q) = Bufs(pcb.unsent) + 1
        BY <1>2, <1>3, <3>1, BufsAppend
      <3>3. u = [pcb EXCEPT !.unsent = q, !.oversize = 0, !.snd_lbb = Plus(b, 1), !.snd_buf = @ - 1,
                          !.snd_queuelen = @ + 1, !.fin = @ \/ TRUE]
        BY <1>1, <2>1, <2>5 DEF tcp_enqueue_flags, g
      <3> HIDE DEF q
      <3>4. /\ u.unsent = q /\ u.snd_queuelen = pcb.snd_queuelen + 1 /\ u.unacked = pcb.unacked
            /\ u.oversize = 0 /\ u.rtime = pcb.rtime /\ u.sent = pcb.sent
            /\ u.snd_lbb = Plus(b, 1) /\ Fields \subseteq DOMAIN u
        BY <1>1, <3>3 DEF Fields
      <3>5. u.snd_queuelen = Bufs(u.unacked) + Bufs(u.unsent) /\ u.snd_queuelen <= TCP_SND_QUEUELEN
        BY <1>1, <1>4, <2>5, <3>2, <3>4, Sizes
      <3>6. Good(u, u.snd_lbb, FALSE)
        <4>1. u.unsent \in Seq(Seg) /\ u.unacked \in Seq(Seg) /\ 0 \in Nat
          BY <1>3, <3>2, <3>4
        <4>2. /\ u.rtime \in BOOLEAN /\ (u.unacked # <<>> => u.rtime) /\ u.oversize \in Nat
              /\ \A h \in u.sent : Packet(h)
          BY <1>1, <3>4
        <4>3. Segs(u.snd_lbb, FALSE) = Seg
          BY SegsClosed
        <4> QED
          BY <3>4, <3>5, <4>1, <4>2, <4>3 DEF Good
      <3>7. Plus(b, 1) # b
        <4>1. b \in Numbers /\ Place(b) + 1 < SEQ
          <5>1. b \in Numbers /\ Place(b) <= N
            BY <1>1 DEF Stands
          <5>2. Place(b) \in Nat
            BY <5>1, PlaceIn DEF Numbers
          <5> QED
            BY <5>1, <5>2, Sizes
        <4>2. Place(Plus(b, 1)) = Place(b) + 1
          BY <4>1, PlusPlace
        <4>3. Place(b) \in Nat
          BY <4>1, PlaceIn DEF Numbers
        <4> QED
          BY <4>2, <4>3
      <3> QED
        BY <2>2, <3>4, <3>6, <3>7 DEF u
    <2> QED
      BY <2>3, <2>4, <2>5
  <1> QED
    BY <1>5, <1>6

-----------------------------------------------------------------------------
(* What goes out moves from one queue to the other and starts the timer.   *)
LEMMA TransmitIs ==
  ASSUME NEW pcb, NEW b, NEW open \in BOOLEAN, Good(pcb, b, open), pcb.unsent # <<>>,
         NEW g, g = Head(pcb.unsent)
  PROVE  Good(Transmit(pcb, g), b, open)
  <1> DEFINE T == Segs(b, open)
             end == Plus(g.seq, TCPLEN(g))
             p == Tail(pcb.unsent)
             q == InsertBySeq(pcb.unacked, g)
             nxt == IF LT(pcb.snd_nxt, end) THEN end ELSE pcb.snd_nxt
             w == [pcb EXCEPT !.unsent = p, !.unacked = q,
                            !.ack = IF pcb.state = "SYN_SENT" THEN @ ELSE "no",
                            !.edge = Plus(pcb.rcv_nxt, pcb.ann_wnd), !.rtime = @ \/ TRUE,
                            !.snd_nxt = nxt, !.sent = @ \cup {g}]
  <1>1. /\ pcb.unsent \in Seq(T) /\ pcb.unacked \in Seq(T) /\ pcb.oversize \in Nat /\ pcb.snd_lbb = b
        /\ (open => Stands(pcb.lastack, pcb.snd_nxt, b, pcb.snd_buf)) /\ Fields \subseteq DOMAIN pcb
        /\ pcb.snd_queuelen = Bufs(pcb.unacked) + Bufs(pcb.unsent) /\ pcb.snd_queuelen <= TCP_SND_QUEUELEN
        /\ pcb.rtime \in BOOLEAN /\ \A h \in pcb.sent : Packet(h)
    BY DEF Good
  <1>2. \A t \in T : t.bufs \in Nat
    BY SegsBufs
  <1>3. Transmit(pcb, g) = w
    BY DEF Transmit, TransmitThen
  <1> HIDE DEF T
  <1>4. g \in T /\ p \in Seq(T) /\ Bufs(pcb.unsent) = g.bufs + Bufs(p)
    BY <1>1, <1>2, BufsTail
  <1>5. q \in Seq(T) /\ Bufs(q) = Bufs(pcb.unacked) + g.bufs
    BY <1>1, <1>2, <1>4, BufsInsert
  <1>6. Bufs(p) \in Nat /\ Bufs(pcb.unacked) \in Nat /\ g.bufs \in Nat
    BY <1>1, <1>2, <1>4, BufsNat
  <1>7. Packet(g)
    BY <1>4, SegsPacket DEF T
  <1>8. open => Stands(pcb.lastack, nxt, b, pcb.snd_buf)
    <2> SUFFICES ASSUME open PROVE Stands(pcb.lastack, nxt, b, pcb.snd_buf)
      OBVIOUS
    <2>1. /\ g.seq \in Numbers /\ g.len \in Nat /\ ~g.fin /\ ~g.syn
          /\ Place(g.seq) + g.len <= Place(b)
      BY <1>4 DEF T, Segs, Seg
    <2>2. TCPLEN(g) = g.len
      BY <2>1 DEF TCPLEN
    <2>3. Stands(pcb.lastack, pcb.snd_nxt, b, pcb.snd_buf)
      BY <1>1
    <2>4. Place(g.seq) \in Nat /\ Place(b) \in Nat /\ Place(b) < SEQ
      <3>1. b \in Numbers /\ Place(b) <= N
        BY <2>3 DEF Stands
      <3>2. Place(g.seq) \in Nat /\ Place(b) \in Nat
        BY <2>1, <3>1, PlaceIn DEF Numbers
      <3> QED
        BY <3>1, <3>2, Sizes
    <2>5. end \in Numbers /\ Place(end) = Place(g.seq) + g.len
      <3>1. Place(g.seq) + g.len < SEQ
        BY <2>1, <2>4, Sizes
      <3> QED
        BY <2>1, <2>2, <3>1, PlusPlace
    <2> HIDE DEF end
    <2>6. Place(end) <= Place(b)
      BY <2>1, <2>5
    <2>7. CASE LT(pcb.snd_nxt, end)
      <3>1. pcb.snd_nxt \in Numbers /\ Place(pcb.snd_nxt) <= N /\ Place(end) <= N
        <4>1. /\ pcb.snd_nxt \in Numbers /\ Place(pcb.snd_nxt) <= Place(b) /\ Place(b) <= N
              /\ N \in Nat
          BY <2>3, Sizes DEF Stands
        <4>2. Place(pcb.snd_nxt) \in Nat /\ Place(end) \in Nat
          BY <2>5, <4>1, PlaceIn DEF Numbers
        <4> QED
          BY <2>4, <2>6, <4>1, <4>2
      <3>2. Place(pcb.snd_nxt) < Place(end)
        BY <2>5, <2>7, <3>1, PlacesCompared
      <3>3. Place(pcb.lastack) <= Place(end)
        <4>1. pcb.lastack \in Numbers /\ Place(pcb.lastack) <= Place(pcb.snd_nxt)
          BY <2>3 DEF Stands
        <4>2. Place(pcb.lastack) \in Nat /\ Place(pcb.snd_nxt) \in Nat /\ Place(end) \in Nat
          BY <2>5, <3>1, <4>1, PlaceIn DEF Numbers
        <4> QED
          BY <3>2, <4>1, <4>2
      <3> QED
        BY <2>3, <2>5, <2>6, <2>7, <3>3 DEF Stands
    <2>8. CASE ~LT(pcb.snd_nxt, end)
      BY <2>3, <2>8
    <2> QED
      BY <2>7, <2>8
  <1> HIDE DEF p, q, nxt
  <1>9. /\ w.unsent = p /\ w.unacked = q /\ w.rtime = (pcb.rtime \/ TRUE) /\ w.snd_nxt = nxt
        /\ w.sent = pcb.sent \cup {g} /\ w.oversize = pcb.oversize /\ w.snd_lbb = pcb.snd_lbb
        /\ w.lastack = pcb.lastack /\ w.snd_buf = pcb.snd_buf /\ w.snd_queuelen = pcb.snd_queuelen
        /\ Fields \subseteq DOMAIN w
    BY <1>1 DEF Fields
  <1> HIDE DEF w
  <1>10. w.rtime = TRUE
    BY <1>1, <1>9
  <1>11. w.snd_queuelen = Bufs(w.unacked) + Bufs(w.unsent)
    BY <1>1, <1>4, <1>5, <1>6, <1>9
  <1>12. \A h \in w.sent : Packet(h)
    BY <1>1, <1>7, <1>9
  <1>13. w.unsent \in Seq(Segs(b, open)) /\ w.unacked \in Seq(Segs(b, open))
    BY <1>4, <1>5, <1>9 DEF T
  <1>14. open => Stands(w.lastack, w.snd_nxt, b, w.snd_buf)
    BY <1>8, <1>9
  <1> QED
    BY <1>1, <1>3, <1>9, <1>10, <1>11, <1>12, <1>13, <1>14 DEF Good

(* One round of the loop of tcp_output, and all of them.                   *)
OneSent(u, g, held) == IF Sends(u, g, held) THEN Transmit(u, g) ELSE u

LEMMA OutputsIs ==
  ASSUME NEW pcb, NEW held, Len(pcb.unsent) \in Nat
  PROVE  \E f : /\ f[0] = pcb /\ Outputs(pcb, held) = f[Len(pcb.unsent)]
               /\ \A n \in Nat : n < Len(pcb.unsent) => f[n + 1] = OneSent(f[n], pcb.unsent[n + 1], held)
  <1> DEFINE L == Len(pcb.unsent)
             Step(g, k) == OneSent(g[k - 1], pcb.unsent[k], held)
             Next1(g, n) == [k \in 0..n |-> IF k = 0 THEN pcb ELSE Step(g, k)]
             S == {n \in 0..L : \E g : g = Next1(g, n)}
             f == CHOOSE f : f = Next1(f, L)
  <1>0. L \in Nat
    OBVIOUS
  <1>1. Outputs(pcb, held) = f[L]
    BY DEF Outputs, OneSent
  <1> HIDE DEF L
  <1>2. \E g : g = Next1(g, L)
    <2>1. 0 \in S
      <3> DEFINE g == [k \in 0..0 |-> pcb]
      <3>1. g = Next1(g, 0)
        <4> HIDE DEF Step
        <4> QED
          OBVIOUS
      <3> HIDE DEF Next1
      <3> QED
        BY <3>1, <1>0
    <2>2. ASSUME NEW n \in Nat, n < L, n \in S
          PROVE  n + 1 \in S
      <3>1. PICK g : g = Next1(g, n)
        BY <2>2
      <3> DEFINE h == [k \in 0..(n + 1) |-> IF k <= n THEN g[k] ELSE Step(g, k)]
      <3>2. ASSUME NEW k \in 0..(n + 1)
            PROVE  h[k] = IF k = 0 THEN pcb ELSE Step(h, k)
        <4>1. CASE k = 0
          <5>1. h[k] = g[0] /\ g[0] = pcb
            <6> HIDE DEF Step
            <6> QED
              BY <4>1, <3>1, <2>2
          <5> QED
            BY <5>1, <4>1
        <4>2. CASE k # 0
          <5>1. k - 1 \in 0..(n + 1) /\ k - 1 <= n
            BY <4>2, <2>2
          <5>2. h[k - 1] = g[k - 1]
            <6> HIDE DEF Step
            <6> QED
              BY <5>1
          <5>3. h[k] = Step(g, k)
            <6> HIDE DEF Step
            <6>1. CASE k <= n
              <7>1. k \in 0..n
                BY <6>1, <2>2
              <7> QED
                BY <7>1, <6>1, <4>2, <3>1
            <6>2. CASE ~(k <= n)
              BY <6>2
            <6> QED
              BY <6>1, <6>2
          <5> HIDE DEF h
          <5> QED
            BY <5>2, <5>3, <4>2
        <4> QED
          BY <4>1, <4>2
      <3>3. h = Next1(h, n + 1)
        <4>1. h = [k \in 0..(n + 1) |-> h[k]]
          <5> HIDE DEF Step
          <5> QED
            OBVIOUS
        <4> HIDE DEF h, Step
        <4> QED
          BY <3>2, <4>1
      <3>4. n + 1 \in 0..L
        BY <2>2, <1>0
      <3> HIDE DEF Next1, h
      <3> QED
        BY <3>3, <3>4
    <2>3. L \in S
      <3> HIDE DEF S
      <3>1. \A n \in 0..L : n \in S
        BY <2>1, <2>2, <1>0, UpTo
      <3>2. L \in 0..L
        BY <1>0
      <3> QED
        BY <3>1, <3>2
    <2> QED
      BY <2>3
  <1>3. f = Next1(f, L)
    <2> HIDE DEF Next1
    <2> QED
      BY <1>2
  <1> HIDE DEF f
  <1>5. f[0] = pcb
    <2> HIDE DEF Step
    <2> QED
      BY <1>3, <1>0
  <1>6. ASSUME NEW n \in Nat, n < L
        PROVE  f[n + 1] = OneSent(f[n], pcb.unsent[n + 1], held)
    <2>1. n + 1 \in 0..L /\ n + 1 # 0 /\ (n + 1) - 1 = n
      BY <1>6, <1>0
    <2>2. f[n + 1] = Step(f, n + 1)
      <3> HIDE DEF Step
      <3> QED
        BY <2>1, <1>3
    <2> QED
      BY <2>1, <2>2
  <1> QED
    BY <1>1, <1>5, <1>6 DEF L

LEMMA OutputGood ==
  ASSUME NEW pcb, NEW b, NEW open \in BOOLEAN, Good(pcb, b, open), NEW held, NEW starts \in BOOLEAN
  PROVE  Good(Output(starts, pcb, held), b, open)
  <1>1. Len(pcb.unsent) \in Nat
    BY LenProperties DEF Good
  <1>2. PICK f : /\ f[0] = pcb /\ Outputs(pcb, held) = f[Len(pcb.unsent)]
                 /\ \A n \in Nat : n < Len(pcb.unsent) => f[n + 1] = OneSent(f[n], pcb.unsent[n + 1], held)
    BY <1>1, OutputsIs
  <1> DEFINE L == Len(pcb.unsent)
             S == {n \in 0..L : Good(f[n], b, open)}
  <1>3. 0 \in S
    BY <1>1, <1>2
  <1>4. ASSUME NEW n \in Nat, n < L, n \in S PROVE n + 1 \in S
    <2> DEFINE u == f[n]
               g == pcb.unsent[n + 1]
    <2>1. Good(u, b, open) /\ f[n + 1] = OneSent(u, g, held) /\ n + 1 \in 0..L
      BY <1>1, <1>2, <1>4
    <2> HIDE DEF u, g
    <2>2. CASE Sends(u, g, held)
      <3>1. u.unsent # <<>> /\ g = Head(u.unsent)
        BY <2>2 DEF Sends
      <3>2. Good(Transmit(u, g), b, open)
        BY <2>1, <3>1, TransmitIs
      <3> QED
        BY <2>1, <2>2, <3>2 DEF OneSent
    <2>3. CASE ~Sends(u, g, held)
      BY <2>1, <2>3 DEF OneSent
    <2> QED
      BY <2>2, <2>3
  <1>5. L \in S
    <2> HIDE DEF S, L
    <2>1. L \in Nat
      BY <1>1 DEF L
    <2>2. \A n \in 0..L : n \in S
      BY <2>1, <1>3, <1>4, UpTo
    <2> QED
      BY <2>1, <2>2
  <1> DEFINE u == Outputs(pcb, held)
             w == AfterOutput(starts, u)
             v == SendAck(pcb)
  <1>6. Good(u, b, open)
    BY <1>2, <1>5
  <1>7. Output(starts, pcb, held) \in {w, v}
    BY DEF Output
  <1> HIDE DEF u
  <1>8. Good(w, b, open)
    <2> DEFINE y == [u EXCEPT !.oversize = IF u.unsent = <<>> THEN 0 ELSE @]
    <2>1. Fields \subseteq DOMAIN u /\ u.oversize \in Nat
      BY <1>6 DEF Good
    <2>2. /\ Fields \subseteq DOMAIN y /\ (\A f1 \in Fields \ {"oversize"} : y[f1] = u[f1])
          /\ y.oversize \in Nat
      BY <2>1 DEF Fields
    <2> HIDE DEF y
    <2>3. /\ y.snd_nxt = u.snd_nxt /\ y.lastack = u.lastack /\ y.snd_lbb = u.snd_lbb
          /\ y.snd_buf = u.snd_buf /\ y.snd_queuelen = u.snd_queuelen /\ y.unsent = u.unsent
          /\ y.unacked = u.unacked /\ y.rtime = u.rtime /\ y.sent = u.sent
      BY <2>2 DEF Fields
    <2>4. Good(y, b, open)
      BY <1>6, <2>2, <2>3 DEF Good
    <2>5. Fields \subseteq DOMAIN w /\ \A f1 \in Fields : w[f1] = y[f1]
      BY <2>1 DEF AfterOutput, Fields, y
    <2> HIDE DEF w
    <2> QED
      BY <2>4, <2>5, Alike
  <1>9. Good(v, b, open)
    <2>1. Fields \subseteq DOMAIN v /\ \A f1 \in Fields : v[f1] = pcb[f1]
      BY DEF SendAck, Good, Fields
    <2> HIDE DEF v
    <2> QED
      BY <2>1, Alike
  <1> HIDE DEF w, v
  <1> QED
    BY <1>7, <1>8, <1>9

-----------------------------------------------------------------------------
(* Sending again.                                                          *)
LEMMA RexmitGood ==
  ASSUME NEW pcb, NEW b, NEW open, Good(pcb, b, open)
  PROVE  Good(tcp_rexmit(pcb), b, open)
  <1>1. CASE pcb.unacked = <<>>
    BY <1>1 DEF tcp_rexmit
  <1>2. CASE pcb.unacked # <<>>
    <2> DEFINE T == Segs(b, open)
               g == Head(pcb.unacked)
               p == InsertBySeq(pcb.unsent, g)
               q == Tail(pcb.unacked)
               w == [pcb EXCEPT !.unacked = q, !.unsent = p, !.nrtx = (@ + 1) % BYTE]
    <2>1. /\ pcb.unsent \in Seq(T) /\ pcb.unacked \in Seq(T) /\ Fields \subseteq DOMAIN pcb
          /\ pcb.snd_queuelen = Bufs(pcb.unacked) + Bufs(pcb.unsent) /\ pcb.rtime
      BY <1>2 DEF Good
    <2>2. \A t \in T : t.bufs \in Nat
      BY SegsBufs
    <2>3. tcp_rexmit(pcb) = w
      BY <1>2 DEF tcp_rexmit
    <2> HIDE DEF T
    <2>4. g \in T /\ q \in Seq(T) /\ Bufs(pcb.unacked) = g.bufs + Bufs(q)
      BY <1>2, <2>1, <2>2, BufsTail
    <2>5. p \in Seq(T) /\ Bufs(p) = Bufs(pcb.unsent) + g.bufs
      BY <2>1, <2>2, <2>4, BufsInsert
    <2>6. Bufs(q) \in Nat /\ Bufs(pcb.unsent) \in Nat /\ g.bufs \in Nat
      BY <2>1, <2>2, <2>4, BufsNat
    <2> HIDE DEF p, q
    <2>7. /\ w.unsent = p /\ w.unacked = q /\ w.rtime = pcb.rtime /\ w.snd_nxt = pcb.snd_nxt
          /\ w.sent = pcb.sent /\ w.oversize = pcb.oversize /\ w.snd_lbb = pcb.snd_lbb
          /\ w.lastack = pcb.lastack /\ w.snd_buf = pcb.snd_buf /\ w.snd_queuelen = pcb.snd_queuelen
          /\ Fields \subseteq DOMAIN w
      BY <2>1 DEF Fields
    <2> HIDE DEF w
    <2>8. w.snd_queuelen = Bufs(w.unacked) + Bufs(w.unsent)
      BY <2>1, <2>4, <2>5, <2>6, <2>7
    <2>9. w.unsent \in Seq(Segs(b, open)) /\ w.unacked \in Seq(Segs(b, open))
      BY <2>4, <2>5, <2>7 DEF T
    <2> QED
      BY <2>1, <2>3, <2>7, <2>8, <2>9 DEF Good
  <1> QED
    BY <1>1, <1>2

LEMMA RexmitFastGood ==
  ASSUME NEW pcb, NEW b, NEW open, Good(pcb, b, open)
  PROVE  Good(tcp_rexmit_fast(pcb), b, open)
  <1> DEFINE u == tcp_rexmit(pcb)
             w == tcp_rexmit_fast(pcb)
  <1>1. Good(u, b, open)
    BY RexmitGood
  <1>2. CASE pcb.unacked = <<>> \/ pcb.infr
    BY <1>2 DEF tcp_rexmit_fast
  <1>3. CASE ~(pcb.unacked = <<>> \/ pcb.infr)
    <2> DEFINE half == Ssthresh(Min({pcb.cwnd, pcb.snd_wnd}) \div 2)
    <2>1. w = [u EXCEPT !.ssthresh = half, !.cwnd = (half + 3 * MSS) % WORD, !.infr = TRUE]
      BY <1>3 DEF tcp_rexmit_fast
    <2> HIDE DEF w, u, half
    <2>2. Fields \subseteq DOMAIN w /\ \A f \in Fields : w[f] = u[f]
      BY <1>1, <2>1 DEF Good, Fields
    <2>3. Good(w, b, open)
      BY <1>1, <2>2, Alike
    <2> QED
      BY <2>3 DEF w
  <1> QED
    BY <1>2, <1>3

(* Every segment is in one of the parts, once.                             *)
LEMMA PartedIs ==
  ASSUME NEW T, \A t \in T : t.bufs \in Nat, NEW q \in Seq(T), NEW held
  PROVE  /\ Parted(q, held).again \in Seq(T) /\ Parted(q, held).kept \in Seq(T)
         /\ Bufs(Parted(q, held).again) + Bufs(Parted(q, held).kept) = Bufs(q)
  <1> DEFINE X == [again : Seq(T), kept : Seq(T)]
             L == Len(q)
             x0 == [again |-> <<>>, kept |-> <<>>]
             St(k, x) == IF q[k].seq \in held THEN [x EXCEPT !.kept = Append(@, q[k])]
                                              ELSE [x EXCEPT !.again = Append(@, q[k])]
             F == [k \in 1..L |-> [x \in X |-> St(k, x)]]
             Fix(f) == [k \in 0..L |-> IF k = 0 THEN x0 ELSE St(k, f[k - 1])]
             h == CHOOSE f : f = Fix(f)
             Sum(x) == Bufs(x.again) + Bufs(x.kept)
  <1>1. L \in Nat /\ x0 \in X /\ Sum(x0) = 0
    BY LenProperties, EmptySeq, BufsEmpty
  <1>2. ASSUME NEW k \in 1..L, NEW x \in X
        PROVE  St(k, x) \in X /\ Sum(St(k, x)) = Sum(x) + q[k].bufs /\ Sum(x) \in Nat
    <2>1. q[k] \in T /\ q[k].bufs \in Nat
      BY ElementOfSeq
    <2>2. x.again \in Seq(T) /\ x.kept \in Seq(T)
      OBVIOUS
    <2>3. Bufs(x.again) \in Nat /\ Bufs(x.kept) \in Nat
      BY <2>2, BufsNat
    <2>4. Append(x.kept, q[k]) \in Seq(T) /\ Bufs(Append(x.kept, q[k])) = Bufs(x.kept) + q[k].bufs
      BY <2>1, <2>2, BufsAppend
    <2>5. Append(x.again, q[k]) \in Seq(T) /\ Bufs(Append(x.again, q[k])) = Bufs(x.again) + q[k].bufs
      BY <2>1, <2>2, BufsAppend
    <2>6. CASE q[k].seq \in held
      <3>1. St(k, x) \in X /\ St(k, x).again = x.again /\ St(k, x).kept = Append(x.kept, q[k])
        BY <2>4, <2>6
      <3> HIDE DEF St
      <3> QED
        BY <2>1, <2>3, <2>4, <3>1
    <2>7. CASE ~(q[k].seq \in held)
      <3>1. St(k, x) \in X /\ St(k, x).kept = x.kept /\ St(k, x).again = Append(x.again, q[k])
        BY <2>5, <2>7
      <3> HIDE DEF St
      <3> QED
        BY <2>1, <2>3, <2>5, <3>1
    <2> QED
      BY <2>6, <2>7
  <1>8. Parted(q, held) = h[L]
    BY DEF Parted
  <1> HIDE DEF X, L, x0, St, F, Sum
  <1>4. F \in [1..L -> [X -> X]] /\ \A k \in 1..L, x \in X : F[k][x] = St(k, x)
    BY <1>2 DEF F
  <1>5. PICK g : Loop(g, L, X, x0, F)
    BY <1>1, <1>4, LoopExists
  <1>6. \A k \in 0..L : g[k] = IF k = 0 THEN x0 ELSE St(k, g[k - 1])
    <2>1. ASSUME NEW k \in 0..L, k # 0 PROVE g[k] = St(k, g[k - 1])
      <3>1. k \in 1..L /\ k - 1 \in 0..L
        BY <1>1, <2>1
      <3> QED
        BY <3>1, <1>4, <1>5 DEF Loop
    <2> QED
      BY <2>1, <1>5 DEF Loop
  <1>7. h = Fix(h)
    <2>1. g = Fix(g)
      BY <1>5, <1>6 DEF Loop
    <2> HIDE DEF Fix
    <2> QED
      BY <2>1
  <1> HIDE DEF h
  <1>9. h[0] = x0 /\ \A k \in 1..L : h[k] = St(k, h[k - 1])
    <2>1. \A k \in 0..L : h[k] = IF k = 0 THEN x0 ELSE St(k, h[k - 1])
      BY <1>7, Zenon
    <2>3. 0 \in 0..L /\ \A k \in 1..L : k \in 0..L /\ k # 0
      BY <1>1
    <2> QED
      BY <2>1, <2>3, Zenon
  <1>10. PICK c \in [0..L -> Nat] : Counted(q, c) /\ Bufs(q) = c[L]
    BY BufsIs DEF L
  <1> DEFINE S == {n \in 0..L : h[n] \in X /\ Sum(h[n]) = c[n]}
  <1>11. 0 \in S
    BY <1>1, <1>9, <1>10 DEF Counted
  <1>12. ASSUME NEW n \in Nat, n < L, n \in S PROVE n + 1 \in S
    <2>1. n + 1 \in 1..L /\ (n + 1) - 1 = n /\ n + 1 \in 0..L /\ h[n] \in X /\ Sum(h[n]) = c[n]
      BY <1>1, <1>12
    <2>2. h[n + 1] = St(n + 1, h[n]) /\ c[n + 1] = c[n] + q[n + 1].bufs
      BY <1>9, <1>10, <2>1 DEF Counted, L
    <2>3. St(n + 1, h[n]) \in X /\ Sum(St(n + 1, h[n])) = Sum(h[n]) + q[n + 1].bufs
      BY <1>2, <2>1
    <2> QED
      BY <2>1, <2>2, <2>3
  <1>13. L \in S
    <2> HIDE DEF S
    <2>1. \A n \in 0..L : n \in S
      BY <1>1, <1>11, <1>12, UpTo
    <2> QED
      BY <1>1, <2>1
  <1> QED
    BY <1>8, <1>10, <1>13 DEF X, Sum

LEMMA RtoGood ==
  ASSUME NEW pcb, NEW b, NEW open \in BOOLEAN, Good(pcb, b, open), NEW held
  PROVE  Good(tcp_rexmit_rto(pcb, held), b, open)
  <1>1. CASE pcb.unacked = <<>>
    BY <1>1 DEF tcp_rexmit_rto, RexmitRto
  <1>2. CASE pcb.unacked # <<>>
    <2> DEFINE T == Segs(b, open)
               again == Parted(pcb.unacked, held).again
               kept == Parted(pcb.unacked, held).kept
               p == again \o pcb.unsent
               w == [pcb EXCEPT !.unsent = p, !.nrtx = (@ + 1) % BYTE, !.unacked = kept]
    <2>1. /\ pcb.unsent \in Seq(T) /\ pcb.unacked \in Seq(T) /\ Fields \subseteq DOMAIN pcb
          /\ pcb.snd_queuelen = Bufs(pcb.unacked) + Bufs(pcb.unsent) /\ pcb.rtime
      BY <1>2 DEF Good
    <2>2. \A t \in T : t.bufs \in Nat
      BY SegsBufs
    <2>3. tcp_rexmit_rto(pcb, held) = tcp_output(w, held)
      BY <1>2 DEF tcp_rexmit_rto, RexmitRto
    <2> HIDE DEF T
    <2>4. again \in Seq(T) /\ kept \in Seq(T) /\ Bufs(again) + Bufs(kept) = Bufs(pcb.unacked)
      BY <2>1, <2>2, PartedIs
    <2> HIDE DEF again, kept
    <2>5. p \in Seq(T) /\ Bufs(p) = Bufs(again) + Bufs(pcb.unsent)
      BY <2>1, <2>2, <2>4, BufsConcat
    <2>6. Bufs(again) \in Nat /\ Bufs(pcb.unsent) \in Nat /\ Bufs(kept) \in Nat
      BY <2>1, <2>2, <2>4, BufsNat
    <2> HIDE DEF p
    <2>7. /\ w.unsent = p /\ w.unacked = kept /\ w.rtime = pcb.rtime /\ w.snd_nxt = pcb.snd_nxt
          /\ w.sent = pcb.sent /\ w.oversize = pcb.oversize /\ w.snd_lbb = pcb.snd_lbb
          /\ w.lastack = pcb.lastack /\ w.snd_buf = pcb.snd_buf /\ w.snd_queuelen = pcb.snd_queuelen
          /\ Fields \subseteq DOMAIN w
      BY <2>1 DEF Fields
    <2> HIDE DEF w
    <2>8. w.snd_queuelen = Bufs(w.unacked) + Bufs(w.unsent)
      BY <2>1, <2>4, <2>5, <2>6, <2>7
    <2>9. w.unsent \in Seq(Segs(b, open)) /\ w.unacked \in Seq(Segs(b, open))
      BY <2>4, <2>5, <2>7 DEF T
    <2>10. Good(w, b, open)
      BY <2>1, <2>7, <2>8, <2>9 DEF Good
    <2> QED
      BY <2>3, <2>10, OutputGood DEF tcp_output
  <1> QED
    BY <1>1, <1>2

(* A probe is a packet, and nothing else changes.                          *)
LEMMA ProbeGood ==
  ASSUME NEW pcb, NEW b, NEW open, Good(pcb, b, open)
  PROVE  Good(tcp_zero_window_probe(pcb), b, open)
  <1> DEFINE T == Segs(b, open)
             queue == pcb.unacked \o pcb.unsent
             g == Head(queue)
             isfin == g.fin /\ g.len = 0
             probe == [seq |-> g.seq, len |-> IF isfin THEN 0 ELSE 1,
                       data |-> IF isfin THEN <<>> ELSE <<Head(g.data)>>, fin |-> isfin,
                       syn |-> FALSE, bufs |-> 1]
             w == [pcb EXCEPT !.sent = @ \cup {probe}, !.edge = Plus(pcb.rcv_nxt, pcb.ann_wnd)]
  <1>1. CASE queue = <<>>
    BY <1>1 DEF tcp_zero_window_probe
  <1>2. CASE queue # <<>>
    <2>1. tcp_zero_window_probe(pcb) = w
      BY <1>2 DEF tcp_zero_window_probe
    <2>2. queue \in Seq(T)
      <3> HIDE DEF T
      <3>1. pcb.unsent \in Seq(T) /\ pcb.unacked \in Seq(T)
        BY DEF Good, T
      <3> QED
        BY <3>1, ConcatProperties
    <2> HIDE DEF queue, T
    <2>3. g \in T
      BY <1>2, <2>2, HeadTailProperties
    <2>4. Packet(g)
      BY <2>3, SegsPacket DEF T
    <2> HIDE DEF g
    <2>5. Packet(probe)
      <3> HIDE DEF isfin
      <3> QED
        BY <2>4 DEF Packet
    <2> HIDE DEF probe
    <2>6. /\ w.unsent = pcb.unsent /\ w.unacked = pcb.unacked /\ w.rtime = pcb.rtime /\ w.snd_nxt = pcb.snd_nxt
          /\ w.sent = pcb.sent \cup {probe} /\ w.oversize = pcb.oversize /\ w.snd_lbb = pcb.snd_lbb
          /\ w.lastack = pcb.lastack /\ w.snd_buf = pcb.snd_buf /\ w.snd_queuelen = pcb.snd_queuelen
          /\ Fields \subseteq DOMAIN w
      BY DEF Good, Fields
    <2> HIDE DEF w
    <2>7. \A h \in w.sent : Packet(h)
      BY <2>5, <2>6 DEF Good
    <2> QED
      BY <2>1, <2>6, <2>7 DEF Good
  <1> QED
    BY <1>1, <1>2

LEMMA TimersGood ==
  ASSUME NEW pcb, NEW b, NEW open \in BOOLEAN, Good(pcb, b, open), NEW expired, NEW held
  PROVE  Good(Timers(pcb, expired, held), b, open)
  <1> DEFINE u == [pcb EXCEPT !.persist = Min({@ + 1, BACKOFFS})]
             half == Ssthresh(Min({pcb.cwnd, pcb.snd_wnd}) \div 2)
             w == [pcb EXCEPT !.cwnd = MSS, !.ssthresh = half]
  <1>1. Timers(pcb, expired, held) \in {pcb, tcp_zero_window_probe(u), tcp_rexmit_rto(w, held)}
    BY DEF Timers
  <1> HIDE DEF half
  <1>2. Fields \subseteq DOMAIN u /\ \A f \in Fields : u[f] = pcb[f]
    BY DEF Good, Fields
  <1>3. Fields \subseteq DOMAIN w /\ \A f \in Fields : w[f] = pcb[f]
    BY DEF Good, Fields
  <1> HIDE DEF u, w
  <1>4. Good(u, b, open) /\ Good(w, b, open)
    BY <1>2, <1>3, Alike
  <1>5. Good(tcp_zero_window_probe(u), b, open) /\ Good(tcp_rexmit_rto(w, held), b, open)
    BY <1>4, ProbeGood, RtoGood
  <1> QED
    BY <1>1, <1>5

-----------------------------------------------------------------------------
(* Acknowledgements.                                                       *)
LEMMA WindowGood ==
  ASSUME NEW pcb, NEW b, NEW open, Good(pcb, b, open), NEW g
  PROVE  Good(WindowUpdate(pcb, g), b, open)
  <1> DEFINE w == [pcb EXCEPT !.snd_wnd = g.wnd, !.snd_wl1 = g.seq, !.snd_wl2 = g.ackno,
                            !.persist = IF g.wnd > 0 THEN 0 ELSE @]
  <1>1. WindowUpdate(pcb, g) \in {pcb, w}
    BY DEF WindowUpdate
  <1>2. Fields \subseteq DOMAIN w /\ \A f \in Fields : w[f] = pcb[f]
    BY DEF Good, Fields
  <1> HIDE DEF w
  <1>3. Good(w, b, open)
    BY <1>2, Alike
  <1> QED
    BY <1>1, <1>3

LEMMA AgainGood ==
  ASSUME NEW u, NEW b, NEW open, Good(u, b, open)
  PROVE  Good(Again(u), b, open)
  <1> DEFINE d == [u EXCEPT !.dupacks = (@ + 1) % BYTE]
             w == [d EXCEPT !.cwnd = IF @ + MSS < WORD THEN @ + MSS ELSE @]
  <1>1. Again(u) \in {d, w, tcp_rexmit_fast(d)}
    BY DEF Again
  <1>2. Fields \subseteq DOMAIN d /\ \A f \in Fields : d[f] = u[f]
    BY DEF Good, Fields
  <1> HIDE DEF d
  <1>3. Good(d, b, open)
    BY <1>2, Alike
  <1>4. Fields \subseteq DOMAIN w /\ \A f \in Fields : w[f] = d[f]
    BY <1>3 DEF Good, Fields
  <1> HIDE DEF w
  <1>5. Good(w, b, open) /\ Good(tcp_rexmit_fast(d), b, open)
    BY <1>3, <1>4, Alike, RexmitFastGood
  <1> QED
    BY <1>1, <1>3, <1>5

(* What is freed is a part of the queue from its front on.                 *)
LEMMA FreeGood ==
  ASSUME NEW u, NEW b, NEW open, Good(u, b, open), NEW q \in {"unacked", "unsent"},
         NEW ackno, NEW limit
  PROVE  Good(Free(u, q, ackno, limit), b, open)
  <1> DEFINE T == Segs(b, open)
             S == {i \in DOMAIN u[q] : \A j \in 1..i : Covers(u[q][j], ackno) /\ GEQ(limit, ackno)}
             n == Cardinality(S)
             freed == SubSeq(u[q], 1, n)
             rest == SubSeq(u[q], n + 1, Len(u[q]))
             len == u.snd_queuelen - Bufs(freed)
             w == [u EXCEPT ![q] = rest, !.snd_queuelen = len,
                            !.acked = IF @ # 0 /\ \E i \in DOMAIN freed : freed[i].fin THEN @ - 1 ELSE @]
  <1>1. /\ u.unsent \in Seq(T) /\ u.unacked \in Seq(T) /\ Fields \subseteq DOMAIN u
        /\ u.snd_queuelen = Bufs(u.unacked) + Bufs(u.unsent)
        /\ u.snd_queuelen <= TCP_SND_QUEUELEN
    BY DEF Good
  <1>2. \A t \in T : t.bufs \in Nat
    BY SegsBufs
  <1>3. Free(u, q, ackno, limit) = w
    <2>1. q # "snd_queuelen" /\ q # "acked"
      OBVIOUS
    <2> QED
      BY <2>1 DEF Free, FreeElse
  <1> HIDE DEF T
  <1>4. u[q] \in Seq(T)
    BY <1>1
  <1>5. n \in 0..Len(u[q])
    <2>1. Len(u[q]) \in Nat /\ DOMAIN u[q] = 1..Len(u[q])
      BY <1>4, LenProperties
    <2>2. S \subseteq 1..Len(u[q]) /\ \A i \in S : \A j \in 1..i : j \in S
      BY <2>1
    <2> HIDE DEF S
    <2> QED
      BY <2>1, <2>2, PrefixSet
  <1> HIDE DEF S, n
  <1>6. freed \in Seq(T) /\ rest \in Seq(T) /\ Bufs(u[q]) = Bufs(freed) + Bufs(rest)
    BY <1>2, <1>4, <1>5, BufsSplit
  <1>7. /\ Bufs(freed) \in Nat /\ Bufs(rest) \in Nat
        /\ Bufs(u.unacked) \in Nat /\ Bufs(u.unsent) \in Nat
    BY <1>1, <1>2, <1>6, BufsNat
  <1>8. u[q] = <<>> => rest = <<>>
    <2> SUFFICES ASSUME u[q] = <<>> PROVE rest = <<>>
      OBVIOUS
    <2>1. Len(u[q]) = 0 /\ n = 0
      BY <1>5, EmptySeq
    <2> QED
      BY <2>1, SubSeqEmpty
  <1> HIDE DEF freed, rest
  <1>9. /\ w[q] = rest /\ w.snd_queuelen = len /\ Fields \subseteq DOMAIN w
        /\ \A f \in Fields \ {q, "snd_queuelen"} : w[f] = u[f]
    BY <1>1 DEF Fields
  <1> HIDE DEF w
  <1>10. /\ w.snd_nxt = u.snd_nxt /\ w.lastack = u.lastack /\ w.snd_lbb = u.snd_lbb
         /\ w.snd_buf = u.snd_buf /\ w.rtime = u.rtime /\ w.oversize = u.oversize
         /\ w.sent = u.sent
    BY <1>9 DEF Fields
  <1>11. CASE q = "unacked"
    <2>1. w.unacked = rest /\ w.unsent = u.unsent
      BY <1>9, <1>11 DEF Fields
    <2>2. w.snd_queuelen = Bufs(w.unacked) + Bufs(w.unsent) /\ w.snd_queuelen <= TCP_SND_QUEUELEN
      BY <1>1, <1>6, <1>7, <1>9, <1>11, <2>1, Sizes
    <2>3. w.unsent \in Seq(Segs(b, open)) /\ w.unacked \in Seq(Segs(b, open))
      BY <1>1, <1>6, <2>1 DEF T
    <2>4. w.unacked # <<>> => w.rtime
      BY <1>8, <1>10, <1>11, <2>1 DEF Good
    <2>5. Good(w, b, open)
      BY <1>9, <1>10, <2>2, <2>3, <2>4 DEF Good
    <2> QED
      BY <1>3, <2>5
  <1>12. CASE q = "unsent"
    <2>1. w.unsent = rest /\ w.unacked = u.unacked
      BY <1>9, <1>12 DEF Fields
    <2>2. w.snd_queuelen = Bufs(w.unacked) + Bufs(w.unsent) /\ w.snd_queuelen <= TCP_SND_QUEUELEN
      BY <1>1, <1>6, <1>7, <1>9, <1>12, <2>1, Sizes
    <2>3. w.unsent \in Seq(Segs(b, open)) /\ w.unacked \in Seq(Segs(b, open))
      BY <1>1, <1>6, <2>1 DEF T
    <2>4. w.unacked # <<>> => w.rtime
      BY <1>10, <2>1 DEF Good
    <2>5. Good(w, b, open)
      BY <1>9, <1>10, <2>2, <2>3, <2>4 DEF Good
    <2> QED
      BY <1>3, <2>5
  <1> QED
    BY <1>11, <1>12

(* New data is acknowledged: what the free buffer gains the window of      *)
(* unacknowledged bytes loses.                                             *)
LEMMA AdvanceGood ==
  ASSUME NEW u, NEW b, NEW open \in BOOLEAN, Good(u, b, open), NEW g, g.ackno \in Numbers,
         BETWEEN(g.ackno, Plus(u.lastack, 1), u.snd_nxt)
  PROVE  Good(Advance(u, g), b, open)
  <1> DEFINE o == Opened([u EXCEPT !.cwnd = IF u.infr THEN u.ssthresh ELSE @])
             buf == (u.snd_buf + Minus(g.ackno, u.lastack)) % WORD
             v == [o EXCEPT !.infr = FALSE, !.nrtx = 0, !.dupacks = 0, !.lastack = g.ackno,
                            !.acked = Minus(g.ackno, u.lastack) % WORD, !.snd_buf = buf]
             f == Free(v, "unacked", g.ackno, g.ackno)
             w == Retimed(f)
  <1>1. Fields \subseteq DOMAIN o /\ \A k \in Fields : o[k] = u[k]
    <2> DEFINE x == [u EXCEPT !.cwnd = IF u.infr THEN u.ssthresh ELSE @]
    <2>1. Fields \subseteq DOMAIN x /\ \A k \in Fields : x[k] = u[k]
      BY DEF Good, Fields
    <2> HIDE DEF x
    <2>2. Fields \subseteq DOMAIN Opened(x) /\ \A k \in Fields : Opened(x)[k] = x[k]
      BY <2>1 DEF Opened, Fields
    <2> QED
      BY <2>1, <2>2 DEF x
  <1> HIDE DEF o
  <1>2. Good(o, b, open)
    BY <1>1, Alike
  <1>3. o.snd_buf = u.snd_buf /\ o.lastack = u.lastack /\ o.snd_nxt = u.snd_nxt
    BY <1>1 DEF Fields
  <1>4. Advance(u, g) = w
    BY <1>3 DEF Advance, AdvanceTo, o
  <1>5. open => Stands(g.ackno, u.snd_nxt, b, buf)
    <2> SUFFICES ASSUME open PROVE Stands(g.ackno, u.snd_nxt, b, buf)
      OBVIOUS
    <2> DEFINE a == u.lastack
               x == u.snd_nxt
               k == g.ackno
    <2>1. /\ a \in Numbers /\ x \in Numbers /\ b \in Numbers /\ u.snd_buf \in Nat
          /\ Place(a) <= Place(x) /\ Place(x) <= Place(b) /\ Place(b) <= N
          /\ u.snd_buf + Place(b) - Place(a) = TCP_SND_BUF
      BY DEF Good, Stands
    <2>2. k \in Numbers /\ BETWEEN(k, Plus(a, 1), x)
      OBVIOUS
    <2> HIDE DEF a, x, k
    <2>3. Place(a) \in Nat /\ Place(x) \in Nat /\ Place(b) \in Nat /\ Place(k) \in Nat
      BY <2>1, <2>2, PlaceIn DEF Numbers
    <2>4. Place(a) < Place(k) /\ Place(k) <= Place(x)
      <3>1. Place(x) <= N
        BY <2>1, <2>3, Sizes
      <3> QED
        BY <2>1, <2>2, <3>1, AckPlace
    <2>5. Minus(k, a) = Place(k) - Place(a)
      BY <2>1, <2>2, <2>3, <2>4, PlacesApart
    <2>6. buf = u.snd_buf + Place(k) - Place(a)
      <3> DEFINE y == u.snd_buf + Place(k) - Place(a)
      <3>1. y \in 0..WORD - 1
        BY <2>1, <2>3, <2>4, Sizes
      <3>2. buf = y % WORD
        BY <2>1, <2>3, <2>5 DEF a, k
      <3> HIDE DEF y, buf
      <3>3. y % WORD = y
        BY <3>1, Sizes, ModSame
      <3> QED
        BY <3>2, <3>3 DEF y
    <2> HIDE DEF buf
    <2>7. buf \in Nat /\ buf + Place(b) - Place(k) = TCP_SND_BUF
      BY <2>1, <2>3, <2>4, <2>6
    <2> QED
      BY <2>1, <2>2, <2>4, <2>7 DEF Stands, x, k
  <1> HIDE DEF buf
  <1>6. /\ v.unsent = o.unsent /\ v.unacked = o.unacked /\ v.rtime = o.rtime /\ v.snd_nxt = u.snd_nxt
        /\ v.sent = o.sent /\ v.oversize = o.oversize /\ v.snd_lbb = o.snd_lbb
        /\ v.lastack = g.ackno /\ v.snd_buf = buf /\ v.snd_queuelen = o.snd_queuelen
        /\ Fields \subseteq DOMAIN v
    BY <1>1, <1>3 DEF Fields
  <1> HIDE DEF v
  <1>7. Good(v, b, open)
    BY <1>2, <1>5, <1>6 DEF Good
  <1>8. Good(f, b, open)
    BY <1>7, FreeGood
  <1> HIDE DEF f
  <1>9. /\ w.unsent = f.unsent /\ w.unacked = f.unacked /\ w.rtime = (f.unacked # <<>>)
        /\ w.snd_nxt = f.snd_nxt
        /\ w.sent = f.sent /\ w.oversize = f.oversize /\ w.snd_lbb = f.snd_lbb
        /\ w.lastack = f.lastack /\ w.snd_buf = f.snd_buf /\ w.snd_queuelen = f.snd_queuelen
        /\ Fields \subseteq DOMAIN w
    BY <1>8 DEF Retimed, Good, Fields
  <1> HIDE DEF w
  <1>10. w.rtime \in BOOLEAN /\ (w.unacked # <<>> => w.rtime)
    BY <1>9
  <1>11. Good(w, b, open)
    BY <1>8, <1>9, <1>10 DEF Good
  <1> QED
    BY <1>4, <1>11

LEMMA ReceiveGood ==
  ASSUME NEW pcb, NEW b, NEW open \in BOOLEAN, Good(pcb, b, open), NEW g, g.ackno \in Numbers
  PROVE  Good(ReceiveAck(pcb, g), b, open)
  <1> DEFINE u == WindowUpdate(pcb, g)
             v == [u EXCEPT !.acked = 0]
             d == [u EXCEPT !.acked = 0, !.dupacks = 0]
             t == TakeAckno(pcb, u, g)
  <1>1. Good(u, b, open)
    BY WindowGood
  <1>2. ReceiveAck(pcb, g) = Free(t, "unsent", g.ackno, t.snd_nxt)
    BY DEF ReceiveAck, FreeUnsent
  <1> HIDE DEF u
  <1>3. /\ Fields \subseteq DOMAIN v /\ (\A f \in Fields : v[f] = u[f])
        /\ Fields \subseteq DOMAIN d /\ (\A f \in Fields : d[f] = u[f])
    BY <1>1 DEF Good, Fields
  <1>4. \/ t \in {v, d, Again(v)}
        \/ t = Advance(u, g) /\ BETWEEN(g.ackno, Plus(u.lastack, 1), u.snd_nxt)
    BY DEF TakeAckno
  <1> HIDE DEF v, d, t
  <1>5. Good(v, b, open) /\ Good(d, b, open)
    BY <1>1, <1>3, Alike
  <1>6. Good(Again(v), b, open)
    BY <1>5, AgainGood
  <1>7. t = Advance(u, g) /\ BETWEEN(g.ackno, Plus(u.lastack, 1), u.snd_nxt) => Good(t, b, open)
    BY <1>1, AdvanceGood
  <1>8. Good(t, b, open)
    BY <1>4, <1>5, <1>6, <1>7
  <1> QED
    BY <1>2, <1>8, FreeGood

-----------------------------------------------------------------------------
(* The invariant: the pcb is Good; while the application has not closed    *)
(* what it wrote ends where the next byte goes; and what is under way has  *)
(* sequence numbers.                                                       *)
SendInv ==
  /\ Good(r, r.snd_lbb, ~closed) /\ closed \in BOOLEAN /\ wrote \in Nat
  /\ ~closed => Place(r.snd_lbb) = wrote
  /\ \A g \in wire : Packet(g)
  /\ \A a \in acks : a.ackno \in Numbers
  /\ {"nxt", "edge"} \subseteq DOMAIN peer /\ peer.nxt \in Numbers /\ peer.edge \in Numbers

LEMMA SendInit == Init => SendInv
  <1> SUFFICES ASSUME Init PROVE SendInv
    OBVIOUS
  <1>1. ISS \in Numbers /\ Place(ISS) = 0 /\ SEQ \in Nat \ {0} /\ PWND \in Nat
    <2>1. ISS \in Numbers /\ SEQ \in Nat \ {0}
      BY Sizes DEF Numbers
    <2>2. Minus(ISS, ISS) = IF ISS <= ISS THEN ISS - ISS ELSE ISS - ISS + SEQ
      BY <2>1, Difference
    <2>3. PWND \in Nat
      BY TcpSendAssumption DEF TcpSendAssumption
    <2> QED
      BY <2>1, <2>2, <2>3 DEF Place, Numbers
  <1>2. /\ r.snd_nxt = ISS /\ r.lastack = ISS /\ r.snd_lbb = ISS /\ r.snd_buf = TCP_SND_BUF
        /\ r.snd_queuelen = 0 /\ r.unsent = <<>> /\ r.unacked = <<>> /\ r.rtime = FALSE
        /\ r.oversize = 0 /\ r.sent = {} /\ Fields \subseteq DOMAIN r
    BY DEF Init, Fields
  <1>3. wrote = 0 /\ closed = FALSE /\ wire = {} /\ acks = {}
    BY DEF Init
  <1>4. Stands(ISS, ISS, ISS, TCP_SND_BUF)
    BY <1>1, Sizes DEF Stands
  <1>5. <<>> \in Seq(Segs(ISS, TRUE))
    BY EmptySeq
  <1>6. Good(r, ISS, TRUE)
    <2>1. r.snd_queuelen = Bufs(r.unacked) + Bufs(r.unsent) /\ r.snd_queuelen <= TCP_SND_QUEUELEN
      BY <1>2, BufsEmpty, Sizes
    <2>2. Stands(r.lastack, r.snd_nxt, ISS, r.snd_buf)
      BY <1>2, <1>4
    <2>3. r.unsent \in Seq(Segs(ISS, TRUE)) /\ r.unacked \in Seq(Segs(ISS, TRUE))
      BY <1>2, <1>5
    <2>4. r.rtime \in BOOLEAN
      BY <1>2, FALSE \in BOOLEAN, Zenon
    <2>5. (r.unacked # <<>> => r.rtime) /\ r.oversize \in Nat
      BY <1>2
    <2> QED
      BY <1>2, <2>1, <2>2, <2>3, <2>4, <2>5 DEF Good
  <1>7. /\ {"nxt", "edge"} \subseteq DOMAIN peer /\ peer.nxt = ISS /\ peer.edge = Plus(ISS, PWND)
    BY DEF Init
  <1>8. Plus(ISS, PWND) \in Numbers
    <2>1. ISS \in Int /\ PWND \in Int
      BY <1>1 DEF Numbers
    <2> QED
      BY <2>1, PlusIn
  <1> QED
    BY <1>1, <1>2, <1>3, <1>6, <1>7, <1>8 DEF SendInv

(* What leaves the host is what was sent in the step.                      *)
LEMMA LeaveIs ==
  ASSUME NEW u, NEW b, NEW open, Good(u, b, open), NEW rest, \A g \in rest : Packet(g),
         Leave(u, rest)
  PROVE  Good(r', b, open) /\ r'.snd_lbb = b /\ \A g \in wire' : Packet(g)
  <1>1. PICK drop \in SUBSET u.sent :
          /\ wire' = rest \cup {[g EXCEPT !.bufs = 1] : g \in u.sent \ drop}
          /\ r' = [u EXCEPT !.sent = {}, !.answer = FALSE]
    BY DEF Leave
  <1> DEFINE w == [u EXCEPT !.sent = {}, !.answer = FALSE]
  <1>2. r' = w
    BY <1>1
  <1>3. Fields \subseteq DOMAIN u /\ u.snd_lbb = b /\ \A g \in u.sent : Packet(g)
    BY DEF Good
  <1>4. /\ w.unsent = u.unsent /\ w.unacked = u.unacked /\ w.rtime = u.rtime /\ w.snd_nxt = u.snd_nxt
        /\ w.sent = {} /\ w.oversize = u.oversize /\ w.snd_lbb = u.snd_lbb
        /\ w.lastack = u.lastack /\ w.snd_buf = u.snd_buf /\ w.snd_queuelen = u.snd_queuelen
        /\ Fields \subseteq DOMAIN w
    BY <1>3 DEF Fields
  <1> HIDE DEF w
  <1>5. Good(w, b, open)
    BY <1>4 DEF Good
  <1>6. ASSUME NEW g, Packet(g) PROVE Packet([g EXCEPT !.bufs = 1])
    BY <1>6 DEF Packet
  <1>7. \A g \in wire' : Packet(g)
    BY <1>1, <1>3, <1>6
  <1> QED
    BY <1>2, <1>3, <1>4, <1>5, <1>7

(* Nothing but the pcb and the wire matters where the rest stays.          *)
LEMMA WriteStep ==
  ASSUME SendInv, Write
  PROVE  SendInv'
  <1>1. PICK n \in {k \in PIECES : k <= N - wrote}, ok \in BOOLEAN :
          LET u == tcp_write(r, [i \in 1..n |-> wrote + i], ok)
          IN  /\ ~closed
              /\ wrote' = wrote + Minus(u.snd_lbb, r.snd_lbb)
              /\ Leave(tcp_output(u, {}), wire)
              /\ UNCHANGED <<closed, peer, acks>>
    BY DEF Write
  <1> DEFINE data == [i \in 1..n |-> wrote + i]
             u == tcp_write(r, data, ok)
             b == r.snd_lbb
             c == Plus(b, n)
             v == tcp_output(u, {})
  <1>2. Good(r, b, TRUE) /\ wrote \in Nat /\ Place(b) = wrote /\ \A g \in wire : Packet(g)
    BY <1>1 DEF SendInv
  <1>3. n \in Nat /\ n <= N - wrote /\ N \in Nat /\ SEQ \in Nat /\ N < SEQ
    BY Sizes
  <1>4. data \in Seq(Nat) /\ Len(data) = n
    <2>1. data \in [1..n -> Nat]
      BY <1>2, <1>3
    <2> QED
      BY <1>3, <2>1
  <1>5. wrote' = wrote + Minus(u.snd_lbb, b) /\ Leave(v, wire) /\ ~closed /\ UNCHANGED <<closed, peer, acks>>
    BY <1>1
  <1> HIDE DEF data
  <1>6. Good(u, b, TRUE) \/ (Good(u, c, TRUE) /\ Place(c) = wrote + n)
    <2>1. Place(b) + Len(data) <= N
      BY <1>2, <1>3, <1>4
    <2>2. \/ Good(tcp_write(r, data, ok), b, TRUE)
          \/ /\ Good(tcp_write(r, data, ok), Plus(b, Len(data)), TRUE)
             /\ Place(Plus(b, Len(data))) = Place(b) + Len(data)
      BY <1>2, <1>4, <2>1, WriteIs
    <2> QED
      BY <1>2, <1>4, <2>2
  <1> HIDE DEF u, c
  <1>7. ASSUME NEW d \in Numbers, Good(u, d, TRUE), NEW k \in Nat, Place(d) = wrote + k,
               b \in Numbers
        PROVE  SendInv'
    <2>1. u.snd_lbb = d
      BY <1>7 DEF Good
    <2>2. Minus(d, b) = k
      <3>1. Minus(d, b) = IF Place(b) <= Place(d) THEN Place(d) - Place(b) ELSE Place(d) - Place(b) + SEQ
        BY <1>7, PlacesApart
      <3> QED
        BY <1>2, <1>7, <3>1
    <2>3. wrote' = wrote + k
      BY <1>5, <2>1, <2>2
    <2>4. Good(v, d, TRUE)
      BY <1>7, OutputGood DEF tcp_output
    <2> HIDE DEF v
    <2>5. Good(r', d, TRUE) /\ r'.snd_lbb = d /\ \A g \in wire' : Packet(g)
      BY <1>2, <1>5, <2>4, LeaveIs
    <2>6. closed = FALSE /\ closed' = FALSE
      BY <1>5 DEF SendInv
    <2>7. Good(r', r'.snd_lbb, ~closed')
      BY <2>5, <2>6
    <2>8. wrote' \in Nat /\ Place(r'.snd_lbb) = wrote'
      BY <1>2, <1>7, <2>3, <2>5
    <2> QED
      BY <1>5, <2>5, <2>6, <2>7, <2>8 DEF SendInv
  <1>8. b \in Numbers
    BY <1>2 DEF Good, Stands
  <1> HIDE DEF b, v
  <1>9. CASE Good(u, b, TRUE)
    <2>1. Place(b) = wrote + 0 /\ 0 \in Nat
      BY <1>2
    <2> QED
      BY <1>7, <1>8, <1>9, <2>1
  <1>10. CASE Good(u, c, TRUE) /\ Place(c) = wrote + n
    <2>1. c \in Numbers
      BY <1>10 DEF Good, Stands
    <2> QED
      BY <1>3, <1>7, <1>8, <1>10, <2>1
  <1> QED
    BY <1>6, <1>9, <1>10

LEMMA CloseStep ==
  ASSUME SendInv, Close
  PROVE  SendInv'
  <1>1. PICK ok \in BOOLEAN :
          /\ ~closed /\ closed' = FinQueued(r, ok)
          /\ Leave(IF closed' THEN tcp_output(tcp_send_fin(r, ok), {}) ELSE tcp_send_fin(r, ok), wire)
          /\ UNCHANGED <<wrote, peer, acks>>
    BY DEF Close
  <1> DEFINE u == tcp_send_fin(r, ok)
             v == tcp_output(u, {})
             b == r.snd_lbb
             d == u.snd_lbb
  <1>2. Good(r, b, TRUE) /\ Place(b) = wrote /\ wrote \in Nat /\ \A g \in wire : Packet(g)
    BY <1>1 DEF SendInv
  <1>3. FinQueued(r, ok) \in BOOLEAN
    BY DEF FinQueued, Carries
  <1>4. IF FinQueued(r, ok) THEN Good(u, d, FALSE) ELSE Good(u, b, TRUE)
    BY <1>2, FinIs
  <1> HIDE DEF u
  <1>5. CASE FinQueued(r, ok)
    <2>1. closed' = TRUE /\ Leave(v, wire)
      BY <1>1, <1>3, <1>5 DEF u
    <2>2. Good(u, d, FALSE)
      BY <1>4, <1>5
    <2>3. Good(v, d, FALSE)
      BY <2>2, OutputGood DEF tcp_output
    <2> HIDE DEF v, d
    <2>4. Good(r', d, FALSE) /\ r'.snd_lbb = d /\ \A g \in wire' : Packet(g)
      BY <1>2, <2>1, <2>3, LeaveIs
    <2> QED
      BY <1>1, <2>1, <2>4 DEF SendInv
  <1>6. CASE ~FinQueued(r, ok)
    <2>1. closed' = FALSE /\ Leave(u, wire)
      BY <1>1, <1>3, <1>6 DEF u
    <2>2. Good(u, b, TRUE)
      BY <1>4, <1>6
    <2> HIDE DEF b
    <2>3. Good(r', b, TRUE) /\ r'.snd_lbb = b /\ \A g \in wire' : Packet(g)
      BY <1>2, <2>1, <2>2, LeaveIs
    <2> QED
      BY <1>1, <1>2, <2>1, <2>3 DEF SendInv
  <1> QED
    BY <1>5, <1>6

(* A step that leaves a Good pcb with the same next byte.                  *)
LEMMA KeepStep ==
  ASSUME SendInv, NEW u, Good(u, r.snd_lbb, ~closed), Leave(u, wire),
         UNCHANGED <<wrote, closed, peer>>, acks' \subseteq acks
  PROVE  SendInv'
  <1> DEFINE b == r.snd_lbb
             open == ~closed
  <1>1. Good(u, b, open) /\ \A g \in wire : Packet(g)
    BY DEF SendInv
  <1> HIDE DEF b, open
  <1>2. Good(r', b, open) /\ r'.snd_lbb = b /\ \A g \in wire' : Packet(g)
    BY <1>1, LeaveIs
  <1> QED
    BY <1>2 DEF SendInv, b, open

LEMMA InputStep ==
  ASSUME SendInv, NEW u, Good(u, r.snd_lbb, ~closed), NEW held, NEW rest,
         Input(u, held, rest), rest \subseteq acks
  PROVE  SendInv'
  <1> DEFINE v == tcp_output(u, held)
  <1>1. Leave(v, wire) /\ UNCHANGED <<wrote, closed, peer>> /\ acks' \subseteq acks
    BY DEF Input
  <1>2. Good(v, r.snd_lbb, ~closed)
    BY OutputGood DEF tcp_output, SendInv
  <1> HIDE DEF v
  <1> QED
    BY <1>1, <1>2, KeepStep

LEMMA TakeAckStep ==
  ASSUME SendInv, TakeAck
  PROVE  SendInv'
  <1>1. PICK a \in acks, held \in SUBSET Sent : Input(ReceiveAck(r, a), held, acks \ {a})
    BY DEF TakeAck
  <1>2. a.ackno \in Numbers /\ Good(r, r.snd_lbb, ~closed) /\ (~closed) \in BOOLEAN
    BY DEF SendInv
  <1>3. Good(ReceiveAck(r, a), r.snd_lbb, ~closed)
    BY <1>2, ReceiveGood
  <1>4. acks \ {a} \subseteq acks
    OBVIOUS
  <1> QED
    BY <1>1, <1>3, <1>4, InputStep

LEMMA StrayStep ==
  ASSUME SendInv, Stray
  PROVE  SendInv'
  <1> DEFINE u == tcp_ack_now(r)
  <1>1. Input(u, {}, acks)
    BY DEF Stray
  <1>2. Good(r, r.snd_lbb, ~closed)
    BY DEF SendInv
  <1>3. Fields \subseteq DOMAIN u /\ \A f \in Fields : u[f] = r[f]
    BY <1>2 DEF tcp_ack_now, Good, Fields
  <1> HIDE DEF u
  <1>4. Good(u, r.snd_lbb, ~closed)
    BY <1>2, <1>3, Alike
  <1> QED
    BY <1>1, <1>4, InputStep

LEMMA TimerStep ==
  ASSUME SendInv, tcp_slowtmr
  PROVE  SendInv'
  <1>1. PICK expired \in BOOLEAN, polled \in BOOLEAN, held \in SUBSET Sent :
          /\ IF r.nrtx = TCP_MAXRTX
               THEN UNCHANGED <<r, wire>>
               ELSE Leave(IF polled THEN tcp_output(Timers(r, expired, held), held)
                                    ELSE Timers(r, expired, held), wire)
          /\ UNCHANGED <<wrote, closed, peer, acks>>
    BY DEF tcp_slowtmr
  <1>2. CASE r.nrtx = TCP_MAXRTX
    BY <1>1, <1>2 DEF SendInv
  <1>3. CASE r.nrtx # TCP_MAXRTX
    <2> DEFINE t == Timers(r, expired, held)
               v == tcp_output(t, held)
    <2>1. Good(r, r.snd_lbb, ~closed) /\ (~closed) \in BOOLEAN
      BY DEF SendInv
    <2>2. Good(t, r.snd_lbb, ~closed)
      BY <2>1, TimersGood
    <2>3. Leave(v, wire) \/ Leave(t, wire)
      BY <1>1, <1>3
    <2> HIDE DEF t
    <2>4. Good(v, r.snd_lbb, ~closed)
      BY <2>1, <2>2, OutputGood DEF tcp_output
    <2> HIDE DEF v
    <2> QED
      BY <1>1, <2>2, <2>3, <2>4, KeepStep
  <1> QED
    BY <1>2, <1>3

(* The peer's answers have sequence numbers.                               *)
LEMMA MaxOfTwo ==
  ASSUME NEW a \in Int, NEW b \in Int
  PROVE  Max({a, b}) \in Int
  <1>1. CASE a <= b
    BY <1>1 DEF Max
  <1>2. CASE ~(a <= b)
    BY <1>2 DEF Max
  <1> QED
    BY <1>1, <1>2

LEMMA AnswerStep ==
  ASSUME SendInv, UNCHANGED <<r, wrote, closed>>, wire' \subseteq wire,
         {"nxt", "edge"} \subseteq DOMAIN peer', peer'.nxt \in Numbers, peer'.edge \in Numbers,
         Acknowledge(peer')
  PROVE  SendInv'
  <1>1. \A a \in acks' : a \in acks \/ a.ackno = peer'.nxt
    BY DEF Acknowledge
  <1> QED
    BY <1>1 DEF SendInv

LEMMA PeerStep ==
  ASSUME SendInv, Peer
  PROVE  SendInv'
  <1>1. PICK g \in wire : /\ peer' = Reached(peer, g) /\ wire' = wire \ {g}
                          /\ Acknowledge(peer') /\ UNCHANGED <<r, wrote, closed>>
    BY DEF Peer
  <1>2. /\ g.seq \in Numbers /\ g.len \in Nat
        /\ {"nxt", "edge"} \subseteq DOMAIN peer /\ peer.nxt \in Numbers /\ peer.edge \in Numbers
    BY DEF SendInv, Packet
  <1>3. \A x \in Numbers : x \in Int
    BY DEF Numbers
  <1>4. ISS \in Int
    BY Sizes
  <1> DEFINE upto == Min({Minus(End(g), ISS), Minus(peer.edge, ISS)})
             here == Minus(peer.nxt, ISS)
             big == Max({here, upto})
             one == IF g.fin /\ End(g) = Plus(ISS, big) THEN 1 ELSE 0
             p == [peer EXCEPT !.nxt = Plus(ISS, big + one), !.fin = g.fin /\ End(g) = Plus(ISS, big)]
  <1>5. peer' \in {peer, p}
    BY <1>1 DEF Reached
  <1>6. big \in Int
    <2>1. End(g) \in Numbers
      <3>1. g.seq \in Int /\ g.len \in Int
        BY <1>2, <1>3
      <3> QED
        BY <3>1, PlusIn DEF End
    <2>2. Minus(End(g), ISS) \in Int /\ Minus(peer.edge, ISS) \in Int /\ here \in Int
      BY <1>2, <1>3, <1>4, <2>1, MinusIn
    <2>3. upto \in Int
      BY <2>2, MinOfTwo
    <2> HIDE DEF here, upto
    <2> QED
      BY <2>2, <2>3, MaxOfTwo
  <1> HIDE DEF big
  <1>7. Plus(ISS, big + one) \in Numbers
    <2>1. big + one \in Int
      BY <1>6
    <2> HIDE DEF one
    <2> QED
      BY <1>4, <2>1, PlusIn
  <1>8. {"nxt", "edge"} \subseteq DOMAIN p /\ p.nxt \in Numbers /\ p.edge \in Numbers
    <2> HIDE DEF one
    <2> QED
      BY <1>2, <1>7
  <1> HIDE DEF p
  <1>9. {"nxt", "edge"} \subseteq DOMAIN peer' /\ peer'.nxt \in Numbers /\ peer'.edge \in Numbers
    BY <1>2, <1>5, <1>8
  <1> QED
    BY <1>1, <1>9, AnswerStep

LEMMA PeerReadsStep ==
  ASSUME SendInv, PeerReads
  PROVE  SendInv'
  <1>1. /\ peer' = [peer EXCEPT !.edge = Plus(peer.nxt, PWND)]
        /\ Acknowledge(peer') /\ UNCHANGED <<r, wrote, closed, wire>>
    BY DEF PeerReads
  <1>2. {"nxt", "edge"} \subseteq DOMAIN peer /\ peer.nxt \in Numbers
    BY DEF SendInv
  <1>3. Plus(peer.nxt, PWND) \in Numbers
    <2>1. peer.nxt \in Int /\ PWND \in Int
      BY <1>2, TcpSendAssumption DEF TcpSendAssumption, Numbers
    <2> QED
      BY <2>1, PlusIn
  <1>4. {"nxt", "edge"} \subseteq DOMAIN peer' /\ peer'.nxt \in Numbers /\ peer'.edge \in Numbers
    BY <1>1, <1>2, <1>3
  <1>5. wire' \subseteq wire
    BY <1>1
  <1> QED
    BY <1>1, <1>4, <1>5, AnswerStep

-----------------------------------------------------------------------------
(* What holds between any two steps of the sender: see SendInv.            *)
THEOREM SendInvariance == Spec => []SendInv
  <1>1. ASSUME SendInv, [Next]_vars PROVE SendInv'
    <2>1. CASE Write
      BY <1>1, <2>1, WriteStep
    <2>2. CASE Close
      BY <1>1, <2>2, CloseStep
    <2>3. CASE TakeAck
      BY <1>1, <2>3, TakeAckStep
    <2>4. CASE Stray
      BY <1>1, <2>4, StrayStep
    <2>5. CASE tcp_slowtmr
      BY <1>1, <2>5, TimerStep
    <2>6. CASE Peer
      BY <1>1, <2>6, PeerStep
    <2>7. CASE PeerReads
      BY <1>1, <2>7, PeerReadsStep
    <2>8. CASE UNCHANGED vars
      BY <1>1, <2>8 DEF vars, SendInv
    <2> QED
      BY <1>1, <2>1, <2>2, <2>3, <2>4, <2>5, <2>6, <2>7, <2>8 DEF Next
  <1> QED
    BY <1>1, SendInit, PTL DEF Spec

(* The accounts of tcp_write, tcp_receive and tcp_slowtmr: snd_buf and     *)
(* snd_queuelen neither leak nor are given back twice, and a segment that  *)
(* waits for its acknowledgement has a timer, for any sizes.               *)
THEOREM SendCorrect == Spec => []SendCounted
  <1>1. ASSUME SendInv PROVE SendCounted
    <2>1. /\ r.snd_queuelen = Bufs(r.unacked) + Bufs(r.unsent) /\ r.snd_queuelen <= TCP_SND_QUEUELEN
          /\ (r.unacked # <<>> => r.rtime)
          /\ (~closed => Stands(r.lastack, r.snd_nxt, r.snd_lbb, r.snd_buf))
      BY <1>1 DEF SendInv, Good
    <2>2. BufferCounted
      <3> SUFFICES ASSUME ~closed PROVE r.snd_buf + Minus(r.snd_lbb, r.lastack) = TCP_SND_BUF
        BY DEF BufferCounted
      <3>1. /\ r.lastack \in Numbers /\ r.snd_nxt \in Numbers /\ r.snd_lbb \in Numbers
            /\ r.snd_buf \in Nat /\ Place(r.lastack) <= Place(r.snd_nxt)
            /\ Place(r.snd_nxt) <= Place(r.snd_lbb)
            /\ r.snd_buf + Place(r.snd_lbb) - Place(r.lastack) = TCP_SND_BUF
        BY <2>1 DEF Stands
      <3>2. Place(r.lastack) \in Nat /\ Place(r.snd_nxt) \in Nat /\ Place(r.snd_lbb) \in Nat
        BY <3>1, PlaceIn DEF Numbers
      <3>3. Minus(r.snd_lbb, r.lastack) = Place(r.snd_lbb) - Place(r.lastack)
        BY <3>1, <3>2, PlacesApart
      <3> QED
        BY <3>1, <3>2, <3>3
    <2> QED
      BY <2>1, <2>2 DEF SendCounted, QueueCounted, Armed
  <1> QED
    BY <1>1, SendInvariance, PTL
=============================================================================
