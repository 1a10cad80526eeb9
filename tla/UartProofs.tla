----------------------------- MODULE UartProofs ------------------------------
(***************************************************************************)
(* The UART driver, for all sizes of rings, FIFOs and task queue.  First   *)
(* the interleavings with the interrupt handler: Space is exact and no     *)
(* transmit wakeup is lost, whatever the handler interrupts.  Then the     *)
(* bytes: RingOK, RxIsQueue and TxIsQueue, the pointers and the free space *)
(* agree, and each direction of the UART is a queue of bytes.  Last the    *)
(* queue of the MQTT client, for any ring and any messages: IsMessageQueue.*)
(***************************************************************************)
EXTENDS UartIntr, UartRing, MqttQueue, SequenceTheorems, FiniteSetTheorems, TLAPS

-----------------------------------------------------------------------------
(* The interleavings (UartIntr).                                           *)

(* Inside tx_buff_enq the transmit interrupt is off, so Space is still     *)
(* what was read; and the copy of the register that uart_rx_intr_enable    *)
(* writes back lacks TXFIFO_EMPTY only if the ring is empty.               *)
Masked == pc \in {"check", "store", "set", "setw"} => ~txEna
Fresh  == pc = "store" => tmp = txSpace /\ len <= txSpace
Copied == pc = "rxsetw" /\ txHeld > 0 => reg.tx

IntrInv == IntrTypeOK /\ SpaceExact /\ TxWakeup /\ Masked /\ Fresh /\ Copied

(* The invariant holds after uart_init.                                    *)
LEMMA IntrInvInit == Init => IntrInv
<1> SUFFICES ASSUME Init PROVE IntrInv
  OBVIOUS
<1>1. SIZE \in 1..SIZE /\ 0 \in 0..SIZE /\ SIZE \in 0..SIZE
        /\ 0 \in 0..UART_FIFO_LEN /\ 0 \in 0..QLEN /\ 0 \in 0..MAX_BYTES
  BY IntrAssumption
<1>b. reg \in [rx : BOOLEAN, tx : BOOLEAN] /\ rxEna \in BOOLEAN
        /\ txEna \in BOOLEAN /\ pc \in Label
  BY DEF Init, Label
<1>2. IntrTypeOK
  BY <1>1, <1>b DEF Init, IntrTypeOK
<1>3. SpaceExact
  BY IntrAssumption DEF Init, SpaceExact
<1>4. TxWakeup /\ Masked /\ Fresh /\ Copied
  BY DEF Init, TxWakeup, Masked, Fresh, Copied
<1> QED BY <1>2, <1>3, <1>4 DEF IntrInv

(* Every step of ordinary code keeps it.                                   *)
LEMMA IntrInvCode ==
  IntrInv /\ (TxEnqStart \/ Code \/ rx_buff_deq) => IntrInv'
<1> SUFFICES ASSUME IntrInv, TxEnqStart \/ Code \/ rx_buff_deq PROVE IntrInv'
  OBVIOUS
<1> USE DEF IntrInv, Label
<1>1. CASE TxEnqStart
  <2>1. IntrTypeOK'
    BY <1>1, IntrAssumption DEF TxEnqStart, IntrTypeOK, ReadReg
  <2>2. SpaceExact' /\ TxWakeup' /\ Masked' /\ Fresh' /\ Copied'
    BY <1>1 DEF TxEnqStart, SpaceExact, TxWakeup, Masked, Fresh, Copied
  <2> QED BY <2>1, <2>2
<1>2. CASE TxEnqClear
  <2>1. IntrTypeOK'
    BY <1>2, IntrAssumption DEF TxEnqClear, TxEnqClearTo, IntrTypeOK
  <2>2. SpaceExact' /\ TxWakeup' /\ Masked' /\ Fresh' /\ Copied'
    BY <1>2 DEF TxEnqClear, TxEnqClearTo, SpaceExact, TxWakeup, Masked, Fresh,
       Copied
  <2> QED BY <2>1, <2>2
<1>3. CASE TxEnqCheck
  <2>1. IntrTypeOK'
    BY <1>3, IntrAssumption DEF TxEnqCheck, IntrTypeOK
  <2>2. SpaceExact' /\ TxWakeup' /\ Masked' /\ Fresh' /\ Copied'
    BY <1>3 DEF TxEnqCheck, SpaceExact, TxWakeup, Masked, Fresh, Copied
  <2> QED BY <2>1, <2>2
<1>4. CASE TxEnqStore
  <2>1. tmp = txSpace /\ len <= txSpace /\ len \in Nat /\ txSpace \in 0..SIZE
    BY <1>4, IntrAssumption DEF TxEnqStore, Fresh, IntrTypeOK
  <2>2. txSpace' \in 0..SIZE /\ txHeld' \in Int
    BY <1>4, <2>1, IntrAssumption DEF TxEnqStore, IntrTypeOK
  <2>3. IntrTypeOK'
    BY <1>4, <2>2 DEF TxEnqStore, IntrTypeOK
  <2>4. SpaceExact'
    BY <1>4, <2>1, IntrAssumption DEF TxEnqStore, SpaceExact, IntrTypeOK
  <2>5. TxWakeup' /\ Masked' /\ Fresh' /\ Copied'
    BY <1>4 DEF TxEnqStore, TxWakeup, Masked, Fresh, Copied
  <2> QED BY <2>3, <2>4, <2>5
<1>5. CASE TxEnqSet
  <2>1. IntrTypeOK'
    BY <1>5, IntrAssumption DEF TxEnqSet, IntrTypeOK, ReadReg
  <2>2. SpaceExact' /\ TxWakeup' /\ Masked' /\ Fresh' /\ Copied'
    BY <1>5 DEF TxEnqSet, SpaceExact, TxWakeup, Masked, Fresh, Copied
  <2> QED BY <2>1, <2>2
<1>6. CASE TxEnqEnd
  <2>1. IntrTypeOK'
    BY <1>6, IntrAssumption DEF TxEnqEnd, TxEnqEndWith, IntrTypeOK
  <2>2. SpaceExact' /\ TxWakeup' /\ Masked' /\ Fresh' /\ Copied'
    BY <1>6 DEF TxEnqEnd, TxEnqEndWith, SpaceExact, TxWakeup, Masked, Fresh, Copied
  <2> QED BY <2>1, <2>2
<1>7. CASE RecvTask
  <2>1. rxSpace' \in 1..SIZE /\ rxFifo' \in 0..UART_FIFO_LEN
          /\ events' \in 0..QLEN
    BY <1>7, IntrAssumption DEF RecvTask, BufFull, IntrTypeOK
  <2>2. pc' \in {"idle", "rxset"}
    BY <1>7 DEF RecvTask, EnableIfRoom
  <2>3. IntrTypeOK'
    BY <1>7, <2>1, <2>2 DEF RecvTask, IntrTypeOK
  <2>4. SpaceExact' /\ TxWakeup' /\ Masked' /\ Fresh' /\ Copied'
    BY <1>7, <2>2 DEF RecvTask, SpaceExact, TxWakeup, Masked, Fresh, Copied
  <2> QED BY <2>3, <2>4
<1>8. CASE rx_buff_deq
  <2>1. rxSpace' \in 1..SIZE
    BY <1>8, IntrAssumption DEF rx_buff_deq, DeqThen, IntrTypeOK
  <2>2. pc' \in {"idle", "rxset"}
    BY <1>8 DEF rx_buff_deq, DeqThen, EnableIfRoom
  <2>3. IntrTypeOK'
    BY <1>8, <2>1, <2>2 DEF rx_buff_deq, DeqThen, IntrTypeOK
  <2>4. SpaceExact' /\ TxWakeup' /\ Masked' /\ Fresh' /\ Copied'
    BY <1>8, <2>2 DEF rx_buff_deq, DeqThen, SpaceExact, TxWakeup, Masked,
       Fresh, Copied
  <2> QED BY <2>3, <2>4
<1>9. CASE RxEnable
  <2>1. IntrTypeOK'
    BY <1>9, IntrAssumption DEF RxEnable, IntrTypeOK, ReadReg
  <2>2. SpaceExact' /\ TxWakeup' /\ Masked' /\ Fresh'
    BY <1>9 DEF RxEnable, SpaceExact, TxWakeup, Masked, Fresh
  <2>3. Copied'
    BY <1>9 DEF RxEnable, ReadReg, TxWakeup, Copied
  <2> QED BY <2>1, <2>2, <2>3
<1>10. CASE RxEnableEnd
  <2>1. IntrTypeOK'
    BY <1>10, IntrAssumption DEF RxEnableEnd, IntrTypeOK
  <2>2. SpaceExact' /\ TxWakeup' /\ Masked' /\ Fresh' /\ Copied'
    BY <1>10 DEF RxEnableEnd, SpaceExact, TxWakeup, Masked, Fresh, Copied
  <2> QED BY <2>1, <2>2
<1> QED
  BY <1>1, <1>2, <1>3, <1>4, <1>5, <1>6, <1>7, <1>8, <1>9, <1>10 DEF Code

(* So does the interrupt handler, wherever it strikes, and the line.       *)
LEMMA IntrInvIntr ==
  IntrInv /\ (Intr \/ Arrive \/ Depart) => IntrInv'
<1> SUFFICES ASSUME IntrInv, Intr \/ Arrive \/ Depart PROVE IntrInv'
  OBVIOUS
<1> USE DEF IntrInv, Label
<1>1. CASE RxIntr
  <2>1. events' \in 0..QLEN
    BY <1>1, IntrAssumption DEF RxIntr, IntrTypeOK
  <2>2. IntrTypeOK'
    BY <1>1, <2>1 DEF RxIntr, opVars, IntrTypeOK
  <2>3. SpaceExact' /\ TxWakeup' /\ Masked' /\ Fresh' /\ Copied'
    BY <1>1 DEF RxIntr, opVars, SpaceExact, TxWakeup, Masked, Fresh, Copied
  <2> QED BY <2>2, <2>3
<1>2. CASE TxIntr
  <2> DEFINE held   == SIZE - txSpace
             remain == UART_FIFO_LEN - txFifo
             n      == IF held > remain THEN remain ELSE held
  <2>1. held \in 0..SIZE /\ remain \in 0..UART_FIFO_LEN
    BY IntrAssumption DEF IntrTypeOK
  <2>2. n \in Nat /\ n <= held /\ n <= remain
    BY <2>1, IntrAssumption
  <2>3. /\ txFifo' = txFifo + n /\ txSpace' = txSpace + n /\ txHeld' = txHeld - n
        /\ txEna' = (held > remain)
        /\ UNCHANGED <<opVars, rxEna, rxSpace, rxFifo, events, arrived>>
    BY <1>2 DEF TxIntr, TxIntrLeaving
  <2>4. txFifo' \in 0..UART_FIFO_LEN /\ txSpace' \in 0..SIZE /\ txHeld' \in Int
    BY <2>1, <2>2, <2>3, IntrAssumption DEF IntrTypeOK
  <2>5. IntrTypeOK'
    BY <2>3, <2>4 DEF IntrTypeOK, opVars
  <2>6. SpaceExact'
    BY <2>2, <2>3, IntrAssumption DEF SpaceExact, IntrTypeOK
  <2>7. pc \notin {"check", "store", "set", "setw"}
    BY <1>2 DEF TxIntr, TxIntrLeaving, Masked
  <2>8. Masked' /\ Fresh'
    BY <2>3, <2>7 DEF Masked, Fresh, opVars
  <2>9. txHeld' > 0 => held > remain
    BY <2>1, <2>2, <2>3, IntrAssumption DEF SpaceExact, IntrTypeOK
  <2>10. TxWakeup'
    BY <2>3, <2>9 DEF TxWakeup
  <2>11. txHeld' > 0 => txHeld > 0
    BY <2>2, <2>3 DEF IntrTypeOK
  <2>12. Copied'
    BY <2>3, <2>11 DEF Copied, opVars
  <2> QED BY <2>5, <2>6, <2>8, <2>10, <2>12
<1>3. CASE Arrive
  <2>1. rxFifo' \in 0..UART_FIFO_LEN /\ arrived' \in 0..MAX_BYTES
    BY <1>3, IntrAssumption DEF Arrive, IntrTypeOK
  <2>2. IntrTypeOK'
    BY <1>3, <2>1 DEF Arrive, opVars, IntrTypeOK
  <2>3. SpaceExact' /\ TxWakeup' /\ Masked' /\ Fresh' /\ Copied'
    BY <1>3 DEF Arrive, opVars, SpaceExact, TxWakeup, Masked, Fresh, Copied
  <2> QED BY <2>2, <2>3
<1>4. CASE Depart
  <2>1. txFifo' \in 0..UART_FIFO_LEN
    BY <1>4, IntrAssumption DEF Depart, IntrTypeOK
  <2>2. IntrTypeOK'
    BY <1>4, <2>1 DEF Depart, opVars, IntrTypeOK
  <2>3. SpaceExact' /\ TxWakeup' /\ Masked' /\ Fresh' /\ Copied'
    BY <1>4 DEF Depart, opVars, SpaceExact, TxWakeup, Masked, Fresh, Copied
  <2> QED BY <2>2, <2>3
<1> QED BY <1>1, <1>2, <1>3, <1>4 DEF Intr

(* The conjunction holds in every state the driver reaches.                *)
LEMMA IntrInvAlways == Spec => []IntrInv
<1>1. IntrInv /\ [Next]_vars => IntrInv'
  <2> SUFFICES ASSUME IntrInv, [Next]_vars PROVE IntrInv'
    OBVIOUS
  <2>1. CASE Next
    BY <2>1, IntrInvCode, IntrInvIntr DEF Next
  <2>2. CASE UNCHANGED vars
    BY <2>2 DEF vars, opVars, IntrInv, IntrTypeOK, Label, SpaceExact, TxWakeup,
       Masked, Fresh, Copied
  <2> QED BY <2>1, <2>2
<1> QED BY <1>1, IntrInvInit, PTL DEF Spec

(* The variables keep their types: the receive ring always has a free      *)
(* byte, lengths stay within the FIFOs, for every size.                    *)
THEOREM IntrTypeCorrect == Spec => []IntrTypeOK
<1>1. IntrInv => IntrTypeOK
  BY DEF IntrInv
<1> QED BY <1>1, IntrInvAlways, PTL

(* tx_buff_enq and the transmit interrupt never lose an update of Space.   *)
THEOREM SpaceNeverLost == Spec => []SpaceExact
<1>1. IntrInv => SpaceExact
  BY DEF IntrInv
<1> QED BY <1>1, IntrInvAlways, PTL

(* A transmit ring that holds bytes has its interrupt enabled, or will     *)
(* have when tx_buff_enq returns.                                          *)
THEOREM NoLostWakeup == Spec => []TxWakeup
<1>1. IntrInv => TxWakeup
  BY DEF IntrInv
<1> QED BY <1>1, IntrInvAlways, PTL

-----------------------------------------------------------------------------
(* The bytes (UartRing).                                                   *)

(* A ring whose pointers and free space agree.                             *)
Agree(r) == (r.pOutPos + UartBuffSize - r.Space) % UartBuffSize = r.pInPos
Sound(r) == r \in Ring /\ Agree(r)

-----------------------------------------------------------------------------
(* What the definitions are built from.                                    *)

LEMMA SizeFacts == UartBuffSize \in Nat \ {0} /\ FIFO_LEN \in Nat \ {0}
  BY RingAssumption

(* Below twice the size, wrapping round is one comparison: for the place   *)
(* b after a, for the i-th byte from a, for the way back from p to q.      *)
LEMMA WrapSum ==
  ASSUME NEW a \in 0..UartBuffSize - 1, NEW b \in 0..UartBuffSize
  PROVE  /\ (a + b) % UartBuffSize
              = IF a + b < UartBuffSize THEN a + b ELSE a + b - UartBuffSize
         /\ (a + b) % UartBuffSize \in 0..UartBuffSize - 1
  BY SizeFacts

LEMMA WrapNth ==
  ASSUME NEW a \in 0..UartBuffSize - 1, NEW i \in 1..UartBuffSize
  PROVE  /\ (a + i - 1) % UartBuffSize
              = IF a + i - 1 < UartBuffSize THEN a + i - 1
                ELSE a + i - 1 - UartBuffSize
         /\ (a + i - 1) % UartBuffSize \in 0..UartBuffSize - 1
  BY SizeFacts

LEMMA WrapBack ==
  ASSUME NEW p \in 0..UartBuffSize - 1, NEW q \in 0..UartBuffSize - 1
  PROVE  (p + UartBuffSize - q) % UartBuffSize
            = IF p < q THEN p + UartBuffSize - q ELSE p - q
  BY SizeFacts

(* Where the i-th byte of a ring lies, counted from pInPos.                *)
LEMMA FromInPos ==
  ASSUME NEW o \in 0..UartBuffSize - 1, NEW held \in 0..UartBuffSize,
         NEW i \in 1..UartBuffSize
  PROVE  (((o + i - 1) % UartBuffSize) + UartBuffSize
            - ((o + held) % UartBuffSize)) % UartBuffSize
          = IF i <= held THEN UartBuffSize - held + i - 1 ELSE i - 1 - held
  <1> DEFINE p == (o + i - 1) % UartBuffSize
             q == (o + held) % UartBuffSize
  <1>1. /\ p = IF o + i - 1 < UartBuffSize THEN o + i - 1
               ELSE o + i - 1 - UartBuffSize
        /\ p \in 0..UartBuffSize - 1
    BY WrapNth
  <1>2. /\ q = IF o + held < UartBuffSize THEN o + held
               ELSE o + held - UartBuffSize
        /\ q \in 0..UartBuffSize - 1
    BY WrapSum
  <1> HIDE DEF p, q
  <1>3. (p + UartBuffSize - q) % UartBuffSize
           = IF p < q THEN p + UartBuffSize - q ELSE p - q
    BY <1>1, <1>2, WrapBack
  <1>4. (IF p < q THEN p + UartBuffSize - q ELSE p - q)
          = IF i <= held THEN UartBuffSize - held + i - 1 ELSE i - 1 - held
    BY <1>1, <1>2, SizeFacts
  <1>5. (p + UartBuffSize - q) % UartBuffSize
           = IF i <= held THEN UartBuffSize - held + i - 1 ELSE i - 1 - held
    BY <1>3, <1>4
  <1> QED
    BY <1>5 DEF p, q

LEMMA MinOfTwo ==
  ASSUME NEW a \in Nat, NEW b \in Nat
  PROVE  Min({a, b}) = IF a <= b THEN a ELSE b
  <1>1. CASE a <= b
    BY <1>1 DEF Min
  <1>2. CASE ~(a <= b)
    BY <1>2 DEF Min
  <1> QED
    BY <1>1, <1>2

LEMMA FunctionIsSeq ==
  ASSUME NEW S, NEW n \in Nat, NEW f \in [1..n -> S]
  PROVE  f \in Seq(S) /\ Len(f) = n
  OBVIOUS

(* A ring after bytes went in, and after bytes went out.                   *)
Filled(r, b, p, n) == [r EXCEPT !.buf = b, !.pInPos = p, !.Space = n]
Emptied(r, o, n)   == [r EXCEPT !.pOutPos = o, !.Space = n]

LEMMA FilledFields ==
  ASSUME NEW r \in Ring, NEW b, NEW p, NEW n
  PROVE  /\ Filled(r, b, p, n).buf = b /\ Filled(r, b, p, n).pInPos = p
         /\ Filled(r, b, p, n).pOutPos = r.pOutPos
         /\ Filled(r, b, p, n).Space = n
  BY DEF Ring, Filled

LEMMA EmptiedFields ==
  ASSUME NEW r \in Ring, NEW o, NEW n
  PROVE  /\ Emptied(r, o, n).buf = r.buf /\ Emptied(r, o, n).pInPos = r.pInPos
         /\ Emptied(r, o, n).pOutPos = o /\ Emptied(r, o, n).Space = n
  BY DEF Ring, Emptied

LEMMA RingChanges ==
  ASSUME NEW r \in Ring, NEW n \in 0..UartBuffSize
  PROVE  /\ \A b \in [Offset -> Byte], p \in Offset : Filled(r, b, p, n) \in Ring
         /\ \A o \in Offset : Emptied(r, o, n) \in Ring
  <1> DEFINE B == [Offset -> Byte]
             S == 0..UartBuffSize
             R == [buf : B, pInPos : Offset, pOutPos : Offset, Space : S]
  <1>1. r \in R /\ n \in S
    BY DEF Ring
  <1> HIDE DEF B, S
  <1>2. \A b \in B, p \in Offset : Filled(r, b, p, n) \in R
    BY <1>1 DEF Filled
  <1>3. \A o \in Offset : Emptied(r, o, n) \in R
    BY <1>1 DEF Emptied
  <1> QED
    BY <1>2, <1>3 DEF B, S, Ring

(* The numbers of a sound ring: pInPos lies Held places after pOutPos.     *)
Held(r) == UartBuffSize - r.Space

LEMMA RingFacts ==
  ASSUME NEW r, Sound(r)
  PROVE  /\ r.pOutPos \in 0..UartBuffSize - 1
         /\ r.Space \in 0..UartBuffSize
         /\ Held(r) \in 0..UartBuffSize /\ r.Space = UartBuffSize - Held(r)
         /\ r.buf \in [Offset -> Byte]
         /\ r.pInPos = (r.pOutPos + Held(r)) % UartBuffSize
         /\ r.pInPos \in 0..UartBuffSize - 1
  <1>1. /\ r.pOutPos \in 0..UartBuffSize - 1 /\ r.pInPos \in 0..UartBuffSize - 1
        /\ r.Space \in 0..UartBuffSize /\ r.buf \in [Offset -> Byte]
    BY DEF Sound, Ring, Offset
  <1>2. Held(r) \in 0..UartBuffSize /\ r.Space = UartBuffSize - Held(r)
    BY <1>1, SizeFacts DEF Held
  <1>3. r.pOutPos + UartBuffSize - r.Space = r.pOutPos + Held(r)
    BY <1>1, SizeFacts DEF Held
  <1>4. r.pInPos = (r.pOutPos + Held(r)) % UartBuffSize
    BY <1>3 DEF Sound, Agree
  <1> QED
    BY <1>1, <1>2, <1>4

(* What a sound ring holds is a sequence of bytes.                         *)
LEMMA ContentIsSeq ==
  ASSUME NEW r, Sound(r)
  PROVE  /\ Content(r) \in Seq(Byte) /\ Len(Content(r)) = Held(r)
         /\ \A i \in 1..Held(r) :
              Content(r)[i] = r.buf[(r.pOutPos + i - 1) % UartBuffSize]
  <1>0. /\ r.pOutPos \in 0..UartBuffSize - 1 /\ Held(r) \in 0..UartBuffSize
        /\ r.buf \in [Offset -> Byte]
    BY RingFacts
  <1>1. ASSUME NEW i \in 1..Held(r)
        PROVE  (r.pOutPos + i - 1) % UartBuffSize \in Offset
    <2>1. i \in 1..UartBuffSize
      BY <1>0, SizeFacts
    <2> QED
      BY <1>0, <2>1, WrapNth DEF Offset
  <1>2. Content(r) = [i \in 1..Held(r) |->
                        r.buf[(r.pOutPos + i - 1) % UartBuffSize]]
    BY DEF Content, Held
  <1>3. Content(r) \in [1..Held(r) -> Byte]
    BY <1>0, <1>1, <1>2
  <1>4. Content(r) \in Seq(Byte) /\ Len(Content(r)) = Held(r)
    BY <1>0, <1>3, FunctionIsSeq
  <1> QED
    BY <1>2, <1>4

(* Storing bytes in a sound ring appends them to what it holds.            *)
LEMMA StoreContent ==
  ASSUME NEW r, Sound(r), NEW s \in Seq(Byte), Len(s) <= r.Space
  PROVE  /\ Sound(StoreBytes(r, s))
         /\ StoreBytes(r, s).Space = r.Space - Len(s)
         /\ Content(StoreBytes(r, s)) = Content(r) \o s
  <1> DEFINE t == StoreBytes(r, s)
             o == r.pOutPos
             held == Held(r)
             size == Len(s)
             w == UartBuffSize
  <1>0. /\ o \in 0..w - 1 /\ held \in 0..w /\ r.Space = w - held
        /\ r.buf \in [Offset -> Byte]
        /\ r.pInPos = (o + held) % w /\ r.pInPos \in 0..w - 1
    BY RingFacts
  <1>size. size \in Nat /\ size <= r.Space /\ w \in Nat \ {0}
    BY SizeFacts
  <1> DEFINE b == [i \in Offset |->
                    LET k == (i + w - r.pInPos) % w
                    IN IF k < size THEN s[k + 1] ELSE r.buf[i]]
  <1>r. r \in Ring
    BY DEF Sound
  <1>2. t = Filled(r, b, (r.pInPos + size) % w, r.Space - size)
    BY DEF StoreBytes, Filled
  <1> HIDE DEF t, b, o, held, size, w
  <1>9. /\ t.buf = b /\ t.pInPos = (r.pInPos + size) % w /\ t.pOutPos = o
        /\ t.Space = r.Space - size
    BY <1>r, <1>2, FilledFields DEF o
  <1>1. w \in Nat \ {0} /\ size \in Nat /\ held + size \in 0..w
    BY <1>0, <1>size
  <1>3. b \in [Offset -> Byte]
    <2>1. ASSUME NEW i \in Offset, NEW k, k = (i + w - r.pInPos) % w
          PROVE  k < size => s[k + 1] \in Byte
      <3>1. i \in 0..w - 1
        BY DEF Offset, w
      <3>2. k = IF i < r.pInPos THEN i + w - r.pInPos ELSE i - r.pInPos
        BY <1>0, <2>1, <3>1, WrapBack DEF w
      <3>3. k < size => k + 1 \in 1..Len(s)
        <4>0. r.pInPos \in Nat /\ r.pInPos < w /\ w \in Nat
          BY <1>0, <1>1
        <4>1. k \in Nat
          BY <3>1, <3>2, <4>0
        <4>2. k < size => k + 1 \in 1..size
          BY <1>1, <4>1
        <4> QED
          BY <4>2 DEF size
      <3> QED
        BY <3>3
    <2> QED
      BY <1>0, <2>1 DEF b
  <1>4. /\ Held(t) = held + size /\ t.Space \in 0..w
        /\ t.Space = w - (held + size)
    <2>1. Held(t) = w - (r.Space - size)
      BY <1>9 DEF Held, w
    <2>2. /\ r.Space = w - held /\ t.Space = r.Space - size
          /\ held \in Int /\ size \in Int /\ w \in Int
      BY <1>0, <1>1, <1>9
    <2>3. t.Space = w - (held + size) /\ Held(t) = held + size
      BY <2>1, <2>2
    <2> QED
      BY <1>1, <2>3
  <1>5. t.pInPos = (o + (held + size)) % w /\ t.pInPos \in 0..w - 1
    <2>1. r.pInPos = IF o + held < w THEN o + held ELSE o + held - w
      BY <1>0, WrapSum DEF w
    <2>2. /\ t.pInPos = IF r.pInPos + size < w THEN r.pInPos + size
                        ELSE r.pInPos + size - w
          /\ t.pInPos \in 0..w - 1
      <3>1. size \in 0..w
        BY <1>0, <1>1
      <3> QED
        BY <1>0, <1>9, <3>1, WrapSum DEF w
    <2> DEFINE z == (o + (held + size)) % w
    <2>3. z = IF o + (held + size) < w THEN o + (held + size)
              ELSE o + (held + size) - w
      BY <1>0, <1>1, WrapSum DEF w
    <2> HIDE DEF z
    <2>4. t.pInPos = z
      <3>1. /\ o \in Nat /\ o < w /\ held \in Nat /\ held + size <= w
            /\ r.pInPos \in Nat
        BY <1>0, <1>1
      <3> QED
        BY <1>1, <2>1, <2>2, <2>3, <3>1
    <2> QED
      BY <2>2, <2>4 DEF z
  <1>6. Sound(t)
    <2>1. t \in Ring
      <3>1. t.pInPos \in Offset /\ t.Space \in 0..UartBuffSize
        BY <1>0, <1>4, <1>5 DEF Offset, w
      <3>2. t = Filled(r, b, t.pInPos, t.Space)
        BY <1>2, <1>9
      <3>3. Filled(r, b, t.pInPos, t.Space) \in Ring
        BY <1>r, <1>3, <3>1, RingChanges
      <3> QED
        BY <3>2, <3>3
    <2>2. t.pOutPos + w - t.Space = o + (held + size)
      BY <1>0, <1>1, <1>9, <1>4
    <2> QED
      BY <1>5, <2>1, <2>2 DEF Sound, Agree, w
  <1>7. ASSUME NEW i \in 1..held + size
        PROVE  t.buf[(t.pOutPos + i - 1) % w] =
                 IF i <= held THEN r.buf[(o + i - 1) % w] ELSE s[i - held]
    <2> DEFINE p == (o + i - 1) % w
               k == (p + w - r.pInPos) % w
    <2>1. i \in 1..w
      BY <1>0, <1>1
    <2>2. p \in Offset
      BY <1>0, <2>1, WrapNth DEF Offset, w
    <2>3. k = IF i <= held THEN w - held + i - 1 ELSE i - 1 - held
      BY <1>0, <2>1, FromInPos DEF w
    <2> HIDE DEF p, k
    <2>4. t.buf[p] = IF k < size THEN s[k + 1] ELSE r.buf[p]
      BY <1>9, <2>2 DEF k, b
    <2>5. CASE i <= held
      <3>1. ~(k < size)
        BY <1>0, <1>1, <2>1, <2>3, <2>5
      <3> QED
        BY <1>9, <2>4, <2>5, <3>1 DEF p
    <2>6. CASE ~(i <= held)
      <3>1. k < size /\ k + 1 = i - held
        BY <1>0, <1>1, <2>1, <2>3, <2>6
      <3> QED
        BY <1>9, <2>4, <2>6, <3>1 DEF p
    <2> QED
      BY <2>5, <2>6
  <1>8. Content(t) = Content(r) \o s
    <2>1. /\ Content(t) \in Seq(Byte) /\ Len(Content(t)) = held + size
          /\ \A i \in 1..held + size :
               Content(t)[i] = t.buf[(t.pOutPos + i - 1) % w]
      BY <1>4, <1>6, ContentIsSeq DEF w
    <2>2. /\ Content(r) \in Seq(Byte) /\ Len(Content(r)) = held
          /\ \A i \in 1..held : Content(r)[i] = r.buf[(o + i - 1) % w]
      BY ContentIsSeq DEF held, o, w
    <2>3. /\ Content(r) \o s \in Seq(Byte)
          /\ Len(Content(r) \o s) = held + size
          /\ \A i \in 1..held + size :
               (Content(r) \o s)[i] = IF i <= held THEN Content(r)[i]
                                      ELSE s[i - held]
      BY <2>2, ConcatProperties DEF size
    <2>4. \A i \in 1..held + size : Content(t)[i] = (Content(r) \o s)[i]
      <3> TAKE i \in 1..held + size
      <3>1. i <= held => i \in 1..held
        BY <1>0, <1>1
      <3> QED
        BY <1>7, <2>1, <2>2, <2>3, <3>1
    <2> QED
      BY <2>1, <2>3, <2>4, SeqEqual
  <1> QED
    BY <1>9, <1>6, <1>8 DEF t, size

-----------------------------------------------------------------------------
(* The n oldest bytes of a ring.                                           *)
Taken(r, n) == [i \in 1..n |-> r.buf[(r.pOutPos + i - 1) % UartBuffSize]]

(* The place of the j-th byte after n bytes have gone.                     *)
LEMMA FromOutPos ==
  ASSUME NEW o \in 0..UartBuffSize - 1, NEW n \in Nat, NEW j \in Nat \ {0},
         n + j <= UartBuffSize
  PROVE  (((o + n) % UartBuffSize) + j - 1) % UartBuffSize
          = (o + (n + j) - 1) % UartBuffSize
  <1> DEFINE w == UartBuffSize
             p == (o + n) % w
             x == (p + j - 1) % w
             y == (o + (n + j) - 1) % w
  <1>1. w \in Nat \ {0} /\ o \in 0..w - 1 /\ n \in 0..w /\ j \in 1..w
        /\ n + j \in 1..w
    BY SizeFacts
  <1>2. p = (IF o + n < w THEN o + n ELSE o + n - w) /\ p \in 0..w - 1
    BY <1>1, WrapSum
  <1> HIDE DEF w, p
  <1>3. x = IF p + j - 1 < w THEN p + j - 1 ELSE p + j - 1 - w
    BY <1>1, <1>2, WrapNth DEF w
  <1>4. y = IF o + (n + j) - 1 < w THEN o + (n + j) - 1
            ELSE o + (n + j) - 1 - w
    BY <1>1, WrapNth DEF w
  <1> HIDE DEF x, y
  <1>5. x = y
    BY <1>1, <1>2, <1>3, <1>4
  <1> QED
    BY <1>5, Zenon DEF x, y, p, w

(* Taking bytes out of a sound ring leaves the rest of what it holds.      *)
LEMMA TakeContent ==
  ASSUME NEW r, Sound(r), NEW n \in 0..Held(r)
  PROVE  /\ Sound(tx_fifo_insert(r, n))
         /\ tx_fifo_insert(r, n).Space = r.Space + n
         /\ Taken(r, n) \in Seq(Byte) /\ Len(Taken(r, n)) = n
         /\ Content(r) = Taken(r, n) \o Content(tx_fifo_insert(r, n))
  <1> DEFINE t == tx_fifo_insert(r, n)
             o == r.pOutPos
             held == Held(r)
             w == UartBuffSize
  <1>0. /\ o \in 0..w - 1 /\ held \in 0..w /\ r.Space = w - held
        /\ r.buf \in [Offset -> Byte]
        /\ r.pInPos = (o + held) % w /\ r.pInPos \in 0..w - 1
    BY RingFacts
  <1>1. w \in Nat \ {0} /\ n \in 0..w /\ n <= held
    BY <1>0, SizeFacts
  <1>2. r \in Ring
    BY DEF Sound
  <1>3. t = Emptied(r, (o + n) % w, r.Space + n)
    BY DEF tx_fifo_insert, Emptied
  <1> HIDE DEF t, o, held, w
  <1>4. /\ t.buf = r.buf /\ t.pInPos = r.pInPos /\ t.pOutPos = (o + n) % w
        /\ t.Space = r.Space + n
    BY <1>2, <1>3, EmptiedFields
  <1>5. /\ t.pOutPos = (IF o + n < w THEN o + n ELSE o + n - w)
        /\ t.pOutPos \in 0..w - 1
    BY <1>0, <1>1, <1>4, WrapSum DEF w
  <1>6. Held(t) = held - n /\ t.Space \in 0..w
    <2>1. Held(t) = w - (r.Space + n)
      BY <1>4 DEF Held, w
    <2> QED
      BY <1>0, <1>1, <1>4, <2>1
  <1>7. Sound(t)
    <2>1. t = Emptied(r, t.pOutPos, t.Space)
      BY <1>3, <1>4
    <2>2. Emptied(r, t.pOutPos, t.Space) \in Ring
      BY <1>2, <1>5, <1>6, RingChanges DEF w, Offset
    <2> DEFINE q == t.pOutPos
               m == held - n
               z == (q + m) % w
               y == (o + held) % w
    <2>3. z = IF q + m < w THEN q + m ELSE q + m - w
      <3>1. q \in 0..w - 1 /\ m \in 0..w
        BY <1>0, <1>1, <1>5
      <3> HIDE DEF q, m
      <3> QED
        BY <3>1, WrapSum DEF w
    <2>4. y = IF o + held < w THEN o + held ELSE o + held - w
      BY <1>0, WrapSum DEF w
    <2>5. q + w - t.Space = q + m
      BY <1>0, <1>1, <1>4, <1>5
    <2> HIDE DEF z, y
    <2>6. z = y
      BY <1>0, <1>1, <1>5, <2>3, <2>4
    <2>7. (q + w - t.Space) % w = t.pInPos
      BY <1>0, <1>4, <2>5, <2>6, Zenon DEF z, y
    <2> QED
      BY <2>1, <2>2, <2>7 DEF Sound, Agree, w
  <1>8. \A i \in 1..held : (o + i - 1) % w \in Offset
    <2> TAKE i \in 1..held
    <2>1. i \in 1..w
      BY <1>0, <1>1
    <2> QED
      BY <1>0, <2>1, WrapNth DEF Offset, w
  <1>9. /\ Taken(r, n) \in Seq(Byte) /\ Len(Taken(r, n)) = n
        /\ \A i \in 1..n : Taken(r, n)[i] = r.buf[(o + i - 1) % w]
    <2>1. Taken(r, n) = [i \in 1..n |-> r.buf[(o + i - 1) % w]]
      BY DEF Taken, o, w
    <2>2. \A i \in 1..n : i \in 1..held
      BY <1>0, <1>1
    <2>3. Taken(r, n) \in [1..n -> Byte]
      BY <1>0, <1>8, <2>1, <2>2
    <2>4. Taken(r, n) \in Seq(Byte) /\ Len(Taken(r, n)) = n
      BY <1>1, <2>3, FunctionIsSeq
    <2> QED
      BY <2>1, <2>4
  <1>10. Content(r) = Taken(r, n) \o Content(t)
    <2>1. /\ Content(t) \in Seq(Byte) /\ Len(Content(t)) = held - n
          /\ \A i \in 1..held - n :
               Content(t)[i] = r.buf[(t.pOutPos + i - 1) % w]
      BY <1>4, <1>6, <1>7, ContentIsSeq DEF w
    <2>2. /\ Content(r) \in Seq(Byte) /\ Len(Content(r)) = held
          /\ \A i \in 1..held : Content(r)[i] = r.buf[(o + i - 1) % w]
      BY ContentIsSeq DEF held, o, w
    <2>3. /\ Taken(r, n) \o Content(t) \in Seq(Byte)
          /\ Len(Taken(r, n) \o Content(t)) = held
          /\ \A i \in 1..held :
               (Taken(r, n) \o Content(t))[i] =
                 IF i <= n THEN Taken(r, n)[i] ELSE Content(t)[i - n]
      <3>1. Len(Taken(r, n)) + Len(Content(t)) = held
        BY <1>0, <1>1, <1>9, <2>1
      <3>2. /\ Taken(r, n) \o Content(t) \in Seq(Byte)
            /\ Len(Taken(r, n) \o Content(t)) = Len(Taken(r, n)) + Len(Content(t))
            /\ \A i \in 1..Len(Taken(r, n)) + Len(Content(t)) :
                 (Taken(r, n) \o Content(t))[i] =
                   IF i <= Len(Taken(r, n)) THEN Taken(r, n)[i]
                   ELSE Content(t)[i - Len(Taken(r, n))]
        BY <1>9, <2>1, ConcatProperties
      <3> QED
        BY <1>9, <3>1, <3>2
    <2>4. \A i \in 1..held : Content(r)[i] = (Taken(r, n) \o Content(t))[i]
      <3> TAKE i \in 1..held
      <3>1. CASE i <= n
        <4>1. i \in 1..n
          BY <1>0, <1>1, <3>1
        <4> QED
          BY <1>9, <2>2, <2>3, <3>1, <4>1
      <3>2. CASE ~(i <= n)
        <4> DEFINE j == i - n
        <4>1. /\ j \in 1..held - n /\ n \in Nat /\ j \in Nat \ {0}
              /\ n + j = i /\ n + j <= w /\ i - n = j
          BY <1>0, <1>1, <3>2
        <4> HIDE DEF j
        <4>2. (((o + n) % w) + j - 1) % w = (o + (n + j) - 1) % w
          BY <1>0, <4>1, FromOutPos DEF w
        <4>3. Content(t)[j] = r.buf[(((o + n) % w) + j - 1) % w]
          BY <1>4, <2>1, <4>1
        <4>4. Content(t)[j] = r.buf[(o + i - 1) % w]
          BY <4>1, <4>2, <4>3, Zenon
        <4>5. (Taken(r, n) \o Content(t))[i] = Content(t)[j]
          BY <2>3, <3>2, <4>1
        <4> QED
          BY <2>2, <4>4, <4>5
      <3> QED
        BY <3>1, <3>2
    <2> QED
      BY <2>2, <2>3, <2>4, SeqEqual
  <1> QED
    BY <1>4, <1>7, <1>9, <1>10 DEF t

-----------------------------------------------------------------------------
(* Uart_Buf_Cpy, in one part or in two, stores the bytes one after the     *)
(* other.                                                                  *)
LEMMA CpyStores ==
  ASSUME NEW r, Sound(r), NEW s \in Seq(Byte), Len(s) <= r.Space
  PROVE  Uart_Buf_Cpy(r, s) = StoreBytes(r, s)
  <1> DEFINE w == UartBuffSize
             p == r.pInPos
             size == Len(s)
             tail == w - p
             b == [i \in Offset |-> LET k == (i + w - p) % w
                                   IN IF k < size THEN s[k + 1] ELSE r.buf[i]]
  <1>0. /\ p \in 0..w - 1 /\ r.Space \in 0..w /\ r.buf \in [Offset -> Byte]
        /\ w \in Nat \ {0} /\ size \in Nat /\ size <= r.Space
    BY RingFacts, SizeFacts
  <1>1. r \in Ring
    BY DEF Sound
  <1>2. StoreBytes(r, s) = Filled(r, b, (p + size) % w, r.Space - size)
    BY DEF StoreBytes, Filled
  <1> HIDE DEF w, p, size, b
  <1>3. ASSUME NEW i \in Offset
        PROVE  b[i] = IF p <= i /\ i < p + size THEN s[i - p + 1]
                      ELSE IF i < p /\ i < size - tail THEN s[i + tail + 1]
                      ELSE r.buf[i]
    <2> DEFINE k == (i + w - p) % w
    <2>1. i \in 0..w - 1
      BY DEF Offset, w
    <2>2. k = IF i < p THEN i + w - p ELSE i - p
      BY <1>0, <2>1, WrapBack DEF w
    <2>3. b[i] = IF k < size THEN s[k + 1] ELSE r.buf[i]
      BY DEF b
    <2> HIDE DEF k
    <2>4. CASE i < p
      <3>1. (k < size <=> i < size - tail) /\ k + 1 = i + tail + 1 /\ ~(p <= i)
        BY <1>0, <2>1, <2>2, <2>4
      <3> QED
        BY <2>3, <2>4, <3>1
    <2>5. CASE ~(i < p)
      <3>1. (k < size <=> i < p + size) /\ k + 1 = i - p + 1 /\ p <= i
        BY <1>0, <2>1, <2>2, <2>5
      <3> QED
        BY <2>3, <2>5, <3>1
    <2> QED
      BY <2>4, <2>5
  <1>4. CASE tail >= size
    <2>1. Uart_Buf_Cpy(r, s) = CopyIn(r, s)
      BY <1>4 DEF Uart_Buf_Cpy, w, p, size
    <2>2. CopyIn(r, s) = Filled(r, Written(r.buf, p, s), (p + size) % w,
                                r.Space - size)
      BY DEF CopyIn, Filled, w, p, size
    <2>3. Written(r.buf, p, s) = b
      <3>1. ASSUME NEW i \in Offset
            PROVE  Written(r.buf, p, s)[i] = b[i]
        <4>1. ~(i < p /\ i < size - tail)
          BY <1>0, <1>4 DEF Offset, w
        <4> QED
          BY <1>3, <4>1 DEF Written, size
      <3>2. Written(r.buf, p, s) = [i \in Offset |-> Written(r.buf, p, s)[i]]
        BY DEF Written
      <3>3. b = [i \in Offset |-> b[i]]
        BY DEF b
      <3> QED
        BY <3>1, <3>2, <3>3
    <2> QED
      BY <1>2, <2>1, <2>2, <2>3
  <1>5. CASE ~(tail >= size)
    <2> DEFINE s1 == SubSeq(s, 1, tail)
               s2 == SubSeq(s, tail + 1, size)
               r1 == CopyIn(r, s1)
               b1 == Written(r.buf, p, s1)
               b2 == Written(b1, 0, s2)
    <2>1. Uart_Buf_Cpy(r, s) = CopyIn(r1, s2)
      BY <1>5 DEF Uart_Buf_Cpy, w, p, size
    <2>2. /\ Len(s1) = tail /\ Len(s2) = size - tail /\ tail \in 1..w
          /\ \A i \in 1..tail : s1[i] = s[i]
          /\ \A i \in 1..size - tail : s2[i] = s[i + tail]
      BY <1>0, <1>5 DEF size
    <2>3. r1 = Filled(r, b1, (p + Len(s1)) % w, r.Space - Len(s1))
      BY DEF CopyIn, Filled, w, p
    <2>4. CopyIn(r1, s2) = Filled(r1, Written(r1.buf, r1.pInPos, s2),
                                  (r1.pInPos + Len(s2)) % w,
                                  r1.Space - Len(s2))
      BY DEF CopyIn, Filled, w
    <2> HIDE DEF r1, s1, s2
    <2>5. r1.buf = b1 /\ r1.pInPos = 0 /\ r1.Space = r.Space - tail
      <3>1. /\ r1.buf = b1 /\ r1.pInPos = (p + Len(s1)) % w
            /\ r1.Space = r.Space - Len(s1)
        BY <1>1, <2>3, FilledFields
      <3>2. (p + Len(s1)) % w = 0
        <4>1. /\ Len(s1) \in 0..w
              /\ p + Len(s1) = w
          BY <1>0, <2>2
        <4>2. (p + Len(s1)) % w = IF p + Len(s1) < w THEN p + Len(s1)
                                  ELSE p + Len(s1) - w
          BY <1>0, <4>1, WrapSum DEF w
        <4> QED
          BY <1>0, <4>1, <4>2
      <3> QED
        BY <2>2, <3>1, <3>2
    <2>6. (r1.pInPos + Len(s2)) % w = (p + size) % w
      <3>1. (p + size) % w = IF p + size < w THEN p + size ELSE p + size - w
        <4>1. size \in 0..w
          BY <1>0
        <4> QED
          BY <1>0, <4>1, WrapSum DEF w
      <3>2. (0 + Len(s2)) % w = IF 0 + Len(s2) < w THEN 0 + Len(s2)
                                ELSE 0 + Len(s2) - w
        <4>1. Len(s2) \in 0..w /\ 0 \in 0..w - 1
          BY <1>0, <2>2
        <4> QED
          BY <4>1, WrapSum DEF w
      <3>3. p + size - w = Len(s2) /\ Len(s2) < w /\ ~(p + size < w)
        BY <1>0, <1>5, <2>2
      <3> QED
        BY <2>5, <3>1, <3>2, <3>3
    <2>7. r1.Space - Len(s2) = r.Space - size
      BY <1>0, <2>2, <2>5
    <2>8. b2 = b
      <3>1. ASSUME NEW i \in Offset
            PROVE  b2[i] = b[i]
        <4>1. i \in 0..w - 1
          BY DEF Offset, w
        <4>2. b2[i] = IF 0 <= i /\ i < 0 + Len(s2) THEN s2[i - 0 + 1]
                      ELSE IF p <= i /\ i < p + Len(s1) THEN s1[i - p + 1]
                      ELSE r.buf[i]
          BY DEF Written
        <4>3. CASE i < size - tail
          <5>1. i < p /\ i + 1 \in 1..size - tail /\ ~(p <= i)
            BY <1>0, <1>5, <2>2, <4>1, <4>3
          <5>2. s2[i + 1] = s[i + 1 + tail] /\ i + 1 + tail = i + tail + 1
            BY <1>0, <2>2, <4>1, <5>1
          <5>3. b2[i] = s2[i + 1]
            BY <2>2, <4>1, <4>2, <4>3
          <5> QED
            BY <1>3, <4>3, <5>1, <5>2, <5>3
        <4>4. CASE ~(i < size - tail) /\ p <= i
          <5>1. i < p + size /\ i < p + Len(s1) /\ i - p + 1 \in 1..tail
            BY <1>0, <1>5, <2>2, <4>1, <4>4
          <5>2. b2[i] = s1[i - p + 1]
            BY <2>2, <4>1, <4>2, <4>4, <5>1
          <5> QED
            BY <1>3, <2>2, <4>4, <5>1, <5>2
        <4>5. CASE ~(i < size - tail) /\ ~(p <= i)
          <5>1. b2[i] = r.buf[i]
            BY <2>2, <4>1, <4>2, <4>5
          <5> QED
            BY <1>3, <4>5, <5>1
        <4> QED
          BY <4>3, <4>4, <4>5
      <3>2. b2 = [i \in Offset |-> b2[i]]
        BY DEF Written
      <3>3. b = [i \in Offset |-> b[i]]
        BY DEF b
      <3> QED
        BY <3>1, <3>2, <3>3
    <2>9. CopyIn(r1, s2) = Filled(r1, b, (p + size) % w, r.Space - size)
      BY <2>4, <2>5, <2>6, <2>7, <2>8
    <2>10. Filled(r1, b, (p + size) % w, r.Space - size)
             = Filled(r, b, (p + size) % w, r.Space - size)
      BY <1>1, <2>3 DEF Filled, Ring
    <2> QED
      BY <1>2, <2>1, <2>9, <2>10
  <1> QED
    BY <1>4, <1>5

(* What rx_buff_deq hands out are the oldest bytes, as many as it is asked *)
(* for or as there are, although it tells wrapped from not wrapped by      *)
(* comparing the pointers: the ring is never completely full.              *)
LEMMA DeqTakes ==
  ASSUME NEW r, Sound(r), r.Space > 0, NEW n \in Nat
  PROVE  /\ DeqLen(r, n) \in 0..Held(r)
         /\ DeqRing(r, n) = tx_fifo_insert(r, DeqLen(r, n))
         /\ DeqData(r, n) = Taken(r, DeqLen(r, n))
  <1> DEFINE w == UartBuffSize
             o == r.pOutPos
             p == r.pInPos
             held == Held(r)
             size == DeqLen(r, n)
             tail == w - o
  <1>0. /\ o \in 0..w - 1 /\ p \in 0..w - 1 /\ held \in 0..w
        /\ r.Space = w - held /\ r.buf \in [Offset -> Byte]
        /\ p = (o + held) % w /\ w \in Nat \ {0}
    BY RingFacts, SizeFacts
  <1>1. size \in 0..held
    <2>1. w - r.Space = held
      BY <1>0
    <2>2. size = IF n <= held THEN n ELSE held
      BY <1>0, <2>1, MinOfTwo DEF DeqLen
    <2> QED
      BY <1>0, <2>2
  <1>2. DeqRing(r, n) = Emptied(r, IF o <= p THEN o + size ELSE (o + size) % w,
                                r.Space + size)
    BY DEF DeqRing, Emptied
  <1>3. tx_fifo_insert(r, size) = Emptied(r, (o + size) % w, r.Space + size)
    BY DEF tx_fifo_insert, Emptied
  <1> HIDE DEF w, o, p, held, size
  <1>4. held < w
    BY <1>0 DEF w
  <1>5. p = IF o + held < w THEN o + held ELSE o + held - w
    BY <1>0, WrapSum DEF w
  <1>6. o <= p => o + size < w
    BY <1>0, <1>1, <1>4, <1>5
  <1>7. (o + size) % w = IF o + size < w THEN o + size ELSE o + size - w
    <2>1. size \in 0..w
      BY <1>0, <1>1
    <2> QED
      BY <1>0, <2>1, WrapSum DEF w
  <1>8. DeqRing(r, n) = tx_fifo_insert(r, size)
    <2>1. (IF o <= p THEN o + size ELSE (o + size) % w) = (o + size) % w
      BY <1>6, <1>7
    <2> QED
      BY <1>2, <1>3, <2>1
  <1>9. ASSUME NEW i \in 1..size
        PROVE  (o + i - 1) % w = IF o + i - 1 < w THEN o + i - 1
                                 ELSE o + i - 1 - w
    <2>1. i \in 1..w
      BY <1>0, <1>1
    <2> QED
      BY <1>0, <2>1, WrapNth DEF w
  <1>10. Taken(r, size) = [i \in 1..size |-> r.buf[(o + i - 1) % w]]
    BY DEF Taken, o, w
  <1>11. DeqData(r, n) = Taken(r, size)
    <2>1. CASE o <= p \/ size <= tail
      <3>1. DeqData(r, n) = [i \in 1..size |-> r.buf[o + i - 1]]
        BY <2>1 DEF DeqData, Bytes, w, o, p, size
      <3>2. ASSUME NEW i \in 1..size
            PROVE  (o + i - 1) % w = o + i - 1
        <4>1. o + i - 1 < w
          BY <1>0, <1>1, <1>6, <2>1
        <4> QED
          BY <1>9, <4>1
      <3> QED
        BY <1>10, <3>1, <3>2
    <2>2. CASE ~(o <= p \/ size <= tail)
      <3> DEFINE s1 == Bytes(r.buf, o, tail)
                 s2 == Bytes(r.buf, 0, size - tail)
      <3>1. DeqData(r, n) = s1 \o s2
        BY <2>2 DEF DeqData, w, o, p, size
      <3>2. tail \in 1..w /\ tail <= size /\ size - tail \in 0..w /\ size <= w
        BY <1>0, <1>1, <2>2
      <3>3. s1 \in Seq(Byte) /\ Len(s1) = tail
        <4>1. s1 \in [1..tail -> Byte]
          <5>1. \A i \in 1..tail : o + i - 1 \in Offset
            BY <1>0 DEF Offset, w
          <5> QED
            BY <1>0, <5>1 DEF Bytes
        <4> HIDE DEF s1
        <4> QED
          BY <3>2, <4>1, FunctionIsSeq
      <3>4. s2 \in Seq(Byte) /\ Len(s2) = size - tail
        <4>1. s2 \in [1..size - tail -> Byte]
          <5>1. \A i \in 1..size - tail : 0 + i - 1 \in Offset
            BY <1>0, <3>2 DEF Offset, w
          <5> QED
            BY <1>0, <5>1 DEF Bytes
        <4> HIDE DEF s2
        <4> QED
          BY <3>2, <4>1, FunctionIsSeq
      <3>5. /\ \A i \in 1..tail : s1[i] = r.buf[o + i - 1]
            /\ \A i \in 1..size - tail : s2[i] = r.buf[0 + i - 1]
        BY DEF Bytes
      <3> HIDE DEF s1, s2
      <3>6. /\ s1 \o s2 \in Seq(Byte)
            /\ Len(s1 \o s2) = Len(s1) + Len(s2)
            /\ \A i \in 1..Len(s1) + Len(s2) :
                 (s1 \o s2)[i] = IF i <= Len(s1) THEN s1[i] ELSE s2[i - Len(s1)]
        BY <3>3, <3>4, ConcatProperties
      <3>7. Len(s1) + Len(s2) = size
        BY <1>0, <1>1, <3>2, <3>3, <3>4
      <3>8. ASSUME NEW i \in 1..size
            PROVE  (s1 \o s2)[i] = Taken(r, size)[i]
        <4>1. CASE i <= tail
          <5>1. i \in 1..tail /\ o + i - 1 < w
            BY <1>0, <1>1, <3>2, <4>1
          <5>2. (s1 \o s2)[i] = r.buf[o + i - 1]
            BY <3>3, <3>5, <3>6, <3>7, <4>1, <5>1
          <5> QED
            BY <1>9, <1>10, <5>1, <5>2
        <4>2. CASE ~(i <= tail)
          <5>1. /\ i - tail \in 1..size - tail /\ ~(o + i - 1 < w)
                /\ 0 + (i - tail) - 1 = o + i - 1 - w
            BY <1>0, <1>1, <3>2, <4>2
          <5>2. (s1 \o s2)[i] = r.buf[o + i - 1 - w]
            BY <3>3, <3>5, <3>6, <3>7, <4>2, <5>1
          <5> QED
            BY <1>9, <1>10, <5>1, <5>2
        <4> QED
          BY <4>1, <4>2
      <3>9. Taken(r, size) \in Seq(Byte) /\ Len(Taken(r, size)) = size
        BY <1>1, TakeContent DEF held
      <3> QED
        BY <3>1, <3>6, <3>7, <3>8, <3>9, SeqEqual
    <2> QED
      BY <2>1, <2>2
  <1> QED
    BY <1>1, <1>8, <1>11 DEF size, held

-----------------------------------------------------------------------------
(* The inductive invariant: RingOK, and the FIFOs are sequences of bytes.  *)
RxInv == /\ Sound(rx) /\ rx.Space > 0
         /\ rxBytes \in Seq(Byte) /\ Len(rxBytes) <= FIFO_LEN
TxInv == /\ Sound(tx)
         /\ txBytes \in Seq(Byte) /\ Len(txBytes) <= FIFO_LEN

LEMMA InitSound ==
  ASSUME RingInit
  PROVE  /\ RxInv /\ TxInv
         /\ Content(rx) \o rxBytes = <<>> /\ txBytes \o Content(tx) = <<>>
  <1>1. Uart_Buf_Init \in Ring
    <2>1. (CHOOSE b \in Byte : TRUE) \in Byte
      BY RingAssumption
    <2> QED
      BY <2>1, SizeFacts DEF Uart_Buf_Init, Ring, Offset
  <1>2. /\ Uart_Buf_Init.pOutPos = 0 /\ Uart_Buf_Init.pInPos = 0
        /\ Uart_Buf_Init.Space = UartBuffSize
    BY DEF Uart_Buf_Init
  <1>3. Agree(Uart_Buf_Init)
    <2>1. 0 + UartBuffSize - UartBuffSize = 0 + 0
      BY SizeFacts
    <2>2. (0 + 0) % UartBuffSize = 0
      <3>1. 0 \in 0..UartBuffSize - 1 /\ 0 \in 0..UartBuffSize
        BY SizeFacts
      <3> QED
        BY <3>1, WrapSum, SizeFacts
    <2> QED
      BY <1>2, <2>1, <2>2 DEF Agree
  <1>4. Sound(Uart_Buf_Init)
    BY <1>1, <1>3 DEF Sound
  <1>5. Content(Uart_Buf_Init) = <<>>
    <2>1. Held(Uart_Buf_Init) = 0
      BY <1>2, SizeFacts DEF Held
    <2> QED
      BY <1>4, <2>1, ContentIsSeq, EmptySeq
  <1>6. <<>> \in Seq(Byte) /\ Len(<<>>) = 0 /\ <<>> \o <<>> = <<>>
    BY EmptySeq, ConcatEmptySeq
  <1>7. rx = Uart_Buf_Init /\ tx = Uart_Buf_Init /\ rxBytes = <<>> /\ txBytes = <<>>
    BY DEF RingInit
  <1>8. UartBuffSize > 0 /\ 0 <= FIFO_LEN
    BY SizeFacts
  <1> QED
    BY <1>2, <1>4, <1>5, <1>6, <1>7, <1>8 DEF RxInv, TxInv

-----------------------------------------------------------------------------
(* The receive side.                                                       *)
RxQ == Content(rx) \o rxBytes

LEMMA RxFacts ==
  ASSUME RxInv
  PROVE  /\ Content(rx) \in Seq(Byte) /\ Len(Content(rx)) \in 0..UartBuffSize
         /\ RxQ \in Seq(Byte) /\ Len(RxQ) <= UartBuffSize + FIFO_LEN
  <1>1. Content(rx) \in Seq(Byte) /\ Len(Content(rx)) \in 0..UartBuffSize
    BY ContentIsSeq, RingFacts DEF RxInv
  <1>2. RxQ \in Seq(Byte) /\ Len(RxQ) = Len(Content(rx)) + Len(rxBytes)
    BY <1>1, ConcatProperties DEF RxInv, RxQ
  <1>3. Len(rxBytes) \in Nat /\ Len(rxBytes) <= FIFO_LEN
    BY DEF RxInv
  <1> QED
    BY <1>1, <1>2, <1>3, SizeFacts

(* Every step of the receive side keeps its ring sound, and puts bytes at  *)
(* the end of what is under way, takes some from its front, or changes     *)
(* nothing an observer sees.                                               *)
LEMMA RxSteps ==
  ASSUME RxInv, Rx
  PROVE  /\ RxInv'
         /\ \/ \E b \in Byte : rxIo' = <<"put", <<b>>>> /\ RxQ' = RxQ \o <<b>>
            \/ rxIo'[1] = "get" /\ RxQ = rxIo'[2] \o RxQ'
            \/ rxIo' = rxIo /\ RxQ' = RxQ
  <1>0. /\ Sound(rx) /\ rx.Space > 0 /\ rxBytes \in Seq(Byte)
        /\ Len(rxBytes) \in Nat /\ Len(rxBytes) <= FIFO_LEN
        /\ Content(rx) \in Seq(Byte)
    BY RxFacts DEF RxInv
  <1>1. CASE ByteIn
    <2>1. PICK b \in Byte : /\ rxBytes' = Append(rxBytes, b)
                            /\ rxIo' = <<"put", <<b>>>>
      BY <1>1 DEF ByteIn
    <2>2. rx' = rx /\ Len(rxBytes) < FIFO_LEN
      BY <1>1 DEF ByteIn
    <2>3. /\ rxBytes' \in Seq(Byte) /\ Len(rxBytes') = Len(rxBytes) + 1
          /\ rxBytes' = rxBytes \o <<b>> /\ <<b>> \in Seq(Byte)
      BY <1>0, <2>1, AppendProperties, AppendIsConcat
    <2>4. Len(rxBytes') <= FIFO_LEN
      BY <1>0, <2>2, <2>3, SizeFacts
    <2>5. RxInv'
      BY <1>0, <2>2, <2>3, <2>4 DEF RxInv
    <2>6. Content(rx)' = Content(rx)
      BY <2>2
    <2>7. RxQ' = RxQ \o <<b>>
      BY <1>0, <2>3, <2>6, ConcatAssociative DEF RxQ
    <2> QED
      BY <2>1, <2>5, <2>7
  <1>2. CASE Uart_rx_buff_enq
    <2>1. /\ rx' = StoreBytes(rx, rxBytes) /\ rxBytes' = <<>> /\ rxIo' = rxIo
          /\ Len(rxBytes) < rx.Space
      BY <1>2 DEF Uart_rx_buff_enq, RxFits
    <2>2. rx.Space \in Nat
      BY <1>0, RingFacts
    <2>3. Len(rxBytes) <= rx.Space
      BY <1>0, <2>1, <2>2
    <2>4. /\ Sound(rx') /\ rx'.Space = rx.Space - Len(rxBytes)
          /\ Content(rx') = Content(rx) \o rxBytes
      BY <1>0, <2>1, <2>3, StoreContent
    <2>5. rx'.Space > 0
      BY <1>0, <2>1, <2>2, <2>4
    <2>6. <<>> \in Seq(Byte) /\ Len(<<>>) = 0 /\ 0 <= FIFO_LEN
      BY SizeFacts, EmptySeq
    <2>7. RxInv'
      BY <2>1, <2>4, <2>5, <2>6 DEF RxInv
    <2>8. RxQ' = RxQ
      <3>1. RxQ' = Content(rx') \o <<>>
        BY <2>1 DEF RxQ
      <3>2. RxQ \in Seq(Byte)
        BY RxFacts
      <3> QED
        BY <2>4, <3>1, <3>2, ConcatEmptySeq DEF RxQ
    <2> QED
      BY <2>1, <2>7, <2>8
  <1>3. CASE uart_rx_buff_deq
    <2>1. PICK n \in 1..UartBuffSize : /\ rx' = DeqRing(rx, n)
                                       /\ rxIo' = <<"get", DeqData(rx, n)>>
      BY <1>3 DEF uart_rx_buff_deq
    <2> DEFINE size == DeqLen(rx, n)
    <2>2. /\ size \in 0..Held(rx) /\ rx' = tx_fifo_insert(rx, size)
          /\ rxIo'[1] = "get" /\ rxIo'[2] = Taken(rx, size)
      BY <1>0, <2>1, DeqTakes, SizeFacts
    <2> HIDE DEF size
    <2>3. /\ Sound(rx') /\ rx'.Space = rx.Space + size
          /\ Taken(rx, size) \in Seq(Byte)
          /\ Content(rx) = Taken(rx, size) \o Content(rx')
      BY <1>0, <2>2, TakeContent
    <2>4. rxBytes' = rxBytes
      BY <1>3 DEF uart_rx_buff_deq
    <2>5. RxInv'
      <3>1. rx'.Space > 0
        <4>1. rx.Space \in Nat /\ size \in Nat
          BY <1>0, <2>2, RingFacts
        <4> QED
          BY <1>0, <2>3, <4>1
      <3> QED
        BY <1>0, <2>3, <2>4, <3>1 DEF RxInv
    <2>6. RxQ = Taken(rx, size) \o RxQ'
      <3>1. Content(rx') \in Seq(Byte)
        BY <2>3, ContentIsSeq
      <3>2. RxQ' = Content(rx') \o rxBytes
        BY <2>4 DEF RxQ
      <3> QED
        BY <1>0, <2>3, <3>1, <3>2, ConcatAssociative DEF RxQ
    <2> QED
      BY <2>2, <2>5, <2>6
  <1> QED
    BY <1>1, <1>2, <1>3 DEF Rx

-----------------------------------------------------------------------------
(* The transmit side.                                                      *)
TxQ == txBytes \o Content(tx)

LEMMA TxFacts ==
  ASSUME TxInv
  PROVE  /\ Content(tx) \in Seq(Byte) /\ Len(Content(tx)) \in 0..UartBuffSize
         /\ TxQ \in Seq(Byte) /\ Len(TxQ) <= UartBuffSize + FIFO_LEN
  <1>1. Content(tx) \in Seq(Byte) /\ Len(Content(tx)) \in 0..UartBuffSize
    BY ContentIsSeq, RingFacts DEF TxInv
  <1>2. TxQ \in Seq(Byte) /\ Len(TxQ) = Len(txBytes) + Len(Content(tx))
    BY <1>1, ConcatProperties DEF TxInv, TxQ
  <1>3. Len(txBytes) \in Nat /\ Len(txBytes) <= FIFO_LEN
    BY DEF TxInv
  <1> QED
    BY <1>1, <1>2, <1>3, SizeFacts

LEMMA TxSteps ==
  ASSUME TxInv, Tx
  PROVE  /\ TxInv'
         /\ \/ \E s \in Seq(Byte) : txIo' = <<"put", s>> /\ TxQ' = TxQ \o s
            \/ txIo'[1] = "get" /\ TxQ = txIo'[2] \o TxQ'
            \/ txIo' = txIo /\ TxQ' = TxQ
  <1>0. /\ Sound(tx) /\ txBytes \in Seq(Byte)
        /\ Len(txBytes) \in Nat /\ Len(txBytes) <= FIFO_LEN
        /\ Content(tx) \in Seq(Byte) /\ tx.Space \in 0..UartBuffSize
    BY TxFacts, RingFacts DEF TxInv
  <1>1. CASE tx_buff_enq
    <2>1. PICK s \in BoundedSeq(Byte, UartBuffSize) :
            IF Len(s) <= tx.Space
              THEN tx' = Uart_Buf_Cpy(tx, s) /\ txIo' = <<"put", s>>
              ELSE UNCHANGED <<tx, txIo>>
      BY <1>1 DEF tx_buff_enq
    <2>2. s \in Seq(Byte) /\ txBytes' = txBytes
      BY <1>1, SizeFacts, FunctionIsSeq DEF tx_buff_enq, BoundedSeq, SeqOf
    <2>3. CASE Len(s) <= tx.Space
      <3>1. tx' = StoreBytes(tx, s) /\ txIo' = <<"put", s>>
        BY <1>0, <2>1, <2>2, <2>3, CpyStores
      <3>2. Sound(tx') /\ Content(tx') = Content(tx) \o s
        BY <1>0, <2>2, <2>3, <3>1, StoreContent
      <3>3. TxInv'
        BY <1>0, <2>2, <3>2 DEF TxInv
      <3>4. TxQ' = TxQ \o s
        <4>1. TxQ' = txBytes \o (Content(tx) \o s)
          BY <2>2, <3>2 DEF TxQ
        <4>2. (txBytes \o Content(tx)) \o s = txBytes \o (Content(tx) \o s)
          BY <1>0, <2>2, ConcatAssociative
        <4> QED
          BY <4>1, <4>2 DEF TxQ
      <3> QED
        BY <2>2, <3>1, <3>3, <3>4
    <2>4. CASE ~(Len(s) <= tx.Space)
      <3>1. tx' = tx /\ txIo' = txIo
        BY <2>1, <2>4
      <3> QED
        BY <1>0, <2>2, <3>1 DEF TxInv, TxQ, Content
    <2> QED
      BY <2>3, <2>4
  <1>2. CASE tx_start_uart_buffer
    <2> DEFINE n == Min({UartBuffSize - tx.Space, FIFO_LEN - Len(txBytes)})
    <2>1. /\ txBytes' = txBytes \o Taken(tx, n) /\ tx' = tx_fifo_insert(tx, n)
          /\ txIo' = txIo
      BY <1>2 DEF tx_start_uart_buffer, Taken
    <2>2. n \in 0..Held(tx) /\ n <= FIFO_LEN - Len(txBytes)
      <3>1. Held(tx) \in Nat /\ FIFO_LEN - Len(txBytes) \in Nat
        BY <1>0, SizeFacts DEF Held
      <3>2. n = IF Held(tx) <= FIFO_LEN - Len(txBytes) THEN Held(tx)
                ELSE FIFO_LEN - Len(txBytes)
        BY <3>1, MinOfTwo DEF Held
      <3> HIDE DEF n
      <3> QED
        BY <3>1, <3>2
    <2> HIDE DEF n
    <2>3. /\ Sound(tx') /\ Taken(tx, n) \in Seq(Byte) /\ Len(Taken(tx, n)) = n
          /\ Content(tx) = Taken(tx, n) \o Content(tx')
      BY <1>0, <2>1, <2>2, TakeContent
    <2>4. txBytes' \in Seq(Byte) /\ Len(txBytes') = Len(txBytes) + n
      BY <1>0, <2>1, <2>3, ConcatProperties
    <2>5. TxInv'
      <3>1. Len(txBytes') <= FIFO_LEN
        BY <1>0, <2>2, <2>4, SizeFacts
      <3> QED
        BY <2>3, <2>4, <3>1 DEF TxInv
    <2>6. TxQ' = TxQ
      <3>1. Content(tx') \in Seq(Byte)
        BY <2>3, ContentIsSeq
      <3>2. TxQ' = (txBytes \o Taken(tx, n)) \o Content(tx')
        BY <2>1 DEF TxQ
      <3> QED
        BY <1>0, <2>3, <3>1, <3>2, ConcatAssociative DEF TxQ
    <2> QED
      BY <2>1, <2>5, <2>6
  <1>3. CASE ByteOut
    <2>1. /\ txBytes # <<>> /\ txBytes' = Tail(txBytes) /\ tx' = tx
          /\ txIo' = <<"get", <<Head(txBytes)>>>>
      BY <1>3 DEF ByteOut
    <2>2. /\ Tail(txBytes) \in Seq(Byte) /\ Len(Tail(txBytes)) = Len(txBytes) - 1
          /\ <<Head(txBytes)>> \in Seq(Byte)
      BY <1>0, <2>1
    <2>3. txBytes = <<Head(txBytes)>> \o Tail(txBytes)
      BY <1>0, <2>1, <2>2, HeadTailProperties
    <2>4. TxInv'
      <3>1. Len(txBytes') <= FIFO_LEN
        BY <1>0, <2>1, <2>2, SizeFacts
      <3> QED
        BY <1>0, <2>1, <2>2, <3>1 DEF TxInv
    <2>5. TxQ = <<Head(txBytes)>> \o TxQ'
      <3>1. TxQ' = Tail(txBytes) \o Content(tx)
        BY <2>1 DEF TxQ
      <3> QED
        BY <1>0, <2>2, <2>3, <3>1, ConcatAssociative DEF TxQ
    <2> QED
      BY <2>1, <2>4, <2>5
  <1> QED
    BY <1>1, <1>2, <1>3 DEF Tx

-----------------------------------------------------------------------------
LEMMA NextInv == RxInv /\ TxInv /\ [RingNext]_ringVars => RxInv' /\ TxInv'
  <1> SUFFICES ASSUME RxInv, TxInv, [RingNext]_ringVars
               PROVE  RxInv' /\ TxInv'
    OBVIOUS
  <1>1. CASE Rx
    <2>1. UNCHANGED txVars
      BY <1>1 DEF Rx, ByteIn, Uart_rx_buff_enq, uart_rx_buff_deq
    <2> QED
      BY <1>1, <2>1, RxSteps DEF txVars, TxInv
  <1>2. CASE Tx
    <2>1. UNCHANGED rxVars
      BY <1>2 DEF Tx, tx_buff_enq, tx_start_uart_buffer, ByteOut
    <2> QED
      BY <1>2, <2>1, TxSteps DEF rxVars, RxInv
  <1>3. CASE UNCHANGED ringVars
    BY <1>3 DEF ringVars, rxVars, txVars, RxInv, TxInv
  <1> QED
    BY <1>1, <1>2, <1>3 DEF RingNext

LEMMA InitInv == RingInit => RxInv /\ TxInv
  BY InitSound

(* The pointers and the free space of both rings agree, and the receive    *)
(* ring is never completely full: Uart_rx_buff_enq, rx_buff_deq,           *)
(* tx_buff_enq and tx_start_uart_buffer, for rings of any size.            *)
THEOREM RingCorrect == RingSpec => []RingOK
  <1>1. RxInv /\ TxInv => RingOK
    BY DEF RxInv, TxInv, RingOK, Sound, Agree
  <1> QED
    BY <1>1, InitInv, NextInv, PTL DEF RingSpec

(* Receive FIFO and ring together hand out the bytes that arrived, in      *)
(* order, each once: every step of theirs is a step of ByteQueue or none.  *)
THEOREM RxImplementsQueue == RingSpec => RxIsQueue
  <1>a. RxInv => Len(RxQ) <= UartBuffSize + FIFO_LEN
    BY RxFacts
  <1>0. RxInv' => (Len(RxQ) <= UartBuffSize + FIFO_LEN)'
    BY <1>a, PTL
  <1>1. RingInit => RxQueue!QueueInit
    BY InitSound DEF RingInit, RxQueue!QueueInit
  <1>2. RxInv /\ RxInv' /\ [RingNext]_ringVars
          => [RxQueue!QueueNext]_<<Content(rx) \o rxBytes, rxIo>>
    <2> SUFFICES ASSUME RxInv, RxInv', [RingNext]_ringVars
                 PROVE  RxQueue!QueueNext \/ (RxQ' = RxQ /\ rxIo' = rxIo)
      BY DEF RxQ
    <2>1. CASE Rx
      <3>1. ASSUME NEW b \in Byte, rxIo' = <<"put", <<b>>>>, RxQ' = RxQ \o <<b>>
            PROVE  RxQueue!Put
        <4>1. Len(RxQ') <= UartBuffSize + FIFO_LEN
          BY <1>0
        <4>2. /\ rxIo'[1] = "put" /\ rxIo'[2] = <<b>> /\ <<b>> \in Seq(Byte)
          BY <3>1
        <4> QED
          BY <3>1, <4>1, <4>2 DEF RxQueue!Put, RxQ
      <3>2. ASSUME rxIo'[1] = "get", RxQ = rxIo'[2] \o RxQ'
            PROVE  RxQueue!Get
        BY <3>2 DEF RxQueue!Get, RxQ
      <3> QED
        BY <2>1, <3>1, <3>2, RxSteps DEF RxQueue!QueueNext
    <2>2. CASE UNCHANGED rxVars
      BY <2>2 DEF rxVars, RxQ, Content
    <2>3. Rx \/ UNCHANGED rxVars
      BY DEF RingNext, Tx, tx_buff_enq, tx_start_uart_buffer, ByteOut, ringVars
    <2> QED
      BY <2>1, <2>2, <2>3
  <1>3. RingSpec => RxQueue!QueueInit
                      /\ [][RxQueue!QueueNext]_<<Content(rx) \o rxBytes, rxIo>>
    BY <1>1, <1>2, InitInv, NextInv, PTL DEF RingSpec
  <1> QED
    BY <1>3 DEF RxIsQueue, RxQueue!QueueSpec

(* Transmit ring and FIFO together send what tx_buff_enq accepted, in      *)
(* order, each byte once, stored in one part or in two.                    *)
THEOREM TxImplementsQueue == RingSpec => TxIsQueue
  <1>a. TxInv => Len(TxQ) <= UartBuffSize + FIFO_LEN
    BY TxFacts
  <1>0. TxInv' => (Len(TxQ) <= UartBuffSize + FIFO_LEN)'
    BY <1>a, PTL
  <1>1. RingInit => TxQueue!QueueInit
    BY InitSound DEF RingInit, TxQueue!QueueInit
  <1>2. TxInv /\ TxInv' /\ [RingNext]_ringVars
          => [TxQueue!QueueNext]_<<txBytes \o Content(tx), txIo>>
    <2> SUFFICES ASSUME TxInv, TxInv', [RingNext]_ringVars
                 PROVE  TxQueue!QueueNext \/ (TxQ' = TxQ /\ txIo' = txIo)
      BY DEF TxQ
    <2>1. CASE Tx
      <3>1. ASSUME NEW s \in Seq(Byte), txIo' = <<"put", s>>, TxQ' = TxQ \o s
            PROVE  TxQueue!Put
        <4>1. Len(TxQ') <= UartBuffSize + FIFO_LEN
          BY <1>0
        <4>2. txIo'[1] = "put" /\ txIo'[2] = s
          BY <3>1
        <4> QED
          BY <3>1, <4>1, <4>2 DEF TxQueue!Put, TxQ
      <3>2. ASSUME txIo'[1] = "get", TxQ = txIo'[2] \o TxQ'
            PROVE  TxQueue!Get
        BY <3>2 DEF TxQueue!Get, TxQ
      <3> QED
        BY <2>1, <3>1, <3>2, TxSteps DEF TxQueue!QueueNext
    <2>2. CASE UNCHANGED txVars
      BY <2>2 DEF txVars, TxQ, Content
    <2>3. Tx \/ UNCHANGED txVars
      BY DEF RingNext, Rx, ByteIn, Uart_rx_buff_enq, uart_rx_buff_deq, ringVars
    <2> QED
      BY <2>1, <2>2, <2>3
  <1>3. RingSpec => TxQueue!QueueInit
                      /\ [][TxQueue!QueueNext]_<<txBytes \o Content(tx), txIo>>
    BY <1>1, <1>2, InitInv, NextInv, PTL DEF RingSpec
  <1> QED
    BY <1>3 DEF TxIsQueue, TxQueue!QueueSpec

-----------------------------------------------------------------------------
(* The queue of messages (MqttQueue).                                      *)

(* Some numbers have a least one. If not, every number below all of them   *)
(* can be followed by another, and the bounded, hence finite, set of these *)
(* has a map onto itself, k to k - 1, that is not injective: 0 and 1 go to *)
(* 0.                                                                      *)
LEMMA LeastNumber ==
  ASSUME NEW S, S \subseteq Nat, S # {}
  PROVE  \E m \in S : \A x \in S : m <= x
  <1> SUFFICES ASSUME \A m \in S : \E x \in S : x < m
               PROVE  FALSE
    OBVIOUS
  <1> DEFINE L == {k \in Nat : \A x \in S : k <= x}
             Pred == [k \in L |-> IF k = 0 THEN 0 ELSE k - 1]
  <1>1. 0 \in L /\ \A k \in L : k + 1 \in L
    OBVIOUS
  <1>2. IsFiniteSet(L)
    <2>1. PICK x \in S : TRUE
      OBVIOUS
    <2>2. x \in Nat /\ L \in SUBSET Nat /\ \A k \in L : k <= x
      BY <2>1
    <2> HIDE DEF L
    <2> QED
      BY <2>2, FS_BoundedSetOfNaturals
  <1>3. Pred \in Surjection(L, L)
    <2>1. Pred \in [L -> L]
      OBVIOUS
    <2>2. \A k \in L : k + 1 \in L /\ Pred[k + 1] = k
      BY <1>1
    <2> QED
      BY <2>1, <2>2 DEF Surjection
  <1>4. Pred \in Injection(L, L)
    BY <1>2, <1>3, FS_SurjSameCardinalityImpliesInj
  <1>5. 1 \in L /\ Pred[0] = 0 /\ Pred[1] = 0
    BY <1>1
  <1> QED
    BY <1>1, <1>4, <1>5 DEF Injection, IsInjective

(* Induction over the numbers up to m, for a set.                          *)
LEMMA UpTo ==
  ASSUME NEW m \in Nat, NEW S, 0 \in S,
         \A n \in Nat : n < m /\ n \in S => n + 1 \in S
  PROVE  \A n \in 0..m : n \in S
  <1> DEFINE D == {n \in 0..m : n \notin S}
  <1> SUFFICES ASSUME D # {} PROVE FALSE
    OBVIOUS
  <1>1. PICK k \in D : \A x \in D : k <= x
    <2>1. D \subseteq Nat
      OBVIOUS
    <2> HIDE DEF D
    <2> QED
      BY <2>1, LeastNumber
  <1>2. k \in 0..m /\ k # 0 /\ k \notin S
    OBVIOUS
  <1>3. k - 1 \in Nat /\ k - 1 < m /\ (k - 1) + 1 = k /\ k - 1 \in 0..m
    BY <1>2
  <1>4. k - 1 \in S
    BY <1>1, <1>3
  <1> QED
    BY <1>2, <1>3, <1>4

Loop(f, m, X, x0, F) ==
  f \in [0..m -> X] /\ f[0] = x0 /\ \A k \in 1..m : f[k] = F[k][f[k - 1]]
Loops(f, m, X, x0, F) ==
  /\ f = [k \in 0..m |-> f[k]] /\ f[0] = x0
  /\ \A k \in 1..m : f[k - 1] \in X => f[k] = F[k][f[k - 1]]

(* A loop of m rounds, each a function of its number and of what the one   *)
(* before left in X, has a value after every number of rounds.             *)
LEMMA LoopExists ==
  ASSUME NEW m \in Nat, NEW X, NEW x0 \in X, NEW F \in [1..m -> [X -> X]]
  PROVE  \E f : Loop(f, m, X, x0, F)
  <1> DEFINE Is(f, n) == f[0] = x0 /\ \A k \in 1..n : f[k] = F[k][f[k - 1]]
             S == {n \in 0..m : \E f \in [0..n -> X] : Is(f, n)}
  <1>1. 0 \in S
    <2> DEFINE f == [k \in 0..0 |-> x0]
    <2>1. f \in [0..0 -> X] /\ Is(f, 0)
      OBVIOUS
    <2> HIDE DEF Is, f
    <2> QED
      BY <2>1
  <1>2. ASSUME NEW n \in Nat, n < m, n \in S PROVE n + 1 \in S
    <2>1. PICK f \in [0..n -> X] : Is(f, n)
      BY <1>2
    <2> DEFINE y == F[n + 1][f[n]]
               g == [k \in 0..(n + 1) |-> IF k <= n THEN f[k] ELSE y]
    <2>2. y \in X
      BY <1>2
    <2>3. g \in [0..(n + 1) -> X]
      <3> HIDE DEF y
      <3> QED
        BY <2>2, <1>2
    <2>4. ASSUME NEW k \in 1..(n + 1) PROVE g[k] = F[k][g[k - 1]]
      <3>1. k - 1 \in 0..n /\ g[k - 1] = f[k - 1]
        <4> HIDE DEF y
        <4> QED
          BY <1>2
      <3>2. CASE k <= n
        <4>1. k \in 1..n /\ g[k] = f[k]
          BY <3>2, <1>2
        <4> HIDE DEF g
        <4> QED
          BY <4>1, <3>1, <2>1
      <3>3. CASE k = n + 1
        <4>1. g[k] = y /\ k - 1 = n
          <5> HIDE DEF y
          <5> QED
            BY <3>3, <1>2
        <4> HIDE DEF g
        <4> QED
          BY <4>1, <3>1, <3>3
      <3> QED
        BY <3>2, <3>3, <1>2
    <2>5. g[0] = x0
      <3> HIDE DEF y
      <3> QED
        BY <2>1, <1>2
    <2>6. n + 1 \in 0..m
      BY <1>2
    <2> HIDE DEF g
    <2> QED
      BY <2>3, <2>4, <2>5, <2>6
  <1>3. m \in S
    <2> HIDE DEF S
    <2>1. \A n \in 0..m : n \in S
      BY <1>1, <1>2, UpTo
    <2> QED
      BY <2>1
  <1> QED
    BY <1>3 DEF Loop

(* A function that is such a loop has its values in X.                     *)
LEMMA LoopIn ==
  ASSUME NEW m \in Nat, NEW X, NEW x0 \in X, NEW F \in [1..m -> [X -> X]],
         NEW h, Loops(h, m, X, x0, F)
  PROVE  h \in [0..m -> X]
  <1> USE DEF Loops
  <1> DEFINE S == {n \in 0..m : h[n] \in X}
  <1>1. 0 \in S
    OBVIOUS
  <1>2. ASSUME NEW n \in Nat, n < m, n \in S PROVE n + 1 \in S
    <2>1. n + 1 \in 1..m /\ n + 1 \in 0..m /\ (n + 1) - 1 = n /\ h[n] \in X
      BY <1>2
    <2>2. h[n + 1] = F[n + 1][h[n]]
      BY <2>1
    <2> QED
      BY <2>1, <2>2
  <1> HIDE DEF S
  <1>3. \A n \in 0..m : n \in S
    BY <1>1, <1>2, UpTo
  <1>4. \A n \in 0..m : h[n] \in X
    BY <1>3 DEF S
  <1> QED
    BY <1>4

-----------------------------------------------------------------------------
(* The values of the queue's data, and what keeps them so.                 *)
Octet  == 0..255
Index  == 0..QUEUE_BUFFER_SIZE-1
Buffer == [buf : [Index -> Octet], p_r : Index, p_w : Index, fill_cnt : Int]
Parser == [begin : BOOLEAN, esc : BOOLEAN, data : Seq(Octet)]

LEMMA QueueSize ==
  QUEUE_BUFFER_SIZE \in Nat /\ QUEUE_BUFFER_SIZE >= 2 /\ Message \subseteq Seq(Octet)
  BY QueueAssumption DEF Octet

LEMMA XorOctet == \A c \in Octet : Xor20(c) \in Octet
  BY DEF Octet, Xor20

LEMMA CodedSeq == \A c \in Octet : Coded(c) \in Seq(Octet)
  <1> SUFFICES ASSUME NEW c \in Octet PROVE Coded(c) \in Seq(Octet)
    OBVIOUS
  <1>1. ESC \in Octet /\ Xor20(c) \in Octet
    BY XorOctet, 125 \in 0..255 DEF ESC, Octet
  <1>2. <<ESC, Xor20(c)>> \in Seq(Octet) /\ <<c>> \in Seq(Octet)
    BY <1>1
  <1> QED
    BY <1>2 DEF Coded

(* A ring after a byte went in and after one came out.                     *)
LEMMA PutFields ==
  ASSUME NEW r \in Buffer, NEW c \in Octet
  PROVE  /\ RINGBUF_Put(r, c) \in Buffer
         /\ RINGBUF_Put(r, c).buf = [r.buf EXCEPT ![r.p_w] = c]
         /\ RINGBUF_Put(r, c).p_r = r.p_r
         /\ RINGBUF_Put(r, c).p_w = Rolled(r.p_w + 1)
         /\ RINGBUF_Put(r, c).fill_cnt = r.fill_cnt + 1
  <1> DEFINE b == [r.buf EXCEPT ![r.p_w] = c]
             w == Rolled(r.p_w + 1)
             n == r.fill_cnt + 1
             B == [Index -> Octet]
  <1>1. b \in B
    BY DEF Buffer
  <1>2. w \in Index /\ n \in Int
    BY QueueSize DEF Buffer, Rolled, Index
  <1>3. RINGBUF_Put(r, c) = [r EXCEPT !.buf = b, !.p_w = w, !.fill_cnt = n]
    BY DEF RINGBUF_Put, Stored
  <1>4. r \in [buf : B, p_r : Index, p_w : Index, fill_cnt : Int]
    BY DEF Buffer
  <1> HIDE DEF b, w, n, B
  <1>5. /\ RINGBUF_Put(r, c) \in [buf : B, p_r : Index, p_w : Index, fill_cnt : Int]
        /\ RINGBUF_Put(r, c).buf = b /\ RINGBUF_Put(r, c).p_r = r.p_r
        /\ RINGBUF_Put(r, c).p_w = w /\ RINGBUF_Put(r, c).fill_cnt = n
    BY <1>1, <1>2, <1>3, <1>4
  <1> QED
    BY <1>5 DEF b, w, n, B, Buffer

LEMMA GetFields ==
  ASSUME NEW r \in Buffer
  PROVE  /\ RINGBUF_Get(r) \in Buffer
         /\ RINGBUF_Get(r).buf = r.buf
         /\ RINGBUF_Get(r).p_r = Rolled(r.p_r + 1)
         /\ RINGBUF_Get(r).p_w = r.p_w
         /\ RINGBUF_Get(r).fill_cnt = r.fill_cnt - 1
  <1> DEFINE p == Rolled(r.p_r + 1)
             n == r.fill_cnt - 1
             B == [Index -> Octet]
  <1>2. p \in Index /\ n \in Int
    BY QueueSize DEF Buffer, Rolled, Index
  <1>3. RINGBUF_Get(r) = [r EXCEPT !.p_r = p, !.fill_cnt = n]
    BY DEF RINGBUF_Get
  <1>4. r \in [buf : B, p_r : Index, p_w : Index, fill_cnt : Int]
    BY DEF Buffer
  <1> HIDE DEF p, n, B
  <1>5. /\ RINGBUF_Get(r) \in [buf : B, p_r : Index, p_w : Index, fill_cnt : Int]
        /\ RINGBUF_Get(r).buf = r.buf /\ RINGBUF_Get(r).p_r = p
        /\ RINGBUF_Get(r).p_w = r.p_w /\ RINGBUF_Get(r).fill_cnt = n
    BY <1>2, <1>3, <1>4
  <1> QED
    BY <1>5 DEF p, n, B, Buffer

LEMMA InitParser ==
  \A b \in BOOLEAN : /\ PROTO_Init(b) \in Parser /\ PROTO_Init(b).begin = b
                     /\ PROTO_Init(b).esc = FALSE /\ PROTO_Init(b).data = <<>>
  BY DEF PROTO_Init, Parser

LEMMA ParseParser ==
  ASSUME NEW p \in Parser, NEW c \in Octet
  PROVE  PROTO_ParseByte(p, c) \in Parser
  <1> DEFINE D == Seq(Octet)
  <1>1. p \in [begin : BOOLEAN, esc : BOOLEAN, data : D] /\ p.data \in D
    BY DEF Parser
  <1>2. Append(p.data, IF p.esc THEN Xor20(c) ELSE c) \in D
    <2>1. (IF p.esc THEN Xor20(c) ELSE c) \in Octet
      BY XorOctet
    <2> QED
      BY <1>1, <2>1, AppendProperties, Zenon
  <1>3. PROTO_Init(TRUE) \in Parser
    BY InitParser
  <1> HIDE DEF D
  <1>4. /\ [p EXCEPT !.esc = TRUE] \in [begin : BOOLEAN, esc : BOOLEAN, data : D]
        /\ [p EXCEPT !.begin = FALSE] \in [begin : BOOLEAN, esc : BOOLEAN, data : D]
        /\ [p EXCEPT !.esc = FALSE, !.data = Append(p.data, IF p.esc THEN Xor20(c) ELSE c)]
             \in [begin : BOOLEAN, esc : BOOLEAN, data : D]
    BY <1>1, <1>2
  <1>5. Parser = [begin : BOOLEAN, esc : BOOLEAN, data : D]
    BY DEF Parser, D
  <1> QED
    BY <1>1, <1>3, <1>4, <1>5 DEF PROTO_ParseByte

-----------------------------------------------------------------------------
(* What the loops are: Body, PROTO_AddRb, PROTO_ParseRb, Messages and      *)
(* MQTT_Publish, round by round.                                           *)
LEMMA BodyIs ==
  ASSUME NEW m \in Seq(Octet)
  PROVE  /\ Body(m) \in [0..Len(m) -> Seq(Octet)]
         /\ Body(m)[0] = <<>>
         /\ \A k \in 1..Len(m) :
              Body(m)[k] = Body(m)[k - 1] \o Coded(m[k])
  <1> DEFINE X == Seq(Octet)
             L == Len(m)
             x0 == <<>>
             St(k, x) == x \o Coded(m[k])
             F == [k \in 1..L |-> [x \in X |-> St(k, x)]]
             Fix(f) == [k \in 0..L |-> IF k = 0 THEN x0 ELSE St(k, f[k - 1])]
             h == CHOOSE f : f = Fix(f)
  <1>1. L \in Nat /\ x0 \in X
    OBVIOUS
  <1>2. \A k \in 1..L, x \in X : St(k, x) \in X
    <2>1. \A k \in 1..L : Coded(m[k]) \in X
      BY CodedSeq, ElementOfSeq
    <2> HIDE DEF L
    <2> QED
      BY <2>1, ConcatProperties
  <1> HIDE DEF X, L, x0, St, F
  <1>4. F \in [1..L -> [X -> X]] /\ \A k \in 1..L, x \in X : F[k][x] = St(k, x)
    BY <1>2 DEF F
  <1>5. PICK g : Loop(g, L, X, x0, F)
    BY <1>1, <1>4, LoopExists
  <1>6. \A k \in 0..L : g[k] = IF k = 0 THEN x0 ELSE St(k, g[k - 1])
    <2>1. ASSUME NEW k \in 0..L, k # 0 PROVE g[k] = St(k, g[k - 1])
      <3>1. k \in 1..L /\ k - 1 \in 0..L
        BY <1>1, <2>1
      <3> QED
        BY <3>1, <1>4, <1>5 DEF Loop
    <2> QED
      BY <2>1, <1>5 DEF Loop
  <1>7. h = Fix(h)
    <2>1. g = Fix(g)
      BY <1>5, <1>6 DEF Loop
    <2> HIDE DEF Fix
    <2> QED
      BY <2>1
  <1>8. Body(m) = h
    BY DEF Body, L, x0, St
  <1> HIDE DEF h
  <1>9. /\ h = [k \in 0..L |-> h[k]] /\ h[0] = x0
        /\ \A k \in 1..L : h[k] = St(k, h[k - 1])
    <2>1. \A k \in 0..L : h[k] = IF k = 0 THEN x0 ELSE St(k, h[k - 1])
      BY <1>7, Zenon
    <2>2. h = [k \in 0..L |-> h[k]]
      BY <1>7, <2>1, Zenon
    <2>3. 0 \in 0..L /\ \A k \in 1..L : k \in 0..L /\ k # 0
      BY <1>1
    <2> QED
      BY <2>1, <2>2, <2>3, Zenon
  <1>10. h \in [0..L -> X]
    <2>1. Loops(h, L, X, x0, F)
      BY <1>4, <1>9 DEF Loops
    <2> QED
      BY <1>1, <1>4, <2>1, LoopIn
  <1> QED
    BY <1>8, <1>9, <1>10 DEF X, L, x0, St

LEMMA PutOneIn ==
  ASSUME NEW a \in [r : Buffer, ok : BOOLEAN], NEW c \in Octet
  PROVE  PutOne(a, c) \in [r : Buffer, ok : BOOLEAN]
  <1>1. RINGBUF_Put(a.r, c) \in Buffer
    BY PutFields
  <1> QED
    BY <1>1 DEF PutOne

LEMMA BufferByte ==
  ASSUME NEW r \in Buffer, NEW i \in Index PROVE r.buf[i] \in Octet
  BY DEF Buffer

LEMMA GetOneIn ==
  ASSUME NEW a \in [r : Buffer, p : Parser, ok : BOOLEAN]
  PROVE  GetOne(a) \in [r : Buffer, p : Parser, ok : BOOLEAN]
  <1>1. a.r \in Buffer /\ a.p \in Parser /\ a.r.p_r \in Index
    BY DEF Buffer
  <1>2. RINGBUF_Get(a.r) \in Buffer
    BY <1>1, GetFields
  <1>3. PROTO_ParseByte(a.p, a.r.buf[a.r.p_r]) \in Parser
    BY <1>1, BufferByte, ParseParser
  <1> QED
    BY <1>2, <1>3 DEF GetOne

LEMMA ReadOneIn ==
  ASSUME NEW a \in [p : Parser, out : Seq(Seq(Octet))], NEW c \in Octet
  PROVE  ReadOne(a, c) \in [p : Parser, out : Seq(Seq(Octet))]
  <1>1. PROTO_ParseByte(a.p, c) \in Parser
    BY ParseParser
  <1>2. PROTO_ParseByte(a.p, c).data \in Seq(Octet)
    BY <1>1 DEF Parser
  <1>3. Append(a.out, PROTO_ParseByte(a.p, c).data) \in Seq(Seq(Octet))
    BY <1>2, AppendProperties
  <1> QED
    BY <1>1, <1>3 DEF ReadOne

LEMMA PuttingIs ==
  ASSUME NEW r \in Buffer, NEW s \in Seq(Octet)
  PROVE  /\ Putting(r, s) \in [0..Len(s) -> [r : Buffer, ok : BOOLEAN]]
         /\ Putting(r, s)[0] = [r |-> r, ok |-> TRUE]
         /\ \A k \in 1..Len(s) :
              Putting(r, s)[k] = PutOne(Putting(r, s)[k - 1], s[k])
  <1> DEFINE X == [r : Buffer, ok : BOOLEAN]
             L == Len(s)
             x0 == [r |-> r, ok |-> TRUE]
             St(k, x) == PutOne(x, s[k])
             F == [k \in 1..L |-> [x \in X |-> St(k, x)]]
             Fix(f) == [k \in 0..L |-> IF k = 0 THEN x0 ELSE St(k, f[k - 1])]
             h == CHOOSE f : f = Fix(f)
  <1>1. L \in Nat /\ x0 \in X
    OBVIOUS
  <1>2. \A k \in 1..L, x \in X : St(k, x) \in X
    BY ElementOfSeq, PutOneIn
  <1> HIDE DEF X, L, x0, St, F
  <1>4. F \in [1..L -> [X -> X]] /\ \A k \in 1..L, x \in X : F[k][x] = St(k, x)
    BY <1>2 DEF F
  <1>5. PICK g : Loop(g, L, X, x0, F)
    BY <1>1, <1>4, LoopExists
  <1>6. \A k \in 0..L : g[k] = IF k = 0 THEN x0 ELSE St(k, g[k - 1])
    <2>1. ASSUME NEW k \in 0..L, k # 0 PROVE g[k] = St(k, g[k - 1])
      <3>1. k \in 1..L /\ k - 1 \in 0..L
        BY <1>1, <2>1
      <3> QED
        BY <3>1, <1>4, <1>5 DEF Loop
    <2> QED
      BY <2>1, <1>5 DEF Loop
  <1>7. h = Fix(h)
    <2>1. g = Fix(g)
      BY <1>5, <1>6 DEF Loop
    <2> HIDE DEF Fix
    <2> QED
      BY <2>1
  <1>8. Putting(r, s) = h
    BY DEF Putting, L, x0, St
  <1> HIDE DEF h
  <1>9. /\ h = [k \in 0..L |-> h[k]] /\ h[0] = x0
        /\ \A k \in 1..L : h[k] = St(k, h[k - 1])
    <2>1. \A k \in 0..L : h[k] = IF k = 0 THEN x0 ELSE St(k, h[k - 1])
      BY <1>7, Zenon
    <2>2. h = [k \in 0..L |-> h[k]]
      BY <1>7, <2>1, Zenon
    <2>3. 0 \in 0..L /\ \A k \in 1..L : k \in 0..L /\ k # 0
      BY <1>1
    <2> QED
      BY <2>1, <2>2, <2>3, Zenon
  <1>10. h \in [0..L -> X]
    <2>1. Loops(h, L, X, x0, F)
      BY <1>4, <1>9 DEF Loops
    <2> QED
      BY <1>1, <1>4, <2>1, LoopIn
  <1> QED
    BY <1>8, <1>9, <1>10 DEF X, L, x0, St

LEMMA GettingIs ==
  ASSUME NEW r \in Buffer, r.fill_cnt \in Nat, NEW p \in Parser
  PROVE  /\ Getting(r, p) \in [0..r.fill_cnt -> [r : Buffer, p : Parser, ok : BOOLEAN]]
         /\ Getting(r, p)[0] = [r |-> r, p |-> p, ok |-> FALSE]
         /\ \A k \in 1..r.fill_cnt :
              Getting(r, p)[k] = GetOne(Getting(r, p)[k - 1])
  <1> DEFINE X == [r : Buffer, p : Parser, ok : BOOLEAN]
             L == r.fill_cnt
             x0 == [r |-> r, p |-> p, ok |-> FALSE]
             St(k, x) == GetOne(x)
             F == [k \in 1..L |-> [x \in X |-> St(k, x)]]
             Fix(f) == [k \in 0..L |-> IF k = 0 THEN x0 ELSE St(k, f[k - 1])]
             h == CHOOSE f : f = Fix(f)
  <1>1. L \in Nat /\ x0 \in X
    OBVIOUS
  <1>2. \A k \in 1..L, x \in X : St(k, x) \in X
    BY GetOneIn
  <1> HIDE DEF X, L, x0, St, F
  <1>4. F \in [1..L -> [X -> X]] /\ \A k \in 1..L, x \in X : F[k][x] = St(k, x)
    BY <1>2 DEF F
  <1>5. PICK g : Loop(g, L, X, x0, F)
    BY <1>1, <1>4, LoopExists
  <1>6. \A k \in 0..L : g[k] = IF k = 0 THEN x0 ELSE St(k, g[k - 1])
    <2>1. ASSUME NEW k \in 0..L, k # 0 PROVE g[k] = St(k, g[k - 1])
      <3>1. k \in 1..L /\ k - 1 \in 0..L
        BY <1>1, <2>1
      <3> QED
        BY <3>1, <1>4, <1>5 DEF Loop
    <2> QED
      BY <2>1, <1>5 DEF Loop
  <1>7. h = Fix(h)
    <2>1. g = Fix(g)
      BY <1>5, <1>6 DEF Loop
    <2> HIDE DEF Fix
    <2> QED
      BY <2>1
  <1>8. Getting(r, p) = h
    BY DEF Getting, L, x0, St
  <1> HIDE DEF h
  <1>9. /\ h = [k \in 0..L |-> h[k]] /\ h[0] = x0
        /\ \A k \in 1..L : h[k] = St(k, h[k - 1])
    <2>1. \A k \in 0..L : h[k] = IF k = 0 THEN x0 ELSE St(k, h[k - 1])
      BY <1>7, Zenon
    <2>2. h = [k \in 0..L |-> h[k]]
      BY <1>7, <2>1, Zenon
    <2>3. 0 \in 0..L /\ \A k \in 1..L : k \in 0..L /\ k # 0
      BY <1>1
    <2> QED
      BY <2>1, <2>2, <2>3, Zenon
  <1>10. h \in [0..L -> X]
    <2>1. Loops(h, L, X, x0, F)
      BY <1>4, <1>9 DEF Loops
    <2> QED
      BY <1>1, <1>4, <2>1, LoopIn
  <1> QED
    BY <1>8, <1>9, <1>10 DEF X, L, x0, St

LEMMA ReadingIs ==
  ASSUME NEW p \in Parser, NEW s \in Seq(Octet)
  PROVE  /\ Reading(p, s) \in [0..Len(s) -> [p : Parser, out : Seq(Seq(Octet))]]
         /\ Reading(p, s)[0] = [p |-> p, out |-> <<>>]
         /\ \A k \in 1..Len(s) :
              Reading(p, s)[k] = ReadOne(Reading(p, s)[k - 1], s[k])
  <1> DEFINE X == [p : Parser, out : Seq(Seq(Octet))]
             L == Len(s)
             x0 == [p |-> p, out |-> <<>>]
             St(k, x) == ReadOne(x, s[k])
             F == [k \in 1..L |-> [x \in X |-> St(k, x)]]
             Fix(f) == [k \in 0..L |-> IF k = 0 THEN x0 ELSE St(k, f[k - 1])]
             h == CHOOSE f : f = Fix(f)
  <1>1. L \in Nat /\ x0 \in X
    OBVIOUS
  <1>2. \A k \in 1..L, x \in X : St(k, x) \in X
    BY ElementOfSeq, ReadOneIn
  <1> HIDE DEF X, L, x0, St, F
  <1>4. F \in [1..L -> [X -> X]] /\ \A k \in 1..L, x \in X : F[k][x] = St(k, x)
    BY <1>2 DEF F
  <1>5. PICK g : Loop(g, L, X, x0, F)
    BY <1>1, <1>4, LoopExists
  <1>6. \A k \in 0..L : g[k] = IF k = 0 THEN x0 ELSE St(k, g[k - 1])
    <2>1. ASSUME NEW k \in 0..L, k # 0 PROVE g[k] = St(k, g[k - 1])
      <3>1. k \in 1..L /\ k - 1 \in 0..L
        BY <1>1, <2>1
      <3> QED
        BY <3>1, <1>4, <1>5 DEF Loop
    <2> QED
      BY <2>1, <1>5 DEF Loop
  <1>7. h = Fix(h)
    <2>1. g = Fix(g)
      BY <1>5, <1>6 DEF Loop
    <2> HIDE DEF Fix
    <2> QED
      BY <2>1
  <1>8. Reading(p, s) = h
    BY DEF Reading, L, x0, St
  <1> HIDE DEF h
  <1>9. /\ h = [k \in 0..L |-> h[k]] /\ h[0] = x0
        /\ \A k \in 1..L : h[k] = St(k, h[k - 1])
    <2>1. \A k \in 0..L : h[k] = IF k = 0 THEN x0 ELSE St(k, h[k - 1])
      BY <1>7, Zenon
    <2>2. h = [k \in 0..L |-> h[k]]
      BY <1>7, <2>1, Zenon
    <2>3. 0 \in 0..L /\ \A k \in 1..L : k \in 0..L /\ k # 0
      BY <1>1
    <2> QED
      BY <2>1, <2>2, <2>3, Zenon
  <1>10. h \in [0..L -> X]
    <2>1. Loops(h, L, X, x0, F)
      BY <1>4, <1>9 DEF Loops
    <2> QED
      BY <1>1, <1>4, <2>1, LoopIn
  <1> QED
    BY <1>8, <1>9, <1>10 DEF X, L, x0, St

-----------------------------------------------------------------------------
(* The ring as a sequence of bytes.                                        *)
Tidy(r) ==
  /\ r \in Buffer /\ r.fill_cnt \in 0..QUEUE_BUFFER_SIZE
  /\ r.p_w = (r.p_r + r.fill_cnt) % QUEUE_BUFFER_SIZE

LEMMA WrapByte ==
  ASSUME NEW a \in Index, NEW b \in 0..QUEUE_BUFFER_SIZE
  PROVE  /\ (a + b) % QUEUE_BUFFER_SIZE
              = IF a + b < QUEUE_BUFFER_SIZE THEN a + b ELSE a + b - QUEUE_BUFFER_SIZE
         /\ (a + b) % QUEUE_BUFFER_SIZE \in Index
  BY QueueSize DEF Index

LEMMA PlaceByte ==
  ASSUME NEW a \in Index, NEW i \in 1..QUEUE_BUFFER_SIZE
  PROVE  /\ (a + i - 1) % QUEUE_BUFFER_SIZE
              = IF a + i - 1 < QUEUE_BUFFER_SIZE THEN a + i - 1
                ELSE a + i - 1 - QUEUE_BUFFER_SIZE
         /\ (a + i - 1) % QUEUE_BUFFER_SIZE \in Index
  BY QueueSize DEF Index

LEMMA RingSeq ==
  ASSUME NEW r, Tidy(r)
  PROVE  /\ InRing(r) \in Seq(Octet) /\ Len(InRing(r)) = r.fill_cnt
         /\ r.fill_cnt \in Nat /\ r.p_r \in Index /\ r.p_w \in Index
         /\ \A i \in 1..r.fill_cnt :
              InRing(r)[i] = r.buf[(r.p_r + i - 1) % QUEUE_BUFFER_SIZE]
  <1> DEFINE n == r.fill_cnt
             at(i) == (r.p_r + i - 1) % QUEUE_BUFFER_SIZE
  <1>1. n \in Nat /\ n <= QUEUE_BUFFER_SIZE /\ r.p_r \in Index /\ r.p_w \in Index
    BY QueueSize DEF Tidy, Buffer
  <1>2. \A i \in 1..n : at(i) \in Index
    <2>1. \A i \in 1..n : i \in 1..QUEUE_BUFFER_SIZE
      BY <1>1, QueueSize
    <2> QED
      BY <1>1, <2>1, PlaceByte
  <1>3. InRing(r) = [i \in 1..n |-> r.buf[at(i)]]
    BY DEF InRing
  <1>4. r \in Buffer
    BY DEF Tidy
  <1> HIDE DEF n, at
  <1>5. \A i \in 1..n : r.buf[at(i)] \in Octet
    BY <1>2, <1>4, BufferByte
  <1>6. InRing(r) \in [1..n -> Octet]
    BY <1>3, <1>5
  <1>7. InRing(r) \in Seq(Octet) /\ Len(InRing(r)) = n
    BY <1>1, <1>6
  <1>8. \A i \in 1..n : InRing(r)[i] = r.buf[at(i)]
    BY <1>3
  <1> QED
    BY <1>1, <1>7, <1>8 DEF n, at

(* RINGBUF_Put adds a byte at the end.                                     *)
LEMMA PutRing ==
  ASSUME NEW r, Tidy(r), r.fill_cnt < QUEUE_BUFFER_SIZE, NEW c \in Octet
  PROVE  /\ Tidy(RINGBUF_Put(r, c))
         /\ InRing(RINGBUF_Put(r, c)) = Append(InRing(r), c)
  <1> DEFINE t == RINGBUF_Put(r, c)
             n == r.fill_cnt
             N == QUEUE_BUFFER_SIZE
  <1>0. N \in Nat /\ N >= 2
    BY QueueSize
  <1>1. /\ t \in Buffer /\ t.buf = [r.buf EXCEPT ![r.p_w] = c] /\ t.p_r = r.p_r
        /\ t.p_w = Rolled(r.p_w + 1) /\ t.fill_cnt = n + 1 /\ r \in Buffer
    BY PutFields DEF Tidy
  <1>2. /\ n \in Nat /\ n < N /\ r.p_r \in Index /\ r.p_w \in Index
        /\ InRing(r) \in Seq(Octet) /\ Len(InRing(r)) = n
        /\ \A i \in 1..n : InRing(r)[i] = r.buf[(r.p_r + i - 1) % N]
    BY RingSeq
  <1>3. r.p_w = IF r.p_r + n < N THEN r.p_r + n ELSE r.p_r + n - N
    <2>1. n \in 0..N
      BY <1>0, <1>2
    <2> QED
      BY <1>2, <2>1, WrapByte DEF Tidy
  <1> HIDE DEF t, n
  <1>4. (r.p_r + (n + 1)) % N = IF r.p_r + (n + 1) < N THEN r.p_r + (n + 1)
                                ELSE r.p_r + (n + 1) - N
    <2>1. n + 1 \in 0..N
      BY <1>0, <1>2
    <2> QED
      BY <1>2, <2>1, WrapByte
  <1>5. Tidy(t)
    <2>1. t.p_w = (t.p_r + t.fill_cnt) % N
      <3>1. Rolled(r.p_w + 1) = IF r.p_w + 1 >= N THEN 0 ELSE r.p_w + 1
        BY DEF Rolled
      <3> DEFINE w == (r.p_r + (n + 1)) % N
      <3>2. (t.p_r + t.fill_cnt) % N = w
        BY <1>1, Zenon
      <3>3. w = IF r.p_r + (n + 1) < N THEN r.p_r + (n + 1) ELSE r.p_r + (n + 1) - N
        BY <1>4
      <3> HIDE DEF w, N
      <3>4. n \in Nat /\ n < N /\ r.p_r \in Nat /\ r.p_r < N
        BY <1>2, <1>0 DEF Index, N
      <3>5. t.p_w = w
        BY <1>0, <1>1, <1>3, <3>1, <3>3, <3>4
      <3> QED
        BY <3>2, <3>5
    <2>2. t.fill_cnt \in 0..N
      BY <1>0, <1>1, <1>2
    <2> QED
      BY <1>1, <2>1, <2>2 DEF Tidy
  <1>6. /\ InRing(t) \in Seq(Octet) /\ Len(InRing(t)) = n + 1
        /\ \A i \in 1..(n + 1) : InRing(t)[i] = t.buf[(r.p_r + i - 1) % N]
    <2>1. /\ InRing(t) \in Seq(Octet) /\ Len(InRing(t)) = t.fill_cnt
          /\ \A i \in 1..t.fill_cnt : InRing(t)[i] = t.buf[(t.p_r + i - 1) % N]
      BY <1>5, RingSeq, Zenon
    <2> QED
      BY <1>1, <2>1, Zenon
  <1>7. /\ Append(InRing(r), c) \in Seq(Octet) /\ Len(Append(InRing(r), c)) = n + 1
        /\ \A i \in 1..n : Append(InRing(r), c)[i] = InRing(r)[i]
        /\ Append(InRing(r), c)[n + 1] = c
    BY <1>2, AppendProperties
  <1>8. ASSUME NEW i \in 1..(n + 1) PROVE InRing(t)[i] = Append(InRing(r), c)[i]
    <2> DEFINE at == (r.p_r + i - 1) % N
    <2>1. at \in Index /\ at = IF r.p_r + i - 1 < N THEN r.p_r + i - 1
                               ELSE r.p_r + i - 1 - N
      <3>1. i \in 1..N
        BY <1>0, <1>2
      <3> QED
        BY <1>2, <3>1, PlaceByte
    <2>2. InRing(t)[i] = t.buf[at]
      BY <1>6
    <2>3. r.buf \in [Index -> Octet]
      BY <1>1 DEF Buffer
    <2>4. CASE i = n + 1
      <3>1. at = r.p_w
        BY <1>2, <1>3, <2>1, <2>4, <1>0 DEF Index
      <3> HIDE DEF at
      <3>2. t.buf[at] = c
        BY <1>1, <1>2, <2>3, <3>1
      <3> QED
        BY <2>2, <3>2, <1>7, <2>4
    <2>5. CASE i \in 1..n
      <3>1. at # r.p_w
        BY <1>2, <1>3, <2>1, <2>5, <1>0 DEF Index
      <3>2. InRing(r)[i] = r.buf[at]
        BY <1>2, <2>5
      <3> HIDE DEF at
      <3>3. t.buf[at] = r.buf[at]
        BY <1>1, <1>2, <2>3, <3>1, <2>1
      <3> QED
        BY <2>2, <3>2, <3>3, <1>7, <2>5
    <2> QED
      BY <2>4, <2>5, <1>2
  <1>9. InRing(t) = Append(InRing(r), c)
    BY <1>2, <1>6, <1>7, <1>8, SeqEqual
  <1> QED
    BY <1>5, <1>9 DEF t

(* RINGBUF_Get takes the first byte out.                                   *)
LEMMA GetRing ==
  ASSUME NEW r, Tidy(r), r.fill_cnt > 0
  PROVE  /\ Tidy(RINGBUF_Get(r))
         /\ RINGBUF_Get(r).fill_cnt = r.fill_cnt - 1
         /\ r.buf[r.p_r] \in Octet
         /\ InRing(r) = <<r.buf[r.p_r]>> \o InRing(RINGBUF_Get(r))
  <1> DEFINE t == RINGBUF_Get(r)
             n == r.fill_cnt
             c == r.buf[r.p_r]
             N == QUEUE_BUFFER_SIZE
  <1>0. N \in Nat /\ N >= 2
    BY QueueSize
  <1>1. /\ t \in Buffer /\ t.buf = r.buf /\ t.p_r = Rolled(r.p_r + 1)
        /\ t.p_w = r.p_w /\ t.fill_cnt = n - 1 /\ r \in Buffer
    BY GetFields DEF Tidy
  <1>2. /\ n \in Nat /\ n <= N /\ n > 0 /\ r.p_r \in Index /\ r.p_w \in Index
        /\ InRing(r) \in Seq(Octet) /\ Len(InRing(r)) = n
        /\ \A i \in 1..n : InRing(r)[i] = r.buf[(r.p_r + i - 1) % N]
    BY RingSeq DEF Tidy
  <1>3. r.p_w = IF r.p_r + n < N THEN r.p_r + n ELSE r.p_r + n - N
    <2>1. n \in 0..N
      BY <1>0, <1>2
    <2> QED
      BY <1>2, <2>1, WrapByte DEF Tidy
  <1>a. c \in Octet
    BY <1>1, <1>2, BufferByte
  <1> HIDE DEF t, n
  <1>b. t.p_r = IF r.p_r + 1 >= N THEN 0 ELSE r.p_r + 1
    BY <1>1 DEF Rolled
  <1>c. t.p_r \in Index
    BY <1>1 DEF Buffer
  <1>4. (t.p_r + (n - 1)) % N = IF t.p_r + (n - 1) < N THEN t.p_r + (n - 1)
                                ELSE t.p_r + (n - 1) - N
    <2>1. n - 1 \in 0..N
      BY <1>0, <1>2
    <2> QED
      BY <1>c, <2>1, WrapByte
  <1>5. Tidy(t)
    <2>1. t.p_w = (t.p_r + t.fill_cnt) % N
      <3> DEFINE w == (t.p_r + (n - 1)) % N
      <3>2. (t.p_r + t.fill_cnt) % N = w
        BY <1>1, Zenon
      <3>3. w = IF t.p_r + (n - 1) < N THEN t.p_r + (n - 1) ELSE t.p_r + (n - 1) - N
        BY <1>4
      <3> HIDE DEF w, N
      <3>4. n \in Nat /\ n <= N /\ n > 0 /\ r.p_r \in Nat /\ r.p_r < N
        BY <1>2, <1>0 DEF Index, N
      <3>5. t.p_w = w
        BY <1>0, <1>1, <1>3, <1>b, <3>3, <3>4
      <3> QED
        BY <3>2, <3>5
    <2>2. t.fill_cnt \in 0..N
      BY <1>0, <1>1, <1>2
    <2> QED
      BY <1>1, <2>1, <2>2 DEF Tidy
  <1>6. /\ InRing(t) \in Seq(Octet) /\ Len(InRing(t)) = n - 1
        /\ \A i \in 1..(n - 1) : InRing(t)[i] = r.buf[(t.p_r + i - 1) % N]
    BY <1>1, <1>5, RingSeq
  <1>7. /\ <<c>> \o InRing(t) \in Seq(Octet) /\ Len(<<c>> \o InRing(t)) = n
        /\ (<<c>> \o InRing(t))[1] = c
        /\ \A i \in 2..n : (<<c>> \o InRing(t))[i] = InRing(t)[i - 1]
    <2> HIDE DEF c
    <2>1. <<c>> \in Seq(Octet) /\ Len(<<c>>) = 1 /\ <<c>>[1] = c
      BY <1>a
    <2> QED
      BY <1>2, <1>6, <2>1, ConcatProperties
  <1>8. ASSUME NEW i \in 1..n PROVE InRing(r)[i] = (<<c>> \o InRing(t))[i]
    <2>0. i \in 1..N
      BY <1>0, <1>2
    <2>1. (r.p_r + i - 1) % N = IF r.p_r + i - 1 < N THEN r.p_r + i - 1
                                ELSE r.p_r + i - 1 - N
      BY <1>2, <2>0, PlaceByte
    <2>2. CASE i = 1
      <3>1. (r.p_r + i - 1) % N = r.p_r
        BY <1>2, <2>1, <2>2, <1>0 DEF Index
      <3> QED
        BY <1>2, <3>1, <1>7, <2>2
    <2>3. CASE i \in 2..n
      <3>1. i - 1 \in 1..N /\ i - 1 \in 1..(n - 1)
        BY <2>3, <1>0, <1>2
      <3>2. (t.p_r + (i - 1) - 1) % N
               = IF t.p_r + (i - 1) - 1 < N THEN t.p_r + (i - 1) - 1
                 ELSE t.p_r + (i - 1) - 1 - N
        BY <1>c, <3>1, PlaceByte
      <3>3. (t.p_r + (i - 1) - 1) % N = (r.p_r + i - 1) % N
        <4> DEFINE u == (t.p_r + (i - 1) - 1) % N
                   w == (r.p_r + i - 1) % N
        <4>1. /\ u = IF t.p_r + (i - 1) - 1 < N THEN t.p_r + (i - 1) - 1
                     ELSE t.p_r + (i - 1) - 1 - N
              /\ w = IF r.p_r + i - 1 < N THEN r.p_r + i - 1 ELSE r.p_r + i - 1 - N
          BY <2>1, <3>2
        <4>2. n \in Nat /\ n <= N /\ r.p_r \in Nat /\ r.p_r < N /\ i \in Nat /\ 2 <= i /\ i <= n
          BY <1>0, <1>2, <2>3 DEF Index
        <4> HIDE DEF u, w, N
        <4>3. u = w
          BY <1>0, <1>b, <4>1, <4>2
        <4> QED
          BY <4>3 DEF u, w
      <3>4. InRing(t)[i - 1] = r.buf[(r.p_r + i - 1) % N]
        BY <1>6, <3>1, <3>3
      <3> HIDE DEF c
      <3> QED
        BY <1>2, <1>7, <2>3, <3>4
    <2>4. i = 1 \/ i \in 2..n
      <3>1. n \in Nat
        BY <1>2
      <3> QED
        BY <3>1
    <2> QED
      BY <2>2, <2>3, <2>4
  <1>9. InRing(r) = <<c>> \o InRing(t)
    BY <1>2, <1>7, <1>8, SeqEqual
  <1> QED
    BY <1>1, <1>5, <1>9, <1>a DEF t, n

-----------------------------------------------------------------------------
(* Induction over sequences, for a set.                                    *)
LEMMA AllSeqs ==
  ASSUME NEW X, NEW T, <<>> \in T,
         \A s \in Seq(X), c \in X : s \in T => Append(s, c) \in T
  PROVE  \A s \in Seq(X) : s \in T
  <1> SUFFICES ASSUME NEW s \in Seq(X) PROVE s \in T
    OBVIOUS
  <1> DEFINE S == {k \in 0..Len(s) : SubSeq(s, 1, k) \in T}
  <1>1. 0 \in S
    <2>1. SubSeq(s, 1, 0) = <<>>
      BY SubSeqEmpty
    <2>2. 0 \in 0..Len(s)
      OBVIOUS
    <2> QED
      BY <2>1, <2>2, Zenon
  <1>2. ASSUME NEW n \in Nat, n < Len(s), n \in S PROVE n + 1 \in S
    <2>1. n + 1 \in 1..Len(s) /\ n \in 0..Len(s)
      BY <1>2
    <2>2. SubSeq(s, 1, n) \in Seq(X) /\ s[n + 1] \in X
      BY <2>1, ElementOfSeq
    <2>3. SubSeq(s, 1, n + 1) = SubSeq(s, 1, n) \o <<s[n + 1]>>
      <3>1. 1 \in 1..Len(s) /\ n + 1 \in 1..Len(s) /\ (n + 1) - 1 = n
        BY <2>1
      <3> QED
        BY <3>1, SubSeqRecursiveSecond
    <2>4. SubSeq(s, 1, n + 1) = Append(SubSeq(s, 1, n), s[n + 1])
      BY <2>2, <2>3, AppendIsConcat
    <2>5. n + 1 \in 0..Len(s) /\ SubSeq(s, 1, n) \in T
      BY <1>2, <2>1
    <2>6. Append(SubSeq(s, 1, n), s[n + 1]) \in T
      BY <2>2, <2>5, Zenon
    <2> QED
      BY <2>4, <2>5, <2>6, Zenon
  <1> HIDE DEF S
  <1>3. \A n \in 0..Len(s) : n \in S
    BY <1>1, <1>2, UpTo
  <1>4. SubSeq(s, 1, Len(s)) \in T
    BY <1>3 DEF S
  <1> QED
    BY <1>4, SubSeqFull

-----------------------------------------------------------------------------
(* What the parser makes of a sequence of bytes.                           *)
Parsed == [p : Parser, out : Seq(Seq(Octet))]
Read(p, s) == Reading(p, s)[Len(s)]

LEMMA ReadIn ==
  ASSUME NEW p \in Parser, NEW s \in Seq(Octet)
  PROVE  Read(p, s) \in Parsed /\ Read(p, s).p \in Parser
         /\ Read(p, s).out \in Seq(Seq(Octet))
  <1>1. Len(s) \in 0..Len(s)
    OBVIOUS
  <1>2. Reading(p, s) \in [0..Len(s) -> [p : Parser, out : Seq(Seq(Octet))]]
    BY ReadingIs
  <1>3. Reading(p, s)[Len(s)] \in [p : Parser, out : Seq(Seq(Octet))]
    BY <1>1, <1>2
  <1> QED
    BY <1>3 DEF Read, Parsed

LEMMA ReadNothing ==
  ASSUME NEW p \in Parser PROVE Read(p, <<>>) = [p |-> p, out |-> <<>>]
  <1>1. <<>> \in Seq(Octet) /\ Len(<<>>) = 0
    OBVIOUS
  <1> QED
    BY <1>1, ReadingIs DEF Read

LEMMA ReadAppend ==
  ASSUME NEW p \in Parser, NEW s \in Seq(Octet), NEW c \in Octet
  PROVE  Read(p, Append(s, c)) = ReadOne(Read(p, s), c)
  <1> DEFINE t == Append(s, c)
             f == Reading(p, s)
             g == Reading(p, t)
             L == Len(s)
             S == {k \in 0..L : g[k] = f[k]}
  <1>1. /\ t \in Seq(Octet) /\ Len(t) = L + 1 /\ L \in Nat
        /\ \A k \in 1..L : t[k] = s[k]
        /\ t[L + 1] = c
    BY AppendProperties
  <1>2. f[0] = [p |-> p, out |-> <<>>] /\ \A k \in 1..L : f[k] = ReadOne(f[k - 1], s[k])
    BY ReadingIs
  <1> HIDE DEF t, f
  <1>3. g[0] = [p |-> p, out |-> <<>>] /\ \A k \in 1..(L + 1) : g[k] = ReadOne(g[k - 1], t[k])
    BY ReadingIs, <1>1
  <1> HIDE DEF g, L
  <1>4. 0 \in S
    BY <1>1, <1>2, <1>3
  <1>5. ASSUME NEW n \in Nat, n < L, n \in S PROVE n + 1 \in S
    <2>1. n + 1 \in 1..L /\ n + 1 \in 1..(L + 1) /\ (n + 1) - 1 = n /\ n + 1 \in 0..L
      BY <1>1, <1>5
    <2>2. g[n + 1] = ReadOne(g[n], s[n + 1]) /\ f[n + 1] = ReadOne(f[n], s[n + 1])
      BY <1>1, <1>2, <1>3, <2>1
    <2> QED
      BY <1>5, <2>1, <2>2
  <1>6. L \in S
    <2> HIDE DEF S
    <2>1. \A n \in 0..L : n \in S
      BY <1>1, <1>4, <1>5, UpTo
    <2> QED
      BY <1>1, <2>1
  <1>7. L + 1 \in 1..(L + 1) /\ (L + 1) - 1 = L
    BY <1>1
  <1>8. g[L + 1] = ReadOne(f[L], c)
    BY <1>1, <1>3, <1>6, <1>7
  <1> QED
    BY <1>1, <1>8 DEF Read, f, g, t, L

LEMMA ReadByte ==
  ASSUME NEW p \in Parser, NEW c \in Octet
  PROVE  Read(p, <<c>>) = ReadOne([p |-> p, out |-> <<>>], c)
  <1>1. <<c>> = Append(<<>>, c) /\ <<>> \in Seq(Octet)
    OBVIOUS
  <1> QED
    BY <1>1, ReadAppend, ReadNothing

(* Reading goes on where it stopped.                                       *)
LEMMA ReadConcat ==
  ASSUME NEW p \in Parser, NEW s \in Seq(Octet), NEW t \in Seq(Octet)
  PROVE  /\ Read(p, s \o t).p = Read(Read(p, s).p, t).p
         /\ Read(p, s \o t).out = Read(p, s).out \o Read(Read(p, s).p, t).out
  <1> DEFINE a == Read(p, s)
             Goes(u) == /\ Read(p, s \o u).p = Read(a.p, u).p
                        /\ Read(p, s \o u).out = a.out \o Read(a.p, u).out
             T == {u \in Seq(Octet) : Goes(u)}
  <1>1. a \in Parsed /\ a.p \in Parser /\ a.out \in Seq(Seq(Octet))
    BY ReadIn
  <1>2. <<>> \in T
    <2>1. s \o <<>> = s /\ <<>> \in Seq(Octet)
      BY ConcatEmptySeq
    <2>2. Read(a.p, <<>>).p = a.p /\ Read(a.p, <<>>).out = <<>>
      BY <1>1, ReadNothing
    <2>3. a.out \o <<>> = a.out
      BY <1>1, ConcatEmptySeq
    <2> QED
      BY <2>1, <2>2, <2>3
  <1>3. ASSUME NEW u \in Seq(Octet), NEW c \in Octet, u \in T
        PROVE  Append(u, c) \in T
    <2> DEFINE b == Read(a.p, u)
               x == Read(p, s \o u)
    <2>1. /\ s \o Append(u, c) = Append(s \o u, c)
          /\ s \o u \in Seq(Octet) /\ Append(u, c) \in Seq(Octet)
      <3>1. Append(u, c) = u \o <<c>> /\ Append(u, c) \in Seq(Octet) /\ <<c>> \in Seq(Octet)
        BY AppendIsConcat, AppendProperties
      <3>2. s \o u \in Seq(Octet) /\ Append(s \o u, c) = (s \o u) \o <<c>>
        BY AppendIsConcat, ConcatProperties
      <3> QED
        BY <3>1, <3>2, ConcatAssociative
    <2>2. /\ Read(p, Append(s \o u, c)) = ReadOne(x, c)
          /\ Read(a.p, Append(u, c)) = ReadOne(b, c)
      BY <1>1, <2>1, ReadAppend
    <2>3. b \in Parsed /\ b.p \in Parser /\ b.out \in Seq(Seq(Octet))
      BY <1>1, ReadIn
    <2>4. x.p = b.p /\ x.out = a.out \o b.out
      BY <1>3
    <2> DEFINE d == PROTO_ParseByte(b.p, c).data
    <2>5. d \in Seq(Octet)
      BY <2>3, ParseParser DEF Parser
    <2> HIDE DEF a, b, x
    <2>6. Append(a.out \o b.out, d) = a.out \o Append(b.out, d)
      <3> HIDE DEF d
      <3> DEFINE M == Seq(Octet)
      <3>0. a.out \in Seq(M) /\ b.out \in Seq(M) /\ d \in M
        BY <1>1, <2>3, <2>5
      <3> HIDE DEF M
      <3>1. Append(b.out, d) = b.out \o <<d>> /\ <<d>> \in Seq(M)
        BY <3>0, AppendIsConcat
      <3>2. a.out \o b.out \in Seq(M)
        BY <3>0, ConcatProperties
      <3>3. Append(a.out \o b.out, d) = (a.out \o b.out) \o <<d>>
        BY <3>0, <3>2, AppendIsConcat
      <3>4. (a.out \o b.out) \o <<d>> = a.out \o (b.out \o <<d>>)
        <4> DEFINE s1 == a.out
                   s2 == b.out
                   s3 == <<d>>
        <4>1. s1 \in Seq(M) /\ s2 \in Seq(M) /\ s3 \in Seq(M)
          BY <3>0, <3>1
        <4> HIDE DEF s1, s2, s3
        <4>2. (s1 \o s2) \o s3 = s1 \o (s2 \o s3)
          BY <4>1, ConcatAssociative
        <4> QED
          BY <4>2 DEF s1, s2, s3
      <3> QED
        BY <3>1, <3>3, <3>4, Zenon
    <2>7. /\ ReadOne(x, c).p = ReadOne(b, c).p
          /\ ReadOne(x, c).out = a.out \o ReadOne(b, c).out
      <3>1. /\ ReadOne(x, c).p = PROTO_ParseByte(b.p, c)
            /\ ReadOne(b, c).p = PROTO_ParseByte(b.p, c)
            /\ ReadOne(x, c).out = IF c = END THEN Append(x.out, d) ELSE x.out
            /\ ReadOne(b, c).out = IF c = END THEN Append(b.out, d) ELSE b.out
        BY <2>4 DEF ReadOne
      <3> HIDE DEF d
      <3>2. CASE c = END
        BY <3>1, <3>2, <2>4, <2>6
      <3>3. CASE c # END
        BY <3>1, <3>3, <2>4
      <3> QED
        BY <3>2, <3>3
    <2>8. /\ Read(p, s \o Append(u, c)).p = Read(a.p, Append(u, c)).p
          /\ Read(p, s \o Append(u, c)).out = a.out \o Read(a.p, Append(u, c)).out
      BY <2>1, <2>2, <2>7 DEF b, x
    <2> QED
      BY <2>1, <2>8
  <1> HIDE DEF T
  <1>4. \A u \in Seq(Octet) : u \in T
    BY <1>2, <1>3, AllSeqs
  <1>5. t \in T
    BY <1>4
  <1> QED
    BY <1>5 DEF T

(* No message is complete before its END, and none comes without one.      *)
LEMMA ReadNoEnd ==
  ASSUME NEW p \in Parser, NEW s \in Seq(Octet), \A i \in 1..Len(s) : s[i] # END
  PROVE  Read(p, s).out = <<>>
  <1> DEFINE T == {u \in Seq(Octet) :
                     (\A i \in 1..Len(u) : u[i] # END) => Read(p, u).out = <<>>}
  <1>1. <<>> \in T
    BY ReadNothing
  <1>2. ASSUME NEW u \in Seq(Octet), NEW c \in Octet, u \in T PROVE Append(u, c) \in T
    <2> SUFFICES ASSUME \A i \in 1..Len(Append(u, c)) : Append(u, c)[i] # END
                 PROVE  Read(p, Append(u, c)).out = <<>>
      BY AppendProperties
    <2>1. /\ Len(u) \in Nat /\ Len(Append(u, c)) = Len(u) + 1
          /\ \A i \in 1..Len(u) : Append(u, c)[i] = u[i]
          /\ Append(u, c)[Len(u) + 1] = c
      BY AppendProperties
    <2>2. c # END /\ \A i \in 1..Len(u) : u[i] # END
      <3>1. \A i \in 1..Len(u) : i \in 1..Len(Append(u, c))
        BY <2>1
      <3>2. Len(u) + 1 \in 1..Len(Append(u, c))
        BY <2>1
      <3> QED
        BY <2>1, <3>1, <3>2
    <2>3. Read(p, u).out = <<>>
      BY <1>2, <2>2
    <2> QED
      BY <2>2, <2>3, ReadAppend DEF ReadOne
  <1> HIDE DEF T
  <1>3. \A u \in Seq(Octet) : u \in T
    BY <1>1, <1>2, AllSeqs
  <1> QED
    BY <1>3 DEF T

LEMMA ReadCount ==
  ASSUME NEW p \in Parser, NEW s \in Seq(Octet)
  PROVE  Len(Read(p, s).out) <= Len(s)
  <1> DEFINE T == {u \in Seq(Octet) : Len(Read(p, u).out) <= Len(u)}
  <1>1. <<>> \in T
    BY ReadNothing
  <1>2. ASSUME NEW u \in Seq(Octet), NEW c \in Octet, u \in T PROVE Append(u, c) \in T
    <2> DEFINE a == Read(p, u)
               d == PROTO_ParseByte(a.p, c).data
    <2>1. a.p \in Parser /\ a.out \in Seq(Seq(Octet))
      BY ReadIn
    <2>2. d \in Seq(Octet)
      BY <2>1, ParseParser DEF Parser
    <2>3. Read(p, Append(u, c)).out = IF c = END THEN Append(a.out, d) ELSE a.out
      <3>1. Read(p, Append(u, c)) = ReadOne(a, c)
        BY ReadAppend
      <3> HIDE DEF a
      <3> QED
        BY <3>1 DEF ReadOne
    <2>4. Len(a.out) \in Nat /\ Len(Append(a.out, d)) = Len(a.out) + 1
      BY <2>1, <2>2, AppendProperties
    <2>5. /\ Len(u) \in Nat /\ Len(Append(u, c)) = Len(u) + 1
          /\ Append(u, c) \in Seq(Octet) /\ Len(a.out) <= Len(u)
      BY <1>2, AppendProperties
    <2> HIDE DEF a, d
    <2>6. Len(Read(p, Append(u, c)).out) <= Len(Append(u, c))
      BY <2>3, <2>4, <2>5
    <2> QED
      BY <2>5, <2>6
  <1> HIDE DEF T
  <1>3. \A u \in Seq(Octet) : u \in T
    BY <1>1, <1>2, AllSeqs
  <1> QED
    BY <1>3 DEF T

-----------------------------------------------------------------------------
LEMMA ReadBegin ==
  ASSUME NEW p \in Parser
  PROVE  Read(p, <<BEG>>) = [p |-> PROTO_Init(TRUE), out |-> <<>>]
  <1>1. BEG \in Octet /\ BEG # ESC /\ BEG # END
    BY DEF BEG, ESC, END, Octet
  <1>2. PROTO_ParseByte(p, BEG) = PROTO_Init(TRUE)
    BY <1>1 DEF PROTO_ParseByte
  <1>3. Read(p, <<BEG>>) = ReadOne([p |-> p, out |-> <<>>], BEG)
    BY <1>1, ReadByte
  <1> QED
    BY <1>1, <1>2, <1>3 DEF ReadOne

LEMMA HeadAndTail ==
  ASSUME NEW X, NEW s \in Seq(X), s # <<>>
  PROVE  /\ s[1] \in X /\ Tail(s) \in Seq(X) /\ s = <<s[1]>> \o Tail(s)
         /\ Len(Tail(s)) = Len(s) - 1 /\ Len(s) \in Nat \ {0}
         /\ \A i \in 1..Len(s) - 1 : Tail(s)[i] = s[i + 1]
  <1>1. Len(s) \in Nat \ {0} /\ 1 \in 1..Len(s) /\ Len(s) \in 1..Len(s)
    BY EmptySeq
  <1>2. s[1] \in X
    BY <1>1, ElementOfSeq
  <1>3. /\ Tail(s) \in Seq(X) /\ Len(Tail(s)) = Len(s) - 1
        /\ \A i \in 1..Len(Tail(s)) : Tail(s)[i] = s[i + 1]
    BY HeadTailProperties
  <1>4. SubSeq(s, 1, Len(s)) = <<s[1]>> \o SubSeq(s, 1 + 1, Len(s))
    BY <1>1, SubSeqRecursiveFirst
  <1>5. Tail(s) = SubSeq(s, 2, Len(s)) /\ SubSeq(s, 1, Len(s)) = s
    BY TailIsSubSeq, SubSeqFull
  <1>6. 1 + 1 = 2
    OBVIOUS
  <1> QED
    BY <1>1, <1>2, <1>3, <1>4, <1>5, <1>6

(* From a BEG on it does not matter what was read before.                  *)
LEMMA ReadStarts ==
  ASSUME NEW p \in Parser, NEW q \in Parser, NEW s \in Seq(Octet),
         s # <<>>, s[1] = BEG
  PROVE  /\ Read(p, s) .p = Read(q, s).p
         /\ Read(p, s).out = Read(q, s).out
         /\ Len(Read(p, s).out) < Len(s)
  <1> DEFINE t == Tail(s)
  <1>1. /\ t \in Seq(Octet) /\ s = <<BEG>> \o t /\ Len(t) = Len(s) - 1
        /\ Len(s) \in Nat \ {0} /\ <<BEG>> \in Seq(Octet)
    BY HeadAndTail
  <1> HIDE DEF t
  <1> DEFINE P == PROTO_Init(TRUE)
  <1>2. P \in Parser
    BY InitParser
  <1>a. \A x \in Parser : Read(x, <<BEG>>) = [p |-> P, out |-> <<>>]
    BY ReadBegin
  <1> HIDE DEF P
  <1> DEFINE b == Read(P, t)
  <1>3. ASSUME NEW x \in Parser PROVE Read(x, s).p = b.p /\ Read(x, s).out = b.out
    <2>1. Read(x, <<BEG>>).p = P /\ Read(x, <<BEG>>).out = <<>>
      <3>1. Read(x, <<BEG>>) = [p |-> P, out |-> <<>>]
        BY <1>a
      <3> QED
        BY <3>1
    <2>2. Read(x, s).p = b.p /\ Read(x, s).out = <<>> \o b.out
      <3>1. /\ Read(x, <<BEG>> \o t).p = Read(Read(x, <<BEG>>).p, t).p
            /\ Read(x, <<BEG>> \o t).out
                 = Read(x, <<BEG>>).out \o Read(Read(x, <<BEG>>).p, t).out
        BY <1>1, ReadConcat
      <3> QED
        BY <1>1, <2>1, <3>1
    <2>3. b.out \in Seq(Seq(Octet))
      BY <1>1, <1>2, ReadIn
    <2> QED
      BY <2>2, <2>3, ConcatEmptySeq
  <1>4. Len(b.out) <= Len(t) /\ Len(b.out) \in Nat
    <2>1. b.out \in Seq(Seq(Octet))
      BY <1>1, <1>2, ReadIn
    <2>2. Len(Read(P, t).out) <= Len(t)
      BY <1>1, <1>2, ReadCount
    <2> QED
      BY <2>1, <2>2
  <1> HIDE DEF b
  <1> QED
    BY <1>1, <1>3, <1>4

(* A byte and its code.                                                    *)
Within(d) == [begin |-> TRUE, esc |-> FALSE, data |-> d]

LEMMA WithinParser == \A d \in Seq(Octet) : Within(d) \in Parser
  BY DEF Within, Parser

LEMMA ReadCoded ==
  ASSUME NEW d \in Seq(Octet), NEW c \in Octet
  PROVE  Read(Within(d), Coded(c)) = [p |-> Within(Append(d, c)), out |-> <<>>]
  <1>1. Within(d) \in Parser
    BY WithinParser
  <1>2. CASE c \notin {ESC, BEG, END}
    <2>1. Coded(c) = <<c>>
      BY <1>2 DEF Coded
    <2>2. PROTO_ParseByte(Within(d), c) = Within(Append(d, c))
      BY <1>2 DEF PROTO_ParseByte, Within
    <2>3. Read(Within(d), <<c>>) = ReadOne([p |-> Within(d), out |-> <<>>], c)
      BY <1>1, ReadByte
    <2>4. ReadOne([p |-> Within(d), out |-> <<>>], c) = [p |-> Within(Append(d, c)), out |-> <<>>]
      BY <1>2, <2>2 DEF ReadOne
    <2> QED
      BY <2>1, <2>3, <2>4
  <1>3. CASE c \in {ESC, BEG, END}
    <2> DEFINE x == Xor20(c)
               e == [begin |-> TRUE, esc |-> TRUE, data |-> d]
    <2>1. Coded(c) = Append(<<ESC>>, x)
      BY <1>3 DEF Coded
    <2>2. ESC \in Octet /\ x \in Octet /\ <<ESC>> \in Seq(Octet)
      <3>1. x \in Octet
        BY XorOctet
      <3>2. ESC \in Octet
        BY 125 \in 0..255 DEF ESC, Octet
      <3> QED
        BY <3>1, <3>2
    <2>3. x \notin {ESC, BEG, END} /\ Xor20(x) = c
      BY <1>3 DEF ESC, BEG, END, Xor20
    <2> HIDE DEF x
    <2>4. PROTO_ParseByte(Within(d), ESC) = e
      <3>1. ESC # BEG /\ ESC # END
        BY DEF ESC, BEG, END
      <3>2. PROTO_ParseByte(Within(d), ESC) = [Within(d) EXCEPT !.esc = TRUE]
        BY <3>1 DEF PROTO_ParseByte
      <3> QED
        BY <3>2 DEF Within
    <2>5. PROTO_ParseByte(e, x) = Within(Append(d, c))
      BY <2>3 DEF PROTO_ParseByte, Within
    <2>6. ESC # END
      BY DEF ESC, END
    <2>7. Read(Within(d), <<ESC>>) = [p |-> e, out |-> <<>>]
      <3>1. Read(Within(d), <<ESC>>) = ReadOne([p |-> Within(d), out |-> <<>>], ESC)
        BY <1>1, <2>2, ReadByte
      <3> QED
        BY <3>1, <2>4, <2>6 DEF ReadOne
    <2>8. Read(Within(d), Append(<<ESC>>, x)) = ReadOne([p |-> e, out |-> <<>>], x)
      BY <1>1, <2>2, <2>7, ReadAppend
    <2>9. ReadOne([p |-> e, out |-> <<>>], x) = [p |-> Within(Append(d, c)), out |-> <<>>]
      BY <2>3, <2>5 DEF ReadOne
    <2> QED
      BY <2>1, <2>8, <2>9
  <1> QED
    BY <1>2, <1>3

LEMMA CodedNoEnd == \A c \in Octet : \A i \in 1..Len(Coded(c)) : Coded(c)[i] # END
  <1> SUFFICES ASSUME NEW c \in Octet, NEW i \in 1..Len(Coded(c)) PROVE Coded(c)[i] # END
    OBVIOUS
  <1>1. CASE c \in {ESC, BEG, END}
    <2>1. ESC # END /\ Xor20(c) # END
      BY <1>1 DEF ESC, BEG, END, Xor20
    <2>2. Coded(c) = <<ESC, Xor20(c)>>
      BY <1>1 DEF Coded
    <2> QED
      BY <2>1, <2>2
  <1>2. CASE c \notin {ESC, BEG, END}
    <2>1. Coded(c) = <<c>>
      BY <1>2 DEF Coded
    <2> QED
      BY <1>2, <2>1
  <1> QED
    BY <1>1, <1>2

(* What has been coded up to n reads back as the first n bytes.            *)
LEMMA ReadBody ==
  ASSUME NEW m \in Seq(Octet), NEW q \in Parser
  PROVE  \A n \in 0..Len(m) :
           /\ Body(m)[n] \in Seq(Octet)
           /\ \A i \in 1..Len(Body(m)[n]) : Body(m)[n][i] # END
           /\ Read(q, <<BEG>> \o Body(m)[n])
                = [p |-> Within(SubSeq(m, 1, n)), out |-> <<>>]
  <1> DEFINE L == Len(m)
             b == Body(m)
             Good(n) ==
               /\ b[n] \in Seq(Octet)
               /\ \A i \in 1..Len(b[n]) : b[n][i] # END
               /\ Read(q, <<BEG>> \o b[n]) = [p |-> Within(SubSeq(m, 1, n)), out |-> <<>>]
             S == {n \in 0..L : Good(n)}
  <1>1. L \in Nat /\ BEG \in Octet /\ <<BEG>> \in Seq(Octet)
    BY DEF BEG, Octet
  <1>2. b[0] = <<>> /\ \A n \in 1..L : b[n] = b[n - 1] \o Coded(m[n])
    BY BodyIs
  <1> HIDE DEF b
  <1>3. 0 \in S
    <2>1. <<BEG>> \o b[0] = <<BEG>>
      BY <1>1, <1>2, ConcatEmptySeq
    <2>2. SubSeq(m, 1, 0) = <<>>
      BY SubSeqEmpty
    <2>3. PROTO_Init(TRUE) = Within(<<>>)
      BY DEF PROTO_Init, Within
    <2>4. Read(q, <<BEG>> \o b[0]) = [p |-> Within(SubSeq(m, 1, 0)), out |-> <<>>]
      BY <2>1, <2>2, <2>3, ReadBegin
    <2>5. b[0] \in Seq(Octet) /\ \A i \in 1..Len(b[0]) : b[0][i] # END
      BY <1>2
    <2>6. 0 \in 0..L
      BY <1>1
    <2> QED
      BY <2>4, <2>5, <2>6, Zenon
  <1>4. ASSUME NEW n \in Nat, n < L, n \in S PROVE n + 1 \in S
    <2> DEFINE c == m[n + 1]
               s == <<BEG>> \o b[n]
               d == SubSeq(m, 1, n)
    <2>1. n + 1 \in 1..L /\ (n + 1) - 1 = n /\ n + 1 \in 0..L /\ n \in 0..L
      BY <1>1, <1>4
    <2>2. c \in Octet /\ Coded(c) \in Seq(Octet)
      <3>1. c \in Octet
        BY <2>1, ElementOfSeq
      <3> QED
        BY <3>1, CodedSeq
    <2>3. b[n + 1] = b[n] \o Coded(c)
      BY <1>2, <2>1
    <2>4. /\ b[n] \in Seq(Octet)
          /\ \A i \in 1..Len(b[n]) : b[n][i] # END
          /\ Read(q, s) = [p |-> Within(d), out |-> <<>>]
      BY <1>4
    <2>5. d \in Seq(Octet) /\ SubSeq(m, 1, n + 1) = Append(d, c)
      <3>1. d \in Seq(Octet)
        BY <2>1
      <3>2. SubSeq(m, 1, n + 1) = d \o <<c>>
        BY <2>1, SubSeqRecursiveSecond, 1 \in 1..Len(m)
      <3> QED
        BY <3>1, <3>2, <2>2, AppendIsConcat
    <2> HIDE DEF c, d
    <2>6. s \in Seq(Octet) /\ <<BEG>> \o b[n + 1] = s \o Coded(c)
      <3>1. s \in Seq(Octet)
        BY <1>1, <2>4, ConcatProperties
      <3>2. <<BEG>> \o (b[n] \o Coded(c)) = (<<BEG>> \o b[n]) \o Coded(c)
        <4> DEFINE s1 == <<BEG>>
                   s2 == b[n]
                   s3 == Coded(c)
        <4>1. s1 \in Seq(Octet) /\ s2 \in Seq(Octet) /\ s3 \in Seq(Octet)
          BY <1>1, <2>2, <2>4
        <4> HIDE DEF s1, s2, s3
        <4>2. (s1 \o s2) \o s3 = s1 \o (s2 \o s3)
          BY <4>1, ConcatAssociative
        <4> QED
          BY <4>2 DEF s1, s2, s3
      <3> QED
        BY <3>1, <3>2, <2>3
    <2> HIDE DEF s
    <2>7. /\ Read(q, s).p = Within(d) /\ Read(q, s).out = <<>>
          /\ Read(Within(d), Coded(c)).p = Within(Append(d, c))
          /\ Read(Within(d), Coded(c)).out = <<>>
      BY <2>2, <2>4, <2>5, ReadCoded
    <2>8. /\ Read(q, s \o Coded(c)).p = Within(Append(d, c))
          /\ Read(q, s \o Coded(c)).out = <<>> \o <<>>
      <3>1. /\ Read(q, s \o Coded(c)).p = Read(Read(q, s).p, Coded(c)).p
            /\ Read(q, s \o Coded(c)).out
                 = Read(q, s).out \o Read(Read(q, s).p, Coded(c)).out
        BY <2>2, <2>6, ReadConcat
      <3> QED
        BY <2>7, <3>1
    <2>9. Read(q, s \o Coded(c)) = [p |-> Within(Append(d, c)), out |-> <<>>]
      <3>1. Read(q, s \o Coded(c)) \in Parsed
        BY <2>2, <2>6, ReadIn, ConcatProperties
      <3>2. <<>> \o <<>> = <<>>
        OBVIOUS
      <3> QED
        BY <3>1, <3>2, <2>8 DEF Parsed
    <2>10. b[n + 1] \in Seq(Octet) /\ \A i \in 1..Len(b[n + 1]) : b[n + 1][i] # END
      <3>1. \A i \in 1..Len(Coded(c)) : Coded(c)[i] # END
        BY <2>2, CodedNoEnd
      <3> DEFINE u == b[n]
                 v == Coded(c)
      <3> HIDE DEF u, v
      <3>2. u \in Seq(Octet) /\ v \in Seq(Octet) /\ b[n + 1] = u \o v
        BY <2>2, <2>3, <2>4 DEF u, v
      <3>3. (\A i \in 1..Len(u) : u[i] # END) /\ (\A i \in 1..Len(v) : v[i] # END)
        BY <2>4, <3>1 DEF u, v
      <3>4. u \o v \in Seq(Octet) /\ \A i \in 1..Len(u \o v) : (u \o v)[i] # END
        BY <3>2, <3>3, ConcatProperties
      <3> QED
        BY <3>2, <3>4
    <2>11. Good(n + 1)
      BY <2>5, <2>6, <2>9, <2>10
    <2> HIDE DEF Good
    <2> QED
      BY <2>1, <2>11
  <1> HIDE DEF S, Good
  <1>5. \A n \in 0..L : n \in S
    BY <1>1, <1>3, <1>4, UpTo
  <1>6. \A n \in 0..L : Good(n)
    BY <1>5 DEF S
  <1> QED
    BY <1>6 DEF Good, b

-----------------------------------------------------------------------------
(* A frame begins with BEG, and END is its last byte and no other; read    *)
(* from any state of the parser it is the message.                         *)
LEMMA FrameFacts ==
  ASSUME NEW m \in Seq(Octet)
  PROVE  /\ Frame(m) \in Seq(Octet) /\ Len(Frame(m)) \in Nat /\ Len(Frame(m)) >= 2
         /\ Frame(m)[1] = BEG
         /\ \A i \in 1..Len(Frame(m)) - 1 : Frame(m)[i] # END
         /\ \A q \in Parser : Read(q, Frame(m)).out = <<m>>
  <1> DEFINE b == Body(m)[Len(m)]
             s == <<BEG>> \o b
             F == Append(s, END)
  <1>1. BEG \in Octet /\ END \in Octet /\ BEG # END
    BY 126 \in 0..255, 127 \in 0..255 DEF BEG, END, Octet
  <1>2. /\ b \in Seq(Octet) /\ \A i \in 1..Len(b) : b[i] # END
        /\ \A q \in Parser : Read(q, s) = [p |-> Within(SubSeq(m, 1, Len(m))), out |-> <<>>]
    <2>1. Len(m) \in 0..Len(m)
      OBVIOUS
    <2>2. PROTO_Init(TRUE) \in Parser
      BY InitParser
    <2>3. b \in Seq(Octet) /\ \A i \in 1..Len(b) : b[i] # END
      BY <2>1, <2>2, ReadBody
    <2>4. \A q \in Parser : Read(q, s) = [p |-> Within(SubSeq(m, 1, Len(m))), out |-> <<>>]
      BY <2>1, ReadBody
    <2> QED
      BY <2>3, <2>4
  <1> HIDE DEF b
  <1>3. /\ s \in Seq(Octet) /\ Len(s) = Len(b) + 1 /\ Len(b) \in Nat
        /\ s[1] = BEG /\ \A i \in 1..Len(s) : s[i] # END
    <2> DEFINE h == <<BEG>>
    <2>1. h \in Seq(Octet) /\ Len(h) = 1 /\ h[1] = BEG
      BY <1>1
    <2> HIDE DEF h
    <2>2. /\ h \o b \in Seq(Octet) /\ Len(h \o b) = 1 + Len(b) /\ Len(b) \in Nat
          /\ \A i \in 1..1 + Len(b) : (h \o b)[i] = IF i <= 1 THEN h[i] ELSE b[i - 1]
      BY <1>2, <2>1, ConcatProperties
    <2>3. /\ (h \o b)[1] = BEG /\ \A i \in 1..Len(h \o b) : (h \o b)[i] # END
      BY <1>1, <1>2, <2>1, <2>2
    <2> QED
      BY <2>2, <2>3 DEF h
  <1>4. Frame(m) = F
    <2>1. Frame(m) = s \o <<END>>
      BY DEF Frame, b
    <2> QED
      BY <2>1, <1>1, <1>3, AppendIsConcat
  <1> HIDE DEF s
  <1>5. /\ F \in Seq(Octet) /\ Len(F) = Len(s) + 1 /\ F[Len(s) + 1] = END
        /\ \A i \in 1..Len(s) : F[i] = s[i]
    BY <1>1, <1>3, AppendProperties
  <1>6. \A q \in Parser : Read(q, F).out = <<m>>
    <2> SUFFICES ASSUME NEW q \in Parser PROVE Read(q, F).out = <<m>>
      OBVIOUS
    <2>1. Read(q, F) = ReadOne(Read(q, s), END)
      BY <1>1, <1>3, ReadAppend
    <2>2. Read(q, s) = [p |-> Within(m), out |-> <<>>]
      BY <1>2, SubSeqFull
    <2>3. PROTO_ParseByte(Within(m), END).data = m
      <3>1. END # ESC /\ END # BEG
        BY DEF ESC, BEG, END
      <3>2. PROTO_ParseByte(Within(m), END) = [Within(m) EXCEPT !.begin = FALSE]
        BY <3>1 DEF PROTO_ParseByte
      <3> QED
        BY <3>2 DEF Within
    <2>4. ReadOne([p |-> Within(m), out |-> <<>>], END).out
             = Append(<<>>, PROTO_ParseByte(Within(m), END).data)
      BY DEF ReadOne
    <2> QED
      BY <2>1, <2>2, <2>3, <2>4
  <1> HIDE DEF F
  <1> QED
    BY <1>3, <1>4, <1>5, <1>6

(* The part of a frame that fits is no message.                            *)
LEMMA FramePart ==
  ASSUME NEW m \in Seq(Octet), NEW k \in 0..Len(Frame(m))
  PROVE  /\ SubSeq(Frame(m), 1, k) \in Seq(Octet)
         /\ Len(SubSeq(Frame(m), 1, k)) = k
         /\ \A i \in 1..k : SubSeq(Frame(m), 1, k)[i] = Frame(m)[i]
         /\ k < Len(Frame(m)) =>
              \A q \in Parser : Read(q, SubSeq(Frame(m), 1, k)).out = <<>>
  <1> DEFINE F == Frame(m)
             t == SubSeq(F, 1, k)
  <1>1. /\ F \in Seq(Octet) /\ Len(F) \in Nat
        /\ \A i \in 1..Len(F) - 1 : F[i] # END
    BY FrameFacts
  <1> HIDE DEF F
  <1>2. k \in 0..Len(F)
    BY DEF F
  <1>3. t \in Seq(Octet) /\ Len(t) = k /\ \A i \in 1..k : t[i] = F[i]
    <2>1. \A i \in 1..k : F[i] \in Octet
      BY <1>1, <1>2
    <2> QED
      BY <1>1, <1>2, <2>1, SubSeqProperties
  <1> HIDE DEF t
  <1>4. ASSUME k < Len(F), NEW q \in Parser PROVE Read(q, t).out = <<>>
    <2>1. \A i \in 1..Len(t) : t[i] # END
      BY <1>1, <1>2, <1>3, <1>4
    <2> QED
      BY <1>3, <2>1, ReadNoEnd
  <1> QED
    BY <1>3, <1>4 DEF t, F

-----------------------------------------------------------------------------
(* What is in the ring begins with BEG, and so does what follows an END.   *)
Starts(s) ==
  /\ s # <<>> => s[1] = BEG
  /\ \A i \in 1..Len(s) - 1 : s[i] = END => s[i + 1] = BEG

LEMMA StartsConcat ==
  ASSUME NEW s \in Seq(Octet), NEW t \in Seq(Octet), Starts(s), Starts(t)
  PROVE  Starts(s \o t)
  <1> DEFINE u == s \o t
  <1>1. /\ u \in Seq(Octet) /\ Len(u) = Len(s) + Len(t)
        /\ Len(s) \in Nat /\ Len(t) \in Nat
        /\ \A i \in 1..Len(s) + Len(t) : u[i] = IF i <= Len(s) THEN s[i] ELSE t[i - Len(s)]
    BY ConcatProperties
  <1>2. (Len(s) = 0 <=> s = <<>>) /\ (Len(t) = 0 <=> t = <<>>) /\ (Len(u) = 0 <=> u = <<>>)
    BY <1>1, EmptySeq
  <1> HIDE DEF u
  <1>3. ASSUME u # <<>> PROVE u[1] = BEG
    <2>1. CASE Len(s) > 0
      <3>1. u[1] = s[1] /\ s # <<>>
        BY <1>1, <1>2, <2>1
      <3> QED
        BY <3>1 DEF Starts
    <2>2. CASE Len(s) = 0
      <3>1. u[1] = t[1] /\ t # <<>>
        BY <1>1, <1>2, <1>3, <2>2
      <3> QED
        BY <3>1 DEF Starts
    <2> QED
      BY <2>1, <2>2, <1>1
  <1>4. ASSUME NEW i \in 1..Len(u) - 1, u[i] = END PROVE u[i + 1] = BEG
    <2>0. i \in Nat /\ i >= 1 /\ i + 1 <= Len(s) + Len(t)
      BY <1>1
    <2>1. CASE i < Len(s)
      <3>1. i \in 1..Len(s) - 1 /\ u[i] = s[i] /\ u[i + 1] = s[i + 1]
        BY <1>1, <2>0, <2>1
      <3> QED
        BY <3>1, <1>4 DEF Starts
    <2>2. CASE i = Len(s)
      <3>1. u[i + 1] = t[1] /\ t # <<>>
        BY <1>1, <1>2, <2>0, <2>2
      <3> QED
        BY <3>1 DEF Starts
    <2>3. CASE i > Len(s)
      <3> DEFINE j == i - Len(s)
      <3>1. j \in 1..Len(t) - 1 /\ u[i] = t[j] /\ u[i + 1] = t[j + 1]
        <4>1. (i + 1) - Len(s) = j + 1 /\ i + 1 \in 1..Len(s) + Len(t) /\ i \in 1..Len(s) + Len(t)
          BY <1>1, <2>0
        <4>2. j \in 1..Len(t) - 1 /\ ~(i <= Len(s)) /\ ~(i + 1 <= Len(s))
          BY <1>1, <2>0, <2>3
        <4> QED
          BY <1>1, <4>1, <4>2
      <3> HIDE DEF j
      <3> QED
        BY <3>1, <1>4 DEF Starts
    <2> QED
      BY <2>1, <2>2, <2>3, <2>0, <1>1
  <1> QED
    BY <1>3, <1>4 DEF Starts, u

LEMMA StartsRest ==
  ASSUME NEW u \in Seq(Octet), NEW t \in Seq(Octet), Starts(Append(u, END) \o t)
  PROVE  Starts(t)
  <1> DEFINE v == Append(u, END)
             s == v \o t
             n == Len(v)
  <1>1. /\ v \in Seq(Octet) /\ n = Len(u) + 1 /\ Len(u) \in Nat /\ v[n] = END
    BY 127 \in 0..255, AppendProperties DEF Octet, END
  <1> HIDE DEF v
  <1>2. /\ Len(s) = n + Len(t) /\ Len(t) \in Nat
        /\ \A i \in 1..n + Len(t) : s[i] = IF i <= n THEN v[i] ELSE t[i - n]
    <2>1. v \in Seq(Octet)
      BY <1>1
    <2> QED
      BY <2>1, ConcatProperties
  <1>3. \A i \in 1..Len(s) - 1 : s[i] = END => s[i + 1] = BEG
    BY DEF Starts, v
  <1> HIDE DEF s, n
  <1>n. n \in Nat /\ n >= 1
    BY <1>1
  <1>4. ASSUME t # <<>> PROVE t[1] = BEG
    <2>1. Len(t) > 0
      BY <1>4, <1>2, EmptySeq
    <2>2. n \in 1..Len(s) - 1 /\ s[n] = END /\ s[n + 1] = t[1]
      BY <1>1, <1>2, <1>n, <2>1
    <2> QED
      BY <1>3, <2>2
  <1>5. ASSUME NEW i \in 1..Len(t) - 1, t[i] = END PROVE t[i + 1] = BEG
    <2>1. n + i \in 1..Len(s) - 1 /\ n + i \in 1..n + Len(t) /\ (n + i) + 1 \in 1..n + Len(t)
      BY <1>2, <1>n
    <2>2. /\ ~(n + i <= n) /\ ~((n + i) + 1 <= n)
          /\ (n + i) - n = i /\ ((n + i) + 1) - n = i + 1
      BY <1>2, <1>n
    <2>3. s[n + i] = t[i] /\ s[(n + i) + 1] = t[i + 1]
      BY <1>2, <2>1, <2>2
    <2> QED
      BY <1>3, <1>5, <2>1, <2>3
  <1> QED
    BY <1>4, <1>5 DEF Starts

LEMMA FrameStarts ==
  ASSUME NEW m \in Seq(Octet), NEW k \in 0..Len(Frame(m))
  PROVE  Starts(SubSeq(Frame(m), 1, k))
  <1> DEFINE F == Frame(m)
             t == SubSeq(F, 1, k)
  <1>1. /\ Len(F) \in Nat /\ F[1] = BEG /\ \A i \in 1..Len(F) - 1 : F[i] # END
    BY FrameFacts
  <1>2. t \in Seq(Octet) /\ Len(t) = k /\ \A i \in 1..k : t[i] = F[i]
    BY FramePart
  <1>3. k \in 0..Len(F)
    OBVIOUS
  <1> HIDE DEF F, t
  <1>4. t # <<>> => t[1] = BEG
    <2>1. t # <<>> => Len(t) > 0
      BY <1>2, EmptySeq
    <2> QED
      BY <1>1, <1>2, <1>3, <2>1
  <1>5. \A i \in 1..Len(t) - 1 : t[i] # END
    BY <1>1, <1>2, <1>3
  <1> QED
    BY <1>4, <1>5 DEF Starts, t, F

-----------------------------------------------------------------------------
(* PROTO_AddRb puts the beginning of the frame into the ring, all of it or *)
(* what fits.                                                              *)
PutUpTo(r, s, a, n) ==
  /\ Tidy(a.r) /\ a.ok \in BOOLEAN
  /\ \E k \in 0..n : /\ InRing(a.r) = InRing(r) \o SubSeq(s, 1, k)
                     /\ a.ok <=> k = n

LEMMA PuttingRing ==
  ASSUME NEW r, Tidy(r), NEW s \in Seq(Octet)
  PROVE  \A n \in 0..Len(s) : PutUpTo(r, s, Putting(r, s)[n], n)
  <1> DEFINE L == Len(s)
             f == Putting(r, s)
             S == {n \in 0..L : PutUpTo(r, s, f[n], n)}
  <1>1. r \in Buffer /\ InRing(r) \in Seq(Octet) /\ L \in Nat
    BY RingSeq DEF Tidy
  <1>2. /\ f \in [0..L -> [r : Buffer, ok : BOOLEAN]] /\ f[0] = [r |-> r, ok |-> TRUE]
        /\ \A n \in 1..L : f[n] = PutOne(f[n - 1], s[n])
    BY <1>1, PuttingIs
  <1> HIDE DEF f
  <1>3. 0 \in S
    <2>1. SubSeq(s, 1, 0) = <<>>
      BY SubSeqEmpty
    <2>2. InRing(r) = InRing(r) \o SubSeq(s, 1, 0)
      BY <1>1, <2>1, ConcatEmptySeq
    <2>3. f[0].r = r /\ f[0].ok = TRUE
      BY <1>2
    <2>4. 0 \in 0..0 /\ 0 \in 0..L
      BY <1>1
    <2> QED
      BY <2>2, <2>3, <2>4 DEF PutUpTo
  <1>4. ASSUME NEW n \in Nat, n < L, n \in S PROVE n + 1 \in S
    <2> DEFINE a == f[n]
               c == s[n + 1]
               b == f[n + 1]
    <2>1. n + 1 \in 1..L /\ (n + 1) - 1 = n /\ n + 1 \in 0..L /\ n \in 0..L
      BY <1>1, <1>4
    <2>2. b = PutOne(a, c) /\ c \in Octet
      BY <1>2, <2>1, ElementOfSeq
    <2>3. PutUpTo(r, s, a, n)
      BY <1>4
    <2>4. a \in [r : Buffer, ok : BOOLEAN]
      BY <1>2, <2>1
    <2> HIDE DEF a, b, c
    <2>5. PICK k \in 0..n : /\ InRing(a.r) = InRing(r) \o SubSeq(s, 1, k)
                            /\ a.ok <=> k = n
      BY <2>3 DEF PutUpTo
    <2>6. CASE a.ok /\ a.r.fill_cnt < QUEUE_BUFFER_SIZE
      <3>1. b = [r |-> RINGBUF_Put(a.r, c), ok |-> TRUE]
        BY <2>2, <2>6 DEF PutOne
      <3>2. Tidy(a.r)
        BY <2>3 DEF PutUpTo
      <3>3. /\ Tidy(RINGBUF_Put(a.r, c))
            /\ InRing(RINGBUF_Put(a.r, c)) = Append(InRing(a.r), c)
        BY <2>2, <2>6, <3>2, PutRing
      <3>4. InRing(a.r) = InRing(r) \o SubSeq(s, 1, n)
        BY <2>5, <2>6
      <3>5. SubSeq(s, 1, n) \in Seq(Octet) /\ SubSeq(s, 1, n + 1) = SubSeq(s, 1, n) \o <<c>>
        <4>1. SubSeq(s, 1, n) \in Seq(Octet)
          BY <2>1
        <4>2. SubSeq(s, 1, n + 1) = SubSeq(s, 1, (n + 1) - 1) \o <<s[n + 1]>>
          <5>1. 1 \in 1..Len(s) /\ n + 1 \in 1..Len(s)
            BY <2>1
          <5> QED
            BY <5>1, SubSeqRecursiveSecond
        <4> QED
          BY <4>1, <4>2, <2>1 DEF c
      <3>6. Append(InRing(a.r), c) = InRing(r) \o SubSeq(s, 1, n + 1)
        <4> DEFINE s1 == InRing(r)
                   s2 == SubSeq(s, 1, n)
                   s3 == <<c>>
        <4>1. s1 \in Seq(Octet) /\ s2 \in Seq(Octet) /\ s3 \in Seq(Octet)
          BY <1>1, <3>5, <2>2
        <4>2. s1 \o s2 \in Seq(Octet) /\ Append(s1 \o s2, c) = (s1 \o s2) \o s3
          BY <2>2, <4>1, ConcatProperties, AppendIsConcat
        <4> HIDE DEF s1, s2, s3
        <4>3. (s1 \o s2) \o s3 = s1 \o (s2 \o s3)
          BY <4>1, ConcatAssociative
        <4> QED
          BY <4>2, <4>3, <3>4, <3>5 DEF s1, s2, s3
      <3>7. n + 1 \in 0..(n + 1)
        BY <2>1
      <3>8. PutUpTo(r, s, b, n + 1)
        <4>1. b.r = RINGBUF_Put(a.r, c) /\ b.ok = TRUE
          BY <3>1
        <4> QED
          BY <3>3, <3>6, <3>7, <4>1 DEF PutUpTo
      <3> QED
        BY <2>1, <3>8 DEF b
    <2>7. CASE ~(a.ok /\ a.r.fill_cnt < QUEUE_BUFFER_SIZE)
      <3>1. b.r = a.r /\ b.ok = FALSE
        BY <2>2, <2>4, <2>7 DEF PutOne
      <3>2. k \in 0..(n + 1) /\ k # n + 1
        BY <2>1, <2>5
      <3>3. PutUpTo(r, s, b, n + 1)
        BY <2>3, <2>5, <3>1, <3>2 DEF PutUpTo
      <3> QED
        BY <2>1, <3>3 DEF b
    <2> QED
      BY <2>6, <2>7
  <1> HIDE DEF S
  <1>5. \A n \in 0..L : n \in S
    BY <1>1, <1>3, <1>4, UpTo
  <1> QED
    BY <1>5 DEF S, f

-----------------------------------------------------------------------------
(* The messages of a ring; QueueInv is what every operation keeps.         *)
RingHolds(r) == Messages(InRing(r))
RingInv(r) == Tidy(r) /\ Starts(InRing(r))

LEMMA MessagesRead ==
  \A s : Messages(s) = Read(PROTO_Init(FALSE), s).out
  BY DEF Messages, Read

LEMMA MessagesSeq ==
  ASSUME NEW s \in Seq(Octet) PROVE Messages(s) \in Seq(Seq(Octet))
  <1>1. PROTO_Init(FALSE) \in Parser
    BY InitParser
  <1> QED
    BY <1>1, MessagesRead, ReadIn

LEMMA AddFrame ==
  ASSUME NEW r, RingInv(r), NEW m \in Seq(Octet)
  PROVE  /\ RingInv(PROTO_AddRb(r, m).r)
         /\ PROTO_AddRb(r, m).ok \in BOOLEAN
         /\ RingHolds(PROTO_AddRb(r, m).r)
              = IF PROTO_AddRb(r, m).ok THEN Append(RingHolds(r), m) ELSE RingHolds(r)
  <1> DEFINE F == Frame(m)
             a == PROTO_AddRb(r, m)
             s == InRing(r)
             P == PROTO_Init(FALSE)
             d == Read(P, s)
  <1>1. F \in Seq(Octet) /\ Len(F) \in Nat /\ Len(F) >= 2
    BY FrameFacts
  <1>2. Tidy(r) /\ Starts(s) /\ s \in Seq(Octet)
    BY RingSeq DEF RingInv
  <1>3. PutUpTo(r, F, a, Len(F))
    <2>1. Len(F) \in 0..Len(F)
      BY <1>1
    <2> QED
      BY <1>1, <1>2, <2>1, PuttingRing DEF PROTO_AddRb
  <1>4. PICK k \in 0..Len(F) : /\ InRing(a.r) = s \o SubSeq(F, 1, k)
                               /\ a.ok <=> k = Len(F)
    BY <1>3 DEF PutUpTo
  <1> DEFINE t == SubSeq(F, 1, k)
  <1>5. t \in Seq(Octet) /\ Starts(t)
    BY FramePart, FrameStarts
  <1>6. RingInv(a.r)
    <2>1. Starts(s \o t)
      BY <1>2, <1>5, StartsConcat
    <2> QED
      BY <1>3, <1>4, <2>1 DEF PutUpTo, RingInv
  <1>7. P \in Parser
    BY InitParser
  <1>8. d.p \in Parser /\ d.out \in Seq(Seq(Octet))
    BY <1>2, <1>7, ReadIn
  <1>9. RingHolds(a.r) = d.out \o Read(d.p, t).out
    <2>1. Read(P, s \o t).out = d.out \o Read(d.p, t).out
      BY <1>2, <1>5, <1>7, ReadConcat
    <2>2. RingHolds(a.r) = Read(P, s \o t).out
      BY <1>4, MessagesRead DEF RingHolds
    <2> QED
      BY <2>1, <2>2
  <1>10. RingHolds(r) = d.out
    BY MessagesRead DEF RingHolds
  <1>11. a.ok \in BOOLEAN
    BY <1>3 DEF PutUpTo
  <1>12. CASE a.ok
    <2>1. t = F
      BY <1>1, <1>4, <1>12, SubSeqFull
    <2>2. Read(d.p, t).out = <<m>>
      BY <1>8, <2>1, FrameFacts
    <2>3. d.out \o <<m>> = Append(d.out, m)
      <3> HIDE DEF d
      <3> DEFINE M == Seq(Octet)
                 o == d.out
      <3>1. o \in Seq(M) /\ m \in M
        BY <1>8
      <3> HIDE DEF M, o
      <3>2. Append(o, m) = o \o <<m>>
        BY <3>1, AppendIsConcat
      <3> QED
        BY <3>2 DEF o
    <2> QED
      BY <1>6, <1>9, <1>10, <1>11, <1>12, <2>2, <2>3
  <1>13. CASE ~a.ok
    <2>1. k < Len(F)
      BY <1>1, <1>4, <1>13
    <2>2. Read(d.p, t).out = <<>>
      BY <1>8, <2>1, FramePart
    <2>3. d.out \o <<>> = d.out
      BY <1>8, ConcatEmptySeq
    <2> QED
      BY <1>6, <1>9, <1>10, <1>11, <1>13, <2>2, <2>3
  <1> QED
    BY <1>11, <1>12, <1>13

-----------------------------------------------------------------------------
(* PROTO_ParseRb takes bytes out up to the first END, or all of them.      *)
NoEnd(u) == \A i \in 1..Len(u) : u[i] # END

GotPart(a, u, n) ==
  /\ a.ok  => \E v \in Seq(Octet) : u = Append(v, END) /\ NoEnd(v)
  /\ ~a.ok => Len(u) = n /\ NoEnd(u)

GotUpTo(r, p, a, n) ==
  /\ Tidy(a.r) /\ a.ok \in BOOLEAN
  /\ \E u \in Seq(Octet) : /\ InRing(r) = u \o InRing(a.r)
                           /\ a.p = Read(p, u).p
                           /\ GotPart(a, u, n)

LEMMA NoEndAppend ==
  ASSUME NEW u \in Seq(Octet), NEW c \in Octet, NoEnd(u), c # END
  PROVE  NoEnd(Append(u, c))
  <1>1. /\ Len(u) \in Nat /\ Len(Append(u, c)) = Len(u) + 1
        /\ \A i \in 1..Len(u) : Append(u, c)[i] = u[i]
        /\ Append(u, c)[Len(u) + 1] = c
    BY AppendProperties
  <1> QED
    BY <1>1 DEF NoEnd

LEMMA GettingRing ==
  ASSUME NEW r, Tidy(r), NEW p \in Parser
  PROVE  \A n \in 0..r.fill_cnt : GotUpTo(r, p, Getting(r, p)[n], n)
  <1> DEFINE L == r.fill_cnt
             f == Getting(r, p)
             s == InRing(r)
             S == {n \in 0..L : GotUpTo(r, p, f[n], n)}
  <1>1. r \in Buffer /\ s \in Seq(Octet) /\ L \in Nat /\ Len(s) = L
    BY RingSeq DEF Tidy
  <1>2. /\ f \in [0..L -> [r : Buffer, p : Parser, ok : BOOLEAN]]
        /\ f[0] = [r |-> r, p |-> p, ok |-> FALSE]
        /\ \A n \in 1..L : f[n] = GetOne(f[n - 1])
    BY <1>1, GettingIs
  <1> HIDE DEF f
  <1>3. 0 \in S
    <2> DEFINE u == <<>>
               a == f[0]
    <2>1. u \in Seq(Octet) /\ Len(u) = 0 /\ NoEnd(u)
      BY DEF NoEnd
    <2>2. s = u \o s
      BY <1>1, ConcatEmptySeq
    <2>3. a.r = r /\ a.p = p /\ a.ok = FALSE
      BY <1>2
    <2>4. Read(p, u).p = p
      BY ReadNothing
    <2> HIDE DEF u, a
    <2>5. GotPart(a, u, 0)
      BY <2>1, <2>3 DEF GotPart
    <2>6. GotUpTo(r, p, a, 0)
      BY <2>1, <2>2, <2>3, <2>4, <2>5 DEF GotUpTo
    <2> QED
      BY <2>6, <1>1 DEF a
  <1>4. ASSUME NEW n \in Nat, n < L, n \in S PROVE n + 1 \in S
    <2> DEFINE a == f[n]
               b == f[n + 1]
    <2>1. n + 1 \in 1..L /\ (n + 1) - 1 = n /\ n + 1 \in 0..L /\ n \in 0..L
      BY <1>1, <1>4
    <2>2. b = GetOne(a)
      BY <1>2, <2>1
    <2>3. GotUpTo(r, p, a, n)
      BY <1>4
    <2>4. a \in [r : Buffer, p : Parser, ok : BOOLEAN]
      BY <1>2, <2>1
    <2> HIDE DEF a, b
    <2>5. PICK u \in Seq(Octet) : /\ s = u \o InRing(a.r)
                                  /\ a.p = Read(p, u).p
                                  /\ GotPart(a, u, n)
      BY <2>3 DEF GotUpTo
    <2>t. Tidy(a.r)
      BY <2>3 DEF GotUpTo
    <2>6. CASE a.ok
      <3>1. b = a
        BY <2>2, <2>6 DEF GetOne
      <3>2. GotPart(b, u, n + 1)
        BY <2>5, <2>6, <3>1 DEF GotPart
      <3>3. GotUpTo(r, p, b, n + 1)
        BY <2>3, <2>5, <3>1, <3>2 DEF GotUpTo
      <3> QED
        BY <2>1, <3>3 DEF b
    <2>7. CASE ~a.ok
      <3> DEFINE c == a.r.buf[a.r.p_r]
                 t == RINGBUF_Get(a.r)
                 w == Append(u, c)
      <3>1. b = [r |-> t, p |-> PROTO_ParseByte(a.p, c), ok |-> c = END]
        BY <2>2, <2>7 DEF GetOne
      <3>2. Len(u) = n /\ NoEnd(u)
        BY <2>5, <2>7 DEF GotPart
      <3>3. a.r.fill_cnt > 0
        <4>1. InRing(a.r) \in Seq(Octet) /\ Len(InRing(a.r)) = a.r.fill_cnt /\ a.r.fill_cnt \in Nat
          BY <2>t, RingSeq
        <4>2. Len(s) = Len(u) + Len(InRing(a.r))
          BY <2>5, <4>1, ConcatProperties
        <4> QED
          BY <1>1, <1>4, <3>2, <4>1, <4>2
      <3>4. Tidy(t) /\ c \in Octet /\ InRing(a.r) = <<c>> \o InRing(t)
        BY <2>t, <3>3, GetRing
      <3>5. InRing(t) \in Seq(Octet)
        BY <3>4, RingSeq
      <3> HIDE DEF c, t
      <3>6. s = w \o InRing(t) /\ w \in Seq(Octet) /\ Len(w) = n + 1
        <4> DEFINE s2 == <<c>>
                   s3 == InRing(t)
        <4>1. s2 \in Seq(Octet) /\ s3 \in Seq(Octet)
          BY <3>4, <3>5
        <4>2. w = u \o s2 /\ w \in Seq(Octet) /\ Len(w) = n + 1
          BY <3>2, <3>4, AppendIsConcat, AppendProperties
        <4> HIDE DEF s2, s3, w
        <4>3. (u \o s2) \o s3 = u \o (s2 \o s3)
          BY <4>1, ConcatAssociative
        <4>4. s = u \o (s2 \o s3)
          BY <2>5, <3>4 DEF s2, s3
        <4> QED
          BY <4>2, <4>3, <4>4 DEF s3
      <3>7. b.p = Read(p, w).p
        <4>1. Read(p, w) = ReadOne(Read(p, u), c)
          BY <3>4, ReadAppend
        <4>2. Read(p, w).p = PROTO_ParseByte(Read(p, u).p, c)
          BY <4>1 DEF ReadOne
        <4> QED
          BY <2>5, <3>1, <4>2
      <3>8. GotPart(b, w, n + 1)
        <4>1. b.ok <=> c = END
          BY <3>1
        <4>2. CASE c = END
          <5>1. w = Append(u, END)
            BY <4>2
          <5> HIDE DEF w
          <5> QED
            BY <3>2, <4>1, <4>2, <5>1 DEF GotPart
        <4>3. CASE c # END
          <5>1. NoEnd(w)
            BY <3>2, <3>4, <4>3, NoEndAppend
          <5> HIDE DEF w
          <5> QED
            BY <3>6, <4>1, <4>3, <5>1 DEF GotPart
        <4> QED
          BY <4>2, <4>3
      <3> HIDE DEF w
      <3>9. b.r = t /\ b.ok \in BOOLEAN
        BY <3>1
      <3>10. GotUpTo(r, p, b, n + 1)
        BY <3>4, <3>6, <3>7, <3>8, <3>9 DEF GotUpTo
      <3> QED
        BY <2>1, <3>10 DEF b
    <2> QED
      BY <2>6, <2>7
  <1> HIDE DEF S
  <1>5. \A n \in 0..L : n \in S
    BY <1>1, <1>3, <1>4, UpTo
  <1> QED
    BY <1>5 DEF S, f

(* So it takes out the first message, whole, whatever is left on the stack *)
(* for isBegin, or empties a ring that has none.                           *)
LEMMA DropFirst ==
  ASSUME NEW r, RingInv(r), NEW begin \in BOOLEAN
  PROVE  LET a == PROTO_ParseRb(r, begin)
         IN  /\ RingInv(a.r) /\ a.ok \in BOOLEAN
             /\ a.ok => /\ a.p.data \in Seq(Octet) /\ RingHolds(a.r) \in Seq(Seq(Octet))
                        /\ RingHolds(r) = <<a.p.data>> \o RingHolds(a.r)
             /\ ~a.ok => RingHolds(r) = <<>> /\ RingHolds(a.r) = <<>>
  <1> DEFINE a == PROTO_ParseRb(r, begin)
             s == InRing(r)
             t == InRing(a.r)
             P == PROTO_Init(FALSE)
             q == PROTO_Init(begin)
  <1>1. Tidy(r) /\ Starts(s) /\ s \in Seq(Octet) /\ Len(s) = r.fill_cnt /\ r.fill_cnt \in Nat
    BY RingSeq DEF RingInv
  <1>2. P \in Parser /\ q \in Parser
    BY InitParser
  <1> HIDE DEF P, q
  <1>3. GotUpTo(r, q, a, r.fill_cnt)
    <2>1. r.fill_cnt \in 0..r.fill_cnt
      BY <1>1
    <2>2. a = Getting(r, q)[r.fill_cnt]
      BY DEF PROTO_ParseRb, q
    <2> QED
      BY <1>1, <1>2, <2>1, <2>2, GettingRing
  <1> HIDE DEF a
  <1>4. PICK u \in Seq(Octet) : /\ s = u \o t
                                /\ a.p = Read(q, u).p
                                /\ GotPart(a, u, r.fill_cnt)
    BY <1>3 DEF GotUpTo
  <1>5. Tidy(a.r) /\ a.ok \in BOOLEAN /\ t \in Seq(Octet)
    BY <1>3, RingSeq DEF GotUpTo
  <1>6. RingHolds(r) = Read(P, s).out /\ RingHolds(a.r) = Read(P, t).out
    BY MessagesRead DEF RingHolds, P
  <1>7. CASE ~a.ok
    <2>1. Len(u) = Len(s) /\ NoEnd(u)
      BY <1>1, <1>4, <1>7 DEF GotPart
    <2>2. Len(s) = Len(u) + Len(t) /\ Len(t) \in Nat /\ Len(u) \in Nat
      BY <1>4, <1>5, ConcatProperties
    <2>3. t = <<>>
      <3>1. Len(t) = 0
        BY <2>1, <2>2
      <3> QED
        BY <1>5, <3>1, EmptySeq
    <2>4. s = u
      BY <1>4, <2>3, ConcatEmptySeq
    <2>5. Read(P, s).out = <<>>
      BY <1>2, <2>1, <2>4, ReadNoEnd DEF NoEnd
    <2>6. Read(P, t).out = <<>>
      BY <1>2, <2>3, ReadNothing
    <2>7. RingInv(a.r)
      BY <1>5, <2>3 DEF RingInv, Starts
    <2> QED
      BY <1>5, <1>6, <1>7, <2>5, <2>6, <2>7 DEF a
  <1>8. CASE a.ok
    <2>1. PICK v \in Seq(Octet) : u = Append(v, END) /\ NoEnd(v)
      BY <1>4, <1>8 DEF GotPart
    <2>e. END \in Octet
      BY 127 \in 0..255 DEF END, Octet
    <2>2. Starts(t)
      BY <1>1, <1>4, <1>5, <2>1, StartsRest
    <2>3. RingInv(a.r)
      BY <1>5, <2>2 DEF RingInv
    <2>4. u # <<>> /\ u[1] = BEG
      <3>1. /\ Len(u) = Len(v) + 1 /\ Len(v) \in Nat /\ u # <<>>
        BY <2>1, <2>e, AppendProperties
      <3>2. /\ Len(s) = Len(u) + Len(t) /\ Len(t) \in Nat
            /\ \A i \in 1..Len(u) + Len(t) : s[i] = IF i <= Len(u) THEN u[i] ELSE t[i - Len(u)]
        BY <1>4, <1>5, ConcatProperties
      <3>3. s[1] = u[1] /\ Len(s) > 0
        BY <3>1, <3>2
      <3>4. s # <<>>
        BY <3>3, EmptySeq
      <3> QED
        BY <1>1, <3>1, <3>3, <3>4 DEF Starts
    <2>5. Read(P, u).p = a.p
      BY <1>2, <1>4, <2>4, ReadStarts
    <2>6. Read(P, u).out = <<a.p.data>>
      <3>1. Read(P, u) = ReadOne(Read(P, v), END)
        BY <1>2, <2>1, <2>e, ReadAppend
      <3>2. Read(P, v).out = <<>>
        BY <1>2, <2>1, ReadNoEnd DEF NoEnd
      <3>3. /\ Read(P, u).p = PROTO_ParseByte(Read(P, v).p, END)
            /\ Read(P, u).out = Append(<<>>, PROTO_ParseByte(Read(P, v).p, END).data)
        BY <3>1, <3>2 DEF ReadOne
      <3> QED
        BY <2>5, <3>3
    <2>7. a.p \in Parser /\ a.p.data \in Seq(Octet)
      <3>1. a.p \in Parser
        BY <1>2, <1>4, ReadIn
      <3> QED
        BY <3>1 DEF Parser
    <2>8. Read(a.p, t).out = Read(P, t).out
      <3>1. CASE t = <<>>
        BY <3>1, <1>2, <2>7, ReadNothing
      <3>2. CASE t # <<>>
        <4>1. t[1] = BEG
          BY <2>2, <3>2 DEF Starts
        <4> QED
          BY <1>2, <1>5, <2>7, <3>2, <4>1, ReadStarts
      <3> QED
        BY <3>1, <3>2
    <2>9. Read(P, s).out = <<a.p.data>> \o Read(P, t).out
      <3> HIDE DEF t
      <3>1. Read(P, u \o t).out = Read(P, u).out \o Read(Read(P, u).p, t).out
        BY <1>2, <1>5, ReadConcat
      <3> QED
        BY <1>4, <2>5, <2>6, <2>8, <3>1
    <2>10. Read(P, t).out \in Seq(Seq(Octet))
      BY <1>2, <1>5, ReadIn
    <2> QED
      BY <1>5, <1>6, <1>8, <2>3, <2>7, <2>9, <2>10 DEF a
  <1> QED
    BY <1>5, <1>7, <1>8

-----------------------------------------------------------------------------
(* The rounds of MQTT_Publish.                                             *)
Tried == [r : {x \in Buffer : RingInv(x)}, end : {"no", "put", "refused"}]

LEMMA RoundIn ==
  ASSUME NEW a \in Tried, NEW m \in Seq(Octet), NEW begin \in BOOLEAN
  PROVE  Round(a, m, begin) \in Tried
  <1> DEFINE put == PROTO_AddRb(a.r, m)
             get == PROTO_ParseRb(put.r, begin)
             R == {x \in Buffer : RingInv(x)}
  <1>1. RingInv(a.r)
    BY DEF Tried
  <1>2. RingInv(put.r) /\ put.r \in R
    <2>1. RingInv(put.r)
      BY <1>1, AddFrame
    <2> QED
      BY <2>1 DEF RingInv, Tidy
  <1> HIDE DEF put
  <1>3. RingInv(get.r) /\ get.r \in R
    <2>1. RingInv(get.r)
      BY <1>2, DropFirst
    <2> QED
      BY <2>1 DEF RingInv, Tidy
  <1>4. Round(a, m, begin) = IF a.end # "no" THEN a
          ELSE IF put.ok THEN [r |-> put.r, end |-> "put"]
          ELSE [r |-> get.r, end |-> IF get.ok THEN "no" ELSE "refused"]
    BY DEF Round, put
  <1> HIDE DEF get, R
  <1>5. Tried = [r : R, end : {"no", "put", "refused"}]
    BY DEF Tried, R
  <1> QED
    BY <1>2, <1>3, <1>4, <1>5

LEMMA RoundsIs ==
  ASSUME NEW r, RingInv(r), NEW m \in Seq(Octet), NEW begin \in BOOLEAN
  PROVE  /\ Rounds(r, m, begin) \in [0..QUEUE_BUFFER_SIZE -> Tried]
         /\ Rounds(r, m, begin)[0] = [r |-> r, end |-> "no"]
         /\ \A k \in 1..QUEUE_BUFFER_SIZE :
              Rounds(r, m, begin)[k] = Round(Rounds(r, m, begin)[k - 1], m, begin)
  <1> DEFINE X == Tried
             L == QUEUE_BUFFER_SIZE
             x0 == [r |-> r, end |-> "no"]
             St(k, x) == Round(x, m, begin)
             F == [k \in 1..L |-> [x \in X |-> St(k, x)]]
             Fix(f) == [k \in 0..L |-> IF k = 0 THEN x0 ELSE St(k, f[k - 1])]
             h == CHOOSE f : f = Fix(f)
  <1>1. L \in Nat /\ x0 \in X
    BY QueueSize DEF Tried, RingInv, Tidy
  <1>2. \A k \in 1..L, x \in X : St(k, x) \in X
    BY RoundIn
  <1> HIDE DEF X, L, x0, St, F
  <1>4. F \in [1..L -> [X -> X]] /\ \A k \in 1..L, x \in X : F[k][x] = St(k, x)
    BY <1>2 DEF F
  <1>5. PICK g : Loop(g, L, X, x0, F)
    BY <1>1, <1>4, LoopExists
  <1>6. \A k \in 0..L : g[k] = IF k = 0 THEN x0 ELSE St(k, g[k - 1])
    <2>1. ASSUME NEW k \in 0..L, k # 0 PROVE g[k] = St(k, g[k - 1])
      <3>1. k \in 1..L /\ k - 1 \in 0..L
        BY <1>1, <2>1
      <3> QED
        BY <3>1, <1>4, <1>5 DEF Loop
    <2> QED
      BY <2>1, <1>5 DEF Loop
  <1>7. h = Fix(h)
    <2>1. g = Fix(g)
      BY <1>5, <1>6 DEF Loop
    <2> HIDE DEF Fix
    <2> QED
      BY <2>1
  <1>8. Rounds(r, m, begin) = h
    BY DEF Rounds, L, x0, St
  <1> HIDE DEF h
  <1>9. /\ h = [k \in 0..L |-> h[k]] /\ h[0] = x0
        /\ \A k \in 1..L : h[k] = St(k, h[k - 1])
    <2>1. \A k \in 0..L : h[k] = IF k = 0 THEN x0 ELSE St(k, h[k - 1])
      BY <1>7, Zenon
    <2>2. h = [k \in 0..L |-> h[k]]
      BY <1>7, <2>1, Zenon
    <2>3. 0 \in 0..L /\ \A k \in 1..L : k \in 0..L /\ k # 0
      BY <1>1
    <2> QED
      BY <2>1, <2>2, <2>3, Zenon
  <1>10. h \in [0..L -> X]
    <2>1. Loops(h, L, X, x0, F)
      BY <1>4, <1>9 DEF Loops
    <2> QED
      BY <1>1, <1>4, <2>1, LoopIn
  <1> QED
    BY <1>8, <1>9, <1>10 DEF X, L, x0, St

(* After n rounds either n messages have been dropped and the new one did  *)
(* not fit, or it is in, or there was none left to drop.                   *)
Kept(q, m, a, n) ==
  /\ a.end = "no" => n <= Len(q) /\ RingHolds(a.r) = SubSeq(q, n + 1, Len(q))
  /\ a.end = "put" => \E k \in 0..Len(q) :
                        RingHolds(a.r) = Append(SubSeq(q, k + 1, Len(q)), m)
  /\ a.end = "refused" => RingHolds(a.r) = <<>>

LEMMA RestOf ==
  ASSUME NEW X, NEW d \in X, NEW e \in X, NEW s \in Seq(X), NEW t \in Seq(X),
         <<d>> \o s = <<e>> \o t
  PROVE  s = t
  <1> DEFINE u == <<d>>
             v == <<e>>
  <1>1. u \in Seq(X) /\ Len(u) = 1 /\ v \in Seq(X) /\ Len(v) = 1
    OBVIOUS
  <1>0. u \o s = v \o t
    OBVIOUS
  <1> HIDE DEF u, v
  <1>2. /\ Len(u \o s) = 1 + Len(s) /\ Len(s) \in Nat
        /\ \A i \in 1..1 + Len(s) : (u \o s)[i] = IF i <= 1 THEN u[i] ELSE s[i - 1]
    <2>1. /\ Len(u \o s) = Len(u) + Len(s)
          /\ \A i \in 1..Len(u) + Len(s) :
               (u \o s)[i] = IF i <= Len(u) THEN u[i] ELSE s[i - Len(u)]
      BY <1>1, ConcatProperties
    <2> QED
      BY <1>1, <2>1
  <1>3. /\ Len(v \o t) = 1 + Len(t) /\ Len(t) \in Nat
        /\ \A i \in 1..1 + Len(t) : (v \o t)[i] = IF i <= 1 THEN v[i] ELSE t[i - 1]
    BY <1>1, ConcatProperties
  <1>4. Len(s) = Len(t)
    BY <1>0, <1>2, <1>3
  <1>5. ASSUME NEW i \in 1..Len(s) PROVE s[i] = t[i]
    <2>1. i + 1 \in 1..1 + Len(s) /\ ~(i + 1 <= 1) /\ (i + 1) - 1 = i
      BY <1>2
    <2>2. (u \o s)[i + 1] = s[i]
      BY <1>2, <2>1
    <2>3. (v \o t)[i + 1] = t[i]
      BY <1>3, <1>4, <2>1
    <2> QED
      BY <1>0, <2>2, <2>3
  <1> QED
    BY <1>4, <1>5, SeqEqual

LEMMA RoundKeeps ==
  ASSUME NEW q \in Seq(Seq(Octet)), NEW m \in Seq(Octet), NEW a \in Tried,
         NEW begin \in BOOLEAN, NEW n \in Nat, Kept(q, m, a, n)
  PROVE  Kept(q, m, Round(a, m, begin), n + 1)
  <1> DEFINE put == PROTO_AddRb(a.r, m)
             get == PROTO_ParseRb(put.r, begin)
             b == Round(a, m, begin)
             h == SubSeq(q, n + 1, Len(q))
  <1>1. RingInv(a.r) /\ a.end \in {"no", "put", "refused"}
    BY DEF Tried
  <1>2. /\ RingInv(put.r) /\ put.ok \in BOOLEAN
        /\ RingHolds(put.r) = IF put.ok THEN Append(RingHolds(a.r), m) ELSE RingHolds(a.r)
    BY <1>1, AddFrame
  <1>3. b = IF a.end # "no" THEN a
            ELSE IF put.ok THEN [r |-> put.r, end |-> "put"]
            ELSE [r |-> get.r, end |-> IF get.ok THEN "no" ELSE "refused"]
    BY DEF Round
  <1> HIDE DEF put
  <1>4. /\ get.ok \in BOOLEAN
        /\ get.ok => /\ get.p.data \in Seq(Octet) /\ RingHolds(get.r) \in Seq(Seq(Octet))
                     /\ RingHolds(put.r) = <<get.p.data>> \o RingHolds(get.r)
        /\ ~get.ok => RingHolds(get.r) = <<>>
    BY <1>2, DropFirst
  <1> HIDE DEF get, b
  <1>5. Len(q) \in Nat
    OBVIOUS
  <1>6. CASE a.end # "no"
    <2>1. b = a
      BY <1>3, <1>6
    <2> QED
      BY <1>6, <2>1 DEF Kept, b
  <1>7. CASE a.end = "no" /\ put.ok
    <2>1. b.r = put.r /\ b.end = "put"
      BY <1>3, <1>7
    <2>2. n \in 0..Len(q) /\ RingHolds(a.r) = h
      BY <1>5, <1>7 DEF Kept
    <2>3. RingHolds(b.r) = Append(h, m)
      BY <1>2, <1>7, <2>1, <2>2
    <2>4. Kept(q, m, b, n + 1)
      BY <2>1, <2>2, <2>3 DEF Kept
    <2> QED
      BY <2>4 DEF b
  <1>8. CASE a.end = "no" /\ ~put.ok /\ ~get.ok
    <2>1. b.r = get.r /\ b.end = "refused"
      BY <1>3, <1>8
    <2>2. Kept(q, m, b, n + 1)
      BY <1>4, <1>8, <2>1 DEF Kept
    <2> QED
      BY <2>2 DEF b
  <1>9. CASE a.end = "no" /\ ~put.ok /\ get.ok
    <2>1. b.r = get.r /\ b.end = "no"
      BY <1>3, <1>9
    <2>2. n <= Len(q) /\ RingHolds(a.r) = h
      BY <1>9 DEF Kept
    <2> DEFINE d == get.p.data
               t == RingHolds(get.r)
               M == Seq(Octet)
    <2>3. h = <<d>> \o t /\ d \in M /\ t \in Seq(M)
      BY <1>2, <1>4, <1>9, <2>2
    <2> HIDE DEF d, t, M
    <2>q. q \in Seq(M)
      BY DEF M
    <2>4. n < Len(q)
      <3>1. CASE n = Len(q)
        <4>1. h = <<>>
          <5>1. n + 1 \in Int /\ Len(q) \in Int /\ Len(q) < n + 1
            BY <1>5, <3>1
          <5> QED
            BY <5>1, SubSeqEmpty
        <4>2. Len(<<d>> \o t) = 1 + Len(t) /\ Len(t) \in Nat
          <5> DEFINE u == <<d>>
          <5>1. u \in Seq(M) /\ Len(u) = 1
            BY <2>3
          <5> HIDE DEF u
          <5>2. Len(u \o t) = 1 + Len(t) /\ Len(t) \in Nat
            <6>1. Len(u \o t) = Len(u) + Len(t)
              BY <2>3, <5>1, ConcatProperties
            <6> QED
              BY <2>3, <5>1, <6>1
          <5> QED
            BY <5>2 DEF u
        <4> HIDE DEF h
        <4>3. Len(h) = 0
          BY <4>1
        <4> QED
          BY <2>3, <4>2, <4>3
      <3> QED
        BY <1>5, <2>2, <3>1
    <2> DEFINE e == q[n + 1]
               x == SubSeq(q, n + 2, Len(q))
    <2>5. h = <<e>> \o x /\ e \in M /\ x \in Seq(M)
      <3>1. n + 1 \in 1..Len(q) /\ Len(q) \in (n + 1)..Len(q) /\ (n + 1) + 1 = n + 2
        BY <1>5, <2>4
      <3>2. SubSeq(q, n + 1, Len(q)) = <<q[n + 1]>> \o SubSeq(q, (n + 1) + 1, Len(q))
        BY <2>q, <3>1, SubSeqRecursiveFirst
      <3>3. e \in M
        BY <2>q, <3>1, ElementOfSeq
      <3>4. x \in Seq(M)
        <4>1. \A i \in (n + 2)..Len(q) : q[i] \in M
          <5>1. \A i \in (n + 2)..Len(q) : i \in 1..Len(q)
            BY <1>5
          <5> QED
            BY <2>q, <5>1, ElementOfSeq
        <4>2. n + 2 \in Int /\ Len(q) \in Int
          BY <1>5
        <4> QED
          BY <4>1, <4>2, SubSeqProperties
      <3> QED
        BY <3>1, <3>2, <3>3, <3>4
    <2> HIDE DEF e, x, h
    <2>6. t = x
      BY <2>3, <2>5, RestOf
    <2>7. RingHolds(b.r) = SubSeq(q, (n + 1) + 1, Len(q))
      <3>1. (n + 1) + 1 = n + 2
        OBVIOUS
      <3> QED
        BY <3>1, <2>1, <2>6 DEF t, x
    <2>8. n + 1 <= Len(q)
      BY <1>5, <2>4
    <2>9. Kept(q, m, b, n + 1)
      BY <2>1, <2>7, <2>8 DEF Kept
    <2> QED
      BY <2>9 DEF b
  <1> QED
    BY <1>2, <1>4, <1>6, <1>7, <1>8, <1>9

(* Fewer messages than bytes, since each begins with a BEG.                *)
LEMMA FewMessages ==
  ASSUME NEW r, RingInv(r)
  PROVE  RingHolds(r) \in Seq(Seq(Octet)) /\ Len(RingHolds(r)) < QUEUE_BUFFER_SIZE
  <1> DEFINE s == InRing(r)
             P == PROTO_Init(FALSE)
  <1>1. /\ Starts(s) /\ s \in Seq(Octet) /\ Len(s) <= QUEUE_BUFFER_SIZE
        /\ Len(s) \in Nat
    BY RingSeq, QueueSize DEF RingInv, Tidy
  <1>2. P \in Parser
    BY InitParser
  <1>3. RingHolds(r) = Read(P, s).out
    BY MessagesRead DEF RingHolds
  <1> HIDE DEF s, P
  <1>4. Read(P, s).out \in Seq(Seq(Octet)) /\ Len(Read(P, s).out) \in Nat
    <2>1. Read(P, s).out \in Seq(Seq(Octet))
      BY <1>1, <1>2, ReadIn
    <2> QED
      BY <2>1
  <1>5. Len(Read(P, s).out) < QUEUE_BUFFER_SIZE
    <2>1. CASE s = <<>>
      <3>1. Read(P, s).out = <<>>
        BY <1>2, <2>1, ReadNothing
      <3>2. Len(Read(P, s).out) = 0
        BY <3>1
      <3> QED
        BY <3>2, QueueSize
    <2>2. CASE s # <<>>
      <3>1. Len(Read(P, s).out) < Len(s)
        BY <1>1, <1>2, <2>2, ReadStarts DEF Starts
      <3> QED
        BY <1>1, <1>4, <3>1, QueueSize
    <2> QED
      BY <2>1, <2>2
  <1> QED
    BY <1>3, <1>4, <1>5

(* So QUEUE_BUFFER_SIZE rounds end it: the new message is in, behind what  *)
(* is left of the old ones, or there is none any more.                     *)
LEMMA RoundsEnd ==
  ASSUME NEW r, RingInv(r), NEW m \in Seq(Octet), NEW begin \in BOOLEAN
  PROVE  LET a == Rounds(r, m, begin)[QUEUE_BUFFER_SIZE]
             q == RingHolds(r)
         IN  /\ RingInv(a.r)
             /\ \/ /\ a.end = "put"
                   /\ \E k \in 0..Len(q) :
                        RingHolds(a.r) = Append(SubSeq(q, k + 1, Len(q)), m)
                \/ a.end = "refused" /\ RingHolds(a.r) = <<>>
  <1> DEFINE f == Rounds(r, m, begin)
             q == RingHolds(r)
             L == QUEUE_BUFFER_SIZE
             S == {n \in 0..L : Kept(q, m, f[n], n)}
  <1>1. L \in Nat /\ q \in Seq(Seq(Octet)) /\ Len(q) < L /\ Len(q) \in Nat
    <2>1. q \in Seq(Seq(Octet)) /\ Len(q) < L
      BY FewMessages
    <2> QED
      BY <2>1, QueueSize
  <1>2. /\ f \in [0..L -> Tried] /\ f[0] = [r |-> r, end |-> "no"]
        /\ \A n \in 1..L : f[n] = Round(f[n - 1], m, begin)
    BY RoundsIs
  <1>3. 0 \in S
    <2>1. f[0].r = r /\ f[0].end = "no"
      BY <1>2
    <2>2. SubSeq(q, 0 + 1, Len(q)) = q
      BY <1>1, SubSeqFull, 0 + 1 = 1
    <2>3. 0 <= Len(q) /\ 0 \in 0..L
      BY <1>1
    <2>4. Kept(q, m, f[0], 0)
      <3> HIDE DEF f
      <3> QED
        BY <2>1, <2>2, <2>3 DEF Kept
    <2> QED
      BY <2>3, <2>4
  <1> HIDE DEF f, L, q
  <1>4. ASSUME NEW n \in Nat, n < L, n \in S PROVE n + 1 \in S
    <2>1. n + 1 \in 1..L /\ (n + 1) - 1 = n /\ n + 1 \in 0..L /\ n \in 0..L
      BY <1>1, <1>4
    <2>2. f[n + 1] = Round(f[n], m, begin) /\ f[n] \in Tried
      BY <1>2, <2>1
    <2>3. Kept(q, m, f[n], n)
      BY <1>4
    <2>4. Kept(q, m, f[n + 1], n + 1)
      BY <1>1, <2>2, <2>3, RoundKeeps
    <2> QED
      BY <2>1, <2>4
  <1> HIDE DEF S
  <1>5. \A n \in 0..L : n \in S
    BY <1>1, <1>3, <1>4, UpTo
  <1>6. L \in 0..L
    BY <1>1
  <1>7. Kept(q, m, f[L], L) /\ f[L] \in Tried
    BY <1>2, <1>5, <1>6 DEF S
  <1>8. RingInv(f[L].r) /\ f[L].end \in {"no", "put", "refused"}
    BY <1>7 DEF Tried
  <1>9. f[L].end # "no"
    BY <1>1, <1>7 DEF Kept
  <1>10. /\ RingInv(f[L].r)
         /\ \/ /\ f[L].end = "put"
               /\ \E k \in 0..Len(q) :
                    RingHolds(f[L].r) = Append(SubSeq(q, k + 1, Len(q)), m)
            \/ f[L].end = "refused" /\ RingHolds(f[L].r) = <<>>
    BY <1>7, <1>8, <1>9 DEF Kept
  <1> QED
    BY <1>10 DEF f, L, q

-----------------------------------------------------------------------------
(* The steps, and the theorems.                                            *)
QueueInv == RingInv(rb)

LEMMA QueueInvInit == PutsInit => QueueInv /\ RingHolds(rb) = <<>>
  <1> SUFFICES ASSUME PutsInit PROVE QueueInv /\ RingHolds(rb) = <<>>
    OBVIOUS
  <1> DEFINE b == [i \in 0..QUEUE_BUFFER_SIZE-1 |-> 0]
             B == [Index -> Octet]
  <1>1. b \in B /\ 0 \in Index /\ 0 \in Int
    BY QueueSize DEF Index, Octet
  <1> HIDE DEF b, B
  <1>2. rb = [buf |-> b, p_r |-> 0, p_w |-> 0, fill_cnt |-> 0]
    BY DEF PutsInit, b
  <1>3. rb \in [buf : B, p_r : Index, p_w : Index, fill_cnt : Int]
    BY <1>1, <1>2
  <1>4. Tidy(rb)
    <2>1. rb.fill_cnt = 0 /\ rb.p_r = 0 /\ rb.p_w = 0
      BY <1>2
    <2>2. rb \in Buffer
      BY <1>3 DEF Buffer, B
    <2>3. (0 + 0) % QUEUE_BUFFER_SIZE = 0 /\ 0 \in 0..QUEUE_BUFFER_SIZE
      BY QueueSize
    <2> QED
      BY <2>1, <2>2, <2>3 DEF Tidy
  <1>5. InRing(rb) = <<>>
    <2>1. InRing(rb) \in Seq(Octet) /\ Len(InRing(rb)) = 0
      BY <1>2, <1>4, RingSeq
    <2> QED
      BY <2>1, EmptySeq
  <1>6. Starts(InRing(rb))
    BY <1>5 DEF Starts
  <1>7. RingHolds(rb) = <<>>
    <2>1. PROTO_Init(FALSE) \in Parser
      BY InitParser
    <2>2. RingHolds(rb) = Read(PROTO_Init(FALSE), <<>>).out
      BY <1>5, MessagesRead, Zenon DEF RingHolds
    <2> DEFINE P == PROTO_Init(FALSE)
    <2> HIDE DEF P
    <2>3. P \in Parser
      BY <2>1 DEF P
    <2>4. Read(P, <<>>).out = <<>>
      BY <2>3, ReadNothing
    <2> QED
      BY <2>2, <2>4 DEF P
  <1> QED
    BY <1>4, <1>6, <1>7 DEF QueueInv, RingInv

(* Every operation keeps the invariant and is a step of MessageQueue.      *)
LEMMA QueueSteps ==
  ASSUME QueueInv, PutsNext
  PROVE  QueueInv' /\ Abstract!QueueNext
  <1> DEFINE q == RingHolds(rb)
             r == rb'
             x == RingHolds(r)
  <1>0. RingInv(rb) /\ q \in Seq(Seq(Octet)) /\ Len(q) \in Nat /\ SubSeq(q, 1, Len(q)) = q
    <2>1. RingInv(rb)
      BY DEF QueueInv
    <2>2. q \in Seq(Seq(Octet))
      BY <2>1, FewMessages
    <2> QED
      BY <2>1, <2>2, SubSeqFull
  <1>q. Messages(InRing(rb)) = q /\ Messages(InRing(rb))' = x /\ QueueInv' = RingInv(r)
    BY DEF RingHolds, QueueInv
  <1> HIDE DEF q, x, r
  <1>a. ASSUME NEW m \in Message, io' = <<"put", m>>, NEW k \in 0..Len(q),
               x = Append(SubSeq(q, k + 1, Len(q)), m)
        PROVE  Abstract!QueueNext
    <2>1. io'[1] = "put" /\ io'[2] = m
      BY <1>a
    <2> QED
      BY <1>a, <1>q, <2>1 DEF Abstract!QueueNext, Abstract!Accept
  <1>r. ASSUME io' = <<"refused">>, x \in {q, <<>>} PROVE Abstract!QueueNext
    BY <1>q, <1>r DEF Abstract!QueueNext, Abstract!Refuse
  <1>1. CASE Publish
    <2>1. PICK m \in Message, begin \in BOOLEAN :
            LET a == Rounds(rb, m, begin)[QUEUE_BUFFER_SIZE]
            IN  rb' = a.r /\ io' = IF a.end = "put" THEN <<"put", m>> ELSE <<"refused">>
      BY <1>1 DEF Publish
    <2> DEFINE a == Rounds(rb, m, begin)[QUEUE_BUFFER_SIZE]
    <2>2. m \in Seq(Octet)
      BY QueueSize
    <2>3. /\ RingInv(a.r)
          /\ \/ /\ a.end = "put"
                /\ \E k \in 0..Len(q) :
                     RingHolds(a.r) = Append(SubSeq(q, k + 1, Len(q)), m)
             \/ a.end = "refused" /\ RingHolds(a.r) = <<>>
      BY <1>0, <2>2, RoundsEnd DEF q
    <2>4. r = a.r /\ io' = IF a.end = "put" THEN <<"put", m>> ELSE <<"refused">>
      BY <2>1 DEF r
    <2> HIDE DEF a
    <2>5. RingInv(r) /\ x = RingHolds(a.r)
      BY <2>3, <2>4 DEF x
    <2>6. CASE a.end = "put"
      <3>1. PICK k \in 0..Len(q) : x = Append(SubSeq(q, k + 1, Len(q)), m)
        BY <2>3, <2>5, <2>6
      <3> QED
        BY <1>a, <1>q, <2>4, <2>5, <2>6, <3>1
    <2>7. CASE a.end = "refused" /\ RingHolds(a.r) = <<>>
      BY <1>r, <1>q, <2>4, <2>5, <2>7
    <2> QED
      BY <2>3, <2>6, <2>7
  <1>2. CASE Answer
    <2>1. PICK m \in Message :
            LET a == PROTO_AddRb(rb, m)
            IN  rb' = a.r /\ io' = IF a.ok THEN <<"put", m>> ELSE <<"refused">>
      BY <1>2 DEF Answer
    <2> DEFINE a == PROTO_AddRb(rb, m)
    <2>2. m \in Seq(Octet)
      BY QueueSize
    <2>3. /\ RingInv(a.r) /\ a.ok \in BOOLEAN
          /\ RingHolds(a.r) = IF a.ok THEN Append(q, m) ELSE q
      BY <1>0, <2>2, AddFrame DEF q
    <2>4. r = a.r /\ io' = IF a.ok THEN <<"put", m>> ELSE <<"refused">>
      BY <2>1 DEF r
    <2> HIDE DEF a
    <2>5. RingInv(r) /\ x = RingHolds(a.r)
      BY <2>3, <2>4 DEF x
    <2>6. CASE a.ok
      <3>1. 0 \in 0..Len(q) /\ x = Append(SubSeq(q, 0 + 1, Len(q)), m)
        BY <1>0, <2>3, <2>5, <2>6
      <3> QED
        BY <1>a, <1>q, <2>4, <2>5, <2>6, <3>1
    <2>7. CASE ~a.ok
      BY <1>r, <1>q, <2>3, <2>4, <2>5, <2>7
    <2> QED
      BY <2>6, <2>7
  <1>3. CASE Send
    <2>1. PICK begin \in BOOLEAN :
            LET a == PROTO_ParseRb(rb, begin)
            IN  rb' = a.r /\ io' = IF a.ok THEN <<"get", a.p.data>> ELSE <<"nothing">>
      BY <1>3 DEF Send
    <2> DEFINE a == PROTO_ParseRb(rb, begin)
    <2>3. /\ RingInv(a.r) /\ a.ok \in BOOLEAN
          /\ a.ok => q = <<a.p.data>> \o RingHolds(a.r)
          /\ ~a.ok => q = <<>> /\ RingHolds(a.r) = <<>>
      BY <1>0, DropFirst DEF q
    <2>4. r = a.r /\ io' = IF a.ok THEN <<"get", a.p.data>> ELSE <<"nothing">>
      BY <2>1 DEF r
    <2> HIDE DEF a
    <2>5. RingInv(r) /\ x = RingHolds(a.r)
      BY <2>3, <2>4 DEF x
    <2>6. CASE a.ok
      <3>1. io'[1] = "get" /\ io'[2] = a.p.data /\ q = <<a.p.data>> \o x
        BY <2>3, <2>4, <2>5, <2>6
      <3>2. Abstract!Take
        BY <1>q, <3>1 DEF Abstract!Take
      <3> QED
        BY <1>q, <2>5, <3>2 DEF Abstract!QueueNext
    <2>7. CASE ~a.ok
      <3>1. Abstract!Nothing
        BY <1>q, <2>3, <2>4, <2>5, <2>7 DEF Abstract!Nothing
      <3> QED
        BY <1>q, <2>5, <3>1 DEF Abstract!QueueNext
    <2> QED
      BY <2>3, <2>6, <2>7
  <1> QED
    BY <1>1, <1>2, <1>3 DEF PutsNext

(* The pointers and the count agree, and reading always begins at the      *)
(* start of a message.                                                     *)
LEMMA QueueInvSound == QueueInv => RingSound
  <1> SUFFICES ASSUME QueueInv PROVE RingSound
    OBVIOUS
  <1>1. Tidy(rb) /\ Starts(InRing(rb))
    BY DEF QueueInv, RingInv
  <1>2. /\ rb.p_r \in Index /\ rb.p_w \in Index /\ rb.fill_cnt \in 0..QUEUE_BUFFER_SIZE
        /\ rb.p_w = (rb.p_r + rb.fill_cnt) % QUEUE_BUFFER_SIZE
    BY <1>1, RingSeq DEF Tidy
  <1>3. ASSUME rb.fill_cnt > 0 PROVE rb.buf[rb.p_r] = BEG
    <2>1. InRing(rb) = <<rb.buf[rb.p_r]>> \o InRing(RINGBUF_Get(rb))
              /\ rb.buf[rb.p_r] \in Octet /\ Tidy(RINGBUF_Get(rb))
      BY <1>1, <1>3, GetRing
    <2> DEFINE u == <<rb.buf[rb.p_r]>>
               t == InRing(RINGBUF_Get(rb))
    <2>2. u \in Seq(Octet) /\ Len(u) = 1 /\ u[1] = rb.buf[rb.p_r] /\ t \in Seq(Octet)
      BY <2>1, RingSeq
    <2>3. InRing(rb) = u \o t
      BY <2>1
    <2> HIDE DEF u, t
    <2>4. /\ Len(u \o t) = 1 + Len(t) /\ Len(t) \in Nat
          /\ \A i \in 1..1 + Len(t) : (u \o t)[i] = IF i <= 1 THEN u[i] ELSE t[i - 1]
      <3>1. /\ Len(u \o t) = Len(u) + Len(t)
            /\ \A i \in 1..Len(u) + Len(t) :
                 (u \o t)[i] = IF i <= Len(u) THEN u[i] ELSE t[i - Len(u)]
        BY <2>2, ConcatProperties
      <3> QED
        BY <2>2, <3>1
    <2>5. (u \o t)[1] = u[1] /\ Len(u \o t) # 0
      BY <2>4
    <2>6. InRing(rb) # <<>>
      BY <2>3, <2>5
    <2> QED
      BY <1>1, <2>2, <2>3, <2>5, <2>6 DEF Starts
  <1> QED
    BY <1>2, <1>3 DEF RingSound, Index

(* MQTT_Publish, mqtt_tcpclient_recv and MQTT_Task leave the ring sound,   *)
(* and every step of theirs is a step of MessageQueue: accepted messages   *)
(* come out whole and in order or are dropped as one of the oldest, for    *)
(* rings of any size and any messages.                                     *)
THEOREM QueueImplements == PutsSpec => IsMessageQueue
  <1>1. PutsInit => QueueInv /\ Abstract!QueueInit
    <2>1. PutsInit => QueueInv /\ RingHolds(rb) = <<>>
      BY QueueInvInit
    <2> QED
      BY <2>1 DEF PutsInit, Abstract!QueueInit, RingHolds
  <1>2. QueueInv /\ [PutsNext]_queueVars
          => QueueInv' /\ [Abstract!QueueNext]_<<Messages(InRing(rb)), io>>
    <2> SUFFICES ASSUME QueueInv, [PutsNext]_queueVars
                 PROVE  QueueInv' /\ [Abstract!QueueNext]_<<Messages(InRing(rb)), io>>
      OBVIOUS
    <2>1. CASE PutsNext
      BY <2>1, QueueSteps
    <2>2. CASE UNCHANGED queueVars
      BY <2>2 DEF queueVars, QueueInv
    <2> QED
      BY <2>1, <2>2
  <1>3. QueueInv => RingSound
    BY QueueInvSound
  <1>4. PutsSpec => []RingSound /\ Abstract!QueueInit
                      /\ [][Abstract!QueueNext]_<<Messages(InRing(rb)), io>>
    BY <1>1, <1>2, <1>3, PTL DEF PutsSpec
  <1> QED
    BY <1>4 DEF IsMessageQueue, Abstract!QueueSpec
=============================================================================
