------------------------------- MODULE UartRing ------------------------------
(***************************************************************************)
(* The ring buffers of driver/uart.c (UART_BUFF_EN) by what they hold.     *)
(* The receive ring is filled from the hardware FIFO by uart_recvTask and  *)
(* emptied by rx_buff_deq; the transmit ring is filled by tx_buff_enq and  *)
(* emptied into the hardware FIFO.  Each operation is one step here; how   *)
(* they interleave with the interrupt is UartIntr.                         *)
(*                                                                         *)
(* A ring is its array and the offsets of pInPos and pOutPos in it, with   *)
(* Space, the free bytes.                                                  *)
(***************************************************************************)
EXTENDS Naturals, Sequences, SequencesExt, FiniteSetsExt

CONSTANTS
  Byte,            \* the values of a byte
  UartBuffSize,    \* UART_RX_BUFFER_SIZE, UART_TX_BUFFER_SIZE (256)
  FIFO_LEN         \* bytes the hardware FIFOs hold (UART_FIFO_LEN, 128)

ASSUME RingAssumption ==
  /\ FIFO_LEN \in Nat \ {0} /\ UartBuffSize \in Nat
  /\ FIFO_LEN < UartBuffSize /\ Byte # {}

VARIABLES
  rx, tx,            \* the two rings
  rxBytes, txBytes,  \* the two hardware FIFOs
  rxIo, txIo         \* history: the last transfer at the ends of each direction

rxVars == <<rx, rxBytes, rxIo>>
txVars == <<tx, txBytes, txIo>>
ringVars == <<rxVars, txVars>>

Offset == 0..(UartBuffSize - 1)

Ring == [buf : [Offset -> Byte], pInPos : Offset, pOutPos : Offset,
         Space : 0..UartBuffSize]

(* Beyond the type: the pointers and Space always agree, so that the bytes *)
(* Space does not count as free lie between pOutPos and pInPos, and the    *)
(* receive ring is never completely full, which rx_buff_deq relies on when *)
(* it takes equal pointers for an empty ring.                              *)
RingOK ==
  /\ rx \in Ring /\ tx \in Ring
  /\ \A r \in {rx, tx} :
       (r.pOutPos + UartBuffSize - r.Space) % UartBuffSize = r.pInPos
  /\ rx.Space > 0
  /\ Len(rxBytes) <= FIFO_LEN /\ Len(txBytes) <= FIFO_LEN

Uart_Buf_Init == [buf |-> [i \in Offset |-> CHOOSE b \in Byte : TRUE],
                  pInPos |-> 0, pOutPos |-> 0, Space |-> UartBuffSize]

RingInit ==
  /\ rx = Uart_Buf_Init /\ tx = Uart_Buf_Init
  /\ rxBytes = <<>> /\ txBytes = <<>>
  /\ rxIo = <<"none", <<>>>> /\ txIo = <<"none", <<>>>>

-----------------------------------------------------------------------------
(* memcpy of s to offset p: s[i] goes to p + i - 1.                        *)
Written(buf, p, s) ==
  [i \in Offset |-> IF p <= i /\ i < p + Len(s) THEN s[i - p + 1] ELSE buf[i]]

(* memcpy of n bytes from offset p.                                        *)
Bytes(buf, p, n) == [i \in 1..n |-> buf[p + i - 1]]

(* One memcpy and the pointer arithmetic that follows it.                  *)
CopyIn(r, s) ==
  [r EXCEPT !.buf = Written(@, r.pInPos, s),
            !.pInPos = (@ + Len(s)) % UartBuffSize,
            !.Space = @ - Len(s)]

(* Uart_Buf_Cpy: in two parts if the data does not fit before the end; the *)
(* mutant copies it in one.                                                *)
Uart_Buf_Cpy_once(r, s) == CopyIn(r, s)

Uart_Buf_Cpy(r, s) ==
  LET tail == UartBuffSize - r.pInPos
  IN IF tail >= Len(s) THEN CopyIn(r, s)
     ELSE CopyIn(CopyIn(r, SubSeq(s, 1, tail)), SubSeq(s, tail + 1, Len(s)))

(* The loop of Uart_rx_buff_enq, byte by byte and wrapping by comparison:  *)
(* the k-th byte goes k - 1 places after pInPos.                           *)
StoreBytes(r, s) ==
  [r EXCEPT !.buf = [i \in Offset |->
                       LET k == (i + UartBuffSize - r.pInPos) % UartBuffSize
                       IN IF k < Len(s) THEN s[k + 1] ELSE @[i]],
            !.pInPos = (@ + Len(s)) % UartBuffSize,
            !.Space = @ - Len(s)]

(* The whole FIFO is moved or nothing; the mutant lets the ring fill up.   *)
RxFits_full(n, space) == n <= space
RxFits(n, space) == n < space

Uart_rx_buff_enq ==
  /\ rxBytes # <<>> /\ RxFits(Len(rxBytes), rx.Space)
  /\ rx' = StoreBytes(rx, rxBytes)
  /\ rxBytes' = <<>>
  /\ UNCHANGED <<rxIo, txVars>>

(* The data rx_buff_deq copies out for a request of n bytes, and the ring  *)
(* after it.  Only in the first case is pOutPos not reduced.  The mutant   *)
(* hands out as much as is asked for.                                      *)
DeqLen_asked(r, n) == n
DeqLen(r, n) == Min({n, UartBuffSize - r.Space})

DeqData(r, n) ==
  LET len  == DeqLen(r, n)
      tail == UartBuffSize - r.pOutPos
  IN IF r.pOutPos <= r.pInPos \/ len <= tail
       THEN Bytes(r.buf, r.pOutPos, len)
       ELSE Bytes(r.buf, r.pOutPos, tail) \o Bytes(r.buf, 0, len - tail)

DeqRing(r, n) ==
  LET len == DeqLen(r, n)
  IN [r EXCEPT !.pOutPos = IF @ <= r.pInPos THEN @ + len
                           ELSE (@ + len) % UartBuffSize,
               !.Space = @ + len]

(* rx_buff_deq.                                                            *)
uart_rx_buff_deq ==
  /\ \E n \in 1..UartBuffSize : /\ rx' = DeqRing(rx, n)
                                /\ rxIo' = <<"get", DeqData(rx, n)>>
  /\ UNCHANGED <<rxBytes, txVars>>

(* tx_buff_enq drops the data if it does not fit.                          *)
tx_buff_enq ==
  /\ \E s \in BoundedSeq(Byte, UartBuffSize) :
       IF Len(s) <= tx.Space
         THEN tx' = Uart_Buf_Cpy(tx, s) /\ txIo' = <<"put", s>>
         ELSE UNCHANGED <<tx, txIo>>
  /\ UNCHANGED <<txBytes, rxVars>>

(* tx_start_uart_buffer, tx_fifo_insert: byte by byte, as many as the FIFO *)
(* takes.  The mutant wraps one byte late.                                 *)
tx_fifo_insert_off(r, n) ==
  [r EXCEPT !.pOutPos = (@ + n) % (UartBuffSize + 1), !.Space = @ + n]

tx_fifo_insert(r, n) ==
  [r EXCEPT !.pOutPos = (@ + n) % UartBuffSize, !.Space = @ + n]

tx_start_uart_buffer ==
  LET n == Min({UartBuffSize - tx.Space, FIFO_LEN - Len(txBytes)})
  IN /\ txBytes' = txBytes \o
           [i \in 1..n |-> tx.buf[(tx.pOutPos + i - 1) % UartBuffSize]]
     /\ tx' = tx_fifo_insert(tx, n)
     /\ UNCHANGED <<txIo, rxVars>>

(* The line.  A byte that arrives while the FIFO is full is lost.          *)
ByteIn ==
  /\ Len(rxBytes) < FIFO_LEN
  /\ \E b \in Byte : rxBytes' = Append(rxBytes, b) /\ rxIo' = <<"put", <<b>>>>
  /\ UNCHANGED <<rx, txVars>>

ByteOut ==
  /\ txBytes # <<>>
  /\ txBytes' = Tail(txBytes) /\ txIo' = <<"get", <<Head(txBytes)>>>>
  /\ UNCHANGED <<tx, rxVars>>

Rx == ByteIn \/ Uart_rx_buff_enq \/ uart_rx_buff_deq
Tx == tx_buff_enq \/ tx_start_uart_buffer \/ ByteOut

RingNext == Rx \/ Tx

RingSpec == RingInit /\ [][RingNext]_ringVars

-----------------------------------------------------------------------------
(* The bytes a ring holds, the oldest first.                               *)
Content(r) == [i \in 1..(UartBuffSize - r.Space) |->
                 r.buf[(r.pOutPos + i - 1) % UartBuffSize]]

RxQueue == INSTANCE ByteQueue
             WITH q <- Content(rx) \o rxBytes, io <- rxIo,
                  CAPACITY <- UartBuffSize + FIFO_LEN
TxQueue == INSTANCE ByteQueue
             WITH q <- txBytes \o Content(tx), io <- txIo,
                  CAPACITY <- UartBuffSize + FIFO_LEN

(* Receive ring and FIFO together are a queue: rx_buff_deq hands out the   *)
(* bytes that arrived, in order, although it distinguishes wrapped from    *)
(* not wrapped by comparing the pointers.                                  *)
RxIsQueue == RxQueue!QueueSpec

(* So are the transmit ring and its FIFO, although data is stored in two   *)
(* parts when it reaches the end of the array.                             *)
TxIsQueue == TxQueue!QueueSpec
=============================================================================
