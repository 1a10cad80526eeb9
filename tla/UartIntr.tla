------------------------------- MODULE UartIntr ------------------------------
(***************************************************************************)
(* driver/uart.c (UART_BUFF_EN): how the ring operations, which run as     *)
(* ordinary code, interleave with uart0_rx_intr_handler.  What the rings   *)
(* hold is abstracted to how much (UartRing has the bytes).                *)
(*                                                                         *)
(* Ordinary code does not preempt ordinary code; the handler runs between  *)
(* any two of its steps.  Every SET_ or CLEAR_PERI_REG_MASK on the enable  *)
(* register is a read and a write, and so is every change of Space.        *)
(***************************************************************************)
EXTENDS Integers

CONSTANTS
  SIZE,            \* bytes of a ring
  UART_FIFO_LEN,   \* bytes of a hardware FIFO
  THRESH,          \* UART_TX_EMPTY_THRESH_VAL: the transmit FIFO is "empty"
  QLEN,            \* uart_recvTaskQueueLen
  MAX_BYTES        \* bound: bytes that arrive

ASSUME IntrAssumption ==
  /\ SIZE \in Nat /\ UART_FIFO_LEN \in Nat \ {0} /\ UART_FIFO_LEN < SIZE
  /\ THRESH \in Nat /\ QLEN \in Nat \ {0} /\ MAX_BYTES \in Nat

VARIABLES
  pc,                \* where the running operation is ("idle": none runs)
  reg, tmp, len,     \* its copy of the register, of Space, its length
  rxEna, txEna,      \* UART_INT_ENA: RXFIFO_FULL and TOUT; TXFIFO_EMPTY
  rxSpace, txSpace,  \* Space of the two rings
  rxFifo, txFifo,    \* bytes in the hardware FIFOs
  events,            \* events posted to uart_recvTask
  txHeld,            \* history: bytes really in the transmit ring
  arrived            \* bytes that have arrived

opVars == <<pc, reg, tmp, len>>
vars   == <<opVars, rxEna, txEna, rxSpace, txSpace, rxFifo, txFifo, events,
            txHeld, arrived>>

Label == {"idle", "clear", "check", "store", "set", "setw", "rxset", "rxsetw"}

(* Counts stay in range; the receive ring always keeps one byte free,      *)
(* which rx_buff_deq needs to tell full from empty.                        *)
IntrTypeOK ==
  /\ pc \in Label
  /\ reg \in [rx : BOOLEAN, tx : BOOLEAN]
  /\ tmp \in 0..SIZE /\ len \in 0..UART_FIFO_LEN
  /\ rxEna \in BOOLEAN /\ txEna \in BOOLEAN
  /\ rxSpace \in 1..SIZE /\ txSpace \in 0..SIZE
  /\ rxFifo \in 0..UART_FIFO_LEN /\ txFifo \in 0..UART_FIFO_LEN
  /\ events \in 0..QLEN
  /\ txHeld \in Int /\ arrived \in 0..MAX_BYTES

(* uart_init has run.                                                      *)
Init ==
  /\ pc = "idle" /\ reg = [rx |-> FALSE, tx |-> FALSE] /\ tmp = 0 /\ len = 0
  /\ rxEna = TRUE /\ txEna = FALSE
  /\ rxSpace = SIZE /\ txSpace = SIZE /\ rxFifo = 0 /\ txFifo = 0
  /\ events = 0 /\ txHeld = 0 /\ arrived = 0

ReadReg  == reg' = [rx |-> rxEna, tx |-> txEna]

-----------------------------------------------------------------------------
(* tx_buff_enq: read the register; write it without TXFIFO_EMPTY; check    *)
(* the space; store; read the register; write it with TXFIFO_EMPTY.  The   *)
(* mutants leave the interrupt enabled, or do not enable it again.         *)
TxEnqStart ==
  /\ pc = "idle"
  /\ len' \in 1..UART_FIFO_LEN
  /\ ReadReg
  /\ pc' = "clear"
  /\ UNCHANGED <<tmp, rxEna, txEna, rxSpace, txSpace, rxFifo, txFifo, events,
                 txHeld, arrived>>

TxEnqClearTo(ena) ==
  /\ pc = "clear"
  /\ rxEna' = reg.rx /\ txEna' = ena
  /\ pc' = "check"
  /\ UNCHANGED <<reg, tmp, len, rxSpace, txSpace, rxFifo, txFifo, events,
                 txHeld, arrived>>
TxEnqClear_not == TxEnqClearTo(txEna)
TxEnqClear == TxEnqClearTo(FALSE)

TxEnqCheck ==
  /\ pc = "check"
  /\ tmp' = txSpace
  /\ pc' = IF len <= txSpace THEN "store" ELSE "set"
  /\ UNCHANGED <<reg, len, rxEna, txEna, rxSpace, txSpace, rxFifo, txFifo,
                 events, txHeld, arrived>>

TxEnqStore ==
  /\ pc = "store"
  /\ txSpace' = tmp - len /\ txHeld' = txHeld + len
  /\ pc' = "set"
  /\ UNCHANGED <<reg, tmp, len, rxEna, txEna, rxSpace, rxFifo, txFifo, events,
                 arrived>>

TxEnqSet ==
  /\ pc = "set"
  /\ ReadReg
  /\ pc' = "setw"
  /\ UNCHANGED <<tmp, len, rxEna, txEna, rxSpace, txSpace, rxFifo, txFifo,
                 events, txHeld, arrived>>

TxEnqEndWith(ena) ==
  /\ pc = "setw"
  /\ rxEna' = reg.rx /\ txEna' = ena
  /\ pc' = "idle"
  /\ UNCHANGED <<reg, tmp, len, rxSpace, txSpace, rxFifo, txFifo, events,
                 txHeld, arrived>>
TxEnqEnd_plain == TxEnqEndWith(reg.tx)
TxEnqEnd == TxEnqEndWith(TRUE)

-----------------------------------------------------------------------------
(* Both receive operations end by enabling the receive interrupt if there  *)
(* is room for a whole FIFO; the mutant of the second forgets to.          *)
EnableIfRoom == pc' = IF rxSpace' >= UART_FIFO_LEN THEN "rxset" ELSE "idle"

(* uart_recvTask, Uart_rx_buff_enq: all of the FIFO or nothing, and the    *)
(* ring is never filled up; the mutant fills it.                           *)
BufFull_over(n, space) == n > space
BufFull(n, space) == n >= space

RecvTask ==
  /\ pc = "idle" /\ events > 0
  /\ events' = events - 1
  /\ IF BufFull(rxFifo, rxSpace)
       THEN UNCHANGED <<pc, rxSpace, rxFifo>>
       ELSE /\ rxSpace' = rxSpace - rxFifo /\ rxFifo' = 0
            /\ EnableIfRoom
  /\ UNCHANGED <<reg, tmp, len, rxEna, txEna, txSpace, txFifo, txHeld, arrived>>

(* rx_buff_deq, called by the application.                                 *)
DeqThen(next) ==
  /\ pc = "idle" /\ rxSpace < SIZE
  /\ \E n \in 1..(SIZE - rxSpace) : rxSpace' = rxSpace + n
  /\ next
  /\ UNCHANGED <<reg, tmp, len, rxEna, txEna, txSpace, rxFifo, txFifo, events,
                 txHeld, arrived>>
rx_buff_deq_plain == DeqThen(pc' = "idle")
rx_buff_deq == DeqThen(EnableIfRoom)

(* uart_rx_intr_enable.                                                    *)
RxEnable ==
  /\ pc = "rxset"
  /\ ReadReg
  /\ pc' = "rxsetw"
  /\ UNCHANGED <<tmp, len, rxEna, txEna, rxSpace, txSpace, rxFifo, txFifo,
                 events, txHeld, arrived>>

RxEnableEnd ==
  /\ pc = "rxsetw"
  /\ rxEna' = TRUE /\ txEna' = reg.tx
  /\ pc' = "idle"
  /\ UNCHANGED <<reg, tmp, len, rxSpace, txSpace, rxFifo, txFifo, events,
                 txHeld, arrived>>

-----------------------------------------------------------------------------
(* uart0_rx_intr_handler.  FULL and TOUT are one cause here: bytes wait in *)
(* the FIFO; it goes before TXFIFO_EMPTY.                                  *)
RxIntr ==
  /\ rxEna /\ rxFifo > 0
  /\ rxEna' = FALSE
  /\ events' = IF events < QLEN THEN events + 1 ELSE events
  /\ UNCHANGED <<opVars, txEna, rxSpace, txSpace, rxFifo, txFifo, txHeld,
                 arrived>>

(* tx_start_uart_buffer: the interrupt stays enabled while bytes are left; *)
(* the mutant always disables it.                                          *)
TxIntrLeaving(keep) ==
  /\ txEna /\ txFifo <= THRESH /\ ~(rxEna /\ rxFifo > 0)
  /\ LET held   == SIZE - txSpace
         remain == UART_FIFO_LEN - txFifo
         n      == IF held > remain THEN remain ELSE held
     IN /\ txFifo' = txFifo + n
        /\ txSpace' = txSpace + n /\ txHeld' = txHeld - n
        /\ txEna' = (keep /\ held > remain)
  /\ UNCHANGED <<opVars, rxEna, rxSpace, rxFifo, events, arrived>>
TxIntr_disables == TxIntrLeaving(FALSE)
TxIntr == TxIntrLeaving(TRUE)

(* The line.                                                               *)
Arrive ==
  /\ arrived < MAX_BYTES /\ arrived' = arrived + 1
  /\ rxFifo' = IF rxFifo < UART_FIFO_LEN THEN rxFifo + 1 ELSE rxFifo
  /\ UNCHANGED <<opVars, rxEna, txEna, rxSpace, txSpace, txFifo, events, txHeld>>

Depart ==
  /\ txFifo > 0 /\ txFifo' = txFifo - 1
  /\ UNCHANGED <<opVars, rxEna, txEna, rxSpace, txSpace, rxFifo, events, txHeld,
                 arrived>>

Code == \/ TxEnqClear \/ TxEnqCheck \/ TxEnqStore \/ TxEnqSet \/ TxEnqEnd
        \/ RecvTask \/ RxEnable \/ RxEnableEnd
Intr == RxIntr \/ TxIntr

Next == TxEnqStart \/ Code \/ rx_buff_deq \/ Intr \/ Arrive \/ Depart

Spec == Init /\ [][Next]_vars

(* Code that has begun goes on and the line sends.  An interrupt is taken  *)
(* as soon as it is enabled, so a writer that keeps masking it for a while *)
(* does not hold it off for ever.  The scheduler gets to the receive task  *)
(* and to an application that reads, also between writes.                  *)
FairSpec == Spec /\ WF_vars(Code) /\ WF_vars(Depart) /\ WF_vars(RxIntr)
                 /\ SF_vars(TxIntr) /\ SF_vars(RecvTask) /\ SF_vars(rx_buff_deq)

-----------------------------------------------------------------------------
(* The handler never changes the transmit ring between the read and the    *)
(* write of Space in tx_buff_enq: Space always says how many bytes the     *)
(* ring really holds.                                                      *)
SpaceExact == txSpace + txHeld = SIZE

(* No wakeup is lost: while the transmit ring holds bytes its interrupt is *)
(* enabled or tx_buff_enq is about to enable it, although both receive     *)
(* operations write back a copy of the whole register.                     *)
TxWakeup == txHeld > 0 => txEna \/ pc \in {"check", "store", "set", "setw"}

(* A full transmit ring gets room again without another write.             *)
TxDrains == txSpace = 0 ~> txSpace > 0

(* Bytes in the hardware FIFO reach the ring again and again: a full ring, *)
(* which leaves the interrupt disabled, is not the end of reception.       *)
RxFlows == []<>(rxFifo = 0)
=============================================================================
