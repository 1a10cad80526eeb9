-------------------------------- MODULE Dht --------------------------------
(***************************************************************************)
(* The DHT22 driver of the orai_munka firmware (user/dht.c) together with  *)
(* the main task that consumes its events (user/user_main.c).              *)
(*                                                                         *)
(* Two levels of execution share the driver's static variables:            *)
(*   - task level: dhtStart, the periodic timer callback dhtTimerCbk and   *)
(*     mainTask.  The NONOS scheduler runs them one at a time, each to its *)
(*     end.  pc says where in such a handler the processor is.             *)
(*   - interrupt level: dhtGpioCbk, which preempts task-level code wherever *)
(*     GPIO interrupts are enabled and itself runs undisturbed.            *)
(* A task-level handler is split into steps wherever an interrupt that     *)
(* comes between two of its accesses to shared variables makes a           *)
(* difference.                                                             *)
(*                                                                         *)
(* The 42 pulse widths are abstracted: DhtFrame says what dhtProcess makes *)
(* of them; here a frame either passes its parity check or does not.       *)
(***************************************************************************)
EXTENDS Naturals, Sequences

CONSTANTS
  EDGES,             \* length of DhtResult: falling edges of a frame (42)
  DHT_TIMEOUT,       \* ticks before a measurement is given up (10)
  MAIN_TASK_Q_SIZE,  \* length of mainTaskQ (2)
  MAX_REQUESTS       \* bound: DHT_GET commands the daemon sends

ASSUME ConstantsAssumption ==
  /\ EDGES \in 1..253
  /\ DHT_TIMEOUT \in 0..253
  /\ MAIN_TASK_Q_SIZE \in Nat \ {0}
  /\ MAX_REQUESTS \in Nat

VARIABLES
  state,         \* DhtHandle.state
  TimeoutCnt,    \* DhtHandle.TimeoutCnt (uint8_t)
  DhtResultIdx,  \* next free element of DhtResult (uint8_t)
  reading,       \* DhtHandle.DhtHum/DhtTemp: from what kind of frame
  armed,         \* DhtTimer is on the SDK's timer list (periodic, 20 ms)
  intr,          \* GPIO interrupts are enabled
  mainTaskQ,     \* queued events: why each was posted (see Post)
  pc,            \* step of the task-level handler that is running
  reported,      \* what the last daemonRequest(&printbuf) was given
  requests       \* DHT_GET commands so far (counts to MAX_REQUESTS)

vars == <<state, TimeoutCnt, DhtResultIdx, reading, armed, intr, mainTaskQ,
          pc, reported, requests>>

DhtState == {"IDLE", "PREP", "MEAS", "COMPL", "ERR"}
Frame    == {"none", "good", "bad"}     \* no frame yet, parity right, wrong
Reason   == {"timeout", "parity", "complete"}

(* The handle keeps to its C types and the event queue to its size.        *)
TypeOK ==
  /\ state \in DhtState
  /\ TimeoutCnt \in 0..255
  /\ DhtResultIdx \in 0..255
  /\ reading \in Frame
  /\ armed \in BOOLEAN
  /\ intr \in BOOLEAN
  /\ mainTaskQ \in Seq(Reason)
  /\ Len(mainTaskQ) <= MAIN_TASK_Q_SIZE
  /\ pc \in {"idle", "delay", "tick", "setup", "reset", "recall", "report"}
  /\ reported \in Frame
  /\ requests \in 0..MAX_REQUESTS

(***************************************************************************)
(* system_os_post(0, 0, &DhtHandle).  Every event carries the same pointer *)
(* and a full queue refuses it; the driver ignores the result.  The reason *)
(* kept here is history: no action reads it.                               *)
(***************************************************************************)
Post_unchecked(q, why) == Append(q, why)    \* mutant: no room needed

Post(q, why) == IF Len(q) < MAIN_TASK_Q_SIZE THEN Append(q, why) ELSE q

-----------------------------------------------------------------------------
(* user_init calls dhtStart: the first measurement is being prepared.      *)
Init ==
  /\ state = "PREP"
  /\ TimeoutCnt = 0
  /\ DhtResultIdx = 0
  /\ reading = "none"
  /\ armed = FALSE
  /\ intr = FALSE
  /\ mainTaskQ = <<>>
  /\ pc = "delay"
  /\ reported = "none"
  /\ requests = 0

(* dhtStart up to its os_delay_us(500): dhtInit.                           *)
dhtInit ==
  /\ state' = "PREP"
  /\ TimeoutCnt' = 0
  /\ pc' = "delay"

(* dhtStart after the delay: pull the line low, arm the periodic timer.    *)
dhtStartArm ==
  /\ pc = "delay"
  /\ armed' = TRUE
  /\ pc' = "idle"
  /\ UNCHANGED <<state, TimeoutCnt, DhtResultIdx, reading, intr, mainTaskQ,
                 reported, requests>>

(* The daemon's DHT_GET reaches daemonHandleAnswer, which calls dhtStart.  *)
DhtGet ==
  /\ pc = "idle"
  /\ requests < MAX_REQUESTS
  /\ requests' = requests + 1
  /\ dhtInit
  /\ UNCHANGED <<DhtResultIdx, reading, armed, intr, mainTaskQ, reported>>

(* dhtTimerCbk: count the tick, release the line.                          *)
dhtTimerCbk ==
  /\ pc = "idle"
  /\ armed
  /\ TimeoutCnt' = (TimeoutCnt + 1) % 256
  /\ pc' = "tick"
  /\ UNCHANGED <<state, DhtResultIdx, reading, armed, intr, mainTaskQ,
                 reported, requests>>

(* if(DHT_TIMEOUT < DhtHandle.TimeoutCnt), and two mutants: one tick late; *)
(* only if the sensor never answered.                                      *)
TimedOut_late == DHT_TIMEOUT + 1 < TimeoutCnt
TimedOut_silentOnly == DHT_TIMEOUT < TimeoutCnt /\ state = "PREP"
TimedOut == DHT_TIMEOUT < TimeoutCnt

(* What dhtTimerCbk does then; the mutant leaves the timer armed.          *)
GiveUp_noDisarm ==
  /\ state' = "ERR"
  /\ mainTaskQ' = Post(mainTaskQ, "timeout")
  /\ UNCHANGED armed
GiveUp ==
  /\ armed' = FALSE
  /\ state' = "ERR"
  /\ mainTaskQ' = Post(mainTaskQ, "timeout")

(* dhtTimerCbk: give the measurement up after DHT_TIMEOUT ticks.           *)
dhtTimerTimeout ==
  /\ pc = "tick"
  /\ pc' = "setup"
  /\ \/ TimedOut /\ GiveUp
     \/ ~TimedOut /\ UNCHANGED <<armed, state, mainTaskQ>>
  /\ UNCHANGED <<TimeoutCnt, DhtResultIdx, reading, intr, reported, requests>>

(* dhtGpioCbkSetup, ETS_GPIO_INTR_DISABLE up to ETS_GPIO_INTR_ENABLE.      *)
dhtGpioCbkSetup ==
  /\ pc = "setup"
  /\ intr' = TRUE
  /\ pc' = "reset"
  /\ UNCHANGED <<state, TimeoutCnt, DhtResultIdx, reading, armed, mainTaskQ,
                 reported, requests>>

(* dhtGpioCbkSetup, its last lines: the index only now starts over.        *)
dhtGpioCbkReset ==
  /\ pc = "reset"
  /\ DhtResultIdx' = 0
  /\ pc' = "idle"
  /\ UNCHANGED <<state, TimeoutCnt, reading, armed, intr, mainTaskQ, reported,
                 requests>>

(* dhtProcess: what a frame of kind f adds to the queue.  A parity error   *)
(* is posted and decoding goes on.                                         *)
dhtProcess(q, f) == IF f = "bad" THEN Post(q, "parity") ELSE q

(* if(DhtResultIdx > 41); the mutant waits for one edge more.              *)
FrameFull_late(idx) == idx > EDGES
FrameFull(idx) == idx > EDGES - 1

(* dhtGpioCbk, the edge that fills DhtResult; the mutant does not post.    *)
dhtComplete_noPost ==
  \E f \in Frame \ {"none"} :
    /\ intr' = FALSE
    /\ reading' = f
    /\ armed' = FALSE
    /\ state' = "COMPL"
    /\ mainTaskQ' = dhtProcess(mainTaskQ, f)
dhtComplete ==
  \E f \in Frame \ {"none"} :
    /\ intr' = FALSE
    /\ reading' = f
    /\ armed' = FALSE
    /\ state' = "COMPL"
    /\ mainTaskQ' = Post(dhtProcess(mainTaskQ, f), "complete")

(***************************************************************************)
(* dhtGpioCbk: a falling edge of the DHT pin.  The edge that fills         *)
(* DhtResult completes the measurement whatever dhtProcess found: the      *)
(* state ERR of a parity error lasts no longer than the interrupt.         *)
(***************************************************************************)
dhtGpioCbk ==
  /\ intr
  /\ DhtResultIdx' = (DhtResultIdx + 1) % 256
  /\ \/ FrameFull(DhtResultIdx') /\ dhtComplete
     \/ /\ ~FrameFull(DhtResultIdx')
        /\ state' = "MEAS"
        /\ UNCHANGED <<reading, armed, intr, mainTaskQ>>
  /\ UNCHANGED <<TimeoutCnt, pc, reported, requests>>

(***************************************************************************)
(* mainTask: takes the oldest event and switches on the state the handle   *)
(* has by now.  An interrupt may come between the switch and what the      *)
(* chosen case does.                                                       *)
(***************************************************************************)
mainTask ==
  /\ pc = "idle"
  /\ mainTaskQ # <<>>
  /\ mainTaskQ' = Tail(mainTaskQ)
  /\ \/ state = "ERR" /\ pc' = "recall"
     \/ state = "COMPL" /\ pc' = "report"
     \/ state \notin {"ERR", "COMPL"} /\ pc' = "idle"
  /\ UNCHANGED <<state, TimeoutCnt, DhtResultIdx, reading, armed, intr,
                 reported, requests>>

(* mainTask, case ERR: dhtStart measures again.                            *)
mainTaskRecall ==
  /\ pc = "recall"
  /\ dhtInit
  /\ UNCHANGED <<DhtResultIdx, reading, armed, intr, mainTaskQ, reported,
                 requests>>

(* mainTask, case COMPL: print the handle's values, daemonRequest.         *)
mainTaskReport ==
  /\ pc = "report"
  /\ reported' = reading
  /\ pc' = "idle"
  /\ UNCHANGED <<state, TimeoutCnt, DhtResultIdx, reading, armed, intr,
                 mainTaskQ, requests>>

Task == \/ dhtStartArm \/ dhtTimerCbk \/ dhtTimerTimeout
        \/ dhtGpioCbkSetup \/ dhtGpioCbkReset
        \/ mainTask \/ mainTaskRecall \/ mainTaskReport

Next == Task \/ DhtGet \/ dhtGpioCbk

Spec == Init /\ [][Next]_vars

(***************************************************************************)
(* The scheduler keeps running task-level code.  Nothing is assumed of the *)
(* sensor (edges may stop at any point of a frame) or of the daemon.       *)
(***************************************************************************)
FairSpec == Spec /\ WF_vars(Task)

-----------------------------------------------------------------------------
(* dht.c:71: an interrupt stores a pulse width at DhtResult[DhtResultIdx]. *)
(* It stays inside the array except in the one window in which             *)
(* dhtGpioCbkSetup has enabled interrupts and not yet reset the index; even *)
(* there it overruns by one element only, so the uint8_t never wraps.      *)
IdxInBounds ==
  /\ intr /\ pc # "reset" => DhtResultIdx < EDGES
  /\ DhtResultIdx <= EDGES + 1

(* dhtStart re-initialises DhtTimer without disarming it (the disarm is    *)
(* commented out, dht.c:142).  The retry of mainTask never does that to a  *)
(* timer that is still on the SDK's list.                                  *)
RetryDisarmed == pc = "recall" => ~armed

(* A measurement that nobody restarts gets DHT_TIMEOUT + 1 ticks and no    *)
(* more, whenever its frame ends or its retry comes: the tick counter      *)
(* passes DHT_TIMEOUT only in the callback that gives up.                  *)
TimeoutBounded ==
  /\ TimeoutCnt <= DHT_TIMEOUT + 1
  /\ armed /\ pc # "tick" => TimeoutCnt <= DHT_TIMEOUT

(* A reading whose measurement is the last one is not lost, although a     *)
(* full queue drops events and a late edge or a new request can change the *)
(* state while its event waits: once mainTask has nothing left to do, it   *)
(* has passed the current reading on.                                      *)
CompleteReported ==
  state = "COMPL" /\ mainTaskQ = <<>> /\ pc # "report" => reported = reading

(* Every measurement ends, with or without a sensor: mainTask is woken up  *)
(* with a result or with a timeout to look at.                             *)
MeasurementEnds ==
  armed ~> (state \in {"COMPL", "ERR"} /\ mainTaskQ # <<>>)

(* The inductive strengthening of the invariants above (SensorProofs): a   *)
(* failed measurement has no timer and is not being restarted; a restart   *)
(* begins at tick 0; the one-element overrun is over when the window is.   *)
ErrDisarmed  == state = "ERR" => ~armed /\ pc # "delay"
DelayFresh   == pc = "delay" => TimeoutCnt = 0
OverrunEnds  == intr \/ pc # "reset" => DhtResultIdx <= EDGES

IndInv == /\ TypeOK /\ IdxInBounds /\ RetryDisarmed /\ TimeoutBounded
          /\ CompleteReported /\ ErrDisarmed /\ DelayFresh /\ OverrunEnds

-----------------------------------------------------------------------------
(* dht.c:41, "Dht parity NOK, halting...": a frame whose parity is wrong   *)
(* goes no further.                                                        *)
BadNotReported == reported # "bad"

(* development/user/user_main.c:107, "ERR in DHT reading, recall", and     *)
(* user_main.c:102-104: a measurement that failed is started again (unless *)
(* its frame arrives complete after all).                                  *)
TimeoutRecalled == state = "ERR" ~> (armed \/ state = "COMPL")
=============================================================================
