------------------------------- MODULE Hcsr04 --------------------------------
(***************************************************************************)
(* The HC-SR04 drivers: orai_munka/user/hcsr04.c (DEV = FALSE) and         *)
(* development/user/hcsr04.c with its part of mainTask (DEV = TRUE).       *)
(*                                                                         *)
(* A start runs as ordinary code and the pin's interrupt handler may run   *)
(* between its statements; tasks and starts do not preempt each other.     *)
(* The sensor answers a trigger with one echo pulse and ignores triggers   *)
(* until that is over.  WDEW_NOW() is a counter that wraps round.          *)
(***************************************************************************)
EXTENDS Integers

CONSTANTS
  DEV,         \* which driver
  WIDTH,       \* values of the counter (2^32)
  QSIZE,       \* entries of the task queue (orai_munka 2, development 3)
  MAX_STARTS   \* bound: measurements

ASSUME HcAssumption ==
  /\ DEV \in BOOLEAN
  /\ WIDTH \in Nat \ {0, 1} /\ QSIZE \in Nat \ {0} /\ MAX_STARTS \in Nat

VARIABLES
  step,          \* where the start code is
  UltraSensSts,  \* edges seen
  intType,       \* GPIO_PIN_INTR_* of the input pin
  pend,          \* the pin's bit in the GPIO status register
  TimerOffset, raw,  \* counter at the first edge; Hcsr04ResultRaw
  HcState,       \* development only: Hcsr04.state
  queue,         \* events posted to the task and not yet taken
  rough,         \* starts may overlap an echo, and the line may glitch
                 \* (does not change)
  echo,          \* the sensor: low, triggered, or pulse
  clock,         \* WDEW_NOW()
  dur, last,     \* history: length of the pulse so far, of the last one
  starts, posts  \* history: measurements started, events posted

drvVars == <<step, UltraSensSts, intType, pend, TimerOffset, raw, HcState,
             queue>>
envVars == <<rough, echo, clock, dur, last>>
hcVars  == <<drvVars, envVars, starts, posts>>

(* Status, result and time stamp keep to their ranges, the counter's wrap  *)
(* round included.                                                         *)
HcTypeOK ==
  /\ step \in {"idle", "enabled", "reset"} /\ UltraSensSts \in 0..2
  /\ intType \in {"DISABLE", "POSEDGE", "NEGEDGE"} /\ pend \in BOOLEAN
  /\ TimerOffset \in 0..(WIDTH - 1) /\ raw \in 0..(WIDTH - 1)
  /\ HcState \in {"IDLE", "MEAS", "COMPL"} /\ queue \in 0..QSIZE
  /\ rough \in BOOLEAN
  /\ echo \in {"low", "triggered", "high"} /\ clock \in 0..(WIDTH - 1)
  /\ dur \in 0..(WIDTH - 1) /\ last \in 0..(WIDTH - 1)
  /\ starts \in 0..MAX_STARTS /\ posts \in Nat

HcInit ==
  /\ step = "idle" /\ UltraSensSts = 0 /\ intType = "DISABLE" /\ pend = FALSE
  /\ TimerOffset = 0 /\ raw = 0 /\ HcState = "IDLE" /\ queue = 0
  /\ rough \in BOOLEAN
  /\ echo = "low" /\ clock \in 0..(WIDTH - 1) /\ dur = 0 /\ last = 0
  /\ starts = 0 /\ posts = 0

-----------------------------------------------------------------------------
(* ultraSInit, ultrasensorInit: the pin's status bit is cleared and the    *)
(* interrupt enabled for the rising edge (the mutant: the falling) ...     *)
EnableFor(type) ==
  /\ step = "idle" /\ starts < MAX_STARTS
  /\ rough \/ (echo = "low" /\ ~pend /\ queue = 0)
  /\ starts' = starts + 1
  /\ pend' = FALSE /\ intType' = type
  /\ step' = "enabled"
  /\ UNCHANGED <<UltraSensSts, TimerOffset, raw, HcState, queue, envVars,
                 posts>>
Enable_falling == EnableFor("NEGEDGE")
Enable == EnableFor("POSEDGE")

(* ... then the status is reset; the mutant forgets to.                    *)
ResetTo(s) ==
  /\ step = "enabled"
  /\ UltraSensSts' = s
  /\ HcState' = IF DEV THEN "MEAS" ELSE HcState
  /\ step' = "reset"
  /\ UNCHANGED <<intType, pend, TimerOffset, raw, queue, envVars, starts,
                 posts>>
Reset_not == ResetTo(UltraSensSts)
Reset == ResetTo(0)

(* ultraSStart, ultrasensorStartMeasure: the trigger pulse.                *)
Trigger ==
  /\ step = "reset"
  /\ step' = "idle"
  /\ echo' = IF echo = "low" THEN "triggered" ELSE echo
  /\ UNCHANGED <<UltraSensSts, intType, pend, TimerOffset, raw, HcState, queue,
                 clock, dur, last, starts, posts, rough>>

(* The difference of two counter values; the mutant forgets the width.     *)
Elapsed_signed(now, then) == now - then
Elapsed(now, then) == (now + WIDTH - then) % WIDTH

(* ultraSCbkGpio, hcsr04GpioIntCbk.  Neither clears the status bit when    *)
(* it counts no edge.                                                      *)
FirstEdge ==
  /\ pend /\ UltraSensSts = 0
  /\ TimerOffset' = clock
  /\ intType' = "NEGEDGE" /\ pend' = FALSE
  /\ UltraSensSts' = 1
  /\ UNCHANGED <<step, raw, HcState, queue, envVars, starts, posts>>

(* The development driver leaves the status at 1.  The mutant leaves the   *)
(* interrupt enabled.                                                      *)
SecondEdgeThen(type) ==
  /\ pend /\ UltraSensSts = 1
  /\ raw' = Elapsed(clock, TimerOffset)
  /\ intType' = type /\ pend' = FALSE
  /\ UltraSensSts' = IF DEV THEN 1 ELSE 2
  /\ HcState' = IF DEV THEN "COMPL" ELSE HcState
  /\ queue' = IF queue < QSIZE THEN queue + 1 ELSE queue
  /\ posts' = posts + 1
  /\ UNCHANGED <<step, TimerOffset, envVars, starts>>
SecondEdge_enabled == SecondEdgeThen("POSEDGE")
SecondEdge == SecondEdgeThen("DISABLE")

(* ultraSTask, mainTask: the result is printed; the development firmware   *)
(* prints it only if the state is still COMPL.                             *)
HcTask ==
  /\ step = "idle" /\ queue > 0
  /\ queue' = queue - 1
  /\ UNCHANGED <<step, UltraSensSts, intType, pend, TimerOffset, raw, HcState,
                 envVars, starts, posts>>

-----------------------------------------------------------------------------
(* The sensor and the counter.  An edge the pin is set to sets its bit.    *)
Rise ==
  /\ echo = "triggered"
  /\ echo' = "high" /\ dur' = 0
  /\ pend' = (pend \/ intType = "POSEDGE")
  /\ UNCHANGED <<step, UltraSensSts, intType, TimerOffset, raw, HcState, queue,
                 clock, last, starts, posts, rough>>

Fall ==
  /\ echo = "high" /\ dur > 0 /\ ~pend
  /\ echo' = "low" /\ last' = dur
  /\ pend' = (pend \/ intType = "NEGEDGE")
  /\ UNCHANGED <<step, UltraSensSts, intType, TimerOffset, raw, HcState, queue,
                 clock, dur, starts, posts, rough>>

(* The handler runs within one count of the edge.  A pulse ends before the *)
(* counter has gone round.                                                 *)
Tick ==
  /\ ~pend /\ (echo = "high" => dur < WIDTH - 1)
  /\ clock' = (clock + 1) % WIDTH
  /\ dur' = IF echo = "high" THEN dur + 1 ELSE dur
  /\ UNCHANGED <<drvVars, echo, last, starts, posts, rough>>

(* An edge that is not the echo's.                                         *)
Glitch ==
  /\ rough /\ intType # "DISABLE" /\ ~pend
  /\ pend' = TRUE
  /\ UNCHANGED <<step, UltraSensSts, intType, TimerOffset, raw, HcState, queue,
                 envVars, starts, posts>>

Sensor == Rise \/ Fall
Isr    == FirstEdge \/ SecondEdge
HcCode == Enable \/ Reset \/ Trigger \/ HcTask

HcNext == HcCode \/ Isr \/ Sensor \/ Glitch \/ Tick

HcSpec == HcInit /\ [][HcNext]_hcVars

(* Code that has begun goes on, interrupts are taken, the sensor answers   *)
(* and time passes.                                                        *)
HcFairSpec == /\ HcSpec
              /\ WF_hcVars(Reset \/ Trigger \/ HcTask) /\ WF_hcVars(Isr)
              /\ WF_hcVars(Sensor) /\ WF_hcVars(Tick)

-----------------------------------------------------------------------------
(* On a clean line the result waiting for the task is the length of the    *)
(* last pulse, also when the counter wraps round within it, and the state  *)
(* is not back at MEAS, with which the development firmware would not      *)
(* print it.                                                               *)
ResultExact == ~rough /\ queue > 0 => raw = last /\ HcState # "MEAS"

(* Each event belongs to a start of its own: no further edge posts another *)
(* one, even if starts overlap and the line glitches, and although the     *)
(* development driver does not count the second edge.                      *)
EventPerStart == posts <= starts

(* On a clean line no interrupt is pending that the handler would leave    *)
(* pending: it would be entered again for ever.                            *)
NoStorm == ~(~rough /\ pend /\ UltraSensSts = 2)

(* A measurement started on a clean line brings its event.                 *)
Measured == ~rough /\ step = "reset" ~> queue > 0
=============================================================================
