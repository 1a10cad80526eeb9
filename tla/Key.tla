-------------------------------- MODULE Key --------------------------------
(***************************************************************************)
(* The push button driver (driver/key.c, the same file in orai_munka,      *)
(* development and driver_lib), for one button: key_intr_handler treats    *)
(* each button of the list by itself.                                      *)
(*                                                                         *)
(* The pin is low while the button is down, and bounces.  The GPIO block   *)
(* latches an edge of the kind the pin is set to detect; edges of the      *)
(* other kind, and all edges while detection is off, leave no trace.       *)
(* key_intr_handler preempts the two timer callbacks, which the scheduler  *)
(* runs one at a time.  Between two writes of the detection mode the pin   *)
(* may change.                                                             *)
(***************************************************************************)
EXTENDS Naturals

CONSTANT MAX_EDGES   \* bound: changes of the pin

ASSUME KeyAssumption == MAX_EDGES \in Nat

VARIABLES
  pin,        \* GPIO_INPUT_GET
  detect,     \* gpio_pin_intr_state_set: "NEGEDGE", "POSEDGE", "DISABLE"
  status,     \* GPIO_STATUS: an edge is latched
  key_level,  \* 1: the driver takes the key for up, 0: for down
  key_5s,     \* the timers are armed (one shot)
  key_50ms,
  isr,        \* key_intr_handler runs and has turned detection off
  cb,         \* step of the timer callback that runs
  edges,      \* changes of the pin so far
  presses,    \* history: times the driver took the key for pressed
  shorts,     \* history: calls of short_press
  longs       \* history: calls of long_press

keyVars == <<pin, detect, status, key_level, key_5s, key_50ms, isr, cb, edges,
          presses, shorts, longs>>

(* The fields of single_key_param and the GPIO block keep to their types.  *)
KeyTypeOK ==
  /\ pin \in {0, 1} /\ key_level \in {0, 1}
  /\ detect \in {"NEGEDGE", "POSEDGE", "DISABLE"}
  /\ status \in BOOLEAN /\ isr \in BOOLEAN
  /\ key_5s \in BOOLEAN /\ key_50ms \in BOOLEAN
  /\ cb \in {"idle", "up", "down", "short", "long"}
  /\ edges \in 0..MAX_EDGES
  /\ presses \in Nat /\ shorts \in Nat /\ longs \in Nat

(* key_init: the button may be held when the board starts.                 *)
KeyInit ==
  /\ pin \in {0, 1} /\ key_level = 1
  /\ detect = "NEGEDGE" /\ status = FALSE /\ isr = FALSE
  /\ key_5s = FALSE /\ key_50ms = FALSE
  /\ cb = "idle"
  /\ edges = 0 /\ presses = 0 /\ shorts = 0 /\ longs = 0

-----------------------------------------------------------------------------
(* The button is pressed or released, or bounces.                          *)
Edge ==
  /\ edges < MAX_EDGES
  /\ edges' = edges + 1
  /\ pin' = 1 - pin
  /\ status' = (status \/ detect = IF pin = 1 THEN "NEGEDGE" ELSE "POSEDGE")
  /\ UNCHANGED <<detect, key_level, key_5s, key_50ms, isr, cb, presses,
                 shorts, longs>>

(* key_intr_handler: turn detection off, clear the latch.                  *)
key_intr_handler ==
  /\ status /\ ~isr
  /\ isr' = TRUE
  /\ detect' = "DISABLE"
  /\ status' = FALSE
  /\ UNCHANGED <<pin, key_level, key_5s, key_50ms, cb, edges, presses, shorts,
                 longs>>

(* key_intr_handler, key_level == 1: a press.                              *)
Pressed ==
  /\ key_level = 1
  /\ key_level' = 0
  /\ key_5s' = TRUE
  /\ detect' = "POSEDGE"
  /\ presses' = presses + 1
  /\ UNCHANGED key_50ms

(* key_intr_handler, else: perhaps a release; detection stays off until    *)
(* key_50ms_cb.  The mutant forgets the timer.                             *)
Released_noTimer ==
  /\ key_level = 0
  /\ UNCHANGED <<key_level, key_5s, key_50ms, detect, presses>>
Released ==
  /\ key_level = 0
  /\ key_50ms' = TRUE
  /\ UNCHANGED <<key_level, key_5s, detect, presses>>

key_intr_return ==
  /\ isr
  /\ isr' = FALSE
  /\ Pressed \/ Released
  /\ UNCHANGED <<pin, status, cb, edges, shorts, longs>>

(* key_5s_cb: disarm, look at the pin; low is a long press.                *)
key_5s_cb ==
  /\ cb = "idle" /\ ~isr /\ key_5s
  /\ key_5s' = FALSE
  /\ cb' = IF pin = 0 THEN "long" ELSE "idle"
  /\ UNCHANGED <<pin, detect, status, key_level, key_50ms, isr, edges, presses,
                 shorts, longs>>

long_press ==
  /\ cb = "long" /\ ~isr
  /\ cb' = "idle"
  /\ longs' = longs + 1
  /\ UNCHANGED <<pin, detect, status, key_level, key_5s, key_50ms, isr, edges,
                 presses, shorts>>

(* key_50ms_cb: disarm, look at the pin.                                   *)
key_50ms_cb ==
  /\ cb = "idle" /\ ~isr /\ key_50ms
  /\ key_50ms' = FALSE
  /\ cb' = IF pin = 1 THEN "up" ELSE "down"
  /\ UNCHANGED <<pin, detect, status, key_level, key_5s, isr, edges, presses,
                 shorts, longs>>

(* key_50ms_cb, the key is up; the mutant leaves the long timer running.   *)
key_up_keep5s ==
  /\ cb = "up" /\ ~isr
  /\ key_level' = 1
  /\ detect' = "NEGEDGE"
  /\ cb' = "short"
  /\ UNCHANGED <<pin, status, key_5s, key_50ms, isr, edges, presses, shorts,
                 longs>>
key_up ==
  /\ cb = "up" /\ ~isr
  /\ key_5s' = FALSE
  /\ key_level' = 1
  /\ detect' = "NEGEDGE"
  /\ cb' = "short"
  /\ UNCHANGED <<pin, status, key_50ms, isr, edges, presses, shorts, longs>>

(* key_50ms_cb calls short_press last; a new press may come before.        *)
short_press ==
  /\ cb = "short" /\ ~isr
  /\ cb' = "idle"
  /\ shorts' = shorts + 1
  /\ UNCHANGED <<pin, detect, status, key_level, key_5s, key_50ms, isr, edges,
                 presses, longs>>

(* key_50ms_cb, the key is still down.  The mutants take it for up without *)
(* a call of short_press, and keep detection off.                          *)
key_down_asUp ==
  /\ cb = "down" /\ ~isr
  /\ key_level' = 1
  /\ detect' = "NEGEDGE"
  /\ cb' = "idle"
  /\ UNCHANGED <<pin, status, key_5s, key_50ms, isr, edges, presses, shorts,
                 longs>>
key_down_deaf ==
  /\ cb = "down" /\ ~isr
  /\ cb' = "idle"
  /\ UNCHANGED <<pin, detect, status, key_level, key_5s, key_50ms, isr, edges,
                 presses, shorts, longs>>
key_down ==
  /\ cb = "down" /\ ~isr
  /\ detect' = "POSEDGE"
  /\ cb' = "idle"
  /\ UNCHANGED <<pin, status, key_level, key_5s, key_50ms, isr, edges, presses,
                 shorts, longs>>

Driver == \/ key_intr_handler \/ key_intr_return
          \/ key_5s_cb \/ long_press
          \/ key_50ms_cb \/ key_up \/ short_press \/ key_down

KeyNext == Edge \/ Driver

KeySpec == KeyInit /\ [][KeyNext]_keyVars

(* Interrupts are served and armed timers fire; nothing is assumed of the  *)
(* user.                                                                   *)
KeyFairSpec == KeySpec /\ WF_keyVars(Driver)

-----------------------------------------------------------------------------
(* Whatever the bounces and however the interrupt falls into a callback,   *)
(* each press the driver has seen brings exactly one short_press, which    *)
(* comes before the next press is over.                                    *)
OneShortPerPress ==
  presses = shorts + (1 - key_level) + (IF cb = "short" THEN 1 ELSE 0)

(* A press brings at most one long_press, and no late timer calls it when  *)
(* the driver takes the key for up.                                        *)
LongWhileDown ==
  /\ longs + (IF key_5s THEN 1 ELSE 0) + (IF cb = "long" THEN 1 ELSE 0)
       <= presses
  /\ key_5s \/ cb = "long" => key_level = 0

(* The driver never goes deaf: when no handler runs, it detects the edge   *)
(* it is waiting for, or the timer that will turn detection on is armed.   *)
NeverDeaf ==
  ~isr /\ cb \notin {"up", "down"} =>
    \/ detect = "NEGEDGE" /\ key_level = 1
    \/ detect = "POSEDGE" /\ key_level = 0
    \/ detect = "DISABLE" /\ key_level = 0 /\ key_50ms

(* A release that was noticed is settled: either the key is reported or    *)
(* the driver waits for the release again.                                 *)
ReleaseSettled == key_50ms ~> (cb = "short" \/ detect = "POSEDGE")

-----------------------------------------------------------------------------
(* The inductive strengthening (see KeyProofs).                            *)
DetectOff ==
  /\ isr => detect = "DISABLE" /\ ~status
  /\ cb \in {"up", "down"} =>
       /\ detect = "DISABLE" /\ key_level = 0 /\ ~key_50ms /\ ~isr
  /\ detect = "DISABLE" => ~status
  /\ key_50ms => detect = "DISABLE" /\ ~isr

KeyInv == KeyTypeOK /\ OneShortPerPress /\ LongWhileDown /\ NeverDeaf
          /\ DetectOff
=============================================================================
