----------------------------- MODULE MCSensors -----------------------------
(***************************************************************************)
(* The drivers of single pins, side by side.  They share no state: part    *)
(* says which one moves, the others rest in an initial state.              *)
(*   dht            the DHT22 driver and the main task                     *)
(*   frame          the decoding of its frames; their words lie around the *)
(*                  carries, the sign and the roundings: 2.1 degrees is    *)
(*                  the first reading whose hundredths come out as 9       *)
(*                  rather than 10                                         *)
(*   key            the button: two presses with bounces                   *)
(*   orai, dev      the two HC-SR04 drivers, a counter of three values; the*)
(*                  second one also on a line that glitches, with starts   *)
(*                  that overlap                                           *)
(***************************************************************************)
EXTENDS Dht, DhtFrame, Key, Hcsr04

VARIABLES part

mcvars == <<part, vars, frameVars, keyVars, hcVars>>

H == INSTANCE Hcsr04 WITH DEV <- FALSE, QSIZE <- 2

MCInit ==
  /\ part \in {"dht", "frame", "key", "orai", "dev"}
  /\ Init /\ KeyInit /\ FrameInit /\ HcInit
  /\ part # "frame" => hum = 0 /\ temp = 0 /\ flip = 40 /\ late = 42
  /\ part # "key" => pin = 1
  /\ part \notin {"orai", "dev"} => clock = 0
  /\ part # "dev" => ~rough

MCNext ==
  /\ UNCHANGED part
  /\ \/ part = "dht" /\ Next /\ UNCHANGED <<frameVars, keyVars, hcVars>>
     \/ part = "frame" /\ FrameNext /\ UNCHANGED <<vars, keyVars, hcVars>>
     \/ part = "key" /\ KeyNext /\ UNCHANGED <<vars, frameVars, hcVars>>
     \/ part = "orai" /\ H!HcNext /\ UNCHANGED <<vars, frameVars, keyVars>>
     \/ part = "dev" /\ HcNext /\ UNCHANGED <<vars, frameVars, keyVars>>

(* The fairness of each part's own FairSpec.                               *)
MCSpec ==
  /\ MCInit /\ [][MCNext]_mcvars
  /\ WF_vars(part = "dht" /\ Task)
  /\ WF_keyVars(part = "key" /\ Driver)
  /\ WF_hcVars(part = "orai" /\ (H!Reset \/ H!Trigger \/ H!HcTask))
  /\ WF_hcVars(part = "orai" /\ H!Isr)
  /\ WF_hcVars(part = "orai" /\ H!Sensor)
  /\ WF_hcVars(part = "orai" /\ H!Tick)
  /\ WF_hcVars(part = "dev" /\ (Reset \/ Trigger \/ HcTask))
  /\ WF_hcVars(part = "dev" /\ Isr)
  /\ WF_hcVars(part = "dev" /\ Sensor)
  /\ WF_hcVars(part = "dev" /\ Tick)

-----------------------------------------------------------------------------
(* What was begun ends: the DHT22 measurement, the key's bounce, the echo. *)
BegunEnds == MeasurementEnds /\ ReleaseSettled /\ Measured
=============================================================================
