---------------------------- MODULE SensorProofs ----------------------------
(***************************************************************************)
(* The drivers of the sensors.  The DHT22, for every frame length, timeout,*)
(* queue size and number of requests; its frames, for every pair of words  *)
(* and every timing that keeps ones and zeros apart; and the drivers that  *)
(* are woken by edges of a pin: the key, for any number of edges, and both *)
(* HC-SR04 drivers, for a counter of any width, a queue of any size and    *)
(* any number of measurements.                                             *)
(***************************************************************************)
EXTENDS Dht, DhtFrame, Key, Hcsr04, SequenceTheorems, TLAPS

-----------------------------------------------------------------------------
(* The DHT22. *)

(* system_os_post on a queue within its size: the queue stays within it,   *)
(* and holds at least one event afterwards, whether or not the new one.    *)
LEMMA PostQueue ==
  ASSUME NEW q \in Seq(Reason), Len(q) <= MAIN_TASK_Q_SIZE, NEW why \in Reason
  PROVE  /\ Post(q, why) \in Seq(Reason)
         /\ Len(Post(q, why)) <= MAIN_TASK_Q_SIZE
         /\ Post(q, why) # <<>>
  <1>1. CASE Len(q) < MAIN_TASK_Q_SIZE
    <2>1. Post(q, why) = Append(q, why)
      BY <1>1 DEF Post
    <2>2. Append(q, why) \in Seq(Reason) /\ Len(Append(q, why)) = Len(q) + 1
      OBVIOUS
    <2>3. Append(q, why) # <<>>
      BY <2>2
    <2> QED
      BY <1>1, <2>1, <2>2, <2>3, ConstantsAssumption
  <1>2. CASE ~(Len(q) < MAIN_TASK_Q_SIZE)
    <2>1. q # <<>>
      BY <1>2, ConstantsAssumption
    <2> QED
      BY <1>2, <2>1 DEF Post
  <1> QED
    BY <1>1, <1>2

(* The inductive invariant holds in the state user_init leaves behind.     *)
LEMMA InitIndInv == Init => IndInv
  <1> SUFFICES ASSUME Init
               PROVE  IndInv
    OBVIOUS
  <1>1. TypeOK
    <2>1. mainTaskQ \in Seq(Reason) /\ Len(mainTaskQ) <= MAIN_TASK_Q_SIZE
      BY ConstantsAssumption DEF Init
    <2>2. armed \in BOOLEAN /\ intr \in BOOLEAN
      BY DEF Init
    <2>3. /\ state \in DhtState /\ reading \in Frame /\ reported \in Frame
          /\ pc = "delay"
      BY DEF Init, DhtState, Frame
    <2>4. TimeoutCnt = 0 /\ DhtResultIdx = 0 /\ requests = 0
      BY DEF Init
    <2> QED
      BY <2>1, <2>2, <2>3, <2>4, ConstantsAssumption DEF TypeOK
  <1> QED
    BY <1>1, ConstantsAssumption
    DEF Init, IndInv, IdxInBounds, RetryDisarmed, TimeoutBounded,
        CompleteReported, ErrDisarmed, DelayFresh, OverrunEnds

(* What GiveUp and dhtComplete do to the queue.                            *)
LEMMA GiveUpQueue ==
  ASSUME TypeOK, GiveUp
  PROVE  /\ mainTaskQ' \in Seq(Reason)
         /\ Len(mainTaskQ') <= MAIN_TASK_Q_SIZE
  BY PostQueue DEF TypeOK, GiveUp, Reason

LEMMA CompleteQueue ==
  ASSUME TypeOK, dhtComplete
  PROVE  /\ mainTaskQ' \in Seq(Reason)
         /\ Len(mainTaskQ') <= MAIN_TASK_Q_SIZE
         /\ mainTaskQ' # <<>>
         /\ reading' \in Frame
  <1>1. PICK f \in Frame \ {"none"} :
          /\ reading' = f
          /\ mainTaskQ' = Post(dhtProcess(mainTaskQ, f), "complete")
    BY DEF dhtComplete
  <1>2. /\ dhtProcess(mainTaskQ, f) \in Seq(Reason)
        /\ Len(dhtProcess(mainTaskQ, f)) <= MAIN_TASK_Q_SIZE
    BY PostQueue DEF TypeOK, dhtProcess, Reason
  <1> QED
    BY <1>1, <1>2, PostQueue DEF Reason

(* Every step of the driver, of mainTask and of the interrupt preserves    *)
(* the inductive invariant.                                                *)
LEMMA NextIndInv == IndInv /\ [Next]_vars => IndInv'
  <1> SUFFICES ASSUME IndInv, [Next]_vars
               PROVE  IndInv'
    OBVIOUS
  <1> USE ConstantsAssumption
      DEF IndInv, TypeOK, DhtState, Frame, IdxInBounds, RetryDisarmed,
          TimeoutBounded, CompleteReported, ErrDisarmed, DelayFresh,
          OverrunEnds
  <1>1. CASE dhtStartArm
    BY <1>1 DEF dhtStartArm
  <1>2. CASE dhtTimerCbk
    BY <1>2 DEF dhtTimerCbk
  <1>3. CASE dhtTimerTimeout
    <2>1. CASE TimedOut /\ GiveUp
      BY <1>3, <2>1, GiveUpQueue DEF dhtTimerTimeout, TimedOut, GiveUp
    <2>2. CASE ~TimedOut /\ UNCHANGED <<armed, state, mainTaskQ>>
      BY <1>3, <2>2 DEF dhtTimerTimeout, TimedOut
    <2> QED
      BY <1>3, <2>1, <2>2 DEF dhtTimerTimeout
  <1>4. CASE dhtGpioCbkSetup
    BY <1>4 DEF dhtGpioCbkSetup
  <1>5. CASE dhtGpioCbkReset
    BY <1>5 DEF dhtGpioCbkReset
  <1>6. CASE mainTask
    <2>1. /\ mainTaskQ' \in Seq(Reason)
          /\ Len(mainTaskQ') <= MAIN_TASK_Q_SIZE
      BY <1>6 DEF mainTask
    <2> QED
      BY <1>6, <2>1 DEF mainTask
  <1>7. CASE mainTaskRecall
    BY <1>7 DEF mainTaskRecall, dhtInit
  <1>8. CASE mainTaskReport
    BY <1>8 DEF mainTaskReport
  <1>9. CASE DhtGet
    BY <1>9 DEF DhtGet, dhtInit
  <1>10. CASE dhtGpioCbk
    <2>1. intr /\ DhtResultIdx' = DhtResultIdx + 1 /\ DhtResultIdx <= EDGES
      BY <1>10 DEF dhtGpioCbk
    <2>2. /\ pc' = pc
          /\ UNCHANGED <<TimeoutCnt, reported, requests>>
      BY <1>10 DEF dhtGpioCbk
    <2>3. CASE FrameFull(DhtResultIdx') /\ dhtComplete
      <3>1. intr' = FALSE /\ armed' = FALSE /\ state' = "COMPL"
        BY <2>3 DEF dhtComplete
      <3>2. /\ mainTaskQ' \in Seq(Reason)
            /\ Len(mainTaskQ') <= MAIN_TASK_Q_SIZE
            /\ mainTaskQ' # <<>>
            /\ reading' \in Frame
        BY <2>3, CompleteQueue
      <3>3. /\ intr' \in BOOLEAN /\ armed' \in BOOLEAN
            /\ ~intr' /\ ~armed' /\ state' = "COMPL"
        BY <3>1
      <3> QED
        BY <2>1, <2>2, <3>2, <3>3
    <2>4. CASE /\ ~FrameFull(DhtResultIdx')
               /\ state' = "MEAS"
               /\ UNCHANGED <<reading, armed, intr, mainTaskQ>>
      BY <2>1, <2>2, <2>4 DEF FrameFull
    <2> QED
      BY <1>10, <2>3, <2>4 DEF dhtGpioCbk
  <1>11. CASE UNCHANGED vars
    BY <1>11 DEF vars
  <1> QED
    BY <1>1, <1>2, <1>3, <1>4, <1>5, <1>6, <1>7, <1>8, <1>9, <1>10, <1>11
    DEF Next, Task

(* The inductive invariant is an invariant.                                *)
THEOREM Invariance == Spec => []IndInv
  BY InitIndInv, NextIndInv, PTL DEF Spec

(* Every driver variable keeps its C type and the event queue its size.    *)
THEOREM TypeCorrect == Spec => []TypeOK
  <1>1. IndInv => TypeOK
    BY DEF IndInv
  <1> QED
    BY Invariance, <1>1, PTL

(* Outside the window of dhtGpioCbkSetup no interrupt writes past          *)
(* DhtResult, and no index goes more than one element past it.             *)
THEOREM IndexSafe == Spec => []IdxInBounds
  <1>1. IndInv => IdxInBounds
    BY DEF IndInv
  <1> QED
    BY Invariance, <1>1, PTL

(* mainTask's retry never re-initialises a timer that is armed.            *)
THEOREM RetrySafe == Spec => []RetryDisarmed
  <1>1. IndInv => RetryDisarmed
    BY DEF IndInv
  <1> QED
    BY Invariance, <1>1, PTL

(* No measurement runs past its timeout.                                   *)
THEOREM TimeoutSafe == Spec => []TimeoutBounded
  <1>1. IndInv => TimeoutBounded
    BY DEF IndInv
  <1> QED
    BY Invariance, <1>1, PTL

(* A completed reading that is still current when mainTask has run dry has *)
(* been passed to daemonRequest.                                           *)
THEOREM ReadingNotLost == Spec => []CompleteReported
  <1>1. IndInv => CompleteReported
    BY DEF IndInv
  <1> QED
    BY Invariance, <1>1, PTL


-----------------------------------------------------------------------------
(* The key. KeyInv adds DetectOff to Key's invariants: while detection is  *)
(* off no edge is latched, so neither the rest of key_intr_handler nor     *)
(* key_50ms_cb can be interrupted for this key.                            *)

(* The state after key_init satisfies the invariant.                       *)
LEMMA InitKeyInv == KeyInit => KeyInv
<1> SUFFICES ASSUME KeyInit PROVE KeyInv
  OBVIOUS
<1>1. KeyTypeOK
  <2>1. edges \in 0..MAX_EDGES
    BY KeyAssumption DEF KeyInit
  <2> QED
    BY <2>1 DEF KeyInit, KeyTypeOK
<1>2. OneShortPerPress
  BY DEF KeyInit, OneShortPerPress
<1>3. LongWhileDown /\ NeverDeaf /\ DetectOff
  BY DEF KeyInit, LongWhileDown, NeverDeaf, DetectOff
<1> QED
  BY <1>1, <1>2, <1>3 DEF KeyInv

(* Every edge, interrupt and callback step of key.c keeps the invariant.   *)
LEMMA NextKeyInv == KeyInv /\ [KeyNext]_keyVars => KeyInv'
<1> SUFFICES ASSUME KeyInv, [KeyNext]_keyVars PROVE KeyInv'
  OBVIOUS
<1> USE KeyAssumption
<1> USE DEF KeyInv
<1>1. CASE Edge
  <2>1. KeyTypeOK'
     BY <1>1 DEF Edge, KeyTypeOK
  <2>2. OneShortPerPress'
     BY <1>1 DEF Edge, KeyTypeOK, OneShortPerPress, DetectOff
  <2>3. LongWhileDown'
     BY <1>1 DEF Edge, KeyTypeOK, OneShortPerPress, LongWhileDown, DetectOff
  <2>4. NeverDeaf'
     BY <1>1 DEF Edge, KeyTypeOK, NeverDeaf, LongWhileDown, DetectOff
  <2>5. DetectOff'
     BY <1>1 DEF Edge, KeyTypeOK, NeverDeaf, DetectOff
  <2> QED
     BY <2>1, <2>2, <2>3, <2>4, <2>5
<1>2. CASE key_intr_handler
  <2>1. KeyTypeOK'
     BY <1>2 DEF key_intr_handler, KeyTypeOK
  <2>2. OneShortPerPress'
     BY <1>2 DEF key_intr_handler, KeyTypeOK, OneShortPerPress, DetectOff
  <2>3. LongWhileDown'
     BY <1>2 DEF key_intr_handler, KeyTypeOK, OneShortPerPress, LongWhileDown, DetectOff
  <2>4. NeverDeaf'
     BY <1>2 DEF key_intr_handler, KeyTypeOK, NeverDeaf, LongWhileDown, DetectOff
  <2>5. DetectOff'
     BY <1>2 DEF key_intr_handler, KeyTypeOK, NeverDeaf, DetectOff
  <2> QED
     BY <2>1, <2>2, <2>3, <2>4, <2>5
<1>3. CASE key_intr_return
  <2>1. CASE Pressed
    <3>1. KeyTypeOK'
      <4>1. presses' \in Nat
        BY <2>1 DEF Pressed, KeyTypeOK
      <4> QED
        BY <1>3, <2>1, <4>1 DEF key_intr_return, Pressed, KeyTypeOK
    <3>2. OneShortPerPress'
       BY <1>3, <2>1 DEF key_intr_return, Pressed, KeyTypeOK, OneShortPerPress, DetectOff
    <3>3. LongWhileDown'
       BY <1>3, <2>1 DEF key_intr_return, Pressed, KeyTypeOK, OneShortPerPress, LongWhileDown, DetectOff
    <3>4. NeverDeaf'
       BY <1>3, <2>1 DEF key_intr_return, Pressed, KeyTypeOK, NeverDeaf, LongWhileDown, DetectOff
    <3>5. DetectOff'
       BY <1>3, <2>1 DEF key_intr_return, Pressed, KeyTypeOK, NeverDeaf, DetectOff
    <3> QED
       BY <3>1, <3>2, <3>3, <3>4, <3>5
  <2>2. CASE Released
    <3>1. KeyTypeOK'
       BY <1>3, <2>2 DEF key_intr_return, Released, KeyTypeOK
    <3>2. OneShortPerPress'
       BY <1>3, <2>2 DEF key_intr_return, Released, KeyTypeOK, OneShortPerPress, DetectOff
    <3>3. LongWhileDown'
       BY <1>3, <2>2 DEF key_intr_return, Released, KeyTypeOK, OneShortPerPress, LongWhileDown, DetectOff
    <3>4. NeverDeaf'
       BY <1>3, <2>2 DEF key_intr_return, Released, KeyTypeOK, NeverDeaf, LongWhileDown, DetectOff
    <3>5. DetectOff'
       BY <1>3, <2>2 DEF key_intr_return, Released, KeyTypeOK, NeverDeaf, DetectOff
    <3> QED
       BY <3>1, <3>2, <3>3, <3>4, <3>5
  <2> QED
    BY <1>3, <2>1, <2>2 DEF key_intr_return
<1>4. CASE key_5s_cb
  <2>1. KeyTypeOK'
     BY <1>4 DEF key_5s_cb, KeyTypeOK
  <2>2. OneShortPerPress'
     BY <1>4 DEF key_5s_cb, KeyTypeOK, OneShortPerPress, DetectOff
  <2>3. LongWhileDown'
     BY <1>4 DEF key_5s_cb, KeyTypeOK, OneShortPerPress, LongWhileDown, DetectOff
  <2>4. NeverDeaf'
     BY <1>4 DEF key_5s_cb, KeyTypeOK, NeverDeaf, LongWhileDown, DetectOff
  <2>5. DetectOff'
     BY <1>4 DEF key_5s_cb, KeyTypeOK, NeverDeaf, DetectOff
  <2> QED
     BY <2>1, <2>2, <2>3, <2>4, <2>5
<1>5. CASE long_press
  <2>1. KeyTypeOK'
     BY <1>5 DEF long_press, KeyTypeOK
  <2>2. OneShortPerPress'
     BY <1>5 DEF long_press, KeyTypeOK, OneShortPerPress, DetectOff
  <2>3. LongWhileDown'
     BY <1>5 DEF long_press, KeyTypeOK, OneShortPerPress, LongWhileDown, DetectOff
  <2>4. NeverDeaf'
     BY <1>5 DEF long_press, KeyTypeOK, NeverDeaf, LongWhileDown, DetectOff
  <2>5. DetectOff'
     BY <1>5 DEF long_press, KeyTypeOK, NeverDeaf, DetectOff
  <2> QED
     BY <2>1, <2>2, <2>3, <2>4, <2>5
<1>6. CASE key_50ms_cb
  <2>1. KeyTypeOK'
     BY <1>6 DEF key_50ms_cb, KeyTypeOK
  <2>2. OneShortPerPress'
     BY <1>6 DEF key_50ms_cb, KeyTypeOK, OneShortPerPress, DetectOff
  <2>3. LongWhileDown'
     BY <1>6 DEF key_50ms_cb, KeyTypeOK, OneShortPerPress, LongWhileDown, DetectOff
  <2>4. NeverDeaf'
     BY <1>6 DEF key_50ms_cb, KeyTypeOK, NeverDeaf, LongWhileDown, DetectOff
  <2>5. DetectOff'
     BY <1>6 DEF key_50ms_cb, KeyTypeOK, NeverDeaf, DetectOff
  <2> QED
     BY <2>1, <2>2, <2>3, <2>4, <2>5
<1>7. CASE key_up
  <2>1. KeyTypeOK'
     BY <1>7 DEF key_up, KeyTypeOK
  <2>2. OneShortPerPress'
     BY <1>7 DEF key_up, KeyTypeOK, OneShortPerPress, DetectOff
  <2>3. LongWhileDown'
     BY <1>7 DEF key_up, KeyTypeOK, OneShortPerPress, LongWhileDown, DetectOff
  <2>4. NeverDeaf'
     BY <1>7 DEF key_up, KeyTypeOK, NeverDeaf, LongWhileDown, DetectOff
  <2>5. DetectOff'
     BY <1>7 DEF key_up, KeyTypeOK, NeverDeaf, DetectOff
  <2> QED
     BY <2>1, <2>2, <2>3, <2>4, <2>5
<1>8. CASE short_press
  <2>1. KeyTypeOK'
     BY <1>8 DEF short_press, KeyTypeOK
  <2>2. OneShortPerPress'
     BY <1>8 DEF short_press, KeyTypeOK, OneShortPerPress, DetectOff
  <2>3. LongWhileDown'
     BY <1>8 DEF short_press, KeyTypeOK, OneShortPerPress, LongWhileDown, DetectOff
  <2>4. NeverDeaf'
     BY <1>8 DEF short_press, KeyTypeOK, NeverDeaf, LongWhileDown, DetectOff
  <2>5. DetectOff'
     BY <1>8 DEF short_press, KeyTypeOK, NeverDeaf, DetectOff
  <2> QED
     BY <2>1, <2>2, <2>3, <2>4, <2>5
<1>9. CASE key_down
  <2>1. KeyTypeOK'
     BY <1>9 DEF key_down, KeyTypeOK
  <2>2. OneShortPerPress'
     BY <1>9 DEF key_down, KeyTypeOK, OneShortPerPress, DetectOff
  <2>3. LongWhileDown'
     BY <1>9 DEF key_down, KeyTypeOK, OneShortPerPress, LongWhileDown, DetectOff
  <2>4. NeverDeaf'
     BY <1>9 DEF key_down, KeyTypeOK, NeverDeaf, LongWhileDown, DetectOff
  <2>5. DetectOff'
     BY <1>9 DEF key_down, KeyTypeOK, NeverDeaf, DetectOff
  <2> QED
     BY <2>1, <2>2, <2>3, <2>4, <2>5
<1>10. CASE UNCHANGED keyVars
  <2>1. KeyTypeOK'
     BY <1>10 DEF keyVars, KeyTypeOK
  <2>2. OneShortPerPress'
     BY <1>10 DEF keyVars, KeyTypeOK, OneShortPerPress, DetectOff
  <2>3. LongWhileDown'
     BY <1>10 DEF keyVars, KeyTypeOK, OneShortPerPress, LongWhileDown, DetectOff
  <2>4. NeverDeaf'
     BY <1>10 DEF keyVars, KeyTypeOK, NeverDeaf, LongWhileDown, DetectOff
  <2>5. DetectOff'
     BY <1>10 DEF keyVars, KeyTypeOK, NeverDeaf, DetectOff
  <2> QED
     BY <2>1, <2>2, <2>3, <2>4, <2>5
<1> QED
  BY <1>1, <1>2, <1>3, <1>4, <1>5, <1>6, <1>7, <1>8, <1>9, <1>10
     DEF KeyNext, Driver

(* The driver's types and the four properties hold in every reachable      *)
(* state.                                                                  *)
THEOREM KeyInvariance == KeySpec => []KeyInv
BY InitKeyInv, NextKeyInv, PTL DEF KeySpec

(* key_50ms_cb calls short_press once for each press key_intr_handler saw. *)
THEOREM ShortsCounted == KeySpec => []OneShortPerPress
<1>1. KeyInv => OneShortPerPress
  BY DEF KeyInv
<1> QED
  BY <1>1, KeyInvariance, PTL

(* key_5s_cb calls long_press at most once per press, never for a key that *)
(* is up.                                                                  *)
THEOREM LongsCounted == KeySpec => []LongWhileDown
<1>1. KeyInv => LongWhileDown
  BY DEF KeyInv
<1> QED
  BY <1>1, KeyInvariance, PTL

(* No order of bounces and callbacks leaves the key without an edge or a   *)
(* timer to wait for.                                                      *)
THEOREM KeyNeverDeaf == KeySpec => []NeverDeaf
<1>1. KeyInv => NeverDeaf
  BY DEF KeyInv
<1> QED
  BY <1>1, KeyInvariance, PTL

-----------------------------------------------------------------------------
(* HC-SR04.                                                                *)

(* The events still to come: an enabled or pending interrupt may post one. *)
Credit == posts + (IF intType # "DISABLE" \/ pend THEN 1 ELSE 0) <= starts

(* The stages of a measurement on a clean line.                            *)
Rest      == /\ step = "idle" /\ echo = "low" /\ intType = "DISABLE" /\ ~pend
             /\ ResultExact
Starting  == /\ step \in {"enabled", "reset"} /\ echo = "low" /\ queue = 0
             /\ intType = "POSEDGE" /\ ~pend
             /\ step = "reset" => UltraSensSts = 0
Triggered == /\ step = "idle" /\ echo = "triggered" /\ queue = 0
             /\ intType = "POSEDGE" /\ ~pend /\ UltraSensSts = 0
Risen     == /\ step = "idle" /\ echo = "high" /\ queue = 0 /\ dur = 0
             /\ intType = "POSEDGE" /\ pend /\ UltraSensSts = 0
Timing    == /\ step = "idle" /\ echo = "high" /\ queue = 0
             /\ intType = "NEGEDGE" /\ ~pend /\ UltraSensSts = 1
             /\ clock = (TimerOffset + dur) % WIDTH
Fallen    == /\ step = "idle" /\ echo = "low" /\ queue = 0
             /\ intType = "NEGEDGE" /\ pend /\ UltraSensSts = 1
             /\ clock = (TimerOffset + last) % WIDTH

Stage == Rest \/ Starting \/ Triggered \/ Risen \/ Timing \/ Fallen

(* Only the development firmware has a state of its own.                   *)
OraiIdle == DEV \/ HcState = "IDLE"

HcInv == HcTypeOK /\ Credit /\ OraiIdle /\ (rough \/ Stage)

-----------------------------------------------------------------------------
(* Counting modulo the width.  *)

LEMMA ModRange ==
  ASSUME NEW w \in Nat \ {0}, NEW x \in Int
  PROVE  x % w \in 0..(w - 1)
  OBVIOUS

(* A counter read twice tells the time between the two, wrapped or not.    *)
LEMMA ElapsedExact ==
  ASSUME NEW t \in 0..(WIDTH - 1), NEW d \in 0..(WIDTH - 1)
  PROVE  Elapsed((t + d) % WIDTH, t) = d
  <1> WIDTH \in Nat \ {0, 1}
    BY HcAssumption
  <1>1. CASE t + d < WIDTH
    <2>1. (t + d) % WIDTH = t + d
      BY <1>1
    <2>2. (d + WIDTH) % WIDTH = d
      OBVIOUS
    <2>3. (t + d) + WIDTH - t = d + WIDTH
      OBVIOUS
    <2> QED
      BY <2>1, <2>2, <2>3 DEF Elapsed
  <1>2. CASE t + d >= WIDTH
    <2>1. (t + d) % WIDTH = t + d - WIDTH
      BY <1>2
    <2>2. d % WIDTH = d
      OBVIOUS
    <2>3. (t + d - WIDTH) + WIDTH - t = d
      OBVIOUS
    <2> QED
      BY <2>1, <2>2, <2>3 DEF Elapsed
  <1> QED
    BY <1>1, <1>2

(* One count later the time is one longer.                                 *)
LEMMA CountOn ==
  ASSUME NEW w \in Nat \ {0, 1}, NEW t \in 0..(w - 1), NEW d \in 0..(w - 2)
  PROVE  (((t + d) % w) + 1) % w = (t + (d + 1)) % w
  <1>1. CASE t + d < w
    <2>1. (t + d) % w = t + d
      BY <1>1
    <2> QED
      BY <2>1
  <1>2. CASE t + d >= w
    <2>1. (t + d) % w = t + d - w
      BY <1>2
    <2>2. (t + d - w + 1) % w = t + d - w + 1
      BY <1>2
    <2>3. (t + (d + 1)) % w = t + (d + 1) - w
      BY <1>2
    <2> QED
      BY <2>1, <2>2, <2>3
  <1> QED
    BY <1>1, <1>2

-----------------------------------------------------------------------------
(* Each step of drivers, sensor and counter keeps the types.               *)
LEMMA NextType ==
  ASSUME HcTypeOK, [HcNext]_hcVars
  PROVE  HcTypeOK'
  <1> USE DEF HcTypeOK
  <1>1. CASE Enable
    <2>1. starts' \in 0..MAX_STARTS
      BY HcAssumption, <1>1 DEF Enable, EnableFor
    <2> QED
      BY <1>1, <2>1 DEF Enable, EnableFor, envVars
  <1>2. CASE Reset
    BY <1>2 DEF Reset, ResetTo, envVars
  <1>3. CASE Trigger
    BY <1>3 DEF Trigger
  <1>4. CASE HcTask
    <2>1. queue' \in 0..QSIZE
      BY HcAssumption, <1>4 DEF HcTask
    <2> QED
      BY <1>4, <2>1 DEF HcTask, envVars
  <1>5. CASE FirstEdge
    <2>1. UltraSensSts' \in 0..2
      BY <1>5 DEF FirstEdge
    <2> QED
      BY <1>5, <2>1 DEF FirstEdge, envVars
  <1>6. CASE SecondEdge
    <2>1. Elapsed(clock, TimerOffset) \in 0..(WIDTH - 1)
      BY HcAssumption, ModRange DEF Elapsed
    <2>2. queue' \in 0..QSIZE /\ posts' \in Nat
      BY HcAssumption, <1>6 DEF SecondEdge, SecondEdgeThen
    <2>3. UltraSensSts' \in 0..2
      BY <1>6 DEF SecondEdge, SecondEdgeThen
    <2> QED
      BY <1>6, <2>1, <2>2, <2>3 DEF SecondEdge, SecondEdgeThen, envVars
  <1>7. CASE Rise
    BY HcAssumption, <1>7 DEF Rise
  <1>8. CASE Fall
    BY <1>8 DEF Fall
  <1>9. CASE Tick
    <2>1. (clock + 1) % WIDTH \in 0..(WIDTH - 1)
      BY HcAssumption, ModRange
    <2>2. dur' \in 0..(WIDTH - 1)
      BY HcAssumption, <1>9 DEF Tick
    <2> QED
      BY <1>9, <2>1, <2>2 DEF Tick, drvVars
  <1>10. CASE Glitch
    BY <1>10 DEF Glitch, envVars
  <1>11. CASE UNCHANGED hcVars
    BY <1>11 DEF hcVars, drvVars, envVars
  <1> QED
    BY <1>1, <1>2, <1>3, <1>4, <1>5, <1>6, <1>7, <1>8, <1>9, <1>10, <1>11
    DEF HcNext, HcCode, Isr, Sensor

(* Only a start earns an event and only the second edge spends it, for     *)
(* then the pin is disabled: no edge, echo or glitch, pends on it.         *)
LEMMA NextCredit ==
  ASSUME HcTypeOK, Credit, [HcNext]_hcVars
  PROVE  Credit'
  <1> USE DEF Credit
  <1> posts \in Nat /\ starts \in Nat
    BY DEF HcTypeOK
  <1>1. CASE Enable
    BY <1>1 DEF Enable, EnableFor
  <1>2. CASE Reset \/ Trigger \/ HcTask \/ Tick \/ UNCHANGED hcVars
    BY <1>2 DEF Reset, ResetTo, Trigger, HcTask, Tick, hcVars, drvVars
  <1>3. CASE FirstEdge
    BY <1>3 DEF FirstEdge
  <1>4. CASE SecondEdge
    BY <1>4 DEF SecondEdge, SecondEdgeThen
  <1>5. CASE Rise
    BY <1>5 DEF Rise
  <1>6. CASE Fall
    BY <1>6 DEF Fall
  <1>7. CASE Glitch
    BY <1>7 DEF Glitch
  <1> QED
    BY <1>1, <1>2, <1>3, <1>4, <1>5, <1>6, <1>7 DEF HcNext, HcCode, Isr, Sensor

(* The line stays as it is, and the orai_munka driver without a state.     *)
LEMMA NextRest ==
  ASSUME OraiIdle, [HcNext]_hcVars
  PROVE  rough' = rough /\ OraiIdle'
  BY DEF OraiIdle, HcNext, HcCode, Isr, Sensor, Enable, EnableFor, Reset,
         ResetTo, Trigger, HcTask, FirstEdge, SecondEdge, SecondEdgeThen, Rise,
         Fall, Tick, Glitch, hcVars, drvVars, envVars

(* An undisturbed measurement goes from stage to stage.                    *)
LEMMA NextStage ==
  ASSUME HcTypeOK, OraiIdle, ~rough, Stage, [HcNext]_hcVars
  PROVE  Stage'
  <1> USE DEF Stage
  <1>1. CASE Enable
    <2>1. Starting'
      BY <1>1 DEF Enable, EnableFor, Starting, envVars
    <2> QED
      BY <2>1
  <1>2. CASE Reset
    <2>1. Starting
      BY <1>2 DEF Reset, ResetTo, Rest, Triggered, Risen, Timing, Fallen
    <2>2. Starting'
      BY <1>2, <2>1 DEF Reset, ResetTo, Starting, envVars
    <2> QED
      BY <2>2
  <1>3. CASE Trigger
    <2>1. Starting
      BY <1>3 DEF Trigger, Rest, Triggered, Risen, Timing, Fallen
    <2>2. Triggered'
      BY <1>3, <2>1 DEF Trigger, Starting, Triggered
    <2> QED
      BY <2>2
  <1>4. CASE HcTask
    <2>1. Rest
      BY <1>4 DEF HcTask, Starting, Triggered, Risen, Timing, Fallen
    <2>2. Rest'
      BY <1>4, <2>1 DEF HcTask, Rest, ResultExact, envVars, HcTypeOK
    <2> QED
      BY <2>2
  <1>5. CASE FirstEdge
    <2>1. Risen
      BY <1>5 DEF FirstEdge, Rest, Starting, Triggered, Timing, Fallen
    <2>2. clock = (clock + 0) % WIDTH
      BY HcAssumption DEF HcTypeOK
    <2>3. Timing'
      BY <1>5, <2>1, <2>2 DEF FirstEdge, Risen, Timing, envVars
    <2> QED
      BY <2>3
  <1>6. CASE SecondEdge
    <2>1. Fallen
      BY <1>6 DEF SecondEdge, SecondEdgeThen, Rest, Starting, Triggered, Risen,
                  Timing
    <2>2. raw' = last
      BY <1>6, <2>1, ElapsedExact
      DEF SecondEdge, SecondEdgeThen, Fallen, HcTypeOK
    <2>3. ResultExact'
      <3>1. last' = last /\ raw' = last
        BY <1>6, <2>2 DEF SecondEdge, SecondEdgeThen, envVars
      <3>2. HcState' = IF DEV THEN "COMPL" ELSE HcState
        BY <1>6 DEF SecondEdge, SecondEdgeThen
      <3> QED
        BY <3>1, <3>2 DEF ResultExact, OraiIdle
    <2>4. Rest'
      BY <1>6, <2>1, <2>3 DEF SecondEdge, SecondEdgeThen, Fallen, Rest, envVars
    <2> QED
      BY <2>4
  <1>7. CASE Rise
    <2>1. Triggered
      BY <1>7 DEF Rise, Rest, Starting, Risen, Timing, Fallen
    <2>2. Risen'
      BY <1>7, <2>1 DEF Rise, Triggered, Risen
    <2> QED
      BY <2>2
  <1>8. CASE Fall
    <2>1. Timing
      BY <1>8 DEF Fall, Rest, Starting, Triggered, Risen, Fallen
    <2>2. Fallen'
      BY <1>8, <2>1 DEF Fall, Timing, Fallen
    <2> QED
      BY <2>2
  <1>9. CASE Tick
    <2>1. CASE Timing
      <3>1. dur \in 0..(WIDTH - 2)
        BY HcAssumption, <1>9, <2>1 DEF Tick, Timing, HcTypeOK
      <3>2. clock' = (TimerOffset + (dur + 1)) % WIDTH
        BY HcAssumption, <1>9, <2>1, <3>1, CountOn DEF Tick, Timing, HcTypeOK
      <3>3. Timing'
        BY <1>9, <2>1, <3>2 DEF Tick, Timing, drvVars
      <3> QED
        BY <3>3
    <2>2. CASE Rest
      BY <1>9, <2>2 DEF Tick, Rest, ResultExact, drvVars
    <2>3. CASE Starting
      BY <1>9, <2>3 DEF Tick, Starting, drvVars
    <2>4. CASE Triggered
      BY <1>9, <2>4 DEF Tick, Triggered, drvVars
    <2> QED
      BY <1>9, <2>1, <2>2, <2>3, <2>4 DEF Tick, Risen, Fallen
  <1>10. CASE UNCHANGED hcVars
    BY <1>10 DEF hcVars, drvVars, envVars, Rest, Starting, Triggered, Risen,
                 Timing, Fallen, ResultExact
  <1> QED
    BY <1>1, <1>2, <1>3, <1>4, <1>5, <1>6, <1>7, <1>8, <1>9, <1>10
    DEF HcNext, HcCode, Isr, Sensor, Glitch

(* The invariant the results below rest on.                                *)
THEOREM HcInvariance == HcSpec => []HcInv
  <1>1. HcInit => HcInv
    <2> SUFFICES ASSUME HcInit
                 PROVE  HcInv
      OBVIOUS
    <2>1. 0 \in 0..(WIDTH - 1) /\ 0 \in 0..QSIZE /\ 0 \in 0..MAX_STARTS
          /\ 0 \in 0..2 /\ 0 \in Nat
      BY HcAssumption
    <2>2. HcTypeOK
      BY <2>1 DEF HcInit, HcTypeOK
    <2>3. Credit
      BY DEF HcInit, Credit
    <2>4. Rest
      BY DEF HcInit, Rest, ResultExact
    <2> QED
      BY <2>2, <2>3, <2>4 DEF HcInv, Stage, HcInit, OraiIdle
  <1>2. HcInv /\ [HcNext]_hcVars => HcInv'
    BY NextType, NextCredit, NextRest, NextStage DEF HcInv
  <1> QED
    BY <1>1, <1>2, PTL DEF HcSpec

-----------------------------------------------------------------------------
(* Status, time stamp and result of both drivers stay in their ranges.     *)
THEOREM HcTypeCorrect == HcSpec => []HcTypeOK
  BY HcInvariance, PTL DEF HcInv

(* No measurement posts two events, on a line as rough as it may be and    *)
(* with starts that overlap: what disabling the pin after the second edge  *)
(* is for.                                                                 *)
THEOREM OneEventPerStart == HcSpec => []EventPerStart
  <1>1. HcInv => EventPerStart
    BY DEF HcInv, HcTypeOK, Credit, EventPerStart
  <1> QED
    BY <1>1, HcInvariance, PTL

(* With one measurement at a time the result that waits for the task is    *)
(* the length of the last pulse, wherever the counter wraps round.         *)
THEOREM ResultsExact == HcSpec => []ResultExact
  <1>1. HcInv => ResultExact
    BY DEF HcInv, HcTypeOK, Stage, Rest, Starting, Triggered, Risen, Timing,
           Fallen, ResultExact
  <1> QED
    BY <1>1, HcInvariance, PTL

(* With one measurement at a time no interrupt pends that the handler      *)
(* would not clear, although it is enabled before the status is reset.     *)
THEOREM StormFree == HcSpec => []NoStorm
  <1>1. HcInv => NoStorm
    BY DEF HcInv, Stage, Rest, Starting, Triggered, Risen, Timing, Fallen,
           NoStorm
  <1> QED
    BY <1>1, HcInvariance, PTL

-----------------------------------------------------------------------------
(* A frame of the DHT22. *)

(* What one wrong bit does to a byte.                                      *)
Offset == -128..128

(* The powers of two of the bits of a byte.                                *)
LEMMA Powers == /\ 2^0 = 1 /\ 2^1 = 2 /\ 2^2 = 4 /\ 2^3 = 8
                /\ 2^4 = 16 /\ 2^5 = 32 /\ 2^6 = 64 /\ 2^7 = 128
  BY SMT

(* Bit of a byte, bit by bit.                                              *)
LEMMA BitIs ==
  ASSUME NEW n \in Byte
  PROVE  /\ Bit(n, 7) = (n \div 128) % 2 /\ Bit(n, 6) = (n \div 64) % 2
         /\ Bit(n, 5) = (n \div 32) % 2 /\ Bit(n, 4) = (n \div 16) % 2
         /\ Bit(n, 3) = (n \div 8) % 2 /\ Bit(n, 2) = (n \div 4) % 2
         /\ Bit(n, 1) = (n \div 2) % 2 /\ Bit(n, 0) = (n \div 1) % 2
  BY Powers, SMT DEF Bit, Byte

(* A byte is the sum of its bits.                                          *)
LEMMA ByteOfBits ==
  ASSUME NEW n \in Byte
  PROVE  n = 128 * ((n \div 128) % 2) + 64 * ((n \div 64) % 2)
             + 32 * ((n \div 32) % 2) + 16 * ((n \div 16) % 2)
             + 8 * ((n \div 8) % 2) + 4 * ((n \div 4) % 2)
             + 2 * ((n \div 2) % 2) + ((n \div 1) % 2)
  BY SMTT(60) DEF Byte

(* A byte with one bit the other way round is a byte again, and another    *)
(* one.                                                                    *)
LEMMA FlippedBit ==
  ASSUME NEW n \in Byte, NEW k \in 0..7
  PROVE  /\ Bit(n, k) = 1 => n - 2^k \in Byte
         /\ Bit(n, k) # 1 => n + 2^k \in Byte
         /\ 2^k \in 1..128
  <1>1. k = 0 \/ k = 1 \/ k = 2 \/ k = 3 \/ k = 4 \/ k = 5 \/ k = 6 \/ k = 7
    OBVIOUS
  <1>2. CASE k = 0
    BY <1>2, Powers, BitIs, SMT DEF Byte
  <1>3. CASE k = 1
    BY <1>3, Powers, BitIs, SMT DEF Byte
  <1>4. CASE k = 2
    BY <1>4, Powers, BitIs, SMT DEF Byte
  <1>5. CASE k = 3
    BY <1>5, Powers, BitIs, SMT DEF Byte
  <1>6. CASE k = 4
    BY <1>6, Powers, BitIs, SMT DEF Byte
  <1>7. CASE k = 5
    BY <1>7, Powers, BitIs, SMT DEF Byte
  <1>8. CASE k = 6
    BY <1>8, Powers, BitIs, SMT DEF Byte
  <1>9. CASE k = 7
    BY <1>9, Powers, BitIs, SMT DEF Byte
  <1> QED
    BY <1>1, <1>2, <1>3, <1>4, <1>5, <1>6, <1>7, <1>8, <1>9

(* The invariant behind FrameExact and PrintedClose: each stored width is  *)
(* that of its edge, and what dhtProcess left is what it computes from     *)
(* them.                                                                   *)
FrameInv ==
  /\ hum \in HUMS /\ temp \in TEMPS /\ flip \in 0..40 /\ late \in 0..42
  /\ DhtResult \in Seq(Byte) /\ Len(DhtResult) <= 42
  /\ \A i \in 1..Len(DhtResult) : DhtResult[i] = Stored(i - 1)
  /\ parity \in {"none", "ok", "nok"}
  /\ DhtHum \in {1, -1} \X Word /\ DhtTemp \in {1, -1} \X Word
  /\ parity # "none" => /\ Len(DhtResult) = 42
                        /\ parity = "ok" <=> ParityOk
                        /\ DhtTemp = Signed(256 * Result(2) + Result(3))

(* The ranges Sent, Line and Pulse are computed from.                      *)
Words == hum \in Word /\ temp \in Word /\ flip \in 0..40 /\ late \in 0..42

(* The invariant gives the ranges that Sent, Line and Pulse are computed   *)
(* from.                                                                   *)
LEMMA WordsAre == FrameInv => Words
  <1> SUFFICES ASSUME FrameInv PROVE Words
    OBVIOUS
  <1>1. hum \in HUMS /\ temp \in TEMPS /\ flip \in 0..40 /\ late \in 0..42
    BY DEF FrameInv
  <1> QED
    BY <1>1, FrameAssumption DEF Words

(* A word is split into two bytes, and they make up the word again.        *)
LEMMA WordBytes ==
  ASSUME NEW w \in Word
  PROVE  w \div 256 \in Byte /\ w % 256 \in Byte /\ 256 * (w \div 256) + (w % 256) = w
  <1>1. w \in Nat /\ w < 256 * 256
    BY SMT DEF Word
  <1> QED
    BY <1>1, SMT DEF Byte

(* The sum the sensor and dhtProcess form needs more than a byte.          *)
LEMMA SumFour ==
  ASSUME NEW a \in Byte, NEW b \in Byte, NEW c \in Byte, NEW d \in Byte
  PROVE  a + b + c + d \in 0..1020
  BY SMT DEF Byte

(* The five bytes the sensor means to send.                                *)
LEMMA SentIs ==
  ASSUME Words
  PROVE  /\ DOMAIN Sent = 1..5
         /\ Sent[1] = hum \div 256 /\ Sent[2] = hum % 256
         /\ Sent[3] = temp \div 256 /\ Sent[4] = temp % 256
         /\ Sum(Sent) = Sent[1] + Sent[2] + Sent[3] + Sent[4]
         /\ Sent[5] = Sum(Sent) % 256
         /\ \A i \in 1..5 : Sent[i] \in Byte
  <1> DEFINE b == <<hum \div 256, hum % 256, temp \div 256, temp % 256>>
             a == Sum(b) % 256
  <1>0. \A w \in Word : w \div 256 \in Byte /\ w % 256 \in Byte
    BY WordBytes
  <1>1. /\ b[1] = hum \div 256 /\ b[2] = hum % 256 /\ b[3] = temp \div 256
        /\ b[4] = temp % 256
        /\ Sum(b) = b[1] + b[2] + b[3] + b[4] /\ Len(b) = 4
    BY DEF Sum
  <1>2. b[1] \in Byte /\ b[2] \in Byte /\ b[3] \in Byte /\ b[4] \in Byte
    BY <1>0, <1>1 DEF Words
  <1>3. b \in Seq(Int)
    BY <1>0 DEF Words, Byte
  <1>4. Sent = Append(b, a)
    BY DEF Sent
  <1> HIDE DEF b
  <1>5. Sum(b) \in Int /\ a \in Byte
    <2>1. b[1] + b[2] + b[3] + b[4] \in 0..1020
      <3>1. PICK c1 \in Byte : c1 = b[1]
        BY <1>2
      <3>2. PICK c2 \in Byte : c2 = b[2]
        BY <1>2
      <3>3. PICK c3 \in Byte : c3 = b[3]
        BY <1>2
      <3>4. PICK c4 \in Byte : c4 = b[4]
        BY <1>2
      <3>5. c1 + c2 + c3 + c4 \in 0..1020
        BY SumFour
      <3> QED
        BY <3>1, <3>2, <3>3, <3>4, <3>5, Zenon
    <2>2. Sum(b) \in 0..1020
      BY <2>1, <1>1
    <2> QED
      BY <2>2 DEF Byte
  <1> HIDE DEF a
  <1>6. DOMAIN Sent = 1..5 /\ Sent[1] = b[1] /\ Sent[2] = b[2] /\ Sent[3] = b[3]
        /\ Sent[4] = b[4] /\ Sent[5] = a
    <2>1. a \in Int
      BY <1>5 DEF Byte
    <2>2. /\ Append(b, a) \in Seq(Int) /\ Len(Append(b, a)) = Len(b) + 1
          /\ \A i \in 1..Len(b) : Append(b, a)[i] = b[i]
          /\ Append(b, a)[Len(b) + 1] = a
      BY <1>3, <2>1, AppendProperties
    <2> QED
      <3>1. Len(b) = 4 /\ 1 \in 1..4 /\ 2 \in 1..4 /\ 3 \in 1..4 /\ 4 \in 1..4
            /\ 4 + 1 = 5
        BY <1>1
      <3>2. Sent[1] = b[1] /\ Sent[2] = b[2] /\ Sent[3] = b[3] /\ Sent[4] = b[4]
            /\ Sent[5] = a
        BY <3>1, <1>4, <2>2, Zenon
      <3>3. Sent \in Seq(Int) /\ Len(Sent) = 5
        BY <3>1, <1>4, <2>2
      <3> QED
        BY <3>2, <3>3
  <1>7. Sum(Sent) = Sum(b)
    BY <1>1, <1>6 DEF Sum
  <1>8. \A i \in 1..5 : Sent[i] \in Byte
    <2>1. \A i \in 1..5 : i = 1 \/ i = 2 \/ i = 3 \/ i = 4 \/ i = 5
      OBVIOUS
    <2> QED
      BY <1>2, <1>5, <1>6, <2>1
  <1> QED
    BY <1>1, <1>6, <1>7, <1>8 DEF a

(* What is on the line differs from what was meant in the byte with the    *)
(* wrong bit, and there it differs.                                        *)
LEMMA LineIs ==
  ASSUME Words, NEW i \in 1..5
  PROVE  /\ Line[i] \in Byte
         /\ \E e \in Offset : Line[i] = Sent[i] + e /\ (e = 0 <=> flip \div 8 # i - 1)
  <1> DEFINE k == 7 - (flip % 8)
             w == 2^k
             s == Sent[i]
             one == Bit(s, k) = 1
             other == flip \div 8 = i - 1
  <1>1. s \in Byte
    BY SentIs
  <1>2. k \in 0..7
    BY DEF Words
  <1>3. Line[i] = IF ~other THEN s ELSE IF one THEN s - w ELSE s + w
    BY DEF Line
  <1> HIDE DEF k, s
  <1>4. (one => s - w \in Byte) /\ (~one => s + w \in Byte) /\ w \in 1..128
    <2>1. /\ Bit(s, k) = 1 => s - 2^k \in Byte
          /\ Bit(s, k) # 1 => s + 2^k \in Byte
          /\ 2^k \in 1..128
      BY <1>1, <1>2, FlippedBit, Zenon
    <2> QED
      BY <2>1, Zenon
  <1> HIDE DEF w, one, other
  <1>5. CASE ~other
    <2>1. Line[i] = s + 0
      BY <1>1, <1>3, <1>5 DEF Byte, Offset
    <2> QED
      BY <1>1, <1>3, <1>5, <2>1 DEF s, other, Byte, Offset
  <1>6. CASE other /\ one
    <2>1. Line[i] = s + (-w) /\ -w \in Offset /\ -w # 0 /\ Line[i] \in Byte
      BY <1>1, <1>3, <1>4, <1>6 DEF Byte, Offset
    <2> QED
      BY <1>6, <2>1 DEF s, other, Byte, Offset
  <1>7. CASE other /\ ~one
    <2>1. Line[i] = s + w /\ w \in Offset /\ w # 0 /\ Line[i] \in Byte
      BY <1>1, <1>3, <1>4, <1>7 DEF Byte, Offset
    <2> QED
      BY <1>7, <2>1 DEF s, other, Byte, Offset
  <1> QED
    BY <1>5, <1>6, <1>7

(* Bit is a bit.                                                           *)
LEMMA BitRange == \A n \in Byte, k \in 0..7 : Bit(n, k) \in 0..1
  <1> SUFFICES ASSUME NEW n \in Byte, NEW k \in 0..7 PROVE Bit(n, k) \in 0..1
    OBVIOUS
  <1>1. k = 0 \/ k = 1 \/ k = 2 \/ k = 3 \/ k = 4 \/ k = 5 \/ k = 6 \/ k = 7
    OBVIOUS
  <1>2. /\ Bit(n, 0) \in 0..1 /\ Bit(n, 1) \in 0..1 /\ Bit(n, 2) \in 0..1
        /\ Bit(n, 3) \in 0..1
        /\ Bit(n, 4) \in 0..1 /\ Bit(n, 5) \in 0..1 /\ Bit(n, 6) \in 0..1
        /\ Bit(n, 7) \in 0..1
    BY BitIs, SMT DEF Byte
  <1> QED
    BY <1>1, <1>2

(* A stored width is a uint8_t.                                            *)
LEMMA StoredByte ==
  ASSUME Words, NEW i \in 0..41
  PROVE  Stored(i) \in Byte
  <1>1. Pulse(i) \in Int
    BY FrameAssumption DEF Pulse
  <1>2. LATE \in Int
    BY FrameAssumption
  <1>3. Pulse(i) + (IF late = i THEN LATE ELSE 0) - (IF late = i - 1 THEN LATE ELSE 0) \in Int
    BY <1>1, <1>2
  <1> QED
    BY <1>3 DEF Stored, Byte

(* One width: dhtProcess's threshold of 100 tells ones from zeros, also if *)
(* the interrupt before or after it was late.                              *)
LEMMA StoredBit ==
  ASSUME Words, NEW b \in 0..4, NEW t \in 0..7
  PROVE  Stored(2 + 8 * b + (7 - t)) > 100 <=> Bit(Line[b + 1], t) = 1
  <1> DEFINE i == 2 + 8 * b + (7 - t)
  <1>1. i \in 2..41 /\ (i - 2) \div 8 = b /\ (i - 2) % 8 = 7 - t /\ 7 - (7 - t) = t
    OBVIOUS
  <1>2. Pulse(i) = IF Bit(Line[((i - 2) \div 8) + 1], 7 - ((i - 2) % 8)) = 1 THEN T1 ELSE T0
    BY <1>1 DEF Pulse
  <1>3. Pulse(i) = IF Bit(Line[b + 1], t) = 1 THEN T1 ELSE T0
    BY <1>1, <1>2
  <1> DEFINE p == Pulse(i)
             s == p + (IF late = i THEN LATE ELSE 0) - (IF late = i - 1 THEN LATE ELSE 0)
  <1>4. Stored(i) = s % 256
    BY DEF Stored
  <1>5. /\ T0 \in Nat /\ T1 \in Nat /\ LATE \in Nat /\ LATE < T0 /\ T0 + LATE <= 100
        /\ 100 < T1 - LATE /\ T1 + LATE < 256 /\ late \in Int /\ i \in Int
    <2>1. late \in Int
      BY DEF Words
    <2> QED
      BY FrameAssumption, <1>1, <2>1
  <1> HIDE DEF i
  <1>6. CASE Bit(Line[b + 1], t) = 1
    <2>1. p = T1
      BY <1>6, <1>3
    <2> HIDE DEF p
    <2>2. s \in 101..255
      BY <2>1, <1>5
    <2> QED
      BY <2>2, <1>4, <1>6 DEF i
  <1>7. CASE Bit(Line[b + 1], t) # 1
    <2>1. p = T0
      BY <1>7, <1>3
    <2> HIDE DEF p
    <2>2. s \in 0..100
      BY <2>1, <1>5
    <2> QED
      BY <2>2, <1>4, <1>7 DEF i
  <1> QED
    BY <1>6, <1>7

(* The loop of dhtProcess puts together the byte that was on the line.     *)
LEMMA ResultIs ==
  ASSUME FrameInv, Len(DhtResult) = 42, NEW b \in 0..4
  PROVE  Result(b) = Line[b + 1]
  <1> DEFINE n == Line[b + 1]
             bit(t) == IF DhtResult[FirstBit + 8 * b + (7 - t) + 1] > 100 THEN 2^t ELSE 0
  <1>1. Words /\ n \in Byte
    BY WordsAre, LineIs
  <1>2. ASSUME NEW t \in 0..7
        PROVE  bit(t) = IF Bit(n, t) = 1 THEN 2^t ELSE 0
    <2>1. FirstBit + 8 * b + (7 - t) + 1 \in 1..42
          /\ (FirstBit + 8 * b + (7 - t) + 1) - 1 = 2 + 8 * b + (7 - t)
      BY DEF FirstBit
    <2>2. DhtResult[FirstBit + 8 * b + (7 - t) + 1] = Stored(2 + 8 * b + (7 - t))
      <3>1. \A i \in 1..Len(DhtResult) : DhtResult[i] = Stored(i - 1)
        BY DEF FrameInv
      <3> QED
        BY <2>1, <3>1
    <2> QED
      BY <2>2, StoredBit, <1>1
  <1>3. Result(b) = bit(7) + bit(6) + bit(5) + bit(4) + bit(3) + bit(2) + bit(1) + bit(0)
    BY DEF Result
  <1> HIDE DEF bit
  <1>4. /\ bit(7) = IF Bit(n, 7) = 1 THEN 128 ELSE 0
        /\ bit(6) = IF Bit(n, 6) = 1 THEN 64 ELSE 0
        /\ bit(5) = IF Bit(n, 5) = 1 THEN 32 ELSE 0
        /\ bit(4) = IF Bit(n, 4) = 1 THEN 16 ELSE 0
        /\ bit(3) = IF Bit(n, 3) = 1 THEN 8 ELSE 0
        /\ bit(2) = IF Bit(n, 2) = 1 THEN 4 ELSE 0
        /\ bit(1) = IF Bit(n, 1) = 1 THEN 2 ELSE 0
        /\ bit(0) = IF Bit(n, 0) = 1 THEN 1 ELSE 0
    BY <1>2, Powers, SMT
  <1> HIDE DEF n
  <1>5. /\ bit(7) = 128 * Bit(n, 7) /\ bit(6) = 64 * Bit(n, 6)
        /\ bit(5) = 32 * Bit(n, 5)
        /\ bit(4) = 16 * Bit(n, 4) /\ bit(3) = 8 * Bit(n, 3) /\ bit(2) = 4 * Bit(n, 2)
        /\ bit(1) = 2 * Bit(n, 1) /\ bit(0) = Bit(n, 0)
    BY <1>4, <1>1, BitRange
  <1>6. n = 128 * Bit(n, 7) + 64 * Bit(n, 6) + 32 * Bit(n, 5) + 16 * Bit(n, 4)
            + 8 * Bit(n, 3) + 4 * Bit(n, 2) + 2 * Bit(n, 1) + Bit(n, 0)
    BY <1>1, BitIs, ByteOfBits
  <1> QED
    BY <1>3, <1>5, <1>6 DEF n

(* dhtProcess's parity check, in terms of the line: a wrong bit changes the*)
(* sum of the four bytes or their check byte by at most 128, never by a    *)
(* multiple of 256, and never both.                                        *)
LEMMA ParityIs ==
  ASSUME FrameInv, Len(DhtResult) = 42
  PROVE  ParityOk <=> flip = 40 /\ Sum(Sent) < 256
  <1>1. Words
    BY WordsAre
  <1>2. /\ Result(0) = Line[1] /\ Result(1) = Line[2] /\ Result(2) = Line[3]
        /\ Result(3) = Line[4] /\ Result(4) = Line[5]
    BY ResultIs
  <1>3. /\ Sent[1] \in Byte /\ Sent[2] \in Byte /\ Sent[3] \in Byte /\ Sent[4] \in Byte
        /\ Sum(Sent) = Sent[1] + Sent[2] + Sent[3] + Sent[4]
        /\ Sent[5] = Sum(Sent) % 256
    BY <1>1, SentIs
  <1> DEFINE f == flip \div 8
  <1>4. f \in 0..5 /\ (f = 5 <=> flip = 40)
    <2>1. flip \in 0..40
      BY <1>1 DEF Words
    <2> QED
      BY <2>1
  <1>5. \A i \in 1..5 : \E e \in Offset : Line[i] = Sent[i] + e /\ (e = 0 <=> f # i - 1)
    <2> SUFFICES ASSUME NEW i \in 1..5
                 PROVE  \E e \in Offset : Line[i] = Sent[i] + e /\ (e = 0 <=> f # i - 1)
      OBVIOUS
    <2> QED
      BY <1>1, LineIs
  <1> HIDE DEF f
  <1>5a. 1 \in 1..5 /\ 2 \in 1..5 /\ 3 \in 1..5 /\ 4 \in 1..5 /\ 5 \in 1..5
    OBVIOUS
  <1>6. PICK e1 \in Offset : Line[1] = Sent[1] + e1 /\ (e1 = 0 <=> f # 1 - 1)
    BY <1>5, <1>5a, Zenon
  <1>7. PICK e2 \in Offset : Line[2] = Sent[2] + e2 /\ (e2 = 0 <=> f # 2 - 1)
    BY <1>5, <1>5a, Zenon
  <1>8. PICK e3 \in Offset : Line[3] = Sent[3] + e3 /\ (e3 = 0 <=> f # 3 - 1)
    BY <1>5, <1>5a, Zenon
  <1>9. PICK e4 \in Offset : Line[4] = Sent[4] + e4 /\ (e4 = 0 <=> f # 4 - 1)
    BY <1>5, <1>5a, Zenon
  <1>10. PICK e5 \in Offset : Line[5] = Sent[5] + e5 /\ (e5 = 0 <=> f # 5 - 1)
    BY <1>5, <1>5a, Zenon
  <1>11. PICK s1 \in Byte : s1 = Sent[1]
    BY <1>3
  <1>12. PICK s2 \in Byte : s2 = Sent[2]
    BY <1>3
  <1>13. PICK s3 \in Byte : s3 = Sent[3]
    BY <1>3
  <1>14. PICK s4 \in Byte : s4 = Sent[4]
    BY <1>3
  <1>21. Sum(Sent) = s1 + s2 + s3 + s4
    BY <1>3, <1>11, <1>12, <1>13, <1>14, Zenon
  <1>15. PICK s5 \in Byte : s5 = Sent[5] /\ s5 = (s1 + s2 + s3 + s4) % 256
    <2>1. Sent[5] = (s1 + s2 + s3 + s4) % 256
      BY <1>3, <1>21, Zenon
    <2>2. (s1 + s2 + s3 + s4) % 256 \in Byte
      BY SMT DEF Byte
    <2> QED
      BY <2>1, <2>2, Zenon
  <1>22. PICK q \in 0..3 : s1 + s2 + s3 + s4 = 256 * q + s5
    <2>1. (s1 + s2 + s3 + s4) \div 256 \in 0..3
      BY SMT DEF Byte
    <2>2. s1 + s2 + s3 + s4 = 256 * ((s1 + s2 + s3 + s4) \div 256) + s5
      BY <1>15, SMT DEF Byte
    <2> QED
      BY <2>1, <2>2, Zenon
  <1>16. /\ (e1 = 0 <=> f # 0) /\ (e2 = 0 <=> f # 1) /\ (e3 = 0 <=> f # 2)
         /\ (e4 = 0 <=> f # 3)
         /\ (e5 = 0 <=> f # 4)
    BY <1>4, <1>6, <1>7, <1>8, <1>9, <1>10
  <1>17. (s1 + e1) + (s2 + e2) + (s3 + e3) + (s4 + e4) = s5 + e5 <=>
           /\ e1 = 0 /\ e2 = 0 /\ e3 = 0 /\ e4 = 0 /\ e5 = 0
           /\ s1 + s2 + s3 + s4 < 256
    BY <1>16, <1>22, SMT DEF Byte, Offset
  <1>18. e1 = 0 /\ e2 = 0 /\ e3 = 0 /\ e4 = 0 /\ e5 = 0 <=> flip = 40
    BY <1>4, <1>16
  <1>19. Line[1] = s1 + e1 /\ Line[2] = s2 + e2 /\ Line[3] = s3 + e3
         /\ Line[4] = s4 + e4 /\ Line[5] = s5 + e5
    BY <1>6, <1>7, <1>8, <1>9, <1>10, <1>11, <1>12, <1>13, <1>14, <1>15
  <1>20. ParityOk <=> (s1 + e1) + (s2 + e2) + (s3 + e3) + (s4 + e4) = s5 + e5
    BY <1>2, <1>19, Zenon DEF ParityOk
  <1> QED
    BY <1>17, <1>18, <1>20, <1>21, Zenon

(* A number doubled from below 2b to b or beyond meets b..2b-1.            *)
LEMMA Doubling ==
  ASSUME NEW b \in Nat, NEW a12 \in Nat, NEW a13 \in Nat, NEW a14 \in Nat,
         NEW a15 \in Nat, NEW a16 \in Nat, NEW a17 \in Nat, NEW a18 \in Nat,
         NEW a19 \in Nat, NEW a20 \in Nat, NEW a21 \in Nat, NEW a22 \in Nat,
         NEW a23 \in Nat, NEW a24 \in Nat, NEW a25 \in Nat, NEW a26 \in Nat,
         NEW a27 \in Nat,
         a13 = 2 * a12, a14 = 2 * a13, a15 = 2 * a14, a16 = 2 * a15,
         a17 = 2 * a16, a18 = 2 * a17, a19 = 2 * a18, a20 = 2 * a19,
         a21 = 2 * a20, a22 = 2 * a21, a23 = 2 * a22, a24 = 2 * a23,
         a25 = 2 * a24, a26 = 2 * a25, a27 = 2 * a26,
         a12 < 2 * b, b <= a27
  PROVE  (b <= a12 /\ a12 < 2 * b) \/ (b <= a13 /\ a13 < 2 * b)
         \/ (b <= a14 /\ a14 < 2 * b) \/ (b <= a15 /\ a15 < 2 * b)
         \/ (b <= a16 /\ a16 < 2 * b) \/ (b <= a17 /\ a17 < 2 * b)
         \/ (b <= a18 /\ a18 < 2 * b) \/ (b <= a19 /\ a19 < 2 * b)
         \/ (b <= a20 /\ a20 < 2 * b) \/ (b <= a21 /\ a21 < 2 * b)
         \/ (b <= a22 /\ a22 < 2 * b) \/ (b <= a23 /\ a23 < 2 * b)
         \/ (b <= a24 /\ a24 < 2 * b) \/ (b <= a25 /\ a25 < 2 * b)
         \/ (b <= a26 /\ a26 < 2 * b) \/ (b <= a27 /\ a27 < 2 * b)
  BY SMT

(* Quotient and remainder of a number that is given by them.               *)
LEMMA DivExact ==
  ASSUME NEW w \in Nat, NEW K \in Nat, K > 0, NEW e \in Nat, e < K
  PROVE  (w * K + e) \div K = w /\ (w * K + e) % K = e
  BY SMT

(* Rounding a multiple of 1/10.                                            *)
LEMMA RoundTen ==
  ASSUME NEW n \in Nat
  PROVE  Round(n, 10) \in Nat /\ 10 * Round(n, 10) - n \in -5..5
  BY SMT DEF Round

(* Rounding an integer.                                                    *)
LEMMA RoundOne ==
  ASSUME NEW n \in Nat
  PROVE  Round(n, 1) = n
  <1>1. n \div 1 = n /\ n % 1 = 0
    BY SMT
  <1> QED
    BY <1>1, SMT DEF Round

(* Every 15-bit number of tenths has a power of two that normalises it.    *)
LEMMA ScaleIs ==
  ASSUME NEW n \in Nat, n > 0, n < 128 * 256
  PROVE  /\ Scale(n, 10) \in 0..30
         /\ 2^23 * 10 <= n * 2^Scale(n, 10) /\ n * 2^Scale(n, 10) < 2^24 * 10
  <1> DEFINE b == 2^23 * 10
             c == 2^24 * 10
             P(k) == b <= n * 2^k /\ n * 2^k < c
  <1>1. \E k \in 0..30 : P(k)
    <2> DEFINE a12 == n * 2^12
               a13 == n * 2^13
               a14 == n * 2^14
               a15 == n * 2^15
               a16 == n * 2^16
               a17 == n * 2^17
               a18 == n * 2^18
               a19 == n * 2^19
               a20 == n * 2^20
               a21 == n * 2^21
               a22 == n * 2^22
               a23 == n * 2^23
               a24 == n * 2^24
               a25 == n * 2^25
               a26 == n * 2^26
               a27 == n * 2^27
    <2>1. b \in Nat /\ c = 2 * b
      BY SMT
    <2>2. a12 \in Nat /\ a13 \in Nat /\ a14 \in Nat /\ a15 \in Nat
          /\ a16 \in Nat /\ a17 \in Nat /\ a18 \in Nat /\ a19 \in Nat
          /\ a20 \in Nat /\ a21 \in Nat /\ a22 \in Nat /\ a23 \in Nat
          /\ a24 \in Nat /\ a25 \in Nat /\ a26 \in Nat /\ a27 \in Nat
      BY SMT
    <2>3. a13 = 2 * a12 /\ a14 = 2 * a13 /\ a15 = 2 * a14 /\ a16 = 2 * a15
          /\ a17 = 2 * a16 /\ a18 = 2 * a17 /\ a19 = 2 * a18 /\ a20 = 2 * a19
          /\ a21 = 2 * a20 /\ a22 = 2 * a21 /\ a23 = 2 * a22 /\ a24 = 2 * a23
          /\ a25 = 2 * a24 /\ a26 = 2 * a25 /\ a27 = 2 * a26
      BY SMT
    <2>4. a12 < 2 * b /\ b <= a27
      BY SMT
    <2>5. (b <= a12 /\ a12 < c) \/ (b <= a13 /\ a13 < c)
          \/ (b <= a14 /\ a14 < c) \/ (b <= a15 /\ a15 < c)
          \/ (b <= a16 /\ a16 < c) \/ (b <= a17 /\ a17 < c)
          \/ (b <= a18 /\ a18 < c) \/ (b <= a19 /\ a19 < c)
          \/ (b <= a20 /\ a20 < c) \/ (b <= a21 /\ a21 < c)
          \/ (b <= a22 /\ a22 < c) \/ (b <= a23 /\ a23 < c)
          \/ (b <= a24 /\ a24 < c) \/ (b <= a25 /\ a25 < c)
          \/ (b <= a26 /\ a26 < c) \/ (b <= a27 /\ a27 < c)
      <3> HIDE DEF b, c, a12, a13, a14, a15, a16, a17, a18, a19, a20, a21, a22,
                   a23, a24, a25, a26, a27
      <3> QED
        BY <2>1, <2>2, <2>3, <2>4, Doubling
    <2>6. P(12) \/ P(13) \/ P(14) \/ P(15) \/ P(16) \/ P(17) \/ P(18) \/ P(19)
          \/ P(20) \/ P(21) \/ P(22) \/ P(23) \/ P(24) \/ P(25) \/ P(26)
          \/ P(27)
      <3> HIDE DEF b, c
      <3> QED
        BY <2>5, Zenon
    <2>7. 12 \in 0..30 /\ 13 \in 0..30 /\ 14 \in 0..30 /\ 15 \in 0..30
          /\ 16 \in 0..30 /\ 17 \in 0..30 /\ 18 \in 0..30 /\ 19 \in 0..30
          /\ 20 \in 0..30 /\ 21 \in 0..30 /\ 22 \in 0..30 /\ 23 \in 0..30
          /\ 24 \in 0..30 /\ 25 \in 0..30 /\ 26 \in 0..30 /\ 27 \in 0..30
      OBVIOUS
    <2> HIDE DEF P
    <2> QED
      BY <2>6, <2>7, Zenon
  <1>2. Scale(n, 10) = CHOOSE k \in 0..30 : P(k)
    BY Zenon DEF Scale
  <1> HIDE DEF P
  <1>3. Scale(n, 10) \in 0..30 /\ P(Scale(n, 10))
    BY <1>1, <1>2, Zenon
  <1> QED
    BY <1>3, Zenon DEF P

(* Denominators of the floats that are printed, and those that are not.    *)
Unit == {m \in Nat : m >= 4096}
Short == 0..2048

(* The power of two of a float.                                            *)
LEMMA UnitIs ==
  ASSUME NEW k \in 0..30
  PROVE  2^k \in Unit \/ 2^k \in Short
  <1>1. CASE k < 12
    <2>1. k = 0 \/ k = 1 \/ k = 2 \/ k = 3 \/ k = 4 \/ k = 5 \/ k = 6 \/ k = 7
          \/ k = 8 \/ k = 9 \/ k = 10 \/ k = 11
      BY <1>1
    <2>2. 2^0 \in Short /\ 2^1 \in Short /\ 2^2 \in Short
          /\ 2^3 \in Short /\ 2^4 \in Short /\ 2^5 \in Short
          /\ 2^6 \in Short /\ 2^7 \in Short /\ 2^8 \in Short
          /\ 2^9 \in Short /\ 2^10 \in Short /\ 2^11 \in Short
      BY SMT DEF Short
    <2> QED
      BY <2>1, <2>2, Zenon
  <1>2. CASE k >= 12
    <2>1. k = 12 \/ k = 13 \/ k = 14 \/ k = 15 \/ k = 16 \/ k = 17 \/ k = 18
          \/ k = 19 \/ k = 20 \/ k = 21 \/ k = 22 \/ k = 23 \/ k = 24
          \/ k = 25 \/ k = 26 \/ k = 27 \/ k = 28 \/ k = 29 \/ k = 30
      BY <1>2
    <2>2. 2^12 \in Unit /\ 2^13 \in Unit /\ 2^14 \in Unit /\ 2^15 \in Unit
          /\ 2^16 \in Unit /\ 2^17 \in Unit /\ 2^18 \in Unit /\ 2^19 \in Unit
          /\ 2^20 \in Unit /\ 2^21 \in Unit /\ 2^22 \in Unit /\ 2^23 \in Unit
          /\ 2^24 \in Unit /\ 2^25 \in Unit /\ 2^26 \in Unit /\ 2^27 \in Unit
          /\ 2^28 \in Unit /\ 2^29 \in Unit /\ 2^30 \in Unit
      BY SMT DEF Unit
    <2> QED
      BY <2>1, <2>2, Zenon
  <1> QED
    BY <1>1, <1>2

(* The spacing of floats of 25 to 31 bits.                                 *)
Steps == {2, 4, 8, 16, 32, 64, 128}

(* The spacing of floats of more than 24 bits.                             *)
LEMMA StepIs ==
  ASSUME NEW k \in 1..7
  PROVE  2^k \in Steps
  <1>1. k = 1 \/ k = 2 \/ k = 3 \/ k = 4 \/ k = 5 \/ k = 6 \/ k = 7
    OBVIOUS
  <1>2. /\ 2 \in Steps /\ 4 \in Steps /\ 8 \in Steps /\ 16 \in Steps
        /\ 32 \in Steps /\ 64 \in Steps /\ 128 \in Steps
    BY DEF Steps
  <1>3. /\ 2^1 \in Steps /\ 2^2 \in Steps /\ 2^3 \in Steps /\ 2^4 \in Steps
        /\ 2^5 \in Steps /\ 2^6 \in Steps /\ 2^7 \in Steps
    BY <1>2, SMT
  <1> QED
    BY <1>1, <1>3, Zenon

(* Rounding to a multiple of that spacing is at most 64 off.               *)
LEMMA RoundStep ==
  ASSUME NEW n \in Nat, NEW s \in Steps
  PROVE  Round(n, s) \in Nat /\ Round(n, s) * s - n \in -64..64 /\ s \in Nat
  <1>1. CASE s = 2
    BY <1>1, SMT DEF Round
  <1>2. CASE s = 4
    BY <1>2, SMT DEF Round
  <1>3. CASE s = 8
    BY <1>3, SMT DEF Round
  <1>4. CASE s = 16
    BY <1>4, SMT DEF Round
  <1>5. CASE s = 32
    BY <1>5, SMT DEF Round
  <1>6. CASE s = 64
    BY <1>6, SMT DEF Round
  <1>7. CASE s = 128
    BY <1>7, SMT DEF Round
  <1>8. s = 2 \/ s = 4 \/ s = 8 \/ s = 16 \/ s = 32 \/ s = 64 \/ s = 128
    BY DEF Steps
  <1> QED
    BY <1>8, <1>1, <1>2, <1>3, <1>4, <1>5, <1>6, <1>7

(* The product of a mantissa by 100, rounded to 24 bits.                   *)
LEMMA ProductIs ==
  ASSUME NEW f \in Nat, f <= 2^24
  PROVE  /\ Product(f) \in Nat /\ Product(f) - 100 * f \in -64..64
         /\ f = 0 => Product(f) = 0
  <1> DEFINE p == f * 100
             In(s) == p \div s \in 2^23..2^24-1
             j == CHOOSE i \in 1..7 : In(2^i)
  <1>1. p \in Nat /\ p < 128 * 2^24 /\ p = 100 * f
    BY SMT
  <1>2. Product(f) = Round(p, IF p < 2^24 THEN 1 ELSE 2^j) * (IF p < 2^24 THEN 1 ELSE 2^j)
    BY Zenon DEF Product
  <1>3. CASE p < 2^24
    <2>1. Product(f) = Round(p, 1) * 1
      BY <1>2, <1>3
    <2> HIDE DEF p
    <2>2. Round(p, 1) = p
      BY <1>1, RoundOne
    <2> QED
      BY <1>1, <2>1, <2>2
  <1>4. CASE ~(p < 2^24)
    <2>1. 2^j \in Steps
      <3>1. In(2) \/ In(4) \/ In(8) \/ In(16) \/ In(32) \/ In(64) \/ In(128)
        <4> HIDE DEF p
        <4> QED
          BY <1>1, <1>4, SMT
      <3>2. /\ 1 \in 1..7 /\ 2 \in 1..7 /\ 3 \in 1..7 /\ 4 \in 1..7
            /\ 5 \in 1..7 /\ 6 \in 1..7 /\ 7 \in 1..7
        OBVIOUS
      <3> HIDE DEF In
      <3>3. \E i \in 1..7 : In(2^i)
        BY <3>1, <3>2, Powers, Zenon
      <3>4. j \in 1..7
        BY <3>3
      <3> HIDE DEF j
      <3> QED
        BY <3>4, StepIs, Zenon
    <2>2. Product(f) = Round(p, 2^j) * 2^j
      BY <1>2, <1>4
    <2> DEFINE s == 2^j
    <2>9. s \in Steps
      BY <2>1, Zenon
    <2>5. Product(f) = Round(p, s) * s
      BY <2>2, Zenon
    <2> HIDE DEF p, s, j, In
    <2>3. Round(p, s) \in Nat /\ Round(p, s) * s - p \in -64..64
      BY <1>1, <2>9, RoundStep, Zenon
    <2>4. s \in Nat /\ p > 0
      BY <1>1, <1>4, <2>9 DEF Steps
    <2>6. Round(p, s) * s \in Nat
      BY <2>3, <2>4
    <2>7. Product(f) \in Nat /\ Product(f) - 100 * f \in -64..64
      BY <1>1, <2>3, <2>5, <2>6, Zenon
    <2>8. f # 0
      BY <1>1, <2>4
    <2> QED
      BY <2>7, <2>8
  <1> QED
    BY <1>3, <1>4

(* The mantissa m of n = 10 * w + d tenths, in units of 1/K: w is its whole*)
(* part, and the rest is the mantissa of the tenths.                       *)
LEMMA SplitMantissa ==
  ASSUME NEW w \in Nat, NEW d \in 0..9, NEW K \in Unit,
         NEW m \in Nat, 10 * m - (10 * w + d) * K \in -5..5
  PROVE  /\ m - w * K \in Nat /\ m - w * K < K /\ m - w * K <= m
         /\ 10 * (m - w * K) - d * K \in -5..5
         /\ d = 0 => m - w * K = 0
  <1>0. K \in Nat /\ K >= 4096
    BY DEF Unit
  <1>1. PICK x \in Nat : x = w * K
    BY <1>0, SMT
  <1>2. PICK y \in Nat : y = d * K
    BY <1>0, SMT
  <1>3. (10 * w + d) * K = 10 * x + y
    BY <1>0, <1>1, <1>2, SMT
  <1>4. y <= 9 * K /\ (d = 0 => y = 0)
    BY <1>0, <1>2, SMT
  <1>5. 10 * m - (10 * x + y) \in -5..5
    BY <1>3
  <1>6. /\ m - x \in Nat /\ m - x < K /\ m - x <= m /\ 10 * (m - x) - y \in -5..5
        /\ d = 0 => m - x = 0
    BY <1>0, <1>4, <1>5, SMT
  <1> QED
    BY <1>1, <1>2, <1>6

(* A product a little off is truncated to the hundredths or to one less.   *)
LEMMA Truncated ==
  ASSUME NEW d \in 0..9, NEW K \in Unit, NEW e \in Nat, NEW q \in Nat,
         10 * e - d * K \in -5..5, q - 100 * e \in -64..64,
         d = 0 => q = 0
  PROVE  q \div K \in Nat /\ 10 * d - (q \div K) \in {0, 1}
  <1>0. K \in Nat /\ K >= 4096
    BY DEF Unit
  <1>1. CASE d = 0
    <2>1. q \div K = 0
      BY <1>0, <1>1, SMT
    <2> QED
      BY <1>1, <2>1
  <1>2. CASE d # 0
    <2>1. PICK z \in Nat : z = (10 * d) * K
      BY <1>0, SMT
    <2>2. z = 10 * (d * K)
      BY <1>0, <2>1, SMT
    <2>3. PICK y \in Nat : y = d * K
      BY <1>0, SMT
    <2>4. q - z \in -114..114
      BY <1>0, <2>2, <2>3
    <2>5. PICK r \in -114..114 : r = q - z
      BY <2>4
    <2>6. CASE r >= 0
      <3>1. q = (10 * d) * K + r
        BY <1>0, <2>1, <2>5
      <3>2. q \div K = 10 * d
        BY <1>0, <2>6, <3>1, DivExact
      <3> QED
        BY <3>2
    <2>7. CASE r < 0
      <3>1. (10 * d - 1) * K = z - K
        BY <1>0, <2>1, SMT
      <3>2. q = (10 * d - 1) * K + (K + r)
        BY <1>0, <2>1, <2>5, <3>1
      <3>3. 10 * d - 1 \in Nat /\ K + r \in Nat /\ K + r < K
        BY <1>0, <1>2, <2>7
      <3>4. q \div K = 10 * d - 1
        BY <1>0, <3>2, <3>3, DivExact
      <3> QED
        BY <3>3, <3>4
    <2> QED
      BY <2>6, <2>7
  <1> QED
    BY <1>1, <1>2

(* What mainTask prints of n tenths is their value or a hundredth less.    *)
LEMMA PrintedIs ==
  ASSUME NEW n \in Nat, n < SIGN
  PROVE  10 * n - (100 * Printed(n)[1] + Printed(n)[2]) \in {0, 1}
  <1>0. n < 128 * 256
    BY DEF SIGN
  <1>1. CASE n = 0
    <2>1. Printed(n) = <<0, 0>>
      BY <1>1 DEF Printed
    <2> QED
      BY <1>1, <2>1
  <1>2. CASE n # 0
    <2> DEFINE k == Scale(n, 10)
               K == 2^k
               m == Round(n * K, 10)
               w == n \div 10
               d == n % 10
               e == m - w * K
    <2>1. k \in 0..30 /\ 2^23 * 10 <= n * K /\ n * K < 2^24 * 10
      BY <1>0, <1>2, ScaleIs
    <2>2. /\ Printed(n) = <<m \div K, Product(m % K) \div K>>
      BY <1>2 DEF Printed
    <2>3. w \in Nat /\ d \in 0..9 /\ n = 10 * w + d
      BY SMT
    <2>4. K \in Unit
      <3>1. K \in Unit \/ K \in Short
        BY <2>1, UnitIs, Zenon
      <3> HIDE DEF K
      <3>2. ASSUME K \in Short PROVE FALSE
        <4>1. K \in Nat /\ K <= 2048
          BY <3>2 DEF Short
        <4>2. n * K <= n * 2048
          BY <4>1, SMT
        <4>3. n * K \in Nat /\ n * 2048 \in Nat /\ n * 2048 <= (128 * 256) * 2048
          BY <1>0, <4>1, SMT
        <4> QED
          BY <2>1, <4>2, <4>3, SMT
      <3> QED
        BY <3>1, <3>2
    <2> HIDE DEF K, w, d, k
    <2>16. K \in Nat /\ K > 0
      BY <2>4 DEF Unit
    <2>5. m \in Nat /\ 10 * m - n * K \in -5..5
      BY <2>16, RoundTen
    <2> HIDE DEF m
    <2>6. m <= 2^24
      <3>1. PICK x \in Nat : x = n * K
        BY <2>16
      <3> QED
        BY <2>1, <2>5, <3>1, SMT
    <2>7. /\ e \in Nat /\ e < K /\ e <= m /\ 10 * e - d * K \in -5..5
          /\ (d = 0 => e = 0)
      <3>1. 10 * m - (10 * w + d) * K \in -5..5
        BY <2>3, <2>5
      <3> QED
        BY <2>3, <2>4, <2>5, <3>1, SplitMantissa
    <2>8. m = w * K + e
      <3>1. w * K \in Nat
        BY <2>3, <2>16
      <3> QED
        BY <2>5, <3>1
    <2> HIDE DEF e
    <2>9. m \div K = w /\ m % K = e
      BY <2>3, <2>16, <2>7, <2>8, DivExact, Zenon
    <2>10. /\ Product(e) \in Nat /\ Product(e) - 100 * e \in -64..64
           /\ e = 0 => Product(e) = 0
      <3>1. e <= 2^24
        BY <2>5, <2>6, <2>7, SMT
      <3> QED
        BY <2>7, <3>1, ProductIs
    <2>11. Product(e) \div K \in Nat /\ 10 * d - (Product(e) \div K) \in {0, 1}
      <3>1. PICK q \in Nat : q = Product(e)
        BY <2>10
      <3>3. d = 0 => q = 0
        BY <2>7, <2>10, <3>1
      <3>2. q \div K \in Nat /\ 10 * d - (q \div K) \in {0, 1}
        BY <2>3, <2>4, <2>7, <2>10, <3>1, <3>3, Truncated, Zenon
      <3> QED
        BY <3>1, <3>2
    <2>12. Printed(n)[1] = w /\ Printed(n)[2] = Product(e) \div K
      BY <2>2, <2>9
    <2>13. PICK g \in Nat : g = Product(e) \div K
      BY <2>11
    <2>14. 10 * n - (100 * w + g) \in {0, 1}
      BY <2>3, <2>11, <2>13
    <2> QED
      BY <2>12, <2>13, <2>14
  <1> QED
    BY <1>1, <1>2

(* Numbers below 2^16 are words.                                           *)
LEMMA WordIs ==
  ASSUME NEW n \in Nat, n < 256 * 256
  PROVE  n \in Word
  <1> DEFINE top == 256 * 256 - 1
  <1>1. top \in Nat /\ n <= top
    BY SMT
  <1>2. Word = 0..top
    BY DEF Word
  <1> HIDE DEF top
  <1>3. n \in 0..top
    BY <1>1
  <1> QED
    BY <1>2, <1>3

(* dhtProcess's sign and magnitude of a word.                              *)
LEMMA SignedIs ==
  ASSUME NEW u \in Word
  PROVE  /\ Signed(u) \in {1, -1} \X Word
         /\ Signed(u)[1] = -1 <=> u >= SIGN
         /\ Signed(u)[2] = (IF u >= SIGN THEN u - SIGN ELSE u)
         /\ Signed(u)[2] \in Nat /\ Signed(u)[2] < SIGN
  <1>1. CASE u >= SIGN
    <2>1. Signed(u) = <<-1, u - SIGN>>
      BY <1>1 DEF Signed
    <2>2. u - SIGN \in Nat /\ u - SIGN < SIGN /\ u - SIGN \in Word
      <3>1. u \in Nat /\ u < 256 * 256
        BY SMT DEF Word
      <3>2. u - 128 * 256 \in Nat /\ u - 128 * 256 < 128 * 256
        BY <1>1, <3>1, SMT DEF SIGN
      <3>3. u - 128 * 256 \in Word
        BY <3>2, WordIs, SMT
      <3> QED
        BY <3>2, <3>3 DEF SIGN
    <2> QED
      BY <1>1, <2>1, <2>2
  <1>2. CASE ~(u >= SIGN)
    <2>1. Signed(u) = <<1, u>>
      BY <1>2 DEF Signed
    <2>2. u \in Nat /\ u < SIGN
      BY <1>2, SMT DEF SIGN, Word
    <2> QED
      BY <1>2, <2>1, <2>2
  <1> QED
    BY <1>1, <1>2

(* The invariant holds before the first edge.                              *)
LEMMA FrameInitInv == FrameInit => FrameInv
  <1> SUFFICES ASSUME FrameInit
               PROVE  FrameInv
    OBVIOUS
  <1>1. DhtResult = <<>> /\ parity = "none" /\ DhtHum = <<1, 0>> /\ DhtTemp = <<1, 0>>
    BY DEF FrameInit
  <1>2. DhtResult \in Seq(Byte) /\ Len(DhtResult) = 0
    BY <1>1
  <1>3. 0 \in Word
    BY DEF Word
  <1>4. DhtHum \in {1, -1} \X Word /\ DhtTemp \in {1, -1} \X Word
    BY <1>1, <1>3
  <1> QED
    BY <1>1, <1>2, <1>4 DEF FrameInit, FrameInv

(* dhtGpioCbk stores one more width and leaves the others alone.           *)
LEMMA StoreInv == FrameInv /\ dhtGpioCbkStore => FrameInv'
  <1> SUFFICES ASSUME FrameInv, dhtGpioCbkStore
               PROVE  FrameInv'
    OBVIOUS
  <1> DEFINE n == Len(DhtResult)
             v == Stored(n)
  <1>1. /\ n < 42 /\ DhtResult' = Append(DhtResult, v)
        /\ UNCHANGED <<hum, temp, flip, late, parity, DhtHum, DhtTemp>>
    BY DEF dhtGpioCbkStore
  <1>2. DhtResult \in Seq(Byte) /\ \A i \in 1..n : DhtResult[i] = Stored(i - 1)
    BY DEF FrameInv
  <1>3. v \in Byte
    <2>1. n \in Nat
      BY <1>2
    <2>2. n < 42
      BY <1>1
    <2> HIDE DEF n
    <2>3. n \in 0..41
      BY <2>1, <2>2
    <2> QED
      BY <2>3, StoredByte, WordsAre DEF v
  <1>4. \A i \in Int : Stored(i)' = Stored(i)
    BY <1>1 DEF Stored, Pulse, Line, Sent, Sum, Bit
  <1> HIDE DEF v
  <1>5. /\ DhtResult' \in Seq(Byte) /\ Len(DhtResult') = n + 1
        /\ \A i \in 1..n : DhtResult'[i] = DhtResult[i]
        /\ DhtResult'[n + 1] = v
    BY <1>1, <1>2, <1>3, AppendProperties
  <1>6. \A i \in 1..Len(DhtResult') : DhtResult'[i] = Stored(i - 1)'
    <2> SUFFICES ASSUME NEW i \in 1..Len(DhtResult')
                 PROVE  DhtResult'[i] = Stored(i - 1)'
      OBVIOUS
    <2>1. n \in Nat /\ i - 1 \in Int
      BY <1>2
    <2>2. Stored(i - 1)' = Stored(i - 1)
      BY <1>4, <2>1
    <2>3. CASE i \in 1..n
      BY <1>2, <1>5, <2>2, <2>3
    <2>4. CASE i = n + 1
      <3>1. i - 1 = n
        BY <2>1, <2>4
      <3> QED
        BY <1>5, <2>2, <2>4, <3>1 DEF v
    <2>5. i \in 1..n \/ i = n + 1
      BY <1>5, <2>1
    <2> QED
      BY <2>3, <2>4, <2>5
  <1>7. Len(DhtResult') <= 42
    BY <1>1, <1>2, <1>5
  <1>8. parity' = "none" /\ parity' \in {"none", "ok", "nok"}
    <2>1. n # 42
      <3>1. n \in Nat /\ n < 42
        BY <1>1, <1>2
      <3> HIDE DEF n
      <3> QED
        BY <3>1
    <2>2. parity # "none" => n = 42
      BY DEF FrameInv
    <2> QED
      BY <1>1, <2>1, <2>2
  <1>9. /\ hum' \in HUMS /\ temp' \in TEMPS /\ flip' \in 0..40 /\ late' \in 0..42
        /\ DhtHum' \in {1, -1} \X Word /\ DhtTemp' \in {1, -1} \X Word
    BY <1>1 DEF FrameInv
  <1> QED
    BY <1>5, <1>6, <1>7, <1>8, <1>9 DEF FrameInv

(* Each result of dhtProcess is a byte.                                    *)
LEMMA ResultByte ==
  ASSUME FrameInv, Len(DhtResult) = 42, NEW b \in 0..4
  PROVE  Result(b) \in Byte
  <1>1. b + 1 \in 1..5
    OBVIOUS
  <1> QED
    BY <1>1, ResultIs, WordsAre, LineIs

(* Two bytes make a word.                                                  *)
LEMMA TwoBytes ==
  ASSUME NEW a \in Byte, NEW b \in Byte
  PROVE  256 * a + b \in Word
  <1>1. a \in Nat /\ b \in Nat /\ a < 256 /\ b < 256
    BY DEF Byte
  <1>2. PICK c \in Nat : c = 256 * a + b
    BY <1>1
  <1>3. c < 256 * 256
    BY <1>1, <1>2, SMT
  <1> QED
    BY <1>2, <1>3, WordIs

(* dhtProcess: parity and values follow from the stored widths.            *)
LEMMA ProcessInv == FrameInv /\ dhtProcessFrame => FrameInv'
  <1> SUFFICES ASSUME FrameInv, dhtProcessFrame
               PROVE  FrameInv'
    OBVIOUS
  <1>1. /\ Len(DhtResult) = 42
        /\ parity' = IF ParityOk THEN "ok" ELSE "nok"
        /\ DhtHum' = <<1, 256 * Result(0) + Result(1)>>
        /\ DhtTemp' = Signed(256 * Result(2) + Result(3))
        /\ UNCHANGED <<hum, temp, flip, late, DhtResult>>
    BY DEF dhtProcessFrame
  <1>2. /\ 256 * Result(0) + Result(1) \in Word
        /\ 256 * Result(2) + Result(3) \in Word
    BY <1>1, ResultByte, TwoBytes
  <1>3. DhtHum' \in {1, -1} \X Word
    BY <1>1, <1>2
  <1>4. DhtTemp' \in {1, -1} \X Word
    BY <1>1, <1>2, SignedIs
  <1>5. \A i \in Int : Stored(i)' = Stored(i)
    BY <1>1 DEF Stored, Pulse, Line, Sent, Sum, Bit
  <1>6. \A b \in Int : Result(b)' = Result(b)
    BY <1>1 DEF Result, FirstBit
  <1>7. ParityOk' = ParityOk
    BY <1>6 DEF ParityOk
  <1>8. DhtTemp' = Signed(256 * Result(2) + Result(3))'
    <2>1. Result(2)' = Result(2) /\ Result(3)' = Result(3)
      BY <1>6
    <2> QED
      BY <1>1, <2>1, Zenon DEF Signed, SIGN
  <1>9. /\ hum' \in HUMS /\ temp' \in TEMPS /\ flip' \in 0..40 /\ late' \in 0..42
        /\ DhtResult' \in Seq(Byte) /\ Len(DhtResult') <= 42
    BY <1>1 DEF FrameInv
  <1>10. \A i \in 1..Len(DhtResult') : DhtResult'[i] = Stored(i - 1)'
    <2>1. \A i \in 1..Len(DhtResult) : DhtResult[i] = Stored(i - 1)
      BY DEF FrameInv
    <2>2. \A i \in 1..42 : i - 1 \in Int
      OBVIOUS
    <2> QED
      BY <1>1, <1>5, <2>1, <2>2
  <1>11. parity' \in {"none", "ok", "nok"} /\ (parity' = "ok" <=> ParityOk')
    BY <1>1, <1>7
  <1> QED
    BY <1>1, <1>3, <1>4, <1>8, <1>9, <1>10, <1>11 DEF FrameInv

(* Every reachable state of a frame satisfies the invariant.               *)
THEOREM FrameInvariance == FrameSpec => []FrameInv
  <1>1. FrameInv /\ [FrameNext]_frameVars => FrameInv'
    <2> SUFFICES ASSUME FrameInv, [FrameNext]_frameVars
                 PROVE  FrameInv'
      OBVIOUS
    <2>1. CASE dhtGpioCbkStore
      BY <2>1, StoreInv
    <2>2. CASE dhtProcessFrame
      BY <2>2, ProcessInv
    <2>3. CASE UNCHANGED frameVars
      <3>1. /\ hum' = hum /\ temp' = temp /\ flip' = flip /\ late' = late
            /\ DhtResult' = DhtResult /\ parity' = parity
            /\ DhtHum' = DhtHum /\ DhtTemp' = DhtTemp
        BY <2>3 DEF frameVars
      <3>2. \A b \in Int : Result(b)' = Result(b)
        BY <3>1 DEF Result, FirstBit
      <3>3. ParityOk' = ParityOk
        BY <3>2 DEF ParityOk
      <3>4. parity' # "none" => /\ Len(DhtResult') = 42
                                /\ parity' = "ok" <=> ParityOk'
                                /\ DhtTemp' = Signed(256 * Result(2) + Result(3))'
        <4>1. Result(2)' = Result(2) /\ Result(3)' = Result(3)
          BY <3>2
        <4>2. Signed(256 * Result(2) + Result(3))' = Signed(256 * Result(2) + Result(3))
          BY <4>1, Zenon DEF Signed, SIGN
        <4>3. parity # "none" => /\ Len(DhtResult) = 42
                                 /\ parity = "ok" <=> ParityOk
                                 /\ DhtTemp = Signed(256 * Result(2) + Result(3))
          BY DEF FrameInv
        <4> QED
          BY <3>1, <3>3, <4>2, <4>3, Zenon
      <3>5. \A i \in Int : Stored(i)' = Stored(i)
        BY <3>1 DEF Stored, Pulse, Line, Sent, Sum, Bit
      <3>6. \A i \in 1..Len(DhtResult') : DhtResult'[i] = Stored(i - 1)'
        <4>1. \A i \in 1..Len(DhtResult) : DhtResult[i] = Stored(i - 1)
          BY DEF FrameInv
        <4>2. \A i \in Int : i - 1 \in Int
          OBVIOUS
        <4> QED
          BY <3>1, <3>5, <4>1, <4>2
      <3>7. /\ hum' \in HUMS /\ temp' \in TEMPS /\ flip' \in 0..40 /\ late' \in 0..42
            /\ DhtResult' \in Seq(Byte) /\ Len(DhtResult') <= 42
            /\ parity' \in {"none", "ok", "nok"}
            /\ DhtHum' \in {1, -1} \X Word /\ DhtTemp' \in {1, -1} \X Word
        BY <3>1 DEF FrameInv
      <3> QED
        BY <3>4, <3>6, <3>7 DEF FrameInv
    <2> QED
      BY <2>1, <2>2, <2>3 DEF FrameNext
  <1> QED
    BY <1>1, FrameInitInv, PTL DEF FrameSpec

(* The invariant implies FrameExact.                                       *)
LEMMA InvExact == FrameInv => FrameExact
  <1> SUFFICES ASSUME FrameInv
               PROVE  FrameExact
    OBVIOUS
  <1>1. FrameTypeOK
    <2>1. \A i \in 1..Len(DhtResult) : DhtResult[i] \in Byte
      BY DEF FrameInv
    <2> QED
      BY <2>1 DEF FrameInv, FrameTypeOK
  <1>2. DecodeExact
    BY ResultIs DEF DecodeExact
  <1>3. ParityExact
    <2>1. parity # "none" => Len(DhtResult) = 42 /\ (parity = "ok" <=> ParityOk)
      BY DEF FrameInv
    <2> QED
      BY <2>1, ParityIs DEF ParityExact
  <1> QED
    BY <1>1, <1>2, <1>3 DEF FrameExact

(* The invariant implies PrintedClose.                                     *)
LEMMA InvPrinted == FrameInv => PrintedClose
  <1> SUFFICES ASSUME FrameInv, parity # "none", flip = 40
               PROVE  PrintedClose
    BY DEF PrintedClose
  <1> DEFINE u == 256 * Result(2) + Result(3)
             t == IF temp >= SIGN THEN temp - SIGN ELSE temp
  <1>1. Words /\ Len(DhtResult) = 42 /\ DhtTemp = Signed(u)
    BY WordsAre DEF FrameInv
  <1>2. u = temp
    <2>1. Result(2) = Line[3] /\ Result(3) = Line[4]
      BY <1>1, ResultIs
    <2>2. Line[3] = Sent[3] /\ Line[4] = Sent[4]
      <3>1. flip \div 8 = 5
        OBVIOUS
      <3> QED
        BY <3>1 DEF Line
    <2>3. Sent[3] = temp \div 256 /\ Sent[4] = temp % 256
      BY <1>1, SentIs
    <2>4. temp \in Word
      BY <1>1 DEF Words
    <2>5. u = 256 * (temp \div 256) + (temp % 256)
      BY <2>1, <2>2, <2>3, Zenon
    <2>6. 256 * (temp \div 256) + (temp % 256) = temp
      BY <2>4, WordBytes
    <2> QED
      BY <2>5, <2>6, Zenon
  <1>3. DhtTemp = Signed(temp) /\ temp \in Word
    BY <1>1, <1>2, Zenon DEF Words
  <1>4. /\ DhtTemp[1] = -1 <=> temp >= SIGN
        /\ DhtTemp[2] = t /\ t \in Nat /\ t < SIGN
    BY <1>3, SignedIs
  <1>5. 10 * t - (100 * Printed(t)[1] + Printed(t)[2]) \in {0, 1}
    BY <1>4, PrintedIs
  <1> HIDE DEF t
  <1>6. LET p == Printed(DhtTemp[2])
        IN  10 * t - (100 * p[1] + p[2]) \in {0, 1}
    BY <1>4, <1>5, Zenon
  <1> QED
    BY <1>4, <1>6, Zenon DEF PrintedClose, t

(* For all words and all timings the assumption allows, dhtGpioCbk and     *)
(* dhtProcess read every frame as it was on the line, accept none with a   *)
(* wrong bit and turn down exactly the right ones whose sum needs more than*)
(* a byte.                                                                 *)
THEOREM FrameCorrect == FrameSpec => []FrameExact
  BY FrameInvariance, InvExact, PTL

(* For all words a sensor can send, what mainTask prints has the right sign*)
(* and is the measured value or a hundredth less.                          *)
THEOREM PrintCorrect == FrameSpec => []PrintedClose
  BY FrameInvariance, InvPrinted, PTL
=============================================================================
