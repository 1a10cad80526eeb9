------------------------------ MODULE MqttQueue ------------------------------
(***************************************************************************)
(* The queue of outgoing messages of the MQTT client: queue.c, proto.c and *)
(* ringbuf.c.  A message is stored as BEG, its bytes with the three        *)
(* control bytes escaped, END.  A message that does not fit leaves the     *)
(* part that did in the ring.                                              *)
(*                                                                         *)
(* A loop is a recursive function: its value for n is what n rounds do.    *)
(***************************************************************************)
EXTENDS Integers, Sequences

CONSTANTS QUEUE_BUFFER_SIZE,  \* bytes of the ring
          Message             \* messages, sequences of bytes

ESC == 125   \* 0x7D
BEG == 126   \* 0x7E
END == 127   \* 0x7F

ASSUME QueueAssumption ==
  QUEUE_BUFFER_SIZE \in Nat \ {0, 1} /\ Message \subseteq Seq(0..255)

VARIABLES rb,   \* the RINGBUF: buf, p_r, p_w, fill_cnt
          io    \* the last operation and its message

queueVars == <<rb, io>>

PutsInit ==
  /\ rb = [buf |-> [i \in 0..QUEUE_BUFFER_SIZE-1 |-> 0], p_r |-> 0, p_w |-> 0,
           fill_cnt |-> 0]
  /\ io = <<"none">>

-----------------------------------------------------------------------------
(* ringbuf.c                                                               *)
Rolled(p) == IF p >= QUEUE_BUFFER_SIZE THEN 0 ELSE p

Stored(r, p, c) ==
  [r EXCEPT !.buf[r.p_w] = c, !.p_w = p, !.fill_cnt = @ + 1]
RINGBUF_Put(r, c) == Stored(r, Rolled(r.p_w + 1), c)

RINGBUF_Get(r) == [r EXCEPT !.p_r = Rolled(@ + 1), !.fill_cnt = @ - 1]

-----------------------------------------------------------------------------
(* proto.c *)
Xor20(c) == IF (c \div 32) % 2 = 1 THEN c - 32 ELSE c + 32

Coded(c) == IF c \in {ESC, BEG, END} THEN <<ESC, Xor20(c)>> ELSE <<c>>

Body(m) ==
  LET body[n \in 0..Len(m)] ==
        IF n = 0 THEN <<>> ELSE body[n - 1] \o Coded(m[n])
  IN  body

(* The mutant stores control bytes as they are. *)
Frame_raw(m) == <<BEG>> \o m \o <<END>>
Frame(m) == <<BEG>> \o Body(m)[Len(m)] \o <<END>>

(* PROTO_AddRb stops at the first byte that does not fit. *)
PutOne(a, c) ==
  IF a.ok /\ a.r.fill_cnt < QUEUE_BUFFER_SIZE
    THEN [r |-> RINGBUF_Put(a.r, c), ok |-> TRUE]
    ELSE [a EXCEPT !.ok = FALSE]
Putting(r, s) ==
  LET put[n \in 0..Len(s)] ==
        IF n = 0 THEN [r |-> r, ok |-> TRUE] ELSE PutOne(put[n - 1], s[n])
  IN  put
PROTO_AddRb(r, m) == Putting(r, Frame(m))[Len(Frame(m))]

(* PROTO_ParseByte.  Parser: [begin, esc, data]. *)
PROTO_Init(begin) == [begin |-> begin, esc |-> FALSE, data |-> <<>>]
PROTO_ParseByte(p, c) ==
  CASE c = ESC -> [p EXCEPT !.esc = TRUE]
    [] c = BEG -> PROTO_Init(TRUE)
    [] c = END -> [p EXCEPT !.begin = FALSE]
    [] OTHER   -> IF ~p.begin THEN p
                  ELSE [p EXCEPT !.esc = FALSE,
                          !.data = Append(@, IF p.esc THEN Xor20(c) ELSE c)]

(* PROTO_ParseRb stops behind the first END: isBegin is not initialised.   *)
GetOne(a) ==
  IF a.ok THEN a
  ELSE LET c == a.r.buf[a.r.p_r]
       IN  [r |-> RINGBUF_Get(a.r), p |-> PROTO_ParseByte(a.p, c), ok |-> c = END]
Getting(r, p) ==
  LET get[n \in 0..r.fill_cnt] ==
        IF n = 0 THEN [r |-> r, p |-> p, ok |-> FALSE] ELSE GetOne(get[n - 1])
  IN  get
PROTO_ParseRb(r, begin) == Getting(r, PROTO_Init(begin))[r.fill_cnt]

-----------------------------------------------------------------------------
(* MQTT_Publish, MQTT_Subscribe, MQTT_UnSubscribe, MQTT_Ping: drop the     *)
(* oldest message until the new one fits or there is none.  The ring holds *)
(* fewer messages than bytes, so QUEUE_BUFFER_SIZE rounds end the loop.    *)
Round(a, m, begin) ==
  LET put == PROTO_AddRb(a.r, m)
      get == PROTO_ParseRb(put.r, begin)
  IN  IF a.end # "no" THEN a
      ELSE IF put.ok THEN [r |-> put.r, end |-> "put"]
      ELSE [r |-> get.r, end |-> IF get.ok THEN "no" ELSE "refused"]
Rounds(r, m, begin) ==
  LET round[n \in 0..QUEUE_BUFFER_SIZE] ==
        IF n = 0 THEN [r |-> r, end |-> "no"] ELSE Round(round[n - 1], m, begin)
  IN  round

Publish ==
  \E m \in Message, begin \in BOOLEAN :
    LET a == Rounds(rb, m, begin)[QUEUE_BUFFER_SIZE]
    IN  rb' = a.r /\ io' = IF a.end = "put" THEN <<"put", m>> ELSE <<"refused">>

(* mqtt_tcpclient_recv: an answer is given up if it does not fit. *)
Answer ==
  \E m \in Message :
    LET a == PROTO_AddRb(rb, m)
    IN  rb' = a.r /\ io' = IF a.ok THEN <<"put", m>> ELSE <<"refused">>

(* MQTT_Task *)
Send ==
  /\ rb.fill_cnt > 0
  /\ \E begin \in BOOLEAN :
       LET a == PROTO_ParseRb(rb, begin)
       IN  rb' = a.r /\ io' = IF a.ok THEN <<"get", a.p.data>> ELSE <<"nothing">>

PutsNext == Publish \/ Answer \/ Send

PutsSpec == PutsInit /\ [][PutsNext]_queueVars

-----------------------------------------------------------------------------
(* The bytes in the ring, and the messages that are complete in them.      *)
InRing(r) == [i \in 1..r.fill_cnt |-> r.buf[(r.p_r + i - 1) % QUEUE_BUFFER_SIZE]]

ReadOne(a, c) ==
  LET p == PROTO_ParseByte(a.p, c)
  IN  [p |-> p, out |-> IF c = END THEN Append(a.out, p.data) ELSE a.out]
Reading(p, s) ==
  LET read[n \in 0..Len(s)] ==
        IF n = 0 THEN [p |-> p, out |-> <<>>] ELSE ReadOne(read[n - 1], s[n])
  IN  read
Messages(s) == Reading(PROTO_Init(FALSE), s)[Len(s)].out

Abstract == INSTANCE MessageQueue WITH q <- Messages(InRing(rb)), io <- io

(* The pointers and the count agree, and reading always begins at the      *)
(* start of a message: what isBegin happens to hold on the stack does not  *)
(* matter.                                                                 *)
RingSound ==
  /\ rb.p_r \in 0..QUEUE_BUFFER_SIZE-1 /\ rb.p_w \in 0..QUEUE_BUFFER_SIZE-1
  /\ rb.fill_cnt \in 0..QUEUE_BUFFER_SIZE
  /\ rb.p_w = (rb.p_r + rb.fill_cnt) % QUEUE_BUFFER_SIZE
  /\ rb.fill_cnt > 0 => rb.buf[rb.p_r] = BEG

(* The ring under the queue is sound, and the ring is a queue of messages: *)
(* whatever parts of messages that did not fit lie between them, every     *)
(* message that was accepted comes out whole and in order or is dropped as *)
(* one of the oldest.                                                      *)
IsMessageQueue == []RingSound /\ Abstract!QueueSpec
=============================================================================
