---------------------------- MODULE ServerProofs -----------------------------
(***************************************************************************)
(* The three servers and their clients.  SketchSound, for every backlog of *)
(* the data server's listening socket and every number of faults;          *)
(* JsonSound, for every size of a request and of a text, however the two   *)
(* streams are cut into pieces; ReadingsAsked and OneGetAtATime, for any   *)
(* number of connections and faults, and for both daemons.                 *)
(***************************************************************************)
EXTENDS DaemonLink, SketchLink, JsonServer, FiniteSetTheorems, SequenceTheorems, TLAPS

(* The connections whose message the server has yet to read, and the one   *)
(* of the sketch's that it has not given up.                               *)
Live(c) == c \in ToSet(sbacklog) \/ (spc = "recv" /\ c = sconn)
Kept(c) == c = client /\ sketchEnd[c] = "open"

(* Each connection is at one place on the server's side.                   *)
OnePlace ==
  /\ spc = "recv" => sconn # 0
  /\ \A i, j \in 1..Len(sbacklog) : sbacklog[i] = sbacklog[j] => i = j
  /\ sconn \notin ToSet(sbacklog)

(* What the server has yet to read has not been answered, and if the       *)
(* sketch did not forget it, it comes from the loop that waits for the     *)
(* answer.                                                                 *)
Unread(c) ==
  /\ serverEnd[c] /\ toSketch[c] = "none"
  /\ toServer[c] = "DAEMON_ASK" => forgot \/ Kept(c)
  /\ Kept(c) /\ toServer[c] = "DAEMON_ASK" => pc = "waitGet"
  /\ Kept(c) /\ toServer[c] = "TEMP" => pc = "waitOk"
LiveUnread == \A c \in Socket : Live(c) => Unread(c)

(* A connection just opened carries nothing yet.                           *)
NewIsEmpty ==
  pc = "connected" => /\ client # 0 /\ sketchEnd[client] = "open"
                      /\ toServer[client] = "none" /\ toSketch[client] = "none"

(* An OK under way ends the server's wait.                                 *)
OkEndsWait ==
  client # 0 /\ sketchEnd[client] = "open" /\ toSketch[client] = "OK" =>
    scmdsts = 0 \/ forgot

SketchInv == /\ SketchTypeOK /\ OnePlace /\ LiveUnread /\ NewIsEmpty
             /\ AnswersFit /\ OkEndsWait /\ LatchOwed

-----------------------------------------------------------------------------
(* Sequences of sockets and the set of their elements.                     *)
LEMMA SocketFacts ==
  /\ BACKLOG \in Nat /\ BACKLOG > 0 /\ MAX_STOPS \in Nat /\ MAX_REBOOTS \in Nat
  /\ 0 \notin Socket
  BY SketchAssumption DEF Socket

LEMMA ToSetIs ==
  ASSUME NEW s \in Seq(Socket)
  PROVE  /\ ToSet(s) = {s[i] : i \in 1..Len(s)}
         /\ ToSet(s) \subseteq Socket
  BY DEF ToSet

LEMMA ToSetAppend ==
  ASSUME NEW s \in Seq(Socket), NEW c \in Socket
  PROVE  /\ Append(s, c) \in Seq(Socket)
         /\ ToSet(Append(s, c)) = ToSet(s) \union {c}
<1>1. /\ Append(s, c) \in Seq(Socket) /\ Len(Append(s, c)) = Len(s) + 1
      /\ \A i \in 1..Len(s) : Append(s, c)[i] = s[i]
      /\ Append(s, c)[Len(s) + 1] = c
  BY AppendProperties
<1>2. Len(s) \in Nat
  OBVIOUS
<1> DEFINE a == Append(s, c)
<1> HIDE DEF a
<1>3. ASSUME NEW x PROVE x \in ToSet(a) <=> x \in ToSet(s) \union {c}
  <2>1. x \in ToSet(a) <=> \E i \in 1..Len(a) : a[i] = x
    BY <1>1, ToSetIs DEF a
  <2>2. x \in ToSet(s) <=> \E i \in 1..Len(s) : s[i] = x
    BY ToSetIs
  <2>3. (\E i \in 1..Len(a) : a[i] = x)
          <=> (\E i \in 1..Len(s) : s[i] = x) \/ x = c
    BY <1>1, <1>2 DEF a
  <2> QED BY <2>1, <2>2, <2>3
<1>4. ToSet(a) = ToSet(s) \union {c}
  BY <1>3
<1> QED BY <1>1, <1>4 DEF a

LEMMA ToSetTail ==
  ASSUME NEW s \in Seq(Socket), s # <<>>,
         \A i, j \in 1..Len(s) : s[i] = s[j] => i = j
  PROVE  /\ Tail(s) \in Seq(Socket) /\ Head(s) \in ToSet(s)
         /\ ToSet(Tail(s)) = ToSet(s) \ {Head(s)}
         /\ Len(Tail(s)) = Len(s) - 1
         /\ \A i, j \in 1..Len(Tail(s)) : Tail(s)[i] = Tail(s)[j] => i = j
<1>1. /\ Tail(s) \in Seq(Socket) /\ Len(Tail(s)) = Len(s) - 1
      /\ \A i \in 1..Len(Tail(s)) : Tail(s)[i] = s[i + 1]
  BY HeadTailProperties
<1>2. Head(s) = s[1] /\ Len(s) \in Nat /\ Len(s) > 0
  OBVIOUS
<1> DEFINE t == Tail(s)
           h == Head(s)
<1>a. /\ t \in Seq(Socket) /\ Len(t) \in Nat /\ Len(t) = Len(s) - 1
      /\ \A i \in 1..Len(t) : t[i] = s[i + 1]
  BY <1>1
<1>b. h = s[1]
  BY <1>2
<1> HIDE DEF t, h
<1>3. ASSUME NEW x PROVE x \in ToSet(t) <=> x \in ToSet(s) \ {h}
  <2>1. x \in ToSet(t) <=> \E i \in 1..Len(t) : t[i] = x
    BY <1>a, ToSetIs
  <2>2. x \in ToSet(s) <=> \E i \in 1..Len(s) : s[i] = x
    BY ToSetIs
  <2>3. ASSUME NEW i \in 1..Len(t)
               PROVE  i + 1 \in 1..Len(s) /\ t[i] = s[i + 1] /\ s[i + 1] # s[1]
    BY <1>a, <1>2
  <2>4. ASSUME NEW i \in 1..Len(s), i # 1
        PROVE  i - 1 \in 1..Len(t) /\ t[i - 1] = s[i]
    <3>1. i \in Nat /\ i - 1 \in 1..Len(t) /\ (i - 1) + 1 = i
      BY <2>4, <1>a, <1>2
    <3>2. t[i - 1] = s[(i - 1) + 1]
      BY <3>1, <1>a
    <3> QED BY <3>1, <3>2
  <2>5. x \in ToSet(t) => x \in ToSet(s) \ {h}
    BY <2>1, <2>2, <2>3, <1>b
  <2>6. x \in ToSet(s) \ {h} => x \in ToSet(t)
    BY <2>1, <2>2, <2>4, <1>b
  <2> QED BY <2>5, <2>6
<1>4. ToSet(t) = ToSet(s) \ {h}
  BY <1>3
<1>5. h \in ToSet(s)
  BY <1>2, <1>b, ToSetIs
<1>6. \A i, j \in 1..Len(t) : t[i] = t[j] => i = j
  <2> SUFFICES ASSUME NEW i \in 1..Len(t), NEW j \in 1..Len(t), t[i] = t[j]
               PROVE  i = j
    OBVIOUS
  <2>1. /\ i + 1 \in 1..Len(s) /\ j + 1 \in 1..Len(s) /\ s[i + 1] = s[j + 1]
        /\ i \in Int /\ j \in Int
    BY <1>a, <1>2
  <2> QED BY <2>1
<1> QED BY <1>1, <1>4, <1>5, <1>6 DEF t, h

(* There is a number for a new connection.                                 *)
LEMMA FreeIsFree ==
  ASSUME SketchTypeOK
  PROVE  /\ Free \in Socket /\ Free # sconn /\ Free # client
         /\ Free \notin ToSet(sbacklog)
<1> DEFINE B == ToSet(sbacklog)
           n == Len(sbacklog)
           f == [i \in 1..n |-> sbacklog[i]]
<1>0. sbacklog \in Seq(Socket) /\ Len(sbacklog) <= BACKLOG
  BY DEF SketchTypeOK
<1>1. sbacklog \in Seq(Socket) /\ n \in Nat /\ n <= BACKLOG
  BY <1>0
<1>2. B = {sbacklog[i] : i \in 1..n}
  BY <1>1, ToSetIs
<1>3. IsFiniteSet(1..n) /\ Cardinality(1..n) = n
  BY <1>1, FS_Interval
<1>4. f \in Surjection(1..n, B)
  <2>1. f \in [1..n -> B]
    BY <1>2
  <2>2. ASSUME NEW x \in B PROVE \E i \in 1..n : f[i] = x
    BY <1>2
  <2> QED BY <2>1, <2>2 DEF Surjection
<1>5. IsFiniteSet(B) /\ Cardinality(B) <= n
  BY <1>3, <1>4, FS_Surjection
<1> HIDE DEF f, B, n
<1> DEFINE C == B \union {sconn}
<1>6. Cardinality(B) \in Nat
  BY <1>5, FS_CardinalityType
<1> HIDE DEF C
<1>7. IsFiniteSet(C) /\ Cardinality(C) <= Cardinality(B) + 1
        /\ Cardinality(C) \in Nat
  <2>1. C = B \union {sconn}
    BY DEF C
  <2>2. IsFiniteSet(C) /\ Cardinality(C) = IF sconn \in B THEN Cardinality(B)
                                           ELSE Cardinality(B) + 1
    BY <1>5, <2>1, FS_AddElement
  <2>3. Cardinality(C) \in Nat
    BY <2>2, FS_CardinalityType
  <2> QED BY <1>6, <2>2, <2>3
<1> DEFINE D == C \union {client}
<1> HIDE DEF D
<1>8. IsFiniteSet(D) /\ Cardinality(D) <= Cardinality(C) + 1
        /\ Cardinality(D) \in Nat
  <2>1. D = C \union {client}
    BY DEF D
  <2>2. IsFiniteSet(D) /\ Cardinality(D) = IF client \in C THEN Cardinality(C)
                                           ELSE Cardinality(C) + 1
    BY <1>7, <2>1, FS_AddElement
  <2>3. Cardinality(D) \in Nat
    BY <2>2, FS_CardinalityType
  <2> QED BY <1>7, <2>2, <2>3
<1>9. Cardinality(D) < BACKLOG + 3
  BY <1>1, <1>5, <1>6, <1>7, <1>8, SocketFacts
<1>10. Cardinality(Socket) = BACKLOG + 3
  <2>1. Cardinality(1..BACKLOG + 3) = (BACKLOG + 3) - 1 + 1
    BY SocketFacts, FS_Interval
  <2> QED BY <2>1, SocketFacts DEF Socket
<1>11. ~(Socket \subseteq D)
  BY <1>8, <1>9, <1>10, FS_Subset, SocketFacts
<1>12. \E c \in Socket : c \notin ToSet(sbacklog) \union {sconn, client}
  BY <1>11 DEF D, C, B
<1> QED BY <1>12 DEF Free

-----------------------------------------------------------------------------
(* What the invariant says, with the types apart.                          *)
LEMMA SketchTypes ==
  ASSUME SketchInv
  PROVE  /\ ClientState \in {0, 2, 5} /\ client \in Socket \union {0}
         /\ pc \in {"top", "connected", "waitGet", "waitOk"}
         /\ sbacklog \in Seq(Socket) /\ Len(sbacklog) \in Nat
         /\ ToSet(sbacklog) \subseteq Socket
         /\ spc \in {"accept", "recv", "dead"}
         /\ sconn \in Socket \union {0} /\ scmdsts \in {0, 1}
         /\ forgot \in BOOLEAN /\ 0 \notin Socket
  <1>1. SketchTypeOK
    BY DEF SketchInv
  <1>2. sbacklog \in Seq(Socket) /\ client \in Socket \union {0}
          /\ sconn \in Socket \union {0} /\ scmdsts \in {0, 1}
    BY <1>1 DEF SketchTypeOK
  <1>3. ToSet(sbacklog) \subseteq Socket /\ Len(sbacklog) \in Nat
    BY <1>2, ToSetIs
  <1> QED BY <1>1, <1>2, <1>3, SocketFacts DEF SketchTypeOK

LEMMA WireTypes ==
  ASSUME SketchInv
  PROVE  /\ toServer \in [Socket -> {"none", "DAEMON_ASK", "TEMP"}]
         /\ toSketch \in [Socket -> {"none", "DHT_GET", "OK"}]
         /\ sketchEnd \in [Socket -> {"open", "fin", "gone", "reset"}]
         /\ serverEnd \in [Socket -> BOOLEAN]
  BY DEF SketchInv, SketchTypeOK

(* Closing the sketch's end of its connection.                             *)
LEMMA FinIs ==
  ASSUME SketchInv
  PROVE  /\ Fin(client) \in [Socket -> {"open", "fin", "gone", "reset"}]
         /\ client # 0 => Fin(client)[client] # "open"
         /\ \A c \in Socket : c # client => Fin(client)[c] = sketchEnd[c]
  BY SketchTypes, WireTypes DEF Fin

LEMMA InitSketchInv == SketchInit => SketchInv
<1> SUFFICES ASSUME SketchInit PROVE SketchInv
  OBVIOUS
<1>1. ToSet(<<>>) = {}
  BY DEF ToSet
<1>2. SketchTypeOK
  <2>1. /\ toServer \in [Socket -> {"none", "DAEMON_ASK", "TEMP"}]
        /\ toSketch \in [Socket -> {"none", "DHT_GET", "OK"}]
        /\ sketchEnd \in [Socket -> {"open", "fin", "gone", "reset"}]
        /\ serverEnd \in [Socket -> BOOLEAN]
    BY DEF SketchInit
  <2>2. sbacklog \in Seq(Socket) /\ Len(sbacklog) <= BACKLOG
    BY SocketFacts DEF SketchInit
  <2>3. sfaults \in 0..MAX_STOPS /\ reboots \in 0..MAX_REBOOTS
    BY SocketFacts DEF SketchInit
  <2> QED BY <2>1, <2>2, <2>3 DEF SketchInit, SketchTypeOK
<1>3. OnePlace /\ LiveUnread
  BY <1>1, SocketFacts DEF SketchInit, OnePlace, LiveUnread, Live
<1>4. NewIsEmpty /\ AnswersFit /\ OkEndsWait /\ LatchOwed
  BY DEF SketchInit, NewIsEmpty, AnswersFit, OkEndsWait, LatchOwed
<1> QED BY <1>2, <1>3, <1>4 DEF SketchInv

(* connect takes a number that neither side has.                           *)
LEMMA ConnectInv == SketchInv /\ Connect => SketchInv'
<1> SUFFICES ASSUME SketchInv, Connect PROVE SketchInv'
  OBVIOUS
<1> DEFINE n == Free
<1>1. n \in Socket /\ n # sconn /\ n # client /\ n \notin ToSet(sbacklog)
  BY FreeIsFree DEF SketchInv
<1>2. /\ pc = "top" /\ Len(sbacklog) < BACKLOG /\ client' = n
      /\ pc' = "connected" /\ sbacklog' = Append(sbacklog, n)
      /\ serverEnd' = [serverEnd EXCEPT ![n] = TRUE]
      /\ toServer' = [toServer EXCEPT ![n] = "none"]
      /\ toSketch' = [toSketch EXCEPT ![n] = "none"]
      /\ UNCHANGED <<ClientState, spc, sconn, scmdsts, forgot, sfaults,
                     reboots>>
  BY DEF Connect, tally
<1>3. /\ sketchEnd' \in [Socket -> {"open", "fin", "gone", "reset"}]
      /\ sketchEnd'[n] = "open"
  <2>1. PICK hit \in SUBSET Socket :
          sketchEnd' = [c \in Socket |-> IF c = n THEN "open"
                                         ELSE IF c \in hit THEN "reset"
                                         ELSE Fin(client)[c]]
    BY DEF Connect
  <2>2. Fin(client) \in [Socket -> {"open", "fin", "gone", "reset"}]
    BY FinIs
  <2> QED BY <1>1, <2>1, <2>2
<1> HIDE DEF n
<1>4. /\ sbacklog' \in Seq(Socket) /\ Len(sbacklog') = Len(sbacklog) + 1
      /\ ToSet(sbacklog') = ToSet(sbacklog) \union {n}
      /\ \A i \in 1..Len(sbacklog) : sbacklog'[i] = sbacklog[i]
      /\ sbacklog'[Len(sbacklog) + 1] = n
  BY <1>1, <1>2, SketchTypes, ToSetAppend, AppendProperties
<1>5. SketchTypeOK'
  <2>1. Len(sbacklog') <= BACKLOG
    BY <1>2, <1>4, SketchTypes, SocketFacts
  <2>2. /\ toServer' \in [Socket -> {"none", "DAEMON_ASK", "TEMP"}]
        /\ toSketch' \in [Socket -> {"none", "DHT_GET", "OK"}]
        /\ serverEnd' \in [Socket -> BOOLEAN]
    BY <1>1, <1>2, WireTypes
  <2> QED BY <1>1, <1>2, <1>3, <1>4, <2>1, <2>2 DEF SketchInv, SketchTypeOK
<1>6. OnePlace'
  <2>1. OnePlace
    BY DEF SketchInv
  <2>2. ASSUME NEW i \in 1..Len(sbacklog'), NEW j \in 1..Len(sbacklog'),
               sbacklog'[i] = sbacklog'[j]
        PROVE  i = j
    <3>1. \A k \in 1..Len(sbacklog) : sbacklog[k] # n
      BY <1>1, SketchTypes, ToSetIs
    <3>2. \A k \in 1..Len(sbacklog') :
            k \in 1..Len(sbacklog) \/ k = Len(sbacklog) + 1
      BY <1>4, SketchTypes
    <3> QED BY <2>1, <2>2, <3>1, <3>2, <1>4 DEF OnePlace
  <2> QED BY <2>1, <2>2, <1>1, <1>2, <1>4 DEF OnePlace
<1>7. LiveUnread'
  <2> SUFFICES ASSUME NEW c \in Socket, Live(c)' PROVE Unread(c)'
    BY DEF LiveUnread
  <2>1. CASE c = n
    BY <2>1, <1>1, <1>2, <1>3, WireTypes DEF Unread
  <2>2. CASE c # n
    <3>1. Unread(c)
      BY <2>2, <1>2, <1>4 DEF SketchInv, LiveUnread, Live
    <3> QED BY <3>1, <2>2, <1>1, <1>2, WireTypes DEF Unread, Kept
  <2> QED BY <2>1, <2>2
<1>8. NewIsEmpty' /\ AnswersFit' /\ OkEndsWait'
  BY <1>1, <1>2, <1>3, WireTypes, SocketFacts
     DEF NewIsEmpty, AnswersFit, OkEndsWait
<1>9. LatchOwed'
  BY <1>2 DEF SketchInv, AnswersFit, LatchOwed, connected
<1> QED BY <1>5, <1>6, <1>7, <1>8, <1>9 DEF SketchInv

(* What the sketch does with the connection it has, the server's side left *)
(* as it is.                                                               *)
LEMMA ConnectFailsInv == SketchInv /\ ConnectFails => SketchInv'
<1> SUFFICES ASSUME SketchInv, ConnectFails PROVE SketchInv'
  OBVIOUS
<1>1. /\ pc = "top" /\ client' = 0 /\ sketchEnd' = Fin(client)
      /\ ClientState' = IF ClientState = 5 THEN 0 ELSE ClientState
      /\ UNCHANGED <<pc, toServer, toSketch, serverEnd, sbacklog, spc, sconn,
                     scmdsts, forgot, reboots>>
  BY DEF ConnectFails, serverVars
<1>2. sfaults' \in 0..MAX_STOPS
  BY SocketFacts DEF ConnectFails, SketchInv, SketchTypeOK
<1>3. SketchTypeOK'
  BY <1>1, <1>2, FinIs DEF SketchInv, SketchTypeOK
<1>4. OnePlace'
  BY <1>1 DEF SketchInv, OnePlace
<1>5. LiveUnread'
  BY <1>1, SocketFacts DEF SketchInv, LiveUnread, Live, Unread, Kept
<1>6. NewIsEmpty' /\ AnswersFit' /\ OkEndsWait'
  BY <1>1 DEF NewIsEmpty, AnswersFit, OkEndsWait
<1>7. LatchOwed'
  BY <1>1 DEF SketchInv, AnswersFit, LatchOwed, connected
<1> QED BY <1>3, <1>4, <1>5, <1>6, <1>7 DEF SketchInv

LEMMA SamePlaces ==
  ASSUME SketchInv, UNCHANGED serverVars
  PROVE  /\ OnePlace' /\ \A c \in Socket : Live(c)' <=> Live(c)
         /\ UNCHANGED <<sbacklog, spc, sconn, scmdsts>>
  BY DEF serverVars, SketchInv, OnePlace, Live

LEMMA AskInv == SketchInv /\ Ask => SketchInv'
<1> SUFFICES ASSUME SketchInv, Ask PROVE SketchInv'
  OBVIOUS
<1>1. /\ pc = "connected" /\ ClientState = 0 /\ pc' = "waitGet"
      /\ toServer' = IF connected
                       THEN [toServer EXCEPT ![client] = "DAEMON_ASK"]
                       ELSE toServer
      /\ UNCHANGED <<ClientState, client, toSketch, sketchEnd, serverEnd,
                     forgot, sfaults, reboots>>
  BY DEF Ask, AskThen, tally
<1>2. /\ OnePlace' /\ \A c \in Socket : Live(c)' <=> Live(c)
      /\ UNCHANGED <<sbacklog, spc, sconn, scmdsts>>
  BY SamePlaces DEF Ask, AskThen
<1>3. client # 0 /\ client \in Socket /\ toSketch[client] = "none"
        /\ sketchEnd[client] = "open"
  BY <1>1, SketchTypes DEF SketchInv, NewIsEmpty
<1>4. /\ toServer' \in [Socket -> {"none", "DAEMON_ASK", "TEMP"}]
      /\ \A c \in Socket : toServer'[c] # toServer[c] =>
           c = client /\ toServer'[c] = "DAEMON_ASK"
  BY <1>1, <1>3, WireTypes
<1>5. SketchTypeOK'
  BY <1>1, <1>2, <1>4 DEF SketchInv, SketchTypeOK
<1>6. LiveUnread'
  <2> SUFFICES ASSUME NEW c \in Socket, Live(c) PROVE Unread(c)'
    BY <1>2 DEF LiveUnread
  <2>1. Unread(c)
    BY DEF SketchInv, LiveUnread
  <2>2. c = client => toServer'[c] # "TEMP"
    BY <1>1, <1>3, WireTypes DEF SketchInv, NewIsEmpty
  <2> QED BY <2>1, <2>2, <1>1, <1>3, <1>4 DEF Unread, Kept
<1>7. NewIsEmpty' /\ AnswersFit' /\ OkEndsWait'
  BY <1>1, <1>3 DEF NewIsEmpty, AnswersFit, OkEndsWait
<1>8. LatchOwed'
  BY <1>1, <1>2, <1>3 DEF SketchInv, LatchOwed, connected
<1> QED BY <1>2, <1>5, <1>6, <1>7, <1>8 DEF SketchInv

LEMMA MeasureInv == SketchInv /\ Measure => SketchInv'
<1> SUFFICES ASSUME SketchInv, Measure PROVE SketchInv'
  OBVIOUS
<1>1. /\ pc = "connected" /\ pc' = "waitOk"
      /\ toServer' = IF connected /\ ClientState = 2
                       THEN [toServer EXCEPT ![client] = "TEMP"]
                       ELSE toServer
      /\ UNCHANGED <<ClientState, client, toSketch, sketchEnd, serverEnd,
                     forgot, sfaults, reboots>>
  BY DEF Measure, tally
<1>2. /\ OnePlace' /\ \A c \in Socket : Live(c)' <=> Live(c)
      /\ UNCHANGED <<sbacklog, spc, sconn, scmdsts>>
  BY SamePlaces DEF Measure
<1>3. client # 0 /\ client \in Socket /\ toSketch[client] = "none"
        /\ sketchEnd[client] = "open"
  BY <1>1, SketchTypes DEF SketchInv, NewIsEmpty
<1>4. /\ toServer' \in [Socket -> {"none", "DAEMON_ASK", "TEMP"}]
      /\ \A c \in Socket : toServer'[c] # toServer[c] =>
           c = client /\ toServer'[c] = "TEMP"
  BY <1>1, <1>3, WireTypes
<1>5. SketchTypeOK'
  BY <1>1, <1>2, <1>4 DEF SketchInv, SketchTypeOK
<1>6. LiveUnread'
  <2> SUFFICES ASSUME NEW c \in Socket, Live(c) PROVE Unread(c)'
    BY <1>2 DEF LiveUnread
  <2>1. Unread(c)
    BY DEF SketchInv, LiveUnread
  <2>2. c = client => toServer'[c] # "DAEMON_ASK"
    BY <1>1, <1>3, WireTypes DEF SketchInv, NewIsEmpty
  <2> QED BY <2>1, <2>2, <1>1, <1>3, <1>4 DEF Unread, Kept
<1>7. NewIsEmpty' /\ AnswersFit' /\ OkEndsWait'
  BY <1>1, <1>3 DEF NewIsEmpty, AnswersFit, OkEndsWait
<1>8. LatchOwed'
  BY <1>1, <1>2, <1>3 DEF SketchInv, LatchOwed, connected
<1> QED BY <1>2, <1>5, <1>6, <1>7, <1>8 DEF SketchInv

(* client.stop() ends a pass: the connection is no longer kept.            *)
LEMMA GivenUp ==
  ASSUME SketchInv, sketchEnd' = Fin(client), client # 0,
         UNCHANGED <<client, toServer, serverEnd, forgot>>,
         UNCHANGED serverVars, pc' = "top",
         \A c \in Socket : c # client => toSketch'[c] = toSketch[c],
         \A c \in Socket : toSketch'[c] \in {toSketch[c], "none"},
         toServer[client] = "DAEMON_ASK" /\ Live(client) => forgot
  PROVE  OnePlace' /\ LiveUnread' /\ NewIsEmpty' /\ AnswersFit' /\ OkEndsWait'
<1>1. /\ OnePlace' /\ \A c \in Socket : Live(c)' <=> Live(c)
      /\ UNCHANGED <<sbacklog, spc, sconn, scmdsts>>
  BY SamePlaces
<1>2. sketchEnd'[client] # "open" /\ client \in Socket
  BY FinIs, SketchTypes
<1>3. LiveUnread'
  <2> SUFFICES ASSUME NEW c \in Socket, Live(c) PROVE Unread(c)'
    BY <1>1 DEF LiveUnread
  <2>1. Unread(c)
    BY DEF SketchInv, LiveUnread
  <2>2. toSketch'[c] = "none" /\ ~Kept(c)'
    BY <2>1, <1>2 DEF Unread, Kept
  <2>3. toServer[c] = "DAEMON_ASK" => forgot
    BY <2>1 DEF Unread, Kept
  <2> QED BY <2>1, <2>2, <2>3 DEF Unread
<1>4. NewIsEmpty' /\ AnswersFit' /\ OkEndsWait'
  BY <1>2 DEF NewIsEmpty, AnswersFit, OkEndsWait
<1> QED BY <1>1, <1>3, <1>4

LEMMA StopInv == SketchInv /\ Stop => SketchInv'
<1> SUFFICES ASSUME SketchInv, Stop PROVE SketchInv'
  OBVIOUS
<1>1. /\ pc = "connected" /\ ClientState = 5 /\ sketchEnd' = Fin(client)
      /\ ClientState' = 0 /\ pc' = "top"
      /\ UNCHANGED <<client, toServer, toSketch, serverEnd, forgot, sfaults,
                     reboots>>
      /\ UNCHANGED serverVars
  BY DEF Stop, tally
<1>2. client # 0 /\ client \in Socket /\ toSketch[client] = "none"
        /\ toServer[client] = "none"
  BY <1>1, SketchTypes DEF SketchInv, NewIsEmpty
<1>3. SketchTypeOK'
  BY <1>1, FinIs DEF SketchInv, SketchTypeOK, serverVars
<1>4. OnePlace' /\ LiveUnread' /\ NewIsEmpty' /\ AnswersFit' /\ OkEndsWait'
  BY <1>1, <1>2, GivenUp
<1>5. LatchOwed'
  BY <1>1, <1>2 DEF SketchInv, LatchOwed, connected, serverVars
<1> QED BY <1>3, <1>4, <1>5 DEF SketchInv

LEMMA ReadGetInv == SketchInv /\ ReadGet => SketchInv'
<1> SUFFICES ASSUME SketchInv, ReadGet PROVE SketchInv'
  OBVIOUS
<1>1. /\ pc = "waitGet" /\ connected /\ toSketch[client] = "DHT_GET"
      /\ toSketch' = [toSketch EXCEPT ![client] = "none"]
      /\ ClientState' = 2 /\ sketchEnd' = Fin(client) /\ pc' = "top"
      /\ UNCHANGED <<client, toServer, serverEnd, forgot, sfaults, reboots>>
      /\ UNCHANGED serverVars
  BY DEF ReadGet, ReadGetThen, tally
<1>2. client # 0 /\ client \in Socket
  BY <1>1, SketchTypes DEF connected
<1>3. /\ toSketch' \in [Socket -> {"none", "DHT_GET", "OK"}]
      /\ \A c \in Socket : c # client => toSketch'[c] = toSketch[c]
      /\ \A c \in Socket : toSketch'[c] \in {toSketch[c], "none"}
  BY <1>1, <1>2, WireTypes
<1>4. SketchTypeOK'
  BY <1>1, <1>3, FinIs DEF SketchInv, SketchTypeOK, serverVars
<1>5. ~Live(client)
  BY <1>1, <1>2 DEF SketchInv, LiveUnread, Unread
<1>6. OnePlace' /\ LiveUnread' /\ NewIsEmpty' /\ AnswersFit' /\ OkEndsWait'
  BY <1>1, <1>2, <1>3, <1>5, GivenUp
<1>7. LatchOwed'
  BY <1>1 DEF LatchOwed
<1> QED BY <1>4, <1>6, <1>7 DEF SketchInv

LEMMA ReadOkInv == SketchInv /\ ReadOk => SketchInv'
<1> SUFFICES ASSUME SketchInv, ReadOk PROVE SketchInv'
  OBVIOUS
<1>1. /\ pc = "waitOk" /\ connected /\ toSketch[client] = "OK"
      /\ toSketch' = [toSketch EXCEPT ![client] = "none"]
      /\ ClientState' = 5
      /\ UNCHANGED <<pc, client, toServer, sketchEnd, serverEnd, forgot,
                     sfaults, reboots>>
      /\ UNCHANGED serverVars
  BY DEF ReadOk, tally
<1>2. /\ OnePlace' /\ \A c \in Socket : Live(c)' <=> Live(c)
      /\ UNCHANGED <<sbacklog, spc, sconn, scmdsts>>
  BY <1>1, SamePlaces
<1>3. client # 0 /\ client \in Socket /\ sketchEnd[client] = "open"
  BY <1>1, SketchTypes DEF connected
<1>4. /\ toSketch' \in [Socket -> {"none", "DHT_GET", "OK"}]
      /\ toSketch'[client] = "none"
      /\ \A c \in Socket : c # client => toSketch'[c] = toSketch[c]
  BY <1>1, <1>3, WireTypes
<1>5. SketchTypeOK'
  BY <1>1, <1>2, <1>4 DEF SketchInv, SketchTypeOK
<1>6. LiveUnread'
  BY <1>1, <1>2, <1>4 DEF SketchInv, LiveUnread, Unread, Kept
<1>7. NewIsEmpty' /\ AnswersFit' /\ OkEndsWait'
  BY <1>1, <1>4 DEF NewIsEmpty, AnswersFit, OkEndsWait
<1>8. LatchOwed'
  BY <1>1, <1>2, <1>3, SketchTypes DEF SketchInv, OkEndsWait, LatchOwed
<1> QED BY <1>2, <1>5, <1>6, <1>7, <1>8 DEF SketchInv

(* A waiting loop ends by itself only when nothing more can come.          *)
LEMMA LeaveInv == SketchInv /\ Leave => SketchInv'
<1> SUFFICES ASSUME SketchInv, Leave PROVE SketchInv'
  OBVIOUS
<1>1. /\ pc \in {"waitGet", "waitOk"} /\ ~connected /\ pc' = "top"
      /\ UNCHANGED <<ClientState, client, toServer, toSketch, sketchEnd,
                     serverEnd, forgot, sfaults, reboots>>
      /\ UNCHANGED serverVars
  BY DEF Leave, tally, wires
<1>2. /\ OnePlace' /\ \A c \in Socket : Live(c)' <=> Live(c)
      /\ UNCHANGED <<sbacklog, spc, sconn, scmdsts>>
  BY <1>1, SamePlaces
<1>3. SketchTypeOK'
  BY <1>1, <1>2 DEF SketchInv, SketchTypeOK
<1>4. ASSUME NEW c \in Socket, Live(c) PROVE ~Kept(c)
  BY <1>4, <1>1, SocketFacts DEF SketchInv, LiveUnread, Unread, Kept, connected
<1>5. LiveUnread'
  BY <1>1, <1>2, <1>4 DEF SketchInv, LiveUnread, Unread, Kept
<1>6. NewIsEmpty' /\ AnswersFit' /\ OkEndsWait'
  BY <1>1, <1>2 DEF SketchInv, NewIsEmpty, AnswersFit, OkEndsWait, connected
<1>7. LatchOwed'
  BY <1>1, <1>2 DEF SketchInv, LatchOwed, connected
<1> QED BY <1>2, <1>3, <1>5, <1>6, <1>7 DEF SketchInv

LEMMA heartBeatInv == SketchInv /\ heartBeat => SketchInv'
<1> SUFFICES ASSUME SketchInv, heartBeat PROVE SketchInv'
  OBVIOUS
<1>1. /\ ClientState' = 0 /\ forgot' = (forgot \/ ClientState = 2)
      /\ UNCHANGED <<pc, client, toServer, toSketch, sketchEnd, serverEnd,
                     sfaults, reboots>>
      /\ UNCHANGED serverVars
  BY DEF heartBeat, wires
<1>2. /\ OnePlace' /\ \A c \in Socket : Live(c)' <=> Live(c)
      /\ UNCHANGED <<sbacklog, spc, sconn, scmdsts>>
  BY <1>1, SamePlaces
<1>3. SketchTypeOK'
  BY <1>1, <1>2 DEF SketchInv, SketchTypeOK
<1>4. LiveUnread'
  BY <1>1, <1>2 DEF SketchInv, LiveUnread, Unread, Kept
<1>5. NewIsEmpty' /\ AnswersFit' /\ OkEndsWait'
  BY <1>1, <1>2 DEF SketchInv, NewIsEmpty, AnswersFit, OkEndsWait
<1>6. LatchOwed'
  BY <1>1, <1>2 DEF SketchInv, LatchOwed, connected
<1> QED BY <1>2, <1>3, <1>4, <1>5, <1>6 DEF SketchInv

(* After a restart of the board no connection is kept, and what the sketch *)
(* knew is forgotten.                                                      *)
LEMMA BoardRebootInv == SketchInv /\ BoardReboot => SketchInv'
<1> SUFFICES ASSUME SketchInv, BoardReboot PROVE SketchInv'
  OBVIOUS
<1>1. /\ reboots < MAX_REBOOTS /\ reboots' = reboots + 1
      /\ ClientState' = 0 /\ pc' = "top" /\ client' = 0 /\ forgot' = TRUE
      /\ UNCHANGED <<toSketch, serverEnd, sfaults>> /\ UNCHANGED serverVars
  BY DEF BoardReboot
<1>2. /\ OnePlace' /\ \A c \in Socket : Live(c)' <=> Live(c)
      /\ UNCHANGED <<sbacklog, spc, sconn, scmdsts>>
  BY <1>1, SamePlaces
<1>3. /\ sketchEnd' \in [Socket -> {"open", "fin", "gone", "reset"}]
      /\ toServer' \in [Socket -> {"none", "DAEMON_ASK", "TEMP"}]
  <2>1. CASE connected
    <3>1. PICK u \in {toServer[client], "none"} :
            toServer' = [toServer EXCEPT ![client] = u]
      BY <2>1 DEF BoardReboot
    <3>2. sketchEnd' = [sketchEnd EXCEPT ![client] = "gone"]
      BY <2>1 DEF BoardReboot
    <3>3. client \in Socket
      BY <2>1, SketchTypes DEF connected
    <3> QED BY <3>1, <3>2, <3>3, WireTypes
  <2>2. CASE ~connected
    BY <2>2, WireTypes DEF BoardReboot
  <2> QED BY <2>1, <2>2
<1>4. reboots' \in 0..MAX_REBOOTS
  BY <1>1, SocketFacts DEF SketchInv, SketchTypeOK
<1>5. SketchTypeOK'
  BY <1>1, <1>2, <1>3, <1>4 DEF SketchInv, SketchTypeOK
<1>6. LiveUnread'
  BY <1>1, <1>2, SocketFacts DEF SketchInv, LiveUnread, Unread, Kept
<1>7. NewIsEmpty' /\ AnswersFit' /\ OkEndsWait' /\ LatchOwed'
  BY <1>1 DEF NewIsEmpty, AnswersFit, OkEndsWait, LatchOwed
<1> QED BY <1>2, <1>5, <1>6, <1>7 DEF SketchInv

-----------------------------------------------------------------------------
(* The server takes the next connection; the one before, read already, is  *)
(* closed.                                                                 *)
LEMMA ServerAcceptInv == SketchInv /\ ServerAccept => SketchInv'
<1> SUFFICES ASSUME SketchInv, ServerAccept PROVE SketchInv'
  OBVIOUS
<1>1. /\ spc = "accept" /\ sbacklog # <<>> /\ spc' = "recv"
      /\ sconn' = Head(sbacklog) /\ sbacklog' = Tail(sbacklog)
      /\ serverEnd' = IF sconn = 0 THEN serverEnd
                      ELSE [serverEnd EXCEPT ![sconn] = FALSE]
      /\ UNCHANGED <<ClientState, pc, client, toServer, toSketch, sketchEnd,
                     scmdsts, forgot, sfaults, reboots>>
  BY DEF ServerAccept, sketchVars, tally
<1>2. /\ sbacklog' \in Seq(Socket) /\ sconn' \in ToSet(sbacklog)
      /\ ToSet(sbacklog') = ToSet(sbacklog) \ {sconn'}
      /\ Len(sbacklog') = Len(sbacklog) - 1
      /\ \A i, j \in 1..Len(sbacklog') : sbacklog'[i] = sbacklog'[j] => i = j
  BY <1>1, SketchTypes, ToSetTail DEF SketchInv, OnePlace
<1>3. sconn' \in Socket /\ sconn' # 0
  BY <1>2, SketchTypes
<1>4. SketchTypeOK'
  <2>1. Len(sbacklog') <= BACKLOG
    BY <1>2, SketchTypes, SocketFacts DEF SketchInv, SketchTypeOK
  <2>2. serverEnd' \in [Socket -> BOOLEAN]
    BY <1>1, WireTypes
  <2> QED BY <1>1, <1>2, <1>3, <2>1, <2>2 DEF SketchInv, SketchTypeOK
<1>5. OnePlace'
  BY <1>2, <1>3 DEF OnePlace
<1>6. LiveUnread'
  <2> SUFFICES ASSUME NEW c \in Socket, Live(c)' PROVE Unread(c)'
    BY DEF LiveUnread
  <2>1. c \in ToSet(sbacklog) /\ c # sconn
    BY <1>2 DEF SketchInv, OnePlace, Live
  <2>2. Unread(c)
    BY <2>1 DEF SketchInv, LiveUnread, Live
  <2>3. serverEnd'[c] = serverEnd[c]
    BY <1>1, <2>1, WireTypes
  <2> QED BY <2>2, <2>3, <1>1 DEF Unread, Kept
<1>7. NewIsEmpty' /\ AnswersFit' /\ OkEndsWait'
  BY <1>1 DEF SketchInv, NewIsEmpty, AnswersFit, OkEndsWait
<1>8. LatchOwed'
  BY <1>1 DEF SketchInv, LatchOwed, connected
<1> QED BY <1>4, <1>5, <1>6, <1>7, <1>8 DEF SketchInv

(* What it answers fits the loop the message came from.                    *)
LEMMA ServerRecvInv == SketchInv /\ ServerRecv => SketchInv'
<1> SUFFICES ASSUME SketchInv, ServerRecv PROVE SketchInv'
  OBVIOUS
<1> DEFINE get == toServer[sconn] = "DAEMON_ASK" /\ scmdsts = 0
           ok  == toServer[sconn] = "TEMP" /\ scmdsts = 1
<1>1. /\ spc = "recv" /\ spc' = "accept"
      /\ toServer' = [toServer EXCEPT ![sconn] = "none"]
      /\ toSketch' = [toSketch EXCEPT ![sconn] = IF get THEN "DHT_GET"
                                           ELSE IF ok THEN "OK"
                                           ELSE toSketch[sconn]]
      /\ scmdsts' = IF get THEN 1 ELSE IF ok THEN 0 ELSE scmdsts
      /\ UNCHANGED <<ClientState, pc, client, sketchEnd, serverEnd, sbacklog,
                     sconn, forgot, sfaults, reboots>>
  BY DEF ServerRecv, ServerRecvAs, sketchVars, tally
<1>2. sconn \in Socket
  BY <1>1, SketchTypes DEF SketchInv, OnePlace
<1>3. Unread(sconn)
  BY <1>1, <1>2 DEF SketchInv, LiveUnread, Live
<1>4. /\ toServer' \in [Socket -> {"none", "DAEMON_ASK", "TEMP"}]
      /\ toSketch' \in [Socket -> {"none", "DHT_GET", "OK"}]
      /\ toSketch'[sconn] = IF get THEN "DHT_GET"
                            ELSE IF ok THEN "OK" ELSE "none"
      /\ \A c \in Socket : c # sconn => /\ toServer'[c] = toServer[c]
                                        /\ toSketch'[c] = toSketch[c]
  BY <1>1, <1>2, <1>3, WireTypes DEF Unread
<1>5. SketchTypeOK'
  BY <1>1, <1>4 DEF SketchInv, SketchTypeOK
<1>6. OnePlace'
  BY <1>1 DEF SketchInv, OnePlace
<1>7. LiveUnread'
  <2> SUFFICES ASSUME NEW c \in Socket, Live(c)' PROVE Unread(c)'
    BY DEF LiveUnread
  <2>1. c \in ToSet(sbacklog) /\ c # sconn
    BY <1>1 DEF SketchInv, OnePlace, Live
  <2>2. Unread(c)
    BY <2>1 DEF SketchInv, LiveUnread, Live
  <2> QED BY <2>1, <2>2, <1>1, <1>4 DEF Unread, Kept
<1>8. NewIsEmpty'
  <2> SUFFICES ASSUME pc = "connected" PROVE NewIsEmpty'
    BY <1>1 DEF NewIsEmpty
  <2>1. /\ client \in Socket /\ client # 0 /\ sketchEnd[client] = "open"
        /\ toServer[client] = "none" /\ toSketch[client] = "none"
    BY SketchTypes DEF SketchInv, NewIsEmpty
  <2>2. toServer'[client] = "none" /\ toSketch'[client] = "none"
    BY <1>1, <1>2, <1>4, <2>1, WireTypes
  <2> QED BY <2>1, <2>2, <1>1 DEF NewIsEmpty
<1>9. AnswersFit'
  <2> SUFFICES ASSUME client # 0, sketchEnd[client] = "open",
                      toSketch'[client] # "none"
               PROVE  pc = IF toSketch'[client] = "OK" THEN "waitOk"
                           ELSE "waitGet"
    BY <1>1 DEF AnswersFit
  <2>1. client \in Socket
    BY SketchTypes
  <2>2. CASE client = sconn
    BY <2>2, <1>3, <1>4 DEF Unread, Kept
  <2>3. CASE client # sconn
    BY <2>1, <2>3, <1>4 DEF SketchInv, AnswersFit
  <2> QED BY <2>2, <2>3
<1>10. get => forgot \/ (sconn = client /\ sketchEnd[client] = "open")
  BY <1>3 DEF Unread, Kept
<1>11. OkEndsWait'
  <2> SUFFICES ASSUME client # 0, sketchEnd[client] = "open",
                      toSketch'[client] = "OK", ~forgot
               PROVE  scmdsts' = 0
    BY <1>1, SketchTypes DEF OkEndsWait
  <2>1. client \in Socket
    BY SketchTypes
  <2>2. CASE client = sconn
    BY <2>2, <1>1, <1>4
  <2>3. CASE client # sconn
    <3>1. scmdsts = 0
      BY <2>1, <2>3, <1>4 DEF SketchInv, OkEndsWait
    <3> QED BY <3>1, <2>3, <1>1, <1>10
  <2> QED BY <2>2, <2>3
<1>12. LatchOwed'
  <2> SUFFICES ASSUME scmdsts' = 1, ~forgot, ClientState # 2
               PROVE  connected' /\ toSketch'[client] = "DHT_GET"
    BY <1>1 DEF LatchOwed
  <2>1. CASE get
    <3>1. sconn = client /\ sketchEnd[client] = "open"
      BY <2>1, <1>10
    <3>2. toSketch'[client] = "DHT_GET"
      BY <2>1, <3>1, <1>4
    <3> QED BY <3>1, <3>2, <1>1, <1>2, SocketFacts DEF connected
  <2>2. CASE ~get
    <3>1. scmdsts = 1 /\ ~ok
      BY <2>2, <1>1
    <3>2. connected /\ toSketch[client] = "DHT_GET"
      BY <3>1 DEF SketchInv, LatchOwed
    <3>3. toSketch'[client] = "DHT_GET"
      BY <3>1, <3>2, <2>2, <1>1, <1>2, WireTypes, SketchTypes DEF connected
    <3> QED BY <3>2, <3>3, <1>1 DEF connected
  <2> QED BY <2>1, <2>2
<1> QED BY <1>5, <1>6, <1>7, <1>8, <1>9, <1>11, <1>12 DEF SketchInv

LEMMA ServerRaisesInv == SketchInv /\ ServerRaises => SketchInv'
<1> SUFFICES ASSUME SketchInv, ServerRaises PROVE SketchInv'
  OBVIOUS
<1>1. /\ spc' = "dead"
      /\ UNCHANGED <<ClientState, pc, client, toServer, toSketch, sketchEnd,
                     serverEnd, sbacklog, sconn, scmdsts, forgot, sfaults,
                     reboots>>
  BY DEF ServerRaises, sketchVars, wires, tally
<1>2. SketchTypeOK'
  BY <1>1 DEF SketchInv, SketchTypeOK
<1>3. OnePlace' /\ LiveUnread'
  BY <1>1 DEF SketchInv, OnePlace, LiveUnread, Live, Unread, Kept
<1>4. NewIsEmpty' /\ AnswersFit' /\ OkEndsWait' /\ LatchOwed'
  BY <1>1
     DEF SketchInv, NewIsEmpty, AnswersFit, OkEndsWait, LatchOwed, connected
<1> QED BY <1>2, <1>3, <1>4 DEF SketchInv

(* A new server has no connection and waits for no reading.                *)
LEMMA ServerRestartInv == SketchInv /\ ServerRestart => SketchInv'
<1> SUFFICES ASSUME SketchInv, ServerRestart PROVE SketchInv'
  OBVIOUS
<1>1. /\ sfaults < MAX_STOPS /\ sfaults' = sfaults + 1
      /\ serverEnd' = [c \in Socket |-> FALSE]
      /\ sbacklog' = <<>> /\ spc' = "accept" /\ sconn' = 0 /\ scmdsts' = 0
      /\ forgot' = FALSE
      /\ UNCHANGED <<ClientState, pc, client, toServer, toSketch, sketchEnd,
                     reboots>>
  BY DEF ServerRestart, sketchVars
<1>2. ToSet(<<>>) = {}
  BY DEF ToSet
<1>3. SketchTypeOK'
  <2>1. sfaults' \in 0..MAX_STOPS
    BY <1>1, SocketFacts DEF SketchInv, SketchTypeOK
  <2>2. sbacklog' \in Seq(Socket) /\ Len(sbacklog') <= BACKLOG
    BY <1>1, SocketFacts
  <2>3. serverEnd' \in [Socket -> BOOLEAN]
    BY <1>1
  <2> QED BY <1>1, <2>1, <2>2, <2>3 DEF SketchInv, SketchTypeOK
<1>4. OnePlace' /\ LiveUnread'
  BY <1>1, <1>2 DEF OnePlace, LiveUnread, Live
<1>5. NewIsEmpty' /\ AnswersFit' /\ OkEndsWait' /\ LatchOwed'
  BY <1>1 DEF SketchInv, NewIsEmpty, AnswersFit, OkEndsWait, LatchOwed
<1> QED BY <1>3, <1>4, <1>5 DEF SketchInv

(* Every step keeps the invariant.                                         *)
LEMMA NextSketchInv == SketchInv /\ [SketchNext]_sketchLink => SketchInv'
<1> SUFFICES ASSUME SketchInv, [SketchNext]_sketchLink PROVE SketchInv'
  OBVIOUS
<1>1. CASE Sketch
  BY <1>1, ConnectInv, ConnectFailsInv, AskInv, MeasureInv, StopInv,
     ReadGetInv, ReadOkInv, LeaveInv DEF Sketch
<1>2. CASE Server
  BY <1>2, ServerAcceptInv, ServerRecvInv, ServerRaisesInv DEF Server
<1>3. CASE heartBeat \/ BoardReboot \/ ServerRestart
  BY <1>3, heartBeatInv, BoardRebootInv, ServerRestartInv
<1>4. CASE UNCHANGED sketchLink
  <2>1. UNCHANGED <<ClientState, pc, client, toServer, toSketch, sketchEnd,
                    serverEnd, sbacklog, spc, sconn, scmdsts, forgot, sfaults,
                    reboots>>
    BY <1>4 DEF sketchLink, sketchVars, wires, serverVars, tally
  <2>2. SketchTypeOK' /\ OnePlace' /\ LiveUnread'
    BY <2>1
       DEF SketchInv, SketchTypeOK, OnePlace, LiveUnread, Live, Unread, Kept
  <2>3. NewIsEmpty' /\ AnswersFit' /\ OkEndsWait' /\ LatchOwed'
    BY <2>1
       DEF SketchInv, NewIsEmpty, AnswersFit, OkEndsWait, LatchOwed, connected
  <2> QED BY <2>2, <2>3 DEF SketchInv
<1> QED BY <1>1, <1>2, <1>3, <1>4 DEF SketchNext

(* The invariant holds in every reachable state: whatever breaks, the      *)
(* server never has two messages of the sketch's current connection.       *)
THEOREM SketchInvariance == SketchSpec => []SketchInv
  BY InitSketchInv, NextSketchInv, PTL DEF SketchSpec

(* SketchSound, the property of the run link: the answer that waits for    *)
(* the sketch is the one its loop is for, and the server waits for a       *)
(* reading only while one is coming.                                       *)
THEOREM SketchCorrect == SketchSpec => []SketchSound
<1>1. SketchInv => SketchSound
  BY DEF SketchInv, SketchSound
<1> QED BY <1>1, SketchInvariance, PTL

-----------------------------------------------------------------------------
(* The stream of answers: the length, the newline, the bytes of one text   *)
(* in their order, and then the next length or nothing yet.                *)
IsLength(x) == x = [len |-> BODY]
Final(a, i) == i + (BODY - a[i].byte)
TextFrom(a, i) ==
  /\ Final(a, i) <= Len(a)
  /\ \A j \in i..Final(a, i) :
       a[j] = [echo |-> a[i].echo, byte |-> a[i].byte + (j - i)]
  /\ Final(a, i) + 1 <= Len(a) => IsLength(a[Final(a, i) + 1])
Follows(a, i) ==
  /\ IsLength(a[i]) => i + 1 <= Len(a) /\ a[i + 1] = NL
  /\ a[i] = NL => /\ i + 1 <= Len(a) /\ a[i + 1] \in TextByte
                  /\ a[i + 1].byte = 1
  /\ a[i] \in TextByte => TextFrom(a, i)
Stream(a) == \A i \in 1..Len(a) : Follows(a, i)
AtStart(a) == a = <<>> \/ IsLength(a[1])

(* What the client has read so far ends where the stream goes on.          *)
BodyRead(v, a) ==
  /\ Len(v) < BODY =>
       /\ a # <<>> /\ a[1] \in TextByte /\ a[1].byte = Len(v) + 1
       /\ \A i \in 1..Len(v) : v[i] = [echo |-> a[1].echo, byte |-> i]
  /\ Len(v) = BODY =>
       /\ AtStart(a)
       /\ \A i \in 1..Len(v) : v[i] = [echo |-> v[1].echo, byte |-> i]
InPhase ==
  /\ caller.at \in {"idle", "closed"} => AtStart(answers)
  /\ caller.at = "line" =>
       /\ caller.view = <<>> /\ Len(got) < caller.n
       /\ caller.total = 0 => AtStart(answers)
       /\ caller.total # 0 => answers # <<>> /\ answers[1] = NL
  /\ caller.at = "body" =>
       /\ caller.total = BODY /\ Len(got) < caller.n
       /\ BodyRead(caller.view, answers)

(* With client.py at most one request or one answer is under way.          *)
Current(d) == d = Request(caller.n, TRUE)
OneAtATime ==
  /\ requests # <<>> => /\ Current(requests) /\ answers = <<>>
                        /\ caller.at = "line" /\ caller.total = 0
  /\ caller.at \in {"idle", "closed"} => answers = <<>> /\ Len(got) = caller.n
  /\ caller.at \in {"line", "body"} => Len(got) + 1 = caller.n
  /\ \A i \in 1..Len(answers) :
       /\ answers[i] \in TextByte => Current(answers[i].echo)
       /\ IsLength(answers[i]) =>
            i = 1 /\ caller.at = "line" /\ caller.total = 0
  /\ caller.at = "body" /\ Len(caller.view) > 0 => Current(caller.view[1].echo)
  /\ EchoesRequest

JsonInv == /\ JsonTypeOK /\ WholeAnswers /\ Stream(answers) /\ InPhase
           /\ plain => OneAtATime

(* The three kinds of bytes.                                               *)
AnswerByte == LineByte \union TextByte

LEMMA JsonSizes ==
  /\ SENT \in Nat /\ SENT > 0 /\ BODY \in Nat /\ BODY > 0
  /\ ROUNDS \in Nat /\ ROUNDS > 0
  BY JsonAssumption

LEMMA ByteKinds ==
  /\ [len |-> BODY] \notin TextByte /\ NL \notin TextByte
  /\ [len |-> BODY] # NL
<1>1. DOMAIN [len |-> BODY] = {"len"} /\ DOMAIN NL = {"newline"}
  BY DEF NL
<1>2. \A x \in TextByte : DOMAIN x = {"echo", "byte"}
  BY DEF TextByte
<1>3. "len" # "echo" /\ "newline" # "echo" /\ "len" # "newline"
  OBVIOUS
<1> QED BY <1>1, <1>2, <1>3

LEMMA TextByteFields ==
  ASSUME NEW x \in TextByte
  PROVE  x.echo \in Seq(RequestByte) /\ x.byte \in Nat /\ x.byte \in 1..BODY
  BY JsonSizes DEF TextByte

LEMMA ByteIsText ==
  ASSUME NEW d \in Seq(RequestByte), NEW i \in 1..BODY
  PROVE  /\ [echo |-> d, byte |-> i] \in TextByte
         /\ [echo |-> d, byte |-> i].echo = d
         /\ [echo |-> d, byte |-> i].byte = i
  BY DEF TextByte

LEMMA ReplyIs ==
  ASSUME NEW d \in Seq(RequestByte)
  PROVE  /\ Reply(d) \in Seq(AnswerByte) /\ Len(Reply(d)) = BODY + 2
         /\ Reply(d)[1] = [len |-> BODY] /\ Reply(d)[2] = NL
         /\ \A i \in 1..BODY : Reply(d)[i + 2] = [echo |-> d, byte |-> i]
<1> DEFINE h == <<[len |-> BODY], NL>>
           t == Text(d)
<1>1. h \in Seq(AnswerByte) /\ Len(h) = 2 /\ h[1] = [len |-> BODY] /\ h[2] = NL
  BY DEF AnswerByte, LineByte
<1>2. /\ t \in Seq(AnswerByte) /\ Len(t) = BODY
      /\ \A i \in 1..BODY : t[i] = [echo |-> d, byte |-> i]
  <2>1. t = [i \in 1..BODY |-> [echo |-> d, byte |-> i]]
    BY DEF Text
  <2>2. t \in [1..BODY -> AnswerByte]
    BY <2>1, ByteIsText DEF AnswerByte
  <2>3. t \in Seq(AnswerByte) /\ Len(t) = BODY
    BY <2>2, JsonSizes
  <2> QED BY <2>1, <2>3
<1>3. Reply(d) = h \o t
  BY DEF Reply
<1> HIDE DEF h, t
<1>4. /\ h \o t \in Seq(AnswerByte) /\ Len(h \o t) = BODY + 2
      /\ \A i \in 1..Len(h) + Len(t) :
           (h \o t)[i] = IF i <= Len(h) THEN h[i] ELSE t[i - Len(h)]
  <2>1. /\ h \o t \in Seq(AnswerByte) /\ Len(h \o t) = Len(h) + Len(t)
        /\ \A i \in 1..Len(h) + Len(t) :
             (h \o t)[i] = IF i <= Len(h) THEN h[i] ELSE t[i - Len(h)]
    BY <1>1, <1>2, ConcatProperties
  <2> QED BY <2>1, <1>1, <1>2, JsonSizes
<1>5. ASSUME NEW i \in 1..BODY
      PROVE  (h \o t)[i + 2] = [echo |-> d, byte |-> i]
  <2>1. /\ i + 2 \in 1..Len(h) + Len(t) /\ ~(i + 2 <= Len(h))
        /\ (i + 2) - Len(h) = i
    BY <1>1, <1>2, JsonSizes
  <2> QED BY <1>2, <1>4, <2>1
<1>6. (h \o t)[1] = [len |-> BODY] /\ (h \o t)[2] = NL
  BY <1>1, <1>2, <1>4, JsonSizes
<1> QED BY <1>3, <1>4, <1>5, <1>6

-----------------------------------------------------------------------------
(* Taking bytes from the front of a stream, and a reply behind it.         *)
LEMMA DropIs ==
  ASSUME NEW a \in Seq(AnswerByte), NEW k \in Nat, k <= Len(a)
  PROVE  LET b == SubSeq(a, k + 1, Len(a))
         IN  /\ b \in Seq(AnswerByte) /\ Len(b) = Len(a) - k
             /\ \A i \in 1..Len(b) : i + k \in 1..Len(a) /\ b[i] = a[i + k]
<1> DEFINE b == SubSeq(a, k + 1, Len(a))
<1>1. /\ Len(a) \in Nat /\ k + 1 \in Int /\ Len(a) \in Int
      /\ \A i \in (k + 1)..Len(a) : a[i] \in AnswerByte
  OBVIOUS
<1>2. /\ b \in Seq(AnswerByte)
      /\ Len(b) = IF k + 1 <= Len(a) THEN Len(a) - (k + 1) + 1 ELSE 0
      /\ \A i \in 1..(Len(a) - (k + 1) + 1) : b[i] = a[(k + 1) + i - 1]
  BY <1>1, SubSeqProperties
<1> HIDE DEF b
<1>3. Len(b) = Len(a) - k
  BY <1>1, <1>2
<1>4. ASSUME NEW i \in 1..Len(b) PROVE i + k \in 1..Len(a) /\ b[i] = a[i + k]
  <2>1. i \in 1..(Len(a) - (k + 1) + 1) /\ (k + 1) + i - 1 = i + k
    BY <1>1, <1>3
  <2>2. i + k \in 1..Len(a)
    BY <1>1, <1>3
  <2>3. b[i] = a[(k + 1) + i - 1]
    BY <2>1, <1>2
  <2> QED BY <2>1, <2>2, <2>3
<1> QED BY <1>2, <1>3, <1>4 DEF b

LEMMA FinalIs ==
  ASSUME NEW a \in Seq(AnswerByte), NEW i \in Nat, a[i] \in TextByte
  PROVE  /\ Final(a, i) \in Nat /\ i <= Final(a, i)
         /\ Final(a, i) = i + BODY - a[i].byte
         /\ BODY \in Nat /\ a[i].byte \in Nat
  BY TextByteFields, JsonSizes DEF Final

LEMMA DropStream ==
  ASSUME NEW a \in Seq(AnswerByte), NEW k \in Nat, k <= Len(a), Stream(a)
  PROVE  Stream(SubSeq(a, k + 1, Len(a)))
<1> DEFINE b == SubSeq(a, k + 1, Len(a))
<1>1. /\ b \in Seq(AnswerByte) /\ Len(b) = Len(a) - k
      /\ \A i \in 1..Len(b) : i + k \in 1..Len(a) /\ b[i] = a[i + k]
  BY DropIs
<1>2. Len(a) \in Nat /\ Len(b) \in Nat
  BY <1>1
<1> HIDE DEF b
<1> SUFFICES ASSUME NEW i \in 1..Len(b) PROVE Follows(b, i)
  BY DEF Stream, b
<1>3. Follows(a, i + k) /\ b[i] = a[i + k] /\ i + k \in 1..Len(a) /\ i \in Nat
  BY <1>1 DEF Stream
<1>4. i + 1 <= Len(b) <=> (i + k) + 1 <= Len(a)
  BY <1>1, <1>2, <1>3
<1>5. i + 1 <= Len(b) => b[i + 1] = a[(i + k) + 1]
  <2> SUFFICES ASSUME i + 1 <= Len(b) PROVE b[i + 1] = a[(i + k) + 1]
    OBVIOUS
  <2>1. i + 1 \in 1..Len(b) /\ (i + 1) + k = (i + k) + 1
    BY <1>2, <1>3
  <2> QED BY <2>1, <1>1
<1>6. ASSUME b[i] \in TextByte PROVE TextFrom(b, i)
  <2>1. TextFrom(a, i + k) /\ a[i + k] \in TextByte
    BY <1>6, <1>3 DEF Follows
  <2>2. Final(b, i) + k = Final(a, i + k)
    BY <1>3, <2>1, TextByteFields, JsonSizes DEF Final
  <2>3. /\ Final(b, i) \in Nat /\ Final(a, i + k) \in Nat /\ i <= Final(b, i)
        /\ i \in Nat /\ k \in Nat
    BY <1>6, <1>1, <1>3, <2>1, FinalIs
  <2>4. Final(b, i) <= Len(b)
    BY <1>1, <1>2, <2>1, <2>2, <2>3 DEF TextFrom
  <2>5. ASSUME NEW j \in i..Final(b, i)
        PROVE  b[j] = [echo |-> b[i].echo, byte |-> b[i].byte + (j - i)]
    <3>1. /\ j + k \in (i + k)..Final(a, i + k) /\ (j + k) - (i + k) = j - i
          /\ j \in 1..Len(b)
      BY <1>2, <1>3, <2>2, <2>3, <2>4
    <3>2. a[j + k] = [echo |-> a[i + k].echo,
                      byte |-> a[i + k].byte + ((j + k) - (i + k))]
      BY <2>1, <3>1 DEF TextFrom
    <3>3. b[j] = a[j + k]
      BY <1>1, <3>1
    <3> QED BY <3>1, <3>2, <3>3, <1>3
  <2>6. ASSUME Final(b, i) + 1 <= Len(b) PROVE IsLength(b[Final(b, i) + 1])
    <3>1. /\ Final(b, i) + 1 \in 1..Len(b)
          /\ (Final(b, i) + 1) + k = Final(a, i + k) + 1
          /\ Final(a, i + k) + 1 <= Len(a)
      BY <2>6, <1>1, <1>2, <2>2, <2>3
    <3>2. b[Final(b, i) + 1] = a[Final(a, i + k) + 1]
      BY <3>1, <1>1
    <3> QED BY <3>1, <3>2, <2>1 DEF TextFrom
  <2> QED BY <2>4, <2>5, <2>6 DEF TextFrom
<1>7. IsLength(b[i]) => i + 1 <= Len(b) /\ b[i + 1] = NL
  BY <1>3, <1>4, <1>5 DEF Follows
<1>8. b[i] = NL => /\ i + 1 <= Len(b) /\ b[i + 1] \in TextByte
                   /\ b[i + 1].byte = 1
  BY <1>3, <1>4, <1>5 DEF Follows
<1> QED BY <1>6, <1>7, <1>8 DEF Follows

LEMMA ReplyBehind ==
  ASSUME NEW a \in Seq(AnswerByte), NEW d \in Seq(RequestByte)
  PROVE  LET b == a \o Reply(d)
         IN  /\ b \in Seq(AnswerByte) /\ Len(b) = Len(a) + BODY + 2
             /\ \A i \in 1..Len(a) : b[i] = a[i]
             /\ b[Len(a) + 1] = [len |-> BODY] /\ b[Len(a) + 2] = NL
             /\ \A i \in 1..BODY : b[Len(a) + 2 + i] = [echo |-> d, byte |-> i]
<1> DEFINE r == Reply(d)
           b == a \o r
<1>1. /\ r \in Seq(AnswerByte) /\ Len(r) = BODY + 2
      /\ r[1] = [len |-> BODY] /\ r[2] = NL
      /\ \A i \in 1..BODY : r[i + 2] = [echo |-> d, byte |-> i]
  BY ReplyIs
<1> HIDE DEF r
<1>2. /\ b \in Seq(AnswerByte) /\ Len(b) = Len(a) + Len(r)
      /\ \A i \in 1..Len(a) + Len(r) :
           b[i] = IF i <= Len(a) THEN a[i] ELSE r[i - Len(a)]
  BY <1>1, ConcatProperties
<1>3. Len(a) \in Nat
  OBVIOUS
<1> HIDE DEF b
<1>4. ASSUME NEW i \in 1..BODY + 2 PROVE b[Len(a) + i] = r[i]
  <2>1. /\ Len(a) + i \in 1..Len(a) + Len(r) /\ ~(Len(a) + i <= Len(a))
        /\ (Len(a) + i) - Len(a) = i
    BY <1>1, <1>3, JsonSizes
  <2> QED BY <1>2, <2>1
<1>5. ASSUME NEW i \in 1..BODY
      PROVE  b[Len(a) + 2 + i] = [echo |-> d, byte |-> i]
  <2>1. i + 2 \in 1..BODY + 2 /\ Len(a) + (i + 2) = Len(a) + 2 + i
    BY <1>3, JsonSizes
  <2>2. b[Len(a) + (i + 2)] = r[i + 2]
    BY <2>1, <1>4
  <2> QED BY <1>1, <2>1, <2>2
<1>6. b[Len(a) + 1] = [len |-> BODY] /\ b[Len(a) + 2] = NL
  BY <1>1, <1>4, JsonSizes
<1>7. \A i \in 1..Len(a) : b[i] = a[i]
  BY <1>1, <1>2, <1>3, JsonSizes
<1>8. Len(b) = Len(a) + BODY + 2
  BY <1>1, <1>2, <1>3, JsonSizes
<1> QED BY <1>2, <1>5, <1>6, <1>7, <1>8 DEF b, r

LEMMA ReplyStream ==
  ASSUME NEW a \in Seq(AnswerByte), NEW d \in Seq(RequestByte), Stream(a)
  PROVE  Stream(a \o Reply(d))
<1> DEFINE b == a \o Reply(d)
           n == Len(a)
<1>1. /\ b \in Seq(AnswerByte) /\ Len(b) = n + BODY + 2
      /\ \A i \in 1..n : b[i] = a[i]
      /\ b[n + 1] = [len |-> BODY] /\ b[n + 2] = NL
      /\ \A i \in 1..BODY : b[n + 2 + i] = [echo |-> d, byte |-> i]
  BY ReplyBehind
<1>2. n \in Nat /\ n = Len(a) /\ BODY \in Nat /\ BODY > 0
  BY JsonSizes
<1> HIDE DEF b, n
<1> SUFFICES ASSUME NEW i \in 1..Len(b) PROVE Follows(b, i)
  BY DEF Stream, b
<1>3. CASE i <= n
  <2>1. i \in 1..n /\ i \in Nat /\ b[i] = a[i] /\ Follows(a, i)
    BY <1>1, <1>2, <1>3 DEF Stream
  <2>2. i + 1 <= Len(a) => i + 1 <= Len(b) /\ b[i + 1] = a[i + 1]
    <3> SUFFICES ASSUME i + 1 <= n PROVE i + 1 <= Len(b) /\ b[i + 1] = a[i + 1]
      BY <1>2
    <3>1. i + 1 \in 1..n /\ i + 1 <= Len(b)
      BY <2>1, <1>1, <1>2
    <3> QED BY <3>1, <1>1
  <2>3. ASSUME b[i] \in TextByte PROVE TextFrom(b, i)
    <3>1. TextFrom(a, i) /\ a[i] \in TextByte /\ Final(b, i) = Final(a, i)
      BY <2>1, <2>3 DEF Follows, Final
    <3>2. /\ Final(a, i) \in Nat /\ i <= Final(a, i) /\ Final(a, i) <= n
      BY <2>1, <3>1, <1>2, FinalIs DEF TextFrom
    <3>3. Final(b, i) <= Len(b)
      BY <1>1, <1>2, <3>1, <3>2
    <3>4. ASSUME NEW j \in i..Final(b, i)
          PROVE  b[j] = [echo |-> b[i].echo, byte |-> b[i].byte + (j - i)]
      <4>1. j \in 1..n /\ j \in i..Final(a, i)
        BY <2>1, <3>1, <3>2, <1>2
      <4> QED BY <4>1, <1>1, <2>1, <3>1 DEF TextFrom
    <3>5. ASSUME Final(b, i) + 1 <= Len(b) PROVE IsLength(b[Final(b, i) + 1])
      <4>1. CASE Final(a, i) = n
        BY <4>1, <3>1, <1>1 DEF IsLength
      <4>2. CASE Final(a, i) # n
        <5>1. Final(a, i) + 1 \in 1..n
          BY <4>2, <3>2, <1>2
        <5> QED BY <5>1, <1>1, <1>2, <3>1, <3>2 DEF TextFrom
      <4> QED BY <4>1, <4>2
    <3> QED BY <3>3, <3>4, <3>5 DEF TextFrom
  <2> QED BY <2>1, <2>2, <2>3 DEF Follows
<1>4. CASE i = n + 1
  <2>1. i + 1 <= Len(b) /\ i + 1 = n + 2
    BY <1>1, <1>2, <1>4
  <2> QED BY <2>1, <1>1, <1>4, ByteKinds DEF Follows
<1>5. CASE i = n + 2
  <2>1. i + 1 <= Len(b) /\ i + 1 = n + 2 + 1 /\ 1 \in 1..BODY
    BY <1>1, <1>2, <1>5
  <2>2. b[i + 1] = [echo |-> d, byte |-> 1]
    BY <2>1, <1>1
  <2> QED BY <2>1, <2>2, <1>1, <1>5, ByteIsText, ByteKinds
          DEF Follows, IsLength
<1>6. CASE i > n + 2
  <2> DEFINE m == i - (n + 2)
  <2>1. m \in 1..BODY /\ m \in Nat /\ n + 2 + m = i /\ i \in Nat
    BY <1>1, <1>2, <1>6
  <2> HIDE DEF m
  <2>2. b[i] = [echo |-> d, byte |-> m]
    BY <1>1, <2>1
  <2>3. b[i] \in TextByte /\ b[i].echo = d /\ b[i].byte = m
    BY <2>1, <2>2, ByteIsText
  <2>a. /\ Len(b) = n + BODY + 2 /\ n \in Nat /\ BODY \in Nat
        /\ m \in Nat /\ n + 2 + m = i
    BY <1>1, <1>2, <2>1
  <2>4. Final(b, i) = Len(b)
    <3>1. Final(b, i) = i + (BODY - m)
      BY <2>3 DEF Final
    <3> QED BY <3>1, <2>a
  <2>5. ASSUME NEW j \in i..Final(b, i)
        PROVE  b[j] = [echo |-> b[i].echo, byte |-> b[i].byte + (j - i)]
    <3>1. /\ j - (n + 2) \in 1..BODY /\ n + 2 + (j - (n + 2)) = j
          /\ j - (n + 2) = m + (j - i)
      <4>1. j \in i..Len(b)
        BY <2>4
      <4> HIDE DEF Final
      <4> QED BY <4>1, <2>1, <2>a
    <3>2. b[n + 2 + (j - (n + 2))] = [echo |-> d, byte |-> j - (n + 2)]
      BY <3>1, <1>1
    <3> QED BY <3>1, <3>2, <2>3
  <2>6. TextFrom(b, i)
    BY <2>4, <2>5, <1>1, <1>2 DEF TextFrom
  <2> QED BY <2>3, <2>6, ByteKinds DEF Follows, IsLength
<1>7. i <= n \/ i = n + 1 \/ i = n + 2 \/ i > n + 2
  BY <1>1, <1>2
<1> QED BY <1>3, <1>4, <1>5, <1>6, <1>7

-----------------------------------------------------------------------------
(* What the types say.                                                     *)
LEMMA CallerTypes ==
  ASSUME JsonInv
  PROVE  /\ caller.at \in {"idle", "line", "body", "closed"}
         /\ caller.n \in 0..ROUNDS /\ caller.n \in Nat
         /\ caller.total \in {0, BODY} /\ caller.total \in Nat
         /\ caller.view \in Seq(TextByte) /\ Len(caller.view) \in Nat
         /\ Len(caller.view) <= caller.total
         /\ caller = [at |-> caller.at, n |-> caller.n, total |-> caller.total,
                      view |-> caller.view]
<1>1. caller \in [at : {"idle", "line", "body", "closed"}, n : 0..ROUNDS,
                 total : {0, BODY}, view : Seq(TextByte)]
        /\ Len(caller.view) <= caller.total
  BY DEF JsonInv, JsonTypeOK
<1> QED BY <1>1, JsonSizes

LEMMA WireTypesJson ==
  ASSUME JsonInv
  PROVE  /\ thread \in [at : {"recv", "closed"}, serialized : Seq(RequestByte)]
         /\ requests \in Seq(RequestByte) /\ Len(requests) \in Nat
         /\ answers \in Seq(AnswerByte) /\ Len(answers) \in Nat
         /\ got \in Seq(Seq(TextByte)) /\ Len(got) \in Nat
         /\ Len(got) <= caller.n
         /\ plain \in BOOLEAN
  BY DEF JsonInv, JsonTypeOK, AnswerByte

LEMMA InitJsonInv == JsonInit => JsonInv
<1> SUFFICES ASSUME JsonInit PROVE JsonInv
  OBVIOUS
<1>1. /\ caller = [at |-> "idle", n |-> 0, total |-> 0, view |-> <<>>]
      /\ thread = [at |-> "recv", serialized |-> <<>>]
      /\ requests = <<>> /\ answers = <<>> /\ got = <<>> /\ plain \in BOOLEAN
  BY DEF JsonInit, NONE
<1>2. /\ caller.at = "idle" /\ caller.n = 0 /\ caller.total = 0
      /\ caller.view = <<>>
  BY <1>1
<1>3. JsonTypeOK
  <2>1. 0 \in 0..ROUNDS /\ <<>> \in Seq(TextByte) /\ <<>> \in Seq(RequestByte)
    BY JsonSizes
  <2>2. caller \in [at : {"idle", "line", "body", "closed"}, n : 0..ROUNDS,
                   total : {0, BODY}, view : Seq(TextByte)]
    BY <1>1, <2>1
  <2>3. thread \in [at : {"recv", "closed"}, serialized : Seq(RequestByte)]
    BY <1>1, <2>1
  <2>4. Len(got) <= caller.n /\ Len(caller.view) <= caller.total
    BY <1>1, <1>2
  <2> QED BY <1>1, <2>2, <2>3, <2>4 DEF JsonTypeOK
<1>4. WholeAnswers /\ EchoesRequest
  BY <1>1 DEF WholeAnswers, EchoesRequest
<1>5. Stream(answers) /\ AtStart(answers)
  BY <1>1 DEF Stream, AtStart
<1>6. InPhase
  BY <1>2, <1>5 DEF InPhase
<1>7. OneAtATime
  BY <1>1, <1>2, <1>4 DEF OneAtATime
<1> QED BY <1>3, <1>4, <1>5, <1>6, <1>7 DEF JsonInv

LEMMA RequestIs ==
  ASSUME NEW n \in 1..ROUNDS, NEW ascii \in BOOLEAN
  PROVE  /\ Request(n, ascii) \in Seq(RequestByte)
         /\ Len(Request(n, ascii)) = SENT /\ Request(n, ascii) # <<>>
         /\ \A i \in 1..SENT : Request(n, ascii)[i].ascii = ascii
<1> DEFINE r == Request(n, ascii)
<1>1. r = [i \in 1..SENT |-> [req |-> n, byte |-> i, ascii |-> ascii]]
  BY DEF Request
<1>2. r \in [1..SENT -> RequestByte]
  BY <1>1 DEF RequestByte
<1>3. r \in Seq(RequestByte) /\ Len(r) = SENT
  BY <1>2, JsonSizes
<1>4. r # <<>>
  BY <1>3, JsonSizes
<1>5. \A i \in 1..SENT : r[i].ascii = ascii
  BY <1>1
<1> QED BY <1>3, <1>4, <1>5

LEMMA PingInv == JsonInv /\ Ping => JsonInv'
<1> SUFFICES ASSUME JsonInv, Ping PROVE JsonInv'
  OBVIOUS
<1>1. /\ caller.at = "idle" /\ caller.n < ROUNDS
      /\ caller' = [at |-> "line", n |-> caller.n + 1, total |-> 0,
                    view |-> <<>>]
      /\ UNCHANGED <<plain, thread, answers, got>>
  BY DEF Ping
<1>2. PICK ascii \in BOOLEAN :
        /\ plain => ascii
        /\ requests' = requests \o Request(caller.n + 1, ascii)
  BY DEF Ping
<1>3. caller.n + 1 \in 1..ROUNDS
  BY <1>1, CallerTypes, JsonSizes
<1>4. /\ caller'.at = "line" /\ caller'.n = caller.n + 1 /\ caller'.total = 0
      /\ caller'.view = <<>>
  BY <1>1
<1>5. JsonTypeOK'
  <2>1. caller' \in [at : {"idle", "line", "body", "closed"}, n : 0..ROUNDS,
                    total : {0, BODY}, view : Seq(TextByte)]
    <3>1. caller.n + 1 \in 0..ROUNDS /\ <<>> \in Seq(TextByte)
      BY <1>3
    <3> QED BY <1>1, <3>1
  <2>2. requests' \in Seq(RequestByte)
    BY <1>2, <1>3, WireTypesJson, RequestIs, ConcatProperties
  <2>3. Len(got') <= caller'.n
    BY <1>1, <1>4, CallerTypes, WireTypesJson
  <2>4. Len(caller'.view) <= caller'.total
    BY <1>4
  <2> QED BY <1>1, <2>1, <2>2, <2>3, <2>4 DEF JsonInv, JsonTypeOK
<1>6. WholeAnswers' /\ Stream(answers)'
  BY <1>1 DEF JsonInv, WholeAnswers
<1>7. InPhase'
  <2>1. AtStart(answers) /\ Len(got) < caller.n + 1
    BY <1>1, CallerTypes, WireTypesJson DEF JsonInv, InPhase
  <2> QED BY <2>1, <1>1, <1>4 DEF InPhase
<1>8. ASSUME plain PROVE OneAtATime'
  <2>1. OneAtATime /\ answers = <<>> /\ Len(got) = caller.n /\ requests = <<>>
    BY <1>8, <1>1 DEF JsonInv, OneAtATime
  <2>2. requests' = Request(caller.n + 1, TRUE)
    <3>1. requests' = <<>> \o Request(caller.n + 1, ascii) /\ ascii = TRUE
      BY <1>2, <1>8, <2>1
    <3> QED BY <3>1, <1>3, RequestIs
  <2>3. requests' = Request(caller'.n, TRUE)
    BY <2>2, <1>4
  <2>4. EchoesRequest'
    BY <2>1, <1>1 DEF OneAtATime, EchoesRequest
  <2>5. answers' = <<>> /\ Len(got') + 1 = caller'.n
    BY <2>1, <1>1, <1>4
  <2> QED BY <2>3, <2>4, <2>5, <1>4 DEF OneAtATime, Current
<1> QED BY <1>1, <1>5, <1>6, <1>7, <1>8 DEF JsonInv

LEMMA CloseInv == JsonInv /\ Close => JsonInv'
<1> SUFFICES ASSUME JsonInv, Close PROVE JsonInv'
  OBVIOUS
<1>1. /\ caller.at = "idle" /\ caller' = [caller EXCEPT !.at = "closed"]
      /\ UNCHANGED <<plain, thread, requests, answers, got>>
  BY DEF Close
<1>2. /\ caller'.at = "closed" /\ caller'.n = caller.n
      /\ caller'.total = caller.total /\ caller'.view = caller.view
  BY <1>1, CallerTypes
<1>3. JsonTypeOK'
  BY <1>1, <1>2 DEF JsonInv, JsonTypeOK
<1>4. WholeAnswers' /\ Stream(answers)'
  BY <1>1 DEF JsonInv, WholeAnswers
<1>5. InPhase'
  BY <1>1, <1>2 DEF JsonInv, InPhase
<1>6. ASSUME plain PROVE OneAtATime'
  <2>1. OneAtATime
    BY <1>6 DEF JsonInv
  <2> QED BY <2>1, <1>1, <1>2 DEF OneAtATime, Current, EchoesRequest
<1> QED BY <1>1, <1>3, <1>4, <1>5, <1>6 DEF JsonInv

(* The client takes one byte of the line.                                  *)
LEMMA ReadLineInv == JsonInv /\ ReadLine => JsonInv'
<1> SUFFICES ASSUME JsonInv, ReadLine PROVE JsonInv'
  OBVIOUS
<1>1. /\ caller.at = "line" /\ answers # <<>> /\ answers' = Tail(answers)
      /\ caller' = IF Head(answers) = NL
                     THEN [caller EXCEPT !.at = "body"]
                     ELSE [caller EXCEPT !.total = Head(answers).len]
      /\ UNCHANGED <<plain, thread, requests, got>>
  BY DEF ReadLine
<1>2. /\ answers \in Seq(AnswerByte) /\ Len(answers) \in Nat
      /\ 1 <= Len(answers)
      /\ Head(answers) = answers[1] /\ Follows(answers, 1)
  <2>1. /\ answers \in Seq(AnswerByte) /\ 1 <= Len(answers)
        /\ Len(answers) \in Nat
          /\ Head(answers) = answers[1]
    BY <1>1, WireTypesJson
  <2> QED BY <2>1 DEF JsonInv, Stream
<1>3. /\ answers' = SubSeq(answers, 2, Len(answers))
      /\ answers' \in Seq(AnswerByte) /\ Len(answers') = Len(answers) - 1
      /\ \A i \in 1..Len(answers') : i + 1 \in 1..Len(answers)
                                      /\ answers'[i] = answers[i + 1]
  <2>1. answers' = SubSeq(answers, 1 + 1, Len(answers))
    BY <1>1, <1>2, TailIsSubSeq
  <2>2. 1 \in Nat /\ 1 <= Len(answers)
    BY <1>2
  <2>3. /\ SubSeq(answers, 1 + 1, Len(answers)) \in Seq(AnswerByte)
        /\ Len(SubSeq(answers, 1 + 1, Len(answers))) = Len(answers) - 1
        /\ \A i \in 1..Len(SubSeq(answers, 1 + 1, Len(answers))) :
             /\ i + 1 \in 1..Len(answers)
             /\ SubSeq(answers, 1 + 1, Len(answers))[i] = answers[i + 1]
    BY <2>2, <1>2, DropIs
  <2> QED BY <2>1, <2>3
<1>4. Stream(answers')
  <2>1. answers' = SubSeq(answers, 1 + 1, Len(answers))
    BY <1>3
  <2> QED BY <2>1, <1>2, DropStream DEF JsonInv
<1>5. /\ caller.view = <<>> /\ Len(got) < caller.n
      /\ caller.total = 0 => IsLength(answers[1])
      /\ caller.total # 0 => answers[1] = NL
  BY <1>1 DEF JsonInv, InPhase, AtStart
<1>6. CASE caller.total = 0
  <2>1. answers[1] = [len |-> BODY] /\ answers[1] # NL /\ answers[1].len = BODY
    BY <1>5, <1>6, ByteKinds DEF IsLength
  <2>2. caller' = [caller EXCEPT !.total = BODY]
    BY <1>1, <1>2, <2>1
  <2>3. /\ caller'.at = "line" /\ caller'.n = caller.n /\ caller'.total = BODY
        /\ caller'.view = caller.view
    BY <2>2, <1>1, CallerTypes
  <2>4. JsonTypeOK'
    <3>1. caller' \in [at : {"idle", "line", "body", "closed"}, n : 0..ROUNDS,
                      total : {0, BODY}, view : Seq(TextByte)]
      BY <2>2 DEF JsonInv, JsonTypeOK
    <3>2. Len(caller'.view) <= caller'.total
      BY <2>3, <1>5, JsonSizes
    <3> QED BY <3>1, <3>2, <2>3, <1>1, <1>3
            DEF JsonInv, JsonTypeOK, AnswerByte
  <2>5. answers' # <<>> /\ answers'[1] = NL
    <3>1. 2 <= Len(answers) /\ answers[2] = NL
      BY <1>2, <1>5, <1>6 DEF Follows
    <3>2. 1 \in 1..Len(answers') /\ 1 + 1 = 2
      BY <3>1, <1>2, <1>3
    <3>3. answers'[1] = answers[1 + 1]
      BY <3>2, <1>3
    <3>4. answers' # <<>>
      BY <3>2
    <3> QED BY <3>1, <3>2, <3>3, <3>4
  <2>6. InPhase'
    BY <2>3, <2>5, <1>1, <1>5, JsonSizes DEF InPhase
  <2>7. ASSUME plain PROVE OneAtATime'
    <3>1. OneAtATime
      BY <2>7 DEF JsonInv
    <3>2. requests = <<>>
      BY <3>1, <1>1 DEF OneAtATime
    <3>3. ASSUME NEW i \in 1..Len(answers')
          PROVE  /\ answers'[i] \in TextByte => Current(answers'[i].echo)
                 /\ ~IsLength(answers'[i])
      <4>1. /\ i + 1 \in 1..Len(answers) /\ i + 1 # 1
            /\ answers'[i] = answers[i + 1]
        BY <1>3
      <4> QED BY <4>1, <3>1 DEF OneAtATime
    <3>4. Len(got) + 1 = caller.n /\ EchoesRequest'
      BY <3>1, <1>1 DEF OneAtATime, EchoesRequest
    <3> QED BY <3>2, <3>3, <3>4, <2>3, <1>1 DEF OneAtATime, Current
  <2> QED BY <2>4, <2>6, <2>7, <1>1, <1>4 DEF JsonInv, WholeAnswers
<1>7. CASE caller.total # 0
  <2>1. answers[1] = NL
    BY <1>5, <1>7
  <2>2. caller' = [caller EXCEPT !.at = "body"]
    BY <1>1, <1>2, <2>1
  <2>3. /\ caller'.at = "body" /\ caller'.n = caller.n /\ caller'.total = BODY
        /\ caller'.view = <<>> /\ caller.total = BODY
    BY <2>2, <1>5, <1>7, CallerTypes
  <2>4. JsonTypeOK'
    <3>1. caller' \in [at : {"idle", "line", "body", "closed"}, n : 0..ROUNDS,
                      total : {0, BODY}, view : Seq(TextByte)]
      BY <2>2 DEF JsonInv, JsonTypeOK
    <3>2. Len(caller'.view) <= caller'.total
      BY <2>3, JsonSizes
    <3> QED BY <3>1, <3>2, <2>3, <1>1, <1>3
            DEF JsonInv, JsonTypeOK, AnswerByte
  <2>5. answers' # <<>> /\ answers'[1] \in TextByte /\ answers'[1].byte = 1
    <3>1. 2 <= Len(answers) /\ answers[2] \in TextByte /\ answers[2].byte = 1
      BY <2>1, <1>2 DEF Follows
    <3>2. 1 \in 1..Len(answers') /\ 1 + 1 = 2
      BY <3>1, <1>2, <1>3
    <3>3. answers'[1] = answers[1 + 1]
      BY <3>2, <1>3
    <3>4. answers' # <<>>
      BY <3>2
    <3> QED BY <3>1, <3>2, <3>3, <3>4
  <2>6. InPhase'
    <3>1. BodyRead(<<>>, answers')
      BY <2>5, JsonSizes DEF BodyRead
    <3> QED BY <2>3, <3>1, <1>1, <1>5 DEF InPhase
  <2>7. ASSUME plain PROVE OneAtATime'
    <3>1. OneAtATime
      BY <2>7 DEF JsonInv
    <3>2. requests = <<>>
      BY <3>1, <1>1, <1>7 DEF OneAtATime
    <3>3. ASSUME NEW i \in 1..Len(answers')
          PROVE  /\ answers'[i] \in TextByte => Current(answers'[i].echo)
                 /\ ~IsLength(answers'[i])
      <4>1. /\ i + 1 \in 1..Len(answers) /\ i + 1 # 1
            /\ answers'[i] = answers[i + 1]
        BY <1>3
      <4> QED BY <4>1, <3>1 DEF OneAtATime
    <3>4. Len(got) + 1 = caller.n /\ EchoesRequest'
      BY <3>1, <1>1 DEF OneAtATime, EchoesRequest
    <3>5. ~(Len(caller'.view) > 0)
      BY <2>3
    <3> QED BY <3>2, <3>3, <3>4, <3>5, <2>3, <1>1 DEF OneAtATime, Current
  <2> QED BY <2>4, <2>6, <2>7, <1>1, <1>4 DEF JsonInv, WholeAnswers
<1> QED BY <1>6, <1>7

LEMMA NextByte ==
  ASSUME NEW m \in Nat, NEW k \in Nat, NEW n \in Nat, m + k < n
  PROVE  /\ k + 1 \in 1..(n - m) /\ m + (k + 1) \in 1..n
         /\ m + (k + 1) = (m + k) + 1
  OBVIOUS

(* The client takes a piece of the body.                                   *)
LEMMA ReadBodyInv == JsonInv /\ ReadBody => JsonInv'
<1> SUFFICES ASSUME JsonInv, ReadBody PROVE JsonInv'
  OBVIOUS
<1>1. /\ caller.at = "body" /\ Len(caller.view) < caller.total
      /\ UNCHANGED <<plain, thread, requests, got>>
  BY DEF ReadBody
<1>2. PICK k \in 1..Missing :
        /\ k <= Len(answers)
        /\ caller' = [caller EXCEPT
                        !.view = caller.view \o SubSeq(answers, 1, k)]
        /\ answers' = SubSeq(answers, k + 1, Len(answers))
  BY DEF ReadBody
<1> DEFINE m == Len(caller.view)
           v == caller.view
           a == answers
           e == answers[1].echo
<1>3. /\ caller.total = BODY /\ Len(got) < caller.n /\ BodyRead(v, a)
      /\ m \in Nat /\ m < BODY /\ Len(a) \in Nat /\ BODY \in Nat
      /\ a \in Seq(AnswerByte) /\ v \in Seq(TextByte)
  BY <1>1, CallerTypes, WireTypesJson, JsonSizes DEF JsonInv, InPhase
<1>4. k \in Nat /\ 1 <= k /\ m + k <= BODY /\ k <= Len(a)
  BY <1>2, <1>3 DEF Missing
<1>5. /\ a[1] \in TextByte /\ a[1].byte = m + 1
      /\ \A i \in 1..m : v[i] = [echo |-> e, byte |-> i]
  BY <1>3 DEF BodyRead
<1>6. e \in Seq(RequestByte)
  BY <1>5, TextByteFields
<1>7. TextFrom(a, 1) /\ Final(a, 1) = BODY - m
  <2>1. Follows(a, 1)
    BY <1>4, <1>3 DEF JsonInv, Stream
  <2>2. Final(a, 1) = 1 + (BODY - (m + 1))
    BY <1>5 DEF Final
  <2> QED BY <2>1, <2>2, <1>3, <1>5 DEF Follows
<1>8. ASSUME NEW j \in 1..(BODY - m)
      PROVE  a[j] = [echo |-> e, byte |-> m + j]
  <2>1. j \in 1..Final(a, 1) /\ (m + 1) + (j - 1) = m + j
    BY <1>3, <1>7
  <2> QED BY <2>1, <1>5, <1>7 DEF TextFrom
<1> DEFINE s == SubSeq(a, 1, k)
           w == v \o s
           b == SubSeq(a, k + 1, Len(a))
<1>9. /\ s \in Seq(TextByte) /\ Len(s) = k
      /\ \A i \in 1..k : s[i] = a[i]
  <2>1. \A i \in 1..k : a[i] \in TextByte
    <3> SUFFICES ASSUME NEW i \in 1..k PROVE a[i] \in TextByte
      OBVIOUS
    <3>1. i \in 1..(BODY - m) /\ m + i \in 1..BODY
      BY <1>3, <1>4
    <3>2. a[i] = [echo |-> e, byte |-> m + i]
      BY <3>1, <1>8
    <3> QED BY <3>1, <3>2, <1>6, ByteIsText
  <2>2. /\ s \in Seq(TextByte) /\ Len(s) = IF 1 <= k THEN k - 1 + 1 ELSE 0
        /\ \A i \in 1..(k - 1 + 1) : s[i] = a[1 + i - 1]
    BY <2>1, <1>4, SubSeqProperties
  <2>3. ASSUME NEW i \in 1..k PROVE s[i] = a[i]
    <3>1. i \in 1..(k - 1 + 1) /\ 1 + i - 1 = i
      BY <1>4
    <3>2. s[i] = a[1 + i - 1]
      BY <3>1, <2>2
    <3> QED BY <3>1, <3>2
  <2> QED BY <2>2, <2>3, <1>4
<1> HIDE DEF s
<1>10. /\ w \in Seq(TextByte) /\ Len(w) = m + k
       /\ \A i \in 1..(m + k) : w[i] = IF i <= m THEN v[i] ELSE s[i - m]
  BY <1>3, <1>9, ConcatProperties
<1> HIDE DEF w
<1>11. ASSUME NEW i \in 1..(m + k) PROVE w[i] = [echo |-> e, byte |-> i]
  <2>1. CASE i <= m
    <3>1. i \in 1..m
      BY <2>1, <1>3, <1>4
    <3> QED BY <3>1, <2>1, <1>5, <1>10
  <2>2. CASE ~(i <= m)
    <3>1. i - m \in 1..k /\ i - m \in 1..(BODY - m) /\ m + (i - m) = i
      BY <2>2, <1>3, <1>4
    <3>2. w[i] = a[i - m]
      BY <3>1, <2>2, <1>9, <1>10
    <3>3. a[i - m] = [echo |-> e, byte |-> m + (i - m)]
      BY <3>1, <1>8
    <3> QED BY <3>1, <3>2, <3>3
  <2> QED BY <2>1, <2>2
<1>12. /\ b \in Seq(AnswerByte) /\ Len(b) = Len(a) - k
       /\ \A i \in 1..Len(b) : i + k \in 1..Len(a) /\ b[i] = a[i + k]
  BY <1>3, <1>4, DropIs
<1>13. Stream(b)
  BY <1>3, <1>4, DropStream DEF JsonInv
<1> HIDE DEF b
<1>14. caller' = [caller EXCEPT !.view = w] /\ answers' = b
  BY <1>2 DEF w, s, b
<1>15. /\ caller'.at = "body" /\ caller'.n = caller.n /\ caller'.total = BODY
       /\ caller'.view = w
  BY <1>1, <1>3, <1>14, CallerTypes
<1>16. JsonTypeOK'
  <2>1. caller' \in [at : {"idle", "line", "body", "closed"}, n : 0..ROUNDS,
                    total : {0, BODY}, view : Seq(TextByte)]
    BY <1>10, <1>14 DEF JsonInv, JsonTypeOK
  <2>2. Len(caller'.view) <= caller'.total
    BY <1>4, <1>10, <1>15
  <2> QED BY <2>1, <2>2, <1>1, <1>12, <1>14, <1>15
          DEF JsonInv, JsonTypeOK, AnswerByte
<1>17. w # <<>> /\ w[1] = [echo |-> e, byte |-> 1] /\ w[1].echo = e
  <2>1. 1 \in 1..(m + k)
    BY <1>3, <1>4
  <2> QED BY <2>1, <1>10, <1>11
<1>a. /\ m \in Nat /\ k \in Nat /\ 1 <= k /\ m + k <= BODY /\ BODY \in Nat
      /\ Len(a) \in Nat /\ Len(b) = Len(a) - k /\ BODY - m <= Len(a)
      /\ Len(w) = m + k
  BY <1>3, <1>4, <1>7, <1>10, <1>12 DEF TextFrom
<1>18. BodyRead(w, b)
  <2>1. CASE m + k < BODY
    <3>1. k + 1 \in 1..(BODY - m) /\ m + (k + 1) \in 1..BODY
            /\ m + (k + 1) = (m + k) + 1
      <4>1. m \in Nat /\ k \in Nat /\ BODY \in Nat
        BY <1>a
      <4> HIDE DEF m
      <4> QED BY <4>1, <2>1, NextByte
    <3>2. a[k + 1] = [echo |-> e, byte |-> m + (k + 1)]
      BY <3>1, <1>8
    <3>3. a[k + 1] \in TextByte /\ a[k + 1].echo = e
            /\ a[k + 1].byte = m + (k + 1)
      <4> DEFINE i == m + (k + 1)
      <4>1. i \in 1..BODY /\ a[k + 1] = [echo |-> e, byte |-> i]
        BY <3>1, <3>2
      <4> HIDE DEF i, e
      <4>2. a[k + 1] \in TextByte /\ a[k + 1].echo = e /\ a[k + 1].byte = i
        BY <4>1, <1>6, ByteIsText
      <4> QED BY <4>2 DEF i
    <3>4. 1 \in 1..Len(b) /\ 1 + k = k + 1
      BY <2>1, <1>a
    <3>5. b[1] = a[k + 1] /\ b # <<>>
      <4>1. b[1] = a[1 + k]
        BY <3>4, <1>12
      <4>2. b # <<>>
        BY <3>4
      <4> QED BY <4>1, <4>2, <3>4
    <3>6. Len(w) < BODY /\ ~(Len(w) = BODY)
      BY <2>1, <1>a
    <3>7. b[1].byte = Len(w) + 1
      BY <3>1, <3>3, <3>5, <1>a
    <3>8. \A i \in 1..Len(w) : w[i] = [echo |-> b[1].echo, byte |-> i]
      BY <3>3, <3>5, <1>10, <1>11
    <3> QED BY <3>3, <3>5, <3>6, <3>7, <3>8 DEF BodyRead
  <2>2. CASE m + k = BODY
    <3>1. ASSUME b # <<>> PROVE IsLength(b[1])
      <4>1. Len(b) # 0
        BY <3>1, <1>12
      <4>2. 1 \in 1..Len(b)
        BY <4>1, <1>a
      <4>3. Final(a, 1) + 1 = 1 + k /\ 1 + k <= Len(a)
        BY <4>2, <2>2, <1>7, <1>a
      <4>4. b[1] = a[1 + k]
        BY <4>2, <1>12
      <4> QED BY <4>3, <4>4, <1>7 DEF TextFrom
    <3>2. Len(w) = BODY /\ ~(Len(w) < BODY)
      BY <2>2, <1>a
    <3>3. \A i \in 1..Len(w) : w[i] = [echo |-> w[1].echo, byte |-> i]
      BY <1>10, <1>11, <1>17
    <3> QED BY <3>1, <3>2, <3>3 DEF BodyRead, AtStart
  <2> QED BY <2>1, <2>2, <1>a
<1>19. InPhase'
  BY <1>1, <1>3, <1>14, <1>15, <1>18 DEF InPhase
<1>20. ASSUME plain PROVE OneAtATime'
  <2>1. OneAtATime
    BY <1>20 DEF JsonInv
  <2>2. requests = <<>> /\ Len(got) + 1 = caller.n /\ EchoesRequest'
    BY <2>1, <1>1 DEF OneAtATime, EchoesRequest
  <2>3. Current(e)
    <3>1. 1 \in 1..Len(a)
      BY <1>3, <1>4
    <3> QED BY <3>1, <2>1, <1>5 DEF OneAtATime
  <2>4. ASSUME NEW i \in 1..Len(b)
        PROVE  (b[i] \in TextByte => Current(b[i].echo)) /\ ~IsLength(b[i])
    <3>1. i + k \in 1..Len(a) /\ b[i] = a[i + k]
      BY <1>12
    <3> QED BY <3>1, <2>1, <1>1 DEF OneAtATime
  <2> QED BY <2>2, <2>3, <2>4, <1>1, <1>14, <1>15, <1>17
          DEF OneAtATime, Current
<1> QED BY <1>1, <1>13, <1>14, <1>16, <1>19, <1>20 DEF JsonInv, WholeAnswers

(* The client has a whole text.                                            *)
LEMMA LoadsInv == JsonInv /\ Loads => JsonInv'
<1> SUFFICES ASSUME JsonInv, Loads PROVE JsonInv'
  OBVIOUS
<1> DEFINE v == caller.view
<1>1. /\ caller.at = "body" /\ Len(v) >= caller.total /\ got' = Append(got, v)
      /\ caller' = [caller EXCEPT !.at = "idle"]
      /\ UNCHANGED <<plain, thread, requests, answers>>
  BY DEF Loads
<1>2. /\ caller.total = BODY /\ Len(got) < caller.n /\ BodyRead(v, answers)
      /\ Len(v) = BODY /\ v \in Seq(TextByte) /\ BODY \in Nat /\ BODY > 0
  BY <1>1, CallerTypes, JsonSizes DEF JsonInv, InPhase
<1>3. /\ caller'.at = "idle" /\ caller'.n = caller.n
      /\ caller'.total = caller.total /\ caller'.view = v
  BY <1>1, CallerTypes
<1>4. /\ AtStart(answers)
      /\ \A i \in 1..BODY : v[i] = [echo |-> v[1].echo, byte |-> i]
  BY <1>2 DEF BodyRead
<1> HIDE DEF v
<1>5. v = Text(v[1].echo)
  <2>1. v \in [1..BODY -> TextByte]
    BY <1>2
  <2>2. Text(v[1].echo) = [i \in 1..BODY |-> [echo |-> v[1].echo, byte |-> i]]
    BY DEF Text
  <2> HIDE DEF Text
  <2>3. \A i \in 1..BODY : v[i] = Text(v[1].echo)[i]
    BY <1>4, <2>2
  <2>4. v = [i \in 1..BODY |-> v[i]]
    BY <2>1
  <2> QED BY <2>2, <2>3, <2>4, <1>4
<1>6. /\ got' \in Seq(Seq(TextByte)) /\ Len(got') = Len(got) + 1
      /\ \A i \in 1..Len(got) : got'[i] = got[i]
      /\ got'[Len(got) + 1] = v
      /\ Len(got) \in Nat /\ caller.n \in Nat
  BY <1>1, <1>2, WireTypesJson, CallerTypes, AppendProperties
<1>7. DOMAIN got' = 1..(Len(got) + 1) /\ DOMAIN got = 1..Len(got)
  BY <1>6, WireTypesJson
<1>8. \A i \in 1..(Len(got) + 1) : i \in 1..Len(got) \/ i = Len(got) + 1
  BY <1>6
<1>9. JsonTypeOK'
  <2>1. caller' \in [at : {"idle", "line", "body", "closed"}, n : 0..ROUNDS,
                    total : {0, BODY}, view : Seq(TextByte)]
    BY <1>1 DEF JsonInv, JsonTypeOK
  <2>2. Len(got') <= caller'.n /\ Len(caller'.view) <= caller'.total
    BY <1>2, <1>3, <1>6
  <2> QED BY <2>1, <2>2, <1>1, <1>6 DEF JsonInv, JsonTypeOK
<1>10. WholeAnswers'
  <2>1. \A i \in 1..Len(got) : got[i] = Text(got[i][1].echo)
    BY <1>7 DEF JsonInv, WholeAnswers
  <2> QED BY <2>1, <1>5, <1>6, <1>7, <1>8 DEF WholeAnswers
<1>11. InPhase'
  BY <1>1, <1>3, <1>4 DEF InPhase
<1>12. ASSUME plain PROVE OneAtATime'
  <2>1. OneAtATime
    BY <1>12 DEF JsonInv
  <2>2. requests = <<>> /\ Len(got) + 1 = caller.n
    BY <2>1, <1>1 DEF OneAtATime
  <2>3. answers = <<>>
    <3> SUFFICES ASSUME answers # <<>> PROVE FALSE
      OBVIOUS
    <3>1. IsLength(answers[1]) /\ 1 \in 1..Len(answers)
      BY <1>4, WireTypesJson DEF AtStart
    <3> QED BY <3>1, <2>1, <1>1 DEF OneAtATime
  <2>4. v[1].echo = Request(caller.n, TRUE)
    <3>1. Len(v) > 0
      BY <1>2
    <3> QED BY <3>1, <2>1, <1>1 DEF OneAtATime, Current, v
  <2>5. EchoesRequest'
    <3> SUFFICES ASSUME NEW i \in 1..(Len(got) + 1)
                 PROVE  \E ascii \in BOOLEAN :
                          got'[i][1].echo = Request(i, ascii)
      BY <1>7 DEF EchoesRequest
    <3>1. CASE i \in 1..Len(got)
      BY <3>1, <2>1, <1>6, <1>7 DEF OneAtATime, EchoesRequest
    <3>2. CASE i = Len(got) + 1
      BY <3>2, <2>2, <2>4, <1>6
    <3> QED BY <3>1, <3>2, <1>8
  <2>6. Len(got') = caller'.n
    BY <2>2, <1>3, <1>6
  <2> QED BY <2>2, <2>3, <2>5, <2>6, <1>1, <1>3 DEF OneAtATime
<1> QED BY <1>1, <1>9, <1>10, <1>11, <1>12 DEF JsonInv

(* A reply comes behind what is under way.                                 *)
LEMMA ReplyPhase ==
  ASSUME JsonInv, NEW d \in Seq(RequestByte), UNCHANGED <<caller, got>>,
         answers' = answers \o Reply(d)
  PROVE  /\ answers' \in Seq(AnswerByte) /\ Stream(answers') /\ InPhase'
<1>1. /\ answers' \in Seq(AnswerByte)
      /\ Len(answers') = Len(answers) + BODY + 2
      /\ \A i \in 1..Len(answers) : answers'[i] = answers[i]
      /\ answers'[Len(answers) + 1] = [len |-> BODY]
      /\ answers \in Seq(AnswerByte) /\ Len(answers) \in Nat
  BY WireTypesJson, ReplyBehind
<1>2. Stream(answers')
  BY <1>1, ReplyStream DEF JsonInv
<1>3. answers' # <<>>
  BY <1>1, JsonSizes
<1>4. answers # <<>> => answers'[1] = answers[1]
  BY <1>1
<1>5. AtStart(answers) => AtStart(answers')
  <2>1. CASE answers = <<>>
    BY <2>1, <1>1 DEF AtStart, IsLength
  <2>2. CASE answers # <<>>
    BY <2>2, <1>4 DEF AtStart
  <2> QED BY <2>1, <2>2
<1>6. BodyRead(caller.view, answers) => BodyRead(caller.view, answers')
  BY <1>3, <1>4, <1>5 DEF BodyRead
<1>7. InPhase'
  BY <1>3, <1>4, <1>5, <1>6 DEF JsonInv, InPhase
<1> QED BY <1>1, <1>2, <1>7

LEMMA ThreadRecvInv == JsonInv /\ ThreadRecv => JsonInv'
<1> SUFFICES ASSUME JsonInv, ThreadRecv PROVE JsonInv'
  OBVIOUS
<1>1. /\ thread.at = "recv" /\ requests # <<>>
      /\ UNCHANGED <<plain, caller, got>>
  BY DEF ThreadRecv
<1>2. PICK k \in 1..Len(requests) :
        /\ plain => k = Len(requests)
        /\ Serve(SubSeq(requests, 1, k))
        /\ requests' = SubSeq(requests, k + 1, Len(requests))
  BY DEF ThreadRecv
<1> DEFINE data == SubSeq(requests, 1, k)
           new == Decoded(data)
<1>3. requests \in Seq(RequestByte) /\ Len(requests) \in Nat /\ k \in Nat
        /\ 1 <= k /\ k <= Len(requests)
  BY WireTypesJson
<1>4. data \in Seq(RequestByte) /\ requests' \in Seq(RequestByte)
  BY <1>2, <1>3, SubSeqProperties
<1>5. new \in Seq(RequestByte)
  BY <1>4, WireTypesJson DEF Decoded
<1>6. \/ /\ new = NONE /\ thread' = [thread EXCEPT !.at = "closed"]
         /\ answers' = answers
      \/ /\ new # NONE /\ thread' = [thread EXCEPT !.serialized = new]
         /\ answers' = answers \o Reply(new)
  BY <1>2 DEF Serve, Respond
<1> HIDE DEF new, data
<1>7. thread' \in [at : {"recv", "closed"}, serialized : Seq(RequestByte)]
  BY <1>5, <1>6, WireTypesJson
<1>8. answers' \in Seq(AnswerByte) /\ Stream(answers') /\ InPhase'
  <2>1. CASE answers' = answers
    BY <2>1, <1>1, WireTypesJson DEF JsonInv, InPhase
  <2>2. CASE answers' = answers \o Reply(new)
    BY <2>2, <1>1, <1>5, ReplyPhase
  <2> QED BY <2>1, <2>2, <1>6
<1>9. JsonTypeOK'
  BY <1>1, <1>4, <1>7, <1>8 DEF JsonInv, JsonTypeOK, AnswerByte
<1>10. ASSUME plain PROVE OneAtATime'
  <2>1. /\ OneAtATime /\ answers = <<>> /\ caller.at = "line"
        /\ caller.total = 0 /\ requests = Request(caller.n, TRUE)
        /\ k = Len(requests)
    BY <1>10, <1>1, <1>2 DEF JsonInv, OneAtATime, Current
  <2>2. requests' = <<>>
    <3>1. k = Len(requests) /\ k \in Nat
      BY <2>1, <1>3
    <3>2. k + 1 \in Int /\ k \in Int /\ k < k + 1
      BY <3>1
    <3>3. SubSeq(requests, k + 1, Len(requests)) = <<>>
      BY <3>1, <3>2, SubSeqEmpty
    <3> QED BY <3>3, <1>2
  <2>3. data = requests
    BY <2>1, <1>3, SubSeqFull DEF data
  <2>4. Len(got) + 1 = caller.n
    BY <2>1 DEF OneAtATime
  <2>5. caller.n \in 1..ROUNDS
    BY <2>4, WireTypesJson, CallerTypes
  <2>6. new = requests /\ new # NONE
    <3>1. \A i \in DOMAIN data : data[i].ascii = TRUE
      <4>1. DOMAIN requests = 1..SENT
        <5>1. Len(Request(caller.n, TRUE)) = SENT
          BY <2>5, RequestIs
        <5>2. DOMAIN requests = 1..Len(requests)
          BY <1>3, LenProperties
        <5> QED BY <5>1, <5>2, <2>1
      <4> QED BY <4>1, <2>1, <2>3, <2>5, RequestIs
    <3> QED BY <3>1, <2>3, <1>1 DEF new, Decoded, NONE
  <2>7. answers' = <<>> \o Reply(requests)
    BY <1>6, <2>1, <2>6
  <2> DEFINE r == Reply(requests)
  <2>8. answers' = r
    BY <2>7, <1>3, ReplyIs
  <2>9. /\ Len(r) = BODY + 2 /\ r[1] = [len |-> BODY] /\ r[2] = NL
        /\ \A i \in 1..BODY : r[i + 2] = [echo |-> requests, byte |-> i]
    BY <1>3, ReplyIs
  <2> HIDE DEF r
  <2>10. ASSUME NEW i \in 1..Len(r)
         PROVE  /\ r[i] \in TextByte => r[i].echo = requests
                /\ IsLength(r[i]) => i = 1
    <3>1. CASE i = 1
      BY <3>1, <2>9, ByteKinds
    <3>2. CASE i = 2
      BY <3>2, <2>9, ByteKinds DEF IsLength
    <3>3. CASE i > 2
      <4>1. i - 2 \in 1..BODY /\ (i - 2) + 2 = i
        BY <3>3, <2>9, JsonSizes
      <4>2. r[i] = [echo |-> requests, byte |-> i - 2]
        BY <4>1, <2>9
      <4>3. r[i] \in TextByte /\ r[i].echo = requests
        BY <4>1, <4>2, <1>3, ByteIsText
      <4> QED BY <4>3, ByteKinds DEF IsLength
    <3> QED BY <3>1, <3>2, <3>3, <2>9, JsonSizes
  <2>11. EchoesRequest'
    BY <2>1, <1>1 DEF OneAtATime, EchoesRequest
  <2> QED BY <2>1, <2>2, <2>4, <2>8, <2>10, <2>11, <1>1 DEF OneAtATime, Current
<1> QED BY <1>1, <1>8, <1>9, <1>10 DEF JsonInv, WholeAnswers

LEMMA TimedOutInv == JsonInv /\ TimedOut => JsonInv'
<1> SUFFICES ASSUME JsonInv, TimedOut PROVE JsonInv'
  OBVIOUS
<1>1. /\ thread' = [thread EXCEPT !.at = "closed"]
      /\ UNCHANGED <<plain, caller, requests, answers, got>>
  BY DEF TimedOut
<1>2. JsonTypeOK'
  BY <1>1 DEF JsonInv, JsonTypeOK
<1> QED BY <1>1, <1>2
        DEF JsonInv, WholeAnswers, InPhase, OneAtATime, Current, EchoesRequest

LEMMA NextJsonInv == JsonInv /\ [JsonNext]_jsonVars => JsonInv'
<1> SUFFICES ASSUME JsonInv, [JsonNext]_jsonVars PROVE JsonInv'
  OBVIOUS
<1>1. CASE JsonNext
  BY <1>1, PingInv, ReadLineInv, ReadBodyInv, LoadsInv, CloseInv,
     ThreadRecvInv, TimedOutInv DEF JsonNext
<1>2. CASE UNCHANGED jsonVars
  BY <1>2 DEF jsonVars, JsonInv, JsonTypeOK, WholeAnswers, InPhase,
              OneAtATime, Current, EchoesRequest
<1> QED BY <1>1, <1>2

(* The invariant holds in every reachable state: the client is never in    *)
(* another place of an answer than the stream.                             *)
THEOREM JsonInvariance == JsonSpec => []JsonInv
  BY InitJsonInv, NextJsonInv, PTL DEF JsonSpec

(* JsonSound, the property of the run link: json.loads is given one whole  *)
(* text, however the stream is cut, and with client.py the n-th answer has *)
(* the n-th request in it.                                                 *)
THEOREM JsonCorrect == JsonSpec => []JsonSound
<1>1. JsonInv => JsonSound
  BY DEF JsonInv, JsonSound, OneAtATime
<1> QED BY <1>1, JsonInvariance, PTL

-----------------------------------------------------------------------------
(* The inductive form of ReadingsAsked: the counters are numbers.          *)
Counters == /\ daemonSts \in Nat /\ gets \in Nat /\ temps \in Nat
            /\ ReadingsAsked

(* One call of daemonRequest hands over at most the reading that is owed.  *)
LEMMA RequestCounters ==
  ASSUME Counters, NEW nd, NEW data, daemonRequest(nd, data), gets' = gets,
         data \in {"NULL", "TEMP"}
  PROVE  Counters'
  <1>1. CASE daemonSts = 0 /\ espconn_send(nd, "DAEMON_ASK")
             /\ daemonSts' = daemonSts
    <2>1. temps' = temps
      BY <1>1 DEF espconn_send, Counters
    <2> QED
      BY <1>1, <2>1 DEF Counters, ReadingsAsked
  <1>2. CASE daemonSts = 1 /\ espconn_send(nd, data)
             /\ daemonSts' = daemonSts + 1
    <2>1. temps' = temps \/ temps' = temps + 1
      BY <1>2 DEF espconn_send, Counters
    <2> QED
      BY <1>2, <2>1 DEF Counters, ReadingsAsked
  <1>3. CASE daemonSts > 1 /\ UNCHANGED <<daemonSts, temps>>
    BY <1>3 DEF Counters, ReadingsAsked
  <1> QED
    BY <1>1, <1>2, <1>3 DEF daemonRequest

(* Every step of firmware, daemon and network preserves the counters.      *)
LEMMA NextCounters == Counters /\ [Next]_vars => Counters'
  <1> SUFFICES ASSUME Counters, [Next]_vars
               PROVE  Counters'
    OBVIOUS
  <1>1. CASE socketStarter
    BY <1>1 DEF socketStarter, history, Counters, ReadingsAsked
  <1>2. CASE daemonConnCbk
    BY <1>2, RequestCounters DEF daemonConnCbk
  <1>3. CASE daemonHandleAnswer
    <2>1. CASE daemonSts' = daemonSts + 1 /\ gets' = gets + 1
      BY <1>3, <2>1 DEF daemonHandleAnswer, Counters, ReadingsAsked
    <2>2. CASE daemonSts' = 0 /\ gets' = gets
      BY <1>3, <2>2 DEF daemonHandleAnswer, Counters, ReadingsAsked
    <2> QED
      BY <1>3, <2>1, <2>2 DEF daemonHandleAnswer
  <1>4. CASE mainTaskReport
    BY <1>4, RequestCounters DEF mainTaskReport
  <1>5. CASE PeerReset \/ Refused \/ ConnLost
    BY <1>5, RequestCounters DEF PeerReset, Refused, ConnLost, daemonReconnCbk
  <1>6. CASE Reboot
    BY <1>6 DEF Reboot, history, Counters, ReadingsAsked
  <1>7. CASE Acked \/ daemonDiscCbk \/ Accept \/ RecvRaises \/ Restart
             \/ UNCHANGED vars
    <2>1. UNCHANGED <<daemonSts, gets, temps>>
      BY <1>7 DEF Acked, daemonDiscCbk, Accept, RecvRaises, Restart, vars,
                  espVars, history
    <2> QED
      BY <2>1 DEF Counters, ReadingsAsked
  <1>8. CASE Recv
    <2>1. UNCHANGED <<espVars, history>>
      BY <1>8 DEF Recv, Answer
    <2> QED
      BY <2>1 DEF espVars, history, Counters, ReadingsAsked
  <1> QED
    BY <1>1, <1>2, <1>3, <1>4, <1>5, <1>6, <1>7, <1>8
    DEF Next, Esp, Daemon, Faults

(* No reading is volunteered and none is sent twice, whatever is lost,     *)
(* restarted or repeated.                                                  *)
THEOREM ReadingsSolicited == Spec => []ReadingsAsked
  <1>1. Init => Counters
    BY DEF Init, Counters, ReadingsAsked
  <1>2. Counters => ReadingsAsked
    BY DEF Counters
  <1> QED
    BY <1>1, <1>2, NextCounters, PTL DEF Spec

-----------------------------------------------------------------------------
(* A queue without repetitions stays one when a new element joins it, and  *)
(* when its first leaves.                                                  *)
Distinct(q) == \A i, j \in 1..Len(q) : q[i] = q[j] => i = j

LEMMA DistinctAppend ==
  ASSUME NEW S, NEW q \in Seq(S), NEW x \in S, Distinct(q),
         \A i \in 1..Len(q) : q[i] # x
  PROVE  Distinct(Append(q, x))
  <1> DEFINE r == Append(q, x)
  <1>1. /\ Len(r) = Len(q) + 1 /\ r[Len(q) + 1] = x
        /\ \A i \in 1..Len(q) : r[i] = q[i]
    OBVIOUS
  <1>2. Len(q) \in Nat
    OBVIOUS
  <1> HIDE DEF r
  <1>3. SUFFICES ASSUME NEW i \in 1..Len(r), NEW j \in 1..Len(r), r[i] = r[j]
                 PROVE  i = j
    BY DEF Distinct, r
  <1>4. i \in 1..Len(q) \/ i = Len(q) + 1
    BY <1>1, <1>2
  <1>5. j \in 1..Len(q) \/ j = Len(q) + 1
    BY <1>1, <1>2
  <1> QED
    BY <1>1, <1>3, <1>4, <1>5 DEF Distinct

LEMMA DistinctTail ==
  ASSUME NEW S, NEW q \in Seq(S), q # <<>>, Distinct(q)
  PROVE  /\ Tail(q) \in Seq(S) /\ Distinct(Tail(q)) /\ Head(q) \in S
         /\ \A i \in 1..Len(Tail(q)) : /\ i + 1 \in 1..Len(q)
                                       /\ Tail(q)[i] = q[i + 1]
                                       /\ Tail(q)[i] # Head(q)
  <1>1. /\ Tail(q) \in Seq(S) /\ Len(Tail(q)) = Len(q) - 1
        /\ Head(q) \in S /\ Head(q) = q[1] /\ Len(q) \in Nat \ {0}
        /\ \A i \in 1..Len(q) - 1 : Tail(q)[i] = q[i + 1]
    OBVIOUS
  <1>2. \A i \in 1..Len(Tail(q)) : i + 1 \in 1..Len(q) /\ 1 \in 1..Len(q)
                                  /\ i + 1 # 1 /\ i \in 1..Len(q) - 1
    BY <1>1
  <1> QED
    BY <1>1, <1>2 DEF Distinct

-----------------------------------------------------------------------------
(* The inductive invariant of OneGetAtATime.  A connection is coming until *)
(* the daemon's one recv on it.                                            *)
Opening(c) == c > conn \/ (c = conn /\ node = "syn")
Waiting(c) == \E i \in 1..Len(backlog) : backlog[i] = c
Coming(c)  == Opening(c) \/ Waiting(c) \/ (dpc = "recv" /\ dconn = c)

(* The daemon accepts each connection once, after its handshake.           *)
Queued ==
  /\ \A c \in Conn : Waiting(c) => ~Opening(c) /\ (dpc = "recv" => c # dconn)
  /\ Distinct(backlog)
  /\ dpc = "recv" => dconn \in Conn /\ ~Opening(dconn)

(* What a coming connection carries are asks; what the daemon answers is   *)
(* one DHT_GET.                                                            *)
Streams ==
  \A c \in Conn :
    /\ down[c] \in {<<>>, <<"DHT_GET">>}
    /\ Opening(c) => up[c] = <<>>
    /\ Coming(c) => /\ down[c] = <<>>
                    /\ \A i \in 1..Len(up[c]) : up[c][i] = "DAEMON_ASK"

(* After its DHT_GET the firmware has nothing on a coming connection that  *)
(* could bring it another.                                                 *)
Stages ==
  /\ node # "none" \/ daemonSts > 0 => conn > 0
  /\ daemonSts > 0 => down[conn] = <<>> /\ (Coming(conn) => up[conn] = <<>>)
  /\ daemonSts = 1 => ~Coming(conn)

LinkInv == LinkTypeOK /\ Queued /\ Streams /\ Stages

Messages == {"DAEMON_ASK", "TEMP"}

(* What a call of daemonRequest may do, by the status it finds.            *)
Try(nd) == /\ daemonSts = 0 /\ daemonSts' = 0 /\ conn' = conn /\ node' = nd
           /\ \/ up' = up
              \/ /\ nd = "est"
                 /\ up' = [up EXCEPT ![conn] = Append(@, "DAEMON_ASK")]
Reopen(nd) == /\ daemonSts = 1 /\ daemonSts' = 2 /\ up' = up
              /\ nd = "none" /\ node' = "syn"
              /\ conn' = conn + 1 /\ conn < MAX_CONN
Hand(nd) == /\ daemonSts = 1 /\ daemonSts' = 2 /\ conn' = conn /\ node' = nd
            /\ \/ up' = up
               \/ /\ nd = "est"
                  /\ up' = [up EXCEPT ![conn] = Append(@, "TEMP")]
Nothing(nd) == /\ daemonSts = 2 /\ daemonSts' = 2 /\ conn' = conn
               /\ node' = nd /\ up' = up

LEMMA RequestEffect ==
  ASSUME LinkTypeOK, NEW nd \in {"none", "syn", "est"}, nd # "none" => conn > 0,
         NEW data \in {"NULL", "TEMP"}, daemonRequest(nd, data)
  PROVE  /\ unacked' \in BOOLEAN /\ temps' \in Nat /\ claims' \in Nat
         /\ Try(nd) \/ Reopen(nd) \/ Hand(nd) \/ Nothing(nd)
  <1>1. ASSUME NEW msg \in {"NULL", "DAEMON_ASK", "TEMP"}, espconn_send(nd, msg)
        PROVE  /\ unacked' \in BOOLEAN /\ temps' \in Nat
               /\ \/ up' = up
                  \/ /\ nd = "est" /\ msg # "NULL"
                     /\ up' = [up EXCEPT ![conn] = Append(@, msg)]
    <2>1. CASE Sendable(nd, msg)
      <3>1. temps' = temps + (IF msg = "TEMP" THEN 1 ELSE 0)
        BY <1>1, <2>1 DEF espconn_send
      <3>2. temps' \in Nat
        BY <3>1 DEF LinkTypeOK
      <3> QED
        BY <1>1, <2>1, <3>2 DEF espconn_send, Sendable
    <2>2. CASE ~Sendable(nd, msg)
      <3>1. unacked' = (nd = "est" /\ unacked) /\ UNCHANGED <<up, temps>>
        BY <1>1, <2>2 DEF espconn_send
      <3>2. temps' \in Nat
        BY <3>1 DEF LinkTypeOK
      <3>3. unacked' \in BOOLEAN
        BY <3>1 DEF LinkTypeOK
      <3> QED
        BY <3>1, <3>2, <3>3
    <2> QED
      BY <2>1, <2>2
  <1>2. CASE /\ daemonSts = 0
             /\ espconn_send(nd, "DAEMON_ASK")
             /\ node' = nd
             /\ UNCHANGED <<daemonSts, conn, claims>>
    BY <1>1, <1>2 DEF LinkTypeOK, Try
  <1>3. CASE /\ daemonSts = 1
             /\ espconn_connect(nd)
             /\ espconn_send(nd, data)
             /\ daemonSts' = daemonSts + 1
             /\ claims' = claims + 1
    <2>1. claims' \in Nat /\ daemonSts' = 2
      BY <1>3 DEF LinkTypeOK
    <2>2. CASE nd = "none" /\ ip /\ conn < MAX_CONN
      BY <1>1, <1>3, <2>1, <2>2 DEF espconn_connect, Reopen, Hand
    <2>3. CASE ~(nd = "none" /\ ip /\ conn < MAX_CONN)
      BY <1>1, <1>3, <2>1, <2>3 DEF espconn_connect, Hand
    <2> QED
      BY <2>2, <2>3
  <1>4. CASE /\ daemonSts > 1
             /\ node' = nd
             /\ unacked' = (nd = "est" /\ unacked)
             /\ UNCHANGED <<daemonSts, conn, up, temps, claims>>
    <2>1. daemonSts = 2
      BY <1>4 DEF LinkTypeOK
    <2>2. unacked' \in BOOLEAN
      BY <1>4 DEF LinkTypeOK
    <2> QED
      BY <1>4, <2>1, <2>2 DEF LinkTypeOK, Nothing
  <1> QED
    BY <1>2, <1>3, <1>4 DEF daemonRequest

(* A call of daemonRequest keeps the invariant: from the connection's own  *)
(* state, when it has ended, and when its handshake has.                   *)
LEMMA RequestKeeps ==
  ASSUME LinkInv, NEW nd, NEW data \in {"NULL", "TEMP"},
         daemonRequest(nd, data), UNCHANGED <<down, dpc, dconn>>,
         \/ nd \in {node, "none"} /\ backlog' = backlog
         \/ node = "syn" /\ nd = "est" /\ backlog' = Append(backlog, conn)
  PROVE  Queued' /\ Streams' /\ Stages'
  <1>inv. LinkTypeOK /\ Queued /\ Streams /\ Stages
    BY DEF LinkInv
  <1>0. /\ nd \in {"none", "syn", "est"}
        /\ nd # "none" => conn > 0
        /\ nd = "syn" => node = "syn"
        /\ conn \in Nat /\ MAX_CONN \in Nat /\ up \in [Conn -> Seq(Messages)]
        /\ backlog \in Seq(Conn) /\ dconn \in Nat /\ daemonSts \in 0..2
    BY <1>inv, LinkAssumption DEF LinkTypeOK, Stages, Messages
  <1>1. Try(nd) \/ Reopen(nd) \/ Hand(nd) \/ Nothing(nd)
    BY <1>inv, <1>0, RequestEffect
  <1>est. nd = "est" => conn' = conn /\ node' = nd
    BY <1>1 DEF Try, Reopen, Hand, Nothing
  <1> USE <1>inv DEF Try, Reopen, Hand, Nothing
  <1>2. ASSUME NEW c \in Conn, Opening(c)'
        PROVE  Opening(c)
    BY <1>0, <1>1, <1>2 DEF Opening, Conn
  <1>3. ASSUME NEW c \in Conn, Waiting(c)'
        PROVE  Waiting(c) \/ (c = conn /\ node = "syn" /\ nd = "est")
    <2>1. CASE backlog' = backlog
      BY <1>3, <2>1 DEF Waiting
    <2>2. CASE node = "syn" /\ nd = "est" /\ backlog' = Append(backlog, conn)
      BY <1>0, <1>3, <2>2 DEF Waiting
    <2> QED
      BY <2>1, <2>2
  <1>4. ASSUME NEW c \in Conn, Coming(c)'
        PROVE  Coming(c)
    BY <1>2, <1>3, <1>4 DEF Coming, Opening
  <1>5. node = "syn" => daemonSts # 1
    BY DEF Stages, Coming, Opening
  <1>6. Queued'
    <2>1. \A c \in Conn : Waiting(c)' => ~Opening(c)' /\ (dpc = "recv" => c # dconn)
      <3> SUFFICES ASSUME NEW c \in Conn, Waiting(c)'
                   PROVE  ~Opening(c)' /\ (dpc = "recv" => c # dconn)
        OBVIOUS
      <3>1. CASE Waiting(c)
        BY <1>2, <3>1 DEF Queued
      <3>2. CASE c = conn /\ node = "syn" /\ nd = "est"
        BY <1>0, <1>est, <3>2 DEF Queued, Opening
      <3> QED
        BY <1>3, <3>1, <3>2
    <2>2. Distinct(backlog')
      <3>1. CASE backlog' = backlog
        BY <3>1 DEF Queued
      <3>2. CASE node = "syn" /\ backlog' = Append(backlog, conn)
        <4>1. conn \in Conn /\ Opening(conn)
          BY <1>0, <3>2 DEF Opening, LinkTypeOK, Conn, Stages
        <4>2. \A i \in 1..Len(backlog) : backlog[i] # conn
          BY <4>1 DEF Queued, Waiting
        <4> QED
          BY <1>0, <3>2, <4>1, <4>2, DistinctAppend DEF Queued
      <3> QED
        BY <3>1, <3>2
    <2>3. dpc = "recv" => ~Opening(dconn)' /\ dconn \in Conn
      BY <1>2 DEF Queued
    <2> QED
      BY <2>1, <2>2, <2>3 DEF Queued
  <1>7. Streams'
    <2> SUFFICES ASSUME NEW c \in Conn
                 PROVE  /\ down[c] \in {<<>>, <<"DHT_GET">>}
                        /\ Opening(c)' => up'[c] = <<>>
                        /\ Coming(c)' =>
                             /\ down[c] = <<>>
                             /\ \A i \in 1..Len(up'[c]) : up'[c][i] = "DAEMON_ASK"
      BY DEF Streams
    <2>1. CASE up'[c] = up[c]
      BY <1>2, <1>4, <2>1 DEF Streams
    <2>2. CASE Try(nd) /\ nd = "est" /\ c = conn /\ up'[c] = Append(up[c], "DAEMON_ASK")
      <3>1. ~Opening(c)'
        BY <1>0, <2>2 DEF Opening
      <3>2. up[c] \in Seq(Messages)
        BY <1>0
      <3> QED
        BY <1>4, <2>2, <3>1, <3>2 DEF Streams
    <2>3. CASE Hand(nd) /\ nd = "est" /\ c = conn
      <3>1. ~Coming(c)
        BY <2>3 DEF Stages
      <3> QED
        BY <1>4, <3>1 DEF Streams, Coming
    <2> QED
      BY <1>0, <1>1, <2>1, <2>2, <2>3 DEF Conn, LinkTypeOK
  <1>8. Stages'
    <2>1. CASE Try(nd)
      BY <1>0, <2>1 DEF Stages
    <2>2. CASE Reopen(nd)
      <3>1. conn' \in Conn /\ Opening(conn') /\ conn' > 0
        BY <1>0, <2>2 DEF Opening, Conn
      <3> QED
        BY <2>2, <3>1 DEF Stages, Streams, Coming
    <2>3. CASE Hand(nd)
      <3>1. conn \in Conn /\ ~Coming(conn)'
        BY <1>0, <1>4, <2>3 DEF Stages, LinkTypeOK, Conn
      <3> QED
        BY <2>3, <3>1 DEF Stages
    <2>4. CASE Nothing(nd)
      <3>1. conn \in Conn /\ (Coming(conn)' => Coming(conn))
        BY <1>0, <1>4, <2>4 DEF Stages, LinkTypeOK, Conn
      <3> QED
        BY <2>4, <3>1 DEF Stages
    <2> QED
      BY <1>1, <2>1, <2>2, <2>3, <2>4
  <1> QED
    BY <1>6, <1>7, <1>8

LEMMA RequestTypes ==
  ASSUME LinkInv, NEW nd, NEW data \in {"NULL", "TEMP"},
         daemonRequest(nd, data),
         nd \in {node, "none"} \/ (node = "syn" /\ nd = "est")
  PROVE  /\ daemonSts' \in 0..2 /\ node' \in {"none", "syn", "est"}
         /\ conn' \in 0..MAX_CONN /\ unacked' \in BOOLEAN
         /\ up' \in [Conn -> Seq(Messages)]
         /\ temps' \in Nat /\ claims' \in Nat
  <1>0. LinkTypeOK /\ nd \in {"none", "syn", "est"} /\ (nd # "none" => conn > 0)
    BY DEF LinkInv, LinkTypeOK, Stages
  <1>1. /\ unacked' \in BOOLEAN /\ temps' \in Nat /\ claims' \in Nat
        /\ Try(nd) \/ Reopen(nd) \/ Hand(nd) \/ Nothing(nd)
    BY <1>0, RequestEffect
  <1>2. daemonSts' \in 0..2 /\ node' \in {"none", "syn", "est"}
    BY <1>0, <1>1 DEF Try, Reopen, Hand, Nothing
  <1>3. conn' \in 0..MAX_CONN
    BY <1>0, <1>1, LinkAssumption
    DEF Try, Reopen, Hand, Nothing, LinkTypeOK
  <1>4. up' \in [Conn -> Seq(Messages)]
    <2>1. up \in [Conn -> Seq(Messages)]
      BY <1>0 DEF LinkTypeOK, Messages
    <2>2. up' = up \/ \E m \in Messages : up' = [up EXCEPT ![conn] = Append(@, m)]
      BY <1>1 DEF Try, Reopen, Hand, Nothing, Messages
    <2>3. ASSUME NEW m \in Messages, up' = [up EXCEPT ![conn] = Append(@, m)]
          PROVE  up' \in [Conn -> Seq(Messages)]
      <3>1. ASSUME NEW c \in Conn
            PROVE  up'[c] \in Seq(Messages)
        <4>1. up[c] \in Seq(Messages) /\ Append(up[c], m) \in Seq(Messages)
          BY <2>1
        <4> QED
          BY <2>1, <2>3, <4>1
      <3> QED
        BY <2>1, <2>3, <3>1
    <2> QED
      BY <2>1, <2>2, <2>3
  <1> QED
    BY <1>1, <1>2, <1>3, <1>4

(* The steps of the firmware that call daemonRequest.                      *)
LEMMA RequestSteps ==
  ASSUME LinkInv,
         daemonConnCbk \/ mainTaskReport \/ PeerReset \/ Refused \/ ConnLost
  PROVE  LinkInv'
  <1>0. LinkTypeOK
    BY DEF LinkInv
  <1>1. CASE daemonConnCbk
    <2>1. /\ node = "syn" /\ daemonRequest("est", "NULL")
          /\ backlog' = Append(backlog, conn) /\ UNCHANGED <<down, dpc, dconn>>
      BY <1>1 DEF daemonConnCbk
    <2>2. Queued' /\ Streams' /\ Stages'
      BY <2>1, RequestKeeps
    <2>3. conn \in Conn
      BY <2>1, <1>0 DEF LinkInv, Stages, LinkTypeOK, Conn
    <2>4. backlog' \in Seq(Conn)
      BY <1>0, <2>1, <2>3 DEF LinkTypeOK
    <2>5. link' \in [Conn -> Link]
      BY <1>0, <1>1 DEF LinkTypeOK, daemonConnCbk, Link
    <2>6. UNCHANGED <<ip, started, events, down, dpc, dconn, cmdsts, faults, gets>>
      BY <1>1 DEF daemonConnCbk
    <2>7. LinkTypeOK'
      BY <1>0, <2>1, <2>4, <2>5, <2>6, RequestTypes DEF LinkTypeOK, Messages
    <2> QED
      BY <2>2, <2>7 DEF LinkInv
  <1>2. CASE mainTaskReport
    <2>1. /\ daemonRequest(node, "TEMP") /\ UNCHANGED <<down, dpc, dconn, backlog>>
          /\ UNCHANGED <<ip, started, link, cmdsts, faults, gets>>
      BY <1>2 DEF mainTaskReport, daemonVars
    <2>2. Queued' /\ Streams' /\ Stages'
      BY <2>1, RequestKeeps
    <2>3. events' \in 0..2
      BY <1>0, <1>2 DEF mainTaskReport, LinkTypeOK
    <2>4. LinkTypeOK'
      BY <1>0, <2>1, <2>3, RequestTypes DEF LinkTypeOK, Messages
    <2> QED
      BY <2>2, <2>4 DEF LinkInv
  <1>3. CASE PeerReset \/ Refused \/ ConnLost
    <2>1. /\ daemonRequest("none", "NULL")
          /\ UNCHANGED <<down, dpc, dconn, backlog>>
          /\ UNCHANGED <<ip, started, events, cmdsts, gets>>
      BY <1>3 DEF PeerReset, Refused, ConnLost, daemonReconnCbk, daemonVars
    <2>2. Queued' /\ Streams' /\ Stages'
      BY <2>1, RequestKeeps
    <2>3. link' \in [Conn -> Link]
      BY <1>0, <1>3 DEF PeerReset, Refused, ConnLost, LinkTypeOK, Link
    <2>4. faults' \in 0..MAX_FAULTS
      BY <1>0, <1>3, LinkAssumption DEF PeerReset, Refused, ConnLost, LinkTypeOK
    <2>5. LinkTypeOK'
      BY <1>0, <2>1, <2>3, <2>4, RequestTypes DEF LinkTypeOK, Messages
    <2> QED
      BY <2>2, <2>5 DEF LinkInv
  <1> QED
    BY <1>1, <1>2, <1>3

(* The steps of the firmware that do not call it.                          *)
LEMMA EspSteps ==
  ASSUME LinkInv,
         socketStarter \/ Acked \/ daemonHandleAnswer \/ daemonDiscCbk
         \/ Reboot
  PROVE  LinkInv'
  <1>0. LinkTypeOK /\ Queued /\ Streams /\ Stages
    BY DEF LinkInv
  <1>1. /\ conn \in Nat /\ MAX_CONN \in Nat /\ conn <= MAX_CONN
        /\ backlog \in Seq(Conn) /\ dconn \in Nat
        /\ up \in [Conn -> Seq(Messages)]
    BY <1>0, LinkAssumption DEF LinkTypeOK, Messages
  <1>2. CASE socketStarter
    <2>1. /\ UNCHANGED <<unacked, ip, events, up, down, link, backlog, dpc, dconn>>
          /\ UNCHANGED <<cmdsts, faults, gets, temps, claims>>
          /\ daemonSts' = 0 /\ started' = TRUE
          /\ \/ node' = "syn" /\ conn' = conn + 1 /\ conn < MAX_CONN
             \/ node' = node /\ conn' = conn
      BY <1>2 DEF socketStarter, espconn_connect, netVars, daemonVars, history
    <2>2. LinkTypeOK'
      <3>1. conn' \in 0..MAX_CONN /\ node' \in {"none", "syn", "est"}
        BY <1>0, <1>1, <2>1 DEF LinkTypeOK
      <3> QED
        BY <1>0, <2>1, <3>1 DEF LinkTypeOK
    <2>3. \A c \in Conn : Opening(c)' => Opening(c)
      BY <1>1, <2>1 DEF Opening, Conn
    <2>4. \A c \in Conn : /\ Waiting(c)' <=> Waiting(c)
                          /\ Coming(c)' => Coming(c)
      BY <2>1, <2>3 DEF Waiting, Coming
    <2>5. Queued'
      BY <1>0, <2>1, <2>3, <2>4 DEF Queued
    <2>6. Streams'
      BY <1>0, <2>1, <2>3, <2>4 DEF Streams
    <2>7. Stages'
      BY <1>0, <1>1, <2>1 DEF Stages
    <2> QED
      BY <2>2, <2>5, <2>6, <2>7 DEF LinkInv
  <1>3. CASE Acked \/ daemonDiscCbk
    <2>1. /\ UNCHANGED <<daemonSts, conn, ip, started, events, up, down, link>>
          /\ UNCHANGED <<backlog, dpc, dconn, cmdsts, faults, gets, temps, claims>>
          /\ node = "est" /\ node' \in {"est", "none"} /\ unacked' = FALSE
      BY <1>3 DEF Acked, daemonDiscCbk, netVars, daemonVars, history
    <2>2. LinkTypeOK'
      BY <1>0, <2>1 DEF LinkTypeOK
    <2>3. \A c \in Conn : Opening(c)' <=> Opening(c)
      BY <2>1 DEF Opening
    <2>4. \A c \in Conn : /\ Waiting(c)' <=> Waiting(c)
                          /\ Coming(c)' <=> Coming(c)
      BY <2>1, <2>3 DEF Waiting, Coming
    <2>5. Queued' /\ Streams'
      BY <1>0, <2>1, <2>3, <2>4 DEF Queued, Streams
    <2>6. Stages'
      <3>1. conn \in Conn
        BY <1>0, <1>1, <2>1 DEF Stages, Conn
      <3> QED
        BY <1>0, <2>1, <2>4, <3>1 DEF Stages
    <2> QED
      BY <2>2, <2>5, <2>6 DEF LinkInv
  <1>4. CASE daemonHandleAnswer
    <2>1. conn \in Conn
      BY <1>0, <1>1, <1>4 DEF daemonHandleAnswer, Stages, Conn
    <2>2. down[conn] = <<"DHT_GET">> /\ daemonSts = 0
      BY <1>0, <1>1, <1>4, <2>1
      DEF daemonHandleAnswer, Streams, Stages, LinkTypeOK
    <2>3. Head(down[conn]) = "DHT_GET" /\ Tail(down[conn]) = <<>>
      BY <2>2
    <2>4. /\ UNCHANGED <<node, conn, ip, started, up, link, backlog, dpc, dconn>>
          /\ UNCHANGED <<cmdsts, faults, temps, claims>>
          /\ daemonSts' = 1 /\ gets' = gets + 1 /\ events' \in {1, 2}
          /\ down' = [down EXCEPT ![conn] = <<>>]
          /\ unacked' = (unacked /\ up[conn] # <<>>)
          /\ node = "est"
      BY <1>4, <2>2, <2>3 DEF daemonHandleAnswer, daemonVars
    <2>5. down' \in [Conn -> Seq({"DHT_GET", "OK"})]
      <3>1. /\ down \in [Conn -> Seq({"DHT_GET", "OK"})]
            /\ <<>> \in Seq({"DHT_GET", "OK"})
        BY <1>0 DEF LinkTypeOK
      <3> QED
        BY <2>4, <3>1
    <2>6. LinkTypeOK'
      <3>1. unacked' \in BOOLEAN
        BY <2>4
      <3>2. gets' \in Nat
        BY <1>0, <2>4 DEF LinkTypeOK
      <3> QED
        BY <1>0, <2>4, <2>5, <3>1, <3>2 DEF LinkTypeOK
    <2>7. \A c \in Conn : Opening(c)' <=> Opening(c)
      BY <2>4 DEF Opening
    <2>8. \A c \in Conn : /\ Waiting(c)' <=> Waiting(c)
                          /\ Coming(c)' <=> Coming(c)
      BY <2>4, <2>7 DEF Waiting, Coming
    <2>9. Queued'
      BY <1>0, <2>4, <2>7, <2>8 DEF Queued
    <2>10. \A c \in Conn : down'[c] = IF c = conn THEN <<>> ELSE down[c]
      BY <1>0, <2>4 DEF LinkTypeOK
    <2>11. Streams'
      BY <1>0, <2>4, <2>7, <2>8, <2>10 DEF Streams
    <2>12. ~Coming(conn)
      BY <1>0, <2>1, <2>2 DEF Streams
    <2>13. Stages'
      BY <1>1, <2>1, <2>4, <2>8, <2>10, <2>12 DEF Stages, Conn
    <2> QED
      BY <2>6, <2>9, <2>11, <2>13 DEF LinkInv
  <1>5. CASE Reboot
    <2>1. /\ UNCHANGED <<conn, down, backlog, dpc, dconn, cmdsts>>
          /\ UNCHANGED <<gets, temps, claims>>
          /\ daemonSts' = 0 /\ node' = "none" /\ unacked' = FALSE
          /\ started' = FALSE /\ events' \in {1, 2} /\ ip' \in BOOLEAN
          /\ faults < MAX_FAULTS /\ faults' = faults + 1
          /\ link' = link \/ link' = [link EXCEPT ![conn] = "lost"]
          /\ up' = up \/ up' = [up EXCEPT ![conn] = <<>>]
      BY <1>1, <1>5 DEF Reboot, daemonVars, history
    <2>2. LinkTypeOK'
      <3>1. faults' \in 0..MAX_FAULTS
        BY <1>0, <2>1, LinkAssumption DEF LinkTypeOK
      <3>2. link' \in [Conn -> Link]
        BY <1>0, <2>1 DEF LinkTypeOK, Link
      <3>3. up' \in [Conn -> Seq(Messages)]
        <4>1. <<>> \in Seq(Messages)
          OBVIOUS
        <4> QED
          BY <1>1, <2>1, <4>1
      <3>4. /\ daemonSts' \in 0..2 /\ node' \in {"none", "syn", "est"}
            /\ events' \in 0..2
        BY <2>1
      <3>6. unacked' \in BOOLEAN /\ started' \in BOOLEAN
        BY <2>1
      <3>7. ip' \in BOOLEAN
        BY <2>1
      <3>5. /\ UNCHANGED <<conn, down, backlog, dpc, dconn, cmdsts>>
            /\ UNCHANGED <<gets, temps, claims>>
        BY <2>1
      <3> QED
        BY <1>0, <3>1, <3>2, <3>3, <3>4, <3>5, <3>6, <3>7 DEF LinkTypeOK, Messages
    <2>3. \A c \in Conn : Opening(c)' => Opening(c)
      BY <2>1 DEF Opening
    <2>4. \A c \in Conn : /\ Waiting(c)' <=> Waiting(c)
                          /\ Coming(c)' => Coming(c)
      BY <2>1, <2>3 DEF Waiting, Coming
    <2>5. Queued'
      BY <1>0, <2>1, <2>3, <2>4 DEF Queued
    <2>6. \A c \in Conn : up'[c] = up[c] \/ up'[c] = <<>>
      BY <1>1, <2>1
    <2>7. Streams'
      BY <1>0, <2>1, <2>3, <2>4, <2>6 DEF Streams
    <2>8. Stages'
      BY <2>1 DEF Stages
    <2> QED
      BY <2>2, <2>5, <2>7, <2>8 DEF LinkInv
  <1> QED
    BY <1>2, <1>3, <1>4, <1>5

(* The daemon closes sockets only by Closed.                               *)
LEMMA ClosedType ==
  ASSUME link \in [Conn -> Link], NEW S
  PROVE  Closed(S) \in [Conn -> Link]
  BY DEF Closed, Link

LEMMA DaemonSteps ==
  ASSUME LinkInv, Accept \/ Recv \/ RecvRaises \/ Restart
  PROVE  LinkInv'
  <1>0. LinkTypeOK /\ Queued /\ Streams /\ Stages
    BY DEF LinkInv
  <1>1. /\ backlog \in Seq(Conn) /\ link \in [Conn -> Link]
        /\ up \in [Conn -> Seq(Messages)] /\ Distinct(backlog)
        /\ down \in [Conn -> Seq({"DHT_GET", "OK"})]
    BY <1>0 DEF LinkTypeOK, Messages, Queued
  <1>2. CASE Accept
    <2>1. /\ dpc = "accept" /\ backlog # <<>> /\ dpc' = "recv"
          /\ dconn' = Head(backlog) /\ backlog' = Tail(backlog)
          /\ UNCHANGED <<daemonSts, node, conn, unacked, ip, started, events>>
          /\ UNCHANGED <<up, down, cmdsts, faults, gets, temps, claims>>
      BY <1>2 DEF Accept, espVars, history
    <2>2. link' \in [Conn -> Link]
      BY <1>1, <1>2, ClosedType DEF Accept
    <2>3. /\ backlog' \in Seq(Conn) /\ Distinct(backlog') /\ dconn' \in Conn
          /\ \A i \in 1..Len(backlog') : /\ i + 1 \in 1..Len(backlog)
                                        /\ backlog'[i] = backlog[i + 1]
                                        /\ backlog'[i] # dconn'
      BY <1>1, <2>1, DistinctTail
    <2>4. LinkTypeOK'
      <3>1. dconn' \in 0..MAX_CONN
        BY <2>3, LinkAssumption DEF Conn
      <3> QED
        BY <1>0, <2>1, <2>2, <2>3, <3>1 DEF LinkTypeOK
    <2>5. \A c \in Conn : Opening(c)' <=> Opening(c)
      BY <2>1 DEF Opening
    <2>6. \A c \in Conn : Waiting(c)' => Waiting(c) /\ c # dconn'
      BY <2>3 DEF Waiting
    <2>7. Waiting(dconn')
      <3>1. 1 \in 1..Len(backlog) /\ backlog[1] = Head(backlog)
        BY <1>1, <2>1
      <3> QED
        BY <2>1, <3>1 DEF Waiting
    <2>8. \A c \in Conn : Coming(c)' => Coming(c)
      BY <2>5, <2>6, <2>7 DEF Coming
    <2>9. Queued'
      BY <1>0, <2>3, <2>5, <2>6, <2>7 DEF Queued
    <2>10. Streams'
      BY <1>0, <2>1, <2>5, <2>8 DEF Streams
    <2>11. Stages'
      <3>1. daemonSts > 0 => conn \in Conn
        BY <1>0, LinkAssumption DEF Stages, LinkTypeOK, Conn
      <3> QED
        BY <1>0, <2>1, <2>8, <3>1 DEF Stages
    <2> QED
      BY <2>4, <2>9, <2>10, <2>11 DEF LinkInv
  <1>3. CASE Recv
    <2>1. PICK n \in 1..Len(up[dconn]) : Answer(SubSeq(up[dconn], 1, n))
      BY <1>3 DEF Recv
    <2> DEFINE data == SubSeq(up[dconn], 1, n)
    <2>2. dconn \in Conn /\ ~Opening(dconn) /\ ~Waiting(dconn) /\ Coming(dconn)
      BY <1>0, <1>3 DEF Recv, Queued, Coming
    <2>3. /\ up[dconn] \in Seq(Messages) /\ down[dconn] = <<>>
          /\ up[dconn] # <<>>
          /\ \A i \in 1..Len(up[dconn]) : up[dconn][i] = "DAEMON_ASK"
      BY <1>0, <1>1, <1>3, <2>2 DEF Recv, Streams
    <2>4. ~SendsOk(data)
      <3>1. \A i \in 1..Len(data) : data[i] = "DAEMON_ASK"
        BY <2>3
      <3> QED
        BY <3>1 DEF SendsOk, Contains
    <2>5. SubSeq(up[dconn], Len(data) + 1, Len(up[dconn])) \in Seq(Messages)
      BY <2>3
    <2> HIDE DEF data
    <2>6. PICK x \in {<<>>, <<"DHT_GET">>} : down' = [down EXCEPT ![dconn] = x]
      <3>1. down' = [down EXCEPT ![dconn] =
                       down[dconn] \o (IF SendsGet(data) THEN <<"DHT_GET">> ELSE <<>>)
                                   \o (IF SendsOk(data) THEN <<"OK">> ELSE <<>>)]
        BY <2>1 DEF Answer, data
      <3>2. CASE SendsGet(data)
        <4>1. (<<>> \o <<"DHT_GET">>) \o <<>> = <<"DHT_GET">>
          OBVIOUS
        <4> QED
          BY <2>3, <2>4, <3>1, <3>2, <4>1
      <3>3. CASE ~SendsGet(data)
        <4>1. (<<>> \o <<>>) \o <<>> = <<>>
          OBVIOUS
        <4> QED
          BY <2>3, <2>4, <3>1, <3>3, <4>1
      <3> QED
        BY <3>2, <3>3
    <2>7. PICK y \in Seq(Messages) : up' = [up EXCEPT ![dconn] = y]
      BY <2>1, <2>5 DEF Answer, data
    <2>8. /\ UNCHANGED <<daemonSts, node, conn, unacked, ip, started, events>>
          /\ UNCHANGED <<link, backlog, dconn, faults, gets, temps, claims>>
          /\ dpc = "recv" /\ dpc' = "accept"
      BY <1>3, <2>1 DEF Recv, Answer, espVars, history
    <2>9. cmdsts' \in {0, 1}
      BY <1>0, <2>1 DEF Answer, AfterGet, LinkTypeOK
    <2>10. LinkTypeOK'
      <3>1. up' \in [Conn -> Seq(Messages)]
        BY <1>1, <2>7
      <3>2. down' \in [Conn -> Seq({"DHT_GET", "OK"})]
        <4>1. /\ <<>> \in Seq({"DHT_GET", "OK"})
              /\ <<"DHT_GET">> \in Seq({"DHT_GET", "OK"})
          OBVIOUS
        <4> QED
          BY <1>1, <2>6, <4>1
      <3> QED
        BY <1>0, <2>8, <2>9, <3>1, <3>2 DEF LinkTypeOK, Messages
    <2>11. \A c \in Conn : /\ Opening(c)' <=> Opening(c)
                           /\ Waiting(c)' <=> Waiting(c)
      BY <2>8 DEF Opening, Waiting
    <2>12. \A c \in Conn : Coming(c)' => Coming(c) /\ c # dconn
      BY <2>2, <2>8, <2>11 DEF Coming
    <2>13. Queued'
      BY <1>0, <2>8, <2>11 DEF Queued
    <2>14. \A c \in Conn : /\ c # dconn => up'[c] = up[c] /\ down'[c] = down[c]
                           /\ down'[dconn] = x
      BY <1>1, <2>2, <2>6, <2>7
    <2>15. Streams'
      BY <1>0, <2>2, <2>6, <2>11, <2>12, <2>14 DEF Streams
    <2>16. Stages'
      <3>1. daemonSts > 0 => conn \in Conn /\ conn # dconn
        BY <1>0, <2>2, <2>3, LinkAssumption DEF Stages, LinkTypeOK, Conn
      <3> QED
        BY <1>0, <2>8, <2>12, <2>14, <3>1 DEF Stages
    <2> QED
      BY <2>10, <2>13, <2>15, <2>16 DEF LinkInv
  <1>4. CASE RecvRaises \/ Restart
    <2>1. /\ UNCHANGED <<daemonSts, node, conn, unacked, ip, started, events>>
          /\ UNCHANGED <<up, down, gets, temps, claims>>
          /\ dpc' \in {"accept", "dead"}
          /\ backlog' = backlog \/ backlog' = <<>>
          /\ dconn' \in {dconn, 0} /\ cmdsts' \in {cmdsts, 0}
      BY <1>4 DEF RecvRaises, Restart, espVars, netVars, history
    <2>2. link' \in [Conn -> Link]
      BY <1>1, <1>4, ClosedType DEF RecvRaises, Restart, netVars
    <2>3. LinkTypeOK'
      <3>1. faults' \in 0..MAX_FAULTS
        BY <1>0, <1>4, LinkAssumption DEF RecvRaises, Restart, LinkTypeOK
      <3>2. dconn' \in 0..MAX_CONN /\ cmdsts' \in {0, 1}
        BY <1>0, <2>1, LinkAssumption DEF LinkTypeOK
      <3>3. backlog' \in Seq(Conn)
        <4>1. <<>> \in Seq(Conn)
          OBVIOUS
        <4> QED
          BY <1>1, <2>1, <4>1
      <3> QED
        BY <1>0, <2>1, <2>2, <3>1, <3>2, <3>3 DEF LinkTypeOK
    <2>4. \A c \in Conn : /\ Opening(c)' <=> Opening(c)
                          /\ Waiting(c)' => Waiting(c)
                          /\ Coming(c)' => Coming(c)
      BY <2>1 DEF Opening, Waiting, Coming
    <2>5. Distinct(backlog')
      BY <1>1, <2>1 DEF Distinct
    <2>6. Queued'
      BY <1>0, <2>1, <2>4, <2>5 DEF Queued
    <2>7. Streams'
      BY <1>0, <2>1, <2>4 DEF Streams
    <2>8. Stages'
      <3>1. daemonSts > 0 => conn \in Conn
        BY <1>0, LinkAssumption DEF Stages, LinkTypeOK, Conn
      <3> QED
        BY <1>0, <2>1, <2>4, <3>1 DEF Stages
    <2> QED
      BY <2>3, <2>6, <2>7, <2>8 DEF LinkInv
  <1> QED
    BY <1>2, <1>3, <1>4

LEMMA InitLinkInv == Init => LinkInv
  <1> SUFFICES ASSUME Init
               PROVE  LinkInv
    OBVIOUS
  <1>1. LinkTypeOK
    <2>1. /\ 0 \in 0..MAX_CONN /\ 0 \in 0..MAX_FAULTS
      BY LinkAssumption
    <2>2. \A S : <<>> \in Seq(S)
      OBVIOUS
    <2>3. /\ up \in [Conn -> Seq({"DAEMON_ASK", "TEMP"})]
          /\ down \in [Conn -> Seq({"DHT_GET", "OK"})]
          /\ link \in [Conn -> Link] /\ backlog \in Seq(Conn)
      BY <2>2 DEF Init, Link
    <2>4. unacked \in BOOLEAN /\ ip \in BOOLEAN /\ started \in BOOLEAN
      BY DEF Init
    <2> QED
      BY <2>1, <2>3, <2>4 DEF Init, LinkTypeOK
  <1>2. Queued /\ Streams /\ Stages
    BY DEF Init, Queued, Distinct, Streams, Stages, Opening, Waiting, Conn
  <1> QED
    BY <1>1, <1>2 DEF LinkInv

LEMMA NextLinkInv == LinkInv /\ [Next]_vars => LinkInv'
  <1> SUFFICES ASSUME LinkInv, [Next]_vars
               PROVE  LinkInv'
    OBVIOUS
  <1>1. CASE Next
    BY <1>1, RequestSteps, EspSteps, DaemonSteps DEF Next, Esp, Daemon, Faults
  <1>2. CASE UNCHANGED vars
    BY <1>2
    DEF vars, espVars, netVars, daemonVars, history, LinkInv, LinkTypeOK,
        Queued, Distinct, Streams, Stages, Opening, Waiting, Coming
  <1> QED
    BY <1>1, <1>2

(* Both ends keep to their types; daemonSts in particular stays below 3.   *)
THEOREM LinkTypeCorrect == Spec => []LinkTypeOK
  <1>1. LinkInv => LinkTypeOK
    BY DEF LinkInv
  <1> QED
    BY <1>1, InitLinkInv, NextLinkInv, PTL DEF Spec

(* While a reading is owed or handed over no DHT_GET waits for the         *)
(* firmware, for any number of connections, of asks and of faults.         *)
THEOREM OneGetPerReading == Spec => []OneGetAtATime
  <1>1. LinkInv => OneGetAtATime
    BY DEF LinkInv, Stages, OneGetAtATime
  <1> QED
    BY <1>1, InitLinkInv, NextLinkInv, PTL DEF Spec
=============================================================================
