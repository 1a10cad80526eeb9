------------------------------ MODULE SketchLink -----------------------------
(***************************************************************************)
(* The Arduino sketch development/server.ino/server.ino.ino against the    *)
(* data server beside it, ReadSocket of development/server.py.             *)
(*                                                                         *)
(* Unlike the firmware of DaemonLink the sketch opens a connection in      *)
(* every pass of loop() and sends one message on it.  Its heartbeat timer  *)
(* fires wherever the sketch yields: in connect and in the waiting loops.  *)
(* Connections are numbered; a number is reused when neither side has it.  *)
(***************************************************************************)
EXTENDS Naturals, Sequences, SequencesExt

CONSTANTS
  BACKLOG,     \* connections the server's kernel holds for accept
  MAX_STOPS,   \* bound: restarts of the server and failed connects
  MAX_REBOOTS  \* bound: restarts of the board

ASSUME SketchAssumption ==
  BACKLOG \in Nat \ {0} /\ MAX_STOPS \in Nat /\ MAX_REBOOTS \in Nat

VARIABLES
  ClientState, \* sketch: 0 ask, 2 measure, 3 never set, 5 acknowledged
  pc,          \* sketch: top of loop(), connected, or in a waiting loop
  client,      \* sketch: connection of the object client (0: none)
  toServer, toSketch,  \* per connection: the message not yet read there
  sketchEnd,   \* per connection: what the server knows of the sketch's end
  serverEnd,   \* per connection: the server's end is open
  sbacklog, spc, sconn, scmdsts,  \* server: DaemonLink's without the s
  forgot,      \* history: since the server's start the heartbeat or a restart
               \* of the board may have made the sketch forget a request
  sfaults, reboots

sketchVars == <<ClientState, pc, client>>
wires      == <<toServer, toSketch, sketchEnd, serverEnd>>
serverVars == <<sbacklog, spc, sconn, scmdsts>>
tally      == <<forgot, sfaults, reboots>>
sketchLink == <<sketchVars, wires, serverVars, tally>>

Socket == 1..(BACKLOG + 3)

(* ClientState, the sketch's loop, the connections and the server stay in  *)
(* the states the code has for them.                                       *)
SketchTypeOK ==
  /\ ClientState \in {0, 2, 5}
  /\ pc \in {"top", "connected", "waitGet", "waitOk"}
  /\ client \in Socket \union {0}
  /\ toServer \in [Socket -> {"none", "DAEMON_ASK", "TEMP"}]
  /\ toSketch \in [Socket -> {"none", "DHT_GET", "OK"}]
  /\ sketchEnd \in [Socket -> {"open", "fin", "gone", "reset"}]
  /\ serverEnd \in [Socket -> BOOLEAN]
  /\ sbacklog \in Seq(Socket) /\ Len(sbacklog) <= BACKLOG
  /\ spc \in {"accept", "recv", "dead"}
  /\ sconn \in Socket \union {0} /\ scmdsts \in {0, 1}
  /\ forgot \in BOOLEAN
  /\ sfaults \in 0..MAX_STOPS /\ reboots \in 0..MAX_REBOOTS

SketchInit ==
  /\ ClientState = 0 /\ pc = "top" /\ client = 0
  /\ toServer = [c \in Socket |-> "none"]
  /\ toSketch = [c \in Socket |-> "none"]
  /\ sketchEnd = [c \in Socket |-> "fin"]
  /\ serverEnd = [c \in Socket |-> FALSE]
  /\ sbacklog = <<>> /\ spc = "accept" /\ sconn = 0 /\ scmdsts = 0
  /\ forgot = FALSE /\ sfaults = 0 /\ reboots = 0

-----------------------------------------------------------------------------
(* The object client.                                                      *)
connected == client # 0 /\ sketchEnd[client] = "open"
               /\ (serverEnd[client] \/ toSketch[client] # "none")

Fin(c) == IF c # 0 /\ sketchEnd[c] = "open"
            THEN [sketchEnd EXCEPT ![c] = "fin"] ELSE sketchEnd

Free == CHOOSE c \in Socket : c \notin ToSet(sbacklog) \union {sconn, client}

(***************************************************************************)
(* client.connect at the top of loop().  It gives up what client held.  A  *)
(* connection that a restart of the board left half open may happen to be  *)
(* hit by the new one's port, which resets it.                             *)
(***************************************************************************)
Connect ==
  /\ pc = "top" /\ Len(sbacklog) < BACKLOG
  /\ client' = Free
  /\ \E hit \in SUBSET {c \in Socket : sketchEnd[c] = "gone" /\ serverEnd[c]} :
       sketchEnd' = [c \in Socket |-> IF c = Free THEN "open"
                                    ELSE IF c \in hit THEN "reset"
                                    ELSE Fin(client)[c]]
  /\ serverEnd' = [serverEnd EXCEPT ![Free] = TRUE]
  /\ toServer' = [toServer EXCEPT ![Free] = "none"]
  /\ toSketch' = [toSketch EXCEPT ![Free] = "none"]
  /\ sbacklog' = Append(sbacklog, Free)
  /\ pc' = "connected"
  /\ UNCHANGED <<ClientState, spc, sconn, scmdsts, tally>>

(* connect times out or is refused: client is not connected, so what the   *)
(* pass prints goes nowhere and its waiting loop ends at once.  In state 2 *)
(* the measurement is made all the same.                                   *)
ConnectFails ==
  /\ pc = "top"
  /\ \/ Len(sbacklog) = BACKLOG /\ UNCHANGED sfaults
     \/ sfaults < MAX_STOPS /\ sfaults' = sfaults + 1
  /\ client' = 0 /\ sketchEnd' = Fin(client)
  /\ ClientState' = IF ClientState = 5 THEN 0 ELSE ClientState
  /\ UNCHANGED <<pc, toServer, toSketch, serverEnd, serverVars, forgot,
                 reboots>>

(* The if/else chain on ClientState up to the waiting loops.  The server   *)
(* may have closed meanwhile; then nothing is sent.  The mutant waits in   *)
(* the other loop.                                                         *)
AskThen(loop) ==
  /\ pc = "connected" /\ ClientState = 0
  /\ toServer' = IF connected THEN [toServer EXCEPT ![client] = "DAEMON_ASK"]
                               ELSE toServer
  /\ pc' = loop
  /\ UNCHANGED <<ClientState, client, toSketch, sketchEnd, serverEnd,
                 serverVars, tally>>
Ask_waitsOk == AskThen("waitOk")
Ask == AskThen("waitGet")

(* State 2 measures and sends; the branch for state 3, to which no         *)
(* assignment leads, only waits.                                           *)
Measure ==
  /\ pc = "connected" /\ ClientState \in {2, 3}
  /\ toServer' = IF connected /\ ClientState = 2
                  THEN [toServer EXCEPT ![client] = "TEMP"] ELSE toServer
  /\ pc' = "waitOk"
  /\ UNCHANGED <<ClientState, client, toSketch, sketchEnd, serverEnd,
                 serverVars, tally>>

Stop ==
  /\ pc = "connected" /\ ClientState = 5
  /\ sketchEnd' = Fin(client)
  /\ ClientState' = 0 /\ pc' = "top"
  /\ UNCHANGED <<client, toServer, toSketch, serverEnd, serverVars, tally>>

(* The loop that waits for DHT_GET; client.stop() also ends it.  The       *)
(* mutants go on to the branch that sends nothing, or stay in state 0.     *)
ReadGetThen(state) ==
  /\ pc = "waitGet" /\ connected /\ toSketch[client] = "DHT_GET"
  /\ toSketch' = [toSketch EXCEPT ![client] = "none"]
  /\ ClientState' = state
  /\ sketchEnd' = Fin(client) /\ pc' = "top"
  /\ UNCHANGED <<client, toServer, serverEnd, serverVars, tally>>
ReadGet_state3 == ReadGetThen(3)
ReadGet_forgets == ReadGetThen(0)
ReadGet == ReadGetThen(2)

(* The loop that waits for OK goes on after it.                            *)
ReadOk ==
  /\ pc = "waitOk" /\ connected /\ toSketch[client] = "OK"
  /\ toSketch' = [toSketch EXCEPT ![client] = "none"]
  /\ ClientState' = 5
  /\ UNCHANGED <<pc, client, toServer, sketchEnd, serverEnd, serverVars,
                 tally>>

Leave ==
  /\ pc \in {"waitGet", "waitOk"} /\ ~connected
  /\ pc' = "top"
  /\ UNCHANGED <<ClientState, client, wires, serverVars, tally>>

(* The timer callback; its datagram and LED are left out.                  *)
heartBeat ==
  /\ ClientState # 0
  /\ ClientState' = 0 /\ forgot' = (forgot \/ ClientState = 2)
  /\ UNCHANGED <<pc, client, wires, serverVars, sfaults, reboots>>

(* The board restarts in the middle of anything.                           *)
BoardReboot ==
  /\ reboots < MAX_REBOOTS /\ reboots' = reboots + 1
  /\ ClientState' = 0 /\ pc' = "top" /\ client' = 0 /\ forgot' = TRUE
  /\ IF connected
       THEN /\ sketchEnd' = [sketchEnd EXCEPT ![client] = "gone"]
            /\ \E u \in {toServer[client], "none"} :
                 toServer' = [toServer EXCEPT ![client] = u]
       ELSE UNCHANGED <<sketchEnd, toServer>>
  /\ UNCHANGED <<toSketch, serverEnd, serverVars, sfaults>>

-----------------------------------------------------------------------------
(* The server.                                                             *)

(* self.conn, self.addr = accept() drops the previous socket.              *)
ServerAccept ==
  /\ spc = "accept" /\ sbacklog # <<>>
  /\ sconn' = Head(sbacklog) /\ sbacklog' = Tail(sbacklog)
  /\ serverEnd' = IF sconn = 0 THEN serverEnd
                  ELSE [serverEnd EXCEPT ![sconn] = FALSE]
  /\ spc' = "recv"
  /\ UNCHANGED <<sketchVars, toServer, toSketch, sketchEnd, scmdsts, tally>>

(* recv and the rest of the body; recv returns '' once the sketch closed.  *)
(* The mutants ask only while they wait for a reading, or go on reading    *)
(* from the same connection.                                               *)
ServerRecvAs(idle, next) ==
  /\ spc = "recv" /\ sketchEnd[sconn] # "reset"
  /\ toServer[sconn] # "none" \/ sketchEnd[sconn] = "fin"
  /\ LET get == toServer[sconn] = "DAEMON_ASK" /\ scmdsts = idle
         ok  == toServer[sconn] = "TEMP" /\ scmdsts = 1
     IN /\ toSketch' = [toSketch EXCEPT ![sconn] = IF get THEN "DHT_GET"
                                                 ELSE IF ok THEN "OK" ELSE @]
        /\ scmdsts' = IF get THEN 1 ELSE IF ok THEN 0 ELSE scmdsts
  /\ toServer' = [toServer EXCEPT ![sconn] = "none"]
  /\ spc' = next
  /\ UNCHANGED <<sketchVars, sketchEnd, serverEnd, sbacklog, sconn, tally>>
ServerRecv_busy  == ServerRecvAs(1, "accept")
ServerRecv_loops == ServerRecvAs(0, "recv")
ServerRecv       == ServerRecvAs(0, "accept")

ServerRaises ==
  /\ spc = "recv" /\ sketchEnd[sconn] = "reset"
  /\ spc' = "dead"
  /\ UNCHANGED <<sketchVars, wires, sbacklog, sconn, scmdsts, tally>>

(* The server process is stopped and started again.                        *)
ServerRestart ==
  /\ sfaults < MAX_STOPS /\ sfaults' = sfaults + 1
  /\ serverEnd' = [c \in Socket |-> FALSE]
  /\ sbacklog' = <<>> /\ spc' = "accept" /\ sconn' = 0 /\ scmdsts' = 0
  /\ forgot' = FALSE
  /\ UNCHANGED <<sketchVars, toServer, toSketch, sketchEnd, reboots>>

Sketch == \/ Connect \/ ConnectFails \/ Ask \/ Measure \/ Stop
          \/ ReadGet \/ ReadOk \/ Leave
Server == ServerAccept \/ ServerRecv \/ ServerRaises

SketchNext == Sketch \/ heartBeat \/ Server \/ BoardReboot \/ ServerRestart

SketchSpec == SketchInit /\ [][SketchNext]_sketchLink

(* Both programs keep running; no beat and no fault has to happen.         *)
SketchFairSpec ==
  SketchSpec /\ WF_sketchLink(Sketch) /\ WF_sketchLink(Server)
-----------------------------------------------------------------------------
(* The message that waits for the sketch is the one its waiting loop is    *)
(* for, although connections are dropped, reopened and their answers late. *)
AnswersFit ==
  client # 0 /\ sketchEnd[client] = "open" /\ toSketch[client] # "none" =>
    pc = IF toSketch[client] = "OK" THEN "waitOk" ELSE "waitGet"

(* server.py waits for a reading only while one is coming: the sketch has  *)
(* yet to read the DHT_GET, or it is in the state that measures, and it    *)
(* stays there across connections that fail or break; unless the heartbeat *)
(* or a restart of the board has made it forget.                           *)
LatchOwed ==
  scmdsts = 1 /\ ~forgot =>
    ClientState = 2 \/ (connected /\ toSketch[client] = "DHT_GET")

SketchSound == SketchTypeOK /\ AnswersFit /\ LatchOwed

(* The server's only thread does not stay in recv: every connection the    *)
(* sketch opens brings a message or is closed, unless the board restarts.  *)
ServerFree == spc = "recv" ~> (spc # "recv" \/ sketchEnd[sconn] = "gone")

(* The server's thread has ended or reads from a board that is gone.       *)
Blocked == spc = "dead" \/ (spc = "recv" /\ sketchEnd[sconn] = "gone")

(* A waiting sketch gets its DHT_GET or loses the connection, unless the   *)
(* server is blocked or still waits for an earlier reading.                *)
AskAnswered == pc = "waitGet" ~> (pc = "top" \/ Blocked \/ scmdsts = 1)

(* A reading on its way is read by the server or its connection breaks:    *)
(* the two sides do not wait for each other before it is read.  After it   *)
(* the sketch waits for as long as the server keeps the connection.        *)
ReadingRead == (pc = "waitOk" /\ toServer[client] = "TEMP")
                 ~> (pc = "top" \/ toServer[client] = "none" \/ Blocked)
=============================================================================
