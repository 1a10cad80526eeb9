---------------------------- MODULE MCDaemonLink ----------------------------
(***************************************************************************)
(* The programs that talk over TCP, side by side: part says which of them  *)
(* run, the others stay in their initial states.                           *)
(*   daemon, server   the firmware with daemon.py, with server.py          *)
(*   sketch           the sketch with server.py, with its heartbeat and    *)
(*                    restarts of the board.  A backlog of two stands for  *)
(*                    the three of listen(3), which a sketch that keeps    *)
(*                    restarting fills as well.                            *)
(*   json             the lesson's client and server; requests arrive      *)
(*                    whole, or in parts and not always as ASCII.          *)
(***************************************************************************)
EXTENDS DaemonLink, SketchLink, JsonServer

VARIABLE part

mcvars == <<part, vars, sketchLink, jsonVars>>

Srv == INSTANCE DaemonLink WITH LATCH <- TRUE, MAX_FAULTS <- 2

MCInit ==
  /\ part \in {"daemon", "server", "sketch", "json"}
  /\ Init /\ SketchInit /\ JsonInit
  /\ part \notin {"daemon", "server"} => ip /\ events = 1
  /\ part # "json" => plain

MCNext ==
  /\ UNCHANGED part
  /\ \/ part = "daemon" /\ Next /\ UNCHANGED <<sketchLink, jsonVars>>
     \/ part = "server" /\ Srv!Next /\ UNCHANGED <<sketchLink, jsonVars>>
     \/ part = "sketch" /\ SketchNext /\ UNCHANGED <<vars, jsonVars>>
     \/ part = "json" /\ JsonNext /\ UNCHANGED <<vars, sketchLink>>

(* The fairness of each part's own specification.                          *)
MCSpec ==
  /\ MCInit /\ [][MCNext]_mcvars
  /\ WF_vars(part = "daemon" /\ (Esp \/ Daemon))
  /\ WF_vars(part = "server" /\ (Srv!Esp \/ Srv!Daemon))
  /\ WF_sketchLink(part = "sketch" /\ Sketch)
  /\ WF_sketchLink(part = "sketch" /\ Server)
  /\ WF_jsonVars(part = "json" /\ ReadLine)
  /\ WF_jsonVars(part = "json" /\ ReadBody)
  /\ WF_jsonVars(part = "json" /\ Loads)
  /\ WF_jsonVars(part = "json" /\ ThreadRecv)

-----------------------------------------------------------------------------
(* The server's only thread does not stay in recv; a waiting sketch gets   *)
(* its DHT_GET or loses the connection; a reading on its way is read or    *)
(* its connection breaks; a send of client.py returns, unless the server   *)
(* has closed the connection.                                              *)
EachServed == ServerFree /\ AskAnswered /\ ReadingRead /\ (plain => Returns)
=============================================================================
