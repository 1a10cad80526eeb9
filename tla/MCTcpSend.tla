----------------------------- MODULE MCTcpSend -----------------------------
(***************************************************************************)
(* lwIP's TCP, one direction at the sender, and what must come: a          *)
(* connection between two hosts, and one direction at the receiver, with   *)
(* fairness.  part says which of them moves and with which constants, the  *)
(* others stay in their initial states.                                    *)
(***************************************************************************)
EXTENDS TcpSend

VARIABLES part,
  pcb, sent, got, eof, err, done, ended, net, drops,   \* Tcp
  rcv, refused, taken, used, end, choosy, hit          \* TcpReceive

tcpVars == <<pcb, sent, got, eof, err, done, ended, net, drops>>
rcvVars == <<rcv, refused, taken, used, end, choosy, hit>>

-----------------------------------------------------------------------------
(* More bytes than the window of the peer or a segment holds, and numbers  *)
(* that wrap round: the extended module.  Early: timers run out early and  *)
(* SYNs of the handshake come late.  Held: the driver holds segments that  *)
(* are to be sent again.  Flow: losses and a window that closes; no more   *)
(* than two segments are on their way, with a third one the persist timer  *)
(* stalls the connection.                                                  *)
Early == INSTANCE TcpSend WITH BACKOFFS <- 2, N <- 2, PWND <- 2, LOSSES <- 0,
  FAILS <- FALSE, PATIENT <- FALSE, STRAYS <- TRUE, TCP_MAXRTX <- 1
Held == INSTANCE TcpSend WITH N <- 2, PWND <- 3, LOSSES <- 0, HELD <- TRUE,
  FAILS <- FALSE, PATIENT <- FALSE, TCP_MAXRTX <- 1
Flow == INSTANCE TcpSend WITH BACKOFFS <- 2, N <- 4, PIECES <- {1, 2, 4}, PWND <- 3,
  LOSSES <- 2, FAILS <- FALSE

(* Live: aborts, closes before everything is read.  Idle: the connection   *)
(* is left alone for long before it ends.                                  *)
Live == INSTANCE Tcp WITH wrote <- sent, lost <- drops, MSS <- 1,
  TCP_SYNMAXRTX <- 2, Client <- "client", Server <- "server",
  N <- [client |-> 1, server |-> 0], UNREAD <- TRUE, HALF <- FALSE,
  ABORTS <- TRUE, IDLE <- FALSE
Idle == INSTANCE Tcp WITH wrote <- sent, lost <- drops, MSS <- 1,
  TCP_SYNMAXRTX <- 2, Client <- "client", Server <- "server",
  N <- [client |-> 1, server |-> 0], UNREAD <- FALSE, HALF <- FALSE,
  ABORTS <- FALSE, IDLE <- TRUE

(* A stream longer than the window, all of which the application takes.    *)
Takes == INSTANCE TcpReceive WITH r <- rcv, eof <- end, SEQ <- 64, WORD <- 16,
  TCP_WND <- 5, MSS <- 2, IRS <- 1, N <- 7, FAILS <- TRUE

ASSUME /\ Early!TcpSendAssumption /\ Held!TcpSendAssumption /\ Flow!TcpSendAssumption
       /\ Live!TcpAssumption /\ Idle!TcpAssumption /\ Takes!TcpReceiveAssumption

-----------------------------------------------------------------------------
Sender == \/ part = "send" /\ Next
          \/ part = "early" /\ Early!Next
          \/ part = "held" /\ Held!Next
          \/ part = "flow" /\ Flow!Next
Hosts == \/ part = "live" /\ Live!Next
         \/ part = "idle" /\ Idle!Next

MCNext ==
  /\ UNCHANGED part
  /\ \/ Sender /\ UNCHANGED <<tcpVars, rcvVars>>
     \/ Hosts /\ UNCHANGED <<vars, rcvVars>>
     \/ part = "takes" /\ Takes!Next /\ UNCHANGED <<vars, tcpVars>>

MCInit ==
  /\ part \in {"send", "early", "held", "flow", "live", "idle", "takes"}
  /\ IF part = "early" THEN Early!Init
     ELSE IF part \in {"send", "held"} THEN Init ELSE Flow!Init
  /\ Live!Init /\ Takes!Init /\ ~choosy

(* The fairness of each component's FairSpec.                              *)
SendSpec ==
  /\ MCInit /\ [][MCNext]_<<part, vars, tcpVars, rcvVars>>
  /\ Live!Fairness /\ Flow!Fairness
  /\ \A b \in BOOLEAN : []<>(part = "flow" /\ ~gone => ticked = b)
  /\ []<>(part = "takes" => end > 0 \/ hit)
  /\ []<>(used = Len(taken))

-----------------------------------------------------------------------------
(* The properties, each for the parts it is about.                         *)
Sending == part \in {"send", "early", "held"}

(* The sender: the queues hold every byte that was written and not         *)
(* acknowledged, once, under its number and in order (unless the driver    *)
(* holds a segment); only a probe goes beyond the window; the application  *)
(* is told of every acknowledged byte once (unless a SYN comes late).      *)
SendSound == Sending => /\ SendTypeOK /\ WindowKept
                        /\ part # "held" => Intact /\ Ordered
                        /\ part # "early" => SentTold

(* When both applications have closed, both pcbs go away; what is written  *)
(* is acknowledged in the end or the connection given up; what is sent     *)
(* arrives.                                                                *)
StreamsEnd == /\ Live!AllGone
              /\ part = "flow" => Flow!Drained
              /\ (part = "takes" => Takes!AllArrives)
=============================================================================
