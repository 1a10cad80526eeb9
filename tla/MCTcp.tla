------------------------------- MODULE MCTcp -------------------------------
(***************************************************************************)
(* lwIP's TCP, for safety: a connection between two hosts, and one         *)
(* direction at the receiver.  part says which of them moves and with      *)
(* which constants, the other stays in its initial state.  TcpSpec has the *)
(* parts that are checked, CloseSpec one that loses data.                  *)
(***************************************************************************)
EXTENDS TcpReceive

VARIABLES part, pcb, wrote, got, told, err, done, ended, net, lost     \* Tcp

tcpVars == <<pcb, wrote, got, told, err, done, ended, net, lost>>

-----------------------------------------------------------------------------
(* The client writes one byte.  Half: either side ends its own direction   *)
(* first.  Lossy: any packet is lost.  Idle: the connection is left alone  *)
(* for long before it ends.  Early: timers run out although the answer is  *)
(* under way.  Close: the server writes more than the window of the        *)
(* client.  The receiver is that of the extended module, with a stream     *)
(* longer than the window.                                                 *)
Half == INSTANCE Tcp WITH eof <- told, SEQ <- 32, WORD <- 8, BYTE <- 5, TCP_WND <- 4, MSS <- 1,
  TCP_SND_BUF <- 4, TCP_SND_QUEUELEN <- 4, BACKOFFS <- 1, TCP_MAXRTX <- 2,
  TCP_SYNMAXRTX <- 2, Client <- "client", Server <- "server",
  N <- [client |-> 1, server |-> 0], LOSSES <- 0, UNREAD <- FALSE, HALF <- TRUE,
  ABORTS <- FALSE, IDLE <- FALSE, PATIENT <- TRUE
Lossy == INSTANCE Tcp WITH eof <- told, SEQ <- 32, WORD <- 8, BYTE <- 5, TCP_WND <- 4, MSS <- 1,
  TCP_SND_BUF <- 4, TCP_SND_QUEUELEN <- 4, BACKOFFS <- 1, TCP_MAXRTX <- 2,
  TCP_SYNMAXRTX <- 2, Client <- "client", Server <- "server",
  N <- [client |-> 1, server |-> 0], LOSSES <- 1, UNREAD <- FALSE, HALF <- FALSE,
  ABORTS <- FALSE, IDLE <- FALSE, PATIENT <- TRUE
Idle == INSTANCE Tcp WITH eof <- told, SEQ <- 32, WORD <- 8, BYTE <- 5, TCP_WND <- 4, MSS <- 1,
  TCP_SND_BUF <- 4, TCP_SND_QUEUELEN <- 4, BACKOFFS <- 1, TCP_MAXRTX <- 2,
  TCP_SYNMAXRTX <- 2, Client <- "client", Server <- "server",
  N <- [client |-> 1, server |-> 0], LOSSES <- 1, UNREAD <- FALSE, HALF <- FALSE,
  ABORTS <- FALSE, IDLE <- TRUE, PATIENT <- TRUE
Early == INSTANCE Tcp WITH eof <- told, SEQ <- 32, WORD <- 8, BYTE <- 5, TCP_WND <- 4, MSS <- 1,
  TCP_SND_BUF <- 4, TCP_SND_QUEUELEN <- 4, BACKOFFS <- 1, TCP_MAXRTX <- 1,
  TCP_SYNMAXRTX <- 1, Client <- "client", Server <- "server",
  N <- [client |-> 0, server |-> 0], LOSSES <- 0, UNREAD <- FALSE, HALF <- FALSE,
  ABORTS <- FALSE, IDLE <- FALSE, PATIENT <- FALSE
Close == INSTANCE Tcp WITH eof <- told, SEQ <- 32, WORD <- 8, BYTE <- 5, TCP_WND <- 2, MSS <- 1,
  TCP_SND_BUF <- 4, TCP_SND_QUEUELEN <- 4, BACKOFFS <- 1, TCP_MAXRTX <- 2,
  TCP_SYNMAXRTX <- 2, Client <- "client", Server <- "server",
  N <- [client |-> 0, server |-> 3], LOSSES <- 0, UNREAD <- FALSE, HALF <- TRUE,
  ABORTS <- FALSE, IDLE <- FALSE, PATIENT <- TRUE

ASSUME /\ Half!TcpInAssumption /\ Half!TcpOutAssumption /\ Half!TcpAssumption
       /\ Lossy!TcpAssumption /\ Idle!TcpAssumption /\ Early!TcpAssumption
       /\ Close!TcpInAssumption /\ Close!TcpAssumption

-----------------------------------------------------------------------------
Hosts == \/ part = "half" /\ Half!Next
         \/ part = "lossy" /\ Lossy!Next
         \/ part = "idle" /\ Idle!Next
         \/ part = "early" /\ Early!Next

MCNext ==
  /\ UNCHANGED part
  /\ \/ Hosts /\ UNCHANGED vars
     \/ part = "receive" /\ Next /\ UNCHANGED tcpVars

SafeInit ==
  /\ part \in {"half", "lossy", "idle", "early", "receive"}
  /\ Half!Init /\ Init
  /\ part # "receive" => ~choosy

TcpSpec == SafeInit /\ [][MCNext]_<<part, tcpVars, vars>>

CloseInit == part = "close" /\ Half!Init /\ Init /\ ~choosy

CloseSpec ==
  /\ CloseInit
  /\ [][Close!Next /\ UNCHANGED <<part, vars>>]_<<part, tcpVars, vars>>

-----------------------------------------------------------------------------
Connects == part \in {"half", "lossy", "idle", "early"}

(* "unsent data is sent from tcp timer functions, also": a connection is   *)
(* only over for a host when everything it wrote has arrived, unless one   *)
(* of the two has cut it off.                                              *)
ClosedDelivered == Connects \/ part = "close" => Half!ClosedDelivered

(* Two hosts: each application has a prefix of what the other wrote, is    *)
(* told the end only when it has everything and the other has closed;      *)
(* hosts that both hold the connection agree on what was received; nobody  *)
(* resets a connection that no application has aborted and no timer ended. *)
TcpSound == /\ ClosedDelivered
            /\ Connects => /\ Half!TcpTypeOK
                           /\ Half!Prefix /\ Half!EofExact /\ Half!Agree
            /\ Connects /\ part # "idle" => Half!NoStrayReset
=============================================================================
