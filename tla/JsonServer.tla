----------------------------- MODULE JsonServer -----------------------------
(***************************************************************************)
(* The JSON client and server of the third lesson: client.py and one       *)
(* thread of server.py at the two ends of a TCP connection.  A request is  *)
(* a few bytes that the server answers with a line that has the length of  *)
(* a JSON text, and that text.                                             *)
(***************************************************************************)
EXTENDS Naturals, Sequences

CONSTANTS SENT,      \* bytes of a request
          BODY,      \* bytes of the JSON text
          ROUNDS     \* bound: requests

ASSUME JsonAssumption == {SENT, BODY, ROUNDS} \subseteq Nat \ {0}

(* caller: the client: at, where it is in send; n, its requests so far;    *)
(* total, what int(len_str) gave; view, the body read so far.  thread: at  *)
(* and serialized, the data in the answer it last made (NONE while         *)
(* unbound).  requests and answers: the bytes under way in each direction, *)
(* the end of the stream behind them once its sender has closed.  got:     *)
(* what the client's calls of send were given.  plain, fixed from the      *)
(* start: it is client.py that sends, and its requests arrive whole;       *)
(* otherwise recv may return a part of a request, and a byte be no ASCII.  *)
VARIABLES plain, caller, thread, requests, answers, got
jsonVars == <<plain, caller, thread, requests, answers, got>>

RequestByte == [req : 1..ROUNDS, byte : 1..SENT, ascii : BOOLEAN]
Request(n, ascii) ==
  [i \in 1..SENT |-> [req |-> n, byte |-> i, ascii |-> ascii]]

NONE == <<>>
NL   == [newline |-> TRUE]
LineByte == [len : {BODY}] \union {NL}
TextByte == [echo : Seq(RequestByte), byte : 1..BODY]

(* The line and the text.  The mutant counts the newline in.               *)
Text(data) == [i \in 1..BODY |-> [echo |-> data, byte |-> i]]
Reply_long(data) == <<[len |-> BODY + 1], NL>> \o Text(data)
Reply(data) == <<[len |-> BODY], NL>> \o Text(data)

JsonInit ==
  /\ plain \in BOOLEAN
  /\ caller = [at |-> "idle", n |-> 0, total |-> 0, view |-> <<>>]
  /\ thread = [at |-> "recv", serialized |-> NONE]
  /\ requests = <<>> /\ answers = <<>> /\ got = <<>>

-----------------------------------------------------------------------------
(* client.py: send, the line byte by byte, the body in pieces.  At the end *)
(* of the stream recv returns nothing, and the loop goes on.               *)
Ping == /\ caller.at = "idle" /\ caller.n < ROUNDS
        /\ \E ascii \in BOOLEAN :
             /\ plain => ascii
             /\ requests' = requests \o Request(caller.n + 1, ascii)
        /\ caller' = [at |-> "line", n |-> caller.n + 1, total |-> 0,
                      view |-> <<>>]
        /\ UNCHANGED <<plain, thread, answers, got>>

ReadLine ==
  /\ caller.at = "line" /\ answers # <<>>
  /\ caller' = IF Head(answers) = NL
                 THEN [caller EXCEPT !.at = "body"]
                 ELSE [caller EXCEPT !.total = Head(answers).len]
  /\ answers' = Tail(answers)
  /\ UNCHANGED <<plain, thread, requests, got>>

(* recv_into takes what has arrived, at most as much as is missing.  The   *)
(* mutant asks for the whole body every time.                              *)
Missing_all == caller.total
Missing == caller.total - Len(caller.view)

ReadBody ==
  /\ caller.at = "body" /\ Len(caller.view) < caller.total
  /\ \E k \in 1..Missing :
       /\ k <= Len(answers)
       /\ caller' = [caller EXCEPT !.view = @ \o SubSeq(answers, 1, k)]
       /\ answers' = SubSeq(answers, k + 1, Len(answers))
  /\ UNCHANGED <<plain, thread, requests, got>>

Loads == /\ caller.at = "body" /\ Len(caller.view) >= caller.total
         /\ got' = Append(got, caller.view)
         /\ caller' = [caller EXCEPT !.at = "idle"]
         /\ UNCHANGED <<plain, thread, requests, answers>>

(* KeyboardInterrupt in the sleep between two requests *)
Close == /\ caller.at = "idle"
         /\ caller' = [caller EXCEPT !.at = "closed"]
         /\ UNCHANGED <<plain, thread, requests, answers, got>>

-----------------------------------------------------------------------------
(* server.py, listenToClient: recv takes some or all of what has arrived;  *)
(* after the end of the stream it returns nothing, at once, for ever.      *)
(* A request that is no ASCII leaves serialized as it was; when there is   *)
(* none yet the exception closes the connection.  The mutant answers with  *)
(* what it had serialized before.                                          *)
Decoded(data) ==
  IF \A i \in DOMAIN data : data[i].ascii THEN data ELSE thread.serialized

Respond(old, data) ==
  LET new == Decoded(data)
  IN  IF new = NONE
        THEN thread' = [thread EXCEPT !.at = "closed"] /\ UNCHANGED answers
        ELSE /\ thread' = [thread EXCEPT !.serialized = new]
             /\ answers' = answers \o Reply(IF old = NONE THEN new ELSE old)
Serve_late(data) == Respond(thread.serialized, data)
Serve(data) == Respond(NONE, data)

ThreadRecv ==
  /\ thread.at = "recv" /\ requests # <<>>
  /\ \E k \in 1..Len(requests) :
       /\ plain => k = Len(requests)
       /\ Serve(SubSeq(requests, 1, k))
       /\ requests' = SubSeq(requests, k + 1, Len(requests))
  /\ UNCHANGED <<plain, caller, got>>

(* The socket's timeout of 60 seconds without a request *)
TimedOut == /\ thread.at = "recv" /\ requests = <<>> /\ caller.at # "closed"
            /\ thread' = [thread EXCEPT !.at = "closed"]
            /\ UNCHANGED <<plain, caller, requests, answers, got>>

JsonNext == \/ Ping \/ ReadLine \/ ReadBody \/ Loads \/ Close
            \/ ThreadRecv \/ TimedOut

JsonSpec == JsonInit /\ [][JsonNext]_jsonVars

(* Both programs run, and TCP delivers what was sent.                      *)
JsonFairSpec ==
  /\ JsonSpec
  /\ WF_jsonVars(ReadLine) /\ WF_jsonVars(ReadBody) /\ WF_jsonVars(Loads)
  /\ WF_jsonVars(ThreadRecv)

-----------------------------------------------------------------------------
(* The states of both sides; a body is never longer than its line said.    *)
JsonTypeOK ==
  /\ plain \in BOOLEAN
  /\ caller \in [at : {"idle", "line", "body", "closed"}, n : 0..ROUNDS,
                 total : {0, BODY}, view : Seq(TextByte)]
  /\ thread \in [at : {"recv", "closed"}, serialized : Seq(RequestByte)]
  /\ requests \in Seq(RequestByte) /\ answers \in Seq(LineByte \union TextByte)
  /\ got \in Seq(Seq(TextByte)) /\ Len(got) <= caller.n
  /\ Len(caller.view) <= caller.total

(* However the answer is cut into pieces, and whatever else is in the      *)
(* stream, json.loads is given one whole text.                             *)
WholeAnswers == \A n \in DOMAIN got : got[n] = Text(got[n][1].echo)

(* "Send back a JSON that has [...] the data sent": the n-th answer a      *)
(* client gets has its n-th request in it.                                 *)
EchoesRequest ==
  \A n \in DOMAIN got :
    \E ascii \in BOOLEAN : got[n][1].echo = Request(n, ascii)

JsonSound == JsonTypeOK /\ WholeAnswers /\ (plain => EchoesRequest)

(* send returns, unless the server has closed the connection: then recv    *)
(* returns nothing and the client reads on for ever.                       *)
Returns == caller.at \in {"line", "body"} ~>
             (caller.at = "idle" \/ thread.at = "closed")
=============================================================================
