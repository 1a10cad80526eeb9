-------------------------------- MODULE Dns ---------------------------------
(***************************************************************************)
(* The name resolver of lwIP as it is in this repository: dns.c with its   *)
(* table of entries, retries, servers and times to live, and a network     *)
(* that loses, delays, reorders and duplicates the answers.  The address   *)
(* of a name is the name itself.                                           *)
(***************************************************************************)
EXTENDS Integers, FiniteSets, FiniteSetsExt

CONSTANTS DNS_TABLE_SIZE, DNS_MAX_RETRIES,
          SERVERS,     \* servers that are configured, up to DNS_MAX_SERVERS
          Name,
          Random,      \* outcomes of os_random() >> 16
          Ttl,         \* times to live in answers
          SEQ,         \* 2^8, the values of dns_seqno
          START,       \* dns_seqno after earlier queries, all of them flushed
          REQS, ASKED  \* bounds: requests, queries under way

(* The fields of an entry but its name and numbers are bytes.              *)
ASSUME DnsAssumption ==
  /\ {DNS_TABLE_SIZE, DNS_MAX_RETRIES, SERVERS, SEQ, REQS, ASKED} \subseteq Nat \ {0}
  /\ DNS_MAX_RETRIES < 256
  /\ Random \subseteq 0..2^16-1 /\ Random # {} /\ Ttl \subseteq Nat
  /\ START \in 0..SEQ-1
  /\ Name # {} /\ Name \cap {"idle", "waiting", "NULL", "ERR_MEM"} = {}

Slots == 0..DNS_TABLE_SIZE-1
Req   == 1..REQS

(* dns: table, the dns_table with, of each entry, the number of its        *)
(* request (0 is a found of NULL); seqno and random, dns_seqno and         *)
(* dns_random; net, queries whose answers may arrive; reqs, of each        *)
(* request its name, how it stands and its callbacks; reenter, fixed from  *)
(* the start, that callbacks may ask for another name; and lost, a history *)
(* of the requests whose entry was flushed in place of an earlier one.     *)
VARIABLE dns

Unused == [state |-> "UNUSED", name |-> CHOOSE n \in Name : TRUE, seqno |-> 0, tmr |-> 0,
           retries |-> 0, numdns |-> 0, ttl |-> 0, req |-> 0]

DnsInit == \E again \in BOOLEAN :
  dns = [table  |-> [i \in Slots |-> Unused], seqno |-> START,
         random |-> CHOOSE r \in Random : TRUE, net |-> {},
         reqs   |-> [r \in Req |-> [name |-> CHOOSE n \in Name : TRUE,
                                    res |-> "idle", calls |-> 0]],
         reenter |-> again, lost |-> {}]

-----------------------------------------------------------------------------
(* The callback found, with an address or NULL; and flushing an entry.     *)
Notified(q, res) == [name |-> q.name, res |-> res, calls |-> q.calls + 1]
CallFound(t, i, res) ==
  LET r == t.table[i].req
  IN  IF r = 0 THEN t ELSE [t EXCEPT !.reqs[r] = Notified(@, res)]
Flush(t, i) == [t EXCEPT !.table[i] = Unused]

(* dns_send: a query with a fresh dns_random; it or its answer may get     *)
(* lost.                                                                   *)
dns_send(t, i, rnd) ==
  LET id == (i + rnd) % 2^16
      q  == [id |-> id, name |-> t.table[i].name]
  IN  [t EXCEPT !.random = rnd,
                !.net = IF Cardinality(@) < ASKED THEN @ \union {q} ELSE @]

(* dns_check_entry.  The mutants do not start again with the next server,  *)
(* or go on with the same one.                                             *)
Retry(t, i, rnd) ==
  dns_send([t EXCEPT !.table[i].retries = @ + 1, !.table[i].tmr = t.table[i].retries + 1], i, rnd)

CheckAsking(step, last, t, i, rnd) ==
  LET e == t.table[i]
  IN  IF e.tmr - 1 # 0 THEN [t EXCEPT !.table[i].tmr = (@ - 1) % 256]
      ELSE IF e.retries + 1 # DNS_MAX_RETRIES THEN Retry(t, i, rnd)
      ELSE IF e.numdns + 1 < SERVERS
        THEN [t EXCEPT !.table[i].numdns = @ + step, !.table[i].tmr = 1,
                       !.table[i].retries = last]
        ELSE Flush(CallFound(t, i, "NULL"), i)
CheckNew(t, i, rnd) ==
  dns_send([t EXCEPT !.table[i].state = "ASKING", !.table[i].numdns = 0,
                     !.table[i].tmr = 1, !.table[i].retries = 0], i, rnd)
CheckDone(t, i) ==
  IF t.table[i].ttl \in {0, 1} THEN Flush(t, i) ELSE [t EXCEPT !.table[i].ttl = @ - 1]

CheckFrom(step, last, t, i, rnd) ==
  CASE t.table[i].state = "NEW"    -> CheckNew(t, i, rnd)
    [] t.table[i].state = "ASKING" -> CheckAsking(step, last, t, i, rnd)
    [] t.table[i].state = "DONE"   -> CheckDone(t, i)
    [] t.table[i].state = "UNUSED" -> t
dns_check_entry_on(t, i, rnd) == CheckFrom(1, DNS_MAX_RETRIES, t, i, rnd)
dns_check_entry_same(t, i, rnd) == CheckFrom(0, 0, t, i, rnd)
dns_check_entry(t, i, rnd) == CheckFrom(1, 0, t, i, rnd)

(* dns_tmr: Checked(rnd)[n] is the state after the first n entries.        *)
Checked(rnd) ==
  LET f[n \in 0..DNS_TABLE_SIZE] ==
        IF n = 0 THEN dns ELSE dns_check_entry(f[n - 1], n - 1, rnd[n - 1])
  IN  f

dns_tmr == \E rnd \in [Slots -> Random] : dns' = Checked(rnd)[DNS_TABLE_SIZE]

-----------------------------------------------------------------------------
(* dns_enqueue: an unused entry or the oldest completed one.  The          *)
(* difference of sequence numbers is an int.  The mutant takes entries     *)
(* that are still asking.                                                  *)
Age(t, i) == t.seqno - t.table[i].seqno

Slot(states, t) ==
  LET unused == {i \in Slots : t.table[i].state = "UNUSED"}
      aged   == {i \in Slots : t.table[i].state \in states /\ Age(t, i) > 0}
      oldest == {i \in aged : \A j \in aged : Age(t, j) <= Age(t, i)}
      lseqi  == IF aged = {} THEN 0 ELSE Min(oldest)
  IN  IF unused # {} THEN {Min(unused)}
      ELSE IF t.table[lseqi].state \in states THEN {lseqi} ELSE {}
FreeEntry_any(t) == Slot({"DONE", "ASKING"}, t)
FreeEntry(t) == Slot({"DONE"}, t)

Wants(q, n, res) == [name |-> n, res |-> res, calls |-> q.calls]

Enqueued(t, i, r, n) ==
  [t EXCEPT !.table[i] = [@ EXCEPT !.state = "NEW", !.seqno = t.seqno, !.req = r, !.name = n],
            !.seqno = (@ + 1) % SEQ,
            !.reqs[r] = Wants(@, n, "waiting")]

dns_enqueue(t, r, n, rnd) ==
  IF FreeEntry(t) = {} THEN [t EXCEPT !.reqs[r] = Wants(@, n, "ERR_MEM")]
  ELSE LET i == CHOOSE j \in FreeEntry(t) : TRUE
       IN  dns_check_entry(Enqueued(t, i, r, n), i, rnd)

NextReq == {r \in Req : dns.reqs[r].res = "idle"
                        /\ \A q \in 1..r-1 : dns.reqs[q].res # "idle"}

(* dns_gethostbyname with a name: what is in the table already is not      *)
(* looked up.                                                              *)
dns_gethostbyname ==
  \E r \in NextReq, n \in Name, rnd \in Random : dns' = dns_enqueue(dns, r, n, rnd)

-----------------------------------------------------------------------------
(* dns_recv for an answer m: an error, an answer without an address or     *)
(* with one.  found may call dns_gethostbyname, which may take the very    *)
(* entry that is then flushed.  The mutant does not compare the names.     *)
AnswerEntry(m) == (m.id - dns.random) % 2^16

(* The entry is DONE, and its callback has been called.                    *)
Called(i, res, ttl) ==
  CallFound([dns EXCEPT !.table[i].state = "DONE",
                        !.table[i].ttl = IF res = "NULL" THEN @ ELSE ttl], i, res)

Closed(t, i, res) ==
  IF res # "NULL" /\ t.table[i].ttl # 0 THEN t
  ELSE [Flush(t, i) EXCEPT !.lost = IF t.table[i].state = "ASKING"
                                      THEN @ \union {t.table[i].req} ELSE @]

(* The name asked for in the answer is the entry's.                        *)
Same(m) == dns.table[AnswerEntry(m)].name = m.name

(* An answer may come again.                                               *)
Received(t, m) == dns' = t \/ dns' = [t EXCEPT !.net = @ \ {m}]

dns_recv_in(m, kind, ttl, res) ==
  LET i == AnswerEntry(m)
  IN  IF i \notin Slots \/ kind = "error" THEN Received(dns, m)
      ELSE IF dns.table[i].state # "ASKING" THEN Received(dns, m)
      ELSE LET t == Called(i, res, ttl)
           IN  \/ Received(Closed(t, i, res), m)
               \/ /\ dns.reenter
                  /\ \E r \in NextReq, n \in Name, rnd \in Random :
                       Received(Closed(dns_enqueue(t, r, n, rnd), i, res), m)
dns_recv_any(m, kind, ttl) ==
  dns_recv_in(m, kind, ttl, IF kind = "address" THEN m.name ELSE "NULL")
dns_recv(m, kind, ttl) ==
  dns_recv_in(m, kind, ttl, IF kind = "address" /\ Same(m) THEN m.name ELSE "NULL")

Kind == {"error", "no address", "address"}

DnsNext == \/ dns_tmr \/ dns_gethostbyname
           \/ \E m \in dns.net, kind \in Kind, ttl \in Ttl : dns_recv(m, kind, ttl)

DnsSpec == DnsInit /\ [][DnsNext]_dns

(* dns_tmr is called every second *)
DnsFairSpec == DnsSpec /\ WF_dns(dns_tmr)

-----------------------------------------------------------------------------
(* What the fields of an entry can hold.  An entry that asks has retries   *)
(* left.                                                                   *)
DnsTypeOK ==
  /\ dns.seqno \in 0..SEQ-1 /\ dns.random \in Random /\ Cardinality(dns.net) <= ASKED
  /\ \A i \in Slots :
       LET e == dns.table[i]
       IN  /\ e.state \in {"UNUSED", "ASKING", "DONE"} /\ e.name \in Name
           /\ e.state = "ASKING" => /\ e.retries < DNS_MAX_RETRIES /\ e.numdns < SERVERS
                                    /\ e.tmr \in 1..DNS_MAX_RETRIES

(* Whatever answers arrive late, twice or under an id that by now means    *)
(* another entry: a request is called back at most once, and an address it *)
(* is given is that of its name.                                           *)
RightAnswer ==
  \A r \in Req : /\ dns.reqs[r].calls <= 1
                 /\ dns.reqs[r].res \in Name => dns.reqs[r].res = dns.reqs[r].name

(* Every request that waits has exactly one entry, which is asking for its *)
(* name; but for one made from a callback that took the entry of the       *)
(* request called back, to be flushed with it.                             *)
Tracked ==
  \A r \in Req \ dns.lost : dns.reqs[r].res = "waiting" =>
    LET mine == {i \in Slots : dns.table[i].req = r /\ dns.table[i].state = "ASKING"}
    IN  Cardinality(mine) = 1 /\ \A i \in mine : dns.table[i].name = dns.reqs[r].name

(* If callbacks do not ask no request is lost.                             *)
LostInCallback == ~dns.reenter => dns.lost = {}

DnsSound == DnsTypeOK /\ RightAnswer /\ Tracked /\ LostInCallback

(* "found a callback function to be called on success, failure or timeout  *)
(* (only if ERR_INPROGRESS is returned!)"                                  *)
Answered == \A r \in Req : dns.reqs[r].res = "waiting" ~> dns.reqs[r].res # "waiting"
=============================================================================
