------------------------------ MODULE LanProofs -----------------------------
(***************************************************************************)
(* ArpSound and LeastDestructive for tables of any size, any hosts, ages   *)
(* and numbers of packets.  Each handler replaces one entry of the table,  *)
(* so that what is shown of a step is that the new entry is good by        *)
(* itself, that what it changes besides is of that entry's address only    *)
(* (Touches), and that no other entry has the address (PlaceOf); Replaced  *)
(* concludes from these.                                                   *)
(*                                                                         *)
(* IgmpSound for any interfaces, groups, timers and response times: the    *)
(* flag of a group says who reported last, a report is never later than    *)
(* its query asks for, and who has joined stays a member.                  *)
(*                                                                         *)
(* DnsSound for any table, servers, retries, names, answers and times to   *)
(* live: Consistent says that the entries that ask and the requests that   *)
(* wait are each other's, but for the lost ones.                           *)
(***************************************************************************)
EXTENDS Etharp, Igmp, Dns, FiniteSetTheorems, TLAPS

(* Some numbers have a least one. If not, every number below all of them   *)
(* can be followed by another, and the bounded, hence finite, set of these *)
(* has a map onto itself, k to k - 1, that is not injective: 0 and 1 go to *)
(* 0.                                                                      *)
LEMMA LeastNumber ==
  ASSUME NEW S, S \subseteq Nat, S # {}
  PROVE  \E m \in S : \A x \in S : m <= x
  <1> SUFFICES ASSUME \A m \in S : \E x \in S : x < m
               PROVE  FALSE
    OBVIOUS
  <1> DEFINE L == {k \in Nat : \A x \in S : k <= x}
             Pred == [k \in L |-> IF k = 0 THEN 0 ELSE k - 1]
  <1>1. 0 \in L /\ \A k \in L : k + 1 \in L
    OBVIOUS
  <1>2. IsFiniteSet(L)
    <2>1. PICK x \in S : TRUE
      OBVIOUS
    <2>2. x \in Nat /\ L \in SUBSET Nat /\ \A k \in L : k <= x
      BY <2>1
    <2> HIDE DEF L
    <2> QED
      BY <2>2, FS_BoundedSetOfNaturals
  <1>3. Pred \in Surjection(L, L)
    <2>1. Pred \in [L -> L]
      OBVIOUS
    <2>2. \A k \in L : k + 1 \in L /\ Pred[k + 1] = k
      BY <1>1
    <2> QED
      BY <2>1, <2>2 DEF Surjection
  <1>4. Pred \in Injection(L, L)
    BY <1>2, <1>3, FS_SurjSameCardinalityImpliesInj
  <1>5. 1 \in L /\ Pred[0] = 0 /\ Pred[1] = 0
    BY <1>1
  <1> QED
    BY <1>1, <1>4, <1>5 DEF Injection, IsInjective


-----------------------------------------------------------------------------
(* What the fields of an entry and of the cache may be.                    *)
States == {"EMPTY", "PENDING", "STABLE", "REREQUESTING"}
Entry  == [state : States, ip : Host \union {"none"}, mac : Mac \union {"none"}, ctime : Nat,
           q : Seq(Nat), netif : {"NULL", "netif"}, asked : Nat, late : BOOLEAN]
Cache  == [up : BOOLEAN, table : [Index -> Entry], hint : Index, n : Nat,
           last : [Host -> Nat], heard : [Host -> Mac \union {"none"}]]

(* What holds of one entry at all times. InAge: etharp_tmr frees it in     *)
(* time. Asked: a used entry near its end has made one request, and the    *)
(* note of it is cleared as it ages. Waits: packets queue only in a        *)
(* pending entry, no more than QLEN, in their order, none of them sent     *)
(* yet. GoodEntry also says that the hardware address is the one last      *)
(* heard.                                                                  *)
Increasing(q) == \A j, k \in 1..Len(q) : j < k => q[j] < q[k]
InAge(e) == e.ctime < ARP_MAXAGE /\ (e.state = "PENDING" => e.ctime < ARP_MAXPENDING)
Asked(e) == /\ e.late = (e.state = "REREQUESTING")
            /\ e.asked = IF e.state = "REREQUESTING" THEN 1 ELSE 0
Waits(e, last, n) ==
  /\ e.state # "PENDING" => e.q = <<>>
  /\ Len(e.q) <= QLEN /\ Increasing(e.q)
  /\ \A k \in 1..Len(e.q) : last[e.ip] < e.q[k] /\ e.q[k] <= n

GoodEntry(e, last, heard, n) ==
  /\ e.state # "EMPTY" => e.ip \in Host
  /\ InAge(e) /\ Asked(e) /\ Waits(e, last, n)
  /\ Stable(e) => e.mac = heard[e.ip]

(* No address is in the table twice: find_entry looks for a match first.   *)
Distinct(t) == \A i, j \in Index :
  (t.table[i].state # "EMPTY" /\ t.table[j].state # "EMPTY"
     /\ t.table[i].ip = t.table[j].ip) => i = j

Good(t, n) ==
  /\ t \in Cache /\ \A h \in Host : t.last[h] <= n
  /\ \A i \in Index : GoodEntry(t.table[i], t.last, t.heard, n)
  /\ Distinct(t)

(* The inductive invariant. That n, the number of the last packet, is a    *)
(* parameter of Good lets the lemmas speak of the cache in the middle of a *)
(* handler, when a new packet is not yet queued or sent.                   *)
ArpInv == Good(arp, arp.n)

-----------------------------------------------------------------------------
(* Types of an entry's fields.                                             *)
LEMMA EntryTypes ==
  ASSUME NEW t \in Cache, NEW i \in Index
  PROVE  /\ t.table[i] \in Entry /\ t.table[i].ctime \in Nat /\ t.table[i].q \in Seq(Nat)
         /\ Len(t.table[i].q) \in Nat /\ t.table[i].state \in States
  BY DEF Cache, Entry

(* The elements of a queue.                                                *)
LEMMA Elements ==
  ASSUME NEW q \in Seq(Nat)
  PROVE  \A k \in 1..Len(q) : q[k] \in Nat
  OBVIOUS

(* What is assumed of the sizes, in the form that the leaves use.          *)
LEMMA SizeFacts ==
  /\ ARP_TABLE_SIZE \in Nat \ {0} /\ ARP_MAXPENDING \in Nat \ {0} /\ PKTS \in Nat \ {0}
  /\ ARP_MAXAGE \in Nat /\ ARP_MAXAGE > 1
  BY EtharpAssumption

(* find_entry tells four kinds of entries apart.                           *)
LEMMA RankRange ==
  ASSUME NEW e \in Entry
  PROVE  Rank(e) \in 0..3
  <1>1. CASE e.state = "EMPTY"
    BY <1>1 DEF Rank
  <1>2. CASE e.state # "EMPTY" /\ Stable(e)
    BY <1>2 DEF Rank
  <1>3. CASE e.state # "EMPTY" /\ ~Stable(e)
    <2>1. CASE e.state = "PENDING" /\ e.q = <<>>
      BY <1>3, <2>1 DEF Rank
    <2>2. CASE ~(e.state = "PENDING" /\ e.q = <<>>)
      BY <1>3, <2>2 DEF Rank
    <2> QED
      BY <2>1, <2>2
  <1> QED
    BY <1>1, <1>2, <1>3

(* find_entry always has an entry to give up: *)
LEMMA VictimExists ==
  ASSUME NEW t \in Cache, \A i \in Index : t.table[i].ctime < ARP_MAXAGE
  PROVE  /\ Victim(t) \in Index
         /\ \A j \in Index \ {Victim(t)} : Worse(t.table, j, Victim(t))
  <1> DEFINE r(i) == Rank(t.table[i])
             age(i) == t.table[i].ctime
             R == {r(i) : i \in Index}
  <1>1. \A i \in Index : i \in Nat /\ r(i) \in 0..3 /\ age(i) \in Nat /\ age(i) < ARP_MAXAGE
    <2> SUFFICES ASSUME NEW i \in Index
                 PROVE  i \in Nat /\ r(i) \in 0..3 /\ age(i) \in Nat
      OBVIOUS
    <2>1. t.table[i] \in Entry /\ age(i) \in Nat
      BY EntryTypes
    <2>2. r(i) \in 0..3
      BY <2>1, RankRange
    <2> QED
      BY <2>1, <2>2, SizeFacts DEF Index
  <1>2. PICK a \in Index : \A j \in Index : r(a) <= r(j)
    <2>1. Index # {}
      BY SizeFacts DEF Index
    <2>2. R \subseteq Nat /\ R # {}
      BY <1>1, <2>1
    <2>3. PICK m \in R : \A x \in R : m <= x
      BY <2>2, LeastNumber
    <2>4. PICK a \in Index : m = r(a)
      BY <2>3
    <2>5. \A j \in Index : r(j) \in R
      OBVIOUS
    <2> HIDE DEF R, r
    <2> QED
      BY <2>3, <2>4, <2>5
  <1> DEFINE Low == {i \in Index : r(i) = r(a)}
             Left == {ARP_MAXAGE - age(i) : i \in Low}
  <1>3. PICK b \in Low : \A j \in Low : age(j) <= age(b)
    <2>1. Left \subseteq Nat /\ Left # {}
      BY <1>1, SizeFacts
    <2>2. PICK m \in Left : \A x \in Left : m <= x
      BY <2>1, LeastNumber
    <2>3. PICK b \in Low : m = ARP_MAXAGE - age(b)
      BY <2>2
    <2>4. \A j \in Low : ARP_MAXAGE - age(b) <= ARP_MAXAGE - age(j)
      BY <2>2, <2>3
    <2>5. \A j \in Low : age(j) <= age(b)
      BY <2>3, <2>4, <1>1, SizeFacts
    <2> QED
      BY <2>5
  <1> DEFINE Best == IF r(a) = 0 THEN Low ELSE {i \in Low : age(i) = age(b)}
             key(i) == IF r(a) = 0 THEN i ELSE ARP_TABLE_SIZE - i
             Keys == {key(i) : i \in Best}
  <1>4. PICK v \in Best : \A j \in Best : key(v) <= key(j)
    <2>1. Keys \subseteq Nat /\ Keys # {}
      BY <1>1, <1>3, SizeFacts DEF Index
    <2>2. PICK m \in Keys : \A x \in Keys : m <= x
      BY <2>1, LeastNumber
    <2>3. PICK v \in Best : m = key(v)
      BY <2>2
    <2>4. \A j \in Best : key(j) \in Keys
      OBVIOUS
    <2> HIDE DEF Keys, key
    <2> QED
      BY <2>2, <2>3, <2>4
  <1>5. v \in Index /\ r(v) = r(a) /\ (r(a) # 0 => age(v) = age(b))
    BY <1>4
  <1>6. \A j \in Index \ {v} : Worse(t.table, j, v)
    <2> SUFFICES ASSUME NEW j \in Index \ {v} PROVE Worse(t.table, j, v)
      OBVIOUS
    <2>1. CASE r(j) > r(v)
      BY <2>1 DEF Worse
    <2>2. CASE ~(r(j) > r(v))
      <3>1. r(j) = r(v)
        BY <2>2, <1>1, <1>2, <1>5
      <3>2. j \in Low
        BY <3>1, <1>5
      <3>3. r(v) = 0 => j > v
        BY <3>2, <1>1, <1>4, <1>5
      <3>4. r(v) # 0 => age(j) < age(v) \/ (age(j) = age(v) /\ j < v)
        <4>1. r(v) # 0 => age(j) <= age(v)
          BY <3>2, <1>3, <1>5
        <4>2. r(v) # 0 /\ age(j) = age(v) => j < v
          <5>1. r(v) # 0 /\ age(j) = age(v) => j \in Best
            BY <3>2, <1>5
          <5> QED
            BY <5>1, <1>1, <1>4, <1>5, SizeFacts DEF Index
        <4> QED
          BY <4>1, <4>2, <1>1
      <3> QED
        BY <3>1, <3>3, <3>4 DEF Worse
    <2> QED
      BY <2>1, <2>2
  <1> QED
    BY <1>5, <1>6 DEF Victim, LeastMissed

-----------------------------------------------------------------------------
(* The entry of an address or, if it has none, the one that is given up.   *)
Place(t, ip) == IF Match(t, ip) # {} THEN Found(t, ip) ELSE Victim(t)

(* What finding an entry needs to know.                                    *)
Tidy(t) == t \in Cache /\ Distinct(t) /\ \A i \in Index : t.table[i].ctime < ARP_MAXAGE

(* A good cache is tidy.                                                   *)
LEMMA GoodIsTidy ==
  ASSUME NEW t, NEW n, Good(t, n)
  PROVE  Tidy(t)
  BY DEF Good, Tidy, GoodEntry, InAge

(* No other entry has the address.                                         *)
LEMMA PlaceOf ==
  ASSUME NEW t, Tidy(t), NEW ip \in Host
  PROVE  /\ Place(t, ip) \in Index
         /\ \A j \in Index \ {Place(t, ip)} :
              t.table[j].state # "EMPTY" => t.table[j].ip # ip
         /\ Match(t, ip) # {} => /\ t.table[Place(t, ip)].state # "EMPTY"
                                 /\ t.table[Place(t, ip)].ip = ip
  <1>1. CASE Match(t, ip) # {}
    <2>1. Found(t, ip) \in Match(t, ip)
      BY <1>1 DEF Found
    <2> QED
      BY <1>1, <2>1 DEF Place, Match, Live, Tidy, Distinct
  <1>2. CASE Match(t, ip) = {}
    <2>1. Victim(t) \in Index
      BY VictimExists DEF Tidy
    <2> QED
      BY <1>2, <2>1 DEF Place, Match, Live
  <1> QED
    BY <1>1, <1>2

(* u differs from t in entry i and in what is known of ip.                 *)
Touches(t, u, i, ip) ==
  /\ \A j \in Index \ {i} : u.table[j] = t.table[j]
  /\ \A h \in Host \ {ip} : u.last[h] = t.last[h] /\ u.heard[h] = t.heard[h]

(* A good cache in which one entry is replaced by a good one, and nothing  *)
(* that concerns other addresses changes, is good.                         *)
LEMMA Replaced ==
  ASSUME NEW t, NEW u \in Cache, NEW n \in Nat, NEW m \in Nat, NEW i \in Index,
         NEW ip \in Host, Good(t, n), n <= m, Touches(t, u, i, ip), u.last[ip] <= m,
         GoodEntry(u.table[i], u.last, u.heard, m),
         u.table[i].state # "EMPTY" => u.table[i].ip = ip,
         \A j \in Index \ {i} : t.table[j].state # "EMPTY" => t.table[j].ip # ip
  PROVE  Good(u, m)
  <1> USE DEF Good
  <1>1. \A h \in Host : u.last[h] <= m
    <2> SUFFICES ASSUME NEW h \in Host, h # ip PROVE u.last[h] <= m
      OBVIOUS
    <2>1. u.last[h] = t.last[h] /\ t.last[h] <= n /\ t.last[h] \in Nat
      BY DEF Touches, Cache
    <2> QED
      BY <2>1
  <1>2. ASSUME NEW j \in Index \ {i}
        PROVE  GoodEntry(u.table[j], u.last, u.heard, m)
    <2> DEFINE e == t.table[j]
    <2>1. u.table[j] = e /\ e \in Entry /\ GoodEntry(e, t.last, t.heard, n)
      BY EntryTypes DEF Touches
    <2>2. e.state # "EMPTY" => e.ip \in Host /\ u.last[e.ip] = t.last[e.ip]
                                 /\ u.heard[e.ip] = t.heard[e.ip]
      BY <2>1 DEF Touches, GoodEntry
    <2>3. Waits(e, u.last, m)
      <3>1. Waits(e, t.last, n)
        BY <2>1 DEF GoodEntry
      <3>2. CASE e.q = <<>>
        BY <3>1, <3>2 DEF Waits
      <3>3. CASE e.q # <<>>
        <4>1. e.state # "EMPTY"
          BY <3>1, <3>3 DEF Waits
        <4>2. \A k \in 1..Len(e.q) : e.q[k] \in Nat
          <5>1. e.q \in Seq(Nat)
            BY EntryTypes DEF Good
          <5> QED
            BY <5>1, Elements
        <4>3. \A k \in 1..Len(e.q) : e.q[k] <= m
          <5>1. \A k \in 1..Len(e.q) : e.q[k] <= n
            BY <3>1 DEF Waits
          <5> HIDE DEF e
          <5> QED
            BY <4>2, <5>1
        <4> QED
          BY <2>2, <3>1, <4>1, <4>3 DEF Waits
      <3> QED
        BY <3>2, <3>3
    <2>4. Stable(e) => e.mac = u.heard[e.ip]
      BY <2>1, <2>2 DEF GoodEntry, Stable
    <2> HIDE DEF e
    <2> QED
      BY <2>1, <2>3, <2>4 DEF GoodEntry
  <1>3. Distinct(u)
    BY DEF Distinct, Touches
  <1> QED
    BY <1>1, <1>2, <1>3

-----------------------------------------------------------------------------
(* How the handlers change a cache: an entry, and the last packet sent to  *)
(* a host.                                                                 *)
WithEntry(t, i, x) == [t EXCEPT !.table[i] = x]
WithLast(t, ip, p) == [t EXCEPT !.last[ip] = p]

(* The fields of the cache after that.                                     *)
LEMMA WithEntryFields ==
  ASSUME NEW t \in Cache, NEW i \in Index, NEW x \in Entry
  PROVE  /\ WithEntry(t, i, x) \in Cache /\ WithEntry(t, i, x).table[i] = x
         /\ \A j \in Index \ {i} : WithEntry(t, i, x).table[j] = t.table[j]
         /\ WithEntry(t, i, x).last = t.last /\ WithEntry(t, i, x).heard = t.heard
         /\ WithEntry(t, i, x).n = t.n /\ WithEntry(t, i, x).hint = t.hint
  <1> DEFINE T == [Index -> Entry]
             L == [Host -> Nat]
             H == [Host -> Mac \union {"none"}]
  <1>1. t \in [up : BOOLEAN, table : T, hint : Index, n : Nat, last : L, heard : H]
    BY DEF Cache
  <1>2. [t.table EXCEPT ![i] = x] \in T
    BY DEF Cache
  <1>3. t.table \in T
    BY <1>1
  <1>4. /\ [t.table EXCEPT ![i] = x][i] = x
        /\ \A j \in Index \ {i} : [t.table EXCEPT ![i] = x][j] = t.table[j]
    BY <1>3
  <1> HIDE DEF T, L, H
  <1>5. WithEntry(t, i, x) = [t EXCEPT !.table = [t.table EXCEPT ![i] = x]]
    BY DEF WithEntry
  <1> DEFINE f == [t.table EXCEPT ![i] = x]
  <1> HIDE DEF f
  <1>6. [t EXCEPT !.table = f] \in [up : BOOLEAN, table : T, hint : Index, n : Nat, last : L, heard : H]
    BY <1>1, <1>2 DEF f
  <1>7. LET u == [t EXCEPT !.table = f]
        IN  u.table = f /\ u.last = t.last /\ u.heard = t.heard /\ u.n = t.n /\ u.hint = t.hint
    BY <1>1
  <1>8. WithEntry(t, i, x) \in Cache
    BY <1>5, <1>6 DEF f, Cache, T, L, H
  <1> QED
    BY <1>4, <1>5, <1>7, <1>8 DEF f

(* The same for the last packet.                                           *)
LEMMA WithLastFields ==
  ASSUME NEW t \in Cache, NEW ip \in Host, NEW p \in Nat
  PROVE  /\ WithLast(t, ip, p) \in Cache /\ WithLast(t, ip, p).table = t.table
         /\ WithLast(t, ip, p).last[ip] = p
         /\ \A h \in Host \ {ip} : WithLast(t, ip, p).last[h] = t.last[h]
         /\ WithLast(t, ip, p).heard = t.heard
         /\ WithLast(t, ip, p).n = t.n /\ WithLast(t, ip, p).hint = t.hint
  <1> DEFINE T == [Index -> Entry]
             L == [Host -> Nat]
             H == [Host -> Mac \union {"none"}]
             f == [t.last EXCEPT ![ip] = p]
  <1>1. t \in [up : BOOLEAN, table : T, hint : Index, n : Nat, last : L, heard : H]
    BY DEF Cache
  <1>2. t.last \in L
    BY <1>1
  <1>3. f \in L /\ f[ip] = p /\ \A h \in Host \ {ip} : f[h] = t.last[h]
    BY <1>2
  <1> HIDE DEF T, L, H
  <1>4. WithLast(t, ip, p) = [t EXCEPT !.last = f]
    BY DEF WithLast
  <1> HIDE DEF f
  <1>5. [t EXCEPT !.last = f] \in [up : BOOLEAN, table : T, hint : Index, n : Nat, last : L, heard : H]
    BY <1>1, <1>3
  <1>6. LET u == [t EXCEPT !.last = f]
        IN  u.last = f /\ u.table = t.table /\ u.heard = t.heard /\ u.n = t.n /\ u.hint = t.hint
    BY <1>1
  <1>7. WithLast(t, ip, p) \in Cache
    BY <1>4, <1>5 DEF Cache, T, L, H
  <1> QED
    BY <1>3, <1>4, <1>6, <1>7

(* The entry of the initial table.                                         *)
LEMMA EmptyEntry ==
  /\ Empty \in Entry /\ Empty.state = "EMPTY" /\ Empty.ip = "none" /\ Empty.ctime = 0
  /\ Empty.q = <<>> /\ Empty.asked = 0 /\ Empty.late = FALSE
  <1>1. <<>> \in Seq(Nat)
    OBVIOUS
  <1> QED
    BY <1>1 DEF Empty, Entry, States

(* find_entry of a new entry: it has the address and nothing else.         *)
Fresh(t, ip) == [Empty EXCEPT !.ip = ip, !.netif = t.table[Victim(t)].netif]

(* The entry that was given up has become a fresh one.                     *)
LEMMA NewEntryFields ==
  ASSUME NEW t, Tidy(t), NEW ip \in Host
  PROVE  /\ NewEntry(t, ip) = WithEntry(t, Victim(t), Fresh(t, ip))
         /\ Victim(t) \in Index /\ Fresh(t, ip) \in Entry
         /\ Fresh(t, ip).state = "EMPTY" /\ Fresh(t, ip).ip = ip
         /\ Fresh(t, ip).ctime = 0 /\ Fresh(t, ip).q = <<>>
         /\ Fresh(t, ip).asked = 0 /\ Fresh(t, ip).late = FALSE
  <1>1. Victim(t) \in Index
    BY VictimExists DEF Tidy
  <1>2. t.table[Victim(t)].netif \in {"NULL", "netif"}
    BY <1>1 DEF Tidy, Cache, Entry
  <1>3. NewEntry(t, ip) = WithEntry(t, Victim(t), Fresh(t, ip))
    BY DEF NewEntry, WithEntry, Fresh
  <1>4. /\ Empty \in Entry /\ Empty.state = "EMPTY" /\ Empty.ctime = 0 /\ Empty.q = <<>>
        /\ Empty.asked = 0 /\ Empty.late = FALSE
    BY EmptyEntry
  <1>5. Fresh(t, ip) \in Entry
    BY <1>2, <1>4 DEF Fresh, Entry
  <1>6. /\ Fresh(t, ip).state = "EMPTY" /\ Fresh(t, ip).ip = ip
        /\ Fresh(t, ip).ctime = 0 /\ Fresh(t, ip).q = <<>>
        /\ Fresh(t, ip).asked = 0 /\ Fresh(t, ip).late = FALSE
    BY <1>4 DEF Fresh, Entry
  <1> QED
    BY <1>1, <1>3, <1>5, <1>6

(* update_arp_entry makes the entry stable and sends what waits.           *)
Filled(t, i, mac) ==
  [t.table[i] EXCEPT !.state = "STABLE", !.mac = mac, !.ctime = 0, !.q = <<>>,
                     !.asked = 0, !.late = FALSE,
                     !.netif = IF LWIP_SNMP THEN "netif" ELSE @]
Sent(t, e) == IF e.q = <<>> THEN t.last[e.ip] ELSE Last(e.q)

(* Update in terms of these.                                               *)
LEMMA UpdateIs ==
  ASSUME NEW t \in Cache, NEW i \in Index, NEW mac \in Mac
  PROVE  Update(t, i, mac)
           = WithLast(WithEntry(t, i, Filled(t, i, mac)), t.table[i].ip, Sent(t, t.table[i]))
  BY DEF Update, WithLast, WithEntry, Filled, Sent, Cache

(* The fields of a filled entry, in one predicate.                         *)
IsFilled(x, ip, mac) ==
  /\ x \in Entry /\ x.state = "STABLE" /\ x.ip = ip /\ x.mac = mac
  /\ x.ctime = 0 /\ x.q = <<>> /\ x.asked = 0 /\ x.late = FALSE

(* Filled gives these fields.                                              *)
LEMMA FilledFields ==
  ASSUME NEW t \in Cache, NEW i \in Index, NEW mac \in Mac
  PROVE  IsFilled(Filled(t, i, mac), t.table[i].ip, mac)
  <1> DEFINE x == Filled(t, i, mac)
  <1>1. t.table[i] \in Entry
    BY EntryTypes
  <1>2. x \in Entry
    <2>1. (IF LWIP_SNMP THEN "netif" ELSE t.table[i].netif) \in {"NULL", "netif"}
      BY <1>1 DEF Entry
    <2>2. <<>> \in Seq(Nat)
      OBVIOUS
    <2> QED
      BY <1>1, <2>1, <2>2 DEF Filled, Entry, States
  <1>3. /\ x.state = "STABLE" /\ x.ip = t.table[i].ip /\ x.mac = mac
        /\ x.ctime = 0 /\ x.q = <<>> /\ x.asked = 0 /\ x.late = FALSE
    BY <1>1 DEF Filled, Entry
  <1> QED
    BY <1>2, <1>3 DEF IsFilled

(* A stable entry without packets that was just filled is good.            *)
(* A stable entry of age 0 with the address last heard is good.            *)
LEMMA StableGood ==
  ASSUME NEW x \in Entry, NEW last, NEW heard, NEW n \in Nat,
         x.state = "STABLE", x.ip \in Host, x.ctime = 0, x.q = <<>>,
         x.asked = 0, x.late = FALSE, x.mac = heard[x.ip]
  PROVE  GoodEntry(x, last, heard, n)
  <1>1. Waits(x, last, n)
    BY DEF Waits, Increasing, QLEN
  <1>2. InAge(x)
    BY SizeFacts DEF InAge
  <1>3. Asked(x)
    BY DEF Asked
  <1> QED
    BY <1>1, <1>2, <1>3 DEF GoodEntry, Stable

-----------------------------------------------------------------------------
(* A host is heard: etharp_arp_input and etharp_ip_input.                  *)
WithHeard(t, ip, mac) == [t EXCEPT !.heard[ip] = mac]

(* The cache after that, of which find_entry chooses the same victim.      *)
LEMMA WithHeardFields ==
  ASSUME NEW t \in Cache, NEW ip \in Host, NEW mac \in Mac
  PROVE  /\ WithHeard(t, ip, mac) \in Cache /\ WithHeard(t, ip, mac).table = t.table
         /\ WithHeard(t, ip, mac).heard[ip] = mac
         /\ \A h \in Host \ {ip} : WithHeard(t, ip, mac).heard[h] = t.heard[h]
         /\ WithHeard(t, ip, mac).last = t.last /\ WithHeard(t, ip, mac).n = t.n
         /\ Victim(WithHeard(t, ip, mac)) = Victim(t)
  <1> DEFINE T == [Index -> Entry]
             L == [Host -> Nat]
             H == [Host -> Mac \union {"none"}]
             f == [t.heard EXCEPT ![ip] = mac]
  <1>1. t \in [up : BOOLEAN, table : T, hint : Index, n : Nat, last : L, heard : H]
    BY DEF Cache
  <1>2. t.heard \in H
    BY <1>1
  <1>3. f \in H /\ f[ip] = mac /\ \A h \in Host \ {ip} : f[h] = t.heard[h]
    BY <1>2
  <1> HIDE DEF T, L, H
  <1>4. WithHeard(t, ip, mac) = [t EXCEPT !.heard = f]
    BY DEF WithHeard
  <1> HIDE DEF f
  <1>5. [t EXCEPT !.heard = f] \in [up : BOOLEAN, table : T, hint : Index, n : Nat, last : L, heard : H]
    BY <1>1, <1>3
  <1>6. LET u == [t EXCEPT !.heard = f]
        IN  u.heard = f /\ u.table = t.table /\ u.last = t.last /\ u.n = t.n
    BY <1>1
  <1>7. WithHeard(t, ip, mac) \in Cache
    BY <1>4, <1>5 DEF Cache, T, L, H
  <1>8. Victim(WithHeard(t, ip, mac)) = Victim(t)
    BY <1>4, <1>6 DEF Victim
  <1> QED
    BY <1>3, <1>4, <1>6, <1>7, <1>8

(* update_arp_entry sends packets that were queued, which are not newer    *)
(* than the newest.                                                        *)
LEMMA SentIsOld ==
  ASSUME NEW t, NEW n \in Nat, Good(t, n), NEW i \in Index, NEW ip \in Host,
         t.table[i].state # "EMPTY" => t.table[i].ip = ip
  PROVE  t.table[i].ip = ip =>
           Sent(t, t.table[i]) \in Nat /\ Sent(t, t.table[i]) <= n
  <1> DEFINE e == t.table[i]
  <1>1. e.q \in Seq(Nat) /\ t.last[ip] \in Nat /\ t.last[ip] <= n /\ Waits(e, t.last, n)
    BY EntryTypes DEF Good, GoodEntry, Cache
  <1> HIDE DEF e
  <1>2. CASE e.q = <<>>
    BY <1>1, <1>2 DEF Sent, e
  <1>3. CASE e.q # <<>>
    <2>1. Len(e.q) \in 1..Len(e.q)
      BY <1>1, <1>3
    <2>2. e.q[Len(e.q)] \in Nat /\ e.q[Len(e.q)] <= n
      BY <1>1, <2>1, Elements DEF Waits
    <2> QED
      BY <1>3, <2>2 DEF Sent, Last, e
  <1> QED
    BY <1>2, <1>3

(* update_arp_entry, of either caller: an entry is filled, its packets go  *)
(* out in order, and only find_entry's victim gets another address.        *)
LEMMA HeardGood ==
  ASSUME NEW s, NEW n \in Nat, Good(s, n), NEW ip \in Host, NEW mac \in Mac,
         NEW hard \in BOOLEAN
  PROVE  LET u == update_arp_entry(WithHeard(s, ip, mac), ip, mac, hard)
         IN  /\ Good(u, n) /\ u.n = s.n
             /\ \A i \in Index : u.table[i].ip = s.table[i].ip \/ i = Victim(s)
  <1> DEFINE t == WithHeard(s, ip, mac)
             u == update_arp_entry(t, ip, mac, hard)
             p == Place(t, ip)
  <1>1. s \in Cache /\ Tidy(s)
    BY GoodIsTidy DEF Good
  <1>2. /\ t \in Cache /\ t.table = s.table /\ t.heard[ip] = mac
        /\ \A h \in Host \ {ip} : t.heard[h] = s.heard[h]
        /\ t.last = s.last /\ t.n = s.n /\ Victim(t) = Victim(s)
    BY <1>1, WithHeardFields
  <1> HIDE DEF t
  <1>3. Tidy(t)
    BY <1>1, <1>2 DEF Tidy, Distinct
  <1>4. /\ p \in Index
        /\ \A j \in Index \ {p} : t.table[j].state # "EMPTY" => t.table[j].ip # ip
        /\ Match(t, ip) # {} => t.table[p].state # "EMPTY" /\ t.table[p].ip = ip
    BY <1>3, PlaceOf
  <1>5. CASE Match(t, ip) # {}
    <2>1. p = Found(t, ip) /\ u = Update(t, p, mac)
      BY <1>5 DEF update_arp_entry, Place
    <2> DEFINE x == Filled(t, p, mac)
               w == WithEntry(t, p, x)
               l == Sent(t, t.table[p])
    <2>2. /\ u = WithLast(w, t.table[p].ip, l)
          /\ x \in Entry /\ x.state = "STABLE" /\ x.ip = t.table[p].ip /\ x.mac = mac
          /\ x.ctime = 0 /\ x.q = <<>> /\ x.asked = 0 /\ x.late = FALSE
      <3>1. Update(t, p, mac) = WithLast(w, t.table[p].ip, l)
        BY <1>2, <1>4, UpdateIs
      <3>2. x = Filled(t, p, mac)
        OBVIOUS
      <3> HIDE DEF p, x, l, u
      <3>3. /\ x \in Entry /\ x.state = "STABLE" /\ x.ip = t.table[p].ip /\ x.mac = mac
            /\ x.ctime = 0 /\ x.q = <<>> /\ x.asked = 0 /\ x.late = FALSE
        <4>1. IsFilled(x, t.table[p].ip, mac)
          BY <1>2, <1>4, <3>2, FilledFields
        <4> QED
          BY <4>1 DEF IsFilled
      <3> HIDE DEF w
      <3> QED
        BY <2>1, <3>1, <3>3
    <2>3. t.table[p].ip = ip
      BY <1>4, <1>5
    <2>4. l \in Nat /\ l <= n
      <3>1. Sent(s, s.table[p]) \in Nat /\ Sent(s, s.table[p]) <= n
        BY <1>2, <1>4, <2>3, SentIsOld
      <3> QED
        BY <3>1, <1>2 DEF Sent
    <2> HIDE DEF p, x, l
    <2>5. /\ w \in Cache /\ w.table[p] = x
          /\ \A j \in Index \ {p} : w.table[j] = t.table[j]
          /\ w.last = t.last /\ w.heard = t.heard /\ w.n = t.n
      BY <1>2, <1>4, <2>2, WithEntryFields
    <2> HIDE DEF w
    <2>6. /\ u \in Cache /\ u.table = w.table /\ u.last[ip] = l
          /\ \A h \in Host \ {ip} : u.last[h] = w.last[h]
          /\ u.heard = w.heard /\ u.n = w.n
      <3>1. u = WithLast(w, ip, l)
        BY <2>2, <2>3
      <3> HIDE DEF u
      <3> QED
        BY <2>4, <2>5, <3>1, WithLastFields
    <2> HIDE DEF u
    <2>7. GoodEntry(u.table[p], u.last, u.heard, n)
      <3>1. x.mac = u.heard[x.ip]
        BY <1>2, <2>2, <2>3, <2>5, <2>6
      <3> QED
        BY <2>2, <2>3, <2>5, <2>6, <3>1, StableGood
    <2>8. Touches(s, u, p, ip)
      BY <1>2, <2>5, <2>6 DEF Touches
    <2>9. Good(u, n)
      <3>1. \A j \in Index \ {p} : s.table[j].state # "EMPTY" => s.table[j].ip # ip
        BY <1>2, <1>4
      <3>2. u.table[p].ip = ip /\ n <= n
        BY <2>2, <2>3, <2>5, <2>6
      <3> QED
        BY <1>4, <2>4, <2>6, <2>7, <2>8, <3>1, <3>2, Replaced
    <2> QED
      BY <1>2, <2>2, <2>3, <2>5, <2>6, <2>9 DEF u, t
  <1>6. CASE Match(t, ip) = {} /\ hard
    <2>1. p = Victim(t) /\ u = Update(NewEntry(t, ip), p, mac)
      BY <1>6 DEF update_arp_entry, Place
    <2> DEFINE e == Fresh(t, ip)
               v == NewEntry(t, ip)
               x == Filled(v, p, mac)
               w == WithEntry(v, p, x)
               l == Sent(v, v.table[p])
    <2>2. /\ v = WithEntry(t, p, e) /\ e \in Entry
          /\ e.state = "EMPTY" /\ e.ip = ip /\ e.ctime = 0 /\ e.q = <<>>
      BY <1>3, <2>1, NewEntryFields
    <2> HIDE DEF p, e
    <2>3. /\ v \in Cache /\ v.table[p] = e
          /\ \A j \in Index \ {p} : v.table[j] = t.table[j]
          /\ v.last = t.last /\ v.heard = t.heard /\ v.n = t.n
      BY <1>2, <1>4, <2>2, WithEntryFields
    <2>4. /\ u = WithLast(w, v.table[p].ip, l)
          /\ x \in Entry /\ x.state = "STABLE" /\ x.ip = v.table[p].ip /\ x.mac = mac
          /\ x.ctime = 0 /\ x.q = <<>> /\ x.asked = 0 /\ x.late = FALSE
      <3>1. Update(v, p, mac) = WithLast(w, v.table[p].ip, l)
        BY <1>4, <2>3, UpdateIs
      <3>2. x = Filled(v, p, mac)
        OBVIOUS
      <3> HIDE DEF x, l, u, v
      <3>3. /\ x \in Entry /\ x.state = "STABLE" /\ x.ip = v.table[p].ip /\ x.mac = mac
            /\ x.ctime = 0 /\ x.q = <<>> /\ x.asked = 0 /\ x.late = FALSE
        <4>1. IsFilled(x, v.table[p].ip, mac)
          BY <1>4, <2>3, <3>2, FilledFields
        <4> QED
          BY <4>1 DEF IsFilled
      <3> HIDE DEF w
      <3> QED
        BY <2>1, <3>1, <3>3 DEF v
    <2>5. l = s.last[ip] /\ l \in Nat /\ l <= n
      <3>1. l = s.last[ip]
        BY <1>2, <2>2, <2>3 DEF Sent
      <3>2. s.last[ip] \in Nat /\ s.last[ip] <= n
        BY <1>1 DEF Cache, Good
      <3> QED
        BY <3>1, <3>2
    <2> HIDE DEF v, x, l
    <2>6. /\ w \in Cache /\ w.table[p] = x
          /\ \A j \in Index \ {p} : w.table[j] = v.table[j]
          /\ w.last = v.last /\ w.heard = v.heard /\ w.n = v.n
      BY <1>4, <2>3, <2>4, WithEntryFields
    <2> HIDE DEF w
    <2>7. v.table[p].ip = ip
      BY <2>2, <2>3
    <2>8. /\ u \in Cache /\ u.table = w.table /\ u.last[ip] = l
          /\ \A h \in Host \ {ip} : u.last[h] = w.last[h]
          /\ u.heard = w.heard /\ u.n = w.n
      <3>1. u = WithLast(w, ip, l)
        BY <2>4, <2>7
      <3> HIDE DEF u
      <3> QED
        BY <2>5, <2>6, <3>1, WithLastFields
    <2> HIDE DEF u
    <2>9. GoodEntry(u.table[p], u.last, u.heard, n)
      <3>1. x.mac = u.heard[x.ip]
        BY <1>2, <2>3, <2>4, <2>6, <2>7, <2>8
      <3> QED
        BY <2>4, <2>6, <2>7, <2>8, <3>1, StableGood
    <2>10. Touches(s, u, p, ip)
      BY <1>2, <2>3, <2>6, <2>8 DEF Touches
    <2>11. Good(u, n)
      <3>1. \A j \in Index \ {p} : s.table[j].state # "EMPTY" => s.table[j].ip # ip
        BY <1>2, <1>4
      <3>2. u.table[p].ip = ip /\ n <= n
        BY <2>4, <2>6, <2>7, <2>8
      <3> QED
        BY <1>4, <2>5, <2>8, <2>9, <2>10, <3>1, <3>2, Replaced
    <2> QED
      BY <1>2, <2>1, <2>3, <2>6, <2>8, <2>11 DEF u, t
  <1>7. CASE Match(t, ip) = {} /\ ~hard
    <2>1. u = t
      BY <1>7 DEF update_arp_entry
    <2>2. ASSUME NEW j \in Index
          PROVE  GoodEntry(t.table[j], t.last, t.heard, n)
      <3> DEFINE g == t.table[j]
      <3>1. g.state # "EMPTY" => g.ip # ip
        BY <1>7 DEF Match, Live
      <3>2. GoodEntry(g, s.last, s.heard, n)
        BY <1>2 DEF Good
      <3>3. Stable(g) => g.mac = t.heard[g.ip]
        BY <1>2, <3>1, <3>2 DEF GoodEntry, Stable
      <3> HIDE DEF g
      <3> QED
        BY <1>2, <3>2, <3>3 DEF GoodEntry, g
    <2>3. Good(t, n)
      BY <1>2, <1>3, <2>2 DEF Good, Tidy
    <2> QED
      BY <1>2, <2>1, <2>3 DEF t
  <1> QED
    BY <1>5, <1>6, <1>7

-----------------------------------------------------------------------------
(* What stays good: a cache when more packets are there, or when another   *)
(* entry is remembered; an entry without packets when one is sent.         *)
WithHint(t, i) == [t EXCEPT !.hint = i]

(* The cache with another hint.                                            *)
LEMMA WithHintFields ==
  ASSUME NEW t \in Cache, NEW i \in Index
  PROVE  /\ WithHint(t, i) \in Cache /\ WithHint(t, i).table = t.table
         /\ WithHint(t, i).last = t.last /\ WithHint(t, i).heard = t.heard
         /\ WithHint(t, i).n = t.n
  <1> DEFINE T == [Index -> Entry]
             L == [Host -> Nat]
             H == [Host -> Mac \union {"none"}]
  <1>1. t \in [up : BOOLEAN, table : T, hint : Index, n : Nat, last : L, heard : H]
    BY DEF Cache
  <1> HIDE DEF T, L, H
  <1>2. WithHint(t, i) \in [up : BOOLEAN, table : T, hint : Index, n : Nat, last : L, heard : H]
    BY <1>1 DEF WithHint
  <1>3. WithHint(t, i) \in Cache
    BY <1>2 DEF Cache, T, L, H
  <1> QED
    BY <1>1, <1>3 DEF WithHint

(* An entry that is not pending does not depend on the packets sent.       *)
LEMMA QuietGood ==
  ASSUME NEW e \in Entry, NEW last, NEW heard, NEW n, GoodEntry(e, last, heard, n),
         e.state # "PENDING",
         NEW l, NEW h, e.state # "EMPTY" => h[e.ip] = heard[e.ip], NEW m
  PROVE  GoodEntry(e, l, h, m)
  <1>1. Waits(e, l, m)
    BY DEF Waits, GoodEntry, Increasing
  <1> QED
    BY <1>1 DEF GoodEntry, Stable

(* Another packet exists.                                                  *)
LEMMA LaterGood ==
  ASSUME NEW t, NEW u \in Cache, NEW n \in Nat, NEW m \in Nat, Good(t, n), n <= m,
         u.table = t.table, u.last = t.last, u.heard = t.heard
  PROVE  Good(u, m)
  <1>1. ASSUME NEW i \in Index PROVE GoodEntry(t.table[i], t.last, t.heard, m)
    <2> DEFINE e == t.table[i]
    <2>1. GoodEntry(e, t.last, t.heard, n) /\ e.q \in Seq(Nat)
      BY EntryTypes DEF Good
    <2>2. \A k \in 1..Len(e.q) : e.q[k] \in Nat
      BY <2>1, Elements
    <2> HIDE DEF e
    <2>3. Waits(e, t.last, n)
      BY <2>1 DEF GoodEntry
    <2>4. \A k \in 1..Len(e.q) : e.q[k] <= m
      <3>1. \A k \in 1..Len(e.q) : e.q[k] <= n
        BY <2>3 DEF Waits
      <3> QED
        BY <2>2, <3>1
    <2>5. Waits(e, t.last, m)
      BY <2>3, <2>4 DEF Waits
    <2> QED
      BY <2>1, <2>5 DEF GoodEntry, e
  <1>2. \A h \in Host : t.last[h] <= m
    BY DEF Good, Cache
  <1> QED
    BY <1>1, <1>2 DEF Good, Distinct

(* The smallest of the indices that etharp_output looks through.           *)
(* The least index is an index.                                            *)
LEMMA MinIn ==
  ASSUME NEW S \in SUBSET Index, S # {}
  PROVE  Min(S) \in S
  <1>1. S \subseteq Nat
    BY DEF Index
  <1>2. \E m \in S : \A x \in S : m <= x
    BY <1>1, LeastNumber
  <1> QED
    BY <1>2 DEF Min

-----------------------------------------------------------------------------
(* etharp_query makes a pending entry if the address has none.             *)
Asking(t, ip) == [Fresh(t, ip) EXCEPT !.state = "PENDING"]

(* The fields of an entry just made pending.                               *)
LEMMA AskingFields ==
  ASSUME NEW t, Tidy(t), NEW ip \in Host
  PROVE  /\ Asking(t, ip) \in Entry /\ Asking(t, ip).state = "PENDING"
         /\ Asking(t, ip).ip = ip /\ Asking(t, ip).ctime = 0 /\ Asking(t, ip).q = <<>>
         /\ Asking(t, ip).asked = 0 /\ Asking(t, ip).late = FALSE
  <1> DEFINE e == Fresh(t, ip)
  <1>1. /\ e \in Entry /\ e.ip = ip /\ e.ctime = 0 /\ e.q = <<>> /\ e.asked = 0
        /\ e.late = FALSE
    BY NewEntryFields
  <1>2. Asking(t, ip) = [e EXCEPT !.state = "PENDING"]
    BY DEF Asking
  <1> HIDE DEF e
  <1>3. Asking(t, ip) \in Entry
    BY <1>1, <1>2 DEF Entry, States
  <1> QED
    BY <1>1, <1>2, <1>3 DEF Entry

(* Such an entry is good.                                                  *)
LEMMA AskingGood ==
  ASSUME NEW x \in Entry, x.state = "PENDING", x.ip \in Host, x.ctime = 0, x.q = <<>>,
         x.asked = 0, x.late = FALSE, NEW last, NEW heard, NEW n
  PROVE  GoodEntry(x, last, heard, n)
  <1>1. Waits(x, last, n)
    BY DEF Waits, Increasing, QLEN
  <1>2. InAge(x)
    BY SizeFacts DEF InAge
  <1>3. Asked(x)
    BY DEF Asked
  <1> QED
    BY <1>1, <1>2, <1>3 DEF GoodEntry, Stable

(* The first half of etharp_query: the address has an entry.               *)
LEMMA PendingGood ==
  ASSUME NEW t, NEW n \in Nat, Good(t, n), NEW ip \in Host
  PROVE  /\ Good(Pending(t, ip), n) /\ Pending(t, ip).n = t.n
         /\ Match(Pending(t, ip), ip) # {}
         /\ \A i \in Index : Pending(t, ip).table[i].ip = t.table[i].ip \/ i = Victim(t)
  <1> DEFINE u == Pending(t, ip)
             p == Place(t, ip)
  <1>1. t \in Cache /\ Tidy(t)
    BY GoodIsTidy DEF Good
  <1>2. CASE Match(t, ip) # {}
    BY <1>2 DEF Pending
  <1>3. CASE Match(t, ip) = {}
    <2>1. /\ p = Victim(t) /\ p \in Index
          /\ \A j \in Index \ {p} : t.table[j].state # "EMPTY" => t.table[j].ip # ip
      BY <1>1, <1>3, PlaceOf DEF Place
    <2> DEFINE e == Fresh(t, ip)
               v == NewEntry(t, ip)
               x == Asking(t, ip)
    <2>2. v = WithEntry(t, p, e) /\ e \in Entry
      BY <1>1, <2>1, NewEntryFields
    <2>3. /\ x \in Entry /\ x.state = "PENDING" /\ x.ip = ip /\ x.ctime = 0 /\ x.q = <<>>
          /\ x.asked = 0 /\ x.late = FALSE
      BY <1>1, AskingFields
    <2>4. u = [v EXCEPT !.table[p].state = "PENDING"]
      BY <1>3, <2>1 DEF Pending
    <2>5. x = [e EXCEPT !.state = "PENDING"]
      BY DEF Asking
    <2> HIDE DEF p, e, v, x, u
    <2>6. /\ v \in Cache /\ v.table[p] = e
          /\ \A j \in Index \ {p} : v.table[j] = t.table[j]
          /\ v.last = t.last /\ v.heard = t.heard /\ v.n = t.n
      BY <1>1, <2>1, <2>2, WithEntryFields
    <2>7. u = WithEntry(v, p, x)
      BY <2>4, <2>5, <2>6 DEF WithEntry
    <2>8. /\ u \in Cache /\ u.table[p] = x
          /\ \A j \in Index \ {p} : u.table[j] = v.table[j]
          /\ u.last = v.last /\ u.heard = v.heard /\ u.n = v.n
      BY <2>1, <2>3, <2>6, <2>7, WithEntryFields
    <2>9. GoodEntry(u.table[p], u.last, u.heard, n)
      BY <2>3, <2>8, AskingGood
    <2>10. Touches(t, u, p, ip)
      BY <2>6, <2>8 DEF Touches
    <2>11. u.last[ip] <= n /\ u.table[p].ip = ip /\ n <= n
      BY <2>3, <2>6, <2>8 DEF Good
    <2>12. Good(u, n)
      BY <2>1, <2>8, <2>9, <2>10, <2>11, Replaced
    <2>13. p \in Match(u, ip)
      BY <2>1, <2>3, <2>8 DEF Match, Live
    <2> QED
      BY <2>1, <2>6, <2>8, <2>12, <2>13 DEF u
  <1> QED
    BY <1>2, <1>3

(* A packet p, newer than all others, is queued last; the oldest of four   *)
(* is dropped.                                                             *)
Longer(q, p) == IF Len(Append(q, p)) > QLEN THEN Tail(Append(q, p)) ELSE Append(q, p)

(* The index of an appended element.                                       *)
LEMMA LastIndex ==
  ASSUME NEW n \in Nat, NEW k \in 1..n + 1, k \notin 1..n
  PROVE  k = n + 1
  OBVIOUS

(* The queue stays short and in order.                                     *)
LEMMA LongerQueue ==
  ASSUME NEW q \in Seq(Nat), NEW p \in Nat, NEW l \in Nat, Len(q) <= QLEN, Increasing(q),
         \A k \in 1..Len(q) : l < q[k] /\ q[k] < p, l < p
  PROVE  /\ Longer(q, p) \in Seq(Nat) /\ Len(Longer(q, p)) <= QLEN
         /\ Increasing(Longer(q, p))
         /\ \A k \in 1..Len(Longer(q, p)) : l < Longer(q, p)[k] /\ Longer(q, p)[k] <= p
  <1> DEFINE r == Append(q, p)
             s == Tail(r)
  <1>1. /\ r \in Seq(Nat) /\ Len(r) = Len(q) + 1 /\ Len(q) \in Nat /\ r[Len(r)] = p
        /\ \A k \in 1..Len(q) : r[k] = q[k] /\ q[k] \in Nat
    BY Elements
  <1> HIDE DEF r
  <1>2. Increasing(r)
    <2> SUFFICES ASSUME NEW j \in 1..Len(r), NEW k \in 1..Len(r), j < k
                 PROVE  r[j] < r[k]
      BY DEF Increasing
    <2>1. j \in 1..Len(q)
      BY <1>1
    <2>2. CASE k \in 1..Len(q)
      BY <1>1, <2>1, <2>2 DEF Increasing
    <2>3. CASE k \notin 1..Len(q)
      <3>1. k = Len(r)
        <4>1. k \in 1..Len(q) + 1 /\ Len(q) \in Nat
          BY <1>1
        <4>2. k = Len(q) + 1
          BY <2>3, <4>1, LastIndex
        <4> QED
          BY <1>1, <4>2
      <3>2. r[k] = p
        BY <1>1, <3>1
      <3>3. r[j] = q[j] /\ q[j] < p
        BY <1>1, <2>1
      <3> QED
        BY <3>2, <3>3
    <2> QED
      BY <2>2, <2>3
  <1>3. \A k \in 1..Len(r) : l < r[k] /\ r[k] <= p /\ r[k] \in Nat
    <2> SUFFICES ASSUME NEW k \in 1..Len(r) PROVE l < r[k] /\ r[k] <= p /\ r[k] \in Nat
      OBVIOUS
    <2>1. CASE k \in 1..Len(q)
      <3>1. r[k] = q[k] /\ q[k] \in Nat
        BY <1>1, <2>1
      <3>2. l < q[k] /\ q[k] < p
        BY <2>1
      <3> QED
        BY <3>1, <3>2
    <2>2. CASE k \notin 1..Len(q)
      <3>1. k = Len(r)
        BY <1>1, <2>2
      <3> QED
        BY <1>1, <3>1
    <2> QED
      BY <2>1, <2>2
  <1>4. /\ s \in Seq(Nat) /\ Len(s) = Len(q)
        /\ \A k \in 1..Len(s) : k + 1 \in 1..Len(r) /\ s[k] = r[k + 1]
    <2>1. r # <<>>
      BY <1>1
    <2>2. s \in Seq(Nat) /\ Len(s) = Len(r) - 1 /\ \A k \in 1..Len(s) : s[k] = r[k + 1]
      BY <1>1, <2>1
    <2> QED
      BY <1>1, <2>2
  <1> HIDE DEF s
  <1>5. Increasing(s)
    <2> SUFFICES ASSUME NEW j \in 1..Len(s), NEW k \in 1..Len(s), j < k
                 PROVE  s[j] < s[k]
      BY DEF Increasing
    <2>1. j + 1 \in 1..Len(r) /\ k + 1 \in 1..Len(r) /\ s[j] = r[j + 1] /\ s[k] = r[k + 1]
      BY <1>4
    <2>2. j + 1 < k + 1
      BY <1>1, <1>4
    <2> QED
      BY <1>2, <2>1, <2>2 DEF Increasing
  <1>6. Longer(q, p) = IF Len(r) > QLEN THEN s ELSE r
    BY DEF Longer, r, s
  <1>7. CASE Len(r) > QLEN
    BY <1>1, <1>3, <1>4, <1>5, <1>6, <1>7
  <1>8. CASE ~(Len(r) > QLEN)
    BY <1>1, <1>2, <1>3, <1>6, <1>8 DEF QLEN
  <1> QED
    BY <1>7, <1>8

(* The pending entry with the longer queue is good.                        *)
LEMMA LongerGood ==
  ASSUME NEW e \in Entry, NEW n \in Nat, NEW last, last[e.ip] \in Nat, last[e.ip] <= n,
         NEW heard, GoodEntry(e, last, heard, n), e.state = "PENDING",
         NEW x, x = [e EXCEPT !.q = Longer(e.q, n + 1)]
  PROVE  /\ x \in Entry /\ x.state = "PENDING" /\ x.ip = e.ip
         /\ GoodEntry(x, last, heard, n + 1)
  <1> DEFINE r == Longer(e.q, n + 1)
             l == last[e.ip]
  <1>1. e.q \in Seq(Nat) /\ Waits(e, last, n) /\ InAge(e) /\ Asked(e)
    BY DEF Entry, GoodEntry
  <1>2. \A k \in 1..Len(e.q) : l < e.q[k] /\ e.q[k] < n + 1
    <2>1. \A k \in 1..Len(e.q) : l < e.q[k] /\ e.q[k] <= n
      BY <1>1 DEF Waits
    <2>2. \A k \in 1..Len(e.q) : e.q[k] \in Nat
      BY <1>1, Elements
    <2> HIDE DEF l
    <2> QED
      BY <2>1, <2>2
  <1>3. l < n + 1 /\ n + 1 \in Nat /\ l \in Nat
    OBVIOUS
  <1>4. Len(e.q) <= QLEN /\ Increasing(e.q)
    BY <1>1 DEF Waits
  <1> HIDE DEF l
  <1>5. /\ r \in Seq(Nat) /\ Len(r) <= QLEN /\ Increasing(r)
        /\ \A k \in 1..Len(r) : l < r[k] /\ r[k] <= n + 1
    BY <1>1, <1>2, <1>3, <1>4, LongerQueue
  <1> HIDE DEF r
  <1>6. x = [e EXCEPT !.q = r]
    BY DEF r
  <1>7. x \in Entry
    BY <1>5, <1>6 DEF Entry
  <1>8. /\ x.q = r /\ x.state = e.state /\ x.ip = e.ip /\ x.ctime = e.ctime
        /\ x.late = e.late /\ x.asked = e.asked
    BY <1>6 DEF Entry
  <1>9. InAge(x)
    BY <1>1, <1>8 DEF InAge
  <1>10. Asked(x)
    BY <1>1, <1>8 DEF Asked
  <1>11. Waits(x, last, n + 1)
    BY <1>5, <1>8 DEF Waits, l
  <1>12. x.ip \in Host
    BY <1>8 DEF GoodEntry
  <1> QED
    BY <1>7, <1>8, <1>9, <1>10, <1>11, <1>12 DEF GoodEntry, Stable

-----------------------------------------------------------------------------
(* etharp_query with packet n + 1: sent if the entry is stable, else queued. *)
(* etharp_query, with or without memory for the packet.                    *)
LEMMA QueryGood ==
  ASSUME NEW t, NEW n \in Nat, Good(t, n), NEW ip \in Host, NEW ok \in BOOLEAN
  PROVE  LET u == etharp_query(t, ip, n + 1, ok)
         IN  /\ Good(u, n + 1) /\ u.n = t.n
             /\ \A j \in Index : u.table[j].ip = t.table[j].ip \/ j = Victim(t)
  <1> DEFINE v == Pending(t, ip)
             i == Found(v, ip)
             e == v.table[i]
             p == n + 1
             u == etharp_query(t, ip, p, ok)
  <1>1. /\ Good(v, n) /\ v.n = t.n /\ Match(v, ip) # {}
        /\ \A j \in Index : v.table[j].ip = t.table[j].ip \/ j = Victim(t)
    BY PendingGood
  <1>2. p \in Nat /\ p # 0 /\ n <= p /\ p <= p
    OBVIOUS
  <1>3. u = IF Stable(e) THEN etharp_send_ip([v EXCEPT !.hint = i], p, ip)
            ELSE Queued(v, i, p, ok)
    BY <1>2 DEF etharp_query
  <1> HIDE DEF v, u
  <1>4. v \in Cache /\ Tidy(v)
    BY <1>1, GoodIsTidy DEF Good
  <1>5. /\ i \in Index /\ e.state # "EMPTY" /\ e.ip = ip
        /\ \A j \in Index \ {i} : v.table[j].state # "EMPTY" => v.table[j].ip # ip
    <2>1. i = Place(v, ip)
      BY <1>1 DEF Place
    <2> HIDE DEF i
    <2> QED
      BY <1>1, <1>4, <2>1, PlaceOf
  <1>6. /\ e \in Entry /\ e.state \in States /\ GoodEntry(e, v.last, v.heard, n)
        /\ v.last[ip] \in Nat /\ v.last[ip] <= n
    BY <1>1, <1>4, <1>5, EntryTypes DEF Good, Cache
  <1> HIDE DEF i, e, p
  <1>7. CASE Stable(e)
    <2> DEFINE w == WithHint(v, i)
    <2>1. u = WithLast(w, ip, p)
      BY <1>3, <1>7 DEF etharp_send_ip, WithLast, WithHint
    <2>2. /\ w \in Cache /\ w.table = v.table /\ w.last = v.last /\ w.heard = v.heard
          /\ w.n = v.n
      BY <1>4, <1>5, WithHintFields
    <2> HIDE DEF w
    <2>3. /\ u \in Cache /\ u.table = w.table /\ u.last[ip] = p
          /\ \A h \in Host \ {ip} : u.last[h] = w.last[h]
          /\ u.heard = w.heard /\ u.n = w.n
      BY <1>2, <2>1, <2>2, WithLastFields
    <2>4. GoodEntry(u.table[i], u.last, u.heard, p)
      <3>1. e.state # "PENDING" /\ u.table[i] = e /\ u.heard = v.heard
        BY <1>7, <2>2, <2>3 DEF Stable, e
      <3> QED
        BY <1>6, <3>1, QuietGood
    <2>5. Touches(v, u, i, ip)
      BY <2>2, <2>3 DEF Touches
    <2>6. u.table[i].ip = ip /\ u.last[ip] <= p
      BY <1>2, <1>5, <2>2, <2>3 DEF e
    <2>7. Good(u, p)
      BY <1>1, <1>2, <1>5, <2>3, <2>4, <2>5, <2>6, Replaced
    <2> QED
      BY <1>1, <2>2, <2>3, <2>7 DEF u, p
  <1>8. CASE ~Stable(e) /\ ok
    <2> DEFINE x == [e EXCEPT !.q = Longer(e.q, p)]
    <2>1. u = WithEntry(v, i, x)
      BY <1>3, <1>8 DEF Queued, Queue, Longer, WithEntry, e
    <2>2. e.state = "PENDING"
      BY <1>5, <1>6, <1>8 DEF States, Stable
    <2>3. /\ x \in Entry /\ x.state = "PENDING" /\ x.ip = ip
          /\ GoodEntry(x, v.last, v.heard, p)
      BY <1>5, <1>6, <2>2, LongerGood DEF p
    <2> HIDE DEF x
    <2>4. /\ u \in Cache /\ u.table[i] = x
          /\ \A j \in Index \ {i} : u.table[j] = v.table[j]
          /\ u.last = v.last /\ u.heard = v.heard /\ u.n = v.n
      BY <1>4, <1>5, <2>1, <2>3, WithEntryFields
    <2>5. Touches(v, u, i, ip) /\ GoodEntry(u.table[i], u.last, u.heard, p)
      BY <2>3, <2>4 DEF Touches
    <2>6. u.table[i].ip = ip /\ u.last[ip] <= p
      <3>1. u.last[ip] = v.last[ip]
        BY <2>4
      <3> QED
        BY <1>2, <1>6, <2>3, <2>4, <3>1
    <2>7. Good(u, p)
      BY <1>1, <1>2, <1>5, <2>4, <2>5, <2>6, Replaced
    <2>8. \A j \in Index : u.table[j].ip = v.table[j].ip
      BY <1>5, <2>4, <2>6 DEF e
    <2> QED
      BY <1>1, <2>4, <2>7, <2>8 DEF u, p
  <1>9. CASE ~Stable(e) /\ ~ok
    <2>1. u = v
      BY <1>3, <1>9 DEF Queued, Queue
    <2>2. Good(u, p)
      BY <1>1, <1>2, <1>4, <2>1, LaterGood
    <2> QED
      BY <1>1, <2>1, <2>2 DEF u, p
  <1> QED
    BY <1>7, <1>8, <1>9

(* etharp_output_to_arp_index: the entry it sends to, after the request it *)
(* may make.                                                               *)
Used(e, ok) ==
  IF ~(e.ctime >= ARP_AGE_REREQUEST_USED /\ ok) THEN e
  ELSE IF e.state = "STABLE"
    THEN [e EXCEPT !.state = "REREQUESTING", !.asked = @ + 1, !.late = TRUE]
    ELSE [e EXCEPT !.late = TRUE]

(* Such an entry stays good, whatever was sent.                            *)
LEMMA UsedGood ==
  ASSUME NEW e \in Entry, Stable(e), NEW ok \in BOOLEAN, NEW last, NEW heard, NEW n,
         GoodEntry(e, last, heard, n), NEW l, NEW m
  PROVE  /\ Used(e, ok) \in Entry /\ Used(e, ok).ip = e.ip
         /\ GoodEntry(Used(e, ok), l, heard, m)
  <1> DEFINE x == Used(e, ok)
  <1>1. /\ e.q = <<>> /\ e.state \in {"STABLE", "REREQUESTING"} /\ e.ip \in Host
        /\ InAge(e) /\ Asked(e) /\ e.mac = heard[e.ip]
    BY DEF GoodEntry, Stable, Waits
  <1>2. /\ x \in Entry /\ x.ip = e.ip /\ x.q = e.q /\ x.ctime = e.ctime /\ x.mac = e.mac
        /\ x.state \in {"STABLE", "REREQUESTING"} /\ Asked(x)
    <2>1. CASE ~(e.ctime >= ARP_AGE_REREQUEST_USED /\ ok)
      BY <1>1, <2>1 DEF Used
    <2>2. CASE e.ctime >= ARP_AGE_REREQUEST_USED /\ ok /\ e.state = "STABLE"
      <3>1. x = [e EXCEPT !.state = "REREQUESTING", !.asked = @ + 1, !.late = TRUE]
        BY <2>2 DEF Used
      <3>2. e.asked = 0
        BY <1>1, <2>2 DEF Asked
      <3> HIDE DEF x
      <3>3. x \in Entry
        <4> DEFINE y == [e EXCEPT !.state = "REREQUESTING", !.late = TRUE]
        <4>1. y \in Entry
          BY DEF Entry, States
        <4>2. x = [y EXCEPT !.asked = e.asked + 1]
          BY <3>1 DEF Entry
        <4> HIDE DEF y
        <4>3. e.asked + 1 \in Nat
          BY <3>2
        <4> QED
          BY <4>1, <4>2, <4>3 DEF Entry
      <3>4. /\ x.ip = e.ip /\ x.q = e.q /\ x.ctime = e.ctime /\ x.mac = e.mac
            /\ x.state = "REREQUESTING" /\ x.late = TRUE
        BY <3>1 DEF Entry
      <3>5. x.asked = 1
        BY <3>1, <3>2 DEF Entry
      <3>6. Asked(x)
        BY <3>4, <3>5 DEF Asked
      <3> QED
        BY <3>3, <3>4, <3>6
    <2>3. CASE e.ctime >= ARP_AGE_REREQUEST_USED /\ ok /\ e.state # "STABLE"
      <3>1. x = [e EXCEPT !.late = TRUE]
        BY <2>3 DEF Used
      <3>2. e.state = "REREQUESTING" /\ e.asked = 1
        BY <1>1, <2>3 DEF Asked
      <3> HIDE DEF x
      <3>3. x \in Entry
        BY <3>1 DEF Entry
      <3>4. /\ x.ip = e.ip /\ x.q = e.q /\ x.ctime = e.ctime /\ x.mac = e.mac
            /\ x.state = "REREQUESTING" /\ x.asked = 1 /\ x.late = TRUE
        BY <3>1, <3>2 DEF Entry
      <3>5. Asked(x)
        BY <3>4 DEF Asked
      <3> QED
        BY <3>3, <3>4, <3>5
    <2> QED
      BY <2>1, <2>2, <2>3
  <1> HIDE DEF x
  <1>3. Waits(x, l, m)
    BY <1>1, <1>2 DEF Waits, Increasing, QLEN
  <1>4. InAge(x)
    BY <1>1, <1>2 DEF InAge
  <1>5. GoodEntry(x, l, heard, m)
    BY <1>1, <1>2, <1>3, <1>4 DEF GoodEntry, Stable
  <1> QED
    BY <1>2, <1>5 DEF x

(* Sending to a stable entry keeps the cache good.                         *)
LEMMA SendGood ==
  ASSUME NEW t, NEW n \in Nat, Good(t, n), NEW ip \in Host, NEW i \in Stables(t, ip),
         NEW ok \in BOOLEAN
  PROVE  LET u == etharp_output_to_arp_index(t, n + 1, i, ok)
         IN  /\ Good(u, n + 1) /\ u.n = t.n
             /\ \A j \in Index : u.table[j].ip = t.table[j].ip
  <1> DEFINE e == t.table[i]
             x == Used(e, ok)
             w == WithEntry(t, i, x)
             p == n + 1
             u == etharp_output_to_arp_index(t, p, i, ok)
  <1>1. /\ t \in Cache /\ i \in Index /\ e.state # "EMPTY" /\ e.ip = ip /\ Stable(e)
        /\ \A j \in Index \ {i} : t.table[j].state # "EMPTY" => t.table[j].ip # ip
    BY DEF Stables, Match, Live, Good, Distinct
  <1>2. p \in Nat /\ n <= p /\ p <= p
    OBVIOUS
  <1>3. e \in Entry /\ GoodEntry(e, t.last, t.heard, n)
    BY <1>1, EntryTypes DEF Good
  <1>4. u = WithLast(w, ip, p)
    <2>1. t = WithEntry(t, i, e)
      BY <1>1 DEF WithEntry, Cache
    <2>2. CASE ~(e.ctime >= ARP_AGE_REREQUEST_USED /\ ok)
      <3>1. x = e
        BY <2>2 DEF Used
      <3>2. u = WithLast(t, ip, p)
        BY <1>1, <2>2 DEF etharp_output_to_arp_index, RequestLate, etharp_send_ip, WithLast
      <3> HIDE DEF e, x, u, p
      <3> QED
        BY <2>1, <3>1, <3>2
    <2>3. CASE e.ctime >= ARP_AGE_REREQUEST_USED /\ ok /\ e.state = "STABLE"
      BY <1>1, <2>3 DEF etharp_output_to_arp_index, RequestLate, etharp_send_ip, WithLast,
                        WithEntry, Used
    <2>4. CASE e.ctime >= ARP_AGE_REREQUEST_USED /\ ok /\ e.state # "STABLE"
      BY <1>1, <2>4 DEF etharp_output_to_arp_index, RequestLate, etharp_send_ip, WithLast,
                        WithEntry, Used
    <2> QED
      BY <2>2, <2>3, <2>4
  <1> HIDE DEF e, p, u
  <1>5. x \in Entry /\ x.ip = ip /\ \A l, m : GoodEntry(x, l, t.heard, m)
    BY <1>1, <1>3, UsedGood
  <1> HIDE DEF x
  <1>6. /\ w \in Cache /\ w.table[i] = x
        /\ \A j \in Index \ {i} : w.table[j] = t.table[j]
        /\ w.last = t.last /\ w.heard = t.heard /\ w.n = t.n
    BY <1>1, <1>5, WithEntryFields
  <1> HIDE DEF w
  <1>7. /\ u \in Cache /\ u.table = w.table /\ u.last[ip] = p
        /\ \A h \in Host \ {ip} : u.last[h] = w.last[h]
        /\ u.heard = w.heard /\ u.n = w.n
    BY <1>2, <1>4, <1>6, WithLastFields
  <1>8. Touches(t, u, i, ip) /\ GoodEntry(u.table[i], u.last, u.heard, p)
    BY <1>5, <1>6, <1>7 DEF Touches
  <1>9. u.table[i].ip = ip /\ u.last[ip] <= p
    BY <1>2, <1>5, <1>6, <1>7
  <1>10. Good(u, p)
    BY <1>1, <1>2, <1>7, <1>8, <1>9, Replaced
  <1>11. \A j \in Index : u.table[j].ip = t.table[j].ip
    BY <1>1, <1>6, <1>7, <1>9 DEF e
  <1> QED
    BY <1>6, <1>7, <1>10, <1>11 DEF u, p

(* etharp_output to one host: the hint, a stable entry, or a query.        *)
LEMMA UnicastGood ==
  ASSUME NEW t, NEW n \in Nat, Good(t, n), NEW ip \in Host, NEW ok \in BOOLEAN
  PROVE  LET u == Unicast(t, ip, n + 1, ok)
         IN  /\ Good(u, n + 1) /\ u.n = t.n
             /\ \A j \in Index : u.table[j].ip = t.table[j].ip \/ j = Victim(t)
  <1>1. CASE t.hint \in Stables(t, ip)
    <2>1. Unicast(t, ip, n + 1, ok) = etharp_output_to_arp_index(t, n + 1, t.hint, ok)
      BY <1>1 DEF Unicast
    <2> QED
      BY <1>1, <2>1, SendGood
  <1>2. CASE t.hint \notin Stables(t, ip) /\ Stables(t, ip) # {}
    <2> DEFINE i == Min(Stables(t, ip))
               w == WithHint(t, i)
    <2>1. Unicast(t, ip, n + 1, ok) = etharp_output_to_arp_index(w, n + 1, i, ok)
      BY <1>2 DEF Unicast, WithHint
    <2>2. i \in Stables(t, ip) /\ i \in Index /\ t \in Cache
      BY <1>2, MinIn DEF Stables, Match, Live, Good
    <2> HIDE DEF i
    <2>3. /\ w \in Cache /\ w.table = t.table /\ w.last = t.last /\ w.heard = t.heard
          /\ w.n = t.n
      BY <2>2, WithHintFields
    <2> HIDE DEF w
    <2>4. Good(w, n)
      BY <2>3, LaterGood
    <2>5. i \in Stables(w, ip)
      BY <2>2, <2>3 DEF Stables, Match, Live
    <2> QED
      BY <2>1, <2>3, <2>4, <2>5, SendGood
  <1>3. CASE Stables(t, ip) = {}
    <2>1. Unicast(t, ip, n + 1, ok) = etharp_query(t, ip, n + 1, ok)
      BY <1>3 DEF Unicast
    <2> QED
      BY <2>1, QueryGood
  <1> QED
    BY <1>1, <1>2, <1>3

-----------------------------------------------------------------------------
(* The timer and the end of the interface change every entry, and nothing  *)
(* else.                                                                   *)
(* free_entry, of the timer and of netif_set_down.                         *)
LEMMA FreedGood ==
  ASSUME NEW e \in Entry, NEW last, NEW heard, NEW n
  PROVE  /\ free_entry(e) \in Entry /\ free_entry(e).state = "EMPTY"
         /\ free_entry(e).ip = "none"
         /\ GoodEntry(free_entry(e), last, heard, n)
  <1> DEFINE x == free_entry(e)
  <1>1. /\ x \in Entry /\ x.state = "EMPTY" /\ x.ip = "none" /\ x.ctime = 0 /\ x.q = <<>>
        /\ x.asked = 0 /\ x.late = FALSE
    BY EmptyEntry DEF free_entry, Entry
  <1> HIDE DEF x
  <1>2. Waits(x, last, n)
    BY <1>1 DEF Waits, Increasing, QLEN
  <1>3. InAge(x)
    BY <1>1, SizeFacts DEF InAge
  <1>4. Asked(x)
    BY <1>1 DEF Asked
  <1>5. GoodEntry(x, last, heard, n)
    BY <1>1, <1>2, <1>3, <1>4 DEF GoodEntry, Stable
  <1> QED
    BY <1>1, <1>5 DEF x

(* etharp_tmr for one entry: it grows old, or is freed.                    *)
LEMMA AgedGood ==
  ASSUME NEW e \in Entry, NEW last, NEW heard, NEW n, GoodEntry(e, last, heard, n)
  PROVE  /\ Aged(e) \in Entry /\ GoodEntry(Aged(e), last, heard, n)
         /\ Aged(e).ip \in {e.ip, "none"}
         /\ Aged(e).state # "EMPTY" => e.state # "EMPTY" /\ Aged(e).ip = e.ip
  <1> DEFINE x == Aged(e)
  <1>1. CASE e.state = "EMPTY"
    BY <1>1 DEF Aged
  <1>2. CASE e.state # "EMPTY" /\ Expired(e)
    <2>1. x = free_entry(e)
      BY <1>2 DEF Aged
    <2> QED
      BY <2>1, FreedGood
  <1>3. CASE e.state # "EMPTY" /\ ~Expired(e)
    <2> DEFINE s == IF e.state = "REREQUESTING" THEN "STABLE" ELSE e.state
    <2>1. s \in States /\ s # "EMPTY" /\ s # "REREQUESTING" /\ (s = "PENDING" <=> e.state = "PENDING")
          /\ (s \in {"STABLE", "REREQUESTING"} => Stable(e))
      BY <1>3 DEF Entry, States, Stable
    <2>2. x = [e EXCEPT !.ctime = @ + 1, !.asked = 0, !.late = FALSE, !.state = s]
      BY <1>3 DEF Aged
    <2> HIDE DEF x, s
    <2>3. e.ctime + 1 \in Nat
      BY DEF Entry
    <2>4. x \in Entry
      BY <2>1, <2>2, <2>3 DEF Entry
    <2>5. /\ x.state = s /\ x.asked = 0 /\ x.late = FALSE
          /\ x.ip = e.ip /\ x.q = e.q /\ x.mac = e.mac
      BY <2>2 DEF Entry
    <2>6. x.ctime = e.ctime + 1 /\ e.ctime \in Nat
      BY <2>2 DEF Entry
    <2>7. InAge(x)
      <3>1. e.ctime + 1 < ARP_MAXAGE
        BY <1>3, <2>6, SizeFacts DEF Expired
      <3>2. e.state = "PENDING" => e.ctime + 1 < ARP_MAXPENDING
        BY <1>3, <2>6, SizeFacts DEF Expired
      <3> QED
        BY <2>1, <2>5, <2>6, <3>1, <3>2 DEF InAge
    <2>8. Asked(x)
      BY <2>1, <2>5 DEF Asked
    <2>9. Waits(x, last, n)
      BY <2>1, <2>5 DEF GoodEntry, Waits
    <2>10. Stable(x) => x.mac = heard[x.ip]
      BY <2>1, <2>5 DEF GoodEntry, Stable
    <2>11. x.state # "EMPTY" => x.ip \in Host
      BY <1>3, <2>5 DEF GoodEntry
    <2>12. GoodEntry(x, last, heard, n)
      BY <2>7, <2>8, <2>9, <2>10, <2>11 DEF GoodEntry
    <2> QED
      BY <1>3, <2>4, <2>5, <2>12 DEF x
  <1> QED
    BY <1>1, <1>2, <1>3

(* Handlers that visit the whole table, entry by entry.                    *)
LEMMA AllReplaced ==
  ASSUME NEW t, NEW n, Good(t, n), NEW u \in Cache,
         u.last = t.last, u.heard = t.heard,
         \A i \in Index :
           /\ GoodEntry(u.table[i], t.last, t.heard, n)
           /\ u.table[i].state # "EMPTY" =>
                t.table[i].state # "EMPTY" /\ u.table[i].ip = t.table[i].ip
  PROVE  Good(u, n)
  BY DEF Good, Distinct

(* etharp_tmr.                                                             *)
LEMMA TmrGood ==
  ASSUME ArpInv, etharp_tmr
  PROVE  /\ ArpInv'
         /\ \A i \in Index : arp'.table[i].ip \in {arp.table[i].ip, "none"}
  <1> DEFINE table == [i \in Index |-> Aged(arp.table[i])]
  <1>1. arp \in Cache /\ \A i \in Index : arp.table[i] \in Entry
                            /\ GoodEntry(arp.table[i], arp.last, arp.heard, arp.n)
    BY EntryTypes DEF ArpInv, Good
  <1>2. arp' = [arp EXCEPT !.table = table]
    BY DEF etharp_tmr
  <1>3. table \in [Index -> Entry]
    BY <1>1, AgedGood
  <1>4. \A i \in Index : table[i] = Aged(arp.table[i])
    OBVIOUS
  <1> HIDE DEF table
  <1>5. arp' \in Cache
    BY <1>1, <1>2, <1>3 DEF Cache
  <1>6. /\ arp'.table = table /\ arp'.last = arp.last /\ arp'.heard = arp.heard
        /\ arp'.n = arp.n
    BY <1>1, <1>2 DEF Cache
  <1>7. \A i \in Index :
           /\ GoodEntry(table[i], arp.last, arp.heard, arp.n)
           /\ table[i].ip \in {arp.table[i].ip, "none"}
           /\ table[i].state # "EMPTY" =>
                arp.table[i].state # "EMPTY" /\ table[i].ip = arp.table[i].ip
    BY <1>1, <1>4, AgedGood
  <1>8. Good(arp', arp.n)
    BY <1>5, <1>6, <1>7, AllReplaced DEF ArpInv
  <1>9. ArpInv'
    BY <1>6, <1>8 DEF ArpInv
  <1> QED
    BY <1>6, <1>7, <1>9

(* netif_set_down frees what was learnt on the interface.                  *)
LEMMA DownGood ==
  ASSUME ArpInv, netif_set_down
  PROVE  /\ ArpInv'
         /\ \A i \in Index : arp'.table[i].ip \in {arp.table[i].ip, "none"}
  <1> DEFINE Cleaned(e) == IF e.state # "EMPTY" /\ e.netif = "netif" THEN free_entry(e) ELSE e
             table == [i \in Index |-> Cleaned(arp.table[i])]
  <1>1. arp \in Cache /\ \A i \in Index : arp.table[i] \in Entry
                            /\ GoodEntry(arp.table[i], arp.last, arp.heard, arp.n)
    BY EntryTypes DEF ArpInv, Good
  <1>2. arp' = [arp EXCEPT !.up = FALSE, !.table = table]
    BY <1>1 DEF netif_set_down, etharp_cleanup_netif, Cache
  <1>3. ASSUME NEW e \in Entry, GoodEntry(e, arp.last, arp.heard, arp.n)
        PROVE  /\ Cleaned(e) \in Entry /\ GoodEntry(Cleaned(e), arp.last, arp.heard, arp.n)
               /\ Cleaned(e).ip \in {e.ip, "none"}
               /\ Cleaned(e).state # "EMPTY" => e.state # "EMPTY" /\ Cleaned(e).ip = e.ip
    BY <1>3, FreedGood
  <1>4. \A i \in Index : table[i] = Cleaned(arp.table[i])
    OBVIOUS
  <1> HIDE DEF Cleaned
  <1>5. table \in [Index -> Entry]
    BY <1>1, <1>3
  <1> HIDE DEF table
  <1>6. arp' \in Cache
    BY <1>1, <1>2, <1>5 DEF Cache
  <1>7. /\ arp'.table = table /\ arp'.last = arp.last /\ arp'.heard = arp.heard
        /\ arp'.n = arp.n
    BY <1>1, <1>2 DEF Cache
  <1>8. \A i \in Index :
           /\ GoodEntry(table[i], arp.last, arp.heard, arp.n)
           /\ table[i].ip \in {arp.table[i].ip, "none"}
           /\ table[i].state # "EMPTY" =>
                arp.table[i].state # "EMPTY" /\ table[i].ip = arp.table[i].ip
    BY <1>1, <1>3, <1>4
  <1>9. Good(arp', arp.n)
    BY <1>6, <1>7, <1>8, AllReplaced DEF ArpInv
  <1>10. ArpInv'
    BY <1>7, <1>9 DEF ArpInv
  <1> QED
    BY <1>7, <1>8, <1>10

-----------------------------------------------------------------------------
(* The empty table.                                                        *)
LEMMA InitArpInv == ArpInit => ArpInv
  <1> SUFFICES ASSUME ArpInit PROVE ArpInv
    OBVIOUS
  <1> DEFINE table == [i \in Index |-> Empty]
  <1>1. arp = [up |-> TRUE, table |-> table, hint |-> 1, n |-> 0,
               last |-> [h \in Host |-> 0], heard |-> [h \in Host |-> "none"]]
    BY DEF ArpInit
  <1>2. table \in [Index -> Entry] /\ \A i \in Index : table[i] = Empty
    BY EmptyEntry
  <1> HIDE DEF table
  <1>3. 1 \in Index
    BY SizeFacts DEF Index
  <1>4. arp \in Cache
    BY <1>1, <1>2, <1>3 DEF Cache
  <1>5. /\ arp.table = table /\ arp.n = 0 /\ arp.last = [h \in Host |-> 0]
    BY <1>1
  <1>6. GoodEntry(Empty, arp.last, arp.heard, 0)
    <2>1. Waits(Empty, arp.last, 0)
      BY EmptyEntry DEF Waits, Increasing, QLEN
    <2>2. InAge(Empty)
      BY EmptyEntry, SizeFacts DEF InAge
    <2>3. Asked(Empty)
      BY EmptyEntry DEF Asked
    <2> QED
      BY <2>1, <2>2, <2>3, EmptyEntry DEF GoodEntry, Stable
  <1>7. Distinct(arp)
    BY <1>2, <1>5, EmptyEntry DEF Distinct
  <1> QED
    BY <1>2, <1>4, <1>5, <1>6, <1>7 DEF ArpInv, Good

(* What a step may do to the addresses of the table: it frees entries, and *)
(* gives up at most the one that find_entry chooses.                       *)
Recycles == \A i \in Index :
  arp'.table[i].ip \in {arp.table[i].ip, "none"} \/ i = Victim(arp)

(* A packet of a host comes in.                                            *)
LEMMA HeardStep ==
  ASSUME ArpInv, etharp_arp_input \/ etharp_ip_input
  PROVE  ArpInv' /\ Recycles
  <1>1. PICK ip \in Host, mac \in Mac, hard \in BOOLEAN :
          arp' = update_arp_entry(WithHeard(arp, ip, mac), ip, mac, hard)
    <2>1. CASE etharp_arp_input
      BY <2>1 DEF etharp_arp_input, Heard, WithHeard
    <2>2. CASE etharp_ip_input
      BY <2>2 DEF etharp_ip_input, Heard, WithHeard
    <2> QED
      BY <2>1, <2>2
  <1>2. Good(arp, arp.n) /\ arp.n \in Nat
    BY DEF ArpInv, Good, Cache
  <1>3. /\ Good(arp', arp.n) /\ arp'.n = arp.n
        /\ \A i \in Index : arp'.table[i].ip = arp.table[i].ip \/ i = Victim(arp)
    BY <1>1, <1>2, HeardGood
  <1> QED
    BY <1>3 DEF ArpInv, Recycles

(* A packet goes out: broadcast, multicast, on the link or by the gateway. *)
LEMMA OutputStep ==
  ASSUME ArpInv, etharp_output
  PROVE  ArpInv' /\ Recycles
  <1> DEFINE t == [arp EXCEPT !.n = @ + 1]
             n == arp.n
  <1>1. Good(arp, n) /\ n \in Nat /\ arp \in Cache
    BY DEF ArpInv, Good, Cache
  <1>2. /\ t \in Cache /\ t.table = arp.table /\ t.last = arp.last /\ t.heard = arp.heard
        /\ t.n = n + 1
    BY <1>1 DEF Cache
  <1>3. \/ arp' = t
        \/ \E ip \in Host, ok \in BOOLEAN : arp' = Unicast(t, ip, n + 1, ok)
    BY <1>2 DEF etharp_output
  <1> HIDE DEF t, n
  <1>4. Victim(t) = Victim(arp)
    BY <1>2 DEF Victim
  <1>5. Good(t, n)
    BY <1>1, <1>2, LaterGood
  <1>6. CASE arp' = t
    <2>1. Good(t, n + 1)
      BY <1>1, <1>2, LaterGood
    <2> QED
      BY <1>2, <1>6, <2>1 DEF ArpInv, Recycles
  <1>7. CASE \E ip \in Host, ok \in BOOLEAN : arp' = Unicast(t, ip, n + 1, ok)
    <2>1. /\ Good(arp', n + 1) /\ arp'.n = t.n
          /\ \A j \in Index : arp'.table[j].ip = t.table[j].ip \/ j = Victim(t)
      BY <1>1, <1>5, <1>7, UnicastGood
    <2> QED
      BY <1>2, <1>4, <2>1 DEF ArpInv, Recycles
  <1> QED
    BY <1>3, <1>6, <1>7

(* etharp_query without a packet.                                          *)
LEMMA ProbeStep ==
  ASSUME ArpInv, Probe
  PROVE  ArpInv' /\ Recycles
  <1>1. PICK ip \in Host : arp' = Pending(arp, ip)
    BY DEF Probe, etharp_query
  <1>2. Good(arp, arp.n) /\ arp.n \in Nat
    BY DEF ArpInv, Good, Cache
  <1>3. /\ Good(arp', arp.n) /\ arp'.n = arp.n
        /\ \A i \in Index : arp'.table[i].ip = arp.table[i].ip \/ i = Victim(arp)
    BY <1>1, <1>2, PendingGood
  <1> QED
    BY <1>3 DEF ArpInv, Recycles

(* Every step.                                                             *)
LEMMA NextArpInv == ArpInv /\ [ArpNext]_arp => ArpInv' /\ Recycles
  <1> SUFFICES ASSUME ArpInv, [ArpNext]_arp PROVE ArpInv' /\ Recycles
    OBVIOUS
  <1>1. CASE etharp_tmr
    BY <1>1, TmrGood DEF Recycles
  <1>2. CASE netif_set_down
    BY <1>2, DownGood DEF Recycles
  <1>3. CASE netif_set_up
    <2>1. arp' \in Cache /\ arp'.table = arp.table /\ arp'.last = arp.last
          /\ arp'.heard = arp.heard /\ arp'.n = arp.n /\ arp.n \in Nat
      BY <1>3 DEF netif_set_up, ArpInv, Good, Cache
    <2>2. Good(arp', arp.n)
      BY <2>1, LaterGood DEF ArpInv
    <2> QED
      BY <2>1, <2>2 DEF ArpInv, Recycles
  <1>4. CASE etharp_arp_input \/ etharp_ip_input
    BY <1>4, HeardStep
  <1>5. CASE etharp_output
    BY <1>5, OutputStep
  <1>6. CASE Probe
    BY <1>6, ProbeStep
  <1>7. CASE UNCHANGED arp
    BY <1>7 DEF ArpInv, Recycles
  <1> QED
    BY <1>1, <1>2, <1>3, <1>4, <1>5, <1>6, <1>7 DEF ArpNext

(* The inductive invariant holds in every reachable state.                 *)
THEOREM ArpInvariance == ArpSpec => []ArpInv
  <1>1. ArpInv /\ [ArpNext]_arp => ArpInv'
    BY NextArpInv
  <1> QED
    BY <1>1, InitArpInv, PTL DEF ArpSpec

-----------------------------------------------------------------------------
LEMMA ArpInvSound == ArpInv => ArpSound
  <1> SUFFICES ASSUME ArpInv PROVE ArpSound
    OBVIOUS
  <1>1. /\ arp \in Cache /\ Distinct(arp)
        /\ \A i \in Index : arp.table[i] \in Entry /\ arp.table[i].state \in States
              /\ GoodEntry(arp.table[i], arp.last, arp.heard, arp.n)
    BY EntryTypes DEF ArpInv, Good
  <1>2. EtharpTypeOK
    <2>1. arp.hint \in Index
      BY <1>1 DEF Cache
    <2>2. ASSUME NEW i \in Index
          PROVE  LET e == arp.table[i]
                 IN  /\ e.state \in {"EMPTY", "PENDING", "STABLE", "REREQUESTING"}
                     /\ e.ctime < ARP_MAXAGE /\ Len(e.q) <= QLEN
                     /\ e.state = "PENDING" => e.ctime < ARP_MAXPENDING
                     /\ e.state # "PENDING" => e.q = <<>>
      BY <1>1, <2>2 DEF GoodEntry, InAge, Waits, States
    <2> QED
      BY <2>1, <2>2 DEF EtharpTypeOK
  <1>3. OneEntry
    <2>1. ASSUME NEW h \in Host PROVE Cardinality(Match(arp, h)) <= 1
      <3>1. CASE Match(arp, h) = {}
        BY <3>1, FS_EmptySet
      <3>2. CASE Match(arp, h) # {}
        <4>1. PICK i : i \in Match(arp, h)
          BY <3>2
        <4>2. Match(arp, h) = {i}
          BY <1>1, <4>1 DEF Match, Live, Distinct
        <4>3. Cardinality({i}) = 1
          BY FS_Singleton
        <4> QED
          BY <4>2, <4>3
      <3> QED
        BY <3>1, <3>2
    <2>2. \A i \in Index : Stable(arp.table[i]) => arp.table[i].mac = arp.heard[arp.table[i].ip]
      BY <1>1 DEF GoodEntry
    <2> QED
      BY <2>1, <2>2 DEF OneEntry
  <1>4. InOrder
    <2> SUFFICES ASSUME NEW i \in Index, arp.table[i].q # <<>>
                 PROVE  LET q == arp.table[i].q
                        IN  /\ q[1] > arp.last[arp.table[i].ip]
                            /\ \A k \in 2..Len(q) : q[k-1] < q[k]
      BY DEF InOrder
    <2> DEFINE q == arp.table[i].q
               l == arp.last[arp.table[i].ip]
    <2>1. q \in Seq(Nat) /\ q # <<>>
      BY <1>1, EntryTypes
    <2>2. /\ Increasing(q) /\ \A k \in 1..Len(q) : l < q[k]
          /\ l \in Nat
      <3>1. Waits(arp.table[i], arp.last, arp.n) /\ arp.table[i].state # "EMPTY"
        BY <1>1 DEF GoodEntry, Waits
      <3>2. arp.table[i].ip \in Host
        BY <1>1, <3>1 DEF GoodEntry
      <3> QED
        BY <1>1, <3>1, <3>2 DEF Waits, Cache
    <2> HIDE DEF q, l
    <2>3. 1 \in 1..Len(q) /\ Len(q) \in Nat /\ q[1] \in Nat
      BY <2>1
    <2>4. q[1] > l
      BY <2>2, <2>3
    <2>5. \A k \in 2..Len(q) : q[k-1] < q[k]
      BY <2>2, <2>3 DEF Increasing
    <2> QED
      BY <2>4, <2>5 DEF q, l
  <1>5. AskedOnce
    BY <1>1 DEF AskedOnce, GoodEntry, Asked
  <1> QED
    BY <1>2, <1>3, <1>4, <1>5 DEF ArpSound

(* etharp.c: no address has two entries, no entry is older than it may be, *)
(* the packets of a hop leave in their order and each once, and a used     *)
(* entry is asked for once in each period.                                 *)
THEOREM ArpCorrect == ArpSpec => []ArpSound
  BY ArpInvariance, ArpInvSound, PTL

(* find_entry: the entry it gives up has packets only if all others do.    *)
LEMMA VictimWaits ==
  ASSUME ArpInv, arp.table[Victim(arp)].q # <<>>
  PROVE  \A j \in Index : /\ arp.table[j].q # <<>>
                          /\ arp.table[j].ctime <= arp.table[Victim(arp)].ctime
  <1> DEFINE v == Victim(arp)
             e(j) == arp.table[j]
  <1>1. /\ v \in Index
        /\ \A j \in Index \ {v} : Worse(arp.table, j, v)
    <2>1. Tidy(arp)
      BY GoodIsTidy DEF ArpInv
    <2> QED
      BY <2>1, VictimExists DEF Tidy
  <1> HIDE DEF v
  <1>2. \A j \in Index : /\ e(j) \in Entry /\ e(j).state \in States /\ e(j).ctime \in Nat
                         /\ (e(j).state # "PENDING" => e(j).q = <<>>)
    BY EntryTypes DEF ArpInv, Good, GoodEntry, Waits
  <1> SUFFICES ASSUME NEW j \in Index, j # v
               PROVE  e(j).q # <<>> /\ e(j).ctime <= e(v).ctime
    BY <1>1, <1>2 DEF v
  <1>3. e(v).state = "PENDING" /\ e(v).q # <<>>
    BY <1>1, <1>2 DEF v
  <1>4. Rank(e(v)) = 3
    BY <1>3 DEF Rank, Stable
  <1>5. Rank(e(j)) \in 0..3
    BY <1>2, RankRange
  <1>6. Rank(e(j)) = 3 /\ e(j).ctime <= e(v).ctime
    BY <1>1, <1>2, <1>4, <1>5 DEF Worse
  <1>7. e(j).state = "PENDING" /\ e(j).q # <<>>
    <2>1. CASE e(j).state = "EMPTY"
      BY <1>6, <2>1 DEF Rank
    <2>2. CASE Stable(e(j))
      BY <1>6, <2>2 DEF Rank, Stable
    <2>3. CASE e(j).state = "PENDING" /\ e(j).q = <<>>
      BY <1>6, <2>3 DEF Rank, Stable
    <2> QED
      BY <1>2, <2>1, <2>2, <2>3 DEF States, Stable
  <1> QED
    BY <1>6, <1>7

(* "Choose the least destructive entry to recycle": packets are given up   *)
(* only when every entry has some, and then the oldest.                    *)
THEOREM ArpLeastDestructive == ArpSpec => LeastDestructive
  <1> DEFINE Least == \A i \in Index : LET e == arp.table[i] IN
       (e.q # <<>> /\ arp'.table[i].ip # e.ip /\ arp'.table[i].ip # "none") =>
         \A j \in Index : arp.table[j].q # <<>> /\ arp.table[j].ctime <= e.ctime
  <1>1. ArpInv /\ [ArpNext]_arp => Least
    <2> SUFFICES ASSUME ArpInv, [ArpNext]_arp, NEW i \in Index, arp.table[i].q # <<>>,
                        arp'.table[i].ip # arp.table[i].ip, arp'.table[i].ip # "none"
                 PROVE  \A j \in Index : /\ arp.table[j].q # <<>>
                                         /\ arp.table[j].ctime <= arp.table[i].ctime
      OBVIOUS
    <2>1. i = Victim(arp)
      BY NextArpInv DEF Recycles
    <2> QED
      BY <2>1, VictimWaits
  <1>2. ArpInv /\ [ArpNext]_arp => [Least]_arp
    BY <1>1
  <1> QED
    BY <1>2, ArpInvariance, PTL DEF ArpSpec, LeastDestructive

-----------------------------------------------------------------------------
(* The group memberships.                                                  *)
GroupStates == {"ABSENT", "IDLE", "DELAYING"}
Membership == [state : GroupStates, timer : Nat, use : Nat, flag : BOOLEAN,
               due : Nat, rep : {"none", "us", "other"}]
Table  == [on : SUBSET Net, group : [Pairs -> Membership], filter : SUBSET Pairs,
           held : [Pairs -> Nat]]

(* A group of which held joins have not been left.                         *)
Timed(e) == /\ e.timer > 0 => e.state = "DELAYING"
            /\ e.due > 0 => e.timer > 0 /\ e.timer <= e.due
Told(e)  == /\ e.flag = (e.rep = "us")
            /\ e.state # "DELAYING" => e.flag = FALSE
Counted(e, held) == /\ e.state = "ABSENT" <=> e.use = 0
                    /\ held <= e.use
GoodGroup(e, held) == e \in Membership /\ Timed(e) /\ Told(e) /\ Counted(e, held)

(* Groups are only in the list of an interface that is on, and the filter  *)
(* is open for those.                                                      *)
Fits(on, group, filter, held) ==
  /\ \A k \in Pairs : /\ GoodGroup(group[k], held[k])
                      /\ group[k].state # "ABSENT" => k[1] \in on
  /\ filter = {k \in Pairs : group[k].state # "ABSENT"}

IgmpInv == igmp \in Table /\ Fits(igmp.on, igmp.group, igmp.filter, igmp.held)

-----------------------------------------------------------------------------
LEMMA TimerFacts ==
  /\ JOIN_TMR \in Nat \ {0} /\ V1_TMR \in Nat \ {0} /\ MaxResp \subseteq Nat
  /\ allsystems \in Group
  BY IgmpAssumption

LEMMA AbsentEntry ==
  /\ Absent \in Membership /\ Absent.state = "ABSENT" /\ Absent.timer = 0 /\ Absent.use = 0
  /\ Absent.flag = FALSE /\ Absent.due = 0 /\ Absent.rep = "none"
  BY DEF Absent, Membership, GroupStates

LEMMA AbsentGood == GoodGroup(Absent, 0)
  <1>1. Timed(Absent)
    BY AbsentEntry DEF Timed
  <1>2. Told(Absent)
    BY AbsentEntry DEF Told
  <1>3. Counted(Absent, 0)
    BY AbsentEntry DEF Counted
  <1> QED
    BY <1>1, <1>2, <1>3, AbsentEntry DEF GoodGroup

(* A random time is at least a tick and no longer than the maximum.        *)
LEMMA TimesRange ==
  ASSUME NEW max \in Nat, NEW rnd \in Times(max)
  PROVE  rnd \in Nat /\ rnd > 0 /\ rnd <= IF max = 0 THEN 1 ELSE max
  BY DEF Times

(* igmp_delaying_member: a group that is in the list.                      *)
LEMMA DelayingGood ==
  ASSUME NEW e, NEW held, GoodGroup(e, held), e.state # "ABSENT",
         NEW max \in Nat, NEW rnd \in Times(max)
  PROVE  LET x == igmp_delaying_member(e, max, rnd)
         IN  GoodGroup(x, held) /\ x.state # "ABSENT"
  <1> DEFINE x == igmp_delaying_member(e, max, rnd)
             m == IF max = 0 THEN 1 ELSE max
             d == Smaller(e.due, m)
             f == [e EXCEPT !.due = d]
  <1>1. e \in Membership /\ Timed(e) /\ Told(e) /\ Counted(e, held)
    BY DEF GoodGroup
  <1>2. /\ e.due \in Nat /\ e.timer \in Nat /\ e.use \in Nat
        /\ e.state \in {"IDLE", "DELAYING"}
    BY <1>1 DEF Membership, GroupStates
  <1>3. m \in Nat /\ m > 0 /\ rnd \in Nat /\ rnd > 0 /\ rnd <= m
    BY TimesRange
  <1>4. d \in Nat /\ d > 0 /\ d <= m /\ (d = m \/ (d = e.due /\ e.due > 0))
    BY <1>2, <1>3 DEF Smaller
  <1>5. x = IF e.state = "IDLE" \/ (e.state = "DELAYING" /\ (e.timer = 0 \/ max < e.timer))
              THEN [f EXCEPT !.timer = rnd, !.state = "DELAYING"] ELSE f
    BY DEF igmp_delaying_member, Delaying
  <1> HIDE DEF x, d
  <1>6. f \in Membership /\ f.due = d
    BY <1>1, <1>4 DEF Membership
  <1>7. /\ f.state = e.state /\ f.timer = e.timer /\ f.use = e.use /\ f.flag = e.flag
        /\ f.rep = e.rep
    BY <1>1 DEF Membership
  <1> HIDE DEF f
  <1>8. CASE e.state = "IDLE" \/ (e.state = "DELAYING" /\ (e.timer = 0 \/ max < e.timer))
    <2>1. x = [f EXCEPT !.timer = rnd, !.state = "DELAYING"]
      BY <1>5, <1>8
    <2>2. x \in Membership
      BY <1>3, <1>6, <2>1 DEF Membership, GroupStates
    <2>3. /\ x.timer = rnd /\ x.state = "DELAYING" /\ x.due = d /\ x.use = e.use
          /\ x.flag = e.flag /\ x.rep = e.rep
      BY <1>6, <1>7, <2>1 DEF Membership
    <2>4. rnd <= d
      <3>1. CASE d = m
        BY <1>3, <3>1
      <3>2. CASE d = e.due /\ e.due > 0 /\ d # m
        <4>1. e.timer > 0 /\ e.timer <= e.due /\ e.state = "DELAYING"
          BY <1>1, <3>2 DEF Timed
        <4>2. max < e.timer
          BY <1>8, <4>1
        <4>3. m <= e.timer
          BY <1>2, <4>1, <4>2
        <4> QED
          BY <1>2, <1>3, <3>2, <4>1, <4>3
      <3> QED
        BY <1>4, <3>1, <3>2
    <2>5. Timed(x)
      BY <1>3, <2>3, <2>4 DEF Timed
    <2>6. Told(x)
      BY <1>1, <2>3 DEF Told
    <2>7. Counted(x, held)
      BY <1>1, <2>3 DEF Counted
    <2> QED
      BY <2>2, <2>3, <2>5, <2>6, <2>7 DEF GoodGroup, x
  <1>9. CASE e.state = "DELAYING" /\ e.timer # 0 /\ ~(max < e.timer)
    <2>1. x = f
      BY <1>5, <1>9
    <2>2. x.timer <= x.due
      <3>1. e.timer <= m
        BY <1>2, <1>9
      <3>2. e.due > 0 => e.timer <= e.due
        BY <1>1 DEF Timed
      <3>3. e.timer <= d
        BY <1>4, <3>1, <3>2
      <3> QED
        BY <1>6, <1>7, <2>1, <3>3
    <2>3. Timed(x)
      BY <1>2, <1>7, <1>9, <2>1, <2>2 DEF Timed
    <2>4. Told(x)
      BY <1>1, <1>7, <2>1 DEF Told
    <2>5. Counted(x, held)
      BY <1>1, <1>7, <2>1 DEF Counted
    <2> QED
      BY <1>6, <1>7, <1>9, <2>1, <2>3, <2>4, <2>5 DEF GoodGroup, x
  <1> QED
    BY <1>2, <1>8, <1>9

(* igmp_timeout, a tick of igmp_tmr and the report of another member.      *)
LEMMA TickedGood ==
  ASSUME NEW e, NEW held, GoodGroup(e, held), NEW ok \in BOOLEAN
  PROVE  GoodGroup(Ticked(e, ok), held) /\ Ticked(e, ok).state = e.state
  <1> DEFINE x == Ticked(e, ok)
             due == IF e.due > 0 THEN e.due - 1 ELSE 0
             d == [e EXCEPT !.timer = e.timer - 1, !.due = due]
  <1>1. e \in Membership /\ Timed(e) /\ Told(e) /\ Counted(e, held)
    BY DEF GoodGroup
  <1>2. e.due \in Nat /\ e.timer \in Nat /\ e.state \in GroupStates
    BY <1>1 DEF Membership
  <1>3. CASE e.timer = 0
    BY <1>3 DEF Ticked
  <1>4. CASE e.timer # 0
    <2>1. e.state = "DELAYING" /\ e.timer - 1 \in Nat /\ due \in Nat
      BY <1>1, <1>2, <1>4 DEF Timed
    <2>2. x = IF d.timer = 0 THEN igmp_timeout(d, ok) ELSE d
      BY <1>4, <1>1 DEF Ticked, Membership
    <2>3. due > 0 => e.timer - 1 <= due
      BY <1>1, <1>2 DEF Timed
    <2> HIDE DEF x, due
    <2>5. d \in Membership
      BY <1>1, <2>1 DEF Membership
    <2>6. /\ d.timer = e.timer - 1 /\ d.due = due /\ d.state = e.state /\ d.use = e.use
          /\ d.flag = e.flag /\ d.rep = e.rep
      BY <1>1 DEF Membership
    <2> HIDE DEF d
    <2>7. CASE d.timer = 0
      <3> DEFINE r == Report(d, ok)
      <3>1. x = [r EXCEPT !.due = 0, !.state = d.state]
        BY <2>1, <2>2, <2>6, <2>7 DEF igmp_timeout, TimeoutTo
      <3>2. /\ r \in Membership /\ r.timer = d.timer /\ r.use = d.use /\ r.state = d.state
            /\ r.flag = (r.rep = "us")
        <4>1. CASE ok
          <5>1. r = [d EXCEPT !.flag = TRUE, !.rep = "us"]
            BY <4>1 DEF Report
          <5> HIDE DEF r
          <5> QED
            BY <2>5, <5>1 DEF Membership
        <4>2. CASE ~ok
          BY <1>1, <2>5, <2>6, <4>2 DEF Report, Told
        <4> QED
          BY <4>1, <4>2
      <3> HIDE DEF r
      <3>3. x \in Membership
        BY <2>5, <3>1, <3>2 DEF Membership
      <3>4. /\ x.timer = 0 /\ x.due = 0 /\ x.state = "DELAYING" /\ x.use = e.use
            /\ x.flag = (x.rep = "us")
        BY <2>1, <2>6, <2>7, <3>1, <3>2 DEF Membership
      <3>5. Timed(x)
        BY <3>4 DEF Timed
      <3>6. Told(x)
        BY <3>4 DEF Told
      <3>7. Counted(x, held)
        BY <1>1, <2>1, <3>4 DEF Counted
      <3> QED
        BY <2>1, <3>3, <3>4, <3>5, <3>6, <3>7 DEF GoodGroup, x
    <2>8. CASE d.timer # 0
      <3>1. x = d
        BY <2>2, <2>8
      <3>2. Timed(x)
        <4>1. x.state = "DELAYING" /\ x.timer > 0
          <5>1. e.timer - 1 \in Nat /\ e.timer - 1 # 0
            BY <2>1, <2>6, <2>8
          <5>2. e.timer - 1 > 0
            BY <1>2, <5>1
          <5> QED
            BY <2>1, <2>6, <3>1, <5>2
        <4>2. x.due > 0 => x.timer <= x.due
          BY <2>3, <2>6, <3>1
        <4> QED
          BY <4>1, <4>2 DEF Timed
      <3>3. Told(x)
        BY <1>1, <2>6, <3>1 DEF Told
      <3>4. Counted(x, held)
        BY <1>1, <2>6, <3>1 DEF Counted
      <3> QED
        BY <2>5, <2>6, <3>1, <3>2, <3>3, <3>4 DEF GoodGroup, x
    <2> QED
      BY <2>7, <2>8
  <1> QED
    BY <1>3, <1>4

LEMMA ReportedGood ==
  ASSUME NEW e, NEW held, GoodGroup(e, held), e.state # "ABSENT"
  PROVE  GoodGroup(Reported(e), held) /\ Reported(e).state # "ABSENT"
  <1> DEFINE x == Reported(e)
  <1>1. e \in Membership /\ Timed(e) /\ Told(e) /\ Counted(e, held)
    BY DEF GoodGroup
  <1>2. CASE e.state = "DELAYING"
    <2>1. x = [e EXCEPT !.timer = 0, !.state = "IDLE", !.flag = FALSE, !.due = 0, !.rep = "other"]
      BY <1>2 DEF Reported
    <2> HIDE DEF x
    <2>2. x \in Membership
      BY <1>1, <2>1 DEF Membership, GroupStates
    <2>3. /\ x.timer = 0 /\ x.state = "IDLE" /\ x.flag = FALSE /\ x.due = 0 /\ x.rep = "other"
          /\ x.use = e.use
      BY <1>1, <2>1 DEF Membership
    <2>4. Timed(x)
      BY <2>3 DEF Timed
    <2>5. Told(x)
      BY <2>3 DEF Told
    <2>6. Counted(x, held)
      BY <1>1, <1>2, <2>3 DEF Counted
    <2> QED
      BY <2>2, <2>3, <2>4, <2>5, <2>6 DEF GoodGroup, x
  <1>3. CASE e.state # "DELAYING"
    <2>1. x = [e EXCEPT !.rep = "other"]
      BY <1>3 DEF Reported
    <2> HIDE DEF x
    <2>2. x \in Membership
      BY <1>1, <2>1 DEF Membership
    <2>3. /\ x.timer = e.timer /\ x.state = e.state /\ x.flag = e.flag /\ x.due = e.due
          /\ x.rep = "other" /\ x.use = e.use
      BY <1>1, <2>1 DEF Membership
    <2>4. Timed(x)
      BY <1>1, <2>3 DEF Timed
    <2>5. Told(x)
      BY <1>1, <1>3, <2>3 DEF Told
    <2>6. Counted(x, held)
      BY <1>1, <2>3 DEF Counted
    <2> QED
      BY <2>2, <2>3, <2>4, <2>5, <2>6 DEF GoodGroup, x
  <1> QED
    BY <1>2, <1>3

(* igmp_joingroup and igmp_leavegroup at one interface; got is 1 if the    *)
(* caller is told that he has joined.                                      *)
LEMMA JoinedGood ==
  ASSUME NEW e, NEW held \in Nat, GoodGroup(e, held), NEW got \in {0, 1},
         NEW rnd \in Times(JOIN_TMR), NEW sent \in BOOLEAN
  PROVE  LET x == Join1(e, rnd, sent)
         IN  GoodGroup(x, held + got) /\ x.state # "ABSENT"
  <1> DEFINE x == Join1(e, rnd, sent)
  <1>1. e \in Membership /\ Timed(e) /\ Told(e) /\ Counted(e, held) /\ e.use \in Nat
    BY DEF GoodGroup, Membership
  <1>2. CASE e.state # "ABSENT"
    <2>1. x = [e EXCEPT !.use = e.use + 1]
      BY <1>2 DEF Join1
    <2> HIDE DEF x
    <2>2. x \in Membership
      BY <1>1, <2>1 DEF Membership
    <2>3. /\ x.timer = e.timer /\ x.state = e.state /\ x.flag = e.flag /\ x.due = e.due
          /\ x.rep = e.rep /\ x.use = e.use + 1
      BY <1>1, <2>1 DEF Membership
    <2>4. Timed(x)
      BY <1>1, <2>3 DEF Timed
    <2>5. Told(x)
      BY <1>1, <2>3 DEF Told
    <2>6. Counted(x, held + got)
      <3>1. e.use + 1 # 0 /\ held + got <= e.use + 1
        BY <1>1 DEF Counted
      <3> QED
        BY <1>2, <2>3, <3>1 DEF Counted
    <2> QED
      BY <1>2, <2>2, <2>3, <2>4, <2>5, <2>6 DEF GoodGroup, x
  <1>3. CASE e.state = "ABSENT"
    <2> DEFINE r == Report(New, sent)
    <2>1. x = [r EXCEPT !.timer = rnd, !.state = "DELAYING", !.due = JOIN_TMR, !.use = 1]
      BY <1>3 DEF Join1
    <2>2. /\ r = [New EXCEPT !.flag = TRUE, !.rep = "us"] \/ r = New
          /\ New = [Absent EXCEPT !.state = "NON_MEMBER"]
      BY DEF Report, New
    <2>3. rnd \in Nat /\ rnd > 0 /\ rnd <= JOIN_TMR /\ JOIN_TMR \in Nat
      BY TimesRange, TimerFacts
    <2> HIDE DEF x, r
    <2>4. /\ x \in Membership /\ x.timer = rnd /\ x.state = "DELAYING" /\ x.due = JOIN_TMR /\ x.use = 1
          /\ x.flag = (x.rep = "us")
      <3>1. CASE r = New
        BY <2>1, <2>2, <2>3, <3>1, AbsentEntry DEF Membership, GroupStates
      <3>2. CASE r = [New EXCEPT !.flag = TRUE, !.rep = "us"]
        BY <2>1, <2>2, <2>3, <3>2, AbsentEntry DEF Membership, GroupStates
      <3> QED
        BY <2>2, <3>1, <3>2
    <2>5. Timed(x)
      BY <2>3, <2>4 DEF Timed
    <2>6. Told(x)
      BY <2>4 DEF Told
    <2>7. Counted(x, held + got)
      <3>1. held + got <= 1
        BY <1>1, <1>3 DEF Counted
      <3> QED
        BY <2>4, <3>1 DEF Counted
    <2> QED
      BY <2>4, <2>5, <2>6, <2>7 DEF GoodGroup, x
  <1> QED
    BY <1>2, <1>3

LEMMA LeftGood ==
  ASSUME NEW e, NEW held \in Nat, GoodGroup(e, held), held > 0
  PROVE  GoodGroup(Leave1(e), held - 1) /\ e.state # "ABSENT"
  <1> DEFINE x == Leave1(e)
  <1>1. e \in Membership /\ Timed(e) /\ Told(e) /\ Counted(e, held) /\ e.use \in Nat
    BY DEF GoodGroup, Membership
  <1>2. e.state # "ABSENT"
    BY <1>1 DEF Counted
  <1>3. CASE e.use <= 1
    <2>1. x = Absent /\ held - 1 = 0
      BY <1>1, <1>2, <1>3 DEF Leave1, LeaveAt, Counted
    <2> QED
      BY <1>2, <2>1, AbsentGood
  <1>4. CASE ~(e.use <= 1)
    <2>1. x = [e EXCEPT !.use = e.use - 1]
      BY <1>2, <1>4 DEF Leave1, LeaveAt
    <2> HIDE DEF x
    <2>2. e.use - 1 \in Nat /\ e.use - 1 # 0
      BY <1>1, <1>4
    <2>3. x \in Membership
      BY <1>1, <2>1, <2>2 DEF Membership
    <2>4. /\ x.timer = e.timer /\ x.state = e.state /\ x.flag = e.flag /\ x.due = e.due
          /\ x.rep = e.rep /\ x.use = e.use - 1
      BY <1>1, <2>1 DEF Membership
    <2>5. Timed(x)
      BY <1>1, <2>4 DEF Timed
    <2>6. Told(x)
      BY <1>1, <2>4 DEF Told
    <2>7. held - 1 <= e.use - 1
      BY <1>1 DEF Counted
    <2>8. Counted(x, held - 1)
      BY <1>2, <2>2, <2>4, <2>7 DEF Counted
    <2> QED
      BY <1>2, <2>3, <2>5, <2>6, <2>8 DEF GoodGroup, x
  <1> QED
    BY <1>3, <1>4

-----------------------------------------------------------------------------
(* How an action keeps the invariant: it is enough to look at the groups   *)
(* and the filter.                                                         *)
LEMMA GroupTypes ==
  ASSUME IgmpInv, NEW k \in Pairs
  PROVE  /\ GoodGroup(igmp.group[k], igmp.held[k]) /\ igmp.held[k] \in Nat
         /\ igmp.group[k] \in Membership
         /\ igmp.group[k].state # "ABSENT" => k[1] \in igmp.on
         /\ Present(igmp, k) <=> igmp.group[k].state # "ABSENT"
  BY DEF IgmpInv, Fits, Present, GoodGroup, Table

LEMMA TableTypes ==
  ASSUME IgmpInv
  PROVE  /\ igmp \in Table /\ igmp.on \in SUBSET Net
         /\ igmp.group \in [Pairs -> Membership] /\ igmp.held \in [Pairs -> Nat]
         /\ igmp.filter = {k \in Pairs : igmp.group[k].state # "ABSENT"}
  BY DEF IgmpInv, Fits, Table

LEMMA KeepsInv ==
  ASSUME NEW on \in SUBSET Net, NEW group \in [Pairs -> Membership], NEW filter,
         NEW held \in [Pairs -> Nat], Fits(on, group, filter, held),
         igmp' = [on |-> on, group |-> group, filter |-> filter, held |-> held]
  PROVE  IgmpInv'
  <1>1. /\ igmp'.on = on /\ igmp'.group = group /\ igmp'.filter = filter
        /\ igmp'.held = held
    OBVIOUS
  <1>2. filter \in SUBSET Pairs
    BY DEF Fits
  <1>3. igmp' \in Table
    BY <1>2 DEF Table
  <1> QED
    BY <1>1, <1>3 DEF IgmpInv

(* A step that only changes groups, and which are in the list it leaves.   *)
LEMMA KeepsList ==
  ASSUME IgmpInv, NEW group \in [Pairs -> Membership], igmp' = [igmp EXCEPT !.group = group],
         \A k \in Pairs : /\ GoodGroup(group[k], igmp.held[k])
                          /\ group[k].state # "ABSENT" <=> igmp.group[k].state # "ABSENT"
  PROVE  IgmpInv'
  <1>1. igmp' = [on |-> igmp.on, group |-> group, filter |-> igmp.filter,
                 held |-> igmp.held]
    BY TableTypes DEF Table
  <1>2. igmp.filter = {k \in Pairs : group[k].state # "ABSENT"}
    BY TableTypes
  <1>3. \A k \in Pairs : GoodGroup(group[k], igmp.held[k])
                         /\ (group[k].state # "ABSENT" => k[1] \in igmp.on)
    BY GroupTypes
  <1>4. Fits(igmp.on, group, igmp.filter, igmp.held)
    BY <1>2, <1>3 DEF Fits
  <1> QED
    BY <1>1, <1>4, TableTypes, KeepsInv

-----------------------------------------------------------------------------
LEMMA InitIgmpInv == IgmpInit => IgmpInv
  <1> SUFFICES ASSUME IgmpInit PROVE IgmpInv
    OBVIOUS
  <1>1. igmp = [on |-> {}, group |-> [k \in Pairs |-> Absent], filter |-> {},
                held |-> [k \in Pairs |-> 0]]
    BY DEF IgmpInit
  <1>2. igmp \in Table
    BY <1>1, AbsentEntry DEF Table
  <1>3. \A k \in Pairs : igmp.group[k] = Absent /\ igmp.held[k] = 0
    BY <1>1
  <1>4. igmp.filter = {k \in Pairs : igmp.group[k].state # "ABSENT"}
    BY <1>1, <1>3, AbsentEntry
  <1> QED
    BY <1>2, <1>3, <1>4, AbsentGood, AbsentEntry DEF IgmpInv, Fits

LEMMA TmrStep ==
  ASSUME IgmpInv, igmp_tmr
  PROVE  IgmpInv'
  <1>1. PICK failed \in SUBSET Pairs :
          igmp' = [igmp EXCEPT !.group =
                     [k \in Pairs |-> Ticked(igmp.group[k], k \notin failed)]]
    BY TableTypes DEF igmp_tmr, Table
  <1> DEFINE group == [k \in Pairs |-> Ticked(igmp.group[k], k \notin failed)]
  <1>2. \A k \in Pairs : group[k] = Ticked(igmp.group[k], k \notin failed)
    OBVIOUS
  <1>3. \A k \in Pairs : /\ GoodGroup(group[k], igmp.held[k])
                         /\ group[k].state # "ABSENT" <=> igmp.group[k].state # "ABSENT"
    <2> SUFFICES ASSUME NEW k \in Pairs
                 PROVE  /\ GoodGroup(group[k], igmp.held[k])
                        /\ group[k].state # "ABSENT" <=> igmp.group[k].state # "ABSENT"
      OBVIOUS
    <2> DEFINE ok == k \notin failed
    <2>1. group[k] = Ticked(igmp.group[k], ok) /\ ok \in BOOLEAN
      BY <1>2
    <2> HIDE DEF group, ok
    <2> QED
      BY <2>1, GroupTypes, TickedGood
  <1> HIDE DEF group
  <1>4. group \in [Pairs -> Membership]
    BY <1>3 DEF group, GoodGroup
  <1> QED
    BY <1>1, <1>3, <1>4, KeepsList DEF group

(* Queries and an interface that comes up: they delay groups of the list.  *)
LEMMA DelayStep ==
  ASSUME IgmpInv, NEW ks \in SUBSET Pairs, \A k \in ks : Present(igmp, k), NEW max \in Nat,
         DelayAll(ks, max)
  PROVE  IgmpInv'
  <1>1. PICK rnd \in [ks -> Times(max)] :
          igmp' = [igmp EXCEPT !.group = [k \in Pairs |->
               IF k \in ks THEN igmp_delaying_member(igmp.group[k], max, rnd[k])
               ELSE igmp.group[k]]]
    BY TableTypes DEF DelayAll, Table
  <1> DEFINE group == [k \in Pairs |->
               IF k \in ks THEN igmp_delaying_member(igmp.group[k], max, rnd[k])
               ELSE igmp.group[k]]
  <1>2. ASSUME NEW k \in Pairs
        PROVE  /\ GoodGroup(group[k], igmp.held[k])
               /\ group[k].state # "ABSENT" <=> igmp.group[k].state # "ABSENT"
    <2>1. CASE k \in ks
      <3>1. group[k] = igmp_delaying_member(igmp.group[k], max, rnd[k]) /\ rnd[k] \in Times(max)
        BY <2>1
      <3>2. igmp.group[k].state # "ABSENT" /\ GoodGroup(igmp.group[k], igmp.held[k])
        BY <2>1, GroupTypes
      <3> HIDE DEF group
      <3> QED
        BY <3>1, <3>2, DelayingGood
    <2>2. CASE k \notin ks
      BY <2>2, GroupTypes
    <2> QED
      BY <2>1, <2>2
  <1> HIDE DEF group
  <1>3. group \in [Pairs -> Membership]
    BY <1>2 DEF group, GoodGroup
  <1> QED
    BY <1>1, <1>2, <1>3, KeepsList DEF group

LEMMA ReportStep ==
  ASSUME IgmpInv, NEW n \in Net, NEW g \in Group, MembReport(n, g)
  PROVE  IgmpInv'
  <1> DEFINE p == <<n, g>>
             group == [igmp.group EXCEPT ![p] = Reported(igmp.group[p])]
  <1>1. p \in Pairs /\ Present(igmp, p)
    BY DEF MembReport, Pairs
  <1>2. igmp' = [igmp EXCEPT !.group = group]
    BY DEF MembReport
  <1>3. igmp.group \in [Pairs -> Membership]
    BY TableTypes
  <1> HIDE DEF p
  <1>4. \A k \in Pairs : group[k] = IF k = p THEN Reported(igmp.group[p]) ELSE igmp.group[k]
    BY <1>1, <1>3
  <1> HIDE DEF group
  <1>5. ASSUME NEW k \in Pairs
        PROVE  /\ GoodGroup(group[k], igmp.held[k])
               /\ group[k].state # "ABSENT" <=> igmp.group[k].state # "ABSENT"
    <2>1. CASE k = p
      BY <1>1, <1>4, <2>1, GroupTypes, ReportedGood
    <2>2. CASE k # p
      BY <1>4, <2>2, GroupTypes
    <2> QED
      BY <2>1, <2>2
  <1>6. group \in [Pairs -> Membership]
    BY <1>1, <1>3, <1>5 DEF GoodGroup, group
  <1> QED
    BY <1>2, <1>5, <1>6, KeepsList

LEMMA StartStep ==
  ASSUME IgmpInv, NEW n \in Net, igmp_start(n)
  PROVE  IgmpInv'
  <1> DEFINE p == <<n, allsystems>>
             first == [New EXCEPT !.state = "IDLE", !.use = 1]
             on == igmp.on \union {n}
  <1>1. p \in Pairs /\ igmp.group[p].state = "ABSENT" /\ igmp.held[p] = 0 /\ on \in SUBSET Net
    <2>1. p \in Pairs /\ n \notin igmp.on /\ p[1] = n
      BY TimerFacts DEF igmp_start, Pairs
    <2>2. igmp.group[p].state = "ABSENT"
      BY <2>1, GroupTypes
    <2>3. igmp.held[p] <= igmp.group[p].use /\ igmp.group[p].use = 0 /\ igmp.held[p] \in Nat
      BY <2>1, <2>2, GroupTypes DEF GoodGroup, Counted
    <2> QED
      BY <2>1, <2>2, <2>3 DEF IgmpInv, Table
  <1>2. GoodGroup(first, 0) /\ first.state # "ABSENT"
    <2>1. /\ first \in Membership /\ first.state = "IDLE" /\ first.use = 1 /\ first.timer = 0
          /\ first.due = 0 /\ first.flag = FALSE /\ first.rep = "none"
      BY AbsentEntry DEF New, Membership, GroupStates
    <2> HIDE DEF first
    <2>2. Timed(first)
      BY <2>1 DEF Timed
    <2>3. Told(first)
      BY <2>1 DEF Told
    <2>4. Counted(first, 0)
      BY <2>1 DEF Counted
    <2> QED
      BY <2>1, <2>2, <2>3, <2>4 DEF GoodGroup
  <1>3. /\ igmp \in Table /\ igmp.filter = {k \in Pairs : igmp.group[k].state # "ABSENT"}
        /\ igmp.held \in [Pairs -> Nat] /\ igmp.group \in [Pairs -> Membership]
    BY TableTypes
  <1>4. PICK ok \in BOOLEAN :
          igmp' = [igmp EXCEPT
            !.on = on,
            !.group[p] = IF ok THEN first ELSE igmp.group[p],
            !.filter = IF ok THEN igmp.filter \union {p} ELSE igmp.filter]
    BY Zenon DEF igmp_start
  <1> DEFINE group == [igmp.group EXCEPT ![p] = IF ok THEN first ELSE igmp.group[p]]
             filter == IF ok THEN igmp.filter \union {p} ELSE igmp.filter
  <1> HIDE DEF p, first, on
  <1>5. igmp' = [on |-> on, group |-> group, filter |-> filter, held |-> igmp.held]
    BY <1>3, <1>4 DEF Table
  <1>6. /\ group \in [Pairs -> Membership]
        /\ \A k \in Pairs : group[k] = IF k = p /\ ok THEN first ELSE igmp.group[k]
    BY <1>1, <1>2, <1>3 DEF GoodGroup
  <1> HIDE DEF group
  <1>7. \A k \in Pairs : /\ GoodGroup(group[k], igmp.held[k]) /\ igmp.held[k] \in Nat
                         /\ group[k].state # "ABSENT" => k[1] \in on
    BY <1>1, <1>2, <1>6, GroupTypes DEF on, p
  <1>8. filter = {k \in Pairs : group[k].state # "ABSENT"}
    BY <1>1, <1>2, <1>3, <1>6
  <1>9. Fits(on, group, filter, igmp.held)
    BY <1>7, <1>8 DEF Fits
  <1> HIDE DEF filter
  <1> QED
    BY <1>1, <1>3, <1>5, <1>6, <1>9, KeepsInv

LEMMA StopStep ==
  ASSUME IgmpInv, NEW n \in Net, igmp_stop(n)
  PROVE  IgmpInv'
  <1> DEFINE on == igmp.on \ {n}
             group == [k \in Pairs |-> IF k[1] = n THEN Absent ELSE igmp.group[k]]
             filter == {k \in igmp.filter : k[1] # n}
             held == [k \in Pairs |-> IF k[1] = n THEN 0 ELSE igmp.held[k]]
  <1>1. igmp' = [on |-> on, group |-> group, filter |-> filter, held |-> held]
    BY DEF igmp_stop
  <1>2. on \in SUBSET Net /\ igmp.filter = {k \in Pairs : igmp.group[k].state # "ABSENT"}
    BY TableTypes
  <1>3. /\ group \in [Pairs -> Membership] /\ held \in [Pairs -> Nat]
        /\ \A k \in Pairs : /\ group[k] = IF k[1] = n THEN Absent ELSE igmp.group[k]
                            /\ held[k] = IF k[1] = n THEN 0 ELSE igmp.held[k]
    BY TableTypes, AbsentEntry
  <1> HIDE DEF group, held
  <1>4. \A k \in Pairs : /\ GoodGroup(group[k], held[k]) /\ held[k] \in Nat
                         /\ group[k].state # "ABSENT" => k[1] \in on
    BY <1>3, GroupTypes, AbsentGood, AbsentEntry
  <1>5. filter = {k \in Pairs : group[k].state # "ABSENT"}
    BY <1>2, <1>3, AbsentEntry
  <1>6. Fits(on, group, filter, held)
    BY <1>4, <1>5 DEF Fits
  <1> HIDE DEF on, filter
  <1> QED
    BY <1>1, <1>2, <1>3, <1>6, KeepsInv

-----------------------------------------------------------------------------
LEMMA Places ==
  ASSUME NEW to, NEW g \in Group, NEW is \in SUBSET Chosen(to)
  PROVE  /\ At(is, g) \in SUBSET Pairs
         /\ \A k \in At(is, g) : k[1] \in igmp.on
  BY DEF Chosen, At, Pairs, Net, ToSet

LEMMA JoinStep ==
  ASSUME IgmpInv, NEW ks \in SUBSET Pairs, \A k \in ks : k[1] \in igmp.on,
         NEW granted \in {ks, {}}, Join(ks, granted)
  PROVE  IgmpInv'
  <1>1. /\ igmp \in Table /\ igmp.filter = {k \in Pairs : igmp.group[k].state # "ABSENT"}
        /\ igmp.on \in SUBSET Net
    BY TableTypes
  <1>2. PICK rnd \in [ks -> Times(JOIN_TMR)], unsent \in SUBSET ks :
          igmp' = [igmp EXCEPT
            !.group  = [k \in Pairs |-> IF k \in ks THEN Join1(igmp.group[k], rnd[k], k \notin unsent)
                                        ELSE igmp.group[k]],
            !.filter = igmp.filter \union {k \in ks : ~Present(igmp, k)},
            !.held   = [k \in Pairs |-> IF k \in granted THEN igmp.held[k] + 1 ELSE igmp.held[k]]]
    BY Zenon DEF Join
  <1> DEFINE group == [k \in Pairs |-> IF k \in ks THEN Join1(igmp.group[k], rnd[k], k \notin unsent)
                                       ELSE igmp.group[k]]
             filter == igmp.filter \union {k \in ks : ~Present(igmp, k)}
             held == [k \in Pairs |-> IF k \in granted THEN igmp.held[k] + 1 ELSE igmp.held[k]]
  <1>3. igmp' = [on |-> igmp.on, group |-> group, filter |-> filter, held |-> held]
    BY <1>1, <1>2 DEF Table
  <1>4. ASSUME NEW k \in Pairs
        PROVE  /\ GoodGroup(group[k], held[k]) /\ held[k] \in Nat
               /\ group[k].state # "ABSENT" => k[1] \in igmp.on
               /\ group[k].state # "ABSENT" <=> k \in ks \/ igmp.group[k].state # "ABSENT"
    <2>1. CASE k \in ks
      <3> DEFINE got == IF k \in granted THEN 1 ELSE 0
                 sent == k \notin unsent
      <3>1. /\ group[k] = Join1(igmp.group[k], rnd[k], sent) /\ sent \in BOOLEAN
            /\ rnd[k] \in Times(JOIN_TMR)
        BY <2>1
      <3>2. held[k] = igmp.held[k] + got /\ got \in {0, 1}
        BY GroupTypes
      <3> HIDE DEF group, held, got, sent
      <3>3. GoodGroup(group[k], held[k]) /\ group[k].state # "ABSENT"
        BY <3>1, <3>2, GroupTypes, JoinedGood
      <3>4. held[k] \in Nat
        BY <3>2, GroupTypes
      <3> QED
        BY <2>1, <3>3, <3>4
    <2>2. CASE k \notin ks
      <3>1. group[k] = igmp.group[k] /\ held[k] = igmp.held[k]
        BY <2>2
      <3> HIDE DEF group, held
      <3> QED
        BY <2>2, <3>1, GroupTypes
    <2> QED
      BY <2>1, <2>2
  <1>5. group \in [Pairs -> Membership] /\ held \in [Pairs -> Nat]
    BY <1>4 DEF GoodGroup
  <1> HIDE DEF group, held
  <1>6. filter = {k \in Pairs : group[k].state # "ABSENT"}
    BY <1>1, <1>4, GroupTypes
  <1>7. Fits(igmp.on, group, filter, held)
    BY <1>4, <1>6 DEF Fits
  <1> HIDE DEF filter
  <1> QED
    BY <1>1, <1>3, <1>5, <1>7, KeepsInv

LEMMA LeaveStep ==
  ASSUME IgmpInv, NEW to, NEW g \in Group, igmp_leavegroup(to, g)
  PROVE  IgmpInv'
  <1> DEFINE ks == At(Chosen(to), g)
             group == [k \in Pairs |-> IF k \in ks THEN Leave1(igmp.group[k]) ELSE igmp.group[k]]
             filter == igmp.filter \ {k \in ks : Present(igmp, k) /\ group[k] = Absent}
             held == [k \in Pairs |-> IF k \in ks THEN igmp.held[k] - 1 ELSE igmp.held[k]]
  <1>1. /\ igmp \in Table /\ igmp.filter = {k \in Pairs : igmp.group[k].state # "ABSENT"}
        /\ igmp.on \in SUBSET Net
    BY TableTypes
  <1>2. /\ \A k \in ks : igmp.held[k] > 0
        /\ igmp' = [igmp EXCEPT !.group = group, !.filter = filter, !.held = held]
    BY <1>1 DEF igmp_leavegroup, Table
  <1>3. ks \in SUBSET Pairs
    BY Places
  <1>4. igmp' = [on |-> igmp.on, group |-> group, filter |-> filter, held |-> held]
    BY <1>1, <1>2 DEF Table
  <1> HIDE DEF ks
  <1>5. ASSUME NEW k \in Pairs
        PROVE  /\ GoodGroup(group[k], held[k]) /\ held[k] \in Nat
               /\ group[k].state # "ABSENT" => igmp.group[k].state # "ABSENT"
               /\ k \notin ks => group[k] = igmp.group[k]
    <2>1. CASE k \in ks
      <3>1. group[k] = Leave1(igmp.group[k]) /\ held[k] = igmp.held[k] - 1 /\ igmp.held[k] > 0
        BY <1>2, <2>1
      <3> HIDE DEF group, held
      <3>2. igmp.held[k] \in Nat /\ GoodGroup(igmp.group[k], igmp.held[k])
        BY GroupTypes
      <3>3. GoodGroup(group[k], held[k]) /\ igmp.group[k].state # "ABSENT"
        BY <3>1, <3>2, LeftGood
      <3>4. held[k] \in Nat
        BY <3>1, <3>2
      <3> QED
        BY <2>1, <3>3, <3>4
    <2>2. CASE k \notin ks
      <3>1. group[k] = igmp.group[k] /\ held[k] = igmp.held[k]
        BY <2>2
      <3> HIDE DEF group, held
      <3> QED
        BY <3>1, GroupTypes
    <2> QED
      BY <2>1, <2>2
  <1>6. group \in [Pairs -> Membership] /\ held \in [Pairs -> Nat]
    BY <1>5 DEF GoodGroup
  <1>7. ASSUME NEW k \in ks, group[k].state = "ABSENT"
        PROVE  group[k] = Absent
    <2> DEFINE e == igmp.group[k]
    <2>1. k \in Pairs /\ group[k] = Leave1(e) /\ igmp.held[k] > 0
      BY <1>2, <1>3
    <2> HIDE DEF group
    <2>2. e \in Membership /\ e.state # "ABSENT"
      BY <2>1, GroupTypes, LeftGood
    <2>3. [e EXCEPT !.use = @ - 1].state = e.state
      BY <2>2 DEF Membership
    <2> HIDE DEF e
    <2> QED
      BY <1>7, <2>1, <2>2, <2>3 DEF Leave1, LeaveAt
  <1> HIDE DEF group, held
  <1>8. filter = {k \in Pairs : group[k].state # "ABSENT"}
    BY <1>1, <1>3, <1>5, <1>7, GroupTypes, AbsentEntry
  <1>9. Fits(igmp.on, group, filter, held)
    BY <1>5, <1>8, GroupTypes DEF Fits
  <1> HIDE DEF filter
  <1> QED
    BY <1>1, <1>4, <1>6, <1>9, KeepsInv

-----------------------------------------------------------------------------
LEMMA NextIgmpInv == IgmpInv /\ [IgmpNext]_igmp => IgmpInv'
  <1> SUFFICES ASSUME IgmpInv, [IgmpNext]_igmp PROVE IgmpInv'
    OBVIOUS
  <1>1. CASE igmp_tmr
    BY <1>1, TmrStep
  <1>2. ASSUME NEW n \in Net, igmp_start(n) PROVE IgmpInv'
    BY <1>2, StartStep
  <1>3. ASSUME NEW n \in Net, igmp_stop(n) PROVE IgmpInv'
    BY <1>3, StopStep
  <1>4. \A n \in Net : On(n) \in SUBSET Pairs /\ \A k \in On(n) : Present(igmp, k)
    BY DEF On
  <1>5. ASSUME NEW n \in Net, igmp_report_groups(n) PROVE IgmpInv'
    BY <1>4, <1>5, DelayStep, TimerFacts DEF igmp_report_groups
  <1>6. ASSUME NEW n \in Net, NEW max \in MaxResp, Query(n, max) PROVE IgmpInv'
    <2> DEFINE ks == On(n) \ {<<n, allsystems>>}
               m == IF max = 0 THEN V1_TMR ELSE max
    <2>1. ks \in SUBSET Pairs /\ \A k \in ks : Present(igmp, k)
      BY <1>4
    <2>2. DelayAll(ks, m) /\ m \in Nat
      BY <1>6, TimerFacts DEF Query
    <2> HIDE DEF ks, m
    <2> QED
      BY <2>1, <2>2, DelayStep
  <1>7. ASSUME NEW n \in Net, NEW g \in Member, NEW max \in MaxResp, QueryGroup(n, g, max)
        PROVE  IgmpInv'
    <2> DEFINE ks == {<<n, g>>}
    <2>1. ks \in SUBSET Pairs /\ \A k \in ks : Present(igmp, k)
      BY <1>7 DEF QueryGroup, Member, Pairs
    <2>2. DelayAll(ks, max) /\ max \in Nat
      BY <1>7, TimerFacts DEF QueryGroup
    <2> HIDE DEF ks
    <2> QED
      BY <2>1, <2>2, DelayStep
  <1>8. ASSUME NEW n \in Net, NEW g \in Group, MembReport(n, g) PROVE IgmpInv'
    BY <1>8, ReportStep
  <1>9. ASSUME NEW to, NEW g \in Member, igmp_joingroup(to, g) PROVE IgmpInv'
    <2>1. g \in Group
      BY DEF Member
    <2>2. CASE Join(At(Chosen(to), g), At(Chosen(to), g))
      <3> DEFINE ks == At(Chosen(to), g)
      <3>1. ks \in SUBSET Pairs /\ \A k \in ks : k[1] \in igmp.on
        BY <2>1, Places
      <3> HIDE DEF ks
      <3>2. Join(ks, ks)
        BY <2>2 DEF ks
      <3> QED
        BY <3>1, <3>2, JoinStep
    <2>3. ASSUME NEW f \in Chosen(to), Join(At({i \in Chosen(to) : i < f}, g), {})
          PROVE  IgmpInv'
      <3> DEFINE ks == At({i \in Chosen(to) : i < f}, g)
      <3>1. ks \in SUBSET Pairs /\ \A k \in ks : k[1] \in igmp.on
        BY <2>1, Places
      <3> HIDE DEF ks
      <3>2. Join(ks, {})
        BY <2>3 DEF ks
      <3> QED
        BY <3>1, <3>2, JoinStep
    <2> QED
      BY <1>9, <2>2, <2>3 DEF igmp_joingroup
  <1>10. ASSUME NEW to, NEW g \in Member, igmp_leavegroup(to, g) PROVE IgmpInv'
    BY <1>10, LeaveStep DEF Member
  <1>11. CASE UNCHANGED igmp
    BY <1>11 DEF IgmpInv
  <1> QED
    BY <1>1, <1>2, <1>3, <1>5, <1>6, <1>7, <1>8, <1>9, <1>10, <1>11 DEF IgmpNext

(* The inductive invariant holds in every reachable state.                 *)
THEOREM IgmpInvariance == IgmpSpec => []IgmpInv
  BY InitIgmpInv, NextIgmpInv, PTL DEF IgmpSpec

LEMMA IgmpInvSound == IgmpInv => IgmpSound
  <1> SUFFICES ASSUME IgmpInv PROVE IgmpSound
    OBVIOUS
  <1>1. DOMAIN igmp.group = Pairs
    BY TableTypes
  <1>2. ASSUME NEW k \in Pairs
        PROVE  LET e == igmp.group[k]
               IN  /\ e.state \in GroupStates /\ e.use \in Nat /\ e.timer \in Nat /\ e.due \in Nat
                   /\ Timed(e) /\ Told(e) /\ Counted(e, igmp.held[k])
                   /\ e.state # "ABSENT" => k[1] \in igmp.on
                   /\ Present(igmp, k) <=> e.state # "ABSENT"
    BY GroupTypes DEF GoodGroup, Membership
  <1>3. IgmpTypeOK
    <2> SUFFICES ASSUME NEW k \in Pairs
                 PROVE  LET e == igmp.group[k]
                        IN  /\ e.state \in {"ABSENT", "IDLE", "DELAYING"}
                            /\ e.timer > 0 => e.state = "DELAYING"
                            /\ Present(igmp, k) => k[1] \in igmp.on /\ e.use > 0
      BY <1>1 DEF IgmpTypeOK
    <2> DEFINE e == igmp.group[k]
    <2>1. e.state # "ABSENT" => e.use > 0
      <3>1. e.state # "ABSENT" => e.use # 0
        BY <1>2 DEF Counted
      <3> QED
        BY <1>2, <3>1
    <2>2. e.state \in {"ABSENT", "IDLE", "DELAYING"} /\ (e.timer > 0 => e.state = "DELAYING")
      BY <1>2 DEF Timed, GroupStates
    <2> QED
      BY <1>2, <2>1, <2>2
  <1>4. LastReporter
    BY <1>1, <1>2 DEF LastReporter, Told
  <1>5. Prompt
    BY <1>1, <1>2 DEF Prompt, Timed
  <1>6. KeptWhileHeld
    <2>1. \A k \in Pairs : igmp.group[k].use >= igmp.held[k]
      BY <1>2, TableTypes DEF Counted
    <2>2. igmp.filter = {k \in Pairs : Present(igmp, k)}
      BY <1>2, TableTypes
    <2> QED
      BY <1>1, <2>1, <2>2 DEF KeptWhileHeld
  <1> QED
    BY <1>3, <1>4, <1>5, <1>6 DEF IgmpSound

(* igmp.c: the flag of a group tells who reported last, its report comes   *)
(* in time, and who has joined and not left is a member.                   *)
THEOREM IgmpCorrect == IgmpSpec => []IgmpSound
  BY IgmpInvariance, IgmpInvSound, PTL

-----------------------------------------------------------------------------
(* What the fields of the resolver may be.  An entry that asks has retries *)
(* and servers left.                                                       *)
AsksNow(e) == e.state = "ASKING"
TableEntry ==
  {e \in [state : {"UNUSED", "ASKING", "DONE"}, name : Name, seqno : 0..SEQ-1, tmr : Nat,
          retries : Nat, numdns : Nat, ttl : Nat, req : Nat] :
     AsksNow(e) => /\ e.retries < DNS_MAX_RETRIES /\ e.numdns < SERVERS
                  /\ e.tmr \in 1..DNS_MAX_RETRIES}
NameQuery == [id : 0..2^16-1, name : Name]
Result    == Name \union {"idle", "waiting", "NULL", "ERR_MEM"}
NameReq   == [name : Name, res : Result, calls : Nat]
Resolver  == [table : [Slots -> TableEntry], seqno : 0..SEQ-1, random : Random,
              net : SUBSET NameQuery, reqs : [Req -> NameReq], reenter : BOOLEAN,
              lost : SUBSET Req]

(* A request that was not called back is at its start; one that was has    *)
(* been called back once, and with its own address.                        *)
GoodReq(q) == /\ q.calls <= 1
              /\ q.res \in {"idle", "waiting", "ERR_MEM"} => q.calls = 0
              /\ q.res \in Name => q.res = q.name

(* An entry that asks does so for a request that waits, and no other does; *)
(* a request that waits has one, or is lost.                               *)
AsksFor(tab, reqs) ==
  \A i \in Slots : AsksNow(tab[i]) =>
    /\ tab[i].req \in Req /\ reqs[tab[i].req].res = "waiting"
    /\ reqs[tab[i].req].name = tab[i].name
AskOnce(tab) ==
  \A i, j \in Slots : AsksNow(tab[i]) /\ AsksNow(tab[j]) /\ tab[i].req = tab[j].req => i = j
AskedFor(tab, reqs, lost) ==
  \A r \in Req \ lost : reqs[r].res = "waiting" =>
    \E i \in Slots : AsksNow(tab[i]) /\ tab[i].req = r
Consistent(tab, reqs, lost) ==
  /\ \A r \in Req : GoodReq(reqs[r])
  /\ AsksFor(tab, reqs) /\ AskOnce(tab) /\ AskedFor(tab, reqs, lost)

Bounded(t) == IsFiniteSet(t.net) /\ Cardinality(t.net) <= ASKED
GoodDns(t) == /\ t \in Resolver /\ Bounded(t) /\ Consistent(t.table, t.reqs, t.lost)
              /\ ~t.reenter => t.lost = {}

DnsInv == GoodDns(dns)

LEMMA DnsSizes ==
  /\ DNS_TABLE_SIZE \in Nat /\ DNS_TABLE_SIZE > 0
  /\ DNS_MAX_RETRIES \in Nat /\ DNS_MAX_RETRIES > 0 /\ DNS_MAX_RETRIES < 256
  /\ SERVERS \in Nat /\ SERVERS > 0 /\ SEQ \in Nat /\ SEQ > 0
  /\ REQS \in Nat /\ REQS > 0 /\ ASKED \in Nat /\ ASKED > 0
  /\ Random # {} /\ Random \subseteq Nat /\ Ttl \subseteq Nat
  /\ START \in 0..SEQ-1
  /\ Name # {} /\ "idle" \notin Name /\ "waiting" \notin Name
  /\ "NULL" \notin Name /\ "ERR_MEM" \notin Name
  /\ 0 \in Slots /\ Slots \subseteq Nat /\ Req \subseteq Nat /\ 0 \notin Req
<1>1. {DNS_TABLE_SIZE, DNS_MAX_RETRIES, SERVERS, SEQ, REQS, ASKED} \subseteq Nat \ {0}
  BY DnsAssumption
<1>2. /\ DNS_TABLE_SIZE \in Nat \ {0} /\ DNS_MAX_RETRIES \in Nat \ {0} /\ SERVERS \in Nat \ {0}
      /\ SEQ \in Nat \ {0} /\ REQS \in Nat \ {0} /\ ASKED \in Nat \ {0}
  BY <1>1
<1>3. /\ 0 \in Slots /\ Slots \subseteq Nat /\ Req \subseteq Nat /\ 0 \notin Req
  BY <1>2 DEF Slots, Req
<1>4. /\ "idle" \notin Name /\ "waiting" \notin Name
      /\ "NULL" \notin Name /\ "ERR_MEM" \notin Name
  BY DnsAssumption
<1>7. Random \subseteq Nat
  <2>1. \A b : 0..b \subseteq Nat
    OBVIOUS
  <2>2. Random \subseteq 0..2^16-1
    BY DnsAssumption
  <2> QED BY <2>1, <2>2, Zenon
<1>5. /\ Random \subseteq Nat /\ Random # {} /\ Ttl \subseteq Nat
      /\ START \in 0..SEQ-1 /\ Name # {} /\ DNS_MAX_RETRIES < 256
  BY DnsAssumption, <1>7, Zenon
<1>6. /\ DNS_TABLE_SIZE \in Nat /\ DNS_TABLE_SIZE > 0
      /\ DNS_MAX_RETRIES \in Nat /\ DNS_MAX_RETRIES > 0
      /\ SERVERS \in Nat /\ SERVERS > 0 /\ SEQ \in Nat /\ SEQ > 0
      /\ REQS \in Nat /\ REQS > 0 /\ ASKED \in Nat /\ ASKED > 0
  BY <1>2
<1> QED BY <1>6, <1>3, <1>4, <1>5, Zenon

-----------------------------------------------------------------------------
(* The ways in which the table and the requests change together.           *)
LEMMA SameRequest ==
  ASSUME NEW tab \in [Slots -> TableEntry], NEW reqs \in [Req -> NameReq], NEW lost,
         Consistent(tab, reqs, lost), NEW i \in Slots, NEW e \in TableEntry,
         AsksNow(e) <=> AsksNow(tab[i]), e.req = tab[i].req, e.name = tab[i].name
  PROVE  Consistent([tab EXCEPT ![i] = e], reqs, lost)
<1> DEFINE u == [tab EXCEPT ![i] = e]
<1>1. \A j \in Slots : /\ AsksNow(u[j]) <=> AsksNow(tab[j])
                       /\ u[j].req = tab[j].req /\ u[j].name = tab[j].name
  OBVIOUS
<1> HIDE DEF u
<1> QED BY <1>1 DEF Consistent, AsksFor, AskOnce, AskedFor, u

LEMMA Idles ==
  ASSUME NEW tab \in [Slots -> TableEntry], NEW reqs \in [Req -> NameReq], NEW lost,
         Consistent(tab, reqs, lost), NEW i \in Slots, NEW e \in TableEntry,
         ~AsksNow(e), ~AsksNow(tab[i])
  PROVE  Consistent([tab EXCEPT ![i] = e], reqs, lost)
<1> DEFINE u == [tab EXCEPT ![i] = e]
<1>1. \A j \in Slots : /\ AsksNow(u[j]) <=> AsksNow(tab[j])
                       /\ AsksNow(u[j]) => u[j].req = tab[j].req /\ u[j].name = tab[j].name
  OBVIOUS
<1> HIDE DEF u
<1> QED BY <1>1 DEF Consistent, AsksFor, AskOnce, AskedFor, u

(* A request is called back and its entry stops asking.                    *)
LEMMA CalledBack ==
  ASSUME NEW tab \in [Slots -> TableEntry], NEW reqs \in [Req -> NameReq], NEW lost,
         Consistent(tab, reqs, lost), NEW i \in Slots, NEW e \in TableEntry,
         AsksNow(tab[i]), ~AsksNow(e), NEW q \in NameReq,
         q.name = reqs[tab[i].req].name, q.calls = reqs[tab[i].req].calls + 1,
         q.res \in Name \union {"NULL"}, q.res \in Name => q.res = q.name
  PROVE  /\ tab[i].req \in Req
         /\ Consistent([tab EXCEPT ![i] = e], [reqs EXCEPT ![tab[i].req] = q], lost)
<1> DEFINE r == tab[i].req
           u == [tab EXCEPT ![i] = e]
           v == [reqs EXCEPT ![r] = q]
<1>1. r \in Req /\ reqs[r].res = "waiting"
  BY DEF Consistent, AsksFor
<1>2. \A x \in Req : GoodReq(v[x])
  <2>1. reqs[r].calls = 0
    BY <1>1 DEF Consistent, GoodReq
  <2>4. q.calls = 1
    BY <2>1
  <2>5. q.res \notin {"idle", "waiting", "ERR_MEM"}
    BY DnsSizes
  <2>2. q.calls = 1 /\ q.res \notin {"idle", "waiting", "ERR_MEM"}
    BY <2>4, <2>5
  <2>3. GoodReq(q)
    BY <2>2 DEF GoodReq
  <2> QED BY <2>3 DEF Consistent
<1>3. \A j \in Slots : AsksNow(u[j]) => /\ j # i /\ u[j] = tab[j]
                                       /\ tab[j].req # r /\ tab[j].req \in Req
                                       /\ v[tab[j].req] = reqs[tab[j].req]
  BY <1>1 DEF Consistent, AskOnce, AsksFor
<1>4. \A x \in Req : v[x].res = "waiting" => x # r /\ v[x] = reqs[x]
  BY <1>1, DnsSizes
<1>5. \A j \in Slots : j # i => u[j] = tab[j]
  OBVIOUS
<1> HIDE DEF u, v
<1>6. AsksFor(u, v) /\ AskOnce(u)
  BY <1>3 DEF Consistent, AsksFor, AskOnce
<1>7. AskedFor(u, v, lost)
  BY <1>4, <1>5 DEF Consistent, AskedFor
<1> QED BY <1>1, <1>2, <1>6, <1>7 DEF Consistent, u, v

(* A new request takes an entry that does not ask, or there is none.       *)
LEMMA Queued1 ==
  ASSUME NEW tab \in [Slots -> TableEntry], NEW reqs \in [Req -> NameReq], NEW lost,
         Consistent(tab, reqs, lost), NEW i \in Slots, NEW e \in TableEntry,
         ~AsksNow(tab[i]), AsksNow(e), NEW r \in Req, reqs[r].res = "idle",
         NEW q \in NameReq, q.res = "waiting", q.calls = reqs[r].calls,
         e.req = r, e.name = q.name
  PROVE  Consistent([tab EXCEPT ![i] = e], [reqs EXCEPT ![r] = q], lost)
<1> DEFINE u == [tab EXCEPT ![i] = e]
           v == [reqs EXCEPT ![r] = q]
<1>2. \A x \in Req : GoodReq(v[x])
  <2>1. GoodReq(q)
    BY DnsSizes DEF Consistent, GoodReq, NameReq
  <2> QED BY <2>1 DEF Consistent
<1>3. \A j \in Slots : j # i /\ AsksNow(u[j]) => /\ u[j] = tab[j]
                                       /\ tab[j].req # r /\ tab[j].req \in Req
                                       /\ v[tab[j].req] = reqs[tab[j].req]
  BY DEF Consistent, AsksFor
<1>4. \A x \in Req : x # r => v[x] = reqs[x]
  OBVIOUS
<1>5. \A j \in Slots : j # i => u[j] = tab[j]
  OBVIOUS
<1>6. u[i] = e /\ v[r] = q
  OBVIOUS
<1> HIDE DEF u, v
<1>7. AsksFor(u, v) /\ AskOnce(u)
  BY <1>3, <1>6 DEF Consistent, AsksFor, AskOnce
<1>8. AskedFor(u, v, lost)
  BY <1>4, <1>5, <1>6 DEF Consistent, AskedFor
<1> QED BY <1>2, <1>7, <1>8 DEF Consistent, u, v

LEMMA Refused1 ==
  ASSUME NEW tab \in [Slots -> TableEntry], NEW reqs \in [Req -> NameReq], NEW lost,
         Consistent(tab, reqs, lost), NEW r \in Req, reqs[r].res = "idle",
         NEW q \in NameReq, q.res = "ERR_MEM", q.calls = reqs[r].calls
  PROVE  Consistent(tab, [reqs EXCEPT ![r] = q], lost)
<1> DEFINE v == [reqs EXCEPT ![r] = q]
<1>2. \A x \in Req : GoodReq(v[x])
  <2>1. GoodReq(q)
    BY DnsSizes DEF Consistent, GoodReq, NameReq
  <2> QED BY <2>1 DEF Consistent
<1>3. \A x \in Req : x # r => v[x] = reqs[x]
  OBVIOUS
<1>4. v[r].res = "ERR_MEM"
  OBVIOUS
<1> HIDE DEF v
<1>5. AsksFor(tab, v) /\ AskOnce(tab)
  BY <1>3 DEF Consistent, AsksFor, AskOnce
<1>6. AskedFor(tab, v, lost)
  BY <1>3, <1>4 DEF Consistent, AskedFor
<1> QED BY <1>2, <1>5, <1>6 DEF Consistent, v

(* An entry that asks is flushed, and its request is lost.                 *)
LEMMA Loses ==
  ASSUME NEW tab \in [Slots -> TableEntry], NEW reqs \in [Req -> NameReq], NEW lost,
         Consistent(tab, reqs, lost), NEW i \in Slots, NEW e \in TableEntry,
         ~AsksNow(e)
  PROVE  Consistent([tab EXCEPT ![i] = e], reqs, lost \union {tab[i].req})
<1> DEFINE u == [tab EXCEPT ![i] = e]
<1>1. \A j \in Slots : AsksNow(u[j]) => u[j] = tab[j]
  OBVIOUS
<1>2. \A j \in Slots : tab[j].req # tab[i].req => u[j] = tab[j]
  OBVIOUS
<1> HIDE DEF u
<1> QED BY <1>1, <1>2 DEF Consistent, AsksFor, AskOnce, AskedFor, u

-----------------------------------------------------------------------------
(* What the functions of dns.c do to a good resolver.                      *)
LEMMA PutEntry ==
  ASSUME NEW t, GoodDns(t), NEW i \in Slots, NEW e \in TableEntry,
         Consistent([t.table EXCEPT ![i] = e], t.reqs, t.lost)
  PROVE  GoodDns([t EXCEPT !.table[i] = e])
  BY DEF GoodDns, Resolver, Bounded

LEMMA EntryIs ==
  ASSUME NEW t, GoodDns(t), NEW i \in Slots
  PROVE  /\ t.table[i] \in TableEntry /\ t.table \in [Slots -> TableEntry]
         /\ t.reqs \in [Req -> NameReq] /\ t.lost \subseteq Req
         /\ Consistent(t.table, t.reqs, t.lost)
         /\ t.table[i].state \in {"UNUSED", "ASKING", "DONE"}
  BY DEF GoodDns, Resolver, TableEntry

LEMMA UnusedIs == Unused \in TableEntry /\ ~AsksNow(Unused)
<1>1. (CHOOSE n \in Name : TRUE) \in Name
  BY DnsSizes
<1>2. 0 \in 0..SEQ-1
  BY DnsSizes
<1> QED BY <1>1, <1>2 DEF Unused, TableEntry, AsksNow

LEMMA DnsSendGood ==
  ASSUME NEW t, GoodDns(t), NEW i \in Slots, NEW rnd \in Random
  PROVE  /\ GoodDns(dns_send(t, i, rnd))
         /\ dns_send(t, i, rnd).table = t.table /\ dns_send(t, i, rnd).reqs = t.reqs
         /\ dns_send(t, i, rnd).lost = t.lost /\ dns_send(t, i, rnd).reenter = t.reenter
<1> DEFINE q == [id |-> (i + rnd) % 2^16, name |-> t.table[i].name]
           n == IF Cardinality(t.net) < ASKED THEN t.net \union {q} ELSE t.net
           u == [t EXCEPT !.random = rnd, !.net = n]
<1>1. dns_send(t, i, rnd) = u
  BY DEF dns_send
<1>2. t \in Resolver /\ IsFiniteSet(t.net) /\ Cardinality(t.net) <= ASKED
  BY DEF GoodDns, Bounded
<1>3. q \in NameQuery
  <2>1. t.table[i].name \in Name
    BY <1>2 DEF Resolver, TableEntry
  <2>2. i \in Nat /\ rnd \in Nat
    BY DnsSizes
  <2>3. (i + rnd) % 2^16 \in 0..2^16-1
    BY <2>2
  <2> QED BY <2>1, <2>3 DEF NameQuery
<1> HIDE DEF q
<1>4. n \in SUBSET NameQuery
  BY <1>2, <1>3 DEF Resolver
<1>5. IsFiniteSet(n) /\ Cardinality(n) <= ASKED
  <2>1. Cardinality(t.net) \in Nat
    BY <1>2, FS_CardinalityType
  <2>2. IsFiniteSet(t.net \union {q})
    BY <1>2, FS_AddElement
  <2>3. Cardinality(t.net \union {q}) =
          IF q \in t.net THEN Cardinality(t.net) ELSE Cardinality(t.net) + 1
    BY <1>2, FS_AddElement
  <2>4. ASKED \in Nat
    BY DnsSizes
  <2>5. ASSUME Cardinality(t.net) < ASKED
        PROVE  Cardinality(t.net \union {q}) <= ASKED
    BY <2>1, <2>3, <2>4, <2>5
  <2> QED BY <1>2, <2>2, <2>5
<1> HIDE DEF n
<1>6. u \in Resolver /\ u.net = n /\ u.table = t.table /\ u.reqs = t.reqs
      /\ u.lost = t.lost /\ u.reenter = t.reenter
  BY <1>2, <1>4 DEF Resolver
<1> HIDE DEF u
<1> QED BY <1>1, <1>5, <1>6 DEF GoodDns, Bounded

LEMMA FlushGood ==
  ASSUME NEW t, GoodDns(t), NEW i \in Slots, ~AsksNow(t.table[i])
  PROVE  GoodDns(Flush(t, i))
<1>1. Consistent([t.table EXCEPT ![i] = Unused], t.reqs, t.lost)
  BY EntryIs, UnusedIs, Idles
<1> QED BY <1>1, UnusedIs, PutEntry DEF Flush

(* The callback of an entry that asks, which is then no longer asking.     *)
LEMMA ToldIs ==
  ASSUME NEW p \in NameReq, NEW res \in Result
  PROVE  /\ Notified(p, res) \in NameReq /\ Notified(p, res).name = p.name
         /\ Notified(p, res).calls = p.calls + 1 /\ Notified(p, res).res = res
  BY DEF NameReq, Notified

LEMMA CallGood ==
  ASSUME NEW t, GoodDns(t), NEW i \in Slots, AsksNow(t.table[i]),
         NEW e \in TableEntry, ~AsksNow(e),
         NEW res \in Name \union {"NULL"}, res \in Name => res = t.table[i].name,
         NEW u, DOMAIN u = DOMAIN t, u = [k \in DOMAIN t |-> u[k]],
         u.net = t.net, u.lost = t.lost, u.reenter = t.reenter, u.seqno = t.seqno,
         u.random = t.random, u.table = [t.table EXCEPT ![i] = e],
         u.reqs = [t.reqs EXCEPT ![t.table[i].req] = Notified(@, res)]
  PROVE  GoodDns(u) /\ t.table[i].req \in Req
<1> DEFINE r == t.table[i].req
           q == Notified(t.reqs[r], res)
<1>1. /\ r \in Req /\ t.reqs[r].name = t.table[i].name /\ t.reqs[r] \in NameReq
      /\ t.reqs[r].calls \in Nat
  BY EntryIs DEF Consistent, AsksFor, NameReq
<1>2. q \in NameReq /\ q.name = t.reqs[r].name /\ q.calls = t.reqs[r].calls + 1 /\ q.res = res
  <2>1. res \in Result
    BY DEF Result
  <2> QED BY <1>1, <2>1, ToldIs
<1>3. u.reqs = [t.reqs EXCEPT ![r] = q]
  OBVIOUS
<1> HIDE DEF q
<1>4. Consistent(u.table, u.reqs, u.lost)
  BY <1>1, <1>2, <1>3, EntryIs, CalledBack
<1>5. u \in Resolver
  BY <1>1, <1>2, <1>3 DEF GoodDns, Resolver
<1> QED BY <1>1, <1>4, <1>5 DEF GoodDns, Bounded

LEMMA CheckGood ==
  ASSUME NEW t, GoodDns(t), NEW i \in Slots, NEW rnd \in Random
  PROVE  GoodDns(dns_check_entry(t, i, rnd))
<1> DEFINE e == t.table[i]
<1>1. /\ e \in TableEntry /\ e.state \in {"UNUSED", "ASKING", "DONE"}
      /\ Consistent(t.table, t.reqs, t.lost)
      /\ t.table \in [Slots -> TableEntry] /\ t.reqs \in [Req -> NameReq]
  BY EntryIs
<1>2. CASE e.state = "UNUSED"
  BY <1>2 DEF dns_check_entry, CheckFrom
<1>3. CASE e.state = "DONE"
  <2>1. dns_check_entry(t, i, rnd) = CheckDone(t, i)
    BY <1>3 DEF dns_check_entry, CheckFrom
  <2>2. CASE e.ttl \in {0, 1}
    BY <2>1, <2>2, <1>3, FlushGood DEF CheckDone, AsksNow
  <2>3. CASE e.ttl \notin {0, 1}
    <3> DEFINE d == [e EXCEPT !.ttl = @ - 1]
    <3>1. e.ttl \in Nat
      BY <1>1 DEF TableEntry
    <3>2. e.ttl - 1 \in Nat
      BY <3>1, <2>3
    <3>3. d \in TableEntry /\ ~AsksNow(d)
      BY <3>2, <1>1, <1>3 DEF TableEntry, AsksNow
    <3>4. dns_check_entry(t, i, rnd) = [t EXCEPT !.table[i] = d]
      BY <2>1, <2>3 DEF CheckDone
    <3> HIDE DEF d
    <3>5. ~AsksNow(e)
      BY <1>3 DEF AsksNow
    <3> QED BY <3>3, <3>4, <3>5, <1>1, Idles, PutEntry
  <2> QED BY <2>2, <2>3
<1>4. CASE e.state = "ASKING"
  <2>1. dns_check_entry(t, i, rnd) = CheckAsking(1, 0, t, i, rnd)
    BY <1>4 DEF dns_check_entry, CheckFrom
  <2>2. /\ AsksNow(e) /\ e.tmr \in 1..DNS_MAX_RETRIES /\ e.retries \in Nat
        /\ e.retries < DNS_MAX_RETRIES /\ e.numdns \in Nat /\ e.numdns < SERVERS
        /\ e.tmr \in Nat
    BY <1>1, <1>4 DEF TableEntry, AsksNow
  <2>5. ASSUME NEW d \in TableEntry, AsksNow(d), d.req = e.req, d.name = e.name
        PROVE  GoodDns([t EXCEPT !.table[i] = d])
    BY <1>1, <2>2, <2>5, SameRequest, PutEntry
  <2>a. CASE e.tmr - 1 # 0
    <3> DEFINE n == (e.tmr - 1) % 256
               d == [e EXCEPT !.tmr = n]
    <3>1. n \in 1..DNS_MAX_RETRIES
      <4>1. e.tmr - 1 \in 1..DNS_MAX_RETRIES /\ e.tmr - 1 < 256 /\ e.tmr - 1 \in Nat
        BY <2>2, <2>a, DnsSizes
      <4>2. \A x \in Nat : x < 256 => x % 256 = x
        OBVIOUS
      <4> QED BY <4>1, <4>2
    <3>2. CheckAsking(1, 0, t, i, rnd) = [t EXCEPT !.table[i] = d]
      BY <2>a DEF CheckAsking
    <3> HIDE DEF n
    <3>3. n \in Nat
      BY <3>1, DnsSizes
    <3>4. d \in TableEntry /\ AsksNow(d) /\ d.req = e.req /\ d.name = e.name
      BY <3>1, <3>3, <1>1, <2>2 DEF TableEntry, AsksNow
    <3> HIDE DEF d
    <3> QED BY <3>2, <3>4, <2>1, <2>5
  <2>b. CASE e.tmr - 1 = 0 /\ e.retries + 1 # DNS_MAX_RETRIES
    <3> DEFINE n == e.retries + 1
               d == [e EXCEPT !.retries = n, !.tmr = n]
    <3>1. n \in 1..DNS_MAX_RETRIES /\ n < DNS_MAX_RETRIES /\ n \in Nat
      BY <2>2, <2>b, DnsSizes
    <3>2. CheckAsking(1, 0, t, i, rnd) = dns_send([t EXCEPT !.table[i] = d], i, rnd)
      <4>1. CheckAsking(1, 0, t, i, rnd) = Retry(t, i, rnd)
        BY <2>b DEF CheckAsking
      <4>2. [t EXCEPT !.table[i].retries = @ + 1, !.table[i].tmr = t.table[i].retries + 1]
              = [t EXCEPT !.table[i] = d]
        BY DEF GoodDns, Resolver
      <4> QED BY <4>1, <4>2 DEF Retry
    <3> HIDE DEF n
    <3>4. d \in TableEntry /\ AsksNow(d) /\ d.req = e.req /\ d.name = e.name
      BY <3>1, <1>1, <2>2 DEF TableEntry, AsksNow
    <3> HIDE DEF d
    <3>5. GoodDns([t EXCEPT !.table[i] = d])
      BY <3>4, <2>5
    <3> QED BY <3>2, <3>5, <2>1, DnsSendGood
  <2>c. CASE e.tmr - 1 = 0 /\ e.retries + 1 = DNS_MAX_RETRIES /\ e.numdns + 1 < SERVERS
    <3> DEFINE n == e.numdns + 1
               d == [e EXCEPT !.numdns = n, !.tmr = 1, !.retries = 0]
    <3>1. n \in Nat /\ n < SERVERS /\ 1 \in 1..DNS_MAX_RETRIES /\ 0 < DNS_MAX_RETRIES
      BY <2>2, <2>c, DnsSizes
    <3>2. CheckAsking(1, 0, t, i, rnd) = [t EXCEPT !.table[i] = d]
      BY <2>c DEF CheckAsking, GoodDns, Resolver
    <3> HIDE DEF n
    <3>4. d \in TableEntry /\ AsksNow(d) /\ d.req = e.req /\ d.name = e.name
      BY <3>1, <1>1, <2>2 DEF TableEntry, AsksNow
    <3> HIDE DEF d
    <3> QED BY <3>2, <3>4, <2>1, <2>5
  <2>d. CASE e.tmr - 1 = 0 /\ e.retries + 1 = DNS_MAX_RETRIES /\ ~(e.numdns + 1 < SERVERS)
    <3> DEFINE u == Flush(CallFound(t, i, "NULL"), i)
               r == e.req
    <3>1. CheckAsking(1, 0, t, i, rnd) = u
      BY <2>d DEF CheckAsking
    <3>2. r \in Req /\ r # 0
      BY <1>1, <2>2, DnsSizes DEF Consistent, AsksFor
    <3>3. u = [[t EXCEPT !.reqs[r] = Notified(@, "NULL")] EXCEPT !.table[i] = Unused]
      BY <3>2 DEF Flush, CallFound
    <3>4. /\ DOMAIN u = DOMAIN t /\ u = [k \in DOMAIN t |-> u[k]]
          /\ u.net = t.net /\ u.lost = t.lost /\ u.reenter = t.reenter
          /\ u.seqno = t.seqno /\ u.random = t.random
          /\ u.table = [t.table EXCEPT ![i] = Unused]
          /\ u.reqs = [t.reqs EXCEPT ![r] = Notified(@, "NULL")]
      <4> HIDE DEF u
      <4>0. t \in Resolver
        BY DEF GoodDns
      <4>1. /\ DOMAIN u = DOMAIN t /\ u = [k \in DOMAIN t |-> u[k]]
        BY <4>0, <3>3 DEF Resolver
      <4>2. /\ u.net = t.net /\ u.lost = t.lost /\ u.reenter = t.reenter
            /\ u.seqno = t.seqno /\ u.random = t.random
        BY <4>0, <3>3 DEF Resolver
      <4>3. u.table = [t.table EXCEPT ![i] = Unused]
        BY <4>0, <3>3 DEF Resolver
      <4>4. u.reqs = [t.reqs EXCEPT ![r] = Notified(@, "NULL")]
        BY <4>0, <3>2, <3>3 DEF Resolver
      <4> QED BY <4>1, <4>2, <4>3, <4>4
    <3>5. GoodDns(u)
      <4> HIDE DEF u
      <4>1. "NULL" \in Name \union {"NULL"} /\ "NULL" \notin Name
        BY DnsSizes
      <4> QED BY <4>1, <3>4, <2>2, UnusedIs, CallGood
    <3> QED BY <3>1, <3>5, <2>1
  <2> QED BY <2>a, <2>b, <2>c, <2>d
<1> QED BY <1>1, <1>2, <1>3, <1>4

(* A free entry, if there is one, is not asking.                           *)
LEMMA FreeIs ==
  ASSUME NEW t, GoodDns(t), FreeEntry(t) # {}
  PROVE  \E i \in Slots : ~AsksNow(t.table[i]) /\ FreeEntry(t) = {i}
<1> DEFINE unused == {i \in Slots : t.table[i].state = "UNUSED"}
           aged   == {i \in Slots : t.table[i].state \in {"DONE"} /\ Age(t, i) > 0}
           oldest == {i \in aged : \A j \in aged : Age(t, j) <= Age(t, i)}
           lseqi  == IF aged = {} THEN 0 ELSE Min(oldest)
<1>1. FreeEntry(t) = IF unused # {} THEN {Min(unused)}
                     ELSE IF t.table[lseqi].state \in {"DONE"} THEN {lseqi} ELSE {}
  BY DEF FreeEntry, Slot
<1>2. ASSUME NEW S, S \subseteq Slots, S # {}
      PROVE  Min(S) \in S
  <2>1. S \subseteq Nat
    BY <1>2, DnsSizes
  <2>2. PICK m \in S : \A x \in S : m <= x
    BY <1>2, <2>1, LeastNumber
  <2> QED BY <2>2 DEF Min
<1>3. aged # {} => oldest # {}
  <2> SUFFICES ASSUME aged # {} PROVE oldest # {}
    OBVIOUS
  <2> DEFINE Left == {SEQ - Age(t, i) : i \in aged}
  <2>1. \A i \in Slots : Age(t, i) \in Int /\ SEQ - Age(t, i) \in Nat
    <3> SUFFICES ASSUME NEW i \in Slots
                 PROVE  Age(t, i) \in Int /\ SEQ - Age(t, i) \in Nat
      OBVIOUS
    <3>1. t.seqno \in 0..SEQ-1 /\ t.table[i].seqno \in 0..SEQ-1
      BY EntryIs DEF GoodDns, Resolver, TableEntry
    <3>2. SEQ \in Nat
      BY DnsSizes
    <3> QED BY <3>1, <3>2 DEF Age
  <2>2. Left \subseteq Nat /\ Left # {}
    BY <2>1
  <2>3. PICK m \in Left : \A x \in Left : m <= x
    BY <2>2, LeastNumber
  <2>4. PICK i \in aged : m = SEQ - Age(t, i)
    BY <2>3
  <2>5. ASSUME NEW j \in aged PROVE Age(t, j) <= Age(t, i)
    <3>1. SEQ - Age(t, i) <= SEQ - Age(t, j)
      BY <2>3, <2>4
    <3>2. Age(t, i) \in Int /\ Age(t, j) \in Int /\ SEQ \in Int
      BY <2>1, DnsSizes
    <3> QED BY <3>1, <3>2
  <2> QED BY <2>5
<1>4. lseqi \in Slots
  BY <1>2, <1>3, DnsSizes
<1>5. CASE unused # {}
  <2>1. Min(unused) \in unused
    BY <1>5, <1>2
  <2> QED BY <2>1, <1>5, <1>1 DEF AsksNow
<1>6. CASE unused = {}
  <2> HIDE DEF lseqi, unused
  <2> QED BY <1>6, <1>1, <1>4 DEF AsksNow
<1> QED BY <1>5, <1>6

LEMMA EnqueueGood ==
  ASSUME NEW t, GoodDns(t), NEW r \in Req, t.reqs[r].res = "idle",
         NEW n \in Name, NEW rnd \in Random
  PROVE  LET u == dns_enqueue(t, r, n, rnd)
         IN  GoodDns(u) /\ u.reenter = t.reenter
<1>1. /\ t \in Resolver /\ t.reqs[r] \in NameReq /\ t.reqs[r].calls \in Nat
      /\ t.reqs \in [Req -> NameReq] /\ t.table \in [Slots -> TableEntry]
      /\ Consistent(t.table, t.reqs, t.lost)
  BY DEF GoodDns, Resolver, NameReq
<1>w. ASSUME NEW res \in Result
      PROVE  Wants(t.reqs[r], n, res) \in NameReq
  BY <1>1 DEF Wants, NameReq
<1>2. CASE FreeEntry(t) = {}
  <2> DEFINE q == Wants(t.reqs[r], n, "ERR_MEM")
             u == [t EXCEPT !.reqs[r] = q]
  <2>1. dns_enqueue(t, r, n, rnd) = u
    BY <1>2 DEF dns_enqueue
  <2>2. q \in NameReq /\ q.res = "ERR_MEM" /\ q.calls = t.reqs[r].calls
    BY <1>w DEF Wants, Result
  <2> HIDE DEF q
  <2>3. /\ u \in Resolver /\ u.net = t.net /\ u.lost = t.lost /\ u.reenter = t.reenter
        /\ u.table = t.table /\ u.reqs = [t.reqs EXCEPT ![r] = q]
    BY <1>1, <2>2 DEF Resolver
  <2>4. Consistent(u.table, u.reqs, u.lost)
    BY <1>1, <2>2, <2>3, Refused1
  <2> HIDE DEF u
  <2> QED BY <2>1, <2>3, <2>4 DEF GoodDns, Bounded
<1>3. CASE FreeEntry(t) # {}
  <2>1. PICK i \in Slots : ~AsksNow(t.table[i]) /\ FreeEntry(t) = {i}
    BY <1>3, FreeIs
  <2> DEFINE q == Wants(t.reqs[r], n, "waiting")
             o == t.table[i]
             d == [o EXCEPT !.state = "NEW", !.seqno = t.seqno, !.req = r, !.name = n]
             e == [d EXCEPT !.state = "ASKING", !.numdns = 0, !.tmr = 1, !.retries = 0]
             f == Enqueued(t, i, r, n)
             g == [f EXCEPT !.table[i].state = "ASKING", !.table[i].numdns = 0,
                            !.table[i].tmr = 1, !.table[i].retries = 0]
  <2>2. dns_enqueue(t, r, n, rnd) = dns_check_entry(f, i, rnd)
    BY <1>3, <2>1 DEF dns_enqueue
  <2>3. f = [t EXCEPT !.table[i] = d, !.seqno = (@ + 1) % SEQ, !.reqs[r] = q]
    BY DEF Enqueued
  <2>4. /\ o \in TableEntry /\ t.table \in [Slots -> TableEntry]
    BY EntryIs
  <2>5. f.table[i] = d /\ d.state = "NEW"
    <3>1. d.state = "NEW"
      BY <2>4 DEF TableEntry
    <3>2. f.table[i] = d
      <4> HIDE DEF d, f, q
      <4> QED BY <1>1, <2>3 DEF Resolver
    <3> QED BY <3>1, <3>2
  <2>6. dns_check_entry(f, i, rnd) = dns_send(g, i, rnd)
    <3> HIDE DEF d, f
    <3> QED BY <2>5 DEF dns_check_entry, CheckFrom, CheckNew
  <2>7. /\ e \in TableEntry /\ AsksNow(e) /\ e.req = r /\ e.name = n
    <3>1. t.seqno \in 0..SEQ-1 /\ r \in Nat /\ 0 < SERVERS /\ 0 < DNS_MAX_RETRIES
          /\ 1 \in 1..DNS_MAX_RETRIES
      BY <1>1, DnsSizes DEF Resolver
    <3> QED BY <2>4, <3>1 DEF TableEntry, AsksNow
  <2>8. q \in NameReq /\ q.res = "waiting" /\ q.calls = t.reqs[r].calls /\ q.name = n
    BY <1>w DEF Wants, Result
  <2>9. (t.seqno + 1) % SEQ \in 0..SEQ-1
    <3>1. t.seqno \in Nat /\ SEQ \in Nat /\ SEQ > 0
      BY <1>1, DnsSizes DEF Resolver
    <3> QED BY <3>1
  <2>10. /\ g.net = t.net /\ g.lost = t.lost /\ g.reenter = t.reenter
         /\ g.reqs = [t.reqs EXCEPT ![r] = q]
         /\ g.table = [t.table EXCEPT ![i] = e]
         /\ g \in Resolver
    <3> HIDE DEF q
    <3>1. /\ f.net = t.net /\ f.lost = t.lost /\ f.reenter = t.reenter /\ f.random = t.random
          /\ f.reqs = [t.reqs EXCEPT ![r] = q] /\ f.seqno = (t.seqno + 1) % SEQ
          /\ f.table = [t.table EXCEPT ![i] = d]
          /\ f = [k \in DOMAIN t |-> f[k]]
      <4> HIDE DEF d, f
      <4> QED BY <1>1, <2>3 DEF Resolver
    <3>2. g = [f EXCEPT !.table[i] = e]
      <4>1. DOMAIN f = DOMAIN t /\ "table" \in DOMAIN t
        BY <3>1, <1>1 DEF Resolver
      <4>2. i \in DOMAIN f.table /\ f.table[i] = d
        BY <3>1, <2>4
      <4> HIDE DEF f
      <4> QED BY <4>1, <4>2
    <3>3. g.table = [t.table EXCEPT ![i] = e]
      <4> HIDE DEF e, f
      <4>1. g.table = [f.table EXCEPT ![i] = e] /\ f.table = [t.table EXCEPT ![i] = d]
        BY <3>1, <3>2, <1>1 DEF Resolver
      <4> QED BY <4>1, <2>4
    <3> HIDE DEF e, f, g
    <3>4. /\ g.net = t.net /\ g.lost = t.lost /\ g.reenter = t.reenter
          /\ g.reqs = [t.reqs EXCEPT ![r] = q]
      BY <3>1, <3>2, <1>1 DEF Resolver
    <3>5. g \in Resolver
      BY <3>1, <3>2, <3>3, <3>4, <1>1, <2>7, <2>8, <2>9 DEF Resolver
    <3> QED BY <3>3, <3>4, <3>5
  <2> HIDE DEF e, g, q, f
  <2>11. Consistent(g.table, g.reqs, g.lost)
    BY <1>1, <2>1, <2>4, <2>7, <2>8, <2>10, Queued1
  <2>12. GoodDns(g)
    BY <2>10, <2>11 DEF GoodDns, Bounded
  <2> QED BY <2>2, <2>6, <2>10, <2>12, DnsSendGood
<1> QED BY <1>2, <1>3

-----------------------------------------------------------------------------
(* Induction over the numbers up to n, for a set.                          *)
LEMMA UpTo ==
  ASSUME NEW N \in Nat, NEW S, 0 \in S,
         \A n \in Nat : n < N /\ n \in S => n + 1 \in S
  PROVE  \A n \in 0..N : n \in S
<1> DEFINE D == {n \in 0..N : n \notin S}
<1> SUFFICES ASSUME D # {} PROVE FALSE
  OBVIOUS
<1>1. PICK m \in D : \A x \in D : m <= x
  <2>1. D \subseteq Nat
    OBVIOUS
  <2> HIDE DEF D
  <2> QED BY <2>1, LeastNumber
<1>2. m \in 0..N /\ m # 0 /\ m \notin S
  OBVIOUS
<1>3. m - 1 \in Nat /\ m - 1 < N /\ (m - 1) + 1 = m /\ m - 1 \in 0..N
  BY <1>2
<1>4. m - 1 \in S
  BY <1>1, <1>3
<1> QED BY <1>2, <1>3, <1>4

(* What dns_tmr makes of the table, entry by entry.                        *)
LEMMA CheckedIs ==
  ASSUME NEW rnd \in [Slots -> Random]
  PROVE  /\ Checked(rnd)[0] = dns
         /\ \A n \in Nat : n < DNS_TABLE_SIZE =>
              Checked(rnd)[n + 1] = dns_check_entry(Checked(rnd)[n], n, rnd[n])
<1> DEFINE N == DNS_TABLE_SIZE
           Step(g, k) == dns_check_entry(g[k - 1], k - 1, rnd[k - 1])
           Next1(g, n) == [k \in 0..n |-> IF k = 0 THEN dns ELSE Step(g, k)]
           S == {n \in 0..N : \E g : g = Next1(g, n)}
<1>0. N \in Nat /\ N > 0
  BY DnsSizes
<1>1. \E f : f = Next1(f, N)
  <2>1. 0 \in S
    <3> DEFINE g == [k \in 0..0 |-> dns]
    <3>1. g = Next1(g, 0)
      <4> HIDE DEF Step
      <4> QED OBVIOUS
    <3> HIDE DEF Next1
    <3> QED BY <3>1, <1>0
  <2>2. ASSUME NEW n \in Nat, n < N, n \in S
        PROVE  n + 1 \in S
    <3>1. PICK g : g = Next1(g, n)
      BY <2>2
    <3> DEFINE h == [k \in 0..(n + 1) |-> IF k <= n THEN g[k] ELSE Step(g, k)]
    <3>2. ASSUME NEW k \in 0..(n + 1)
          PROVE  h[k] = IF k = 0 THEN dns ELSE Step(h, k)
      <4>1. CASE k = 0
        <5>1. h[k] = g[0] /\ g[0] = dns
          <6> HIDE DEF Step
          <6> QED BY <4>1, <3>1, <2>2
        <5> QED BY <5>1, <4>1
      <4>2. CASE k # 0
        <5>1. k - 1 \in 0..(n + 1) /\ k - 1 <= n
          BY <4>2, <2>2
        <5>2. h[k - 1] = g[k - 1]
          <6> HIDE DEF Step
          <6> QED BY <5>1
        <5>3. h[k] = Step(g, k)
          <6> HIDE DEF Step
          <6>1. CASE k <= n
            <7>1. k \in 0..n
              BY <6>1, <2>2
            <7> QED BY <7>1, <6>1, <4>2, <3>1
          <6>2. CASE ~(k <= n)
            BY <6>2
          <6> QED BY <6>1, <6>2
        <5> HIDE DEF h
        <5> QED BY <5>2, <5>3, <4>2
      <4> QED BY <4>1, <4>2
    <3>3. h = Next1(h, n + 1)
      <4>1. h = [k \in 0..(n + 1) |-> h[k]]
        <5> HIDE DEF Step
        <5> QED OBVIOUS
      <4> HIDE DEF h, Step
      <4> QED BY <3>2, <4>1
    <3>4. n + 1 \in 0..N
      BY <2>2, <1>0
    <3> HIDE DEF Next1, h
    <3> QED BY <3>3, <3>4
  <2>3. N \in S
    <3> HIDE DEF S
    <3> QED BY <2>1, <2>2, <1>0, UpTo
  <2> QED BY <2>3
<1> DEFINE f == CHOOSE f : f = Next1(f, N)
<1>2. f = Next1(f, N)
  <2> HIDE DEF Next1
  <2> QED BY <1>1
<1>3. Checked(rnd) = f
  BY DEF Checked
<1> HIDE DEF f
<1>4. f[0] = dns
  <2> HIDE DEF Step
  <2> QED BY <1>2, <1>0
<1>5. ASSUME NEW n \in Nat, n < N
      PROVE  f[n + 1] = dns_check_entry(f[n], n, rnd[n])
  <2>1. n + 1 \in 0..N /\ n + 1 # 0 /\ (n + 1) - 1 = n
    BY <1>5, <1>0
  <2>2. f[n + 1] = Step(f, n + 1)
    <3> HIDE DEF Step
    <3> QED BY <2>1, <1>2
  <2> QED BY <2>1, <2>2
<1> QED BY <1>3, <1>4, <1>5

LEMMA TmrInv == DnsInv /\ dns_tmr => DnsInv'
<1> SUFFICES ASSUME DnsInv, NEW rnd \in [Slots -> Random],
                    dns' = Checked(rnd)[DNS_TABLE_SIZE]
             PROVE  DnsInv'
  BY DEF dns_tmr
<1> DEFINE f == Checked(rnd)
           S == {n \in Nat : GoodDns(f[n])}
<1>1. /\ f[0] = dns
      /\ \A n \in Nat : n < DNS_TABLE_SIZE =>
           f[n + 1] = dns_check_entry(f[n], n, rnd[n])
  BY CheckedIs
<1> HIDE DEF f
<1>2. 0 \in S
  BY <1>1 DEF DnsInv
<1>3. ASSUME NEW n \in Nat, n < DNS_TABLE_SIZE, n \in S
      PROVE  n + 1 \in S
  <2>1. n \in Slots
    BY <1>3, DnsSizes DEF Slots
  <2>2. GoodDns(dns_check_entry(f[n], n, rnd[n]))
    BY <1>3, <2>1, CheckGood
  <2> QED BY <2>2, <1>1, <1>3
<1>4. DNS_TABLE_SIZE \in S
  <2>1. DNS_TABLE_SIZE \in Nat /\ DNS_TABLE_SIZE \in 0..DNS_TABLE_SIZE
    BY DnsSizes
  <2> HIDE DEF S
  <2> QED BY <1>2, <1>3, <2>1, UpTo
<1> QED BY <1>4 DEF DnsInv, f

-----------------------------------------------------------------------------
LEMMA InitDnsInv == DnsInit => DnsInv
<1> SUFFICES ASSUME DnsInit PROVE DnsInv
  OBVIOUS
<1>1. PICK again \in BOOLEAN :
        dns = [table  |-> [i \in Slots |-> Unused], seqno |-> START,
               random |-> CHOOSE r \in Random : TRUE, net |-> {},
               reqs   |-> [r \in Req |-> [name |-> CHOOSE n \in Name : TRUE,
                                          res |-> "idle", calls |-> 0]],
               reenter |-> again, lost |-> {}]
  BY DEF DnsInit
<1>2. (CHOOSE r \in Random : TRUE) \in Random /\ (CHOOSE n \in Name : TRUE) \in Name
  BY DnsSizes
<1> DEFINE q == [name |-> CHOOSE n \in Name : TRUE, res |-> "idle", calls |-> 0]
<1>3. q \in NameReq /\ GoodReq(q) /\ q.res = "idle"
  BY <1>2, DnsSizes DEF NameReq, Result, GoodReq
<1> HIDE DEF q
<1>4. dns \in Resolver
  BY <1>1, <1>2, <1>3, UnusedIs, DnsSizes DEF Resolver, q
<1>5. Bounded(dns)
  <2>1. dns.net = {}
    BY <1>1
  <2>2. IsFiniteSet({}) /\ Cardinality({}) = 0
    BY FS_EmptySet
  <2>3. 0 <= ASKED
    BY DnsSizes
  <2> QED BY <2>1, <2>2, <2>3 DEF Bounded
<1>6. \A i \in Slots : ~AsksNow(dns.table[i])
  <2>1. dns.table = [i \in Slots |-> Unused]
    BY <1>1
  <2> QED BY <2>1, UnusedIs
<1>7. \A r \in Req : dns.reqs[r] = q
  BY <1>1 DEF q
<1>8. Consistent(dns.table, dns.reqs, dns.lost)
  BY <1>3, <1>6, <1>7 DEF Consistent, AsksFor, AskOnce, AskedFor
<1> QED BY <1>1, <1>4, <1>5, <1>8 DEF DnsInv, GoodDns

LEMMA GethostbynameInv == DnsInv /\ dns_gethostbyname => DnsInv'
<1> SUFFICES ASSUME DnsInv, NEW r \in NextReq, NEW n \in Name, NEW rnd \in Random,
                    dns' = dns_enqueue(dns, r, n, rnd)
             PROVE  DnsInv'
  BY DEF dns_gethostbyname
<1>1. r \in Req /\ dns.reqs[r].res = "idle"
  BY DEF NextReq
<1> QED BY <1>1, EnqueueGood DEF DnsInv

(* A received answer may be taken out of the network or come again.        *)
LEMMA ReceivedInv ==
  ASSUME NEW t, GoodDns(t), NEW m, Received(t, m)
  PROVE  DnsInv'
<1>1. CASE dns' = t
  BY <1>1 DEF DnsInv
<1>2. CASE dns' = [t EXCEPT !.net = @ \ {m}]
  <2> DEFINE n == t.net \ {m}
  <2>1. t \in Resolver /\ IsFiniteSet(t.net) /\ Cardinality(t.net) <= ASKED
    BY DEF GoodDns, Bounded
  <2>2. IsFiniteSet(n) /\ Cardinality(n) <= ASKED /\ n \in SUBSET NameQuery
    <3>1. n \in SUBSET t.net /\ Cardinality(t.net) \in Nat
      BY <2>1, FS_CardinalityType
    <3>2. IsFiniteSet(n) /\ Cardinality(n) <= Cardinality(t.net)
      BY <2>1, <3>1, FS_Subset
    <3>3. Cardinality(n) \in Nat /\ ASKED \in Nat
      BY <3>2, FS_CardinalityType, DnsSizes
    <3>4. Cardinality(n) <= ASKED
      BY <2>1, <3>1, <3>2, <3>3
    <3> QED BY <2>1, <3>1, <3>2, <3>4 DEF Resolver
  <2> HIDE DEF n
  <2>3. /\ dns' \in Resolver /\ dns'.net = n /\ dns'.table = t.table /\ dns'.reqs = t.reqs
        /\ dns'.lost = t.lost /\ dns'.reenter = t.reenter
    BY <1>2, <2>1, <2>2 DEF Resolver, n
  <2> QED BY <2>2, <2>3 DEF DnsInv, GoodDns, Bounded
<1> QED BY <1>1, <1>2 DEF Received

LEMMA ClosedGood ==
  ASSUME NEW t, GoodDns(t), NEW i \in Slots, NEW res,
         AsksNow(t.table[i]) => t.reenter
  PROVE  GoodDns(Closed(t, i, res))
<1>1. CASE res # "NULL" /\ t.table[i].ttl # 0
  BY <1>1 DEF Closed
<1>2. CASE ~(res # "NULL" /\ t.table[i].ttl # 0) /\ ~AsksNow(t.table[i])
  <2>1. Closed(t, i, res) = [Flush(t, i) EXCEPT !.lost = @]
    BY <1>2 DEF Closed, AsksNow
  <2>2. [Flush(t, i) EXCEPT !.lost = @] = Flush(t, i)
    BY DEF GoodDns, Resolver, Flush
  <2> QED BY <2>1, <2>2, <1>2, FlushGood
<1>3. CASE ~(res # "NULL" /\ t.table[i].ttl # 0) /\ AsksNow(t.table[i])
  <2> DEFINE l == t.lost \union {t.table[i].req}
             u == [[t EXCEPT !.table[i] = Unused] EXCEPT !.lost = l]
  <2>1. Closed(t, i, res) = u
    <3>1. Flush(t, i).lost = t.lost
      BY DEF Flush, GoodDns, Resolver
    <3> QED BY <1>3, <3>1 DEF Closed, AsksNow, Flush
  <2>2. t.table[i].req \in Req
    BY <1>3, EntryIs DEF Consistent, AsksFor
  <2>3. t \in Resolver /\ l \subseteq Req
    BY <2>2 DEF GoodDns, Resolver
  <2> HIDE DEF l
  <2>4. /\ u \in Resolver /\ u.net = t.net /\ u.reqs = t.reqs /\ u.lost = l
        /\ u.reenter = t.reenter /\ u.table = [t.table EXCEPT ![i] = Unused]
    BY <2>3, UnusedIs DEF Resolver
  <2>5. Consistent(u.table, u.reqs, u.lost)
    BY <2>4, EntryIs, UnusedIs, Loses DEF l
  <2> HIDE DEF u
  <2> QED BY <2>1, <2>4, <2>5, <1>3 DEF GoodDns, Bounded
<1> QED BY <1>1, <1>2, <1>3

LEMMA RecvInv ==
  ASSUME DnsInv, NEW m \in dns.net, NEW kind \in Kind, NEW ttl \in Ttl,
         dns_recv(m, kind, ttl)
  PROVE  DnsInv'
<1> DEFINE i == AnswerEntry(m)
           res == IF kind = "address" /\ Same(m) THEN m.name ELSE "NULL"
           t == Called(i, res, ttl)
<1>0. GoodDns(dns) /\ dns \in Resolver
  BY DEF DnsInv, GoodDns
<1>1. dns_recv_in(m, kind, ttl, res)
  BY DEF dns_recv
<1>2. CASE i \notin Slots \/ kind = "error"
  BY <1>0, <1>1, <1>2, ReceivedInv DEF dns_recv_in
<1>3. CASE ~(i \notin Slots \/ kind = "error") /\ ~AsksNow(dns.table[i])
  BY <1>0, <1>1, <1>3, ReceivedInv DEF dns_recv_in, AsksNow
<1>4. CASE ~(i \notin Slots \/ kind = "error") /\ AsksNow(dns.table[i])
  <2>1. i \in Slots
    BY <1>4
  <2>2. \/ Received(Closed(t, i, res), m)
        \/ /\ dns.reenter
           /\ \E r \in NextReq, n \in Name, rnd \in Random :
                Received(Closed(dns_enqueue(t, r, n, rnd), i, res), m)
    <3> HIDE DEF res
    <3> QED BY <1>1, <1>4 DEF dns_recv_in, AsksNow
  <2>3. res \in Name \union {"NULL"} /\ (res \in Name => res = dns.table[i].name)
    <3>1. m.name \in Name
      BY <1>0 DEF Resolver, NameQuery
    <3>2. "NULL" \notin Name
      BY DnsSizes
    <3> HIDE DEF i
    <3> QED BY <3>1, <3>2 DEF Same, i
  <2> HIDE DEF i, res
  <2>4. GoodDns(t) /\ ~AsksNow(t.table[i]) /\ t.reenter = dns.reenter
        /\ \A r \in Req : dns.reqs[r].res = "idle" => t.reqs[r].res = "idle"
    <3> DEFINE o == dns.table[i]
               d == [o EXCEPT !.state = "DONE", !.ttl = IF res = "NULL" THEN @ ELSE ttl]
               c == [dns EXCEPT !.table[i] = d]
               r == o.req
    <3>1. o \in TableEntry /\ r \in Req /\ dns.reqs[r].res = "waiting"
      BY <1>0, <1>4, <2>1, EntryIs DEF Consistent, AsksFor
    <3>2. ttl \in Nat
      BY DnsSizes
    <3>3. d \in TableEntry /\ ~AsksNow(d) /\ d.req = r
      BY <3>1, <3>2 DEF TableEntry, AsksNow
    <3>4. [dns EXCEPT !.table[i].state = "DONE",
                      !.table[i].ttl = IF res = "NULL" THEN @ ELSE ttl] = c
      BY <1>0, <2>1 DEF Resolver
    <3> HIDE DEF d
    <3>5. c.table[i].req = r
      BY <1>0, <2>1, <3>3 DEF Resolver
    <3>6. t = [c EXCEPT !.reqs[r] = Notified(@, res)]
      <4>1. r # 0
        BY <3>1, DnsSizes
      <4> HIDE DEF c, r
      <4> QED BY <3>4, <3>5, <4>1 DEF Called, CallFound
    <3>7. /\ DOMAIN t = DOMAIN dns /\ t = [k \in DOMAIN dns |-> t[k]]
          /\ t.net = dns.net /\ t.lost = dns.lost /\ t.reenter = dns.reenter
          /\ t.seqno = dns.seqno /\ t.random = dns.random
      <4> HIDE DEF t
      <4> QED BY <1>0, <3>6 DEF Resolver
    <3>8. t.table = [dns.table EXCEPT ![i] = d]
      <4> HIDE DEF t
      <4> QED BY <1>0, <3>6 DEF Resolver
    <3>9. t.reqs = [dns.reqs EXCEPT ![r] = Notified(@, res)]
      <4> HIDE DEF t
      <4> QED BY <1>0, <3>1, <3>6 DEF Resolver
    <3> HIDE DEF t
    <3>10. GoodDns(t)
      BY <1>0, <1>4, <2>1, <2>3, <3>3, <3>7, <3>8, <3>9, CallGood
    <3>11. ~AsksNow(t.table[i])
      BY <1>0, <2>1, <3>3, <3>8 DEF Resolver
    <3>12. \A x \in Req : dns.reqs[x].res = "idle" => t.reqs[x].res = "idle"
      BY <1>0, <3>1, <3>9 DEF Resolver
    <3> QED BY <3>7, <3>10, <3>11, <3>12
  <2> HIDE DEF t
  <2>5. CASE Received(Closed(t, i, res), m)
    BY <2>1, <2>4, <2>5, ClosedGood, ReceivedInv
  <2>6. CASE /\ dns.reenter
             /\ \E r \in NextReq, n \in Name, rnd \in Random :
                  Received(Closed(dns_enqueue(t, r, n, rnd), i, res), m)
    <3>1. PICK r \in NextReq, n \in Name, rnd \in Random :
            Received(Closed(dns_enqueue(t, r, n, rnd), i, res), m)
      BY <2>6
    <3>2. r \in Req /\ t.reqs[r].res = "idle"
      BY <2>4 DEF NextReq
    <3>3. GoodDns(dns_enqueue(t, r, n, rnd)) /\ dns_enqueue(t, r, n, rnd).reenter
      BY <2>4, <2>6, <3>2, EnqueueGood
    <3> QED BY <2>1, <3>1, <3>3, ClosedGood, ReceivedInv
  <2> QED BY <2>2, <2>5, <2>6
<1> QED BY <1>2, <1>3, <1>4

LEMMA NextDnsInv == DnsInv /\ [DnsNext]_dns => DnsInv'
<1> SUFFICES ASSUME DnsInv, [DnsNext]_dns PROVE DnsInv'
  OBVIOUS
<1>1. CASE dns_tmr
  BY <1>1, TmrInv
<1>2. CASE dns_gethostbyname
  BY <1>2, GethostbynameInv
<1>3. CASE \E m \in dns.net, kind \in Kind, ttl \in Ttl : dns_recv(m, kind, ttl)
  BY <1>3, RecvInv
<1>4. CASE UNCHANGED dns
  BY <1>4 DEF DnsInv
<1> QED BY <1>1, <1>2, <1>3, <1>4 DEF DnsNext

(* DnsInv is an invariant, whatever dns_tmr, requests and answers do to    *)
(* the table.                                                              *)
THEOREM DnsInvariance == DnsSpec => []DnsInv
  BY InitDnsInv, NextDnsInv, PTL DEF DnsSpec

(* DnsSound: a request is called back at most once and with an address of  *)
(* its own name, and every one that waits has exactly one entry of the     *)
(* table asking for it, unless a callback that asks had its entry flushed. *)
THEOREM DnsCorrect == DnsSpec => []DnsSound
<1>1. DnsInv => DnsSound
  <2> SUFFICES ASSUME DnsInv PROVE DnsSound
    OBVIOUS
  <2>0. /\ dns \in Resolver /\ Bounded(dns) /\ Consistent(dns.table, dns.reqs, dns.lost)
        /\ ~dns.reenter => dns.lost = {}
    BY DEF DnsInv, GoodDns
  <2>1. DnsTypeOK
    <3>1. dns.seqno \in 0..SEQ-1 /\ dns.random \in Random /\ Cardinality(dns.net) <= ASKED
      BY <2>0 DEF Resolver, Bounded
    <3>2. \A i \in Slots : dns.table[i] \in TableEntry
      BY <2>0 DEF Resolver
    <3> QED BY <3>1, <3>2 DEF DnsTypeOK, TableEntry, AsksNow
  <2>2. RightAnswer
    BY <2>0 DEF RightAnswer, Consistent, GoodReq
  <2>3. Tracked
    <3> SUFFICES ASSUME NEW r \in Req \ dns.lost, dns.reqs[r].res = "waiting"
                 PROVE  LET mine == {i \in Slots : dns.table[i].req = r
                                                   /\ dns.table[i].state = "ASKING"}
                        IN  /\ Cardinality(mine) = 1
                            /\ \A i \in mine : dns.table[i].name = dns.reqs[r].name
      BY DEF Tracked
    <3> DEFINE mine == {i \in Slots : dns.table[i].req = r /\ dns.table[i].state = "ASKING"}
    <3>1. PICK i \in Slots : AsksNow(dns.table[i]) /\ dns.table[i].req = r
      BY <2>0 DEF Consistent, AskedFor
    <3>2. mine = {i}
      BY <2>0, <3>1 DEF Consistent, AskOnce, AsksNow
    <3>3. Cardinality({i}) = 1
      BY FS_Singleton
    <3>4. \A j \in mine : dns.table[j].name = dns.reqs[r].name
      BY <2>0 DEF Consistent, AsksFor, AsksNow
    <3> QED BY <3>2, <3>3, <3>4
  <2>4. LostInCallback
    BY <2>0 DEF LostInCallback
  <2> QED BY <2>1, <2>2, <2>3, <2>4 DEF DnsSound
<1> QED BY <1>1, DnsInvariance, PTL
=============================================================================
