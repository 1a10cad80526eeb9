-------------------------------- MODULE Igmp --------------------------------
(***************************************************************************)
(* Group membership on the interfaces of lwIP, igmp.c: joins and leaves of *)
(* applications, queries of routers and reports of other members, and the  *)
(* delayed reports of this host.                                           *)
(***************************************************************************)
EXTENDS Naturals, FiniteSets, SequencesExt

CONSTANTS Netif,       \* a sequence: netif_list, of which none is in it twice
          Group,       \* multicast addresses, allsystems among them
          JOIN_TMR, V1_TMR,  \* IGMP_JOIN_DELAYING_MEMBER_TMR, IGMP_V1_...
          MaxResp,     \* igmp_maxresp of queries
          IGMP_NOMEM,  \* allocations may fail
          USES         \* bound: uses of a group on an interface

allsystems == "allsystems"

ASSUME IgmpAssumption ==
  /\ allsystems \in Group /\ {JOIN_TMR, V1_TMR, USES} \subseteq Nat \ {0}
  /\ MaxResp \subseteq Nat /\ IGMP_NOMEM \in BOOLEAN
  /\ \A i, j \in DOMAIN Netif : Netif[i] = Netif[j] => i = j

Net   == ToSet(Netif)
Pairs == Net \X Group
ANY   == "any"

(* igmp: on, the interfaces with IGMP started; group, the igmp_group_list as  *)
(* a function; filter, the groups open at the MAC level. For the           *)
(* properties there is held, per group the joins that returned ERR_OK and  *)
(* were not followed by a leave, and a group has due, within how many      *)
(* ticks a report is owed (0 for none), and rep, who sent the last report  *)
(* on the link.                                                            *)
VARIABLE igmp

Absent == [state |-> "ABSENT", timer |-> 0, use |-> 0, flag |-> FALSE,
           due |-> 0, rep |-> "none"]
New == [Absent EXCEPT !.state = "NON_MEMBER"]

IgmpInit == igmp = [on |-> {}, group |-> [k \in Pairs |-> Absent], filter |-> {},
                    held |-> [k \in Pairs |-> 0]]

Present(t, k) == t.group[k].state # "ABSENT"
May(ok) == ok \/ IGMP_NOMEM
Smaller(a, b) == IF a = 0 \/ b < a THEN b ELSE a

-----------------------------------------------------------------------------
(* igmp_start_timer and igmp_delaying_member, with LWIP_RAND to be chosen. *)
(* The mutants always start the timer, or never while it runs.             *)
Times(max) == IF max <= 1 THEN {1} ELSE 1..max-1

Delaying(Restart(_, _), e, max, rnd) ==
  LET due == [e EXCEPT !.due = Smaller(@, IF max = 0 THEN 1 ELSE max)]
  IN  IF e.state = "IDLE" \/ (e.state = "DELAYING" /\ (e.timer = 0 \/ Restart(e, max)))
        THEN [due EXCEPT !.timer = rnd, !.state = "DELAYING"]
        ELSE due
igmp_delaying_member_always(e, max, rnd) == Delaying(LAMBDA g, m : TRUE, e, max, rnd)
igmp_delaying_member_once(e, max, rnd) == Delaying(LAMBDA g, m : FALSE, e, max, rnd)
igmp_delaying_member(e, max, rnd) == Delaying(LAMBDA g, m : m < g.timer, e, max, rnd)

(* igmp_send of a report *)
Report(e, ok) == IF ok THEN [e EXCEPT !.flag = TRUE, !.rep = "us"] ELSE e

(* igmp_tmr with igmp_timeout: the state stays DELAYING.  The mutant goes  *)
(* to IDLE, as the state diagram of IGMP has it.                           *)
TimeoutTo(state, e, ok) ==
  [(IF e.state = "DELAYING" THEN Report(e, ok) ELSE e) EXCEPT !.due = 0, !.state = state]
igmp_timeout_idle(e, ok) == TimeoutTo("IDLE", e, ok)
igmp_timeout(e, ok) == TimeoutTo(e.state, e, ok)

Ticked(e, ok) ==
  LET d == [e EXCEPT !.timer = @ - 1, !.due = IF @ > 0 THEN @ - 1 ELSE 0]
  IN  IF e.timer = 0 THEN e ELSE IF d.timer = 0 THEN igmp_timeout(d, ok) ELSE d

igmp_tmr == \E failed \in SUBSET Pairs :
  /\ failed # {} => IGMP_NOMEM
  /\ igmp' = [igmp EXCEPT !.group = [k \in Pairs |-> Ticked(@[k], k \notin failed)]]

-----------------------------------------------------------------------------
(* igmp_start, when an interface is added; igmp_stop, when it is removed;  *)
(* igmp_report_groups, when it comes up.                                   *)
igmp_start(n) == \E ok \in BOOLEAN :
  /\ May(ok) /\ n \notin igmp.on
  /\ igmp' = [igmp EXCEPT
       !.on = @ \union {n},
       !.group[<<n, allsystems>>] = IF ok THEN [New EXCEPT !.state = "IDLE", !.use = 1] ELSE @,
       !.filter = IF ok THEN @ \union {<<n, allsystems>>} ELSE @]

igmp_stop(n) ==
  /\ n \in igmp.on
  /\ igmp' = [on     |-> igmp.on \ {n},
              group  |-> [k \in Pairs |-> IF k[1] = n THEN Absent ELSE igmp.group[k]],
              filter |-> {k \in igmp.filter : k[1] # n},
              held   |-> [k \in Pairs |-> IF k[1] = n THEN 0 ELSE igmp.held[k]]]

DelayAll(ks, max) ==
  \E rnd \in [ks -> Times(max)] :
    igmp' = [igmp EXCEPT !.group = [k \in Pairs |->
               IF k \in ks THEN igmp_delaying_member(@[k], max, rnd[k]) ELSE @[k]]]

On(n) == {k \in Pairs : k[1] = n /\ Present(igmp, k)}

igmp_report_groups(n) == n \in igmp.on /\ DelayAll(On(n), JOIN_TMR)

-----------------------------------------------------------------------------
(* igmp_input on interface n.  A general query is about all groups but     *)
(* allsystems; a query for g may be sent to g or to allsystems.  The       *)
(* report of another member counts while this one is delaying.             *)
Query(n, max) ==
  /\ Present(igmp, <<n, allsystems>>)
  /\ DelayAll(On(n) \ {<<n, allsystems>>}, IF max = 0 THEN V1_TMR ELSE max)

QueryGroup(n, g, max) == Present(igmp, <<n, g>>) /\ DelayAll({<<n, g>>}, max)

Reported(e) ==
  IF e.state = "DELAYING"
    THEN [e EXCEPT !.timer = 0, !.state = "IDLE", !.flag = FALSE, !.due = 0, !.rep = "other"]
    ELSE [e EXCEPT !.rep = "other"]

MembReport(n, g) ==
  /\ Present(igmp, <<n, g>>)
  /\ igmp' = [igmp EXCEPT !.group[<<n, g>>] = Reported(@)]

-----------------------------------------------------------------------------
(* igmp_joingroup of an interface or of any.  The first allocation that    *)
(* fails, at interface f, ends the loop; what was joined before stays.     *)
Chosen(to) == {i \in DOMAIN Netif : Netif[i] \in igmp.on /\ to \in {ANY, Netif[i]}}
At(is, g) == {<<Netif[i], g>> : i \in is}

Join1(e, rnd, sent) ==
  IF e.state # "ABSENT" THEN [e EXCEPT !.use = @ + 1]
  ELSE [Report(New, sent) EXCEPT !.timer = rnd, !.state = "DELAYING", !.due = JOIN_TMR, !.use = 1]

Join(ks, granted) ==
  \E rnd \in [ks -> Times(JOIN_TMR)], unsent \in SUBSET ks :
    /\ unsent # {} => IGMP_NOMEM
    /\ igmp' = [igmp EXCEPT
         !.group  = [k \in Pairs |-> IF k \in ks THEN Join1(@[k], rnd[k], k \notin unsent) ELSE @[k]],
         !.filter = @ \union {k \in ks : ~Present(igmp, k)},
         !.held   = [k \in Pairs |-> IF k \in granted THEN @[k] + 1 ELSE @[k]]]

igmp_joingroup(to, g) ==
  /\ \A k \in At(Chosen(to), g) : igmp.group[k].use < USES
  /\ \/ Join(At(Chosen(to), g), At(Chosen(to), g))
     \/ \E f \in Chosen(to) :
          /\ IGMP_NOMEM /\ ~Present(igmp, <<Netif[f], g>>)
          /\ Join(At({i \in Chosen(to) : i < f}, g), {})

(* igmp_leavegroup, by a caller that has joined.  The mutants remove a     *)
(* group that is still used, and keep one that is not.                     *)
LeaveAt(last, e) ==
  IF e.state = "ABSENT" THEN e
  ELSE IF e.use <= last THEN Absent
  ELSE [e EXCEPT !.use = @ - 1]
Leave1_early(e) == LeaveAt(2, e)
Leave1_late(e) == LeaveAt(0, e)
Leave1(e) == LeaveAt(1, e)

igmp_leavegroup(to, g) ==
  LET ks == At(Chosen(to), g)
      group == [k \in Pairs |-> IF k \in ks THEN Leave1(igmp.group[k]) ELSE igmp.group[k]]
  IN  /\ ks # {} /\ \A k \in ks : igmp.held[k] > 0
      /\ igmp' = [igmp EXCEPT !.group  = group,
                              !.filter = @ \ {k \in ks : Present(igmp, k) /\ group[k] = Absent},
                              !.held   = [k \in Pairs |-> IF k \in ks THEN @[k] - 1 ELSE @[k]]]

-----------------------------------------------------------------------------
Member == Group \ {allsystems}

IgmpNext ==
  \/ igmp_tmr
  \/ \E n \in Net : \/ igmp_start(n) \/ igmp_stop(n) \/ igmp_report_groups(n)
                    \/ \E max \in MaxResp : Query(n, max)
                    \/ \E g \in Group : MembReport(n, g)
                    \/ \E g \in Member, max \in MaxResp : QueryGroup(n, g, max)
  \/ \E to \in Net \union {ANY}, g \in Member :
       igmp_joingroup(to, g) \/ igmp_leavegroup(to, g)

IgmpSpec == IgmpInit /\ [][IgmpNext]_igmp

(* igmp_tmr is called every 100 ms *)
IgmpFairSpec == IgmpSpec /\ WF_igmp(igmp_tmr)

(* The fields of a group, which is in use as long as it is in the list.    *)
IgmpTypeOK ==
  \A k \in DOMAIN igmp.group :
    LET e == igmp.group[k]
    IN  /\ e.state \in {"ABSENT", "IDLE", "DELAYING"}
        /\ e.timer > 0 => e.state = "DELAYING"
        /\ Present(igmp, k) => k[1] \in igmp.on /\ e.use > 0

(* The flag by which igmp_leavegroup decides to tell the routers says      *)
(* whether the last report on the link was this host's, although reports   *)
(* of others are only looked at in one state.                              *)
LastReporter == \A k \in DOMAIN igmp.group : igmp.group[k].flag = (igmp.group[k].rep = "us")

(* Whoever has joined stays a member until he leaves, whatever others join *)
(* and leave and wherever a join of several interfaces fails; and the MAC  *)
(* filter is open for the groups in the list and no others.                *)
KeptWhileHeld ==
  /\ \A k \in DOMAIN igmp.group : igmp.group[k].use >= igmp.held[k]
  /\ igmp.filter = {k \in DOMAIN igmp.group : Present(igmp, k)}

(* The report that a join or a query asks for is never later than it says, *)
(* however many queries come together.                                     *)
Prompt == \A k \in DOMAIN igmp.group :
  igmp.group[k].due > 0 => igmp.group[k].timer \in 1..igmp.group[k].due

(* The safety of the memberships, all in one.                              *)
IgmpSound == IgmpTypeOK /\ LastReporter /\ Prompt /\ KeptWhileHeld

(* And it comes: queries cannot put it off for ever.                       *)
ReportComes == \A k \in Pairs : igmp.group[k].timer > 0 ~> igmp.group[k].timer = 0
=============================================================================
