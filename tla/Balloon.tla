------------------------------- MODULE Balloon -------------------------------
(***************************************************************************)
(* mem/libvirt-autoballoon/libvirt-autoballoon.py: the daemon that grows   *)
(* and shrinks the balloons of virtual machines.  Every query of libvirt   *)
(* is a step of its own, between which a guest goes on, and raises an      *)
(* exception, which nothing catches, once the domain is gone.  Memory is   *)
(* in units of SZ_1MiB; THRESHOLD_RATIO is 1/4.                            *)
(***************************************************************************)
EXTENDS Integers, Sequences

CONSTANTS
  Domains, allowed_vms,
  NoDomain,
  total_ram,        \* info()[1], the same for all
  keep_free_kb,     \* per domain, of the configuration file; 0: not given
  SZ_32MiB,
  Uses, Sizes,      \* memory a guest may use, and have at first
  MaxChanges,       \* bound on the changes of the guests
  MaxRounds         \* bound on the rounds of the daemon

\* No guest is given more than its maximum by whoever started it.
ASSUME BalloonAssumption ==
  /\ NoDomain \notin Domains
  /\ total_ram \in Nat /\ total_ram >= 4 /\ keep_free_kb \in [Domains -> Nat]
  /\ SZ_32MiB \in Nat \ {0}
  /\ Uses \subseteq Nat /\ Sizes \subseteq 0 .. total_ram

VARIABLES
  guest,            \* [up, stats, actual, used, target] of each domain
  dom,              \* the domain process_domainID is at, or NoDomain
  domainIDs,        \* the domains still to come in this round
  ba_pc,
  r,                \* what process_domainID has read: [actual, used, same]
  asked,            \* history: requests, with the guest and r at the time
  sleep_time, rounds, ba_changes

guests == <<guest, ba_changes>>
balloon == <<guest, dom, domainIDs, ba_pc, r, asked, sleep_time, rounds, ba_changes>>

NotRead == [actual |-> 0, used |-> 0, same |-> TRUE]

BalloonInit ==
  /\ \E used \in Uses, actual \in Sizes, stats \in BOOLEAN :
       /\ used <= actual
       /\ guest = [d \in Domains |-> [up |-> TRUE, stats |-> stats, actual |-> actual,
                                      used |-> used, target |-> actual]]
  /\ dom = NoDomain /\ domainIDs = {} /\ ba_pc = "list" /\ r = NotRead /\ asked = <<>>
  /\ sleep_time = 1 /\ rounds = 0 /\ ba_changes = 0

------------------------------------------------------------------------------
(* External: the guests.  Without a driver there are no statistics. *)

unused(d) == IF guest[d].stats THEN guest[d].actual - guest[d].used ELSE 0

\* A guest uses more or less memory, or shuts down.
Change(d) ==
  /\ guest[d].up /\ ba_changes < MaxChanges
  /\ \/ \E used \in {u \in Uses : u <= guest[d].actual} : guest' = [guest EXCEPT ![d].used = used]
     \/ guest' = [guest EXCEPT ![d].up = FALSE]
  /\ ba_changes' = ba_changes + 1
  /\ r' = IF d = dom THEN [r EXCEPT !.same = FALSE] ELSE r
  /\ UNCHANGED <<dom, domainIDs, ba_pc, asked, sleep_time, rounds>>

\* A guest gives up or takes memory until it has what it was told to have.
Inflate(d) ==
  /\ guest[d].up /\ guest[d].actual # guest[d].target
  /\ guest' = [guest EXCEPT ![d].actual = guest[d].target,
                            ![d].used = IF @ > guest[d].target THEN guest[d].target ELSE @]
  /\ r' = IF d = dom THEN [r EXCEPT !.same = FALSE] ELSE r
  /\ UNCHANGED <<dom, domainIDs, ba_pc, asked, sleep_time, rounds, ba_changes>>

------------------------------------------------------------------------------
Goto(label) == ba_pc' = label /\ UNCHANGED <<guests, sleep_time, rounds>>

\* The for loop of daemon goes on with a domain, or the round ends and the
\* daemon sleeps.  libvirt lists the domains in any order.
Process(ids) ==
  /\ r' = NotRead
  /\ IF ids = {} THEN ba_pc' = "list" /\ dom' = NoDomain /\ domainIDs' = {}
     ELSE \E d \in ids : ba_pc' = "lookup" /\ dom' = d /\ domainIDs' = ids \ {d}
NextDomain == Process(domainIDs)

dom_keep_usable(d) ==
  LET keep == IF keep_free_kb[d] > 0 THEN keep_free_kb[d] ELSE total_ram \div 4
  IN  IF keep > total_ram THEN total_ram ELSE keep

ALIGN_DOWN(x, a) == x - (x % a)

\* MUTANT: the difference is a quarter of all memory.
diff_Total == total_ram \div 4

diff ==
  LET d == ALIGN_DOWN(r.used \div 4, SZ_32MiB)
  IN  IF d = 0 THEN 1 ELSE d

\* The head of the loop; libvirt answers None or the domains.
listDomainsID ==
  /\ ba_pc = "list" /\ rounds < MaxRounds
  /\ rounds' = rounds + 1
  /\ \/ /\ sleep_time' = IF sleep_time < 10 THEN sleep_time + 1 ELSE sleep_time
        /\ UNCHANGED <<dom, domainIDs, ba_pc, r>>
     \/ /\ sleep_time' = IF sleep_time > 1 THEN sleep_time - 1 ELSE sleep_time
        /\ Process({d \in Domains : guest[d].up})
  /\ UNCHANGED <<guests, asked>>

\* An exception ends the daemon, in whatever call it is.
libvirtError ==
  /\ ba_pc \in {"lookup", "actual", "used", "ratio", "grow", "shrink"} /\ ~guest[dom].up
  /\ Goto("died")
  /\ UNCHANGED <<dom, domainIDs, r, asked>>

lookupByID ==
  /\ ba_pc = "lookup" /\ guest[dom].up
  /\ IF dom \in allowed_vms THEN ba_pc' = "actual" /\ UNCHANGED <<dom, domainIDs, r>> ELSE NextDomain
  /\ UNCHANGED <<guests, asked, sleep_time, rounds>>

dom_ram_actual ==
  /\ ba_pc = "actual" /\ guest[dom].up
  /\ r' = [r EXCEPT !.actual = guest[dom].actual, !.same = TRUE]
  /\ Goto("used")
  /\ UNCHANGED <<dom, domainIDs, asked>>

dom_ram_used ==
  /\ ba_pc = "used" /\ guest[dom].up
  /\ LET used == guest[dom].actual - unused(dom)
     IN  IF used = r.actual THEN NextDomain
         ELSE ba_pc' = "ratio" /\ r' = [r EXCEPT !.used = used] /\ UNCHANGED <<dom, domainIDs>>
  /\ UNCHANGED <<guests, asked, sleep_time, rounds>>

dom_usable_ratio ==
  /\ ba_pc = "ratio" /\ guest[dom].up
  /\ CASE unused(dom) < dom_keep_usable(dom) /\ r.actual < total_ram ->
            ba_pc' = "grow" /\ UNCHANGED <<dom, domainIDs, r>>
       [] 2 * unused(dom) > 3 * dom_keep_usable(dom) /\ r.actual > dom_keep_usable(dom) ->
            ba_pc' = "shrink" /\ UNCHANGED <<dom, domainIDs, r>>
       [] OTHER -> NextDomain
  /\ UNCHANGED <<guests, asked, sleep_time, rounds>>

\* setMemory refuses a size of 0 or less by an exception.
dom_balloon ==
  /\ ba_pc \in {"grow", "shrink"} /\ guest[dom].up
  /\ LET want == IF ba_pc = "grow" THEN r.actual + diff ELSE r.actual - diff
         restrict_to == IF want > total_ram THEN total_ram ELSE want
     IN  /\ asked' = Append(asked, [dom |-> dom, to |-> restrict_to, way |-> ba_pc, used |-> r.used,
                                    same |-> r.same, from |-> r.actual])
         /\ IF restrict_to > 0
            THEN guest' = [guest EXCEPT ![dom].target = restrict_to] /\ NextDomain
            ELSE ba_pc' = "died" /\ UNCHANGED <<guest, dom, domainIDs, r>>
  /\ UNCHANGED <<ba_changes, sleep_time, rounds>>

daemon ==
  \/ listDomainsID \/ libvirtError \/ lookupByID \/ dom_ram_actual
  \/ dom_ram_used \/ dom_usable_ratio \/ dom_balloon

BalloonNext == daemon \/ \E d \in Domains : Change(d) \/ Inflate(d)

BalloonSpec == BalloonInit /\ [][BalloonNext]_balloon

------------------------------------------------------------------------------
(* Properties. *)

\* A domain is told to have no more than its memory, and more than nothing if
\* it did not change between the queries; it is told so only if the
\* configuration allows and it has a driver.
Within ==
  \A i \in DOMAIN asked :
    /\ asked[i].to <= total_ram /\ (asked[i].same => asked[i].to > 0)
    /\ asked[i].dom \in allowed_vms /\ guest[asked[i].dom].stats

\* The step of process_domainID for a guest that uses so much.
Quarter(used) ==
  LET q == ALIGN_DOWN(used \div 4, SZ_32MiB) IN IF q = 0 THEN 1 ELSE q

\* If the guest did not change between the queries, shrinking leaves it what it
\* uses and half of what is to be kept free; unless keep_free_kb is given and is
\* less than the step.
UsedKept ==
  \A i \in DOMAIN asked :
    LET a == asked[i]
        keep == dom_keep_usable(a.dom)
    IN  /\ a.same /\ a.way = "shrink"
        /\ keep_free_kb[a.dom] = 0 \/ Quarter(a.used) <= keep
       => 2 * (a.to - a.used) > keep

\* A request is not taken back later from the size it asked for while the guest
\* uses what it used; unless the step for this use is more than half of what is
\* to be kept free.
Settles ==
  \A i, j \in DOMAIN asked :
    LET a == asked[i]  b == asked[j]
    IN  /\ i < j /\ a.dom = b.dom /\ a.same /\ b.same /\ a.used = b.used
        /\ a.to = b.from /\ 2 * Quarter(a.used) <= dom_keep_usable(a.dom)
       => a.way = b.way

\* The daemon's requests are within bounds, leave a guest what it uses and are
\* not taken back at once; the last two up to a step that is large for what is
\* to be kept free.
Ballooned == Within /\ UsedKept /\ Settles
==============================================================================
