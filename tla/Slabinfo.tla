------------------------------ MODULE Slabinfo -------------------------------
(***************************************************************************)
(* mem/vm/slabinfo.c: a run of the tool, while the kernel changes the slab *)
(* caches that are read, listed and written.                               *)
(*                                                                         *)
(* A cache is known by the name of its directory.  Names[n] tells what the *)
(* tool tests of a name: its place in the order of strcasecmp, its length, *)
(* whether it begins with ":" or "kmall", whether it matches the pattern   *)
(* of the command line; and whether its cache is reclaimable.              *)
(***************************************************************************)
EXTENDS Integers, FiniteSets, SequencesExt

CONSTANTS
  NULL,
  Names,        \* see above; "*" is one of them
  Directories,  \* contents of /sys/kernel/slab: sequences of entries
  Caches,       \* states of a cache
  Options,      \* the command lines
  MAX_SLABS, MAX_ALIASES,
  ObjsPerSlab,  \* objects in a slab; the size of an object is 1
  WIDTH,        \* unsigned values are taken modulo 2 ^ WIDTH
  MaxChanges    \* bound: changes made by the kernel

VARIABLES
  opt,          \* the command line
  dir,          \* the directory; an entry has a name and, a link, a ref
  kern,         \* the caches as the kernel has them
  changes,      \* changes made by the kernel so far
  pc,           \* step of main
  pos,          \* entries read, or caches put out, by this step
  attrs,        \* attributes of the cache being read that have been read, or NULL
  slabinfo, aliasinfo, actual_slabs,
  lines,        \* as in output_slabs
  todo,         \* writes of slab_debug that are still to be made
  table,        \* what totals prints
  log           \* what was put out: lines, and files written

info == <<slabinfo, aliasinfo, actual_slabs>>
vars == <<opt, dir, kern, changes, pc, pos, attrs, info, lines, todo, table, log>>

\* main, alias and xtotals; a step named after a key is sort_slabs.
Program ==
  CASE opt.mode = "alias" -> <<"read", "sort_aliases", "link", "alias">>
    [] opt.mode = "totals" -> <<"read", "totals">>
    [] opt.mode = "xtotals" -> <<"read", "totals", "link", "rename", "size", "output",
                                 "loss", "output", "partial", "output">>
    [] OTHER -> <<"read", "link", "rename", opt.key, "output">>

Keys == {"name", "size", "active", "loss", "partial"}
Fatal == -1
At(step) == pc \in DOMAIN Program /\ Program[pc] = step
Running == pc \in DOMAIN Program
StepDone == pc' = pc + 1 /\ pos' = 0 /\ lines' = opt.lines

IsLink(e) == e.ref # NULL

\* The cache that a path in /sys/kernel/slab leads to.
Resolve(name) ==
  LET e == CHOOSE e \in Range(dir) : e.name = name
  IN  IF IsLink(e) THEN e.ref ELSE name

Init ==
  /\ opt \in Options
  /\ dir \in Directories
  /\ kern \in [{dir[e].name : e \in {e \in DOMAIN dir : ~IsLink(dir[e])}} -> Caches]
  /\ changes = 0
  /\ pc = 1 /\ pos = 0 /\ attrs = NULL
  /\ slabinfo = <<>> /\ aliasinfo = <<>> /\ actual_slabs = 0
  /\ lines = opt.lines
  /\ todo = <<>> /\ table = NULL /\ log = <<>>

------------------------------------------------------------------------------
(* read_slab_dir. *)

\* Entries that are left out: other names that do not match.
Skips(e) == ~Names[e.name].colon /\ ~Names[e.name].match

read_skip ==
  /\ At("read") /\ pos < Len(dir)
  /\ Skips(dir[pos + 1])
  /\ pos' = pos + 1
  /\ UNCHANGED <<opt, dir, kern, changes, pc, attrs, info, lines, todo, table, log>>

read_link ==
  /\ At("read") /\ pos < Len(dir)
  /\ LET e == dir[pos + 1]
     IN  /\ ~Skips(e) /\ IsLink(e)
         /\ aliasinfo' = Append(aliasinfo, [name |-> e.name, ref |-> e.ref, slab |-> NULL])
  /\ pos' = pos + 1
  /\ UNCHANGED <<opt, dir, kern, changes, pc, attrs, slabinfo, actual_slabs, lines,
                 todo, table, log>>

\* The attributes are files of their own; objects and partial are read before
\* slabs and the debug options.
read_objects ==
  /\ At("read") /\ pos < Len(dir) /\ attrs = NULL
  /\ LET e == dir[pos + 1]
     IN  /\ ~Skips(e) /\ ~IsLink(e)
         /\ attrs' = [objects |-> kern[e.name].objects, partial |-> kern[e.name].partial]
  /\ UNCHANGED <<opt, dir, kern, changes, pc, pos, info, lines, todo, table, log>>

read_slabs ==
  /\ At("read") /\ attrs # NULL
  /\ LET name == dir[pos + 1].name
         k == kern[name]
     IN  slabinfo' = Append(slabinfo,
           [id |-> name, name |-> name, refs |-> 0, objects |-> attrs.objects,
            partial |-> attrs.partial, slabs |-> k.slabs, activity |-> k.activity,
            debug |-> k.debug])
  /\ attrs' = NULL
  /\ pos' = pos + 1
  /\ UNCHANGED <<opt, dir, kern, changes, pc, aliasinfo, actual_slabs, lines, todo, table, log>>

\* The end of read_slab_dir; the arrays are full at this point at the latest.
read_end ==
  /\ At("read") /\ pos = Len(dir)
  /\ actual_slabs' = Len(slabinfo)
  /\ IF Len(slabinfo) > MAX_SLABS \/ Len(aliasinfo) > MAX_ALIASES
     THEN pc' = Fatal /\ UNCHANGED <<pos, lines>>
     ELSE StepDone
  /\ UNCHANGED <<opt, dir, kern, changes, attrs, slabinfo, aliasinfo, todo, table, log>>

------------------------------------------------------------------------------
(* Aliases. *)

SlabOf(a) == SelectInSeq(slabinfo, LAMBDA s : s.name = a.ref)

link_slabs ==
  /\ At("link")
  /\ IF \E a \in Range(aliasinfo) : SlabOf(a) = 0
     THEN pc' = Fatal /\ UNCHANGED <<pos, lines, slabinfo, aliasinfo>>
     ELSE /\ aliasinfo' = [a \in DOMAIN aliasinfo |->
                             [aliasinfo[a] EXCEPT !.slab = SlabOf(aliasinfo[a])]]
          /\ slabinfo' = [s \in DOMAIN slabinfo |->
                            [slabinfo[s] EXCEPT !.refs = @ +
                               Cardinality({a \in DOMAIN aliasinfo : SlabOf(aliasinfo[a]) = s})]]
          /\ StepDone
  /\ UNCHANGED <<opt, dir, kern, changes, attrs, actual_slabs, todo, table, log>>

\* MUTANT: after the first alias of the cache, any longer one is taken.
find_one_alias_AnyLonger(s) ==
  LET first == SelectInSeq(aliasinfo, LAMBDA a : a.slab = s)
      rest == {aliasinfo[i].name : i \in first .. Len(aliasinfo)}
  IN  IF first = 0 THEN NULL
      ELSE CHOOSE n \in rest : \A m \in rest : Names[m].len <= Names[n].len

\* The first alias of cache s that begins with "kmall" and is longer than
\* those before it, or else the first of the longest; NULL if there is none.
find_one_alias(s) ==
  LET own == SelectSeq(aliasinfo, LAMBDA a : a.slab = s)
      record(i) == \A j \in 1 .. i - 1 : Names[own[j].name].len < Names[own[i].name].len
      best == {i \in DOMAIN own : record(i)}
      kmall == {i \in best : Names[own[i].name].kmall}
  IN  IF own = <<>> THEN NULL
      ELSE own[IF kmall # {} THEN Min(kmall) ELSE Max(best)].name

\* MUTANT: a cache without a matching alias keeps its name.
NewName_KeepsName(s) ==
  IF ~Names[slabinfo[s].name].colon \/ find_one_alias(s) = NULL
  THEN slabinfo[s].name ELSE find_one_alias(s)

\* rename_slabs: what a cache is called from now on.
NewName(s) ==
  IF ~Names[slabinfo[s].name].colon \/ (slabinfo[s].refs > 1 /\ ~opt.first_alias)
  THEN slabinfo[s].name
  ELSE IF find_one_alias(s) = NULL THEN "*" ELSE find_one_alias(s)

rename_slabs ==
  /\ At("rename")
  /\ slabinfo' = [s \in DOMAIN slabinfo |-> [slabinfo[s] EXCEPT !.name = NewName(s)]]
  /\ actual_slabs' = actual_slabs - Cardinality({s \in DOMAIN slabinfo : NewName(s) = "*"})
  /\ StepDone
  /\ UNCHANGED <<opt, dir, kern, changes, attrs, aliasinfo, todo, table, log>>

------------------------------------------------------------------------------
(* Sorting: every element is compared with every later one. *)

slab_size(s) == s.slabs * ObjsPerSlab
slab_waste(s) == (slab_size(s) - s.objects) % 2 ^ WIDTH

Value(s, key) ==
  CASE key = "size" -> slab_size(s)
    [] key = "active" -> s.activity
    [] key = "loss" -> slab_waste(s)
    [] key = "partial" -> s.partial

\* The result of comparing s1 and s2: they are exchanged if it is positive.
Compare(s1, s2, key) ==
  LET result == IF key = "name" THEN Names[s1.name].rank - Names[s2.name].rank
                ELSE IF Value(s1, key) < Value(s2, key) THEN 1 ELSE 0
  IN  IF opt.inverted THEN -result ELSE result

\* MUTANT: neighbours only are compared.
Pairs_Neighbours(n) == [i \in 1 .. n - 1 |-> <<i, i + 1>>]

Pairs(n) ==
  FlattenSeq([i \in 1 .. n |-> [j \in 1 .. n - i |-> <<i, i + j>>]])

Exchanged(seq, i, j) == [seq EXCEPT ![i] = seq[j], ![j] = seq[i]]

\* The exchange sort, for the relation "after" between elements.
SortedBy(seq, after) ==
  FoldLeft(LAMBDA s, p : IF <<s[p[1]], s[p[2]]>> \in after THEN Exchanged(s, p[1], p[2])
                         ELSE s,
           seq, Pairs(Len(seq)))

sort_slabs(key) ==
  /\ At(key)
  /\ slabinfo' = SortedBy(slabinfo, {p \in Range(slabinfo) \X Range(slabinfo) :
                                      Compare(p[1], p[2], key) > 0})
  /\ StepDone
  /\ UNCHANGED <<opt, dir, kern, changes, attrs, aliasinfo, actual_slabs, todo, table, log>>

\* MUTANT: the aliases are sorted by their own names.
sort_aliases_ByName ==
  LET rank(a) == Names[a.name].rank
  IN  /\ At("sort_aliases")
      /\ aliasinfo' = SortedBy(aliasinfo, {p \in Range(aliasinfo) \X Range(aliasinfo) :
                                            rank(p[1]) > rank(p[2])})
      /\ StepDone
      /\ UNCHANGED <<opt, dir, kern, changes, attrs, slabinfo, actual_slabs, todo, table, log>>

sort_aliases ==
  LET rank(a) == Names[IF opt.inverted THEN a.name ELSE a.ref].rank
  IN  /\ At("sort_aliases")
      /\ aliasinfo' = SortedBy(aliasinfo, {p \in Range(aliasinfo) \X Range(aliasinfo) :
                                            rank(p[1]) > rank(p[2])})
      /\ StepDone
      /\ UNCHANGED <<opt, dir, kern, changes, attrs, slabinfo, actual_slabs, todo, table, log>>

\* alias: a line for each cache, or, inverted, for each alias.
alias ==
  /\ At("alias") /\ pos < Len(aliasinfo)
  /\ LET a == aliasinfo[pos + 1]
         s == slabinfo[a.slab]
         active == IF log = <<>> THEN NULL ELSE Last(log).id
     IN  IF ~opt.single_ref /\ s.refs = 1 THEN UNCHANGED log
         ELSE log' = Append(log, [id |-> s.id, name |-> a.name,
                                  op |-> IF ~opt.inverted /\ s.id = active THEN "more" ELSE "line"])
  /\ pos' = pos + 1
  /\ UNCHANGED <<opt, dir, kern, changes, pc, attrs, info, lines, todo, table>>

alias_end ==
  /\ At("alias") /\ pos = Len(aliasinfo)
  /\ StepDone
  /\ UNCHANGED <<opt, dir, kern, changes, attrs, info, todo, table, log>>

------------------------------------------------------------------------------
(* totals.  Only caches with slabs and objects count. *)

Capped(percentage) == Min({percentage, 100})

Total(values) == FoldLeft(LAMBDA a, b : a + b, 0, values) % 2 ^ WIDTH

\* MUTANT: the averages are over all caches.
Row_AllCaches(values, total) ==
  [avg |-> Total(values) \div Len(slabinfo), min |-> Min(Range(values)),
   max |-> Max(Range(values)), total |-> total]

Row(values, total) ==
  [avg |-> Total(values) \div Len(values), min |-> Min(Range(values)),
   max |-> Max(Range(values)), total |-> total]

totals ==
  /\ At("totals")
  /\ LET used == SelectSeq(slabinfo, LAMBDA s : s.slabs > 0 /\ s.objects > 0)
         values(Of(_)) == [i \in DOMAIN used |-> Of(used[i])]
         row(Of(_)) == Row(values(Of), Total(values(Of)))
         partial == row(LAMBDA s : s.partial)
         slabs == row(LAMBDA s : s.slabs)
     IN  table' = IF used = <<>> THEN NULL
                  ELSE [objects |-> row(LAMBDA s : s.objects),
                        slabs |-> slabs,
                        partial |-> partial,
                        ppart |-> Row(values(LAMBDA s : Capped((s.partial * 100) \div s.slabs)),
                                      (partial.total * 100) \div slabs.total),
                        size |-> row(slab_size),
                        waste |-> row(slab_waste)]
  /\ StepDone
  /\ UNCHANGED <<opt, dir, kern, changes, attrs, info, todo, log>>

------------------------------------------------------------------------------
(* output_slabs. *)

\* slabcache, slab_numa (with NUMA information), show_tracking, ops and
\* report: is there a line?
Shows(s) ==
  /\ opt.mode # "track" => s.name # "*"
  /\ opt.mode = "numa" => opt.zero \/ s.slabs > 0
  /\ opt.mode \in {"slabs", "xtotals"} =>
       /\ opt.unreclaim => ~Names[s.id].reclaim
       /\ actual_slabs = 1 \/ (IF opt.empty THEN s.slabs = 0 ELSE opt.zero \/ s.slabs > 0)

\* slab_debug: one option.
Switch(s, file) ==
  LET on == file \in opt.debug
      write(f, v) == [id |-> s.id, name |-> s.name, op |-> f, value |-> v]
      shrink == IF s.slabs # 0 THEN <<write("shrink", 1)>> ELSE <<>>
  IN  IF on = (file \in s.debug) THEN <<>>
      ELSE CASE file = "trace" -> IF ~on \/ Len(slabinfo) = 1 THEN <<write("trace", 1)>> ELSE <<>>
             [] file = "sanity_checks" /\ on -> <<write(file, 1)>>
             [] OTHER -> IF s.objects > 0 THEN <<>>
                         ELSE Append(shrink, write(file, IF on THEN 1 ELSE 0))

slab_debug(s) ==
  IF s.name = "*" THEN <<>>
  ELSE FlattenSeq([i \in 1 .. 5 |-> Switch(s, <<"sanity_checks", "red_zone", "poison",
                                                "store_user", "trace">>[i])])

output_slab ==
  /\ At("output") /\ todo = <<>>
  /\ pos < Len(slabinfo) /\ lines # 0
  /\ LET s == slabinfo[pos + 1]
         line == [id |-> s.id, name |-> s.name, op |-> opt.mode, value |-> 1]
     IN  IF opt.mode = "debug" THEN todo' = slab_debug(s) /\ UNCHANGED log
         ELSE IF opt.mode \in {"validate", "shrink"} /\ s.name # "*"
              THEN todo' = <<line>> /\ UNCHANGED log
              ELSE /\ log' = IF opt.mode \notin {"validate", "shrink"} /\ Shows(s)
                             THEN Append(log, line) ELSE log
                   /\ UNCHANGED todo
  /\ pos' = pos + 1
  /\ lines' = IF lines = -1 THEN -1 ELSE lines - 1
  /\ UNCHANGED <<opt, dir, kern, changes, pc, attrs, info, table>>

\* A write to a file of sysfs.  Some options change only for an empty cache.
set_obj ==
  /\ todo # <<>>
  /\ LET w == Head(todo)
         c == Resolve(w.name)
         k == kern[c]
         busy == w.op \in {"red_zone", "poison", "store_user"} /\ k.objects > 0
     IN  /\ kern' = [kern EXCEPT ![c] =
              CASE w.op = "validate" \/ busy -> k
                [] w.op = "shrink" -> IF k.objects > 0 THEN k
                                      ELSE [k EXCEPT !.slabs = 0, !.partial = 0]
                [] OTHER -> [k EXCEPT !.debug = IF w.value = 1 THEN @ \cup {w.op} ELSE @ \ {w.op}]]
         /\ log' = Append(log, w)
  /\ todo' = Tail(todo)
  /\ UNCHANGED <<opt, dir, changes, pc, pos, attrs, info, lines, table>>

output_end ==
  /\ At("output") /\ todo = <<>>
  /\ pos = Len(slabinfo) \/ lines = 0
  /\ StepDone
  /\ UNCHANGED <<opt, dir, kern, changes, attrs, info, todo, table, log>>

\* Objects are allocated and freed while the tool runs.
kernel ==
  /\ Running /\ changes < MaxChanges
  /\ changes' = changes + 1
  /\ \E c \in DOMAIN kern, k \in Caches :
       /\ k # kern[c]
       /\ kern' = [kern EXCEPT ![c] = [k EXCEPT !.debug = kern[c].debug]]
  /\ UNCHANGED <<opt, dir, pc, pos, attrs, info, lines, todo, table, log>>

Next ==
  \/ read_skip \/ read_link \/ read_objects \/ read_slabs \/ read_end
  \/ link_slabs \/ rename_slabs
  \/ (\E key \in Keys : sort_slabs(key)) \/ sort_aliases
  \/ alias \/ alias_end \/ totals
  \/ output_slab \/ set_obj \/ output_end
  \/ kernel

Spec == Init /\ [][Next]_vars

------------------------------------------------------------------------------
(* Properties. *)

Finished == pc = Len(Program) + 1

\* Type invariant.
TypeOK ==
  /\ opt \in Options /\ dir \in Directories
  /\ changes \in 0 .. MaxChanges
  /\ pc = Fatal \/ pc \in 1 .. Len(Program) + 1
  /\ pos \in Nat /\ lines \in Nat \cup {-1}
  /\ attrs \in [objects : Nat, partial : Nat] \cup {NULL}
  /\ \A s \in Range(slabinfo) : s.name \in DOMAIN Names /\ s.refs \in Nat
  /\ \A a \in Range(aliasinfo) : a.slab \in DOMAIN slabinfo \cup {NULL}
  /\ actual_slabs \in 0 .. Len(slabinfo)

\* What is printed about a cache, or written to a file of it, is printed or
\* written under a name that leads to this cache in sysfs, although caches
\* are linked by pointers, renamed and then moved by the sort.
RightSlab == \A i \in DOMAIN log : log[i].name # "*" => Resolve(log[i].name) = log[i].id

\* The caches asked for: those with a name or an alias that matches.
Matching ==
  {e.name : e \in {e \in Range(dir) : ~IsLink(e) /\ ~Names[e.name].colon /\ Names[e.name].match}}
    \cup {e.ref : e \in {e \in Range(dir) : IsLink(e) /\ Names[e.name].match}}

\* Validating, shrinking and reporting reach the caches asked for, each once,
\* and no other, although merged caches are read whether they match or not;
\* actual_slabs counts them.
Selected ==
  /\ (At("output") => actual_slabs = Cardinality(Matching))
  /\ Finished /\ opt.mode \in {"validate", "shrink", "report", "ops"} =>
       LET ids == [i \in DOMAIN log |-> log[i].id]
       IN  /\ IsInjective(ids)
           /\ Range(ids) \subseteq Matching
           /\ opt.lines = -1 => Range(ids) = Matching

\* sort_slabs loses nothing and brings the caches into the order asked for:
\* names upwards or, inverted, downwards, values downwards.  (Inverted values
\* are left as they were read: the comparison yields 0 or 1, or 0 or -1.)
ListOrder ==
  At("output") =>
    LET key == Program[pc - 1]
        ids == [i \in DOMAIN slabinfo |-> slabinfo[i].id]
        rank(i) == Names[slabinfo[i].name].rank
    IN  /\ IsInjective(ids)
        /\ Range(ids) = {e.name : e \in {e \in Range(dir) : ~IsLink(e) /\ ~Skips(e)}}
        /\ \A i, j \in DOMAIN slabinfo : i < j =>
             IF key = "name" THEN IF opt.inverted THEN rank(i) >= rank(j) ELSE rank(i) <= rank(j)
             ELSE ~opt.inverted => Value(slabinfo[i], key) >= Value(slabinfo[j], key)

\* alias prints each alias once, under its cache, and gathers the aliases of
\* a cache on one line, unless two caches have names that differ in case only.
AliasesGrouped ==
  Finished /\ opt.mode = "alias" =>
    LET shown == {a \in Range(aliasinfo) : opt.single_ref \/ slabinfo[a.slab].refs > 1}
        refs == {a.ref : a \in Range(aliasinfo)}
        heads == SelectSeq(log, LAMBDA l : l.op = "line")
    IN  /\ Len(log) = Cardinality(shown)
        /\ {<<l.id, l.name>> : l \in Range(log)} = {<<a.ref, a.name>> : a \in shown}
        /\ ~opt.inverted /\ (\A r, q \in refs : r # q => Names[r].rank # Names[q].rank) =>
             IsInjective([i \in DOMAIN heads |-> heads[i].id])

\* In the table of totals an average lies between the least and the greatest
\* value and the total is not less than these, whatever the kernel did while
\* the attributes were read; for the loss, if no difference was negative.
\* The percentage of partial slabs over all caches lies between those of the
\* caches, if no cache was read with more partial slabs than slabs.
TotalsPlausible ==
  table # NULL =>
    /\ \A row \in DOMAIN table :
         (row = "waste" => \A s \in Range(slabinfo) : s.objects <= slab_size(s)) =>
           /\ table[row].min <= table[row].avg
           /\ table[row].avg <= table[row].max
           /\ row # "ppart" => table[row].max <= table[row].total
    /\ table.ppart.min <= table.ppart.total
    /\ (\A s \in Range(slabinfo) : s.partial <= s.slabs) =>
         table.ppart.total <= table.ppart.max

\* usage: "-d  | --debug          Switch off all debug options".
SwitchedOff ==
  Finished /\ opt.mode = "debug" /\ opt.debug = {} /\ changes = 0 =>
    \A c \in Matching : kern[c].objects = 0 => kern[c].debug = {}
==============================================================================
