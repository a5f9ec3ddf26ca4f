------------------------------- MODULE MCTools -------------------------------
(***************************************************************************)
(* The tools under mem for TLC: command lines of page-types, slabinfo and  *)
(* fincore, inputs of page_owner_sort, and the balloon daemon.  A          *)
(* behaviour is a run of one of them, chosen in Init; the variables of the *)
(* others are NULL, and the list of requests of the balloon daemon empty.  *)
(***************************************************************************)
EXTENDS Balloon, FiniteSets, SequencesExt

CONSTANTS
  NULL,
  \* page-types
  ULONG_MAX, HASH_SHIFT, MAX_ADDR_RANGES, MAX_BIT_FILTERS, MAX_VMAS, PAGEMAP_BATCH,
  WORD, MaxPfn,
  \* slabinfo
  MAX_SLABS, MAX_ALIASES, ObjsPerSlab, WIDTH,
  \* fincore, page_owner_sort
  page_size, nr_regions, BUF_SIZE, UNIT

VARIABLES
  tool, opt,
  phase, next, index, end, queue, range, out, heading, page_flags, nr_pages,
  total_pages, idle, bitmap, hw, visited, seen, exited,
  dir, kern, changes, pc, pos, attrs, slabinfo, aliasinfo, actual_slabs, lines,
  todo, table, log,
  argv, regions, rows, total_cached_size, fc_pc,
  fin, input, list, list2, po_pc

page_types == <<phase, next, index, end, queue, range, out, heading, page_flags, nr_pages,
                total_pages, idle, bitmap, hw, visited, seen, exited>>
slab_info == <<dir, kern, changes, pc, pos, attrs, slabinfo, aliasinfo, actual_slabs,
               lines, todo, table, log>>
fin_core == <<argv, regions, rows, total_cached_size, fc_pc>>
page_owner == <<fin, input, list, list2, po_pc>>
vars == <<tool, opt, page_types, slab_info, fin_core, page_owner, balloon>>

\* As in autoballoon.json, one domain is given its keep_free_kb and one is not.
MCKeepFree == [d \in Domains |-> IF d = "a" THEN 2 ELSE 0]

------------------------------------------------------------------------------
(* Command lines of page-types, and what the kernel may answer. *)

NoOption == [raw |-> FALSE, list |-> 0, cgroup |-> 0, cgroups |-> FALSE, mapcnt |-> FALSE,
             mark_idle |-> FALSE, hwpoison |-> {}, maps |-> NULL, files |-> <<>>,
             addr |-> <<>>, bits |-> <<>>]
Addr(n, sep, m) == [n |-> n, sep |-> sep, m |-> m]
Bits(left, eq, right) == [left |-> left, eq |-> eq, right |-> right]
Is(name) == [not |-> FALSE, name |-> <<name>>]
Not(name) == [not |-> TRUE, name |-> <<name>>]

\* Two adjacent VMAs, a gap, and one that ends outside most ranges.
Maps == <<[start |-> 1, end |-> 3], [start |-> 3, end |-> 4], [start |-> 6, end |-> 9]>>

PageTypesLines == {
  [NoOption EXCEPT !.list = 1],
  [NoOption EXCEPT !.raw = TRUE, !.list = 1, !.cgroup = 1, !.cgroups = TRUE,
                   !.addr = <<Addr(1, "+", 3)>>],
  [NoOption EXCEPT !.list = 2, !.addr = <<Addr(2, ",", NULL), Addr(NULL, ",", 2),
                                          Addr(3, NULL, NULL)>>],
  [NoOption EXCEPT !.addr = <<Addr(3, ",", 2)>>],
  [NoOption EXCEPT !.addr = [i \in 1 .. 4 |-> Addr(1, ",", 2)]],
  [NoOption EXCEPT !.bits = [i \in 1 .. 3 |-> Bits(<<Is("slab")>>, FALSE, <<>>)]],
  [NoOption EXCEPT !.list = 1, !.bits = <<Bits(<<Is("locked"), Not("error")>>, FALSE, <<>>)>>],
  [NoOption EXCEPT !.bits = <<Bits(<<Is("locked"), Is("slab")>>, FALSE, <<>>),
                              Bits(<<Is("locked"), Is("error")>>, TRUE, <<Is("locked")>>)>>],
  [NoOption EXCEPT !.list = 2, !.bits = <<Bits(<<>>, TRUE, <<Is("locked")>>)>>],
  [NoOption EXCEPT !.list = 1, !.raw = TRUE, !.maps = Maps, !.addr = <<Addr(2, "+", 5)>>],
  [NoOption EXCEPT !.list = 1, !.maps = Maps, !.cgroup = 1, !.cgroups = TRUE,
                   !.addr = <<Addr(NULL, ",", 2), Addr(8, ",", NULL)>>],
  [NoOption EXCEPT !.maps = Maps, !.raw = TRUE, !.hwpoison = {"inject"},
                   !.addr = <<Addr(0, ",", 4)>>],
  [NoOption EXCEPT !.mark_idle = TRUE, !.addr = <<Addr(0, ",", 3)>>],
  [NoOption EXCEPT !.mark_idle = TRUE, !.files = <<3>>],
  [NoOption EXCEPT !.list = 1, !.files = <<1, 2>>]}

PageFlags == {{}, {"LOCKED"}, {"SLAB", "ACTIVE"}, {"ERROR", "LOCKED"},
              {"RECLAIM", "COMPOUND_TAIL"}}
Pagemap == {[bits |-> {}, frame |-> 0], [bits |-> {"PRESENT"}, frame |-> 2],
            [bits |-> {"PRESENT", "SOFTDIRTY"}, frame |-> 3], [bits |-> {"SWAP"}, frame |-> 3]}

------------------------------------------------------------------------------
(* Command lines of slabinfo, and contents of /sys/kernel/slab. *)

SlabNames ==
  LET name(rank, len) == [rank |-> rank, len |-> len, colon |-> FALSE, kmall |-> FALSE,
                          match |-> TRUE, reclaim |-> FALSE]
      merged(rank) == [name(rank, 2) EXCEPT !.colon = TRUE, !.match = FALSE]
  IN  [n \in {"*", ":a", ":b", "bio", "dentry", "fs", "kmalloc-8", "vma"} |->
         CASE n = "*" -> [name(0, 1) EXCEPT !.match = FALSE]
           [] n = ":a" -> merged(1)
           [] n = ":b" -> merged(2)
           [] n = "bio" -> name(3, 3)
           [] n = "dentry" -> [name(4, 6) EXCEPT !.reclaim = TRUE]
           [] n = "fs" -> name(5, 2)
           [] n = "kmalloc-8" -> [name(6, 9) EXCEPT !.kmall = TRUE]
           [] n = "vma" -> [name(7, 3) EXCEPT !.match = FALSE]]

\* The last two end in "Unresolved alias" and "Too many aliases".
SlabDirs ==
  LET d(name) == [name |-> name, ref |-> NULL]
      l(name, ref) == [name |-> name, ref |-> ref]
  IN  {<<d(":b"), l("fs", ":a"), d("bio"), d(":a"), l("dentry", ":b"), l("kmalloc-8", ":b")>>,
       <<l("vma", ":a"), d("dentry"), d(":b"), l("bio", ":b"), d(":a")>>,
       <<l("fs", ":a"), l("bio", ":b"), l("dentry", ":a"), d(":b"), d(":a"), l("vma", ":b")>>,
       <<d("vma"), d("bio")>>,
       <<l("fs", ":b"), d("bio")>>,
       <<d(":a"), l("fs", ":a"), l("bio", ":a"), l("dentry", ":a"), l("kmalloc-8", ":a")>>}

CacheStates ==
  {[objects |-> 0, slabs |-> 0, partial |-> 0, activity |-> 0, debug |-> {}],
   [objects |-> 3, slabs |-> 2, partial |-> 1, activity |-> 5, debug |-> {"sanity_checks"}],
   [objects |-> 2, slabs |-> 2, partial |-> 2, activity |-> 3, debug |-> {"red_zone"}],
   [objects |-> 0, slabs |-> 1, partial |-> 1, activity |-> 1, debug |-> {"poison", "trace"}]}

SlabinfoLines ==
  LET none == [mode |-> "slabs", key |-> "name", inverted |-> FALSE, first_alias |-> FALSE,
               single_ref |-> FALSE, lines |-> -1, empty |-> FALSE, zero |-> FALSE,
               unreclaim |-> FALSE, debug |-> {}]
  IN  {none,
       [none EXCEPT !.zero = TRUE, !.unreclaim = TRUE],
       [none EXCEPT !.inverted = TRUE, !.mode = "ops"],
       [none EXCEPT !.key = "size", !.mode = "validate", !.first_alias = TRUE],
       [none EXCEPT !.key = "loss", !.mode = "shrink"],
       [none EXCEPT !.key = "partial", !.inverted = TRUE, !.mode = "track"],
       [none EXCEPT !.key = "active", !.mode = "numa", !.lines = 2],
       [none EXCEPT !.mode = "alias", !.single_ref = TRUE],
       [none EXCEPT !.mode = "alias", !.inverted = TRUE],
       [none EXCEPT !.mode = "totals"],
       [none EXCEPT !.mode = "xtotals", !.lines = 1],
       [none EXCEPT !.mode = "debug"],
       [none EXCEPT !.mode = "debug", !.debug = {"sanity_checks", "red_zone", "poison", "store_user"}],
       [none EXCEPT !.mode = "report", !.empty = TRUE]}

------------------------------------------------------------------------------
(* Command lines of fincore, and records of page_owner. *)

FincoreLines ==
  LET none == [min_size |-> 0, min_cached_size |-> 0, min_cached_perc |-> 0, only_cached |-> FALSE]
  IN  {none, [none EXCEPT !.only_cached = TRUE], [none EXCEPT !.min_size = 6],
       [none EXCEPT !.min_cached_size = 2], [none EXCEPT !.min_cached_perc = 50]}
FileSizes == {<<0, 6, 9>>, <<10>>, <<3, 12>>}

\* Records of one or two lines, with and without PFN, and one too long.
Records == {<<1, 0>>, <<-1, 1, 0>>, <<2, 1, 0>>, <<1, 2, 0>>, <<1, 1, 1, 0>>}
PageOwnerFiles == {FlattenSeq(f) \o rest : f \in [1 .. 4 -> Records], rest \in {<<>>, <<1>>}}

------------------------------------------------------------------------------
P == INSTANCE PageTypes WITH KFlags <- PageFlags, Pmes <- Pagemap, Options <- PageTypesLines
S == INSTANCE Slabinfo WITH Names <- SlabNames, Directories <- SlabDirs,
                            Caches <- CacheStates, Options <- SlabinfoLines

F == INSTANCE Fincore WITH Options <- FincoreLines, Arguments <- FileSizes, pc <- fc_pc
O == INSTANCE PageOwnerSort WITH Inputs <- PageOwnerFiles, pc <- po_pc

NoPageTypes ==
  /\ phase = NULL /\ next = NULL /\ index = NULL /\ end = NULL /\ queue = NULL
  /\ range = NULL /\ out = NULL /\ heading = NULL /\ page_flags = NULL /\ nr_pages = NULL
  /\ total_pages = NULL /\ idle = NULL /\ bitmap = NULL /\ hw = NULL /\ visited = NULL
  /\ seen = NULL /\ exited = NULL
NoSlabinfo ==
  /\ dir = NULL /\ kern = NULL /\ changes = NULL /\ pc = NULL /\ pos = NULL
  /\ attrs = NULL /\ slabinfo = NULL /\ aliasinfo = NULL /\ actual_slabs = NULL
  /\ lines = NULL /\ todo = NULL /\ table = NULL /\ log = NULL
NoFincore ==
  /\ argv = NULL /\ regions = NULL /\ rows = NULL /\ total_cached_size = NULL /\ fc_pc = NULL
NoPageOwnerSort ==
  /\ fin = NULL /\ input = NULL /\ list = NULL /\ list2 = NULL /\ po_pc = NULL
NoBalloon ==
  /\ guest = NULL /\ dom = NULL /\ domainIDs = NULL /\ ba_pc = NULL /\ r = NULL /\ asked = <<>>
  /\ sleep_time = NULL /\ rounds = NULL /\ ba_changes = NULL

Init ==
  /\ tool \in {"page-types", "slabinfo", "fincore", "page_owner_sort", "balloon"}
  /\ IF tool = "page-types" THEN P!Init ELSE NoPageTypes
  /\ IF tool = "slabinfo" THEN S!Init ELSE NoSlabinfo
  /\ IF tool = "fincore" THEN F!Init ELSE NoFincore
  /\ IF tool = "page_owner_sort" THEN O!Init ELSE NoPageOwnerSort
  /\ IF tool = "balloon" THEN BalloonInit ELSE NoBalloon
  /\ tool \in {"page_owner_sort", "balloon"} => opt = NULL

Next ==
  /\ UNCHANGED tool
  /\ \/ tool = "page-types" /\ P!Next /\ UNCHANGED <<slab_info, fin_core, page_owner, balloon>>
     \/ tool = "slabinfo" /\ S!Next /\ UNCHANGED <<page_types, fin_core, page_owner, balloon>>
     \/ tool = "fincore" /\ F!Next /\ UNCHANGED <<page_types, slab_info, page_owner, balloon>>
     \/ /\ tool = "page_owner_sort" /\ O!Next
        /\ UNCHANGED <<opt, page_types, slab_info, fin_core, balloon>>
     \/ /\ tool = "balloon" /\ BalloonNext
        /\ UNCHANGED <<opt, page_types, slab_info, fin_core, page_owner>>

Spec == Init /\ [][Next]_vars

------------------------------------------------------------------------------
(* Properties: those of the tools, for the one that runs, and Ballooned of Balloon. *)

\* page-types looks at the pages asked for, each once and in order, with
\* addresses within their type.
Walked == tool = "page-types" => P!TypeOK /\ P!Walked

\* The ranges listed by show_page_range are exactly the accepted pages.
Listed == tool = "page-types" => P!Listed

\* page-types counts every accepted page under its flags, page_owner_sort every
\* block under its text, fincore the resident pages of each file and region.
Counted ==
  /\ tool = "page-types" => P!Counted
  /\ tool = "page_owner_sort" => O!Counted
  /\ tool = "fincore" => F!Counted /\ F!Drawn

\* Pages are poisoned and marked idle only if, and if, they are accepted.
ActedOnAccepted == tool = "page-types" => P!ActedOnAccepted

\* usage of page-types: "-i|--mark-idle             Mark pages idle".
MarkedIdle == tool = "page-types" => P!MarkedIdle

\* slabinfo acts on the caches asked for, each once, and prints and writes
\* under names that lead to the right cache; its variables keep their types.
RightSlabs == tool = "slabinfo" => S!TypeOK /\ S!RightSlab /\ S!Selected

\* sort_slabs brings all caches into the order asked for; alias prints each
\* alias once and gathers those of a cache.
InOrder == tool = "slabinfo" => S!ListOrder /\ S!AliasesGrouped

\* The rows of slabinfo's totals are consistent; fincore's summary is the sum
\* of what it listed.
TotalsPlausible ==
  /\ tool = "slabinfo" => S!TotalsPlausible
  /\ tool = "fincore" => F!Summed

\* usage of slabinfo: "-d  | --debug          Switch off all debug options".
SwitchedOff == tool = "slabinfo" => S!SwitchedOff
==============================================================================
