----------------------------- MODULE PgcacheScan -----------------------------
(***************************************************************************)
(* kmem/pgcache_scan: a write to /proc/sys/vm/pgcache_scan/pgcache_scan_   *)
(* top_n empties ordered_list, fills it with the cached files of the super *)
(* blocks and of the processes, largest first, and prints its head.  The   *)
(* list is global; ordered_list_lock is taken once per step (the clear,    *)
(* each super block, each process, the print), so writers interleave.      *)
(***************************************************************************)
EXTENDS Integers, Sequences, Functions, FiniteSetsExt

CONSTANTS
  Writers,       \* processes that write to the sysctl files
  SuperBlocks,   \* the sequence walked by iterate_supers
  Processes,     \* the sequence walked by for_each_process, init_task left out
  NoBdev,        \* the super blocks without a block device
  Inodes,        \* per super block: its s_inodes, a sequence
  Files,         \* per process: the inodes of its open files, or NULL
  Freeing,       \* inodes in I_FREEING, I_WILL_FREE or I_NEW
  Unlinked,      \* inodes with i_nlink = 0 that are still in use
  Cached, Pages, \* per inode: nrpages at first; what it may become
  TopNs, Modes,  \* what is written to the sysctl files
  NULL, TORN,
  MaxWrites, MaxSettings, MaxTouches  \* bounds

VARIABLES
  module,        \* "out", "in", "gone", or "failed": init returned -1
  registered,    \* pgcache_scan_sysctl_header is set
  top_n, mode, deleted_but_used,   \* the sysctl variables
  ordered_list,  \* nodes [ino, pages, pid]; TORN after a data race
  lock,          \* the holder of ordered_list_lock, NULL, or "stuck"
  nrpages,       \* per inode: mapping->nrpages
  job,           \* per writer: the steps its handler still has to take
  inside,        \* per writer: it is between spin_lock and spin_unlock
  alone,         \* history, per writer: no other call since this one began
  found,         \* history, per writer: while alone, the nodes it added
  shown,         \* history, per writer: while alone, the nodes it printed
  stray,         \* history: "free", "held": print_top_num released such a lock
  writes, settings, touches

sysctls == <<top_n, mode, deleted_but_used>>
calls == <<job, inside, found, alone, shown>>
vars == <<module, registered, sysctls, ordered_list, lock, nrpages, calls, stray,
          writes, settings, touches>>

AllInodes == UNION {Range(Inodes[s]) : s \in Range(SuperBlocks)}

Init ==
  /\ module = "out" /\ registered = FALSE
  /\ top_n = 0 /\ mode = 0 /\ deleted_but_used = FALSE
  /\ ordered_list = <<>> /\ lock = NULL
  /\ nrpages = Cached
  /\ job = [w \in Writers |-> <<>>]
  /\ inside = [w \in Writers |-> FALSE]
  /\ found = [w \in Writers |-> <<>>]
  /\ alone = [w \in Writers |-> TRUE]
  /\ shown = [w \in Writers |-> NULL]
  /\ stray = "no" /\ writes = 0 /\ settings = 0 /\ touches = 0

------------------------------------------------------------------------------
(* The list. *)

list_insert(list, i, node) == SubSeq(list, 1, i - 1) \o <<node>> \o SubSeq(list, i, Len(list))

\* MUTANT: the new node goes behind the first smaller one.
order_list_add_Behind(list, node) ==
  LET smaller == {i \in DOMAIN list : node.pages > list[i].pages}
  IN  IF smaller = {} THEN Append(list, node)
      ELSE list_insert(list, Min(smaller) + 1, node)

\* Before the first node with fewer pages, else at the end.
order_list_add(list, node) ==
  LET smaller == {i \in DOMAIN list : node.pages > list[i].pages}
  IN  IF smaller = {} THEN Append(list, node) ELSE list_insert(list, Min(smaller), node)

\* The nodes are added one after the other.
order_list_add_all(list, nodes) ==
  LET added[n \in 0 .. Len(nodes)] ==
        IF n = 0 THEN list ELSE order_list_add(added[n - 1], nodes[n])
  IN  added[Len(nodes)]

\* MUTANT: print_top_num counts from 0 and stops behind num.
TopLines_OneMore(list, num) ==
  SelectSeq(SubSeq(list, 1, Min({num + 1, Len(list)})), LAMBDA node : node.pages > 0)

\* The lines of print_top_num: of the first num nodes those of at least 1 KB.
TopLines(list, num) ==
  SelectSeq(SubSeq(list, 1, Min({num, Len(list)})), LAMBDA node : node.pages > 0)

\* Two handlers in the list at the same time: the result is undefined.
Raced(w) == \E v \in Writers \ {w} : inside[v]
Result(w, list) == IF Raced(w) \/ ordered_list = TORN THEN TORN ELSE list

------------------------------------------------------------------------------
(* Loading and unloading. *)

\* init: get_kallsyms_lookup_name_function and the symbols may fail (-1); the
\* result of register_sysctl_paths is not looked at.
init ==
  /\ module = "out"
  /\ \/ module' = "failed" /\ UNCHANGED registered
     \/ module' = "in" /\ registered' \in BOOLEAN
  /\ UNCHANGED <<sysctls, ordered_list, lock, nrpages, calls, stray, writes, settings, touches>>

\* fini: unregister_sysctl_table waits for the handlers, then
\* order_list_clear.  The history of the calls ends.
fini ==
  /\ module = "in" /\ \A w \in Writers : job[w] = <<>>
  /\ lock = NULL
  /\ module' = "gone" /\ registered' = FALSE /\ ordered_list' = <<>>
  /\ shown' = [w \in Writers |-> NULL] /\ found' = [w \in Writers |-> <<>>]
  /\ UNCHANGED <<sysctls, lock, nrpages, job, inside, alone, stray, writes, settings, touches>>

------------------------------------------------------------------------------
(* The files. *)

\* The handler of the other two files, proc_dointvec_minmax.
StoreSetting(w) ==
  /\ registered /\ job[w] = <<>> /\ settings < MaxSettings
  /\ settings' = settings + 1
  /\ \/ mode' \in Modes \ {mode} /\ UNCHANGED deleted_but_used
     \/ deleted_but_used' = ~deleted_but_used /\ UNCHANGED mode
  /\ UNCHANGED <<module, registered, top_n, ordered_list, lock, nrpages, calls, stray, writes,
                 touches>>

\* scan_caches_sysctl_handler: the number is stored, the mode read; what
\* follows is one section of ordered_list_lock per element of the job.
scan_caches_sysctl_handler(w, n) ==
  LET procs == SelectSeq(Processes, LAMBDA p : p # w /\ Files[p] # NULL)
  IN  /\ registered /\ job[w] = <<>> /\ writes < MaxWrites
      /\ writes' = writes + 1 /\ top_n' = n
      /\ job' = [job EXCEPT ![w] =
                   <<"clear">> \o (IF mode \in {1, 2} THEN SuperBlocks ELSE <<>>)
                               \o (IF mode \in {0, 2} THEN procs ELSE <<>>) \o <<"print">>]
      /\ alone' = [v \in Writers |-> v = w /\ ordered_list # TORN
                                      /\ \A u \in Writers : job[u] = <<>>]
      /\ found' = [v \in Writers |-> <<>>]
      /\ shown' = [v \in Writers |-> NULL]
      /\ UNCHANGED <<module, registered, mode, deleted_but_used, ordered_list, lock, nrpages,
                     inside, stray, settings, touches>>

\* MUTANT: order_list_clear does not take the lock.
spin_lock_NotForClear(w) ==
  IF Head(job[w]) = "clear" THEN UNCHANGED lock ELSE lock = NULL /\ lock' = w

spin_lock(w) == lock = NULL /\ lock' = w

\* Releasing a lock that is free is undefined: a queued spinlock stays free, a
\* ticket spinlock is given to a ticket that nobody will hold.
spin_unlock ==
  lock' \in CASE lock = NULL -> {NULL, "stuck"} [] lock = "stuck" -> {"stuck"} [] OTHER -> {NULL}

\* print_top_num looks at the list without the lock, and will take the lock
\* ("list") or, the list being empty, go to out.
PrintTests(w) ==
  /\ job[w] = <<"print">>
  /\ \/ ordered_list # <<>> /\ job' = [job EXCEPT ![w] = <<"list">>]
     \/ ordered_list \in {<<>>, TORN} /\ job' = [job EXCEPT ![w] = <<"out">>]
  /\ UNCHANGED <<module, registered, sysctls, ordered_list, lock, nrpages, inside, found, alone,
                 shown, stray, writes, settings, touches>>

\* spin_lock(&ordered_list_lock) of order_list_clear, print_top_num,
\* scan_inodes_pagecache_one_sb and scan_process_inodes_pagecache.
Enter(w) ==
  /\ job[w] # <<>> /\ ~inside[w]
  /\ Head(job[w]) \notin {"print", "out"}
  /\ spin_lock(w)
  /\ inside' = [inside EXCEPT ![w] = TRUE]
  /\ UNCHANGED <<module, registered, sysctls, ordered_list, nrpages, job, found, alone,
                 shown, stray, writes, settings, touches>>

\* The nodes scan_inodes_pagecache_one_sb adds for super block s: one per
\* cached inode, up to the first kzalloc that fails.  Without a block device
\* a node stays zeroed but for its name.
scan_inodes_pagecache_one_sb(s) ==
  LET cached(ino) == ino \notin Freeing /\ nrpages[ino] # 0
      node(ino) == IF s \in NoBdev THEN [ino |-> NULL, pages |-> 0, pid |-> NULL]
                   ELSE [ino |-> ino, pages |-> nrpages[ino], pid |-> NULL]
      all == SelectSeq(Inodes[s], cached)
  IN  {[i \in 1 .. n |-> node(all[i])] : n \in 0 .. Len(all)}

\* The nodes scan_file_inode adds for the open files of process p; a failing
\* kzalloc skips a file, for the result is 0 all the same.
scan_file_inode(p) ==
  LET wanted(ino) == nrpages[ino] # 0 /\ (deleted_but_used => ino \in Unlinked)
      all == SelectSeq(Files[p], wanted)
      node(ino) == [ino |-> ino, pages |-> nrpages[ino], pid |-> p]
  IN  {LET kept == SelectSeq([i \in DOMAIN all |-> i], LAMBDA i : i \in some)
       IN  [i \in DOMAIN kept |-> node(all[kept[i]])] : some \in SUBSET DOMAIN all}

\* What a section does, and its spin_unlock.  print_top_num takes the number
\* as it is now.
Leave(w) ==
  LET step == Head(job[w])
  IN  /\ inside[w]
      /\ spin_unlock
      /\ inside' = [inside EXCEPT ![w] = FALSE]
      /\ job' = [job EXCEPT ![w] = Tail(@)]
      /\ \/ /\ step = "clear"
            /\ ordered_list' = Result(w, <<>>)
            /\ UNCHANGED <<found, shown>>
         \/ /\ step = "list"
            /\ shown' = [shown EXCEPT ![w] = IF ~alone[w] THEN NULL
                                            ELSE TopLines(ordered_list, top_n)]
            /\ UNCHANGED <<ordered_list, found>>
         \/ /\ step \notin {"clear", "list"}
            /\ \E nodes \in IF step \in Range(SuperBlocks)
                             THEN scan_inodes_pagecache_one_sb(step) ELSE scan_file_inode(step) :
                 /\ found' = [found EXCEPT ![w] = IF alone[w] THEN @ \o nodes ELSE <<>>]
                 /\ ordered_list' =
                      IF Result(w, <<>>) = TORN THEN TORN
                      ELSE order_list_add_all(ordered_list, nodes)
            /\ UNCHANGED shown
      /\ UNCHANGED <<module, registered, sysctls, nrpages, alone, stray, writes, settings,
                     touches>>

\* "goto out" releases a lock that print_top_num does not hold.
PrintEmpty(w) ==
  /\ job[w] = <<"out">>
  /\ spin_unlock
  /\ stray' = IF lock \in Writers \/ stray = "held" THEN "held" ELSE "free"
  /\ job' = [job EXCEPT ![w] = <<>>]
  /\ shown' = [shown EXCEPT ![w] = IF alone[w] THEN <<>> ELSE NULL]
  /\ UNCHANGED <<module, registered, sysctls, ordered_list, nrpages, inside, found,
                 alone, writes, settings, touches>>

\* Files are read, written and dropped from the cache all the time.
Touch ==
  /\ touches < MaxTouches /\ touches' = touches + 1
  /\ \E ino \in AllInodes : \E n \in Pages[ino] : nrpages' = [nrpages EXCEPT ![ino] = n]
  /\ UNCHANGED <<module, registered, sysctls, ordered_list, lock, calls, stray, writes, settings>>

Step(w) == Enter(w) \/ Leave(w) \/ PrintTests(w) \/ PrintEmpty(w)

Next ==
  \/ init \/ fini \/ Touch
  \/ \E w \in Writers : StoreSetting(w) \/ Step(w)
  \/ \E w \in Writers, n \in TopNs : scan_caches_sysctl_handler(w, n)

\* A handler runs in the kernel to its end, and a ticket or queued spinlock is
\* given to each of those who wait for it.
Fairness == \A w \in Writers : SF_vars(Step(w))

Spec == Init /\ [][Next]_vars /\ Fairness

------------------------------------------------------------------------------
(* Properties. *)

\* ordered_list_lock does its work: only one handler is in the list, up to
\* the first print of an empty list in the middle of another one's section.
Exclusive ==
  \A v, w \in Writers : inside[v] /\ inside[w] /\ v # w => stray = "held"

\* A call that ran alone prints the largest of what it found, largest first,
\* and no more than top_n; what has less than 1 KB is not printed.  However
\* calls overlap, and mix what they found, the list they print from is sorted.
TopShown ==
  /\ ordered_list # TORN =>
       \A i, j \in DOMAIN ordered_list : i < j => ordered_list[i].pages >= ordered_list[j].pages
  /\ \A w \in Writers :
       shown[w] # NULL /\ alone[w] =>
         LET lines == shown[w]
             real == SelectSeq(found[w], LAMBDA node : node.pages > 0)
             Times(seq, x) == Cardinality({i \in DOMAIN seq : seq[i] = x})
         IN  /\ \A i, j \in DOMAIN lines : i < j => lines[i].pages >= lines[j].pages
             /\ Len(lines) = Min({top_n, Len(real)})
             /\ \A x \in Range(lines) : Times(lines, x) <= Times(real, x)
             /\ \A x \in Range(real), y \in Range(lines) :
                  Times(lines, x) < Times(real, x) => x.pages <= y.pages

\* A write to pgcache_scan_top_n returns, unless the print of an empty list
\* has left a ticket spinlock that nobody can take.  The kzalloc(GFP_KERNEL) of
\* the scans, which may sleep although two spinlocks are held, is taken to
\* return.
WriteReturns ==
  \A w \in Writers : job[w] # <<>> ~> job[w] = <<>> \/ (lock = "stuck" /\ stray # "no")
==============================================================================
