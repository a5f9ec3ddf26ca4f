------------------------------ MODULE PageTypes ------------------------------
(***************************************************************************)
(* mem/vm/page-types.c: a run of the tool, from its options to the         *)
(* summary.  It walks the page frames of the machine, the address space of *)
(* a process or the cached pages of files, page by page, while the kernel  *)
(* goes on: what a read of /proc gives is any of the possible contents.    *)
(*                                                                         *)
(* Page flags are sets of bits.  An option's text is what it was split     *)
(* into: [n, sep, m] for addr-spec, [left, eq, right] for bits-spec with   *)
(* terms [not, name], where a name is a sequence of its parts, so that     *)
(* <<"swap">> is a prefix of <<"swap", "cache">>.                          *)
(***************************************************************************)
EXTENDS Integers, FiniteSets, SequencesExt

CONSTANTS
  NULL,
  ULONG_MAX, HASH_SHIFT, MAX_ADDR_RANGES, MAX_BIT_FILTERS, MAX_VMAS, PAGEMAP_BATCH,
  WORD,        \* pages in a word of the idle bitmap
  MaxPfn,      \* the page frames of the machine are 0 .. MaxPfn - 1
  KFlags,      \* contents of /proc/kpageflags
  Pmes,        \* contents of /proc/pid/pagemap: [bits, frame]
  Options      \* the command lines

VARIABLES
  opt,         \* the command line
  phase,       \* "parse", "walk", "done" or "fatal"
  next,        \* the address range or file that is walked
  index, end,  \* what is left of it (off and end in walk_file)
  queue,       \* pages of the current VMA or batch that are still to be read
  range,       \* the static variables of show_page_range
  out,         \* the lines printed by show_page_range and show_page
  heading,     \* the file named by the last show_file
  page_flags, nr_pages, total_pages,
  idle,        \* the static variables of mark_page_idle
  bitmap,      \* page frames reported idle to the kernel
  hw,          \* page frames written to corrupt-pfn and unpoison-pfn
  visited,     \* history: the pages that were looked at, in order
  seen,        \* history: what was read about those that exist
  exited       \* history: the process that is walked has ended

stats == <<page_flags, nr_pages, total_pages>>
listing == <<range, out, heading>>
effects == <<idle, bitmap, hw>>
walk == <<next, index, end, queue>>
history == <<visited, seen, exited>>
vars == <<opt, phase, walk, listing, stats, effects, history>>

------------------------------------------------------------------------------
(* Flags. *)

HASH_SIZE == 2 ^ HASH_SHIFT

\* In the order of the bits; the flags that some function treats specially.
page_flag_names == <<
  [bit |-> "LOCKED",         name |-> <<"locked">>],
  [bit |-> "ERROR",          name |-> <<"error">>],
  [bit |-> "ACTIVE",         name |-> <<"active">>],
  [bit |-> "SLAB",           name |-> <<"slab">>],
  [bit |-> "WRITEBACK",      name |-> <<"writeback">>],
  [bit |-> "RECLAIM",        name |-> <<"reclaim">>],
  [bit |-> "SWAPCACHE",      name |-> <<"swap", "cache">>],
  [bit |-> "COMPOUND_HEAD",  name |-> <<"compound", "_head">>],
  [bit |-> "COMPOUND_TAIL",  name |-> <<"compound", "_tail">>],
  [bit |-> "HUGE",           name |-> <<"huge">>],
  [bit |-> "PRIVATE",        name |-> <<"private">>],
  [bit |-> "PRIVATE_2",      name |-> <<"private", "_2">>],
  [bit |-> "SOFTDIRTY",      name |-> <<"softdirty">>],
  [bit |-> "READAHEAD",      name |-> <<"readahead">>],
  [bit |-> "SLOB_FREE",      name |-> <<"slob_free">>],
  [bit |-> "SLUB_FROZEN",    name |-> <<"slub_frozen">>],
  [bit |-> "SLUB_DEBUG",     name |-> <<"slub_debug">>],
  [bit |-> "FILE",           name |-> <<"file">>],
  [bit |-> "SWAP",           name |-> <<"swap">>],
  [bit |-> "MMAP_EXCLUSIVE", name |-> <<"mmap_exclusive">>] >>

KPF_ALL_BITS == {page_flag_names[b].bit : b \in DOMAIN page_flag_names}
KPF_HACKERS_BITS == {"PRIVATE", "PRIVATE_2", "SOFTDIRTY"}
BITS_COMPOUND == {"COMPOUND_HEAD", "COMPOUND_TAIL"}

\* The exclusive or of the code where the old bit is known to be set.
Rename(flags, old, new) ==
  IF old \in flags THEN (flags \ {old}) \cup {new} ELSE flags

expand_overloaded_flags(flags, pme) ==
  LET slab == IF "SLAB" \in flags
              THEN Rename(Rename(Rename(flags, "PRIVATE", "SLOB_FREE"),
                                 "ACTIVE", "SLUB_FROZEN"), "ERROR", "SLUB_DEBUG")
              ELSE flags
      read == IF "WRITEBACK" \in slab THEN slab ELSE Rename(slab, "RECLAIM", "READAHEAD")
  IN  read \cup (pme.bits \cap {"SOFTDIRTY", "FILE", "SWAP", "MMAP_EXCLUSIVE"})

well_known_flags(flags) ==
  flags \ (KPF_HACKERS_BITS \cup (IF "HUGE" \in flags THEN {} ELSE BITS_COMPOUND))

kpageflags_flags(flags, pme) ==
  IF opt.raw THEN expand_overloaded_flags(flags, pme) ELSE well_known_flags(flags)

------------------------------------------------------------------------------
(* Options. *)

\* MUTANT: a size without limit is not reduced by the offset.
parse_addr_range_NoLimit(spec) ==
  LET n == IF spec.n = NULL THEN 0 ELSE spec.n
      size == IF spec.sep = NULL THEN 1
              ELSE IF spec.m = NULL THEN ULONG_MAX
              ELSE IF spec.sep = "," THEN spec.m - n ELSE spec.m
  IN  IF size < 0 THEN NULL ELSE [offset |-> n, size |-> size]

\* parse_addr_range and add_addr_range; NULL when the range is invalid.
parse_addr_range(spec) ==
  LET n == IF spec.n = NULL THEN 0 ELSE spec.n
      size == IF spec.sep = NULL THEN 1
              ELSE IF spec.m = NULL THEN ULONG_MAX
              ELSE IF spec.sep = "," THEN spec.m - n ELSE spec.m
  IN  IF size < 0 THEN NULL
      ELSE [offset |-> n, size |-> Min({size, ULONG_MAX - n})]

\* The first flag, in the order of the bits, whose name begins with the text.
parse_flag_name(name) ==
  IF name = <<"compound">> THEN BITS_COMPOUND
  ELSE {page_flag_names[Min({b \in DOMAIN page_flag_names :
                               IsPrefix(name, page_flag_names[b].name)})].bit}

parse_flag_names(terms, all) ==
  UNION {parse_flag_name(t.name) : t \in {t \in Range(terms) : all \/ ~t.not}}

\* parse_bits_mask and add_bits_filter.
parse_bits_mask(spec) ==
  LET negated == ~spec.eq /\ \E t \in Range(spec.left) : t.not
  IN  [mask |-> IF spec.eq /\ spec.left = <<>> THEN KPF_ALL_BITS
                ELSE parse_flag_names(spec.left, negated),
       bits |-> IF spec.eq THEN parse_flag_names(spec.right, FALSE)
                ELSE IF negated THEN parse_flag_names(spec.left, FALSE)
                ELSE KPF_ALL_BITS]

bit_mask_ok(flags) ==
  \A i \in DOMAIN opt.bits :
    LET f == parse_bits_mask(opt.bits[i])
    IN  IF f.bits = KPF_ALL_BITS THEN flags \cap f.mask # {}
                                 ELSE flags \cap f.mask = f.bits

\* parse_pid: the lines of /proc/pid/maps, [start, end], up to the limit.
vmas == SubSeq(opt.maps, 1, MAX_VMAS)

\* Without -a everything is walked.
addr_ranges ==
  IF opt.addr = <<>> THEN <<[offset |-> 0, size |-> ULONG_MAX]>>
  ELSE [i \in DOMAIN opt.addr |-> parse_addr_range(opt.addr[i])]

NoRange == [voff |-> 0, index |-> 0, count |-> 0, flags |-> {}, cgroup |-> 0, mapcnt |-> 0]

Init ==
  /\ opt \in Options
  /\ phase = "parse"
  /\ next = 0 /\ index = 0 /\ end = 0 /\ queue = <<>>
  /\ range = NoRange
  /\ out = <<>> /\ heading = NULL
  /\ page_flags = [k \in 0 .. HASH_SIZE - 1 |-> {}]
  /\ nr_pages = [k \in 0 .. HASH_SIZE - 1 |-> 0]
  /\ total_pages = 0
  /\ idle = [buf |-> {}, off |-> 0]
  /\ bitmap = {}
  /\ hw = {}
  /\ visited = <<>>
  /\ seen = <<>>
  /\ exited = FALSE

\* main, up to the walk.
main_parse ==
  /\ phase = "parse"
  /\ phase' = IF \/ Len(opt.addr) > MAX_ADDR_RANGES
                 \/ Len(opt.bits) > MAX_BIT_FILTERS
                 \/ NULL \in Range(addr_ranges)
              THEN "fatal" ELSE "walk"
  /\ UNCHANGED <<opt, walk, listing, stats, effects, history>>

------------------------------------------------------------------------------
(* The list and the summary. *)

Line(r) == [voffset |-> r.voff, offset |-> r.index, count |-> r.count,
            flags |-> r.flags, cgroup |-> r.cgroup, file |-> heading]

Flushed == IF range.count > 0 THEN Append(out, Line(range)) ELSE out

\* MUTANT: the offsets in the address space are not compared.
Continues_PfnOnly(p) ==
  /\ p.flags = range.flags /\ p.cgroup = range.cgroup /\ p.mapcnt = range.mapcnt
  /\ p.index = range.index + range.count

Continues(p) ==
  /\ p.flags = range.flags /\ p.cgroup = range.cgroup /\ p.mapcnt = range.mapcnt
  /\ p.index = range.index + range.count
  /\ p.voff = range.voff + range.count

show_page_range(p) ==
  IF Continues(p) THEN range' = [range EXCEPT !.count = @ + 1] /\ UNCHANGED out
                  ELSE range' = p /\ out' = Flushed

show_page(p) == out' = Append(out, Line(p)) /\ UNCHANGED range

\* show_page_range with a size of 0.
flush_page_range == range' = NoRange /\ out' = Flushed

\* MUTANT: slot 0 is not reserved.
hash_slot_NoReserved(flags) ==
  LET key == SumSet({2 ^ (b - 1) : b \in {b \in 1 .. HASH_SHIFT : page_flag_names[b].bit \in flags}})
      probe(i) == (key + i) % HASH_SIZE
      hits == {i \in 0 .. HASH_SIZE - 1 : page_flags[probe(i)] \in {{}, flags}}
  IN  IF hits = {} THEN NULL ELSE probe(Min(hits))

\* The slot of a combination of flags; NULL when the table is full.
hash_slot(flags) ==
  LET key == SumSet({2 ^ (b - 1) : b \in {b \in 1 .. HASH_SHIFT : page_flag_names[b].bit \in flags}})
      probe(i) == 1 + ((Max({key, 1}) - 1 + i) % (HASH_SIZE - 1))
      hits == {i \in 0 .. HASH_SIZE - 2 : page_flags[probe(i)] \in {{}, flags}}
  IN  IF flags = {} THEN 0 ELSE IF hits = {} THEN NULL ELSE probe(Min(hits))

\* The last part of add_page and walk_swap.
Report(p) ==
  LET slot == hash_slot(p.flags)
  IN  /\ CASE opt.list = 0 -> UNCHANGED <<range, out>>
           [] opt.list = 1 -> show_page_range(p)
           [] opt.list = 2 -> show_page(p)
      /\ IF slot = NULL
         THEN phase' = "fatal" /\ UNCHANGED stats
         ELSE /\ page_flags' = [page_flags EXCEPT ![slot] = p.flags]
              /\ nr_pages' = [nr_pages EXCEPT ![slot] = @ + 1]
              /\ total_pages' = total_pages + 1
              /\ UNCHANGED phase

\* page_idle_fd is opened only with -f; writing fails otherwise.
mark_page_idle(offset) ==
  IF idle.buf = {} \/ offset \div WORD = idle.off \div WORD
  THEN /\ idle' = [buf |-> idle.buf \cup {offset % WORD}, off |-> offset]
       /\ UNCHANGED bitmap
  ELSE IF opt.files = <<>> THEN UNCHANGED <<idle, bitmap>>
  ELSE /\ idle' = [buf |-> {offset % WORD}, off |-> offset]
       /\ bitmap' = bitmap \cup {(idle.off \div WORD) * WORD + b : b \in idle.buf}

\* What is known of a page once it has been read; the name of its file.
Saw(p, present) ==
  seen' = Append(seen, [present |-> present,
                        page |-> [voffset |-> p.voff, offset |-> p.index, count |-> 1,
                                  flags |-> p.flags, cgroup |-> p.cgroup,
                                  file |-> IF opt.files = <<>> THEN NULL ELSE next]])

add_page(p) ==
  IF bit_mask_ok(p.flags) /\ opt.cgroup \in {0, p.cgroup}
  THEN /\ hw' = hw \cup {<<op, p.index>> : op \in opt.hwpoison}
       /\ IF opt.mark_idle THEN mark_page_idle(p.index) ELSE UNCHANGED <<idle, bitmap>>
       /\ Report(p)
  ELSE UNCHANGED <<phase, range, out, stats, effects>>

------------------------------------------------------------------------------
(* The walk. *)

\* A set of page offsets as a sequence.
InOrder(pages) == SelectSeq([i \in 1 .. ULONG_MAX |-> i - 1], LAMBDA x : x \in pages)

ByFrame == opt.maps = NULL /\ opt.files = <<>>
ByTask == opt.maps # NULL
ByFile == opt.files # <<>>

\* One frame of walk_pfn, or one page of walk_file: the three files about
\* page frames are read.  kpagecgroup and kpagecount are read when an option
\* asks for it; the count is not initialised otherwise, except in walk_file.
ReadFrame(voffset, pfn, pme) ==
  \E flags \in KFlags,
     cgroup \in (IF opt.cgroups THEN {0, 1} ELSE {0}),
     mapcnt \in (IF ByFile /\ ~opt.mapcnt THEN {0} ELSE {0, 1}) :
    LET p == [voff |-> voffset, index |-> pfn, count |-> 1, cgroup |-> cgroup,
              mapcnt |-> mapcnt, flags |-> kpageflags_flags(flags, pme)]
    IN  Saw(p, TRUE) /\ add_page(p)

\* The next page of the queue is done.
Pop ==
  /\ queue' = Tail(queue)
  /\ visited' = Append(visited, Head(queue))
  /\ UNCHANGED <<opt, next, index, end, heading, exited>>

\* walk_addr_ranges: the next range.
walk_addr_ranges ==
  /\ phase = "walk" /\ ~ByFile
  /\ index = end /\ queue = <<>> /\ next < Len(addr_ranges)
  /\ next' = next + 1
  /\ index' = addr_ranges[next'].offset
  /\ end' = index' + addr_ranges[next'].size
  /\ UNCHANGED <<opt, phase, queue, listing, stats, effects, history>>

\* walk_pfn: the next batch, which ends with the last frame of the machine.
walk_pfn ==
  /\ phase = "walk" /\ ByFrame
  /\ index < end /\ queue = <<>>
  /\ LET stop == Min({end, index + PAGEMAP_BATCH, MaxPfn})
     IN  /\ queue' = [i \in 1 .. stop - index |-> index + i - 1]
         /\ index' = IF stop <= index THEN end ELSE stop
  /\ UNCHANGED <<opt, phase, next, end, listing, stats, effects, history>>

walk_pfn_page ==
  /\ phase = "walk" /\ ByFrame
  /\ queue # <<>>
  /\ ReadFrame(Head(queue), Head(queue), [bits |-> {}, frame |-> 0])
  /\ Pop

\* MUTANT: a VMA is not cut off at the end of the range.
walk_task_NoEnd ==
  /\ phase = "walk" /\ ByTask
  /\ index < end /\ queue = <<>>
  /\ LET later == {i \in DOMAIN vmas : vmas[i].end > index}
         v == vmas[Min(later)]
         start == Max({v.start, index})
     IN  IF later = {} \/ v.start >= end
         THEN index' = end /\ UNCHANGED queue
         ELSE /\ index' = Min({v.end, end})
              /\ queue' = [i \in 1 .. v.end - start |-> start + i - 1]
  /\ UNCHANGED <<opt, phase, next, end, listing, stats, effects, history>>

\* walk_task: the part of the next VMA in the range goes to walk_vma.
walk_task ==
  /\ phase = "walk" /\ ByTask
  /\ index < end /\ queue = <<>>
  /\ LET later == {i \in DOMAIN vmas : vmas[i].end > index}
         v == vmas[Min(later)]
         start == Max({v.start, index})
     IN  IF later = {} \/ v.start >= end
         THEN index' = end /\ UNCHANGED queue
         ELSE /\ index' = Min({v.end, end})
              /\ queue' = [i \in 1 .. index' - start |-> start + i - 1]
  /\ UNCHANGED <<opt, phase, next, end, listing, stats, effects, history>>

pagemap_pfn(pme) == IF "PRESENT" \in pme.bits THEN pme.frame ELSE 0

\* MUTANT: walk_swap goes through add_page.
walk_swap_AddPage(p) == add_page(p)

walk_swap(p) ==
  /\ IF bit_mask_ok(p.flags) /\ opt.cgroup = 0 THEN Report(p)
     ELSE UNCHANGED <<phase, range, out, stats>>
  /\ UNCHANGED effects

\* walk_vma: a page of the address space; it is not both present and in swap.
walk_vma_page(pme) ==
  /\ phase = "walk" /\ ByTask
  /\ queue # <<>> /\ ~exited
  /\ IF pagemap_pfn(pme) # 0 THEN ReadFrame(Head(queue), pagemap_pfn(pme), pme)
     ELSE IF "SWAP" \in pme.bits
     THEN LET p == [voff |-> Head(queue), index |-> pme.frame, count |-> 1, cgroup |-> 0,
                    mapcnt |-> 0, flags |-> kpageflags_flags({}, pme)]
          IN  Saw(p, FALSE) /\ walk_swap(p)
     ELSE UNCHANGED <<phase, range, out, stats, effects, seen>>
  /\ Pop

\* walk_vma: the process has ended and nothing more is read.
walk_vma_exited ==
  /\ phase = "walk" /\ ByTask
  /\ queue # <<>>
  /\ exited' = TRUE
  /\ queue' = <<>>
  /\ UNCHANGED <<opt, phase, next, index, end, listing, stats, effects, visited, seen>>

\* walk_page_cache and walk_tree: the next file; its size is that of stat.
walk_tree ==
  /\ phase = "walk" /\ ByFile
  /\ index >= end /\ queue = <<>> /\ next < Len(opt.files)
  /\ next' = next + 1
  /\ index' = 0
  /\ end' = opt.files[next']
  /\ UNCHANGED <<opt, phase, queue, listing, stats, effects, history>>

\* walk_file: a batch is mapped and the cached pages, vec, are touched.  The
\* file may have been truncated to size: touching a page behind that ends in
\* sigbus_handler, and end becomes the offset in the mapping.  Some of the
\* touched pages are still mapped when pagemap is read.
walk_file ==
  /\ phase = "walk" /\ ByFile
  /\ index < end /\ queue = <<>>
  /\ LET stop == Min({end, index + PAGEMAP_BATCH})
     IN  /\ \E size \in 0 .. end, vec \in SUBSET (index .. stop - 1) :
              LET behind == {i \in vec : i >= size}
                  touched == {i \in vec : \A j \in behind : i < j}
              IN  /\ end' = IF behind = {} THEN end ELSE Min(behind) - index
                  /\ \E mapped \in SUBSET touched : queue' = InOrder(mapped)
         /\ index' = stop
  /\ UNCHANGED <<opt, phase, next, listing, stats, effects, history>>

\* walk_file: before the first page of a file in a list.
walk_file_heading ==
  /\ phase = "walk" /\ ByFile
  /\ queue # <<>> /\ opt.list # 0 /\ heading # next
  /\ flush_page_range
  /\ heading' = next
  /\ UNCHANGED <<opt, phase, walk, stats, effects, history>>

walk_file_page(pme) ==
  /\ phase = "walk" /\ ByFile
  /\ queue # <<>> /\ (opt.list = 0 \/ heading = next)
  /\ pagemap_pfn(pme) # 0
  /\ ReadFrame(Head(queue), pagemap_pfn(pme), pme)
  /\ Pop

\* main, after the walk.  mark_page_idle(0) of walk_addr_ranges is to write
\* the last word, for which the file has not been opened.
main_finish ==
  /\ phase = "walk"
  /\ index >= end /\ queue = <<>>
  /\ next = IF ByFile THEN Len(opt.files) ELSE Len(addr_ranges)
  /\ phase' = "done"
  /\ IF opt.list = 1 THEN flush_page_range ELSE UNCHANGED <<range, out>>
  /\ IF opt.mark_idle /\ ~ByFile THEN mark_page_idle(0) ELSE UNCHANGED <<idle, bitmap>>
  /\ UNCHANGED <<opt, walk, heading, stats, hw, history>>

Next ==
  \/ main_parse
  \/ walk_addr_ranges \/ walk_pfn \/ walk_pfn_page
  \/ walk_task \/ walk_vma_exited \/ \E pme \in Pmes : walk_vma_page(pme)
  \/ walk_tree \/ walk_file \/ walk_file_heading
  \/ \E pme \in Pmes : walk_file_page(pme)
  \/ main_finish

Spec == Init /\ [][Next]_vars

------------------------------------------------------------------------------
(* Properties.  The right-hand sides are from the text of usage. *)

\* addr-spec: "N", "N+M" (N to N+M-1), "N,M" (N to M-1), "N," and ",M".
AddrSpec(spec) ==
  LET n == IF spec.n = NULL THEN 0 ELSE spec.n
  IN  {x \in 0 .. ULONG_MAX - 1 :
         /\ x >= n
         /\ spec.sep = NULL => x = n
         /\ spec.sep = "+" => x < n + spec.m
         /\ spec.sep = "," /\ spec.m # NULL => x < spec.m}

\* The pages of one option, of the machine or of the process, in order.
Asked(spec) ==
  LET there == IF ByTask THEN UNION {vmas[i].start .. vmas[i].end - 1 : i \in DOMAIN vmas}
               ELSE 0 .. MaxPfn - 1
  IN  InOrder(AddrSpec(spec) \cap there)

AllAsked ==
  IF opt.addr = <<>> THEN Asked([n |-> NULL, sep |-> ",", m |-> NULL])
  ELSE FlattenSeq([i \in DOMAIN opt.addr |-> Asked(opt.addr[i])])

\* bits-spec: "bit1,bit2", "bit1,bit2=bit1", "bit1,~bit2" and "=bit1,bit2".
BitsSpec(spec, flags) ==
  LET bits(terms) == UNION {parse_flag_name(t.name) : t \in Range(terms)}
      plain(terms) == {t \in Range(terms) : ~t.not}
  IN  CASE spec.eq /\ spec.left = <<>> -> flags = bits(spec.right)
        [] spec.eq /\ spec.left # <<>> -> flags \cap bits(spec.left) = bits(spec.right)
        [] ~spec.eq /\ plain(spec.left) = Range(spec.left) -> flags \cap bits(spec.left) # {}
        [] OTHER -> \A t \in Range(spec.left) :
                      t.not <=> parse_flag_name(t.name) \cap flags = {}

\* -c is "Walk pages within memory cgroup".
Accepted ==
  SelectSeq(seen, LAMBDA p : /\ \A i \in DOMAIN opt.bits : BitsSpec(opt.bits[i], p.page.flags)
                             /\ opt.cgroup \in {0, p.page.cgroup})
AcceptedFrames == {p.page.offset : p \in {p \in Range(Accepted) : p.present}}

\* Type invariant; addresses do not leave the range of unsigned long.
TypeOK ==
  /\ opt \in Options
  /\ phase \in {"parse", "walk", "done", "fatal"}
  /\ next \in Nat
  /\ index \in 0 .. ULONG_MAX /\ end \in 0 .. ULONG_MAX
  /\ queue \in Seq(0 .. ULONG_MAX - 1)
  /\ range.count \in Nat /\ range.flags \subseteq KPF_ALL_BITS
  /\ \A k \in 0 .. HASH_SIZE - 1 : page_flags[k] \subseteq KPF_ALL_BITS /\ nr_pages[k] \in Nat
  /\ total_pages \in Nat
  /\ idle.buf \subseteq 0 .. WORD - 1
  /\ exited \in BOOLEAN

\* walk_pfn and walk_task, with their batches, overlapping options, VMAs that
\* begin before or end behind a range, and gaps, look at the pages that were
\* asked for, each once and in order.  walk_file goes forward in each file.
Walked ==
  IF ByFile
  THEN \A i, j \in DOMAIN seen :
         LET p == seen[i].page  q == seen[j].page
         IN  i < j => p.file < q.file \/ (p.file = q.file /\ p.voffset < q.voffset)
  ELSE /\ IsPrefix(visited, AllAsked)
       /\ phase = "done" /\ ~exited => visited = AllAsked

\* The ranges of show_page_range, with the one still collected in its static
\* variables, stand for exactly the pages accepted by the filters: none is
\* lost, moved, merged with another kind or listed under another file.
Listed ==
  LET lines == IF range.count > 0 THEN Append(out, Line(range)) ELSE out
      pages(l) == [i \in 1 .. l.count |->
                     [l EXCEPT !.voffset = @ + i - 1, !.offset = @ + i - 1, !.count = 1]]
      accepted == Accepted
  IN  opt.list # 0 => FlattenSeq([i \in DOMAIN lines |-> pages(lines[i])])
                        = [i \in DOMAIN accepted |-> accepted[i].page]

\* show_summary prints each combination of flags once, with the number of
\* accepted pages that have it, although the hash table has collisions and
\* uses 0 both for no flags and for a free slot.
Counted ==
  LET used == {k \in DOMAIN nr_pages : nr_pages[k] > 0}
      accepted == Accepted
  IN  phase # "fatal" =>
        /\ total_pages = Len(accepted)
        /\ {page_flags[k] : k \in used} = {p.page.flags : p \in Range(accepted)}
        /\ \A k \in used :
             nr_pages[k] = Len(SelectSeq(accepted, LAMBDA p : p.page.flags = page_flags[k]))

\* -X and -x reach exactly the accepted page frames, never a swap offset.
\* What -i has recorded is accepted, and with -f nothing is lost but what is
\* still in the buffer of mark_page_idle.
ActedOnAccepted ==
  LET frames == AcceptedFrames
      buffered == {(idle.off \div WORD) * WORD + b : b \in idle.buf}
  IN  /\ hw = {<<op, f>> : op \in opt.hwpoison, f \in frames}
      /\ opt.mark_idle /\ ByFile => frames = bitmap \cup buffered

\* usage: "-i|--mark-idle             Mark pages idle"; here for files, where
\* main has opened the bitmap.
MarkedIdle ==
  phase = "done" /\ opt.mark_idle /\ ByFile =>
    AcceptedFrames \subseteq bitmap
=============================================================================
