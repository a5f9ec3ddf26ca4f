------------------------------- MODULE Fincore -------------------------------
(***************************************************************************)
(* mem/linux-ftools/linux-fincore.c: how much of each file named on the    *)
(* command line is in the page cache.  A run of fincore() is one action:   *)
(* it prints at its end, and what mincore answers is any set of pages.     *)
(* mincore_vec and file_mmap are not initialised before the first goto     *)
(* cleanup, the vector is read one behind its end when the size is a       *)
(* multiple of the page size, and pages behind the last whole region are   *)
(* counted behind the table: each is a choice between its outcomes.        *)
(***************************************************************************)
EXTENDS Integers, Sequences, FiniteSets, FiniteSetsExt, SequencesExt

CONSTANTS
  page_size, nr_regions,
  Options,      \* [min_size, min_cached_size, min_cached_perc, only_cached]
  Arguments     \* sequences of sizes of files

VARIABLES
  opt, argv,    \* argv: the files still to come
  regions,      \* the table, used again for every file
  rows,         \* what is printed of a file, with the answer of mincore as history
  total_cached_size,
  pc            \* "files", "exit" (status 1), "died", or "done"

vars == <<opt, argv, regions, rows, total_cached_size, pc>>

Regions == 0 .. nr_regions - 1
NoRegions == [r \in Regions |-> 0]

Init ==
  /\ opt \in Options /\ argv \in Arguments
  /\ regions = NoRegions
  /\ rows = <<>>
  /\ total_cached_size = 0
  /\ pc = "files"

------------------------------------------------------------------------------
total_pages(size) == (size + page_size - 1) \div page_size

region_ptr(size) == (total_pages(size) - 1) \div nr_regions

\* MUTANT: the table is set to 0 only when it is allocated.
Counts_NoReset(size, cached) ==
  [r \in Regions |-> regions[r] + Cardinality({p \in cached : region_ptr(size) > 0 /\ p \div region_ptr(size) = r})]

\* The table after the loop over the pages.
Counts(size, cached) ==
  [r \in Regions |-> Cardinality({p \in cached : region_ptr(size) > 0 /\ p \div region_ptr(size) = r})]

\* Pages that are counted behind the end of the table.
Beyond(size, cached) == {p \in cached : region_ptr(size) > 0 /\ p \div region_ptr(size) >= nr_regions}

\* MUTANT: the loop ends one page early.
Found_Short(size, resident) == {{p \in resident : p < size \div page_size}}

\* Pages found in the vector: the resident ones, or one more behind its end.
Found(size, resident) ==
  {resident} \cup (IF size % page_size = 0 THEN {resident \cup {size \div page_size}} ELSE {})

\* The thresholds of -S, -C and -P: a file must be above each.
Filtered(size, cached) ==
  LET cached_size == Cardinality(cached) * page_size
  IN  \/ opt.min_cached_size > 0 /\ cached_size <= opt.min_cached_size
      \/ /\ opt.min_cached_perc > 0
         /\ 100 * Cardinality(cached) <= opt.min_cached_perc * total_pages(size)
      \/ opt.min_size > 0 /\ size <= opt.min_size

\* min_cached_page: -1 if nothing is cached.
min_cached_page(cached) == IF cached = {} THEN -1 ELSE Min(cached)

\* What is printed of a file, unless -c leaves it out.
Row(size, resident, cached) ==
  IF opt.only_cached /\ cached = {} THEN <<>>
  ELSE <<[size |-> size, resident |-> resident, cached |-> Cardinality(cached),
          first |-> min_cached_page(cached), regions |-> regions']>>

\* MUTANT: the result is filled in before the thresholds.
Report_Early(size, resident, cached) ==
  /\ rows' = IF Filtered(size, cached) THEN rows ELSE rows \o Row(size, resident, cached)
  /\ total_cached_size' = total_cached_size + Cardinality(cached) * page_size

\* From the thresholds to the end.
Report(size, resident, cached) ==
  IF Filtered(size, cached) THEN UNCHANGED <<rows, total_cached_size>>
  ELSE /\ rows' = rows \o Row(size, resident, cached)
       /\ total_cached_size' = total_cached_size + Cardinality(cached) * page_size

\* open fails: return.  fstat or mmap fails, or the file is empty: what is
\* freed and unmapped is whatever the two variables hold.
Skip ==
  /\ pc' \in {"files", "died"}
  /\ regions' = NoRegions
  /\ UNCHANGED <<rows, total_cached_size>>

\* calloc or mincore fails.
Exit ==
  /\ pc' = "exit"
  /\ regions' = NoRegions
  /\ UNCHANGED <<rows, total_cached_size>>

Measure(size) ==
  \E resident \in SUBSET (0 .. total_pages(size) - 1) : \E cached \in Found(size, resident) :
    /\ pc' \in {"files"} \cup (IF Beyond(size, cached) # {} THEN {"died"} ELSE {})
    /\ regions' = Counts(size, cached)
    /\ IF pc' = "died" THEN UNCHANGED <<rows, total_cached_size>> ELSE Report(size, resident, cached)

fincore ==
  /\ pc = "files" /\ argv # <<>>
  /\ argv' = Tail(argv)
  /\ LET size == Head(argv)
     IN  \/ Skip
         \/ size > 0 /\ Exit
         \/ size > 0 /\ Measure(size)
  /\ UNCHANGED opt

\* The end of main, with the summary of -s.
summarize ==
  /\ pc = "files" /\ argv = <<>>
  /\ pc' = "done"
  /\ UNCHANGED <<opt, argv, regions, rows, total_cached_size>>

Next == fincore \/ summarize

Spec == Init /\ [][Next]_vars

------------------------------------------------------------------------------
(* Properties. *)

\* The pages counted for a file are the resident ones, with at most one more,
\* and that only if the size is a multiple of the page size; the first cached
\* page is right whenever there is one.
Counted ==
  \A row \in Range(rows) :
    /\ row.cached - Cardinality(row.resident) \in IF row.size % page_size = 0 THEN 0 .. 1 ELSE {0}
    /\ row.resident # {} => row.first = Min(row.resident)

\* The bars of a graph are about this file: no region has more pages than fit
\* into it, and the table holds every resident page of the whole regions,
\* although the table is shared by all files and overrun by the rest.
Drawn ==
  \A row \in Range(rows) :
    LET whole == nr_regions * region_ptr(row.size)
    IN  /\ \A r \in Regions : row.regions[r] <= region_ptr(row.size)
        /\ MapThenSumSet(LAMBDA r : row.regions[r], Regions) = Cardinality({p \in row.resident : p < whole})

\* The summary is the sum of the sizes listed: files below a threshold are
\* not in it, and files left out by -c add nothing.
Summed == total_cached_size = FoldLeft(LAMBDA sum, row : sum + row.cached * page_size, 0, rows)
==============================================================================
