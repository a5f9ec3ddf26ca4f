---------------------------- MODULE PageOwnerSort ----------------------------
(***************************************************************************)
(* mem/vm/page_owner_sort.c: counts how often each record of page_owner    *)
(* occurs and lists the records by this number.  A line of the input is    *)
(* 0 (empty), -1 (it begins with PFN) or a number that stands for its      *)
(* place in the order of strcmp; a line is one unit long.                  *)
(***************************************************************************)
EXTENDS Integers, Sequences, FiniteSets, SequencesExt

CONSTANTS
  Inputs,       \* sequences of lines
  BUF_SIZE,     \* size of buf, in lines
  UNIT          \* st_size / 100: this many lines make room for one element

VARIABLES
  fin,          \* the lines still to be read
  input,        \* history: the whole input
  list,         \* elements [txt, num]
  list2,
  pc            \* "read", "sort", "cull", "sort2", "done", "exit"

vars == <<fin, input, list, list2, pc>>

max_size == Len(input) \div UNIT

Init ==
  /\ input \in Inputs /\ fin = input
  /\ list = <<>> /\ list2 = <<>>
  /\ pc = "read"

------------------------------------------------------------------------------
Text(s) == SelectSeq(s, LAMBDA line : line > 0)

\* The end of the next block in fin: the first empty line, or 0 if the file
\* ends, or buf is full, before it.
BlockEnd ==
  LET empty == {i \in DOMAIN fin : fin[i] = 0}
      first == IF empty = {} THEN 0 ELSE CHOOSE i \in empty : \A j \in empty : i <= j
  IN  IF first = 0 \/ Len(Text(SubSeq(fin, 1, first))) >= BUF_SIZE - 1 THEN 0 ELSE first

\* MUTANT: only the lengths are compared.
Equal_Length(buf) == list # <<>> /\ Len(buf) = Len(Last(list).txt)

\* add_list: a block equal to the one before.
Equal(buf) == list # <<>> /\ buf = Last(list).txt

add_list(buf) ==
  \/ /\ Equal(buf)
     /\ list' = [list EXCEPT ![Len(list)].num = @ + 1]
     /\ UNCHANGED pc
  \/ /\ ~Equal(buf) /\ Len(list) = max_size
     /\ pc' = "exit"
     /\ UNCHANGED list
  \/ /\ ~Equal(buf) /\ Len(list) # max_size
     /\ list' = Append(list, [txt |-> buf, num |-> 1])
     /\ UNCHANGED pc

read_block ==
  /\ pc = "read"
  /\ IF BlockEnd = 0
     THEN pc' = "sort" /\ UNCHANGED <<fin, list>>
     ELSE /\ add_list(Text(SubSeq(fin, 1, BlockEnd)))
          /\ fin' = SubSeq(fin, BlockEnd + 1, Len(fin))
  /\ UNCHANGED <<input, list2>>

\* strcmp(s, t) < 0
Before(s, t) ==
  \E i \in 1 .. Len(t) :
    /\ SubSeq(s, 1, i - 1) = SubSeq(t, 1, i - 1)
    /\ Len(s) >= i - 1 /\ (Len(s) >= i => s[i] < t[i])

\* qsort is not stable: any permutation in order will do.
Rearranged(s) == {[i \in DOMAIN s |-> s[f[i]]] : f \in Permutations(DOMAIN s)}

\* MUTANT: the first sort is left out.
compare_txt_Equal(a, b) == TRUE

compare_txt(a, b) == ~Before(b.txt, a.txt)

compare_num(a, b) == a.num >= b.num

qsort_txt ==
  /\ pc = "sort"
  /\ list' \in {p \in Rearranged(list) : \A i \in 1 .. Len(p) - 1 : compare_txt(p[i], p[i + 1])}
  /\ pc' = "cull"
  /\ UNCHANGED <<fin, input, list2>>

\* One step of the loop: e is a new record, or one more of the last.
Merge(l2, e) ==
  IF l2 = <<>> \/ Last(l2).txt # e.txt THEN Append(l2, e)
  ELSE [l2 EXCEPT ![Len(l2)].num = @ + e.num]

cull ==
  /\ pc = "cull"
  /\ list2' = FoldLeft(Merge, <<>>, list)
  /\ pc' = "sort2"
  /\ UNCHANGED <<fin, input, list>>

qsort_num ==
  /\ pc = "sort2"
  /\ list2' \in {p \in Rearranged(list2) : \A i \in 1 .. Len(p) - 1 : compare_num(p[i], p[i + 1])}
  /\ pc' = "done"
  /\ UNCHANGED <<fin, input, list>>

Next == read_block \/ qsort_txt \/ cull \/ qsort_num

Spec == Init /\ [][Next]_vars

------------------------------------------------------------------------------
(* Properties. *)

\* The blocks of the input, by their ends, up to the first that buf is too
\* small for; text behind the last empty line is in no block.
Ends == {j \in DOMAIN input : input[j] = 0}
BlockAt(j) ==
  LET before == {i \in Ends : i < j}
      start == IF before = {} THEN 1 ELSE 1 + (CHOOSE i \in before : \A k \in before : k <= i)
  IN  Text(SubSeq(input, start, j))
Fitting == {j \in Ends : \A i \in Ends : i <= j => Len(BlockAt(i)) <= BUF_SIZE - 2}

\* The output lists every record once, with the number of blocks that consist
\* of it, most frequent first: equal blocks are counted together whether they
\* follow each other in the input or are brought together by the sort.
Counted ==
  pc = "done" =>
    /\ \A i, j \in DOMAIN list2 : i < j => list2[i].txt # list2[j].txt /\ list2[i].num >= list2[j].num
    /\ {list2[i].txt : i \in DOMAIN list2} = {BlockAt(j) : j \in Fitting}
    /\ \A i \in DOMAIN list2 : list2[i].num = Cardinality({j \in Fitting : BlockAt(j) = list2[i].txt})
==============================================================================
