------------------------------ MODULE IrqOffShow ------------------------------
(***************************************************************************)
(* trace/trace-irqoff/trace_irqoff.c: reading /proc/trace_irqoff/          *)
(* trace_latency while the CPU whose stacks are printed saves another one  *)
(* and its buffer is cleared.  IrqOff takes save_trace as one step, which  *)
(* it is for its own CPU; here, for a reader on another CPU, it is not.    *)
(* The stores of save_trace before the smp_store_release may be seen in    *)
(* any order, but none of them after it.                                   *)
(*                                                                         *)
(* A saved stack has two parts: "head" (comms, pids, latency) and "stack"  *)
(* (trace and its frames).  The value of a part is the number of the       *)
(* record it was stored for.                                               *)
(***************************************************************************)
EXTENDS Naturals, Sequences

CONSTANTS
  NULL,
  MAX_STACE_TRACE_ENTRIES,   \* stacks in the buffer
  MaxRecords, MaxClears      \* bounds: records made, buffers cleared

VARIABLES
  nr_irqoff_trace,
  slot,       \* slot[k][part]: the record the part was stored for
  records,    \* records made so far
  filling,    \* the parts save_trace has not stored yet, or NULL
  reader,     \* the call of trace_latency_show_one, or NULL
  shown,      \* what the reader has printed: <<head, stack>> pairs
  clears

show == <<nr_irqoff_trace, slot, records, filling, reader, shown>>

Part == {"head", "stack"}
SlotIdx == 0 .. (MAX_STACE_TRACE_ENTRIES - 1)

\* A call of trace_latency_show_one: the number of stacks it has read, the one
\* it is at, and the head it has printed for that one.
Reading == [nr : Nat, i : Nat, head : Nat \cup {NULL}]

ASSUME ShowAssumption ==
  /\ MAX_STACE_TRACE_ENTRIES \in Nat
  /\ NULL \notin Nat /\ NULL \notin Reading
  /\ \A parts \in SUBSET Part : parts # NULL

ShowInit ==
  /\ nr_irqoff_trace = 0
  /\ slot = [k \in SlotIdx |-> [part \in Part |-> 0]]
  /\ records = 0
  /\ filling = NULL
  /\ reader = NULL
  /\ shown = <<>>
  /\ clears = 0

------------------------------------------------------------------------------
\* save_trace: there is room.
save_trace ==
  /\ filling = NULL
  /\ nr_irqoff_trace < MAX_STACE_TRACE_ENTRIES
  /\ records < MaxRecords
  /\ records' = records + 1
  /\ filling' = Part
  /\ UNCHANGED <<nr_irqoff_trace, slot, reader, shown, clears>>

\* save_trace: one part becomes visible.
store_part(part) ==
  /\ filling # NULL /\ part \in filling
  /\ slot' = [slot EXCEPT ![nr_irqoff_trace][part] = records]
  /\ filling' = filling \ {part}
  /\ UNCHANGED <<nr_irqoff_trace, records, reader, shown, clears>>

\* MUTANT: a plain store of nr_irqoff_trace, which may overtake the others.
store_release_Plain ==
  /\ filling # NULL
  /\ nr_irqoff_trace' = nr_irqoff_trace + 1
  /\ filling' = NULL
  /\ UNCHANGED <<slot, records, reader, shown, clears>>

\* save_trace: smp_store_release, after all other stores.
store_release ==
  /\ filling = {}
  /\ nr_irqoff_trace' = nr_irqoff_trace + 1
  /\ filling' = NULL
  /\ UNCHANGED <<slot, records, reader, shown, clears>>

\* smp_clear_stack_trace, in an interrupt: never within save_trace.
smp_clear_stack_trace ==
  /\ filling = NULL
  /\ clears < MaxClears
  /\ clears' = clears + 1
  /\ nr_irqoff_trace' = 0
  /\ UNCHANGED <<slot, records, filling, reader, shown>>

\* trace_latency_show_one: smp_load_acquire of nr_irqoff_trace.
trace_latency_show_one ==
  /\ reader = NULL
  /\ reader' = IF nr_irqoff_trace = 0 THEN NULL
               ELSE [nr |-> nr_irqoff_trace, i |-> 0, head |-> NULL]
  /\ shown' = <<>>
  /\ UNCHANGED <<nr_irqoff_trace, slot, records, filling, clears>>

\* The line with command, pid and latency is printed.
show_head ==
  /\ reader # NULL /\ reader.head = NULL
  /\ reader' = [reader EXCEPT !.head = slot[reader.i]["head"]]
  /\ UNCHANGED <<nr_irqoff_trace, slot, records, filling, shown, clears>>

\* seq_print_stack_trace; then the next stack, if there is one.
seq_print_stack_trace ==
  /\ reader # NULL /\ reader.head # NULL
  /\ shown' = Append(shown, <<reader.head, slot[reader.i]["stack"]>>)
  /\ reader' = IF reader.i + 1 = reader.nr THEN NULL
               ELSE [reader EXCEPT !.i = @ + 1, !.head = NULL]
  /\ UNCHANGED <<nr_irqoff_trace, slot, records, filling, clears>>

ShowNext ==
  \/ save_trace
  \/ \E part \in Part : store_part(part)
  \/ store_release
  \/ smp_clear_stack_trace
  \/ trace_latency_show_one
  \/ show_head
  \/ seq_print_stack_trace

ShowSpec == ShowInit /\ [][ShowNext]_<<show, clears>>

------------------------------------------------------------------------------
(* Properties. *)

\* As long as nothing is cleared, the reader prints complete stacks in the
\* order they were saved in, the oldest first and none left out.
ExactUntilCleared ==
  clears = 0 => \A k \in DOMAIN shown : shown[k] = <<k, k>>
==============================================================================
