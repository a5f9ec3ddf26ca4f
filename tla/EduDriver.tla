------------------------------ MODULE EduDriver ------------------------------
(***************************************************************************)
(* qemu_pci/edu_driver.c: a PCI driver with a character device over the    *)
(* registers of the device, and an interrupt handler that acknowledges     *)
(* what it has read.                                                       *)
(***************************************************************************)
EXTENDS Integers, FiniteSets

CONSTANTS
  Bits,       \* bits of the interrupt status register
  MaxRaised   \* bound: the interrupts that the device raises

VARIABLES
  mode,       \* 0: legacy interrupt, 1: MSI, 2: neither
  step,       \* the step of pci_probe that is next; "out", "bound", "removed" or "gone"
  held,       \* what pci_probe has acquired
  failed,     \* pci_probe returned 1
  status,     \* the interrupt status register
  message,    \* an MSI message is on its way
  handler,    \* the status that irq_handler has read; {} when it does not run
  unseen,     \* history: bits raised that irq_handler has not read
  early,      \* history: a bit was raised when nobody listened to the MSI
  off,        \* position of the open file: "closed", "aligned" or "misaligned"
  meddled,    \* history: a process wrote the acknowledge register
  raised

vars == <<mode, step, held, failed, status, message, handler, unseen, early,
          off, meddled, raised>>
irqs == <<status, message, handler, unseen, early, raised>>
file == <<off, meddled>>

Init ==
  /\ mode \in 0..2 /\ step = "out" /\ held = {} /\ failed = FALSE
  /\ status = {} /\ message = FALSE /\ handler = {} /\ unseen = {} /\ early = FALSE
  /\ off = "closed" /\ meddled = FALSE /\ raised = 0

------------------------------------------------------------------------------
(* Probe and remove. *)

\* The steps of pci_probe, in order, and what each acquires.
Steps == <<"register_chrdev", "pci_enable_device", "pci_request_region", "pci_iomap",
           "pci_alloc_irq_vectors", "request_irq", "checks">>
Resource ==
  [register_chrdev |-> "chrdev", pci_enable_device |-> "enabled",
   pci_request_region |-> "region", pci_iomap |-> "mmio",
   pci_alloc_irq_vectors |-> "vectors", request_irq |-> "irq"]
StepNo == CHOOSE i \in 1..7 : Steps[i] = step

\* What a use of the registers does before pci_iomap, or after it failed, is
\* undefined, and not modelled.
Mapped == "mmio" \in held

\* myinit: the device is there and pci_probe begins.
myinit ==
  /\ step = "out" /\ step' = Steps[1]
  /\ UNCHANGED <<mode, held, failed, irqs, file>>

\* One step of pci_probe.  The results of register_chrdev and pci_iomap are not
\* looked at; other failures return 1, with nothing released, and the PCI core
\* takes a positive result for success.
pci_probe ==
  /\ step \in {Steps[i] : i \in 1..6}
  /\ LET skip == \/ step = "pci_alloc_irq_vectors" /\ mode # 1
                 \/ step = "request_irq" /\ mode = 2
     IN \/ /\ held' = IF skip THEN held ELSE held \cup {Resource[step]}
           /\ step' = Steps[StepNo + 1] /\ UNCHANGED failed
        \/ /\ ~skip /\ UNCHANGED held
           /\ IF step \in {"register_chrdev", "pci_iomap"}
              THEN step' = Steps[StepNo + 1] /\ UNCHANGED failed
              ELSE step' = "bound" /\ failed' = TRUE
  /\ UNCHANGED <<mode, irqs, file>>

\* The sanity checks: the BAR may be of the wrong type; the registers are read.
checks ==
  /\ step = "checks" /\ step' = "bound"
  /\ \/ failed' = TRUE
     \/ Mapped /\ UNCHANGED failed
  /\ UNCHANGED <<mode, held, irqs, file>>

\* MUTANT: remove releases the region only in MSI mode.
pci_remove_RegionOnlyMsi ==
  /\ step = "bound" /\ off = "closed" /\ step' = "removed"
  /\ held' = held \ (IF mode = 1 THEN {"vectors", "region", "chrdev"} ELSE {"chrdev"})
  /\ UNCHANGED <<mode, failed, irqs, file>>

\* pci_remove, from myexit: the interrupt, the mapping and the device stay, and
\* nothing waits for a handler that runs.  That pci_free_irq_vectors may stop a
\* kernel whose vectors are still in use is not modelled.
pci_remove ==
  /\ step = "bound" /\ off = "closed" /\ step' = "removed"
  /\ held' = held \ ((IF mode = 1 THEN {"vectors"} ELSE {}) \cup {"region", "chrdev"})
  /\ UNCHANGED <<mode, failed, irqs, file>>

\* myexit returns, and the module is freed.  What an interrupt does that comes
\* later, for the handler was not freed, is undefined, and not modelled.
myexit ==
  /\ step = "removed" /\ step' = "gone"
  /\ UNCHANGED <<mode, held, failed, irqs, file>>

------------------------------------------------------------------------------
(* The interrupt. *)

\* The device raises bit b: it sets it, and sends a message in MSI mode.  A bit
\* that is still set is the same interrupt.
Raise(b) ==
  /\ raised < MaxRaised /\ raised' = raised + 1
  /\ status' = status \cup {b} /\ unseen' = unseen \cup ({b} \ status)
  /\ message' = (message \/ (mode = 1 /\ {"irq", "vectors"} \subseteq held))
  /\ early' = (early \/ (mode = 1 /\ "irq" \notin held))

\* MUTANT: the handler acknowledges every bit.
irq_handler_AcksAll ==
  /\ step # "gone" /\ "irq" \in held /\ Mapped
  /\ \/ /\ handler = {} /\ (IF mode = 0 THEN status # {} ELSE message)
        /\ message' = FALSE /\ handler' = status \cup {"read"} /\ unseen' = unseen \ status
        /\ UNCHANGED status
     \/ handler # {} /\ status' = {} /\ handler' = {} /\ UNCHANGED <<message, unseen>>
  /\ UNCHANGED <<mode, step, held, failed, early, raised, file>>

\* MUTANT: the handler does not acknowledge.
irq_handler_NoAck ==
  /\ step # "gone" /\ "irq" \in held /\ Mapped
  /\ \/ /\ handler = {} /\ (IF mode = 0 THEN status # {} ELSE message)
        /\ message' = FALSE /\ handler' = status \cup {"read"} /\ unseen' = unseen \ status
        /\ UNCHANGED status
     \/ handler # {} /\ handler' = {} /\ UNCHANGED <<status, message, unseen>>
  /\ UNCHANGED <<mode, step, held, failed, early, raised, file>>

\* irq_handler: reads the status, prints it, and acknowledges what it has read.
\* A legacy interrupt is pending while a bit is set, an MSI when it was sent.
irq_handler ==
  /\ step # "gone" /\ "irq" \in held /\ Mapped
  /\ \/ /\ handler = {} /\ (IF mode = 0 THEN status # {} ELSE message)
        /\ message' = FALSE /\ handler' = status \cup {"read"} /\ unseen' = unseen \ status
        /\ UNCHANGED status
     \/ handler # {} /\ status' = status \ handler /\ handler' = {}
        /\ UNCHANGED <<message, unseen>>
  /\ UNCHANGED <<mode, step, held, failed, early, raised, file>>

\* The device finishes a computation and raises an interrupt.
device ==
  /\ \E b \in Bits : Raise(b)
  /\ UNCHANGED <<mode, step, held, failed, handler, file>>

------------------------------------------------------------------------------
(* The file operations, from one process. *)

\* open and close; .owner holds the module while the file is open.
open ==
  /\ \/ off = "closed" /\ "chrdev" \in held /\ off' = "aligned"
     \/ off # "closed" /\ off' = "closed"
  /\ UNCHANGED <<mode, step, held, failed, irqs, meddled>>

llseek ==
  /\ off # "closed" /\ off' \in {"aligned", "misaligned"}
  /\ UNCHANGED <<mode, step, held, failed, irqs, meddled>>

\* read: nothing at a misaligned position or for an empty buffer; otherwise a
\* register, and the position moves by one, which is the end of the file.
read ==
  /\ off = "aligned" /\ Mapped /\ off' = "misaligned"
  /\ UNCHANGED <<mode, step, held, failed, irqs, meddled>>

\* write: at an aligned position the register is written; here the ones that
\* raise and acknowledge interrupts.
write ==
  /\ off = "aligned" /\ Mapped
  /\ \E b \in Bits :
       \/ Raise(b) /\ UNCHANGED meddled
       \/ /\ status' = status \ {b} /\ unseen' = unseen \ {b} /\ meddled' = TRUE
          /\ UNCHANGED <<message, early, raised>>
  /\ UNCHANGED <<mode, step, held, failed, handler, off>>

Next ==
  \/ myinit \/ pci_probe \/ checks \/ pci_remove \/ myexit
  \/ irq_handler \/ device \/ open \/ llseek \/ read \/ write

\* The interrupt controller delivers what is pending, and the handler returns.
Fairness == WF_vars(irq_handler)

Spec == Init /\ [][Next]_vars /\ Fairness

------------------------------------------------------------------------------
(* Properties. *)

\* No interrupt is acknowledged that the handler has not read, also when the
\* device raises one between its read of the status and its write of the
\* acknowledgement; unless a process writes the acknowledge register itself.
AckedWasRead == unseen \subseteq status \/ meddled

\* "or else the interrupts just keeps firing": an interrupt ends, in legacy
\* mode also one raised before request_irq and one raised after pci_remove while
\* the module is there.  An MSI for a bit raised before request_irq or after
\* pci_remove is missing.
InterruptEnds ==
  status # {} /\ "irq" \in held /\ Mapped ~>
    status = {} \/ early \/ step = "gone" \/ (mode = 1 /\ step = "removed")

\* pci_remove gives back the region, the vectors and the device numbers, also
\* after a pci_probe that failed; the interrupt handler, the mapping and the
\* enabled device are left.
NothingLeft == step \in {"removed", "gone"} => held \subseteq {"enabled", "mmio", "irq"}
==============================================================================
