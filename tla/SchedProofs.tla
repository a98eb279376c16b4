---------------------------- MODULE SchedProofs ----------------------------
(***************************************************************************)
(* Theorems about Sched, for every number of tasks, every priority and     *)
(* every depth of nested interrupts: first the control invariants, then    *)
(* what the threads observe: the bound of their time slices, the page      *)
(* table they run under, and their exit.  The last section is about the    *)
(* timer whose interrupts drive the scheduler, for every width of its      *)
(* counter and every period.                                               *)
(***************************************************************************)
EXTENDS Sched, Timer, TLAPS

(* Only slots in use are ever the current, the running or the chosen task, *)
(* and a slot not yet in use has no history.                               *)
SlotsInUse ==
  /\ cpu \in Created /\ current \in Created /\ next \in Created
  /\ \A t \in Slot \ Created :
       pc[t] = "boot" /\ stack[t] = <<>> /\ failed[t] = 0

Control ==
  /\ SlotsInUse
  /\ FrameDiscipline
  /\ PreemptBalance
  /\ SwitchWindowIsSafe
  /\ SuspendedAtSwitch
  /\ IrqMaskDiscipline

IInv == TypeOK /\ Control

USE SchedAssumption DEF Slot, NoPgd, Created

LEMMA InitIInv == Init => IInv
<1>. SUFFICES ASSUME Init PROVE IInv
  OBVIOUS
<1>. USE DEF Init, Label, Critical, Masked, Preemptible
<1>1. TypeOK
  BY DEF TypeOK
<1>2. SlotsInUse
  BY DEF SlotsInUse
<1>3. FrameDiscipline
  BY DEF FrameDiscipline, WellFramed, NeedsFrame
<1>4. PreemptBalance
  BY DEF PreemptBalance, Interrupted
<1>5. SwitchWindowIsSafe /\ SuspendedAtSwitch /\ IrqMaskDiscipline
  BY DEF SwitchWindowIsSafe, SuspendedAtSwitch, IrqMaskDiscipline
<1>. QED
  BY <1>1, <1>2, <1>3, <1>4, <1>5 DEF IInv, Control

-----------------------------------------------------------------------------
(* Steps from label a to label b that leave the kernel stacks alone, taken *)
(* outside the handler.                                                    *)

Handler == {"irq", "eret"}
Raised(l) == IF l \in Critical THEN 1 ELSE 0

SameStack(a, b) ==
  /\ Move(a, b)
  /\ a \in Label \ Handler /\ b \in Label \ Handler
  /\ b \in NeedsFrame => a \in NeedsFrame
  /\ UNCHANGED <<nr_tasks, stack>>
  /\ \A t \in Slot \ {cpu} :
       preempt_count'[t] = preempt_count[t] /\ failed'[t] = failed[t]
  /\ preempt_count'[cpu] - failed'[cpu] =
       preempt_count[cpu] - failed[cpu] + Raised(b) - Raised(a)

LEMMA SameStackStep ==
  ASSUME IInv, TypeOK', NEW a, NEW b, SameStack(a, b)
  PROVE  FrameDiscipline' /\ PreemptBalance'
<1>. USE DEF IInv, Control, SameStack, Move, At, Goto
<1>1. FrameDiscipline'
  <2>. SUFFICES ASSUME NEW t \in Slot PROVE WellFramed(t)'
    BY DEF FrameDiscipline
  <2>1. /\ WellFramed(t) /\ stack' = stack /\ pc \in [Slot -> Label] /\ cpu \in Slot
        /\ pc[cpu] = a /\ pc' = [pc EXCEPT ![cpu] = b]
    BY DEF FrameDiscipline, TypeOK
  <2>2. CASE t = cpu
    <3>1. pc[t] = a /\ pc'[t] = b /\ a \notin {"irq", "eret"}
      BY <2>1, <2>2 DEF Handler
    <3>2. b \in NeedsFrame => a \in NeedsFrame
      OBVIOUS
    <3>. QED
      BY <2>1, <3>1, <3>2 DEF WellFramed
  <2>3. CASE t # cpu
    <3>1. pc'[t] = pc[t]
      BY <2>1, <2>3
    <3>. QED
      BY <2>1, <3>1 DEF WellFramed
  <2>. QED
    BY <2>2, <2>3
<1>2. PreemptBalance'
  <2>. SUFFICES ASSUME NEW t \in Created'
                PROVE  preempt_count'[t] = failed'[t] + Raised(Interrupted(t)')
    BY DEF PreemptBalance, Raised
  <2>1. CASE t = cpu
    <3>1. Interrupted(t) = a /\ Interrupted(t)' = b
      BY <2>1 DEF Interrupted, Handler, TypeOK
    <3>2. preempt_count[t] = failed[t] + Raised(a)
      BY <2>1, <3>1 DEF PreemptBalance, SlotsInUse, Raised
    <3>3. preempt_count[t] \in Int /\ preempt_count'[t] \in Int
      BY DEF TypeOK
    <3>4. failed[t] \in Nat /\ failed'[t] \in Nat
      BY DEF TypeOK
    <3>5. \A l : Raised(l) \in Int
      BY DEF Raised
    <3>6. preempt_count'[t] - failed'[t] =
            preempt_count[t] - failed[t] + Raised(b) - Raised(a)
      BY <2>1
    <3>7. preempt_count'[t] = failed'[t] + Raised(b)
      BY ONLY <3>2, <3>3, <3>4, <3>5, <3>6
    <3>. QED
      BY <3>1, <3>7
  <2>2. CASE t # cpu
    <3>1. Interrupted(t)' = Interrupted(t)
      BY <2>2 DEF Interrupted, Saved, TypeOK
    <3>. QED
      BY <2>2, <3>1 DEF PreemptBalance, TypeOK, Raised
  <2>. QED
    BY <2>1, <2>2
<1>. QED
  BY <1>1, <1>2

(* Outside the window of switch_to the current task is the one that runs.  *)
Window == Handler \cup {"set_pgd", "cpu_switch_to"}

LEMMA CurrentIsCpu == ASSUME IInv, pc[cpu] \notin Window PROVE current = cpu
  BY DEF IInv, Control, SwitchWindowIsSafe, Interrupted, Window, Handler

(* A step of the running task that gives the CPU to nobody.                *)
LocalStep(a, b) ==
  /\ SameStack(a, b)
  /\ a \notin Window /\ b \notin Window
  /\ UNCHANGED <<current, cpu>>
  /\ next' \in Created
  /\ irqs' <=> b \notin Masked

LEMMA LocalStepKeeps ==
  ASSUME IInv, TypeOK', NEW a, NEW b, LocalStep(a, b)
  PROVE  IInv'
<1>. USE DEF LocalStep, SameStack, Move, At, Goto
<1>1. current = cpu
  BY CurrentIsCpu
<1>2. SlotsInUse'
  BY DEF IInv, Control, SlotsInUse, TypeOK
<1>3. FrameDiscipline' /\ PreemptBalance'
  BY SameStackStep
<1>4. SwitchWindowIsSafe' /\ SuspendedAtSwitch' /\ IrqMaskDiscipline'
  BY <1>1 DEF IInv, Control, SwitchWindowIsSafe, SuspendedAtSwitch,
              IrqMaskDiscipline, TypeOK, SlotsInUse
<1>. QED
  BY <1>2, <1>3, <1>4 DEF IInv, Control

(* Local steps with IRQs on that stay in or out of critical code, enter it,*)
(* or leave it.                                                            *)
Open(a, b) ==
  /\ a \in Label \ (Window \cup Masked) /\ b \in Label \ (Window \cup Masked)
  /\ b \in NeedsFrame => a \in NeedsFrame
Plain(a, b) == Open(a, b) /\ Raised(a) = Raised(b)
Entering(a, b) == Open(a, b) /\ Raised(a) = 0 /\ Raised(b) = 1
Leaving(a, b) == Open(a, b) /\ Raised(a) = 1 /\ Raised(b) = 0

LEMMA OpenStep ==
  ASSUME IInv, TypeOK', NEW a, NEW b, Open(a, b), Move(a, b),
         UNCHANGED <<current, cpu, nr_tasks, irqs, stack>>, next' \in Created,
         \A t \in Slot \ {cpu} :
           preempt_count'[t] = preempt_count[t] /\ failed'[t] = failed[t],
         preempt_count'[cpu] - failed'[cpu] =
           preempt_count[cpu] - failed[cpu] + Raised(b) - Raised(a)
  PROVE  IInv'
<1>1. irqs' <=> b \notin Masked
  BY DEF IInv, Control, IrqMaskDiscipline, Move, At, Open
<1>2. LocalStep(a, b)
  BY <1>1 DEF LocalStep, SameStack, Open, Window
<1>. QED
  BY <1>2, LocalStepKeeps

LEMMA PlainStep ==
  ASSUME IInv, TypeOK', NEW a, NEW b, Plain(a, b), Move(a, b),
         UNCHANGED <<current, cpu, nr_tasks, preempt_count, irqs, stack, failed>>,
         next' \in Created
  PROVE  IInv'
<1>1. /\ cpu \in Slot /\ preempt_count[cpu] \in Int /\ failed[cpu] \in Nat
      /\ Raised(a) \in Int
  BY DEF IInv, TypeOK, Raised
<1>. QED
  BY <1>1, OpenStep DEF Plain

LEMMA EnteringStep ==
  ASSUME IInv, TypeOK', NEW a, NEW b, Entering(a, b), Move(a, b),
         preempt_disable,
         UNCHANGED <<current, cpu, nr_tasks, irqs, stack, next, failed>>
  PROVE  IInv'
<1>1. /\ cpu \in Slot /\ preempt_count \in [Slot -> Int]
      /\ failed[cpu] \in Nat
  BY DEF IInv, TypeOK
<1>2. current = cpu
  BY CurrentIsCpu DEF Entering, Open, Move, At
<1>3. preempt_count' = [preempt_count EXCEPT ![cpu] = @ + 1]
  BY <1>2 DEF preempt_disable
<1>4. next' \in Created
  BY DEF IInv, Control, SlotsInUse
<1>. QED
  BY <1>1, <1>3, <1>4, OpenStep DEF Entering

LEMMA LeavingStep ==
  ASSUME IInv, TypeOK', NEW a, NEW b, Leaving(a, b), Move(a, b),
         preempt_enable,
         UNCHANGED <<current, cpu, nr_tasks, irqs, stack, next, failed>>
  PROVE  IInv'
<1>1. /\ cpu \in Slot /\ preempt_count \in [Slot -> Int]
      /\ failed[cpu] \in Nat
  BY DEF IInv, TypeOK
<1>2. current = cpu
  BY CurrentIsCpu DEF Leaving, Open, Move, At
<1>3. preempt_count' = [preempt_count EXCEPT ![cpu] = @ - 1]
  BY <1>2 DEF preempt_enable
<1>4. next' \in Created
  BY DEF IInv, Control, SlotsInUse
<1>. QED
  BY <1>1, <1>3, <1>4, OpenStep DEF Leaving

-----------------------------------------------------------------------------
(* The classes of the edges between labels that the local actions take.    *)
LEMMA Edges ==
  /\ Plain("scan", "refill") /\ Plain("scan", "pick") /\ Plain("refill", "scan")
  /\ Plain("pick", "out") /\ Plain("kernel_process", "mapped")
  /\ Plain("mapped", "ret") /\ Plain("kernel_process", "ret")
  /\ Plain("exiting", "zombie") /\ Plain("svc", "ret")
  /\ Plain("user", "svc") /\ Plain("user", "spin")
  /\ Entering("enter", "scan") /\ Entering("boot", "copying")
  /\ Entering("user", "copying") /\ Entering("user", "exiting")
  /\ Leaving("copied", "idle") /\ Leaving("copied", "ret")
  /\ Leaving("ret_from_fork", "kernel_process")
  /\ Leaving("ret_from_fork", "ret") /\ Leaving("zombie", "dead")
  BY DEF Plain, Entering, Leaving, Open, Raised, Label, Critical, Masked,
         Preemptible, Window, Handler, NeedsFrame

LEMMA LabelTypes ==
  {"scan", "refill", "pick", "copying", "copied", "idle", "ret", "mapped",
   "kernel_process", "to_user", "user", "zombie", "dead", "exiting", "svc",
   "spin", "halt", "out", "set_pgd", "cpu_switch_to", "enter", "irq", "eret",
   "leave", "ret_from_fork"} \subseteq Label
  BY DEF Label, Critical, Masked, Preemptible

LEMMA GotoType ==
  ASSUME TypeOK, NEW l \in Label, Goto(l) PROVE pc' \in [Slot -> Label]
  BY DEF TypeOK, Goto
LEMMA DisableType ==
  ASSUME TypeOK, preempt_disable PROVE preempt_count' \in [Slot -> Int]
  BY DEF TypeOK, preempt_disable
LEMMA EnableType ==
  ASSUME TypeOK, preempt_enable PROVE preempt_count' \in [Slot -> Int]
  BY DEF TypeOK, preempt_enable

LEMMA LocalActions ==
  ASSUME IInv,
         \/ EnterSchedule \/ Scan \/ Refill
         \/ \E from \in {"boot", "user"} : CopyBegin(from)
         \/ CopyEnd \/ CopyFail \/ ScheduleTail
         \/ MapFirstPage \/ LoadFirstPgd \/ MoveToUserFail
         \/ DisableIrq \/ KernelExit \/ MarkZombie \/ ExitEnable
         \/ ServiceDone \/ SysExit \/ SysService \/ Trap
  PROVE  IInv'
<1>. USE LabelTypes, GotoType DEF IInv, Move, taskVars
<1>0. next \in Created
  BY DEF Control, SlotsInUse
<1>1. CASE EnterSchedule
  <2>1. TypeOK'
    BY <1>1, DisableType DEF EnterSchedule, TypeOK
  <2>. QED
    BY <1>1, <2>1, <1>0, Edges, EnteringStep DEF EnterSchedule
<1>2. CASE Refill
  <2>1. TypeOK'
    <3>1. \A c \in Int : Refilled(c) \in Int
      BY SchedAssumption DEF Refilled
    <3>2. counter' \in [Slot -> Int]
      BY <1>2, <3>1 DEF Refill, TypeOK
    <3>. QED
      BY <1>2, <3>2 DEF Refill, TypeOK
  <2>. QED
    BY <1>2, <2>1, <1>0, Edges, PlainStep DEF Refill, Refilled
<1>3. CASE CopyEnd
  <2>1. TypeOK'
    BY <1>3, EnableType DEF CopyEnd, CopyReturn, TypeOK
  <2>. QED
    BY <1>3, <2>1, <1>0, Edges, LeavingStep DEF CopyEnd, CopyReturn
<1>4. CASE ScheduleTail
  <2>1. TypeOK'
    BY <1>4, EnableType DEF ScheduleTail, TypeOK
  <2>. QED
    BY <1>4, <2>1, <1>0, Edges, LeavingStep DEF ScheduleTail
<1>5. CASE MapFirstPage
  <2>1. TypeOK'
    BY <1>5 DEF MapFirstPage, TypeOK
  <2>. QED
    BY <1>5, <2>1, <1>0, Edges, PlainStep DEF MapFirstPage
<1>6. CASE LoadFirstPgd
  <2>1. TypeOK'
    BY <1>6 DEF LoadFirstPgd, TypeOK
  <2>. QED
    BY <1>6, <2>1, <1>0, Edges, PlainStep DEF LoadFirstPgd
<1>7. CASE MoveToUserFail
  <2>1. TypeOK'
    BY <1>7 DEF MoveToUserFail, TypeOK
  <2>. QED
    BY <1>7, <2>1, <1>0, Edges, PlainStep DEF MoveToUserFail
<1>8. CASE MarkZombie
  <2>1. TypeOK'
    BY <1>8 DEF MarkZombie, ExitingSlot, TypeOK
  <2>. QED
    BY <1>8, <2>1, <1>0, Edges, PlainStep DEF MarkZombie, ExitingSlot
<1>9. CASE ExitEnable
  <2>1. TypeOK'
    BY <1>9, EnableType DEF ExitEnable, TypeOK
  <2>. QED
    BY <1>9, <2>1, <1>0, Edges, LeavingStep DEF ExitEnable
<1>10. CASE ServiceDone
  <2>1. TypeOK'
    BY <1>10 DEF ServiceDone, TypeOK
  <2>. QED
    BY <1>10, <2>1, <1>0, Edges, PlainStep DEF ServiceDone
<1>11. CASE SysExit
  <2>1. TypeOK'
    BY <1>11, DisableType DEF SysExit, TypeOK
  <2>. QED
    BY <1>11, <2>1, <1>0, Edges, EnteringStep DEF SysExit
<1>12. CASE SysService
  <2>1. TypeOK'
    BY <1>12 DEF SysService, TypeOK
  <2>. QED
    BY <1>12, <2>1, <1>0, Edges, PlainStep DEF SysService
<1>13. CASE Scan
  <2>1. next' \in Created
    <3>1. 0 \in Created
      BY DEF TypeOK
    <3>2. \A t \in Eligible : t \in Created
      BY DEF Eligible
    <3>. QED
      BY <1>13, <3>1, <3>2 DEF Scan, NoChoice
  <2>2. TypeOK'
    BY <1>13, <2>1 DEF Scan, TypeOK
  <2>3. Move("scan", "pick") \/ Move("scan", "refill")
    BY <1>13 DEF Scan
  <2>. QED
    BY <1>13, <2>1, <2>2, <2>3, Edges, PlainStep DEF Scan
<1>14. CASE \E from \in {"boot", "user"} : CopyBegin(from)
  <2>. PICK from \in {"boot", "user"} : CopyBegin(from)
    BY <1>14
  <2>1. TypeOK'
    BY DisableType DEF CopyBegin, TypeOK
  <2>. QED
    BY <2>1, <1>0, Edges, EnteringStep DEF CopyBegin
<1>15. CASE CopyFail
  <2>1. /\ cpu \in Slot /\ failed \in [Slot -> Nat] /\ failed[cpu] \in Nat
        /\ preempt_count[cpu] \in Int
    BY DEF TypeOK
  <2>2. failed[cpu] + 1 \in Nat
    BY <2>1
  <2>3. /\ failed' = [failed EXCEPT ![cpu] = failed[cpu] + 1]
        /\ preempt_count' = preempt_count
    BY <1>15 DEF CopyFail
  <2>4. TypeOK'
    <3>1. CopyReturn \in Label
      BY DEF CopyReturn
    <3>2. failed' \in [Slot -> Nat]
      BY <2>1, <2>2, <2>3
    <3>. QED
      BY <1>15, <3>1, <3>2 DEF CopyFail, TypeOK
  <2>5. Leaving("copying", CopyReturn)
    BY DEF Leaving, Open, Raised, Label, Critical, Masked, Preemptible,
           Window, Handler, NeedsFrame, CopyReturn
  <2>6. /\ \A t \in Slot \ {cpu} :
             preempt_count'[t] = preempt_count[t] /\ failed'[t] = failed[t]
        /\ preempt_count'[cpu] - failed'[cpu] =
             preempt_count[cpu] - failed[cpu] + 0 - 1
    BY ONLY <2>1, <2>3
  <2>. QED
    BY <1>15, <2>4, <2>5, <2>6, <1>0, OpenStep DEF CopyFail, Leaving
<1>16. CASE DisableIrq \/ KernelExit
  <2>1. TypeOK'
    BY <1>16 DEF DisableIrq, KernelExit, TypeOK
  <2>2. cpu \in Slot /\ failed[cpu] \in Nat /\ preempt_count[cpu] \in Int
    BY DEF TypeOK
  <2>3. LocalStep("ret", "to_user") \/ LocalStep("to_user", "user")
    BY <1>16, <2>2, <1>0
    DEF DisableIrq, KernelExit, LocalStep, SameStack, Raised, Label, Critical,
        Masked, Preemptible, Window, Handler, NeedsFrame
  <2>. QED
    BY <2>1, <2>3, LocalStepKeeps
<1>17. CASE Trap
  <2>1. TypeOK'
    BY <1>17 DEF Trap, TypeOK
  <2>2. CASE Move("user", "spin") /\ UNCHANGED irqs
    BY <1>17, <2>1, <2>2, <1>0, Edges, PlainStep DEF Trap
  <2>3. CASE Move("user", "halt") /\ irqs' = FALSE
    <3>1. cpu \in Slot /\ failed[cpu] \in Nat /\ preempt_count[cpu] \in Int
      BY DEF TypeOK
    <3>2. LocalStep("user", "halt")
      BY <1>17, <2>3, <3>1, <1>0
      DEF Trap, LocalStep, SameStack, Raised, Label, Critical, Masked,
          Preemptible, Window, Handler, NeedsFrame
    <3>. QED
      BY <2>1, <3>2, LocalStepKeeps
  <2>. QED
    BY <1>17, <2>2, <2>3 DEF Trap
<1>. QED
  BY <1>1, <1>2, <1>3, <1>4, <1>5, <1>6, <1>7, <1>8, <1>9, <1>10, <1>11,
     <1>12, <1>13, <1>14, <1>15, <1>16, <1>17

-----------------------------------------------------------------------------
(* The switch from one task to another.                                    *)

LEMMA SwitchActions ==
  ASSUME IInv, SwitchTo \/ SetPgd \/ CpuSwitchTo PROVE IInv'
<1>. USE LabelTypes, GotoType DEF IInv, Move, taskVars
<1>1. /\ cpu \in Slot /\ preempt_count[cpu] \in Int /\ failed[cpu] \in Nat
  BY DEF TypeOK
<1>2. TypeOK'
  BY DEF SwitchTo, SetPgd, CpuSwitchTo, TypeOK
<1>3. CASE SwitchTo /\ current = next
  <2>1. next' \in Created
    BY <1>3 DEF Control, SlotsInUse, SwitchTo
  <2>. QED
    BY <1>2, <1>3, <2>1, Edges, PlainStep DEF SwitchTo
<1>4. CASE SwitchTo /\ current # next
  <2>1. At("pick") /\ Goto("set_pgd") /\ current' = next
    BY <1>4 DEF SwitchTo
  <2>2. current = cpu
    BY <2>1, CurrentIsCpu DEF At, Window, Handler
  <2>3. SlotsInUse'
    BY <1>4, <2>1 DEF SwitchTo, SlotsInUse, Control, TypeOK, Goto
  <2>4. SameStack("pick", "set_pgd")
    BY <1>1, <1>4, <2>1 DEF SwitchTo, SameStack, Label, Critical, Masked,
       Preemptible, Handler, NeedsFrame, Raised
  <2>5. SwitchWindowIsSafe'
    <3>1. Interrupted(cpu)' = "set_pgd"
      BY <1>4, <2>1, <1>1 DEF SwitchTo, Interrupted, Goto, TypeOK
    <3>2. next \in Created \ {cpu} /\ pc[next] \in {"out", "ret_from_fork"}
      BY <1>4, <2>2 DEF Control, SlotsInUse, SuspendedAtSwitch
    <3>3. preempt_count[next] = failed[next] + 1
      BY <3>2 DEF Control, PreemptBalance, Interrupted, Critical
    <3>4. failed[next] \in Nat
      BY DEF TypeOK
    <3>5. preempt_count[next] > 0
      BY <3>3, <3>4
    <3>. QED
      BY <1>4, <2>1, <2>3, <3>1, <3>5 DEF SwitchTo, SwitchWindowIsSafe,
         SlotsInUse
  <2>6. SuspendedAtSwitch' /\ IrqMaskDiscipline'
    BY <1>4, <2>1 DEF SwitchTo, Control, SuspendedAtSwitch,
       IrqMaskDiscipline, Goto, At, TypeOK, Masked
  <2>. QED
    BY <1>2, <2>3, <2>4, <2>5, <2>6, SameStackStep DEF Control
<1>5. CASE SetPgd
  <2>1. SameStack("set_pgd", "cpu_switch_to")
    BY <1>1, <1>5 DEF SetPgd, SameStack, Label, Critical, Masked,
       Preemptible, Handler, NeedsFrame, Raised
  <2>2. SlotsInUse'
    BY <1>5 DEF SetPgd, SlotsInUse, Control, TypeOK, Goto
  <2>3. SwitchWindowIsSafe'
    BY <1>5, <1>1 DEF SetPgd, SwitchWindowIsSafe, Control, Interrupted, Goto,
       TypeOK
  <2>4. SuspendedAtSwitch' /\ IrqMaskDiscipline'
    BY <1>5, <1>1 DEF SetPgd, Control, SuspendedAtSwitch, IrqMaskDiscipline,
       Goto, At, TypeOK, Masked
  <2>. QED
    BY <1>2, <2>1, <2>2, <2>3, <2>4, SameStackStep DEF Control
<1>6. CASE CpuSwitchTo
  <2>1. SameStack("cpu_switch_to", "out")
    BY <1>1, <1>6 DEF CpuSwitchTo, SameStack, Label, Critical, Masked,
       Preemptible, Handler, NeedsFrame, Raised
  <2>2. SlotsInUse'
    BY <1>6 DEF CpuSwitchTo, SlotsInUse, Control, TypeOK, Goto
  <2>3. SwitchWindowIsSafe'
    BY <1>6 DEF CpuSwitchTo, SwitchWindowIsSafe
  <2>4. SuspendedAtSwitch'
    BY <1>6, <1>1 DEF CpuSwitchTo, Control, SuspendedAtSwitch, Goto, TypeOK
  <2>5. IrqMaskDiscipline'
    <3>1. irqs
      BY <1>6 DEF CpuSwitchTo, Control, IrqMaskDiscipline, At, Masked
    <3>2. current \in Created /\ pc'[current] \in {"out", "ret_from_fork"}
      BY <1>6, <1>1 DEF CpuSwitchTo, Control, SuspendedAtSwitch, SlotsInUse,
         Goto, TypeOK
    <3>. QED
      BY <1>6, <3>1, <3>2 DEF CpuSwitchTo, IrqMaskDiscipline, Masked
  <2>. QED
    BY <1>2, <2>1, <2>2, <2>3, <2>4, <2>5, SameStackStep DEF Control
<1>. QED
  BY <1>3, <1>4, <1>5, <1>6

-----------------------------------------------------------------------------
(* Steps that push a return point on the running task's stack or pop it.   *)

LEMMA CallFrames ==
  ASSUME TypeOK, NEW l \in Label, NEW ret \in Label, NEW how \in {"call", "irq"},
         Call(l, ret, how)
  PROVE  /\ pc' \in [Slot -> Label] /\ stack' \in [Slot -> Seq(Frame)]
         /\ pc'[cpu] = l
         /\ Len(stack'[cpu]) = Len(stack[cpu]) + 1
         /\ stack'[cpu][Len(stack[cpu]) + 1].pc = ret
         /\ \A i \in 1 .. Len(stack[cpu]) : stack'[cpu][i] = stack[cpu][i]
         /\ \A t \in Slot \ {cpu} : pc'[t] = pc[t] /\ stack'[t] = stack[t]
<1>. DEFINE f == [how |-> how, pc |-> ret]
<1>1. cpu \in Slot /\ stack[cpu] \in Seq(Frame) /\ f \in Frame
  BY DEF TypeOK, Frame
<1>2. stack' = [stack EXCEPT ![cpu] = Append(stack[cpu], f)]
  BY DEF Call
<1>3. Append(stack[cpu], f) \in Seq(Frame)
  BY <1>1
<1>4. stack' \in [Slot -> Seq(Frame)] /\ stack'[cpu] = Append(stack[cpu], f)
  BY <1>1, <1>2, <1>3 DEF TypeOK
<1>5. /\ Len(stack'[cpu]) = Len(stack[cpu]) + 1
      /\ stack'[cpu][Len(stack[cpu]) + 1] = f
      /\ \A i \in 1 .. Len(stack[cpu]) : stack'[cpu][i] = stack[cpu][i]
  BY <1>1, <1>4
<1>6. pc' \in [Slot -> Label] /\ pc'[cpu] = l
  BY DEF Call, TypeOK
<1>7. \A t \in Slot \ {cpu} : pc'[t] = pc[t] /\ stack'[t] = stack[t]
  BY DEF Call, TypeOK
<1>8. stack'[cpu][Len(stack[cpu]) + 1].pc = ret
  <2>1. f.pc = ret
    OBVIOUS
  <2>. HIDE DEF f
  <2>. QED
    BY <1>5, <2>1
<1>. HIDE DEF f
<1>. QED
  BY <1>4, <1>5, <1>6, <1>7, <1>8

LEMMA ReturnFrames ==
  ASSUME TypeOK, Len(stack[cpu]) > 0, Return
  PROVE  /\ pc' \in [Slot -> Label] /\ stack' \in [Slot -> Seq(Frame)]
         /\ pc'[cpu] = stack[cpu][Len(stack[cpu])].pc
         /\ Len(stack'[cpu]) = Len(stack[cpu]) - 1
         /\ \A i \in 1 .. Len(stack'[cpu]) : stack'[cpu][i] = stack[cpu][i]
         /\ \A t \in Slot \ {cpu} : pc'[t] = pc[t] /\ stack'[t] = stack[t]
<1>1. cpu \in Slot /\ stack[cpu] \in Seq(Frame)
  BY DEF TypeOK
<1>. DEFINE n == Len(stack[cpu])
            s == SubSeq(stack[cpu], 1, n - 1)
<1>2. n \in Nat /\ n > 0
  BY <1>1
<1>3. stack[cpu][n] \in Frame
  BY <1>1, <1>2
<1>4. s \in Seq(Frame) /\ Len(s) = n - 1
      /\ \A i \in 1 .. n - 1 : s[i] = stack[cpu][i]
  BY <1>1, <1>2
<1>5. stack' \in [Slot -> Seq(Frame)] /\ stack'[cpu] = s
  BY <1>1, <1>4 DEF Return, TypeOK
<1>6. pc' \in [Slot -> Label] /\ pc'[cpu] = stack[cpu][n].pc
  BY <1>1, <1>3 DEF Return, Saved, TypeOK, Frame
<1>7. \A t \in Slot \ {cpu} : pc'[t] = pc[t] /\ stack'[t] = stack[t]
  BY DEF Return, TypeOK
<1>. QED
  BY <1>4, <1>5, <1>6, <1>7

LEMMA PushKeepsFrames ==
  ASSUME TypeOK, FrameDiscipline,
         NEW l \in Label, NEW ret \in Label, NEW how \in {"call", "irq"},
         Call(l, ret, how), pc[cpu] \notin Handler, ret \notin Masked,
         ret \in NeedsFrame => Len(stack[cpu]) > 0,
         ret \in Critical => l \in Handler
  PROVE  FrameDiscipline'
<1>. SUFFICES ASSUME NEW t \in Slot PROVE WellFramed(t)'
  BY DEF FrameDiscipline
<1>1. CASE t # cpu
  <2>1. pc'[t] = pc[t] /\ stack'[t] = stack[t]
    BY <1>1, CallFrames
  <2>. QED
    BY <2>1 DEF FrameDiscipline, WellFramed
<1>2. CASE t = cpu
  <2>. DEFINE n == Len(stack[t])
  <2>1. stack[t] \in Seq(Frame)
    BY DEF TypeOK
  <2>2. n \in Nat
    BY <2>1
  <2>3. /\ pc'[t] = l /\ Len(stack'[t]) = n + 1
        /\ stack'[t][n + 1].pc = ret
        /\ \A i \in 1 .. n : stack'[t][i] = stack[t][i]
    BY <1>2, CallFrames
  <2>4. \A i \in 1 .. n :
          /\ stack[t][i].pc \notin Masked /\ stack[t][i].pc \notin Critical
          /\ stack[t][i].pc \in NeedsFrame => i > 1
    BY <1>2 DEF FrameDiscipline, WellFramed, Handler
  <2>. HIDE DEF n
  <2>5. ASSUME NEW i \in 1 .. n + 1
        PROVE  /\ stack'[t][i].pc \notin Masked
               /\ stack'[t][i].pc \in NeedsFrame => i > 1
               /\ stack'[t][i].pc \in Critical => i = n + 1 /\ l \in Handler
    <3>1. CASE i \in 1 .. n
      BY <2>3, <2>4, <3>1
    <3>2. CASE i = n + 1
      BY <1>2, <2>2, <2>3, <3>2 DEF n
    <3>. QED
      BY <2>2, <3>1, <3>2
  <2>. QED
    BY <2>2, <2>3, <2>5 DEF WellFramed, Handler
<1>. QED
  BY <1>1, <1>2

LEMMA PopKeepsFrames ==
  ASSUME TypeOK, FrameDiscipline, pc[cpu] \in NeedsFrame, Return
  PROVE  /\ FrameDiscipline'
         /\ pc'[cpu] \notin Masked
         /\ pc[cpu] \notin Handler => pc'[cpu] \notin Critical
<1>. DEFINE n == Len(stack[cpu])
<1>1. cpu \in Slot /\ stack[cpu] \in Seq(Frame)
  BY DEF TypeOK
<1>2. n \in Nat
  BY <1>1
<1>3. n > 0
  BY <1>1 DEF FrameDiscipline, WellFramed
<1>4. /\ pc'[cpu] = stack[cpu][n].pc /\ Len(stack'[cpu]) = n - 1
      /\ \A i \in 1 .. n - 1 : stack'[cpu][i] = stack[cpu][i]
  BY <1>3, ReturnFrames
<1>5. /\ stack[cpu][n].pc \notin Masked
      /\ stack[cpu][n].pc \in NeedsFrame => n > 1
      /\ pc[cpu] \notin Handler => stack[cpu][n].pc \notin Critical
  BY <1>1, <1>2, <1>3 DEF FrameDiscipline, WellFramed, Handler
<1>6. \A i \in 1 .. n - 1 :
        /\ stack[cpu][i].pc \notin Masked /\ stack[cpu][i].pc \notin Critical
        /\ stack[cpu][i].pc \in NeedsFrame => i > 1
  BY <1>1, <1>2, <1>3 DEF FrameDiscipline, WellFramed
<1>7. \A t \in Slot \ {cpu} : pc'[t] = pc[t] /\ stack'[t] = stack[t]
  BY <1>3, ReturnFrames
<1>8. FrameDiscipline'
  <2>. HIDE DEF n
  <2>. SUFFICES ASSUME NEW t \in Slot PROVE WellFramed(t)'
    BY DEF FrameDiscipline
  <2>1. CASE t # cpu
    BY <1>7, <2>1 DEF FrameDiscipline, WellFramed
  <2>2. CASE t = cpu
    BY <1>2, <1>3, <1>4, <1>5, <1>6, <2>2 DEF WellFramed
  <2>. QED
    BY <2>1, <2>2
<1>. QED
  BY <1>4, <1>5, <1>8

(* A step of the running task that keeps the CPU and the created tasks     *)
(* keeps all of Control once it keeps the frames and its own count.        *)
LEMMA OwnStep ==
  ASSUME IInv, TypeOK', FrameDiscipline',
         UNCHANGED <<current, cpu, nr_tasks, next, failed>>,
         \A t \in Slot \ {cpu} : /\ pc'[t] = pc[t] /\ stack'[t] = stack[t]
                                 /\ preempt_count'[t] = preempt_count[t],
         preempt_count'[cpu] = failed[cpu] + Raised(Interrupted(cpu)'),
         cpu # current => Interrupted(cpu)' \in {"set_pgd", "cpu_switch_to"},
         irqs' <=> pc'[cpu] \notin Masked
  PROVE  IInv'
<1>. USE DEF IInv, Control
<1>1. SlotsInUse'
  BY DEF SlotsInUse
<1>2. PreemptBalance'
  <2>. SUFFICES ASSUME NEW t \in Created
                PROVE  preempt_count'[t] = failed[t] + Raised(Interrupted(t)')
    BY DEF PreemptBalance, Raised
  <2>1. CASE t = cpu
    <3>1. Interrupted(t)' = Interrupted(cpu)'
      BY <2>1
    <3>. QED
      BY <2>1, <3>1
  <2>2. CASE t # cpu
    <3>1. Interrupted(t)' = Interrupted(t)
      BY <2>2 DEF Interrupted, Saved
    <3>. QED
      BY <2>2, <3>1 DEF PreemptBalance, Raised
  <2>. QED
    BY <2>1, <2>2
<1>3. SwitchWindowIsSafe'
  BY DEF SwitchWindowIsSafe, SlotsInUse
<1>4. SuspendedAtSwitch' /\ IrqMaskDiscipline'
  BY DEF SuspendedAtSwitch, IrqMaskDiscipline
<1>. QED
  BY <1>1, <1>2, <1>3, <1>4

(* schedule(): a call from code that is neither critical nor masked.       *)
LEMMA ScheduleKeeps ==
  ASSUME IInv, KernelMainLoop \/ ExitSchedule PROVE IInv'
<1>1. PICK from \in {"idle", "dead"}, ret \in {"idle", "ret"} :
        Schedule(from, ret)
  BY DEF KernelMainLoop, ExitSchedule
<1>2. /\ pc[cpu] = from /\ Call("enter", ret, "call")
      /\ counter' = [counter EXCEPT ![current] = 0]
      /\ UNCHANGED <<current, cpu, taskVars, preempt_count, ttbr0, irqs, next,
                     failed>>
  BY <1>1 DEF Schedule, At
<1>3. /\ from \notin Window \cup Masked \cup Critical
      /\ ret \notin NeedsFrame \cup Masked \cup Critical
      /\ ret \in Label /\ "enter" \in Label
      /\ "enter" \notin Handler \cup Masked \cup Critical
  BY <1>1 DEF Window, Handler, Masked, Critical, NeedsFrame, Label, Preemptible
<1>4. TypeOK /\ FrameDiscipline /\ cpu \in Slot /\ current = cpu
  BY <1>2, <1>3, CurrentIsCpu DEF IInv, Control, TypeOK
<1>5. /\ pc' \in [Slot -> Label] /\ stack' \in [Slot -> Seq(Frame)]
      /\ pc'[cpu] = "enter"
      /\ \A t \in Slot \ {cpu} : pc'[t] = pc[t] /\ stack'[t] = stack[t]
  BY <1>2, <1>3, <1>4, CallFrames
<1>6. TypeOK'
  <2>1. counter' \in [Slot -> Int]
    BY <1>2, <1>4 DEF TypeOK
  <2>. QED
    BY <1>2, <1>4, <1>5, <2>1 DEF TypeOK, taskVars
<1>7. FrameDiscipline'
  BY <1>2, <1>3, <1>4, PushKeepsFrames DEF Window
<1>8. preempt_count[cpu] = failed[cpu] + Raised(from)
  BY <1>2, <1>3 DEF IInv, Control, PreemptBalance, Interrupted, Raised,
     SlotsInUse, Window, Handler
<1>9. Interrupted(cpu)' = "enter"
  BY <1>2, <1>5 DEF Interrupted
<1>10. irqs
  BY <1>2, <1>3 DEF IInv, Control, IrqMaskDiscipline
<1>11. Raised(from) = 0 /\ Raised("enter") = 0
  BY <1>3 DEF Raised
<1>. QED
  BY <1>2, <1>3, <1>4, <1>5, <1>6, <1>7, <1>8, <1>9, <1>10, <1>11, OwnStep
  DEF taskVars

(* The return from schedule(), or to timer_tick.                           *)
LEMMA LeaveScheduleKeeps == ASSUME IInv, LeaveSchedule PROVE IInv'
<1>1. /\ pc[cpu] = "out" /\ preempt_enable
      /\ UNCHANGED <<current, cpu, taskVars, counter, ttbr0, irqs, next, failed>>
  BY DEF LeaveSchedule, At
<1>2. /\ "out" \in NeedsFrame /\ "out" \in Critical
      /\ "out" \notin Window /\ "out" \notin Handler /\ "out" \notin Masked
      /\ Handler \subseteq Masked
  BY DEF Window, Handler, Masked, Critical, NeedsFrame
<1>3. TypeOK /\ FrameDiscipline /\ cpu \in Slot /\ current = cpu
  BY <1>1, <1>2, CurrentIsCpu DEF IInv, Control, TypeOK
<1>4. Len(stack[cpu]) > 0
  BY <1>1, <1>2, <1>3 DEF FrameDiscipline, WellFramed
<1>5. /\ preempt_count' \in [Slot -> Int]
      /\ preempt_count'[cpu] = preempt_count[cpu] - 1
      /\ \A t \in Slot \ {cpu} : preempt_count'[t] = preempt_count[t]
  BY <1>1, <1>3 DEF TypeOK, preempt_enable
<1>6. preempt_count[cpu] = failed[cpu] + 1
  BY <1>1, <1>2 DEF IInv, Control, PreemptBalance, Interrupted, SlotsInUse,
     Handler
<1>7. preempt_count'[cpu] = failed[cpu] + 0
  <2>1. failed[cpu] \in Nat
    BY <1>3 DEF TypeOK
  <2>. QED
    BY <1>5, <1>6, <2>1
<1>8. irqs
  BY <1>1, <1>2 DEF IInv, Control, IrqMaskDiscipline
<1>9. CASE Return
  <2>1. /\ pc' \in [Slot -> Label] /\ stack' \in [Slot -> Seq(Frame)]
        /\ \A t \in Slot \ {cpu} : pc'[t] = pc[t] /\ stack'[t] = stack[t]
    BY <1>3, <1>4, <1>9, ReturnFrames
  <2>2. FrameDiscipline' /\ pc'[cpu] \notin Masked /\ pc'[cpu] \notin Critical
    BY <1>1, <1>2, <1>3, <1>9, PopKeepsFrames
  <2>3. TypeOK'
    BY <1>1, <1>3, <1>5, <2>1 DEF TypeOK, taskVars
  <2>4. Interrupted(cpu)' = pc'[cpu]
    BY <1>1, <1>2, <2>2 DEF Interrupted, Handler
  <2>5. Raised(Interrupted(cpu)') = 0
    BY <2>2, <2>4 DEF Raised
  <2>. QED
    BY <1>1, <1>3, <1>5, <1>7, <1>8, <2>1, <2>2, <2>3, <2>5, OwnStep
    DEF taskVars
<1>10. CASE Goto("leave") /\ UNCHANGED stack
  <2>1. "leave" \in Label /\ "leave" \notin Masked /\ "leave" \notin Critical
    BY DEF Label, Masked, Critical, Preemptible
  <2>2. /\ pc' \in [Slot -> Label] /\ pc'[cpu] = "leave"
        /\ \A t \in Slot \ {cpu} : pc'[t] = pc[t]
    BY <1>3, <1>10, <2>1 DEF Goto, TypeOK
  <2>3. TypeOK'
    BY <1>1, <1>3, <1>5, <1>10, <2>2 DEF TypeOK, taskVars
  <2>4. FrameDiscipline'
    BY <1>1, <1>2, <1>3, <1>4, <1>10, <2>2
    DEF FrameDiscipline, WellFramed, Handler
  <2>5. Interrupted(cpu)' = "leave"
    BY <1>1, <2>2 DEF Interrupted
  <2>6. Raised(Interrupted(cpu)') = 0
    BY <2>1, <2>5 DEF Raised
  <2>. QED
    BY <1>1, <1>3, <1>5, <1>7, <1>8, <1>10, <2>1, <2>2, <2>3, <2>4, <2>6,
       OwnStep DEF taskVars
<1>. QED
  BY <1>9, <1>10 DEF LeaveSchedule

-----------------------------------------------------------------------------
(* The timer interrupt.                                                    *)

LEMMA IrqKeeps == ASSUME IInv, Irq PROVE IInv'
<1>1. /\ irqs /\ Call("irq", pc[cpu], "irq") /\ irqs' = FALSE
      /\ UNCHANGED <<current, cpu, taskVars, counter, preempt_count, ttbr0,
                     next, failed>>
  BY DEF Irq
<1>2. "irq" \in Label /\ "irq" \in Handler /\ "irq" \in Masked
      /\ Handler \subseteq Masked
  BY DEF Label, Handler, Masked
<1>3. TypeOK /\ FrameDiscipline /\ cpu \in Slot /\ pc[cpu] \in Label
  BY DEF IInv, Control, TypeOK
<1>4. pc[cpu] \notin Masked
  BY <1>1 DEF IInv, Control, IrqMaskDiscipline
<1>5. pc[cpu] \in NeedsFrame => Len(stack[cpu]) > 0
  BY <1>3 DEF FrameDiscipline, WellFramed
<1>6. /\ pc' \in [Slot -> Label] /\ stack' \in [Slot -> Seq(Frame)]
      /\ pc'[cpu] = "irq" /\ Len(stack'[cpu]) = Len(stack[cpu]) + 1
      /\ stack'[cpu][Len(stack[cpu]) + 1].pc = pc[cpu]
      /\ \A t \in Slot \ {cpu} : pc'[t] = pc[t] /\ stack'[t] = stack[t]
  BY <1>1, <1>2, <1>3, CallFrames
<1>7. TypeOK'
  BY <1>1, <1>3, <1>6 DEF TypeOK, taskVars
<1>8. FrameDiscipline'
  BY <1>1, <1>2, <1>3, <1>4, <1>5, PushKeepsFrames
<1>9. Interrupted(cpu)' = pc[cpu] /\ Interrupted(cpu) = pc[cpu]
  BY <1>1, <1>2, <1>4, <1>6 DEF Interrupted, Saved, Handler
<1>10. preempt_count[cpu] = failed[cpu] + Raised(pc[cpu])
  BY <1>9 DEF IInv, Control, PreemptBalance, SlotsInUse, Raised
<1>11. cpu # current => pc[cpu] \in {"set_pgd", "cpu_switch_to"}
  BY <1>9 DEF IInv, Control, SwitchWindowIsSafe
<1>. QED
  BY <1>1, <1>2, <1>6, <1>7, <1>8, <1>9, <1>10, <1>11, OwnStep DEF taskVars

(* timer_tick goes on to the scheduler only from code that is not critical.*)
LEMMA TimerTickKeeps == ASSUME IInv, TimerTick PROVE IInv'
<1>1. /\ pc[cpu] = "irq"
      /\ UNCHANGED <<current, cpu, taskVars, preempt_count, ttbr0, stack, next,
                     failed>>
  BY DEF TimerTick, At
<1>2. TypeOK /\ FrameDiscipline /\ cpu \in Slot
  BY DEF IInv, Control, TypeOK
<1>3. Interrupted(cpu) = Saved(cpu).pc
  BY <1>1 DEF Interrupted
<1>4. preempt_count[cpu] = failed[cpu] + Raised(Saved(cpu).pc)
  BY <1>3 DEF IInv, Control, PreemptBalance, SlotsInUse, Raised
<1>5. cpu # current => /\ Saved(cpu).pc \in {"set_pgd", "cpu_switch_to"}
                       /\ preempt_count[current] > 0
  BY <1>3 DEF IInv, Control, SwitchWindowIsSafe
<1>6. ~irqs
  BY <1>1 DEF IInv, Control, IrqMaskDiscipline, Masked
<1>7. counter' \in [Slot -> Int]
  <2>1. Ticked \in Int
    BY DEF Ticked, IInv, TypeOK
  <2>2. counter \in [Slot -> Int]
    BY <1>2 DEF TypeOK
  <2>3. \/ counter' = [counter EXCEPT ![current] = Ticked]
        \/ counter' = [counter EXCEPT ![current] = 0]
    BY DEF TimerTick
  <2>. QED
    BY <2>1, <2>2, <2>3
<1>8. CASE Goto("eret") /\ UNCHANGED irqs
  <2>1. "eret" \in Label /\ "eret" \in Masked /\ "irq" \in NeedsFrame
    BY DEF Label, Masked, NeedsFrame
  <2>2. /\ pc' \in [Slot -> Label] /\ pc'[cpu] = "eret"
        /\ \A t \in Slot \ {cpu} : pc'[t] = pc[t]
    BY <1>2, <1>8, <2>1 DEF Goto, TypeOK
  <2>3. TypeOK'
    BY <1>1, <1>2, <1>7, <1>8, <2>2 DEF TypeOK, taskVars
  <2>4. FrameDiscipline'
    BY <1>1, <1>2, <2>1, <2>2 DEF FrameDiscipline, WellFramed
  <2>5. Interrupted(cpu)' = Saved(cpu).pc
    BY <1>1, <2>2 DEF Interrupted, Saved
  <2>. QED
    BY <1>1, <1>4, <1>5, <1>6, <1>8, <2>1, <2>2, <2>3, <2>4, <2>5, OwnStep
    DEF taskVars
<1>9. CASE /\ preempt_count[current] <= 0 /\ Goto("enter") /\ irqs' = TRUE
  <2>1. /\ "enter" \in Label /\ "enter" \notin Masked /\ "enter" \notin Critical
        /\ "irq" \in NeedsFrame
    BY DEF Label, Masked, Critical, Preemptible, NeedsFrame
  <2>2. /\ pc' \in [Slot -> Label] /\ pc'[cpu] = "enter"
        /\ \A t \in Slot \ {cpu} : pc'[t] = pc[t]
    BY <1>2, <1>9, <2>1 DEF Goto, TypeOK
  <2>3. TypeOK'
    BY <1>1, <1>2, <1>7, <1>9, <2>2 DEF TypeOK, taskVars
  <2>4. preempt_count[current] \in Int
    BY <1>2 DEF TypeOK
  <2>5. current = cpu
    BY <1>5, <1>9, <2>4
  <2>6. failed[cpu] \in Nat
    BY <1>2 DEF TypeOK
  <2>7. Saved(cpu).pc \notin Critical /\ preempt_count[cpu] = failed[cpu] + 0
    BY <1>4, <1>9, <2>5, <2>6 DEF Raised
  <2>8. FrameDiscipline'
    BY <1>1, <1>2, <2>1, <2>2, <2>7 DEF FrameDiscipline, WellFramed, Saved
  <2>9. Interrupted(cpu)' = "enter"
    BY <1>1, <2>2 DEF Interrupted
  <2>10. Raised(Interrupted(cpu)') = 0
    BY <2>1, <2>9 DEF Raised
  <2>. QED
    BY <1>1, <1>9, <2>1, <2>2, <2>3, <2>5, <2>7, <2>8, <2>10, OwnStep
    DEF taskVars
<1>. QED
  BY <1>8, <1>9 DEF TimerTick

LEMMA LeaveTickKeeps == ASSUME IInv, LeaveTick PROVE IInv'
<1>1. /\ pc[cpu] = "leave" /\ Goto("eret") /\ irqs' = FALSE
      /\ UNCHANGED <<current, cpu, taskVars, counter, preempt_count, ttbr0,
                     stack, next, failed>>
  BY DEF LeaveTick, Move, At
<1>2. /\ "eret" \in Label /\ "eret" \in Masked /\ "leave" \in NeedsFrame
      /\ "leave" \notin Handler /\ "leave" \notin Window
      /\ "leave" \notin Critical
  BY DEF Label, Masked, NeedsFrame, Handler, Window, Critical
<1>3. TypeOK /\ FrameDiscipline /\ cpu \in Slot /\ current = cpu
  BY <1>1, <1>2, CurrentIsCpu DEF IInv, Control, TypeOK
<1>4. /\ pc' \in [Slot -> Label] /\ pc'[cpu] = "eret"
      /\ \A t \in Slot \ {cpu} : pc'[t] = pc[t]
  BY <1>1, <1>2, <1>3 DEF Goto, TypeOK
<1>5. TypeOK'
  BY <1>1, <1>3, <1>4 DEF TypeOK, taskVars
<1>6. FrameDiscipline'
  BY <1>1, <1>2, <1>3, <1>4 DEF FrameDiscipline, WellFramed
<1>7. Len(stack[cpu]) \in Nat /\ Len(stack[cpu]) > 0
  <2>1. stack[cpu] \in Seq(Frame)
    BY <1>3 DEF TypeOK
  <2>. QED
    BY <1>1, <1>2, <1>3, <2>1 DEF FrameDiscipline, WellFramed
<1>8. Saved(cpu).pc \notin Critical
  BY <1>1, <1>2, <1>3, <1>7 DEF FrameDiscipline, WellFramed, Saved, Handler
<1>9. Interrupted(cpu)' = Saved(cpu).pc
  BY <1>1, <1>4 DEF Interrupted, Saved
<1>10. preempt_count[cpu] = failed[cpu] + 0
  BY <1>1, <1>2 DEF IInv, Control, PreemptBalance, Interrupted, SlotsInUse,
     Handler
<1>11. Raised(Interrupted(cpu)') = 0
  BY <1>8, <1>9 DEF Raised
<1>. QED
  BY <1>1, <1>2, <1>3, <1>4, <1>5, <1>6, <1>10, <1>11, OwnStep DEF taskVars

LEMMA EretKeeps == ASSUME IInv, Eret PROVE IInv'
<1>1. /\ pc[cpu] = "eret" /\ Return /\ irqs' = TRUE
      /\ UNCHANGED <<current, cpu, taskVars, counter, preempt_count, ttbr0,
                     next, failed>>
  BY DEF Eret, At
<1>2. "eret" \in NeedsFrame /\ Handler \subseteq Masked
  BY DEF NeedsFrame, Handler, Masked
<1>3. TypeOK /\ FrameDiscipline /\ cpu \in Slot
  BY DEF IInv, Control, TypeOK
<1>4. Len(stack[cpu]) > 0
  BY <1>1, <1>2, <1>3 DEF FrameDiscipline, WellFramed
<1>5. /\ pc' \in [Slot -> Label] /\ stack' \in [Slot -> Seq(Frame)]
      /\ pc'[cpu] = Saved(cpu).pc
      /\ \A t \in Slot \ {cpu} : pc'[t] = pc[t] /\ stack'[t] = stack[t]
  BY <1>1, <1>3, <1>4, ReturnFrames DEF Saved
<1>6. FrameDiscipline' /\ pc'[cpu] \notin Masked
  BY <1>1, <1>2, <1>3, PopKeepsFrames
<1>7. TypeOK'
  BY <1>1, <1>3, <1>5 DEF TypeOK, taskVars
<1>8. /\ Interrupted(cpu) = Saved(cpu).pc
      /\ Interrupted(cpu)' = Saved(cpu).pc
  BY <1>1, <1>2, <1>5, <1>6 DEF Interrupted, Handler
<1>9. preempt_count[cpu] = failed[cpu] + Raised(Saved(cpu).pc)
  BY <1>8 DEF IInv, Control, PreemptBalance, SlotsInUse, Raised
<1>10. cpu # current => Saved(cpu).pc \in {"set_pgd", "cpu_switch_to"}
  BY <1>8 DEF IInv, Control, SwitchWindowIsSafe
<1>. QED
  BY <1>1, <1>5, <1>6, <1>7, <1>8, <1>9, <1>10, OwnStep DEF taskVars

-----------------------------------------------------------------------------
(* A new task enters the table suspended in its critical section.          *)
LEMMA CopyPublishKeeps == ASSUME IInv, CopyPublish PROVE IInv'
<1>. USE DEF IInv, Control
<1>1. PICK p \in Slot :
        /\ pc[cpu] = "copying" /\ p = nr_tasks /\ nr_tasks' = p + 1
        /\ state' = [state EXCEPT ![p] = "RUNNING"]
        /\ counter' = [counter EXCEPT ![p] = Priority]
        /\ preempt_count' = [preempt_count EXCEPT ![p] = 1]
        /\ \E f \in {"kthread", "user"} : flags' = [flags EXCEPT ![p] = f]
        /\ \E g \in Slot \cup {NoPgd} : pgd' = [pgd EXCEPT ![p] = g]
        /\ pc' = [pc EXCEPT ![cpu] = "copied", ![p] = "ret_from_fork"]
        /\ UNCHANGED <<current, cpu, ttbr0, irqs, stack, next, failed>>
  BY DEF CopyPublish, At, FirstCount, FirstPc
<1>2. /\ cpu \in Created /\ current \in Created /\ next \in Created
      /\ p \in Slot \ Created /\ Created' = Created \cup {p}
  <2>1. cpu \in Created /\ current \in Created /\ next \in Created
    BY DEF SlotsInUse
  <2>2. p \in Slot /\ p \in Int /\ ~(p < nr_tasks)
    BY <1>1
  <2>3. Created' = Created \cup {p}
    BY <1>1
  <2>. QED
    BY <2>1, <2>2, <2>3
<1>3. /\ pc'[cpu] = "copied" /\ pc'[p] = "ret_from_fork"
      /\ \A t \in Slot \ {cpu, p} : pc'[t] = pc[t]
  BY <1>1, <1>2 DEF TypeOK
<1>4. TypeOK'
  <2>1. "copied" \in Label /\ "ret_from_fork" \in Label
    BY LabelTypes
  <2>2. nr_tasks' \in 1 .. NR_TASKS
    BY <1>1
  <2>3. Priority \in Int /\ 1 \in Int
    OBVIOUS
  <2>4. counter' \in [Slot -> Int] /\ preempt_count' \in [Slot -> Int]
    BY <1>1, <2>3 DEF TypeOK
  <2>5. state' \in [Slot -> {"RUNNING", "ZOMBIE"}]
    BY <1>1 DEF TypeOK
  <2>6. flags' \in [Slot -> {"kthread", "user"}]
    BY <1>1 DEF TypeOK
  <2>7. pgd' \in [Slot -> Slot \cup {NoPgd}]
    BY <1>1 DEF TypeOK
  <2>8. pc' \in [Slot -> Label]
    BY <1>1, <2>1 DEF TypeOK
  <2>. QED
    BY <1>1, <2>2, <2>4, <2>5, <2>6, <2>7, <2>8 DEF TypeOK
<1>5. SlotsInUse'
  BY <1>1, <1>2, <1>3 DEF SlotsInUse
<1>6. FrameDiscipline'
  <2>. SUFFICES ASSUME NEW t \in Slot PROVE WellFramed(t)'
    BY DEF FrameDiscipline
  <2>1. "copied" \notin NeedsFrame /\ "copying" \notin Handler
    BY DEF NeedsFrame, Handler
  <2>2. CASE t = p
    <3>1. stack'[t] = <<>> /\ pc'[t] = "ret_from_fork"
      BY <1>1, <1>2, <1>3, <2>2 DEF SlotsInUse
    <3>2. "ret_from_fork" \notin NeedsFrame
      BY DEF NeedsFrame
    <3>. QED
      BY <3>1, <3>2 DEF WellFramed
  <2>3. CASE t = cpu
    BY <1>1, <1>2, <1>3, <2>1, <2>3 DEF FrameDiscipline, WellFramed, Handler
  <2>4. CASE t \notin {cpu, p}
    BY <1>1, <1>3, <2>4 DEF FrameDiscipline, WellFramed
  <2>. QED
    BY <2>2, <2>3, <2>4
<1>7. PreemptBalance'
  <2>. SUFFICES ASSUME NEW t \in Created \cup {p}
                PROVE  preempt_count'[t] = failed[t] + Raised(Interrupted(t)')
    BY <1>1, <1>2 DEF PreemptBalance, Raised
  <2>1. CASE t = p
    <3>1. Interrupted(t)' = "ret_from_fork" /\ failed[t] = 0
      BY <1>2, <1>3, <2>1 DEF Interrupted, SlotsInUse
    <3>. QED
      BY <1>1, <2>1, <3>1 DEF TypeOK, Raised, Critical
  <2>2. CASE t = cpu
    <3>1. Interrupted(t)' = "copied" /\ Interrupted(t) = "copying"
      BY <1>1, <1>2, <1>3, <2>2 DEF Interrupted
    <3>2. preempt_count'[t] = preempt_count[t]
      BY <1>1, <1>2, <2>2 DEF TypeOK
    <3>. QED
      BY <1>2, <2>2, <3>1, <3>2 DEF PreemptBalance, Raised, Critical
  <2>3. CASE t \notin {cpu, p}
    <3>1. Interrupted(t)' = Interrupted(t) /\ preempt_count'[t] = preempt_count[t]
      BY <1>1, <1>3, <2>3 DEF Interrupted, Saved, TypeOK
    <3>. QED
      BY <2>3, <3>1 DEF PreemptBalance, Raised
  <2>. QED
    BY <2>1, <2>2, <2>3
<1>8. current = cpu
  BY <1>1, CurrentIsCpu DEF Window, Handler
<1>9. SwitchWindowIsSafe' /\ SuspendedAtSwitch'
  BY <1>1, <1>2, <1>3, <1>8 DEF SwitchWindowIsSafe, SuspendedAtSwitch
<1>10. IrqMaskDiscipline'
  BY <1>1, <1>3 DEF IrqMaskDiscipline, Masked
<1>. QED
  BY <1>4, <1>5, <1>6, <1>7, <1>9, <1>10

-----------------------------------------------------------------------------
LEMMA NextKeepsIInv == IInv /\ [Next]_vars => IInv'
<1>. SUFFICES ASSUME IInv, [Next]_vars PROVE IInv'
  OBVIOUS
<1>1. CASE ScheduleStep
  BY <1>1, LocalActions, SwitchActions, LeaveScheduleKeeps DEF ScheduleStep
<1>2. CASE TickStep
  BY <1>2, TimerTickKeeps, LeaveTickKeeps, EretKeeps DEF TickStep
<1>3. CASE ThreadStep
  BY <1>3, LocalActions, ScheduleKeeps, CopyPublishKeeps
  DEF ThreadStep, KernelMain
<1>4. CASE UserStep
  BY <1>4, LocalActions DEF UserStep, SysFork
<1>5. CASE Irq
  BY <1>5, IrqKeeps
<1>6. CASE UNCHANGED vars
  <2>. USE <1>6 DEF vars, taskVars
  <2>1. TypeOK' /\ SlotsInUse'
    BY DEF IInv, Control, TypeOK, SlotsInUse
  <2>2. FrameDiscipline' /\ PreemptBalance'
    BY DEF IInv, Control, FrameDiscipline, WellFramed, PreemptBalance,
           Interrupted, Saved
  <2>3. SwitchWindowIsSafe' /\ SuspendedAtSwitch' /\ IrqMaskDiscipline'
    BY DEF IInv, Control, SwitchWindowIsSafe, SuspendedAtSwitch,
           IrqMaskDiscipline, Interrupted, Saved
  <2>. QED
    BY <2>1, <2>2, <2>3 DEF IInv, Control
<1>. QED
  BY <1>1, <1>2, <1>3, <1>4, <1>5, <1>6 DEF Next, KernelStep, ErrHang

LEMMA SpecIInv == Spec => []IInv
  BY InitIInv, NextKeepsIInv, PTL DEF Spec

(* Every variable keeps its type: slots, labels and frames never leave     *)
(* their ranges however deep interrupts nest.                              *)
THEOREM TypeCorrect == Spec => []TypeOK
  BY SpecIInv, PTL DEF IInv

(* preempt_disable and preempt_enable stay balanced; each fork that finds  *)
(* no page costs exactly one unmatched preempt_disable.                    *)
THEOREM PreemptBalanced == Spec => []PreemptBalance
  BY SpecIInv, PTL DEF IInv, Control

(* A tick in switch_to, after current changed and before the stack did,    *)
(* never enters the scheduler.                                             *)
THEOREM SwitchWindowSafe == Spec => []SwitchWindowIsSafe
  BY SpecIInv, PTL DEF IInv, Control

(* A task off the CPU is suspended in cpu_switch_to or has never run.      *)
THEOREM SuspendedTasksAtSwitch == Spec => []SuspendedAtSwitch
  BY SpecIInv, PTL DEF IInv, Control

(* The interrupt mask agrees with the code that runs, across switches that *)
(* do not save it.                                                         *)
THEOREM IrqMaskCorrect == Spec => []IrqMaskDiscipline
  BY SpecIInv, PTL DEF IInv, Control

(* Kernel stacks are well formed: nobody schedules above critical code.    *)
THEOREM FramesWellNested == Spec => []FrameDiscipline
  BY SpecIInv, PTL DEF IInv, Control

-----------------------------------------------------------------------------
(* Time slices.                                                            *)

LEMMA RefilledBound ==
  ASSUME NEW c \in Int, c <= 2 * Priority - 1
  PROVE  Refilled(c) <= 2 * Priority - 1
<1>1. Priority \in Int /\ c \div 2 <= Priority - 1
  OBVIOUS
<1>2. c \div 2 \in Int
  OBVIOUS
<1>. QED
  BY <1>1, <1>2 DEF Refilled

LEMMA NextKeepsCounterBound ==
  ASSUME IInv, CounterBound, [Next]_vars PROVE CounterBound'
<1>. DEFINE Bounded(c) == c <= 2 * Priority - 1
<1>1. counter \in [Slot -> Int] /\ Priority \in Nat \ {0}
  BY DEF IInv, TypeOK
<1>2. current \in Created
  BY DEF IInv, Control, SlotsInUse
<1>3. \A t \in Created : Bounded(counter[t])
  BY DEF CounterBound
<1>4. Bounded(0) /\ Bounded(Priority)
  BY <1>1
<1>5. CASE UNCHANGED <<nr_tasks, counter>>
  BY <1>3, <1>5 DEF CounterBound
<1>6. CASE Refill
  <2>1. /\ nr_tasks' = nr_tasks
        /\ \A t \in Created : counter'[t] = Refilled(counter[t])
    BY <1>6 DEF Refill, taskVars
  <2>. QED
    BY <1>1, <1>3, <2>1, RefilledBound DEF CounterBound
<1>7. CASE /\ nr_tasks' = nr_tasks
           /\ counter' = [counter EXCEPT ![current] = 0]
  BY <1>1, <1>2, <1>3, <1>4, <1>7 DEF CounterBound
<1>8. CASE TimerTick
  <2>1. /\ nr_tasks' = nr_tasks
        /\ \/ counter' = [counter EXCEPT ![current] = counter[current] - 1]
           \/ counter' = [counter EXCEPT ![current] = 0]
    BY <1>8 DEF TimerTick, Ticked, taskVars
  <2>2. Bounded(counter[current] - 1)
    BY <1>1, <1>2, <1>3
  <2>. QED
    BY <1>1, <1>2, <1>3, <1>4, <2>1, <2>2 DEF CounterBound
<1>9. CASE CopyPublish
  <2>1. PICK p \in Slot : /\ p = nr_tasks /\ nr_tasks' = p + 1
                          /\ counter' = [counter EXCEPT ![p] = Priority]
    BY <1>9 DEF CopyPublish
  <2>2. Created' = Created \cup {p}
    BY <2>1
  <2>. QED
    BY <1>1, <1>3, <1>4, <2>1, <2>2 DEF CounterBound
<1>10. CASE ScheduleStep
  BY <1>5, <1>6, <1>10
  DEF ScheduleStep, EnterSchedule, Scan, SwitchTo, SetPgd, CpuSwitchTo,
      LeaveSchedule, taskVars
<1>11. CASE TickStep
  BY <1>5, <1>8, <1>11 DEF TickStep, LeaveTick, Eret, taskVars
<1>12. CASE ThreadStep
  BY <1>5, <1>7, <1>9, <1>12
  DEF ThreadStep, KernelMain, CopyBegin, KernelMainLoop, Schedule,
      ScheduleTail, MapFirstPage, LoadFirstPgd, MoveToUserFail, CopyEnd,
      CopyFail, DisableIrq, KernelExit, MarkZombie, ExitEnable, ExitSchedule,
      ServiceDone, taskVars
<1>13. CASE UserStep
  BY <1>5, <1>13 DEF UserStep, SysFork, CopyBegin, SysExit, SysService, Trap,
                     taskVars
<1>14. CASE Irq
  BY <1>5, <1>14 DEF Irq, taskVars
<1>15. CASE UNCHANGED vars
  BY <1>5, <1>15 DEF vars, taskVars
<1>. QED
  BY <1>10, <1>11, <1>12, <1>13, <1>14, <1>15 DEF Next, KernelStep, ErrHang

LEMMA InitCounterBound == Init => CounterBound
  BY DEF Init, CounterBound

(* However often a sleeping task is refilled, its counter stays below twice*)
(* its priority, so no task collects more than one extra time slice.       *)
THEOREM CountersBounded == Spec => []CounterBound
<1>1. IInv /\ CounterBound /\ [Next]_vars => CounterBound'
  BY NextKeepsCounterBound
<1>. QED
  BY <1>1, InitCounterBound, SpecIInv, PTL DEF Spec

-----------------------------------------------------------------------------
(* Where the thread of t is in its own code: the bottom of its kernel stack*)
(* once the scheduler and the handler have something to return to.         *)
ThreadAt(t) == IF Len(stack[t]) = 0 THEN pc[t] ELSE stack[t][1].pc

(* Only the scheduler and the handler run above a return point.            *)
FramesExact ==
  \A t \in Slot :
    /\ Len(stack[t]) > 0 => pc[t] \in NeedsFrame
    /\ \A i \in 1 .. Len(stack[t]) : i > 1 => stack[t][i].pc \in NeedsFrame

(* init_task runs kernel_main and never becomes a process.                 *)
MainCode == {"boot", "copying", "copied", "idle"}
MainStays == ThreadAt(0) \in MainCode

(* A zombie that still has the CPU is on its way to cpu_switch_to, and the *)
(* scheduler hands the CPU to running tasks only.                          *)
ZombieCode == {"zombie", "dead", "enter", "scan", "refill", "pick",
               "set_pgd", "cpu_switch_to"}
Switching == {"set_pgd", "cpu_switch_to"}
ZombiesLeave ==
  /\ state[0] = "RUNNING"
  /\ Interrupted(cpu) \in Switching => state[current] = "RUNNING"
  /\ Interrupted(cpu) = "pick" => state[next] = "RUNNING"
  /\ state[cpu] = "ZOMBIE" => Interrupted(cpu) \in ZombieCode

(* The running task's table is loaded, or its thread is about to load it.  *)
TableLoaded ==
  IF Interrupted(cpu) = "cpu_switch_to" THEN ttbr0 = pgd[current]
  ELSE ttbr0 = pgd[cpu] \/ ThreadAt(cpu) = "mapped"

TInv == IInv /\ FramesExact /\ MainStays /\ ZombiesLeave /\ TableLoaded

LEMMA InitTInv == Init => TInv
<1>. SUFFICES ASSUME Init PROVE TInv
  OBVIOUS
<1>1. IInv
  BY InitIInv
<1>2. FramesExact /\ MainStays
  BY DEF Init, FramesExact, MainStays, MainCode, ThreadAt
<1>3. Interrupted(cpu) = "boot"
  BY DEF Init, Interrupted
<1>4. ZombiesLeave /\ TableLoaded
  BY <1>3 DEF Init, ZombiesLeave, Switching, TableLoaded
<1>. QED
  BY <1>1, <1>2, <1>4 DEF TInv

(* What the invariant says of the three properties.                        *)
LEMMA OwnCode ==
  ASSUME IInv, FramesExact
  PROVE  /\ pc[cpu] \notin NeedsFrame =>
              Len(stack[cpu]) = 0 /\ ThreadAt(cpu) = pc[cpu]
         /\ pc[cpu] \notin Handler => Interrupted(cpu) = pc[cpu]
         /\ \A t \in Slot : Len(stack[t]) \in Nat
<1>1. cpu \in Slot /\ \A t \in Slot : stack[t] \in Seq(Frame)
  BY DEF IInv, TypeOK
<1>2. \A t \in Slot : Len(stack[t]) \in Nat
  BY <1>1
<1>. QED
  BY <1>1, <1>2 DEF FramesExact, ThreadAt, Interrupted, Handler

LEMMA ZombiesStay == TInv => ZombieStaysInKernel
<1>. SUFFICES ASSUME TInv, NEW t \in Created, state[t] = "ZOMBIE"
              PROVE  pc[t] \notin {"user", "ret", "to_user", "svc", "copying",
                                  "spin", "halt"}
  BY DEF ZombieStaysInKernel
<1>1. CASE t # cpu
  BY <1>1 DEF TInv, IInv, Control, SuspendedAtSwitch
<1>2. CASE t = cpu
  <2>1. Interrupted(t) \in ZombieCode
    BY <1>2 DEF TInv, ZombiesLeave
  <2>2. pc[t] \in Handler \/ pc[t] \in ZombieCode
    BY <2>1 DEF Interrupted, Handler
  <2>. QED
    BY <2>2 DEF Handler, ZombieCode
<1>. QED
  BY <1>1, <1>2

LEMMA TablesMatch == TInv => AddressSpaceMatches
<1>. DEFINE l == Interrupted(cpu)
<1>. SUFFICES ASSUME TInv, l \in {"user", "svc", "copying", "ret", "to_user"}
              PROVE  ttbr0 = pgd[cpu]
  BY DEF AddressSpaceMatches
<1>1. cpu \in Slot /\ stack[cpu] \in Seq(Frame)
  BY DEF TInv, IInv, TypeOK
<1>2. Len(stack[cpu]) \in Nat
  BY <1>1
<1>3. l \notin NeedsFrame /\ l # "mapped" /\ l # "cpu_switch_to"
  BY DEF NeedsFrame
<1>4. ThreadAt(cpu) = l
  <2>1. CASE pc[cpu] \in Handler
    <3>. DEFINE n == Len(stack[cpu])
    <3>1. n > 0 /\ l = stack[cpu][n].pc
      BY <1>1, <2>1 DEF TInv, IInv, Control, FrameDiscipline, WellFramed,
         Handler, NeedsFrame, Interrupted, Saved
    <3>2. \A i \in 1 .. n : i > 1 => stack[cpu][i].pc \in NeedsFrame
      BY <1>1 DEF TInv, FramesExact
    <3>3. n \in Nat
      BY <1>2
    <3>4. n = 1 => ThreadAt(cpu) = l
      BY <3>1 DEF ThreadAt
    <3>. HIDE DEF n, l
    <3>. QED
      BY <1>3, <3>1, <3>2, <3>3, <3>4
  <2>2. CASE pc[cpu] \notin Handler
    BY <1>3, <2>2, OwnCode DEF TInv, Interrupted, Handler
  <2>. QED
    BY <2>1, <2>2
<1>. QED
  BY <1>3, <1>4 DEF TInv, TableLoaded

-----------------------------------------------------------------------------
(* The three ways in which a step of the running task moves its code.      *)

LEMMA MoveThreads ==
  ASSUME IInv, FramesExact, NEW a, NEW b, Move(a, b), UNCHANGED stack,
         a \in NeedsFrame <=> b \in NeedsFrame
  PROVE  /\ FramesExact' /\ pc'[cpu] = b
         /\ \A t \in Slot : ThreadAt(t)' = IF t = cpu /\ a \notin NeedsFrame
                                           THEN b ELSE ThreadAt(t)
<1>1. /\ cpu \in Slot /\ pc[cpu] = a /\ pc'[cpu] = b /\ stack' = stack
      /\ \A t \in Slot \ {cpu} : pc'[t] = pc[t]
  BY DEF Move, At, Goto, IInv, TypeOK
<1>2. FramesExact'
  BY <1>1 DEF FramesExact
<1>3. a \notin NeedsFrame => Len(stack[cpu]) = 0
  BY <1>1, OwnCode
<1>4. a \in NeedsFrame => Len(stack[cpu]) > 0
  BY <1>1 DEF IInv, Control, FrameDiscipline, WellFramed
<1>. QED
  BY <1>1, <1>2, <1>3, <1>4 DEF ThreadAt

LEMMA CallThreads ==
  ASSUME IInv, FramesExact, NEW l \in Label, NEW ret \in Label,
         NEW how \in {"call", "irq"}, Call(l, ret, how),
         l \in NeedsFrame, ret \in NeedsFrame <=> pc[cpu] \in NeedsFrame
  PROVE  /\ FramesExact'
         /\ \A t \in Slot : ThreadAt(t)' = IF t = cpu /\ pc[cpu] \notin NeedsFrame
                                           THEN ret ELSE ThreadAt(t)
<1>. DEFINE n == Len(stack[cpu])
<1>1. cpu \in Slot /\ n \in Nat
  BY OwnCode DEF IInv, TypeOK
<1>2. /\ pc'[cpu] = l /\ Len(stack'[cpu]) = n + 1
      /\ stack'[cpu][n + 1].pc = ret
      /\ \A i \in 1 .. n : stack'[cpu][i] = stack[cpu][i]
      /\ \A t \in Slot \ {cpu} : pc'[t] = pc[t] /\ stack'[t] = stack[t]
  BY CallFrames DEF IInv
<1>3. /\ n > 0 <=> pc[cpu] \in NeedsFrame
      /\ \A i \in 1 .. n : i > 1 => stack[cpu][i].pc \in NeedsFrame
  BY <1>1 DEF FramesExact, IInv, Control, FrameDiscipline, WellFramed
<1>4. \A t \in Slot : t = cpu /\ n = 0 => ThreadAt(t)' = ret
  BY <1>2 DEF ThreadAt
<1>5. \A t \in Slot : t = cpu /\ n > 0 => ThreadAt(t)' = ThreadAt(t)
  BY <1>1, <1>2 DEF ThreadAt
<1>6. \A t \in Slot \ {cpu} : ThreadAt(t)' = ThreadAt(t)
  BY <1>2 DEF ThreadAt
<1>7. FramesExact'
  <2>. SUFFICES ASSUME NEW t \in Slot
                PROVE  /\ Len(stack'[t]) > 0 => pc'[t] \in NeedsFrame
                       /\ \A i \in 1 .. Len(stack'[t]) :
                            i > 1 => stack'[t][i].pc \in NeedsFrame
    BY DEF FramesExact
  <2>1. CASE t # cpu
    BY <1>2, <2>1 DEF FramesExact
  <2>2. CASE t = cpu
    <3>. HIDE DEF n
    <3>1. ASSUME NEW i \in 1 .. n + 1, i > 1
          PROVE  stack'[cpu][i].pc \in NeedsFrame
      <4>1. CASE i \in 1 .. n
        BY <1>2, <1>3, <3>1, <4>1
      <4>2. CASE i = n + 1
        BY <1>1, <1>2, <1>3, <3>1, <4>2
      <4>. QED
        BY <1>1, <4>1, <4>2
    <3>. QED
      BY <1>2, <2>2, <3>1
  <2>. QED
    BY <2>1, <2>2
<1>. HIDE DEF n
<1>. QED
  BY <1>1, <1>3, <1>4, <1>5, <1>6, <1>7

LEMMA ReturnThreads ==
  ASSUME IInv, FramesExact, pc[cpu] \in NeedsFrame, Return
  PROVE  FramesExact' /\ \A t \in Slot : ThreadAt(t)' = ThreadAt(t)
<1>. DEFINE n == Len(stack[cpu])
<1>1. cpu \in Slot /\ n \in Nat /\ n > 0
  BY OwnCode DEF IInv, TypeOK, Control, FrameDiscipline, WellFramed
<1>2. /\ pc'[cpu] = stack[cpu][n].pc /\ Len(stack'[cpu]) = n - 1
      /\ \A i \in 1 .. n - 1 : stack'[cpu][i] = stack[cpu][i]
      /\ \A t \in Slot \ {cpu} : pc'[t] = pc[t] /\ stack'[t] = stack[t]
  BY <1>1, ReturnFrames DEF IInv
<1>3. \A i \in 1 .. n : i > 1 => stack[cpu][i].pc \in NeedsFrame
  BY <1>1 DEF FramesExact
<1>4. \A t \in Slot : t = cpu /\ n = 1 => ThreadAt(t)' = ThreadAt(t)
  BY <1>2 DEF ThreadAt
<1>5. \A t \in Slot : t = cpu /\ n > 1 => ThreadAt(t)' = ThreadAt(t)
  BY <1>1, <1>2 DEF ThreadAt
<1>6. \A t \in Slot \ {cpu} : ThreadAt(t)' = ThreadAt(t)
  BY <1>2 DEF ThreadAt
<1>7. FramesExact'
  <2>. HIDE DEF n
  <2>1. n - 1 > 0 => pc'[cpu] \in NeedsFrame
    BY <1>1, <1>2, <1>3
  <2>2. \A i \in 1 .. n - 1 : i > 1 => stack'[cpu][i].pc \in NeedsFrame
    BY <1>1, <1>2, <1>3
  <2>. QED
    BY <1>2, <2>1, <2>2 DEF FramesExact
<1>. HIDE DEF n
<1>. QED
  BY <1>1, <1>4, <1>5, <1>6, <1>7

-----------------------------------------------------------------------------
(* Steps that change neither the tasks nor the loaded page table.          *)

LEMMA CodeStep ==
  ASSUME TInv, IInv', FramesExact', MainStays',
         UNCHANGED <<cpu, current, state, pgd, ttbr0>>,
         Interrupted(cpu)' = "pick" => state[next'] = "RUNNING",
         state[cpu] = "ZOMBIE" => Interrupted(cpu)' \in ZombieCode,
         Interrupted(cpu)' = Interrupted(cpu)
           \/ {Interrupted(cpu), Interrupted(cpu)'} \cap Switching = {},
         ThreadAt(cpu) = "mapped" => ThreadAt(cpu)' = "mapped"
  PROVE  TInv'
<1>1. ZombiesLeave'
  BY DEF TInv, ZombiesLeave
<1>2. TableLoaded'
  BY DEF TInv, TableLoaded, Switching
<1>. QED
  BY <1>1, <1>2 DEF TInv

(* A step of the thread itself: no return point lies below it.             *)
Own(a, b) ==
  /\ a \notin NeedsFrame /\ b \notin NeedsFrame
  /\ cpu = 0 /\ a \in MainCode => b \in MainCode

LEMMA OwnMove ==
  ASSUME TInv, NEW a, NEW b, Own(a, b), Move(a, b), UNCHANGED <<cpu, stack>>
  PROVE  /\ FramesExact' /\ MainStays' /\ current = cpu
         /\ Interrupted(cpu) = a /\ Interrupted(cpu)' = b
         /\ ThreadAt(cpu) = a /\ ThreadAt(cpu)' = b
<1>1. /\ pc[cpu] = a /\ a \notin Handler /\ b \notin Handler /\ a \notin Window
      /\ cpu \in Slot /\ 0 \in Slot
  BY DEF Own, Move, At, Handler, Window, NeedsFrame, TInv, IInv, TypeOK
<1>2. /\ FramesExact' /\ pc'[cpu] = b
      /\ \A t \in Slot : ThreadAt(t)' = IF t = cpu THEN b ELSE ThreadAt(t)
  BY MoveThreads DEF TInv, Own
<1>3. Interrupted(cpu)' = b
  BY <1>1, <1>2 DEF Interrupted, Handler
<1>4. ThreadAt(cpu) = a /\ Interrupted(cpu) = a
  BY <1>1, OwnCode DEF TInv, Own
<1>5. MainStays'
  BY <1>1, <1>2, <1>4 DEF TInv, MainStays, Own
<1>6. current = cpu
  BY <1>1, CurrentIsCpu DEF TInv
<1>. QED
  BY <1>1, <1>2, <1>3, <1>4, <1>5, <1>6

LEMMA OwnKeeps ==
  ASSUME TInv, IInv', NEW a, NEW b, Own(a, b), Move(a, b),
         UNCHANGED <<cpu, stack, current, state, pgd, ttbr0>>,
         a # "mapped", a \in ZombieCode => b \in ZombieCode
  PROVE  TInv'
<1>1. /\ FramesExact' /\ MainStays'
      /\ Interrupted(cpu) = a /\ Interrupted(cpu)' = b /\ ThreadAt(cpu) = a
  BY OwnMove
<1>2. b # "pick" /\ {a, b} \cap Switching = {}
  BY DEF Own, NeedsFrame, Switching
<1>3. state[cpu] = "ZOMBIE" => a \in ZombieCode
  BY <1>1 DEF TInv, ZombiesLeave
<1>. QED
  BY <1>1, <1>2, <1>3, CodeStep

LEMMA OwnEdges ==
  /\ Own("boot", "copying") /\ Own("user", "copying")
  /\ Own("copied", CopyReturn) /\ Own("copying", CopyReturn)
  /\ Own("ret_from_fork", "kernel_process") /\ Own("ret_from_fork", "ret")
  /\ Own("kernel_process", "mapped") /\ Own("mapped", "ret")
  /\ Own("kernel_process", "ret") /\ Own("ret", "to_user")
  /\ Own("to_user", "user") /\ Own("exiting", "zombie")
  /\ Own("zombie", "dead") /\ Own("svc", "ret") /\ Own("user", "exiting")
  /\ Own("user", "svc") /\ Own("user", "spin") /\ Own("user", "halt")
  BY DEF Own, NeedsFrame, MainCode, CopyReturn

LEMMA ThreadActionsKeep ==
  ASSUME TInv, IInv',
         \/ \E from \in {"boot", "user"} : CopyBegin(from)
         \/ CopyEnd \/ CopyFail \/ ScheduleTail \/ MoveToUserFail
         \/ DisableIrq \/ KernelExit \/ ExitEnable
         \/ ServiceDone \/ SysExit \/ SysService \/ Trap
  PROVE  TInv'
<1>. USE OwnEdges, OwnKeeps DEF taskVars, ZombieCode
<1>1. CASE \E from \in {"boot", "user"} : CopyBegin(from)
  BY <1>1 DEF CopyBegin
<1>2. CASE CopyEnd \/ CopyFail
  BY <1>2 DEF CopyEnd, CopyFail
<1>3. CASE ScheduleTail
  BY <1>3 DEF ScheduleTail
<1>4. CASE MoveToUserFail \/ DisableIrq \/ KernelExit
  BY <1>4 DEF MoveToUserFail, DisableIrq, KernelExit
<1>5. CASE ExitEnable \/ ServiceDone
  BY <1>5 DEF ExitEnable, ServiceDone
<1>6. CASE SysExit \/ SysService
  BY <1>6 DEF SysExit, SysService
<1>7. CASE Trap
  BY <1>7 DEF Trap
<1>. QED
  BY <1>1, <1>2, <1>3, <1>4, <1>5, <1>6, <1>7

(* The first page: the table exists before it is loaded.                   *)
LEMMA FirstPageKeeps ==
  ASSUME TInv, IInv', MapFirstPage \/ LoadFirstPgd PROVE TInv'
<1>. USE OwnEdges DEF taskVars
<1>1. CASE MapFirstPage
  <2>1. /\ Move("kernel_process", "mapped")
        /\ UNCHANGED <<cpu, stack, current, state>>
    BY <1>1 DEF MapFirstPage
  <2>2. /\ FramesExact' /\ MainStays' /\ current = cpu
        /\ Interrupted(cpu) = "kernel_process" /\ Interrupted(cpu)' = "mapped"
        /\ ThreadAt(cpu)' = "mapped"
    BY <2>1, OwnMove DEF TInv
  <2>. QED
    BY <2>1, <2>2 DEF TInv, ZombiesLeave, TableLoaded, ZombieCode,
           Switching
<1>2. CASE LoadFirstPgd
  <2>1. /\ Move("mapped", "ret") /\ ttbr0' = pgd[current]
        /\ UNCHANGED <<cpu, stack, current, state, pgd>>
    BY <1>2 DEF LoadFirstPgd
  <2>2. /\ FramesExact' /\ MainStays' /\ current = cpu
        /\ Interrupted(cpu) = "mapped" /\ Interrupted(cpu)' = "ret"
    BY <2>1, OwnMove DEF TInv
  <2>. QED
    BY <2>1, <2>2 DEF TInv, ZombiesLeave, TableLoaded, ZombieCode,
           Switching
<1>. QED
  BY <1>1, <1>2

(* exit_process marks the running process, which is not init_task.         *)
LEMMA MarkZombieKeeps == ASSUME TInv, IInv', MarkZombie PROVE TInv'
<1>1. /\ Move("exiting", "zombie")
      /\ state' = [state EXCEPT ![current] = "ZOMBIE"]
      /\ UNCHANGED <<cpu, stack, current, pgd, ttbr0, next>>
  BY DEF MarkZombie, ExitingSlot
<1>2. /\ FramesExact' /\ MainStays' /\ current = cpu
      /\ Interrupted(cpu) = "exiting" /\ Interrupted(cpu)' = "zombie"
      /\ ThreadAt(cpu) = "exiting"
  BY <1>1, OwnEdges, OwnMove
<1>3. cpu # 0
  BY <1>2 DEF TInv, MainStays, MainCode
<1>4. state \in [Slot -> {"RUNNING", "ZOMBIE"}]
  BY DEF TInv, IInv, TypeOK
<1>5. ZombiesLeave'
  BY <1>1, <1>2, <1>3, <1>4 DEF TInv, ZombiesLeave, ZombieCode, Switching
<1>6. TableLoaded'
  BY <1>1, <1>2 DEF TInv, TableLoaded
<1>. QED
  BY <1>2, <1>5, <1>6 DEF TInv

-----------------------------------------------------------------------------
(* Steps of _schedule and switch_to, above a return point.                 *)

Inner(a, b) ==
  {a, b} \subseteq {"enter", "scan", "refill", "pick", "set_pgd",
                    "cpu_switch_to", "out", "leave"}

LEMMA InnerMove ==
  ASSUME TInv, NEW a, NEW b, Inner(a, b), Move(a, b), UNCHANGED <<cpu, stack>>
  PROVE  /\ FramesExact' /\ MainStays'
         /\ Interrupted(cpu) = a /\ Interrupted(cpu)' = b
         /\ ThreadAt(cpu)' = ThreadAt(cpu)
<1>1. /\ pc[cpu] = a /\ a \notin Handler /\ b \notin Handler
      /\ a \in NeedsFrame /\ b \in NeedsFrame
      /\ cpu \in Slot /\ 0 \in Slot
  BY DEF Inner, Move, At, Handler, NeedsFrame, TInv, IInv, TypeOK
<1>2. /\ FramesExact' /\ pc'[cpu] = b
      /\ \A t \in Slot : ThreadAt(t)' = ThreadAt(t)
  BY <1>1, MoveThreads DEF TInv
<1>3. Interrupted(cpu)' = b /\ Interrupted(cpu) = a
  BY <1>1, <1>2 DEF Interrupted, Handler
<1>4. MainStays'
  BY <1>1, <1>2 DEF TInv, MainStays
<1>. QED
  BY <1>1, <1>2, <1>3, <1>4

LEMMA InnerKeeps ==
  ASSUME TInv, IInv', NEW a, NEW b, Inner(a, b), Move(a, b),
         UNCHANGED <<cpu, stack, current, state, pgd, ttbr0>>,
         {a, b} \cap Switching = {},
         b = "pick" => state[next'] = "RUNNING",
         state[cpu] = "ZOMBIE" /\ a \in ZombieCode => b \in ZombieCode
  PROVE  TInv'
<1>1. /\ FramesExact' /\ MainStays'
      /\ Interrupted(cpu) = a /\ Interrupted(cpu)' = b
      /\ ThreadAt(cpu)' = ThreadAt(cpu)
  BY InnerMove
<1>2. state[cpu] = "ZOMBIE" => a \in ZombieCode
  BY <1>1 DEF TInv, ZombiesLeave
<1>. QED
  BY <1>1, <1>2, CodeStep

LEMMA ScanKeeps ==
  ASSUME TInv, IInv', EnterSchedule \/ Scan \/ Refill PROVE TInv'
<1>. USE DEF taskVars, Inner, ZombieCode, Switching
<1>1. CASE EnterSchedule
  BY <1>1, InnerKeeps DEF EnterSchedule
<1>2. CASE Refill
  BY <1>2, InnerKeeps DEF Refill
<1>3. CASE Scan
  <2>1. state[next'] = "RUNNING"
    <3>1. state[0] = "RUNNING" /\ \A t \in Eligible : state[t] = "RUNNING"
      BY DEF TInv, ZombiesLeave, Eligible
    <3>. QED
      BY <1>3, <3>1 DEF Scan, NoChoice
  <2>2. Move("scan", "pick") \/ Move("scan", "refill")
    BY <1>3 DEF Scan, Move
  <2>. QED
    BY <1>3, <2>1, <2>2, InnerKeeps DEF Scan
<1>. QED
  BY <1>1, <1>2, <1>3

LEMMA SwitchKeeps ==
  ASSUME TInv, IInv', SwitchTo \/ SetPgd \/ CpuSwitchTo PROVE TInv'
<1>. USE DEF taskVars, Inner, Switching
<1>1. CASE SwitchTo
  <2>1. At("pick") /\ UNCHANGED <<cpu, stack, state, pgd, ttbr0, next>>
    BY <1>1 DEF SwitchTo
  <2>2. Interrupted(cpu) = "pick" /\ current = cpu
    BY <2>1, OwnCode, CurrentIsCpu DEF TInv, At, Handler, Window
  <2>3. state[next] = "RUNNING"
    BY <2>2 DEF TInv, ZombiesLeave
  <2>4. CASE current = next /\ Goto("out") /\ UNCHANGED current
    <3>1. Move("pick", "out") /\ state[cpu] # "ZOMBIE"
      BY <2>1, <2>2, <2>3, <2>4 DEF Move
    <3>. QED
      BY <2>1, <2>4, <3>1, InnerKeeps
  <2>5. CASE Goto("set_pgd") /\ current' = next
    <3>1. Move("pick", "set_pgd")
      BY <2>1, <2>5 DEF Move
    <3>2. /\ FramesExact' /\ MainStays' /\ Interrupted(cpu)' = "set_pgd"
          /\ ThreadAt(cpu)' = ThreadAt(cpu)
      BY <2>1, <3>1, InnerMove
    <3>. QED
      BY <2>1, <2>2, <2>3, <2>5, <3>2
      DEF TInv, ZombiesLeave, ZombieCode, Switching, TableLoaded
  <2>. QED
    BY <1>1, <2>4, <2>5 DEF SwitchTo
<1>2. CASE SetPgd
  <2>1. /\ Move("set_pgd", "cpu_switch_to") /\ ttbr0' = pgd[current]
        /\ UNCHANGED <<cpu, stack, current, state, pgd, next>>
    BY <1>2 DEF SetPgd
  <2>2. /\ FramesExact' /\ MainStays'
        /\ Interrupted(cpu) = "set_pgd" /\ Interrupted(cpu)' = "cpu_switch_to"
    BY <2>1, InnerMove
  <2>. QED
    BY <2>1, <2>2 DEF TInv, ZombiesLeave, ZombieCode, Switching, TableLoaded
<1>3. CASE CpuSwitchTo
  <2>1. /\ Move("cpu_switch_to", "out") /\ cpu' = current
        /\ UNCHANGED <<stack, current, state, pgd, ttbr0, next>>
    BY <1>3 DEF CpuSwitchTo
  <2>2. /\ "cpu_switch_to" \in NeedsFrame /\ "out" \in NeedsFrame
        /\ 0 \in Slot /\ cpu \in Slot /\ current \in Slot
    BY DEF NeedsFrame, TInv, IInv, TypeOK
  <2>3. /\ FramesExact' /\ pc'[cpu] = "out"
        /\ \A t \in Slot : ThreadAt(t)' = ThreadAt(t)
    BY <2>1, <2>2, MoveThreads DEF TInv
  <2>4. MainStays'
    BY <2>2, <2>3 DEF TInv, MainStays
  <2>5. Interrupted(cpu) = "cpu_switch_to"
    BY <2>1, OwnCode DEF TInv, Move, At, Handler
  <2>6. pc'[current] \in {"out", "ret_from_fork"}
    BY <2>1, <2>2, <2>3
    DEF TInv, IInv, Control, SlotsInUse, SuspendedAtSwitch, Move, Goto, TypeOK
  <2>7. Interrupted(cpu)' \in {"out", "ret_from_fork"}
    BY <2>1, <2>6 DEF Interrupted
  <2>8. state[current] = "RUNNING" /\ ttbr0 = pgd[current]
    BY <2>5 DEF TInv, ZombiesLeave, Switching, TableLoaded
  <2>. QED
    BY <2>1, <2>3, <2>4, <2>7, <2>8
    DEF TInv, ZombiesLeave, ZombieCode, Switching, TableLoaded
<1>. QED
  BY <1>1, <1>2, <1>3

-----------------------------------------------------------------------------
(* Calls of schedule() and returns from it.                                *)

LEMMA CallKeeps ==
  ASSUME TInv, IInv', KernelMainLoop \/ ExitSchedule PROVE TInv'
<1>1. PICK from \in {"idle", "dead"}, ret \in {"idle", "ret"} :
        Schedule(from, ret) /\ (from = "idle" => ret = "idle")
  BY DEF KernelMainLoop, ExitSchedule
<1>2. /\ pc[cpu] = from /\ Call("enter", ret, "call")
      /\ UNCHANGED <<cpu, current, state, pgd, ttbr0, next>>
  BY <1>1 DEF Schedule, At, taskVars
<1>3. /\ from \notin NeedsFrame \cup Handler /\ ret \notin NeedsFrame
      /\ "enter" \in NeedsFrame /\ ret \in Label /\ "enter" \in Label
      /\ cpu \in Slot /\ 0 \in Slot
  <2>1. ret \in Label /\ "enter" \in Label
    BY <1>1, LabelTypes
  <2>2. cpu \in Slot /\ 0 \in Slot
    BY DEF TInv, IInv, TypeOK
  <2>. QED
    BY <1>1, <2>1, <2>2 DEF NeedsFrame, Handler
<1>4. /\ FramesExact'
      /\ \A t \in Slot : ThreadAt(t)' = IF t = cpu THEN ret ELSE ThreadAt(t)
  BY <1>2, <1>3, CallThreads DEF TInv
<1>5. ThreadAt(cpu) = from /\ Interrupted(cpu) = from
  BY <1>2, <1>3, OwnCode DEF TInv
<1>6. pc'[cpu] = "enter"
  BY <1>2, <1>3, CallFrames DEF TInv, IInv
<1>7. Interrupted(cpu)' = "enter"
  BY <1>2, <1>6 DEF Interrupted
<1>8. MainStays'
  BY <1>1, <1>3, <1>4, <1>5 DEF TInv, MainStays, MainCode
<1>. QED
  BY <1>1, <1>2, <1>4, <1>5, <1>7, <1>8, CodeStep DEF ZombieCode, Switching

(* A zombie never gets here: it is not chosen again.                       *)
LEMMA LeaveKeeps == ASSUME TInv, IInv', LeaveSchedule PROVE TInv'
<1>1. At("out") /\ UNCHANGED <<cpu, current, state, pgd, ttbr0, next>>
  BY DEF LeaveSchedule, taskVars
<1>2. Interrupted(cpu) = "out" /\ pc[cpu] \in NeedsFrame \ Handler
  BY <1>1, OwnCode DEF TInv, At, Handler, NeedsFrame
<1>3. state[cpu] # "ZOMBIE"
  BY <1>2 DEF TInv, ZombiesLeave, ZombieCode
<1>4. CASE Goto("leave") /\ UNCHANGED stack
  <2>1. Move("out", "leave")
    BY <1>1, <1>4 DEF Move
  <2>. QED
    BY <1>1, <1>3, <1>4, <2>1, InnerKeeps DEF Inner, Switching
<1>5. CASE Return
  <2>1. FramesExact' /\ \A t \in Slot : ThreadAt(t)' = ThreadAt(t)
    BY <1>2, <1>5, ReturnThreads DEF TInv
  <2>2. pc'[cpu] \notin Masked /\ pc'[cpu] \notin Critical
    BY <1>2, <1>5, PopKeepsFrames DEF TInv, IInv, Control
  <2>3. Interrupted(cpu)' \notin Switching /\ Interrupted(cpu)' # "pick"
    BY <1>1, <2>2 DEF Interrupted, Masked, Critical, Switching
  <2>4. MainStays' /\ ThreadAt(cpu)' = ThreadAt(cpu)
    BY <1>1, <2>1 DEF TInv, MainStays, IInv, TypeOK
  <2>. QED
    BY <1>1, <1>2, <1>3, <2>1, <2>3, <2>4, CodeStep DEF Switching
<1>. QED
  BY <1>4, <1>5 DEF LeaveSchedule

-----------------------------------------------------------------------------
(* The timer interrupt: what it interrupts stays what it was, unless the   *)
(* handler goes on to the scheduler.                                       *)

LEMMA IrqTakenKeeps == ASSUME TInv, IInv', Irq PROVE TInv'
<1>1. /\ irqs /\ Call("irq", pc[cpu], "irq")
      /\ UNCHANGED <<cpu, current, state, pgd, ttbr0, next>>
  BY DEF Irq, taskVars
<1>2. /\ "irq" \in NeedsFrame /\ "irq" \in Label /\ "irq" \in Handler
      /\ pc[cpu] \in Label /\ cpu \in Slot /\ 0 \in Slot
  BY LabelTypes DEF NeedsFrame, Handler, TInv, IInv, TypeOK
<1>3. pc[cpu] \notin Handler
  BY <1>1 DEF TInv, IInv, Control, IrqMaskDiscipline, Masked, Handler
<1>4. /\ FramesExact'
      /\ \A t \in Slot : ThreadAt(t)' = IF t = cpu /\ pc[cpu] \notin NeedsFrame
                                        THEN pc[cpu] ELSE ThreadAt(t)
  BY <1>1, <1>2, CallThreads DEF TInv
<1>5. \A t \in Slot : ThreadAt(t)' = ThreadAt(t)
  BY <1>4, OwnCode DEF TInv
<1>6. /\ pc'[cpu] = "irq" /\ Len(stack'[cpu]) = Len(stack[cpu]) + 1
      /\ stack'[cpu][Len(stack[cpu]) + 1].pc = pc[cpu]
  BY <1>1, <1>2, CallFrames DEF TInv, IInv
<1>7. Interrupted(cpu)' = Interrupted(cpu)
  BY <1>1, <1>2, <1>3, <1>6 DEF Interrupted, Saved, Handler
<1>8. MainStays' /\ ThreadAt(cpu)' = ThreadAt(cpu)
  BY <1>1, <1>2, <1>5 DEF TInv, MainStays
<1>9. /\ Interrupted(cpu) = "pick" => state[next] = "RUNNING"
      /\ state[cpu] = "ZOMBIE" => Interrupted(cpu) \in ZombieCode
  BY DEF TInv, ZombiesLeave
<1>. QED
  BY <1>1, <1>4, <1>7, <1>8, <1>9, CodeStep

LEMMA TickKeeps == ASSUME TInv, IInv', TimerTick PROVE TInv'
<1>1. /\ At("irq") /\ UNCHANGED <<cpu, current, state, pgd, ttbr0, stack, next>>
      /\ \/ Goto("eret")
         \/ Goto("enter") /\ preempt_count[current] <= 0
  BY DEF TimerTick, taskVars
<1>2. PICK b \in {"eret", "enter"} : Move("irq", b)
  BY <1>1 DEF Move
<1>3. /\ FramesExact' /\ pc'[cpu] = b
      /\ \A t \in Slot : ThreadAt(t)' = ThreadAt(t)
  BY <1>1, <1>2, MoveThreads DEF TInv, NeedsFrame
<1>4. MainStays' /\ ThreadAt(cpu)' = ThreadAt(cpu)
  BY <1>1, <1>3 DEF TInv, MainStays, IInv, TypeOK
<1>5. /\ Interrupted(cpu) = "pick" => state[next] = "RUNNING"
      /\ state[cpu] = "ZOMBIE" => Interrupted(cpu) \in ZombieCode
  BY DEF TInv, ZombiesLeave
<1>6. CASE b = "eret"
  <2>1. Interrupted(cpu)' = Interrupted(cpu)
    BY <1>1, <1>3, <1>6 DEF Interrupted, Saved, At
  <2>. QED
    BY <1>1, <1>3, <1>4, <1>5, <2>1, CodeStep
<1>7. CASE b = "enter"
  <2>1. Interrupted(cpu)' = "enter"
    BY <1>1, <1>3, <1>7 DEF Interrupted
  <2>2. preempt_count[current] <= 0
    BY <1>1, <1>2, <1>3, <1>7 DEF Goto, TInv, IInv, TypeOK
  <2>3. /\ current \in Created /\ preempt_count[current] \in Int
        /\ failed[current] \in Nat
    BY DEF TInv, IInv, Control, SlotsInUse, TypeOK
  <2>4. current = cpu
    <3>1. ~(preempt_count[current] > 0)
      BY <2>2, <2>3
    <3>. QED
      BY <3>1 DEF TInv, IInv, Control, SwitchWindowIsSafe
  <2>5. Interrupted(cpu) \notin Critical
    <3>1. preempt_count[cpu] =
            failed[cpu] + IF Interrupted(cpu) \in Critical THEN 1 ELSE 0
      BY <2>3, <2>4 DEF TInv, IInv, Control, PreemptBalance
    <3>. QED
      BY ONLY <2>2, <2>3, <2>4, <3>1
  <2>6. Interrupted(cpu) \notin Switching
    BY <2>5 DEF Critical, Switching
  <2>. QED
    BY <1>1, <1>3, <1>4, <2>1, <2>6, CodeStep DEF ZombieCode, Switching
<1>. QED
  BY <1>6, <1>7

LEMMA TickLeftKeeps == ASSUME TInv, IInv', LeaveTick PROVE TInv'
<1>1. /\ Move("leave", "eret")
      /\ UNCHANGED <<cpu, current, state, pgd, ttbr0, stack, next>>
  BY DEF LeaveTick, taskVars
<1>2. /\ FramesExact' /\ pc'[cpu] = "eret"
      /\ \A t \in Slot : ThreadAt(t)' = ThreadAt(t)
  BY <1>1, MoveThreads DEF TInv, NeedsFrame
<1>3. MainStays' /\ ThreadAt(cpu)' = ThreadAt(cpu)
  BY <1>1, <1>2 DEF TInv, MainStays, IInv, TypeOK
<1>4. Interrupted(cpu) = "leave" /\ Interrupted(cpu)' = Saved(cpu).pc
  BY <1>1, <1>2 DEF Interrupted, Saved, Move, At
<1>5. state[cpu] # "ZOMBIE"
  BY <1>4 DEF TInv, ZombiesLeave, ZombieCode
<1>6. Saved(cpu).pc \notin Critical
  <2>1. cpu \in Slot /\ Len(stack[cpu]) \in Nat /\ Len(stack[cpu]) > 0
    BY <1>1, OwnCode
    DEF TInv, IInv, TypeOK, Control, FrameDiscipline, WellFramed, NeedsFrame,
        Move, At
  <2>. QED
    BY <1>1, <2>1 DEF TInv, IInv, Control, FrameDiscipline, WellFramed, Saved,
       Move, At
<1>7. Interrupted(cpu)' \notin Switching /\ Interrupted(cpu)' # "pick"
  BY <1>4, <1>6 DEF Critical, Switching
<1>. QED
  BY <1>1, <1>2, <1>3, <1>4, <1>5, <1>7, CodeStep DEF Switching

LEMMA EretReturns == ASSUME TInv, IInv', Eret PROVE TInv'
<1>1. /\ pc[cpu] = "eret" /\ Return
      /\ UNCHANGED <<cpu, current, state, pgd, ttbr0, next>>
  BY DEF Eret, At, taskVars
<1>2. FramesExact' /\ \A t \in Slot : ThreadAt(t)' = ThreadAt(t)
  BY <1>1, ReturnThreads DEF TInv, NeedsFrame
<1>3. MainStays' /\ ThreadAt(cpu)' = ThreadAt(cpu)
  BY <1>1, <1>2 DEF TInv, MainStays, IInv, TypeOK
<1>4. pc'[cpu] = Saved(cpu).pc /\ pc'[cpu] \notin Masked
  BY <1>1, PopKeepsFrames DEF TInv, IInv, Control, NeedsFrame, Return, TypeOK
<1>5. Interrupted(cpu)' = Interrupted(cpu)
  BY <1>1, <1>4 DEF Interrupted, Masked
<1>6. /\ Interrupted(cpu) = "pick" => state[next] = "RUNNING"
      /\ state[cpu] = "ZOMBIE" => Interrupted(cpu) \in ZombieCode
  BY DEF TInv, ZombiesLeave
<1>. QED
  BY <1>1, <1>2, <1>3, <1>5, <1>6, CodeStep

-----------------------------------------------------------------------------
(* The new task disturbs nobody: its slot was in nobody's hands.           *)
LEMMA PublishKeeps == ASSUME TInv, IInv', CopyPublish PROVE TInv'
<1>1. PICK p \in Slot :
        /\ pc[cpu] = "copying" /\ p = nr_tasks
        /\ state' = [state EXCEPT ![p] = "RUNNING"]
        /\ \A t \in Slot \ {p} : pgd'[t] = pgd[t]
        /\ pc' = [pc EXCEPT ![cpu] = "copied", ![p] = "ret_from_fork"]
        /\ UNCHANGED <<current, cpu, ttbr0, stack, next>>
  BY DEF CopyPublish, At, FirstPc, TInv, IInv, TypeOK
<1>2. /\ cpu \in Created /\ current \in Created /\ 0 \in Created
      /\ p \notin Created /\ stack[p] = <<>>
  BY <1>1 DEF TInv, IInv, Control, SlotsInUse, TypeOK
<1>3. current = cpu
  BY <1>1, CurrentIsCpu DEF TInv, Window, Handler
<1>4. /\ pc'[cpu] = "copied" /\ pc'[p] = "ret_from_fork"
      /\ \A t \in Slot \ {cpu, p} : pc'[t] = pc[t]
      /\ \A t \in Slot \ {p} : state'[t] = state[t]
  BY <1>1, <1>2 DEF TInv, IInv, TypeOK
<1>5. /\ Len(stack[cpu]) = 0 /\ ThreadAt(cpu) = "copying"
      /\ Interrupted(cpu) = "copying"
  BY <1>1, OwnCode DEF TInv, NeedsFrame, Handler
<1>6. FramesExact'
  <2>. SUFFICES ASSUME NEW t \in Slot
                PROVE  /\ Len(stack[t]) > 0 => pc'[t] \in NeedsFrame
                       /\ \A i \in 1 .. Len(stack[t]) :
                            i > 1 => stack[t][i].pc \in NeedsFrame
    BY <1>1 DEF FramesExact
  <2>. QED
    BY <1>2, <1>4, <1>5 DEF TInv, FramesExact
<1>7. MainStays'
  <2>1. ThreadAt(0)' = IF cpu = 0 THEN "copied" ELSE ThreadAt(0)
    BY <1>1, <1>2, <1>4, <1>5 DEF ThreadAt
  <2>. QED
    BY <2>1 DEF TInv, MainStays, MainCode
<1>8. Interrupted(cpu)' = "copied"
  BY <1>1, <1>4 DEF Interrupted
<1>9. ZombiesLeave'
  BY <1>1, <1>2, <1>4, <1>5, <1>8
  DEF TInv, ZombiesLeave, ZombieCode, Switching
<1>10. TableLoaded'
  BY <1>1, <1>2, <1>5, <1>8 DEF TInv, TableLoaded
<1>. QED
  BY <1>6, <1>7, <1>9, <1>10 DEF TInv

-----------------------------------------------------------------------------
LEMMA NextKeepsTInv == TInv /\ [Next]_vars => TInv'
<1>. SUFFICES ASSUME TInv, [Next]_vars PROVE TInv'
  OBVIOUS
<1>1. IInv'
  BY NextKeepsIInv DEF TInv
<1>2. CASE ScheduleStep
  BY <1>1, <1>2, ScanKeeps, SwitchKeeps, LeaveKeeps DEF ScheduleStep
<1>3. CASE TickStep
  BY <1>1, <1>3, TickKeeps, TickLeftKeeps, EretReturns DEF TickStep
<1>4. CASE ThreadStep
  BY <1>1, <1>4, ThreadActionsKeep, FirstPageKeeps, MarkZombieKeeps,
     CallKeeps, PublishKeeps DEF ThreadStep, KernelMain
<1>5. CASE UserStep
  BY <1>1, <1>5, ThreadActionsKeep DEF UserStep, SysFork
<1>6. CASE Irq
  BY <1>1, <1>6, IrqTakenKeeps
<1>7. CASE UNCHANGED vars
  <2>. USE <1>7 DEF vars, taskVars
  <2>1. FramesExact' /\ MainStays'
    BY DEF TInv, FramesExact, MainStays, ThreadAt
  <2>2. Interrupted(cpu)' = Interrupted(cpu) /\ ThreadAt(cpu)' = ThreadAt(cpu)
    BY DEF Interrupted, Saved, ThreadAt
  <2>3. ZombiesLeave' /\ TableLoaded'
    BY <2>2 DEF TInv, ZombiesLeave, TableLoaded
  <2>. QED
    BY <1>1, <2>1, <2>3 DEF TInv
<1>. QED
  BY <1>2, <1>3, <1>4, <1>5, <1>6, <1>7 DEF Next, KernelStep, ErrHang

LEMMA SpecTInv == Spec => []TInv
  BY InitTInv, NextKeepsTInv, PTL DEF Spec

(* A process that exited never returns from its last call of schedule, so  *)
(* it executes no user code and no system call again.                      *)
THEOREM ZombiesNeverReturn == Spec => []ZombieStaysInKernel
  BY SpecTInv, ZombiesStay, PTL

(* User code always runs under its own task's page table, although the     *)
(* table is loaded two steps before the stack changes hands and a thread's *)
(* first table exists before it is loaded.                                 *)
THEOREM AddressSpacesMatch == Spec => []AddressSpaceMatches
  BY SpecTInv, TablesMatch, PTL

-----------------------------------------------------------------------------
(* Sched implements TaskLife.                                              *)

Status == [t \in Slot |-> StatusOf(t)]

LEMMA InitTaskLife == Init => Life!Init
<1>. SUFFICES ASSUME Init
              PROVE  Status = [t \in Slot |->
                                 IF t = 0 THEN "running" ELSE "unused"]
  BY DEF Life!Init, Status
<1>1. \A t \in Slot : StatusOf(t) = IF t = 0 THEN "running" ELSE "unused"
  BY DEF Init, StatusOf
<1>. QED
  BY <1>1 DEF Status

(* Most steps change no status.                                            *)
LEMMA SameStatus == UNCHANGED <<cpu, nr_tasks, state>> => UNCHANGED Status
  BY DEF Status, StatusOf

LEMMA ForkStep == ASSUME TInv, CopyPublish PROVE \E c \in Slot : Life!Fork(c)
<1>1. PICK p \in Slot : /\ pc[cpu] = "copying"
                        /\ p = nr_tasks /\ nr_tasks' = p + 1
                        /\ state' = [state EXCEPT ![p] = "RUNNING"]
                        /\ cpu' = cpu
  BY DEF CopyPublish, At
<1>2. /\ cpu \in Created /\ p \notin Created /\ Created' = Created \cup {p}
      /\ state \in [Slot -> {"RUNNING", "ZOMBIE"}]
  <2>1. cpu \in Created /\ state \in [Slot -> {"RUNNING", "ZOMBIE"}]
    BY DEF TInv, IInv, Control, SlotsInUse, TypeOK
  <2>2. p \in Int /\ ~(p < nr_tasks)
    BY <1>1
  <2>3. Created' = Created \cup {p}
    BY <1>1
  <2>. QED
    BY <2>1, <2>2, <2>3
<1>3. state[cpu] = "RUNNING"
  <2>1. Interrupted(cpu) = "copying"
    BY <1>1, OwnCode DEF TInv, Handler
  <2>. QED
    BY <1>2, <2>1 DEF TInv, ZombiesLeave, ZombieCode
<1>4. Status[cpu] = "running" /\ Status[p] = "unused"
  BY <1>2, <1>3 DEF Status, StatusOf
<1>5. Status' = [Status EXCEPT ![p] = "ready"]
  <2>1. StatusOf(p)' = "ready"
    BY <1>1, <1>2 DEF StatusOf
  <2>2. \A t \in Slot \ {p} : StatusOf(t)' = StatusOf(t)
    BY <1>1, <1>2 DEF StatusOf
  <2>. QED
    BY <2>1, <2>2 DEF Status
<1>. QED
  BY <1>2, <1>4, <1>5 DEF Life!Fork, Status

LEMMA ExitStep == ASSUME TInv, MarkZombie PROVE Life!Exit(cpu)
<1>1. /\ pc[cpu] = "exiting" /\ UNCHANGED <<cpu, nr_tasks>>
      /\ state' = [state EXCEPT ![current] = "ZOMBIE"]
  BY DEF MarkZombie, ExitingSlot, Move, At
<1>2. /\ cpu \in Created /\ current = cpu
      /\ state \in [Slot -> {"RUNNING", "ZOMBIE"}]
  BY <1>1, CurrentIsCpu DEF TInv, IInv, Control, SlotsInUse, TypeOK, Window,
     Handler
<1>3. state[cpu] = "RUNNING"
  <2>1. Interrupted(cpu) = "exiting"
    BY <1>1, OwnCode DEF TInv, Handler
  <2>. QED
    BY <1>2, <2>1 DEF TInv, ZombiesLeave, ZombieCode
<1>4. Status[cpu] = "running"
  BY <1>2, <1>3 DEF Status, StatusOf
<1>5. Status' = [Status EXCEPT ![cpu] = "exiting"]
  <2>1. \A t \in Slot : StatusOf(t)' = IF t = cpu THEN "exiting" ELSE StatusOf(t)
    BY <1>1, <1>2 DEF StatusOf
  <2>. QED
    BY <2>1 DEF Status
<1>. QED
  BY <1>4, <1>5 DEF Life!Exit, Status

LEMMA SwitchStep ==
  ASSUME TInv, CpuSwitchTo, current # cpu PROVE Life!Switch(cpu, current)
<1>1. /\ pc[cpu] = "cpu_switch_to" /\ cpu' = current
      /\ UNCHANGED <<nr_tasks, state>>
  BY DEF CpuSwitchTo, Move, At, taskVars
<1>2. /\ cpu \in Created /\ current \in Created
      /\ state \in [Slot -> {"RUNNING", "ZOMBIE"}]
  BY DEF TInv, IInv, Control, SlotsInUse, TypeOK
<1>3. state[current] = "RUNNING"
  <2>1. Interrupted(cpu) = "cpu_switch_to"
    BY <1>1, OwnCode DEF TInv, Handler
  <2>. QED
    BY <2>1 DEF TInv, ZombiesLeave, Switching
<1>4. Status[cpu] \in {"running", "exiting"} /\ Status[current] = "ready"
  BY <1>2, <1>3 DEF Status, StatusOf
<1>5. \A t \in Slot :
        StatusOf(t)' = IF t = current THEN "running"
                       ELSE IF t = cpu
                         THEN IF StatusOf(cpu) = "exiting" THEN "dead" ELSE "ready"
                         ELSE StatusOf(t)
  BY <1>1, <1>2, <1>3 DEF StatusOf
<1>6. Status' = [Status EXCEPT
                   ![cpu] = IF @ = "exiting" THEN "dead" ELSE "ready",
                   ![current] = "running"]
  BY <1>2, <1>5 DEF Status
<1>. QED
  BY <1>4, <1>6 DEF Life!Switch, Life!OnCpu, Status

LEMMA StepTaskLife == TInv /\ [Next]_vars => [Life!Next]_Status
<1>. SUFFICES ASSUME TInv, [Next]_vars PROVE Life!Next \/ UNCHANGED Status
  OBVIOUS
<1>. USE SameStatus DEF taskVars
<1>1. cpu \in Slot /\ current \in Slot
  BY DEF TInv, IInv, TypeOK
<1>2. CASE CopyPublish
  BY <1>2, ForkStep DEF Life!Next
<1>3. CASE MarkZombie
  BY <1>1, <1>3, ExitStep DEF Life!Next
<1>4. CASE CpuSwitchTo /\ current # cpu
  BY <1>1, <1>4, SwitchStep DEF Life!Next
<1>5. CASE CpuSwitchTo /\ current = cpu
  BY <1>5 DEF CpuSwitchTo
<1>6. CASE ScheduleStep
  BY <1>4, <1>5, <1>6
  DEF ScheduleStep, EnterSchedule, Scan, Refill, SwitchTo, SetPgd,
      LeaveSchedule
<1>7. CASE TickStep
  BY <1>7 DEF TickStep, TimerTick, LeaveTick, Eret
<1>8. CASE ThreadStep
  BY <1>2, <1>3, <1>8
  DEF ThreadStep, KernelMain, CopyBegin, KernelMainLoop, Schedule,
      ScheduleTail, MapFirstPage, LoadFirstPgd, MoveToUserFail, CopyEnd,
      CopyFail, DisableIrq, KernelExit, ExitEnable, ExitSchedule, ServiceDone
<1>9. CASE UserStep
  BY <1>9 DEF UserStep, SysFork, CopyBegin, SysExit, SysService, Trap
<1>10. CASE Irq
  BY <1>10 DEF Irq
<1>11. CASE UNCHANGED vars
  BY <1>11 DEF vars
<1>. QED
  BY <1>6, <1>7, <1>8, <1>9, <1>10, <1>11 DEF Next, KernelStep, ErrHang

(* Whatever interrupts and failures do, the tasks are only ever created,   *)
(* switched to and ended, one at a time, and the dead stay dead.           *)
THEOREM TaskLifeImplemented == Spec => ImplementsTaskLife
<1>1. TInv /\ [Next]_vars => [Life!Next]_[t \in Slot |-> StatusOf(t)]
  BY StepTaskLife DEF Status
<1>. QED
  BY <1>1, InitTaskLife, SpecTInv, PTL DEF Spec, ImplementsTaskLife, Life!Spec

-----------------------------------------------------------------------------
(* What ties left to late in each phase.  While no match is pending the    *)
(* deadline is ahead; a pending match is at most late counts old, and at   *)
(* most one period early when it was left over from before timer_init.     *)
Phase ==
  /\ handler \in {"boot", "init"} \/ (handler = "idle" /\ m1) \/ handler = "ack" \/
       (left \in 1 .. 2 * interval /\ late = 0)
  /\ handler = "boot" => left = 0 /\ late = 0
  /\ handler = "init" => left = interval - late /\ clo = Plus(curVal, late)
  /\ handler = "idle" /\ m1 => left >= -late /\ left <= interval
  /\ handler = "ack" => m1 /\ left >= interval - late /\ left <= 2 * interval

TimerInv == TimerTypeOK /\ CompareIsDue /\ Phase

USE TimerAssumption

LEMMA PlusType == \A a, b \in Count : Plus(a, b) \in Count
BY DEF Count, Plus

LEMMA Sizes == 0 \in Count /\ 1 \in Count /\ interval \in Count
BY DEF Count

LEMMA TimerResetKeeps == TimerReset => TimerInv
BY DEF TimerReset, TimerInv, TimerTypeOK, CompareIsDue, Phase, Count

(* One count later the deadline is one count nearer, and the counter meets *)
(* the compare register when there was one to go.                          *)
LEMMA OneCount ==
  ASSUME NEW a \in Count, NEW b \in Count, NEW n \in -interval .. 2 * interval,
         Ahead(a, b, n)
  PROVE  /\ Ahead(Plus(a, 1), b, n - 1)
         /\ n > 0 => (Plus(a, 1) = b <=> n = 1)
BY DEF Ahead, Plus, Count

LEMMA AdvanceKeeps == ASSUME TimerInv, Advance PROVE TimerInv'
<1>1. clo' \in Count /\ c1' \in Count /\ curVal' \in Count
  BY PlusType, Sizes DEF TimerInv, TimerTypeOK, Advance
<1>2. m1' \in BOOLEAN
  BY DEF TimerInv, TimerTypeOK, Advance
<1>3. CASE handler = "boot"
  BY <1>1, <1>2, <1>3 DEF TimerInv, TimerTypeOK, CompareIsDue, Phase, Advance, Busy
<1>4. CASE handler = "init"
  <2>1. clo' = Plus(curVal, late')
    BY <1>4 DEF TimerInv, TimerTypeOK, Phase, Advance, Busy, Plus, Count
  <2>2. /\ handler' = "init" /\ curVal' = curVal /\ late < Latency
        /\ left' = left - 1 /\ late' = late + 1
    BY <1>4 DEF Advance, Busy
  <2>. QED
    BY <1>1, <1>2, <1>4, <2>1, <2>2 DEF TimerInv, TimerTypeOK, CompareIsDue, Phase
<1>5. CASE handler \in {"idle", "ack"}
  <2>1. left \in -interval .. 2 * interval /\ left' = left - 1 /\ handler' = handler
    BY <1>5 DEF TimerInv, TimerTypeOK, Advance
  <2>2. CompareIsDue' /\ (left > 0 => (clo' = c1 <=> left = 1))
    BY <1>5, <2>1, OneCount DEF TimerInv, TimerTypeOK, CompareIsDue, Advance
  <2>3. CASE handler = "idle" /\ ~m1
    <3>1. left \in 1 .. 2 * interval /\ late = 0
      BY <2>3 DEF TimerInv, Phase
    <3>2. late' = 0 /\ (m1' <=> clo' = c1)
      BY <2>3, <3>1 DEF Advance, Busy
    <3>3. m1' <=> left = 1
      BY <2>2, <3>1, <3>2
    <3>. QED
      BY <1>1, <1>2, <2>1, <2>2, <2>3, <3>1, <3>2, <3>3 DEF TimerInv, TimerTypeOK, Phase
  <2>4. CASE handler = "ack" \/ m1
    <3>1. m1 /\ m1' /\ late < Latency /\ late' = late + 1
      BY <1>5, <2>4 DEF TimerInv, Phase, Advance, Busy
    <3>. QED
      BY <1>1, <1>2, <1>5, <2>1, <2>2, <2>4, <3>1 DEF TimerInv, TimerTypeOK, Phase
  <2>. QED
    BY <1>5, <2>3, <2>4 DEF TimerInv, TimerTypeOK
<1>. QED
  BY <1>3, <1>4, <1>5 DEF TimerInv, TimerTypeOK

LEMMA ReadCloKeeps == ASSUME TimerInv, ReadClo PROVE TimerInv'
BY DEF TimerInv, TimerTypeOK, CompareIsDue, Phase, ReadClo, Plus, Count

LEMMA FirstCompareKeeps == ASSUME TimerInv, FirstCompare PROVE TimerInv'
<1>1. curVal' \in Count /\ c1' = curVal' /\ curVal' = Plus(curVal, interval)
  BY PlusType, Sizes DEF TimerInv, TimerTypeOK, FirstCompare, NextVal, Compare
<1>. QED
  BY <1>1 DEF TimerInv, TimerTypeOK, CompareIsDue, Ahead, Phase, FirstCompare,
                   Plus, Count

LEMMA UpdateCompareKeeps == ASSUME TimerInv, UpdateCompare PROVE TimerInv'
<1>1. curVal' \in Count /\ c1' = curVal' /\ curVal' = Plus(curVal, interval)
  BY PlusType, Sizes DEF TimerInv, TimerTypeOK, UpdateCompare, NextVal, Compare
<1>. QED
  BY <1>1 DEF TimerInv, TimerTypeOK, CompareIsDue, Ahead, Phase, UpdateCompare,
                   Plus, Count

LEMMA AcknowledgeKeeps == ASSUME TimerInv, Acknowledge PROVE TimerInv'
<1>1. left \in 1 .. 2 * interval
  BY DEF TimerInv, TimerTypeOK, Phase, Acknowledge
<1>2. /\ handler = "ack" /\ handler' = "idle" /\ m1' = FALSE /\ late' = 0
      /\ clo' = clo /\ c1' = c1 /\ curVal' = curVal /\ left' = left
  BY DEF Acknowledge, Cleared
<1>3. TimerTypeOK'
  <2>1. m1' \in BOOLEAN
    BY <1>2
  <2>2. late' \in 0 .. Latency /\ left' \in -Latency .. 2 * interval
    <3>1. late' = 0 /\ left' = left
      BY <1>2
    <3>. QED
      BY <1>1, <3>1
  <2>3. clo' \in Count /\ c1' \in Count /\ curVal' \in Count
    BY <1>2 DEF TimerInv, TimerTypeOK
  <2>. QED
    BY <1>2, <2>1, <2>2, <2>3 DEF TimerTypeOK
<1>4. CompareIsDue'
  BY <1>2 DEF TimerInv, CompareIsDue
<1>5. Phase'
  BY <1>1, <1>2 DEF Phase
<1>. QED
  BY <1>3, <1>4, <1>5 DEF TimerInv

LEMMA TimerNextKeeps == TimerInv /\ [TimerNext]_timerVars => TimerInv'
<1>1. TimerInv /\ UNCHANGED timerVars => TimerInv'
  BY DEF TimerInv, TimerTypeOK, CompareIsDue, Phase, timerVars
<1>. QED
  BY <1>1, AdvanceKeeps, ReadCloKeeps, FirstCompareKeeps, UpdateCompareKeeps,
     AcknowledgeKeeps DEF TimerNext

LEMMA PhaseImpliesNeverMissed == TimerInv => NeverMissed
BY DEF TimerInv, TimerTypeOK, Phase, NeverMissed

LEMMA TimerInductive == TimerSpec => []TimerInv
<1>. QED
  BY TimerResetKeeps, TimerNextKeeps, PTL DEF TimerSpec

(* timer.c: left stays within two periods of the deadline, so that no      *)
(* value of the compare register can be mistaken for an earlier one.       *)
THEOREM TimerTypeCorrect == TimerSpec => []TimerTypeOK
<1>1. TimerInv => TimerTypeOK
  BY DEF TimerInv
<1>. QED
  BY <1>1, TimerInductive, PTL

(* timer_init and handle_timer_irq: the compare register always holds the  *)
(* moment the next tick is due, whatever the width of the counter.         *)
THEOREM NoDrift == TimerSpec => []CompareIsDue
<1>1. TimerInv => CompareIsDue
  BY DEF TimerInv
<1>. QED
  BY <1>1, TimerInductive, PTL

(* handle_timer_irq: no deadline passes without an interrupt, and no       *)
(* acknowledgement swallows the next one.                                  *)
THEOREM NoTickLost == TimerSpec => []NeverMissed
<1>. QED
  BY PhaseImpliesNeverMissed, TimerInductive, PTL

=============================================================================
