------------------------------- MODULE Sched -------------------------------
(***************************************************************************)
(* The preemptive scheduler of lesson 6 (sched.c, sched.S, timer_tick and  *)
(* the interrupt entry of entry.S), driven by the threads that run on it:  *)
(* kernel_main, kernel_process and the user processes with their syscalls. *)
(*                                                                         *)
(* There is one CPU.  An interrupt may be taken between any two steps      *)
(* while IRQs are unmasked, so an action is a piece of code that no        *)
(* interrupt can observe half done.  The two accesses to one counter that  *)
(* the scan makes are one step: a tick that lands between them is counted  *)
(* after the scan.                                                         *)
(***************************************************************************)
EXTENDS Integers, Sequences

CONSTANTS
  NR_TASKS,    (* Slots of the task table.                                 *)
  Priority,    (* The priority of init_task, which every task inherits.    *)
  MaxFail,     (* Bound: page allocations that fail, per task.             *)
  MaxDepth,    (* Bound: return points on one kernel stack.                *)
  MaxDebt,     (* Bound: how far below zero ticks push a counter.          *)
  Traps        (* Which error exits user code takes: a set of TrapKind.    *)

TrapKind == {"ni_sys", "sync_error"}

ASSUME SchedAssumption ==
  /\ NR_TASKS \in Nat \ {0}
  /\ Priority \in Nat \ {0}
  /\ MaxFail \in Nat
  /\ MaxDepth \in Nat
  /\ MaxDebt \in Nat
  /\ Traps \subseteq TrapKind

Slot == 0 .. NR_TASKS - 1
NoPgd == -1

VARIABLES
  current,        (* The task whose fields the C code reads as current.    *)
  cpu,            (* The task on whose kernel stack the CPU executes.      *)
  nr_tasks,       (* Slots handed out: task[i] is non-null iff i < nr_tasks*)
  state,          (* task_struct.state of each slot.                       *)
  counter,        (* task_struct.counter.                                  *)
  preempt_count,  (* task_struct.preempt_count.                            *)
  flags,          (* task_struct.flags: PF_KTHREAD or a user fork.         *)
  pgd,            (* task_struct.mm.pgd: NoPgd, or the owner of the table. *)
  ttbr0,          (* The page table the MMU translates user addresses by.  *)
  irqs,           (* PSTATE.I clear: interrupts are taken.                 *)
  pc,             (* Where each task executes, or resumes.                 *)
  stack,          (* The return points saved on each task's kernel stack.  *)
  next,           (* The local next of the _schedule call that is choosing.*)
  failed          (* History: copy_process calls that found no page.       *)

taskVars == <<nr_tasks, state, flags, pgd>>
vars == <<current, cpu, nr_tasks, state, counter, preempt_count, flags, pgd,
          ttbr0, irqs, pc, stack, next, failed>>

Created == {t \in Slot : t < nr_tasks}

(* Code between preempt_disable and the matching preempt_enable.  A new    *)
(* task starts in such a section: schedule_tail ends it.                   *)
Critical == {"ret_from_fork", "copying", "copied", "exiting", "zombie",
             "scan", "refill", "pick", "set_pgd", "cpu_switch_to", "out"}
(* Code that runs with IRQs masked: the prologue of the handler, the tail  *)
(* of the two exception returns, and err_hang entered from el0_sync.       *)
Masked == {"irq", "eret", "to_user", "halt"}
Preemptible == {"boot", "idle", "kernel_process", "mapped", "svc", "dead",
                "ret", "user", "spin", "enter", "leave"}
Label == Critical \cup Masked \cup Preemptible
Frame == [how : {"call", "irq"}, pc : Label]

-----------------------------------------------------------------------------
Init ==
  /\ current = 0
  /\ cpu = 0
  /\ nr_tasks = 1
  /\ state = [t \in Slot |-> "RUNNING"]
  /\ counter = [t \in Slot |-> 0]
  /\ preempt_count = [t \in Slot |-> 0]
  /\ flags = [t \in Slot |-> "kthread"]
  /\ pgd = [t \in Slot |-> NoPgd]
  /\ ttbr0 = NoPgd
  /\ irqs = TRUE
  /\ pc = [t \in Slot |-> "boot"]
  /\ stack = [t \in Slot |-> <<>>]
  /\ next = 0
  /\ failed = [t \in Slot |-> 0]

At(l) == pc[cpu] = l
Goto(l) == pc' = [pc EXCEPT ![cpu] = l]
Move(from, to) == At(from) /\ Goto(to)
Call(l, ret, how) ==
  /\ pc' = [pc EXCEPT ![cpu] = l]
  /\ stack' = [stack EXCEPT ![cpu] = Append(@, [how |-> how, pc |-> ret])]
Saved(t) == stack[t][Len(stack[t])]
Return ==
  /\ pc' = [pc EXCEPT ![cpu] = Saved(cpu).pc]
  /\ stack' = [stack EXCEPT ![cpu] = SubSeq(@, 1, Len(@) - 1)]

preempt_disable == preempt_count' = [preempt_count EXCEPT ![current] = @ + 1]
preempt_enable == preempt_count' = [preempt_count EXCEPT ![current] = @ - 1]

-----------------------------------------------------------------------------
(* _schedule, switch_to and cpu_switch_to.  "enter" is the first           *)
(* instruction of _schedule, "out" the one after switch_to returned.       *)

EnterSchedule ==
  /\ Move("enter", "scan")
  /\ preempt_disable
  /\ UNCHANGED <<current, cpu, taskVars, counter, ttbr0, irqs, stack, next,
                 failed>>

(* Mutant: the scan does not test the state.                               *)
EligibleAnyState == {t \in Created : counter[t] > -1}
Eligible == {t \in Created : state[t] = "RUNNING" /\ counter[t] > -1}

(* The task the scan loop stops with: the first one of the largest counter.*)
Best(t) ==
  /\ t \in Eligible
  /\ \A u \in Eligible :
       counter[u] < counter[t] \/ (counter[u] = counter[t] /\ t <= u)

(* Mutant: the local next is not initialised to a task.                    *)
NoChoiceUnset == -1
NoChoice == 0

(* The loop leaves c = -1 and next = 0 when it saw no candidate, and the   *)
(* test if (c) then takes it for a choice.                                 *)
Scan ==
  /\ At("scan")
  /\ \/ /\ Eligible = {}
        /\ next' = NoChoice
        /\ Goto("pick")
     \/ \E t \in Eligible :
          /\ Best(t)
          /\ next' = t
          /\ Goto(IF counter[t] = 0 THEN "refill" ELSE "pick")
  /\ UNCHANGED <<current, cpu, taskVars, counter, preempt_count, ttbr0, irqs,
                 stack, failed>>

(* Mutant: what is left of a time slice is not halved.                     *)
RefilledWhole(c) == c + Priority
Refilled(c) == (c \div 2) + Priority

Refill ==
  /\ Move("refill", "scan")
  /\ counter' = [t \in Slot |-> IF t \in Created THEN Refilled(counter[t])
                                               ELSE counter[t]]
  /\ UNCHANGED <<current, cpu, taskVars, preempt_count, ttbr0, irqs, stack,
                 next, failed>>

(* switch_to up to the assignment of current.                              *)
SwitchTo ==
  /\ At("pick")
  /\ \/ /\ current = next
        /\ Goto("out")
        /\ UNCHANGED current
     \/ /\ current # next
        /\ Goto("set_pgd")
        /\ current' = next
  /\ UNCHANGED <<cpu, taskVars, counter, preempt_count, ttbr0, irqs, stack,
                 next, failed>>

(* Mutant: the page table of the previous task stays loaded.               *)
SetPgdForgotten ==
  /\ Move("set_pgd", "cpu_switch_to")
  /\ UNCHANGED <<current, cpu, taskVars, counter, preempt_count, ttbr0, irqs,
                 stack, next, failed>>
SetPgd ==
  /\ Move("set_pgd", "cpu_switch_to")
  /\ ttbr0' = pgd[current]
  /\ UNCHANGED <<current, cpu, taskVars, counter, preempt_count, irqs, stack,
                 next, failed>>

(* The stack pointer changes hands; prev resumes behind its own call.      *)
CpuSwitchTo ==
  /\ Move("cpu_switch_to", "out")
  /\ cpu' = current
  /\ UNCHANGED <<current, taskVars, counter, preempt_count, ttbr0, irqs, stack,
                 next, failed>>

(* preempt_enable, then the return to schedule()'s or timer_tick's caller. *)
LeaveSchedule ==
  /\ At("out")
  /\ preempt_enable
  /\ \/ Saved(cpu).how = "call" /\ Return
     \/ Saved(cpu).how = "irq" /\ Goto("leave") /\ UNCHANGED stack
  /\ UNCHANGED <<current, cpu, taskVars, counter, ttbr0, irqs, next, failed>>

(* schedule(), called at label from; the caller goes on at ret.            *)
Schedule(from, ret) ==
  /\ At(from)
  /\ Call("enter", ret, "call")
  /\ counter' = [counter EXCEPT ![current] = 0]
  /\ UNCHANGED <<current, cpu, taskVars, preempt_count, ttbr0, irqs, next,
                 failed>>

-----------------------------------------------------------------------------
(* The timer interrupt: el1_irq / el0_irq, handle_irq, timer_tick.         *)

Irq ==
  /\ irqs
  /\ Len(stack[cpu]) < MaxDepth
  /\ preempt_count[current] = 0 \/ counter[current] > -MaxDebt
  /\ Call("irq", pc[cpu], "irq")
  /\ irqs' = FALSE
  /\ UNCHANGED <<current, cpu, taskVars, counter, preempt_count, ttbr0, next,
                 failed>>

(* Mutant: the tick is not counted.                                        *)
TickedLost == counter[current]
Ticked == counter[current] - 1

(* timer_tick: keep the task, or give up the CPU with IRQs enabled again.  *)
TimerTick ==
  /\ At("irq")
  /\ \/ /\ Ticked > 0 \/ preempt_count[current] > 0
        /\ counter' = [counter EXCEPT ![current] = Ticked]
        /\ Goto("eret")
        /\ UNCHANGED irqs
     \/ /\ Ticked <= 0 /\ preempt_count[current] <= 0
        /\ counter' = [counter EXCEPT ![current] = 0]
        /\ Goto("enter")
        /\ irqs' = TRUE
  /\ UNCHANGED <<current, cpu, taskVars, preempt_count, ttbr0, stack, next,
                 failed>>

(* Mutant: timer_tick returns with IRQs enabled.                           *)
LeaveTickUnmasked ==
  /\ Move("leave", "eret")
  /\ UNCHANGED <<current, cpu, taskVars, counter, preempt_count, ttbr0, irqs,
                 stack, next, failed>>
(* disable_irq at the end of timer_tick.                                   *)
LeaveTick ==
  /\ Move("leave", "eret")
  /\ irqs' = FALSE
  /\ UNCHANGED <<current, cpu, taskVars, counter, preempt_count, ttbr0, stack,
                 next, failed>>

(* kernel_exit of the interrupt: PSTATE is that of the interrupted code.   *)
Eret ==
  /\ At("eret")
  /\ Return
  /\ irqs' = TRUE
  /\ UNCHANGED <<current, cpu, taskVars, counter, preempt_count, ttbr0, next,
                 failed>>

-----------------------------------------------------------------------------
(* copy_process: called by kernel_main with PF_KTHREAD and by sys_fork.    *)

CopyReturn == IF cpu = 0 THEN "idle" ELSE "ret"

(* Bound: the code never compares nr_tasks with NR_TASKS, so the runs stop *)
(* creating tasks at the end of the table.                                 *)
HasSlot == nr_tasks < NR_TASKS

CopyBegin(from) ==
  /\ HasSlot
  /\ Move(from, "copying")
  /\ preempt_disable
  /\ UNCHANGED <<current, cpu, taskVars, counter, ttbr0, irqs, stack, next,
                 failed>>

(* Mutants: a new task starts preemptible, or at its function.             *)
FirstCountZero == 0
FirstCount == 1
FirstPcBare == "kernel_process"
FirstPc == "ret_from_fork"

(* The new task is filled in and put into the table; a forked one has the  *)
(* page table that copy_virt_memory built.                                 *)
CopyPublish ==
  \E p \in Slot :
     LET clone_flags == IF cpu = 0 THEN "kthread" ELSE "user" IN
     /\ At("copying")
     /\ p = nr_tasks
     /\ nr_tasks' = p + 1
     /\ state' = [state EXCEPT ![p] = "RUNNING"]
     /\ counter' = [counter EXCEPT ![p] = Priority]
     /\ preempt_count' = [preempt_count EXCEPT ![p] = FirstCount]
     /\ flags' = [flags EXCEPT ![p] = clone_flags]
     /\ pgd' = [pgd EXCEPT ![p] = IF clone_flags = "user" THEN p ELSE NoPgd]
     /\ pc' = [pc EXCEPT ![cpu] = "copied", ![p] = FirstPc]
     /\ UNCHANGED <<current, cpu, ttbr0, irqs, stack, next, failed>>

CopyEnd ==
  /\ Move("copied", CopyReturn)
  /\ preempt_enable
  /\ UNCHANGED <<current, cpu, taskVars, counter, ttbr0, irqs, stack, next,
                 failed>>

(* No page: the early return 1, which leaves preempt_count raised.         *)
CopyFail ==
  /\ failed[cpu] < MaxFail
  /\ Move("copying", CopyReturn)
  /\ failed' = [failed EXCEPT ![cpu] = @ + 1]
  /\ UNCHANGED <<current, cpu, taskVars, counter, preempt_count, ttbr0, irqs,
                 stack, next>>

-----------------------------------------------------------------------------
(* Threads.                                                                *)

KernelMain == CopyBegin("boot")
KernelMainLoop == Schedule("idle", "idle")

(* Mutant: schedule_tail does not enable preemption.                       *)
ScheduleTailUnbalanced ==
  /\ Move("ret_from_fork",
          IF flags[cpu] = "kthread" THEN "kernel_process" ELSE "ret")
  /\ UNCHANGED <<current, cpu, taskVars, counter, preempt_count, ttbr0, irqs,
                 stack, next, failed>>
(* ret_from_fork: schedule_tail, then x19 decides.                         *)
ScheduleTail ==
  /\ Move("ret_from_fork",
          IF flags[cpu] = "kthread" THEN "kernel_process" ELSE "ret")
  /\ preempt_enable
  /\ UNCHANGED <<current, cpu, taskVars, counter, ttbr0, irqs, stack, next,
                 failed>>

(* move_to_user_mode: map_page gives the thread a page table ...           *)
MapFirstPage ==
  /\ Move("kernel_process", "mapped")
  /\ pgd' = [pgd EXCEPT ![current] = current]
  /\ UNCHANGED <<current, cpu, nr_tasks, state, flags, counter, preempt_count,
                 ttbr0, irqs, stack, next, failed>>

(* ... and set_pgd loads it; without a page neither happens, and           *)
(* kernel_process returns to ret_to_user all the same.                     *)
LoadFirstPgd ==
  /\ Move("mapped", "ret")
  /\ ttbr0' = pgd[current]
  /\ UNCHANGED <<current, cpu, taskVars, counter, preempt_count, irqs, stack,
                 next, failed>>

MoveToUserFail ==
  /\ MaxFail > 0
  /\ Move("kernel_process", "ret")
  /\ UNCHANGED <<current, cpu, taskVars, counter, preempt_count, ttbr0, irqs,
                 stack, next, failed>>

(* ret_to_user / ret_from_syscall: disable_irq, then kernel_exit 0.        *)
DisableIrq ==
  /\ Move("ret", "to_user")
  /\ irqs' = FALSE
  /\ UNCHANGED <<current, cpu, taskVars, counter, preempt_count, ttbr0, stack,
                 next, failed>>

KernelExit ==
  /\ Move("to_user", "user")
  /\ irqs' = TRUE
  /\ UNCHANGED <<current, cpu, taskVars, counter, preempt_count, ttbr0, stack,
                 next, failed>>

(* Mutant: the task to mark is looked up at the wrong end of the table.    *)
ExitingSlotLast == nr_tasks - 1
ExitingSlot == current

(* exit_process, after its preempt_disable.                                *)
MarkZombie ==
  /\ Move("exiting", "zombie")
  /\ state' = [state EXCEPT ![ExitingSlot] = "ZOMBIE"]
  /\ UNCHANGED <<current, cpu, nr_tasks, flags, pgd, counter, preempt_count,
                 ttbr0, irqs, stack, next, failed>>

ExitEnable ==
  /\ Move("zombie", "dead")
  /\ preempt_enable
  /\ UNCHANGED <<current, cpu, taskVars, counter, ttbr0, irqs, stack, next,
                 failed>>

(* Were schedule() to return here, the process would go back to user mode. *)
(* Mutant: exit_process does not call schedule.                            *)
ExitScheduleForgotten ==
  /\ Move("dead", "ret")
  /\ UNCHANGED <<current, cpu, taskVars, counter, preempt_count, ttbr0, irqs,
                 stack, next, failed>>
ExitSchedule == Schedule("dead", "ret")

(* sys_write and a served data abort: preemptible kernel code.             *)
ServiceDone ==
  /\ Move("svc", "ret")
  /\ UNCHANGED <<current, cpu, taskVars, counter, preempt_count, ttbr0, irqs,
                 stack, next, failed>>

-----------------------------------------------------------------------------
(* What user code may do next.  el0_sync enters with IRQs masked and       *)
(* unmasks them before the handler, so IRQs are on when a service starts.  *)

Mapped == pgd[cpu] # NoPgd

SysFork == Mapped /\ CopyBegin("user")

SysExit ==
  /\ Mapped
  /\ Move("user", "exiting")
  /\ preempt_disable
  /\ UNCHANGED <<current, cpu, taskVars, counter, ttbr0, irqs, stack, next,
                 failed>>

SysService ==
  /\ Mapped
  /\ Move("user", "svc")
  /\ UNCHANGED <<current, cpu, taskVars, counter, preempt_count, ttbr0, irqs,
                 stack, next, failed>>

(* ni_sys and a failed do_mem_abort hang with IRQs on, any other exception *)
(* hangs with IRQs masked; code that was never mapped can only take that.  *)
Trap ==
  /\ \/ /\ Mapped /\ "ni_sys" \in Traps
        /\ Move("user", "spin")
        /\ UNCHANGED irqs
     \/ /\ ~Mapped \/ "sync_error" \in Traps
        /\ Move("user", "halt")
        /\ irqs' = FALSE
  /\ UNCHANGED <<current, cpu, taskVars, counter, preempt_count, ttbr0, stack,
                 next, failed>>

ErrHang == pc[cpu] \in {"spin", "halt"} /\ UNCHANGED vars

-----------------------------------------------------------------------------
ScheduleStep ==
  EnterSchedule \/ Scan \/ Refill \/ SwitchTo \/ SetPgd \/ CpuSwitchTo
    \/ LeaveSchedule
TickStep == TimerTick \/ LeaveTick \/ Eret
ThreadStep ==
  \/ KernelMain \/ KernelMainLoop \/ ScheduleTail
  \/ MapFirstPage \/ LoadFirstPgd \/ MoveToUserFail
  \/ CopyPublish \/ CopyEnd \/ CopyFail
  \/ DisableIrq \/ KernelExit
  \/ MarkZombie \/ ExitEnable \/ ExitSchedule \/ ServiceDone
KernelStep == ScheduleStep \/ TickStep \/ ThreadStep
UserStep == SysFork \/ SysExit \/ SysService \/ Trap

Next == KernelStep \/ UserStep \/ Irq \/ ErrHang

Spec == Init /\ [][Next]_vars

(* The CPU goes on executing kernel code.  The timer interrupt is level    *)
(* triggered and stays pending until it is taken, and its period is not    *)
(* tied to the code it interrupts, so it keeps striking preemptible code.  *)
(* For the same reason it does not strike every call of _schedule between  *)
(* its preempt_disable and its scan, a few instructions in 200 ms.         *)
PreemptingIrq == preempt_count[current] = 0 /\ Irq
UnstruckScan == counter[current] >= 0 /\ Scan
FairSpec ==
  Spec /\ WF_vars(KernelStep) /\ SF_vars(PreemptingIrq) /\ SF_vars(UnstruckScan)

-----------------------------------------------------------------------------
(* Properties.                                                             *)

TypeOK ==
  /\ current \in Slot
  /\ cpu \in Slot
  /\ nr_tasks \in 1 .. NR_TASKS
  /\ state \in [Slot -> {"RUNNING", "ZOMBIE"}]
  /\ counter \in [Slot -> Int]
  /\ preempt_count \in [Slot -> Int]
  /\ flags \in [Slot -> {"kthread", "user"}]
  /\ pgd \in [Slot -> Slot \cup {NoPgd}]
  /\ ttbr0 \in Slot \cup {NoPgd}
  /\ irqs \in BOOLEAN
  /\ pc \in [Slot -> Label]
  /\ stack \in [Slot -> Seq(Frame)]
  /\ next \in Slot
  /\ failed \in [Slot -> Nat]

(* The code t was in before the interrupt it is handling, if any.          *)
Interrupted(t) ==
  IF pc[t] \in {"irq", "eret"} THEN Saved(t).pc ELSE pc[t]

(* preempt_disable and preempt_enable are balanced across interrupts,      *)
(* context switches and exits: a count is one inside a critical section    *)
(* and zero outside, plus one for every fork that ran out of memory.       *)
PreemptBalance ==
  \A t \in Created :
    preempt_count[t] = failed[t] + IF Interrupted(t) \in Critical THEN 1 ELSE 0

(* What lies on the kernel stacks.  Code that runs in a called or          *)
(* interrupted context finds its return point; no return point lies in     *)
(* code that masks IRQs; and one lies in a critical section only while the *)
(* handler that interrupted it runs, never below a call of the scheduler.  *)
NeedsFrame == {"irq", "eret", "enter", "scan", "refill", "pick", "set_pgd",
               "cpu_switch_to", "out", "leave"}
WellFramed(t) ==
  /\ pc[t] \in NeedsFrame => Len(stack[t]) > 0
  /\ \A i \in 1 .. Len(stack[t]) :
       /\ stack[t][i].pc \notin Masked
       /\ stack[t][i].pc \in NeedsFrame => i > 1
       /\ stack[t][i].pc \in Critical =>
            i = Len(stack[t]) /\ pc[t] \in {"irq", "eret"}
FrameDiscipline == \A t \in Slot : WellFramed(t)

(* The window of switch_to in which current is already the next task while *)
(* the CPU still runs on the stack of the previous one: the next task's    *)
(* count is raised, so a tick there cannot enter the scheduler.            *)
SwitchWindowIsSafe ==
  cpu # current => /\ Interrupted(cpu) \in {"set_pgd", "cpu_switch_to"}
                   /\ preempt_count[current] > 0
                   /\ current \in Created

(* A task that is off the CPU stands behind cpu_switch_to or has never run,*)
(* so whatever switches to it finds the register context it expects.       *)
SuspendedAtSwitch ==
  \A t \in Created \ {cpu} : pc[t] \in {"out", "ret_from_fork"}

(* IRQs are masked exactly in the handler's prologue and epilogue, although*)
(* the mask is not saved by cpu_switch_to and each task inherits it.       *)
IrqMaskDiscipline == irqs <=> pc[cpu] \notin Masked

(* A process that called exit never executes user code again, and only its *)
(* last call to schedule remains on its kernel stack.                      *)
ZombieStaysInKernel ==
  \A t \in Created :
    state[t] = "ZOMBIE" =>
      pc[t] \notin {"user", "ret", "to_user", "svc", "copying", "spin", "halt"}

(* User code runs under the page table of the task that owns it, whatever  *)
(* switches happened since the table was loaded.                           *)
AddressSpaceMatches ==
  Interrupted(cpu) \in {"user", "svc", "copying", "ret", "to_user"} =>
    ttbr0 = pgd[cpu]

(* Repeated refills converge: no counter exceeds twice the priority less 1.*)
CounterBound == \A t \in Created : counter[t] <= 2 * Priority - 1

(* Every created task that has not exited gets the CPU again and again,    *)
(* unless SYNC_ERROR hangs with IRQs masked or a fork without a page has   *)
(* left its caller with preemption disabled.                               *)
NoStarvation ==
  \A t \in Slot :
    (t \in Created /\ state[t] = "RUNNING") ~>
      (cpu = t \/ \E u \in Created : pc[u] = "halt" \/ failed[u] > 0)

(* A process that exited leaves the CPU for good.                          *)
ZombieLeavesCpu ==
  \A t \in Slot : state[t] = "ZOMBIE" ~> [](cpu # t)

-----------------------------------------------------------------------------
(* Sched implements TaskLife: a slot is unused until copy_process publishes*)
(* it, and the task on whose stack the CPU executes is the running one.    *)
StatusOf(t) ==
  IF t \notin Created THEN "unused"
  ELSE IF state[t] = "ZOMBIE" THEN IF t = cpu THEN "exiting" ELSE "dead"
  ELSE IF t = cpu THEN "running" ELSE "ready"

Life == INSTANCE TaskLife WITH
          Tasks <- Slot, status <- [t \in Slot |-> StatusOf(t)]

(* Every step of the kernel is a fork, an exit or a switch of the abstract *)
(* tasks, or invisible to them.                                            *)
ImplementsTaskLife == Life!Spec

=============================================================================
