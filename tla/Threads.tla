------------------------------ MODULE Threads ------------------------------
(***************************************************************************)
(* The kernel threads of lesson 4: kernel_main starts a few of them, each  *)
(* prints for ever through the mini UART, and the timer takes the CPU from *)
(* one to the next.  Two questions are asked of it: how evenly the CPU is  *)
(* shared, and what preemption does to the threads' output, which depends  *)
(* on the registers each switch has to save and restore.                   *)
(***************************************************************************)
EXTENDS MiniUart, SequencesExt, FiniteSets

CONSTANTS
  NThreads,   (* Threads that kernel_main creates: 2.                      *)
  Priority,   (* INIT_TASK's priority, which every thread inherits: 1.     *)
  FifoDepth,  (* Symbols the transmit FIFO of the mini UART holds.         *)
  MaxTicks,   (* Bound: timer interrupts.                                  *)
  MaxSends    (* Bound: characters of each thread.                         *)

ASSUME ThreadsAssumption ==
  /\ {NThreads, Priority, FifoDepth} \subseteq Nat \ {0}
  /\ {MaxTicks, MaxSends} \subseteq Nat

Workers == 1 .. NThreads
Tasks == 0 .. NThreads

VARIABLES
  nr_tasks,  (* nr_tasks.                                                  *)
  current,   (* current.                                                   *)
  counter,   (* counter of each task_struct.                               *)
  context,   (* cpu_context of each task_struct: pc, and x20, the argument.*)
  frames,    (* The frames of kernel_entry on the stack of each task.      *)
  place,     (* Where current is.                                          *)
  regs,      (* The registers of process: its array, i, and whether it is  *)
             (* inside uart_send, past the test.                           *)
  sent,      (* History: characters that each thread has written.          *)
  tx,        (* Transmit FIFO.                                             *)
  wire,      (* What has been transmitted.                                 *)
  lost,      (* History: characters written to a full FIFO.                *)
  switches,  (* History: switches away from each task.                     *)
  ticks,     (* History: all ticks, ...                                    *)
  critical,  (* ... those inside _schedule, ...                            *)
  served     (* ... and those each task was on the CPU for, since the last *)
             (* thread was created.                                        *)

sched == <<nr_tasks, current, counter, context, switches>>
cpu == <<frames, place, regs>>
clock == <<ticks, critical, served>>
uart == <<board, sent, tx, wire, lost>>
vars == <<sched, cpu, clock, uart>>

NoRegs == [array |-> 0, i |-> 0, hand |-> FALSE]

Init ==
  /\ nr_tasks = 1 /\ current = 0
  /\ counter = [t \in Tasks |-> 0]
  /\ context = [t \in Tasks |-> [pc |-> "none", x20 |-> 0]]
  /\ frames = [t \in Tasks |-> <<>>] /\ place = "master" /\ regs = NoRegs
  /\ sent = [t \in Workers |-> 0]
  /\ ResetUart /\ tx = <<>> /\ wire = <<>> /\ lost = {}
  /\ switches = [t \in Tasks |-> 0]
  /\ ticks = 0 /\ critical = 0 /\ served = [t \in Tasks |-> 0]

(* The eret to el1_entry, which calls kernel_main with everything masked;  *)
(* the secondary cores stay in proc_hang.                                  *)
Master ==
  /\ place = "master"
  /\ place' = "selector"
  /\ UNCHANGED <<sched, frames, regs, clock, uart>>

(* kernel_main up to enable_irq.                                           *)
UartSelector ==
  /\ place = "selector"
  /\ place' = "uart_init"
  /\ Select
  /\ UNCHANGED <<sched, frames, regs, clock, sent, tx, wire, lost>>

UartInit ==
  /\ place = "uart_init"
  /\ IF next < Len(Access) THEN UNCHANGED place ELSE place' = "init_printf"
  /\ AccessNext
  /\ UNCHANGED <<sched, frames, regs, clock, sent, tx, wire, lost>>

SetUp(call, after) ==
  /\ place = call
  /\ place' = after
  /\ UNCHANGED <<sched, frames, regs, clock, uart>>

InitPrintf == SetUp("init_printf", "irq_vector_init")
IrqVectorInit == SetUp("irq_vector_init", "timer_init")
TimerInit == SetUp("timer_init", "enable_interrupt_controller")
EnableInterruptController == SetUp("enable_interrupt_controller", "enable_irq")
EnableIrq == SetUp("enable_irq", "own")

Created == {t \in Tasks : t < nr_tasks}
(* The task runs its own code, with IRQs on.                               *)
Own == place = "own"

(* copy_process, in which preemption is disabled.                          *)
CopyProcess ==
  /\ current = 0 /\ Own
  /\ nr_tasks <= NThreads
  /\ counter' = [counter EXCEPT ![nr_tasks] = Priority]
  /\ context' = [context EXCEPT ![nr_tasks] = [pc |-> "ret_from_fork", x20 |-> nr_tasks]]
  /\ nr_tasks' = nr_tasks + 1
  /\ UNCHANGED <<current, switches, cpu, clock, uart>>

(* schedule, in the loop of kernel_main.                                   *)
Schedule ==
  /\ current = 0 /\ Own
  /\ nr_tasks = NThreads + 1
  /\ counter' = [counter EXCEPT ![0] = 0]
  /\ place' = "_schedule"
  /\ UNCHANGED <<nr_tasks, current, context, switches, frames, regs, clock, uart>>

(* _schedule: the first task with the largest counter, if any is above -1; *)
(* task 0 if there is none.  Exhausted: the largest counter is 0.          *)
Eligible == {t \in Created : counter[t] > -1}
Best(t) ==
  \/ /\ t \in Eligible
     /\ \A u \in Eligible : counter[u] < counter[t] \/ (counter[u] = counter[t] /\ t <= u)
  \/ Eligible = {} /\ t = 0
Exhausted == Eligible # {} /\ \A t \in Eligible : counter[t] = 0

(* Mutant: the last task is passed over.                                   *)
RefilledShort(t) == IF t = NThreads THEN counter[t] ELSE counter[t] \div 2 + Priority
Refilled(t) == counter[t] \div 2 + Priority

Refill ==
  /\ place = "_schedule" /\ Exhausted
  /\ counter' = [t \in Tasks |-> IF t \in Created THEN Refilled(t) ELSE counter[t]]
  /\ UNCHANGED <<nr_tasks, current, context, switches, cpu, clock, uart>>

(* switch_to, which returns at once if the task stays the same.            *)
Stay ==
  /\ place = "_schedule" /\ ~Exhausted /\ Best(current)
  /\ place' = "switched"
  /\ UNCHANGED <<sched, frames, regs, clock, uart>>

CpuSwitchTo ==
  /\ place = "_schedule" /\ ~Exhausted
  /\ \E t \in Created \ {current} :
       /\ Best(t)
       /\ current' = t
       /\ place' = context[t].pc
  /\ context' = [context EXCEPT ![current].pc = "switched"]
  /\ regs' = NoRegs
  /\ switches' = [switches EXCEPT ![current] = @ + 1]
  /\ UNCHANGED <<nr_tasks, counter, frames, clock, uart>>

(* ret_from_fork: schedule_tail, and the call of process.                  *)
RetFromFork ==
  /\ place = "ret_from_fork"
  /\ place' = "own"
  /\ regs' = [NoRegs EXCEPT !.array = context[current].x20]
  /\ UNCHANGED <<sched, frames, clock, uart>>

(* preempt_enable after switch_to, on the way back to schedule or to       *)
(* timer_tick, where IRQs are on until disable_irq.                        *)
PreemptEnable ==
  /\ place = "switched"
  /\ place' = IF frames[current] = <<>> THEN "own" ELSE "timer_tick"
  /\ UNCHANGED <<sched, frames, regs, clock, uart>>

(* Mutant: the general registers are not reloaded.                         *)
RestoredNot(f) == NoRegs
Restored(f) == f.regs

(* kernel_exit, after disable_irq if _schedule was called.                 *)
KernelExit ==
  /\ place \in {"timer_tick", "kernel_exit"}
  /\ LET f == Last(frames[current])
     IN  regs' = Restored(f) /\ place' = f.elr
  /\ frames' = [frames EXCEPT ![current] = Front(@)]
  /\ UNCHANGED <<sched, clock, uart>>

(* The vectors of EL1h, the mode all code here runs in: the end of all but *)
(* one is err_hang.  enable_irq unmasks IRQs alone, so that no other one   *)
(* is taken.                                                               *)
Vector == [sync |-> "err_hang", irq |-> "el1_irq", fiq |-> "err_hang", error |-> "err_hang"]

(* kernel_entry: the general registers and elr_el1.                        *)
KernelEntry ==
  frames' = [frames EXCEPT ![current] = Append(@, [regs |-> regs, elr |-> place])]

(* A timer interrupt, where IRQs are on.                                   *)
Interruptible == {"own", "timer_tick", "_schedule", "ret_from_fork", "switched"}

Irq ==
  /\ ticks < MaxTicks
  /\ place \in Interruptible
  /\ KernelEntry
  /\ place' = Vector.irq
  /\ regs' = NoRegs
  /\ UNCHANGED <<sched, clock, uart>>

Count ==
  /\ ticks' = ticks + 1
  /\ served' = IF nr_tasks <= NThreads THEN served
               ELSE [served EXCEPT ![current] = @ + 1]

Expired(n) == n <= 0
Interrupted == Last(frames[current]).elr

(* timer_tick where preempt_count is 0: at 0 the task goes to _schedule,   *)
(* and otherwise back to what the interrupt found.                         *)
TimerTick ==
  /\ place = "el1_irq" /\ Interrupted \in {"own", "timer_tick"}
  /\ Count
  /\ LET n == counter[current] - 1
     IN  /\ counter' = [counter EXCEPT ![current] = IF Expired(n) THEN 0 ELSE n]
         /\ place' = IF Expired(n) THEN "_schedule" ELSE "kernel_exit"
  /\ UNCHANGED <<nr_tasks, current, context, switches, frames, regs, critical, uart>>

(* timer_tick where preempt_count is 1.                                    *)
TickCritical ==
  /\ place = "el1_irq" /\ Interrupted \notin {"own", "timer_tick"}
  /\ Count
  /\ critical' = critical + 1
  /\ counter' = [counter EXCEPT ![current] = @ - 1]
  /\ place' = "kernel_exit"
  /\ UNCHANGED <<nr_tasks, current, context, switches, frames, regs, uart>>

(* uart_send, called by process: the test of the line status and the       *)
(* write, between which the thread may lose the CPU.                       *)
Char == <<regs.array, regs.i>>
Process == current # 0 /\ Own

(* Mutant: uart_send does not wait.                                        *)
RoomUnchecked == TRUE
Room == Len(tx) < FifoDepth

SendPoll ==
  /\ Process
  /\ ~regs.hand /\ sent[current] < MaxSends
  /\ Room
  /\ regs' = [regs EXCEPT !.i = @ + 1, !.hand = TRUE]
  /\ UNCHANGED <<sched, frames, place, clock, uart>>

SendPut ==
  /\ Process
  /\ regs.hand
  /\ IF Len(tx) < FifoDepth /\ Enabled
     THEN tx' = Append(tx, Char) /\ UNCHANGED lost
     ELSE lost' = lost \cup {Char} /\ UNCHANGED tx
  /\ sent' = [sent EXCEPT ![current] = @ + 1]
  /\ regs' = [regs EXCEPT !.hand = FALSE]
  /\ UNCHANGED <<sched, frames, place, clock, board, wire>>

Shift ==
  /\ tx # <<>>
  /\ wire' = Append(wire, Head(tx))
  /\ tx' = Tail(tx)
  /\ UNCHANGED <<sched, cpu, clock, board, sent, lost>>

Next ==
  \/ Master \/ UartSelector \/ UartInit \/ InitPrintf \/ IrqVectorInit
  \/ TimerInit \/ EnableInterruptController \/ EnableIrq \/ CopyProcess
  \/ Schedule \/ Refill \/ Stay \/ CpuSwitchTo
  \/ RetFromFork \/ PreemptEnable \/ KernelExit
  \/ Irq \/ TimerTick \/ TickCritical \/ Shift \/ SendPoll \/ SendPut

Spec == Init /\ [][Next]_vars

-----------------------------------------------------------------------------
(* Properties.                                                             *)

(* _schedule and timer_tick: threads of one priority get the CPU for the   *)
(* same number of ticks, but for a period each at the two ends of the      *)
(* count and for ticks that landed in _schedule.                           *)
EvenShares ==
  \A t, u \in Workers : served[t] - served[u] <= 2 * Priority + critical

(* uart_send under preemption: what a thread writes is its own array's,    *)
(* whatever ran in between; the characters keep their order and each is    *)
(* transmitted once, queued or lost.                                       *)
Out == wire \o tx
OwnAt(t) == {i \in DOMAIN Out : Out[i][1] = t}
LostBy(t) == {x \in lost : x[1] = t}

OutputInOrder ==
  \A t \in Workers :
    LET kept == {Out[i] : i \in OwnAt(t)}
    IN  /\ \A i, j \in OwnAt(t) : i < j => Out[i][2] < Out[j][2]
        /\ kept \cup LostBy(t) = {<<t, n>> : n \in 1 .. sent[t]}
        /\ kept \cap LostBy(t) = {}

(* Losing the CPU costs a thread at most the character in its hand.        *)
LossPerSwitch ==
  \A t \in Workers : Cardinality(LostBy(t)) <= switches[t]

=============================================================================
