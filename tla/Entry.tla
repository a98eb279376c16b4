------------------------------- MODULE Entry -------------------------------
(***************************************************************************)
(* Exception entry and exit of lesson 6 (entry.S, irq.c): what becomes of  *)
(* the registers of the code that an exception interrupts.  There is one   *)
(* set of elr_el1, spsr_el1, esr_el1 and far_el1, which every exception    *)
(* overwrites; kernel_entry saves the first two in the pt_regs frame.  The *)
(* value of spsr_el1 is the level of the code whose pc elr_el1 holds.      *)
(*                                                                         *)
(* Sched is about which task runs; here a tick may switch to any task that *)
(* can be resumed.  Stretches of code that run with IRQs masked are one    *)
(* action, as is the exception with the kernel_entry that follows it.      *)
(***************************************************************************)
EXTENDS Integers, Sequences, SequencesExt

CONSTANTS
  NR_TASKS,   (* Tasks; 0 is kernel_main's loop, 1 the first process.      *)
  UserPc,     (* Program counters of user code.                            *)
  Addr,       (* Addresses that are not mapped when user code touches them.*)
  Value,      (* What user code keeps in x0, and what sys_write leaves.    *)
  MaxDepth    (* Bound: frames on one kernel stack.                        *)

(* Where a task off the CPU can be resumed, and kernel code that ticks may *)
(* interrupt.                                                              *)
Resumable == {"idle", "tick", "ret_from_fork"}
Unmasked == {"idle", "tick", "ret_from_fork", "svc", "ret_from_syscall",
             "da_far", "da_esr", "do_mem_abort", "da_ret", "zombie", "hang"}
Masked == {"el0_sync", "handle_irq", "irq_exit", "store_x0", "exit", "halt"}
Label == Unmasked \cup Masked

(* User code is never at a place of the kernel's.                          *)
ASSUME EntryAssumption ==
  /\ NR_TASKS \in Nat /\ NR_TASKS > 1
  /\ UserPc # {} /\ UserPc \cap (Label \cup {"none"}) = {}
  /\ Addr \subseteq Nat
  /\ Value \subseteq Nat /\ Value # {}
  /\ MaxDepth \in Nat \ {0}

Tasks == 0 .. NR_TASKS - 1
Junk == -1

(* esr_el1 by exception class; Other stands for those el0_sync rejects.    *)
ESR_ELx_EC_SVC64 == 21
ESR_ELx_EC_DABT_LOW == 36
Other == 0
sys_write == 0
sys_fork == 1
sys_exit == 2
NR_syscalls == 3

VARIABLES
  on,      (* The task on the CPU.                                         *)
  pc,      (* By task: the program counter, or where it will resume.       *)
  regs,    (* x0 and the other general registers of the CPU.               *)
  elr, esr, far,  (* The exception registers of the CPU.                   *)
  irqs,    (* Whether IRQs are unmasked.                                   *)
  frames,  (* By task: the pt_regs frames on its kernel stack.             *)
  taken,   (* History: the contexts those exceptions interrupted.          *)
  report   (* The entry_error_messages index a hanging task printed.       *)

excRegs == <<elr, esr, far>>
vars == <<on, pc, regs, excRegs, irqs, frames, taken, report>>

(* The words of entry.h and of the table in irq.c that code here can print.*)
SYNC_ERROR == 13
SYSCALL_ERROR == 14
DATA_ABORT_ERROR == 15
ERROR_INVALID_EL0_64 == 8
(* Length of entry_error_messages.                                         *)
NR_MESSAGES == 18

-----------------------------------------------------------------------------
Init ==
  /\ on = 1
  /\ pc = [t \in Tasks |-> IF t = 1 THEN CHOOSE u \in UserPc : TRUE ELSE
                           IF t = 0 THEN "idle" ELSE "none"]
  /\ regs = [x0 |-> CHOOSE v \in Value : TRUE, rest |-> 0]
  /\ elr = "none" /\ esr = Other /\ far = Junk
  /\ irqs = TRUE
  /\ frames = [t \in Tasks |-> <<>>]
  /\ taken = [t \in Tasks |-> <<>>]
  /\ report = [t \in Tasks |-> Junk]

At(l) == pc[on] = l
Goto(l) == pc' = [pc EXCEPT ![on] = l]
InUser == pc[on] \in UserPc
Level == IF InUser THEN "EL0" ELSE "EL1"

(* The vectors of 64-bit EL0 and of EL1h, the modes the program uses: where*)
(* none is given, handle_invalid_entry ends in err_hang.                   *)
Vector(kind) ==
  IF kind = "irq" THEN "handle_irq"
  ELSE IF kind = "sync" /\ Level = "EL0" THEN "el0_sync" ELSE "halt"

(* The CPU takes an exception to label l and kernel_entry saves the        *)
(* context; r holds the general registers, back where the code goes on.    *)
KernelEntry(l, r, back, addr) ==
  /\ elr' = back
  /\ irqs' = FALSE
  /\ Goto(l)
  /\ frames' = [frames EXCEPT ![on] =
                  Append(@, [x0 |-> r.x0, rest |-> r.rest, pc |-> back,
                             pstate |-> Level])]
  /\ taken' = [taken EXCEPT ![on] =
                 Append(@, [x0 |-> r.x0, rest |-> r.rest, pc |-> back,
                            far |-> addr])]

(* Mutant: elr_el1 is not reloaded from the frame, as in lesson 3.         *)
SavedPcLost(f) == elr
SavedPc(f) == f.pc

(* Mutant: the other general registers are not reloaded.                   *)
SavedRestLost(f) == regs.rest
SavedRest(f) == f.rest

(* Mutant: the frame stays on the stack.                                   *)
PoppedNot(s) == s
Popped(s) == Front(s)

(* kernel_exit and eret.                                                   *)
KernelExit(f) ==
  /\ elr' = SavedPc(f)
  /\ pc' = [pc EXCEPT ![on] = elr']
  /\ regs' = [x0 |-> f.x0, rest |-> SavedRest(f)]
  /\ irqs' = TRUE
  /\ frames' = [frames EXCEPT ![on] = Popped(@)]
  /\ taken' = [taken EXCEPT ![on] = Front(@)]
  /\ UNCHANGED <<on, esr, far, report>>

(* handle_invalid_entry, up to err_hang.                                   *)
HandleInvalidEntry(type, l) ==
  /\ Goto(l)
  /\ report' = [report EXCEPT ![on] = type]

enable_irq == irqs' = TRUE
disable_irq == irqs' = FALSE
Step(from, to) == At(from) /\ Goto(to)

-----------------------------------------------------------------------------
(* User code, and the exceptions it takes.                                 *)

UserStep ==
  /\ InUser
  /\ \E v \in Value, u \in UserPc : regs' = [regs EXCEPT !.x0 = v] /\ Goto(u)
  /\ UNCHANGED <<on, excRegs, irqs, frames, taken, report>>

(* svc with the number in w8; it returns behind the instruction.           *)
Svc ==
  /\ InUser
  /\ \E nr \in 0 .. NR_syscalls, back \in UserPc :
       /\ KernelEntry(Vector("sync"), [regs EXCEPT !.rest = nr], back, Junk)
       /\ regs' = [regs EXCEPT !.rest = nr]
  /\ esr' = ESR_ELx_EC_SVC64
  /\ UNCHANGED <<on, far, report>>

(* A data abort; it returns to the instruction that touched the address.   *)
DataAbort ==
  /\ InUser
  /\ \E a \in Addr : /\ KernelEntry(Vector("sync"), regs, pc[on], a)
                     /\ far' = a
  /\ esr' = ESR_ELx_EC_DABT_LOW
  /\ UNCHANGED <<on, regs, report>>

OtherSync ==
  /\ InUser
  /\ KernelEntry(Vector("sync"), regs, pc[on], Junk)
  /\ esr' = Other
  /\ UNCHANGED <<on, regs, far, report>>

(* An SError, which only user code takes: the kernel runs with PSTATE.A set*)
ErrorInvalidEl0 ==
  /\ InUser
  /\ KernelEntry(Vector("error"), regs, pc[on], Junk)
  /\ esr' = Other
  /\ report' = [report EXCEPT ![on] = ERROR_INVALID_EL0_64]
  /\ UNCHANGED <<on, regs, far>>

(* el1_irq, el0_irq: the general registers are the handler's from here on. *)
Irq ==
  /\ irqs
  /\ Len(frames[on]) < MaxDepth
  /\ KernelEntry(Vector("irq"), regs, pc[on], Junk)
  /\ regs' = [x0 |-> Junk, rest |-> Junk]
  /\ UNCHANGED <<on, esr, far, report>>

-----------------------------------------------------------------------------
(* el0_sync.                                                               *)

El0Svc ==
  /\ At("el0_sync")
  /\ esr = ESR_ELx_EC_SVC64
  /\ Goto("svc")
  /\ enable_irq
  /\ UNCHANGED <<on, regs, excRegs, frames, taken, report>>

El0Da ==
  /\ At("el0_sync")
  /\ esr = ESR_ELx_EC_DABT_LOW
  /\ Goto("da_far")
  /\ enable_irq
  /\ UNCHANGED <<on, regs, excRegs, frames, taken, report>>

El0SyncError ==
  /\ At("el0_sync")
  /\ esr \notin {ESR_ELx_EC_SVC64, ESR_ELx_EC_DABT_LOW}
  /\ HandleInvalidEntry(SYNC_ERROR, "halt")
  /\ UNCHANGED <<on, regs, excRegs, irqs, frames, taken>>

(* The system calls.  x0 holds the result when they return: what printf    *)
(* left there, the number of a new task, or the 1 of a failed copy_process.*)
(* The history records it as what user code is to find in x0.              *)
Result(v) ==
  /\ regs' = [regs EXCEPT !.x0 = v]
  /\ taken' = [taken EXCEPT ![on][1].x0 = v]

SysWrite ==
  /\ At("svc") /\ regs.rest = sys_write
  /\ \E v \in Value : Result(v)
  /\ Goto("ret_from_syscall")
  /\ UNCHANGED <<on, excRegs, irqs, frames, report>>

SysForkFail ==
  /\ At("svc") /\ regs.rest = sys_fork
  /\ Result(1)
  /\ Goto("ret_from_syscall")
  /\ UNCHANGED <<on, excRegs, irqs, frames, report>>

ChildRegs(f) == [f EXCEPT !.x0 = 0]

(* The child gets a copy of the frame that task_pt_regs finds at the top   *)
(* of the kernel stack.                                                    *)
SysFork ==
  /\ At("svc") /\ regs.rest = sys_fork
  /\ \E c \in Tasks :
       /\ pc[c] = "none"
       /\ \A u \in Tasks : u < c => pc[u] # "none"
       /\ regs' = [regs EXCEPT !.x0 = c]
       /\ frames' = [frames EXCEPT ![c] = <<ChildRegs(frames[on][1])>>]
       /\ taken' = [taken EXCEPT ![c] = <<[taken[on][1] EXCEPT !.x0 = 0]>>,
                                 ![on][1].x0 = c]
       /\ pc' = [pc EXCEPT ![on] = "ret_from_syscall", ![c] = "ret_from_fork"]
  /\ UNCHANGED <<on, excRegs, irqs, report>>

NiSys ==
  /\ At("svc") /\ regs.rest >= NR_syscalls
  /\ HandleInvalidEntry(SYSCALL_ERROR, "hang")
  /\ UNCHANGED <<on, regs, excRegs, irqs, frames, taken>>

(* ret_from_syscall, then ret_to_user of a new process: disable_irq, and   *)
(* the result goes into the frame, before kernel_exit.                     *)
RetFromSyscall ==
  /\ Step("ret_from_syscall", "store_x0")
  /\ disable_irq
  /\ UNCHANGED <<on, regs, excRegs, frames, taken, report>>

Stored(f) == [f EXCEPT !.x0 = regs.x0]
StoreResult == At("store_x0") /\ KernelExit(Stored(Last(frames[on])))

RetToUser ==
  /\ At("ret_from_fork") \/ At("da_ret")
  /\ Goto("exit")
  /\ disable_irq
  /\ UNCHANGED <<on, regs, excRegs, frames, taken, report>>

(* el0_da, where IRQs are unmasked before the registers are read.          *)
ReadFar ==
  /\ Step("da_far", "da_esr")
  /\ regs' = [regs EXCEPT !.x0 = far]
  /\ UNCHANGED <<on, excRegs, irqs, frames, taken, report>>

ReadEsr ==
  /\ Step("da_esr", "do_mem_abort")
  /\ regs' = [regs EXCEPT !.rest = esr]
  /\ UNCHANGED <<on, excRegs, irqs, frames, taken, report>>

(* do_mem_abort serves a translation fault or returns -1.                  *)
ServeAbort ==
  /\ At("do_mem_abort") /\ regs.rest = ESR_ELx_EC_DABT_LOW
  /\ Goto("da_ret")
  /\ regs' = [x0 |-> 0, rest |-> Junk]
  /\ UNCHANGED <<on, excRegs, irqs, frames, taken, report>>

DataAbortError ==
  /\ At("do_mem_abort")
  /\ HandleInvalidEntry(DATA_ABORT_ERROR, "hang")
  /\ UNCHANGED <<on, regs, excRegs, irqs, frames, taken>>

Exit == (At("exit") \/ At("irq_exit")) /\ KernelExit(Last(frames[on]))

-----------------------------------------------------------------------------
(* handle_irq keeps the task, or timer_tick unmasks IRQs and switches.     *)
(* cpu_switch_to leaves in the caller-saved registers what was there.      *)

Keep ==
  /\ Step("handle_irq", "irq_exit")
  /\ UNCHANGED <<on, regs, excRegs, irqs, frames, taken, report>>

TickDone ==
  /\ Step("tick", "irq_exit")
  /\ disable_irq
  /\ UNCHANGED <<on, regs, excRegs, frames, taken, report>>

SwitchFrom(l, to) ==
  /\ At(l)
  /\ Goto(to)
  /\ enable_irq
  /\ \E t \in Tasks \ {on} : pc[t] \in Resumable /\ on' = t
  /\ regs' = [x0 |-> Junk, rest |-> Junk]
  /\ UNCHANGED <<excRegs, frames, taken, report>>

Tick == SwitchFrom("handle_irq", "tick")
KernelMainLoop == SwitchFrom("idle", "idle")
SysExit == regs.rest = sys_exit /\ SwitchFrom("svc", "zombie")

ErrHang == pc[on] \in {"hang", "halt"} /\ UNCHANGED vars
(* schedule() comes back to the task it was called from.                   *)
Idle == At("idle") /\ UNCHANGED vars

Next ==
  \/ UserStep \/ Svc \/ DataAbort \/ OtherSync \/ ErrorInvalidEl0 \/ Irq
  \/ El0Svc \/ El0Da \/ El0SyncError
  \/ SysWrite \/ SysForkFail \/ SysFork \/ SysExit \/ NiSys
  \/ RetFromSyscall \/ StoreResult \/ RetToUser
  \/ ReadFar \/ ReadEsr \/ ServeAbort \/ DataAbortError
  \/ Exit \/ Keep \/ Tick \/ TickDone \/ KernelMainLoop \/ ErrHang \/ Idle

Spec == Init /\ [][Next]_vars

-----------------------------------------------------------------------------
(* Properties.                                                             *)

(* A frame: the general registers, elr_el1 and spsr_el1.                   *)
PtRegs == [x0 : Int, rest : Int, pc : UserPc \cup Unmasked, pstate : {"EL0", "EL1"}]

(* The shapes of the variables.                                            *)
TypeOK ==
  /\ on \in Tasks
  /\ pc \in [Tasks -> UserPc \cup Label \cup {"none"}]
  /\ regs \in [x0 : Int, rest : Int]
  /\ elr \in UserPc \cup Unmasked \cup {"none"}
  /\ esr \in {ESR_ELx_EC_SVC64, ESR_ELx_EC_DABT_LOW, Other}
  /\ far \in Addr \cup {Junk}
  /\ irqs \in BOOLEAN
  /\ \A t \in Tasks :
       /\ \A i \in DOMAIN frames[t] :
            frames[t][i] \in PtRegs
       /\ Len(taken[t]) = Len(frames[t])
  /\ report \in [Tasks -> {Junk} \cup 0 .. NR_MESSAGES - 1]

(* README.md:119: after an exception the interrupted code finds the values *)
(* it had before it, in every general register but the x0 a system call    *)
(* returns, and goes on where it was, however deeply IRQs nest and whatever*)
(* tasks run in between.                                                   *)
ContextRestored ==
  [][Len(taken'[on]) < Len(taken[on]) =>
       LET c == Last(taken[on])
       IN /\ pc'[on] = c.pc
          /\ regs' = [x0 |-> c.x0, rest |-> c.rest]]_vars

(* User code runs with IRQs on and an empty kernel stack, so each exception*)
(* finds pt_regs where task_pt_regs looks for it; EL1 code that is neither *)
(* idle nor dead keeps the frame it returns by.                            *)
FrameLevels ==
  /\ InUser => irqs
  /\ \A t \in Tasks :
       /\ pc[t] \in UserPc => frames[t] = <<>>
       /\ \A i \in DOMAIN frames[t] :
            frames[t][i].pstate = "EL0" <=> t # 0 /\ i = 1

(* The system call that is dispatched is the one the program asked for:    *)
(* its number survives the IRQs that are taken once they are unmasked.     *)
SyscallNumberKept ==
  At("svc") => regs.rest = taken[on][1].rest

(* README.md:130: some code "must never be intercepted by an asynchronous  *)
(* interrupt.  Processor state would be overwritten and lost."  el0_da     *)
(* reads far_el1 and esr_el1 after it has unmasked IRQs, so do_mem_abort   *)
(* may be given the address of another process's fault.                    *)
FaultAddressKept ==
  At("do_mem_abort") =>
    regs = [x0 |-> taken[on][1].far, rest |-> ESR_ELx_EC_DABT_LOW]

=============================================================================
