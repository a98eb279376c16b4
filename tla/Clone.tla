------------------------------- MODULE Clone -------------------------------
(***************************************************************************)
(* The processes of lesson 5, which has no address spaces: user_process    *)
(* allocates a stack with malloc and starts a thread on it with clone,     *)
(* twice, and exits.  All tasks share the registers of the CPU, and each   *)
(* keeps its user mode's in the pt_regs frame at the top of its kernel     *)
(* page.  What they write goes from a buffer on their stack through printf *)
(* to the one UART.  The scheduler is left open: where the kernel can be   *)
(* preempted any runnable task may come next, unless preempt_count forbids *)
(* it.                                                                     *)
(***************************************************************************)
EXTENDS MiniUart, SequencesExt, FiniteSetsExt

CONSTANTS
  MaxPages       (* PAGING_PAGES is at most this: every smaller number is  *)
                 (* checked too.                                           *)

ASSUME CloneAssumption == MaxPages \in Nat

(* What user_process does, in order.                                       *)
Program == <<"sprintf", "write", "malloc", "clone", "malloc", "clone", "exit">>
CloneLines == {i \in 1 .. Len(Program) : Program[i] = "clone"}
Tasks == 0 .. 1 + Cardinality(CloneLines)

(* The strings: the messages, cut to two characters, and the array that    *)
(* each clone passes to user_process1, which writes the first Turns of it. *)
Nul == "nul"
KernelStarted == <<"K", "1">>
Started == <<"U", "p">>
Array(l) == IF l = Min(CloneLines) THEN <<"1", "2", "3", "4", "5", "6">>
            ELSE <<"a", "b", "c", "d">>
Turns == 5
ArrayAt(l, i) == IF i < Len(Array(l)) THEN Array(l)[i + 1] ELSE Nul

(* Pages count from 1: 0 is a failed get_free_page, and -1 is what         *)
(* sys_malloc makes of that.  A stack pointer is known by the page whose   *)
(* end it points to.                                                       *)
NoPage == 0
BadStack == -1

VARIABLES
  task,      (* task[]: the task_struct, kernel stack and locals.          *)
  nr_tasks,  (* nr_tasks.                                                  *)
  current,   (* current.                                                   *)
  regs,      (* The registers of the CPU in user mode.                     *)
  buf,       (* The array buf of the function whose stack each page is.    *)
  said,      (* History: what was written to the UART for each task, from  *)
             (* the last start of its text.                                *)
  shown,     (* The message of handle_invalid_entry.                       *)
  parts,     (* What kernel_main has set up besides the UART.              *)
  used,      (* mem_map.                                                   *)
  paging,    (* PAGING_PAGES.                                              *)
  refused    (* History: copy_process calls that found no page.            *)

pages == <<used, paging, refused>>
setUp == <<board, parts>>
mem == <<pages, buf, said, shown, setUp>>
vars == <<task, nr_tasks, current, regs, mem>>

me == task[current]
At(label) == me.pc = label
(* The task that runs goes on as r says.                                   *)
Become(r) == task' = [task EXCEPT ![current] = r]

(* What a task does to its own preempt_count; schedule_tail undoes the 1   *)
(* that a task starts with.                                                *)
preempt_disable(r) == [r EXCEPT !.preempt = @ + 1]
preempt_enable(r) == [r EXCEPT !.preempt = @ - 1]
schedule_tail(r) == preempt_enable(r)

(* pt_regs: x0, sp_el0, the place in user code with its call, and an index.*)
ZeroRegs == [x0 |-> 0, sp |-> NoPage, line |-> 0, at |-> "none", i |-> 0]

(* A new task_struct; the stack field of a kernel thread's is not read     *)
(* before move_to_user_mode sets it.                                       *)
NewTask == [state |-> "running", preempt |-> 0, page |-> NoPage, stack |-> NoPage,
            frame |-> ZeroRegs, pc |-> "selector", back |-> "copy", found |-> NoPage,
            x0 |-> 0, local |-> NoPage, fmt |-> NoPage, pos |-> 0, ch |-> Nul]

Init ==
  /\ task = [t \in Tasks |-> NewTask]
  /\ nr_tasks = 1
  /\ current = 0
  /\ regs = ZeroRegs
  /\ ResetUart /\ parts = {}
  /\ buf = [p \in 1 .. MaxPages |-> [i \in 1 .. Len(Started) + 1 |-> "?"]]
  /\ said = [t \in Tasks |-> <<>>] /\ shown = "none"
  /\ used = {}
  /\ paging \in 0 .. MaxPages
  /\ refused = 0

(* kernel_main, up to its copy_process: what it sets up before anything    *)
(* can interrupt it.                                                       *)
StartUp == <<"selector", "uart_init", "init_printf", "irq_vector_init", "timer_init",
             "enable_interrupt_controller", "enable_irq", "boot">>
Goes(call) ==
  At(call) /\ \E i \in 2 .. Len(StartUp) :
                 StartUp[i - 1] = call /\ Become([me EXCEPT !.pc = StartUp[i]])

UartSelector ==
  /\ Goes("selector")
  /\ Select
  /\ UNCHANGED <<nr_tasks, current, regs, pages, buf, said, shown, parts>>

UartInit ==
  /\ IF next < Len(Access) THEN At("uart_init") /\ UNCHANGED task ELSE Goes("uart_init")
  /\ AccessNext
  /\ UNCHANGED <<nr_tasks, current, regs, pages, buf, said, shown, parts>>

SetUp(call) ==
  /\ Goes(call)
  /\ parts' = parts \cup {call}
  /\ UNCHANGED <<nr_tasks, current, regs, pages, buf, said, shown, board>>

InitPrintf == SetUp("init_printf")
IrqVectorInit == SetUp("irq_vector_init")
TimerInit == SetUp("timer_init")
EnableInterruptController == SetUp("enable_interrupt_controller")
EnableIrq == SetUp("enable_irq")

(* get_free_page: the first free entry of mem_map, and its update.         *)
GetFreePage(r, back) == [r EXCEPT !.pc = "find", !.back = back]

FindPage ==
  /\ At("find")
  /\ LET free == (1 .. paging) \ used
     IN  Become(IF free = {} THEN [me EXCEPT !.found = NoPage, !.pc = me.back]
                             ELSE [me EXCEPT !.found = Min(free), !.pc = "take"])
  /\ UNCHANGED <<nr_tasks, current, regs, mem>>

(* Mutant: the page is not marked.                                         *)
TakenUnmarked == used
Taken == used \cup {me.found}

TakePage ==
  /\ At("take")
  /\ used' = Taken
  /\ Become([me EXCEPT !.pc = me.back])
  /\ UNCHANGED <<nr_tasks, current, regs, paging, refused, buf, said, shown, setUp>>

(* copy_process, for kernel_main and for sys_clone.                        *)
KernelMain ==
  /\ At("boot")
  /\ Become(GetFreePage(preempt_disable(me), "copy"))
  /\ UNCHANGED <<nr_tasks, current, regs, mem>>

CopyReturn == IF current = 0 THEN "idle" ELSE "ret_from_syscall"

(* The early return, with preemption left disabled.                        *)
CopyFail ==
  /\ At("copy") /\ me.found = NoPage
  /\ Become([me EXCEPT !.x0 = 1, !.pc = CopyReturn])
  /\ refused' = refused + 1
  /\ UNCHANGED <<nr_tasks, current, regs, used, paging, buf, said, shown, setUp>>

FirstCount == 1
(* Mutant: the child's x0 is the parent's, which holds the stack.          *)
ChildX0Kept == me.frame.x0
ChildX0 == 0
(* Mutant: the child goes on with the stack of the parent.                 *)
ChildSpKept == me.frame.sp
ChildSp == me.frame.x0

Child ==
  LET thread == [NewTask EXCEPT !.page = me.found, !.preempt = FirstCount, !.pc = "tail"]
  IN  IF current = 0 THEN thread
      ELSE [thread EXCEPT !.stack = me.frame.x0,
                          !.frame = [me.frame EXCEPT !.x0 = ChildX0, !.sp = ChildSp]]

CopyProcess ==
  /\ At("copy") /\ me.found # NoPage
  /\ task' = [task EXCEPT ![nr_tasks] = Child,
                          ![current] = [preempt_enable(me) EXCEPT !.x0 = nr_tasks,
                                                                  !.pc = CopyReturn]]
  /\ nr_tasks' = nr_tasks + 1
  /\ UNCHANGED <<current, regs, mem>>

(* ret_from_fork: the kernel thread calls its function, a clone has none.  *)
ScheduleTail ==
  /\ At("tail")
  /\ Become([schedule_tail(me) EXCEPT
                !.pc = IF me.frame = ZeroRegs THEN "kernel_process" ELSE "ret_to_user"])
  /\ UNCHANGED <<nr_tasks, current, regs, mem>>

(* printf: tfp_format reads the string, in a buffer or in the kernel, one  *)
(* character after the other, and gives each to putc.                      *)
Printf(buffer, back) ==
  Become([me EXCEPT !.pc = "format", !.back = back, !.fmt = buffer, !.pos = 1])

Source == IF me.fmt = NoPage THEN Append(KernelStarted, Nul) ELSE buf[me.fmt]

Format ==
  /\ At("format")
  /\ LET c == Source[me.pos]
     IN  Become(IF c = Nul THEN [me EXCEPT !.pc = me.back]
                ELSE [me EXCEPT !.pc = "putc", !.ch = c, !.pos = @ + 1])
  /\ UNCHANGED <<nr_tasks, current, regs, mem>>

(* Everything a task writes; a thread starts again and again.              *)
TextOf(t) == IF t = 1 THEN KernelStarted \o Started
             ELSE LET a == Array(task[t].frame.line)
                  IN  SubSeq(a, 1, Min({Turns, Len(a)}))

(* putc, with uart_send's wait for room.                                   *)
Putc ==
  /\ At("putc")
  /\ "init_printf" \in parts /\ Enabled
  /\ said' = [said EXCEPT ![current] =
                Append(IF current > 1 /\ @ = TextOf(current) THEN <<>> ELSE @, me.ch)]
  /\ Become([me EXCEPT !.pc = "format", !.ch = Nul])
  /\ UNCHANGED <<nr_tasks, current, regs, pages, buf, shown, setUp>>

(* kernel_process: it says so, and moves to user mode, even without a page *)
(* for its stack.                                                          *)
KernelProcess ==
  /\ At("kernel_process")
  /\ Printf(NoPage, "allocate")
  /\ UNCHANGED <<nr_tasks, current, regs, mem>>

Allocate ==
  /\ At("allocate")
  /\ Become(GetFreePage(me, "moved"))
  /\ UNCHANGED <<nr_tasks, current, regs, mem>>

MoveToUserMode ==
  /\ At("moved")
  /\ Become([me EXCEPT !.frame = [ZeroRegs EXCEPT !.sp = me.found, !.line = 1,
                                                  !.at = "program"],
                       !.stack = IF me.found = NoPage THEN @ ELSE me.found,
                       !.pc = "ret_to_user"])
  /\ UNCHANGED <<nr_tasks, current, regs, mem>>

(* The ways back to user mode, which start by masking IRQs ...             *)
RetToUser ==
  /\ At("ret_to_user")
  /\ Become([me EXCEPT !.pc = "kernel_exit"])
  /\ UNCHANGED <<nr_tasks, current, regs, mem>>

RetFromSyscall ==
  /\ At("ret_from_syscall")
  /\ Become([me EXCEPT !.frame.x0 = me.x0, !.pc = "kernel_exit"])
  /\ UNCHANGED <<nr_tasks, current, regs, mem>>

(* ... and the end of them: the registers come from the frame.             *)
KernelExit ==
  /\ At("kernel_exit")
  /\ Become([me EXCEPT !.pc = "user"])
  /\ regs' = me.frame
  /\ UNCHANGED <<nr_tasks, current, mem>>

(* kernel_entry: the registers go to the frame, r on the way to code l.    *)
KernelEntry(r, l) ==
  /\ task' = [task EXCEPT ![current] = [l EXCEPT !.frame = r]]
  /\ regs' = ZeroRegs
  /\ UNCHANGED <<nr_tasks, current, mem>>

(* User code, which needs a stack: without one el0_sync hangs the system.  *)
User(place) == At("user") /\ regs.at = place
OnStack == regs.sp \notin {NoPage, BadStack}

(* The codes of entry.h that come up here, and the messages of irq.c.      *)
Code == [FIQ_INVALID_EL0_64 |-> 10, ERROR_INVALID_EL0_64 |-> 11, SYNC_ERROR |-> 16]
entry_error_messages ==
  <<"SYNC_INVALID_EL1t", "IRQ_INVALID_EL1t", "FIQ_INVALID_EL1t", "ERROR_INVALID_EL1T",
    "SYNC_INVALID_EL1h", "IRQ_INVALID_EL1h", "FIQ_INVALID_EL1h", "ERROR_INVALID_EL1h",
    "SYNC_INVALID_EL0_64", "IRQ_INVALID_EL0_64", "FIQ_INVALID_EL0_64",
    "ERROR_INVALID_EL0_64",
    "SYNC_INVALID_EL0_32", "IRQ_INVALID_EL0_32", "FIQ_INVALID_EL0_32",
    "ERROR_INVALID_EL0_32",
    "SYNC_ERROR", "SYSCALL_ERROR">>

(* handle_invalid_entry: the message of its type, and nothing runs any     *)
(* more.                                                                   *)
ShowInvalidEntryMessage ==
  /\ me.pc \in DOMAIN Code /\ shown = "none"
  /\ shown' = entry_error_messages[Code[me.pc] + 1]
  /\ UNCHANGED <<task, nr_tasks, current, regs, pages, buf, said, setUp>>

UserFault ==
  /\ User("program") \/ User("start")
  /\ ~OnStack
  /\ KernelEntry(regs, [me EXCEPT !.pc = "SYNC_ERROR"])

(* The vectors of 64-bit EL0.                                              *)
Vector == [irq |-> "handle_irq", fiq |-> "FIQ_INVALID_EL0_64",
           error |-> "ERROR_INVALID_EL0_64"]

(* User code has nothing masked: el0_irq, or an end of the system.         *)
Interrupt ==
  \E kind \in DOMAIN Vector :
    /\ At("user")
    /\ "irq_vector_init" \in parts
    /\ kind = "irq" => {"timer_init", "enable_interrupt_controller"} \subseteq parts
    /\ KernelEntry(regs, [me EXCEPT !.pc = Vector[kind]])

(* handle_irq returns at once, or after another task had the CPU.          *)
IrqDone ==
  /\ At("handle_irq")
  /\ Become([me EXCEPT !.pc = "kernel_exit"])
  /\ UNCHANGED <<nr_tasks, current, regs, mem>>

(* user_process fills its buffer: zeroes, then what tfp_sprintf's putcp     *)
(* puts, a character at a time.                                            *)
Filled(b, i) == IF i = 0 THEN [j \in DOMAIN b |-> Nul]
                ELSE [b EXCEPT ![i] = Append(Started, Nul)[i]]

Does(call) == User("program") /\ OnStack /\ Program[regs.line] = call

Sprintf ==
  /\ Does("sprintf")
  /\ buf' = [buf EXCEPT ![regs.sp] = Filled(@, regs.i)]
  /\ regs' = IF regs.i <= Len(Started) THEN [regs EXCEPT !.i = @ + 1]
             ELSE [regs EXCEPT !.i = 0, !.line = @ + 1]
  /\ UNCHANGED <<task, nr_tasks, current, pages, said, shown, setUp>>

(* user_process1: buf is cleared, and in its loop one character of the     *)
(* array, which may be the NUL at the end, is put there and written.       *)
UserProcess1 ==
  /\ User("start") /\ OnStack
  /\ buf' = [buf EXCEPT ![regs.sp] = Filled(@, 0)]
  /\ regs' = [regs EXCEPT !.at = "thread"]
  /\ UNCHANGED <<task, nr_tasks, current, pages, said, shown, setUp>>

StoreChar ==
  /\ User("thread")
  /\ buf' = [buf EXCEPT ![regs.sp][1] = ArrayAt(regs.line, regs.i)]
  /\ regs' = [regs EXCEPT !.at = "stored"]
  /\ UNCHANGED <<task, nr_tasks, current, pages, said, shown, setUp>>

(* The calls of sys_write, with buf in x0, which is known by its page.     *)
CallSysWrite(r) == KernelEntry(r, [me EXCEPT !.pc = "sys_write", !.fmt = regs.sp])

WriteStarted == Does("write") /\ CallSysWrite([regs EXCEPT !.line = @ + 1])
WriteChar ==
  /\ User("stored")
  /\ CallSysWrite([regs EXCEPT !.at = "thread", !.i = (@ + 1) % Turns])

SysWrite ==
  /\ At("sys_write")
  /\ Printf(me.fmt, "ret_from_syscall")
  /\ UNCHANGED <<nr_tasks, current, regs, mem>>

SysMalloc ==
  /\ Does("malloc")
  /\ KernelEntry([regs EXCEPT !.at = "malloced"],
                 GetFreePage(me, "sys_malloc"))

(* Mutant: sys_malloc tests the wrong way round.                           *)
MallocResultInverted == IF me.found # NoPage THEN BadStack ELSE me.found
MallocResult == IF me.found = NoPage THEN BadStack ELSE me.found

SysMallocDone ==
  /\ At("sys_malloc")
  /\ Become([me EXCEPT !.x0 = MallocResult, !.pc = "ret_from_syscall"])
  /\ UNCHANGED <<nr_tasks, current, regs, mem>>

(* user_process compares the unsigned result with 0, and always goes on.   *)
MallocReturn ==
  /\ User("malloced")
  /\ Become([me EXCEPT !.local = regs.x0])
  /\ regs' = [regs EXCEPT !.line = @ + 1, !.at = "program"]
  /\ UNCHANGED <<nr_tasks, current, mem>>

(* call_sys_clone puts the stack in x0, and the function and its argument, *)
(* known here by the line of the call, in registers the child inherits.    *)
SysClone ==
  /\ Does("clone")
  /\ KernelEntry([regs EXCEPT !.x0 = me.local, !.at = "wrapper"],
                 GetFreePage(preempt_disable(me), "copy"))

(* call_sys_clone after svc: 0 starts the thread, all else is success.     *)
CloneReturn ==
  /\ User("wrapper")
  /\ regs' = IF regs.x0 = 0 THEN [regs EXCEPT !.at = "start"]
             ELSE [regs EXCEPT !.at = "program", !.line = @ + 1]
  /\ UNCHANGED <<task, nr_tasks, current, mem>>

CallSysExit == Does("exit") /\ KernelEntry(regs, [me EXCEPT !.pc = "sys_exit"])

SysExit ==
  /\ At("sys_exit")
  /\ Become([me EXCEPT !.pc = "exit_process"])
  /\ UNCHANGED <<nr_tasks, current, regs, mem>>

ExitProcess ==
  /\ At("exit_process")
  /\ Become([preempt_disable(me) EXCEPT !.pc = "free", !.state = "zombie"])
  /\ UNCHANGED <<nr_tasks, current, regs, mem>>

(* Mutant: exit_process frees nothing.                                     *)
FreedNot == used
Freed == used \ {me.stack}

FreeStack ==
  /\ At("free")
  /\ used' = Freed
  /\ Become([preempt_enable(me) EXCEPT !.pc = "dead"])
  /\ UNCHANGED <<nr_tasks, current, regs, paging, refused, buf, said, shown, setUp>>

(* cpu_switch_to: the kernel's registers, and its stack with the frame,    *)
(* stay with the task.                                                     *)
CpuSwitchTo(t) == current' = t /\ UNCHANGED <<task, nr_tasks, regs, mem>>

(* timer_tick in the kernel, or schedule: another task that runs.          *)
Schedule(t) ==
  /\ t # current /\ task[t].state = "running" /\ t < nr_tasks
  /\ me.preempt = 0 \/ At("dead")
  /\ me.pc \notin {"user", "kernel_exit"} \cup DOMAIN Code
  /\ CpuSwitchTo(t)

Next ==
  \/ UartSelector \/ UartInit \/ InitPrintf \/ IrqVectorInit \/ TimerInit
  \/ EnableInterruptController \/ EnableIrq
  \/ FindPage \/ TakePage
  \/ KernelMain \/ CopyFail \/ CopyProcess \/ ScheduleTail
  \/ KernelProcess \/ Allocate \/ MoveToUserMode \/ Format \/ Putc
  \/ RetToUser \/ RetFromSyscall \/ KernelExit \/ UserFault \/ Interrupt \/ IrqDone
  \/ ShowInvalidEntryMessage
  \/ Sprintf \/ WriteStarted \/ UserProcess1 \/ StoreChar \/ WriteChar \/ SysWrite
  \/ SysMalloc \/ SysMallocDone \/ MallocReturn
  \/ SysClone \/ CloneReturn \/ CallSysExit \/ SysExit \/ ExitProcess \/ FreeStack
  \/ \E t \in Tasks : Schedule(t)

Spec == Init /\ [][Next]_vars

-----------------------------------------------------------------------------
(* Properties.                                                             *)

Created == {t \in Tasks : t < nr_tasks}
Threads == {t \in Created : t > 1}
Live == {t \in Created : task[t].state = "running"}

(* The user mode context of a task, wherever it is.                        *)
Context(t) == IF t = current /\ At("user") THEN regs ELSE task[t].frame

(* get_free_page, sys_malloc, exit_process: a page is one task's stack or  *)
(* one task's task_struct, and is not given away while it is.              *)
StacksPrivate ==
  LET stacks == {t \in Live : task[t].stack \notin {NoPage, BadStack}}
      made == Created \ {0}
  IN  /\ \A t \in stacks : task[t].stack \in used
      /\ \A t, u \in stacks : task[t].stack = task[u].stack => t = u
      /\ \A t \in made : task[t].page \in used
      /\ \A t, u \in made : task[t].page = task[u].page => t = u
      /\ \A t \in stacks, u \in made : task[t].stack # task[u].page

(* Every page that is marked belongs to somebody, unless a clone failed:   *)
(* then the stack that was meant for the thread is never freed.            *)
PagesAccounted ==
  LET structs == {task[t].page : t \in Created}
      stacks == {task[t].stack : t \in {u \in Created : task[u].pc # "dead"}}
      held == {task[t].found : t \in {u \in Created :
                                        task[u].pc \in {"copy", "moved", "sys_malloc"}}}
      result == {Context(1).x0, task[1].x0, task[1].local}
      meant == IF \/ Context(1).at = "malloced"
                  \/ Context(1).line \in CloneLines
               THEN result ELSE {}
  IN  refused = 0 => used \subseteq structs \cup stacks \cup held \cup meant

(* call_sys_clone tells the two returns of copy_process apart, through the *)
(* frames and whatever runs in between: the caller goes on with            *)
(* user_process on its own stack, and every thread runs its own function,  *)
(* one for each clone, on the stack it was given.                          *)
CloneForksOnce ==
  /\ Context(1).at \in {"none", "program", "malloced", "wrapper"}
  /\ Context(1).at # "none" => Context(1).sp = task[1].stack
  /\ \A t \in Threads :
       /\ Context(t).at \in {"wrapper", "start", "thread", "stored"}
       /\ Context(t).sp = task[t].stack
       /\ Context(t).line \in CloneLines
       /\ Context(t).line < Context(1).line \/ Context(1).at = "wrapper"
  /\ \A t, u \in Threads : Context(t).line = Context(u).line => t = u

(* As kernel.c uses them, malloc and clone never start a thread without a  *)
(* stack, although user_process cannot see that malloc failed: what was    *)
(* not there for the stack is not there for the task_struct.               *)
ThreadsHaveStacks == \A t \in Threads : Context(t).sp # BadStack

(* sys_write reads the buffer from the caller's stack, which the kernel can *)
(* reach while other tasks run: what the UART gets for a task is that      *)
(* task's own text, each character once and in its place, and all of it    *)
(* before user_process clones; and the message before the end of the system*)
(* is that of the exception that was taken.                                *)
WritesIntact ==
  /\ \A t \in Created \ {0} : IsPrefix(said[t], TextOf(t))
  /\ Context(1).line \in CloneLines => said[1] = TextOf(1)
  /\ shown # "none" => shown = me.pc

(* What kernel.c:28 tests, and reports on the next line: user_process does *)
(* not go on to clone when malloc failed.                                  *)
MallocFailureStops ==
  User("program") /\ Program[regs.line] = "clone" => me.local # BadStack

=============================================================================
