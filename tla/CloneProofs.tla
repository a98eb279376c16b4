---------------------------- MODULE CloneProofs ----------------------------
(***************************************************************************)
(* Theorems about Clone, for every number of pages: stacks are private, no *)
(* page is lost, every clone starts one thread with a stack of its own,    *)
(* and what the tasks write reaches the UART intact.                       *)
(***************************************************************************)
EXTENDS Clone, SequenceTheorems, FiniteSetTheorems, WellFoundedInduction, TLAPS

LEMMA Lines == CloneLines = {4, 6}
<1>1. Len(Program) = 7
  BY DEF Program
<1>2. /\ Program[1] # "clone" /\ Program[2] # "clone" /\ Program[3] # "clone"
      /\ Program[4] = "clone" /\ Program[5] # "clone" /\ Program[6] = "clone"
      /\ Program[7] # "clone"
  BY DEF Program
<1>. QED
  BY <1>1, <1>2 DEF CloneLines

LEMMA TasksAre == Tasks = 0 .. 3
<1>1. IsFiniteSet({4}) /\ Cardinality({4}) = 1
  BY FS_Singleton
<1>2. Cardinality({4} \cup {6}) = 2
  BY <1>1, FS_AddElement
<1>3. CloneLines = {4} \cup {6}
  BY Lines
<1>. QED
  BY <1>2, <1>3 DEF Tasks

LEMMA FirstLine == Min(CloneLines) = 4
BY Lines DEF Min

LEMMA Arrays ==
  /\ Array(4) = <<"1", "2", "3", "4", "5", "6">>
  /\ Array(6) = <<"a", "b", "c", "d">>
BY FirstLine DEF Array

-----------------------------------------------------------------------------
(* The inductive invariant.  First, what every variable ranges over.       *)
Char == {"K", "1", "U", "p", "2", "3", "4", "5", "6", "a", "b", "c", "d", "nul", "?"}
Place == {"none", "program", "malloced", "wrapper", "start", "thread", "stored"}
Label == {"selector", "uart_init", "init_printf", "irq_vector_init", "timer_init",
          "enable_interrupt_controller", "enable_irq", "boot", "idle", "find", "take",
          "copy", "tail", "kernel_process", "format", "putc", "allocate", "moved",
          "ret_to_user", "ret_from_syscall", "kernel_exit", "user", "handle_irq",
          "FIQ_INVALID_EL0_64", "ERROR_INVALID_EL0_64", "SYNC_ERROR", "sys_write",
          "sys_malloc", "sys_exit", "exit_process", "free", "dead"}
Regs == [x0 : Int, sp : Int, line : Int, at : Place, i : Int]
Record == [state : {"running", "zombie"}, preempt : Int, page : Int, stack : Int,
           frame : Regs, pc : Label, back : Label, found : Int, x0 : Int, local : Int,
           fmt : Int, pos : Int, ch : Char]

TypeOK ==
  /\ task \in [Tasks -> Record]
  /\ nr_tasks \in 1 .. 4
  /\ current \in Tasks /\ current < nr_tasks
  /\ regs \in Regs
  /\ buf \in [1 .. MaxPages -> [1 .. 3 -> Char]]
  /\ said \in [Tasks -> Seq(Char)]
  /\ paging \in 0 .. MaxPages
  /\ used \subseteq 1 .. paging
  /\ refused \in Nat

(* Where a task is, from its registers r (Context) and its record k.       *)
Early(k) ==
  \/ k.pc \in {"tail", "kernel_process", "allocate", "moved"}
  \/ k.pc \in {"format", "putc"} /\ k.back = "allocate"
  \/ k.pc \in {"find", "take"} /\ k.back = "moved"
Writing(k) ==
  \/ k.pc = "sys_write"
  \/ k.pc \in {"format", "putc"} /\ k.back = "ret_from_syscall"
Mallocing(k) ==
  k.pc = "sys_malloc" \/ (k.pc \in {"find", "take"} /\ k.back = "sys_malloc")
Cloning(k) ==
  k.pc = "copy" \/ (k.pc \in {"find", "take"} /\ k.back = "copy")
Leaving(k) == k.pc \in {"sys_exit", "exit_process", "free", "dead"}
Outside(k) == k.pc \in {"kernel_exit", "user", "handle_irq"} \cup DOMAIN Code

Booting(k) ==
  /\ k.pc \in {StartUp[i] : i \in 1 .. 8} \cup {"idle"} \/ Cloning(k)
  /\ k.page = NoPage /\ k.stack = NoPage /\ k.state = "running"

Process(k, r) ==
  /\ Early(k) => k.frame = ZeroRegs /\ k.stack = NoPage
  /\ ~Early(k) =>
       /\ \/ k.pc \in {"ret_to_user", "ret_from_syscall"}
          \/ Writing(k) \/ Mallocing(k) \/ Cloning(k) \/ Leaving(k) \/ Outside(k)
       /\ r.sp = k.stack
       /\ \/ r.at = "program" /\ r.line \in 1 .. 7
          \/ r.at = "malloced" /\ r.line \in {3, 5}
          \/ r.at = "wrapper" /\ r.line \in {4, 6}
       /\ r.i \in 0 .. 3 /\ (r.i # 0 => r.at = "program" /\ r.line = 1)
       /\ k.pc = "ret_to_user" => r.at = "program" /\ r.line = 1 /\ r.i = 0
       /\ k.pc = "ret_from_syscall" => r.at # "program" \/ r.line = 3
       /\ Writing(k) => r.at = "program" /\ r.line = 3 /\ k.stack # NoPage
       /\ k.pc \in {"sys_write", "format", "putc"} => k.fmt = k.stack
       /\ Mallocing(k) => r.at = "malloced"
       /\ Cloning(k) => r.at = "wrapper"
       /\ r.at = "wrapper" /\ k.pc = "ret_from_syscall" => k.x0 # 0
       /\ r.at = "wrapper" /\ Outside(k) => r.x0 # 0
       /\ Leaving(k) => r.at = "program" /\ r.line = 7
  /\ k.state = "running" <=> k.pc \notin {"free", "dead"}

Thread(k, r) ==
  /\ k.pc \in {"tail", "ret_to_user", "ret_from_syscall"} \/ Writing(k) \/ Outside(k)
  /\ r.at \in {"wrapper", "start", "thread", "stored"}
  /\ r.sp = k.stack /\ r.line = k.frame.line /\ r.line \in {4, 6}
  /\ r.i \in 0 .. 4
  /\ r.at = "wrapper" => r.x0 = 0
  /\ r.at \in {"wrapper", "start"} => r.i = 0
  /\ k.pc = "ret_from_syscall" \/ Writing(k) => r.at = "thread"
  /\ k.pc \in {"tail", "ret_to_user"} => r.at = "wrapper"
  /\ k.pc \in {"sys_write", "format", "putc"} => k.fmt = k.stack
  /\ k.state = "running"

Roles ==
  /\ Booting(task[0])
  /\ 1 < nr_tasks => Process(task[1], Context(1))
  /\ \A t \in Threads : Thread(task[t], Context(t))
  /\ \A t \in Tasks : t # current => task[t].pc # "user"
  /\ \A t \in Tasks \ Created : task[t] = NewTask /\ said[t] = <<>>
  /\ task[0].pc # "idle" => nr_tasks = 1

(* user_process has had its clone of line l, which may have failed.        *)
Passed(l) ==
  \/ Context(1).line > l
  \/ Context(1).line = l /\ Context(1).at = "wrapper" /\ ~Cloning(task[1])

Forks ==
  /\ \A t \in Threads : Passed(Context(t).line)
  /\ \A t, u \in Threads : Context(t).line = Context(u).line => t = u
  /\ ~Passed(4) => nr_tasks <= 2
  /\ ~Passed(6) => nr_tasks <= 3

(* A page that is marked and that no task_struct or stack is in.           *)
Spare(p) ==
  p \in used /\ \A t \in Created : task[t].page # p /\ task[t].stack # p
Full == used = 1 .. paging

Owners ==
  /\ \A t \in Created \ {0} : task[t].page \in used
  /\ \A t, u \in Created \ {0} : task[t].page = task[u].page => t = u
  /\ \A t \in Threads : task[t].stack \in used
  /\ 1 < nr_tasks /\ task[1].pc # "dead" => task[1].stack \in used \cup {NoPage}
  /\ task[1].stack # BadStack
  /\ \A t, u \in Created : task[t].stack = task[u].stack /\ t # u => task[t].stack = NoPage
  /\ \A t, u \in Created : task[t].stack = task[u].page => task[t].stack = NoPage

(* The page on its way from get_free_page to what it is for ...            *)
Found(k) ==
  /\ k.pc = "take" => k.found \in (1 .. paging) \ used
  /\ k.pc \in {"copy", "moved"} => k.found = NoPage \/ Spare(k.found)

(* ... and the stack on its way from malloc to clone.                      *)
Meant(k, r) ==
  IF k.pc = "sys_malloc" THEN {IF k.found = NoPage THEN BadStack ELSE k.found}
  ELSE IF r.at = "malloced" /\ k.pc = "ret_from_syscall" THEN {k.x0}
  ELSE IF r.at = "malloced" /\ Outside(k) THEN {r.x0}
  ELSE IF r.at = "program" /\ r.line \in {4, 6} THEN {k.local}
  ELSE IF Cloning(k) THEN {r.x0}
  ELSE {}

InTransit ==
  /\ nr_tasks = 1 => Found(task[0])
  /\ 1 < nr_tasks =>
       /\ Found(task[1])
       /\ \A p \in Meant(task[1], Context(1)) :
            \/ Spare(p)
            \/ p = BadStack /\ Full /\ (task[1].pc = "copy" => task[1].found = NoPage)
       /\ task[1].pc = "copy" => Context(1).x0 # task[1].found

(* Who has page p.                                                         *)
Owned(p) ==
  \/ \E t \in Created : task[t].page = p
  \/ \E t \in Created : task[t].pc # "dead" /\ task[t].stack = p
  \/ \E t \in Created : task[t].pc \in {"copy", "moved", "sys_malloc"} /\ task[t].found = p
  \/ 1 < nr_tasks /\ p \in Meant(task[1], Context(1))

Accounts == refused = 0 => \A p \in used : Owned(p)

-----------------------------------------------------------------------------
(* What was written.  The first n characters of text, and no more.         *)
Spoken(s, text, n) == Len(s) = n /\ \A j \in 1 .. n : s[j] = text[j]
Greeting == <<"K", "1", "U", "p">>
Message == <<"U", "p", "nul">>

Greets(k, r, s) ==
  /\ k.pc \in {"tail", "kernel_process"} => Spoken(s, Greeting, 0)
  /\ Early(k) /\ k.pc \in {"format", "putc"} => k.fmt = NoPage
  /\ Early(k) /\ k.pc = "format" => k.pos \in 1 .. 3 /\ Spoken(s, Greeting, k.pos - 1)
  /\ Early(k) /\ k.pc = "putc" =>
       k.pos \in 2 .. 3 /\ Spoken(s, Greeting, k.pos - 2) /\ k.ch = Greeting[k.pos - 1]
  /\ Early(k) /\ k.pc \in {"allocate", "find", "take", "moved"} => Spoken(s, Greeting, 2)
  /\ ~Early(k) /\ r.line < 3 => Spoken(s, Greeting, 2)
  /\ k.pc = "sys_write" => Spoken(s, Greeting, 2)
  /\ Writing(k) /\ k.pc = "format" => k.pos \in 1 .. 3 /\ Spoken(s, Greeting, k.pos + 1)
  /\ Writing(k) /\ k.pc = "putc" =>
       k.pos \in 2 .. 3 /\ Spoken(s, Greeting, k.pos) /\ k.ch = Greeting[k.pos + 1]
  /\ ~Early(k) /\ ~Writing(k) /\ r.line >= 3 => Spoken(s, Greeting, 4)

Buffered(k, r, b) ==
  /\ ~Early(k) /\ r.line = 1 /\ r.i >= 1 =>
       \A j \in 1 .. 3 : b[j] = IF j < r.i THEN Message[j] ELSE Nul
  /\ (~Early(k) /\ r.line = 2) \/ Writing(k) => \A j \in 1 .. 3 : b[j] = Message[j]

(* What a thread with the array of line l has written when it is about to  *)
(* write element i.                                                        *)
Length(l) == IF l = 4 THEN 5 ELSE 4
Before(i) == IF i = 0 THEN 4 ELSE i - 1
Told(s, l, i) ==
  \/ i = 0 /\ s = <<>>
  \/ i = 0 /\ Spoken(s, Array(l), Length(l))
  \/ i > 0 /\ Spoken(s, Array(l), i)

Tells(k, r, s, b) ==
  /\ r.at \in {"wrapper", "start"} => s = <<>>
  /\ r.at \in {"thread", "stored"} => b[2] = Nul
  /\ r.at = "stored" => b[1] = ArrayAt(r.line, r.i)
  /\ r.at \in {"thread", "stored"} /\ ~Writing(k) => Told(s, r.line, r.i)
  /\ Writing(k) => k.pc = "sys_write" \/ k.pos \in {1, 2}
  /\ k.pc = "sys_write" \/ (Writing(k) /\ k.pos = 1) \/ k.pc = "putc" =>
       Told(s, r.line, Before(r.i)) /\ b[1] = ArrayAt(r.line, Before(r.i))
  /\ k.pc = "putc" => k.pos = 2 /\ k.ch = b[1] /\ k.ch # Nul
  /\ k.pc = "format" /\ k.pos = 2 => Told(s, r.line, r.i)

Texts ==
  /\ 1 < nr_tasks => Greets(task[1], Context(1), said[1])
  /\ 1 < nr_tasks /\ task[1].stack # NoPage /\ ~Leaving(task[1]) =>
       Buffered(task[1], Context(1), buf[task[1].stack])
  /\ \A t \in Threads : Tells(task[t], Context(t), said[t], buf[task[t].stack])
  /\ shown # "none" => shown = me.pc /\ me.pc \in DOMAIN Code

IInv == TypeOK /\ Roles /\ Forks /\ Owners /\ InTransit /\ Accounts /\ Texts
-----------------------------------------------------------------------------
(* A step of the task that runs, to record k and to registers r, that      *)
(* takes no page and gives none away: what is left to show of it is what   *)
(* these formulas say of k and r.                                          *)
Step(k, r) ==
  /\ k \in Record /\ Become(k)
  /\ regs' \in Regs /\ r = IF k.pc = "user" THEN regs' ELSE k.frame
  /\ UNCHANGED <<nr_tasks, current, shown>>
  /\ k.page = me.page /\ (me.pc # "moved" => k.stack = me.stack)
  /\ me.pc \notin DOMAIN Code
  /\ said' \in [Tasks -> Seq(Char)]
  /\ \A t \in Tasks : t # current => said'[t] = said[t]
  /\ buf' \in [1 .. MaxPages -> [1 .. 3 -> Char]]
  /\ \A p \in 1 .. MaxPages : p # me.stack => buf'[p] = buf[p]

RoleKept(k, r) ==
  /\ current = 0 => Booting(k) /\ (k.pc # "idle" => nr_tasks = 1)
  /\ current = 1 => Process(k, r)
  /\ current > 1 => Thread(k, r)

LineKept(k, r) ==
  /\ current = 1 =>
       \/ r.line > Context(1).line
       \/ /\ r.line = Context(1).line
          /\ Context(1).at = "wrapper" /\ ~Cloning(me) => r.at = "wrapper" /\ ~Cloning(k)
  /\ current > 1 => r.line = Context(current).line

PageKept(k, r) ==
  /\ UNCHANGED pages
  /\ me.pc \notin {"take", "copy", "moved", "sys_malloc", "dead"}
  /\ k.pc \notin {"take", "copy", "moved", "sys_malloc", "dead"}
  /\ current = 1 => Meant(k, r) = Meant(me, Context(1))

TextKept(k, r) ==
  /\ current = 1 =>
       /\ Greets(k, r, said'[1])
       /\ k.stack # NoPage /\ ~Leaving(k) => Buffered(k, r, buf'[k.stack])
  /\ current > 1 => Tells(k, r, said'[current], buf'[k.stack])

-----------------------------------------------------------------------------
(* Types.                                                                  *)
USE CloneAssumption, TasksAre DEF NoPage, BadStack

LEMMA ZeroRegsType == ZeroRegs \in Regs
BY DEF ZeroRegs, Regs, Place

LEMMA NewTaskType == NewTask \in Record
BY ZeroRegsType DEF NewTask, Record, Label, Char, Nul

LEMMA MeType == TypeOK => me \in Record
BY DEF TypeOK, me

LEMMA StepTypes ==
  ASSUME TypeOK, NEW k, NEW r, Step(k, r)
  PROVE  /\ task' \in [Tasks -> Record]
         /\ task'[current] = k /\ me' = k
         /\ \A t \in Tasks : t # current => task'[t] = task[t]
         /\ r \in Regs /\ \A t \in Tasks : t = current => Context(t)' = r
         /\ \A t \in Tasks : t # current => Context(t)' = task[t].frame
         /\ Created' = Created /\ Threads' = Threads
<1>1. /\ task' \in [Tasks -> Record]
      /\ task'[current] = k
      /\ \A t \in Tasks : t # current => task'[t] = task[t]
  BY DEF TypeOK, Become, Step
<1>2. me' = k
  BY <1>1 DEF me, Step
<1>3. \A t \in Tasks : t = current => Context(t)' = r
  BY <1>1, <1>2 DEF Step, Context, At
<1>4. r \in Regs
  BY DEF Step, Record
<1>5. \A t \in Tasks : t # current => Context(t)' = task[t].frame
  BY <1>1 DEF Step, Context
<1>6. Created' = Created /\ Threads' = Threads
  BY DEF Created, Threads, Step
<1>. QED
  BY <1>1, <1>2, <1>3, <1>4, <1>5, <1>6

LEMMA StepTypeOK ==
  ASSUME TypeOK, NEW k, NEW r, Step(k, r),
         paging' = paging, used' \subseteq 1 .. paging, refused' \in Nat
  PROVE  TypeOK'
BY StepTypes DEF TypeOK, Step

LEMMA ContextType == TypeOK => \A t \in Tasks : Context(t) \in Regs
BY DEF TypeOK, Context, Record

LEMMA HereIs == TypeOK => Context(current) = IF me.pc = "user" THEN regs ELSE me.frame
BY DEF TypeOK, Context, At, me

(* The others are in the kernel, on their frames.                          *)
LEMMA ThereIs == TypeOK => \A t \in Tasks : t # current => Context(t) = task[t].frame
BY DEF TypeOK, Context

LEMMA StepOthers ==
  ASSUME TypeOK, NEW k, NEW r, Step(k, r)
  PROVE  \A t \in Tasks : t # current => Context(t)' = Context(t)
<1>1. \A t \in Tasks : t # current => Context(t) = task[t].frame
  BY ThereIs
<1>2. \A t \in Tasks : t # current => Context(t)' = task[t].frame
  BY StepTypes
<1>. QED
  BY <1>1, <1>2

LEMMA RolesStep ==
  ASSUME TypeOK, Roles, NEW k, NEW r, Step(k, r), RoleKept(k, r)
  PROVE  Roles'
<1>1. /\ task'[current] = k /\ \A t \in Tasks : t # current => task'[t] = task[t]
      /\ \A t \in Tasks : t = current => Context(t)' = r
      /\ Created' = Created /\ Threads' = Threads
  BY StepTypes
<1>2. \A t \in Tasks : t # current => Context(t)' = Context(t)
  BY StepOthers
<1>3. nr_tasks' = nr_tasks /\ current' = current
  BY DEF Step
<1>4. current \in Tasks /\ current < nr_tasks /\ nr_tasks \in 1 .. 4
  BY DEF TypeOK
<1>5. Booting(task'[0]) /\ (task'[0].pc # "idle" => nr_tasks' = 1)
  BY <1>1, <1>3, <1>4 DEF Roles, RoleKept
<1>6. 1 < nr_tasks' => Process(task'[1], Context(1)')
  BY <1>1, <1>2, <1>3, <1>4 DEF Roles, RoleKept
<1>7. \A t \in Threads' : Thread(task'[t], Context(t)')
  BY <1>1, <1>2, <1>3, <1>4 DEF Roles, RoleKept, Threads, Created
<1>8. \A t \in Tasks : t # current' => task'[t].pc # "user"
  BY <1>1, <1>3 DEF Roles
<1>9. \A t \in Tasks \ Created' : task'[t] = NewTask /\ said'[t] = <<>>
  BY <1>1, <1>4 DEF Roles, Step, Created
<1>. QED
  BY <1>5, <1>6, <1>7, <1>8, <1>9 DEF Roles

LEMMA ForksStep ==
  ASSUME TypeOK, Forks, NEW k, NEW r, Step(k, r), LineKept(k, r)
  PROVE  Forks'
<1>1. /\ task'[current] = k /\ \A t \in Tasks : t # current => task'[t] = task[t]
      /\ \A t \in Tasks : t = current => Context(t)' = r
      /\ Threads' = Threads
  BY StepTypes
<1>2. \A t \in Tasks : t # current => Context(t)' = Context(t)
  BY StepOthers
<1>3. nr_tasks' = nr_tasks /\ current' = current
  BY DEF Step
<1>4. \A t \in Tasks : Context(t) \in Regs
  BY ContextType
<1>5. ASSUME NEW l \in Int, Passed(l) PROVE Passed(l)'
  <2>1. CASE current = 1
    <3>1. Context(1)' = r /\ task'[1] = k
      BY <1>1, <2>1
    <3>2. r.line \in Int /\ Context(1).line \in Int
      <4>1. r \in Regs /\ Context(1) \in Regs
        BY <1>4, StepTypes
      <4>. QED
        BY <4>1 DEF Regs
    <3>3. me = task[1]
      BY <2>1 DEF me
    <3>. QED
      BY <1>5, <2>1, <3>1, <3>2, <3>3 DEF LineKept, Passed
  <2>2. CASE current # 1
    BY <1>1, <1>2, <1>5, <2>2 DEF Passed
  <2>. QED
    BY <2>1, <2>2
<1>6. \A t \in Threads : Context(t).line \in Int /\ t \in Tasks /\ t > 1
  BY <1>4 DEF Regs, Threads, Created
<1>7. \A t \in Threads : Context(t)'.line = Context(t).line
  BY <1>1, <1>2, <1>6 DEF LineKept
<1>. QED
  BY <1>1, <1>3, <1>5, <1>6, <1>7 DEF Forks

LEMMA OwnersStep ==
  ASSUME TypeOK, Owners, NEW k, NEW r, Step(k, r),
         used \subseteq used', me.pc \notin {"moved", "dead"}, k.pc # "dead"
  PROVE  Owners'
<1>1. /\ task'[current] = k /\ \A t \in Tasks : t # current => task'[t] = task[t]
      /\ Threads' = Threads /\ Created' = Created
  BY StepTypes
<1>2. \A t \in Tasks : task'[t].page = task[t].page /\ task'[t].stack = task[t].stack
  BY <1>1 DEF Step, me
<1>3. nr_tasks' = nr_tasks
  BY DEF Step
<1>4. task'[1].pc = "dead" <=> task[1].pc = "dead"
  BY <1>1 DEF me
<1>5. Threads \subseteq Tasks /\ Created \subseteq Tasks /\ 1 \in Tasks
  BY DEF Threads, Created
<1>. QED
  BY <1>1, <1>2, <1>3, <1>4, <1>5 DEF Owners

LEMMA TransitStep ==
  ASSUME TypeOK, InTransit, NEW k, NEW r, Step(k, r), PageKept(k, r)
  PROVE  InTransit'
<1>1. /\ task'[current] = k /\ \A t \in Tasks : t # current => task'[t] = task[t]
      /\ \A t \in Tasks : t = current => Context(t)' = r
      /\ Created' = Created
  BY StepTypes
<1>2. \A t \in Tasks : t # current => Context(t)' = Context(t)
  BY StepOthers
<1>3. \A t \in Tasks : task'[t].page = task[t].page /\ task'[t].stack = task[t].stack
  BY <1>1 DEF Step, PageKept, me
<1>4. nr_tasks' = nr_tasks /\ used' = used /\ paging' = paging
  BY DEF Step, PageKept, pages
<1>5. \A p : Spare(p)' <=> Spare(p)
  BY <1>1, <1>3, <1>4 DEF Spare, Created
<1>6. Full' <=> Full
  BY <1>4 DEF Full
<1>7. current \in Tasks /\ current < nr_tasks /\ nr_tasks \in 1 .. 4
  BY DEF TypeOK
<1>8. nr_tasks' = 1 => Found(task[0])'
  <2>1. CASE nr_tasks = 1
    <3>1. current = 0 /\ task'[0] = k
      BY <1>1, <1>7, <2>1
    <3>. QED
      BY <3>1 DEF PageKept, Found
  <2>. QED
    BY <1>4, <2>1
<1>9. CASE current = 1
  <2>1. /\ me = task[1] /\ task'[1] = k /\ Context(1)' = r
        /\ Meant(k, r) = Meant(task[1], Context(1))
        /\ k.pc \notin {"take", "copy", "moved"}
    BY <1>1, <1>9 DEF PageKept, me
  <2>2. Found(task[1])'
    BY <2>1 DEF Found
  <2>3. task[1].pc # "copy"
    BY <2>1 DEF PageKept
  <2>4. 1 < nr_tasks
    BY <1>7, <1>9
  <2>5. \A p \in Meant(task'[1], Context(1)') : Spare(p)' \/ (p = BadStack /\ Full')
    <3>1. \A p \in Meant(task[1], Context(1)) : Spare(p) \/ (p = BadStack /\ Full)
      BY <2>4 DEF InTransit
    <3>2. Meant(task'[1], Context(1)') = Meant(task[1], Context(1))
      BY <2>1
    <3>. QED
      BY <1>5, <1>6, <3>1, <3>2
  <2>. QED
    BY <1>8, <2>1, <2>2, <2>5 DEF InTransit
<1>10. CASE current # 1
  <2>1. task'[1] = task[1] /\ Context(1)' = Context(1)
    BY <1>1, <1>2, <1>10
  <2>2. Found(task[1]) => Found(task[1])'
    BY <1>4, <1>5, <2>1 DEF Found
  <2>3. 1 < nr_tasks =>
          /\ Found(task[1])'
          /\ \A p \in Meant(task'[1], Context(1)') :
            \/ Spare(p)'
            \/ p = BadStack /\ Full' /\ (task'[1].pc = "copy" => task'[1].found = NoPage)
          /\ task'[1].pc = "copy" => Context(1)'.x0 # task'[1].found
    BY <1>5, <1>6, <2>1, <2>2 DEF InTransit
  <2>. QED
    BY <1>4, <1>8, <2>3 DEF InTransit
<1>. QED
  BY <1>9, <1>10

LEMMA AccountsStep ==
  ASSUME TypeOK, Accounts, NEW k, NEW r, Step(k, r), PageKept(k, r)
  PROVE  Accounts'
<1>1. /\ task'[current] = k /\ \A t \in Tasks : t # current => task'[t] = task[t]
      /\ \A t \in Tasks : t = current => Context(t)' = r
      /\ Created' = Created
  BY StepTypes
<1>2. \A t \in Tasks : t # current => Context(t)' = Context(t)
  BY StepOthers
<1>3. \A t \in Tasks : task'[t].page = task[t].page /\ task'[t].stack = task[t].stack
  BY <1>1 DEF Step, PageKept, me
<1>4. nr_tasks' = nr_tasks /\ used' = used /\ refused' = refused
  BY DEF Step, PageKept, pages
<1>5. \A t \in Tasks : task[t].pc # "dead" => task'[t].pc # "dead"
  BY <1>1 DEF PageKept, me
<1>6. \A t \in Tasks : task[t].pc \in {"copy", "moved", "sys_malloc"} => task'[t] = task[t]
  BY <1>1 DEF PageKept, me
<1>7. Meant(task'[1], Context(1)') = Meant(task[1], Context(1))
  <2>1. CASE current = 1
    BY <1>1, <2>1 DEF PageKept, me
  <2>2. CASE current # 1
    BY <1>1, <1>2, <2>2
  <2>. QED
    BY <2>1, <2>2
<1>8. ASSUME NEW p, Owned(p) PROVE Owned(p)'
  <2>1. Created \subseteq Tasks
    BY DEF Created
  <2>. QED
    BY <1>1, <1>3, <1>4, <1>5, <1>6, <1>7, <1>8, <2>1 DEF Owned
<1>. QED
  BY <1>4, <1>8 DEF Accounts

(* No other task's buffer is where the running task's is.                  *)
LEMMA BuffersApart ==
  ASSUME TypeOK, Owners, NEW k, NEW r, Step(k, r),
         NEW t \in Created, t # current, task[t].stack \in 1 .. MaxPages
  PROVE  buf'[task[t].stack] = buf[task[t].stack]
<1>1. current \in Created /\ me = task[current]
  BY DEF TypeOK, Created, me
<1>2. task[t].stack # me.stack
  BY <1>1 DEF Owners
<1>. QED
  BY <1>2 DEF Step

LEMMA StacksInMemory ==
  ASSUME TypeOK, Owners
  PROVE  /\ \A t \in Threads : task[t].stack \in 1 .. MaxPages
         /\ 1 < nr_tasks /\ task[1].pc # "dead" /\ task[1].stack # NoPage =>
              task[1].stack \in 1 .. MaxPages
<1>1. used \subseteq 1 .. MaxPages
  BY DEF TypeOK
<1>. QED
  BY <1>1 DEF Owners

LEMMA TextsStep ==
  ASSUME TypeOK, Roles, Owners, Texts, NEW k, NEW r, Step(k, r), TextKept(k, r)
  PROVE  Texts'
<1>1. /\ task'[current] = k /\ \A t \in Tasks : t # current => task'[t] = task[t]
      /\ \A t \in Tasks : t = current => Context(t)' = r
      /\ Threads' = Threads
  BY StepTypes
<1>2. \A t \in Tasks : t # current => Context(t)' = Context(t)
  BY StepOthers
<1>3. nr_tasks' = nr_tasks /\ current' = current /\ shown' = shown
  BY DEF Step
<1>4. \A t \in Tasks : t # current => said'[t] = said[t]
  BY DEF Step
<1>5. Threads \subseteq Created /\ Created \subseteq Tasks
  BY DEF Threads, Created
<1>6. 1 < nr_tasks' => Greets(task'[1], Context(1)', said'[1])
  BY <1>1, <1>2, <1>3, <1>4 DEF Texts, TextKept
<1>7. ASSUME 1 < nr_tasks', task'[1].stack # NoPage, ~Leaving(task'[1])
      PROVE  Buffered(task'[1], Context(1)', buf'[task'[1].stack])
  <2>1. CASE current = 1
    BY <1>1, <1>7, <2>1 DEF TextKept
  <2>2. CASE current # 1
    <3>1. task'[1] = task[1] /\ Context(1)' = Context(1) /\ 1 \in Created
      BY <1>1, <1>2, <1>3, <1>7, <2>2 DEF Created
    <3>2. task[1].stack \in 1 .. MaxPages
      BY <1>3, <1>7, <3>1, StacksInMemory DEF Leaving
    <3>3. buf'[task[1].stack] = buf[task[1].stack]
      BY <2>2, <3>1, <3>2, BuffersApart
    <3>. QED
      BY <1>3, <1>7, <3>1, <3>3 DEF Texts
  <2>. QED
    BY <2>1, <2>2
<1>8. ASSUME NEW t \in Threads
      PROVE  Tells(task'[t], Context(t)', said'[t], buf'[task'[t].stack])
  <2>0. t > 1
    BY DEF Threads
  <2>1. CASE current = t
    BY <1>1, <1>5, <2>0, <2>1 DEF TextKept
  <2>2. CASE current # t
    <3>1. task'[t] = task[t] /\ Context(t)' = Context(t) /\ said'[t] = said[t]
      BY <1>1, <1>2, <1>4, <1>5, <2>2
    <3>2. buf'[task[t].stack] = buf[task[t].stack]
      BY <1>5, <2>2, StacksInMemory, BuffersApart
    <3>. QED
      BY <3>1, <3>2 DEF Texts
  <2>. QED
    BY <2>1, <2>2
<1>9. shown' = "none"
  BY <1>3 DEF Texts, Step
<1>. QED
  BY <1>1, <1>6, <1>7, <1>8, <1>9 DEF Texts

(* The conditions of the lemmas above, together.                           *)
LEMMA StepKeeps ==
  ASSUME IInv, NEW k, NEW r, Step(k, r),
         RoleKept(k, r), LineKept(k, r), PageKept(k, r), TextKept(k, r)
  PROVE  IInv'
<1>1. /\ paging' = paging /\ used' = used /\ refused' = refused
      /\ me.pc \notin {"moved", "dead"} /\ k.pc # "dead"
  BY DEF PageKept, pages
<1>2. TypeOK'
  BY <1>1, StepTypeOK DEF IInv, TypeOK
<1>. QED
  BY <1>1, <1>2, RolesStep, ForksStep, OwnersStep, TransitStep, AccountsStep, TextsStep
     DEF IInv

-----------------------------------------------------------------------------
(* Who runs.                                                               *)
LEMMA Running ==
  ASSUME IInv
  PROVE  /\ current \in 0 .. 3 /\ current < nr_tasks /\ me = task[current]
         /\ me \in Record /\ Context(current) \in Regs
         /\ Context(current) = IF me.pc = "user" THEN regs ELSE me.frame
         /\ current = 0 => Booting(me) /\ (me.pc # "idle" => nr_tasks = 1)
         /\ current = 1 => Process(me, Context(1)) /\ Greets(me, Context(1), said[1])
         /\ current = 1 /\ me.stack # NoPage /\ ~Leaving(me) =>
              me.stack \in 1 .. MaxPages /\ Buffered(me, Context(1), buf[me.stack])
         /\ current > 1 =>
              /\ Thread(me, Context(current)) /\ me.stack \in 1 .. MaxPages
              /\ Tells(me, Context(current), said[current], buf[me.stack])
<1>1. /\ current \in 0 .. 3 /\ current < nr_tasks /\ nr_tasks \in 1 .. 4
      /\ me = task[current]
  BY DEF IInv, TypeOK, me
<1>2. /\ me \in Record /\ Context(current) \in Regs
      /\ Context(current) = IF me.pc = "user" THEN regs ELSE me.frame
  BY <1>1, MeType, ContextType, HereIs DEF IInv
<1>3. current = 0 => Booting(me) /\ (me.pc # "idle" => nr_tasks = 1)
  BY <1>1 DEF IInv, Roles
<1>4. current = 1 => Process(me, Context(1)) /\ Greets(me, Context(1), said[1])
  BY <1>1 DEF IInv, Roles, Texts
<1>5. current = 1 /\ me.stack # NoPage /\ ~Leaving(me) =>
        me.stack \in 1 .. MaxPages /\ Buffered(me, Context(1), buf[me.stack])
  BY <1>1, StacksInMemory DEF IInv, Texts, Leaving
<1>6. current > 1 => current \in Threads
  BY <1>1 DEF Threads, Created
<1>7. current > 1 => me.stack \in 1 .. MaxPages
  BY <1>1, <1>6, StacksInMemory DEF IInv
<1>8. current > 1 => Thread(me, Context(current))
  BY <1>1, <1>6 DEF IInv, Roles
<1>9. current > 1 => Tells(me, Context(current), said[current], buf[me.stack])
  BY <1>1, <1>6 DEF IInv, Texts
<1>. QED
  BY <1>1, <1>2, <1>3, <1>4, <1>5, <1>7, <1>8, <1>9

(* The labels of each role, and what a task's place says of the role.      *)
LEMMA Starts == {StartUp[i] : i \in 1 .. 8} =
  {"selector", "uart_init", "init_printf", "irq_vector_init", "timer_init",
   "enable_interrupt_controller", "enable_irq", "boot"}
<1>1. /\ StartUp[1] = "selector" /\ StartUp[2] = "uart_init"
      /\ StartUp[3] = "init_printf" /\ StartUp[4] = "irq_vector_init"
      /\ StartUp[5] = "timer_init" /\ StartUp[6] = "enable_interrupt_controller"
      /\ StartUp[7] = "enable_irq" /\ StartUp[8] = "boot"
  BY DEF StartUp
<1>. QED
  BY <1>1

LEMMA Ends == DOMAIN Code = {"FIQ_INVALID_EL0_64", "ERROR_INVALID_EL0_64", "SYNC_ERROR"}
BY DEF Code

LEMMA Boots ==
  ASSUME IInv, me.pc \in {StartUp[i] : i \in 1 .. 8} \cup {"idle"}
  PROVE  current = 0
<1>1. me.pc \in {"selector", "uart_init", "init_printf", "irq_vector_init", "timer_init",
                 "enable_interrupt_controller", "enable_irq", "boot", "idle"}
  BY Starts
<1>2. /\ ~Early(me) /\ ~Writing(me) /\ ~Mallocing(me) /\ ~Cloning(me) /\ ~Leaving(me)
      /\ me.pc \notin {"tail", "ret_to_user", "ret_from_syscall"}
  BY <1>1 DEF Early, Writing, Mallocing, Cloning, Leaving
<1>3. ~Outside(me)
  BY <1>1, Ends DEF Outside
<1>4. current # 1
  BY <1>2, <1>3, Running DEF Process
<1>5. ~(current > 1)
  BY <1>2, <1>3, Running DEF Thread
<1>6. current \in 0 .. 3
  BY Running
<1>. QED
  BY <1>4, <1>5, <1>6

LEMMA Shares ==
  ASSUME IInv, me.pc \in {"tail", "format", "putc", "ret_to_user", "kernel_exit", "user",
                          "handle_irq", "sys_write", "ret_from_syscall"} \cup DOMAIN Code
  PROVE  current > 0
BY Running, Starts, Ends DEF Booting, Cloning

LEMMA First ==
  ASSUME IInv, me.pc \in {"kernel_process", "allocate", "moved", "sys_malloc", "sys_exit",
                          "exit_process", "free", "dead"}
  PROVE  current = 1
BY Running, Starts, Ends DEF Booting, Thread, Writing, Cloning, Outside

LEMMA Allocates ==
  ASSUME IInv, me.pc \in {"find", "take", "copy"}
  PROVE  current \in {0, 1}
BY Running, Starts, Ends DEF Thread, Writing, Outside

-----------------------------------------------------------------------------
(* kernel_main.                                                            *)
LEMMA GoesKeeps ==
  ASSUME IInv, NEW call, Goes(call),
         UNCHANGED <<nr_tasks, current, regs, pages, buf, said, shown>>
  PROVE  IInv'
<1>1. Len(StartUp) = 8
  BY DEF StartUp
<1>2. PICK i \in 2 .. 8 :
        me.pc = StartUp[i - 1] /\ Become([me EXCEPT !.pc = StartUp[i]])
  BY <1>1 DEF Goes, At
<1>. DEFINE k == [me EXCEPT !.pc = StartUp[i]]
<1>3. current = 0
  BY <1>2, Boots
<1>4. StartUp[i] \in {StartUp[j] : j \in 1 .. 8}
  OBVIOUS
<1>5. /\ k \in Record /\ k.pc = StartUp[i] /\ k.page = me.page /\ k.stack = me.stack
      /\ k.state = me.state /\ Become(k)
  BY <1>2, <1>4, Running, Starts DEF Record, Label
<1>. HIDE DEF k
<1>6. Step(k, k.frame)
  <2>1. me.pc \in {StartUp[j] : j \in 1 .. 8}
    BY <1>2
  <2>. QED
    BY <1>4, <1>5, <2>1, Starts, Ends DEF Step, IInv, TypeOK
<1>7. RoleKept(k, k.frame)
  BY <1>3, <1>4, <1>5, <1>2, Running, Starts DEF RoleKept, Booting, Cloning
<1>8. PageKept(k, k.frame)
  BY <1>2, <1>3, <1>4, <1>5, Starts DEF PageKept
<1>. QED
  BY <1>3, <1>6, <1>7, <1>8, StepKeeps DEF LineKept, TextKept

LEMMA Stutter ==
  ASSUME IInv, UNCHANGED <<task, nr_tasks, current, regs, pages, buf, said, shown>>
  PROVE  IInv'
<1>1. \A t \in Tasks : Context(t)' = Context(t)
  BY DEF Context, At, me
<1>2. Created' = Created /\ Threads' = Threads
  BY DEF Created, Threads
<1>3. TypeOK'
  BY DEF IInv, TypeOK, pages
<1>4. Threads \subseteq Tasks /\ 1 \in Tasks
  BY DEF Created, Threads
<1>5. Roles'
  BY <1>1, <1>2, <1>4 DEF IInv, Roles
<1>6. \A l : Passed(l)' <=> Passed(l)
  BY <1>1, <1>4 DEF Passed
<1>7. Forks'
  BY <1>1, <1>2, <1>4, <1>6 DEF IInv, Forks
<1>8. \A p : Spare(p)' <=> Spare(p)
  BY <1>2 DEF Spare, pages
<1>9. Owners'
  BY <1>2 DEF IInv, Owners, pages
<1>10. InTransit'
  BY <1>1, <1>4, <1>8 DEF IInv, InTransit, Found, Full, pages
<1>11. \A p : Owned(p)' <=> Owned(p)
  BY <1>1, <1>2, <1>4 DEF Owned
<1>12. Accounts'
  BY <1>11 DEF IInv, Accounts, pages
<1>13. Texts'
  BY <1>1, <1>2, <1>4 DEF IInv, Texts, me
<1>. QED
  BY <1>3, <1>5, <1>7, <1>9, <1>10, <1>12, <1>13 DEF IInv

LEMMA KernelMainKeeps == ASSUME IInv, KernelMain PROVE IInv'
<1>. DEFINE k == [me EXCEPT !.preempt = @ + 1, !.pc = "find", !.back = "copy"]
<1>1. me.pc = "boot" /\ current = 0
  BY Boots, Starts DEF KernelMain, At
<1>2. k = GetFreePage(preempt_disable(me), "copy")
  BY Running DEF GetFreePage, preempt_disable, Record
<1>3. k \in Record /\ k.pc = "find" /\ k.back = "copy" /\ k.page = me.page
      /\ k.stack = me.stack
      /\ k.state = me.state
  <2>1. me \in Record /\ me.preempt + 1 \in Int
    BY Running DEF Record
  <2>. QED
    BY <2>1 DEF Record, Label
<1>4. Step(k, k.frame)
  BY <1>1, <1>2, <1>3, Running, Ends DEF KernelMain, Step, IInv, TypeOK, mem, pages
<1>5. RoleKept(k, k.frame)
  BY <1>1, <1>3, Running DEF RoleKept, Booting, Cloning
<1>6. PageKept(k, k.frame)
  BY <1>1, <1>3 DEF PageKept, KernelMain, mem, pages
<1>. HIDE DEF k
<1>. QED
  BY <1>1, <1>4, <1>5, <1>6, StepKeeps DEF LineKept, TextKept

-----------------------------------------------------------------------------
(* Steps in the kernel that change nothing but the task's record.          *)
Quiet == UNCHANGED pages /\ said' = said /\ buf' = buf

LEMMA KernelStep ==
  ASSUME IInv, NEW k, k \in Record, Become(k), UNCHANGED <<nr_tasks, current, regs, mem>>,
         k.pc # "user", k.page = me.page, k.stack = me.stack, me.pc \notin DOMAIN Code
  PROVE  Step(k, k.frame) /\ Quiet
BY DEF Step, Quiet, IInv, TypeOK, mem

(* ... and only its place.                                                 *)
Moved(k, l) ==
  /\ k.pc = l /\ k.page = me.page /\ k.stack = me.stack /\ k.state = me.state
  /\ k.frame = me.frame /\ k.back = me.back /\ k.found = me.found
  /\ k.x0 = me.x0 /\ k.local = me.local /\ k.fmt = me.fmt
  /\ k.pos = me.pos /\ k.ch = me.ch

LEMMA MoveStep ==
  ASSUME IInv, NEW l \in Label, Become([me EXCEPT !.pc = l]),
         UNCHANGED <<nr_tasks, current, regs, mem>>,
         l # "user", me.pc \notin DOMAIN Code
  PROVE  \E k \in Record : Step(k, k.frame) /\ Moved(k, l) /\ Quiet
<1>. DEFINE k == [me EXCEPT !.pc = l]
<1>1. k \in Record /\ Moved(k, l)
  BY Running DEF Record, Moved
<1>2. Become(k)
  OBVIOUS
<1>. HIDE DEF k
<1>3. Step(k, k.frame) /\ Quiet
  BY <1>1, <1>2, KernelStep DEF Moved
<1>. USE DEF k
<1>. QED
  BY <1>1, <1>3

LEMMA RetToUserKeeps == ASSUME IInv, RetToUser PROVE IInv'
<1>1. me.pc = "ret_to_user" /\ current > 0 /\ Context(current) = me.frame
  BY Shares, Running DEF RetToUser, At
<1>2. PICK k \in Record : Step(k, k.frame) /\ Moved(k, "kernel_exit") /\ Quiet
  <2>1. "kernel_exit" \in Label
    BY DEF Label
  <2>. QED
    BY <1>1, <2>1, Ends, MoveStep DEF RetToUser
<1>3. RoleKept(k, k.frame)
  BY <1>1, <1>2, Running, Ends
     DEF RoleKept, Moved, Process, Thread, Early, Writing, Mallocing, Cloning,
         Leaving, Outside
<1>4. LineKept(k, k.frame)
  BY <1>1, <1>2, Running DEF LineKept, Moved, Cloning
<1>5. PageKept(k, k.frame)
  BY <1>1, <1>2, Running, Ends
     DEF PageKept, Moved, Quiet, Meant, Process, Early, Outside, Cloning, Writing,
         Mallocing, Leaving
<1>6. TextKept(k, k.frame)
  BY <1>1, <1>2, Running, Ends
     DEF TextKept, Moved, Quiet, Greets, Buffered, Tells, Early, Writing, Leaving
<1>. QED
  BY <1>2, <1>3, <1>4, <1>5, <1>6, StepKeeps

LEMMA IrqDoneKeeps == ASSUME IInv, IrqDone PROVE IInv'
<1>1. me.pc = "handle_irq" /\ current > 0 /\ Context(current) = me.frame
  BY Shares, Running DEF IrqDone, At
<1>2. PICK k \in Record : Step(k, k.frame) /\ Moved(k, "kernel_exit") /\ Quiet
  <2>1. "kernel_exit" \in Label
    BY DEF Label
  <2>. QED
    BY <1>1, <2>1, Ends, MoveStep DEF IrqDone
<1>3. RoleKept(k, k.frame)
  BY <1>1, <1>2, Running, Ends
     DEF RoleKept, Moved, Process, Thread, Early, Writing, Mallocing, Cloning,
         Leaving, Outside
<1>4. LineKept(k, k.frame)
  BY <1>1, <1>2, Running DEF LineKept, Moved, Cloning
<1>5. PageKept(k, k.frame)
  BY <1>1, <1>2, Running, Ends DEF PageKept, Moved, Quiet, Meant, Outside, Cloning
<1>6. TextKept(k, k.frame)
  BY <1>1, <1>2, Running, Ends
     DEF TextKept, Moved, Quiet, Greets, Buffered, Tells, Early, Writing, Leaving
<1>. QED
  BY <1>2, <1>3, <1>4, <1>5, <1>6, StepKeeps

LEMMA SysExitKeeps == ASSUME IInv, SysExit PROVE IInv'
<1>1. me.pc = "sys_exit" /\ current = 1 /\ Context(1) = me.frame
  BY First, Running DEF SysExit, At
<1>2. PICK k \in Record : Step(k, k.frame) /\ Moved(k, "exit_process") /\ Quiet
  <2>1. "exit_process" \in Label
    BY DEF Label
  <2>. QED
    BY <1>1, <2>1, Ends, MoveStep DEF SysExit
<1>3. RoleKept(k, k.frame)
  BY <1>1, <1>2, Running, Ends DEF RoleKept, Moved, Process, Early, Writing, Mallocing,
     Cloning, Leaving, Outside
<1>4. LineKept(k, k.frame)
  BY <1>1, <1>2, Running DEF LineKept, Moved, Cloning
<1>5. PageKept(k, k.frame)
  BY <1>1, <1>2, Running, Ends
     DEF PageKept, Moved, Quiet, Meant, Outside, Cloning, Process, Early, Leaving
<1>6. TextKept(k, k.frame)
  BY <1>1, <1>2, Running, Ends
     DEF TextKept, Moved, Quiet, Greets, Process, Early, Writing, Leaving
<1>. QED
  BY <1>2, <1>3, <1>4, <1>5, <1>6, StepKeeps

LEMMA ExitProcessKeeps == ASSUME IInv, ExitProcess PROVE IInv'
<1>1. me.pc = "exit_process" /\ current = 1 /\ Context(1) = me.frame
  BY First, Running DEF ExitProcess, At
<1>. DEFINE k == [me EXCEPT !.preempt = @ + 1, !.pc = "free", !.state = "zombie"]
<1>2. k = [preempt_disable(me) EXCEPT !.pc = "free", !.state = "zombie"]
  BY Running DEF preempt_disable, Record
<1>3. Become(k)
  BY <1>2 DEF ExitProcess
<1>4. /\ k \in Record /\ k.pc = "free" /\ k.page = me.page /\ k.stack = me.stack
      /\ k.state = "zombie" /\ k.frame = me.frame
  <2>1. me \in Record /\ me.preempt + 1 \in Int
    BY Running DEF Record
  <2>. QED
    BY <2>1 DEF Record, Label
<1>. HIDE DEF k
<1>5. Step(k, k.frame) /\ Quiet
  BY <1>1, <1>3, <1>4, Ends, KernelStep DEF ExitProcess
<1>6. RoleKept(k, k.frame)
  BY <1>1, <1>4, Running, Ends DEF RoleKept, Process, Early, Writing, Mallocing,
     Cloning, Leaving, Outside
<1>7. LineKept(k, k.frame)
  BY <1>1, <1>4, Running DEF LineKept, Cloning
<1>8. PageKept(k, k.frame)
  BY <1>1, <1>4, <1>5, Running, Ends
     DEF PageKept, Quiet, Meant, Outside, Cloning, Process, Early, Leaving
<1>9. TextKept(k, k.frame)
  BY <1>1, <1>4, <1>5, Running, Ends
     DEF TextKept, Quiet, Greets, Process, Early, Writing, Leaving
<1>. QED
  BY <1>5, <1>6, <1>7, <1>8, <1>9, StepKeeps

LEMMA RetFromSyscallKeeps == ASSUME IInv, RetFromSyscall PROVE IInv'
<1>1. me.pc = "ret_from_syscall" /\ current > 0 /\ Context(current) = me.frame
  BY Shares, Running DEF RetFromSyscall, At
<1>. DEFINE k == [me EXCEPT !.frame.x0 = me.x0, !.pc = "kernel_exit"]
<1>2. /\ k \in Record /\ k.pc = "kernel_exit" /\ k.page = me.page /\ k.stack = me.stack
      /\ k.state = me.state /\ k.frame = [me.frame EXCEPT !.x0 = me.x0]
      /\ k.back = me.back /\ k.found = me.found /\ k.local = me.local
  BY Running DEF Record, Label, Regs
<1>3. /\ k.frame.x0 = me.x0 /\ k.frame.at = me.frame.at /\ k.frame.line = me.frame.line
      /\ k.frame.sp = me.frame.sp /\ k.frame.i = me.frame.i
  BY <1>2, Running DEF Record, Regs
<1>4. Become(k)
  BY DEF RetFromSyscall
<1>. HIDE DEF k
<1>5. Step(k, k.frame) /\ Quiet
  BY <1>1, <1>2, <1>4, Ends, KernelStep DEF RetFromSyscall
<1>6. RoleKept(k, k.frame)
  BY <1>1, <1>2, <1>3, Running, Ends
     DEF RoleKept, Process, Thread, Early, Writing, Mallocing, Cloning, Leaving,
         Outside
<1>7. LineKept(k, k.frame)
  BY <1>1, <1>2, <1>3, Running DEF LineKept, Cloning
<1>8. PageKept(k, k.frame)
  BY <1>1, <1>2, <1>3, <1>5, Running, Ends
     DEF PageKept, Quiet, Meant, Outside, Cloning, Process, Early, Writing, Mallocing,
         Leaving
<1>9. TextKept(k, k.frame)
  BY <1>1, <1>2, <1>3, <1>5, Running, Ends
     DEF TextKept, Quiet, Greets, Buffered, Tells, Process, Thread, Early, Writing,
         Leaving
<1>. QED
  BY <1>5, <1>6, <1>7, <1>8, <1>9, StepKeeps

LEMMA KernelExitKeeps == ASSUME IInv, KernelExit PROVE IInv'
<1>1. me.pc = "kernel_exit" /\ current > 0 /\ Context(current) = me.frame
  BY Shares, Running DEF KernelExit, At
<1>. DEFINE k == [me EXCEPT !.pc = "user"]
<1>2. /\ k \in Record /\ k.pc = "user" /\ k.page = me.page /\ k.stack = me.stack
      /\ k.state = me.state /\ k.frame = me.frame /\ k.back = me.back
      /\ k.local = me.local /\ me.frame \in Regs
  BY Running DEF Record, Label
<1>3. Become(k) /\ regs' = me.frame
  BY DEF KernelExit
<1>. HIDE DEF k
<1>4. Quiet
  BY DEF KernelExit, mem, Quiet
<1>5. Step(k, me.frame)
  BY <1>1, <1>2, <1>3, Ends DEF KernelExit, Step, IInv, TypeOK, mem
<1>6. RoleKept(k, me.frame)
  BY <1>1, <1>2, Running, Ends DEF RoleKept, Process, Thread, Early, Writing, Mallocing,
     Cloning, Leaving, Outside
<1>7. LineKept(k, me.frame)
  BY <1>1, <1>2, Running DEF LineKept, Cloning
<1>8. PageKept(k, me.frame)
  BY <1>1, <1>2, <1>4, Running, Ends DEF PageKept, Quiet, Meant, Outside, Cloning
<1>9. TextKept(k, me.frame)
  BY <1>1, <1>2, <1>4, Running, Ends
     DEF TextKept, Quiet, Greets, Buffered, Tells, Early, Writing, Leaving
<1>. QED
  BY <1>5, <1>6, <1>7, <1>8, <1>9, StepKeeps

-----------------------------------------------------------------------------
(* Exceptions: the registers go to the frame of record l.                  *)
Entered(k, l, r) ==
  /\ k.frame = r /\ k.pc = l.pc /\ k.page = l.page /\ k.stack = l.stack
  /\ k.state = l.state /\ k.back = l.back /\ k.found = l.found
  /\ k.x0 = l.x0 /\ k.local = l.local /\ k.fmt = l.fmt
  /\ k.pos = l.pos /\ k.ch = l.ch

LEMMA EntryStep ==
  ASSUME IInv, me.pc = "user", NEW r \in Regs, NEW l \in Record, KernelEntry(r, l),
         l.pc # "user", l.page = me.page, l.stack = me.stack
  PROVE  \E k \in Record : Step(k, r) /\ Entered(k, l, r) /\ Quiet
<1>. DEFINE k == [l EXCEPT !.frame = r]
<1>1. k \in Record /\ Entered(k, l, r)
  BY DEF Record, Entered
<1>2. Become(k)
  BY DEF KernelEntry, Become
<1>. HIDE DEF k
<1>3. Step(k, r) /\ Quiet
  BY <1>1, <1>2, Ends, ZeroRegsType
     DEF KernelEntry, Entered, Step, Quiet, IInv, TypeOK, mem
<1>. USE DEF k
<1>. QED
  BY <1>1, <1>3

(* What the running task is in user mode.                                  *)
LEMMA InUserMode ==
  ASSUME IInv, me.pc = "user"
  PROVE  /\ current \in 1 .. 3 /\ Context(current) = regs /\ regs \in Regs
         /\ me \in Record
         /\ current = 1 => Process(me, regs) /\ Greets(me, regs, said[1])
         /\ current = 1 /\ me.stack # NoPage =>
              me.stack \in 1 .. MaxPages /\ Buffered(me, regs, buf[me.stack])
         /\ current > 1 =>
              /\ Thread(me, regs) /\ me.stack \in 1 .. MaxPages
              /\ Tells(me, regs, said[current], buf[me.stack])
BY Running, Shares DEF Leaving

LEMMA InterruptKeeps == ASSUME IInv, Interrupt PROVE IInv'
<1>1. me.pc = "user"
  BY DEF Interrupt, At
<1>2. PICK kind \in {"irq", "fiq", "error"} : KernelEntry(regs, [me EXCEPT !.pc = Vector[kind]])
  BY DEF Interrupt, Vector
<1>. DEFINE l == [me EXCEPT !.pc = Vector[kind]]
<1>3. /\ Vector[kind] \in {"handle_irq"} \cup DOMAIN Code
      /\ Vector[kind] \in Label /\ Vector[kind] # "user"
  BY Ends DEF Vector, Label
<1>4. l \in Record /\ Moved([l EXCEPT !.frame = me.frame], Vector[kind])
      /\ l.pc = Vector[kind]
      /\ l.page = me.page /\ l.stack = me.stack /\ l.state = me.state /\ l.local = me.local
  BY <1>3, Running DEF Record, Moved
<1>. HIDE DEF l
<1>5. PICK k \in Record : Step(k, regs) /\ Entered(k, l, regs) /\ Quiet
  BY <1>1, <1>2, <1>3, <1>4, InUserMode, EntryStep DEF l
<1>6. /\ k.pc \in {"handle_irq"} \cup DOMAIN Code /\ k.frame = regs /\ k.local = me.local
      /\ k.page = me.page /\ k.stack = me.stack /\ k.state = me.state
  BY <1>3, <1>4, <1>5 DEF Entered
<1>7. RoleKept(k, regs)
  BY <1>1, <1>6, InUserMode, Ends
     DEF RoleKept, Process, Thread, Early, Writing, Mallocing, Cloning, Leaving,
         Outside
<1>8. LineKept(k, regs)
  BY <1>1, <1>6, InUserMode, Ends DEF LineKept, Cloning
<1>9. PageKept(k, regs)
  BY <1>1, <1>5, <1>6, InUserMode, Ends DEF PageKept, Quiet, Meant, Outside, Cloning
<1>10. TextKept(k, regs)
  BY <1>1, <1>5, <1>6, InUserMode, Ends
     DEF TextKept, Quiet, Greets, Buffered, Tells, Early, Writing, Leaving
<1>. QED
  BY <1>5, <1>7, <1>8, <1>9, <1>10, StepKeeps

LEMMA UserFaultKeeps == ASSUME IInv, UserFault PROVE IInv'
<1>1. me.pc = "user"
  BY DEF UserFault, User, At
<1>. DEFINE l == [me EXCEPT !.pc = "SYNC_ERROR"]
<1>2. KernelEntry(regs, l)
  BY DEF UserFault
<1>3. /\ l \in Record /\ l.pc = "SYNC_ERROR" /\ l.page = me.page
      /\ l.stack = me.stack /\ l.state = me.state /\ l.local = me.local
  BY Running DEF Record, Label
<1>. HIDE DEF l
<1>4. PICK k \in Record : Step(k, regs) /\ Entered(k, l, regs) /\ Quiet
  BY <1>1, <1>2, <1>3, InUserMode, EntryStep
<1>5. /\ k.pc = "SYNC_ERROR" /\ k.frame = regs /\ k.local = me.local
      /\ k.page = me.page /\ k.stack = me.stack /\ k.state = me.state
  BY <1>3, <1>4 DEF Entered
<1>6. RoleKept(k, regs)
  BY <1>1, <1>5, InUserMode, Ends
     DEF RoleKept, Process, Thread, Early, Writing, Mallocing, Cloning, Leaving,
         Outside
<1>7. LineKept(k, regs)
  BY <1>1, <1>5, InUserMode, Ends DEF LineKept, Cloning
<1>8. PageKept(k, regs)
  BY <1>1, <1>4, <1>5, InUserMode, Ends DEF PageKept, Quiet, Meant, Outside, Cloning
<1>9. TextKept(k, regs)
  BY <1>1, <1>4, <1>5, InUserMode, Ends
     DEF TextKept, Quiet, Greets, Buffered, Tells, Early, Writing, Leaving
<1>. QED
  BY <1>4, <1>6, <1>7, <1>8, <1>9, StepKeeps

-----------------------------------------------------------------------------
(* user_process.                                                           *)
LEMMA ProgramLines ==
  /\ Program[1] = "sprintf" /\ Program[2] = "write" /\ Program[3] = "malloc"
  /\ Program[4] = "clone" /\ Program[5] = "malloc" /\ Program[6] = "clone"
  /\ Program[7] = "exit"
BY DEF Program

LEMMA InProcess ==
  ASSUME IInv, me.pc = "user", regs.at \in {"program", "malloced"}
  PROVE  /\ current = 1 /\ Process(me, regs) /\ ~Early(me) /\ regs.sp = me.stack
         /\ regs.line \in 1 .. 7 /\ regs \in Regs /\ me.state = "running"
         /\ Context(1) = regs
<1>1. current = 1
  BY InUserMode DEF Thread
<1>. QED
  BY <1>1, InUserMode DEF Process, Early

LEMMA DoesAt ==
  ASSUME IInv, NEW call, Does(call)
  PROVE  /\ me.pc = "user" /\ regs.at = "program" /\ Program[regs.line] = call
         /\ me.stack \in 1 .. MaxPages
<1>1. me.pc = "user" /\ regs.at = "program" /\ Program[regs.line] = call
      /\ regs.sp # NoPage
  BY DEF Does, User, At, OnStack
<1>. QED
  BY <1>1, InProcess, InUserMode

(* A step in user mode, which leaves the task's record alone.              *)
LEMMA UserStep ==
  ASSUME IInv, me.pc = "user", UNCHANGED <<task, nr_tasks, current, pages, said, shown>>,
         regs' \in Regs, buf' \in [1 .. MaxPages -> [1 .. 3 -> Char]],
         \A p \in 1 .. MaxPages : p # me.stack => buf'[p] = buf[p]
  PROVE  Step(me, regs') /\ UNCHANGED pages
<1>1. Become(me)
  BY DEF Become, me, IInv, TypeOK
<1>. QED
  BY <1>1, Running, Ends DEF Step, IInv, TypeOK

LEMMA AppendTwo ==
  ASSUME NEW a, NEW b, NEW c
  PROVE  Append(<<a, b>>, c) = <<a, b, c>>
<1>. DEFINE S == {a, b, c}
            s == Append(<<a, b>>, c)
            t == <<a, b, c>>
<1>1. <<a, b>> \in Seq(S) /\ c \in S /\ Len(<<a, b>>) = 2
  OBVIOUS
<1>2. t \in Seq(S) /\ Len(t) = 3 /\ t[1] = a /\ t[2] = b /\ t[3] = c
  OBVIOUS
<1>. HIDE DEF S
<1>3. s \in Seq(S) /\ Len(s) = 3 /\ s[1] = a /\ s[2] = b /\ s[3] = c
  BY <1>1, AppendProperties
<1>. HIDE DEF s, t
<1>4. s = t
  BY <1>2, <1>3, SeqEqual
<1>. QED
  BY <1>4 DEF s, t

LEMMA FilledType ==
  ASSUME NEW b \in [1 .. 3 -> Char], NEW i \in 0 .. 3
  PROVE  /\ Filled(b, i) \in [1 .. 3 -> Char]
         /\ i = 0 => \A j \in 1 .. 3 : Filled(b, i)[j] = Nul
         /\ i > 0 => \A j \in 1 .. 3 : Filled(b, i)[j] = IF j = i THEN Message[i] ELSE b[j]
<1>1. Append(Started, Nul) = Message
  BY AppendTwo DEF Started, Nul, Message
<1>2. Nul \in Char /\ \A j \in 1 .. 3 : Message[j] \in Char
  BY DEF Message, Nul, Char
<1>. QED
  BY <1>1, <1>2 DEF Filled

LEMMA SprintfKeeps == ASSUME IInv, Sprintf PROVE IInv'
<1>1. /\ me.pc = "user" /\ regs.at = "program" /\ regs.line = 1
      /\ me.stack \in 1 .. MaxPages
  <2>1. Does("sprintf")
    BY DEF Sprintf
  <2>. QED
    BY <2>1, DoesAt, InProcess, ProgramLines
<1>2. current = 1 /\ regs.sp = me.stack /\ regs.i \in 0 .. 3 /\ regs \in Regs
      /\ ~Early(me) /\ Process(me, regs) /\ Greets(me, regs, said[1])
      /\ Buffered(me, regs, buf[me.stack]) /\ me.state = "running" /\ Context(1) = regs
  BY <1>1, InProcess, InUserMode DEF Process
<1>3. buf' = [buf EXCEPT ![me.stack] = Filled(buf[me.stack], regs.i)]
  BY <1>2 DEF Sprintf
<1>4. buf \in [1 .. MaxPages -> [1 .. 3 -> Char]]
  BY DEF IInv, TypeOK
<1>5. /\ buf' \in [1 .. MaxPages -> [1 .. 3 -> Char]]
      /\ buf'[me.stack] = Filled(buf[me.stack], regs.i)
      /\ \A p \in 1 .. MaxPages : p # me.stack => buf'[p] = buf[p]
  BY <1>1, <1>2, <1>3, <1>4, FilledType
<1>6. /\ regs'.at = "program" /\ regs'.sp = me.stack /\ regs' \in Regs
      /\ regs.i < 3 => regs'.line = 1 /\ regs'.i = regs.i + 1
      /\ regs.i = 3 => regs'.line = 2 /\ regs'.i = 0
  <2>1. Len(Started) = 2
    BY DEF Started
  <2>2. regs' = IF regs.i <= 2 THEN [regs EXCEPT !.i = @ + 1]
                ELSE [regs EXCEPT !.i = 0, !.line = @ + 1]
    BY <2>1 DEF Sprintf
  <2>3. regs \in Regs /\ regs.i \in 0 .. 3 /\ regs.line = 1 /\ regs.i + 1 \in Int
    BY <1>1, <1>2
  <2>4. CASE regs.i <= 2
    <3>1. regs' = [regs EXCEPT !.i = regs.i + 1]
      BY <2>2, <2>4
    <3>2. regs' \in Regs /\ regs'.i = regs.i + 1 /\ regs'.line = regs.line
          /\ regs'.at = regs.at /\ regs'.sp = regs.sp
      BY <2>3, <3>1 DEF Regs
    <3>. QED
      BY <1>1, <1>2, <2>3, <2>4, <3>2
  <2>5. CASE regs.i = 3
    <3>1. PICK m \in Int, n \in Int : m = 0 /\ n = 2
      OBVIOUS
    <3>2. regs' = [regs EXCEPT !.i = m, !.line = n]
      BY <2>2, <2>3, <2>5, <3>1
    <3>3. regs' \in Regs /\ regs'.i = m /\ regs'.line = n
          /\ regs'.at = regs.at /\ regs'.sp = regs.sp
      BY <2>3, <3>2 DEF Regs
    <3>. QED
      BY <1>1, <1>2, <2>3, <2>5, <3>1, <3>3
  <2>. QED
    BY <2>3, <2>4, <2>5
<1>7. Step(me, regs') /\ UNCHANGED pages
  BY <1>1, <1>5, <1>6, UserStep DEF Sprintf
<1>8. RoleKept(me, regs')
  BY <1>1, <1>2, <1>6 DEF RoleKept, Process, Early, Writing, Mallocing, Cloning, Leaving
<1>9. LineKept(me, regs')
  BY <1>1, <1>2, <1>6 DEF LineKept
<1>10. PageKept(me, regs')
  BY <1>1, <1>2, <1>6, <1>7 DEF PageKept, Meant, Cloning
<1>11. Buffered(me, regs', buf'[me.stack])
  <2>1. /\ regs.i = 0 => \A j \in 1 .. 3 : buf'[me.stack][j] = Nul
        /\ regs.i > 0 => \A j \in 1 .. 3 :
             buf'[me.stack][j] = IF j = regs.i THEN Message[regs.i] ELSE buf[me.stack][j]
    BY <1>1, <1>2, <1>4, <1>5, FilledType
  <2>2. regs.i >= 1 =>
          \A j \in 1 .. 3 : buf[me.stack][j] = IF j < regs.i THEN Message[j] ELSE Nul
    BY <1>1, <1>2 DEF Buffered
  <2>3. ~Writing(me)
    BY <1>1 DEF Writing
  <2>. QED
    BY <1>1, <1>2, <1>6, <2>1, <2>2, <2>3 DEF Buffered
<1>12. TextKept(me, regs')
  <2>1. said' = said
    BY DEF Sprintf
  <2>2. Greets(me, regs', said[1])
    BY <1>1, <1>2, <1>6 DEF Greets, Writing
  <2>. QED
    BY <1>2, <1>11, <2>1, <2>2 DEF TextKept
<1>. QED
  BY <1>7, <1>8, <1>9, <1>10, <1>12, StepKeeps

LEMMA WriteStartedKeeps == ASSUME IInv, WriteStarted PROVE IInv'
<1>1. /\ me.pc = "user" /\ regs.at = "program" /\ regs.line = 2
      /\ me.stack \in 1 .. MaxPages
  <2>1. Does("write")
    BY DEF WriteStarted
  <2>. QED
    BY <2>1, DoesAt, InProcess, ProgramLines
<1>2. /\ current = 1 /\ regs.sp = me.stack /\ regs \in Regs
      /\ ~Early(me) /\ Process(me, regs) /\ Greets(me, regs, said[1])
      /\ Buffered(me, regs, buf[me.stack]) /\ me.state = "running" /\ Context(1) = regs
  BY <1>1, InProcess, InUserMode
<1>. DEFINE r == [regs EXCEPT !.line = @ + 1]
            l == [me EXCEPT !.pc = "sys_write", !.fmt = regs.sp]
<1>3. KernelEntry(r, l)
  BY DEF WriteStarted, CallSysWrite
<1>4. /\ r \in Regs /\ r.line = 3 /\ r.at = "program" /\ r.sp = me.stack /\ r.i = regs.i
  BY <1>1, <1>2 DEF Regs
<1>5. /\ l \in Record /\ l.pc = "sys_write" /\ l.page = me.page /\ l.stack = me.stack
      /\ l.state = me.state /\ l.fmt = me.stack
  BY <1>2, Running DEF Record, Label, Regs
<1>. HIDE DEF r, l
<1>6. PICK k \in Record : Step(k, r) /\ Entered(k, l, r) /\ Quiet
  BY <1>1, <1>3, <1>4, <1>5, EntryStep
<1>7. /\ k.pc = "sys_write" /\ k.frame = r /\ k.page = me.page /\ k.stack = me.stack
      /\ k.state = me.state /\ k.fmt = me.stack
  BY <1>5, <1>6 DEF Entered
<1>8. RoleKept(k, r)
  BY <1>1, <1>2, <1>4, <1>7, Ends
     DEF RoleKept, Process, Early, Writing, Mallocing, Cloning, Leaving, Outside
<1>9. LineKept(k, r)
  BY <1>1, <1>2, <1>4 DEF LineKept
<1>10. PageKept(k, r)
  BY <1>1, <1>2, <1>4, <1>6, <1>7, Ends DEF PageKept, Quiet, Meant, Cloning, Outside
<1>11. TextKept(k, r)
  BY <1>1, <1>2, <1>4, <1>6, <1>7
     DEF TextKept, Quiet, Greets, Buffered, Early, Writing, Leaving
<1>. QED
  BY <1>6, <1>8, <1>9, <1>10, <1>11, StepKeeps

LEMMA SysMallocKeeps == ASSUME IInv, SysMalloc PROVE IInv'
<1>1. /\ me.pc = "user" /\ regs.at = "program" /\ regs.line \in {3, 5}
      /\ me.stack \in 1 .. MaxPages
  <2>1. Does("malloc")
    BY DEF SysMalloc
  <2>. QED
    BY <2>1, DoesAt, InProcess, ProgramLines
<1>2. /\ current = 1 /\ regs.sp = me.stack /\ regs \in Regs
      /\ ~Early(me) /\ Process(me, regs) /\ Greets(me, regs, said[1])
      /\ me.state = "running" /\ Context(1) = regs
  BY <1>1, InProcess, InUserMode
<1>. DEFINE r == [regs EXCEPT !.at = "malloced"]
            l == [me EXCEPT !.pc = "find", !.back = "sys_malloc"]
<1>3. KernelEntry(r, l)
  BY DEF SysMalloc, GetFreePage
<1>4. r \in Regs /\ r.line = regs.line /\ r.at = "malloced" /\ r.sp = me.stack
      /\ r.i = regs.i
  BY <1>1, <1>2 DEF Regs, Place
<1>5. /\ l \in Record /\ l.pc = "find" /\ l.back = "sys_malloc" /\ l.page = me.page
      /\ l.stack = me.stack /\ l.state = me.state
  BY Running DEF Record, Label
<1>. HIDE DEF r, l
<1>6. PICK k \in Record : Step(k, r) /\ Entered(k, l, r) /\ Quiet
  BY <1>1, <1>3, <1>4, <1>5, EntryStep
<1>7. /\ k.pc = "find" /\ k.back = "sys_malloc" /\ k.frame = r /\ k.page = me.page
      /\ k.stack = me.stack /\ k.state = me.state
  BY <1>5, <1>6 DEF Entered
<1>8. RoleKept(k, r)
  BY <1>1, <1>2, <1>4, <1>7, Ends
     DEF RoleKept, Process, Early, Writing, Mallocing, Cloning, Leaving, Outside
<1>9. LineKept(k, r)
  BY <1>1, <1>2, <1>4 DEF LineKept
<1>10. PageKept(k, r)
  BY <1>1, <1>2, <1>4, <1>6, <1>7, Ends DEF PageKept, Quiet, Meant, Cloning, Outside
<1>11. TextKept(k, r)
  BY <1>1, <1>2, <1>4, <1>6, <1>7
     DEF TextKept, Quiet, Greets, Buffered, Early, Writing, Leaving
<1>. QED
  BY <1>6, <1>8, <1>9, <1>10, <1>11, StepKeeps

LEMMA MallocReturnKeeps == ASSUME IInv, MallocReturn PROVE IInv'
<1>1. me.pc = "user" /\ regs.at = "malloced"
  BY DEF MallocReturn, User, At
<1>2. /\ current = 1 /\ regs.sp = me.stack /\ regs \in Regs /\ regs.line \in {3, 5}
      /\ ~Early(me) /\ Process(me, regs) /\ Greets(me, regs, said[1])
      /\ me.state = "running" /\ Context(1) = regs
  BY <1>1, InProcess, InUserMode DEF Process
<1>. DEFINE r == [regs EXCEPT !.line = @ + 1, !.at = "program"]
            k == [me EXCEPT !.local = regs.x0]
<1>3. Become(k) /\ regs' = r
  BY DEF MallocReturn
<1>4. /\ r \in Regs /\ r.line = regs.line + 1 /\ r.at = "program" /\ r.sp = me.stack
      /\ r.i = regs.i
  <2>1. regs \in Regs /\ regs.line + 1 \in Int /\ "program" \in Place
    BY <1>2 DEF Place
  <2>. QED
    BY <1>2, <2>1 DEF Regs
<1>5. /\ k \in Record /\ k.pc = "user" /\ k.local = regs.x0 /\ k.page = me.page
      /\ k.stack = me.stack /\ k.state = me.state
  BY <1>1, <1>2, Running DEF Record, Regs
<1>. HIDE DEF r, k
<1>6. Quiet
  BY DEF MallocReturn, Quiet, mem
<1>7. Step(k, r)
  BY <1>1, <1>3, <1>4, <1>5, Ends DEF MallocReturn, Step, IInv, TypeOK, mem
<1>8. RoleKept(k, r)
  BY <1>1, <1>2, <1>4, <1>5, Ends
     DEF RoleKept, Process, Early, Writing, Mallocing, Cloning, Leaving, Outside
<1>9. LineKept(k, r)
  BY <1>1, <1>2, <1>4 DEF LineKept
<1>10. PageKept(k, r)
  BY <1>1, <1>2, <1>4, <1>5, <1>6, Ends DEF PageKept, Quiet, Meant, Cloning, Outside
<1>11. TextKept(k, r)
  BY <1>1, <1>2, <1>4, <1>5, <1>6
     DEF TextKept, Quiet, Greets, Buffered, Early, Writing, Leaving
<1>. QED
  BY <1>7, <1>8, <1>9, <1>10, <1>11, StepKeeps

LEMMA SysCloneKeeps == ASSUME IInv, SysClone PROVE IInv'
<1>1. /\ me.pc = "user" /\ regs.at = "program" /\ regs.line \in {4, 6}
      /\ me.stack \in 1 .. MaxPages
  <2>1. Does("clone")
    BY DEF SysClone
  <2>. QED
    BY <2>1, DoesAt, InProcess, ProgramLines
<1>2. /\ current = 1 /\ regs.sp = me.stack /\ regs \in Regs
      /\ ~Early(me) /\ Process(me, regs) /\ Greets(me, regs, said[1])
      /\ me.state = "running" /\ Context(1) = regs
  BY <1>1, InProcess, InUserMode
<1>. DEFINE r == [regs EXCEPT !.x0 = me.local, !.at = "wrapper"]
            l == [me EXCEPT !.preempt = @ + 1, !.pc = "find", !.back = "copy"]
<1>3. KernelEntry(r, l)
  <2>1. l = GetFreePage(preempt_disable(me), "copy")
    BY Running DEF GetFreePage, preempt_disable, Record
  <2>. QED
    BY <2>1 DEF SysClone
<1>4. /\ r \in Regs /\ r.line = regs.line /\ r.at = "wrapper" /\ r.sp = me.stack
      /\ r.i = regs.i /\ r.x0 = me.local
  BY <1>1, <1>2, Running DEF Regs, Place, Record
<1>5. /\ l \in Record /\ l.pc = "find" /\ l.back = "copy" /\ l.page = me.page
      /\ l.stack = me.stack /\ l.state = me.state
  <2>1. me \in Record /\ me.preempt + 1 \in Int
    BY Running DEF Record
  <2>. QED
    BY <2>1 DEF Record, Label
<1>. HIDE DEF r, l
<1>6. PICK k \in Record : Step(k, r) /\ Entered(k, l, r) /\ Quiet
  BY <1>1, <1>3, <1>4, <1>5, EntryStep
<1>7. /\ k.pc = "find" /\ k.back = "copy" /\ k.frame = r /\ k.page = me.page
      /\ k.stack = me.stack /\ k.state = me.state
  BY <1>5, <1>6 DEF Entered
<1>8. RoleKept(k, r)
  BY <1>1, <1>2, <1>4, <1>7, Ends
     DEF RoleKept, Process, Early, Writing, Mallocing, Cloning, Leaving, Outside
<1>9. LineKept(k, r)
  BY <1>1, <1>2, <1>4 DEF LineKept
<1>10. PageKept(k, r)
  BY <1>1, <1>2, <1>4, <1>6, <1>7, Ends DEF PageKept, Quiet, Meant, Cloning, Outside
<1>11. TextKept(k, r)
  BY <1>1, <1>2, <1>4, <1>6, <1>7
     DEF TextKept, Quiet, Greets, Buffered, Early, Writing, Leaving
<1>. QED
  BY <1>6, <1>8, <1>9, <1>10, <1>11, StepKeeps

LEMMA CallSysExitKeeps == ASSUME IInv, CallSysExit PROVE IInv'
<1>1. /\ me.pc = "user" /\ regs.at = "program" /\ regs.line = 7
      /\ me.stack \in 1 .. MaxPages
  <2>1. Does("exit")
    BY DEF CallSysExit
  <2>. QED
    BY <2>1, DoesAt, InProcess, ProgramLines
<1>2. /\ current = 1 /\ regs.sp = me.stack /\ regs \in Regs
      /\ ~Early(me) /\ Process(me, regs) /\ Greets(me, regs, said[1])
      /\ me.state = "running" /\ Context(1) = regs
  BY <1>1, InProcess, InUserMode
<1>. DEFINE l == [me EXCEPT !.pc = "sys_exit"]
<1>3. KernelEntry(regs, l)
  BY DEF CallSysExit
<1>4. /\ l \in Record /\ l.pc = "sys_exit" /\ l.page = me.page
      /\ l.stack = me.stack /\ l.state = me.state
  BY Running DEF Record, Label
<1>. HIDE DEF l
<1>5. PICK k \in Record : Step(k, regs) /\ Entered(k, l, regs) /\ Quiet
  BY <1>1, <1>2, <1>3, <1>4, EntryStep
<1>6. /\ k.pc = "sys_exit" /\ k.frame = regs /\ k.page = me.page
      /\ k.stack = me.stack /\ k.state = me.state
  BY <1>4, <1>5 DEF Entered
<1>7. RoleKept(k, regs)
  BY <1>1, <1>2, <1>6, Ends DEF RoleKept, Process, Early, Writing, Mallocing, Cloning,
     Leaving, Outside
<1>8. LineKept(k, regs)
  BY <1>1, <1>2 DEF LineKept
<1>9. PageKept(k, regs)
  BY <1>1, <1>2, <1>5, <1>6, Ends DEF PageKept, Quiet, Meant, Cloning, Outside
<1>10. TextKept(k, regs)
  BY <1>1, <1>2, <1>5, <1>6
     DEF TextKept, Quiet, Greets, Buffered, Early, Writing, Leaving
<1>. QED
  BY <1>5, <1>7, <1>8, <1>9, <1>10, StepKeeps

(* Zero only in the thread.                                                *)
LEMMA CloneReturnKeeps == ASSUME IInv, CloneReturn PROVE IInv'
<1>1. me.pc = "user" /\ regs.at = "wrapper" /\ Context(current) = regs
  BY InUserMode DEF CloneReturn, User, At
<1>2. Quiet
  BY DEF CloneReturn, Quiet, mem
<1>3. CASE current = 1
  <2>1. /\ Process(me, regs) /\ Greets(me, regs, said[1]) /\ ~Early(me) /\ regs.x0 # 0
        /\ regs \in Regs /\ regs.line \in {4, 6} /\ me.state = "running"
    BY <1>1, <1>3, InUserMode, Ends DEF Process, Early, Outside
  <2>2. regs' = [regs EXCEPT !.at = "program", !.line = @ + 1]
    BY <2>1 DEF CloneReturn
  <2>3. /\ regs' \in Regs /\ regs'.at = "program" /\ regs'.line = regs.line + 1
        /\ regs'.sp = regs.sp /\ regs'.i = regs.i
    <3>1. regs \in Regs /\ regs.line + 1 \in Int /\ "program" \in Place
      BY <2>1 DEF Place
    <3>. QED
      BY <2>2, <3>1 DEF Regs
  <2>4. Step(me, regs')
    BY <1>1, <1>2, <2>3, UserStep DEF CloneReturn, Quiet, IInv, TypeOK, mem
  <2>5. RoleKept(me, regs')
    BY <1>1, <1>3, <2>1, <2>3, Ends
       DEF RoleKept, Process, Early, Writing, Mallocing, Cloning, Leaving, Outside
  <2>6. LineKept(me, regs')
    BY <1>1, <1>3, <2>1, <2>3 DEF LineKept
  <2>7. PageKept(me, regs')
    BY <1>1, <1>2, <1>3, <2>1, <2>3, Ends DEF PageKept, Quiet, Meant, Cloning, Outside
  <2>8. TextKept(me, regs')
    BY <1>1, <1>2, <1>3, <2>1, <2>3
       DEF TextKept, Quiet, Greets, Buffered, Early, Writing, Leaving
  <2>. QED
    BY <2>4, <2>5, <2>6, <2>7, <2>8, StepKeeps
<1>4. CASE current > 1
  <2>1. /\ Thread(me, regs) /\ Tells(me, regs, said[current], buf[me.stack])
        /\ regs.x0 = 0
        /\ regs \in Regs
    BY <1>1, <1>4, InUserMode DEF Thread
  <2>2. regs' = [regs EXCEPT !.at = "start"]
    BY <2>1 DEF CloneReturn
  <2>3. /\ regs' \in Regs /\ regs'.at = "start" /\ regs'.line = regs.line
        /\ regs'.sp = regs.sp /\ regs'.i = regs.i
    BY <2>1, <2>2 DEF Regs, Place
  <2>4. Step(me, regs')
    BY <1>1, <1>2, <2>3, UserStep DEF CloneReturn, Quiet, IInv, TypeOK, mem
  <2>5. RoleKept(me, regs')
    BY <1>1, <1>4, <2>1, <2>3, Ends DEF RoleKept, Thread, Writing, Outside
  <2>6. LineKept(me, regs')
    BY <1>1, <1>4, <2>1, <2>3 DEF LineKept
  <2>7. PageKept(me, regs')
    BY <1>1, <1>2, <1>4 DEF PageKept, Quiet
  <2>8. TextKept(me, regs')
    BY <1>1, <1>2, <1>4, <2>1, <2>3 DEF TextKept, Quiet, Tells, Thread, Writing
  <2>. QED
    BY <2>4, <2>5, <2>6, <2>7, <2>8, StepKeeps
<1>. QED
  BY <1>1, <1>3, <1>4, InUserMode

-----------------------------------------------------------------------------
(* The threads.                                                            *)
LEMMA ArrayAtIs ==
  ASSUME NEW l \in {4, 6}, NEW i \in 0 .. 4
  PROVE  /\ ArrayAt(l, i) \in Char
         /\ i < Length(l) => ArrayAt(l, i) = Array(l)[i + 1] /\ ArrayAt(l, i) # Nul
         /\ i >= Length(l) => ArrayAt(l, i) = Nul
<1>1. Len(Array(4)) = 6 /\ Len(Array(6)) = 4
  BY Arrays
<1>2. /\ Array(4)[1] = "1" /\ Array(4)[2] = "2" /\ Array(4)[3] = "3" /\ Array(4)[4] = "4"
      /\ Array(4)[5] = "5"
      /\ Array(6)[1] = "a" /\ Array(6)[2] = "b" /\ Array(6)[3] = "c" /\ Array(6)[4] = "d"
  BY Arrays
<1>3. CASE l = 4
  BY <1>1, <1>2, <1>3 DEF ArrayAt, Length, Nul, Char
<1>4. CASE l = 6
  BY <1>1, <1>2, <1>4 DEF ArrayAt, Length, Nul, Char
<1>. QED
  BY <1>3, <1>4

LEMMA InThread ==
  ASSUME IInv, me.pc = "user", regs.at \in {"start", "thread", "stored"}
  PROVE  /\ current > 1 /\ Context(current) = regs /\ Thread(me, regs) /\ regs \in Regs
         /\ me.stack \in 1 .. MaxPages /\ regs.sp = me.stack
         /\ Tells(me, regs, said[current], buf[me.stack])
         /\ regs.line \in {4, 6} /\ regs.i \in 0 .. 4
<1>1. current > 1
  BY InUserMode DEF Process, Early
<1>. QED
  BY <1>1, InUserMode DEF Thread

LEMMA UserProcess1Keeps == ASSUME IInv, UserProcess1 PROVE IInv'
<1>1. me.pc = "user" /\ regs.at = "start"
  BY DEF UserProcess1, User, At
<1>2. /\ current > 1 /\ Context(current) = regs /\ Thread(me, regs) /\ regs \in Regs
      /\ me.stack \in 1 .. MaxPages /\ regs.sp = me.stack
      /\ Tells(me, regs, said[current], buf[me.stack])
  BY <1>1, InThread
<1>3. buf \in [1 .. MaxPages -> [1 .. 3 -> Char]]
  BY DEF IInv, TypeOK
<1>4. /\ buf' \in [1 .. MaxPages -> [1 .. 3 -> Char]]
      /\ buf'[me.stack] = Filled(buf[me.stack], 0)
      /\ \A p \in 1 .. MaxPages : p # me.stack => buf'[p] = buf[p]
  <2>1. buf' = [buf EXCEPT ![me.stack] = Filled(buf[me.stack], 0)]
    BY <1>2 DEF UserProcess1
  <2>2. Filled(buf[me.stack], 0) \in [1 .. 3 -> Char]
    BY <1>2, <1>3, FilledType
  <2>. QED
    BY <1>2, <1>3, <2>1, <2>2
<1>5. buf'[me.stack][2] = Nul
  BY <1>2, <1>3, <1>4, FilledType
<1>6. /\ regs' \in Regs /\ regs'.at = "thread" /\ regs'.line = regs.line
      /\ regs'.sp = regs.sp /\ regs'.i = regs.i
  BY <1>2 DEF UserProcess1, Regs, Place
<1>7. Step(me, regs') /\ UNCHANGED pages /\ said' = said
  BY <1>1, <1>4, <1>6, UserStep DEF UserProcess1
<1>8. RoleKept(me, regs')
  BY <1>1, <1>2, <1>6 DEF RoleKept, Thread, Writing
<1>9. LineKept(me, regs')
  BY <1>2, <1>6 DEF LineKept
<1>10. PageKept(me, regs')
  BY <1>1, <1>2, <1>7 DEF PageKept
<1>11. TextKept(me, regs')
  BY <1>1, <1>2, <1>5, <1>6, <1>7 DEF TextKept, Tells, Told, Thread, Writing
<1>. QED
  BY <1>7, <1>8, <1>9, <1>10, <1>11, StepKeeps

LEMMA StoreCharKeeps == ASSUME IInv, StoreChar PROVE IInv'
<1>1. me.pc = "user" /\ regs.at = "thread"
  BY DEF StoreChar, User, At
<1>2. /\ current > 1 /\ Context(current) = regs /\ Thread(me, regs) /\ regs \in Regs
      /\ me.stack \in 1 .. MaxPages /\ regs.sp = me.stack
      /\ Tells(me, regs, said[current], buf[me.stack])
      /\ regs.line \in {4, 6} /\ regs.i \in 0 .. 4
  BY <1>1, InThread
<1>3. buf \in [1 .. MaxPages -> [1 .. 3 -> Char]]
  BY DEF IInv, TypeOK
<1>4. /\ buf' \in [1 .. MaxPages -> [1 .. 3 -> Char]]
      /\ buf'[me.stack][1] = ArrayAt(regs.line, regs.i)
      /\ buf'[me.stack][2] = buf[me.stack][2]
      /\ \A p \in 1 .. MaxPages : p # me.stack => buf'[p] = buf[p]
  <2>1. ArrayAt(regs.line, regs.i) \in Char
    BY <1>2, ArrayAtIs
  <2>. DEFINE b == [buf[me.stack] EXCEPT ![1] = ArrayAt(regs.line, regs.i)]
  <2>2. b \in [1 .. 3 -> Char] /\ b[1] = ArrayAt(regs.line, regs.i)
        /\ b[2] = buf[me.stack][2]
    BY <1>2, <1>3, <2>1
  <2>3. buf' = [buf EXCEPT ![me.stack] = b]
    BY <1>2, <1>3 DEF StoreChar
  <2>. HIDE DEF b
  <2>. QED
    BY <1>2, <1>3, <2>2, <2>3
<1>5. /\ regs' \in Regs /\ regs'.at = "stored" /\ regs'.line = regs.line
      /\ regs'.sp = regs.sp /\ regs'.i = regs.i
  BY <1>2 DEF StoreChar, Regs, Place
<1>6. Step(me, regs') /\ UNCHANGED pages /\ said' = said
  BY <1>1, <1>4, <1>5, UserStep DEF StoreChar
<1>7. RoleKept(me, regs')
  BY <1>1, <1>2, <1>5 DEF RoleKept, Thread, Writing
<1>8. LineKept(me, regs')
  BY <1>2, <1>5 DEF LineKept
<1>9. PageKept(me, regs')
  BY <1>1, <1>2, <1>6 DEF PageKept
<1>10. TextKept(me, regs')
  BY <1>1, <1>2, <1>4, <1>5, <1>6 DEF TextKept, Tells, Writing
<1>. QED
  BY <1>6, <1>7, <1>8, <1>9, <1>10, StepKeeps

LEMMA Turning ==
  ASSUME NEW i \in 0 .. 4
  PROVE  (i + 1) % Turns \in 0 .. 4 /\ Before((i + 1) % Turns) = i
BY DEF Turns, Before

LEMMA WriteCharKeeps == ASSUME IInv, WriteChar PROVE IInv'
<1>1. me.pc = "user" /\ regs.at = "stored"
  BY DEF WriteChar, User, At
<1>2. /\ current > 1 /\ Context(current) = regs /\ Thread(me, regs) /\ regs \in Regs
      /\ me.stack \in 1 .. MaxPages /\ regs.sp = me.stack
      /\ Tells(me, regs, said[current], buf[me.stack])
      /\ regs.line \in {4, 6} /\ regs.i \in 0 .. 4
  BY <1>1, InThread
<1>. DEFINE r == [regs EXCEPT !.at = "thread", !.i = (@ + 1) % Turns]
            l == [me EXCEPT !.pc = "sys_write", !.fmt = regs.sp]
<1>3. KernelEntry(r, l)
  BY DEF WriteChar, CallSysWrite
<1>4. /\ r \in Regs /\ r.line = regs.line /\ r.at = "thread" /\ r.sp = me.stack
      /\ r.i \in 0 .. 4 /\ Before(r.i) = regs.i
  <2>1. PICK i \in 0 .. 4 : i = (regs.i + 1) % Turns /\ Before(i) = regs.i
    BY <1>2, Turning
  <2>2. r = [regs EXCEPT !.at = "thread", !.i = i]
    BY <2>1
  <2>3. regs \in Regs /\ "thread" \in Place /\ i \in Int
    BY <1>2 DEF Place
  <2>. HIDE DEF r
  <2>. QED
    BY <1>2, <2>1, <2>2, <2>3 DEF Regs
<1>5. /\ l \in Record /\ l.pc = "sys_write" /\ l.page = me.page /\ l.stack = me.stack
      /\ l.state = me.state /\ l.fmt = me.stack
  BY <1>2, Running DEF Record, Label, Regs
<1>. HIDE DEF r, l
<1>6. PICK k \in Record : Step(k, r) /\ Entered(k, l, r) /\ Quiet
  BY <1>1, <1>3, <1>4, <1>5, EntryStep
<1>7. /\ k.pc = "sys_write" /\ k.frame = r /\ k.page = me.page /\ k.stack = me.stack
      /\ k.state = me.state /\ k.fmt = me.stack
  BY <1>5, <1>6 DEF Entered
<1>8. RoleKept(k, r)
  BY <1>1, <1>2, <1>4, <1>7 DEF RoleKept, Thread, Writing
<1>9. LineKept(k, r)
  BY <1>2, <1>4 DEF LineKept
<1>10. PageKept(k, r)
  BY <1>1, <1>2, <1>6, <1>7 DEF PageKept, Quiet
<1>11. TextKept(k, r)
  BY <1>1, <1>2, <1>4, <1>6, <1>7 DEF TextKept, Quiet, Tells, Writing
<1>. QED
  BY <1>6, <1>8, <1>9, <1>10, <1>11, StepKeeps

-----------------------------------------------------------------------------
(* The kernel's side of a task's life, and printf.                         *)
LEMMA ScheduleTailKeeps == ASSUME IInv, ScheduleTail PROVE IInv'
<1>1. me.pc = "tail" /\ current > 0 /\ Context(current) = me.frame
  BY Shares, Running DEF ScheduleTail, At
<1>2. me.frame = ZeroRegs <=> current = 1
  <2>1. current = 1 => me.frame = ZeroRegs
    BY <1>1, Running DEF Process, Early
  <2>2. current > 1 => me.frame.at = "wrapper"
    BY <1>1, Running DEF Thread
  <2>3. ZeroRegs.at = "none"
    BY DEF ZeroRegs
  <2>. QED
    BY <1>1, <2>1, <2>2, <2>3, Running
<1>3. PICK l \in Label : l = IF current = 1 THEN "kernel_process" ELSE "ret_to_user"
  BY DEF Label
<1>. DEFINE k == [me EXCEPT !.preempt = @ - 1, !.pc = l]
<1>4. Become(k)
  <2>1. k = [schedule_tail(me) EXCEPT !.pc = IF me.frame = ZeroRegs THEN "kernel_process"
                                             ELSE "ret_to_user"]
    BY <1>2, <1>3, Running DEF schedule_tail, preempt_enable, Record
  <2>. QED
    BY <2>1 DEF ScheduleTail
<1>5. /\ k \in Record /\ k.pc = l /\ k.page = me.page /\ k.stack = me.stack
      /\ k.state = me.state /\ k.frame = me.frame
  <2>1. me \in Record /\ me.preempt - 1 \in Int
    BY Running DEF Record
  <2>. QED
    BY <2>1 DEF Record
<1>. HIDE DEF k
<1>6. Step(k, k.frame) /\ Quiet
  BY <1>1, <1>3, <1>4, <1>5, Ends, KernelStep DEF ScheduleTail
<1>7. RoleKept(k, k.frame)
  BY <1>1, <1>3, <1>5, Running, Ends
     DEF RoleKept, Process, Thread, Early, Writing, Outside
<1>8. LineKept(k, k.frame)
  BY <1>1, <1>3, <1>5, Running DEF LineKept, Cloning
<1>9. PageKept(k, k.frame)
  <2>1. current = 1 => me.frame.at = "none"
    BY <1>2 DEF ZeroRegs
  <2>. QED
    BY <1>1, <1>3, <1>5, <1>6, <2>1, Ends DEF PageKept, Quiet, Meant, Cloning
<1>10. TextKept(k, k.frame)
  BY <1>1, <1>3, <1>5, <1>6, Running
     DEF TextKept, Quiet, Greets, Tells, Process, Thread, Early, Writing
<1>. QED
  BY <1>6, <1>7, <1>8, <1>9, <1>10, StepKeeps

(* Before its first return to user mode user_process has no stack, and its *)
(* registers are zero.                                                     *)
LEMMA IsEarly ==
  ASSUME IInv, current = 1, Early(me)
  PROVE  /\ me.stack = NoPage /\ me.frame = ZeroRegs /\ me.frame.at = "none"
         /\ me.frame.line = 0 /\ Context(1) = me.frame /\ me.pc # "user"
<1>1. Process(me, Context(1)) /\ Context(1) = IF me.pc = "user" THEN regs ELSE me.frame
  BY Running
<1>. QED
  BY <1>1 DEF Process, Early, ZeroRegs

LEMMA Printing ==
  ASSUME IInv, NEW buffer \in Int, NEW back \in Label, Printf(buffer, back)
  PROVE  \E k \in Record :
           /\ Become(k) /\ k.pc = "format" /\ k.back = back /\ k.fmt = buffer /\ k.pos = 1
           /\ k.page = me.page /\ k.stack = me.stack /\ k.state = me.state
           /\ k.frame = me.frame
<1>1. PICK l \in Label, n \in Int : l = "format" /\ n = 1
  BY DEF Label
<1>. DEFINE k == [me EXCEPT !.pc = l, !.back = back, !.fmt = buffer, !.pos = n]
<1>2. k \in Record /\ k.pc = l /\ k.back = back /\ k.fmt = buffer /\ k.pos = n
      /\ k.page = me.page /\ k.stack = me.stack /\ k.state = me.state
      /\ k.frame = me.frame
  BY Running DEF Record
<1>3. Become(k)
  BY <1>1 DEF Printf
<1>. HIDE DEF k
<1>. QED
  BY <1>1, <1>2, <1>3

LEMMA KernelProcessKeeps == ASSUME IInv, KernelProcess PROVE IInv'
<1>1. me.pc = "kernel_process" /\ current = 1 /\ Early(me)
  BY First DEF KernelProcess, At, Early
<1>2. Printf(NoPage, "allocate") /\ NoPage \in Int /\ "allocate" \in Label
  BY DEF KernelProcess, Label
<1>3. PICK k \in Record :
        /\ Become(k) /\ k.pc = "format" /\ k.back = "allocate" /\ k.fmt = NoPage
        /\ k.pos = 1 /\ k.page = me.page /\ k.stack = me.stack /\ k.state = me.state
        /\ k.frame = me.frame
  BY <1>2, Printing
<1>4. Step(k, k.frame) /\ Quiet
  BY <1>1, <1>3, Ends, KernelStep DEF KernelProcess
<1>5. RoleKept(k, k.frame)
  BY <1>1, <1>3, IsEarly, Running DEF RoleKept, Process, Early
<1>6. LineKept(k, k.frame)
  BY <1>1, <1>3, IsEarly DEF LineKept
<1>7. PageKept(k, k.frame)
  BY <1>1, <1>3, <1>4, IsEarly DEF PageKept, Quiet, Meant, Cloning
<1>8. TextKept(k, k.frame)
  BY <1>1, <1>3, <1>4, IsEarly, Running DEF TextKept, Quiet, Greets, Early, Writing
<1>. QED
  BY <1>4, <1>5, <1>6, <1>7, <1>8, StepKeeps

LEMMA AllocateKeeps == ASSUME IInv, Allocate PROVE IInv'
<1>1. me.pc = "allocate" /\ current = 1 /\ Early(me)
  BY First DEF Allocate, At, Early
<1>. DEFINE k == [me EXCEPT !.pc = "find", !.back = "moved"]
<1>2. Become(k)
  BY DEF Allocate, GetFreePage
<1>3. /\ k \in Record /\ k.pc = "find" /\ k.back = "moved"
      /\ k.page = me.page /\ k.stack = me.stack /\ k.state = me.state
      /\ k.frame = me.frame
  BY Running DEF Record, Label
<1>. HIDE DEF k
<1>4. Step(k, k.frame) /\ Quiet
  BY <1>1, <1>2, <1>3, Ends, KernelStep DEF Allocate
<1>5. RoleKept(k, k.frame)
  BY <1>1, <1>3, IsEarly, Running DEF RoleKept, Process, Early
<1>6. LineKept(k, k.frame)
  BY <1>1, <1>3, IsEarly DEF LineKept
<1>7. PageKept(k, k.frame)
  BY <1>1, <1>3, <1>4, IsEarly DEF PageKept, Quiet, Meant, Cloning
<1>8. TextKept(k, k.frame)
  BY <1>1, <1>3, <1>4, IsEarly, Running DEF TextKept, Quiet, Greets, Early, Writing
<1>. QED
  BY <1>4, <1>5, <1>6, <1>7, <1>8, StepKeeps

LEMMA SysWriteKeeps == ASSUME IInv, SysWrite PROVE IInv'
<1>1. me.pc = "sys_write" /\ current > 0 /\ Context(current) = me.frame
  BY Shares, Running DEF SysWrite, At
<1>2. Printf(me.fmt, "ret_from_syscall") /\ me.fmt \in Int /\ "ret_from_syscall" \in Label
  BY Running DEF SysWrite, Label, Record
<1>3. PICK k \in Record :
        /\ Become(k) /\ k.pc = "format" /\ k.back = "ret_from_syscall" /\ k.fmt = me.fmt
        /\ k.pos = 1 /\ k.page = me.page /\ k.stack = me.stack /\ k.state = me.state
        /\ k.frame = me.frame
  BY <1>2, Printing
<1>4. Step(k, k.frame) /\ Quiet
  BY <1>1, <1>3, Ends, KernelStep DEF SysWrite
<1>5. RoleKept(k, k.frame)
  BY <1>1, <1>3, Running, Ends DEF RoleKept, Process, Thread, Early, Writing, Mallocing,
     Cloning, Leaving, Outside
<1>6. LineKept(k, k.frame)
  BY <1>1, <1>3, Running DEF LineKept, Cloning
<1>7. PageKept(k, k.frame)
  BY <1>1, <1>3, <1>4, Running, Ends
     DEF PageKept, Quiet, Meant, Cloning, Outside, Process, Early, Writing
<1>8. TextKept(k, k.frame)
  BY <1>1, <1>3, <1>4, Running
     DEF TextKept, Quiet, Greets, Buffered, Tells, Early, Writing, Leaving
<1>. QED
  BY <1>4, <1>5, <1>6, <1>7, <1>8, StepKeeps

(* What is in the buffer that is printed, or in the message of the kernel. *)
LEMMA KernelText == Append(KernelStarted, Nul) = <<"K", "1", "nul">>
BY AppendTwo DEF KernelStarted, Nul

LEMMA Formatting ==
  ASSUME IInv, me.pc = "format"
  PROVE  /\ current > 0 /\ Context(current) = me.frame
         /\ current = 1 /\ me.back = "allocate" =>
              /\ me.pos \in 1 .. 3
              /\ Source[me.pos] = IF me.pos < 3 THEN Greeting[me.pos] ELSE Nul
         /\ current = 1 /\ me.back # "allocate" =>
              /\ me.back = "ret_from_syscall" /\ me.pos \in 1 .. 3
              /\ Source[me.pos] = IF me.pos < 3 THEN Greeting[me.pos + 2] ELSE Nul
         /\ current > 1 =>
              /\ me.back = "ret_from_syscall" /\ me.pos \in 1 .. 2
              /\ Source[me.pos] = buf[me.stack][me.pos]
         /\ Source[me.pos] \in Char
<1>1. current > 0 /\ Context(current) = me.frame
  BY Shares, Running
<1>2. /\ Greeting[1] = "K" /\ Greeting[2] = "1" /\ Greeting[3] = "U" /\ Greeting[4] = "p"
      /\ Message[1] = "U" /\ Message[2] = "p" /\ Message[3] = Nul
  BY DEF Greeting, Message, Nul
<1>3. CASE current = 1 /\ me.back = "allocate"
  <2>1. me.fmt = NoPage /\ me.pos \in 1 .. 3
    BY <1>1, <1>3, Running DEF Greets, Early
  <2>2. Source = <<"K", "1", "nul">>
    BY <2>1, KernelText DEF Source
  <2>. QED
    BY <1>1, <1>2, <1>3, <2>1, <2>2 DEF Char, Nul
<1>4. CASE current = 1 /\ me.back # "allocate"
  <2>1. ~Early(me) /\ Writing(me) /\ me.back = "ret_from_syscall"
    BY <1>4, Running, Ends
       DEF Process, Early, Writing, Mallocing, Cloning, Leaving, Outside
  <2>2. me.fmt = me.stack /\ me.stack # NoPage /\ me.pos \in 1 .. 3
    BY <1>1, <1>4, <2>1, Running DEF Process, Greets
  <2>3. \A j \in 1 .. 3 : buf[me.stack][j] = Message[j]
    BY <1>4, <2>1, <2>2, Running DEF Buffered, Leaving
  <2>. QED
    BY <1>1, <1>2, <1>4, <2>1, <2>2, <2>3 DEF Source, Char, Nul
<1>5. CASE current > 1
  <2>1. Writing(me) /\ me.back = "ret_from_syscall"
    BY <1>5, Running, Ends DEF Thread, Writing, Outside
  <2>2. me.fmt = me.stack /\ me.stack \in 1 .. MaxPages /\ me.pos \in 1 .. 2
    BY <1>5, <2>1, Running DEF Thread, Tells
  <2>3. buf[me.stack][me.pos] \in Char
    BY <2>2 DEF IInv, TypeOK
  <2>. QED
    BY <1>1, <1>5, <2>1, <2>2, <2>3 DEF Source
<1>. QED
  BY <1>1, <1>3, <1>4, <1>5, Running

LEMMA FormatEnds ==
  ASSUME IInv, Format, Source[me.pos] = Nul
  PROVE  IInv'
<1>1. me.pc = "format" /\ current > 0 /\ Context(current) = me.frame
  BY Formatting DEF Format, At
<1>2. me.back \in {"allocate", "ret_from_syscall"}
      /\ (me.back = "allocate" => current = 1)
  BY <1>1, Formatting, Running
<1>3. PICK k \in Record : Step(k, k.frame) /\ Moved(k, me.back) /\ Quiet
  <2>1. Become([me EXCEPT !.pc = me.back])
    BY DEF Format
  <2>2. me.back \in Label /\ me.back # "user"
    BY <1>2 DEF Label
  <2>. QED
    BY <1>1, <2>1, <2>2, Ends, MoveStep DEF Format
<1>4. LineKept(k, k.frame)
  BY <1>1, <1>2, <1>3, Running DEF LineKept, Moved, Cloning
<1>5. CASE current = 1 /\ me.back = "allocate"
  <2>1. Early(me) /\ Early(k) /\ k.pc = "allocate"
    BY <1>1, <1>3, <1>5 DEF Early, Moved
  <2>2. me.pos = 3
    <3>1. \A n \in 1 .. 2 : Greeting[n] # Nul
      BY DEF Greeting, Nul
    <3>. QED
      BY <1>1, <1>5, <3>1, Formatting
  <2>3. RoleKept(k, k.frame)
    BY <1>1, <1>3, <1>5, <2>1, IsEarly, Running DEF RoleKept, Process, Moved
  <2>4. PageKept(k, k.frame)
    BY <1>1, <1>3, <1>5, <2>1, IsEarly DEF PageKept, Quiet, Moved, Meant, Cloning
  <2>5. TextKept(k, k.frame)
    <3>1. Spoken(said[1], Greeting, 2)
      BY <1>1, <1>5, <2>1, <2>2, Running DEF Greets
    <3>. QED
      BY <1>3, <1>5, <2>1, <3>1, IsEarly DEF TextKept, Quiet, Moved, Greets, Writing
  <2>. QED
    BY <1>3, <1>4, <2>3, <2>4, <2>5, StepKeeps
<1>6. CASE current = 1 /\ me.back # "allocate"
  <2>1. /\ ~Early(me) /\ Writing(me) /\ Process(me, me.frame) /\ k.pc = "ret_from_syscall"
        /\ Greets(me, me.frame, said[1])
    BY <1>1, <1>2, <1>3, <1>6, Running DEF Early, Writing, Moved
  <2>2. me.pos = 3
    <3>1. \A n \in 3 .. 4 : Greeting[n] # Nul
      BY DEF Greeting, Nul
    <3>. QED
      BY <1>1, <1>6, <3>1, Formatting
  <2>3. RoleKept(k, k.frame)
    BY <1>1, <1>3, <1>6, <2>1, Ends
       DEF RoleKept, Process, Moved, Early, Writing, Mallocing, Cloning, Leaving,
           Outside
  <2>4. PageKept(k, k.frame)
    BY <1>1, <1>3, <1>6, <2>1, Ends
       DEF PageKept, Quiet, Moved, Meant, Cloning, Outside, Process
  <2>5. TextKept(k, k.frame)
    <3>1. Spoken(said[1], Greeting, 4)
      BY <1>1, <2>1, <2>2 DEF Greets
    <3>. QED
      BY <1>1, <1>3, <1>6, <2>1, <3>1
         DEF TextKept, Quiet, Moved, Greets, Buffered, Process, Early, Writing
  <2>. QED
    BY <1>3, <1>4, <2>3, <2>4, <2>5, StepKeeps
<1>7. CASE current > 1
  <2>1. /\ Writing(me) /\ Thread(me, me.frame) /\ k.pc = "ret_from_syscall"
        /\ Tells(me, me.frame, said[current], buf[me.stack]) /\ me.pos \in 1 .. 2
    BY <1>1, <1>2, <1>3, <1>7, Formatting, Running DEF Writing, Moved
  <2>2. RoleKept(k, k.frame)
    BY <1>1, <1>3, <1>7, <2>1 DEF RoleKept, Thread, Moved, Writing
  <2>3. PageKept(k, k.frame)
    BY <1>1, <1>3, <1>7, <2>1 DEF PageKept, Quiet, Moved
  <2>4. Told(said[current], me.frame.line, me.frame.i)
    <3>1. CASE me.pos = 2
      BY <1>1, <2>1, <3>1 DEF Tells
    <3>2. CASE me.pos = 1
      <4>1. PICK i \in 0 .. 4 : i = me.frame.i
        BY <2>1 DEF Thread
      <4>2. /\ Told(said[current], me.frame.line, Before(i)) /\ me.frame.line \in {4, 6}
            /\ ArrayAt(me.frame.line, Before(i)) = Nul
        BY <1>1, <1>7, <2>1, <3>2, <4>1, Formatting DEF Tells, Thread
      <4>3. Before(i) \in 0 .. 4
        BY DEF Before
      <4>4. Before(i) >= Length(me.frame.line)
        BY <4>2, <4>3, ArrayAtIs DEF Length
      <4>5. i = 0 /\ me.frame.line = 6
        BY <4>2, <4>4 DEF Before, Length
      <4>. QED
        BY <4>1, <4>2, <4>5 DEF Told, Before, Length
    <3>. QED
      BY <2>1, <3>1, <3>2
  <2>5. TextKept(k, k.frame)
    BY <1>1, <1>3, <1>7, <2>1, <2>4 DEF TextKept, Quiet, Moved, Tells, Thread, Writing
  <2>. QED
    BY <1>3, <1>4, <2>2, <2>3, <2>5, StepKeeps
<1>. QED
  BY <1>1, <1>5, <1>6, <1>7, Running

LEMMA FormatGoes ==
  ASSUME IInv, Format, Source[me.pos] # Nul
  PROVE  IInv'
<1>1. me.pc = "format" /\ current > 0 /\ Context(current) = me.frame
  BY Formatting DEF Format, At
<1>2. PICK c \in Char : c = Source[me.pos]
  BY <1>1, Formatting
<1>. DEFINE k == [me EXCEPT !.pc = "putc", !.ch = c, !.pos = @ + 1]
<1>3. Become(k)
  BY <1>2 DEF Format
<1>4. /\ k \in Record /\ k.pc = "putc" /\ k.ch = c /\ k.pos = me.pos + 1
      /\ k.page = me.page
      /\ k.stack = me.stack /\ k.state = me.state /\ k.frame = me.frame
      /\ k.fmt = me.fmt /\ k.back = me.back
  <2>1. me \in Record /\ me.pos + 1 \in Int /\ "putc" \in Label
    BY Running DEF Record, Label
  <2>. QED
    BY <2>1 DEF Record
<1>. HIDE DEF k
<1>5. Step(k, k.frame) /\ Quiet
  BY <1>1, <1>3, <1>4, Ends, KernelStep DEF Format
<1>6. LineKept(k, k.frame)
  BY <1>1, <1>4, Running DEF LineKept, Cloning
<1>7. CASE current = 1 /\ me.back = "allocate"
  <2>1. Early(me) /\ Early(k)
    BY <1>1, <1>4, <1>7 DEF Early
  <2>2. me.pos \in 1 .. 2 /\ c = Greeting[me.pos]
    BY <1>1, <1>2, <1>7, Formatting
  <2>3. RoleKept(k, k.frame)
    BY <1>1, <1>4, <1>7, <2>1, IsEarly, Running DEF RoleKept, Process
  <2>4. PageKept(k, k.frame)
    BY <1>1, <1>4, <1>5, <1>7, <2>1, IsEarly DEF PageKept, Quiet, Meant, Cloning
  <2>5. TextKept(k, k.frame)
    <3>1. Spoken(said[1], Greeting, me.pos - 1) /\ me.fmt = NoPage
      BY <1>1, <1>7, <2>1, Running DEF Greets
    <3>2. ~Writing(k) /\ me.stack = NoPage
      BY <1>4, <1>7, <2>1, IsEarly DEF Writing
    <3>. QED
      BY <1>4, <1>5, <1>7, <2>1, <2>2, <3>1, <3>2 DEF TextKept, Quiet, Greets
  <2>. QED
    BY <1>5, <1>6, <2>3, <2>4, <2>5, StepKeeps
<1>8. CASE current = 1 /\ me.back # "allocate"
  <2>1. /\ ~Early(me) /\ ~Early(k) /\ Writing(me) /\ Writing(k) /\ Process(me, me.frame)
        /\ Greets(me, me.frame, said[1])
    BY <1>1, <1>4, <1>8, Formatting, Running DEF Early, Writing
  <2>2. me.pos \in 1 .. 2 /\ c = Greeting[me.pos + 2]
    BY <1>1, <1>2, <1>8, Formatting
  <2>3. RoleKept(k, k.frame)
    BY <1>1, <1>4, <1>8, <2>1, Ends DEF RoleKept, Process, Early, Writing, Mallocing,
       Cloning, Leaving, Outside
  <2>4. PageKept(k, k.frame)
    BY <1>1, <1>4, <1>5, <1>8, <2>1, Ends
       DEF PageKept, Quiet, Meant, Cloning, Outside, Process
  <2>5. TextKept(k, k.frame)
    <3>1. Spoken(said[1], Greeting, me.pos + 1) /\ me.frame.line = 3
      BY <1>1, <2>1 DEF Greets, Process
    <3>2. Greets(k, k.frame, said[1])
      BY <1>4, <2>1, <2>2, <3>1 DEF Greets
    <3>3. me.stack # NoPage => Buffered(k, k.frame, buf[k.stack])
      BY <1>1, <1>4, <1>8, <2>1, <3>1, Running DEF Buffered, Leaving
    <3>. QED
      BY <1>4, <1>5, <1>8, <3>2, <3>3 DEF TextKept, Quiet
  <2>. QED
    BY <1>5, <1>6, <2>3, <2>4, <2>5, StepKeeps
<1>9. CASE current > 1
  <2>1. /\ Writing(me) /\ Writing(k) /\ Thread(me, me.frame)
        /\ Tells(me, me.frame, said[current], buf[me.stack])
        /\ me.pos \in 1 .. 2 /\ c = buf[me.stack][me.pos]
    BY <1>1, <1>2, <1>4, <1>9, Formatting, Running DEF Writing
  <2>2. me.pos = 1
    BY <1>2, <2>1 DEF Tells, Thread
  <2>3. RoleKept(k, k.frame)
    BY <1>1, <1>4, <1>9, <2>1 DEF RoleKept, Thread, Writing
  <2>4. PageKept(k, k.frame)
    BY <1>1, <1>4, <1>5, <1>9 DEF PageKept, Quiet
  <2>5. TextKept(k, k.frame)
    BY <1>1, <1>2, <1>4, <1>5, <1>9, <2>1, <2>2 DEF TextKept, Quiet, Tells, Thread
  <2>. QED
    BY <1>5, <1>6, <2>3, <2>4, <2>5, StepKeeps
<1>. QED
  BY <1>1, <1>7, <1>8, <1>9, Running

LEMMA FormatKeeps == ASSUME IInv, Format PROVE IInv'
BY FormatEnds, FormatGoes

(* What TextOf is, and one character more of it.                           *)
LEMMA SpokenMore ==
  ASSUME NEW s \in Seq(Char), NEW text, NEW n \in Nat, Spoken(s, text, n),
         NEW c \in Char, c = text[n + 1]
  PROVE  Append(s, c) \in Seq(Char) /\ Spoken(Append(s, c), text, n + 1)
BY AppendProperties DEF Spoken

LEMMA TextOfThread ==
  ASSUME NEW t \in Tasks, t > 1, NEW l \in {4, 6}, task[t].frame.line = l
  PROVE  /\ TextOf(t) \in Seq(Char) /\ Len(TextOf(t)) = Length(l)
         /\ \A j \in 1 .. Length(l) : TextOf(t)[j] = Array(l)[j]
<1>1. TextOf(t) = SubSeq(Array(l), 1, Min({Turns, Len(Array(l))}))
  <2>1. t # 1
    OBVIOUS
  <2>2. TextOf(t) = SubSeq(Array(task[t].frame.line), 1,
                           Min({Turns, Len(Array(task[t].frame.line))}))
    BY <2>1 DEF TextOf
  <2>. QED
    BY <2>2
<1>2. Len(Array(4)) = 6 /\ Len(Array(6)) = 4
  BY Arrays
<1>3. Min({5, 6}) = 5 /\ Min({5, 4}) = 4
  BY DEF Min
<1>4. Min({Turns, Len(Array(l))}) = Length(l)
  BY <1>2, <1>3 DEF Turns, Length
<1>5. \A j \in 1 .. Length(l) : Array(l)[j] \in Char
  BY Arrays DEF Length, Char
<1>6. Length(l) \in {4, 5}
  BY DEF Length
<1>7. PICK n \in Int : n = Length(l)
  BY <1>6
<1>8. TextOf(t) = SubSeq(Array(l), 1, n)
  BY <1>1, <1>4, <1>7
<1>9. /\ SubSeq(Array(l), 1, n) \in Seq(Char) /\ Len(SubSeq(Array(l), 1, n)) = n
      /\ \A j \in 1 .. n : SubSeq(Array(l), 1, n)[j] = Array(l)[j]
  BY <1>5, <1>6, <1>7, SubSeqProperties
<1>. QED
  BY <1>7, <1>8, <1>9

LEMMA PutcKeeps == ASSUME IInv, Putc PROVE IInv'
<1>1. me.pc = "putc" /\ current > 0 /\ Context(current) = me.frame /\ current \in Tasks
  BY Shares, Running DEF Putc, At
<1>2. PICK s : s = IF current > 1 /\ said[current] = TextOf(current) THEN <<>>
                   ELSE said[current]
  OBVIOUS
<1>3. s \in Seq(Char) /\ me.ch \in Char
  <2>1. said[current] \in Seq(Char) /\ <<>> \in Seq(Char)
    BY <1>1 DEF IInv, TypeOK
  <2>2. me.ch \in Char
    BY Running DEF Record
  <2>. QED
    BY <1>2, <2>1, <2>2
<1>4. /\ said' \in [Tasks -> Seq(Char)]
      /\ said'[current] = Append(s, me.ch)
      /\ \A t \in Tasks : t # current => said'[t] = said[t]
  <2>1. said' = [said EXCEPT ![current] = Append(s, me.ch)]
    BY <1>2 DEF Putc
  <2>2. Append(s, me.ch) \in Seq(Char)
    BY <1>3, AppendProperties
  <2>. QED
    BY <1>1, <2>1, <2>2 DEF IInv, TypeOK
<1>0. PICK place \in Label, nul \in Char : place = "format" /\ nul = Nul
  BY DEF Label, Char, Nul
<1>. DEFINE k == [me EXCEPT !.pc = place, !.ch = nul]
<1>5. Become(k)
  BY <1>0 DEF Putc
<1>6. /\ k \in Record /\ k.pc = "format" /\ k.pos = me.pos /\ k.page = me.page
      /\ k.stack = me.stack /\ k.state = me.state /\ k.frame = me.frame
      /\ k.fmt = me.fmt /\ k.back = me.back
  BY <1>0, Running DEF Record
<1>. HIDE DEF k
<1>7. Step(k, k.frame)
  BY <1>1, <1>4, <1>5, <1>6, Ends DEF Putc, Step, IInv, TypeOK
<1>8. LineKept(k, k.frame)
  BY <1>1, <1>6, Running DEF LineKept, Cloning
<1>9. UNCHANGED pages /\ buf' = buf
  BY DEF Putc
<1>10. CASE current = 1 /\ me.back = "allocate"
  <2>1. Early(me) /\ Early(k) /\ me.stack = NoPage /\ ~Writing(k)
    BY <1>1, <1>6, <1>10, IsEarly DEF Early, Writing
  <2>2. /\ me.pos \in 2 .. 3 /\ Spoken(said[1], Greeting, me.pos - 2)
        /\ me.ch = Greeting[me.pos - 1] /\ me.fmt = NoPage
    BY <1>1, <1>10, <2>1, Running DEF Greets
  <2>3. Spoken(said'[1], Greeting, me.pos - 1)
    <3>1. PICK n \in Nat : n = me.pos - 2
      BY <2>2
    <3>2. s = said[1] /\ me.ch = Greeting[n + 1] /\ n + 1 = me.pos - 1
      BY <1>2, <1>10, <2>2, <3>1
    <3>3. Spoken(Append(s, me.ch), Greeting, n + 1)
      BY <1>3, <2>2, <3>1, <3>2, SpokenMore
    <3>. QED
      BY <1>4, <1>10, <3>2, <3>3
  <2>4. RoleKept(k, k.frame)
    BY <1>1, <1>6, <1>10, <2>1, IsEarly, Running DEF RoleKept, Process
  <2>5. PageKept(k, k.frame)
    BY <1>1, <1>6, <1>9, <1>10, <2>1, IsEarly DEF PageKept, Meant, Cloning
  <2>6. TextKept(k, k.frame)
    BY <1>6, <1>9, <1>10, <2>1, <2>2, <2>3 DEF TextKept, Greets
  <2>. QED
    BY <1>7, <1>8, <2>4, <2>5, <2>6, StepKeeps
<1>11. CASE current = 1 /\ me.back # "allocate"
  <2>1. /\ ~Early(me) /\ ~Early(k) /\ Writing(me) /\ Writing(k) /\ Process(me, me.frame)
        /\ Greets(me, me.frame, said[1])
    BY <1>1, <1>6, <1>11, Running, Ends
       DEF Process, Early, Writing, Mallocing, Cloning, Leaving, Outside
  <2>2. /\ me.pos \in 2 .. 3 /\ Spoken(said[1], Greeting, me.pos)
        /\ me.ch = Greeting[me.pos + 1] /\ me.frame.line = 3
    BY <1>1, <2>1 DEF Greets, Process
  <2>3. Spoken(said'[1], Greeting, me.pos + 1)
    <3>1. s = said[1] /\ me.pos \in Nat
      BY <1>2, <1>11, <2>2
    <3>2. Spoken(Append(s, me.ch), Greeting, me.pos + 1)
      BY <1>3, <2>2, <3>1, SpokenMore
    <3>. QED
      BY <1>4, <1>11, <3>2
  <2>4. RoleKept(k, k.frame)
    BY <1>1, <1>6, <1>11, <2>1, Ends DEF RoleKept, Process, Early, Writing, Mallocing,
       Cloning, Leaving, Outside
  <2>5. PageKept(k, k.frame)
    BY <1>1, <1>6, <1>9, <1>11, <2>1, Ends
       DEF PageKept, Meant, Cloning, Outside, Process
  <2>6. Greets(k, k.frame, said'[1])
    BY <1>6, <2>1, <2>2, <2>3 DEF Greets
  <2>7. me.stack # NoPage => Buffered(k, k.frame, buf[k.stack])
    BY <1>1, <1>6, <1>11, <2>1, <2>2, Running DEF Buffered, Leaving
  <2>8. TextKept(k, k.frame)
    BY <1>6, <1>9, <1>11, <2>6, <2>7 DEF TextKept
  <2>. QED
    BY <1>7, <1>8, <2>4, <2>5, <2>8, StepKeeps
<1>12. CASE current > 1
  <2>1. /\ Writing(me) /\ Writing(k) /\ Thread(me, me.frame)
        /\ Tells(me, me.frame, said[current], buf[me.stack])
    BY <1>1, <1>6, <1>12, Running, Ends DEF Thread, Writing, Outside
  <2>2. PICK l \in {4, 6}, i \in 0 .. 4 : l = me.frame.line /\ i = me.frame.i
    BY <2>1 DEF Thread
  <2>3. /\ Told(said[current], l, Before(i)) /\ me.ch = ArrayAt(l, Before(i))
        /\ me.ch # Nul /\ me.pos = 2
    BY <1>1, <2>1, <2>2 DEF Tells
  <2>4. Before(i) \in 0 .. 4
    BY DEF Before
  <2>5. Before(i) < Length(l) /\ me.ch = Array(l)[Before(i) + 1]
    BY <2>3, <2>4, ArrayAtIs DEF Length
  <2>6. /\ TextOf(current) \in Seq(Char) /\ Len(TextOf(current)) = Length(l)
        /\ \A j \in 1 .. Length(l) : TextOf(current)[j] = Array(l)[j]
    BY <1>1, <1>12, <2>2, Running, TextOfThread
  <2>7. said[current] \in Seq(Char)
    BY <1>1 DEF IInv, TypeOK
  <2>8. Spoken(s, Array(l), Before(i))
    <3>1. CASE Before(i) = 0
      <4>1. said[current] = <<>> \/ Spoken(said[current], Array(l), Length(l))
        BY <2>3, <3>1 DEF Told
      <4>2. CASE said[current] = <<>>
        BY <1>2, <3>1, <4>2 DEF Spoken
      <4>3. CASE Spoken(said[current], Array(l), Length(l))
        <5>1. said[current] = TextOf(current)
          BY <2>6, <2>7, <4>3, SeqEqual DEF Spoken
        <5>2. s = <<>>
          BY <1>2, <1>12, <5>1
        <5>. QED
          BY <3>1, <5>2 DEF Spoken
      <4>. QED
        BY <4>1, <4>2, <4>3
    <3>2. CASE Before(i) > 0
      <4>1. Spoken(said[current], Array(l), Before(i))
        BY <2>3, <2>4, <3>2 DEF Told
      <4>2. said[current] # TextOf(current)
        BY <2>4, <2>5, <2>6, <4>1 DEF Spoken, Length
      <4>. QED
        BY <1>2, <4>1, <4>2
    <3>. QED
      BY <2>4, <3>1, <3>2
  <2>9. Spoken(said'[current], Array(l), Before(i) + 1)
    <3>1. Before(i) \in Nat
      BY <2>4
    <3>2. Spoken(Append(s, me.ch), Array(l), Before(i) + 1)
      BY <1>3, <2>5, <2>8, <3>1, SpokenMore
    <3>. QED
      BY <1>4, <3>2
  <2>10. Told(said'[current], l, i)
    BY <2>5, <2>9 DEF Told, Before, Length
  <2>11. RoleKept(k, k.frame)
    BY <1>1, <1>6, <1>12, <2>1 DEF RoleKept, Thread, Writing
  <2>12. PageKept(k, k.frame)
    BY <1>1, <1>6, <1>9, <1>12 DEF PageKept
  <2>13. TextKept(k, k.frame)
    BY <1>1, <1>6, <1>9, <1>12, <2>1, <2>2, <2>3, <2>10 DEF TextKept, Tells, Thread
  <2>. QED
    BY <1>7, <1>8, <2>11, <2>12, <2>13, StepKeeps
<1>. QED
  BY <1>1, <1>10, <1>11, <1>12, Running

-----------------------------------------------------------------------------
(* Start-up.                                                               *)
LEMMA StartUpKeeps ==
  ASSUME IInv,
         UartSelector \/ UartInit \/ InitPrintf \/ IrqVectorInit \/ TimerInit
           \/ EnableInterruptController \/ EnableIrq
  PROVE  IInv'
<1>1. CASE UartSelector
  BY <1>1, GoesKeeps DEF UartSelector
<1>2. CASE UartInit
  <2>1. UNCHANGED <<nr_tasks, current, regs, pages, buf, said, shown>>
    BY <1>2 DEF UartInit
  <2>2. UNCHANGED task \/ Goes("uart_init")
    BY <1>2 DEF UartInit
  <2>. QED
    BY <2>1, <2>2, GoesKeeps, Stutter
<1>3. ASSUME NEW call, SetUp(call) PROVE IInv'
  BY <1>3, GoesKeeps DEF SetUp
<1>. QED
  BY <1>1, <1>2, <1>3
     DEF InitPrintf, IrqVectorInit, TimerInit, EnableInterruptController, EnableIrq

-----------------------------------------------------------------------------
(* get_free_page, and what is done with its page.                          *)
LEMMA MinIs ==
  ASSUME NEW S \in SUBSET Nat, S # {}
  PROVE  Min(S) \in S
<1>. DEFINE R == OpToRel(<, Nat)
<1>1. PICK x \in S : \A y \in S : <<y, x>> \notin R
  <2>1. IsWellFoundedOn(R, Nat)
    BY NatLessThanWellFounded
  <2>. HIDE DEF R
  <2>. QED
    BY <2>1, WFMin
<1>2. \A y \in S : ~(y < x)
  BY <1>1 DEF OpToRel
<1>3. \A y \in S : x =< y
  BY <1>2
<1>. QED
  BY <1>3 DEF Min

LEMMA SpareKept ==
  ASSUME TypeOK, NEW k, NEW r, Step(k, r), me.pc # "moved", used \subseteq used',
         NEW p, Spare(p)
  PROVE  Spare(p)'
<1>1. /\ task'[current] = k /\ \A t \in Tasks : t # current => task'[t] = task[t]
      /\ Created' = Created
  BY StepTypes
<1>2. \A t \in Tasks : task'[t].page = task[t].page /\ task'[t].stack = task[t].stack
  BY <1>1 DEF Step, me
<1>3. Created \subseteq Tasks
  BY DEF Created
<1>. QED
  BY <1>1, <1>2, <1>3 DEF Spare

(* A step of the task that has a page on its way.                          *)
MeantKept(k, r) ==
  current = 1 =>
    /\ \A p \in Meant(k, r) :
         \/ Spare(p)'
         \/ p = BadStack /\ Full' /\ (k.pc = "copy" => k.found = NoPage)
    /\ k.pc = "copy" => r.x0 # k.found

LEMMA TransitNow ==
  ASSUME TypeOK, NEW k, NEW r, Step(k, r), current \in {0, 1},
         current = 0 => nr_tasks = 1, Found(k)', MeantKept(k, r)
  PROVE  InTransit'
<1>1. /\ task'[current] = k
      /\ \A t \in Tasks : t = current => Context(t)' = r
  BY StepTypes
<1>2. nr_tasks' = nr_tasks
  BY DEF Step
<1>3. current \in Tasks /\ current < nr_tasks /\ nr_tasks \in 1 .. 4
  BY DEF TypeOK
<1>4. CASE current = 0
  <2>1. task'[0] = k /\ nr_tasks' = 1
    BY <1>1, <1>2, <1>4
  <2>. QED
    BY <2>1 DEF InTransit
<1>5. CASE current = 1
  <2>1. task'[1] = k /\ Context(1)' = r /\ nr_tasks' # 1
    BY <1>1, <1>2, <1>3, <1>5
  <2>. QED
    BY <1>5, <2>1 DEF InTransit, MeantKept
<1>. QED
  BY <1>4, <1>5

(* Who has page p for the task of record k and registers r, which no other *)
(* task can have.                                                          *)
Holds(k, r, p) ==
  \/ k.pc \in {"copy", "moved", "sys_malloc"} /\ k.found = p
  \/ current = 1 /\ p \in Meant(k, r)

LEMMA AccountsNow ==
  ASSUME TypeOK, Accounts, NEW k, NEW r, Step(k, r), me.pc # "moved",
         UNCHANGED refused, k.pc # "dead" \/ me.stack \notin used',
         \A p \in used' \cap used : Holds(me, Context(current), p) => Holds(k, r, p),
         \A p \in used' \ used : Holds(k, r, p)
  PROVE  Accounts'
<1>1. /\ task'[current] = k /\ \A t \in Tasks : t # current => task'[t] = task[t]
      /\ \A t \in Tasks : t = current => Context(t)' = r
      /\ Created' = Created
  BY StepTypes
<1>2. \A t \in Tasks : t # current => Context(t)' = Context(t)
  BY StepOthers
<1>3. \A t \in Tasks : task'[t].page = task[t].page /\ task'[t].stack = task[t].stack
  BY <1>1 DEF Step, me
<1>4. nr_tasks' = nr_tasks /\ current' = current /\ me = task[current]
  BY DEF Step, me
<1>5. Created \subseteq Tasks /\ current \in Created /\ (current = 1 => 1 < nr_tasks)
  BY DEF Created, TypeOK
<1>6. ASSUME NEW p, Holds(k, r, p) PROVE Owned(p)'
  BY <1>1, <1>4, <1>5, <1>6 DEF Holds, Owned
<1>7. ASSUME NEW p \in used', p \in used, Owned(p) PROVE Owned(p)'
  <2>1. CASE \E t \in Created : task[t].page = p
    BY <1>1, <1>3, <1>5, <2>1 DEF Owned
  <2>2. CASE \E t \in Created : task[t].pc # "dead" /\ task[t].stack = p
    <3>1. PICK t \in Created : task[t].pc # "dead" /\ task[t].stack = p
      BY <2>2
    <3>2. task'[t].pc # "dead" /\ task'[t].stack = p
      BY <1>1, <1>3, <1>4, <1>5, <1>7, <3>1
    <3>. QED
      BY <1>1, <3>2 DEF Owned
  <2>3. CASE \E t \in Created :
               task[t].pc \in {"copy", "moved", "sys_malloc"} /\ task[t].found = p
    <3>1. PICK t \in Created :
            task[t].pc \in {"copy", "moved", "sys_malloc"} /\ task[t].found = p
      BY <2>3
    <3>2. CASE t = current
      BY <1>4, <1>6, <1>7, <3>1, <3>2 DEF Holds
    <3>3. CASE t # current
      BY <1>1, <1>5, <3>1, <3>3 DEF Owned
    <3>. QED
      BY <3>2, <3>3
  <2>4. CASE 1 < nr_tasks /\ p \in Meant(task[1], Context(1))
    <3>1. CASE current = 1
      BY <1>4, <1>6, <1>7, <2>4, <3>1 DEF Holds
    <3>2. CASE current # 1
      BY <1>1, <1>2, <1>4, <2>4, <3>2 DEF Owned
    <3>. QED
      BY <3>1, <3>2
  <2>. QED
    BY <1>7, <2>1, <2>2, <2>3, <2>4 DEF Owned
<1>8. ASSUME refused' = 0, NEW p \in used' PROVE Owned(p)'
  BY <1>6, <1>7, <1>8 DEF Accounts
<1>. QED
  BY <1>8 DEF Accounts

LEMMA PagesKeep ==
  ASSUME IInv, NEW k, NEW r, Step(k, r), RoleKept(k, r), LineKept(k, r), TextKept(k, r),
         current \in {0, 1}, current = 0 => nr_tasks = 1,
         me.pc \notin {"moved", "dead"}, k.pc # "dead",
         used \subseteq used', used' \subseteq 1 .. paging, paging' = paging,
         refused' \in Nat, Found(k)', MeantKept(k, r), Accounts'
  PROVE  IInv'
<1>1. TypeOK'
  BY StepTypeOK DEF IInv
<1>. QED
  BY <1>1, RolesStep, ForksStep, OwnersStep, TransitNow, TextsStep DEF IInv

(* What the running task is doing at these places.                         *)
LEMMA Allocating ==
  ASSUME IInv, me.pc \in {"find", "take"}
  PROVE  /\ current \in {0, 1} /\ (current = 0 => nr_tasks = 1 /\ me.back = "copy")
         /\ me.back \in {"copy", "moved", "sys_malloc"}
         /\ Context(current) = me.frame
         /\ current = 1 /\ me.back = "moved" => Early(me)
         /\ current = 1 /\ me.back = "sys_malloc" => me.frame.at = "malloced"
         /\ current = 1 /\ me.back = "copy" =>
              me.frame.at = "wrapper" /\ me.frame.line \in {4, 6}
         /\ me.pc = "take" => me.found \in (1 .. paging) \ used
<1>1. current \in {0, 1}
  BY Allocates
<1>2. current = 0 => nr_tasks = 1 /\ me.back = "copy"
  BY Running, Starts DEF Booting, Cloning
<1>3. Context(current) = me.frame
  BY Running
<1>4. current = 1 => Process(me, me.frame)
  BY <1>3, Running
<1>5. me.back \in {"copy", "moved", "sys_malloc"}
  BY <1>1, <1>2, <1>4, Ends
     DEF Process, Early, Writing, Mallocing, Cloning, Leaving, Outside
<1>6. Found(me)
  BY <1>1, <1>2, Running DEF IInv, InTransit
<1>. QED
  BY <1>1, <1>2, <1>3, <1>4, <1>5, <1>6 DEF Process, Early, Mallocing, Cloning, Found

(* get_free_page's result is its caller's.                                 *)
LEMMA FoundNone ==
  ASSUME IInv, FindPage, (1 .. paging) \ used = {}
  PROVE  IInv'
<1>1. me.pc = "find" /\ Context(current) = me.frame
  BY Allocating DEF FindPage, At
<1>2. me \in Record /\ NoPage \in Int
  BY Running
<1>3. PICK k \in Record :
        /\ k = [me EXCEPT !.found = NoPage, !.pc = me.back]
        /\ k.found = NoPage /\ k.pc = me.back /\ k.page = me.page /\ k.stack = me.stack
        /\ k.state = me.state /\ k.frame = me.frame /\ k.back = me.back
        /\ k.local = me.local
  <2>1. PICK n \in Int : n = NoPage
    OBVIOUS
  <2>. DEFINE x == [me EXCEPT !.found = n, !.pc = me.back]
  <2>2. /\ x \in Record
        /\ x.found = n /\ x.pc = me.back /\ x.page = me.page /\ x.stack = me.stack
        /\ x.state = me.state /\ x.frame = me.frame /\ x.back = me.back
        /\ x.local = me.local
    BY <1>2 DEF Record
  <2>3. x = [me EXCEPT !.found = NoPage, !.pc = me.back]
    BY <2>1
  <2>. QED
    BY <2>1, <2>2, <2>3
<1>4. Become(k)
  BY <1>3 DEF FindPage
<1>5. Step(k, k.frame) /\ Quiet
  BY <1>1, <1>3, <1>4, Allocating, Ends, KernelStep DEF FindPage
<1>6. UNCHANGED pages /\ used' = used /\ paging' = paging /\ refused' = refused
  BY <1>5 DEF Quiet, pages
<1>7. RoleKept(k, k.frame)
  BY <1>1, <1>3, Allocating, Running, Ends
     DEF RoleKept, Booting, Process, Early, Writing, Mallocing, Cloning, Leaving,
         Outside
<1>8. LineKept(k, k.frame)
  BY <1>1, <1>3, Allocating, Running DEF LineKept, Cloning
<1>9. TextKept(k, k.frame)
  BY <1>1, <1>3, <1>5, Allocating, Running, Ends
     DEF TextKept, Quiet, Greets, Buffered, Early, Writing, Leaving
<1>10. Full'
  BY <1>6 DEF IInv, TypeOK, Full
<1>11. Found(k)'
  BY <1>1, <1>3, Allocating DEF Found
<1>12. /\ current = 1 => Meant(k, k.frame) =
           IF me.back = "copy" THEN {me.frame.x0}
           ELSE IF me.back = "sys_malloc" THEN {BadStack} ELSE {}
       /\ current = 1 => Meant(me, me.frame) =
           IF me.back = "copy" THEN {me.frame.x0} ELSE {}
  BY <1>1, <1>3, Allocating, IsEarly, Ends DEF Meant, Cloning, Outside
<1>13. MeantKept(k, k.frame)
  <2>1. CASE me.back = "copy"
    <3>1. PICK x : x = me.frame.x0
      OBVIOUS
    <3>2. current = 1 => \A p \in Meant(me, me.frame) : Spare(p) \/ p = BadStack
      BY <1>1, Running DEF IInv, InTransit
    <3>3. current = 1 => Spare(x) \/ x = BadStack
      BY <1>12, <2>1, <3>1, <3>2
    <3>4. Spare(x) => Spare(x)'
      BY <1>1, <1>3, <1>5, <1>6, SpareKept DEF IInv
    <3>5. Spare(x) => x # NoPage
      BY DEF Spare, IInv, TypeOK
    <3>6. current = 1 => Meant(k, k.frame) = {x}
      BY <1>12, <2>1, <3>1
    <3>. QED
      BY <1>3, <1>10, <3>1, <3>3, <3>4, <3>5, <3>6 DEF MeantKept
  <2>2. CASE me.back # "copy"
    BY <1>3, <1>10, <1>12, <2>2 DEF MeantKept
  <2>. QED
    BY <2>1, <2>2
<1>14. Accounts'
  <2>1. \A p : Holds(me, Context(current), p) => Holds(k, k.frame, p)
    BY <1>1, <1>3, <1>12, Allocating DEF Holds
  <2>. QED
    BY <1>1, <1>3, <1>5, <1>6, <2>1, Allocating, AccountsNow DEF IInv
<1>15. me.pc \notin {"moved", "dead"} /\ k.pc # "dead"
  BY <1>1, <1>3, Allocating
<1>16. used' \subseteq 1 .. paging /\ refused' \in Nat
  BY <1>6 DEF IInv, TypeOK
<1>17. current \in {0, 1} /\ (current = 0 => nr_tasks = 1)
  BY <1>1, Allocating
<1>. QED
  BY <1>5, <1>6, <1>7, <1>8, <1>9, <1>11, <1>13, <1>14, <1>15, <1>16, <1>17, PagesKeep

LEMMA FoundOne ==
  ASSUME IInv, FindPage, (1 .. paging) \ used # {}
  PROVE  IInv'
<1>1. me.pc = "find" /\ Context(current) = me.frame
  BY Allocating DEF FindPage, At
<1>2. PICK f \in Int : f = Min((1 .. paging) \ used) /\ f \in (1 .. paging) \ used
  <2>1. (1 .. paging) \ used \in SUBSET Nat
    BY DEF IInv, TypeOK
  <2>2. Min((1 .. paging) \ used) \in (1 .. paging) \ used
    BY <2>1, MinIs
  <2>. QED
    BY <2>1, <2>2
<1>3. me \in Record
  BY Running
<1>4. PICK k \in Record :
        /\ k = [me EXCEPT !.found = f, !.pc = "take"]
        /\ k.found = f /\ k.pc = "take" /\ k.page = me.page /\ k.stack = me.stack
        /\ k.state = me.state /\ k.frame = me.frame /\ k.back = me.back
        /\ k.local = me.local
  <2>1. PICK l \in Label : l = "take"
    BY DEF Label
  <2>. DEFINE x == [me EXCEPT !.found = f, !.pc = l]
  <2>2. /\ x \in Record
        /\ x.found = f /\ x.pc = l /\ x.page = me.page /\ x.stack = me.stack
        /\ x.state = me.state /\ x.frame = me.frame /\ x.back = me.back
        /\ x.local = me.local
    BY <1>3 DEF Record
  <2>. QED
    BY <2>1, <2>2
<1>5. Become(k)
  BY <1>2, <1>4 DEF FindPage
<1>6. Step(k, k.frame) /\ Quiet
  BY <1>1, <1>4, <1>5, Ends, KernelStep DEF FindPage
<1>7. UNCHANGED pages /\ used' = used /\ paging' = paging /\ refused' = refused
  BY <1>6 DEF Quiet, pages
<1>8. RoleKept(k, k.frame)
  BY <1>1, <1>4, Allocating, Running, Ends
     DEF RoleKept, Booting, Process, Early, Writing, Mallocing, Cloning, Leaving,
         Outside
<1>9. LineKept(k, k.frame)
  BY <1>1, <1>4, Allocating, Running DEF LineKept, Cloning
<1>10. TextKept(k, k.frame)
  BY <1>1, <1>4, <1>6, Allocating, Running, Ends
     DEF TextKept, Quiet, Greets, Buffered, Early, Writing, Leaving
<1>11. Found(k)'
  BY <1>2, <1>4, <1>7 DEF Found
<1>12. current = 1 => Meant(k, k.frame) = Meant(me, me.frame)
  BY <1>1, <1>4, Allocating, IsEarly, Ends DEF Meant, Cloning, Outside
<1>13. MeantKept(k, k.frame)
  <2>1. current = 1 =>
          \A p \in Meant(me, me.frame) : Spare(p) \/ (p = BadStack /\ Full)
    BY <1>1, Running DEF IInv, InTransit
  <2>2. Full => Full'
    BY <1>7 DEF Full
  <2>3. \A p : Spare(p) => Spare(p)'
    BY <1>1, <1>6, <1>7, SpareKept DEF IInv
  <2>. QED
    BY <1>4, <1>12, <2>1, <2>2, <2>3 DEF MeantKept
<1>14. Accounts'
  <2>1. \A p : Holds(me, Context(current), p) => Holds(k, k.frame, p)
    BY <1>1, <1>12 DEF Holds
  <2>. QED
    BY <1>1, <1>4, <1>6, <1>7, <2>1, AccountsNow DEF IInv
<1>15. used' \subseteq 1 .. paging /\ refused' \in Nat
  BY <1>7 DEF IInv, TypeOK
<1>16. current \in {0, 1} /\ (current = 0 => nr_tasks = 1)
  BY <1>1, Allocating
<1>17. me.pc \notin {"moved", "dead"} /\ k.pc # "dead"
  BY <1>1, <1>4
<1>. QED
  BY <1>6, <1>7, <1>8, <1>9, <1>10, <1>11, <1>13, <1>14, <1>15, <1>16, <1>17, PagesKeep

LEMMA FindPageKeeps == ASSUME IInv, FindPage PROVE IInv'
BY FoundNone, FoundOne

LEMMA TakePageKeeps == ASSUME IInv, TakePage PROVE IInv'
<1>1. me.pc = "take" /\ Context(current) = me.frame
  BY Allocating DEF TakePage, At
<1>2. /\ me.found \in (1 .. paging) \ used /\ current \in {0, 1}
      /\ (current = 0 => nr_tasks = 1)
  BY <1>1, Allocating
<1>3. PICK k \in Record :
        /\ Become(k) /\ k.pc = me.back /\ k.found = me.found
        /\ k.page = me.page /\ k.stack = me.stack /\ k.state = me.state
        /\ k.frame = me.frame /\ k.back = me.back /\ k.local = me.local
  <2>. DEFINE x == [me EXCEPT !.pc = me.back]
  <2>1. Become(x)
    BY DEF TakePage
  <2>2. /\ x \in Record /\ x.pc = me.back /\ x.found = me.found
        /\ x.page = me.page /\ x.stack = me.stack /\ x.state = me.state
        /\ x.frame = me.frame /\ x.back = me.back /\ x.local = me.local
    BY Running DEF Record
  <2>. QED
    BY <2>1, <2>2
<1>4. PICK f : f = me.found
  OBVIOUS
<1>5. used' = used \cup {f} /\ paging' = paging /\ refused' = refused
  BY <1>4 DEF TakePage, Taken
<1>6. said' = said /\ buf' = buf
  BY DEF TakePage
<1>7. k.pc \in {"copy", "moved", "sys_malloc"}
  BY <1>1, <1>3, Allocating
<1>8. Step(k, k.frame)
  BY <1>1, <1>3, <1>7, Ends DEF TakePage, Step, IInv, TypeOK
<1>9. RoleKept(k, k.frame)
  BY <1>1, <1>3, Allocating, Running, Ends
     DEF RoleKept, Booting, Process, Early, Writing, Mallocing, Cloning, Leaving,
         Outside
<1>10. LineKept(k, k.frame)
  BY <1>1, <1>3, Allocating, Running DEF LineKept, Cloning
<1>11. TextKept(k, k.frame)
  BY <1>1, <1>3, <1>6, Allocating, Running, Ends
     DEF TextKept, Greets, Buffered, Early, Writing, Leaving
<1>12. \A p : Spare(p) => Spare(p)'
  BY <1>1, <1>5, <1>8, SpareKept DEF IInv
<1>13. Spare(f)'
  <2>1. \A t \in Created : task[t].page # f /\ task[t].stack # f
    <3>1. task[0].page = NoPage /\ task[0].stack = NoPage
      BY DEF IInv, Roles, Booting
    <3>2. f \notin used /\ f \in Nat \ {0}
      BY <1>2, <1>4 DEF IInv, TypeOK
    <3>3. \A t \in Created \ {0} : task[t].page \in used
      BY DEF IInv, Owners
    <3>4. 1 < nr_tasks => task[1].stack \in used \cup {NoPage}
      BY <1>1, <1>2, Running DEF IInv, Owners
    <3>5. \A t \in Created : t = 0 \/ (t = 1 /\ 1 < nr_tasks) \/ t \in Threads
      BY DEF Created, Threads
    <3>6. \A t \in Threads : task[t].stack \in used
      BY DEF IInv, Owners
    <3>. QED
      BY <3>1, <3>2, <3>3, <3>4, <3>5, <3>6
  <2>2. Created' = Created /\ Created \subseteq Tasks
    BY <1>8 DEF Created, Step
  <2>3. \A t \in Tasks : task'[t].page = task[t].page /\ task'[t].stack = task[t].stack
    BY <1>1, <1>3, <1>8, StepTypes DEF IInv, me
  <2>. QED
    BY <1>5, <2>1, <2>2, <2>3 DEF Spare
<1>14. Found(k)'
  BY <1>3, <1>4, <1>7, <1>13 DEF Found
<1>15. /\ current = 1 => Meant(k, k.frame) =
           IF me.back = "copy" THEN {me.frame.x0}
           ELSE IF me.back = "sys_malloc" THEN {f} ELSE {}
       /\ current = 1 => Meant(me, me.frame) =
           IF me.back = "copy" THEN {me.frame.x0} ELSE {}
  <2>1. f # NoPage
    BY <1>2, <1>4 DEF IInv, TypeOK
  <2>. QED
    BY <1>1, <1>3, <1>4, <2>1, Allocating, IsEarly, Ends DEF Meant, Cloning, Outside
<1>16. MeantKept(k, k.frame)
  <2>1. CASE me.back = "copy"
    <3>1. PICK x : x = me.frame.x0
      OBVIOUS
    <3>2. current = 1 =>
            \A p \in Meant(me, me.frame) : Spare(p) \/ (p = BadStack /\ Full)
      BY <1>1, Running DEF IInv, InTransit
    <3>3. current = 1 => Spare(x)
      BY <1>2, <1>15, <2>1, <3>1, <3>2 DEF Full
    <3>4. Spare(x) => x # f
      BY <1>2, <1>4 DEF Spare
    <3>5. current = 1 => Meant(k, k.frame) = {x}
      BY <1>15, <2>1, <3>1
    <3>. QED
      BY <1>3, <1>4, <1>12, <3>1, <3>3, <3>4, <3>5 DEF MeantKept
  <2>2. CASE me.back # "copy"
    BY <1>3, <1>13, <1>15, <2>2 DEF MeantKept
  <2>. QED
    BY <2>1, <2>2
<1>17. Accounts'
  <2>1. \A p : Holds(me, Context(current), p) => Holds(k, k.frame, p)
    BY <1>1, <1>3, <1>15, Allocating DEF Holds
  <2>2. \A p \in used' \ used : Holds(k, k.frame, p)
    BY <1>3, <1>4, <1>5, <1>7 DEF Holds
  <2>3. refused' = refused /\ me.pc # "moved" /\ k.pc # "dead"
    BY <1>1, <1>5, <1>7
  <2>. QED
    BY <1>8, <2>1, <2>2, <2>3, AccountsNow DEF IInv
<1>18. used' \subseteq 1 .. paging /\ refused' \in Nat /\ used \subseteq used'
  BY <1>2, <1>4, <1>5 DEF IInv, TypeOK
<1>19. me.pc \notin {"moved", "dead"} /\ k.pc # "dead"
  BY <1>1, <1>7
<1>. QED
  BY <1>2, <1>5, <1>8, <1>9, <1>10, <1>11, <1>14, <1>16, <1>17, <1>18, <1>19, PagesKeep

LEMMA SysMallocDoneKeeps == ASSUME IInv, SysMallocDone PROVE IInv'
<1>1. me.pc = "sys_malloc" /\ current = 1 /\ Context(1) = me.frame
  BY First, Running DEF SysMallocDone, At
<1>2. Process(me, me.frame) /\ Greets(me, me.frame, said[1]) /\ me \in Record
  BY <1>1, Running
<1>3. me.frame.at = "malloced" /\ ~Early(me)
  BY <1>1, <1>2 DEF Process, Mallocing, Early
<1>4. PICK x \in Int : x = IF me.found = NoPage THEN BadStack ELSE me.found
  BY <1>2 DEF Record
<1>5. PICK k \in Record :
        /\ Become(k) /\ k.pc = "ret_from_syscall" /\ k.x0 = x
        /\ k.page = me.page /\ k.stack = me.stack /\ k.state = me.state
        /\ k.frame = me.frame
  <2>1. PICK l \in Label : l = "ret_from_syscall"
    BY DEF Label
  <2>. DEFINE y == [me EXCEPT !.x0 = x, !.pc = l]
  <2>2. Become(y)
    BY <1>4, <2>1 DEF SysMallocDone, MallocResult
  <2>3. /\ y \in Record /\ y.pc = l /\ y.x0 = x
        /\ y.page = me.page /\ y.stack = me.stack /\ y.state = me.state
        /\ y.frame = me.frame
    BY <1>2 DEF Record
  <2>. QED
    BY <2>1, <2>2, <2>3
<1>6. Step(k, k.frame) /\ Quiet
  BY <1>1, <1>5, Ends, KernelStep DEF SysMallocDone
<1>7. UNCHANGED pages /\ used' = used /\ paging' = paging /\ refused' = refused
  BY <1>6 DEF Quiet, pages
<1>8. RoleKept(k, k.frame)
  BY <1>1, <1>2, <1>3, <1>5, Ends
     DEF RoleKept, Process, Early, Writing, Mallocing, Cloning, Leaving, Outside
<1>9. LineKept(k, k.frame)
  BY <1>1, <1>3, <1>5, Running DEF LineKept, Cloning
<1>10. TextKept(k, k.frame)
  BY <1>1, <1>2, <1>3, <1>5, <1>6, Running, Ends
     DEF TextKept, Quiet, Greets, Buffered, Process, Early, Writing, Mallocing, Leaving
<1>11. Found(k)'
  BY <1>5 DEF Found
<1>12. Meant(k, k.frame) = {x} /\ Meant(me, me.frame) = {x}
  BY <1>1, <1>3, <1>4, <1>5 DEF Meant
<1>13. MeantKept(k, k.frame)
  <2>1. \A p \in Meant(me, me.frame) : Spare(p) \/ (p = BadStack /\ Full)
    BY <1>1, Running DEF IInv, InTransit
  <2>2. Full => Full'
    BY <1>7 DEF Full
  <2>3. \A p : Spare(p) => Spare(p)'
    BY <1>1, <1>6, <1>7, SpareKept DEF IInv
  <2>. QED
    BY <1>5, <1>12, <2>1, <2>2, <2>3 DEF MeantKept
<1>14. Accounts'
  <2>1. \A p \in used : p # NoPage
    BY DEF IInv, TypeOK
  <2>2. \A p \in used : Holds(me, Context(current), p) => Holds(k, k.frame, p)
    BY <1>1, <1>4, <1>12, <2>1 DEF Holds
  <2>3. used' \ used = {} /\ used' \cap used \subseteq used /\ me.pc # "moved"
        /\ k.pc # "dead"
    BY <1>1, <1>5, <1>7
  <2>. QED
    BY <1>6, <1>7, <2>2, <2>3, AccountsNow DEF IInv
<1>15. used' \subseteq 1 .. paging /\ refused' \in Nat
  BY <1>7 DEF IInv, TypeOK
<1>. QED
  BY <1>1, <1>5, <1>6, <1>7, <1>8, <1>9, <1>10, <1>11, <1>13, <1>14, <1>15, PagesKeep

(* copy_process.                                                           *)
LEMMA Copying ==
  ASSUME IInv, me.pc = "copy"
  PROVE  /\ current \in {0, 1} /\ Context(current) = me.frame
         /\ current = 0 => nr_tasks = 1 /\ Booting(me)
         /\ current = 1 =>
              /\ Process(me, me.frame) /\ Greets(me, me.frame, said[1]) /\ ~Early(me)
              /\ me.frame.at = "wrapper" /\ me.frame.line \in {4, 6} /\ me.frame.i = 0
              /\ Meant(me, me.frame) = {me.frame.x0}
              /\ Spare(me.frame.x0) \/ (me.frame.x0 = BadStack /\ me.found = NoPage)
              /\ me.frame.x0 # me.found
         /\ me.found = NoPage \/ Spare(me.found)
<1>1. current \in {0, 1} /\ Context(current) = me.frame
  BY Allocates, Running
<1>2. current = 0 => nr_tasks = 1 /\ Booting(me)
  BY Running
<1>3. current = 1 =>
        /\ Process(me, me.frame) /\ Greets(me, me.frame, said[1]) /\ ~Early(me)
        /\ me.frame.at = "wrapper" /\ me.frame.line \in {4, 6} /\ me.frame.i = 0
  BY <1>1, Running DEF Process, Early, Cloning
<1>4. current = 1 => Meant(me, me.frame) = {me.frame.x0}
  BY <1>3, Ends DEF Meant, Cloning, Outside
<1>5. Found(me)
  BY <1>1, <1>2, Running DEF IInv, InTransit
<1>6. current = 1 =>
        /\ \A p \in Meant(me, me.frame) :
             Spare(p) \/ (p = BadStack /\ me.found = NoPage)
        /\ me.frame.x0 # me.found
  BY <1>1, Running DEF IInv, InTransit
<1>. QED
  BY <1>1, <1>2, <1>3, <1>4, <1>5, <1>6 DEF Found

LEMMA CopyFailKeeps == ASSUME IInv, CopyFail PROVE IInv'
<1>1. me.pc = "copy" /\ me.found = NoPage
  BY DEF CopyFail, At
<1>2. current \in {0, 1} /\ me \in Record /\ Context(current) = me.frame
  BY <1>1, Copying, Running
<1>3. PICK l \in Label : l = CopyReturn
  BY DEF CopyReturn, Label
<1>4. PICK k \in Record :
        /\ Become(k) /\ k.pc = l /\ k.x0 = 1
        /\ k.page = me.page /\ k.stack = me.stack /\ k.state = me.state
        /\ k.frame = me.frame
  <2>1. PICK n \in Int : n = 1
    OBVIOUS
  <2>. DEFINE y == [me EXCEPT !.x0 = n, !.pc = l]
  <2>2. Become(y)
    BY <1>3, <2>1 DEF CopyFail
  <2>3. /\ y \in Record /\ y.pc = l /\ y.x0 = n
        /\ y.page = me.page /\ y.stack = me.stack /\ y.state = me.state
        /\ y.frame = me.frame
    BY <1>2 DEF Record
  <2>. QED
    BY <2>1, <2>2, <2>3
<1>5. k.pc = IF current = 0 THEN "idle" ELSE "ret_from_syscall"
  BY <1>3, <1>4 DEF CopyReturn
<1>6. said' = said /\ buf' = buf /\ used' = used /\ paging' = paging
      /\ refused' = refused + 1
  BY DEF CopyFail
<1>7. Step(k, k.frame)
  BY <1>1, <1>4, <1>5, <1>6, Ends DEF CopyFail, Step, IInv, TypeOK
<1>8. RoleKept(k, k.frame)
  BY <1>1, <1>2, <1>4, <1>5, Copying, Ends
     DEF RoleKept, Booting, Process, Early, Writing, Mallocing, Cloning, Leaving,
         Outside
<1>9. LineKept(k, k.frame)
  BY <1>1, <1>2, <1>4, <1>5, Running DEF LineKept, Cloning
<1>10. TextKept(k, k.frame)
  BY <1>1, <1>2, <1>4, <1>5, <1>6, Copying, Ends
     DEF TextKept, Greets, Buffered, Early, Writing, Leaving
<1>11. Found(k)'
  BY <1>5 DEF Found
<1>12. MeantKept(k, k.frame)
  BY <1>1, <1>4, <1>5, Copying DEF MeantKept, Meant, Cloning, Outside
<1>13. refused' \in Nat /\ refused' # 0 /\ used' \subseteq 1 .. paging
  BY <1>6 DEF IInv, TypeOK
<1>14. Accounts'
  BY <1>13 DEF Accounts
<1>15. /\ me.pc \notin {"moved", "dead"} /\ k.pc # "dead" /\ used \subseteq used'
       /\ (current = 0 => nr_tasks = 1)
  BY <1>1, <1>5, <1>6, Copying
<1>. QED
  BY <1>2, <1>6, <1>7, <1>8, <1>9, <1>10, <1>11, <1>12, <1>13, <1>14, <1>15, PagesKeep

(* exit_process and move_to_user_mode: the stack changes hands.            *)
LEMMA FreeStackKeeps == ASSUME IInv, FreeStack PROVE IInv'
<1>1. me.pc = "free" /\ current = 1 /\ Context(1) = me.frame
  BY First, Running DEF FreeStack, At
<1>2. /\ Process(me, me.frame) /\ Greets(me, me.frame, said[1]) /\ me \in Record
      /\ ~Early(me) /\ me.frame.at = "program" /\ me.frame.line = 7
      /\ me.state = "zombie" /\ 1 < nr_tasks /\ me = task[1]
  <2>1. Process(me, me.frame) /\ Greets(me, me.frame, said[1]) /\ me \in Record
    BY <1>1, Running
  <2>. QED
    BY <1>1, <2>1, Running DEF Process, Early, Leaving, Record
<1>3. PICK k \in Record :
        /\ Become(k) /\ k.pc = "dead" /\ k.page = me.page /\ k.stack = me.stack
        /\ k.state = me.state /\ k.frame = me.frame
  <2>1. PICK l \in Label : l = "dead"
    BY DEF Label
  <2>2. PICK n \in Int : n = me.preempt - 1
    BY <1>2 DEF Record
  <2>. DEFINE y == [me EXCEPT !.preempt = n, !.pc = l]
  <2>3. Become(y)
    <3>1. [preempt_enable(me) EXCEPT !.pc = "dead"] = y
      BY <1>2, <2>1, <2>2 DEF preempt_enable, Record
    <3>. QED
      BY <3>1 DEF FreeStack
  <2>4. /\ y \in Record /\ y.pc = l /\ y.page = me.page /\ y.stack = me.stack
        /\ y.state = me.state /\ y.frame = me.frame
    BY <1>2 DEF Record
  <2>. QED
    BY <2>1, <2>3, <2>4
<1>4. /\ said' = said /\ buf' = buf /\ used' = used \ {me.stack} /\ paging' = paging
      /\ refused' = refused
  BY DEF FreeStack, Freed
<1>5. Step(k, k.frame)
  BY <1>1, <1>3, <1>4, Ends DEF FreeStack, Step, IInv, TypeOK
<1>6. RoleKept(k, k.frame)
  BY <1>1, <1>2, <1>3, Ends
     DEF RoleKept, Process, Early, Writing, Mallocing, Cloning, Leaving, Outside
<1>7. LineKept(k, k.frame)
  BY <1>1, <1>2, <1>3, Running DEF LineKept, Cloning
<1>8. TextKept(k, k.frame)
  BY <1>1, <1>2, <1>3, <1>4, Ends DEF TextKept, Greets, Early, Writing, Leaving
<1>9. Meant(k, k.frame) = {} /\ Meant(me, me.frame) = {}
  BY <1>1, <1>2, <1>3, Ends DEF Meant, Cloning, Outside
<1>10. InTransit'
  BY <1>1, <1>3, <1>5, <1>9, TransitNow DEF IInv, Found, MeantKept
<1>11. Accounts'
  <2>1. \A p : Holds(me, Context(current), p) => Holds(k, k.frame, p)
    BY <1>1, <1>9 DEF Holds
  <2>2. me.stack \notin used' /\ used' \ used = {} /\ refused' = refused
    BY <1>4
  <2>. QED
    BY <1>1, <1>5, <2>1, <2>2, AccountsNow DEF IInv
<1>12. TypeOK'
  <2>1. used' \subseteq 1 .. paging /\ refused' \in Nat
    BY <1>4 DEF IInv, TypeOK
  <2>. QED
    BY <1>4, <1>5, <2>1, StepTypeOK DEF IInv
<1>13. Owners'
  <2>1. /\ task'[current] = k /\ \A t \in Tasks : t # current => task'[t] = task[t]
        /\ Threads' = Threads /\ Created' = Created /\ nr_tasks' = nr_tasks
    BY <1>5, StepTypes DEF IInv, Step
  <2>2. \A t \in Tasks : task'[t].page = task[t].page /\ task'[t].stack = task[t].stack
    BY <1>3, <2>1 DEF me
  <2>3. /\ Threads \subseteq Created /\ Created \subseteq Tasks /\ 1 \in Created
        /\ 1 \notin Threads
    BY <1>2 DEF Threads, Created
  <2>4. NoPage \notin used
    BY DEF IInv, TypeOK
  <2>5. \A t \in Created \ {0} : task[t].page \in used /\ task[t].page # me.stack
    BY <1>2, <2>3, <2>4 DEF IInv, Owners
  <2>6. \A t \in Threads : task[t].stack \in used /\ task[t].stack # me.stack
    BY <1>2, <2>3, <2>4 DEF IInv, Owners
  <2>7. task'[1].pc = "dead" /\ task'[1].stack # BadStack
    BY <1>1, <1>2, <1>3, <2>1 DEF IInv, Owners
  <2>8. \A t \in Threads' : task'[t].stack \in used'
    BY <1>4, <2>1, <2>2, <2>3, <2>6
  <2>9. \A t \in Created' \ {0} : task'[t].page \in used'
    BY <1>4, <2>1, <2>2, <2>3, <2>5
  <2>. QED
    BY <2>1, <2>2, <2>3, <2>7, <2>8, <2>9 DEF IInv, Owners
<1>. QED
  BY <1>5, <1>6, <1>7, <1>8, <1>10, <1>11, <1>12, <1>13,
     RolesStep, ForksStep, TextsStep DEF IInv

LEMMA MoveToUserModeKeeps == ASSUME IInv, MoveToUserMode PROVE IInv'
<1>1. /\ me.pc = "moved" /\ current = 1 /\ Context(1) = me.frame /\ 1 < nr_tasks
      /\ me = task[1] /\ me \in Record /\ Early(me) /\ me.stack = NoPage
      /\ me.frame = ZeroRegs
  <2>1. me.pc = "moved" /\ current = 1
    BY First DEF MoveToUserMode, At
  <2>2. Early(me)
    BY <2>1 DEF Early
  <2>. QED
    BY <2>1, <2>2, IsEarly, Running
<1>2. /\ Greets(me, me.frame, said[1]) /\ me.state = "running"
      /\ Spoken(said[1], Greeting, 2)
  <2>1. Greets(me, me.frame, said[1]) /\ Process(me, me.frame)
    BY <1>1, Running
  <2>2. me.state = "running"
    BY <1>1, <2>1 DEF Process, Record
  <2>3. Spoken(said[1], Greeting, 2)
    BY <1>1, <2>1 DEF Greets
  <2>. QED
    BY <2>1, <2>2, <2>3
<1>3. PICK f \in Int : f = me.found
  BY <1>1 DEF Record
<1>4. f = NoPage \/ Spare(f)
  BY <1>1, <1>3 DEF IInv, InTransit, Found
<1>5. PICK z \in Regs : /\ z = [ZeroRegs EXCEPT !.sp = f, !.line = 1, !.at = "program"]
                        /\ z.sp = f /\ z.line = 1 /\ z.at = "program" /\ z.i = 0
  <2>1. ZeroRegs \in Regs /\ ZeroRegs.i = 0
    BY ZeroRegsType DEF ZeroRegs
  <2>2. PICK a \in Place, n \in Int : a = "program" /\ n = 1
    BY DEF Place
  <2>. DEFINE y == [ZeroRegs EXCEPT !.sp = f, !.line = n, !.at = a]
  <2>3. y \in Regs /\ y.sp = f /\ y.line = n /\ y.at = a /\ y.i = ZeroRegs.i
    BY <2>1 DEF Regs
  <2>. QED
    BY <2>1, <2>2, <2>3
<1>6. PICK k \in Record :
        /\ Become(k) /\ k.pc = "ret_to_user" /\ k.page = me.page /\ k.stack = f
        /\ k.state = me.state /\ k.frame = z
  <2>1. PICK l \in Label : l = "ret_to_user"
    BY DEF Label
  <2>. DEFINE y == [me EXCEPT !.frame = z, !.stack = f, !.pc = l]
  <2>2. Become(y)
    <3>1. (IF me.found = NoPage THEN me.stack ELSE me.found) = f
      BY <1>1, <1>3
    <3>2. [me EXCEPT !.frame = [ZeroRegs EXCEPT !.sp = me.found, !.line = 1,
                                                !.at = "program"],
                     !.stack = IF me.found = NoPage THEN @ ELSE me.found,
                     !.pc = "ret_to_user"] = y
      BY <1>1, <1>3, <1>5, <2>1, <3>1 DEF Record
    <3>. QED
      BY <3>2 DEF MoveToUserMode
  <2>3. /\ y \in Record /\ y.pc = l /\ y.page = me.page /\ y.stack = f
        /\ y.state = me.state /\ y.frame = z
    BY <1>1 DEF Record
  <2>. QED
    BY <2>1, <2>2, <2>3
<1>7. /\ said' = said /\ buf' = buf /\ used' = used /\ paging' = paging
      /\ refused' = refused
  BY DEF MoveToUserMode, mem, pages
<1>8. Step(k, z)
  BY <1>1, <1>6, <1>7, Ends DEF MoveToUserMode, mem, Step, IInv, TypeOK
<1>9. RoleKept(k, z)
  BY <1>1, <1>2, <1>5, <1>6, Ends
     DEF RoleKept, Process, Early, Writing, Mallocing, Cloning, Leaving, Outside
<1>10. LineKept(k, z)
  BY <1>1, <1>5, <1>6 DEF LineKept, ZeroRegs
<1>11. TextKept(k, z)
  BY <1>1, <1>2, <1>5, <1>6, <1>7, Ends
     DEF TextKept, Greets, Buffered, Early, Writing, Leaving
<1>12. Meant(k, z) = {} /\ Meant(me, me.frame) = {}
  BY <1>1, <1>5, <1>6, Ends DEF Meant, Cloning, Outside, ZeroRegs
<1>13. InTransit'
  BY <1>1, <1>6, <1>8, <1>12, TransitNow DEF IInv, Found, MeantKept
<1>14. TypeOK'
  <2>1. used' \subseteq 1 .. paging /\ refused' \in Nat
    BY <1>7 DEF IInv, TypeOK
  <2>. QED
    BY <1>7, <1>8, <2>1, StepTypeOK DEF IInv
<1>15. /\ task'[1] = k /\ \A t \in Tasks : t # 1 => task'[t] = task[t]
       /\ Threads' = Threads /\ Created' = Created /\ nr_tasks' = nr_tasks
       /\ Context(1)' = z
  <2>1. /\ task'[current] = k /\ \A t \in Tasks : t # current => task'[t] = task[t]
        /\ \A t \in Tasks : t = current => Context(t)' = z
        /\ Threads' = Threads /\ Created' = Created
    BY <1>8, StepTypes DEF IInv
  <2>2. nr_tasks' = nr_tasks
    BY <1>8 DEF Step
  <2>. QED
    BY <1>1, <2>1, <2>2
<1>16. /\ Threads \subseteq Created /\ Created \subseteq Tasks /\ 1 \in Created
       /\ 1 \notin Threads
  BY <1>1 DEF Threads, Created
<1>17. Owners'
  <2>1. \A t \in Tasks : task'[t].page = task[t].page
    BY <1>1, <1>6, <1>15
  <2>2. \A t \in Tasks : t # 1 => task'[t].stack = task[t].stack
    BY <1>15
  <2>3. task'[1].stack = f /\ task'[1].stack # BadStack
    BY <1>4, <1>6, <1>15 DEF Spare, IInv, TypeOK
  <2>4. f \in used \cup {NoPage}
    BY <1>4 DEF Spare
  <2>5. f # NoPage => \A t \in Created : task[t].page # f /\ task[t].stack # f
    BY <1>4 DEF Spare
  <2>6. \A t \in Threads' : task'[t].stack \in used'
    BY <1>7, <1>15, <1>16, <2>2 DEF IInv, Owners
  <2>7. \A t, u \in Created' : task'[t].stack = task'[u].stack /\ t # u =>
          task'[t].stack = NoPage
    BY <1>15, <1>16, <2>2, <2>3, <2>5 DEF IInv, Owners
  <2>8. \A t, u \in Created' : task'[t].stack = task'[u].page => task'[t].stack = NoPage
    BY <1>15, <1>16, <2>1, <2>2, <2>3, <2>5 DEF IInv, Owners
  <2>9. /\ \A t \in Created' \ {0} : task'[t].page \in used'
        /\ \A t, u \in Created' \ {0} : task'[t].page = task'[u].page => t = u
    BY <1>7, <1>15, <1>16, <2>1 DEF IInv, Owners
  <2>. QED
    BY <1>7, <2>3, <2>4, <2>6, <2>7, <2>8, <2>9 DEF Owners
<1>18. Accounts'
  <2>1. ASSUME NEW p \in used, Owned(p) PROVE Owned(p)'
    <3>1. p # NoPage
      BY DEF IInv, TypeOK
    <3>2. CASE \E t \in Created : task[t].page = p
      BY <1>6, <1>1, <1>15, <1>16, <3>2 DEF Owned
    <3>3. CASE \E t \in Created : task[t].pc # "dead" /\ task[t].stack = p
      BY <1>1, <1>15, <1>16, <3>1, <3>3 DEF Owned
    <3>4. CASE \E t \in Created :
                 task[t].pc \in {"copy", "moved", "sys_malloc"} /\ task[t].found = p
      <4>1. PICK t \in Created :
              task[t].pc \in {"copy", "moved", "sys_malloc"} /\ task[t].found = p
        BY <3>4
      <4>2. CASE t = 1
        <5>1. task'[1].stack = p /\ task'[1].pc # "dead"
          BY <1>1, <1>3, <1>6, <1>15, <4>1, <4>2
        <5>. QED
          BY <1>15, <1>16, <5>1 DEF Owned
      <4>3. CASE t # 1
        BY <1>15, <1>16, <4>1, <4>3 DEF Owned
      <4>. QED
        BY <4>2, <4>3
    <3>5. p \notin Meant(task[1], Context(1))
      BY <1>1, <1>12
    <3>. QED
      BY <2>1, <3>2, <3>3, <3>4, <3>5 DEF Owned
  <2>. QED
    BY <1>7, <2>1 DEF IInv, Accounts
<1>. QED
  BY <1>8, <1>9, <1>10, <1>11, <1>13, <1>14, <1>17, <1>18,
     RolesStep, ForksStep, TextsStep DEF IInv

(* The two ways through copy_process, to a task of record c.               *)
LEMMA CopyKeeps ==
  ASSUME IInv, me.pc = "copy", me.found # NoPage, nr_tasks \in 1 .. 3,
         NEW c \in Record, NEW k \in Record,
         task' = [task EXCEPT ![nr_tasks] = c, ![current] = k],
         nr_tasks' = nr_tasks + 1, UNCHANGED <<current, regs, mem>>,
         c.page = me.found, c.state = "running", c.pc = "tail",
         k.page = me.page, k.stack = me.stack, k.state = me.state, k.frame = me.frame,
         k.x0 = nr_tasks,
         current = 0 => k.pc = "idle" /\ c.stack = NoPage /\ c.frame = ZeroRegs,
         current = 1 => /\ k.pc = "ret_from_syscall" /\ c.stack = me.frame.x0
                        /\ c.frame.x0 = 0 /\ c.frame.sp = me.frame.x0
                        /\ c.frame.line = me.frame.line /\ c.frame.at = me.frame.at
                        /\ c.frame.i = me.frame.i
  PROVE  IInv'
<1>1. /\ current \in {0, 1} /\ Context(current) = me.frame /\ me = task[current]
      /\ current < nr_tasks /\ task \in [Tasks -> Record]
  BY Copying DEF me, IInv, TypeOK
<1>2. PICK n : n = nr_tasks
  OBVIOUS
<1>3. /\ n \in 1 .. 3 /\ n \in Tasks /\ nr_tasks' = n + 1 /\ current' = current
      /\ current # n
  BY <1>1, <1>2
<1>4. /\ task' \in [Tasks -> Record] /\ task'[n] = c /\ task'[current] = k
      /\ \A t \in Tasks : t # n /\ t # current => task'[t] = task[t]
  BY <1>1, <1>2, <1>3
<1>5. me' = k /\ k.pc # "user"
  BY <1>1, <1>3, <1>4 DEF me
<1>6. /\ \A t \in Tasks : Context(t)' = task'[t].frame
      /\ \A t \in Tasks : Context(t) = task[t].frame
  BY <1>1, <1>4, <1>5 DEF Context, At
<1>7. /\ \A t \in Tasks : t # n /\ t # current => Context(t)' = Context(t)
      /\ \A t \in Tasks : t = n => Context(t)' = c.frame
      /\ \A t \in Tasks : t = current => Context(t)' = me.frame
  BY <1>1, <1>4, <1>6
<1>8. /\ Created' = Created \cup {n} /\ n \notin Created
      /\ Threads' = IF current = 0 THEN {} ELSE Threads \cup {n}
      /\ Threads \subseteq Created /\ Created \subseteq Tasks \ {n}
      /\ current \in Created /\ current \notin Threads
      /\ (current = 0 => n = 1 /\ Threads = {} /\ Created = {0})
      /\ (current = 1 => n \in {2, 3})
  <2>1. Created' = Created \cup {n} /\ n \notin Created
    BY <1>2, <1>3 DEF Created
  <2>2. current = 0 => n = 1
    BY <1>1, <1>2, Copying
  <2>3. current = 1 => n \in {2, 3}
    BY <1>1, <1>2, <1>3
  <2>4. Threads = {t \in Created : t > 1} /\ Threads' = {t \in Created' : t > 1}
    BY DEF Threads
  <2>5. /\ current \in Created /\ current \notin Threads /\ Threads \subseteq Created
        /\ Created \subseteq Tasks \ {n}
    BY <1>1, <1>2, <1>3 DEF Threads, Created
  <2>6. current = 0 => Created = {0}
    BY <1>2, <2>2 DEF Created
  <2>. QED
    BY <1>1, <2>1, <2>2, <2>3, <2>4, <2>5, <2>6
<1>9. /\ said' = said /\ buf' = buf /\ shown' = shown /\ used' = used
      /\ paging' = paging /\ refused' = refused
  BY DEF mem, pages
<1>10. Spare(me.found)
  BY Copying
<1>11. current = 1 => Spare(me.frame.x0) /\ me.frame.x0 # me.found
  BY Copying
<1>12. TypeOK'
  BY <1>1, <1>2, <1>3, <1>4, <1>9 DEF IInv, TypeOK, mem
<1>13. Roles'
  <2>1. Booting(task'[0])
    <3>1. CASE current = 0
      BY <1>1, <1>4, <3>1, Copying DEF Booting
    <3>2. CASE current = 1
      <4>1. task'[0] = task[0]
        BY <1>3, <1>4, <3>2
      <4>. QED
        BY <4>1 DEF IInv, Roles
    <3>. QED
      BY <1>1, <3>1, <3>2
  <2>2. task'[0].pc = "idle"
    <3>1. CASE current = 0
      BY <1>4, <3>1
    <3>2. CASE current = 1
      BY <1>1, <1>3, <1>4, <3>2 DEF IInv, Roles
    <3>. QED
      BY <1>1, <3>1, <3>2
  <2>3. Process(task'[1], Context(1)')
    <3>1. CASE current = 0
      <4>1. task'[1] = c /\ Context(1)' = c.frame
        BY <1>4, <1>7, <1>8, <3>1
      <4>. QED
        BY <3>1, <4>1 DEF Process, Early
    <3>2. CASE current = 1
      <4>1. task'[1] = k /\ Context(1)' = me.frame
        BY <1>4, <1>7, <3>2
      <4>2. k.x0 # 0
        BY <1>2, <1>3
      <4>. QED
        BY <3>2, <4>1, <4>2, Copying, Ends
           DEF Process, Early, Writing, Mallocing, Cloning, Leaving, Outside
    <3>. QED
      BY <1>1, <3>1, <3>2
  <2>4. ASSUME NEW t \in Threads' PROVE Thread(task'[t], Context(t)')
    <3>1. current = 1
      BY <1>1, <1>8
    <3>2. CASE t = n
      <4>1. task'[t] = c /\ Context(t)' = c.frame
        BY <1>3, <1>4, <1>7, <3>2
      <4>. QED
        BY <3>1, <4>1, Copying DEF Thread, Writing, Outside
    <3>3. CASE t # n
      <4>1. t \in Threads /\ t # current /\ t \in Tasks
        BY <1>8, <3>1, <3>3
      <4>2. task'[t] = task[t] /\ Context(t)' = Context(t)
        BY <1>4, <1>7, <3>3, <4>1
      <4>. QED
        BY <4>1, <4>2 DEF IInv, Roles
    <3>. QED
      BY <3>2, <3>3
  <2>5. \A t \in Tasks : t # current' => task'[t].pc # "user"
    BY <1>3, <1>4 DEF IInv, Roles
  <2>6. \A t \in Tasks \ Created' : task'[t] = NewTask /\ said'[t] = <<>>
    BY <1>4, <1>8, <1>9 DEF IInv, Roles
  <2>. QED
    BY <2>1, <2>2, <2>3, <2>4, <2>5, <2>6 DEF Roles
<1>14. Forks'
  <2>1. CASE current = 0
    BY <1>3, <1>8, <2>1 DEF Forks
  <2>2. CASE current = 1
    <3>1. /\ task'[1] = k /\ Context(1)' = me.frame /\ Context(1) = me.frame
          /\ me.frame.at = "wrapper" /\ me.frame.line \in {4, 6} /\ Cloning(me)
          /\ ~Cloning(k) /\ task[1] = me
      BY <1>1, <1>4, <1>7, <2>2, Copying DEF Cloning
    <3>2. ~Passed(me.frame.line)
      BY <3>1 DEF Passed
    <3>3. \A l \in Int : Passed(l)' <=> me.frame.line >= l
      BY <3>1 DEF Passed
    <3>4. \A l \in Int : Passed(l) <=> me.frame.line > l
      BY <3>1 DEF Passed
    <3>5. /\ Context(n)' = c.frame /\ c.frame.line = me.frame.line
          /\ \A t \in Threads : Context(t)' = Context(t) /\ Context(t).line \in Int
      <4>1. \A t \in Tasks : Context(t).line \in Int
        BY ContextType DEF IInv, Regs
      <4>2. \A t \in Threads : t \in Tasks /\ t # n /\ t # current
        BY <1>8
      <4>3. c.frame.line = me.frame.line
        BY <2>2
      <4>. QED
        BY <1>3, <1>7, <4>1, <4>2, <4>3
    <3>6. \A t \in Threads : me.frame.line > Context(t).line
      BY <3>4, <3>5 DEF IInv, Forks
    <3>7. \A t \in Threads' : Passed(Context(t).line)'
      BY <1>8, <2>2, <3>1, <3>5, <3>6 DEF Passed
    <3>8. \A t, u \in Threads' : Context(t)'.line = Context(u)'.line => t = u
      <4>1. \A t, u \in Threads : Context(t).line = Context(u).line => t = u
        BY DEF IInv, Forks
      <4>2. Threads' = Threads \cup {n}
        BY <1>8, <2>2
      <4>3. \A t \in Threads : Context(t)'.line # Context(n)'.line
        BY <3>1, <3>5, <3>6
      <4>. QED
        BY <3>5, <4>1, <4>2, <4>3
    <3>9. (~Passed(4))' => nr_tasks' <= 2
      BY <3>1, <3>3
    <3>10. (~Passed(6))' => nr_tasks' <= 3
      <4>1. me.frame.line = 4 => nr_tasks <= 2
        BY <3>2 DEF IInv, Forks
      <4>. QED
        BY <1>2, <1>3, <3>1, <3>3, <4>1
    <3>. QED
      BY <3>7, <3>8, <3>9, <3>10 DEF Forks
  <2>. QED
    BY <1>1, <2>1, <2>2
<1>15. /\ \A t \in Created : task'[t].page = task[t].page /\ task'[t].stack = task[t].stack
       /\ task'[n].page = me.found
       /\ task'[n].stack = IF current = 0 THEN NoPage ELSE me.frame.x0
  BY <1>1, <1>4, <1>8
<1>16. Owners'
  <2>1. /\ me.found \in used /\ me.found # NoPage
        /\ \A t \in Created : task[t].page # me.found /\ task[t].stack # me.found
    BY <1>10 DEF Spare
  <2>2. current = 1 =>
          /\ me.frame.x0 \in used /\ me.frame.x0 # NoPage /\ me.frame.x0 # me.found
          /\ \A t \in Created : task[t].page # me.frame.x0 /\ task[t].stack # me.frame.x0
    BY <1>11 DEF Spare, IInv, TypeOK
  <2>3. /\ \A t \in Created' \ {0} : task'[t].page \in used'
        /\ \A t, u \in Created' \ {0} : task'[t].page = task'[u].page => t = u
    <3>1. /\ \A t \in Created \ {0} : task[t].page \in used
          /\ \A t, u \in Created \ {0} : task[t].page = task[u].page => t = u
      BY DEF IInv, Owners
    <3>2. \A t \in Created' \ {0} : t = n \/ t \in Created \ {0}
      BY <1>8
    <3>3. \A t \in Created \ {0} : task'[t].page = task[t].page /\ t \in Created
      BY <1>15
    <3>4. \A t \in Created \ {0} : task'[t].page \in used /\ task'[t].page # me.found
      BY <2>1, <3>1, <3>3
    <3>5. task'[n].page = me.found
      BY <1>15
    <3>6. \A t, u \in Created \ {0} : task'[t].page = task'[u].page => t = u
      BY <3>1, <3>3
    <3>7. \A t \in Created' \ {0} : task'[t].page \in used'
      <4>1. SUFFICES ASSUME NEW t \in Created' \ {0} PROVE task'[t].page \in used'
        OBVIOUS
      <4>2. CASE t = n
        BY <1>9, <2>1, <3>5, <4>2
      <4>3. CASE t \in Created \ {0}
        BY <1>9, <3>4, <4>3
      <4>. QED
        BY <3>2, <4>2, <4>3
    <3>8. \A t, u \in Created' \ {0} : task'[t].page = task'[u].page => t = u
      <4>1. SUFFICES ASSUME NEW t \in Created' \ {0}, NEW u \in Created' \ {0},
                            task'[t].page = task'[u].page
                     PROVE  t = u
        OBVIOUS
      <4>2. CASE t = n
        BY <3>2, <3>4, <3>5, <4>1, <4>2
      <4>3. CASE t \in Created \ {0}
        BY <3>2, <3>4, <3>5, <3>6, <4>1, <4>3
      <4>. QED
        BY <3>2, <4>2, <4>3
    <3>. QED
      BY <3>7, <3>8
  <2>4. \A t \in Threads' : task'[t].stack \in used'
    <3>1. \A t \in Threads : task[t].stack \in used
      BY DEF IInv, Owners
    <3>2. \A t \in Threads' : t = n \/ (t \in Threads /\ t \in Created)
      BY <1>8
    <3>3. \A t \in Threads' : current = 1
      BY <1>1, <1>8
    <3>4. \A t \in Threads : task'[t].stack \in used
      BY <1>8, <1>15, <3>1
    <3>5. current = 1 => task'[n].stack \in used
      BY <1>15, <2>2
    <3>. QED
      <4>1. SUFFICES ASSUME NEW t \in Threads' PROVE task'[t].stack \in used'
        OBVIOUS
      <4>2. CASE t = n
        BY <1>9, <3>3, <3>5, <4>1, <4>2
      <4>3. CASE t \in Threads
        BY <1>9, <3>4, <4>3
      <4>. QED
        BY <3>2, <4>2, <4>3
  <2>5. task'[1].stack \in used' \cup {NoPage} /\ task'[1].stack # BadStack
    <3>1. CASE current = 0
      <4>1. n = 1
        BY <1>8, <3>1
      <4>2. task'[1].stack = NoPage
        BY <1>15, <3>1, <4>1
      <4>. QED
        BY <4>2
    <3>2. CASE current = 1
      <4>1. task'[1].stack = task[1].stack /\ task[1].pc # "dead" /\ 1 < nr_tasks
        BY <1>1, <1>8, <1>15, <3>2
      <4>. QED
        BY <1>9, <4>1 DEF IInv, Owners
    <3>. QED
      BY <1>1, <3>1, <3>2
  <2>6. \A t, u \in Created' : task'[t].stack = task'[u].stack /\ t # u =>
          task'[t].stack = NoPage
    BY <1>1, <1>8, <1>15, <2>2 DEF IInv, Owners
  <2>7. \A t, u \in Created' : task'[t].stack = task'[u].page => task'[t].stack = NoPage
    <3>1. \A t, u \in Created : task[t].stack = task[u].page => task[t].stack = NoPage
      BY DEF IInv, Owners
    <3>2. ASSUME NEW u \in Created, task'[n].stack = task'[u].page
          PROVE  task'[n].stack = NoPage
      <4>1. task'[u].page = task[u].page
        BY <1>15
      <4>2. current = 1 => task[u].page # me.frame.x0
        BY <2>2
      <4>3. current = 1 => task'[n].stack = me.frame.x0
        BY <1>15
      <4>4. current = 0
        BY <1>1, <3>2, <4>1, <4>2, <4>3
      <4>. QED
        BY <1>15, <4>4
    <3>3. task'[n].stack = task'[n].page => task'[n].stack = NoPage
      BY <1>1, <1>15, <2>2
    <3>4. \A t \in Created : task'[t].stack # task'[n].page
      BY <1>15, <2>1
    <3>5. \A t, u \in Created : task'[t].stack = task'[u].page => task'[t].stack = NoPage
      BY <1>15, <3>1
    <3>6. \A t \in Created' : t = n \/ t \in Created
      BY <1>8
    <3>. QED
      BY <3>2, <3>3, <3>4, <3>5, <3>6
  <2>. QED
    BY <2>3, <2>4, <2>5, <2>6, <2>7 DEF Owners
<1>17. Meant(task'[1], Context(1)') = {} /\ task'[1].pc \in {"tail", "ret_from_syscall"}
  <2>1. CASE current = 0
    <3>1. task'[1] = c /\ Context(1)' = ZeroRegs
      BY <1>4, <1>7, <1>8, <2>1
    <3>. QED
      BY <3>1, Ends DEF Meant, Cloning, Outside, ZeroRegs
  <2>2. CASE current = 1
    <3>1. task'[1] = k /\ Context(1)' = me.frame
      BY <1>4, <1>7, <2>2
    <3>. QED
      BY <2>2, <3>1, Copying, Ends DEF Meant, Cloning, Outside
  <2>. QED
    BY <1>1, <2>1, <2>2
<1>18. InTransit'
  <2>1. Found(task[1])'
    BY <1>17 DEF Found
  <2>. QED
    <3>1. nr_tasks' # 1
      BY <1>3
    <3>2. task'[1].pc # "copy"
      BY <1>17
    <3>. QED
      BY <1>17, <2>1, <3>1, <3>2 DEF InTransit
<1>19. Accounts'
  <2>1. ASSUME NEW p \in used, Owned(p) PROVE Owned(p)'
    <3>1. CASE \E t \in Created : task[t].page = p
      BY <1>8, <1>15, <3>1 DEF Owned
    <3>2. CASE \E t \in Created : task[t].pc # "dead" /\ task[t].stack = p
      <4>1. PICK t \in Created : task[t].pc # "dead" /\ task[t].stack = p
        BY <3>2
      <4>2. task'[t].pc # "dead"
        BY <1>1, <1>4, <1>8, <4>1
      <4>. QED
        BY <1>8, <1>15, <4>1, <4>2 DEF Owned
    <3>3. CASE \E t \in Created :
                 task[t].pc \in {"copy", "moved", "sys_malloc"} /\ task[t].found = p
      <4>1. PICK t \in Created :
              task[t].pc \in {"copy", "moved", "sys_malloc"} /\ task[t].found = p
        BY <3>3
      <4>2. CASE t = current
        BY <1>1, <1>8, <1>15, <4>1, <4>2 DEF Owned
      <4>3. CASE t # current
        BY <1>4, <1>8, <4>1, <4>3 DEF Owned
      <4>. QED
        BY <4>2, <4>3
    <3>4. CASE 1 < nr_tasks /\ p \in Meant(task[1], Context(1))
      <4>1. current = 1
        BY <1>1, <1>2, <1>8, <3>4
      <4>2. p = me.frame.x0
        BY <1>1, <3>4, <4>1, Copying
      <4>3. task'[n].stack = p /\ task'[n].pc # "dead"
        BY <1>4, <1>15, <4>1, <4>2
      <4>. QED
        BY <1>8, <4>3 DEF Owned
    <3>. QED
      BY <2>1, <3>1, <3>2, <3>3, <3>4 DEF Owned
  <2>. QED
    BY <1>9, <2>1 DEF IInv, Accounts
<1>20. Texts'
  <2>1. shown' = "none"
    BY <1>9, Ends DEF IInv, Texts
  <2>2. said[n] = <<>>
    BY <1>3, <1>8 DEF IInv, Roles
  <2>3. Greets(task'[1], Context(1)', said'[1])
    <3>1. CASE current = 0
      <4>1. task'[1] = c /\ said'[1] = <<>>
        BY <1>4, <1>8, <1>9, <2>2, <3>1
      <4>. QED
        BY <4>1 DEF Greets, Early, Writing, Spoken
    <3>2. CASE current = 1
      <4>1. task'[1] = k /\ Context(1)' = me.frame /\ said'[1] = said[1]
        BY <1>4, <1>7, <1>9, <3>2
      <4>. QED
        BY <3>2, <4>1, Copying DEF Greets, Early, Writing
    <3>. QED
      BY <1>1, <3>1, <3>2
  <2>4. ASSUME task'[1].stack # NoPage
        PROVE  Buffered(task'[1], Context(1)', buf'[task'[1].stack])
    <3>1. current = 1
      BY <1>1, <1>8, <1>15, <2>4
    <3>2. task'[1] = k /\ Context(1)' = me.frame
      BY <1>4, <1>7, <3>1
    <3>. QED
      BY <3>1, <3>2, Copying DEF Buffered, Writing
  <2>5. ASSUME NEW t \in Threads'
        PROVE  Tells(task'[t], Context(t)', said'[t], buf'[task'[t].stack])
    <3>1. current = 1
      BY <1>1, <1>8
    <3>2. CASE t = n
      <4>1. task'[t] = c /\ Context(t)' = c.frame /\ said'[t] = <<>>
        BY <1>3, <1>4, <1>7, <1>9, <2>2, <3>2
      <4>. QED
        BY <3>1, <4>1, Copying DEF Tells, Writing
    <3>3. CASE t # n
      <4>1. t \in Threads /\ t # current /\ t \in Tasks
        BY <1>8, <3>1, <3>3
      <4>2. task'[t] = task[t] /\ Context(t)' = Context(t)
        BY <1>4, <1>7, <3>3, <4>1
      <4>. QED
        BY <1>9, <4>1, <4>2 DEF IInv, Texts
    <3>. QED
      BY <3>2, <3>3
  <2>. QED
    BY <2>1, <2>3, <2>4, <2>5 DEF Texts
<1>. QED
  BY <1>12, <1>13, <1>14, <1>16, <1>18, <1>19, <1>20 DEF IInv

LEMMA CopyProcessKeeps == ASSUME IInv, CopyProcess PROVE IInv'
<1>1. me.pc = "copy" /\ me.found # NoPage /\ me \in Record
  BY Running DEF CopyProcess, At
<1>2. nr_tasks \in 1 .. 3
  <2>1. current = 0 => nr_tasks = 1
    BY <1>1, Copying
  <2>2. current = 1 => ~Passed(me.frame.line) /\ me.frame.line \in {4, 6}
    BY <1>1, Copying, Running DEF Passed, Cloning
  <2>3. current = 1 => nr_tasks <= 3
    BY <2>2 DEF IInv, Forks, TypeOK
  <2>. QED
    BY <1>1, <2>1, <2>3, Copying DEF IInv, TypeOK
<1>3. PICK z \in Regs :
        /\ z = [me.frame EXCEPT !.x0 = ChildX0, !.sp = ChildSp]
        /\ z.x0 = 0 /\ z.sp = me.frame.x0 /\ z.line = me.frame.line
        /\ z.at = me.frame.at /\ z.i = me.frame.i
  <2>1. PICK n \in Int, m \in Int : n = 0 /\ m = me.frame.x0
    BY <1>1 DEF Record, Regs
  <2>. DEFINE y == [me.frame EXCEPT !.x0 = n, !.sp = m]
  <2>2. /\ y \in Regs /\ y.x0 = n /\ y.sp = m /\ y.line = me.frame.line
        /\ y.at = me.frame.at /\ y.i = me.frame.i
    BY <1>1 DEF Record, Regs
  <2>3. y = [me.frame EXCEPT !.x0 = ChildX0, !.sp = ChildSp]
    BY <2>1 DEF ChildX0, ChildSp
  <2>. QED
    BY <2>1, <2>2, <2>3
<1>4. PICK c \in Record :
        /\ c = Child /\ c.page = me.found /\ c.state = "running" /\ c.pc = "tail"
        /\ current = 0 => c.stack = NoPage /\ c.frame = ZeroRegs
        /\ current = 1 => c.stack = me.frame.x0 /\ c.frame = z
  <2>1. PICK f \in Int, n \in Int, l \in Label, m \in Int :
          f = me.found /\ n = FirstCount /\ l = "tail" /\ m = me.frame.x0
    BY <1>1 DEF Record, Regs, Label, FirstCount
  <2>. DEFINE y == [NewTask EXCEPT !.page = f, !.preempt = n, !.pc = l]
              w == [y EXCEPT !.stack = m, !.frame = z]
  <2>2. /\ y \in Record /\ y.page = f /\ y.pc = l
        /\ y.state = NewTask.state /\ y.stack = NewTask.stack /\ y.frame = NewTask.frame
    BY NewTaskType DEF Record
  <2>3. NewTask.state = "running" /\ NewTask.stack = NoPage /\ NewTask.frame = ZeroRegs
    BY DEF NewTask
  <2>4. Child = IF current = 0 THEN y ELSE w
    BY <1>3, <2>1 DEF Child
  <2>. HIDE DEF y
  <2>5. /\ w \in Record /\ w.page = y.page /\ w.pc = y.pc /\ w.state = y.state
        /\ w.stack = m /\ w.frame = z
    BY <2>2 DEF Record
  <2>6. CASE current = 0
    BY <2>1, <2>2, <2>3, <2>4, <2>6
  <2>7. CASE current # 0
    BY <2>1, <2>2, <2>3, <2>4, <2>5, <2>7
  <2>. QED
    BY <2>6, <2>7
<1>5. PICK k \in Record :
        /\ k = [preempt_enable(me) EXCEPT !.x0 = nr_tasks, !.pc = CopyReturn]
        /\ k.pc = CopyReturn /\ k.x0 = nr_tasks /\ k.page = me.page
        /\ k.stack = me.stack /\ k.state = me.state /\ k.frame = me.frame
  <2>1. PICK n \in Int, l \in Label, q \in Int :
          n = nr_tasks /\ l = CopyReturn /\ q = me.preempt - 1
    BY <1>1, <1>2 DEF Record, Label, CopyReturn
  <2>. DEFINE y == [me EXCEPT !.preempt = q, !.x0 = n, !.pc = l]
  <2>2. /\ y \in Record /\ y.pc = l /\ y.x0 = n /\ y.page = me.page
        /\ y.stack = me.stack /\ y.state = me.state /\ y.frame = me.frame
    BY <1>1 DEF Record
  <2>3. y = [preempt_enable(me) EXCEPT !.x0 = nr_tasks, !.pc = CopyReturn]
    BY <1>1, <2>1 DEF preempt_enable, Record
  <2>. QED
    BY <2>1, <2>2, <2>3
<1>6. /\ task' = [task EXCEPT ![nr_tasks] = c, ![current] = k]
      /\ nr_tasks' = nr_tasks + 1 /\ UNCHANGED <<current, regs, mem>>
  BY <1>4, <1>5 DEF CopyProcess
<1>7. current = 0 => k.pc = "idle"
  BY <1>5 DEF CopyReturn
<1>8. current = 1 => k.pc = "ret_from_syscall"
  BY <1>5 DEF CopyReturn
<1>9. /\ c.page = me.found /\ c.state = "running" /\ c.pc = "tail"
      /\ current = 0 => k.pc = "idle" /\ c.stack = NoPage /\ c.frame = ZeroRegs
  BY <1>4, <1>7
<1>10. /\ k.page = me.page /\ k.stack = me.stack /\ k.state = me.state
       /\ k.frame = me.frame /\ k.x0 = nr_tasks
  BY <1>5
<1>11. current = 1 => /\ k.pc = "ret_from_syscall" /\ c.stack = me.frame.x0
                      /\ c.frame.x0 = 0 /\ c.frame.sp = me.frame.x0
                      /\ c.frame.line = me.frame.line /\ c.frame.at = me.frame.at
                      /\ c.frame.i = me.frame.i
  BY <1>3, <1>4, <1>8
<1>. QED
  BY <1>1, <1>2, <1>6, <1>9, <1>10, <1>11, CopyKeeps

-----------------------------------------------------------------------------
(* What leaves the tasks as they are.                                      *)
LEMMA ScheduleKeeps ==
  ASSUME IInv, NEW t \in Tasks, Schedule(t)
  PROVE  IInv'
<1>1. /\ UNCHANGED <<task, nr_tasks, regs, pages, buf, said, shown>> /\ current' = t
      /\ t < nr_tasks /\ me.pc \notin DOMAIN Code
  BY DEF Schedule, CpuSwitchTo, mem
<1>2. \A u \in Tasks : task[u].pc # "user"
  BY Running DEF Schedule, IInv, Roles
<1>3. \A u \in Tasks : Context(u)' = Context(u)
  BY <1>1, <1>2 DEF Context, At, me
<1>4. Created' = Created /\ Threads' = Threads
  BY <1>1 DEF Created, Threads
<1>5. TypeOK'
  BY <1>1 DEF IInv, TypeOK, pages
<1>6. Threads \subseteq Tasks /\ 1 \in Tasks
  BY DEF Created, Threads
<1>7. Roles'
  BY <1>1, <1>2, <1>3, <1>4, <1>6 DEF IInv, Roles
<1>8. \A l : Passed(l)' <=> Passed(l)
  BY <1>1, <1>3, <1>6 DEF Passed
<1>9. Forks'
  BY <1>1, <1>3, <1>4, <1>6, <1>8 DEF IInv, Forks
<1>10. \A p : Spare(p)' <=> Spare(p)
  BY <1>1, <1>4 DEF Spare, pages
<1>11. Owners'
  BY <1>1, <1>4 DEF IInv, Owners, pages
<1>12. InTransit'
  BY <1>1, <1>3, <1>6, <1>10 DEF IInv, InTransit, Found, Full, pages
<1>13. \A p : Owned(p)' <=> Owned(p)
  BY <1>1, <1>3, <1>4, <1>6 DEF Owned
<1>14. Accounts'
  BY <1>1, <1>13 DEF IInv, Accounts, pages
<1>15. shown' = "none"
  BY <1>1 DEF IInv, Texts
<1>16. Texts'
  BY <1>1, <1>3, <1>4, <1>6, <1>15 DEF IInv, Texts
<1>. QED
  BY <1>5, <1>7, <1>9, <1>11, <1>12, <1>14, <1>16 DEF IInv

(* The place of each message in irq.c is its code in entry.h.              *)
LEMMA MessageOfItsCode ==
  \A c \in DOMAIN Code : entry_error_messages[Code[c] + 1] = c
<1>1. /\ Code["FIQ_INVALID_EL0_64"] = 10 /\ Code["ERROR_INVALID_EL0_64"] = 11
      /\ Code["SYNC_ERROR"] = 16
  BY DEF Code
<1>2. /\ entry_error_messages[11] = "FIQ_INVALID_EL0_64"
      /\ entry_error_messages[12] = "ERROR_INVALID_EL0_64"
      /\ entry_error_messages[17] = "SYNC_ERROR"
  BY DEF entry_error_messages
<1>. QED
  BY <1>1, <1>2, Ends

LEMMA ShowInvalidEntryMessageKeeps == ASSUME IInv, ShowInvalidEntryMessage PROVE IInv'
<1>1. /\ UNCHANGED <<task, nr_tasks, current, regs, pages, buf, said>>
      /\ me.pc \in DOMAIN Code /\ shown' = me.pc
  BY MessageOfItsCode DEF ShowInvalidEntryMessage
<1>2. \A t \in Tasks : Context(t)' = Context(t)
  BY <1>1 DEF Context, At, me
<1>3. Created' = Created /\ Threads' = Threads /\ me' = me
  BY <1>1 DEF Created, Threads, me
<1>4. TypeOK'
  BY <1>1 DEF IInv, TypeOK, pages
<1>5. Threads \subseteq Tasks /\ 1 \in Tasks
  BY DEF Created, Threads
<1>6. Roles'
  BY <1>1, <1>2, <1>3, <1>5 DEF IInv, Roles
<1>7. \A l : Passed(l)' <=> Passed(l)
  BY <1>1, <1>2, <1>5 DEF Passed
<1>8. Forks'
  BY <1>1, <1>2, <1>3, <1>5, <1>7 DEF IInv, Forks
<1>9. \A p : Spare(p)' <=> Spare(p)
  BY <1>1, <1>3 DEF Spare, pages
<1>10. Owners'
  BY <1>1, <1>3 DEF IInv, Owners, pages
<1>11. InTransit'
  BY <1>1, <1>2, <1>5, <1>9 DEF IInv, InTransit, Found, Full, pages
<1>12. \A p : Owned(p)' <=> Owned(p)
  BY <1>1, <1>2, <1>3, <1>5 DEF Owned
<1>13. Accounts'
  BY <1>1, <1>12 DEF IInv, Accounts, pages
<1>14. Texts'
  BY <1>1, <1>2, <1>3, <1>5 DEF IInv, Texts
<1>. QED
  BY <1>4, <1>6, <1>8, <1>10, <1>11, <1>13, <1>14 DEF IInv

LEMMA InitHolds == Init => IInv
<1>. SUFFICES ASSUME Init PROVE IInv
  OBVIOUS
<1>1. /\ \A t \in Tasks : task[t] = NewTask /\ said[t] = <<>>
      /\ task \in [Tasks -> Record] /\ said \in [Tasks -> Seq(Char)]
      /\ nr_tasks = 1 /\ current = 0 /\ regs = ZeroRegs /\ shown = "none"
      /\ used = {} /\ paging \in 0 .. MaxPages /\ refused = 0
  BY NewTaskType DEF Init
<1>2. NewTask.pc = "selector" /\ NewTask.stack = NoPage /\ NewTask.page = NoPage
      /\ NewTask.state = "running" /\ NewTask.frame = ZeroRegs
  BY DEF NewTask
<1>3. TypeOK
  <2>1. buf \in [1 .. MaxPages -> [1 .. 3 -> Char]]
    <3>1. Len(Started) + 1 = 3
      BY DEF Started
    <3>2. "?" \in Char
      BY DEF Char
    <3>. QED
      BY <3>1, <3>2 DEF Init
  <2>. QED
    BY <1>1, <2>1, ZeroRegsType DEF TypeOK
<1>4. Created = {0} /\ Threads = {}
  BY <1>1 DEF Created, Threads
<1>5. Roles
  <2>1. Booting(task[0])
    <3>1. task[0] = NewTask
      BY <1>1
    <3>2. NewTask.pc \in {StartUp[i] : i \in 1 .. 8}
      BY <1>2, Starts
    <3>. QED
      BY <1>2, <3>1, <3>2 DEF Booting
  <2>2. \A t \in Tasks : task[t].pc # "user"
    BY <1>1, <1>2
  <2>. QED
    BY <1>1, <1>4, <2>1, <2>2 DEF Roles
<1>6. Forks
  BY <1>1, <1>4 DEF Forks
<1>7. Owners
  BY <1>1, <1>2, <1>4 DEF Owners
<1>8. InTransit
  BY <1>1, <1>2 DEF InTransit, Found
<1>9. Accounts
  BY <1>1 DEF Accounts
<1>10. Texts
  BY <1>1, <1>4 DEF Texts
<1>. QED
  BY <1>3, <1>5, <1>6, <1>7, <1>8, <1>9, <1>10 DEF IInv

LEMMA NextKeeps == IInv /\ [Next]_vars => IInv'
<1>. SUFFICES ASSUME IInv, [Next]_vars PROVE IInv'
  OBVIOUS
<1>1. CASE UNCHANGED vars
  BY <1>1, Stutter DEF vars, mem
<1>2. CASE Next
  BY <1>2, StartUpKeeps, FindPageKeeps, TakePageKeeps, KernelMainKeeps, CopyFailKeeps,
     CopyProcessKeeps, ScheduleTailKeeps, KernelProcessKeeps, AllocateKeeps,
     MoveToUserModeKeeps, FormatKeeps, PutcKeeps, RetToUserKeeps, RetFromSyscallKeeps,
     KernelExitKeeps, UserFaultKeeps, InterruptKeeps, IrqDoneKeeps,
     ShowInvalidEntryMessageKeeps, SprintfKeeps, WriteStartedKeeps, UserProcess1Keeps,
     StoreCharKeeps, WriteCharKeeps, SysWriteKeeps, SysMallocKeeps, SysMallocDoneKeeps,
     MallocReturnKeeps, SysCloneKeeps, CloneReturnKeeps, CallSysExitKeeps, SysExitKeeps,
     ExitProcessKeeps, FreeStackKeeps, ScheduleKeeps
     DEF Next
<1>. QED
  BY <1>1, <1>2

LEMMA Inductive == Spec => []IInv
BY InitHolds, NextKeeps, PTL DEF Spec

-----------------------------------------------------------------------------
(* What the invariant says of the properties.                              *)
LEMMA Alive ==
  ASSUME IInv
  PROVE  /\ \A t \in Created : t = 0 \/ (t = 1 /\ 1 < nr_tasks) \/ t \in Threads
         /\ Threads \subseteq Created /\ Created \subseteq Tasks
         /\ task[0].stack = NoPage
         /\ nr_tasks \in 1 .. 4
<1>1. task[0].stack = NoPage
  BY DEF IInv, Roles, Booting
<1>2. nr_tasks \in 1 .. 4
  BY DEF IInv, TypeOK
<1>. QED
  BY <1>1, <1>2 DEF Created, Threads

LEMMA StacksPrivateHolds == IInv => StacksPrivate
<1>. SUFFICES ASSUME IInv PROVE StacksPrivate
  OBVIOUS
<1>. DEFINE stacks == {t \in Live : task[t].stack \notin {NoPage, BadStack}}
<1>1. \A t \in stacks : t \in Created /\ task[t].stack # NoPage
                          /\ task[t].state = "running"
  BY DEF Live
<1>2. \A t \in stacks : task[t].stack \in used
  <2>1. ASSUME NEW t \in stacks PROVE task[t].stack \in used
    <3>1. t # 0
      BY <1>1, Alive
    <3>2. CASE t = 1 /\ 1 < nr_tasks
      <4>1. task[1].pc # "dead"
        BY <1>1, <3>2 DEF IInv, Roles, Process
      <4>. QED
        BY <1>1, <3>2, <4>1 DEF IInv, Owners
    <3>3. CASE t \in Threads
      BY <3>3 DEF IInv, Owners
    <3>. QED
      BY <1>1, <3>1, <3>2, <3>3, Alive
  <2>. QED
    BY <2>1
<1>3. \A t, u \in stacks : task[t].stack = task[u].stack => t = u
  BY <1>1 DEF IInv, Owners
<1>4. \A t \in stacks, u \in Created \ {0} : task[t].stack # task[u].page
  BY <1>1 DEF IInv, Owners
<1>5. /\ \A t \in Created \ {0} : task[t].page \in used
      /\ \A t, u \in Created \ {0} : task[t].page = task[u].page => t = u
  BY DEF IInv, Owners
<1>. HIDE DEF stacks
<1>6. stacks = {t \in Live : task[t].stack \notin {NoPage, BadStack}}
  BY DEF stacks
<1>. QED
  BY <1>2, <1>3, <1>4, <1>5, <1>6 DEF StacksPrivate

LEMMA PagesAccountedHolds == IInv => PagesAccounted
<1>. SUFFICES ASSUME IInv, refused = 0, NEW p \in used
     PROVE  \/ p \in {task[t].page : t \in Created}
            \/ p \in {task[t].stack : t \in {u \in Created : task[u].pc # "dead"}}
            \/ p \in {task[t].found : t \in {u \in Created :
                                        task[u].pc \in {"copy", "moved", "sys_malloc"}}}
            \/ /\ Context(1).at = "malloced" \/ Context(1).line \in CloneLines
               /\ p \in {Context(1).x0, task[1].x0, task[1].local}
  BY DEF PagesAccounted
<1>1. Owned(p)
  BY DEF IInv, Accounts
<1>2. CASE \/ \E t \in Created : task[t].page = p
           \/ \E t \in Created : task[t].pc # "dead" /\ task[t].stack = p
           \/ \E t \in Created :
                task[t].pc \in {"copy", "moved", "sys_malloc"} /\ task[t].found = p
  BY <1>2
<1>3. CASE 1 < nr_tasks /\ p \in Meant(task[1], Context(1))
  <2>1. Process(task[1], Context(1)) /\ 1 \in Created /\ p # BadStack
    BY <1>3 DEF IInv, Roles, Created, TypeOK
  <2>2. CASE task[1].pc = "sys_malloc"
    <3>1. p = task[1].found
      BY <1>3, <2>1, <2>2 DEF Meant
    <3>. QED
      BY <2>1, <2>2, <3>1
  <2>3. CASE task[1].pc # "sys_malloc"
    <3>1. \/ Context(1).at = "malloced" /\ p \in {Context(1).x0, task[1].x0}
          \/ Context(1).line \in {4, 6} /\ p = task[1].local
          \/ Cloning(task[1]) /\ p = Context(1).x0
      BY <1>3, <2>3 DEF Meant
    <3>2. Cloning(task[1]) => Context(1).line \in {4, 6}
      BY <2>1 DEF Process, Cloning, Early
    <3>. QED
      BY <3>1, <3>2, Lines
  <2>. QED
    BY <2>2, <2>3
<1>. QED
  BY <1>1, <1>2, <1>3 DEF Owned

LEMMA CloneForksOnceHolds == IInv => CloneForksOnce
<1>. SUFFICES ASSUME IInv PROVE CloneForksOnce
  OBVIOUS
<1>1. /\ Context(1).at \in {"none", "program", "malloced", "wrapper"}
      /\ Context(1).at # "none" => Context(1).sp = task[1].stack
  <2>1. CASE 1 < nr_tasks
    <3>1. Process(task[1], Context(1))
      BY <2>1 DEF IInv, Roles
    <3>2. Early(task[1]) => Context(1) = ZeroRegs
      <4>1. Early(task[1]) => task[1].pc # "user"
        BY DEF Early
      <4>. QED
        BY <3>1, <4>1 DEF Process, Context, At, me
    <3>. QED
      BY <3>1, <3>2 DEF Process, ZeroRegs
  <2>2. CASE ~(1 < nr_tasks)
    <3>1. task[1] = NewTask /\ current # 1
      BY <2>2 DEF IInv, TypeOK, Roles, Created
    <3>2. Context(1) = ZeroRegs
      BY <3>1 DEF Context, NewTask
    <3>. QED
      BY <3>2 DEF ZeroRegs
  <2>. QED
    BY <2>1, <2>2
<1>2. ASSUME NEW t \in Threads
      PROVE  /\ Context(t).at \in {"wrapper", "start", "thread", "stored"}
             /\ Context(t).sp = task[t].stack
             /\ Context(t).line \in CloneLines
             /\ Context(t).line < Context(1).line \/ Context(1).at = "wrapper"
  <2>1. Thread(task[t], Context(t))
    BY DEF IInv, Roles
  <2>2. Passed(Context(t).line)
    BY DEF IInv, Forks
  <2>3. Context(1).line \in Int
    BY ContextType DEF IInv, Regs
  <2>. QED
    BY <2>1, <2>2, <2>3, Lines DEF Thread, Passed
<1>3. \A t, u \in Threads : Context(t).line = Context(u).line => t = u
  BY DEF IInv, Forks
<1>. QED
  BY <1>1, <1>2, <1>3 DEF CloneForksOnce

LEMMA ThreadsHaveStacksHolds == IInv => ThreadsHaveStacks
<1>. SUFFICES ASSUME IInv, NEW t \in Threads PROVE Context(t).sp # BadStack
  BY DEF ThreadsHaveStacks
<1>1. Context(t).sp = task[t].stack
  BY DEF IInv, Roles, Thread
<1>2. task[t].stack \in used /\ used \subseteq 1 .. paging
  BY DEF IInv, Owners, TypeOK
<1>. QED
  BY <1>1, <1>2

(* Saying the first characters of a text is having written a prefix of it. *)
LEMMA SpokenIsPrefix ==
  ASSUME NEW s \in Seq(Char), NEW text \in Seq(Char), NEW n \in 0 .. Len(text),
         Spoken(s, text, n)
  PROVE  IsPrefix(s, text) /\ (n = Len(text) => s = text)
<1>1. Len(s) = n /\ \A j \in 1 .. n : s[j] = text[j]
  BY DEF Spoken
<1>2. Len(text) \in Nat /\ n \in Int
  OBVIOUS
<1>3. (\A j \in 1 .. n : s[j] \in Char) /\ (\A j \in 1 .. n : text[j] \in Char)
  BY <1>1, <1>2
<1>4. /\ SubSeq(s, 1, n) \in Seq(Char)
      /\ Len(SubSeq(s, 1, n)) = IF 1 <= n THEN n - 1 + 1 ELSE 0
      /\ \A j \in 1 .. n - 1 + 1 : SubSeq(s, 1, n)[j] = s[1 + j - 1]
  BY <1>2, <1>3, SubSeqProperties
<1>5. /\ SubSeq(text, 1, n) \in Seq(Char)
      /\ Len(SubSeq(text, 1, n)) = IF 1 <= n THEN n - 1 + 1 ELSE 0
      /\ \A j \in 1 .. n - 1 + 1 : SubSeq(text, 1, n)[j] = text[1 + j - 1]
  BY <1>2, <1>3, SubSeqProperties
<1>6. \A j \in 1 .. n : SubSeq(s, 1, n)[j] = SubSeq(text, 1, n)[j]
  BY <1>1, <1>2, <1>4, <1>5
<1>7. Len(SubSeq(s, 1, n)) = n /\ Len(SubSeq(text, 1, n)) = n
  BY <1>2, <1>4, <1>5
<1>8. SubSeq(s, 1, n) = SubSeq(text, 1, n)
  BY <1>4, <1>5, <1>6, <1>7, SeqEqual
<1>9. n = Len(text) => s = text
  BY <1>1, SeqEqual
<1>. QED
  BY <1>1, <1>8, <1>9 DEF IsPrefix

LEMMA TextOfProcess ==
  /\ TextOf(1) \in Seq(Char) /\ Len(TextOf(1)) = 4
  /\ \A j \in 1 .. 4 : TextOf(1)[j] = Greeting[j]
<1>. DEFINE a == <<"K", "1">>
            b == <<"U", "p">>
<1>1. TextOf(1) = a \o b
  BY DEF TextOf, KernelStarted, Started
<1>2. a \in Seq(Char) /\ b \in Seq(Char) /\ Len(a) = 2 /\ Len(b) = 2
  BY DEF Char
<1>3. a[1] = "K" /\ a[2] = "1" /\ b[1] = "U" /\ b[2] = "p"
  OBVIOUS
<1>. HIDE DEF a, b
<1>4. /\ a \o b \in Seq(Char) /\ Len(a \o b) = Len(a) + Len(b)
      /\ \A j \in 1 .. Len(a) + Len(b) :
           (a \o b)[j] = IF j <= Len(a) THEN a[j] ELSE b[j - Len(a)]
  BY <1>2, ConcatProperties
<1>5. /\ TextOf(1) \in Seq(Char) /\ Len(TextOf(1)) = 4
      /\ \A j \in 1 .. 4 : TextOf(1)[j] = IF j <= 2 THEN a[j] ELSE b[j - 2]
  <2>1. Len(a) + Len(b) = 4
    BY <1>2
  <2>2. \A j \in 1 .. 4 : (a \o b)[j] = IF j <= 2 THEN a[j] ELSE b[j - 2]
    BY <1>2, <1>4, <2>1
  <2>3. TextOf(1) \in Seq(Char) /\ Len(TextOf(1)) = 4
    BY <1>1, <1>4, <2>1
  <2>. QED
    BY <1>1, <2>2, <2>3
<1>6. \A j \in 1 .. 4 : TextOf(1)[j] = Greeting[j]
  BY <1>3, <1>5 DEF Greeting
<1>. QED
  BY <1>5, <1>6

LEMMA ProcessText ==
  ASSUME IInv, 1 < nr_tasks
  PROVE  /\ IsPrefix(said[1], TextOf(1))
         /\ Context(1).line \in CloneLines => said[1] = TextOf(1)
<1>1. Process(task[1], Context(1)) /\ Greets(task[1], Context(1), said[1])
  BY DEF IInv, Roles, Texts
<1>2. said[1] \in Seq(Char)
  BY DEF IInv, TypeOK
<1>3. \E n \in 0 .. 4 : Spoken(said[1], Greeting, n)
  <2>1. CASE Early(task[1])
    <3>1. task[1].pc \in {"tail", "kernel_process"} => Spoken(said[1], Greeting, 0)
      BY <1>1 DEF Greets
    <3>2. task[1].pc \in {"allocate", "find", "take", "moved"} =>
            Spoken(said[1], Greeting, 2)
      BY <1>1, <2>1 DEF Greets
    <3>3. task[1].pc = "format" =>
            task[1].pos - 1 \in 0 .. 4 /\ Spoken(said[1], Greeting, task[1].pos - 1)
      BY <1>1, <2>1 DEF Greets
    <3>4. task[1].pc = "putc" =>
            task[1].pos - 2 \in 0 .. 4 /\ Spoken(said[1], Greeting, task[1].pos - 2)
      BY <1>1, <2>1 DEF Greets
    <3>. QED
      BY <2>1, <3>1, <3>2, <3>3, <3>4 DEF Early
  <2>2. CASE Writing(task[1])
    <3>1. task[1].pc = "sys_write" => Spoken(said[1], Greeting, 2)
      BY <1>1 DEF Greets
    <3>2. task[1].pc = "format" =>
            task[1].pos + 1 \in 0 .. 4 /\ Spoken(said[1], Greeting, task[1].pos + 1)
      BY <1>1, <2>2 DEF Greets
    <3>3. task[1].pc = "putc" =>
            task[1].pos \in 0 .. 4 /\ Spoken(said[1], Greeting, task[1].pos)
      BY <1>1, <2>2 DEF Greets
    <3>. QED
      BY <2>2, <3>1, <3>2, <3>3 DEF Writing
  <2>3. CASE ~Early(task[1]) /\ ~Writing(task[1])
    <3>1. Context(1).line \in 1 .. 7
      BY <1>1, <2>3 DEF Process
    <3>2. Context(1).line < 3 \/ Context(1).line >= 3
      BY <3>1
    <3>3. Spoken(said[1], Greeting, 2) \/ Spoken(said[1], Greeting, 4)
      BY <1>1, <2>3, <3>2 DEF Greets
    <3>. QED
      BY <3>3
  <2>. QED
    BY <2>1, <2>2, <2>3
<1>4. PICK n \in 0 .. 4 : Spoken(said[1], Greeting, n)
  BY <1>3
<1>5. Spoken(said[1], TextOf(1), n)
  BY <1>4, TextOfProcess DEF Spoken
<1>6. IsPrefix(said[1], TextOf(1))
  BY <1>2, <1>5, TextOfProcess, SpokenIsPrefix
<1>7. ASSUME Context(1).line \in CloneLines PROVE said[1] = TextOf(1)
  <2>1. Context(1).line \in {4, 6}
    BY <1>7, Lines
  <2>2. ~Early(task[1])
    <3>1. Early(task[1]) => Context(1) = ZeroRegs
      <4>1. Early(task[1]) => task[1].pc # "user"
        BY DEF Early
      <4>. QED
        BY <1>1, <4>1 DEF Process, Context, At, me
    <3>. QED
      BY <2>1, <3>1 DEF ZeroRegs
  <2>3. ~Writing(task[1])
    BY <1>1, <2>1, <2>2 DEF Process
  <2>4. Spoken(said[1], Greeting, 4)
    BY <1>1, <2>1, <2>2, <2>3 DEF Greets
  <2>5. PICK m \in Nat : m = 4
    OBVIOUS
  <2>6. m \in 0 .. Len(TextOf(1)) /\ m = Len(TextOf(1))
    BY <2>5, TextOfProcess
  <2>7. Spoken(said[1], TextOf(1), m)
    BY <2>4, <2>5, TextOfProcess DEF Spoken
  <2>8. TextOf(1) \in Seq(Char)
    BY TextOfProcess
  <2>. QED
    BY <1>2, <2>6, <2>7, <2>8, SpokenIsPrefix
<1>. QED
  BY <1>6, <1>7

LEMMA ThreadText ==
  ASSUME IInv, NEW t \in Threads
  PROVE  IsPrefix(said[t], TextOf(t))
<1>1. /\ Thread(task[t], Context(t)) /\ t \in Tasks /\ t > 1
      /\ Tells(task[t], Context(t), said[t], buf[task[t].stack])
  BY DEF IInv, Roles, Texts, Threads, Created
<1>2. said[t] \in Seq(Char)
  BY <1>1 DEF IInv, TypeOK
<1>3. PICK l \in {4, 6}, i \in 0 .. 4 : l = Context(t).line /\ i = Context(t).i
  BY <1>1 DEF Thread
<1>4. /\ TextOf(t) \in Seq(Char) /\ Len(TextOf(t)) = Length(l)
      /\ \A j \in 1 .. Length(l) : TextOf(t)[j] = Array(l)[j]
  BY <1>1, <1>3, TextOfThread DEF Thread
<1>5. Before(i) \in 0 .. 4 /\ Length(l) \in {4, 5}
  BY DEF Before, Length
<1>6. said[t] = <<>> \/ Told(said[t], l, i) \/ Told(said[t], l, Before(i))
  <2>1. CASE Writing(task[t])
    <3>1. task[t].pc = "sys_write" \/ task[t].pos \in {1, 2}
      BY <1>1, <2>1 DEF Tells
    <3>2. \/ task[t].pc = "sys_write" \/ task[t].pos = 1 \/ task[t].pc = "putc"
          \/ task[t].pc = "format" /\ task[t].pos = 2
      BY <2>1, <3>1 DEF Writing
    <3>. QED
      BY <1>1, <1>3, <2>1, <3>2 DEF Tells
  <2>2. CASE ~Writing(task[t])
    BY <1>1, <1>3, <2>2 DEF Tells, Thread
  <2>. QED
    BY <2>1, <2>2
<1>7. \A j \in 0 .. 4 : Told(said[t], l, j) =>
        \/ said[t] = <<>>
        \/ \E n \in 0 .. Length(l) : Spoken(said[t], Array(l), n)
  BY <1>5 DEF Told
<1>8. CASE said[t] = <<>>
  <2>1. Spoken(said[t], TextOf(t), 0) /\ 0 \in 0 .. Len(TextOf(t))
    BY <1>4, <1>8 DEF Spoken
  <2>. QED
    BY <1>2, <1>4, <2>1, SpokenIsPrefix
<1>9. CASE \E n \in 0 .. Length(l) : Spoken(said[t], Array(l), n)
  <2>1. PICK n \in 0 .. Length(l) : Spoken(said[t], Array(l), n)
    BY <1>9
  <2>2. Spoken(said[t], TextOf(t), n) /\ n \in 0 .. Len(TextOf(t))
    BY <1>4, <1>5, <2>1 DEF Spoken
  <2>. QED
    BY <1>2, <1>4, <2>2, SpokenIsPrefix
<1>. QED
  BY <1>5, <1>6, <1>7, <1>8, <1>9

LEMMA WritesIntactHolds == IInv => WritesIntact
<1>. SUFFICES ASSUME IInv PROVE WritesIntact
  OBVIOUS
<1>1. ASSUME NEW t \in Created \ {0} PROVE IsPrefix(said[t], TextOf(t))
  <2>1. CASE t = 1 /\ 1 < nr_tasks
    BY <2>1, ProcessText
  <2>2. CASE t \in Threads
    BY <2>2, ThreadText
  <2>. QED
    BY <2>1, <2>2, Alive
<1>2. ASSUME Context(1).line \in CloneLines PROVE said[1] = TextOf(1)
  <2>1. 1 < nr_tasks
    <3>1. SUFFICES ASSUME ~(1 < nr_tasks) PROVE FALSE
      OBVIOUS
    <3>2. task[1] = NewTask /\ current # 1
      BY <3>1 DEF IInv, TypeOK, Roles, Created
    <3>3. Context(1) = ZeroRegs
      BY <3>2 DEF Context, NewTask
    <3>. QED
      BY <1>2, <3>3, Lines DEF ZeroRegs
  <2>. QED
    BY <1>2, <2>1, ProcessText
<1>3. shown # "none" => shown = me.pc
  BY DEF IInv, Texts
<1>. QED
  BY <1>1, <1>2, <1>3 DEF WritesIntact

-----------------------------------------------------------------------------
(* get_free_page, sys_malloc, copy_process and exit_process (mm.c, sys.c,  *)
(* fork.c, sched.c): for every number of pages, the stack of a task that   *)
(* runs is marked in mem_map, and neither another task's stack nor         *)
(* anybody's task_struct is in its page; nor do two task_structs share     *)
(* one.                                                                    *)
THEOREM Private == Spec => []StacksPrivate
BY Inductive, StacksPrivateHolds, PTL

(* ... and as long as every clone found a page, each marked page is a      *)
(* task_struct, a stack, or on its way from get_free_page to be one: none  *)
(* is lost, whoever ran in between.                                        *)
THEOREM Accounted == Spec => []PagesAccounted
BY Inductive, PagesAccountedHolds, PTL

(* call_sys_clone and copy_process (sys.S, fork.c): both returns of clone  *)
(* are taken by the task they are meant for, and each of the two calls of  *)
(* user_process starts at most one thread, on the stack it was given.      *)
THEOREM ForksOnce == Spec => []CloneForksOnce
BY Inductive, CloneForksOnceHolds, PTL

(* user_process (kernel.c) cannot see that malloc failed, but no thread    *)
(* starts on the result of such a malloc, since clone fails as well.       *)
THEOREM HaveStacks == Spec => []ThreadsHaveStacks
BY Inductive, ThreadsHaveStacksHolds, PTL

(* sys_write, printf and uart_send (sys.c, printf.c, mini_uart.c): every   *)
(* task's text reaches the UART in order and without a loss or a           *)
(* repetition, from a buffer that no other task writes to; and             *)
(* show_invalid_entry_message (irq.c) names the exception that was taken.  *)
THEOREM Intact == Spec => []WritesIntact
BY Inductive, WritesIntactHolds, PTL

=============================================================================
