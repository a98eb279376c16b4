--------------------------- MODULE ThreadsProofs ---------------------------
(***************************************************************************)
(* For any number of threads, any priority and any depth of FIFO: the      *)
(* threads' shares of the CPU stay even, each thread's output is its own   *)
(* and in order, and a switch costs it at most one character.              *)
(***************************************************************************)
EXTENDS Threads, SequenceTheorems, FiniteSetTheorems, TLAPS

(* kernel_main up to enable_irq, in task 0 with IRQs masked.               *)
Early == {"master", "selector", "uart_init"}
Startup ==
  Early \cup {"init_printf", "irq_vector_init", "timer_init",
              "enable_interrupt_controller", "enable_irq"}
Handler == {"el1_irq", "kernel_exit"}

(* Where a thread is outside of the kernel, or about to be: an interrupt   *)
(* finds no frame below it there.                                          *)
Outside == {"own", "ret_from_fork"}

Saved == [pc : {"none", "switched", "ret_from_fork"}, x20 : Tasks]
Regs == [array : Tasks, i : Nat, hand : BOOLEAN]
Frame == [regs : Regs, elr : Interruptible]
Symbol == Workers \X Nat

Typed ==
  /\ nr_tasks \in 1 .. NThreads + 1
  /\ current \in Tasks /\ current < nr_tasks
  /\ counter \in [Tasks -> Int]
  /\ context \in [Tasks -> Saved]
  /\ switches \in [Tasks -> Nat]
  /\ frames \in [Tasks -> Seq(Frame)]
  /\ place \in Startup \cup Interruptible \cup Handler
  /\ regs \in Regs
  /\ sent \in [Workers -> Nat]
  /\ tx \in Seq(Symbol) /\ wire \in Seq(Symbol)
  /\ lost \subseteq Symbol /\ IsFiniteSet(lost)
  /\ ticks \in Nat /\ critical \in Nat /\ served \in [Tasks -> Nat]
  /\ place \in Startup => current = 0 /\ nr_tasks = 1

UartSet ==
  /\ next \in 1 .. 13
  /\ {"AUX_ENABLES", "AUX_MU_CNTL_REG"} \subseteq DOMAIN reg
  /\ next > 6 => reg.AUX_ENABLES = 1
  /\ next > 12 => reg.AUX_MU_CNTL_REG = 3
  /\ place \in Early => next < 13
  /\ place \notin Early => next = 13

(* A task at p with the frames fs: the handler, and timer_tick behind      *)
(* _schedule, have the frame of their interrupt.                           *)
Framed(p, fs) ==
  /\ p \in Handler \cup {"timer_tick"} => fs # <<>>
  /\ fs # <<>> => fs[1].elr # "timer_tick"

(* A thread enters the kernel with its first frame and leaves it with its  *)
(* last.                                                                   *)
Entered(p, fs) ==
  /\ fs = <<>> <=> p \in Outside \cup {"none"}
  /\ \A i \in 1 .. Len(fs) : fs[i].elr \in Outside <=> i = 1

(* The registers of process: r, or in the first frame.                     *)
Left(p, fs) == IF fs = <<>> THEN p ELSE fs[1].elr
Own0(fs, r) == IF fs = <<>> THEN r ELSE fs[1].regs

(* process of thread t, which has written n characters.                    *)
Running(t, p, fs, r, n) ==
  IF Left(p, fs) = "own"
  THEN /\ Own0(fs, r).array = t
       /\ Own0(fs, r).i = n + IF Own0(fs, r).hand THEN 1 ELSE 0
  ELSE n = 0

InHand(p, fs, r) == Left(p, fs) = "own" /\ Own0(fs, r).hand

Placed(t) == IF t = current THEN place ELSE context[t].pc
Loaded(t) == IF t = current THEN regs ELSE NoRegs
Holds(t) == InHand(Placed(t), frames[t], Loaded(t))

Contexts ==
  \A t \in Tasks :
    IF t < nr_tasks
    THEN /\ t # current => context[t].pc # "none"
         /\ t # 0 => context[t].x20 = t
    ELSE context[t].pc = "none"

Wrote(t) == IF t = 0 THEN 0 ELSE sent[t]

Sound(t, p, fs, r, n) ==
  /\ Framed(p, fs)
  /\ t # 0 => Entered(p, fs) /\ Running(t, p, fs, r, n)

Stacks ==
  \A t \in Tasks : Sound(t, Placed(t), frames[t], Loaded(t), Wrote(t))

(* A loss was paid for by a switch, and so is the one that a thread may    *)
(* have ahead of it: it still has the room it saw, or lost the CPU since.  *)
Losses ==
  \A t \in Workers :
    /\ Cardinality(LostBy(t)) <= switches[t]
    /\ Holds(t) => Cardinality(LostBy(t)) < switches[t] \/ (t = current /\ Room)

(* Ticks a task had and may have yet, and ticks it had as far as they are  *)
(* not owed to it.                                                         *)
Positive(n) == IF n > 0 THEN n ELSE 0
Ahead(t) == served[t] + Positive(counter[t])
Behind(t) == served[t] + counter[t]
Standing == IF place \in Handler THEN Interrupted ELSE place

Counters ==
  /\ nr_tasks <= NThreads => served = [t \in Tasks |-> 0]
  /\ \A t \in Tasks : counter[t] <= Priority /\ counter[t] >= -critical
  /\ \A t \in Tasks : t >= nr_tasks => counter[t] = 0

(* A thread that used up its counter outside of _schedule did so by a tick *)
(* in a critical section, which is one that critical counts.               *)
Shares ==
  /\ \A t, u \in Workers : Ahead(t) - Behind(u) <= Priority + critical
  /\ current # 0 /\ counter[current] <= 0 /\ Standing # "_schedule" =>
       \A u \in Workers : Ahead(current) - Behind(u) < Priority + critical

IInv ==
  /\ Typed /\ UartSet /\ Contexts /\ Stacks
  /\ Losses /\ OutputInOrder /\ Counters /\ Shares

-----------------------------------------------------------------------------
(* Stacks of frames.                                                       *)

USE ThreadsAssumption

LEMMA Sizes ==
  /\ NThreads \in Nat /\ NThreads > 0 /\ Priority \in Nat /\ Priority > 0
  /\ FifoDepth \in Nat /\ FifoDepth > 0
  /\ 0 \in Tasks /\ Workers \subseteq Tasks /\ 0 \notin Workers
  /\ \A t \in Tasks : t # 0 => t \in Workers
BY DEF Tasks, Workers

LEMMA FrontLast ==
  ASSUME NEW s \in Seq(Frame), s # <<>>
  PROVE  /\ Front(s) \in Seq(Frame) /\ Len(Front(s)) = Len(s) - 1
         /\ \A i \in 1 .. Len(s) - 1 : Front(s)[i] = s[i]
         /\ Last(s) = s[Len(s)] /\ Last(s) \in Frame /\ Len(s) \in Nat \ {0}
<1>. DEFINE n == Len(s)
<1>1. n \in Nat /\ n > 0 /\ n \in 1 .. n
  OBVIOUS
<1>2. Front(s) = [i \in 1 .. n - 1 |-> s[i]]
  <2>1. SubSeq(s, 1, n - 1) = [i \in 1 .. (n - 1) - 1 + 1 |-> s[i + 1 - 1]]
    BY <1>1
  <2>2. (n - 1) - 1 + 1 = n - 1 /\ \A i \in 1 .. n - 1 : i + 1 - 1 = i
    BY <1>1
  <2>. QED
    BY <2>1, <2>2 DEF Front
<1>3. \A i \in 1 .. n - 1 : s[i] \in Frame
  OBVIOUS
<1>. HIDE DEF n
<1>4. n - 1 \in Nat
  BY <1>1
<1>5. Front(s) \in Seq(Frame) /\ Len(Front(s)) = n - 1
  BY <1>2, <1>3, <1>4
<1>6. Last(s) = s[n] /\ s[n] \in Frame
  BY <1>1 DEF Last, n
<1>. QED
  BY <1>1, <1>2, <1>5, <1>6 DEF n

LEMMA AppendParts ==
  ASSUME NEW s \in Seq(Frame), NEW f \in Frame
  PROVE  /\ Append(s, f) \in Seq(Frame) /\ Append(s, f) # <<>>
         /\ Len(Append(s, f)) = Len(s) + 1 /\ Len(s) \in Nat
         /\ \A i \in 1 .. Len(s) : Append(s, f)[i] = s[i]
         /\ Append(s, f)[Len(s) + 1] = f /\ Last(Append(s, f)) = f
         /\ s # <<>> => Len(s) > 0
BY DEF Last

LEMMA NoRegsTyped == NoRegs \in Regs /\ ~NoRegs.hand
BY Sizes DEF NoRegs, Regs

(* gs is fs and a frame more, for an interrupt at p with the registers r.  *)
Pushed(gs, fs, p, r) ==
  /\ gs \in Seq(Frame) /\ Len(gs) = Len(fs) + 1
  /\ \A i \in 1 .. Len(fs) : gs[i] = fs[i]
  /\ Last(gs) = gs[Len(fs) + 1]
  /\ Last(gs).regs = r /\ Last(gs).elr = p

LEMMA AppendPushes ==
  ASSUME NEW fs \in Seq(Frame), NEW p \in Interruptible, NEW r \in Regs
  PROVE  Pushed(Append(fs, [regs |-> r, elr |-> p]), fs, p, r)
<1>. DEFINE f == [regs |-> r, elr |-> p]
<1>1. f \in Frame /\ f.regs = r /\ f.elr = p
  BY DEF Frame
<1>. HIDE DEF f
<1>2. /\ Append(fs, f) \in Seq(Frame) /\ Append(fs, f) # <<>>
      /\ Len(Append(fs, f)) = Len(fs) + 1 /\ Len(fs) \in Nat
      /\ \A i \in 1 .. Len(fs) : Append(fs, f)[i] = fs[i]
      /\ Append(fs, f)[Len(fs) + 1] = f /\ Last(Append(fs, f)) = f
  BY <1>1, AppendParts
<1>. QED
  BY <1>1, <1>2 DEF Pushed, f

(* kernel_entry, in task t at p.                                           *)
LEMMA EnterKeeps ==
  ASSUME NEW t, NEW p \in Interruptible, NEW fs \in Seq(Frame),
         NEW r \in Regs, NEW n, Sound(t, p, fs, r, n),
         NEW gs, Pushed(gs, fs, p, r)
  PROVE  /\ Sound(t, "el1_irq", gs, NoRegs, n)
         /\ InHand("el1_irq", gs, NoRegs) <=> InHand(p, fs, r)
<1>. DEFINE f == Last(gs)
            k == Len(fs)
<1>1. f.elr = p /\ f.regs = r
  BY DEF Pushed
<1>2. /\ gs # <<>> /\ Len(gs) = k + 1 /\ k \in Nat
      /\ \A i \in 1 .. k : gs[i] = fs[i]
      /\ gs[k + 1] = f
      /\ fs # <<>> => k > 0
  BY DEF Pushed
<1>. HIDE DEF f
<1>3. fs = <<>> => k = 0 /\ gs[1] = f
  <2>. SUFFICES ASSUME fs = <<>> PROVE k = 0 /\ gs[1] = f
    OBVIOUS
  <2>1. k = 0
    OBVIOUS
  <2>. QED
    BY <1>2, <2>1
<1>4. fs # <<>> => gs[1] = fs[1]
  BY <1>2
<1>. HIDE DEF k
<1>5. Framed("el1_irq", gs)
  BY <1>1, <1>2, <1>3, <1>4 DEF Framed, Sound, Handler
<1>6. ASSUME t # 0 PROVE Entered("el1_irq", gs)
  <2>1. "el1_irq" \notin Outside \cup {"none"}
    BY DEF Outside
  <2>2. ASSUME NEW i \in 1 .. k + 1 PROVE gs[i].elr \in Outside <=> i = 1
    <3>1. CASE i \in 1 .. k
      BY <1>2, <1>6, <3>1 DEF Sound, Entered, k
    <3>2. CASE i = k + 1
      <4>1. gs[i].elr = p /\ p # "none"
        BY <1>1, <1>2, <3>2 DEF Interruptible
      <4>2. p \in Outside <=> fs = <<>>
        BY <1>6, <4>1 DEF Sound, Entered
      <4>3. fs = <<>> <=> k + 1 = 1
        BY <1>2, <1>3
      <4>. QED
        BY <3>2, <4>1, <4>2, <4>3
    <3>. QED
      BY <1>2, <3>1, <3>2
  <2>. QED
    BY <1>2, <2>1, <2>2 DEF Entered
<1>7. Left("el1_irq", gs) = Left(p, fs) /\ Own0(gs, NoRegs) = Own0(fs, r)
  BY <1>1, <1>2, <1>3, <1>4 DEF Left, Own0
<1>8. t # 0 => Running(t, "el1_irq", gs, NoRegs, n)
  BY <1>7 DEF Sound, Running
<1>9. InHand("el1_irq", gs, NoRegs) <=> InHand(p, fs, r)
  BY <1>7 DEF InHand
<1>. QED
  BY <1>5, <1>6, <1>8, <1>9 DEF Sound

(* kernel_exit, in task t at p.                                            *)
LEMMA LeaveKeeps ==
  ASSUME NEW t, NEW p \in {"timer_tick", "kernel_exit"},
         NEW fs \in Seq(Frame), NEW r, NEW n, Sound(t, p, fs, r, n),
         NEW f, f = Last(fs), NEW gs, gs = Front(fs)
  PROVE  /\ gs \in Seq(Frame) /\ fs # <<>>
         /\ f.elr \in Interruptible /\ f.regs \in Regs
         /\ Sound(t, f.elr, gs, f.regs, n)
         /\ t # 0 => (InHand(f.elr, gs, f.regs) <=> InHand(p, fs, r))
<1>. DEFINE k == Len(fs)
<1>1. fs # <<>> /\ fs[1].elr # "timer_tick"
  BY DEF Sound, Framed, Handler
<1>2. /\ gs \in Seq(Frame) /\ Len(gs) = k - 1 /\ k \in Nat \ {0}
      /\ \A i \in 1 .. k - 1 : gs[i] = fs[i]
      /\ f = fs[k] /\ f \in Frame
  BY <1>1, FrontLast
<1>3. f.elr \in Interruptible /\ f.regs \in Regs
  BY <1>2 DEF Frame
<1>. HIDE DEF k
<1>4. gs = <<>> <=> k = 1
  BY <1>2
<1>5. gs # <<>> => gs[1] = fs[1]
  BY <1>2, <1>4
<1>6. Framed(f.elr, gs)
  BY <1>1, <1>2, <1>3, <1>4, <1>5 DEF Framed, Handler, Interruptible
<1>7. ASSUME t # 0 PROVE Entered(f.elr, gs)
  <2>1. \A i \in 1 .. k : fs[i].elr \in Outside <=> i = 1
    BY <1>7 DEF Sound, Entered, k
  <2>2. f.elr \in Outside <=> k = 1
    BY <1>2, <2>1
  <2>3. f.elr # "none"
    BY <1>3 DEF Interruptible
  <2>. QED
    BY <1>2, <1>4, <2>1, <2>2, <2>3 DEF Entered
<1>8. Left(f.elr, gs) = Left(p, fs) /\ Own0(gs, f.regs) = Own0(fs, r)
  BY <1>1, <1>2, <1>4, <1>5 DEF Left, Own0
<1>9. t # 0 => Running(t, f.elr, gs, f.regs, n)
  BY <1>8 DEF Sound, Running
<1>. QED
  BY <1>1, <1>2, <1>3, <1>6, <1>7, <1>8, <1>9 DEF Sound, InHand

(* A step within the kernel.                                               *)
LEMMA MoveKeeps ==
  ASSUME NEW t, NEW p, NEW q, NEW fs, NEW r, NEW s, NEW n,
         Sound(t, p, fs, r, n),
         p \notin Outside \cup {"none"}, q \notin Outside \cup {"none"},
         q \in Handler \cup {"timer_tick"} => fs # <<>>
  PROVE  /\ Sound(t, q, fs, s, n)
         /\ t # 0 => (InHand(q, fs, s) <=> InHand(p, fs, r))
<1>1. Framed(q, fs)
  BY DEF Sound, Framed
<1>2. ASSUME t # 0
      PROVE  fs # <<>> /\ Entered(q, fs)
  BY <1>2 DEF Sound, Entered
<1>3. t # 0 => Left(q, fs) = Left(p, fs) /\ Own0(fs, s) = Own0(fs, r)
  BY <1>2 DEF Left, Own0
<1>. QED
  BY <1>1, <1>2, <1>3 DEF Sound, Running, InHand

-----------------------------------------------------------------------------
(* The first state, and what the steps of the start have in common.        *)

LEMMA InitIInv == Init => IInv
<1>. SUFFICES ASSUME Init PROVE IInv
  OBVIOUS
<1>1. /\ nr_tasks = 1 /\ current = 0 /\ place = "master" /\ regs = NoRegs
      /\ counter = [t \in Tasks |-> 0]
      /\ context = [t \in Tasks |-> [pc |-> "none", x20 |-> 0]]
      /\ frames = [t \in Tasks |-> <<>>]
      /\ sent = [t \in Workers |-> 0]
      /\ tx = <<>> /\ wire = <<>> /\ lost = {}
      /\ switches = [t \in Tasks |-> 0]
      /\ ticks = 0 /\ critical = 0 /\ served = [t \in Tasks |-> 0]
  BY DEF Init
<1>2. IsFiniteSet({})
  BY FS_EmptySet
<1>3. /\ context \in [Tasks -> Saved]
      /\ frames \in [Tasks -> Seq(Frame)]
  <2>1. <<>> \in Seq(Frame)
    OBVIOUS
  <2>. QED
    BY <1>1, <2>1, Sizes
<1>4. Typed
  BY <1>1, <1>2, <1>3, NoRegsTyped, Sizes DEF Typed, Startup, Early
<1>5. UartSet
  <2>1. PICK on \in {0, 1}, old \in {0, 3} :
          reg = [GPFSEL1 |-> [p \in Pins |-> Firmware], GPPUD |-> 2,
                 GPPUDCLK0 |-> {}, AUX_ENABLES |-> on, AUX_MU_CNTL_REG |-> old,
                 AUX_MU_IER_REG |-> old, AUX_MU_LCR_REG |-> 0,
                 AUX_MU_MCR_REG |-> old, AUX_MU_BAUD_REG |-> old]
    BY DEF Init, ResetUart
  <2>2. {"AUX_ENABLES", "AUX_MU_CNTL_REG"} \subseteq DOMAIN reg
    BY <2>1
  <2>3. next = 1
    BY DEF Init, ResetUart
  <2>. QED
    BY <1>1, <2>2, <2>3 DEF UartSet, Early
<1>6. Contexts
  BY <1>1, Sizes DEF Contexts, Tasks
<1>7. Stacks
  <2>. SUFFICES ASSUME NEW t \in Tasks
                PROVE  Sound(t, Placed(t), frames[t], Loaded(t), Wrote(t))
    BY DEF Stacks
  <2>1. frames[t] = <<>> /\ Wrote(t) = 0
    BY <1>1, Sizes DEF Wrote
  <2>2. Placed(t) = IF t = 0 THEN "master" ELSE "none"
    BY <1>1 DEF Placed
  <2>3. Framed(Placed(t), <<>>)
    BY <2>2 DEF Framed, Handler
  <2>4. t # 0 => Entered(Placed(t), <<>>)
    BY <2>2 DEF Entered
  <2>5. t # 0 => Running(t, Placed(t), <<>>, Loaded(t), 0)
    BY <2>2 DEF Running, Left
  <2>. QED
    BY <2>1, <2>3, <2>4, <2>5 DEF Sound
<1>8. Losses /\ OutputInOrder
  <2>. SUFFICES ASSUME NEW t \in Workers
                PROVE  /\ Cardinality(LostBy(t)) <= switches[t]
                       /\ ~Holds(t)
                       /\ OwnAt(t) = {} /\ LostBy(t) = {} /\ sent[t] = 0
    BY DEF Losses, OutputInOrder
  <2>1. LostBy(t) = {} /\ sent[t] = 0 /\ switches[t] = 0
    BY <1>1, Sizes DEF LostBy
  <2>2. Out = <<>>
    BY <1>1 DEF Out
  <2>3. OwnAt(t) = {}
    BY <2>2 DEF OwnAt
  <2>4. Placed(t) = "none" /\ frames[t] = <<>>
    BY <1>1, Sizes DEF Placed
  <2>5. ~Holds(t)
    BY <2>4 DEF Holds, InHand, Left
  <2>. QED
    BY <2>1, <2>3, <2>5, FS_EmptySet
<1>9. Counters /\ Shares
  <2>1. Counters
    BY <1>1, Sizes DEF Counters
  <2>2. \A t \in Workers : Ahead(t) = 0 /\ Behind(t) = 0
    BY <1>1, Sizes DEF Ahead, Behind, Positive
  <2>. QED
    BY <1>1, <2>1, <2>2, Sizes DEF Shares
<1>. QED
  BY <1>4, <1>5, <1>6, <1>7, <1>8, <1>9 DEF IInv

(* The steps of kernel_main up to enable_irq.                              *)
Start ==
  \/ Master \/ UartSelector \/ UartInit \/ InitPrintf \/ IrqVectorInit
  \/ TimerInit \/ EnableInterruptController \/ EnableIrq

LEMMA StartStep ==
  ASSUME IInv, Start
  PROVE  /\ UNCHANGED <<sched, frames, regs, clock, sent, tx, wire, lost>>
         /\ place \in Startup /\ place' \in Startup \cup {"own"}
         /\ current = 0 /\ nr_tasks = 1
<1>1. CASE Master
  BY <1>1 DEF Master, IInv, Typed, Startup, Early, uart
<1>2. CASE UartSelector \/ UartInit
  BY <1>2 DEF UartSelector, UartInit, IInv, Typed, Startup, Early
<1>3. ASSUME NEW call \in Startup, NEW after \in Startup \cup {"own"},
             SetUp(call, after)
      PROVE  /\ UNCHANGED <<sched, frames, regs, clock, sent, tx, wire, lost>>
             /\ place \in Startup /\ place' \in Startup \cup {"own"}
             /\ current = 0 /\ nr_tasks = 1
  BY <1>3 DEF SetUp, IInv, Typed, uart
<1>4. CASE InitPrintf
  BY <1>3, <1>4 DEF InitPrintf, Startup
<1>5. CASE IrqVectorInit
  BY <1>3, <1>5 DEF IrqVectorInit, Startup
<1>6. CASE TimerInit
  BY <1>3, <1>6 DEF TimerInit, Startup
<1>7. CASE EnableInterruptController
  BY <1>3, <1>7 DEF EnableInterruptController, Startup
<1>8. CASE EnableIrq
  BY <1>3, <1>8 DEF EnableIrq, Startup
<1>. QED
  BY <1>1, <1>2, <1>4, <1>5, <1>6, <1>7, <1>8 DEF Start

LEMMA AccessAt ==
  /\ Len(Access) = 12
  /\ Access[2].op = "delay" /\ Access[4].op = "delay"
  /\ Access[6] = Put32("AUX_ENABLES", 1)
  /\ Access[12] = Put32("AUX_MU_CNTL_REG", 3)
  /\ \A i \in 1 .. 12 :
       Access[i].op = "put32" /\ i # 6 => Access[i].r # "AUX_ENABLES"
<1>1. /\ Len(Access) = 12
      /\ Access[6] = Put32("AUX_ENABLES", 1)
      /\ Access[12] = Put32("AUX_MU_CNTL_REG", 3)
      /\ Access[1].r = "GPPUD" /\ Access[2].op = "delay"
      /\ Access[3].r = "GPPUDCLK0" /\ Access[4].op = "delay"
      /\ Access[5].r = "GPPUDCLK0"
      /\ Access[7].r = "AUX_MU_CNTL_REG" /\ Access[8].r = "AUX_MU_IER_REG"
      /\ Access[9].r = "AUX_MU_LCR_REG" /\ Access[10].r = "AUX_MU_MCR_REG"
      /\ Access[11].r = "AUX_MU_BAUD_REG" /\ Access[12].r = "AUX_MU_CNTL_REG"
  BY DEF Access, Put32, Delay
<1>. QED
  BY <1>1

LEMMA AccessKeeps ==
  ASSUME UartSet, AccessNext, next < 13
  PROVE  /\ next' = next + 1
         /\ {"AUX_ENABLES", "AUX_MU_CNTL_REG"} \subseteq DOMAIN reg'
         /\ next' > 6 => reg'.AUX_ENABLES = 1
         /\ next' > 12 => reg'.AUX_MU_CNTL_REG = 3
<1>1. next \in 1 .. 12 /\ next' = next + 1
  BY DEF UartSet, AccessNext
<1>2. CASE Access[next].op = "delay"
  <2>1. reg' = reg
    BY <1>2 DEF AccessNext, Elapsed
  <2>2. next # 6 /\ next # 12
    BY <1>2, AccessAt DEF Put32
  <2>. QED
    BY <1>1, <2>1, <2>2 DEF UartSet
<1>3. CASE Access[next].op # "delay"
  <2>. DEFINE a == Access[next]
  <2>1. reg' = IF a.r \in AuxMu /\ reg.AUX_ENABLES = 0 THEN reg
               ELSE [reg EXCEPT ![a.r] = a.value]
    BY <1>3 DEF AccessNext, Written
  <2>2. CASE next = 6
    <3>1. a.r = "AUX_ENABLES" /\ a.value = 1 /\ a.r \notin AuxMu
      BY <2>2, AccessAt DEF Put32, AuxMu
    <3>. QED
      BY <1>1, <2>1, <2>2, <3>1 DEF UartSet
  <2>3. CASE next = 12
    <3>1. a.r = "AUX_MU_CNTL_REG" /\ a.value = 3 /\ reg.AUX_ENABLES = 1
      BY <2>3, AccessAt DEF Put32, UartSet
    <3>2. reg' = [reg EXCEPT ![a.r] = a.value]
      BY <2>1, <3>1
    <3>. QED
      BY <1>1, <2>3, <3>1, <3>2 DEF UartSet
  <2>4. CASE next \notin {6, 12}
    <3>1. next > 6 => a.r # "AUX_ENABLES"
      <4>1. \A i \in {7, 8, 9, 10, 11} : Access[i].op = "put32"
        BY DEF Access, Put32
      <4>. QED
        BY <1>1, <2>4, <4>1, AccessAt
    <3>2. next > 6 => reg'.AUX_ENABLES = 1
      BY <2>1, <3>1 DEF UartSet
    <3>3. {"AUX_ENABLES", "AUX_MU_CNTL_REG"} \subseteq DOMAIN reg'
      BY <2>1 DEF UartSet
    <3>. QED
      BY <1>1, <2>4, <3>2, <3>3
  <2>. QED
    BY <2>2, <2>3, <2>4
<1>. QED
  BY <1>2, <1>3

LEMMA UartSetNext == ASSUME IInv, Next PROVE UartSet'
<1>. USE DEF IInv
<1>1. CASE UartSelector
  <2>1. /\ reg' = [reg EXCEPT !.GPFSEL1 = Selector] /\ next' = next
        /\ place = "selector" /\ place' = "uart_init"
    BY <1>1 DEF UartSelector, Select
  <2>2. /\ DOMAIN reg' = DOMAIN reg
        /\ \A r \in DOMAIN reg \ {"GPFSEL1"} : reg'[r] = reg[r]
    BY <2>1
  <2>. QED
    BY <2>1, <2>2 DEF UartSet, Early
<1>2. CASE UartInit
  <2>1. place = "uart_init" /\ next < 13 /\ next \in 1 .. 13 /\ AccessNext
    BY <1>2 DEF UartInit, UartSet, Early
  <2>2. place' = IF next < 12 THEN "uart_init" ELSE "init_printf"
    BY <1>2, AccessAt DEF UartInit
  <2>. QED
    BY <2>1, <2>2, AccessKeeps DEF UartSet, Early
<1>3. CASE Master
  BY <1>3 DEF Master, UartSet, Early, uart, board
<1>4. ASSUME NEW call, NEW after, SetUp(call, after),
             call \notin Early, after \notin Early
      PROVE  UartSet'
  BY <1>4 DEF SetUp, UartSet, uart, board, Early
<1>5. CASE \/ InitPrintf \/ IrqVectorInit \/ TimerInit
           \/ EnableInterruptController \/ EnableIrq
  BY <1>4, <1>5 DEF InitPrintf, IrqVectorInit, TimerInit,
                    EnableInterruptController, EnableIrq, Early
<1>6. ASSUME UNCHANGED board, place \notin Early, place' \notin Early
      PROVE  UartSet'
  BY <1>6 DEF UartSet, board, Early
<1>7. CASE CopyProcess \/ Schedule \/ Refill \/ Stay \/ RetFromFork
  BY <1>6, <1>7 DEF CopyProcess, Own, Schedule, Refill, Stay, RetFromFork,
                    Early, uart, cpu
<1>8. CASE CpuSwitchTo
  <2>1. PICK t \in Created : t # current /\ place' = context[t].pc
    BY <1>8 DEF CpuSwitchTo
  <2>2. place' \notin Early
    BY <2>1 DEF Created, Contexts, Typed, Early, Saved
  <2>. QED
    BY <1>6, <1>8, <2>2 DEF CpuSwitchTo, uart, Early
<1>9. CASE PreemptEnable \/ Irq \/ TimerTick \/ TickCritical
  BY <1>6, <1>9 DEF PreemptEnable, Irq, TimerTick, TickCritical, Early, uart,
                    Interruptible, Vector
<1>10. CASE KernelExit
  <2>1. frames[current] \in Seq(Frame) /\ frames[current] # <<>>
    BY <1>10 DEF KernelExit, Typed, Stacks, Sound, Framed, Placed, Handler
  <2>2. place' \in Interruptible
    BY <1>10, <2>1, FrontLast DEF KernelExit, Frame
  <2>. QED
    BY <1>6, <1>10, <2>2 DEF KernelExit, uart, Early, Interruptible
<1>11. CASE Shift
  BY <1>6, <1>11 DEF Shift, cpu, UartSet, board
<1>12. CASE SendPoll \/ SendPut
  BY <1>6, <1>12 DEF SendPoll, SendPut, Process, Own, Early, uart
<1>. QED
  BY <1>1, <1>2, <1>3, <1>5, <1>7, <1>8, <1>9, <1>10, <1>11, <1>12 DEF Next

-----------------------------------------------------------------------------
(* Stacks: what a step does to them.                                       *)

NoNewHand == \A t \in Workers : Holds(t)' => Holds(t)

(* A step of task c that leaves the others alone.                          *)
LEMMA OthersKept ==
  ASSUME Stacks, NEW c \in Tasks, c = current, current' = c,
         \A t \in Tasks \ {c} :
           /\ context'[t].pc = context[t].pc
           /\ frames'[t] = frames[t] /\ Wrote(t)' = Wrote(t),
         Sound(c, place', frames'[c], regs', Wrote(c)')
  PROVE  /\ Stacks'
         /\ \A t \in Tasks \ {c} : Holds(t)' <=> Holds(t)
         /\ Holds(c) <=> InHand(place, frames[c], regs)
         /\ Holds(c)' <=> InHand(place', frames'[c], regs')
<1>1. ASSUME NEW t \in Tasks \ {c}
      PROVE  /\ Placed(t)' = Placed(t) /\ Loaded(t)' = Loaded(t)
             /\ frames'[t] = frames[t] /\ Wrote(t)' = Wrote(t)
  BY <1>1 DEF Placed, Loaded
<1>2. /\ Placed(c)' = place' /\ Loaded(c)' = regs'
      /\ Placed(c) = place /\ Loaded(c) = regs
  BY DEF Placed, Loaded
<1>3. ASSUME NEW t \in Tasks
      PROVE  Sound(t, Placed(t)', frames'[t], Loaded(t)', Wrote(t)')
  <2>1. CASE t = c
    BY <1>2, <2>1
  <2>2. CASE t # c
    <3>1. Sound(t, Placed(t), frames[t], Loaded(t), Wrote(t))
      BY DEF Stacks
    <3>. QED
      BY <1>1, <2>2, <3>1
  <2>. QED
    BY <2>1, <2>2
<1>4. Stacks'
  BY <1>3 DEF Stacks
<1>5. ASSUME NEW t \in Tasks \ {c} PROVE Holds(t)' <=> Holds(t)
  BY <1>1 DEF Holds
<1>. QED
  BY <1>2, <1>4, <1>5 DEF Holds

LEMMA StepKeeps ==
  ASSUME Stacks, NEW c \in Tasks, c = current, current' = c,
         \A t \in Tasks \ {c} :
           /\ context'[t].pc = context[t].pc
           /\ frames'[t] = frames[t] /\ Wrote(t)' = Wrote(t),
         Sound(c, place', frames'[c], regs', Wrote(c)'),
         c # 0 => (InHand(place', frames'[c], regs') =>
                   InHand(place, frames[c], regs))
  PROVE  Stacks' /\ NoNewHand
BY OthersKept, Sizes DEF NoNewHand

LEMMA SoundNow ==
  ASSUME Typed, Stacks
  PROVE  /\ Sound(current, place, frames[current], regs, Wrote(current))
         /\ frames[current] \in Seq(Frame)
BY DEF Stacks, Placed, Loaded, Typed

(* A thread that runs its own code has no frame.                           *)
LEMMA OwnHasNone ==
  ASSUME Typed, Stacks, current # 0, place \in Outside
  PROVE  /\ frames[current] = <<>>
         /\ place = "own" =>
              /\ regs.array = current
              /\ regs.i = sent[current] + IF regs.hand THEN 1 ELSE 0
         /\ place # "own" => sent[current] = 0
<1>1. /\ Entered(place, frames[current])
      /\ Running(current, place, frames[current], regs, sent[current])
  BY SoundNow DEF Sound, Wrote
<1>2. frames[current] = <<>>
  BY <1>1 DEF Entered
<1>. QED
  BY <1>1, <1>2 DEF Running, Left, Own0

LEMMA StacksStart == ASSUME IInv, Start PROVE Stacks' /\ NoNewHand
<1>1. /\ UNCHANGED <<sched, frames, regs, clock, sent, tx, wire, lost>>
      /\ place' \in Startup \cup {"own"} /\ current = 0
  BY StartStep
<1>2. Sound(0, place, frames[0], regs, Wrote(0)) /\ Stacks /\ place \in Startup
  BY <1>1, StartStep, SoundNow DEF IInv
<1>3. Framed(place', frames[0])
  <2>1. place' \notin Handler \cup {"timer_tick"}
    BY <1>1 DEF Startup, Early, Handler
  <2>. QED
    BY <1>2, <2>1 DEF Sound, Framed
<1>4. Sound(0, place', frames'[0], regs', Wrote(0)')
  BY <1>1, <1>3 DEF Sound
<1>5. current' = 0 /\ context' = context /\ frames' = frames /\ sent' = sent
  BY <1>1 DEF sched
<1>6. \A t \in Tasks \ {0} :
           /\ context'[t].pc = context[t].pc
           /\ frames'[t] = frames[t] /\ Wrote(t)' = Wrote(t)
  BY <1>5 DEF Wrote
<1>. QED
  BY <1>1, <1>2, <1>4, <1>5, <1>6, StepKeeps, Sizes

LEMMA StacksCopyProcess ==
  ASSUME IInv, CopyProcess PROVE Stacks' /\ NoNewHand
<1>1. PICK k \in Workers :
        /\ k = nr_tasks /\ current = 0 /\ current' = 0 /\ place = "own"
        /\ context' = [context EXCEPT ![k] = [pc |-> "ret_from_fork", x20 |-> k]]
        /\ UNCHANGED <<frames, place, regs, sent>>
  <2>1. nr_tasks \in Workers
    BY DEF CopyProcess, IInv, Typed, Workers
  <2>. QED
    BY <2>1 DEF CopyProcess, Own, cpu, uart
<1>2. /\ context \in [Tasks -> Saved]
      /\ context[k].pc = "none" /\ Stacks
  <2>1. k \in Tasks /\ ~(k < nr_tasks)
    BY <1>1, Sizes DEF Workers
  <2>2. context[k].pc = "none"
    BY <2>1 DEF IInv, Contexts
  <2>. QED
    BY <2>2 DEF IInv, Typed
<1>3. /\ context'[k].pc = "ret_from_fork"
      /\ \A t \in Tasks \ {k} : context'[t] = context[t]
  BY <1>1, <1>2, Sizes
<1>4. ASSUME NEW t \in Tasks \ {k}
      PROVE  /\ Placed(t)' = Placed(t) /\ Loaded(t)' = Loaded(t)
             /\ Wrote(t)' = Wrote(t)
  BY <1>1, <1>3, <1>4 DEF Placed, Loaded, Wrote
<1>5. /\ Placed(k) = "none" /\ Placed(k)' = "ret_from_fork" /\ k \in Tasks
      /\ Wrote(k)' = Wrote(k) /\ Loaded(k)' = NoRegs /\ k # 0
  BY <1>1, <1>2, <1>3, Sizes DEF Placed, Loaded, Wrote
<1>6. Sound(k, "none", frames[k], Loaded(k), Wrote(k))
  BY <1>2, <1>5 DEF Stacks
<1>7. frames[k] = <<>>
  BY <1>5, <1>6 DEF Sound, Entered
<1>8. Sound(k, "ret_from_fork", frames[k], NoRegs, Wrote(k))
  <2>1. Framed("ret_from_fork", <<>>) /\ Entered("ret_from_fork", <<>>)
    BY DEF Framed, Entered, Handler, Outside
  <2>2. Wrote(k) = 0
    BY <1>5, <1>6, <1>7 DEF Sound, Running, Left
  <2>3. Running(k, "ret_from_fork", <<>>, NoRegs, 0)
    BY DEF Running, Left
  <2>. QED
    BY <1>7, <2>1, <2>2, <2>3 DEF Sound
<1>9. ASSUME NEW t \in Tasks
      PROVE  Sound(t, Placed(t)', frames'[t], Loaded(t)', Wrote(t)')
  <2>1. CASE t = k
    BY <1>1, <1>5, <1>8, <2>1
  <2>2. CASE t # k
    <3>1. Sound(t, Placed(t), frames[t], Loaded(t), Wrote(t))
      BY <1>2 DEF Stacks
    <3>. QED
      BY <1>1, <1>4, <2>2, <3>1
  <2>. QED
    BY <2>1, <2>2
<1>10. ASSUME NEW t \in Workers, Holds(t)' PROVE Holds(t)
  <2>1. CASE t = k
    <3>1. ~InHand("ret_from_fork", <<>>, NoRegs)
      BY DEF InHand, Left
    <3>. QED
      BY <1>1, <1>5, <1>7, <1>10, <2>1, <3>1 DEF Holds
  <2>2. CASE t # k
    BY <1>1, <1>4, <1>10, <2>2, Sizes DEF Holds
  <2>. QED
    BY <2>1, <2>2
<1>. QED
  BY <1>9, <1>10 DEF Stacks, NoNewHand

LEMMA StacksSwitch ==
  ASSUME IInv, CpuSwitchTo PROVE Stacks' /\ NoNewHand
<1>1. PICK u \in Created : /\ u # current /\ current' = u
                           /\ place' = context[u].pc
  BY DEF CpuSwitchTo
<1>2. /\ u \in Tasks /\ current \in Tasks /\ place = "_schedule" /\ Stacks
      /\ regs' = NoRegs /\ frames' = frames /\ sent' = sent
      /\ context' = [context EXCEPT ![current].pc = "switched"]
      /\ context \in [Tasks -> Saved]
  BY <1>1 DEF CpuSwitchTo, Created, IInv, Typed, uart
<1>3. /\ context'[current].pc = "switched"
      /\ \A t \in Tasks \ {current} : context'[t] = context[t]
  BY <1>2
<1>4. ASSUME NEW t \in Tasks
      PROVE  /\ Sound(t, Placed(t)', frames'[t], Loaded(t)', Wrote(t)')
             /\ t # 0 => (Holds(t)' <=> Holds(t))
  <2>1. Sound(t, Placed(t), frames[t], Loaded(t), Wrote(t)) /\ Wrote(t)' = Wrote(t)
    BY <1>2 DEF Stacks, Wrote
  <2>2. CASE t = current
    <3>1. Placed(t) = "_schedule" /\ Placed(t)' = "switched" /\ Loaded(t)' = NoRegs
      BY <1>1, <1>2, <1>3, <2>2 DEF Placed, Loaded
    <3>2. /\ "_schedule" \notin Outside \cup {"none"}
          /\ "switched" \notin Outside \cup {"none"}
          /\ "switched" \notin Handler \cup {"timer_tick"}
      BY DEF Outside, Handler
    <3>3. Sound(t, "_schedule", frames[t], Loaded(t), Wrote(t))
      BY <2>1, <3>1
    <3>4. /\ Sound(t, "switched", frames[t], NoRegs, Wrote(t))
          /\ t # 0 => (InHand("switched", frames[t], NoRegs) <=>
                       InHand("_schedule", frames[t], Loaded(t)))
      BY <3>2, <3>3, MoveKeeps
    <3>. QED
      BY <1>2, <2>1, <3>1, <3>4 DEF Holds
  <2>3. CASE t # current
    <3>1. Placed(t)' = Placed(t) /\ Loaded(t) = NoRegs /\ Loaded(t)' = NoRegs
      BY <1>1, <1>2, <1>3, <2>3 DEF Placed, Loaded
    <3>. QED
      BY <1>2, <2>1, <3>1 DEF Holds
  <2>. QED
    BY <2>2, <2>3
<1>. QED
  BY <1>4, Sizes DEF Stacks, NoNewHand

(* The steps of the task on the CPU, the others left alone.                *)
LEMMA StacksOwn ==
  ASSUME IInv,
         Schedule \/ Refill \/ Stay \/ PreemptEnable \/ TimerTick \/ TickCritical
  PROVE  Stacks' /\ NoNewHand
<1>1. PICK c \in Tasks : c = current
  BY DEF IInv, Typed
<1>2. /\ Sound(c, place, frames[c], regs, Wrote(c)) /\ Stacks
      /\ frames[c] \in Seq(Frame)
  BY <1>1, SoundNow DEF IInv
<1>3. /\ UNCHANGED <<context, frames, regs, sent>> /\ current' = c
      /\ \A t \in Tasks :
           /\ context'[t].pc = context[t].pc
           /\ frames'[t] = frames[t] /\ Wrote(t)' = Wrote(t)
  BY <1>1 DEF Schedule, Refill, Stay, PreemptEnable, TimerTick, TickCritical,
              sched, cpu, uart, Wrote
<1>4. ASSUME place \notin Outside \cup {"none"},
             place' \notin Outside \cup {"none"},
             place' \in Handler \cup {"timer_tick"} => frames[c] # <<>>
      PROVE  Stacks' /\ NoNewHand
  <2>1. /\ Sound(c, place', frames[c], regs, Wrote(c))
        /\ c # 0 => (InHand(place', frames[c], regs) <=>
                     InHand(place, frames[c], regs))
    BY <1>2, <1>4, MoveKeeps
  <2>. QED
    BY <1>1, <1>2, <1>3, <2>1, StepKeeps
<1>5. ASSUME c = 0, place' \notin Handler \cup {"timer_tick"}
      PROVE  Stacks' /\ NoNewHand
  <2>1. Sound(c, place', frames[c], regs, Wrote(c))
    BY <1>2, <1>5 DEF Sound, Framed
  <2>. QED
    BY <1>1, <1>2, <1>3, <1>5, <2>1, StepKeeps
<1>6. CASE Schedule
  BY <1>1, <1>5, <1>6 DEF Schedule, Handler
<1>7. CASE Refill
  <2>1. place = "_schedule" /\ place' = "_schedule"
    BY <1>7 DEF Refill, cpu
  <2>. QED
    BY <1>4, <2>1 DEF Outside, Handler
<1>8. CASE Stay
  BY <1>4, <1>8 DEF Stay, Outside, Handler
<1>9. CASE PreemptEnable
  <2>1. CASE frames[c] = <<>>
    <3>1. place = "switched" /\ place' = "own"
      BY <1>1, <1>9, <2>1 DEF PreemptEnable
    <3>2. c = 0
      BY <1>2, <2>1, <3>1 DEF Sound, Entered, Outside
    <3>. QED
      BY <1>5, <3>1, <3>2 DEF Handler
  <2>2. CASE frames[c] # <<>>
    <3>1. place = "switched" /\ place' = "timer_tick"
      BY <1>1, <1>9, <2>2 DEF PreemptEnable
    <3>. QED
      BY <1>4, <2>2, <3>1 DEF Outside
  <2>. QED
    BY <2>1, <2>2
<1>10. CASE TimerTick \/ TickCritical
  <2>1. place = "el1_irq" /\ place' \in {"_schedule", "kernel_exit"}
    BY <1>10 DEF TimerTick, TickCritical
  <2>2. frames[c] # <<>>
    BY <1>2, <2>1 DEF Sound, Framed, Handler
  <2>. QED
    BY <1>4, <2>1, <2>2 DEF Outside
<1>. QED
  BY <1>6, <1>7, <1>8, <1>9, <1>10

LEMMA StacksRetFromFork ==
  ASSUME IInv, RetFromFork PROVE Stacks' /\ NoNewHand
<1>1. PICK c \in Tasks : c = current
  BY DEF IInv, Typed
<1>2. /\ Sound(c, place, frames[c], regs, Wrote(c)) /\ Stacks
      /\ frames[c] \in Seq(Frame) /\ place = "ret_from_fork"
  BY <1>1, SoundNow DEF IInv, RetFromFork
<1>3. /\ UNCHANGED <<context, frames, sent>> /\ current' = c /\ place' = "own"
      /\ regs' = [NoRegs EXCEPT !.array = context[c].x20]
      /\ \A t \in Tasks :
           /\ context'[t].pc = context[t].pc
           /\ frames'[t] = frames[t] /\ Wrote(t)' = Wrote(t)
  BY <1>1 DEF RetFromFork, sched, uart, Wrote
<1>4. /\ regs'.array = context[c].x20 /\ regs'.i = 0 /\ regs'.hand = FALSE
  BY <1>3 DEF NoRegs
<1>5. Framed("own", frames[c])
  BY <1>2 DEF Sound, Framed, Handler
<1>6. ASSUME c # 0
      PROVE  /\ Entered("own", frames[c])
             /\ Running(c, "own", frames[c], regs', Wrote(c))
             /\ ~InHand("own", frames[c], regs')
  <2>1. Entered(place, frames[c]) /\ Running(c, place, frames[c], regs, Wrote(c))
    BY <1>2, <1>6 DEF Sound
  <2>2. frames[c] = <<>>
    BY <1>2, <2>1 DEF Entered, Outside
  <2>3. Wrote(c) = 0
    BY <1>2, <2>1, <2>2 DEF Running, Left
  <2>4. context[c].x20 = c
    BY <1>1, <1>6 DEF IInv, Contexts, Typed
  <2>5. Entered("own", frames[c])
    BY <2>2 DEF Entered, Outside
  <2>6. Left("own", frames[c]) = "own" /\ Own0(frames[c], regs') = regs'
    BY <2>2 DEF Left, Own0
  <2>7. Running(c, "own", frames[c], regs', 0)
    BY <1>4, <2>4, <2>6 DEF Running
  <2>8. ~InHand("own", frames[c], regs')
    BY <1>4, <2>6 DEF InHand
  <2>. QED
    BY <2>3, <2>5, <2>7, <2>8
<1>7. Sound(c, place', frames'[c], regs', Wrote(c)')
  BY <1>3, <1>5, <1>6 DEF Sound
<1>8. c # 0 => ~InHand(place', frames'[c], regs')
  BY <1>3, <1>6
<1>. QED
  BY <1>1, <1>2, <1>3, <1>7, <1>8, StepKeeps

LEMMA StacksIrq == ASSUME IInv, Irq PROVE Stacks' /\ NoNewHand
<1>1. PICK c \in Tasks : c = current
  BY DEF IInv, Typed
<1>2. /\ Sound(c, place, frames[c], regs, Wrote(c)) /\ Stacks
      /\ frames[c] \in Seq(Frame) /\ place \in Interruptible
      /\ regs \in Regs /\ frames \in [Tasks -> Seq(Frame)]
  BY <1>1, SoundNow DEF IInv, Irq, Typed
<1>3. /\ UNCHANGED <<context, sent>> /\ current' = c /\ regs' = NoRegs
      /\ frames' = [frames EXCEPT ![c] =
                      Append(@, [regs |-> regs, elr |-> place])]
      /\ place' = "el1_irq"
  BY <1>1 DEF Irq, KernelEntry, Vector, sched, uart
<1>4. /\ frames'[c] = Append(frames[c], [regs |-> regs, elr |-> place])
      /\ \A t \in Tasks \ {c} : frames'[t] = frames[t]
  BY <1>2, <1>3
<1>5. \A t \in Tasks : context'[t].pc = context[t].pc /\ Wrote(t)' = Wrote(t)
  BY <1>3 DEF Wrote
<1>6. /\ Sound(c, "el1_irq", frames'[c], NoRegs, Wrote(c))
      /\ InHand("el1_irq", frames'[c], NoRegs) <=>
           InHand(place, frames[c], regs)
  <2>1. Pushed(frames'[c], frames[c], place, regs)
    BY <1>2, <1>4, AppendPushes
  <2>. QED
    BY <1>2, <2>1, EnterKeeps
<1>7. /\ Sound(c, place', frames'[c], regs', Wrote(c)')
      /\ c # 0 => (InHand(place', frames'[c], regs') =>
                   InHand(place, frames[c], regs))
  <2>1. Wrote(c)' = Wrote(c) /\ place' = "el1_irq" /\ regs' = NoRegs
    BY <1>3, <1>5
  <2>. QED
    BY <1>6, <2>1
<1>. QED
  BY <1>1, <1>2, <1>3, <1>4, <1>5, <1>7, StepKeeps

LEMMA StacksKernelExit ==
  ASSUME IInv, KernelExit
  PROVE  /\ Stacks' /\ NoNewHand
         /\ place' \in Interruptible /\ regs' \in Regs
         /\ frames' \in [Tasks -> Seq(Frame)]
<1>1. PICK c \in Tasks : c = current
  BY DEF IInv, Typed
<1>2. /\ Sound(c, place, frames[c], regs, Wrote(c)) /\ Stacks
      /\ frames[c] \in Seq(Frame) /\ place \in {"timer_tick", "kernel_exit"}
      /\ frames \in [Tasks -> Seq(Frame)]
  BY <1>1, SoundNow DEF IInv, KernelExit, Typed
<1>3. /\ UNCHANGED <<context, sent>> /\ current' = c
      /\ frames' = [frames EXCEPT ![c] = Front(@)]
      /\ regs' = Last(frames[c]).regs /\ place' = Last(frames[c]).elr
  BY <1>1 DEF KernelExit, Restored, sched, uart
<1>4. /\ frames'[c] = Front(frames[c])
      /\ \A t \in Tasks \ {c} : frames'[t] = frames[t]
  BY <1>2, <1>3
<1>5. \A t \in Tasks : context'[t].pc = context[t].pc /\ Wrote(t)' = Wrote(t)
  BY <1>3 DEF Wrote
<1>6. /\ frames'[c] \in Seq(Frame)
      /\ place' \in Interruptible /\ regs' \in Regs
      /\ Sound(c, place', frames'[c], regs', Wrote(c))
      /\ c # 0 => (InHand(place', frames'[c], regs') <=>
                   InHand(place, frames[c], regs))
  <2>1. PICK f : f = Last(frames[c])
    OBVIOUS
  <2>2. PICK gs : gs = Front(frames[c])
    OBVIOUS
  <2>3. /\ gs \in Seq(Frame) /\ f.elr \in Interruptible /\ f.regs \in Regs
        /\ Sound(c, f.elr, gs, f.regs, Wrote(c))
        /\ c # 0 => (InHand(f.elr, gs, f.regs) <=>
                     InHand(place, frames[c], regs))
    BY <1>2, <2>1, <2>2, LeaveKeeps
  <2>4. place' = f.elr /\ regs' = f.regs /\ frames'[c] = gs
    BY <1>3, <1>4, <2>1, <2>2
  <2>. QED
    BY <2>3, <2>4
<1>7. frames' \in [Tasks -> Seq(Frame)]
  BY <1>2, <1>3, <1>4, <1>6
<1>8. Stacks' /\ NoNewHand
  BY <1>1, <1>2, <1>3, <1>4, <1>5, <1>6, StepKeeps
<1>. QED
  BY <1>6, <1>7, <1>8

LEMMA StacksSendPoll ==
  ASSUME IInv, SendPoll
  PROVE  /\ Stacks' /\ Room'
         /\ \A t \in Workers \ {current} : Holds(t)' <=> Holds(t)
<1>1. PICK c \in Tasks : c = current /\ c # 0
  BY DEF IInv, Typed, SendPoll, Process
<1>2. /\ Sound(c, place, frames[c], regs, Wrote(c)) /\ Stacks /\ place = "own"
      /\ regs \in Regs
  BY <1>1, SoundNow DEF IInv, SendPoll, Process, Own, Typed
<1>3. /\ UNCHANGED <<context, frames, sent, place>> /\ current' = c
      /\ regs' = [regs EXCEPT !.i = @ + 1, !.hand = TRUE] /\ ~regs.hand
      /\ \A t \in Tasks :
           /\ context'[t].pc = context[t].pc
           /\ frames'[t] = frames[t] /\ Wrote(t)' = Wrote(t)
  BY <1>1 DEF SendPoll, sched, uart, Wrote
<1>4. frames[c] = <<>> /\ regs.array = c /\ regs.i = Wrote(c)
  <2>1. /\ frames[c] = <<>> /\ regs.array = c
        /\ regs.i = sent[c] + IF regs.hand THEN 1 ELSE 0
    BY <1>1, <1>2, OwnHasNone DEF IInv, Outside
  <2>2. (IF regs.hand THEN 1 ELSE 0) = 0
    BY <1>3
  <2>3. sent[c] \in Nat /\ Wrote(c) = sent[c]
    BY <1>1, Sizes DEF IInv, Typed, Wrote
  <2>. QED
    BY <2>1, <2>2, <2>3
<1>5. regs'.array = c /\ regs'.i = Wrote(c) + 1 /\ regs'.hand
  BY <1>2, <1>3, <1>4 DEF Regs
<1>6. Running(c, "own", <<>>, regs', Wrote(c))
  BY <1>5 DEF Running, Left, Own0
<1>7. Sound(c, place', frames'[c], regs', Wrote(c)')
  BY <1>2, <1>3, <1>4, <1>6 DEF Sound
<1>8. Stacks' /\ \A t \in Tasks \ {c} : Holds(t)' <=> Holds(t)
  BY <1>1, <1>2, <1>3, <1>7, OthersKept
<1>9. Room'
  BY DEF SendPoll, Room, uart
<1>. QED
  BY <1>1, <1>8, <1>9, Sizes

LEMMA StacksSendPut ==
  ASSUME IInv, SendPut
  PROVE  /\ Stacks' /\ ~Holds(current)' /\ Holds(current)
         /\ \A t \in Workers \ {current} : Holds(t)' <=> Holds(t)
         /\ Char = <<current, sent[current] + 1>>
<1>1. PICK c \in Workers : c = current
  BY Sizes DEF IInv, Typed, SendPut, Process
<1>2. /\ Sound(c, place, frames[c], regs, Wrote(c)) /\ Stacks /\ place = "own"
      /\ regs \in Regs /\ sent \in [Workers -> Nat] /\ c \in Tasks /\ c # 0
  BY <1>1, SoundNow, Sizes DEF IInv, SendPut, Process, Own, Typed
<1>3. /\ UNCHANGED <<context, frames, place>> /\ current' = c
      /\ regs' = [regs EXCEPT !.hand = FALSE] /\ regs.hand
      /\ sent' = [sent EXCEPT ![c] = @ + 1]
  BY <1>1 DEF SendPut, sched
<1>4. frames[c] = <<>> /\ regs.array = c /\ regs.i = Wrote(c) + 1
  BY <1>1, <1>2, <1>3, OwnHasNone DEF IInv, Wrote, Outside
<1>5. regs'.array = c /\ regs'.i = Wrote(c) + 1 /\ ~regs'.hand
  BY <1>2, <1>3, <1>4 DEF Regs
<1>6. /\ Wrote(c)' = Wrote(c) + 1 /\ Wrote(c) = sent[c] /\ Wrote(c) \in Nat
      /\ \A t \in Tasks \ {c} : Wrote(t)' = Wrote(t)
  BY <1>2, <1>3, Sizes DEF Wrote
<1>7. Running(c, "own", <<>>, regs', Wrote(c)')
  BY <1>5, <1>6 DEF Running, Left, Own0
<1>8. Sound(c, place', frames'[c], regs', Wrote(c)')
  BY <1>2, <1>3, <1>4, <1>7 DEF Sound
<1>9. /\ \A t \in Tasks \ {c} :
           /\ context'[t].pc = context[t].pc
           /\ frames'[t] = frames[t] /\ Wrote(t)' = Wrote(t)
  BY <1>3, <1>6
<1>10. /\ Stacks' /\ \A t \in Tasks \ {c} : Holds(t)' <=> Holds(t)
       /\ Holds(c) <=> InHand(place, frames[c], regs)
       /\ Holds(c)' <=> InHand(place', frames'[c], regs')
  BY <1>1, <1>2, <1>3, <1>8, <1>9, OthersKept
<1>11. /\ InHand(place, frames[c], regs)
       /\ ~InHand(place', frames'[c], regs')
  BY <1>2, <1>3, <1>4, <1>5 DEF InHand, Left, Own0
<1>12. Char = <<c, sent[c] + 1>>
  BY <1>4, <1>6 DEF Char
<1>13. ~Holds(current)' /\ Holds(current)
  BY <1>1, <1>3, <1>10, <1>11
<1>. QED
  BY <1>1, <1>10, <1>12, <1>13, Sizes

LEMMA StacksNext ==
  ASSUME IInv, Next
  PROVE  /\ Stacks'
         /\ ~(SendPoll \/ SendPut) => NoNewHand
<1>1. CASE Start
  BY <1>1, StacksStart
<1>2. CASE CopyProcess
  BY <1>2, StacksCopyProcess
<1>3. CASE CpuSwitchTo
  BY <1>3, StacksSwitch
<1>4. CASE \/ Schedule \/ Refill \/ Stay \/ PreemptEnable
           \/ TimerTick \/ TickCritical
  BY <1>4, StacksOwn
<1>5. CASE RetFromFork
  BY <1>5, StacksRetFromFork
<1>6. CASE Irq
  BY <1>6, StacksIrq
<1>7. CASE KernelExit
  BY <1>7, StacksKernelExit
<1>8. CASE SendPoll
  BY <1>8, StacksSendPoll
<1>9. CASE SendPut
  BY <1>9, StacksSendPut
<1>10. CASE Shift
  <2>1. UNCHANGED <<current, context, frames, place, regs, sent>>
    BY <1>10 DEF Shift, sched, cpu
  <2>2. \A t \in Tasks : /\ Placed(t)' = Placed(t) /\ Loaded(t)' = Loaded(t)
                         /\ Wrote(t)' = Wrote(t)
    BY <2>1 DEF Placed, Loaded, Wrote
  <2>3. Stacks'
    BY <2>1, <2>2 DEF IInv, Stacks
  <2>4. NoNewHand
    BY <2>1, <2>2, Sizes DEF NoNewHand, Holds
  <2>. QED
    BY <2>3, <2>4
<1>. QED
  BY <1>1, <1>2, <1>3, <1>4, <1>5, <1>6, <1>7, <1>8, <1>9, <1>10 DEF Next, Start

-----------------------------------------------------------------------------
(* Types, and the saved contexts.                                          *)

LEMMA TypedNext == ASSUME IInv, Next PROVE Typed'
<1>. USE DEF IInv
<1>0. Typed /\ NoRegs \in Regs
  BY NoRegsTyped
<1>1. CASE Start
  BY <1>0, <1>1, StartStep DEF sched, clock, Typed, Startup, Early, Interruptible
<1>2. CASE CopyProcess
  <2>1. /\ nr_tasks \in Tasks /\ nr_tasks \in 1 .. NThreads
        /\ [pc |-> "ret_from_fork", x20 |-> nr_tasks] \in Saved
    BY <1>0, <1>2 DEF CopyProcess, Typed, Tasks, Saved
  <2>2. counter' \in [Tasks -> Int]
    BY <1>0, <1>2, <2>1, Sizes DEF CopyProcess, Typed
  <2>3. context' \in [Tasks -> Saved]
    BY <1>0, <1>2, <2>1 DEF CopyProcess, Typed
  <2>. QED
    <3>1. /\ nr_tasks' = nr_tasks + 1 /\ place = "own"
          /\ UNCHANGED <<current, switches, cpu, clock, uart>>
      BY <1>2 DEF CopyProcess, Own
    <3>2. /\ nr_tasks' \in 1 .. NThreads + 1
          /\ current \in Tasks /\ current < nr_tasks'
          /\ place \notin Startup
      BY <1>0, <2>1, <3>1, Sizes DEF Typed, Tasks, Startup, Early
    <3>. QED
      BY <1>0, <2>2, <2>3, <3>1, <3>2 DEF Typed, cpu, clock, uart
<1>3. CASE CpuSwitchTo
  <2>1. PICK u \in Created : /\ u # current /\ current' = u
                             /\ place' = context[u].pc
    BY <1>3 DEF CpuSwitchTo
  <2>2. place' \in {"switched", "ret_from_fork"} /\ u \in Tasks /\ u < nr_tasks
    BY <1>0, <2>1 DEF Typed, Contexts, Created, Saved
  <2>3. context' \in [Tasks -> Saved]
    <3>1. context[current] \in Saved
      BY <1>0 DEF Typed
    <3>2. [context[current] EXCEPT !.pc = "switched"] \in Saved
      BY <3>1 DEF Saved
    <3>. QED
      BY <1>0, <1>3, <3>2 DEF CpuSwitchTo, Typed
  <2>4. switches' \in [Tasks -> Nat]
    <3>1. switches' = [switches EXCEPT ![current] = @ + 1]
      BY <1>3 DEF CpuSwitchTo
    <3>2. switches \in [Tasks -> Nat] /\ current \in Tasks
      BY <1>0 DEF Typed
    <3>. QED
      BY <3>1, <3>2
  <2>. QED
    BY <1>0, <1>3, <2>1, <2>2, <2>3, <2>4
       DEF CpuSwitchTo, Typed, clock, uart, Startup, Early, Interruptible
<1>4. CASE Schedule
  BY <1>0, <1>4, Sizes DEF Schedule, Typed, Own, clock, uart, Startup, Early,
                           Interruptible
<1>5. CASE Refill
  <2>1. ASSUME NEW t \in Tasks PROVE Refilled(t) \in Int
    <3>1. counter[t] \in Int
      BY <1>0 DEF Typed
    <3>2. \A n \in Int : n \div 2 \in Int
      OBVIOUS
    <3>3. counter[t] \div 2 \in Int
      BY <3>1, <3>2
    <3>. QED
      BY <3>3, Sizes DEF Refilled
  <2>2. counter' \in [Tasks -> Int]
    BY <1>0, <1>5, <2>1 DEF Refill, Typed
  <2>. QED
    BY <1>0, <1>5, <2>2 DEF Refill, Typed, cpu, clock, uart
<1>6. CASE Stay \/ PreemptEnable
  BY <1>0, <1>6 DEF Stay, PreemptEnable, Typed, sched, clock, uart, Startup,
                    Early, Interruptible
<1>7. CASE TimerTick
  <2>1. /\ counter' \in [Tasks -> Int]
        /\ place' \in {"_schedule", "kernel_exit"}
    BY <1>0, <1>7 DEF TimerTick, Typed
  <2>2. ticks' \in Nat /\ served' \in [Tasks -> Nat]
    BY <1>0, <1>7 DEF TimerTick, Count, Typed
  <2>. QED
    BY <1>0, <1>7, <2>1, <2>2 DEF TimerTick, Typed, uart, Startup, Early,
                                  Interruptible, Handler
<1>8. CASE TickCritical
  <2>1. /\ counter' \in [Tasks -> Int] /\ critical' \in Nat
        /\ place' = "kernel_exit"
    BY <1>0, <1>8 DEF TickCritical, Typed
  <2>2. ticks' \in Nat /\ served' \in [Tasks -> Nat]
    BY <1>0, <1>8 DEF TickCritical, Count, Typed
  <2>. QED
    BY <1>0, <1>8, <2>1, <2>2 DEF TickCritical, Typed, uart, Startup, Early,
                                  Interruptible, Handler
<1>9. CASE RetFromFork
  <2>1. context[current].x20 \in Tasks
    BY <1>0 DEF Typed, Saved
  <2>2. regs' \in Regs
    BY <1>0, <1>9, <2>1 DEF RetFromFork, Regs
  <2>. QED
    BY <1>0, <1>9, <2>2 DEF RetFromFork, Typed, sched, clock, uart, Startup,
                            Early, Interruptible
<1>10. CASE Irq
  <2>1. [regs |-> regs, elr |-> place] \in Frame
    BY <1>0, <1>10 DEF Irq, Frame, Typed
  <2>2. Append(frames[current], [regs |-> regs, elr |-> place]) \in Seq(Frame)
    BY <1>0, <2>1 DEF Typed
  <2>3. frames' \in [Tasks -> Seq(Frame)]
    BY <1>0, <1>10, <2>2 DEF Irq, KernelEntry, Typed
  <2>. QED
    BY <1>0, <1>10, <2>3 DEF Irq, Vector, Typed, sched, clock, uart, Startup,
                             Early, Interruptible, Handler
<1>11. CASE KernelExit
  <2>1. /\ place' \in Interruptible /\ regs' \in Regs
        /\ frames' \in [Tasks -> Seq(Frame)]
    BY <1>11, StacksKernelExit
  <2>. QED
    BY <1>0, <1>11, <2>1 DEF KernelExit, Typed, sched, clock, uart, Startup,
                             Early, Interruptible
<1>12. CASE SendPoll
  <2>1. regs' \in Regs
    <3>0. regs.array \in Tasks /\ regs.i \in Nat
      BY <1>0 DEF Typed, Regs
    <3>1. [array |-> regs.array, i |-> regs.i + 1, hand |-> TRUE] \in Regs
      BY <3>0 DEF Regs
    <3>2. regs' = [array |-> regs.array, i |-> regs.i + 1, hand |-> TRUE]
      BY <1>0, <1>12 DEF SendPoll, Typed, Regs
    <3>. QED
      BY <3>1, <3>2
  <2>. QED
    BY <1>0, <1>12, <2>1 DEF SendPoll, Typed, sched, clock, uart
<1>13. CASE SendPut
  <2>1. current \in Workers /\ Char = <<current, sent[current] + 1>>
    BY <1>0, <1>13, StacksSendPut, Sizes DEF Typed, SendPut, Process
  <2>2. Char \in Symbol
    BY <1>0, <2>1 DEF Typed, Symbol
  <2>3. regs' \in Regs
    <3>1. [array |-> regs.array, i |-> regs.i, hand |-> FALSE] \in Regs
      BY <1>0 DEF Typed, Regs
    <3>2. regs' = [array |-> regs.array, i |-> regs.i, hand |-> FALSE]
      BY <1>0, <1>13 DEF SendPut, Typed, Regs
    <3>. QED
      BY <3>1, <3>2
  <2>4. sent' \in [Workers -> Nat]
    <3>1. sent' = [sent EXCEPT ![current] = @ + 1]
      BY <1>13 DEF SendPut
    <3>2. sent \in [Workers -> Nat]
      BY <1>0 DEF Typed
    <3>. QED
      BY <2>1, <3>1, <3>2
  <2>5. tx' \in Seq(Symbol) /\ lost' \subseteq Symbol /\ IsFiniteSet(lost')
    <3>1. IsFiniteSet(lost \cup {Char})
      BY <1>0, FS_AddElement DEF Typed
    <3>2. CASE tx' = Append(tx, Char) /\ lost' = lost
      BY <1>0, <2>2, <3>2 DEF Typed
    <3>3. CASE tx' = tx /\ lost' = lost \cup {Char}
      BY <1>0, <2>2, <3>1, <3>3 DEF Typed
    <3>. QED
      BY <1>13, <3>2, <3>3 DEF SendPut
  <2>. QED
    BY <1>0, <1>13, <2>3, <2>4, <2>5 DEF SendPut, Typed, sched, clock
<1>14. CASE Shift
  <2>1. Head(tx) \in Symbol /\ Tail(tx) \in Seq(Symbol)
    BY <1>0, <1>14 DEF Shift, Typed
  <2>2. tx' \in Seq(Symbol) /\ wire' \in Seq(Symbol)
    BY <1>0, <1>14, <2>1 DEF Shift, Typed
  <2>. QED
    BY <1>0, <1>14, <2>2 DEF Shift, Typed, sched, cpu, clock
<1>. QED
  BY <1>1, <1>2, <1>3, <1>4, <1>5, <1>6, <1>7, <1>8, <1>9, <1>10, <1>11,
     <1>12, <1>13, <1>14 DEF Next, Start

LEMMA ContextsNext == ASSUME IInv, Next PROVE Contexts'
<1>. USE DEF IInv
<1>1. ASSUME UNCHANGED <<nr_tasks, current, context>> PROVE Contexts'
  BY <1>1 DEF Contexts
<1>2. CASE CopyProcess
  <2>1. /\ nr_tasks \in Workers /\ nr_tasks' = nr_tasks + 1 /\ current' = current
        /\ context' = [context EXCEPT
                         ![nr_tasks] = [pc |-> "ret_from_fork", x20 |-> nr_tasks]]
        /\ context \in [Tasks -> Saved]
    BY <1>2 DEF CopyProcess, Typed, Workers
  <2>2. ASSUME NEW t \in Tasks
        PROVE  IF t < nr_tasks'
               THEN /\ t # current => context'[t].pc # "none"
                    /\ t # 0 => context'[t].x20 = t
               ELSE context'[t].pc = "none"
    <3>1. t < nr_tasks' <=> t < nr_tasks \/ t = nr_tasks
      BY <2>1 DEF Typed, Tasks
    <3>2. CASE t = nr_tasks
      BY <2>1, <3>1, <3>2
    <3>3. CASE t # nr_tasks
      BY <2>1, <3>1, <3>3 DEF Contexts
    <3>. QED
      BY <3>2, <3>3
  <2>. QED
    BY <2>1, <2>2 DEF Contexts
<1>3. CASE CpuSwitchTo
  <2>1. /\ context' = [context EXCEPT ![current].pc = "switched"]
        /\ nr_tasks' = nr_tasks /\ current \in Tasks /\ current < nr_tasks
        /\ context \in [Tasks -> Saved]
    BY <1>3 DEF CpuSwitchTo, Typed
  <2>2. \A t \in Tasks : /\ context'[t].x20 = context[t].x20
                         /\ t # current => context'[t].pc = context[t].pc
    BY <2>1
  <2>3. context'[current].pc = "switched"
    BY <2>1
  <2>4. ASSUME NEW t \in Tasks
        PROVE  IF t < nr_tasks
               THEN /\ context'[t].pc # "none"
                    /\ t # 0 => context'[t].x20 = t
               ELSE context'[t].pc = "none"
    <3>1. CASE t = current
      BY <2>1, <2>2, <2>3, <3>1 DEF Contexts
    <3>2. CASE t # current
      BY <2>2, <3>2 DEF Contexts
    <3>. QED
      BY <3>1, <3>2
  <2>. QED
    BY <2>1, <2>4 DEF Contexts
<1>4. CASE Start
  BY <1>1, <1>4, StartStep DEF sched
<1>5. CASE Schedule \/ Refill \/ TimerTick \/ TickCritical
  BY <1>1, <1>5 DEF Schedule, Refill, TimerTick, TickCritical
<1>6. CASE \/ Stay \/ RetFromFork \/ PreemptEnable \/ KernelExit \/ Irq
           \/ SendPoll \/ SendPut \/ Shift
  BY <1>1, <1>6 DEF Stay, RetFromFork, PreemptEnable, KernelExit, Irq, SendPoll,
                    SendPut, Shift, sched
<1>. QED
  BY <1>2, <1>3, <1>4, <1>5, <1>6 DEF Next, Start

-----------------------------------------------------------------------------
(* What is lost.                                                           *)

LEMMA LostFinite ==
  ASSUME Typed, NEW t \in Workers
  PROVE  IsFiniteSet(LostBy(t)) /\ Cardinality(LostBy(t)) \in Nat
<1>1. LostBy(t) \subseteq lost
  BY DEF LostBy
<1>2. IsFiniteSet(LostBy(t))
  BY <1>1, FS_Subset DEF Typed
<1>. QED
  BY <1>2, FS_CardinalityType

LEMMA LossesSame ==
  ASSUME IInv, NoNewHand, UNCHANGED <<lost, switches, current>>, Room => Room'
  PROVE  Losses'
<1>. SUFFICES ASSUME NEW t \in Workers
              PROVE  /\ Cardinality(LostBy(t)') <= switches'[t]
                     /\ Holds(t)' => \/ Cardinality(LostBy(t)') < switches'[t]
                                     \/ t = current' /\ Room'
  BY DEF Losses
<1>1. LostBy(t)' = LostBy(t)
  BY DEF LostBy
<1>2. /\ Cardinality(LostBy(t)) <= switches[t]
      /\ Holds(t) => \/ Cardinality(LostBy(t)) < switches[t]
                     \/ t = current /\ Room
  BY DEF IInv, Losses
<1>3. Holds(t)' => Holds(t)
  BY DEF NoNewHand
<1>. QED
  BY <1>1, <1>2, <1>3

LEMMA EnabledOwn == ASSUME UartSet, place = "own" PROVE Enabled
BY DEF UartSet, Early, Enabled

LEMMA LossesNext == ASSUME IInv, Next PROVE Losses'
<1>0. Typed /\ Losses /\ UartSet
  BY DEF IInv
<1>1. CASE CpuSwitchTo
  <2>1. /\ lost' = lost /\ switches' = [switches EXCEPT ![current] = @ + 1]
        /\ switches \in [Tasks -> Nat] /\ current \in Tasks
    BY <1>0, <1>1 DEF CpuSwitchTo, uart, Typed
  <2>2. ASSUME NEW t \in Workers
        PROVE  /\ Cardinality(LostBy(t)') <= switches'[t]
               /\ Holds(t)' => Cardinality(LostBy(t)') < switches'[t]
    <3>1. LostBy(t)' = LostBy(t) /\ t \in Tasks
      BY <2>1, Sizes DEF LostBy
    <3>2. /\ Cardinality(LostBy(t)) <= switches[t]
          /\ Cardinality(LostBy(t)) \in Nat
      BY <1>0, LostFinite DEF Losses
    <3>3. CASE t = current
      BY <2>1, <3>1, <3>2, <3>3
    <3>4. CASE t # current
      <4>1. switches'[t] = switches[t]
        BY <2>1, <3>1, <3>4
      <4>2. Holds(t)' => Cardinality(LostBy(t)) < switches[t]
        BY <1>0, <1>1, <3>4, StacksSwitch DEF NoNewHand, Losses
      <4>. QED
        BY <3>1, <3>2, <4>1, <4>2
    <3>. QED
      BY <3>3, <3>4
  <2>. QED
    BY <2>2 DEF Losses
<1>2. CASE SendPoll
  <2>1. UNCHANGED <<lost, switches, current>>
    BY <1>2 DEF SendPoll, uart, sched
  <2>2. ASSUME NEW t \in Workers
        PROVE  /\ Cardinality(LostBy(t)') <= switches'[t]
               /\ Holds(t)' => \/ Cardinality(LostBy(t)') < switches'[t]
                               \/ t = current' /\ Room'
    <3>1. LostBy(t)' = LostBy(t)
      BY <2>1 DEF LostBy
    <3>2. /\ Cardinality(LostBy(t)) <= switches[t]
          /\ Holds(t) => \/ Cardinality(LostBy(t)) < switches[t]
                         \/ t = current /\ Room
      BY <1>0 DEF Losses
    <3>3. Room' /\ (t # current => (Holds(t)' <=> Holds(t)))
      BY <1>2, StacksSendPoll
    <3>. QED
      BY <2>1, <3>1, <3>2, <3>3
  <2>. QED
    BY <2>2 DEF Losses
<1>3. CASE SendPut
  <2>1. PICK c \in Workers : c = current
    BY <1>0, <1>3, Sizes DEF Typed, SendPut, Process
  <2>2. /\ switches' = switches /\ current' = c /\ Char = <<c, sent[c] + 1>>
        /\ Holds(c) /\ ~Holds(c)'
        /\ \A t \in Workers \ {c} : Holds(t)' <=> Holds(t)
        /\ switches \in [Tasks -> Nat] /\ Workers \subseteq Tasks
    BY <1>0, <1>3, <2>1, StacksSendPut, Sizes DEF SendPut, sched, Typed
  <2>3. /\ lost' = lost \/ (~Room /\ lost' = lost \cup {Char})
    <3>1. Enabled
      BY <1>0, <1>3, EnabledOwn DEF SendPut, Process, Own
    <3>. QED
      BY <1>3, <3>1 DEF SendPut, Room
  <2>4. ASSUME NEW t \in Workers \ {c}
        PROVE  /\ Cardinality(LostBy(t)') <= switches'[t]
               /\ Holds(t)' => Cardinality(LostBy(t)') < switches'[t]
    <3>1. LostBy(t)' = LostBy(t)
      BY <2>2, <2>3 DEF LostBy
    <3>2. Holds(t) => Cardinality(LostBy(t)) < switches[t]
      BY <1>0, <2>1 DEF Losses
    <3>. QED
      BY <1>0, <2>2, <3>1, <3>2 DEF Losses
  <2>5. Cardinality(LostBy(c)') <= switches'[c]
    <3>1. CASE lost' = lost
      <4>1. LostBy(c)' = LostBy(c)
        BY <3>1 DEF LostBy
      <4>. QED
        BY <1>0, <2>2, <4>1 DEF Losses
    <3>2. CASE ~Room /\ lost' = lost \cup {Char}
      <4>1. LostBy(c)' = LostBy(c) \cup {Char}
        BY <2>2, <3>2 DEF LostBy
      <4>2. Cardinality(LostBy(c)) < switches[c]
        BY <1>0, <2>1, <2>2, <3>2 DEF Losses
      <4>3. /\ Cardinality(LostBy(c)) \in Nat
            /\ \/ Cardinality(LostBy(c) \cup {Char}) = Cardinality(LostBy(c)) + 1
               \/ Cardinality(LostBy(c) \cup {Char}) = Cardinality(LostBy(c))
        BY <1>0, LostFinite, FS_AddElement
      <4>4. switches[c] \in Nat
        BY <2>2
      <4>. QED
        BY <2>2, <4>1, <4>2, <4>3, <4>4
    <3>. QED
      BY <2>3, <3>1, <3>2
  <2>. QED
    BY <2>2, <2>4, <2>5 DEF Losses
<1>4. CASE Start
  <2>1. UNCHANGED <<lost, switches, current>> /\ (Room => Room')
    BY <1>4, StartStep DEF sched, Room
  <2>. QED
    BY <1>4, <2>1, StacksStart, LossesSame
<1>5. CASE CopyProcess \/ RetFromFork \/ Irq \/ KernelExit
  <2>1. UNCHANGED <<lost, switches, current>> /\ (Room => Room')
    BY <1>5 DEF CopyProcess, RetFromFork, Irq, KernelExit, sched, uart, Room
  <2>. QED
    BY <1>5, <2>1, StacksCopyProcess, StacksRetFromFork, StacksIrq,
       StacksKernelExit, LossesSame
<1>6. CASE \/ Schedule \/ Refill \/ Stay \/ PreemptEnable
           \/ TimerTick \/ TickCritical
  <2>1. UNCHANGED <<lost, switches, current>> /\ (Room => Room')
    BY <1>6 DEF Schedule, Refill, Stay, PreemptEnable, TimerTick, TickCritical,
                sched, uart, Room
  <2>. QED
    BY <1>6, <2>1, StacksOwn, LossesSame
<1>7. CASE Shift
  <2>1. UNCHANGED <<lost, switches, current>> /\ tx' = Tail(tx) /\ tx # <<>>
    BY <1>7 DEF Shift, sched
  <2>2. Len(tx') <= Len(tx) /\ Len(tx) \in Nat /\ Len(tx') \in Nat
    BY <1>0, <2>1 DEF Typed
  <2>3. Room => Room'
    BY <2>2, Sizes DEF Room
  <2>4. ~(SendPoll \/ SendPut)
    BY <1>0, <1>7 DEF Shift, SendPoll, SendPut, sched, cpu, Typed, Regs
  <2>. QED
    BY <2>1, <2>3, <2>4, StacksNext, LossesSame
<1>. QED
  BY <1>1, <1>2, <1>3, <1>4, <1>5, <1>6, <1>7 DEF Next, Start

-----------------------------------------------------------------------------
(* The output of thread t: of the characters out that went to the line.    *)

InOrder(t, out, gone, n) ==
  LET at == {i \in DOMAIN out : out[i][1] = t}
      kept == {out[i] : i \in at}
      missed == {x \in gone : x[1] = t}
  IN  /\ \A i, j \in at : i < j => out[i][2] < out[j][2]
      /\ kept \cup missed = {<<t, k>> : k \in 1 .. n}
      /\ kept \cap missed = {}

LEMMA OutputParts ==
  OutputInOrder <=> \A t \in Workers : InOrder(t, Out, lost, sent[t])
BY DEF OutputInOrder, InOrder, OwnAt, LostBy

LEMMA NextCharacter ==
  ASSUME NEW t, NEW n \in Nat
  PROVE  /\ {<<t, k>> : k \in 1 .. n + 1} =
              {<<t, k>> : k \in 1 .. n} \cup {<<t, n + 1>>}
         /\ <<t, n + 1>> \notin {<<t, k>> : k \in 1 .. n}
         /\ \A x \in {<<t, k>> : k \in 1 .. n} : x[2] < n + 1
<1>1. 1 .. n + 1 = (1 .. n) \cup {n + 1} /\ n + 1 \notin 1 .. n
  OBVIOUS
<1>. QED
  BY <1>1

(* s is out and the character x more.                                      *)
Longer(s, out, x) ==
  /\ DOMAIN out \subseteq Nat
  /\ \E m \in Nat :
       /\ DOMAIN s = (DOMAIN out) \cup {m} /\ s[m] = x
       /\ \A i \in DOMAIN out : s[i] = out[i] /\ i < m

LEMMA AppendLonger ==
  ASSUME NEW out \in Seq(Symbol), NEW x \in Symbol
  PROVE  Longer(Append(out, x), out, x)
<1>. DEFINE s == Append(out, x)
            m == Len(out) + 1
<1>1. /\ m \in Nat \ {0} /\ DOMAIN out = 1 .. m - 1 /\ DOMAIN s = 1 .. m
      /\ s[m] = x /\ \A i \in 1 .. m - 1 : s[i] = out[i]
  OBVIOUS
<1>. HIDE DEF s, m
<1>2. (1 .. m) = (1 .. m - 1) \cup {m} /\ \A i \in 1 .. m - 1 : i < m
  BY <1>1
<1>. QED
  BY <1>1, <1>2 DEF Longer, s

LEMMA SentOn ==
  ASSUME NEW t, NEW n \in Nat, NEW out, NEW s, NEW gone,
         Longer(s, out, <<t, n + 1>>), InOrder(t, out, gone, n)
  PROVE  InOrder(t, s, gone, n + 1)
<1>. DEFINE x == <<t, n + 1>>
            At(q) == {i \in DOMAIN q : q[i][1] = t}
            Kept(q) == {q[i] : i \in At(q)}
            missed == {y \in gone : y[1] = t}
            Upto(k) == {<<t, l>> : l \in 1 .. k}
<1>1. PICK m \in Nat :
        /\ DOMAIN s = (DOMAIN out) \cup {m} /\ s[m] = x
        /\ \A i \in DOMAIN out : s[i] = out[i] /\ i < m
  BY DEF Longer
<1>2. x[1] = t /\ x[2] = n + 1
  OBVIOUS
<1>3. /\ \A i, j \in At(out) : i < j => out[i][2] < out[j][2]
      /\ Kept(out) \cup missed = Upto(n)
      /\ Kept(out) \cap missed = {}
  BY DEF InOrder
<1>4. /\ Upto(n + 1) = Upto(n) \cup {x} /\ x \notin Upto(n)
      /\ \A y \in Upto(n) : y[2] < n + 1
  BY NextCharacter
<1>5. At(s) = At(out) \cup {m} /\ At(out) \subseteq DOMAIN out
  BY <1>1, <1>2
<1>. HIDE DEF x, Upto
<1>6. Kept(s) = Kept(out) \cup {x}
  BY <1>1, <1>5
<1>7. ASSUME NEW i \in At(s), NEW j \in At(s), i < j PROVE s[i][2] < s[j][2]
  <2>1. DOMAIN out \subseteq Nat
    BY DEF Longer
  <2>2. i \in At(out) /\ s[i] = out[i]
    BY <1>1, <1>5, <1>7, <2>1
  <2>3. CASE j \in At(out)
    BY <1>1, <1>3, <1>5, <1>7, <2>2, <2>3
  <2>4. CASE j = m
    <3>1. out[i] \in Upto(n)
      BY <1>3, <2>2
    <3>. QED
      BY <1>1, <1>2, <1>4, <2>2, <2>4, <3>1
  <2>. QED
    BY <1>5, <2>3, <2>4
<1>8. Kept(s) \cup missed = Upto(n + 1) /\ Kept(s) \cap missed = {}
  BY <1>3, <1>4, <1>6
<1>. QED
  BY <1>7, <1>8 DEF InOrder, Upto

LEMMA SentInVain ==
  ASSUME NEW t, NEW n \in Nat, NEW out, NEW gone, InOrder(t, out, gone, n)
  PROVE  InOrder(t, out, gone \cup {<<t, n + 1>>}, n + 1)
<1>. DEFINE x == <<t, n + 1>>
            kept == {out[i] : i \in {i \in DOMAIN out : out[i][1] = t}}
            Missed(g) == {y \in g : y[1] = t}
            Upto(k) == {<<t, l>> : l \in 1 .. k}
<1>1. /\ kept \cup Missed(gone) = Upto(n)
      /\ kept \cap Missed(gone) = {}
  BY DEF InOrder
<1>2. Upto(n + 1) = Upto(n) \cup {x} /\ x \notin Upto(n)
  BY NextCharacter
<1>3. Missed(gone \cup {x}) = Missed(gone) \cup {x}
  OBVIOUS
<1>. HIDE DEF x, kept, Upto
<1>4. /\ kept \cup Missed(gone \cup {x}) = Upto(n + 1)
      /\ kept \cap Missed(gone \cup {x}) = {}
  BY <1>1, <1>2, <1>3
<1>. QED
  BY <1>4 DEF InOrder, x, kept, Upto

LEMMA OthersSent ==
  ASSUME NEW t, NEW u, t # u, NEW n, NEW k, NEW out, NEW gone,
         InOrder(t, out, gone, n)
  PROVE  /\ InOrder(t, out, gone \cup {<<u, k>>}, n)
         /\ \A s : Longer(s, out, <<u, k>>) => InOrder(t, s, gone, n)
<1>1. {x \in gone \cup {<<u, k>>} : x[1] = t} = {x \in gone : x[1] = t}
  OBVIOUS
<1>2. InOrder(t, out, gone \cup {<<u, k>>}, n)
  BY <1>1 DEF InOrder
<1>3. ASSUME NEW s, Longer(s, out, <<u, k>>) PROVE InOrder(t, s, gone, n)
  <2>1. {i \in DOMAIN s : s[i][1] = t} = {i \in DOMAIN out : out[i][1] = t}
    BY <1>3 DEF Longer
  <2>2. \A i \in {i \in DOMAIN out : out[i][1] = t} : s[i] = out[i]
    BY <1>3 DEF Longer
  <2>. DEFINE at == {i \in DOMAIN out : out[i][1] = t}
  <2>3. {s[i] : i \in at} = {out[i] : i \in at}
    BY <2>2
  <2>4. /\ \A i, j \in at : i < j => s[i][2] < s[j][2]
        /\ {s[i] : i \in at} \cup {x \in gone : x[1] = t} =
             {<<t, l>> : l \in 1 .. n}
        /\ {s[i] : i \in at} \cap {x \in gone : x[1] = t} = {}
    BY <2>2, <2>3 DEF InOrder
  <2>. QED
    BY <2>1, <2>4 DEF InOrder
<1>. QED
  BY <1>2, <1>3

LEMMA OutputSame ==
  ASSUME OutputInOrder, Out' = Out, UNCHANGED <<lost, sent>>
  PROVE  OutputInOrder'
BY DEF OutputInOrder, OwnAt, LostBy

LEMMA JoinAppend ==
  ASSUME NEW w \in Seq(Symbol), NEW s \in Seq(Symbol), NEW x \in Symbol
  PROVE  w \o Append(s, x) = Append(w \o s, x) /\ w \o s \in Seq(Symbol)
OBVIOUS

LEMMA JoinShift ==
  ASSUME NEW w \in Seq(Symbol), NEW s \in Seq(Symbol), s # <<>>
  PROVE  Append(w, Head(s)) \o Tail(s) = w \o s
<1>. DEFINE u == Append(w, Head(s)) \o Tail(s)
            v == w \o s
<1>1. Head(s) \in Symbol /\ Tail(s) \in Seq(Symbol) /\ Len(Tail(s)) = Len(s) - 1
  OBVIOUS
<1>2. u \in Seq(Symbol) /\ v \in Seq(Symbol) /\ Len(u) = Len(v)
  BY <1>1
<1>3. ASSUME NEW i \in 1 .. Len(u) PROVE u[i] = v[i]
  BY <1>1
<1>. HIDE DEF u, v
<1>4. u = v
  BY <1>2, <1>3, SeqEqual
<1>. QED
  BY <1>4 DEF u, v

LEMMA OutputNext == ASSUME IInv, Next PROVE OutputInOrder'
<1>0. Typed /\ OutputInOrder /\ wire \in Seq(Symbol) /\ tx \in Seq(Symbol)
  BY DEF IInv, Typed
<1>1. CASE SendPut
  <2>1. PICK c \in Workers : c = current
    BY <1>0, <1>1, Sizes DEF Typed, SendPut, Process
  <2>2. PICK n \in Nat : n = sent[c]
    BY <1>0 DEF Typed
  <2>3. /\ Char = <<c, n + 1>> /\ sent' = [sent EXCEPT ![c] = n + 1]
        /\ wire' = wire /\ Char \in Symbol
    BY <1>0, <1>1, <2>1, <2>2, StacksSendPut DEF SendPut, Symbol
  <2>4. sent'[c] = n + 1 /\ \A t \in Workers \ {c} : sent'[t] = sent[t]
    BY <1>0, <2>3 DEF Typed
  <2>5. ASSUME NEW t \in Workers PROVE InOrder(t, Out, lost, sent[t])
    BY <1>0, OutputParts
  <2>6. CASE tx' = Append(tx, Char) /\ lost' = lost
    <3>1. /\ wire \o Append(tx, Char) = Append(wire \o tx, Char)
          /\ wire \o tx \in Seq(Symbol)
      BY <1>0, <2>3, JoinAppend
    <3>2. Out' = wire' \o tx' /\ Out = wire \o tx
      BY DEF Out
    <3>3. Out' = Append(Out, Char) /\ Out \in Seq(Symbol)
      BY <2>3, <2>6, <3>1, <3>2
    <3>4. Longer(Out', Out, <<c, n + 1>>)
      BY <2>3, <3>3, AppendLonger
    <3>5. ASSUME NEW t \in Workers PROVE InOrder(t, Out', lost', sent'[t])
      <4>1. CASE t = c
        BY <2>2, <2>4, <2>5, <2>6, <3>4, <4>1, SentOn
      <4>2. CASE t # c
        BY <2>4, <2>5, <2>6, <3>4, <4>2, OthersSent
      <4>. QED
        BY <4>1, <4>2
    <3>. QED
      BY <3>5 DEF OutputInOrder, InOrder, OwnAt, LostBy
  <2>7. CASE tx' = tx /\ lost' = lost \cup {Char}
    <3>1. Out' = Out /\ lost' = lost \cup {<<c, n + 1>>}
      BY <2>3, <2>7 DEF Out
    <3>2. ASSUME NEW t \in Workers PROVE InOrder(t, Out', lost', sent'[t])
      <4>1. CASE t = c
        BY <2>2, <2>4, <2>5, <3>1, <4>1, SentInVain
      <4>2. CASE t # c
        BY <2>4, <2>5, <3>1, <4>2, OthersSent
      <4>. QED
        BY <4>1, <4>2
    <3>. QED
      BY <3>2 DEF OutputInOrder, InOrder, OwnAt, LostBy
  <2>. QED
    BY <1>1, <2>6, <2>7 DEF SendPut
<1>2. CASE Shift
  <2>1. /\ tx # <<>> /\ wire' = Append(wire, Head(tx)) /\ tx' = Tail(tx)
        /\ UNCHANGED <<lost, sent>>
    BY <1>2 DEF Shift
  <2>2. Append(wire, Head(tx)) \o Tail(tx) = wire \o tx
    BY <1>0, <2>1, JoinShift
  <2>3. Out' = Out
    BY <2>1, <2>2 DEF Out
  <2>. QED
    BY <1>0, <2>1, <2>3, OutputSame
<1>3. ASSUME UNCHANGED <<wire, tx, lost, sent>> PROVE OutputInOrder'
  <2>1. Out' = Out
    BY <1>3 DEF Out
  <2>. QED
    BY <1>0, <1>3, <2>1, OutputSame
<1>4. CASE Start
  BY <1>3, <1>4, StartStep
<1>5. CASE \/ CopyProcess \/ Schedule \/ Refill \/ Stay \/ CpuSwitchTo
           \/ RetFromFork \/ PreemptEnable \/ KernelExit \/ Irq
           \/ TimerTick \/ TickCritical \/ SendPoll
  BY <1>3, <1>5 DEF CopyProcess, Schedule, Refill, Stay, CpuSwitchTo,
                    RetFromFork, PreemptEnable, KernelExit, Irq, TimerTick,
                    TickCritical, SendPoll, uart
<1>. QED
  BY <1>1, <1>2, <1>4, <1>5 DEF Next, Start

-----------------------------------------------------------------------------
(* The shares of the CPU.                                                  *)

LEMMA ScanChooses ==
  ASSUME Typed, NEW t \in Created, Best(t), ~Exhausted, t # 0
  PROVE  counter[t] > 0
<1>1. \A u \in Eligible : counter[u] \in Int /\ counter[u] >= 0
  <2>1. \A u \in Eligible : u \in Tasks /\ counter[u] > -1
    BY DEF Eligible, Created
  <2>2. \A u \in Tasks : counter[u] \in Int
    BY DEF Typed
  <2>3. \A n \in Int : n > -1 => n >= 0
    OBVIOUS
  <2>. QED
    BY <2>1, <2>2, <2>3
<1>2. /\ t \in Eligible
      /\ \A u \in Eligible :
           counter[u] < counter[t] \/ (counter[u] = counter[t] /\ t <= u)
  BY DEF Best
<1>3. \A u \in Eligible : counter[u] <= counter[t]
  BY <1>1, <1>2
<1>4. ASSUME counter[t] = 0 PROVE \A u \in Eligible : counter[u] = 0
  BY <1>1, <1>3, <1>4
<1>. QED
  BY <1>1, <1>2, <1>4 DEF Exhausted

(* As long as no tick is counted, the counters' bounds are enough.         *)
LEMMA Unserved ==
  ASSUME Typed', Counters', \A t \in Tasks : served'[t] = 0
  PROVE  Shares'
<1>1. \A t \in Tasks : /\ counter'[t] \in Int
                       /\ counter'[t] <= Priority /\ counter'[t] >= -critical'
  BY DEF Counters, Typed
<1>2. critical' \in Nat
  BY DEF Typed
<1>3. \A t, u \in Workers : Ahead(t)' - Behind(u)' <= Priority + critical'
  BY <1>1, <1>2, Sizes DEF Ahead, Behind, Positive
<1>4. ASSUME current' # 0, counter'[current'] <= 0
      PROVE  \A u \in Workers :
               Ahead(current)' - Behind(u)' < Priority + critical'
  <2>1. current' \in Tasks
    BY DEF Typed
  <2>. QED
    BY <1>1, <1>2, <1>4, <2>1, Sizes DEF Ahead, Behind, Positive
<1>. QED
  BY <1>3, <1>4 DEF Shares

(* Nothing is ticked, and the place of the task on the CPU may change.     *)
LEMMA SharesSame ==
  ASSUME Shares, Typed', UNCHANGED <<counter, served, critical>>,
         \/ current' = 0
         \/ counter'[current'] > 0
         \/ /\ current' = current
            /\ \/ Standing' = Standing
               \/ Standing # "_schedule" \/ Standing' = "_schedule"
  PROVE  Shares'
<1>1. \A t : Ahead(t)' = Ahead(t) /\ Behind(t)' = Behind(t)
  BY DEF Ahead, Behind
<1>2. \A t, u \in Workers : Ahead(t)' - Behind(u)' <= Priority + critical'
  BY <1>1 DEF Shares
<1>3. ASSUME current' # 0, counter'[current'] <= 0, Standing' # "_schedule"
      PROVE  \A u \in Workers :
               Ahead(current)' - Behind(u)' < Priority + critical'
  <2>1. counter'[current'] \in Int
    BY DEF Typed
  <2>2. ~(counter'[current'] > 0)
    BY <1>3, <2>1
  <2>3. current' = current /\ Standing # "_schedule"
    BY <1>3, <2>2
  <2>4. \A u \in Workers : Ahead(current) - Behind(u) < Priority + critical
    BY <1>3, <2>3 DEF Shares
  <2>5. Ahead(current)' = Ahead(current)
    BY <2>3 DEF Ahead
  <2>. QED
    BY <1>1, <2>4, <2>5
<1>. QED
  BY <1>2, <1>3 DEF Shares

LEMMA Halved ==
  ASSUME NEW n \in Int, n <= 0
  PROVE  n \div 2 \in Int /\ n \div 2 <= 0 /\ n \div 2 >= n
OBVIOUS

LEMMA CountersNext == ASSUME IInv, Next PROVE Counters'
<1>0. Typed /\ Counters
  BY DEF IInv
<1>1. ASSUME UNCHANGED <<nr_tasks, counter, critical, served>> PROVE Counters'
  BY <1>0, <1>1 DEF Counters
<1>2. CASE CopyProcess
  <2>1. /\ nr_tasks' = nr_tasks + 1 /\ nr_tasks <= NThreads /\ nr_tasks \in Nat
        /\ counter' = [counter EXCEPT ![nr_tasks] = Priority]
        /\ UNCHANGED <<critical, served>> /\ counter \in [Tasks -> Int]
    BY <1>0, <1>2 DEF CopyProcess, clock, Typed
  <2>2. ASSUME NEW t \in Tasks
        PROVE  /\ counter'[t] <= Priority /\ counter'[t] >= -critical'
               /\ t >= nr_tasks' => counter'[t] = 0
    <3>1. CASE t = nr_tasks
      BY <1>0, <2>1, <3>1, Sizes DEF Typed
    <3>2. CASE t # nr_tasks
      <4>1. counter'[t] = counter[t] /\ (t >= nr_tasks' => t >= nr_tasks)
        BY <2>1, <3>2 DEF Tasks
      <4>. QED
        BY <1>0, <2>1, <4>1 DEF Counters
    <3>. QED
      BY <3>1, <3>2
  <2>3. nr_tasks' <= NThreads => served' = [t \in Tasks |-> 0]
    BY <1>0, <2>1, Sizes DEF Counters
  <2>. QED
    BY <2>2, <2>3 DEF Counters
<1>3. CASE Schedule
  <2>1. /\ counter' = [counter EXCEPT ![0] = 0] /\ nr_tasks' = nr_tasks
        /\ UNCHANGED <<critical, served>> /\ counter \in [Tasks -> Int]
    BY <1>0, <1>3 DEF Schedule, clock, Typed
  <2>2. \A t \in Tasks : counter'[t] = counter[t] \/ counter'[t] = 0
    BY <2>1
  <2>3. \A t \in Tasks : 0 <= Priority /\ 0 >= -critical
    BY <1>0, Sizes DEF Typed
  <2>. QED
    BY <1>0, <2>1, <2>2, <2>3 DEF Counters
<1>4. CASE Refill
  <2>1. /\ nr_tasks' = nr_tasks /\ UNCHANGED <<critical, served>>
        /\ counter' = [t \in Tasks |->
                         IF t \in Created THEN Refilled(t) ELSE counter[t]]
    BY <1>4 DEF Refill, clock
  <2>2. ASSUME NEW t \in Created
        PROVE  Refilled(t) <= Priority /\ Refilled(t) >= -critical
    <3>1. counter[t] \in Int /\ counter[t] <= 0 /\ counter[t] >= -critical
      <4>1. t \in Tasks /\ (counter[t] > -1 => counter[t] = 0)
        BY <1>4 DEF Refill, Exhausted, Eligible, Created
      <4>2. counter[t] \in Int /\ counter[t] >= -critical
        BY <1>0, <4>1 DEF Typed, Counters
      <4>3. \A n \in Int : n > -1 \/ n <= 0
        OBVIOUS
      <4>. QED
        BY <4>1, <4>2, <4>3
    <3>2. /\ counter[t] \div 2 \in Int
          /\ counter[t] \div 2 <= 0 /\ counter[t] \div 2 >= counter[t]
      BY <3>1, Halved
    <3>3. PICK n \in Int, h \in Int, k \in Nat :
            /\ n = counter[t] /\ h = n \div 2 /\ k = critical
            /\ h <= 0 /\ h >= n /\ n >= -k
      BY <1>0, <3>1, <3>2 DEF Typed
    <3>4. Refilled(t) = h + Priority
      BY <3>3 DEF Refilled
    <3>. QED
      BY <3>3, <3>4, Sizes
  <2>3. \A t \in Tasks : t >= nr_tasks => t \notin Created
    BY <1>0 DEF Created, Typed, Tasks
  <2>. QED
    BY <1>0, <2>1, <2>2, <2>3 DEF Counters
<1>5. CASE TimerTick \/ TickCritical
  <2>1. PICK c \in Tasks : c = current /\ c < nr_tasks
    BY <1>0 DEF Typed
  <2>2. /\ nr_tasks' = nr_tasks
        /\ nr_tasks <= NThreads => served' = served
    BY <1>5 DEF TimerTick, TickCritical, Count
  <2>3. /\ \A t \in Tasks \ {c} : counter'[t] = counter[t]
        /\ critical' >= critical /\ critical' \in Nat
        /\ counter'[c] <= Priority /\ counter'[c] >= -critical'
    <3>1. /\ counter \in [Tasks -> Int] /\ critical \in Nat
          /\ counter[c] <= Priority /\ counter[c] >= -critical
      BY <1>0 DEF Typed, Counters
    <3>2. CASE TimerTick
      <4>1. /\ counter' = [counter EXCEPT
                             ![c] = IF counter[c] - 1 <= 0 THEN 0
                                    ELSE counter[c] - 1]
            /\ critical' = critical
        BY <2>1, <3>2 DEF TimerTick, Expired
      <4>. QED
        BY <3>1, <4>1, Sizes
    <3>3. CASE TickCritical
      <4>1. /\ counter' = [counter EXCEPT ![c] = @ - 1]
            /\ critical' = critical + 1
        BY <2>1, <3>3 DEF TickCritical
      <4>. QED
        BY <3>1, <4>1, Sizes
    <3>. QED
      BY <1>5, <3>2, <3>3
  <2>4. ASSUME NEW t \in Tasks
        PROVE  /\ counter'[t] <= Priority /\ counter'[t] >= -critical'
               /\ t >= nr_tasks' => counter'[t] = 0
    <3>1. CASE t = c
      BY <1>0, <2>1, <2>2, <2>3, <3>1 DEF Typed, Tasks
    <3>2. CASE t # c
      <4>1. /\ counter'[t] = counter[t] /\ counter[t] \in Int
            /\ critical \in Nat
        BY <1>0, <2>3, <3>2 DEF Typed
      <4>2. counter[t] <= Priority /\ counter[t] >= -critical
        BY <1>0 DEF Counters
      <4>. QED
        BY <1>0, <2>2, <2>3, <4>1, <4>2 DEF Counters
    <3>. QED
      BY <3>1, <3>2
  <2>. QED
    BY <1>0, <2>2, <2>4 DEF Counters
<1>6. CASE Start
  BY <1>1, <1>6, StartStep DEF sched, clock
<1>7. CASE \/ Stay \/ CpuSwitchTo \/ RetFromFork \/ PreemptEnable \/ KernelExit
           \/ Irq \/ SendPoll \/ SendPut \/ Shift
  BY <1>1, <1>7 DEF Stay, CpuSwitchTo, RetFromFork, PreemptEnable, KernelExit,
                    Irq, SendPoll, SendPut, Shift, sched, clock
<1>. QED
  BY <1>2, <1>3, <1>4, <1>5, <1>6, <1>7 DEF Next, Start

(* A tick of task c, while ticks are counted.                              *)
LEMMA Ticked ==
  ASSUME Typed, nr_tasks > NThreads, Count,
         NEW c \in Tasks, c = current, NEW m \in Int,
         counter' = [counter EXCEPT ![c] = m]
  PROVE  /\ served'[c] = served[c] + 1 /\ counter'[c] = m
         /\ \A t \in Tasks \ {c} :
              served'[t] = served[t] /\ counter'[t] = counter[t]
         /\ \A t \in Tasks : served[t] \in Nat /\ counter[t] \in Int
         /\ critical \in Nat
<1>1. served' = [served EXCEPT ![c] = @ + 1]
  BY Sizes DEF Count, Typed
<1>. QED
  BY <1>1 DEF Typed

(* If few threads exist, no tick is counted.                               *)
LEMMA FewThreads ==
  ASSUME IInv, Next, nr_tasks <= NThreads, served' = served PROVE Shares'
<1>1. Typed' /\ Counters'
  BY TypedNext, CountersNext
<1>2. \A t \in Tasks : served'[t] = 0
  BY DEF IInv, Counters
<1>. QED
  BY <1>1, <1>2, Unserved

LEMMA SharesTimerTick == ASSUME IInv, TimerTick PROVE Shares'
<1>0. Typed /\ Shares /\ Typed'
  BY TypedNext DEF IInv, Next
<1>1. CASE nr_tasks <= NThreads
  BY <1>1, FewThreads DEF TimerTick, Count, Next
<1>2. CASE nr_tasks > NThreads
  <2>1. PICK c \in Tasks : c = current
    BY <1>0 DEF Typed
  <2>2. PICK n \in Int : n = counter[c]
    BY <1>0 DEF Typed
  <2>3. PICK m \in Int : m = IF n - 1 <= 0 THEN 0 ELSE n - 1
    OBVIOUS
  <2>4. /\ counter' = [counter EXCEPT ![c] = m] /\ Count
        /\ current' = c /\ critical' = critical
        /\ place' = IF n - 1 <= 0 THEN "_schedule" ELSE "kernel_exit"
    BY <2>1, <2>2, <2>3 DEF TimerTick, Expired
  <2>5. /\ served'[c] = served[c] + 1 /\ counter'[c] = m
        /\ \A t \in Tasks \ {c} :
             served'[t] = served[t] /\ counter'[t] = counter[t]
        /\ \A t \in Tasks : served[t] \in Nat /\ counter[t] \in Int
        /\ critical \in Nat
    BY <1>0, <1>2, <2>1, <2>4, Ticked
  <2>6. \A t \in Tasks \ {c} : Ahead(t)' = Ahead(t) /\ Behind(t)' = Behind(t)
    BY <2>5 DEF Ahead, Behind
  <2>7. \A t \in Tasks : /\ Ahead(t) \in Int /\ Behind(t) \in Int
                         /\ Ahead(t)' \in Int /\ Behind(t)' \in Int
    BY <2>5, <2>6 DEF Ahead, Behind, Positive
  <2>8. \/ current' = 0 \/ counter'[current'] > 0 \/ Standing' = "_schedule"
    <3>1. m > 0 \/ place' = "_schedule"
      BY <2>3, <2>4
    <3>2. place' = "_schedule" => Standing' = "_schedule"
      BY DEF Standing, Handler
    <3>. QED
      BY <2>4, <2>5, <3>1, <3>2
  <2>9. \A t, u \in Workers : Ahead(t)' - Behind(u)' <= Priority + critical
    <3>1. \A t, u \in Workers : Ahead(t) - Behind(u) <= Priority + critical
      BY <1>0 DEF Shares
    <3>2. CASE c = 0
      BY <2>6, <3>1, <3>2, Sizes
    <3>3. CASE n > 0
      <4>1. Ahead(c)' = Ahead(c) /\ Behind(c)' = Behind(c)
        BY <2>2, <2>3, <2>5, <3>3 DEF Ahead, Behind, Positive
      <4>. QED
        BY <2>6, <3>1, <4>1, Sizes
    <3>4. CASE c # 0 /\ n <= 0
      <4>1. /\ Ahead(c)' = Ahead(c) + 1 /\ Behind(c)' = Ahead(c)'
            /\ Behind(c)' >= Behind(c) + 1
        BY <2>2, <2>3, <2>5, <3>4 DEF Ahead, Behind, Positive
      <4>2. Standing # "_schedule"
        BY DEF TimerTick, Standing, Handler
      <4>3. \A u \in Workers : Ahead(c) - Behind(u) < Priority + critical
        BY <1>0, <2>1, <2>2, <3>4, <4>2 DEF Shares
      <4>4. ASSUME NEW t \in Workers, NEW u \in Workers
            PROVE  Ahead(t)' - Behind(u)' <= Priority + critical
        <5>1. /\ Ahead(t) - Behind(u) <= Priority + critical
              /\ Ahead(c) - Behind(u) < Priority + critical
              /\ t \in Tasks /\ u \in Tasks
          BY <3>1, <4>3, Sizes
        <5>2. CASE t = c /\ u = c
          BY <2>5, <2>7, <4>1, <5>2, Sizes
        <5>3. CASE t = c /\ u # c
          BY <2>5, <2>6, <2>7, <4>1, <5>1, <5>3, Sizes
        <5>4. CASE t # c /\ u = c
          BY <2>5, <2>6, <2>7, <4>1, <5>1, <5>4, Sizes
        <5>5. CASE t # c /\ u # c
          BY <2>6, <5>1, <5>5
        <5>. QED
          BY <5>2, <5>3, <5>4, <5>5
      <4>. QED
        BY <4>4
    <3>. QED
      BY <3>2, <3>3, <3>4
  <2>10. current' # 0 /\ counter'[current'] <= 0 => Standing' = "_schedule"
    <3>1. counter'[current'] \in Int
      BY <1>0 DEF Typed
    <3>. QED
      BY <2>8, <3>1
  <2>. QED
    BY <2>4, <2>9, <2>10 DEF Shares
<1>. QED
  BY <1>0, <1>1, <1>2, Sizes DEF Typed

LEMMA SharesTickCritical == ASSUME IInv, TickCritical PROVE Shares'
<1>0. Typed /\ Shares
  BY DEF IInv
<1>1. CASE nr_tasks <= NThreads
  BY <1>1, FewThreads DEF TickCritical, Count, Next
<1>2. CASE nr_tasks > NThreads
  <2>1. PICK c \in Tasks : c = current
    BY <1>0 DEF Typed
  <2>2. PICK n \in Int : n = counter[c]
    BY <1>0 DEF Typed
  <2>3. /\ counter' = [counter EXCEPT ![c] = n - 1] /\ Count
        /\ current' = c /\ critical' = critical + 1
        /\ Standing' = Standing
    BY <2>1, <2>2 DEF TickCritical, Standing, Interrupted, Handler
  <2>4. /\ served'[c] = served[c] + 1 /\ counter'[c] = n - 1
        /\ \A t \in Tasks \ {c} :
             served'[t] = served[t] /\ counter'[t] = counter[t]
        /\ \A t \in Tasks : served[t] \in Nat /\ counter[t] \in Int
        /\ critical \in Nat
    <3>1. n - 1 \in Int
      OBVIOUS
    <3>. QED
      BY <1>0, <1>2, <2>1, <2>3, <3>1, Ticked
  <2>5. \A t \in Tasks \ {c} : Ahead(t)' = Ahead(t)
    BY <2>4 DEF Ahead
  <2>6. \A t \in Tasks : Behind(t)' = Behind(t)
    BY <2>2, <2>4 DEF Behind
  <2>7. /\ n > 0 => Ahead(c)' = Ahead(c)
        /\ n <= 0 => Ahead(c)' = Ahead(c) + 1
    BY <2>2, <2>4 DEF Ahead, Positive
  <2>8. \A t \in Tasks : Ahead(t) \in Int /\ Behind(t) \in Int
    BY <2>4 DEF Ahead, Behind, Positive
  <2>9. \A t, u \in Workers : Ahead(t)' - Behind(u)' <= Priority + critical'
    <3>. SUFFICES ASSUME NEW t \in Workers, NEW u \in Workers
                  PROVE  Ahead(t)' - Behind(u)' <= Priority + critical'
      OBVIOUS
    <3>1. /\ Ahead(t) - Behind(u) <= Priority + critical
          /\ t \in Tasks /\ u \in Tasks
      BY <1>0, Sizes DEF Shares
    <3>2. Ahead(t)' = Ahead(t) \/ Ahead(t)' = Ahead(t) + 1
      BY <2>5, <2>7, <3>1
    <3>. QED
      BY <2>3, <2>4, <2>6, <2>8, <3>1, <3>2, Sizes
  <2>10. ASSUME c # 0, n - 1 <= 0, Standing # "_schedule", NEW u \in Workers
         PROVE  Ahead(c)' - Behind(u)' < Priority + critical'
    <3>1. u \in Tasks /\ c \in Workers
      BY <2>10, Sizes
    <3>2. CASE n <= 0
      <4>1. Ahead(c) - Behind(u) < Priority + critical
        BY <1>0, <2>1, <2>2, <2>10, <3>2 DEF Shares
      <4>. QED
        BY <2>3, <2>4, <2>6, <2>7, <2>8, <3>1, <3>2, <4>1, Sizes
    <3>3. CASE n > 0
      <4>1. Ahead(c) - Behind(u) <= Priority + critical
        BY <1>0, <3>1 DEF Shares
      <4>. QED
        BY <2>3, <2>4, <2>6, <2>7, <2>8, <3>1, <3>3, <4>1, Sizes
    <3>. QED
      BY <3>2, <3>3
  <2>. QED
    BY <2>3, <2>4, <2>9, <2>10 DEF Shares
<1>. QED
  BY <1>0, <1>1, <1>2, Sizes DEF Typed

LEMMA SharesRefill == ASSUME IInv, Refill PROVE Shares'
<1>0. Typed /\ Shares
  BY DEF IInv
<1>1. CASE nr_tasks <= NThreads
  BY <1>1, FewThreads DEF Refill, clock, Next
<1>2. CASE nr_tasks > NThreads
  <2>1. /\ Created = Tasks /\ UNCHANGED <<served, critical>>
        /\ critical \in Nat /\ Standing' = "_schedule"
    BY <1>0, <1>2 DEF Refill, Created, Tasks, Typed, clock, cpu, Standing, Handler
  <2>2. counter' = [t \in Tasks |-> Refilled(t)]
    BY <2>1 DEF Refill
  <2>3. ASSUME NEW t \in Tasks
        PROVE  /\ counter[t] \in Int /\ counter[t] <= 0 /\ served[t] \in Nat
               /\ counter'[t] = counter[t] \div 2 + Priority
    <3>1. /\ counter[t] \in Int /\ (counter[t] > -1 => counter[t] = 0)
          /\ served[t] \in Nat
      BY <1>0, <2>1 DEF Refill, Exhausted, Eligible, Typed
    <3>2. \A n \in Int : n > -1 \/ n <= 0
      OBVIOUS
    <3>. QED
      BY <2>2, <3>1, <3>2 DEF Refilled
  <2>4. ASSUME NEW t \in Workers, NEW u \in Workers
        PROVE  Ahead(t)' - Behind(u)' <= Priority + critical'
    <3>1. PICK n \in Int, h \in Int :
            n = counter[t] /\ h = n \div 2 /\ n <= 0 /\ h <= 0 /\ h >= n
      BY <2>3, Halved, Sizes
    <3>2. PICK m \in Int, k \in Int :
            m = counter[u] /\ k = m \div 2 /\ m <= 0 /\ k <= 0 /\ k >= m
      BY <2>3, Halved, Sizes
    <3>3. PICK p \in Nat, q \in Nat : p = served[t] /\ q = served[u]
      BY <2>3, Sizes
    <3>4. /\ Ahead(t) = p /\ Behind(u) = q + m
          /\ Ahead(t)' = p + Positive(h + Priority)
          /\ Behind(u)' = q + (k + Priority)
      <4>1. /\ served'[t] = p /\ served'[u] = q
            /\ counter'[t] = h + Priority /\ counter'[u] = k + Priority
        BY <2>1, <2>3, <3>1, <3>2, <3>3, Sizes
      <4>. QED
        BY <3>1, <3>2, <3>3, <4>1 DEF Ahead, Behind, Positive
    <3>5. p - (q + m) <= Priority + critical
      BY <1>0, <3>4 DEF Shares
    <3>6. p + Positive(h + Priority) - (q + (k + Priority)) <= p - (q + m)
      BY <3>1, <3>2, <3>3, Sizes DEF Positive
    <3>. QED
      BY <2>1, <3>1, <3>2, <3>3, <3>4, <3>5, <3>6, Sizes DEF Positive
  <2>. QED
    BY <2>1, <2>4 DEF Shares
<1>. QED
  BY <1>0, <1>1, <1>2, Sizes DEF Typed

LEMMA SharesNext == ASSUME IInv, Next PROVE Shares'
<1>0. Typed /\ Shares /\ Typed' /\ Stacks
  BY TypedNext DEF IInv
<1>1. CASE CopyProcess
  <2>1. nr_tasks <= NThreads /\ served' = served
    BY <1>1 DEF CopyProcess, clock
  <2>. QED
    BY <2>1, FewThreads
<1>2. CASE Schedule
  <2>1. /\ counter' = [counter EXCEPT ![0] = 0] /\ UNCHANGED <<critical, served>>
        /\ current' = 0
    BY <1>2 DEF Schedule, clock
  <2>2. \A t \in Workers : Ahead(t)' = Ahead(t) /\ Behind(t)' = Behind(t)
    BY <1>0, <2>1, Sizes DEF Ahead, Behind, Typed
  <2>. QED
    BY <1>0, <2>1, <2>2 DEF Shares
<1>3. CASE TimerTick \/ TickCritical \/ Refill
  BY <1>3, SharesTimerTick, SharesTickCritical, SharesRefill
<1>4. CASE Stay \/ CpuSwitchTo
  <2>1. PICK u \in Created : Best(u) /\ ~Exhausted /\ current' = u
    BY <1>0, <1>4 DEF Stay, CpuSwitchTo, sched, Created, Typed
  <2>2. current' = 0 \/ counter[current'] > 0
    BY <1>0, <2>1, ScanChooses
  <2>3. UNCHANGED <<counter, served, critical>>
    BY <1>4 DEF Stay, CpuSwitchTo, sched, clock
  <2>. QED
    BY <1>0, <2>2, <2>3, SharesSame
<1>5. CASE Start
  BY <1>0, <1>5, StartStep, SharesSame DEF sched, clock
<1>6. CASE RetFromFork \/ PreemptEnable \/ SendPoll \/ SendPut \/ Shift
  <2>1. UNCHANGED <<counter, served, critical, current>>
    BY <1>6 DEF RetFromFork, PreemptEnable, SendPoll, SendPut, Shift, sched, clock
  <2>2. Standing # "_schedule" \/ Standing' = Standing
    BY <1>6 DEF RetFromFork, PreemptEnable, SendPoll, SendPut, Shift, sched, cpu,
                Standing, Handler, Process, Own, Interrupted
  <2>. QED
    BY <1>0, <2>1, <2>2, SharesSame
<1>7. CASE KernelExit
  <2>1. UNCHANGED <<counter, served, critical, current>>
    BY <1>7 DEF KernelExit, sched, clock
  <2>2. place' \in Interruptible
    BY <1>7, StacksKernelExit
  <2>3. CASE place = "timer_tick"
    <3>1. Standing # "_schedule"
      BY <2>3 DEF Standing, Handler
    <3>. QED
      BY <1>0, <2>1, <3>1, SharesSame
  <2>4. CASE place = "kernel_exit"
    <3>1. Standing' = Standing
      BY <1>7, <2>2, <2>4
         DEF KernelExit, Standing, Handler, Interrupted, Interruptible
    <3>. QED
      BY <1>0, <2>1, <3>1, SharesSame
  <2>. QED
    BY <1>7, <2>3, <2>4 DEF KernelExit
<1>8. CASE Irq
  <2>1. UNCHANGED <<counter, served, critical, current>>
    BY <1>8 DEF Irq, sched, clock
  <2>2. PICK c \in Tasks : c = current /\ current' = c
    BY <1>0, <2>1 DEF Typed
  <2>3. /\ frames'[c] = Append(frames[c], [regs |-> regs, elr |-> place])
        /\ place \in Interruptible /\ place' = "el1_irq"
        /\ frames[c] \in Seq(Frame) /\ regs \in Regs
    BY <1>0, <1>8, <2>2 DEF Irq, KernelEntry, Vector, Typed
  <2>4. Last(frames'[c]).elr = place
    BY <2>3, AppendPushes DEF Pushed
  <2>5. Standing' = place /\ Standing = place
    BY <2>2, <2>3, <2>4 DEF Standing, Handler, Interrupted, Interruptible
  <2>. QED
    BY <1>0, <2>1, <2>5, SharesSame
<1>. QED
  BY <1>1, <1>2, <1>3, <1>4, <1>5, <1>6, <1>7, <1>8 DEF Next, Start

-----------------------------------------------------------------------------
(* The theorems.                                                           *)

(* The invariant is inductive: every step of the threads, of the timer and *)
(* of the UART keeps it.                                                   *)
THEOREM Inductive == Spec => []IInv
<1>1. Init => IInv
  BY InitIInv
<1>2. IInv /\ [Next]_vars => IInv'
  <2>1. ASSUME IInv, Next PROVE IInv'
    BY <2>1, TypedNext, UartSetNext, ContextsNext, StacksNext, LossesNext,
       OutputNext, CountersNext, SharesNext DEF IInv
  <2>2. ASSUME IInv, UNCHANGED vars PROVE IInv'
    <3>1. /\ UNCHANGED <<nr_tasks, current, counter, context, switches>>
          /\ UNCHANGED <<frames, place, regs, ticks, critical, served>>
          /\ UNCHANGED <<reg, next, sent, tx, wire, lost>>
      BY <2>2 DEF vars, sched, cpu, clock, uart, board
    <3>2. Typed' /\ UartSet' /\ Contexts' /\ Counters'
      BY <2>2, <3>1 DEF IInv, Typed, UartSet, Contexts, Counters
    <3>3. Stacks' /\ Losses' /\ OutputInOrder'
      <4>1. \A t : /\ Placed(t)' = Placed(t) /\ Loaded(t)' = Loaded(t)
                   /\ Wrote(t)' = Wrote(t) /\ LostBy(t)' = LostBy(t)
        BY <3>1 DEF Placed, Loaded, Wrote, LostBy
      <4>2. Stacks' /\ \A t : Holds(t)' <=> Holds(t)
        BY <2>2, <3>1, <4>1 DEF IInv, Stacks, Holds
      <4>3. Losses'
        BY <2>2, <3>1, <4>1, <4>2 DEF IInv, Losses, Room
      <4>. QED
        BY <2>2, <3>1, <4>2, <4>3, OutputSame DEF IInv, Out
    <3>4. Shares'
      BY <2>2, <3>1 DEF IInv, Shares, Ahead, Behind, Standing, Interrupted
    <3>. QED
      BY <3>2, <3>3, <3>4 DEF IInv
  <2>. QED
    BY <2>1, <2>2
<1>. QED
  BY <1>1, <1>2, PTL DEF Spec

(* _schedule and timer_tick share the CPU evenly: the ticks of two threads *)
(* differ by no more than two periods and the ticks that _schedule took,   *)
(* however many threads there are and whatever they do.                    *)
THEOREM SharesAreEven == Spec => []EvenShares
<1>1. IInv => EvenShares
  <2>. SUFFICES ASSUME IInv, NEW t \in Workers, NEW u \in Workers
                PROVE  served[t] - served[u] <= 2 * Priority + critical
    BY DEF EvenShares
  <2>1. PICK p \in Nat, q \in Nat, n \in Int, m \in Int, k \in Nat :
          /\ p = served[t] /\ q = served[u] /\ k = critical
          /\ n = counter[t] /\ m = counter[u]
    BY Sizes DEF IInv, Typed
  <2>2. /\ p + Positive(n) - (q + m) <= Priority + k /\ m <= Priority
    <3>1. Ahead(t) = p + Positive(n) /\ Behind(u) = q + m
      BY <2>1 DEF Ahead, Behind
    <3>2. Ahead(t) - Behind(u) <= Priority + critical
      BY DEF IInv, Shares
    <3>3. counter[u] <= Priority
      BY Sizes DEF IInv, Counters
    <3>4. p + Positive(n) - (q + m) <= Priority + k
      <4>1. Positive(n) \in Int
        BY DEF Positive
      <4>. QED
        BY <2>1, <3>1, <3>2, <4>1, Sizes
    <3>5. m <= Priority
      BY <2>1, <3>3
    <3>. QED
      BY <3>4, <3>5
  <2>. QED
    BY <2>1, <2>2, Sizes DEF Positive
<1>. QED
  BY <1>1, Inductive, PTL

(* uart_send under preemption: what a thread sends comes out as its own    *)
(* array's characters, in their order, each once, or is counted as lost.   *)
THEOREM OutputIsInOrder == Spec => []OutputInOrder
<1>1. IInv => OutputInOrder
  BY DEF IInv
<1>. QED
  BY <1>1, Inductive, PTL

(* uart_send: the test and the write can be parted only by a switch, and   *)
(* each of these loses at most the one character in hand.                  *)
THEOREM OneLossPerSwitch == Spec => []LossPerSwitch
<1>1. IInv => LossPerSwitch
  BY DEF IInv, Losses, LossPerSwitch
<1>. QED
  BY <1>1, Inductive, PTL

=============================================================================
