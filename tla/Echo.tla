------------------------------- MODULE Echo --------------------------------
(***************************************************************************)
(* The console of lessons 1 to 3, from reset on: kernel_main sets up the   *)
(* mini UART and echoes what it receives.  Lesson 2 drops to EL1 and       *)
(* prints with printf; in lesson 3 the timer handler prints through the    *)
(* same UART.  uart_send tests the line status and then writes, and the    *)
(* handler may run between the two.                                        *)
(***************************************************************************)
EXTENDS MiniUart, SequencesExt, FiniteSets

CONSTANTS
  Lessons,    (* The lessons whose kernel may run.                         *)
  FifoDepth,  (* Symbols each FIFO of the mini UART holds: 8 on the board. *)
  MsgLen,     (* Length of each message.                                   *)
  Others,     (* Whether IRQ_PENDING_1 may show a line besides the timer.  *)
  MaxChars,   (* Bound: characters that arrive.                            *)
  MaxIrqs     (* Bound: interrupts that are taken.                         *)

ASSUME EchoAssumption ==
  /\ {FifoDepth, MsgLen, MaxChars, MaxIrqs} \subseteq Nat \ {0}
  /\ Lessons \subseteq 1 .. 3
  /\ Others \subseteq BOOLEAN /\ Others # {}

(* A character is known by what it belongs to, so that losses, duplicates  *)
(* and reordering show: the n-th input, or place i of a message, which     *)
(* carries a number.                                                       *)
Input(n) == <<"input", n, 1>>
Text(kind, n) == [i \in 1 .. MsgLen |-> <<kind, n, i>>]
Inputs == {Input(n) : n \in 1 .. MaxChars}
Scratch == Input(0)  (* What is in the register of ch when a handler ran.   *)
IsInput(c) == c \in Inputs
Messages == {"greeting", "level", "tick", "unknown"} \X (1 .. MaxIrqs + 2) \X (1 .. MsgLen)

VARIABLES
  lesson,    (* Which kernel runs.                                         *)
  rx,        (* Receive FIFO.                                              *)
  tx,        (* Transmit FIFO.                                             *)
  wire,      (* What has been transmitted.                                 *)
  pc,        (* Where the program is.                                      *)
  el,        (* CurrentEL.                                                 *)
  masked,    (* The exceptions that PSTATE masks.                          *)
  elr,       (* elr_el1: the place that was interrupted ...                *)
  spsr,      (* ... and spsr_el1: what it had masked.                      *)
  frames,    (* The frames of kernel_entry on the stack.                   *)
  ch,        (* The result of uart_recv, in a register.                    *)
  printing,  (* Rest of the message being printed.                         *)
  parts,     (* What else kernel_main has set up.                          *)
  m1,        (* A timer match is pending.                                  *)
  arrived,   (* History: characters that came in ...                       *)
  rxLost,    (* ... found the receive FIFO full ...                        *)
  txLost,    (* ... or were written to a full transmit FIFO.               *)
  messages,  (* History: messages begun.                                   *)
  irqs       (* History: interrupts taken.                                 *)

line == <<rx, tx, wire>>
cpu == <<el, masked, elr, spsr, frames>>
history == <<arrived, rxLost, txLost, messages, irqs>>
setUp == <<lesson, board, parts>>
vars == <<setUp, line, pc, cpu, ch, printing, m1, history>>

(* The exceptions that an interrupt controller or the bus may raise.       *)
Async == {"irq", "fiq", "error"}

(* What kernel_main calls before its loop, in each lesson.                 *)
(* Mutant: interrupts are enabled before the vectors are set.              *)
KernelMainEnablesEarly ==
  << <<"selector", "uart_init", "greet">>,
     <<"selector", "uart_init", "init_printf", "greet", "get_el">>,
     <<"selector", "uart_init", "init_printf", "greet", "timer_init",
       "enable_interrupt_controller", "enable_irq", "irq_vector_init">> >>
KernelMain ==
  << <<"selector", "uart_init", "greet">>,
     <<"selector", "uart_init", "init_printf", "greet", "get_el">>,
     <<"selector", "uart_init", "init_printf", "greet", "irq_vector_init",
       "timer_init", "enable_interrupt_controller", "enable_irq">> >>

CallAfter(call) ==
  LET calls == KernelMain[lesson]
      i == CHOOSE j \in 1 .. Len(calls) : calls[j] = call
  IN  IF i = Len(calls) THEN "recv" ELSE calls[i + 1]

(* _start, after a reset.  The other cores hang in proc_hang; the timer    *)
(* holds what the firmware left.                                           *)
Init ==
  /\ lesson \in Lessons
  /\ ResetUart
  /\ rx = <<>> /\ tx = <<>> /\ wire = <<>>
  /\ pc = "start"
  /\ el = 3 /\ masked = Async /\ elr = "start" /\ spsr = {} /\ frames = <<>>
  /\ ch = Input(1)
  /\ printing = <<>>
  /\ parts = {}
  /\ m1 \in BOOLEAN
  /\ arrived = 0 /\ rxLost = {} /\ txLost = {} /\ messages = 0 /\ irqs = 0

(* The line, at both ends, and the timer.  Nothing is received while the   *)
(* receiver is off, but the firmware may have left it on.                  *)
Arrive ==
  /\ arrived < MaxChars /\ Enabled
  /\ arrived' = arrived + 1
  /\ IF Len(rx) < FifoDepth
     THEN rx' = Append(rx, Input(arrived')) /\ UNCHANGED rxLost
     ELSE rxLost' = rxLost \cup {Input(arrived')} /\ UNCHANGED rx
  /\ UNCHANGED <<setUp, tx, wire, pc, cpu, ch, printing, m1, txLost, messages, irqs>>

Shift ==
  /\ tx # <<>>
  /\ wire' = Append(wire, Head(tx))
  /\ tx' = Tail(tx)
  /\ UNCHANGED <<setUp, rx, pc, cpu, ch, printing, m1, history>>

Match ==
  /\ ~m1
  /\ m1' = TRUE
  /\ UNCHANGED <<setUp, line, pc, cpu, ch, printing, history>>

(* A step of the program, which first prints what it has to print.         *)
Step(from, to) == printing = <<>> /\ pc = from /\ pc' = to
Call(call) == Step(call, CallAfter(call))

(* What lessons 2 and 3 write to the registers of EL2 and EL3.             *)
HCR_VALUE == [RW |-> 64]
SCR_VALUE == [RW |-> 64, NS |-> TRUE]
(* Mutant: nothing is masked after the eret.                               *)
SPSR_VALUEUnmasked == [mask |-> {}, M |-> [el |-> 1, width |-> 64]]
SPSR_VALUE == [mask |-> Async, M |-> [el |-> 1, width |-> 64]]

(* master: in lesson 1 straight on, at the level of the reset; otherwise   *)
(* an eret to el1_entry, legal if each level is as wide as the one above   *)
(* says.  Then the bss is cleared and there is a stack.                    *)
Master ==
  /\ IF lesson = 1
     THEN Step("start", "selector") /\ UNCHANGED <<el, masked>>
     ELSE /\ SCR_VALUE.RW = HCR_VALUE.RW /\ HCR_VALUE.RW = SPSR_VALUE.M.width
          /\ Step("start", "selector")
          /\ el' = SPSR_VALUE.M.el /\ masked' = SPSR_VALUE.mask
  /\ UNCHANGED <<setUp, line, elr, spsr, frames, ch, printing, m1, history>>

(* uart_init: the selector, and the accesses one after the other.          *)
UartSelector ==
  /\ Call("selector")
  /\ Select
  /\ UNCHANGED <<lesson, parts, line, cpu, ch, printing, m1, history>>

UartInit ==
  /\ IF next < Len(Access) THEN Step("uart_init", "uart_init") ELSE Call("uart_init")
  /\ AccessNext
  /\ UNCHANGED <<lesson, parts, line, cpu, ch, printing, m1, history>>

(* Calls that set up one more part.                                        *)
StartUp(call) ==
  /\ Call(call)
  /\ parts' = parts \cup {call}
  /\ UNCHANGED <<lesson, board, line, cpu, ch, printing, m1, history>>

InitPrintf == StartUp("init_printf")
IrqVectorInit == StartUp("irq_vector_init")
TimerInit == StartUp("timer_init")
EnableInterruptController == StartUp("enable_interrupt_controller")

EnableIrq ==
  /\ Call("enable_irq")
  /\ masked' = masked \ {"irq"}
  /\ UNCHANGED <<setUp, line, el, elr, spsr, frames, ch, printing, m1, history>>

(* Mutant: uart_send does not wait.                                        *)
RoomUnchecked == TRUE
(* AUX_MU_LSR_REG & 0x20 and & 0x01.                                       *)
Room == Len(tx) < FifoDepth
(* Mutant: uart_recv does not wait.                                        *)
DataReadyUnchecked == TRUE
(* Mutant: uart_recv tests the bit next to it, receiver overrun.           *)
DataReadyOverrun == rxLost # {}
DataReady == rx # <<>>

(* The write to AUX_MU_IO_REG; a full FIFO drops the character, and so     *)
(* does a UART that is not set up.                                         *)
Put(c) ==
  IF Len(tx) < FifoDepth /\ Enabled
  THEN tx' = Append(tx, c) /\ UNCHANGED txLost
  ELSE txLost' = txLost \cup {c} /\ UNCHANGED tx

(* uart_send_string in lesson 1, and printf with putc under it: with IRQs  *)
(* masked only the line moves between the test and the write of uart_send, *)
(* and it only makes room.                                                 *)
Say(kind, n) ==
  /\ messages' = messages + 1
  /\ printing' = Text(kind, n) \o printing

Putc ==
  /\ printing # <<>>
  /\ lesson = 1 \/ "init_printf" \in parts
  /\ Room
  /\ Put(Head(printing))
  /\ printing' = Tail(printing)
  /\ UNCHANGED <<setUp, rx, wire, pc, cpu, ch, m1, arrived, rxLost, messages, irqs>>

Greet ==
  /\ Call("greet")
  /\ Say("greeting", messages')
  /\ UNCHANGED <<setUp, line, cpu, ch, m1, arrived, rxLost, txLost, irqs>>

(* Lesson 2 prints the level it runs at.                                   *)
GetEl ==
  /\ Call("get_el")
  /\ Say("level", el)
  /\ UNCHANGED <<setUp, line, cpu, ch, m1, arrived, rxLost, txLost, irqs>>

(* The vectors of EL1h, the level the kernel runs at: all but one end in   *)
(* err_hang.                                                               *)
Vector == [kind \in Async |-> IF kind = "irq" THEN "el1_irq" ELSE "err_hang"]

(* A system error or an FIQ may come from outside at any time.             *)
Pending(kind) == kind = "irq" => m1 /\ "enable_interrupt_controller" \in parts

(* An exception, and kernel_entry: the general registers go to the stack,  *)
(* but elr_el1 and spsr_el1 do not.  Without vectors it is lost.           *)
KernelEntry ==
  \E kind \in Async :
    /\ irqs < MaxIrqs
    /\ kind \notin masked /\ Pending(kind)
    /\ pc' = IF "irq_vector_init" \in parts /\ el = 1 THEN Vector[kind] ELSE "lost"
    /\ elr' = pc /\ spsr' = masked /\ masked' = Async
    /\ frames' = <<ch>> \o frames
    /\ irqs' = irqs + 1
    /\ UNCHANGED <<setUp, line, el, ch, printing, m1, arrived, rxLost, txLost, messages>>

(* Mutant: the handler unmasks IRQs.                                       *)
HandlerMaskOff == masked \ {"irq"}
HandlerMask == masked

(* handle_irq: only when the timer is all that is pending is it the        *)
(* timer's handler that runs, and acknowledges the match.                  *)
Handle(kind) ==
  /\ pc = "el1_irq" /\ pc' = "kernel_exit"
  /\ Say(kind, messages')
  /\ masked' = HandlerMask
  /\ ch' = Scratch
  /\ UNCHANGED <<setUp, line, el, elr, spsr, frames, arrived, rxLost, txLost, irqs>>

HandleTimerIrq == FALSE \in Others /\ Handle("tick") /\ m1' = FALSE
UnknownIrq == TRUE \in Others /\ Handle("unknown") /\ UNCHANGED m1

KernelExit ==
  /\ Step("kernel_exit", elr)
  /\ masked' = spsr
  /\ frames' = Tail(frames) /\ ch' = Head(frames)
  /\ UNCHANGED <<setUp, line, el, elr, spsr, printing, m1, history>>

(* The loop of kernel_main.                                                *)
RecvPoll ==
  /\ Step("recv", "read")
  /\ DataReady
  /\ UNCHANGED <<setUp, line, cpu, ch, printing, m1, history>>

(* An empty FIFO gives the last character again.                           *)
RecvRead ==
  /\ Step("read", "send")
  /\ ch' = IF rx = <<>> THEN ch ELSE Head(rx)
  /\ rx' = IF rx = <<>> THEN rx ELSE Tail(rx)
  /\ UNCHANGED <<setUp, tx, wire, cpu, printing, m1, history>>

SendPoll ==
  /\ Step("send", "put")
  /\ Room
  /\ UNCHANGED <<setUp, line, cpu, ch, printing, m1, history>>

SendPut ==
  /\ Step("put", "recv")
  /\ Put(ch)
  /\ UNCHANGED <<setUp, rx, wire, cpu, ch, printing, m1, arrived, rxLost, messages, irqs>>

(* All that the program does.                                              *)
Cpu ==
  \/ Master
  \/ UartSelector \/ UartInit \/ InitPrintf \/ Greet \/ GetEl
  \/ IrqVectorInit \/ TimerInit \/ EnableInterruptController \/ EnableIrq
  \/ HandleTimerIrq \/ UnknownIrq \/ KernelExit \/ Putc
  \/ RecvPoll \/ RecvRead \/ SendPoll \/ SendPut

Next == Arrive \/ Shift \/ Match \/ KernelEntry \/ Cpu

Spec == Init /\ [][Next]_vars

(* The line transmits; the CPU, which has only this program, runs it.      *)
FairSpec == Spec /\ WF_vars(Shift) /\ WF_vars(Cpu)

-----------------------------------------------------------------------------
(* Properties.                                                             *)

(* All that went to the transmitter and was not dropped.                   *)
Out == wire \o tx

(* Where the loop is, the character in its hand, and the way of a character*)
(* from the transmitter's end back to the receiver's.                      *)
LoopAt == IF frames = <<>> THEN pc ELSE elr
Held == IF LoopAt \notin {"send", "put"} THEN <<>>
        ELSE IF frames = <<>> THEN <<ch>> ELSE frames
Way == Out \o Held \o rx
Echoes(s) == {i \in DOMAIN s : IsInput(s[i])}
OnWay == {Way[i] : i \in Echoes(Way)}

(* The loop uart_send(uart_recv()): every character that arrived is, once, *)
(* on its way or lost to a full FIFO, and those on their way are in order. *)
EchoAccounted ==
  /\ \A i, j \in Echoes(Way) : i < j => Way[i][2] < Way[j][2]
  /\ OnWay \cup rxLost \cup txLost = {Input(n) : n \in 1 .. arrived}
  /\ OnWay \cap (rxLost \cup txLost) = {} /\ rxLost \cap txLost = {}

(* printf in the handler: each message reaches the line complete and in    *)
(* one piece, whatever the main loop was sending when it was interrupted;  *)
(* and the level lesson 2 prints is the one el1_entry promises.            *)
MessagesWhole ==
  /\ \A i \in 1 .. Len(Out) - 1 :
       Out[i] \in Messages /\ Out[i][3] < MsgLen =>
         Out[i + 1] = <<Out[i][1], Out[i][2], Out[i][3] + 1>>
  /\ Cardinality(DOMAIN Out \ Echoes(Out)) + Len(printing) = messages * MsgLen
  /\ \A i \in DOMAIN Out : Out[i][1] = "level" => Out[i][2] = 1

(* uart_send between its test and its write: an interrupt can cost the     *)
(* loop a character, the one in its hand, but never more than one, and no  *)
(* message loses any.                                                      *)
LossPerIrq == txLost \subseteq Inputs /\ Cardinality(txLost) <= irqs

(* The mask that eret and enable_irq leave, and the order of kernel_main:  *)
(* whatever the board raises from the reset on, no exception is taken      *)
(* before the vectors stand, and then none that ends in err_hang.          *)
OnlyServedExceptions == pc \notin {"lost", "err_hang"}

(* Every character that comes in is transmitted, unless a full FIFO took   *)
(* it: neither busy wait of the loop lasts for ever.                       *)
EveryCharEchoed ==
  \A n \in 1 .. MaxChars :
    (arrived >= n) ~> (Input(n) \in Range(wire) \cup rxLost \cup txLost)

=============================================================================
