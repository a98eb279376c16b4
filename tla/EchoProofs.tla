----------------------------- MODULE EchoProofs -----------------------------
(***************************************************************************)
(* For FIFOs and messages of any size and any number of characters and     *)
(* interrupts: the mini UART is set up before it is used, no exception is  *)
(* taken before the kernel can serve it, every character is echoed once    *)
(* and in order or accounted for as lost, and messages stay whole.         *)
(***************************************************************************)
EXTENDS Echo, SequenceTheorems, FiniteSetTheorems, TLAPS

-----------------------------------------------------------------------------
(* uart_init: what the registers and pins hold before access next.         *)

Registers == {"GPFSEL1", "GPPUD", "GPPUDCLK0", "AUX_ENABLES"} \cup AuxMu

Stage ==
  /\ next \in 1 .. 13 /\ settle \in Nat /\ setup \in BOOLEAN
  /\ DOMAIN reg = Registers /\ DOMAIN pull = Pins
  /\ next > 1 => reg.GPPUD = 0
  /\ next = 3 => Settled
  /\ next \in {4, 5} => setup /\ reg.GPPUDCLK0 = DataPins
  /\ next = 5 => Settled
  /\ next > 5 => \A p \in DataPins : pull[p] = "off"
  /\ next > 6 => reg.AUX_ENABLES = 1
  /\ next > 7 => reg.AUX_MU_CNTL_REG = IF next = 13 THEN 3 ELSE 0
  /\ next > 8 => reg.AUX_MU_IER_REG = 0
  /\ next > 9 => reg.AUX_MU_LCR_REG = 3
  /\ next > 10 => reg.AUX_MU_MCR_REG = 0
  /\ next > 11 => reg.AUX_MU_BAUD_REG = 270

(* The selector of the data pins, once it is set, and of the others.       *)
Selected == \A p \in DataPins : reg.GPFSEL1[p] = Alt5
OthersKept ==
  /\ DOMAIN reg.GPFSEL1 = Pins
  /\ \A p \in Pins \ DataPins : reg.GPFSEL1[p] = Firmware
  /\ \A p \in DataPins : reg.GPFSEL1[p] \in {Firmware, Alt5}

Board == Stage /\ OthersKept

LEMMA AccessAt ==
  /\ Len(Access) = 12
  /\ Access[1] = Put32("GPPUD", 0)
  /\ Access[2] = Delay(150)
  /\ Access[3] = Put32("GPPUDCLK0", DataPins)
  /\ Access[4] = Delay(150)
  /\ Access[5] = Put32("GPPUDCLK0", {})
  /\ Access[6] = Put32("AUX_ENABLES", 1)
  /\ Access[7] = Put32("AUX_MU_CNTL_REG", 0)
  /\ Access[8] = Put32("AUX_MU_IER_REG", 0)
  /\ Access[9] = Put32("AUX_MU_LCR_REG", 3)
  /\ Access[10] = Put32("AUX_MU_MCR_REG", 0)
  /\ Access[11] = Put32("AUX_MU_BAUD_REG", 270)
  /\ Access[12] = Put32("AUX_MU_CNTL_REG", 3)
BY DEF Access

LEMMA ResetBoard == ASSUME ResetUart PROVE Board /\ next = 1
<1>1. PICK on \in {0, 1}, old \in {0, 3} :
        reg = [GPFSEL1 |-> [p \in Pins |-> Firmware], GPPUD |-> 2,
               GPPUDCLK0 |-> {}, AUX_ENABLES |-> on, AUX_MU_CNTL_REG |-> old,
               AUX_MU_IER_REG |-> old, AUX_MU_LCR_REG |-> 0,
               AUX_MU_MCR_REG |-> old, AUX_MU_BAUD_REG |-> old]
  BY DEF ResetUart
<1>2. DOMAIN reg = Registers
  BY <1>1 DEF Registers, AuxMu
<1>3. reg.GPFSEL1 = [p \in Pins |-> Firmware]
  BY <1>1
<1>4. OthersKept
  BY <1>3 DEF OthersKept, DataPins, Pins
<1>5. next = 1 /\ settle = 0 /\ setup = FALSE /\ pull = [p \in Pins |-> "up"]
  BY DEF ResetUart
<1>6. DOMAIN pull = Pins
  BY <1>5
<1>7. setup \in BOOLEAN /\ settle \in Nat /\ next = 1
  BY <1>5
<1>8. Stage
  BY <1>2, <1>6, <1>7 DEF Stage
<1>. QED
  BY <1>4, <1>5, <1>8 DEF Board

(* The mask clears the field, and the or leaves bit 1 alone.               *)
LEMMA FieldIsAlt5 ==
  ASSUME NEW field \in {Firmware, Alt5} PROVE Field(field) = Alt5
<1>1. field \subseteq 0 .. 2
  BY MiniUartAssumption DEF Alt5
<1>2. field \ {0, 1, 2} = {}
  BY <1>1
<1>. QED
  BY <1>2 DEF Field

LEMMA SelectKeeps == ASSUME Board, Select PROVE Board' /\ Selected'
<1>1. /\ reg' = [reg EXCEPT !.GPFSEL1 = Selector]
      /\ UNCHANGED <<pull, settle, setup, next>> /\ DOMAIN reg = Registers
  BY DEF Select, Board, Stage
<1>2. reg'.GPFSEL1 = Selector /\ DOMAIN reg' = Registers
  BY <1>1 DEF Registers
<1>3. \A r \in Registers \ {"GPFSEL1"} : reg'[r] = reg[r]
  BY <1>1
<1>4. \A p \in DataPins : Selector[p] = Alt5
  BY FieldIsAlt5 DEF Selector, Pins, DataPins, Board, OthersKept
<1>5. DOMAIN Selector = Pins
      /\ \A p \in Pins \ DataPins : Selector[p] = Firmware
  BY DEF Selector, Board, OthersKept
<1>6. Stage'
  BY <1>1, <1>2, <1>3 DEF Board, Stage, Settled, Registers, AuxMu
<1>. QED
  BY <1>2, <1>4, <1>5, <1>6 DEF Board, OthersKept, Selected

(* A write to a register that takes it.                                    *)
LEMMA Writes ==
  ASSUME NEW r \in Registers, NEW v, DOMAIN reg = Registers,
         Written(Put32(r, v)), r \in AuxMu => reg.AUX_ENABLES = 1
  PROVE  /\ DOMAIN reg' = Registers /\ reg'[r] = v
         /\ \A q \in Registers \ {r} : reg'[q] = reg[q]
BY DEF Written, Put32

LEMMA AccessKeeps ==
  ASSUME Board, AccessNext, next <= 12
  PROVE  /\ Board' /\ reg'.GPFSEL1 = reg.GPFSEL1
         /\ next' = next + 1
<1>1. next \in 1 .. 12 /\ next' = next + 1 /\ DOMAIN reg = Registers
  BY DEF Board, Stage, AccessNext
<1>2. CASE next \in {2, 4}
  <2>1. /\ settle' = settle + 150 /\ UNCHANGED <<reg, pull, setup>>
    BY <1>2, AccessAt DEF AccessNext, Elapsed, Delay, Put32
  <2>. QED
    BY <1>1, <1>2, <2>1 DEF Board, Stage, OthersKept, Settled
<1>3. ASSUME NEW r \in Registers \ {"GPFSEL1"}, NEW v,
             Access[next] = Put32(r, v),
             r \in AuxMu => next > 6
      PROVE  /\ DOMAIN reg' = Registers /\ reg'[r] = v
             /\ \A q \in Registers \ {r} : reg'[q] = reg[q]
             /\ DOMAIN pull' = Pins /\ settle' \in Nat /\ setup' \in BOOLEAN
             /\ r # "GPPUDCLK0" => pull' = pull /\ setup' = setup
             /\ r = "GPPUDCLK0" => setup' = Settled
             /\ OthersKept' /\ reg'.GPFSEL1 = reg.GPFSEL1
  <2>1. Written(Put32(r, v))
    BY <1>3 DEF AccessNext, Put32
  <2>2. r \in AuxMu => reg.AUX_ENABLES = 1
    BY <1>1, <1>3 DEF Board, Stage
  <2>3. /\ DOMAIN reg' = Registers /\ reg'[r] = v
        /\ \A q \in Registers \ {r} : reg'[q] = reg[q]
    BY <1>1, <2>1, <2>2, Writes
  <2>4. reg'.GPFSEL1 = reg.GPFSEL1
    BY <2>3 DEF Registers
  <2>5. /\ settle' \in Nat /\ setup' \in BOOLEAN
        /\ r # "GPPUDCLK0" => setup' = setup
        /\ r = "GPPUDCLK0" => setup' = Settled
    <3>1. /\ settle' = IF r \in {"GPPUD", "GPPUDCLK0"} THEN 0 ELSE settle
          /\ setup' = IF r = "GPPUDCLK0" THEN Settled ELSE setup
          /\ settle \in Nat /\ setup \in BOOLEAN
      BY <2>1 DEF Written, Put32, Board, Stage
    <3>2. settle' \in Nat
      BY <3>1
    <3>3. (settle >= 150) \in BOOLEAN
      OBVIOUS
    <3>4. CASE r = "GPPUDCLK0"
      BY <3>1, <3>2, <3>3, <3>4 DEF Settled
    <3>5. CASE r # "GPPUDCLK0"
      BY <3>1, <3>2, <3>5
    <3>. QED
      BY <3>4, <3>5
  <2>6. DOMAIN pull' = Pins /\ (r # "GPPUDCLK0" => pull' = pull)
    BY <2>1 DEF Written, Put32, Board, Stage
  <2>. QED
    BY <2>3, <2>4, <2>5, <2>6 DEF Board, OthersKept
<1>4. CASE next = 1
  BY <1>1, <1>3, <1>4, AccessAt DEF Board, Stage, Registers, AuxMu
<1>5. CASE next = 3
  <2>1. "GPPUDCLK0" \in Registers \ {"GPFSEL1"} /\ "GPPUDCLK0" \notin AuxMu
    BY DEF Registers, AuxMu
  <2>2. /\ DOMAIN reg' = Registers /\ reg'["GPPUDCLK0"] = DataPins
        /\ \A q \in Registers \ {"GPPUDCLK0"} : reg'[q] = reg[q]
        /\ DOMAIN pull' = Pins /\ settle' \in Nat
        /\ setup' \in BOOLEAN /\ setup' = Settled
        /\ OthersKept' /\ reg'.GPFSEL1 = reg.GPFSEL1
    BY <1>3, <1>5, <2>1, AccessAt
  <2>3. setup'
    BY <1>5, <2>2 DEF Board, Stage
  <2>4. reg'.GPPUD = 0
    BY <1>5, <2>2 DEF Board, Stage, Registers
  <2>5. Stage'
    BY <1>1, <1>5, <2>2, <2>3, <2>4 DEF Stage
  <2>. QED
    BY <1>1, <2>2, <2>5 DEF Board
<1>6. CASE next = 5
  <2>1. Written(Put32("GPPUDCLK0", {}))
    BY <1>6, AccessAt DEF AccessNext, Put32
  <2>2. /\ setup /\ Settled /\ reg.GPPUD = 0 /\ reg.GPPUDCLK0 = DataPins
    BY <1>6 DEF Board, Stage
  <2>3. \A p \in DataPins : pull'[p] = "off"
    BY <2>1, <2>2 DEF Written, Put32, Pins, DataPins
  <2>4. "GPPUDCLK0" \in Registers \ {"GPFSEL1"} /\ "GPPUDCLK0" \notin AuxMu
    BY DEF Registers, AuxMu
  <2>5. /\ DOMAIN reg' = Registers
        /\ \A q \in Registers \ {"GPPUDCLK0"} : reg'[q] = reg[q]
        /\ DOMAIN pull' = Pins /\ settle' \in Nat /\ setup' \in BOOLEAN
        /\ OthersKept' /\ reg'.GPFSEL1 = reg.GPFSEL1
    BY <1>3, <1>6, <2>4, AccessAt
  <2>6. reg'.GPPUD = 0
    BY <2>2, <2>5 DEF Registers
  <2>7. Stage'
    BY <1>1, <1>6, <2>3, <2>5, <2>6 DEF Stage
  <2>. QED
    BY <1>1, <2>5, <2>7 DEF Board
<1>7. CASE next = 6
  BY <1>1, <1>3, <1>7, AccessAt DEF Board, Stage, Registers, AuxMu
<1>8. CASE next \in {7, 8, 9}
  BY <1>1, <1>3, <1>8, AccessAt DEF Board, Stage, Registers, AuxMu
<1>9. CASE next \in {10, 11, 12}
  BY <1>1, <1>3, <1>9, AccessAt DEF Board, Stage, Registers, AuxMu
<1>. QED
  BY <1>1, <1>2, <1>4, <1>5, <1>6, <1>7, <1>8, <1>9

LEMMA BoardReady ==
  ASSUME Board, next > 1 => Selected PROVE UartReadyFirst
<1>1. ASSUME Enabled, Reset PROVE Configured
  <2>1. PICK i \in 1 .. next - 1 :
          Access[i].op = "put32" /\ Access[i].r = "AUX_MU_CNTL_REG"
    BY <1>1 DEF Reset
  <2>2. i \in 1 .. 12 /\ next \in 1 .. 13
    BY DEF Board, Stage
  <2>3. i >= 7
    <3>1. \A j \in {2, 4} : Access[j].op # "put32"
      BY AccessAt DEF Delay
    <3>2. \A j \in {1, 3, 5, 6} : Access[j].r # "AUX_MU_CNTL_REG"
      BY AccessAt DEF Put32
    <3>. QED
      BY <2>1, <2>2, <3>1, <3>2
  <2>4. next = 13
    BY <1>1, <2>2, <2>3 DEF Enabled, Board, Stage
  <2>. QED
    BY <2>4 DEF Configured, Selected, Board, Stage
<1>. QED
  BY <1>1 DEF UartReadyFirst, Board, OthersKept

-----------------------------------------------------------------------------
(* The order of kernel_main.                                               *)

Early == {"start", "selector", "uart_init"}
Middle == {"init_printf", "greet", "get_el", "irq_vector_init"}
Timers == {"timer_init", "enable_interrupt_controller", "enable_irq"}
Loop == {"recv", "read", "send", "put"}
Handler == {"el1_irq", "kernel_exit"}

LEMMA Found ==
  ASSUME NEW s, NEW k \in 1 .. Len(s),
         \A j \in 1 .. Len(s) : s[j] = s[k] => j = k
  PROVE  (CHOOSE j \in 1 .. Len(s) : s[j] = s[k]) = k
OBVIOUS

LEMMA CallsDistinct ==
  ASSUME lesson \in 1 .. 3
  PROVE  \A j, k \in 1 .. Len(KernelMain[lesson]) :
           KernelMain[lesson][j] = KernelMain[lesson][k] => j = k
<1>1. CASE lesson = 1
  <2>. DEFINE s == <<"selector", "uart_init", "greet">>
  <2>1. KernelMain[lesson] = s
    BY <1>1 DEF KernelMain
  <2>2. \A j, k \in 1 .. 3 : s[j] = s[k] => j = k
    OBVIOUS
  <2>. QED
    BY <2>1, <2>2
<1>2. CASE lesson = 2
  <2>. DEFINE s == <<"selector", "uart_init", "init_printf", "greet", "get_el">>
  <2>1. KernelMain[lesson] = s
    BY <1>2 DEF KernelMain
  <2>2. \A j, k \in 1 .. 5 : s[j] = s[k] => j = k
    OBVIOUS
  <2>. QED
    BY <2>1, <2>2
<1>3. CASE lesson = 3
  <2>. DEFINE s ==
         <<"selector", "uart_init", "init_printf", "greet", "irq_vector_init",
           "timer_init", "enable_interrupt_controller", "enable_irq">>
  <2>1. KernelMain[lesson] = s
    BY <1>3 DEF KernelMain
  <2>2. \A j, k \in 1 .. 8 : s[j] = s[k] => j = k
    OBVIOUS
  <2>. QED
    BY <2>1, <2>2
<1>. QED
  BY <1>1, <1>2, <1>3

LEMMA After ==
  ASSUME lesson \in 1 .. 3, NEW k \in 1 .. Len(KernelMain[lesson])
  PROVE  CallAfter(KernelMain[lesson][k]) =
           IF k = Len(KernelMain[lesson]) THEN "recv"
           ELSE KernelMain[lesson][k + 1]
<1>. DEFINE s == KernelMain[lesson]
<1>1. \A j \in 1 .. Len(s) : s[j] = s[k] => j = k
  BY CallsDistinct
<1>. HIDE DEF s
<1>2. (CHOOSE j \in 1 .. Len(s) : s[j] = s[k]) = k
  BY <1>1, Found DEF s
<1>. QED
  BY <1>2 DEF CallAfter, s

LEMMA CallOrder ==
  ASSUME lesson \in 1 .. 3
  PROVE  /\ CallAfter("selector") = "uart_init"
         /\ CallAfter("uart_init") =
              IF lesson = 1 THEN "greet" ELSE "init_printf"
         /\ lesson # 1 => CallAfter("init_printf") = "greet"
         /\ CallAfter("greet") = IF lesson = 1 THEN "recv" ELSE
                                 IF lesson = 2 THEN "get_el"
                                 ELSE "irq_vector_init"
         /\ lesson = 2 => CallAfter("get_el") = "recv"
         /\ lesson = 3 =>
              /\ CallAfter("irq_vector_init") = "timer_init"
              /\ CallAfter("timer_init") = "enable_interrupt_controller"
              /\ CallAfter("enable_interrupt_controller") = "enable_irq"
              /\ CallAfter("enable_irq") = "recv"
<1>1. CASE lesson = 1
  <2>. DEFINE s == KernelMain[lesson]
  <2>1. Len(s) = 3 /\ s[1] = "selector" /\ s[2] = "uart_init" /\ s[3] = "greet"
    BY <1>1 DEF KernelMain
  <2>2. \A k \in 1 .. 3 :
          CallAfter(s[k]) = IF k = 3 THEN "recv" ELSE s[k + 1]
    BY <2>1, After
  <2>. HIDE DEF s
  <2>. QED
    BY <1>1, <2>1, <2>2
<1>2. CASE lesson = 2
  <2>. DEFINE s == KernelMain[lesson]
  <2>1. /\ Len(s) = 5 /\ s[1] = "selector" /\ s[2] = "uart_init"
        /\ s[3] = "init_printf" /\ s[4] = "greet" /\ s[5] = "get_el"
    BY <1>2 DEF KernelMain
  <2>2. \A k \in 1 .. 5 :
          CallAfter(s[k]) = IF k = 5 THEN "recv" ELSE s[k + 1]
    BY <2>1, After
  <2>. HIDE DEF s
  <2>. QED
    BY <1>2, <2>1, <2>2
<1>3. CASE lesson = 3
  <2>. DEFINE s == KernelMain[lesson]
  <2>1. /\ Len(s) = 8 /\ s[1] = "selector" /\ s[2] = "uart_init"
        /\ s[3] = "init_printf" /\ s[4] = "greet" /\ s[5] = "irq_vector_init"
        /\ s[6] = "timer_init" /\ s[7] = "enable_interrupt_controller"
        /\ s[8] = "enable_irq"
    BY <1>3 DEF KernelMain
  <2>2. \A k \in 1 .. 8 :
          CallAfter(s[k]) = IF k = 8 THEN "recv" ELSE s[k + 1]
    BY <2>1, After
  <2>. HIDE DEF s
  <2>. QED
    BY <1>3, <2>1, <2>2
<1>. QED
  BY <1>1, <1>2, <1>3

-----------------------------------------------------------------------------
(* The invariant.                                                          *)

Kinds == {"greeting", "level", "tick", "unknown"}
Place(k, n, i) == <<k, n, i>>
Char == Inputs \cup {Place(k, n, i) : k \in Kinds, n \in Nat, i \in 1 .. MsgLen}

Typed ==
  /\ lesson \in 1 .. 3
  /\ rx \in Seq(Inputs) /\ tx \in Seq(Char) /\ wire \in Seq(Char)
  /\ printing \in Seq(Char)
  /\ arrived \in 0 .. MaxChars /\ rxLost \subseteq Inputs
  /\ txLost \subseteq Inputs /\ IsFiniteSet(txLost)
  /\ messages \in Nat /\ irqs \in Nat

(* Only the IRQ is ever unmasked, in the loop of lesson 3; the handler runs*)
(* masked with the loop's registers in the one frame.                      *)
Unmask == Async \ {"irq"}
Control ==
  /\ pc \in Early \cup Middle \cup Timers \cup Loop \cup Handler
  /\ pc = "init_printf" => lesson # 1
  /\ pc = "get_el" => lesson = 2
  /\ pc \in Timers \cup Handler \cup {"irq_vector_init"} => lesson = 3
  /\ pc # "start" /\ lesson # 1 => el = 1
  /\ pc \in Early \cup {"read", "send", "put", "el1_irq"} => printing = <<>>
  /\ lesson = 3 /\ pc \in Timers \cup Loop \cup Handler =>
       "irq_vector_init" \in parts
  /\ IF pc \in Handler
     THEN /\ \E c \in Inputs : frames = <<c>>
          /\ elr \in Loop /\ spsr = Unmask /\ masked = Async
     ELSE /\ frames = <<>> /\ ch \in Inputs
          /\ masked = Async \/
               (masked = Unmask /\ lesson = 3 /\ pc \in Loop /\ printing = <<>>)
  /\ LoopAt = "read" => rx # <<>>

SetUp ==
  /\ Board
  /\ pc \in {"start", "selector"} => next = 1
  /\ pc \notin {"start", "selector"} => Selected
  /\ pc = "uart_init" => next \in 1 .. 12
  /\ pc \notin Early => next = 13

(* A loss, and the room for one that the handler has taken away.           *)
Losses ==
  /\ Cardinality(txLost) <= irqs
  /\ pc \in Handler \/ (pc = "put" /\ ~Room) => Cardinality(txLost) < irqs

(* The way of the input by its parts.                                      *)
InputsIn(s) == {s[i] : i \in Echoes(s)}
Ordered(s) == \A i, j \in Echoes(s) : i < j => s[i][2] < s[j][2]
Before(s, t) == \A c \in InputsIn(s), d \in InputsIn(t) : c[2] < d[2]
Lost == rxLost \cup txLost
Arrived == {Input(n) : n \in 1 .. arrived}

Order ==
  /\ Ordered(Out) /\ Ordered(Held) /\ Ordered(rx)
  /\ Before(Out, Held) /\ Before(Out, rx) /\ Before(Held, rx)
Conserved ==
  /\ InputsIn(Out) \cup InputsIn(Held) \cup InputsIn(rx) \cup Lost = Arrived
  /\ Lost \cap (InputsIn(Out) \cup InputsIn(Held) \cup InputsIn(rx)) = {}
  /\ rxLost \cap txLost = {}

(* What is being printed is the end of a message, whose beginning is the   *)
(* end of what was transmitted.                                            *)
Printing(k, n, rest, s) ==
  /\ Len(rest) <= MsgLen
  /\ \A i \in 1 .. Len(rest) : rest[i] = Place(k, n, MsgLen - Len(rest) + i)
  /\ k = "level" => n = 1
  /\ Len(rest) < MsgLen =>
       s # <<>> /\ s[Len(s)] = Place(k, n, MsgLen - Len(rest))
Follows(c, d) == d = Place(c[1], c[2], c[3] + 1)
Stream ==
  /\ \A i \in 1 .. Len(Out) - 1 :
       ~IsInput(Out[i]) /\ Out[i][3] < MsgLen => Follows(Out[i], Out[i + 1])
  /\ \A i \in 1 .. Len(Out) : Out[i][1] = "level" => Out[i][2] = 1
  /\ printing # <<>> =>
       \E k \in Kinds, n \in Nat : Printing(k, n, printing, Out)
  /\ Out # <<>> /\ Len(printing) \in {0, MsgLen} =>
       IsInput(Out[Len(Out)]) \/ Out[Len(Out)][3] = MsgLen
Counted ==
  Cardinality(DOMAIN Out \ Echoes(Out)) + Len(printing) = messages * MsgLen

IInv ==
  Typed /\ Control /\ SetUp /\ Losses /\ Order /\ Conserved /\ Stream /\ Counted

-----------------------------------------------------------------------------
(* Sequences of characters.                                                *)

USE EchoAssumption

LEMMA Sizes == /\ FifoDepth \in Nat /\ FifoDepth > 0 /\ MsgLen \in Nat
               /\ MsgLen > 0 /\ MaxChars \in Nat /\ MaxChars > 0
OBVIOUS

LEMMA InputParts ==
  /\ \A c : IsInput(c) <=> c \in Inputs
  /\ \A c \in Inputs : c[2] \in 1 .. MaxChars /\ c = Input(c[2])
  /\ \A n \in 1 .. MaxChars : Input(n) \in Inputs /\ Input(n)[2] = n
  /\ \A k \in Kinds : \A n, i : ~IsInput(Place(k, n, i))
  /\ Inputs \subseteq Char
BY DEF IsInput, Inputs, Input, Place, Kinds, Char

LEMMA PlaceParts ==
  ASSUME NEW k, NEW n, NEW i
  PROVE  /\ Place(k, n, i)[1] = k /\ Place(k, n, i)[2] = n
         /\ Place(k, n, i)[3] = i
BY DEF Place

(* A character at the end.                                                 *)
LEMMA InputsAppend ==
  ASSUME NEW s \in Seq(Char), NEW c \in Char
  PROVE  /\ IsInput(c) => InputsIn(Append(s, c)) = InputsIn(s) \cup {c}
         /\ ~IsInput(c) => InputsIn(Append(s, c)) = InputsIn(s)
<1>. DEFINE t == Append(s, c)
            n == Len(s)
<1>1. /\ n \in Nat /\ DOMAIN s = 1 .. n /\ DOMAIN t = 1 .. n + 1
      /\ t[n + 1] = c /\ \A i \in 1 .. n : t[i] = s[i]
  OBVIOUS
<1>. HIDE DEF t, n
<1>2. InputsIn(s) \subseteq InputsIn(t)
  BY <1>1 DEF InputsIn, Echoes
<1>3. InputsIn(t) \subseteq InputsIn(s) \cup {c}
  BY <1>1 DEF InputsIn, Echoes
<1>4. IsInput(c) => c \in InputsIn(t)
  BY <1>1 DEF InputsIn, Echoes
<1>5. ~IsInput(c) => InputsIn(t) \subseteq InputsIn(s)
  BY <1>1 DEF InputsIn, Echoes
<1>. QED
  BY <1>2, <1>3, <1>4, <1>5 DEF t

LEMMA OrderedAppend ==
  ASSUME NEW s \in Seq(Char), NEW c \in Char, Ordered(s),
         IsInput(c) => \A d \in InputsIn(s) : d[2] < c[2]
  PROVE  Ordered(Append(s, c))
<1>. DEFINE t == Append(s, c)
            n == Len(s)
<1>1. /\ n \in Nat /\ DOMAIN s = 1 .. n /\ DOMAIN t = 1 .. n + 1
      /\ t[n + 1] = c /\ \A i \in 1 .. n : t[i] = s[i]
  OBVIOUS
<1>. HIDE DEF t, n
<1>2. ASSUME NEW i \in Echoes(t), NEW j \in Echoes(t), i < j
      PROVE  t[i][2] < t[j][2]
  <2>1. i \in 1 .. n /\ i \in Echoes(s) /\ t[i] = s[i]
    BY <1>1, <1>2 DEF Echoes
  <2>2. CASE j = n + 1
    <3>1. s[i] \in InputsIn(s) /\ IsInput(c) /\ t[j] = c
      BY <1>1, <2>1, <2>2 DEF InputsIn, Echoes
    <3>. QED
      BY <2>1, <3>1
  <2>3. CASE j \in 1 .. n
    <3>1. j \in Echoes(s) /\ t[j] = s[j]
      BY <1>1, <2>3 DEF Echoes
    <3>. QED
      BY <1>2, <2>1, <3>1 DEF Ordered
  <2>. QED
    BY <1>1, <2>2, <2>3 DEF Echoes
<1>. QED
  BY <1>2 DEF Ordered, t

(* A character from the front of the receive FIFO.                         *)
LEMMA InputsTail ==
  ASSUME NEW s \in Seq(Inputs), s # <<>>, Ordered(s)
  PROVE  /\ Head(s) \in Inputs /\ Tail(s) \in Seq(Inputs)
         /\ InputsIn(s) = InputsIn(Tail(s)) \cup {Head(s)}
         /\ \A d \in InputsIn(Tail(s)) : Head(s)[2] < d[2]
         /\ Ordered(Tail(s))
<1>. DEFINE t == Tail(s)
            n == Len(s)
<1>1. /\ n \in Nat /\ n > 0 /\ DOMAIN s = 1 .. n /\ t \in Seq(Inputs)
      /\ DOMAIN t = 1 .. n - 1 /\ \A i \in 1 .. n - 1 : t[i] = s[i + 1]
      /\ Head(s) = s[1] /\ s[1] \in Inputs
      /\ \A i \in 1 .. n : s[i] \in Inputs
  OBVIOUS
<1>. HIDE DEF t, n
<1>2. Echoes(s) = 1 .. n /\ Echoes(t) = 1 .. n - 1
  BY <1>1, InputParts DEF Echoes
<1>3. InputsIn(t) \cup {s[1]} \subseteq InputsIn(s)
  <2>1. ASSUME NEW i \in 1 .. n - 1 PROVE t[i] \in InputsIn(s)
    <3>1. i + 1 \in 1 .. n /\ t[i] = s[i + 1]
      BY <1>1
    <3>. QED
      BY <1>2, <3>1 DEF InputsIn
  <2>2. s[1] \in InputsIn(s)
    BY <1>1, <1>2 DEF InputsIn
  <2>. QED
    BY <1>2, <2>1, <2>2 DEF InputsIn
<1>4. InputsIn(s) \subseteq InputsIn(t) \cup {s[1]}
  <2>1. ASSUME NEW i \in 1 .. n, i # 1 PROVE s[i] \in InputsIn(t)
    <3>1. i - 1 \in 1 .. n - 1 /\ t[i - 1] = s[i]
      BY <1>1, <2>1
    <3>. QED
      BY <1>2, <3>1 DEF InputsIn
  <2>. QED
    BY <1>2, <2>1 DEF InputsIn
<1>5. ASSUME NEW i \in 1 .. n - 1 PROVE s[1][2] < t[i][2]
  <2>1. /\ 1 \in Echoes(s) /\ i + 1 \in Echoes(s) /\ 1 < i + 1
        /\ t[i] = s[i + 1]
    BY <1>1, <1>2
  <2>. QED
    BY <2>1 DEF Ordered
<1>6. Ordered(t)
  <2>1. ASSUME NEW i \in 1 .. n - 1, NEW j \in 1 .. n - 1, i < j
        PROVE  t[i][2] < t[j][2]
    <3>1. /\ i + 1 \in Echoes(s) /\ j + 1 \in Echoes(s) /\ i + 1 < j + 1
          /\ t[i] = s[i + 1] /\ t[j] = s[j + 1]
      BY <1>1, <1>2, <2>1
    <3>. QED
      BY <3>1 DEF Ordered
  <2>. QED
    BY <1>2, <2>1 DEF Ordered
<1>. QED
  BY <1>1, <1>2, <1>3, <1>4, <1>5, <1>6 DEF InputsIn, t

LEMMA InputsShort ==
  /\ InputsIn(<<>>) = {} /\ Ordered(<<>>)
  /\ \A c \in Inputs : InputsIn(<<c>>) = {c} /\ Ordered(<<c>>)
<1>1. Echoes(<<>>) = {}
  BY DEF Echoes
<1>2. ASSUME NEW c \in Inputs
      PROVE  InputsIn(<<c>>) = {c} /\ Ordered(<<c>>)
  <2>1. Echoes(<<c>>) = {1} /\ <<c>>[1] = c
    BY InputParts DEF Echoes
  <2>. QED
    BY <2>1 DEF InputsIn, Ordered
<1>. QED
  BY <1>1, <1>2 DEF InputsIn, Ordered

(* The transmitter's end.                                                  *)
LEMMA OutAppend ==
  ASSUME wire \in Seq(Char), tx \in Seq(Char), NEW c \in Char,
         tx' = Append(tx, c), wire' = wire
  PROVE  /\ Out' = Append(Out, c) /\ tx' \in Seq(Char) /\ Out \in Seq(Char)
<1>1. wire \o Append(tx, c) = Append(wire \o tx, c)
  OBVIOUS
<1>. QED
  BY <1>1 DEF Out

LEMMA OutShift ==
  ASSUME wire \in Seq(Char), tx \in Seq(Char), tx # <<>>,
         tx' = Tail(tx), wire' = Append(wire, Head(tx))
  PROVE  /\ Out' = Out /\ tx' \in Seq(Char) /\ wire' \in Seq(Char)
         /\ Len(tx') < Len(tx)
<1>1. Append(wire, Head(tx)) \o Tail(tx) = wire \o tx
  OBVIOUS
<1>2. /\ Head(tx) \in Char /\ Tail(tx) \in Seq(Char)
      /\ Len(Tail(tx)) < Len(tx)
  OBVIOUS
<1>3. Append(wire, Head(tx)) \in Seq(Char)
  BY <1>2
<1>. QED
  BY <1>1, <1>2, <1>3 DEF Out

-----------------------------------------------------------------------------
(* The way of the input: what a step does to it.                           *)

LEMMA WaySame ==
  ASSUME Order, Conserved, Out' = Out, Held' = Held, rx' = rx,
         UNCHANGED <<rxLost, txLost, arrived>>
  PROVE  Order' /\ Conserved'
BY DEF Order, Conserved, Ordered, Before, InputsIn, Echoes, Lost, Arrived

LEMMA RxInChar == ASSUME NEW s \in Seq(Inputs) PROVE s \in Seq(Char)
BY InputParts

(* All that is on its way has arrived.                                     *)
LEMMA OnlyArrived ==
  ASSUME Typed, Conserved,
         NEW c \in InputsIn(Out) \cup InputsIn(Held) \cup InputsIn(rx) \cup Lost
  PROVE  c[2] \in 1 .. arrived
<1>1. c \in Arrived
  BY DEF Conserved
<1>. QED
  BY <1>1 DEF Arrived, Input

LEMMA WayArrive ==
  ASSUME Typed, Order, Conserved, Arrive, Out' = Out, Held' = Held
  PROVE  /\ Order' /\ Conserved'
         /\ arrived' \in 0 .. MaxChars /\ rx' \in Seq(Inputs)
         /\ rxLost' \subseteq Inputs
<1>. DEFINE c == Input(arrived')
<1>1. /\ arrived \in 0 .. MaxChars /\ arrived < MaxChars
      /\ arrived' = arrived + 1 /\ txLost' = txLost
  BY DEF Typed, Arrive
<1>2. /\ c \in Inputs /\ c[2] = arrived + 1 /\ IsInput(c) /\ c \in Char
  BY <1>1, InputParts
<1>3. Arrived' = Arrived \cup {c}
  <2>1. 1 .. arrived' = (1 .. arrived) \cup {arrived'}
    BY <1>1
  <2>. QED
    BY <2>1 DEF Arrived
<1>. HIDE DEF c
<1>4. \A d \in InputsIn(Out) \cup InputsIn(Held) \cup InputsIn(rx) \cup Lost :
        d[2] < c[2] /\ d # c
  BY <1>1, <1>2, OnlyArrived
<1>5. rx \in Seq(Inputs) /\ rx \in Seq(Char) /\ rxLost \subseteq Inputs
  BY RxInChar DEF Typed
<1>6. /\ InputsIn(Out)' = InputsIn(Out) /\ InputsIn(Held)' = InputsIn(Held)
      /\ Ordered(Out)' /\ Ordered(Held)' /\ Before(Out, Held)'
  BY DEF Order, Ordered, Before, InputsIn, Echoes
<1>7. CASE rx' = Append(rx, c) /\ rxLost' = rxLost
  <2>1. InputsIn(rx)' = InputsIn(rx) \cup {c}
    <3>1. InputsIn(Append(rx, c)) = InputsIn(rx) \cup {c}
      BY <1>2, <1>5, InputsAppend
    <3>. QED
      BY <1>7, <3>1 DEF InputsIn, Echoes
  <2>2. Ordered(rx)'
    <3>1. Ordered(Append(rx, c))
      BY <1>2, <1>4, <1>5, OrderedAppend DEF Order
    <3>. QED
      BY <1>7, <3>1 DEF Ordered, Echoes
  <2>3. Before(Out, rx)' /\ Before(Held, rx)'
    BY <1>4, <1>6, <2>1 DEF Order, Before
  <2>4. Lost' = Lost /\ rxLost' = rxLost
    BY <1>1, <1>7 DEF Lost
  <2>5. Conserved'
    BY <1>1, <1>3, <1>4, <1>6, <2>1, <2>4 DEF Conserved
  <2>6. rx' \in Seq(Inputs)
    BY <1>2, <1>5, <1>7
  <2>. QED
    BY <1>1, <1>5, <1>6, <1>7, <2>2, <2>3, <2>5, <2>6 DEF Order
<1>8. CASE rxLost' = rxLost \cup {c} /\ rx' = rx
  <2>1. InputsIn(rx)' = InputsIn(rx) /\ Ordered(rx)'
    BY <1>8 DEF InputsIn, Echoes, Order, Ordered
  <2>2. Before(Out, rx)' /\ Before(Held, rx)'
    BY <1>6, <2>1 DEF Order, Before
  <2>3. Lost' = Lost \cup {c} /\ c \notin Lost
    BY <1>1, <1>4, <1>8 DEF Lost
  <2>4. Conserved'
    <3>1. rxLost' \cap txLost' = {}
      BY <1>1, <1>8, <2>3 DEF Conserved, Lost
    <3>. QED
      BY <1>3, <1>4, <1>6, <2>1, <2>3, <3>1 DEF Conserved
  <2>. QED
    BY <1>1, <1>2, <1>5, <1>6, <1>8, <2>1, <2>2, <2>4 DEF Order
<1>. QED
  BY <1>7, <1>8 DEF Arrive, c

(* uart_recv's read.                                                       *)
LEMMA WayRead ==
  ASSUME Typed, Order, Conserved, rx # <<>>, Out' = Out, Held = <<>>,
         Held' = <<Head(rx)>>, rx' = Tail(rx),
         UNCHANGED <<rxLost, txLost, arrived>>
  PROVE  Order' /\ Conserved' /\ rx' \in Seq(Inputs) /\ Head(rx) \in Inputs
<1>. DEFINE c == Head(rx)
            t == Tail(rx)
<1>1. /\ c \in Inputs /\ t \in Seq(Inputs)
      /\ InputsIn(rx) = InputsIn(t) \cup {c}
      /\ \A d \in InputsIn(t) : c[2] < d[2]
      /\ Ordered(t)
  BY InputsTail DEF Typed, Order
<1>. HIDE DEF c, t
<1>2. InputsIn(Held) = {} /\ InputsIn(<<c>>) = {c} /\ Ordered(<<c>>)
  BY <1>1, InputsShort
<1>3. Held' = <<c>> /\ rx' = t
  BY DEF c, t
<1>4. /\ InputsIn(Out)' = InputsIn(Out) /\ Ordered(Out)'
      /\ InputsIn(Held)' = {c} /\ Ordered(Held)'
      /\ InputsIn(rx)' = InputsIn(t) /\ Ordered(rx)'
  BY <1>1, <1>2, <1>3 DEF Order, Ordered, InputsIn, Echoes
<1>5. Order'
  BY <1>1, <1>4 DEF Order, Before
<1>6. Conserved'
  BY <1>1, <1>2, <1>4 DEF Conserved, Lost, Arrived
<1>. QED
  BY <1>1, <1>3, <1>5, <1>6 DEF c

(* A character of a message.                                               *)
LEMMA WayPutc ==
  ASSUME Typed, Order, Conserved, Out \in Seq(Char), NEW c \in Char,
         ~IsInput(c), Out' = Append(Out, c), Held' = Held, rx' = rx,
         UNCHANGED <<rxLost, txLost, arrived>>
  PROVE  Order' /\ Conserved'
<1>1. InputsIn(Append(Out, c)) = InputsIn(Out) /\ Ordered(Append(Out, c))
  BY InputsAppend, OrderedAppend DEF Order
<1>2. /\ InputsIn(Out)' = InputsIn(Out) /\ Ordered(Out)'
      /\ InputsIn(Held)' = InputsIn(Held) /\ Ordered(Held)'
      /\ InputsIn(rx)' = InputsIn(rx) /\ Ordered(rx)'
  BY <1>1 DEF Order, Ordered, InputsIn, Echoes
<1>. QED
  BY <1>2 DEF Order, Before, Conserved, Lost, Arrived

(* The loop's write: sent or dropped.                                      *)
LEMMA WayPut ==
  ASSUME Typed, Order, Conserved, Out \in Seq(Char), NEW c \in Inputs,
         Held = <<c>>, Held' = <<>>, rx' = rx, UNCHANGED <<rxLost, arrived>>,
         \/ Out' = Append(Out, c) /\ txLost' = txLost
         \/ Out' = Out /\ txLost' = txLost \cup {c}
  PROVE  Order' /\ Conserved'
<1>1. c \in Char /\ IsInput(c)
  BY InputParts
<1>2. InputsIn(Held) = {c}
  BY InputsShort
<1>3. InputsIn(Held)' = {} /\ Ordered(Held)'
  BY InputsShort DEF InputsIn, Ordered, Echoes
<1>4. InputsIn(rx)' = InputsIn(rx) /\ Ordered(rx)'
  BY DEF Order, Ordered, InputsIn, Echoes
<1>5. /\ c \notin Lost /\ \A d \in InputsIn(Out) : d[2] < c[2]
      /\ \A d \in InputsIn(rx) : c[2] < d[2]
  BY <1>2 DEF Order, Conserved, Before
<1>6. CASE Out' = Append(Out, c) /\ txLost' = txLost
  <2>1. InputsIn(Append(Out, c)) = InputsIn(Out) \cup {c}
        /\ Ordered(Append(Out, c))
    BY <1>1, <1>5, InputsAppend, OrderedAppend DEF Order
  <2>2. InputsIn(Out)' = InputsIn(Out) \cup {c} /\ Ordered(Out)'
    BY <1>6, <2>1 DEF InputsIn, Ordered, Echoes
  <2>3. Order'
    BY <1>3, <1>4, <1>5, <2>2 DEF Order, Before
  <2>4. Conserved'
    BY <1>2, <1>3, <1>4, <1>6, <2>2 DEF Conserved, Lost, Arrived
  <2>. QED
    BY <2>3, <2>4
<1>7. CASE Out' = Out /\ txLost' = txLost \cup {c}
  <2>1. InputsIn(Out)' = InputsIn(Out) /\ Ordered(Out)'
    BY <1>7 DEF Order, InputsIn, Ordered, Echoes
  <2>2. Order'
    BY <1>3, <1>4, <2>1 DEF Order, Before
  <2>3. c \notin InputsIn(Out) /\ c \notin InputsIn(rx)
    <3>1. c[2] \in Int
      BY InputParts
    <3>. QED
      BY <1>5, <3>1
  <2>4. Conserved'
    BY <1>2, <1>3, <1>4, <1>5, <1>7, <2>1, <2>3 DEF Conserved, Lost, Arrived
  <2>. QED
    BY <2>2, <2>4
<1>. QED
  BY <1>6, <1>7

-----------------------------------------------------------------------------
(* The messages: what a step does to them.                                 *)

LEMMA StreamSame ==
  ASSUME Stream, Counted, Out' = Out, UNCHANGED <<printing, messages>>
  PROVE  Stream' /\ Counted'
BY DEF Stream, Counted, Printing, Echoes

(* The places of a sequence that are not input, with one more at its end.  *)
LEMMA CountAppend ==
  ASSUME NEW s \in Seq(Char), NEW c \in Char
  PROVE  /\ Cardinality(DOMAIN s \ Echoes(s)) \in Nat
         /\ Cardinality(DOMAIN Append(s, c) \ Echoes(Append(s, c))) =
              Cardinality(DOMAIN s \ Echoes(s)) + IF IsInput(c) THEN 0 ELSE 1
<1>. DEFINE t == Append(s, c)
            n == Len(s)
            S == DOMAIN s \ Echoes(s)
            T == DOMAIN t \ Echoes(t)
<1>1. /\ n \in Nat /\ DOMAIN s = 1 .. n /\ DOMAIN t = 1 .. n + 1
      /\ t[n + 1] = c /\ \A i \in 1 .. n : t[i] = s[i]
  OBVIOUS
<1>. HIDE DEF t, n
<1>2. S \subseteq 1 .. n /\ n + 1 \notin S
  BY <1>1
<1>3. IsFiniteSet(S)
  <2>1. IsFiniteSet(1 .. n)
    BY <1>1, FS_Interval
  <2>. QED
    BY <1>2, <2>1, FS_Subset
<1>4. T = IF IsInput(c) THEN S ELSE S \cup {n + 1}
  BY <1>1 DEF Echoes
<1>. HIDE DEF S, T
<1>5. Cardinality(S) \in Nat
  BY <1>3, FS_CardinalityType
<1>6. Cardinality(S \cup {n + 1}) = Cardinality(S) + 1
  BY <1>2, <1>3, FS_AddElement
<1>7. Cardinality(T) = Cardinality(S) + IF IsInput(c) THEN 0 ELSE 1
  BY <1>4, <1>5, <1>6
<1>. QED
  BY <1>5, <1>7 DEF S, T, t

(* A message begins.                                                       *)
LEMMA StreamSay ==
  ASSUME Typed, Stream, Counted, printing = <<>>, Out' = Out,
         NEW k \in Kinds, NEW n \in Nat, k = "level" => n = 1,
         printing' = Text(k, n) \o printing, messages' = messages + 1
  PROVE  Stream' /\ Counted' /\ printing' \in Seq(Char)
<1>. DEFINE text == Text(k, n)
<1>1. /\ text = [i \in 1 .. MsgLen |-> Place(k, n, i)]
      /\ \A i \in 1 .. MsgLen : Place(k, n, i) \in Char
  BY DEF Text, Place, Char
<1>2. /\ text \in Seq(Char) /\ Len(text) = MsgLen /\ text # <<>>
      /\ \A i \in 1 .. MsgLen : text[i] = Place(k, n, i)
  BY <1>1, Sizes
<1>. HIDE DEF text
<1>3. printing' = text
  BY <1>2 DEF text
<1>4. Printing(k, n, text, Out)
  <2>1. \A i \in 1 .. MsgLen : MsgLen - MsgLen + i = i
    BY Sizes
  <2>. QED
    BY <1>2, <2>1, Sizes DEF Printing
<1>5. Stream'
  <2>1. printing' # <<>> /\ Printing(k, n, printing', Out')
    BY <1>2, <1>3, <1>4
  <2>2. Out' # <<>> => IsInput(Out'[Len(Out')]) \/ Out'[Len(Out')][3] = MsgLen
    BY DEF Stream
  <2>3. /\ \A i \in 1 .. Len(Out') - 1 :
             ~IsInput(Out'[i]) /\ Out'[i][3] < MsgLen =>
               Follows(Out'[i], Out'[i + 1])
        /\ \A i \in 1 .. Len(Out') : Out'[i][1] = "level" => Out'[i][2] = 1
    BY DEF Stream
  <2>. QED
    BY <2>1, <2>2, <2>3 DEF Stream
<1>6. Counted'
  <2>. DEFINE q == Cardinality(DOMAIN Out \ Echoes(Out))
  <2>1. Cardinality(DOMAIN Out \ Echoes(Out))' = q
    BY DEF Echoes
  <2>2. q + Len(printing) = messages * MsgLen /\ Len(printing) = 0
    BY DEF Counted
  <2>3. (messages + 1) * MsgLen = messages * MsgLen + MsgLen
    BY Sizes DEF Typed
  <2>4. Len(printing)' = MsgLen /\ messages' = messages + 1
    BY <1>2, <1>3
  <2>. HIDE DEF q
  <2>5. q = messages * MsgLen
    <3>1. Cardinality(DOMAIN Out \ Echoes(Out)) + 0 = messages * MsgLen
      BY <2>2 DEF q
    <3>2. Cardinality(DOMAIN Out \ Echoes(Out)) \in Nat
      <4>1. Out \in Seq(Char)
        BY DEF Typed, Out
      <4>2. PICK c \in Char : TRUE
        BY <1>2, Sizes
      <4>. QED
        BY <4>1, <4>2, CountAppend
    <3>. QED
      BY <3>1, <3>2 DEF q
  <2>6. q + MsgLen = (messages + 1) * MsgLen
    BY <2>3, <2>5
  <2>. QED
    BY <2>1, <2>4, <2>6 DEF Counted
<1>. QED
  BY <1>2, <1>3, <1>5, <1>6

(* Its next character goes out.                                            *)
LEMMA StreamPutc ==
  ASSUME Typed, Stream, Counted, Out \in Seq(Char), printing # <<>>,
         Out' = Append(Out, Head(printing)), printing' = Tail(printing),
         messages' = messages
  PROVE  Stream' /\ Counted' /\ printing' \in Seq(Char)
         /\ ~IsInput(Head(printing)) /\ Head(printing) \in Char
<1>. DEFINE n == Len(printing)
            m == Len(Out)
            c == Head(printing)
            rest == Tail(printing)
<1>1. /\ n \in Nat /\ n > 0 /\ c = printing[1] /\ rest \in Seq(Char)
      /\ Len(rest) = n - 1 /\ \A i \in 1 .. n - 1 : rest[i] = printing[i + 1]
      /\ c \in Char
  BY DEF Typed
<1>2. /\ m \in Nat /\ Len(Out') = m + 1 /\ Out'[m + 1] = c
      /\ \A i \in 1 .. m : Out'[i] = Out[i]
      /\ Out' # <<>>
  BY <1>1
<1>3. PICK k \in Kinds, p \in Nat : Printing(k, p, printing, Out)
  BY DEF Stream
<1>. HIDE DEF n, m, c, rest
<1>4. /\ n <= MsgLen /\ c = Place(k, p, MsgLen - n + 1)
      /\ k = "level" => p = 1
      /\ n < MsgLen => m > 0 /\ Out[m] = Place(k, p, MsgLen - n)
      /\ \A i \in 1 .. n : printing[i] = Place(k, p, MsgLen - n + i)
  <2>1. 1 \in 1 .. n
    BY <1>1
  <2>2. Out # <<>> => m > 0
    BY <1>2 DEF m
  <2>. QED
    BY <1>1, <1>3, <2>1, <2>2 DEF Printing, n, m
<1>5. ~IsInput(c) /\ c[1] = k /\ c[2] = p /\ c[3] = MsgLen - n + 1
  BY <1>4, InputParts, PlaceParts
<1>6. m > 0 /\ n = MsgLen => IsInput(Out[m]) \/ Out[m][3] = MsgLen
  <2>1. m > 0 => Out # <<>>
    BY DEF m
  <2>. QED
    BY <2>1 DEF Stream, n, m
<1>7. ASSUME NEW i \in 1 .. m, ~IsInput(Out'[i]), Out'[i][3] < MsgLen
      PROVE  Follows(Out'[i], Out'[i + 1])
  <2>1. CASE i < m
    <3>1. i \in 1 .. m - 1 /\ Out'[i] = Out[i] /\ Out'[i + 1] = Out[i + 1]
      BY <1>2, <2>1
    <3>. QED
      BY <1>7, <3>1 DEF Stream, m
  <2>2. CASE i = m
    <3>1. m > 0 /\ Out'[i] = Out[m] /\ Out'[i + 1] = c
      BY <1>2, <2>2
    <3>2. n < MsgLen
      <4>1. ~IsInput(Out[m]) /\ Out[m][3] < MsgLen
        BY <1>7, <3>1
      <4>2. n # MsgLen
        BY <1>6, <3>1, <4>1, Sizes
      <4>. QED
        BY <1>1, <1>4, <4>2, Sizes
    <3>3. Out[m][1] = k /\ Out[m][2] = p /\ Out[m][3] = MsgLen - n
      BY <1>4, <3>2, PlaceParts
    <3>. QED
      BY <1>4, <3>1, <3>3 DEF Follows
  <2>. QED
    BY <1>2, <2>1, <2>2
<1>8. ASSUME NEW i \in 1 .. m + 1, Out'[i][1] = "level"
      PROVE  Out'[i][2] = 1
  <2>1. CASE i \in 1 .. m
    BY <1>2, <1>8, <2>1 DEF Stream, m
  <2>2. CASE i = m + 1
    BY <1>2, <1>4, <1>5, <1>8, <2>2
  <2>. QED
    BY <1>2, <2>1, <2>2
<1>9. ASSUME rest # <<>> PROVE Printing(k, p, rest, Out')
  <2>1. ASSUME NEW i \in 1 .. n - 1
        PROVE  rest[i] = Place(k, p, MsgLen - (n - 1) + i)
    <3>1. i + 1 \in 1 .. n /\ rest[i] = printing[i + 1]
      BY <1>1
    <3>2. MsgLen - n + (i + 1) = MsgLen - (n - 1) + i
      BY <1>1, Sizes
    <3>. QED
      BY <1>4, <3>1, <3>2
  <2>2. MsgLen - n + 1 = MsgLen - (n - 1) /\ n - 1 <= MsgLen
    BY <1>1, <1>4, Sizes
  <2>. QED
    BY <1>1, <1>2, <1>4, <2>1, <2>2 DEF Printing
<1>10. n - 1 \in {0, MsgLen} => c[3] = MsgLen
  BY <1>1, <1>4, <1>5, Sizes
<1>11. Stream'
  <2>1. /\ printing' = rest /\ Len(printing') = n - 1 /\ Len(Out') = m + 1
        /\ Out'[Len(Out')] = c /\ Len(Out') - 1 = m
    BY <1>1, <1>2 DEF rest
  <2>2. \A i \in 1 .. Len(Out') - 1 :
          ~IsInput(Out'[i]) /\ Out'[i][3] < MsgLen =>
            Follows(Out'[i], Out'[i + 1])
    BY <1>7, <2>1
  <2>3. \A i \in 1 .. Len(Out') : Out'[i][1] = "level" => Out'[i][2] = 1
    BY <1>8, <2>1
  <2>4. printing' # <<>> =>
          \E kk \in Kinds, nn \in Nat : Printing(kk, nn, printing', Out')
    BY <1>9, <2>1
  <2>5. Len(printing') \in {0, MsgLen} => Out'[Len(Out')][3] = MsgLen
    BY <1>10, <2>1
  <2>. QED
    BY <2>2, <2>3, <2>4, <2>5 DEF Stream
<1>12. Counted'
  <2>. DEFINE q == Cardinality(DOMAIN Out \ Echoes(Out))
  <2>1. q \in Nat /\ Cardinality(DOMAIN Out \ Echoes(Out))' = q + 1
    <3>1. Out' = Append(Out, c)
      BY DEF c
    <3>2. /\ q \in Nat
          /\ Cardinality(DOMAIN Append(Out, c) \ Echoes(Append(Out, c))) = q + 1
      BY <1>1, <1>5, CountAppend
    <3>. QED
      BY <3>1, <3>2 DEF Echoes
  <2>2. q + n = messages * MsgLen
    BY DEF Counted, n
  <2>3. Len(printing)' = n - 1 /\ messages' = messages
    BY <1>1 DEF rest
  <2>. HIDE DEF q
  <2>4. (q + 1) + (n - 1) = q + n
    BY <1>1, <2>1
  <2>. QED
    BY <2>1, <2>2, <2>3, <2>4 DEF Counted
<1>. QED
  BY <1>1, <1>5, <1>11, <1>12 DEF c, rest

(* The loop's character goes out, while no message does.                   *)
LEMMA StreamPut ==
  ASSUME Typed, Stream, Counted, Out \in Seq(Char), printing = <<>>,
         NEW c \in Inputs, Out' = Append(Out, c),
         UNCHANGED <<printing, messages>>
  PROVE  Stream' /\ Counted'
<1>. DEFINE m == Len(Out)
<1>1. /\ m \in Nat /\ Len(Out') = m + 1 /\ Out'[m + 1] = c
      /\ \A i \in 1 .. m : Out'[i] = Out[i]
      /\ Len(printing) = 0
  OBVIOUS
<1>2. IsInput(c) /\ c[1] # "level" /\ c \in Char
  BY InputParts DEF Input
<1>3. m > 0 => IsInput(Out[m]) \/ Out[m][3] = MsgLen
  <2>1. m > 0 => Out # <<>>
    OBVIOUS
  <2>. QED
    BY <1>1, <2>1 DEF Stream
<1>. HIDE DEF m
<1>4. ASSUME NEW i \in 1 .. m, ~IsInput(Out'[i]), Out'[i][3] < MsgLen
      PROVE  Follows(Out'[i], Out'[i + 1])
  <2>1. i # m
    BY <1>1, <1>3, <1>4, Sizes
  <2>2. i \in 1 .. m - 1 /\ Out'[i] = Out[i] /\ Out'[i + 1] = Out[i + 1]
    BY <1>1, <2>1
  <2>. QED
    BY <1>4, <2>2 DEF Stream, m
<1>5. ASSUME NEW i \in 1 .. m + 1, Out'[i][1] = "level"
      PROVE  Out'[i][2] = 1
  <2>1. i \in 1 .. m
    BY <1>1, <1>2, <1>5
  <2>. QED
    BY <1>1, <1>5, <2>1 DEF Stream, m
<1>6. Stream'
  <2>1. Len(Out') - 1 = m
    BY <1>1
  <2>. QED
    BY <1>1, <1>2, <1>4, <1>5, <2>1 DEF Stream
<1>7. Counted'
  <2>. DEFINE q == Cardinality(DOMAIN Out \ Echoes(Out))
  <2>1. /\ q \in Nat
        /\ Cardinality(DOMAIN Append(Out, c) \ Echoes(Append(Out, c))) = q + 0
    BY <1>2, CountAppend
  <2>2. q + 0 = q
    BY <2>1
  <2>3. Cardinality(DOMAIN Out \ Echoes(Out))' = q
    BY <2>1, <2>2 DEF Echoes
  <2>4. q + Len(printing) = messages * MsgLen
    BY DEF Counted
  <2>. HIDE DEF q
  <2>. QED
    BY <2>3, <2>4 DEF Counted
<1>. QED
  BY <1>6, <1>7

-----------------------------------------------------------------------------
(* The steps.                                                              *)

LEMMA HeldIs ==
  ASSUME Control
  PROVE  /\ pc \notin Handler =>
              /\ frames = <<>> /\ LoopAt = pc /\ ch \in Inputs
              /\ Held = IF pc \in {"send", "put"} THEN <<ch>> ELSE <<>>
         /\ pc \in Handler =>
              /\ frames # <<>> /\ LoopAt = elr
              /\ Held = IF elr \in {"send", "put"} THEN frames ELSE <<>>
BY DEF Control, LoopAt, Held

LEMMA OutType == ASSUME Typed PROVE Out \in Seq(Char)
BY DEF Typed, Out

LEMMA BoardSame ==
  ASSUME SetUp, UNCHANGED board
  PROVE  Board' /\ next' = next /\ (Selected => Selected')
BY DEF SetUp, board, Board, Stage, Settled, OthersKept, Selected

LEMMA SetUpStays ==
  ASSUME SetUp, UNCHANGED board, pc \notin Early, pc' \notin Early
  PROVE  SetUp'
BY BoardSame DEF SetUp, Early

(* A step that neither the input nor a message moves in.                   *)
LEMMA Quiet ==
  ASSUME IInv, Out' = Out, Held' = Held,
         UNCHANGED <<rx, rxLost, txLost, arrived, printing, messages>>,
         Typed', Control', SetUp', Losses'
  PROVE  IInv'
<1>1. Order' /\ Conserved'
  BY WaySame DEF IInv
<1>2. Stream' /\ Counted'
  BY StreamSame DEF IInv
<1>. QED
  BY <1>1, <1>2 DEF IInv

LEMMA InitIInv == Init => IInv
<1>. SUFFICES ASSUME Init PROVE IInv
  OBVIOUS
<1>1. Board /\ next = 1
  BY ResetBoard DEF Init
<1>2. IsFiniteSet({}) /\ Cardinality({}) = 0
  BY FS_EmptySet
<1>3. Typed
  BY <1>2, Sizes DEF Init, Typed
<1>4. Input(1) \in Inputs
  BY InputParts, Sizes
<1>5. Control
  BY <1>4 DEF Init, Control, Early, Middle, Timers, Loop, Handler, LoopAt
<1>6. SetUp
  BY <1>1 DEF Init, SetUp, Early
<1>7. Losses
  BY <1>2 DEF Init, Losses, Handler
<1>8. Held = <<>> /\ rx = <<>> /\ Out = <<>>
  BY DEF Init, Held, LoopAt, Out
<1>9. Order
  BY <1>8, InputsShort DEF Order, Before
<1>10. Conserved
  BY <1>8, InputsShort DEF Init, Conserved, Lost, Arrived
<1>11. Stream
  BY <1>8 DEF Init, Stream
<1>12. Counted
  <2>1. DOMAIN Out \ Echoes(Out) = {}
    BY <1>8 DEF Echoes
  <2>2. Len(printing) = 0 /\ messages = 0
    BY DEF Init
  <2>3. 0 + 0 = 0 * MsgLen
    BY Sizes
  <2>. QED
    BY <1>2, <2>1, <2>2, <2>3 DEF Counted
<1>. QED
  BY <1>3, <1>5, <1>6, <1>7, <1>9, <1>10, <1>11, <1>12 DEF IInv

LEMMA MatchKeeps == ASSUME IInv, Match PROVE IInv'
<1>1. UNCHANGED <<setUp, line, pc, cpu, ch, printing, history>>
  BY DEF Match
<1>2. Typed' /\ Control' /\ Losses' /\ Out' = Out /\ Held' = Held
  BY <1>1 DEF IInv, setUp, line, cpu, history, Typed, Control, Losses, Room,
              LoopAt, Out, Held
<1>3. SetUp'
  BY <1>1, BoardSame DEF IInv, SetUp, setUp
<1>. QED
  BY <1>1, <1>2, <1>3, Quiet DEF line, history

LEMMA ArriveKeeps == ASSUME IInv, Arrive PROVE IInv'
<1>1. /\ UNCHANGED <<setUp, tx, wire, pc, cpu, ch, printing, txLost, messages,
                     irqs>>
      /\ rx' = Append(rx, Input(arrived')) \/ rx' = rx
  BY DEF Arrive
<1>2. Out' = Out /\ Held' = Held /\ LoopAt' = LoopAt
  BY <1>1 DEF Out, Held, LoopAt, cpu
<1>3. /\ Order' /\ Conserved'
      /\ arrived' \in 0 .. MaxChars /\ rx' \in Seq(Inputs)
      /\ rxLost' \subseteq Inputs
  BY <1>2, WayArrive DEF IInv
<1>4. Stream' /\ Counted'
  BY <1>1, <1>2, StreamSame DEF IInv
<1>5. Typed'
  BY <1>1, <1>3 DEF IInv, Typed, setUp
<1>6. rx # <<>> => rx' # <<>>
  BY <1>1 DEF IInv, Typed
<1>7. Control'
  BY <1>1, <1>2, <1>6 DEF IInv, Control, setUp, cpu
<1>8. Losses' /\ SetUp'
  BY <1>1, BoardSame DEF IInv, Losses, Room, SetUp, setUp
<1>. QED
  BY <1>3, <1>4, <1>5, <1>7, <1>8 DEF IInv

LEMMA ShiftKeeps == ASSUME IInv, Shift PROVE IInv'
<1>1. /\ UNCHANGED <<setUp, rx, pc, cpu, ch, printing, history>>
      /\ tx # <<>> /\ wire' = Append(wire, Head(tx)) /\ tx' = Tail(tx)
  BY DEF Shift
<1>2. /\ Out' = Out /\ tx' \in Seq(Char) /\ wire' \in Seq(Char)
      /\ Len(tx') < Len(tx)
  BY <1>1, OutShift DEF IInv, Typed
<1>3. Typed'
  BY <1>1, <1>2 DEF IInv, Typed, setUp, history
<1>4. Control' /\ Held' = Held
  BY <1>1 DEF IInv, Control, Held, LoopAt, setUp, cpu
<1>5. SetUp'
  BY <1>1, BoardSame DEF IInv, SetUp, setUp
<1>6. Losses'
  <2>1. Room => Room'
    BY <1>2, Sizes DEF IInv, Typed, Room
  <2>. QED
    BY <1>1, <2>1 DEF IInv, Losses, history
<1>. QED
  BY <1>1, <1>2, <1>3, <1>4, <1>5, <1>6, Quiet DEF history

(* Only the timer's interrupt is taken, in the loop and with vectors.      *)
LEMMA KernelEntryKeeps == ASSUME IInv, KernelEntry PROVE IInv'
<1>1. PICK kind \in Async :
        /\ kind \notin masked
        /\ pc' = IF "irq_vector_init" \in parts /\ el = 1 THEN Vector[kind]
                 ELSE "lost"
        /\ elr' = pc /\ spsr' = masked /\ masked' = Async
        /\ frames' = <<ch>> \o frames
        /\ irqs' = irqs + 1
        /\ UNCHANGED <<setUp, line, el, ch, printing, m1, arrived, rxLost,
                       txLost, messages>>
  BY DEF KernelEntry
<1>2. /\ pc \notin Handler /\ frames = <<>> /\ ch \in Inputs
      /\ masked = Unmask /\ lesson = 3 /\ pc \in Loop /\ printing = <<>>
      /\ kind = "irq"
  BY <1>1 DEF IInv, Control, Unmask
<1>3. "irq_vector_init" \in parts /\ el = 1
  BY <1>2 DEF IInv, Control, Loop
<1>4. pc' = "el1_irq" /\ frames' = <<ch>>
  BY <1>1, <1>2, <1>3 DEF Vector
<1>5. Held' = Held /\ LoopAt' = LoopAt
  BY <1>1, <1>2, <1>4 DEF Held, LoopAt
<1>6. Typed'
  BY <1>1 DEF IInv, Typed, setUp, line
<1>7. Control'
  <2>1. LoopAt = "read" => rx # <<>>
    BY DEF IInv, Control
  <2>. QED
    BY <1>1, <1>2, <1>3, <1>4, <1>5, <2>1
       DEF Control, setUp, line, Early, Middle, Timers, Loop, Handler
<1>8. SetUp'
  BY <1>1, <1>2, <1>4, SetUpStays DEF IInv, setUp, Early, Loop
<1>9. Losses'
  <2>1. Cardinality(txLost) \in Nat
    BY FS_CardinalityType DEF IInv, Typed
  <2>. QED
    BY <1>1, <2>1 DEF IInv, Typed, Losses
<1>10. Out' = Out
  BY <1>1 DEF Out, line
<1>. QED
  BY <1>1, <1>5, <1>6, <1>7, <1>8, <1>9, <1>10, Quiet DEF line

(* The start-up.                                                           *)
LEMMA StartSteps ==
  ASSUME IInv, pc \in Early \cup Middle \cup Timers,
         pc' \notin {"read", "send", "put"} \cup Handler,
         UNCHANGED <<lesson, line, frames, ch, printing, history>>,
         Control', SetUp'
  PROVE  IInv'
<1>1. Held = <<>> /\ Held' = <<>> /\ Out' = Out
  BY DEF IInv, Control, Held, LoopAt, Out, line, Early, Middle, Timers, Handler
<1>2. Typed' /\ Losses'
  BY DEF IInv, Typed, Losses, line, history, Early, Middle, Timers, Handler
<1>. QED
  BY <1>1, <1>2, Quiet DEF line, history

LEMMA MasterKeeps == ASSUME IInv, Master PROVE IInv'
<1>1. /\ pc = "start" /\ pc' = "selector" /\ printing = <<>>
      /\ UNCHANGED <<setUp, line, elr, spsr, frames, ch, printing, history>>
      /\ lesson = 1 => UNCHANGED <<el, masked>>
      /\ lesson # 1 => el' = 1 /\ masked' = Async
  BY DEF Master, Step, SPSR_VALUE
<1>2. Control'
  BY <1>1 DEF IInv, Control, LoopAt, setUp, Early, Middle, Timers, Loop, Handler
<1>3. SetUp'
  BY <1>1, BoardSame DEF IInv, SetUp, setUp, Early
<1>. QED
  BY <1>1, <1>2, <1>3, StartSteps DEF setUp, Early, Handler

LEMMA UartSelectorKeeps == ASSUME IInv, UartSelector PROVE IInv'
<1>1. /\ pc = "selector" /\ pc' = "uart_init" /\ Select
      /\ UNCHANGED <<lesson, parts, line, cpu, ch, printing, history>>
  BY CallOrder DEF UartSelector, Call, Step, IInv, Typed
<1>2. Control'
  BY <1>1 DEF IInv, Control, LoopAt, cpu, Early, Middle, Timers, Loop, Handler
<1>3. SetUp'
  <2>1. Board' /\ Selected' /\ next' = next
    BY <1>1, SelectKeeps DEF IInv, SetUp, Select
  <2>. QED
    BY <1>1, <2>1 DEF IInv, SetUp, Early
<1>. QED
  BY <1>1, <1>2, <1>3, StartSteps DEF cpu, Early, Handler

LEMMA UartInitKeeps == ASSUME IInv, UartInit PROVE IInv'
<1>1. /\ pc = "uart_init" /\ AccessNext /\ next \in 1 .. 12
      /\ next < 12 => pc' = "uart_init"
      /\ next = 12 => pc' = IF lesson = 1 THEN "greet" ELSE "init_printf"
      /\ UNCHANGED <<lesson, parts, line, cpu, ch, printing, history>>
  <2>1. pc = "uart_init" /\ AccessNext
        /\ UNCHANGED <<lesson, parts, line, cpu, ch, printing, history>>
    BY DEF UartInit, Call, Step
  <2>2. next \in 1 .. 12 /\ lesson \in 1 .. 3
    BY <2>1 DEF IInv, Typed, SetUp
  <2>3. next < 12 => pc' = "uart_init"
    BY <2>2, AccessAt DEF UartInit, Step
  <2>4. next = 12 => pc' = CallAfter("uart_init")
    BY AccessAt DEF UartInit, Call, Step
  <2>. QED
    BY <2>1, <2>2, <2>3, <2>4, CallOrder
<1>2. pc' \in {"uart_init", "greet", "init_printf"}
      /\ (pc' = "init_printf" => lesson # 1)
      /\ (pc' = "uart_init" <=> next < 12)
  BY <1>1
<1>3. Control'
  BY <1>1, <1>2
     DEF IInv, Control, LoopAt, cpu, Early, Middle, Timers, Loop, Handler
<1>4. SetUp'
  <2>1. Board' /\ reg'.GPFSEL1 = reg.GPFSEL1 /\ next' = next + 1
    BY <1>1, AccessKeeps DEF IInv, SetUp
  <2>2. Selected'
    BY <1>1, <2>1 DEF IInv, SetUp, Selected
  <2>. QED
    BY <1>1, <1>2, <2>1, <2>2 DEF SetUp, Early
<1>. QED
  BY <1>1, <1>2, <1>3, <1>4, StartSteps DEF cpu, Early, Handler

LEMMA StartUpKeeps ==
  ASSUME IInv,
         NEW call \in {"init_printf", "irq_vector_init", "timer_init",
                       "enable_interrupt_controller"},
         StartUp(call)
  PROVE  IInv'
<1>1. /\ pc = call /\ pc' = CallAfter(call) /\ printing = <<>>
      /\ parts' = parts \cup {call}
      /\ UNCHANGED <<lesson, board, line, cpu, ch, printing, history>>
  BY DEF StartUp, Call, Step
<1>2. /\ call = "init_printf" => lesson # 1 /\ pc' = "greet"
      /\ call = "irq_vector_init" => lesson = 3 /\ pc' = "timer_init"
      /\ call = "timer_init" =>
           lesson = 3 /\ pc' = "enable_interrupt_controller"
      /\ call = "enable_interrupt_controller" =>
           lesson = 3 /\ pc' = "enable_irq"
  BY <1>1, CallOrder DEF IInv, Typed, Control, Timers
<1>3. Control'
  BY <1>1, <1>2
     DEF IInv, Control, LoopAt, cpu, Early, Middle, Timers, Loop, Handler
<1>4. SetUp'
  BY <1>1, <1>2, SetUpStays DEF IInv, Early
<1>. QED
  BY <1>1, <1>2, <1>3, <1>4, StartSteps DEF cpu, Middle, Timers, Handler

LEMMA EnableIrqKeeps == ASSUME IInv, EnableIrq PROVE IInv'
<1>1. /\ pc = "enable_irq" /\ pc' = "recv" /\ printing = <<>> /\ lesson = 3
      /\ masked' = masked \ {"irq"}
      /\ UNCHANGED <<setUp, line, el, elr, spsr, frames, ch, printing, history>>
  BY CallOrder DEF EnableIrq, Call, Step, IInv, Typed, Control, Timers
<1>2. masked' = Unmask
  BY <1>1 DEF IInv, Control, Unmask, Handler, Loop
<1>3. Control'
  BY <1>1, <1>2
     DEF IInv, Control, LoopAt, setUp, Early, Middle, Timers, Loop, Handler
<1>4. SetUp'
  BY <1>1, SetUpStays DEF IInv, setUp, Early
<1>. QED
  BY <1>1, <1>3, <1>4, StartSteps DEF setUp, Timers, Handler

(* The loop and printf find the UART ready.                                *)
LEMMA Ready == ASSUME IInv, pc \notin Early PROVE Enabled
<1>1. Board /\ next = 13
  BY DEF IInv, SetUp
<1>. QED
  BY <1>1 DEF Board, Stage, Enabled

(* A message begins, at start-up or in the handler.                        *)
LEMMA SayKeeps ==
  ASSUME IInv, printing = <<>>, NEW k \in Kinds, NEW n \in Nat,
         k = "level" => n = 1, Say(k, n), Held' = Held,
         UNCHANGED <<setUp, line, arrived, rxLost, txLost, irqs>>,
         pc \notin Early, pc' \notin Early \cup {"read", "send", "put"},
         pc' \in Handler => pc \in Handler, Control'
  PROVE  IInv'
<1>1. Out' = Out
  BY DEF Out, line
<1>2. Stream' /\ Counted' /\ printing' \in Seq(Char)
  BY <1>1, StreamSay DEF IInv, Say
<1>3. Order' /\ Conserved'
  BY <1>1, WaySame DEF IInv, line
<1>4. Typed'
  BY <1>2 DEF IInv, Typed, Say, setUp, line
<1>5. Losses'
  BY DEF IInv, Losses
<1>6. SetUp'
  BY SetUpStays DEF IInv, setUp
<1>. QED
  BY <1>2, <1>3, <1>4, <1>5, <1>6 DEF IInv

LEMMA GreetKeeps == ASSUME IInv, Greet PROVE IInv'
<1>1. /\ pc = "greet" /\ printing = <<>>
      /\ pc' = IF lesson = 1 THEN "recv" ELSE
               IF lesson = 2 THEN "get_el" ELSE "irq_vector_init"
      /\ Say("greeting", messages')
      /\ UNCHANGED <<setUp, line, cpu, ch, arrived, rxLost, txLost, irqs>>
  BY CallOrder DEF Greet, Call, Step, IInv, Typed
<1>2. messages' \in Nat /\ "greeting" \in Kinds
  BY <1>1 DEF Say, IInv, Typed, Kinds
<1>3. lesson \in 1 .. 3
  BY DEF IInv, Typed
<1>4. Control'
  BY <1>1, <1>3 DEF IInv, Control, LoopAt, setUp, line, cpu,
                    Early, Middle, Timers, Loop, Handler
<1>5. Held' = Held
  BY <1>1 DEF IInv, Control, Held, LoopAt, cpu, Handler
<1>. QED
  BY <1>1, <1>2, <1>3, <1>4, <1>5, SayKeeps DEF Early, Handler

LEMMA GetElKeeps == ASSUME IInv, GetEl PROVE IInv'
<1>1. /\ pc = "get_el" /\ printing = <<>> /\ pc' = "recv" /\ lesson = 2
      /\ el = 1 /\ Say("level", el)
      /\ UNCHANGED <<setUp, line, cpu, ch, arrived, rxLost, txLost, irqs>>
  BY CallOrder DEF GetEl, Call, Step, IInv, Typed, Control
<1>2. Control'
  BY <1>1 DEF IInv, Control, LoopAt, setUp, line, cpu,
              Early, Middle, Timers, Loop, Handler
<1>3. Held' = Held
  BY <1>1 DEF IInv, Control, Held, LoopAt, cpu, Handler
<1>. QED
  BY <1>1, <1>2, <1>3, SayKeeps DEF Early, Handler, Kinds

LEMMA HandleKeeps ==
  ASSUME IInv, NEW k \in {"tick", "unknown"}, Handle(k) PROVE IInv'
<1>1. /\ pc = "el1_irq" /\ pc' = "kernel_exit" /\ printing = <<>>
      /\ Say(k, messages') /\ masked' = masked
      /\ UNCHANGED <<setUp, line, el, elr, spsr, frames, arrived, rxLost,
                     txLost, irqs>>
  BY DEF Handle, HandlerMask, IInv, Control
<1>2. messages' \in Nat /\ k \in Kinds /\ k # "level"
  BY <1>1 DEF Say, IInv, Typed, Kinds
<1>3. LoopAt' = LoopAt /\ Held' = Held
  <2>1. frames # <<>> /\ frames' = frames /\ elr' = elr
    BY <1>1, HeldIs DEF IInv, Handler
  <2>. QED
    BY <2>1 DEF Held, LoopAt
<1>4. Control'
  BY <1>1, <1>3 DEF IInv, Control, setUp, line,
                    Early, Middle, Timers, Loop, Handler
<1>. QED
  BY <1>1, <1>2, <1>3, <1>4, SayKeeps DEF Early, Handler

LEMMA KernelExitKeeps == ASSUME IInv, KernelExit PROVE IInv'
<1>1. /\ pc = "kernel_exit" /\ printing = <<>> /\ pc' = elr
      /\ masked' = spsr /\ frames' = Tail(frames) /\ ch' = Head(frames)
      /\ UNCHANGED <<setUp, line, el, elr, spsr, printing, history>>
  BY DEF KernelExit, Step
<1>2. PICK c \in Inputs : frames = <<c>>
  BY <1>1 DEF IInv, Control, Handler
<1>3. /\ frames' = <<>> /\ ch' = c /\ pc' \in Loop /\ masked' = Unmask
      /\ lesson = 3
  BY <1>1, <1>2 DEF IInv, Control, Handler
<1>4. LoopAt' = LoopAt /\ Held' = Held
  BY <1>1, <1>2, <1>3 DEF Held, LoopAt
<1>5. Control'
  BY <1>1, <1>3, <1>4 DEF IInv, Control, setUp, line,
                          Early, Middle, Timers, Loop, Handler
<1>6. SetUp'
  BY <1>1, <1>3, SetUpStays DEF IInv, setUp, Early, Loop
<1>7. Typed' /\ Losses'
  BY <1>1, <1>3 DEF IInv, Typed, Losses, setUp, line, history, Handler, Loop
<1>8. Out' = Out
  BY <1>1 DEF Out, line
<1>. QED
  BY <1>1, <1>4, <1>5, <1>6, <1>7, <1>8, Quiet DEF line, history

(* printf's next character finds room, so it is never lost.                *)
LEMMA PutcKeeps == ASSUME IInv, Putc PROVE IInv'
<1>. DEFINE c == Head(printing)
<1>1. /\ printing # <<>> /\ printing' = Tail(printing) /\ Room /\ Put(c)
      /\ UNCHANGED <<setUp, rx, wire, pc, cpu, ch, arrived, rxLost, messages,
                     irqs>>
  BY DEF Putc
<1>2. pc \notin Early \cup {"read", "send", "put"}
  BY <1>1 DEF IInv, Control
<1>3. tx' = Append(tx, c) /\ txLost' = txLost
  BY <1>1, <1>2, Ready DEF Put, Room
<1>4. c \in Char /\ Tail(printing) \in Seq(Char)
  BY <1>1 DEF IInv, Typed
<1>5. /\ Out' = Append(Out, c) /\ tx' \in Seq(Char) /\ Out \in Seq(Char)
  BY <1>1, <1>3, <1>4, OutAppend DEF IInv, Typed
<1>6. /\ Stream' /\ Counted' /\ ~IsInput(c)
  BY <1>1, <1>5, StreamPutc DEF IInv
<1>7. LoopAt' = LoopAt /\ Held' = Held
  BY <1>1 DEF Held, LoopAt, cpu
<1>. HIDE DEF c
<1>8. Order' /\ Conserved'
  BY <1>1, <1>3, <1>4, <1>5, <1>6, <1>7, WayPutc DEF IInv
<1>9. Typed'
  BY <1>1, <1>3, <1>4, <1>5 DEF IInv, Typed, setUp
<1>10. Control'
  <2>1. masked = Unmask => pc \in Handler \/ masked = Async
    BY <1>1 DEF IInv, Control
  <2>. QED
    BY <1>1, <1>2, <1>7, <2>1
       DEF IInv, Control, setUp, cpu, Early, Handler, Unmask, Async
<1>11. SetUp' /\ Losses'
  BY <1>1, <1>2, <1>3, SetUpStays DEF IInv, Losses, setUp
<1>. QED
  BY <1>6, <1>8, <1>9, <1>10, <1>11 DEF IInv

LEMMA RecvPollKeeps == ASSUME IInv, RecvPoll PROVE IInv'
<1>1. /\ pc = "recv" /\ pc' = "read" /\ printing = <<>> /\ rx # <<>>
      /\ UNCHANGED <<setUp, line, cpu, ch, printing, history>>
  BY DEF RecvPoll, Step, DataReady
<1>2. Control'
  BY <1>1 DEF IInv, Control, LoopAt, setUp, line, cpu,
              Early, Middle, Timers, Loop, Handler
<1>3. SetUp'
  BY <1>1, SetUpStays DEF IInv, setUp, Early
<1>4. Typed' /\ Losses' /\ Out' = Out
  BY <1>1 DEF IInv, Typed, Losses, Out, setUp, line, history, Handler
<1>5. Held' = Held
  BY <1>1 DEF IInv, Control, Held, LoopAt, cpu, Handler
<1>. QED
  BY <1>1, <1>2, <1>3, <1>4, <1>5, Quiet DEF line, history

LEMMA RecvReadKeeps == ASSUME IInv, RecvRead PROVE IInv'
<1>1. /\ pc = "read" /\ pc' = "send" /\ printing = <<>>
      /\ UNCHANGED <<setUp, tx, wire, cpu, printing, history>>
  BY DEF RecvRead, Step
<1>2. rx # <<>> /\ frames = <<>>
  BY <1>1 DEF IInv, Control, LoopAt, Handler
<1>3. ch' = Head(rx) /\ rx' = Tail(rx)
  BY <1>2 DEF RecvRead
<1>4. Out' = Out /\ Held = <<>> /\ Held' = <<Head(rx)>> /\ LoopAt' = "send"
  BY <1>1, <1>2, <1>3 DEF Out, Held, LoopAt, cpu
<1>5. Order' /\ Conserved' /\ rx' \in Seq(Inputs) /\ Head(rx) \in Inputs
  BY <1>1, <1>2, <1>3, <1>4, WayRead DEF IInv, history
<1>6. Stream' /\ Counted'
  BY <1>1, <1>4, StreamSame DEF IInv, history
<1>7. Typed'
  BY <1>1, <1>5 DEF IInv, Typed, setUp, history
<1>8. Control'
  BY <1>1, <1>3, <1>4, <1>5
     DEF IInv, Control, setUp, cpu, Early, Middle, Timers, Loop, Handler
<1>9. SetUp' /\ Losses'
  BY <1>1, SetUpStays DEF IInv, Losses, setUp, history, Early, Handler
<1>. QED
  BY <1>5, <1>6, <1>7, <1>8, <1>9 DEF IInv

LEMMA SendPollKeeps == ASSUME IInv, SendPoll PROVE IInv'
<1>1. /\ pc = "send" /\ pc' = "put" /\ printing = <<>> /\ Room
      /\ UNCHANGED <<setUp, line, cpu, ch, printing, history>>
  BY DEF SendPoll, Step
<1>2. Control'
  BY <1>1 DEF IInv, Control, LoopAt, setUp, line, cpu,
              Early, Middle, Timers, Loop, Handler
<1>3. SetUp'
  BY <1>1, SetUpStays DEF IInv, setUp, Early
<1>4. Typed' /\ Losses' /\ Out' = Out
  BY <1>1 DEF IInv, Typed, Losses, Room, Out, setUp, line, history, Handler
<1>5. Held' = Held
  BY <1>1 DEF IInv, Control, Held, LoopAt, cpu, Handler
<1>. QED
  BY <1>1, <1>2, <1>3, <1>4, <1>5, Quiet DEF line, history

(* The loop's character goes out, unless the handler took the room.        *)
LEMMA SendPutKeeps == ASSUME IInv, SendPut PROVE IInv'
<1>1. /\ pc = "put" /\ pc' = "recv" /\ printing = <<>> /\ Put(ch)
      /\ UNCHANGED <<setUp, rx, wire, cpu, ch, printing, arrived, rxLost,
                     messages, irqs>>
  BY DEF SendPut, Step
<1>2. /\ ch \in Inputs /\ frames = <<>> /\ Held = <<ch>>
  BY <1>1, HeldIs DEF IInv, Handler
<1>3. LoopAt' = "recv" /\ Held' = <<>>
  BY <1>1, <1>2 DEF Held, LoopAt, cpu
<1>4. ch \in Char /\ Out \in Seq(Char)
  BY <1>2, InputParts, OutType DEF IInv
<1>5. Control'
  BY <1>1, <1>3 DEF IInv, Control, setUp, cpu,
                    Early, Middle, Timers, Loop, Handler
<1>6. SetUp'
  BY <1>1, SetUpStays DEF IInv, setUp, Early
<1>7. CASE Room
  <2>1. tx' = Append(tx, ch) /\ txLost' = txLost
    BY <1>1, <1>7, Ready DEF Put, Room, Early
  <2>2. Out' = Append(Out, ch) /\ tx' \in Seq(Char)
    BY <1>1, <1>4, <2>1, OutAppend DEF IInv, Typed
  <2>3. Order' /\ Conserved'
    BY <1>1, <1>2, <1>3, <1>4, <2>1, <2>2, WayPut DEF IInv
  <2>4. Stream' /\ Counted'
    BY <1>1, <1>2, <1>4, <2>2, StreamPut DEF IInv
  <2>5. Typed' /\ Losses'
    BY <1>1, <2>1, <2>2 DEF IInv, Typed, Losses, setUp, Handler
  <2>. QED
    BY <1>5, <1>6, <2>3, <2>4, <2>5 DEF IInv
<1>8. CASE ~Room
  <2>1. txLost' = txLost \cup {ch} /\ tx' = tx
    BY <1>1, <1>8 DEF Put, Room
  <2>2. Out' = Out
    BY <1>1, <2>1 DEF Out
  <2>3. Order' /\ Conserved'
    BY <1>1, <1>2, <1>3, <1>4, <2>1, <2>2, WayPut DEF IInv
  <2>4. Stream' /\ Counted'
    BY <1>1, <2>2, StreamSame DEF IInv
  <2>5. /\ IsFiniteSet(txLost') /\ Cardinality(txLost) \in Nat
        /\ Cardinality(txLost') <= Cardinality(txLost) + 1
    <3>1. IsFiniteSet(txLost)
      BY DEF IInv, Typed
    <3>2. /\ IsFiniteSet(txLost \cup {ch}) /\ Cardinality(txLost) \in Nat
          /\ Cardinality(txLost \cup {ch}) =
               IF ch \in txLost THEN Cardinality(txLost)
               ELSE Cardinality(txLost) + 1
      BY <3>1, FS_AddElement, FS_CardinalityType
    <3>. QED
      BY <2>1, <3>2
  <2>6. Cardinality(txLost) < irqs /\ irqs \in Nat
    BY <1>1, <1>8 DEF IInv, Losses, Typed
  <2>7. Losses'
    <3>1. Cardinality(txLost') <= irqs
      <4>1. Cardinality(txLost') \in Nat
        BY <2>5, FS_CardinalityType
      <4>. QED
        BY <2>5, <2>6, <4>1
    <3>. QED
      BY <1>1, <3>1 DEF Losses, Handler
  <2>8. Typed'
    BY <1>1, <1>2, <2>1, <2>5 DEF IInv, Typed, setUp
  <2>. QED
    BY <1>5, <1>6, <2>3, <2>4, <2>7, <2>8 DEF IInv
<1>. QED
  BY <1>7, <1>8

LEMMA StutterKeeps == ASSUME IInv, UNCHANGED vars PROVE IInv'
<1>1. UNCHANGED <<setUp, line, pc, cpu, ch, printing, history>>
  BY DEF vars
<1>2. Typed' /\ Control' /\ Losses' /\ Out' = Out /\ Held' = Held
  BY <1>1 DEF IInv, setUp, line, cpu, history, Typed, Control, Losses, Room,
              LoopAt, Out, Held
<1>3. SetUp'
  BY <1>1, BoardSame DEF IInv, SetUp, setUp
<1>. QED
  BY <1>1, <1>2, <1>3, Quiet DEF line, history

LEMMA NextKeeps == ASSUME IInv, [Next]_vars PROVE IInv'
<1>1. CASE Arrive
  BY <1>1, ArriveKeeps
<1>2. CASE Shift
  BY <1>2, ShiftKeeps
<1>3. CASE Match
  BY <1>3, MatchKeeps
<1>4. CASE KernelEntry
  BY <1>4, KernelEntryKeeps
<1>5. CASE Master
  BY <1>5, MasterKeeps
<1>6. CASE UartSelector
  BY <1>6, UartSelectorKeeps
<1>7. CASE UartInit
  BY <1>7, UartInitKeeps
<1>8. CASE InitPrintf \/ IrqVectorInit \/ TimerInit \/ EnableInterruptController
  BY <1>8, StartUpKeeps
     DEF InitPrintf, IrqVectorInit, TimerInit, EnableInterruptController
<1>9. CASE EnableIrq
  BY <1>9, EnableIrqKeeps
<1>10. CASE Greet
  BY <1>10, GreetKeeps
<1>11. CASE GetEl
  BY <1>11, GetElKeeps
<1>12. CASE HandleTimerIrq \/ UnknownIrq
  BY <1>12, HandleKeeps DEF HandleTimerIrq, UnknownIrq
<1>13. CASE KernelExit
  BY <1>13, KernelExitKeeps
<1>14. CASE Putc
  BY <1>14, PutcKeeps
<1>15. CASE RecvPoll
  BY <1>15, RecvPollKeeps
<1>16. CASE RecvRead
  BY <1>16, RecvReadKeeps
<1>17. CASE SendPoll
  BY <1>17, SendPollKeeps
<1>18. CASE SendPut
  BY <1>18, SendPutKeeps
<1>19. CASE UNCHANGED vars
  BY <1>19, StutterKeeps
<1>. QED
  BY <1>1, <1>2, <1>3, <1>4, <1>5, <1>6, <1>7, <1>8, <1>9, <1>10, <1>11,
     <1>12, <1>13, <1>14, <1>15, <1>16, <1>17, <1>18, <1>19 DEF Next, Cpu

(* The invariant, of every behaviour.                                      *)
THEOREM Inductive == Spec => []IInv
<1>1. IInv /\ [Next]_vars => IInv'
  BY NextKeeps
<1>. QED
  BY <1>1, InitIInv, PTL DEF Spec

-----------------------------------------------------------------------------
(* What the invariant gives.                                               *)

(* The input in two pieces of the way.                                     *)
LEMMA InputsConcat ==
  ASSUME NEW s \in Seq(Char), NEW t \in Seq(Char), Ordered(s), Ordered(t),
         Before(s, t)
  PROVE  /\ s \o t \in Seq(Char) /\ Ordered(s \o t)
         /\ InputsIn(s \o t) = InputsIn(s) \cup InputsIn(t)
<1>. DEFINE u == s \o t
            m == Len(s)
            n == Len(t)
<1>1. /\ m \in Nat /\ n \in Nat /\ DOMAIN s = 1 .. m /\ DOMAIN t = 1 .. n
      /\ DOMAIN u = 1 .. m + n /\ u \in Seq(Char)
      /\ \A i \in 1 .. m : u[i] = s[i]
      /\ \A i \in m + 1 .. m + n : u[i] = t[i - m]
  OBVIOUS
<1>. HIDE DEF u, m, n
<1>2. \A i \in Echoes(u) :
        \/ i \in Echoes(s) /\ u[i] = s[i] /\ i <= m
        \/ i > m /\ i - m \in Echoes(t) /\ u[i] = t[i - m]
  BY <1>1 DEF Echoes
<1>3. \A i \in Echoes(s) : i \in Echoes(u) /\ u[i] = s[i]
  BY <1>1 DEF Echoes
<1>4. ASSUME NEW j \in Echoes(t) PROVE m + j \in Echoes(u) /\ u[m + j] = t[j]
  <2>1. /\ j \in 1 .. n /\ m + j \in m + 1 .. m + n /\ (m + j) - m = j
        /\ m + j \in 1 .. m + n
    BY <1>1 DEF Echoes
  <2>. QED
    BY <1>1, <1>4, <2>1 DEF Echoes
<1>5. InputsIn(u) = InputsIn(s) \cup InputsIn(t)
  <2>1. InputsIn(u) \subseteq InputsIn(s) \cup InputsIn(t)
    BY <1>2 DEF InputsIn
  <2>2. InputsIn(s) \cup InputsIn(t) \subseteq InputsIn(u)
    BY <1>3, <1>4 DEF InputsIn
  <2>. QED
    BY <2>1, <2>2
<1>6. ASSUME NEW i \in Echoes(u), NEW j \in Echoes(u), i < j
      PROVE  u[i][2] < u[j][2]
  <2>1. i \in 1 .. m + n /\ j \in 1 .. m + n
    BY <1>1 DEF Echoes
  <2>2. CASE j <= m
    <3>1. /\ i \in Echoes(s) /\ u[i] = s[i] /\ j \in Echoes(s) /\ u[j] = s[j]
      BY <1>1, <1>2, <1>6, <2>1, <2>2
    <3>. QED
      BY <1>6, <3>1 DEF Ordered
  <2>3. CASE i > m
    <3>1. /\ i - m \in Echoes(t) /\ u[i] = t[i - m] /\ i - m < j - m
          /\ j - m \in Echoes(t) /\ u[j] = t[j - m]
      BY <1>1, <1>2, <1>6, <2>1, <2>3
    <3>. QED
      BY <3>1 DEF Ordered
  <2>4. CASE i <= m /\ j > m
    <3>1. u[i] \in InputsIn(s) /\ u[j] \in InputsIn(t)
      BY <1>1, <1>2, <2>1, <2>4 DEF InputsIn
    <3>. QED
      BY <3>1 DEF Before
  <2>. QED
    BY <1>1, <2>1, <2>2, <2>3, <2>4
<1>. QED
  BY <1>1, <1>5, <1>6 DEF Ordered, u

LEMMA WayWhole ==
  ASSUME Typed, Control, Order
  PROVE  /\ Ordered(Way)
         /\ InputsIn(Way) = InputsIn(Out) \cup InputsIn(Held) \cup InputsIn(rx)
<1>1. Out \in Seq(Char) /\ rx \in Seq(Char)
  BY OutType, RxInChar DEF Typed
<1>2. Held \in Seq(Char)
  <2>1. ASSUME NEW c \in Inputs PROVE <<c>> \in Seq(Char)
    <3>1. c \in Char
      BY <2>1, InputParts
    <3>. QED
      BY <3>1
  <2>2. <<>> \in Seq(Char)
    OBVIOUS
  <2>. QED
    BY <2>1, <2>2, HeldIs DEF Control
<1>. DEFINE o == Out
            h == Held
<1>3. /\ o \o h \in Seq(Char) /\ Ordered(o \o h)
      /\ InputsIn(o \o h) = InputsIn(o) \cup InputsIn(h)
  BY <1>1, <1>2, InputsConcat DEF Order
<1>4. Before(o \o h, rx)
  BY <1>3 DEF Order, Before
<1>5. /\ Ordered((o \o h) \o rx)
      /\ InputsIn((o \o h) \o rx) = InputsIn(o \o h) \cup InputsIn(rx)
  BY <1>1, <1>3, <1>4, InputsConcat DEF Order
<1>. QED
  BY <1>3, <1>5 DEF Way

(* Every character that arrived is, once and in order, on its way, or lost *)
(* to a full FIFO.                                                         *)
THEOREM EveryCharAccounted == Spec => []EchoAccounted
<1>1. IInv => EchoAccounted
  <2>. SUFFICES ASSUME IInv PROVE EchoAccounted
    OBVIOUS
  <2>1. /\ Ordered(Way)
        /\ InputsIn(Way) = InputsIn(Out) \cup InputsIn(Held) \cup InputsIn(rx)
    BY WayWhole DEF IInv
  <2>2. OnWay = InputsIn(Way)
    BY DEF OnWay, InputsIn
  <2>3. \A i, j \in Echoes(Way) : i < j => Way[i][2] < Way[j][2]
    BY <2>1 DEF Ordered
  <2>. QED
    BY <2>1, <2>2, <2>3
       DEF EchoAccounted, IInv, Conserved, Lost, Arrived
<1>. QED
  BY <1>1, Inductive, PTL

(* No message is torn, and none loses a character.                         *)
THEOREM NoMessageTorn == Spec => []MessagesWhole
<1>1. IInv => MessagesWhole
  <2>. SUFFICES ASSUME IInv PROVE MessagesWhole
    OBVIOUS
  <2>1. Out \in Seq(Char)
    BY OutType DEF IInv
  <2>2. ASSUME NEW i \in 1 .. Len(Out) - 1, Out[i] \in Messages,
               Out[i][3] < MsgLen
        PROVE  Out[i + 1] = <<Out[i][1], Out[i][2], Out[i][3] + 1>>
    <3>1. ~IsInput(Out[i])
      BY <2>2 DEF Messages, IsInput, Inputs, Input
    <3>. QED
      BY <2>2, <3>1 DEF IInv, Stream, Follows, Place
  <2>3. \A i \in DOMAIN Out : Out[i][1] = "level" => Out[i][2] = 1
    BY <2>1 DEF IInv, Stream
  <2>. QED
    BY <2>2, <2>3 DEF MessagesWhole, IInv, Counted
<1>. QED
  BY <1>1, Inductive, PTL

(* An interrupt costs the loop a character at most.                        *)
THEOREM OneLossPerIrq == Spec => []LossPerIrq
<1>1. IInv => LossPerIrq
  BY DEF IInv, Typed, Losses, LossPerIrq
<1>. QED
  BY <1>1, Inductive, PTL

(* No exception is taken that the kernel cannot serve.                     *)
THEOREM EveryExceptionServed == Spec => []OnlyServedExceptions
<1>1. IInv => OnlyServedExceptions
  BY DEF IInv, Control, OnlyServedExceptions, Early, Middle, Timers, Loop,
         Handler
<1>. QED
  BY <1>1, Inductive, PTL

(* uart_init sets the line up before the first character can pass.         *)
THEOREM UartIsReadyFirst == Spec => []UartReadyFirst
<1>1. IInv => UartReadyFirst
  <2>. SUFFICES ASSUME IInv PROVE UartReadyFirst
    OBVIOUS
  <2>1. Board /\ (next > 1 => Selected)
    BY DEF IInv, SetUp
  <2>. QED
    BY <2>1, BoardReady
<1>. QED
  BY <1>1, Inductive, PTL

=============================================================================
