----------------------------- MODULE BootProofs -----------------------------
(***************************************************************************)
(* For tables of any size, any place of the devices and a bss of any size, *)
(* the empty one included: no loop of boot.S runs past its array, and when *)
(* the MMU goes on the tables are the kernel's linear map, complete and    *)
(* without leftovers, behind which every device register is found.         *)
(***************************************************************************)
EXTENDS Boot, TLAPS

-----------------------------------------------------------------------------
(* The registers.                                                          *)

LEMMA GpioBounds ==
  \A r \in DOMAIN Gpio : Gpio[r] \in Nat /\ Gpio[r] <= 2183276
BY SMT DEF Gpio
LEMMA AuxBounds ==
  \A r \in DOMAIN Aux : Aux[r] \in Nat /\ Aux[r] <= 2183276
BY SMT DEF Aux
LEMMA TimerBounds ==
  \A r \in DOMAIN SystemTimer :
    SystemTimer[r] \in Nat /\ SystemTimer[r] <= 2183276
BY SMT DEF SystemTimer
LEMMA InterruptBounds ==
  \A r \in DOMAIN Interrupts :
    Interrupts[r] \in Nat /\ Interrupts[r] <= 2183276
BY SMT DEF Interrupts

LEMMA Quotient ==
  ASSUME NEW x \in Nat, NEW d \in Nat, d > 0, x < 2 * d
  PROVE  x \div d = 0 \/ x \div d = 1
<1>1. x \div d < 2 /\ x \div d >= 0 /\ x \div d \in Int
  BY SMT
<1>. QED
  BY <1>1

(* The devices lie in the first two sections from their base on.           *)
LEMMA RegisterSections ==
  ASSUME NEW r \in Registers
  PROVE  Section(r) = DeviceSection \/ Section(r) = DeviceSection + 1
<1>1. PICK p \in Peripherals : r \in DOMAIN p
  BY DEF Registers
<1>. DEFINE q == CHOOSE p0 \in Peripherals : r \in DOMAIN p0
<1>2. q \in Peripherals /\ r \in DOMAIN q
  BY <1>1
<1>. HIDE DEF q
<1>3. q[r] \in Nat /\ q[r] <= 2183276
  BY <1>2, GpioBounds, AuxBounds, TimerBounds, InterruptBounds
     DEF Peripherals
<1>4. q[r] \div SECTION_SIZE = 0 \/ q[r] \div SECTION_SIZE = 1
  <2>1. SECTION_SIZE \in Nat /\ SECTION_SIZE > 0 /\ 2183276 < 2 * SECTION_SIZE
    BY SMT DEF SECTION_SIZE
  <2>2. q[r] < 2 * SECTION_SIZE
    BY <1>3, <2>1, SMT
  <2>. QED
    BY <1>3, <2>1, <2>2, Quotient
<1>5. Section(r) = DeviceSection + (q[r] \div SECTION_SIZE)
  BY DEF Section, Offset, PBASE, q
<1>6. DeviceSection + 0 = DeviceSection
  BY BootAssumption
<1>. QED
  BY <1>4, <1>5, <1>6

(* What kernel_main accesses.                                              *)
LEMMA AccessRegisters ==
  /\ Len(Access) = 12
  /\ \A i \in 1 .. 12 : Access[i].op = "put32" => Access[i].r \in Registers
  /\ {"GPFSEL1", "TIMER_CLO", "TIMER_C1", "ENABLE_IRQS_1"} \subseteq Registers
<1>1. /\ {"GPFSEL1", "GPPUD", "GPPUDCLK0"} \subseteq DOMAIN Gpio
      /\ {"AUX_ENABLES"} \cup AuxMu \subseteq DOMAIN Aux
      /\ {"TIMER_CLO", "TIMER_C1"} \subseteq DOMAIN SystemTimer
      /\ {"ENABLE_IRQS_1"} \subseteq DOMAIN Interrupts
  BY SMT DEF Gpio, Aux, SystemTimer, Interrupts, AuxMu
<1>2. {Gpio, Aux, SystemTimer, Interrupts} \subseteq Peripherals
  BY DEF Peripherals
<1>3. /\ {"GPFSEL1", "GPPUD", "GPPUDCLK0", "AUX_ENABLES", "TIMER_CLO",
          "TIMER_C1", "ENABLE_IRQS_1"} \subseteq Registers
      /\ AuxMu \subseteq Registers
  BY <1>1, <1>2 DEF Registers
<1>4. /\ Len(Access) = 12
      /\ Access[1] = Put32("GPPUD", 0) /\ Access[2] = Delay(150)
      /\ Access[3] = Put32("GPPUDCLK0", DataPins) /\ Access[4] = Delay(150)
      /\ Access[5] = Put32("GPPUDCLK0", {})
      /\ Access[6] = Put32("AUX_ENABLES", 1)
      /\ Access[7] = Put32("AUX_MU_CNTL_REG", 0)
      /\ Access[8] = Put32("AUX_MU_IER_REG", 0)
      /\ Access[9] = Put32("AUX_MU_LCR_REG", 3)
      /\ Access[10] = Put32("AUX_MU_MCR_REG", 0)
      /\ Access[11] = Put32("AUX_MU_BAUD_REG", 270)
      /\ Access[12] = Put32("AUX_MU_CNTL_REG", 3)
  BY DEF Access
<1>5. \A i \in 1 .. 12 :
        Access[i].op = "put32" =>
          Access[i].r \in {"GPPUD", "GPPUDCLK0", "AUX_ENABLES"} \cup AuxMu
  BY <1>4 DEF Put32, Delay, AuxMu
<1>. QED
  BY <1>3, <1>4, <1>5

-----------------------------------------------------------------------------
(* The invariant: what is in memory at each place of boot.S.               *)

(* The tables with the entries of the PGD and the PUD, when they are there,*)
(* and the first n sections.                                               *)
Built(m, pgd, pud, n) ==
  \A a \in Pgd .. DirEnd - 1 :
    m[a] = IF a = Pgd THEN (IF pgd THEN Table(Pud) ELSE Empty)
           ELSE IF a = Pud THEN (IF pud THEN Table(Pmd) ELSE Empty)
           ELSE IF a >= Pmd /\ a - Pmd < n THEN Linear(a - Pmd)
           ELSE Empty

Cleared(end) == \A a \in Pgd .. end - 1 : mem[a] = Empty

Loops == {"clear_bss", "clear_dir", "pgd", "pud", "kernel", "device"}
Main == {"selector", "uart_init", "timer_init", "enable_irqs", "kernel_main"}

Places ==
  /\ pc \in {"master", "enable", "br", "fetch_fault"} \cup Loops \cup Main
  /\ pc = "master" => el = 3
  /\ pc \in Loops \cup {"enable"} => ~mmu
  /\ pc \in Loops => tbl \in Nat

Tables ==
  /\ DOMAIN mem = Word /\ mem[DirEnd] = Garbage
  /\ pc = "clear_bss" => tbl < BssWords \/ tbl = 0
  /\ pc = "clear_dir" => Pgd <= tbl /\ tbl < DirEnd /\ Cleared(tbl)
  /\ pc = "pgd" => tbl = Pgd /\ Built(mem, FALSE, FALSE, 0)
  /\ pc = "pud" => tbl = Pud /\ Built(mem, TRUE, FALSE, 0)
  /\ pc = "kernel" =>
       /\ tbl = Pmd /\ start \in 0 .. DeviceSection - 1
       /\ Built(mem, TRUE, TRUE, start)
  /\ pc = "device" =>
       /\ tbl = Pmd /\ start \in DeviceSection .. Sections - 1
       /\ Built(mem, TRUE, TRUE, start)
  /\ pc \in {"enable", "br", "fetch_fault"} \cup Main =>
       Built(mem, TRUE, TRUE, Sections)

Uart ==
  /\ next \in 1 .. 13
  /\ pc \notin Main \ {"selector"} => next = 1
  /\ pc = "uart_init" => next <= 12

IInv == Places /\ Tables /\ Uart

-----------------------------------------------------------------------------
USE BootAssumption

LEMMA Layout ==
  /\ Pgd \in Nat /\ Pud \in Nat /\ Pmd \in Nat /\ DirEnd \in Nat
  /\ Pgd < Pud /\ Pud < Pmd /\ Pmd + Sections <= DirEnd /\ BssWords = Pgd
  /\ Pud = Pgd + PTRS_PER_TABLE /\ Pmd = Pud + PTRS_PER_TABLE
  /\ DirEnd = Pmd + PTRS_PER_TABLE
  /\ Word = 0 .. DirEnd
BY DEF Pgd, Pud, Pmd, DirEnd, Word

LEMMA InitIInv == Init => IInv
BY Layout DEF Init, IInv, Places, Tables, Uart, ResetUart, Loops, Main

(* A step that neither writes a word nor leaves the tables' part of boot.S.*)
LEMMA TablesStay ==
  ASSUME Tables, mem' = mem, pc \in {"enable", "br"} \cup Main,
         pc' \in {"br", "fetch_fault"} \cup Main
  PROVE  Tables'
BY DEF Tables, Built, Main

LEMMA MasterKeeps == ASSUME IInv, Master PROVE IInv'
BY Layout
   DEF IInv, Places, Tables, Uart, Master, SPSR_EL1h, board, Loops, Main,
       SCTLR_VALUE_MMU_DISABLED

LEMMA ClearBssKeeps == ASSUME IInv, ClearBss PROVE IInv'
<1>1. /\ pc = "clear_bss" /\ mem' = [mem EXCEPT ![tbl] = Empty]
      /\ \/ tbl + 1 < BssWords /\ tbl' = tbl + 1 /\ pc' = pc
         \/ tbl' = Pgd /\ pc' = "clear_dir"
      /\ UNCHANGED <<el, mmu, start, next>>
  BY DEF ClearBss, Memzero, MoreWords, board
<1>2. tbl \in Nat /\ (tbl < BssWords \/ tbl = 0) /\ tbl # DirEnd
  BY <1>1, Layout DEF IInv, Places, Tables, Loops
<1>3. DOMAIN mem' = Word /\ mem'[DirEnd] = Garbage
  BY <1>1, <1>2, Layout DEF IInv, Tables
<1>4. Places' /\ Uart'
  BY <1>1, <1>2, Layout DEF IInv, Places, Uart, Loops, Main
<1>5. CASE tbl + 1 < BssWords /\ tbl' = tbl + 1 /\ pc' = pc
  <2>1. tbl' < BssWords
    BY <1>5
  <2>2. Tables'
    BY <1>1, <1>3, <1>5, <2>1 DEF Tables, Main
  <2>. QED
    BY <1>4, <2>2 DEF IInv
<1>6. CASE tbl' = Pgd /\ pc' = "clear_dir"
  <2>1. /\ Pgd <= tbl' /\ tbl' < DirEnd /\ Pgd .. tbl' - 1 = {}
    BY <1>6, Layout
  <2>2. Cleared(tbl)'
    BY <2>1 DEF Cleared
  <2>3. Tables'
    BY <1>3, <1>6, <2>1, <2>2 DEF Tables, Main
  <2>. QED
    BY <1>4, <2>3 DEF IInv
<1>. QED
  BY <1>1, <1>5, <1>6

LEMMA ClearDirKeeps == ASSUME IInv, ClearDir PROVE IInv'
<1>1. /\ pc = "clear_dir" /\ mem' = [mem EXCEPT ![tbl] = Empty]
      /\ \/ tbl + 1 < DirEnd /\ tbl' = tbl + 1 /\ pc' = pc
         \/ ~(tbl + 1 < DirEnd) /\ tbl' = Pgd /\ pc' = "pgd"
      /\ UNCHANGED <<el, mmu, start, next>>
  BY DEF ClearDir, Memzero, MoreWords, DirCleared, board
<1>2. /\ tbl \in Nat /\ Pgd <= tbl /\ tbl < DirEnd /\ Cleared(tbl)
      /\ DOMAIN mem = Word /\ mem[DirEnd] = Garbage
  BY <1>1 DEF IInv, Places, Tables, Loops
<1>3. DOMAIN mem' = Word /\ mem'[DirEnd] = Garbage
  BY <1>1, <1>2, Layout
<1>4. \A a \in Pgd .. tbl : mem'[a] = Empty
  BY <1>1, <1>2, Layout DEF Cleared
<1>5. Places' /\ Uart'
  BY <1>1, <1>2, Layout DEF IInv, Places, Uart, Loops, Main
<1>6. CASE pc' = pc
  <2>1. pc' = "clear_dir" /\ tbl' = tbl + 1 /\ tbl + 1 < DirEnd
    BY <1>1, <1>6
  <2>2. Pgd <= tbl' /\ tbl' < DirEnd /\ tbl' - 1 = tbl
    BY <1>2, <2>1, Layout
  <2>3. Cleared(tbl)'
    BY <1>4, <2>2 DEF Cleared
  <2>4. Tables'
    BY <1>3, <2>1, <2>2, <2>3 DEF Tables, Main
  <2>. QED
    BY <1>5, <2>4 DEF IInv
<1>7. CASE pc' = "pgd" /\ tbl + 1 >= DirEnd
  <2>1. \A a \in Pgd .. DirEnd - 1 : mem'[a] = Empty
    BY <1>2, <1>4, <1>7, Layout
  <2>2. \A a \in Int : ~(a >= Pmd /\ a - Pmd < 0)
    BY Layout
  <2>3. Built(mem', FALSE, FALSE, 0)
    BY <2>1, <2>2, Layout DEF Built
  <2>. QED
    BY <1>1, <1>3, <1>5, <1>7, <2>3 DEF IInv, Tables, Main
<1>. QED
  BY <1>1, <1>2, <1>6, <1>7, Layout

LEMMA CreatePgdKeeps == ASSUME IInv, CreatePgd PROVE IInv'
<1>1. /\ pc = "pgd" /\ mem' = [mem EXCEPT ![tbl] = Table(tbl + PTRS_PER_TABLE)]
      /\ tbl' = tbl + PTRS_PER_TABLE /\ start' = 0 /\ pc' = "pud"
      /\ UNCHANGED <<el, mmu, next>>
  BY DEF CreatePgd, CreateTableEntry, board
<1>2. /\ tbl = Pgd /\ Built(mem, FALSE, FALSE, 0)
      /\ DOMAIN mem = Word /\ mem[DirEnd] = Garbage
  BY <1>1 DEF IInv, Tables
<1>3. DOMAIN mem' = Word /\ mem'[DirEnd] = Garbage /\ tbl' = Pud
  BY <1>1, <1>2, Layout
<1>4. Built(mem', TRUE, FALSE, 0)
  BY <1>1, <1>2, Layout DEF Built
<1>5. Places' /\ Uart'
  BY <1>1, <1>3, Layout DEF IInv, Places, Uart, Loops, Main
<1>. QED
  BY <1>1, <1>3, <1>4, <1>5 DEF IInv, Tables, Main

LEMMA CreatePudKeeps == ASSUME IInv, CreatePud PROVE IInv'
<1>1. /\ pc = "pud" /\ mem' = [mem EXCEPT ![tbl] = Table(tbl + PTRS_PER_TABLE)]
      /\ tbl' = tbl + PTRS_PER_TABLE /\ start' = 0 /\ pc' = "kernel"
      /\ UNCHANGED <<el, mmu, next>>
  BY DEF CreatePud, CreateTableEntry, board
<1>2. /\ tbl = Pud /\ Built(mem, TRUE, FALSE, 0)
      /\ DOMAIN mem = Word /\ mem[DirEnd] = Garbage
  BY <1>1 DEF IInv, Tables
<1>3. DOMAIN mem' = Word /\ mem'[DirEnd] = Garbage /\ tbl' = Pmd
  BY <1>1, <1>2, Layout
<1>4. Built(mem', TRUE, TRUE, 0)
  BY <1>1, <1>2, Layout DEF Built
<1>5. Places' /\ Uart'
  BY <1>1, <1>3, Layout DEF IInv, Places, Uart, Loops, Main
<1>6. start' \in 0 .. DeviceSection - 1
  BY <1>1
<1>7. Built(mem', TRUE, TRUE, start')
  BY <1>1, <1>4
<1>8. Tables'
  BY <1>1, <1>3, <1>6, <1>7 DEF Tables, Main
<1>. QED
  BY <1>5, <1>8 DEF IInv

(* One more section.                                                       *)
LEMMA BlockBuilt ==
  ASSUME Built(mem, TRUE, TRUE, start), DOMAIN mem = Word,
         mem[DirEnd] = Garbage, start \in 0 .. Sections - 1,
         mem' = [mem EXCEPT ![Pmd + start] = Linear(start)]
  PROVE  /\ DOMAIN mem' = Word /\ mem'[DirEnd] = Garbage
         /\ Built(mem', TRUE, TRUE, start + 1)
BY Layout DEF Built

LEMMA CreateKernelBlockKeeps == ASSUME IInv, CreateKernelBlock PROVE IInv'
<1>1. /\ pc = "kernel"
      /\ mem' = [mem EXCEPT ![tbl + start] = Block("normal", start)]
      /\ \/ start + 1 <= DeviceSection - 1 /\ start' = start + 1 /\ pc' = pc
         \/ /\ ~(start + 1 <= DeviceSection - 1)
            /\ start' = DeviceSection - 1 + 1 /\ pc' = "device"
      /\ UNCHANGED <<el, mmu, tbl, next>>
  BY DEF CreateKernelBlock, CreateBlock, MoreBlocks, board
<1>2. /\ tbl = Pmd /\ start \in 0 .. DeviceSection - 1
      /\ Built(mem, TRUE, TRUE, start)
      /\ DOMAIN mem = Word /\ mem[DirEnd] = Garbage
  BY <1>1 DEF IInv, Tables
<1>3. Linear(start) = Block("normal", start) /\ start \in 0 .. Sections - 1
  BY <1>2 DEF Linear
<1>4. /\ DOMAIN mem' = Word /\ mem'[DirEnd] = Garbage
      /\ Built(mem', TRUE, TRUE, start + 1)
  BY <1>1, <1>2, <1>3, BlockBuilt
<1>5. Places' /\ Uart'
  BY <1>1, <1>2, Layout DEF IInv, Places, Uart, Loops, Main
<1>6. start' = start + 1
  BY <1>1, <1>2
<1>7. \/ pc' = "kernel" /\ start' \in 0 .. DeviceSection - 1
      \/ pc' = "device" /\ start' \in DeviceSection .. Sections - 1
  BY <1>1, <1>2
<1>8. Built(mem', TRUE, TRUE, start')
  BY <1>4, <1>6
<1>9. Tables'
  BY <1>1, <1>2, <1>4, <1>7, <1>8 DEF Tables, Main
<1>. QED
  BY <1>5, <1>9 DEF IInv

LEMMA CreateDeviceBlockKeeps == ASSUME IInv, CreateDeviceBlock PROVE IInv'
<1>1. /\ pc = "device"
      /\ mem' = [mem EXCEPT ![tbl + start] = Block("device", start)]
      /\ \/ start + 1 <= Sections - 1 /\ start' = start + 1 /\ pc' = pc
         \/ /\ ~(start + 1 <= Sections - 1)
            /\ start' = Sections - 1 + 1 /\ pc' = "enable"
      /\ UNCHANGED <<el, mmu, tbl, next>>
  BY DEF CreateDeviceBlock, CreateBlock, MoreBlocks, board
<1>2. /\ tbl = Pmd /\ start \in DeviceSection .. Sections - 1
      /\ Built(mem, TRUE, TRUE, start)
      /\ DOMAIN mem = Word /\ mem[DirEnd] = Garbage
  BY <1>1 DEF IInv, Tables
<1>3. Linear(start) = Block("device", start) /\ start \in 0 .. Sections - 1
  BY <1>2 DEF Linear
<1>4. /\ DOMAIN mem' = Word /\ mem'[DirEnd] = Garbage
      /\ Built(mem', TRUE, TRUE, start + 1)
  BY <1>1, <1>2, <1>3, BlockBuilt
<1>5. Places' /\ Uart'
  BY <1>1, <1>2, Layout DEF IInv, Places, Uart, Loops, Main
<1>6. start' = start + 1
  BY <1>1, <1>2
<1>7. \/ pc' = "device" /\ start' \in DeviceSection .. Sections - 1
      \/ pc' = "enable" /\ start' = Sections
  BY <1>1, <1>2
<1>8. Built(mem', TRUE, TRUE, start')
  BY <1>4, <1>6
<1>9. Tables'
  BY <1>1, <1>2, <1>4, <1>7, <1>8 DEF Tables, Main
<1>. QED
  BY <1>5, <1>9 DEF IInv

LEMMA EnableMmuKeeps == ASSUME IInv, EnableMmu PROVE IInv'
BY TablesStay DEF IInv, EnableMmu, Places, Uart, board, Loops, Main

LEMMA BranchKeeps == ASSUME IInv, Branch PROVE IInv'
BY TablesStay DEF IInv, Branch, Places, Uart, board, Loops, Main

(* A register is found in its section, mapped as device memory.            *)
LEMMA DeviceFound ==
  ASSUME Built(mem, TRUE, TRUE, Sections), NEW r \in Registers
  PROVE  Translated(r) = Block("device", Section(r))
<1>1. Section(r) \in DeviceSection .. Sections - 1
  BY RegisterSections
<1>. DEFINE s == Section(r)
<1>. HIDE DEF s
<1>2. s \in DeviceSection .. Sections - 1
  BY <1>1 DEF s
<1>3. mem[Pgd] = Table(Pud) /\ mem[Pud] = Table(Pmd)
  BY Layout DEF Built
<1>4. mem[Pmd + s] = Linear(s)
  <2>1. /\ Pmd + s \in Pgd .. DirEnd - 1 /\ (Pmd + s) - Pmd = s
        /\ Pmd + s # Pgd /\ Pmd + s # Pud /\ Pmd + s >= Pmd /\ s < Sections
    BY <1>2, Layout
  <2>. QED
    BY <2>1 DEF Built
<1>5. Linear(s) = Block("device", s)
  BY <1>2 DEF Linear
<1>. QED
  BY <1>3, <1>4, <1>5 DEF Translated, PBASE, s

(* kernel_main's accesses never abort.                                     *)
LEMMA DeviceStep ==
  ASSUME Tables, pc \in Main, NEW registers, registers \subseteq Registers,
         NEW after, NEW ACTION access, Device(registers, access, after)
  PROVE  access /\ pc' = after /\ UNCHANGED <<el, mmu, mem, tbl, start>>
<1>1. \A r \in registers : Translated(r) = Block("device", Section(r))
  BY DeviceFound DEF Tables
<1>. QED
  BY <1>1 DEF Device

LEMMA UartSelectorKeeps == ASSUME IInv, UartSelector PROVE IInv'
<1>1. /\ pc = "selector" /\ Device({"GPFSEL1"}, Select, "uart_init")
      /\ {"GPFSEL1"} \subseteq Registers /\ pc \in Main
  BY AccessRegisters DEF UartSelector, Main
<1>2. Select /\ pc' = "uart_init" /\ UNCHANGED <<el, mmu, mem, tbl, start>>
  BY <1>1, DeviceStep DEF IInv
<1>3. next' = next
  BY <1>2 DEF Select
<1>4. Places' /\ Uart'
  BY <1>1, <1>2, <1>3 DEF IInv, Places, Uart, Loops, Main
<1>. QED
  BY <1>1, <1>2, <1>4, TablesStay DEF IInv, Main

LEMMA UartInitKeeps == ASSUME IInv, UartInit PROVE IInv'
<1>. DEFINE registers ==
              IF Access[next].op = "put32" THEN {Access[next].r} ELSE {}
            after == IF next < Len(Access) THEN "uart_init" ELSE "timer_init"
<1>1. pc = "uart_init" /\ Device(registers, AccessNext, after) /\ pc \in Main
  BY DEF UartInit, Main
<1>2. next \in 1 .. 12
  BY <1>1 DEF IInv, Uart
<1>3. registers \subseteq Registers
  BY <1>2, AccessRegisters
<1>4. AccessNext /\ pc' = after /\ UNCHANGED <<el, mmu, mem, tbl, start>>
  <2>. HIDE DEF registers, after
  <2>. QED
    BY <1>1, <1>3, DeviceStep DEF IInv
<1>5. next' = next + 1
  BY <1>4 DEF AccessNext
<1>6. \/ pc' = "uart_init" /\ next' \in 1 .. 12
      \/ pc' = "timer_init" /\ next' = 13
  BY <1>2, <1>4, <1>5, AccessRegisters
<1>. HIDE DEF registers, after
<1>7. Places' /\ Uart'
  BY <1>1, <1>4, <1>6 DEF IInv, Places, Uart, Loops, Main
<1>. QED
  BY <1>1, <1>4, <1>6, <1>7, TablesStay DEF IInv, Main

LEMMA TimerInitKeeps == ASSUME IInv, TimerInit PROVE IInv'
<1>1. /\ pc = "timer_init" /\ pc \in Main
      /\ Device({"TIMER_CLO", "TIMER_C1"}, UNCHANGED board, "enable_irqs")
      /\ {"TIMER_CLO", "TIMER_C1"} \subseteq Registers
  BY AccessRegisters DEF TimerInit, Main
<1>2. /\ UNCHANGED board /\ pc' = "enable_irqs"
      /\ UNCHANGED <<el, mmu, mem, tbl, start>>
  BY <1>1, DeviceStep DEF IInv
<1>3. Places' /\ Uart'
  BY <1>1, <1>2 DEF IInv, Places, Uart, board, Loops, Main
<1>. QED
  BY <1>1, <1>2, <1>3, TablesStay DEF IInv, Main

LEMMA EnableInterruptControllerKeeps ==
  ASSUME IInv, EnableInterruptController PROVE IInv'
<1>1. /\ pc = "enable_irqs" /\ pc \in Main
      /\ Device({"ENABLE_IRQS_1"}, UNCHANGED board, "kernel_main")
      /\ {"ENABLE_IRQS_1"} \subseteq Registers
  BY AccessRegisters DEF EnableInterruptController, Main
<1>2. /\ UNCHANGED board /\ pc' = "kernel_main"
      /\ UNCHANGED <<el, mmu, mem, tbl, start>>
  BY <1>1, DeviceStep DEF IInv
<1>3. Places' /\ Uart'
  BY <1>1, <1>2 DEF IInv, Places, Uart, board, Loops, Main
<1>. QED
  BY <1>1, <1>2, <1>3, TablesStay DEF IInv, Main

LEMMA NextKeeps == ASSUME IInv, [Next]_vars PROVE IInv'
<1>1. CASE Next
  BY <1>1, MasterKeeps, ClearBssKeeps, ClearDirKeeps, CreatePgdKeeps,
     CreatePudKeeps, CreateKernelBlockKeeps, CreateDeviceBlockKeeps,
     EnableMmuKeeps, BranchKeeps, UartSelectorKeeps, UartInitKeeps,
     TimerInitKeeps, EnableInterruptControllerKeeps DEF Next
<1>2. CASE UNCHANGED vars
  BY <1>2
     DEF IInv, Places, Tables, Uart, Built, Cleared, vars, board
<1>. QED
  BY <1>1, <1>2

(* The invariant, of every behaviour.                                      *)
THEOREM Inductive == Spec => []IInv
<1>1. IInv /\ [Next]_vars => IInv'
  BY NextKeeps
<1>. QED
  BY <1>1, InitIInv, PTL DEF Spec

(* memzero and create_block_map: the word behind pg_dir is never written.  *)
THEOREM LoopsStayInside == Spec => []StaysInside
<1>1. IInv => StaysInside
  BY DEF IInv, Tables, StaysInside
<1>. QED
  BY <1>1, Inductive, PTL

(* __create_page_tables: once the MMU is on, every section of physical     *)
(* memory is at VA_START plus its address, the tables hold nothing else,   *)
(* and no access to a device aborts.                                       *)
THEOREM MapIsLinear == Spec => []LinearMap
<1>1. IInv => LinearMap
  <2>. SUFFICES ASSUME IInv PROVE LinearMap
    OBVIOUS
  <2>1. pc # "data_abort"
    BY DEF IInv, Places, Loops, Main
  <2>2. ASSUME pc = "kernel_main", NEW r \in Registers
        PROVE  Translated(r) = Block("device", Section(r))
    BY <2>2, DeviceFound DEF IInv, Tables, Main
  <2>3. ASSUME el = 1, mmu
        PROVE  /\ mem[Pgd] = Table(Pud) /\ mem[Pud] = Table(Pmd)
               /\ \A i \in 1 .. PTRS_PER_TABLE - 1 :
                    mem[Pgd + i] = Empty /\ mem[Pud + i] = Empty
               /\ \A s \in 0 .. PTRS_PER_TABLE - 1 : mem[Pmd + s] = Linear(s)
    <3>1. Built(mem, TRUE, TRUE, Sections)
      <4>1. pc \notin Loops \cup {"enable"}
        BY <2>3, Zenon DEF IInv, Places
      <4>2. pc # "master" /\ pc \in {"br", "fetch_fault"} \cup Main
        BY <2>3, <4>1 DEF IInv, Places
      <4>. QED
        BY <4>2 DEF IInv, Tables
    <3>2. mem[Pgd] = Table(Pud) /\ mem[Pud] = Table(Pmd)
      BY <3>1, Layout DEF Built
    <3>3. ASSUME NEW i \in 1 .. PTRS_PER_TABLE - 1
          PROVE  mem[Pgd + i] = Empty /\ mem[Pud + i] = Empty
      BY <3>1, Layout DEF Built
    <3>4. ASSUME NEW s \in 0 .. PTRS_PER_TABLE - 1
          PROVE  mem[Pmd + s] = Linear(s)
      <4>1. /\ Pmd + s \in Pgd .. DirEnd - 1 /\ (Pmd + s) - Pmd = s
            /\ Pmd + s # Pgd /\ Pmd + s # Pud /\ Pmd + s >= Pmd
        BY Layout
      <4>2. s >= Sections => Linear(s) = Empty
        BY DEF Linear
      <4>. QED
        BY <3>1, <4>1, <4>2 DEF Built
    <3>. QED
      BY <3>2, <3>3, <3>4
  <2>. QED
    BY <2>1, <2>2, <2>3 DEF LinearMap, DevicesReached
<1>. QED
  BY <1>1, Inductive, PTL

=============================================================================
