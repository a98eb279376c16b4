-------------------------------- MODULE Boot --------------------------------
(***************************************************************************)
(* boot.S of lesson 6 on the core that boots: it clears the bss, builds    *)
(* the kernel's page tables behind it and turns the MMU on.  The loops     *)
(* test at their end and the last section is inclusive.  kernel_main then  *)
(* sets up the devices, whose registers it reaches through these tables.   *)
(***************************************************************************)
EXTENDS MiniUart

CONSTANTS
  PTRS_PER_TABLE,  (* Entries of a table: 512 on the board.                *)
  DeviceSection,   (* Section of DEVICE_BASE: 504 on the board.            *)
  Sections,        (* Sections of PHYS_MEMORY_SIZE: 512 on the board.      *)
  BssWords         (* 8-byte words of the bss.                             *)

ASSUME BootAssumption ==
  /\ PTRS_PER_TABLE \in Nat /\ DeviceSection \in Nat /\ Sections \in Nat
  /\ 0 < DeviceSection /\ DeviceSection + 1 < Sections /\ Sections <= PTRS_PER_TABLE
  /\ BssWords \in Nat

(* Words from bss_begin on: the bss, the three tables of pg_dir, and one   *)
(* that belongs to somebody else.                                          *)
Pgd == BssWords
Pud == Pgd + PTRS_PER_TABLE
Pmd == Pud + PTRS_PER_TABLE
DirEnd == Pmd + PTRS_PER_TABLE
Word == 0 .. DirEnd

(* What a word can hold, as a table entry.                                 *)
Empty == <<"empty", 0>>
Garbage == <<"garbage", 0>>
Table(tbl) == <<"table", tbl>>
Block(type, section) == <<type, section>>
Entry == {Empty, Garbage} \cup {Table(tbl) : tbl \in Word}
           \cup {Block(type, s) : type \in {"normal", "device"}, s \in 0 .. Sections - 1}

VARIABLES
  pc,    (* Where boot.S is.                                               *)
  el,    (* CurrentEL.                                                     *)
  mmu,   (* The M bit of sctlr_el1, which works at EL1.                    *)
  mem,   (* The words from bss_begin on.                                   *)
  tbl,   (* x0: the word memzero clears, the table that is built.          *)
  start  (* x2 of create_block_map: the index of the next block.           *)

vars == <<pc, el, mmu, mem, tbl, start, board>>

(* The M bit of the two values of sctlr_el1, and the level in spsr_el3.    *)
SCTLR_VALUE_MMU_DISABLED == FALSE
SCTLR_MMU_ENABLED == TRUE
SPSR_EL1h == 1

(* Memory and sctlr_el1 hold what they held at power-on.                   *)
Init ==
  /\ pc = "master"
  /\ el = 3
  /\ mmu \in BOOLEAN
  /\ mem = [a \in Word |-> Garbage]
  /\ tbl = 0
  /\ start = 0
  /\ ResetUart

(* eret to el1_entry, with the MMU off.                                    *)
Master ==
  /\ pc = "master"
  /\ mmu' = SCTLR_VALUE_MMU_DISABLED
  /\ el' = SPSR_EL1h
  /\ tbl' = 0
  /\ pc' = "clear_bss"
  /\ UNCHANGED <<mem, start, board>>

(* Mutant: PG_DIR_SIZE is one page, the size it has without a PUD and PMD. *)
DirClearedShort == Pud
DirCleared == DirEnd
(* Mutant: memzero goes on while the count is not below zero.              *)
MoreWordsGe(end) == tbl + 1 <= end
MoreWords(end) == tbl + 1 < end

(* memzero clears a word before it tests: an empty bss costs the word      *)
(* behind it.                                                              *)
Memzero(label, end, after) ==
  /\ pc = label
  /\ mem' = [mem EXCEPT ![tbl] = Empty]
  /\ IF MoreWords(end)
     THEN tbl' = tbl + 1 /\ UNCHANGED pc
     ELSE tbl' = Pgd /\ pc' = after
  /\ UNCHANGED <<el, mmu, start, board>>

ClearBss == Memzero("clear_bss", BssWords, "clear_dir")
ClearDir == Memzero("clear_dir", DirCleared, "pgd")

(* create_table_entry: VA_START has index 0 in both tables.                *)
CreateTableEntry(label, after) ==
  /\ pc = label
  /\ mem' = [mem EXCEPT ![tbl] = Table(tbl + PTRS_PER_TABLE)]
  /\ tbl' = tbl + PTRS_PER_TABLE
  /\ start' = 0
  /\ pc' = after
  /\ UNCHANGED <<el, mmu, board>>

CreatePgd == CreateTableEntry("pgd", "pud")
CreatePud == CreateTableEntry("pud", "kernel")

MoreBlocks(end) == start + 1 <= end

(* create_block_map: x1, the physical section, advances with the index.    *)
CreateBlock(label, type, end, after) ==
  /\ pc = label
  /\ mem' = [mem EXCEPT ![tbl + start] = Block(type, start)]
  /\ IF MoreBlocks(end)
     THEN start' = start + 1 /\ UNCHANGED pc
     ELSE start' = end + 1 /\ pc' = after
  /\ UNCHANGED <<el, mmu, tbl, board>>

CreateKernelBlock == CreateBlock("kernel", "normal", DeviceSection - 1, "device")
CreateDeviceBlock == CreateBlock("device", "device", Sections - 1, "enable")

(* ttbr1_el1, tcr_el1, mair_el1 and sctlr_el1.                             *)
EnableMmu ==
  /\ pc = "enable"
  /\ mmu' = SCTLR_MMU_ENABLED
  /\ pc' = "br"
  /\ UNCHANGED <<el, mem, tbl, start, board>>

(* The branch is still at a physical address, and ttbr0_el1 has never been *)
(* written: the instruction may have been fetched in time, or not.         *)
Branch ==
  /\ pc = "br"
  /\ pc' \in {"selector", "fetch_fault"}
  /\ UNCHANGED <<el, mmu, mem, tbl, start, board>>

(* The registers of the devices, from the base of all devices on.          *)
SECTION_SIZE == \h200000
Gpio == [GPFSEL1 |-> \h200004, GPSET0 |-> \h20001C, GPCLR0 |-> \h200028,
         GPPUD |-> \h200094, GPPUDCLK0 |-> \h200098]
Aux == [AUX_ENABLES |-> \h215004, AUX_MU_IO_REG |-> \h215040,
        AUX_MU_IER_REG |-> \h215044, AUX_MU_IIR_REG |-> \h215048,
        AUX_MU_LCR_REG |-> \h21504C, AUX_MU_MCR_REG |-> \h215050,
        AUX_MU_LSR_REG |-> \h215054, AUX_MU_MSR_REG |-> \h215058,
        AUX_MU_SCRATCH |-> \h21505C, AUX_MU_CNTL_REG |-> \h215060,
        AUX_MU_STAT_REG |-> \h215064, AUX_MU_BAUD_REG |-> \h215068]
SystemTimer == [TIMER_CS |-> \h3000, TIMER_CLO |-> \h3004, TIMER_CHI |-> \h3008,
                TIMER_C0 |-> \h300C, TIMER_C1 |-> \h3010, TIMER_C2 |-> \h3014,
                TIMER_C3 |-> \h3018]
Interrupts == [IRQ_BASIC_PENDING |-> \hB200, IRQ_PENDING_1 |-> \hB204,
               IRQ_PENDING_2 |-> \hB208, FIQ_CONTROL |-> \hB20C,
               ENABLE_IRQS_1 |-> \hB210, ENABLE_IRQS_2 |-> \hB214,
               ENABLE_BASIC_IRQS |-> \hB218, DISABLE_IRQS_1 |-> \hB21C,
               DISABLE_IRQS_2 |-> \hB220, DISABLE_BASIC_IRQS |-> \hB224]
Peripherals == {Gpio, Aux, SystemTimer, Interrupts}
Registers == UNION {DOMAIN p : p \in Peripherals}
Offset(r) == (CHOOSE p \in Peripherals : r \in DOMAIN p)[r]

(* Mutant: PBASE is the physical address, as in lesson 5.                  *)
PBASEPhysical == [root |-> "ttbr0_el1", section |-> DeviceSection]
PBASE == [root |-> "ttbr1_el1", section |-> DeviceSection]

(* What the MMU makes of the address of a register.                        *)
Section(r) == PBASE.section + Offset(r) \div SECTION_SIZE
Translated(r) ==
  IF PBASE.root = "ttbr1_el1" /\ mem[Pgd] = Table(Pud) /\ mem[Pud] = Table(Pmd)
  THEN mem[Pmd + Section(r)] ELSE Garbage

(* get32 and put32 in kernel_main: the register, or a data abort.          *)
Device(registers, access, after) ==
  /\ IF \A r \in registers : Translated(r) = Block("device", Section(r))
     THEN access /\ pc' = after
     ELSE pc' = "data_abort" /\ UNCHANGED board
  /\ UNCHANGED <<el, mmu, mem, tbl, start>>

UartSelector == pc = "selector" /\ Device({"GPFSEL1"}, Select, "uart_init")
UartInit ==
  /\ pc = "uart_init"
  /\ Device(IF Access[next].op = "put32" THEN {Access[next].r} ELSE {}, AccessNext,
            IF next < Len(Access) THEN "uart_init" ELSE "timer_init")
TimerInit ==
  pc = "timer_init" /\ Device({"TIMER_CLO", "TIMER_C1"}, UNCHANGED board, "enable_irqs")
EnableInterruptController ==
  pc = "enable_irqs" /\ Device({"ENABLE_IRQS_1"}, UNCHANGED board, "kernel_main")

Next ==
  \/ Master \/ ClearBss \/ ClearDir
  \/ CreatePgd \/ CreatePud \/ CreateKernelBlock \/ CreateDeviceBlock
  \/ EnableMmu \/ Branch
  \/ UartSelector \/ UartInit \/ TimerInit \/ EnableInterruptController

Spec == Init /\ [][Next]_vars

-----------------------------------------------------------------------------
(* Properties.                                                             *)

(* What the PMD must hold for section s.                                   *)
Linear(s) == IF s < DeviceSection THEN Block("normal", s)
             ELSE IF s < Sections THEN Block("device", s)
             ELSE Empty

(* master, __create_page_tables: when the MMU is on the tables map every    *)
(* section of physical memory at VA_START plus its address, the devices as *)
(* device memory, and hold nothing else; and through them kernel_main      *)
(* reaches the registers of all devices it sets up, and the handlers will  *)
(* reach the others.                                                       *)
DevicesReached ==
  /\ pc # "data_abort"
  /\ pc = "kernel_main" =>
       \A r \in Registers : Translated(r) = Block("device", Section(r))
LinearMap ==
  /\ el = 1 /\ mmu =>
       /\ mem[Pgd] = Table(Pud) /\ mem[Pud] = Table(Pmd)
       /\ \A i \in 1 .. PTRS_PER_TABLE - 1 :
            mem[Pgd + i] = Empty /\ mem[Pud + i] = Empty
       /\ \A s \in 0 .. PTRS_PER_TABLE - 1 : mem[Pmd + s] = Linear(s)
  /\ DevicesReached

(* memzero and create_block_map: no loop runs past its array.              *)
StaysInside == mem[DirEnd] = Garbage

=============================================================================
