------------------------------ MODULE MiniUart ------------------------------
(***************************************************************************)
(* uart_init and the registers it sets: the function select and the pull   *)
(* resistors of the two pins, and the control registers of the mini UART.  *)
(* Every lesson starts with it.  The FIFOs are in the modules that send.   *)
(***************************************************************************)
EXTENDS Integers, Sequences

CONSTANT
  Firmware  (* The bits of each function select field when the kernel      *)
            (* starts: the firmware may have used the pins for anything.   *)

ASSUME MiniUartAssumption == Firmware \subseteq 0 .. 2

VARIABLES
  reg,     (* The registers.                                               *)
  pull,    (* The pull resistor of each pin: "off" is what 0 in GPPUD says.*)
  settle,  (* Cycles since the pull registers were written last.           *)
  setup,   (* Whether GPPUD had settled when the clock of the pins rose.   *)
  next     (* The access of uart_init that comes next.                     *)

board == <<reg, pull, settle, setup, next>>

(* GPFSEL1 has three bits for each of ten pins; bit 1 alone is alt5, which *)
(* makes 14 and 15 the data pins of the mini UART.                         *)
Pins == 10 .. 19
DataPins == {14, 15}
Alt5 == {1}

(* Registers that can be written only while the mini UART is enabled, as   *)
(* the firmware may have left them.                                        *)
AuxMu == {"AUX_MU_CNTL_REG", "AUX_MU_IER_REG", "AUX_MU_LCR_REG",
          "AUX_MU_MCR_REG", "AUX_MU_BAUD_REG"}

ResetUart ==
  /\ \E on \in {0, 1}, old \in {0, 3} :
       reg = [GPFSEL1 |-> [p \in Pins |-> Firmware], GPPUD |-> 2, GPPUDCLK0 |-> {},
              AUX_ENABLES |-> on, AUX_MU_CNTL_REG |-> old, AUX_MU_IER_REG |-> old,
              AUX_MU_LCR_REG |-> 0, AUX_MU_MCR_REG |-> old, AUX_MU_BAUD_REG |-> old]
  /\ pull = [p \in Pins |-> "up"]
  /\ settle = 0 /\ setup = FALSE
  /\ next = 1

(* The read, the two masks for each data pin, and the write.               *)
(* Mutant: the field is not cleared first.                                 *)
FieldOr(field) == field \cup Alt5
Field(field) == (field \ {0, 1, 2}) \cup Alt5

Selector ==
  [p \in Pins |-> IF p \in DataPins THEN Field(reg.GPFSEL1[p]) ELSE reg.GPFSEL1[p]]

Select ==
  /\ reg' = [reg EXCEPT !.GPFSEL1 = Selector]
  /\ UNCHANGED <<pull, settle, setup, next>>

(* The accesses that follow.                                               *)
Put32(r, value) == [op |-> "put32", r |-> r, value |-> value]
Delay(n) == [op |-> "delay", cycles |-> n]

(* Mutant: the UART is enabled before it is configured.                    *)
AccessEnabledEarly ==
  <<Put32("GPPUD", 0), Delay(150), Put32("GPPUDCLK0", DataPins), Delay(150),
    Put32("GPPUDCLK0", {}),
    Put32("AUX_ENABLES", 1), Put32("AUX_MU_CNTL_REG", 0), Put32("AUX_MU_IER_REG", 0),
    Put32("AUX_MU_CNTL_REG", 3),
    Put32("AUX_MU_LCR_REG", 3), Put32("AUX_MU_MCR_REG", 0), Put32("AUX_MU_BAUD_REG", 270)>>
Access ==
  <<Put32("GPPUD", 0), Delay(150), Put32("GPPUDCLK0", DataPins), Delay(150),
    Put32("GPPUDCLK0", {}),
    Put32("AUX_ENABLES", 1), Put32("AUX_MU_CNTL_REG", 0), Put32("AUX_MU_IER_REG", 0),
    Put32("AUX_MU_LCR_REG", 3), Put32("AUX_MU_MCR_REG", 0), Put32("AUX_MU_BAUD_REG", 270),
    Put32("AUX_MU_CNTL_REG", 3)>>

(* What the board makes of a write.  A pin takes what GPPUD says when its  *)
(* clock falls, if GPPUD was stable for 150 cycles before the clock rose   *)
(* and the clock was up for as long; what it takes otherwise is not known. *)
Settled == settle >= 150

Written(a) ==
  /\ reg' = IF a.r \in AuxMu /\ reg.AUX_ENABLES = 0 THEN reg
            ELSE [reg EXCEPT ![a.r] = a.value]
  /\ settle' = IF a.r \in {"GPPUD", "GPPUDCLK0"} THEN 0 ELSE settle
  /\ setup' = IF a.r = "GPPUDCLK0" THEN Settled ELSE setup
  /\ pull' = IF a.r # "GPPUDCLK0" THEN pull
             ELSE [p \in Pins |->
                     IF p \notin reg.GPPUDCLK0 \ a.value THEN pull[p]
                     ELSE IF setup /\ Settled /\ reg.GPPUD = 0 THEN "off"
                     ELSE "unknown"]

(* delay: one cycle or more for each turn of its loop.                     *)
Elapsed(a) == settle' = settle + a.cycles /\ UNCHANGED <<reg, pull, setup>>

AccessNext ==
  /\ IF Access[next].op = "delay" THEN Elapsed(Access[next]) ELSE Written(Access[next])
  /\ next' = next + 1

-----------------------------------------------------------------------------
(* Whether a character can pass, and how the line is set for it.           *)
Enabled == reg.AUX_ENABLES = 1 /\ reg.AUX_MU_CNTL_REG = 3
Reset == \E i \in 1 .. next - 1 :
           Access[i].op = "put32" /\ Access[i].r = "AUX_MU_CNTL_REG"
Configured ==
  /\ \A p \in DataPins : reg.GPFSEL1[p] = Alt5 /\ pull[p] = "off"
  /\ reg.AUX_MU_LCR_REG = 3 /\ reg.AUX_MU_BAUD_REG = 270
  /\ reg.AUX_MU_IER_REG = 0 /\ reg.AUX_MU_MCR_REG = 0

(* uart_init: once it has disabled what the firmware may have left running, *)
(* the UART neither receives nor transmits before the pins and the line    *)
(* are set as the code says; and the other pins keep their functions.      *)
UartReadyFirst ==
  /\ Enabled /\ Reset => Configured
  /\ \A p \in Pins \ DataPins : reg.GPFSEL1[p] = Firmware

=============================================================================
