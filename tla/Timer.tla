------------------------------- MODULE Timer -------------------------------
(***************************************************************************)
(* The periodic interrupt (timer.c, handle_irq) and the system timer that  *)
(* raises it: a counter of a fixed width that runs freely, and a compare   *)
(* register that matches when the two are equal, not when it is passed.    *)
(* A deadline that is programmed too late is met only after the counter    *)
(* has wrapped around, 71 minutes later on the board.                      *)
(***************************************************************************)
EXTENDS Integers

CONSTANTS
  Wrap,      (* The counter runs modulo Wrap: 2^32 on the board.           *)
  interval,  (* The period: 200000 counts on the board.                    *)
  Latency    (* Counts within which a pending interrupt is acknowledged,   *)
             (* and which timer_init takes.                                *)

(* IRQs are masked, and the handler runs, for a small part of a period.    *)
ASSUME TimerAssumption ==
  /\ Wrap \in Nat /\ interval \in Nat /\ Latency \in Nat
  /\ Latency < interval /\ 2 * interval < Wrap

Count == 0 .. Wrap - 1
(* Addition of two unsigned values of the counter's width.                 *)
Plus(a, b) == IF a + b < Wrap THEN a + b ELSE a + b - Wrap
(* Counter value b is n counts after a, or -n counts before it.            *)
Ahead(a, b, n) == IF n >= 0 THEN b = Plus(a, n) ELSE a = Plus(b, -n)

VARIABLES
  clo,     (* TIMER_CLO.                                                   *)
  c1,      (* TIMER_C1.                                                    *)
  m1,      (* TIMER_CS_M1: the match that raises the IRQ.                  *)
  curVal,  (* curVal.                                                      *)
  handler, (* Where timer_init or the handler is.                          *)
  left,    (* History: counts from now to the moment the next tick is due. *)
  late     (* History: counts since there has been something to do.        *)

timerVars == <<clo, c1, m1, curVal, handler, left, late>>

(* Before timer_init the timer holds what a reset or the firmware left.    *)
TimerReset ==
  /\ clo \in Count
  /\ c1 \in Count
  /\ m1 \in BOOLEAN
  /\ curVal = 0
  /\ handler = "boot"
  /\ left = 0
  /\ late = 0

(* timer_init is under way, or an interrupt is pending or being handled.   *)
Busy == handler \in {"init", "ack"} \/ (handler = "idle" /\ m1)

Advance ==
  /\ Busy => late < Latency
  /\ clo' = Plus(clo, 1)
  /\ m1' = (m1 \/ clo' = c1)
  /\ left' = IF handler = "boot" THEN left ELSE left - 1
  /\ late' = IF Busy THEN late + 1 ELSE late
  /\ UNCHANGED <<c1, curVal, handler>>

(* timer_init reads the counter ...                                        *)
ReadClo ==
  /\ handler = "boot"
  /\ curVal' = clo
  /\ left' = interval
  /\ handler' = "init"
  /\ UNCHANGED <<clo, c1, m1, late>>

(* Mutant: the period starts from a new reading of the counter.            *)
NextFromClo == Plus(clo, interval)
NextVal == Plus(curVal, interval)

(* Mutant: the compare register is written before curVal is advanced.      *)
CompareOld == curVal
Compare == NextVal

(* ... and programs the first tick.                                        *)
FirstCompare ==
  /\ handler = "init"
  /\ curVal' = NextVal
  /\ c1' = Compare
  /\ handler' = "idle"
  /\ late' = 0
  /\ UNCHANGED <<clo, m1, left>>

(* handle_timer_irq: the compare register, then the acknowledgement.       *)
UpdateCompare ==
  /\ handler = "idle" /\ m1
  /\ curVal' = NextVal
  /\ c1' = Compare
  /\ left' = left + interval
  /\ handler' = "ack"
  /\ UNCHANGED <<clo, m1, late>>

Cleared == FALSE

Acknowledge ==
  /\ handler = "ack"
  /\ m1' = Cleared
  /\ handler' = "idle"
  /\ late' = 0
  /\ UNCHANGED <<clo, c1, curVal, left>>

TimerNext == Advance \/ ReadClo \/ FirstCompare \/ UpdateCompare \/ Acknowledge

TimerSpec == TimerReset /\ [][TimerNext]_timerVars

-----------------------------------------------------------------------------
(* Properties.                                                             *)

(* Every register keeps its width, and the next tick is never further away *)
(* than two periods or later than a handler may be.                        *)
TimerTypeOK ==
  /\ clo \in Count /\ c1 \in Count /\ curVal \in Count
  /\ m1 \in BOOLEAN
  /\ handler \in {"boot", "init", "idle", "ack"}
  /\ left \in -Latency .. 2 * interval
  /\ late \in 0 .. Latency

(* The compare register holds the moment the next tick is due, a whole     *)
(* number of periods after timer_init, across every wrap of the counter:   *)
(* neither a slow handler nor a match left over from before timer_init     *)
(* makes the ticks drift.                                                  *)
CompareIsDue ==
  handler \in {"idle", "ack"} =>
    c1 = curVal /\ Ahead(clo, c1, left)

(* No deadline passes unnoticed: it is ahead as long as no match is        *)
(* pending, and when the handler acknowledges one match, which is after it *)
(* has programmed the next, it does not clear that one too.                *)
NeverMissed ==
  /\ handler = "idle" /\ ~m1 => left > 0
  /\ handler = "ack" => left > 0

=============================================================================
