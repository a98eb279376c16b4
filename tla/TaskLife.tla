------------------------------ MODULE TaskLife ------------------------------
(***************************************************************************)
(* What the scheduler promises, with no counters, interrupts or stacks:    *)
(* one CPU passes between tasks that are created, run, exit and stay dead. *)
(* Sched implements this specification.                                    *)
(***************************************************************************)
EXTENDS Naturals

CONSTANT Tasks        (* Task identities: 0 is the boot task.              *)

VARIABLE status       (* unused, ready, running, exiting or dead, by task. *)

Init == status = [t \in Tasks |-> IF t = 0 THEN "running" ELSE "unused"]

OnCpu(t) == status[t] \in {"running", "exiting"}

(* A running task creates another one, which waits for the CPU.            *)
Fork(c) ==
  /\ \E t \in Tasks : status[t] = "running"
  /\ status[c] = "unused"
  /\ status' = [status EXCEPT ![c] = "ready"]

(* A running task exits; it keeps the CPU until the next switch.           *)
Exit(t) ==
  /\ status[t] = "running"
  /\ status' = [status EXCEPT ![t] = "exiting"]

(* The CPU passes from t to u.                                             *)
Switch(t, u) ==
  /\ OnCpu(t)
  /\ status[u] = "ready"
  /\ status' = [status EXCEPT ![t] = IF @ = "exiting" THEN "dead" ELSE "ready",
                              ![u] = "running"]

Next == \/ \E c \in Tasks : Fork(c) \/ Exit(c)
        \/ \E t, u \in Tasks : Switch(t, u)

Spec == Init /\ [][Next]_status

=============================================================================
