--------------------------- MODULE AddressSpaces ---------------------------
(***************************************************************************)
(* What virtual memory promises to user code: every process has a private  *)
(* memory; a page it touches for the first time reads as zero; a fork      *)
(* copies the parent's memory as it is at that moment.  Mm implements this *)
(* with page tables as long as pages do not run out.                       *)
(***************************************************************************)
EXTENDS Naturals

CONSTANTS
  Tasks,     (* Processes.                                                 *)
  Addr,      (* Virtual pages.                                             *)
  CodeAddr,  (* The page that holds the program.                           *)
  Program,   (* What it holds.                                             *)
  Value      (* What a page may hold; 0 when it is fresh.                  *)

VARIABLE space   (* By process, the contents of the addresses it has.      *)

Nowhere == [a \in {} |-> 0]

Init == space = [t \in Tasks |-> Nowhere]

Load(t) ==
  /\ space[t] = Nowhere
  /\ space' = [space EXCEPT ![t] = [a \in {CodeAddr} |-> Program]]

Grow(t, a) ==
  /\ CodeAddr \in DOMAIN space[t] /\ a \notin DOMAIN space[t]
  /\ space' = [space EXCEPT ![t] = [b \in DOMAIN @ \cup {a} |->
                                      IF b = a THEN 0 ELSE @[b]]]

Write(t, a) ==
  /\ a \in DOMAIN space[t]
  /\ \E v \in Value : space' = [space EXCEPT ![t][a] = v]

Fork(t, c) ==
  /\ space[t] # Nowhere /\ space[c] = Nowhere
  /\ space' = [space EXCEPT ![c] = space[t]]

Next == \E t \in Tasks :
  \/ Load(t)
  \/ \E a \in Addr : Grow(t, a) \/ Write(t, a)
  \/ \E c \in Tasks : Fork(t, c)

Spec == Init /\ [][Next]_space

=============================================================================
