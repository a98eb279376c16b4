---------------------------- MODULE EntryProofs ----------------------------
(***************************************************************************)
(* For any number of tasks, any user code and any depth of nesting: every  *)
(* return restores the context that its exception interrupted.             *)
(*                                                                         *)
(* What each task's stack of frames must satisfy is one operator, Sound,   *)
(* of the task's own state and the registers.  Lemmas about Sound say what *)
(* entering, leaving and moving within the kernel do to it; the steps of   *)
(* Next are instances of these.                                            *)
(***************************************************************************)
EXTENDS Entry, SequenceTheorems, TLAPS

(* Kernel code an exception from user level runs in a process: it has one  *)
(* frame below it.  The other labels nest.                                 *)
Handler == (Label \ {"idle", "handle_irq", "irq_exit", "tick"})
Nesting == {"handle_irq", "irq_exit", "tick"}
HoldsResult == {"ret_from_syscall", "store_x0"}
HoldsNumber == {"el0_sync", "svc"}

(* What task t can be at with n frames on its stack.                       *)
Place(t, n, l) ==
  \/ l \in UserPc \cup {"none"} /\ t # 0 /\ n = 0
  \/ l = "idle" /\ t = 0 /\ n = 0
  \/ l \in Nesting /\ n > 0
  \/ l \in Handler /\ t # 0 /\ n = 1

Context ==
  [x0 : Int, rest : Int, pc : UserPc \cup Unmasked, far : Addr \cup {Junk}]

(* Where the handler above the first frame stands and what its registers   *)
(* hold: the next frame has them when an IRQ interrupted it.               *)
HandlerPc(p, fs) == IF Len(fs) > 1 THEN fs[2].pc ELSE p
HandlerX0(fs, r) == IF Len(fs) > 1 THEN fs[2].x0 ELSE r.x0
HandlerRest(fs, r) == IF Len(fs) > 1 THEN fs[2].rest ELSE r.rest

(* Frame i is the i-th context that was taken.                             *)
SameFrame(t, fs, ts, i) ==
  /\ Place(t, i - 1, fs[i].pc)
  /\ fs[i].pstate = "EL0" <=> t # 0 /\ i = 1
  /\ fs[i].pc = ts[i].pc
  /\ fs[i].rest = ts[i].rest
  /\ i > 1 => fs[i].x0 = ts[i].x0

(* The x0 of the first frame: from the return of a system call until the   *)
(* result is stored, the handler holds it.                                 *)
FirstFrame(p, fs, ts, r) ==
  /\ IF HandlerPc(p, fs) \in HoldsResult
       THEN HandlerX0(fs, r) = ts[1].x0
       ELSE fs[1].x0 = ts[1].x0
  /\ HandlerPc(p, fs) \in HoldsNumber => HandlerRest(fs, r) = ts[1].rest

(* A task at p with frames fs, taken contexts ts and registers r.          *)
Sound(t, p, fs, ts, r) ==
  /\ fs \in Seq(PtRegs) /\ ts \in Seq(Context) /\ Len(ts) = Len(fs)
  /\ Place(t, Len(fs), p)
  /\ \A i \in 1 .. Len(fs) : SameFrame(t, fs, ts, i)
  /\ Len(fs) > 0 => FirstFrame(p, fs, ts, r)

Typed ==
  /\ on \in Tasks
  /\ pc \in [Tasks -> UserPc \cup Label \cup {"none"}]
  /\ regs \in [x0 : Int, rest : Int]
  /\ elr \in UserPc \cup Unmasked \cup {"none"}
  /\ esr \in {ESR_ELx_EC_SVC64, ESR_ELx_EC_DABT_LOW, Other}
  /\ far \in Addr \cup {Junk}
  /\ irqs \in BOOLEAN
  /\ DOMAIN frames = Tasks /\ DOMAIN taken = Tasks
  /\ report \in [Tasks -> {Junk} \cup 0 .. NR_MESSAGES - 1]

(* IRQs are unmasked exactly in the code that runs so, and a task off the  *)
(* CPU is where it can be resumed, dead or not there.                      *)
Running ==
  /\ irqs <=> pc[on] \in UserPc \cup Unmasked
  /\ pc[on] # "none"
  /\ \A t \in Tasks \ {on} : pc[t] \in Resumable \cup {"zombie", "none"}

Stacks == \A t \in Tasks : Sound(t, pc[t], frames[t], taken[t], regs)

IInv == Typed /\ Running /\ Stacks

-----------------------------------------------------------------------------
(* Sequences.                                                              *)

LEMMA FrontLast ==
  ASSUME NEW S, NEW s \in Seq(S), Len(s) > 0
  PROVE  /\ Front(s) \in Seq(S) /\ Len(Front(s)) = Len(s) - 1
         /\ \A i \in 1 .. Len(s) - 1 : Front(s)[i] = s[i]
         /\ Last(s) = s[Len(s)] /\ Last(s) \in S
<1>. DEFINE n == Len(s)
<1>1. n \in Nat /\ n > 0 /\ n \in 1 .. n
  OBVIOUS
<1>2. /\ SubSeq(s, 1, n - 1) \in Seq(S) /\ Len(SubSeq(s, 1, n - 1)) = n - 1
      /\ \A i \in 1 .. n - 1 : SubSeq(s, 1, n - 1)[i] = s[i]
  <2>1. 1 \in Int /\ n - 1 \in Int /\ \A i \in 1 .. n - 1 : s[i] \in S
    BY <1>1
  <2>. HIDE DEF n
  <2>2. /\ SubSeq(s, 1, n - 1) \in Seq(S)
        /\ Len(SubSeq(s, 1, n - 1))
             = IF 1 <= n - 1 THEN (n - 1) - 1 + 1 ELSE 0
        /\ \A i \in 1 .. (n - 1) - 1 + 1 :
             SubSeq(s, 1, n - 1)[i] = s[1 + i - 1]
    BY <2>1, SubSeqProperties
  <2>3. \A i \in Int : 1 + i - 1 = i
    OBVIOUS
  <2>. QED
    BY <1>1, <2>2, <2>3
<1>3. s[n] \in S
  BY <1>1
<1>. QED
  BY <1>2, <1>3 DEF Front, Last

LEMMA Appended ==
  ASSUME NEW S, NEW s \in Seq(S), NEW e \in S
  PROVE  /\ Append(s, e) \in Seq(S) /\ Len(Append(s, e)) = Len(s) + 1
         /\ \A i \in 1 .. Len(s) : Append(s, e)[i] = s[i]
         /\ Append(s, e)[Len(s) + 1] = e
OBVIOUS

-----------------------------------------------------------------------------
(* What a step of the kernel does to one stack.                            *)

(* No place of the kernel's is a user program counter.                     *)
LEMMA Places == \A l \in Label \cup {"none"} : l \notin UserPc
BY EntryAssumption

(* The code stays above the same frames.                                   *)
LEMMA GoOn ==
  ASSUME NEW t, NEW p, NEW q, NEW fs, NEW ts, NEW r, NEW r2,
         Sound(t, p, fs, ts, r), Place(t, Len(fs), q),
         Len(fs) = 1 => FirstFrame(q, fs, ts, r2)
  PROVE  Sound(t, q, fs, ts, r2)
<1>1. Len(fs) \in Nat
  BY DEF Sound
<1>2. Len(fs) > 1 => FirstFrame(q, fs, ts, r2)
  BY <1>1 DEF Sound, FirstFrame, HandlerPc, HandlerX0, HandlerRest
<1>. QED
  BY <1>1, <1>2 DEF Sound

(* Handlers that hold neither the number nor the result: their registers   *)
(* do not matter, so a task may wait there while others run.               *)
LEMMA Elsewhere ==
  ASSUME NEW t, NEW p, NEW q, NEW fs, NEW ts, NEW r, NEW r2,
         Sound(t, p, fs, ts, r), Place(t, Len(fs), q),
         p \notin HoldsResult, q \notin HoldsResult \cup HoldsNumber
  PROVE  Sound(t, q, fs, ts, r2)
<1>1. Len(fs) = 1 => FirstFrame(q, fs, ts, r2)
  BY DEF Sound, FirstFrame, HandlerPc
<1>. QED
  BY <1>1, GoOn

(* kernel_entry pushes a frame.                                            *)
LEMMA Push ==
  ASSUME NEW t, NEW p, NEW l, NEW fs, NEW ts, NEW level, NEW addr,
         NEW r \in [x0 : Int, rest : Int], NEW r2,
         Sound(t, p, fs, ts, r),
         p \in UserPc \cup Unmasked, addr \in Addr \cup {Junk},
         level = IF p \in UserPc THEN "EL0" ELSE "EL1",
         Place(t, Len(fs) + 1, l), l \notin HoldsResult,
         l \in HoldsNumber => r2.rest = r.rest
  PROVE  Sound(t, l,
           Append(fs, [x0 |-> r.x0, rest |-> r.rest, pc |-> p,
                       pstate |-> level]),
           Append(ts, [x0 |-> r.x0, rest |-> r.rest, pc |-> p,
                       far |-> addr]), r2)
<1>. DEFINE f == [x0 |-> r.x0, rest |-> r.rest, pc |-> p, pstate |-> level]
            c == [x0 |-> r.x0, rest |-> r.rest, pc |-> p, far |-> addr]
            n == Len(fs)
            gs == Append(fs, f)
            us == Append(ts, c)
<1>1. f \in PtRegs /\ c \in Context
  BY DEF PtRegs, Context
<1>2. /\ n \in Nat /\ fs \in Seq(PtRegs) /\ ts \in Seq(Context) /\ Len(ts) = n
      /\ Place(t, n, p)
      /\ \A i \in 1 .. n : SameFrame(t, fs, ts, i)
      /\ n > 0 => FirstFrame(p, fs, ts, r)
  BY DEF Sound
<1>3. /\ gs \in Seq(PtRegs) /\ Len(gs) = n + 1
      /\ \A i \in 1 .. n : gs[i] = fs[i]
      /\ gs[n + 1] = f
  BY <1>1, <1>2, Appended
<1>4. /\ us \in Seq(Context) /\ Len(us) = n + 1
      /\ \A i \in 1 .. n : us[i] = ts[i]
      /\ us[n + 1] = c
  BY <1>1, <1>2, Appended
<1>5. f.pstate = "EL0" <=> t # 0 /\ n + 1 = 1
  <2>1. CASE p \in UserPc
    <3>1. t # 0 /\ n = 0
      BY <2>1, <1>2, Places
         DEF Place, Label, Unmasked, Masked, Handler, Nesting
    <3>. QED
      BY <2>1, <3>1
  <2>2. CASE p \notin UserPc
    <3>1. p # "none" /\ level = "EL1"
      BY <2>2 DEF Unmasked
    <3>2. t = 0 \/ n > 0
      BY <2>2, <3>1, <1>2 DEF Place
    <3>. QED
      BY <1>2, <3>1, <3>2
  <2>. QED
    BY <2>1, <2>2
<1>. HIDE DEF gs, us, n
<1>6. ASSUME NEW i \in 1 .. n + 1 PROVE SameFrame(t, gs, us, i)
  <2>1. CASE i = n + 1
    BY <1>2, <1>3, <1>4, <1>5, <2>1 DEF SameFrame
  <2>2. CASE i \in 1 .. n
    <3>1. gs[i] = fs[i] /\ us[i] = ts[i] /\ SameFrame(t, fs, ts, i)
      BY <1>2, <1>3, <1>4, <2>2
    <3>. QED
      BY <3>1 DEF SameFrame
  <2>. QED
    BY <1>2, <2>1, <2>2
<1>7. FirstFrame(l, gs, us, r2)
  <2>1. CASE n = 0
    BY <1>3, <1>4, <2>1 DEF FirstFrame, HandlerPc, HandlerRest
  <2>2. CASE n = 1
    BY <1>2, <1>3, <1>4, <2>2
       DEF FirstFrame, HandlerPc, HandlerX0, HandlerRest, n
  <2>3. CASE n > 1
    BY <1>2, <1>3, <1>4, <2>3
       DEF FirstFrame, HandlerPc, HandlerX0, HandlerRest, n
  <2>. QED
    BY <1>2, <2>1, <2>2, <2>3
<1>. QED
  BY <1>2, <1>3, <1>4, <1>6, <1>7 DEF Sound, gs, us, n

(* kernel_exit pops the last frame, whose x0 the return of a system call   *)
(* may have stored last.                                                   *)
LEMMA Pop ==
  ASSUME NEW t, NEW p, NEW fs, NEW ts, NEW r, NEW x,
         Sound(t, p, fs, ts, r), Len(fs) > 0, x = Last(ts).x0
  PROVE  /\ Sound(t, Last(fs).pc, Front(fs), Front(ts),
                  [x0 |-> x, rest |-> Last(fs).rest])
         /\ Last(fs).pc = Last(ts).pc /\ Last(fs).rest = Last(ts).rest
         /\ Last(fs) \in PtRegs /\ Last(ts) \in Context
         /\ Len(Front(ts)) = Len(ts) - 1
         /\ Place(t, Len(fs) - 1, Last(fs).pc)
<1>. DEFINE n == Len(fs)
            gs == Front(fs)
            us == Front(ts)
            r2 == [x0 |-> x, rest |-> Last(fs).rest]
<1>1. /\ n \in Nat /\ n > 0
      /\ fs \in Seq(PtRegs) /\ ts \in Seq(Context) /\ Len(ts) = n
      /\ \A i \in 1 .. n : SameFrame(t, fs, ts, i)
      /\ FirstFrame(p, fs, ts, r)
  BY DEF Sound
<1>2. /\ gs \in Seq(PtRegs) /\ Len(gs) = n - 1
      /\ \A i \in 1 .. n - 1 : gs[i] = fs[i]
      /\ Last(fs) = fs[n] /\ Last(fs) \in PtRegs
  BY <1>1, FrontLast
<1>3. /\ us \in Seq(Context) /\ Len(us) = n - 1
      /\ \A i \in 1 .. n - 1 : us[i] = ts[i]
      /\ Last(ts) = ts[n] /\ Last(ts) \in Context
  BY <1>1, FrontLast
<1>. HIDE DEF gs, us, n
<1>4. /\ Place(t, n - 1, fs[n].pc)
      /\ fs[n].pc = ts[n].pc /\ fs[n].rest = ts[n].rest
      /\ n > 1 => fs[n].x0 = ts[n].x0
  BY <1>1 DEF SameFrame
<1>5. ASSUME NEW i \in 1 .. n - 1 PROVE SameFrame(t, gs, us, i)
  <2>1. gs[i] = fs[i] /\ us[i] = ts[i] /\ SameFrame(t, fs, ts, i)
    BY <1>1, <1>2, <1>3
  <2>. QED
    BY <2>1 DEF SameFrame
<1>6. n > 1 => FirstFrame(fs[n].pc, gs, us, r2)
  <2>1. CASE n = 2
    BY <1>1, <1>2, <1>3, <1>4, <2>1
       DEF FirstFrame, HandlerPc, HandlerX0, HandlerRest, n
  <2>2. CASE n > 2
    BY <1>1, <1>2, <1>3, <2>2
       DEF FirstFrame, HandlerPc, HandlerX0, HandlerRest, n
  <2>. QED
    BY <1>1, <2>1, <2>2
<1>7. Sound(t, Last(fs).pc, gs, us, r2)
  BY <1>1, <1>2, <1>3, <1>4, <1>5, <1>6 DEF Sound
<1>. QED
  BY <1>1, <1>2, <1>3, <1>4, <1>7 DEF n, gs, us

(* A system call leaves its result in x0; ret_from_syscall stores it.      *)
LEMMA SetResult ==
  ASSUME NEW t, NEW fs, NEW ts, NEW r \in [x0 : Int, rest : Int],
         NEW v \in Int, Sound(t, "svc", fs, ts, r)
  PROVE  Sound(t, "ret_from_syscall", fs, [ts EXCEPT ![1].x0 = v],
               [r EXCEPT !.x0 = v])
<1>. DEFINE us == [ts EXCEPT ![1].x0 = v]
            r2 == [r EXCEPT !.x0 = v]
<1>1. /\ t # 0 /\ Len(fs) = 1 /\ Len(ts) = 1
      /\ fs \in Seq(PtRegs) /\ ts \in Seq(Context) /\ SameFrame(t, fs, ts, 1)
      /\ FirstFrame("svc", fs, ts, r)
  BY Places DEF Sound, Place, Label, Unmasked, Nesting
<1>2. us = <<[ts[1] EXCEPT !.x0 = v]>>
  BY <1>1
<1>3. [ts[1] EXCEPT !.x0 = v] \in Context
  <2>1. ts[1] \in Context
    BY <1>1
  <2>. QED
    BY <2>1 DEF Context
<1>4. us \in Seq(Context) /\ Len(us) = 1 /\ us[1] = [ts[1] EXCEPT !.x0 = v]
  <2>. DEFINE e == [ts[1] EXCEPT !.x0 = v]
  <2>1. us = <<e>> /\ e \in Context
    BY <1>2, <1>3
  <2>. HIDE DEF e, us
  <2>2. us \in Seq(Context) /\ Len(us) = 1 /\ us[1] = e
    BY <2>1
  <2>. QED
    BY <2>2 DEF e
<1>. HIDE DEF us
<1>5. us[1].pc = ts[1].pc /\ us[1].rest = ts[1].rest /\ us[1].x0 = v
  BY <1>1, <1>4 DEF Context
<1>6. SameFrame(t, fs, us, 1)
  BY <1>1, <1>5 DEF SameFrame
<1>7. FirstFrame("ret_from_syscall", fs, us, r2)
  BY <1>1, <1>5 DEF FirstFrame, HandlerPc, HandlerX0, HoldsResult, HoldsNumber
<1>8. Place(t, Len(fs), "ret_from_syscall")
  BY <1>1 DEF Place, Handler, Label, Unmasked, Masked
<1>. QED
  BY <1>1, <1>4, <1>6, <1>7, <1>8 DEF Sound, us

(* copy_process gives the child the frame of its parent with 0 in x0.      *)
LEMMA ChildStack ==
  ASSUME NEW t, NEW c, NEW fs, NEW ts, NEW r, NEW r2, c # 0,
         Sound(t, "svc", fs, ts, r)
  PROVE  Sound(c, "ret_from_fork", <<ChildRegs(fs[1])>>,
               <<[ts[1] EXCEPT !.x0 = 0]>>, r2)
<1>. DEFINE f == ChildRegs(fs[1])
            e == [ts[1] EXCEPT !.x0 = 0]
<1>1. /\ t # 0 /\ Len(fs) = 1 /\ Len(ts) = 1
      /\ fs \in Seq(PtRegs) /\ ts \in Seq(Context) /\ SameFrame(t, fs, ts, 1)
  BY Places DEF Sound, Place, Label, Unmasked, Nesting
<1>2. fs[1] \in PtRegs /\ ts[1] \in Context
  BY <1>1
<1>3. /\ f \in PtRegs /\ f.x0 = 0 /\ f.rest = fs[1].rest /\ f.pc = fs[1].pc
      /\ f.pstate = fs[1].pstate
  BY <1>2 DEF PtRegs, ChildRegs
<1>4. /\ e \in Context /\ e.x0 = 0 /\ e.rest = ts[1].rest /\ e.pc = ts[1].pc
  BY <1>2 DEF Context
<1>. HIDE DEF f, e
<1>5. /\ <<f>> \in Seq(PtRegs) /\ Len(<<f>>) = 1 /\ <<f>>[1] = f
      /\ <<e>> \in Seq(Context) /\ Len(<<e>>) = 1 /\ <<e>>[1] = e
  BY <1>3, <1>4
<1>6. SameFrame(c, <<f>>, <<e>>, 1)
  <2>1. Place(c, 0, f.pc)
    BY <1>1, <1>3 DEF SameFrame, Place
  <2>. QED
    BY <1>1, <1>3, <1>4, <2>1 DEF SameFrame
<1>7. FirstFrame("ret_from_fork", <<f>>, <<e>>, r2)
  BY <1>3, <1>4, <1>5 DEF FirstFrame, HandlerPc, HoldsResult, HoldsNumber
<1>8. Place(c, 1, "ret_from_fork")
  BY DEF Place, Handler, Label, Unmasked, Masked
<1>. QED
  BY <1>5, <1>6, <1>7, <1>8 DEF Sound, f, e

-----------------------------------------------------------------------------
(* What a step of the CPU does to all stacks.                              *)

USE EntryAssumption DEF Tasks, Junk

LEMMA StackOf ==
  ASSUME IInv PROVE Sound(on, pc[on], frames[on], taken[on], regs)
BY DEF IInv, Stacks, Typed

(* The registers are not those of a task off the CPU.                      *)
LEMMA OthersSound ==
  ASSUME IInv, NEW t \in Tasks \ {on}, NEW r2
  PROVE  Sound(t, pc[t], frames[t], taken[t], r2)
<1>1. Sound(t, pc[t], frames[t], taken[t], regs)
  BY DEF IInv, Stacks
<1>2. Place(t, Len(frames[t]), pc[t])
  BY <1>1 DEF Sound
<1>3. pc[t] \notin HoldsResult \cup HoldsNumber
  BY DEF IInv, Running, Resumable, HoldsResult, HoldsNumber
<1>. QED
  BY <1>1, <1>2, <1>3, Elsewhere

(* A step of the running task that leaves the others' stacks alone.        *)
LEMMA OneStack ==
  ASSUME IInv, on' = on,
         \A t \in Tasks \ {on} : /\ pc'[t] = pc[t]
                                 /\ frames'[t] = frames[t]
                                 /\ taken'[t] = taken[t],
         Sound(on, pc'[on], frames'[on], taken'[on], regs'),
         irqs' <=> pc'[on] \in UserPc \cup Unmasked,
         pc'[on] # "none"
  PROVE  Running' /\ Stacks'
<1>1. Running'
  BY DEF IInv, Running
<1>2. ASSUME NEW t \in Tasks
      PROVE  Sound(t, pc'[t], frames'[t], taken'[t], regs')
  BY <1>2, OthersSound
<1>. QED
  BY <1>1, <1>2 DEF Stacks

(* The stacks stay as they are and the task goes on at q.                  *)
LEMMA Moves ==
  ASSUME IInv, on' = on, NEW q \in UserPc \cup Label, Goto(q),
         UNCHANGED <<frames, taken>>,
         Sound(on, q, frames[on], taken[on], regs'),
         irqs' <=> q \in UserPc \cup Unmasked
  PROVE  /\ Running' /\ Stacks'
         /\ pc' \in [Tasks -> UserPc \cup Label \cup {"none"}]
         /\ DOMAIN frames' = Tasks /\ DOMAIN taken' = Tasks
         /\ taken'[on] = taken[on]
<1>1. on \in Tasks /\ pc \in [Tasks -> UserPc \cup Label \cup {"none"}]
  BY DEF IInv, Typed
<1>2. pc'[on] = q /\ \A t \in Tasks \ {on} : pc'[t] = pc[t]
  BY <1>1 DEF Goto
<1>3. q # "none"
  BY DEF Label, Unmasked, Masked
<1>4. Running' /\ Stacks'
  BY <1>2, <1>3, OneStack
<1>. QED
  BY <1>1, <1>4 DEF IInv, Typed, Goto

(* kernel_entry, when the code it interrupts goes on at back with r.       *)
LEMMA Enters ==
  ASSUME IInv, on' = on, NEW l \in Masked, NEW back \in UserPc \cup Unmasked,
         NEW r \in [x0 : Int, rest : Int], NEW addr \in Addr \cup {Junk},
         KernelEntry(l, r, back, addr),
         Level = IF back \in UserPc THEN "EL0" ELSE "EL1",
         Sound(on, back, frames[on], taken[on], r),
         Place(on, Len(frames[on]) + 1, l), l \notin HoldsResult,
         l \in HoldsNumber => regs'.rest = r.rest
  PROVE  /\ Running' /\ Stacks'
         /\ pc' \in [Tasks -> UserPc \cup Label \cup {"none"}]
         /\ elr' \in UserPc \cup Unmasked \cup {"none"}
         /\ irqs' = FALSE
         /\ DOMAIN frames' = Tasks /\ DOMAIN taken' = Tasks
         /\ Len(taken'[on]) >= Len(taken[on])
<1>1. on \in Tasks /\ pc \in [Tasks -> UserPc \cup Label \cup {"none"}]
      /\ DOMAIN frames = Tasks /\ DOMAIN taken = Tasks
  BY DEF IInv, Typed
<1>. DEFINE f == [x0 |-> r.x0, rest |-> r.rest, pc |-> back, pstate |-> Level]
            c == [x0 |-> r.x0, rest |-> r.rest, pc |-> back, far |-> addr]
<1>2. /\ pc'[on] = l
      /\ frames'[on] = Append(frames[on], f)
      /\ taken'[on] = Append(taken[on], c)
      /\ \A t \in Tasks \ {on} : /\ pc'[t] = pc[t]
                                 /\ frames'[t] = frames[t]
                                 /\ taken'[t] = taken[t]
      /\ irqs' = FALSE /\ elr' = back
  BY <1>1 DEF KernelEntry, Goto
<1>3. Sound(on, l, Append(frames[on], f), Append(taken[on], c), regs')
  BY Push
<1>4. l \notin UserPc \cup Unmasked /\ l # "none" /\ l \in Label
  BY Places DEF Label, Unmasked, Masked
<1>5. Running' /\ Stacks'
  <2>. HIDE DEF f, c
  <2>. QED
    BY <1>2, <1>3, <1>4, OneStack
<1>6. taken[on] \in Seq(Context)
  BY DEF Sound
<1>7. Len(taken'[on]) >= Len(taken[on])
  BY <1>2, <1>6
<1>. QED
  BY <1>1, <1>2, <1>4, <1>5, <1>7 DEF KernelEntry, Goto

-----------------------------------------------------------------------------
(* The steps.  Kept: the step is no return from an exception.              *)

Kept == Len(taken'[on]) >= Len(taken[on])
(* The interrupted code goes on as it was.                                 *)
Restored ==
  /\ pc'[on] = Last(taken[on]).pc
  /\ regs' = [x0 |-> Last(taken[on]).x0, rest |-> Last(taken[on]).rest]

LEMMA LensNat == ASSUME IInv PROVE Len(taken[on]) \in Nat
BY StackOf DEF Sound

LEMMA InitIInv == Init => IInv
<1>. SUFFICES ASSUME Init PROVE IInv
  OBVIOUS
<1>1. (CHOOSE u \in UserPc : TRUE) \in UserPc
  OBVIOUS
<1>2. (CHOOSE v \in Value : TRUE) \in Int
  <2>. DEFINE w == CHOOSE v \in Value : TRUE
  <2>1. w \in Value
    OBVIOUS
  <2>. HIDE DEF w
  <2>2. w \in Int
    BY <2>1
  <2>. QED
    BY <2>2 DEF w
<1>3. Typed
  BY <1>1, <1>2 DEF Init, Typed, Label, Unmasked, Masked
<1>4. Running
  BY <1>1, Places DEF Init, Running, Resumable
<1>5. ASSUME NEW t \in Tasks
      PROVE  Sound(t, pc[t], frames[t], taken[t], regs)
  <2>1. frames[t] = <<>> /\ taken[t] = <<>>
    BY DEF Init
  <2>2. Place(t, 0, pc[t])
    BY <1>1 DEF Init, Place
  <2>. QED
    BY <2>1, <2>2 DEF Sound
<1>. QED
  BY <1>3, <1>4, <1>5 DEF IInv, Stacks

(* User code: its kernel stack is empty.                                   *)
LEMMA InUserStack ==
  ASSUME IInv, InUser, NEW q \in UserPc, NEW r
  PROVE  /\ on # 0 /\ Len(frames[on]) = 0 /\ Level = "EL0"
         /\ Sound(on, q, frames[on], taken[on], r)
         /\ pc[on] \in UserPc
<1>1. on # 0 /\ Len(frames[on]) = 0
  BY StackOf, Places DEF InUser, Sound, Place, Label, Unmasked, Masked,
                         Handler, Nesting
<1>2. Place(on, Len(frames[on]), q)
  BY <1>1 DEF Place
<1>3. Sound(on, q, frames[on], taken[on], r)
  BY <1>1, <1>2, StackOf, GoOn
<1>. QED
  BY <1>1, <1>3 DEF InUser, Level

LEMMA UserStepKeeps == ASSUME IInv, UserStep PROVE IInv' /\ Kept
<1>1. PICK v \in Value, u \in UserPc : regs' = [regs EXCEPT !.x0 = v] /\ Goto(u)
  BY DEF UserStep
<1>2. regs' \in [x0 : Int, rest : Int]
  BY <1>1 DEF IInv, Typed
<1>3. Sound(on, u, frames[on], taken[on], regs') /\ irqs
  BY InUserStack DEF UserStep, IInv, Running, InUser
<1>4. Running' /\ Stacks' /\ pc' \in [Tasks -> UserPc \cup Label \cup {"none"}]
      /\ DOMAIN frames' = Tasks /\ DOMAIN taken' = Tasks
      /\ taken'[on] = taken[on]
  BY <1>1, <1>3, Moves DEF UserStep
<1>. QED
  BY <1>2, <1>4, LensNat DEF IInv, Typed, UserStep, excRegs, Kept

LEMMA SvcKeeps == ASSUME IInv, Svc PROVE IInv' /\ Kept
<1>1. PICK nr \in 0 .. NR_syscalls, back \in UserPc :
        /\ KernelEntry(Vector("sync"), [regs EXCEPT !.rest = nr], back, Junk)
        /\ regs' = [regs EXCEPT !.rest = nr]
  BY DEF Svc
<1>. DEFINE r == [regs EXCEPT !.rest = nr]
<1>2. r \in [x0 : Int, rest : Int] /\ regs' = r
  BY <1>1 DEF IInv, Typed, NR_syscalls
<1>. HIDE DEF r
<1>3. /\ on # 0 /\ Len(frames[on]) = 0 /\ Level = "EL0"
      /\ Sound(on, back, frames[on], taken[on], r)
  BY InUserStack DEF Svc
<1>4. Vector("sync") = "el0_sync"
  BY <1>3 DEF Vector
<1>5. Place(on, Len(frames[on]) + 1, "el0_sync")
  BY <1>3 DEF Place, Handler, Label, Masked
<1>6. /\ Running' /\ Stacks'
      /\ pc' \in [Tasks -> UserPc \cup Label \cup {"none"}]
      /\ elr' \in UserPc \cup Unmasked \cup {"none"}
      /\ irqs' = FALSE
      /\ DOMAIN frames' = Tasks /\ DOMAIN taken' = Tasks
      /\ Len(taken'[on]) >= Len(taken[on])
  <2>1. KernelEntry("el0_sync", r, back, Junk) /\ on' = on
    BY <1>1, <1>4 DEF r, Svc
  <2>2. "el0_sync" \in Masked /\ "el0_sync" \notin HoldsResult
    BY DEF Masked, HoldsResult
  <2>. QED
    BY <1>2, <1>3, <1>5, <2>1, <2>2, Enters
<1>. QED
  BY <1>2, <1>6 DEF IInv, Typed, Svc, Kept

(* The other exceptions from user level.                                   *)
LEMMA UserEnters ==
  ASSUME IInv, InUser, on' = on, NEW kind \in {"sync", "error"},
         NEW addr \in Addr \cup {Junk},
         KernelEntry(Vector(kind), regs, pc[on], addr), regs' = regs
  PROVE  /\ Running' /\ Stacks'
         /\ pc' \in [Tasks -> UserPc \cup Label \cup {"none"}]
         /\ elr' \in UserPc \cup Unmasked \cup {"none"}
         /\ irqs' = FALSE
         /\ DOMAIN frames' = Tasks /\ DOMAIN taken' = Tasks
         /\ Len(taken'[on]) >= Len(taken[on])
<1>1. /\ on # 0 /\ Len(frames[on]) = 0 /\ Level = "EL0"
      /\ pc[on] \in UserPc
      /\ Sound(on, pc[on], frames[on], taken[on], regs)
  BY InUserStack, StackOf DEF InUser
<1>2. Vector(kind) \in {"el0_sync", "halt"}
  BY <1>1 DEF Vector
<1>3. /\ Place(on, Len(frames[on]) + 1, Vector(kind))
      /\ Vector(kind) \in Masked /\ Vector(kind) \notin HoldsResult
  BY <1>1, <1>2 DEF Place, Handler, Label, Masked, HoldsResult
<1>4. regs \in [x0 : Int, rest : Int]
  BY DEF IInv, Typed
<1>. QED
  BY <1>1, <1>3, <1>4, Enters

LEMMA DataAbortKeeps == ASSUME IInv, DataAbort PROVE IInv' /\ Kept
<1>1. PICK a \in Addr : KernelEntry(Vector("sync"), regs, pc[on], a) /\ far' = a
  BY DEF DataAbort
<1>2. /\ Running' /\ Stacks'
      /\ pc' \in [Tasks -> UserPc \cup Label \cup {"none"}]
      /\ elr' \in UserPc \cup Unmasked \cup {"none"}
      /\ irqs' = FALSE
      /\ DOMAIN frames' = Tasks /\ DOMAIN taken' = Tasks
      /\ Len(taken'[on]) >= Len(taken[on])
  BY <1>1, UserEnters DEF DataAbort
<1>. QED
  BY <1>1, <1>2 DEF IInv, Typed, DataAbort, Kept

LEMMA OtherSyncKeeps == ASSUME IInv, OtherSync PROVE IInv' /\ Kept
<1>1. /\ Running' /\ Stacks'
      /\ pc' \in [Tasks -> UserPc \cup Label \cup {"none"}]
      /\ elr' \in UserPc \cup Unmasked \cup {"none"}
      /\ irqs' = FALSE
      /\ DOMAIN frames' = Tasks /\ DOMAIN taken' = Tasks
      /\ Len(taken'[on]) >= Len(taken[on])
  BY UserEnters DEF OtherSync
<1>. QED
  BY <1>1 DEF IInv, Typed, OtherSync, Kept

LEMMA ErrorInvalidEl0Keeps == ASSUME IInv, ErrorInvalidEl0 PROVE IInv' /\ Kept
<1>1. /\ Running' /\ Stacks'
      /\ pc' \in [Tasks -> UserPc \cup Label \cup {"none"}]
      /\ elr' \in UserPc \cup Unmasked \cup {"none"}
      /\ irqs' = FALSE
      /\ DOMAIN frames' = Tasks /\ DOMAIN taken' = Tasks
      /\ Len(taken'[on]) >= Len(taken[on])
  BY UserEnters DEF ErrorInvalidEl0
<1>2. report' \in [Tasks -> {Junk} \cup 0 .. NR_MESSAGES - 1]
  BY DEF IInv, Typed, ErrorInvalidEl0, ERROR_INVALID_EL0_64, NR_MESSAGES
<1>. QED
  BY <1>1, <1>2 DEF IInv, Typed, ErrorInvalidEl0, Kept

LEMMA IrqKeeps == ASSUME IInv, Irq PROVE IInv' /\ Kept
<1>1. /\ Sound(on, pc[on], frames[on], taken[on], regs)
      /\ pc[on] \in UserPc \cup Unmasked
  BY StackOf DEF IInv, Running, Irq
<1>2. /\ Vector("irq") = "handle_irq" /\ "handle_irq" \in Masked
      /\ "handle_irq" \notin HoldsResult \cup HoldsNumber
  BY DEF Vector, Masked, HoldsResult, HoldsNumber
<1>3. Place(on, Len(frames[on]) + 1, "handle_irq")
  BY <1>1 DEF Sound, Place, Nesting
<1>4. /\ regs \in [x0 : Int, rest : Int] /\ on' = on
      /\ regs' \in [x0 : Int, rest : Int]
      /\ KernelEntry("handle_irq", regs, pc[on], Junk)
  BY <1>2 DEF IInv, Typed, Irq
<1>5. Level = IF pc[on] \in UserPc THEN "EL0" ELSE "EL1"
  BY DEF Level, InUser
<1>6. /\ Running' /\ Stacks'
      /\ pc' \in [Tasks -> UserPc \cup Label \cup {"none"}]
      /\ elr' \in UserPc \cup Unmasked \cup {"none"}
      /\ irqs' = FALSE
      /\ DOMAIN frames' = Tasks /\ DOMAIN taken' = Tasks
      /\ Len(taken'[on]) >= Len(taken[on])
  BY <1>1, <1>2, <1>3, <1>4, <1>5, Enters
<1>. QED
  BY <1>4, <1>6 DEF IInv, Typed, Irq, Kept

(* The code of a handler.                                                  *)
LEMMA HandlerStack ==
  ASSUME IInv, pc[on] \in Handler
  PROVE  /\ on # 0 /\ Len(frames[on]) = 1
         /\ FirstFrame(pc[on], frames[on], taken[on], regs)
BY StackOf, Places DEF Sound, Place, Label, Unmasked, Masked, Handler, Nesting

(* A step within the kernel to where the registers do not matter.          *)
LEMMA KernelMoves ==
  ASSUME IInv, on' = on,
         NEW q \in Label \ (HoldsResult \cup HoldsNumber),
         pc[on] \notin HoldsResult, Goto(q), Place(on, Len(frames[on]), q),
         UNCHANGED <<frames, taken>>, irqs' <=> q \in Unmasked
  PROVE  /\ Running' /\ Stacks'
         /\ pc' \in [Tasks -> UserPc \cup Label \cup {"none"}]
         /\ DOMAIN frames' = Tasks /\ DOMAIN taken' = Tasks
         /\ taken'[on] = taken[on] /\ Kept
<1>1. Sound(on, q, frames[on], taken[on], regs')
  BY StackOf, Elsewhere
<1>2. irqs' <=> q \in UserPc \cup Unmasked
  BY Places
<1>3. /\ Running' /\ Stacks'
      /\ pc' \in [Tasks -> UserPc \cup Label \cup {"none"}]
      /\ DOMAIN frames' = Tasks /\ DOMAIN taken' = Tasks
      /\ taken'[on] = taken[on]
  BY <1>1, <1>2, Moves
<1>. QED
  BY <1>3, LensNat DEF Kept

LEMMA HandlerMoves ==
  ASSUME IInv, on' = on,
         NEW q \in Handler \ (HoldsResult \cup HoldsNumber),
         pc[on] \in Handler \ HoldsResult, Goto(q),
         UNCHANGED <<frames, taken>>, irqs' <=> q \in Unmasked
  PROVE  /\ Running' /\ Stacks'
         /\ pc' \in [Tasks -> UserPc \cup Label \cup {"none"}]
         /\ DOMAIN frames' = Tasks /\ DOMAIN taken' = Tasks
         /\ Kept
<1>1. Place(on, Len(frames[on]), q) /\ q \in Label
  BY HandlerStack DEF Place, Handler
<1>. QED
  BY <1>1, KernelMoves

LEMMA El0SvcKeeps == ASSUME IInv, El0Svc PROVE IInv' /\ Kept
<1>1. /\ pc[on] = "el0_sync" /\ pc[on] \in Handler /\ "svc" \in Handler
      /\ pc[on] \in HoldsNumber /\ pc[on] \notin HoldsResult
      /\ "svc" \notin HoldsResult
  BY DEF El0Svc, At, Handler, Label, Masked, Unmasked, HoldsNumber, HoldsResult
<1>2. Place(on, Len(frames[on]), "svc")
  BY <1>1, HandlerStack DEF Place
<1>3. FirstFrame("svc", frames[on], taken[on], regs)
  BY <1>1, HandlerStack DEF FirstFrame, HandlerPc, HandlerRest
<1>4. Sound(on, "svc", frames[on], taken[on], regs')
  BY <1>2, <1>3, StackOf, GoOn DEF El0Svc
<1>5. /\ Running' /\ Stacks'
      /\ pc' \in [Tasks -> UserPc \cup Label \cup {"none"}]
      /\ DOMAIN frames' = Tasks /\ DOMAIN taken' = Tasks
      /\ taken'[on] = taken[on]
  <2>1. irqs' = TRUE /\ "svc" \in UserPc \cup Unmasked /\ "svc" \in Label
    BY DEF El0Svc, enable_irq, Unmasked, Label
  <2>. QED
    BY <1>4, <2>1, Moves DEF El0Svc
<1>. QED
  BY <1>5, LensNat DEF IInv, Typed, El0Svc, enable_irq, excRegs, Kept

LEMMA El0DaKeeps == ASSUME IInv, El0Da PROVE IInv' /\ Kept
<1>1. /\ pc[on] \in Handler \ HoldsResult
      /\ "da_far" \in Handler \ (HoldsResult \cup HoldsNumber)
      /\ irqs' = TRUE /\ "da_far" \in Unmasked
  BY DEF El0Da, At, enable_irq, Handler, Label, Masked, Unmasked,
         HoldsNumber, HoldsResult
<1>2. /\ Running' /\ Stacks'
      /\ pc' \in [Tasks -> UserPc \cup Label \cup {"none"}]
      /\ DOMAIN frames' = Tasks /\ DOMAIN taken' = Tasks
      /\ Kept
  BY <1>1, HandlerMoves DEF El0Da
<1>. QED
  BY <1>1, <1>2 DEF IInv, Typed, El0Da, excRegs

LEMMA El0SyncErrorKeeps == ASSUME IInv, El0SyncError PROVE IInv' /\ Kept
<1>1. /\ pc[on] = "el0_sync" /\ pc[on] \in Handler \ HoldsResult
      /\ "halt" \in Handler \ (HoldsResult \cup HoldsNumber)
      /\ "halt" \notin Unmasked /\ pc[on] \notin Unmasked
      /\ pc[on] \in Label
  BY DEF El0SyncError, At, Handler, Label, Masked, Unmasked,
         HoldsNumber, HoldsResult
<1>2. irqs' = FALSE
  BY <1>1, Places DEF IInv, Typed, Running, El0SyncError
<1>3. /\ Running' /\ Stacks'
      /\ pc' \in [Tasks -> UserPc \cup Label \cup {"none"}]
      /\ DOMAIN frames' = Tasks /\ DOMAIN taken' = Tasks
      /\ Kept
  BY <1>1, <1>2, HandlerMoves DEF El0SyncError, HandleInvalidEntry
<1>4. report' \in [Tasks -> {Junk} \cup 0 .. NR_MESSAGES - 1]
  BY DEF IInv, Typed, El0SyncError, HandleInvalidEntry, SYNC_ERROR, NR_MESSAGES
<1>. QED
  BY <1>2, <1>3, <1>4 DEF IInv, Typed, El0SyncError, excRegs

(* NiSys and DataAbortError: err_hang with IRQs on.                        *)
LEMMA HangKeeps ==
  ASSUME IInv, pc[on] \in (Handler \cap Unmasked) \ HoldsResult,
         NEW type \in 0 .. NR_MESSAGES - 1, HandleInvalidEntry(type, "hang"),
         UNCHANGED <<on, regs, excRegs, irqs, frames, taken>>
  PROVE  IInv' /\ Kept
<1>1. /\ "hang" \in Handler \ (HoldsResult \cup HoldsNumber)
      /\ "hang" \in Unmasked
  BY DEF Handler, Label, Unmasked, HoldsNumber, HoldsResult
<1>2. irqs' = TRUE
  BY DEF IInv, Typed, Running
<1>3. /\ Running' /\ Stacks'
      /\ pc' \in [Tasks -> UserPc \cup Label \cup {"none"}]
      /\ DOMAIN frames' = Tasks /\ DOMAIN taken' = Tasks
      /\ Kept
  BY <1>1, <1>2, HandlerMoves DEF HandleInvalidEntry
<1>4. report' \in [Tasks -> {Junk} \cup 0 .. NR_MESSAGES - 1]
  BY DEF IInv, Typed, HandleInvalidEntry
<1>. QED
  BY <1>2, <1>3, <1>4 DEF IInv, Typed, excRegs

LEMMA NiSysKeeps == ASSUME IInv, NiSys PROVE IInv' /\ Kept
<1>1. pc[on] \in (Handler \cap Unmasked) \ HoldsResult
  BY DEF NiSys, At, Handler, Label, Unmasked, HoldsResult
<1>2. SYSCALL_ERROR \in 0 .. NR_MESSAGES - 1
  BY DEF SYSCALL_ERROR, NR_MESSAGES
<1>. QED
  BY <1>1, <1>2, HangKeeps DEF NiSys

LEMMA DataAbortErrorKeeps == ASSUME IInv, DataAbortError PROVE IInv' /\ Kept
<1>1. pc[on] \in (Handler \cap Unmasked) \ HoldsResult
  BY DEF DataAbortError, At, Handler, Label, Unmasked, HoldsResult
<1>2. DATA_ABORT_ERROR \in 0 .. NR_MESSAGES - 1
  BY DEF DATA_ABORT_ERROR, NR_MESSAGES
<1>. QED
  BY <1>1, <1>2, HangKeeps DEF DataAbortError

(* The system calls return.                                                *)
LEMMA ResultKeeps ==
  ASSUME IInv, on' = on, At("svc"), NEW v \in Int, Result(v),
         Goto("ret_from_syscall"),
         UNCHANGED <<on, excRegs, irqs, frames, report>>
  PROVE  IInv' /\ Kept
<1>1. /\ pc[on] = "svc" /\ regs \in [x0 : Int, rest : Int]
      /\ Sound(on, "svc", frames[on], taken[on], regs)
      /\ on \in Tasks /\ DOMAIN taken = Tasks
      /\ pc \in [Tasks -> UserPc \cup Label \cup {"none"}]
  BY StackOf DEF At, IInv, Typed
<1>. DEFINE us == [taken[on] EXCEPT ![1].x0 = v]
            r2 == [regs EXCEPT !.x0 = v]
<1>2. Sound(on, "ret_from_syscall", frames[on], us, r2)
  BY <1>1, SetResult
<1>3. r2 \in [x0 : Int, rest : Int]
  BY <1>1
<1>4. /\ pc'[on] = "ret_from_syscall" /\ taken'[on] = us
      /\ frames' = frames /\ regs' = r2
      /\ \A t \in Tasks \ {on} : pc'[t] = pc[t] /\ taken'[t] = taken[t]
      /\ DOMAIN taken' = Tasks
      /\ pc' \in [Tasks -> UserPc \cup Label \cup {"none"}]
  BY <1>1 DEF Goto, Result, Label, Unmasked
<1>5. irqs' = TRUE
  BY <1>1 DEF IInv, Typed, Running, Unmasked
<1>. HIDE DEF us, r2
<1>6. Running' /\ Stacks'
  BY <1>2, <1>4, <1>5, OneStack DEF Unmasked
<1>7. Len(us) = Len(taken[on])
  BY <1>1, <1>2 DEF Sound
<1>8. Kept
  BY <1>4, <1>7, LensNat DEF Kept
<1>. QED
  BY <1>3, <1>4, <1>5, <1>6, <1>8 DEF IInv, Typed, excRegs

LEMMA SysWriteKeeps == ASSUME IInv, SysWrite PROVE IInv' /\ Kept
<1>1. PICK v \in Value : Result(v)
  BY DEF SysWrite
<1>2. v \in Int
  OBVIOUS
<1>. QED
  BY <1>1, <1>2, ResultKeeps DEF SysWrite

LEMMA SysForkFailKeeps == ASSUME IInv, SysForkFail PROVE IInv' /\ Kept
BY ResultKeeps DEF SysForkFail

LEMMA SysForkKeeps == ASSUME IInv, SysFork PROVE IInv' /\ Kept
<1>1. PICK c \in Tasks :
        /\ pc[c] = "none"
        /\ regs' = [regs EXCEPT !.x0 = c]
        /\ frames' = [frames EXCEPT ![c] = <<ChildRegs(frames[on][1])>>]
        /\ taken' = [taken EXCEPT ![c] = <<[taken[on][1] EXCEPT !.x0 = 0]>>,
                                  ![on][1].x0 = c]
        /\ pc' = [pc EXCEPT ![on] = "ret_from_syscall", ![c] = "ret_from_fork"]
  BY DEF SysFork
<1>2. /\ pc[on] = "svc" /\ regs \in [x0 : Int, rest : Int]
      /\ Sound(on, "svc", frames[on], taken[on], regs)
      /\ on \in Tasks /\ DOMAIN taken = Tasks /\ DOMAIN frames = Tasks
      /\ pc \in [Tasks -> UserPc \cup Label \cup {"none"}]
  BY StackOf DEF SysFork, At, IInv, Typed
<1>3. c # on /\ c # 0 /\ c \in Int
  <2>1. Sound(c, "none", frames[c], taken[c], regs)
    BY <1>1 DEF IInv, Stacks
  <2>. QED
    BY <1>1, <1>2, <2>1
       DEF Sound, Place, Nesting, Handler, Label, Unmasked, Masked
<1>. DEFINE e == [taken[on][1] EXCEPT !.x0 = 0]
            f == ChildRegs(frames[on][1])
            us == [taken[on] EXCEPT ![1].x0 = c]
            r2 == [regs EXCEPT !.x0 = c]
<1>4. Sound(on, "ret_from_syscall", frames[on], us, r2)
  BY <1>2, <1>3, SetResult
<1>5. Sound(c, "ret_from_fork", <<f>>, <<e>>, r2)
  BY <1>2, <1>3, ChildStack
<1>6. /\ pc'[on] = "ret_from_syscall" /\ pc'[c] = "ret_from_fork"
      /\ pc' \in [Tasks -> UserPc \cup Label \cup {"none"}]
      /\ frames'[on] = frames[on] /\ frames'[c] = <<f>>
      /\ taken'[on] = us /\ taken'[c] = <<e>>
      /\ DOMAIN taken' = Tasks /\ DOMAIN frames' = Tasks
      /\ \A t \in Tasks \ {on, c} : /\ pc'[t] = pc[t]
                                    /\ frames'[t] = frames[t]
                                    /\ taken'[t] = taken[t]
  <2>1. /\ frames'[on] = frames[on] /\ frames'[c] = <<f>>
        /\ DOMAIN frames' = Tasks
        /\ \A t \in Tasks \ {on, c} : frames'[t] = frames[t]
    BY <1>1, <1>2, <1>3
  <2>2. /\ taken'[on] = us /\ taken'[c] = <<e>>
        /\ DOMAIN taken' = Tasks
        /\ \A t \in Tasks \ {on, c} : taken'[t] = taken[t]
    BY <1>1, <1>2, <1>3
  <2>3. /\ pc'[on] = "ret_from_syscall" /\ pc'[c] = "ret_from_fork"
        /\ pc' \in [Tasks -> UserPc \cup Label \cup {"none"}]
        /\ \A t \in Tasks \ {on, c} : pc'[t] = pc[t]
    BY <1>1, <1>2, <1>3 DEF Label, Unmasked
  <2>. QED
    BY <2>1, <2>2, <2>3
<1>7. regs' = r2 /\ r2 \in [x0 : Int, rest : Int]
  BY <1>1, <1>2, <1>3
<1>8. irqs' = TRUE
  BY <1>2 DEF IInv, Typed, Running, Unmasked, SysFork
<1>. HIDE DEF e, f, us, r2
<1>9. Stacks'
  <2>1. ASSUME NEW t \in Tasks
        PROVE  Sound(t, pc'[t], frames'[t], taken'[t], regs')
    <3>1. CASE t = on
      BY <1>4, <1>6, <1>7, <3>1
    <3>2. CASE t = c
      BY <1>5, <1>6, <1>7, <3>2
    <3>3. CASE t \notin {on, c}
      BY <1>6, <3>3, OthersSound
    <3>. QED
      BY <3>1, <3>2, <3>3
  <2>. QED
    BY <2>1 DEF Stacks
<1>10. Running'
  BY <1>6, <1>8 DEF IInv, Running, SysFork, Resumable, Unmasked
<1>11. Kept
  <2>1. Len(us) = Len(taken[on])
    BY <1>2, <1>4 DEF Sound
  <2>. QED
    BY <1>6, <2>1, LensNat DEF Kept
<1>. QED
  BY <1>6, <1>7, <1>8, <1>9, <1>10, <1>11 DEF IInv, Typed, SysFork, excRegs

LEMMA RetFromSyscallKeeps == ASSUME IInv, RetFromSyscall PROVE IInv' /\ Kept
<1>1. /\ pc[on] = "ret_from_syscall" /\ pc[on] \in Handler
      /\ "store_x0" \in Handler /\ irqs' = FALSE /\ Goto("store_x0")
  BY DEF RetFromSyscall, Step, At, disable_irq, Handler, Label, Unmasked, Masked
<1>2. Place(on, Len(frames[on]), "store_x0")
  BY <1>1, HandlerStack DEF Place
<1>3. FirstFrame("store_x0", frames[on], taken[on], regs)
  BY <1>1, HandlerStack DEF FirstFrame, HandlerPc, HandlerX0, HoldsResult,
                            HoldsNumber
<1>4. Sound(on, "store_x0", frames[on], taken[on], regs')
  BY <1>2, <1>3, StackOf, GoOn DEF RetFromSyscall
<1>5. "store_x0" \in Label /\ "store_x0" \notin UserPc \cup Unmasked
  BY Places DEF Label, Masked, Unmasked
<1>6. /\ Running' /\ Stacks'
      /\ pc' \in [Tasks -> UserPc \cup Label \cup {"none"}]
      /\ DOMAIN frames' = Tasks /\ DOMAIN taken' = Tasks
      /\ taken'[on] = taken[on]
  BY <1>1, <1>4, <1>5, Moves DEF RetFromSyscall
<1>7. Kept
  BY <1>6, LensNat DEF Kept
<1>8. irqs' \in BOOLEAN
  BY <1>1
<1>. QED
  BY <1>6, <1>7, <1>8 DEF IInv, Typed, RetFromSyscall, excRegs

LEMMA RetToUserKeeps == ASSUME IInv, RetToUser PROVE IInv' /\ Kept
<1>1. /\ pc[on] \in Handler \ HoldsResult /\ irqs' = FALSE
      /\ "exit" \in Handler \ (HoldsResult \cup HoldsNumber)
      /\ "exit" \notin Unmasked
  BY DEF RetToUser, At, disable_irq, Handler, Label, Masked, Unmasked,
         HoldsNumber, HoldsResult
<1>2. /\ Running' /\ Stacks'
      /\ pc' \in [Tasks -> UserPc \cup Label \cup {"none"}]
      /\ DOMAIN frames' = Tasks /\ DOMAIN taken' = Tasks
      /\ Kept
  BY <1>1, HandlerMoves DEF RetToUser
<1>. QED
  BY <1>1, <1>2 DEF IInv, Typed, RetToUser, excRegs

(* el0_da.                                                                 *)
LEMMA AbortMoves ==
  ASSUME IInv, on' = on, NEW q \in {"da_esr", "do_mem_abort", "da_ret"},
         pc[on] \in {"da_far", "da_esr", "do_mem_abort"}, Goto(q),
         regs' \in [x0 : Int, rest : Int],
         UNCHANGED <<on, excRegs, irqs, frames, taken, report>>
  PROVE  IInv' /\ Kept
<1>1. /\ pc[on] \in Handler \ HoldsResult
      /\ q \in Handler \ (HoldsResult \cup HoldsNumber)
      /\ q \in Unmasked /\ pc[on] \in Unmasked
  BY DEF Handler, Label, Unmasked, HoldsNumber, HoldsResult
<1>2. irqs' = TRUE
  BY <1>1 DEF IInv, Typed, Running
<1>3. /\ Running' /\ Stacks'
      /\ pc' \in [Tasks -> UserPc \cup Label \cup {"none"}]
      /\ DOMAIN frames' = Tasks /\ DOMAIN taken' = Tasks
      /\ Kept
  BY <1>1, <1>2, HandlerMoves
<1>. QED
  BY <1>2, <1>3 DEF IInv, Typed, excRegs

LEMMA ReadFarKeeps == ASSUME IInv, ReadFar PROVE IInv' /\ Kept
<1>1. far \in Int
  BY DEF IInv, Typed
<1>2. regs' \in [x0 : Int, rest : Int]
  BY <1>1 DEF IInv, Typed, ReadFar
<1>. QED
  BY <1>2, AbortMoves DEF ReadFar, Step, At

LEMMA ReadEsrKeeps == ASSUME IInv, ReadEsr PROVE IInv' /\ Kept
<1>1. esr \in Int
  BY DEF IInv, Typed, ESR_ELx_EC_SVC64, ESR_ELx_EC_DABT_LOW, Other
<1>2. regs' \in [x0 : Int, rest : Int]
  BY <1>1 DEF IInv, Typed, ReadEsr
<1>. QED
  BY <1>2, AbortMoves DEF ReadEsr, Step, At

LEMMA ServeAbortKeeps == ASSUME IInv, ServeAbort PROVE IInv' /\ Kept
<1>1. regs' \in [x0 : Int, rest : Int]
  BY DEF ServeAbort
<1>. QED
  BY <1>1, AbortMoves DEF ServeAbort, At

(* The end of handle_irq.                                                  *)
LEMMA IrqExitKeeps ==
  ASSUME IInv, pc[on] \in {"handle_irq", "tick"}, Goto("irq_exit"),
         irqs' = FALSE, UNCHANGED <<on, regs, excRegs, frames, taken, report>>
  PROVE  IInv' /\ Kept
<1>1. Place(on, Len(frames[on]), "irq_exit")
  BY StackOf, Places DEF Sound, Place, Nesting, Handler, Label, Masked, Unmasked
<1>2. /\ "irq_exit" \in Label \ (HoldsResult \cup HoldsNumber)
      /\ "irq_exit" \notin Unmasked /\ pc[on] \notin HoldsResult
  BY DEF Label, Masked, Unmasked, HoldsResult, HoldsNumber
<1>3. /\ Running' /\ Stacks'
      /\ pc' \in [Tasks -> UserPc \cup Label \cup {"none"}]
      /\ DOMAIN frames' = Tasks /\ DOMAIN taken' = Tasks
      /\ Kept
  BY <1>1, <1>2, KernelMoves
<1>. QED
  BY <1>3 DEF IInv, Typed, excRegs

LEMMA KeepKeeps == ASSUME IInv, Keep PROVE IInv' /\ Kept
<1>1. "handle_irq" \notin UserPc \cup Unmasked
  BY Places DEF Label, Masked, Unmasked
<1>2. irqs' = FALSE
  BY <1>1 DEF IInv, Typed, Running, Keep, Step, At
<1>. QED
  BY <1>2, IrqExitKeeps DEF Keep, Step, At

LEMMA TickDoneKeeps == ASSUME IInv, TickDone PROVE IInv' /\ Kept
BY IrqExitKeeps DEF TickDone, Step, At, disable_irq

(* A switch leaves one task where it can be resumed or dead, and goes on   *)
(* with another that can be.                                               *)
LEMMA SwitchKeeps ==
  ASSUME IInv, NEW l, NEW to \in Resumable \cup {"zombie"}, SwitchFrom(l, to),
         Place(on, Len(frames[on]), to), l \notin HoldsResult
  PROVE  IInv' /\ Kept
<1>1. PICK t \in Tasks \ {on} : pc[t] \in Resumable /\ on' = t
  BY DEF SwitchFrom
<1>2. /\ pc[on] = l /\ pc' = [pc EXCEPT ![on] = to] /\ irqs' = TRUE
      /\ regs' = [x0 |-> -1, rest |-> -1]
      /\ frames' = frames /\ taken' = taken
  BY DEF SwitchFrom, At, Goto, enable_irq
<1>3. /\ pc'[on] = to /\ \A u \in Tasks \ {on} : pc'[u] = pc[u]
      /\ on \in Tasks
  BY <1>2 DEF IInv, Typed
<1>4. Typed'
  <2>1. to \in Label
    BY DEF Resumable, Label, Unmasked
  <2>2. pc' \in [Tasks -> UserPc \cup Label \cup {"none"}]
    BY <1>2, <2>1 DEF IInv, Typed
  <2>3. regs' \in [x0 : Int, rest : Int] /\ irqs' \in BOOLEAN
    BY <1>2
  <2>. QED
    BY <1>1, <1>2, <2>2, <2>3 DEF IInv, Typed, SwitchFrom, excRegs
<1>5. Running'
  <2>1. pc'[on'] \in Unmasked /\ pc'[on'] # "none"
    BY <1>1, <1>3 DEF Resumable, Unmasked
  <2>2. ASSUME NEW u \in Tasks \ {on'}
        PROVE  pc'[u] \in Resumable \cup {"zombie", "none"}
    BY <1>3 DEF IInv, Running
  <2>. QED
    BY <1>2, <2>1, <2>2 DEF Running
<1>6. ASSUME NEW u \in Tasks
      PROVE  Sound(u, pc'[u], frames'[u], taken'[u], regs')
  <2>1. CASE u = on
    <3>1. to \notin HoldsResult \cup HoldsNumber
      BY DEF Resumable, HoldsResult, HoldsNumber
    <3>2. Sound(on, to, frames[on], taken[on], regs')
      BY <1>2, <3>1, StackOf, Elsewhere
    <3>. QED
      BY <1>2, <1>3, <2>1, <3>2
  <2>2. CASE u # on
    BY <1>2, <1>3, <2>2, OthersSound
  <2>. QED
    BY <2>1, <2>2
<1>. QED
  BY <1>2, <1>4, <1>5, <1>6, LensNat DEF IInv, Stacks, Kept

LEMMA TickKeeps == ASSUME IInv, Tick PROVE IInv' /\ Kept
<1>1. Place(on, Len(frames[on]), "tick")
  BY StackOf, Places DEF Tick, SwitchFrom, At, Sound, Place, Nesting, Handler,
                         Label, Masked, Unmasked
<1>. QED
  BY <1>1, SwitchKeeps DEF Tick, Resumable, HoldsResult

LEMMA KernelMainLoopKeeps == ASSUME IInv, KernelMainLoop PROVE IInv' /\ Kept
<1>1. Place(on, Len(frames[on]), "idle")
  BY StackOf DEF KernelMainLoop, SwitchFrom, At, Sound
<1>. QED
  BY <1>1, SwitchKeeps DEF KernelMainLoop, Resumable, HoldsResult

LEMMA SysExitKeeps == ASSUME IInv, SysExit PROVE IInv' /\ Kept
<1>1. pc[on] = "svc" /\ "svc" \in Handler /\ "zombie" \in Handler
  BY DEF SysExit, SwitchFrom, At, Handler, Label, Unmasked
<1>2. Place(on, Len(frames[on]), "zombie")
  BY <1>1, HandlerStack DEF Place
<1>. QED
  BY <1>2, SwitchKeeps DEF SysExit, Resumable, HoldsResult

(* The returns.                                                            *)
LEMMA KernelExitRestores ==
  ASSUME IInv, Len(frames[on]) > 0, NEW f,
         f = [Last(frames[on]) EXCEPT !.x0 = Last(taken[on]).x0],
         KernelExit(f)
  PROVE  IInv' /\ Restored
<1>. DEFINE fs == frames[on]
            ts == taken[on]
            r2 == [x0 |-> Last(ts).x0, rest |-> Last(fs).rest]
<1>1. /\ Sound(on, Last(fs).pc, Front(fs), Front(ts), r2)
      /\ Last(fs).pc = Last(ts).pc /\ Last(fs).rest = Last(ts).rest
      /\ Last(fs) \in PtRegs /\ Last(ts) \in Context
      /\ Len(Front(ts)) = Len(ts) - 1
      /\ Place(on, Len(fs) - 1, Last(fs).pc)
  BY StackOf, Pop
<1>2. /\ f.x0 = Last(ts).x0 /\ f.rest = Last(fs).rest /\ f.pc = Last(fs).pc
      /\ Last(fs).pc \in UserPc \cup Unmasked
      /\ r2 \in [x0 : Int, rest : Int]
  BY <1>1 DEF PtRegs, Context
<1>3. /\ elr' = Last(fs).pc /\ pc' = [pc EXCEPT ![on] = Last(fs).pc]
      /\ regs' = r2 /\ irqs' = TRUE
      /\ frames' = [frames EXCEPT ![on] = Front(fs)]
      /\ taken' = [taken EXCEPT ![on] = Front(ts)]
      /\ UNCHANGED <<on, esr, far, report>>
  BY <1>2 DEF KernelExit, SavedPc, SavedRest, Popped
<1>4. /\ on \in Tasks /\ pc \in [Tasks -> UserPc \cup Label \cup {"none"}]
      /\ DOMAIN frames = Tasks /\ DOMAIN taken = Tasks
  BY DEF IInv, Typed
<1>. HIDE DEF fs, ts, r2
<1>5. /\ pc'[on] = Last(fs).pc /\ frames'[on] = Front(fs)
      /\ taken'[on] = Front(ts)
      /\ \A t \in Tasks \ {on} : /\ pc'[t] = pc[t]
                                 /\ frames'[t] = frames[t]
                                 /\ taken'[t] = taken[t]
      /\ DOMAIN frames' = Tasks /\ DOMAIN taken' = Tasks
  BY <1>3, <1>4
<1>6. pc' \in [Tasks -> UserPc \cup Label \cup {"none"}]
  BY <1>2, <1>3, <1>4 DEF Label
<1>7. Last(fs).pc # "none"
  BY <1>2, Places DEF Unmasked
<1>8. Running' /\ Stacks'
  BY <1>1, <1>2, <1>3, <1>5, <1>7, OneStack
<1>9. Restored
  BY <1>1, <1>3, <1>5 DEF Restored, r2, ts
<1>. QED
  BY <1>2, <1>3, <1>5, <1>6, <1>8, <1>9 DEF IInv, Typed

LEMMA StoreResultRestores == ASSUME IInv, StoreResult PROVE IInv' /\ Restored
<1>1. /\ pc[on] = "store_x0" /\ pc[on] \in Handler /\ pc[on] \in HoldsResult
  BY DEF StoreResult, At, Handler, Label, Masked, HoldsResult
<1>2. /\ Len(frames[on]) = 1 /\ Len(taken[on]) = 1
      /\ regs.x0 = taken[on][1].x0
  BY <1>1, HandlerStack, StackOf DEF Sound, FirstFrame, HandlerPc, HandlerX0
<1>3. Last(taken[on]) = taken[on][1]
  BY <1>2 DEF Last
<1>. QED
  BY <1>2, <1>3, KernelExitRestores DEF StoreResult, Stored

LEMMA ExitRestores == ASSUME IInv, Exit PROVE IInv' /\ Restored
<1>1. pc[on] \in {"exit", "irq_exit"} /\ KernelExit(Last(frames[on]))
  BY DEF Exit, At
<1>. DEFINE fs == frames[on]
            ts == taken[on]
            n == Len(fs)
<1>2. /\ n \in Nat /\ n > 0 /\ Len(ts) = n
      /\ \A i \in 1 .. n : SameFrame(on, fs, ts, i)
      /\ FirstFrame(pc[on], fs, ts, regs)
      /\ fs \in Seq(PtRegs) /\ ts \in Seq(Context)
  <2>1. n > 0
    BY <1>1, StackOf, Places DEF Sound, Place, Nesting, Handler,
                                 Label, Masked, Unmasked
  <2>. QED
    BY <2>1, StackOf DEF Sound
<1>. HIDE DEF fs, ts, n
<1>3. fs[n].x0 = ts[n].x0
  <2>1. CASE n = 1
    BY <1>1, <1>2, <2>1 DEF FirstFrame, HandlerPc, HoldsResult, n
  <2>2. CASE n > 1
    BY <1>2, <2>2 DEF SameFrame
  <2>. QED
    BY <1>2, <2>1, <2>2
<1>4. fs[n] \in PtRegs
  BY <1>2 DEF n
<1>5. fs[n] = [fs[n] EXCEPT !.x0 = ts[n].x0]
  BY <1>3, <1>4 DEF PtRegs
<1>6. Last(frames[on]) = fs[n] /\ Last(taken[on]) = ts[n]
  BY <1>2 DEF Last, n, fs, ts
<1>. QED
  BY <1>1, <1>2, <1>5, <1>6, KernelExitRestores DEF n, fs

LEMMA StutterKeeps == ASSUME IInv, UNCHANGED vars PROVE IInv' /\ Kept
<1>1. Kept
  BY LensNat DEF Kept, vars
<1>. QED
  BY <1>1 DEF vars, excRegs, IInv, Typed, Running, Stacks

-----------------------------------------------------------------------------
LEMMA NextKeeps == ASSUME IInv, [Next]_vars PROVE IInv' /\ (Kept \/ Restored)
<1>1. CASE UNCHANGED vars
  BY <1>1, StutterKeeps
<1>2. CASE UserStep \/ Svc \/ DataAbort \/ OtherSync \/ ErrorInvalidEl0 \/ Irq
  BY <1>2, UserStepKeeps, SvcKeeps, DataAbortKeeps, OtherSyncKeeps,
     ErrorInvalidEl0Keeps, IrqKeeps
<1>3. CASE El0Svc \/ El0Da \/ El0SyncError
  BY <1>3, El0SvcKeeps, El0DaKeeps, El0SyncErrorKeeps
<1>4. CASE SysWrite \/ SysForkFail \/ SysFork \/ SysExit \/ NiSys
  BY <1>4, SysWriteKeeps, SysForkFailKeeps, SysForkKeeps, SysExitKeeps,
     NiSysKeeps
<1>5. CASE RetFromSyscall \/ StoreResult \/ RetToUser \/ Exit
  BY <1>5, RetFromSyscallKeeps, StoreResultRestores, RetToUserKeeps,
     ExitRestores
<1>6. CASE ReadFar \/ ReadEsr \/ ServeAbort \/ DataAbortError
  BY <1>6, ReadFarKeeps, ReadEsrKeeps, ServeAbortKeeps, DataAbortErrorKeeps
<1>7. CASE Keep \/ Tick \/ TickDone \/ KernelMainLoop
  BY <1>7, KeepKeeps, TickKeeps, TickDoneKeeps, KernelMainLoopKeeps
<1>8. CASE ErrHang \/ Idle
  BY <1>8, StutterKeeps DEF ErrHang, Idle
<1>. QED
  BY <1>1, <1>2, <1>3, <1>4, <1>5, <1>6, <1>7, <1>8 DEF Next

(* The invariant, of every behaviour.                                      *)
THEOREM Inductive == Spec => []IInv
<1>1. IInv /\ [Next]_vars => IInv'
  BY NextKeeps
<1>. QED
  BY InitIInv, <1>1, PTL DEF Spec

(* Whatever runs, the variables have their shapes: an exception register   *)
(* never holds a label that the masked kernel code is at.                  *)
THEOREM EntryTypes == Spec => []TypeOK
<1>1. IInv => TypeOK
  <2>. SUFFICES ASSUME IInv PROVE TypeOK
    OBVIOUS
  <2>1. ASSUME NEW t \in Tasks
        PROVE  /\ \A i \in DOMAIN frames[t] : frames[t][i] \in PtRegs
               /\ Len(taken[t]) = Len(frames[t])
    <3>1. Sound(t, pc[t], frames[t], taken[t], regs)
      BY DEF IInv, Stacks
    <3>. QED
      BY <3>1 DEF Sound
  <2>. QED
    BY <2>1 DEF IInv, Typed, TypeOK
<1>. QED
  BY Inductive, <1>1, PTL

(* kernel_entry and kernel_exit, ret_to_user: user code runs with IRQs on  *)
(* and an empty kernel stack, and only a stack's first frame is EL0's.     *)
THEOREM FramesAreLevelled == Spec => []FrameLevels
<1>1. IInv => FrameLevels
  <2>. SUFFICES ASSUME IInv PROVE FrameLevels
    OBVIOUS
  <2>1. InUser => irqs
    BY DEF IInv, Running, InUser
  <2>2. ASSUME NEW t \in Tasks
        PROVE  /\ pc[t] \in UserPc => frames[t] = <<>>
               /\ \A i \in DOMAIN frames[t] :
                    frames[t][i].pstate = "EL0" <=> t # 0 /\ i = 1
    <3>1. Sound(t, pc[t], frames[t], taken[t], regs)
      BY DEF IInv, Stacks
    <3>2. pc[t] \in UserPc => Len(frames[t]) = 0
      BY <3>1, Places DEF Sound, Place, Nesting, Handler, Label, Masked,
                          Unmasked
    <3>3. frames[t] \in Seq(PtRegs) /\ DOMAIN frames[t] = 1 .. Len(frames[t])
      BY <3>1 DEF Sound
    <3>. QED
      BY <3>1, <3>2, <3>3 DEF Sound, SameFrame
  <2>. QED
    BY <2>1, <2>2 DEF FrameLevels
<1>. QED
  BY Inductive, <1>1, PTL

(* el0_svc: the number in w8 is still the program's when the call is       *)
(* dispatched, whatever interrupts came since IRQs were unmasked.          *)
THEOREM NumberSurvives == Spec => []SyscallNumberKept
<1>1. IInv => SyscallNumberKept
  <2>. SUFFICES ASSUME IInv, pc[on] = "svc"
                PROVE  regs.rest = taken[on][1].rest
    BY DEF SyscallNumberKept, At
  <2>1. "svc" \in Handler /\ "svc" \in HoldsNumber
    BY DEF Handler, Label, Unmasked, HoldsNumber
  <2>. QED
    BY <2>1, HandlerStack DEF FirstFrame, HandlerPc, HandlerRest
<1>. QED
  BY Inductive, <1>1, PTL

(* kernel_exit gives back what kernel_entry saved: every return continues  *)
(* the interrupted code where it was with the registers it had, but for    *)
(* the x0 of a system call, however deep IRQs nest and whoever runs in     *)
(* between.                                                                *)
THEOREM ReturnsRestore == Spec => ContextRestored
<1>1. IInv /\ [Next]_vars =>
        [Len(taken'[on]) < Len(taken[on]) =>
           LET c == Last(taken[on])
           IN /\ pc'[on] = c.pc
              /\ regs' = [x0 |-> c.x0, rest |-> c.rest]]_vars
  <2>. SUFFICES ASSUME IInv, [Next]_vars, Len(taken'[on]) < Len(taken[on])
                PROVE  Restored
    BY DEF Restored
  <2>1. ~Kept
    <3>1. Len(taken[on]) \in Nat
      BY LensNat
    <3>2. Len(taken'[on]) \in Nat
      <4>1. IInv'
        BY NextKeeps
      <4>2. on \in Tasks
        BY DEF IInv, Typed
      <4>3. Sound(on, pc'[on], frames'[on], taken'[on], regs')
        BY <4>1, <4>2 DEF IInv, Stacks
      <4>. QED
        BY <4>3 DEF Sound
    <3>. QED
      BY <3>1, <3>2 DEF Kept
  <2>. QED
    BY <2>1, NextKeeps
<1>. QED
  BY Inductive, <1>1, PTL DEF Spec, ContextRestored

=============================================================================
