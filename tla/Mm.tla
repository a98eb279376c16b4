--------------------------------- MODULE Mm ---------------------------------
(***************************************************************************)
(* Virtual memory of lesson 6: the page allocator, the page tables that    *)
(* map_page builds, the first user process, fork's copy of the address     *)
(* space and the data abort that adds a page on demand (mm.c, fork.c).     *)
(*                                                                         *)
(* copy_process runs with preemption disabled, so a fork is one step.  The *)
(* fault handler and move_to_user_mode do not, so a task may be preempted  *)
(* between the test of a mem_map entry and its update, and before the page *)
(* it took is mapped.                                                      *)
(***************************************************************************)
EXTENDS Integers, Sequences, FiniteSetsExt

CONSTANTS
  NR_TASKS,          (* Slots of the task table.                           *)
  MAX_PROCESS_PAGES, (* Length of user_pages and of kernel_pages.          *)
  PAGING_PAGES,      (* Pages the allocator owns.                          *)
  Addr,              (* Virtual pages that user code touches.              *)
  CodeAddr,          (* The one that move_to_user_mode maps.               *)
  Path,              (* Table indices of an address: PGD, PUD, PMD, PTE.   *)
  Value,             (* What a user page may hold; 0 is what memzero wrote.*)
  Program,           (* The page that holds the user program.              *)
  TickInAllocator    (* Whether a tick may land inside get_free_page.      *)

ASSUME MmAssumption ==
  /\ NR_TASKS \in Nat /\ NR_TASKS > 1
  /\ MAX_PROCESS_PAGES \in Nat \ {0}
  /\ PAGING_PAGES \in Nat \ {0}
  /\ CodeAddr \in Addr
  /\ \A a \in Addr : Path[a] \in Seq(Nat) /\ Len(Path[a]) = 4
  /\ \A a, b \in Addr : Path[a] = Path[b] => a = b
  /\ 0 \in Value /\ Program \in Value
  /\ TickInAllocator \in BOOLEAN

Tasks == 0 .. NR_TASKS - 1
(* Physical pages by their place in mem_map.  Page 0 stands for what a     *)
(* failed get_free_page returns: physical address 0, in the kernel image.  *)
Page == 1 .. PAGING_PAGES
KernelImage == 0
Index == UNION {{Path[a][k] : k \in 1 .. 4} : a \in Addr}
Absent == -1

VARIABLES
  mem,        (* mem_map, what the pages hold, and each task's mm_struct.  *)
  nr_tasks,   (* Tasks created: 0 is init, 1 the kernel process.           *)
  pc,         (* Where each task is: user code, or a step of a handler.    *)
  va,         (* The address that task is mapping a page at.               *)
  page,       (* The local page of its get_free_page call.                 *)
  ind,        (* The static ind of do_mem_abort.                           *)
  ret         (* What each task's last fork returned.                      *)

vars == <<mem, nr_tasks, pc, va, page, ind, ret>>

Created == {t \in Tasks : t < nr_tasks}

-----------------------------------------------------------------------------
(* The allocator and the page tables, as functions of mem.                 *)

FirstFree(m) == IF m.used = Page THEN KernelImage ELSE Min(Page \ m.used)

Zeroed(m, p) ==
  [m EXCEPT !.table[p] = [i \in Index |-> Absent], !.data[p] = 0]

(* Mutant: the page is not marked.                                         *)
TakenUnmarked(m, p) == IF p = KernelImage THEN m ELSE Zeroed(m, p)
Taken(m, p) ==
  IF p = KernelImage THEN m ELSE [Zeroed(m, p) EXCEPT !.used = @ \cup {p}]

(* map_table: w holds mem and the table to look in.  A table at physical   *)
(* address 0 is the kernel image: what the walk reads there and writes is  *)
(* only recorded as a wild access.                                         *)
MapTable(w, t, i) ==
  LET p == FirstFree(w.m)
  IN IF w.table = KernelImage THEN [w EXCEPT !.m.wild = TRUE]
     ELSE IF w.m.table[w.table][i] # Absent
     THEN [w EXCEPT !.table = w.m.table[w.table][i]]
     ELSE [m |-> [Taken(w.m, p) EXCEPT
                    !.table[w.table][i] = p,
                    !.kernel_pages[t] = Append(@, p)],
           table |-> p]

(* map_table_entry.                                                        *)
MapTableEntry(w, a, p) ==
  IF w.table = KernelImage THEN [w.m EXCEPT !.wild = TRUE]
  ELSE [w.m EXCEPT !.table[w.table][Path[a][4]] = p]

WithPgd(m, t) ==
  LET p == FirstFree(m)
  IN IF m.pgd[t] # KernelImage THEN m
     ELSE [Taken(m, p) EXCEPT !.pgd[t] = p,
                              !.kernel_pages[t] = Append(@, p)]

(* Mutant: the page is not recorded.                                       *)
RecordedNowhere(m, t, a, p) == m
Recorded(m, t, a, p) ==
  [m EXCEPT !.user_pages[t] = Append(@, [pa |-> p, va |-> a])]

MapPage(m, t, a, p) ==
  LET root == WithPgd(m, t)
      pud == MapTable([m |-> root, table |-> root.pgd[t]], t, Path[a][1])
      pmd == MapTable(pud, t, Path[a][2])
      pte == MapTable(pmd, t, Path[a][3])
  IN Recorded(MapTableEntry(pte, a, p), t, a, p)

(* What the MMU makes of address a under the tables of task t; what it     *)
(* would find in the kernel image, were a table there, is not modelled.    *)
Step(m, p, i) == IF p \in Page THEN m.table[p][i] ELSE Absent
Walk(m, t, a) ==
  LET pud == Step(m, m.pgd[t], Path[a][1])
      pmd == Step(m, pud, Path[a][2])
      pte == Step(m, pmd, Path[a][3])
  IN <<m.pgd[t], pud, pmd, pte, Step(m, pte, Path[a][4])>>
Translate(m, t, a) == Walk(m, t, a)[5]

(* allocate_user_page followed by memcpy, for each page of the parent; the *)
(* loop ends at the first page it does not get.  Mutant: nothing is copied.*)
CopyPageZeroed(m, t, c, u) ==
  LET p == FirstFree(m) IN MapPage(Taken(m, p), c, u.va, p)
CopyPage(m, t, c, u) ==
  LET p == FirstFree(m)
      mapped == MapPage(Taken(m, p), c, u.va, p)
  IN [mapped EXCEPT !.data[p] = mapped.data[Translate(mapped, t, u.va)]]

CopyNext(m, t, c, u) ==
  IF FirstFree(m) = KernelImage THEN m ELSE CopyPage(m, t, c, u)
CopyVirtMemory(m, t, c) ==
  LET n == Len(m.user_pages[t])
      copied[k \in 0 .. n] ==
        IF k = 0 THEN m
        ELSE CopyNext(copied[k - 1], t, c, m.user_pages[t][k])
  IN copied[n]

-----------------------------------------------------------------------------
(* kernel_main has created task 1; its task_struct is in page 1.           *)
Init ==
  /\ mem = [used |-> {1},
            table |-> [p \in Page |-> [i \in Index |-> Absent]],
            data |-> [p \in Page |-> 0],
            struct |-> [t \in Tasks |-> IF t = 1 THEN 1 ELSE KernelImage],
            pgd |-> [t \in Tasks |-> KernelImage],
            user_pages |-> [t \in Tasks |-> <<>>],
            kernel_pages |-> [t \in Tasks |-> <<>>],
            wild |-> FALSE]
  /\ nr_tasks = 2
  /\ pc = [t \in Tasks |-> IF t = 1 THEN "kernel_process" ELSE "none"]
  /\ va = [t \in Tasks |-> CodeAddr]
  /\ page = [t \in Tasks |-> KernelImage]
  /\ ind = 1
  /\ ret = [t \in Tasks |-> 0]

Goto(t, l) == pc' = [pc EXCEPT ![t] = l]

(* The first page of the kernel process is still to come.                  *)
Loading(t) == t = 1 /\ mem.user_pages[t] = <<>>
(* User code runs as long as the page it runs from is mapped.              *)
InUser(t) == pc[t] = "user" /\ Translate(mem, t, CodeAddr) \in Page

(* Who may take a step: a tick may be excluded from get_free_page.         *)
MayRun(t) == TickInAllocator \/ \A u \in Tasks \ {t} : pc[u] # "found"

(* get_free_page up to the test of mem_map[i]; without a page the handler  *)
(* returns -1 and the task ends in err_hang or at an unmapped address.     *)
Find(t, a) ==
  /\ MayRun(t)
  /\ va' = [va EXCEPT ![t] = a]
  /\ page' = [page EXCEPT ![t] = FirstFree(mem)]
  /\ Goto(t, IF FirstFree(mem) = KernelImage THEN "hang" ELSE "found")
  /\ UNCHANGED <<mem, nr_tasks, ind, ret>>

MoveToUserMode(t) == pc[t] = "kernel_process" /\ Find(t, CodeAddr)

(* A translation fault: user code touched an address that is not mapped.   *)
DataAbort(t, a) ==
  /\ InUser(t)
  /\ Translate(mem, t, a) = Absent
  /\ Find(t, a)

(* The rest of get_free_page: mem_map[i] = 1 and memzero.                  *)
TakePage(t) ==
  /\ pc[t] = "found"
  /\ mem' = Taken(mem, page[t])
  /\ Goto(t, "taken")
  /\ UNCHANGED <<nr_tasks, va, page, ind, ret>>

(* The first page of a process gets the user program.                      *)
LoadProgram(t) ==
  /\ MayRun(t)
  /\ pc[t] = "taken" /\ Loading(t)
  /\ mem' = [MapPage(mem, t, va[t], page[t]) EXCEPT !.data[page[t]] = Program]
  /\ Goto(t, "user")
  /\ UNCHANGED <<nr_tasks, va, page, ind, ret>>

(* Mutant: do_mem_abort does not count the faults it served.               *)
ServesAlways(n) == TRUE
Serves(n) == n <= 2

(* The end of do_mem_abort: the page is mapped also when it returns -1.    *)
(* Bound: ind stops at 3, where no fault is served any more.               *)
ServeAbort(t) ==
  /\ MayRun(t)
  /\ pc[t] = "taken" /\ ~Loading(t)
  /\ mem' = MapPage(mem, t, va[t], page[t])
  /\ ind' = IF ind > 2 THEN ind ELSE ind + 1
  /\ Goto(t, IF Serves(ind + 1) THEN "user" ELSE "hang")
  /\ UNCHANGED <<nr_tasks, va, page, ret>>

(* A fault of any other kind, or an instruction abort: the process hangs.  *)
OtherAbort(t) ==
  /\ MayRun(t)
  /\ pc[t] = "user"
  /\ Goto(t, "hang")
  /\ UNCHANGED <<mem, nr_tasks, va, page, ind, ret>>

(* copy_process for a user process, to the end of the table (a bound: the  *)
(* code does not compare nr_tasks with NR_TASKS).                          *)
Fork(t) ==
  LET p == FirstFree(mem)
      c == nr_tasks
  IN /\ MayRun(t)
     /\ InUser(t)
     /\ c \in Tasks
     /\ p # KernelImage
     /\ mem' = CopyVirtMemory([Taken(mem, p) EXCEPT !.struct[c] = p], t, c)
     /\ nr_tasks' = c + 1
     /\ pc' = [pc EXCEPT ![c] = "user"]
     /\ ret' = [ret EXCEPT ![t] = c]
     /\ UNCHANGED <<va, page, ind>>

ForkFail(t) ==
  /\ MayRun(t)
  /\ InUser(t)
  /\ nr_tasks \in Tasks
  /\ FirstFree(mem) = KernelImage
  /\ ret' = [ret EXCEPT ![t] = 1]
  /\ UNCHANGED <<mem, nr_tasks, pc, va, page, ind>>

(* User code stores to an address that is mapped.                          *)
Store(t, a) ==
  /\ MayRun(t)
  /\ InUser(t)
  /\ Translate(mem, t, a) \in Page
  /\ \E v \in Value : mem' = [mem EXCEPT !.data[Translate(mem, t, a)] = v]
  /\ UNCHANGED <<nr_tasks, pc, va, page, ind, ret>>

(* exit_process keeps every page of the process.                           *)
Exit(t) ==
  /\ MayRun(t)
  /\ InUser(t)
  /\ Goto(t, "zombie")
  /\ UNCHANGED <<mem, nr_tasks, va, page, ind, ret>>

Next == \E t \in Tasks :
  \/ MoveToUserMode(t) \/ TakePage(t) \/ LoadProgram(t) \/ ServeAbort(t)
  \/ OtherAbort(t) \/ Fork(t) \/ ForkFail(t) \/ Exit(t)
  \/ \E a \in Addr : DataAbort(t, a) \/ Store(t, a)

Spec == Init /\ [][Next]_vars

-----------------------------------------------------------------------------
(* Properties.                                                             *)

Mem == [used : SUBSET Page,
        table : [Page -> [Index -> Page \cup {KernelImage, Absent}]],
        data : [Page -> Value],
        struct : [Tasks -> Page \cup {KernelImage}],
        pgd : [Tasks -> Page \cup {KernelImage}],
        user_pages : [Tasks -> Seq([pa : Page, va : Addr])],
        kernel_pages : [Tasks -> Seq(Page \cup {KernelImage})],
        wild : BOOLEAN]

(* The shapes of the variables.                                            *)
TypeOK ==
  /\ mem \in Mem
  /\ nr_tasks \in 2 .. NR_TASKS
  /\ pc \in [Tasks -> {"none", "kernel_process", "found", "taken", "user",
                       "hang", "zombie"}]
  /\ va \in [Tasks -> Addr]
  /\ page \in [Tasks -> Page \cup {KernelImage}]
  /\ ind \in 1 .. 3
  /\ ret \in [Tasks -> 0 .. NR_TASKS]

(* Where there is a page on record: for the task_struct of a task, for its *)
(* tables and for its memory.                                              *)
Structs == {<<"struct", t, 0>> : t \in Tasks}
TablesOf(m, t) == {<<"table", t, k>> : k \in DOMAIN m.kernel_pages[t]}
UsersOf(m, t) == {<<"user", t, k>> : k \in DOMAIN m.user_pages[t]}
Places(m) == Structs \cup UNION {TablesOf(m, t) \cup UsersOf(m, t) : t \in Tasks}
PageAt(m, x) ==
  CASE x[1] = "struct" -> m.struct[x[2]]
    [] x[1] = "table" -> m.kernel_pages[x[2]][x[3]]
    [] x[1] = "user" -> m.user_pages[x[2]][x[3]].pa
Held(m) == {PageAt(m, x) : x \in Places(m)} \ {KernelImage}

(* README.md:213: get_free_page returns a free page.  No page is held      *)
(* twice, be it by two processes, or as a table and as memory.             *)
NoFrameTwice ==
  \A x, y \in Places(mem) :
    PageAt(mem, x) = PageAt(mem, y) /\ PageAt(mem, x) # KernelImage => x = y

(* mem_map marks exactly the pages that some task has on record, and those *)
(* a handler is about to map: no page is lost, none is handed out again.   *)
Accounted ==
  mem.used = Held(mem) \cup {page[t] : t \in {u \in Tasks : pc[u] = "taken"}}

(* The page tables and the user_pages array, which fork copies by, say the *)
(* same: an address translates to the page on record, or to none.          *)
TablesAgree ==
  \A t \in Created, a \in Addr :
    LET recorded == {mem.user_pages[t][k].pa :
                       k \in {j \in DOMAIN mem.user_pages[t] :
                                mem.user_pages[t][j].va = a}}
    IN ~mem.wild =>
         recorded = {Translate(mem, t, a)} \ {Absent}

(* user_pages is filled from index 0 and kernel_pages from index 1; only   *)
(* the count of served faults keeps them within MAX_PROCESS_PAGES.         *)
ArrayBounds ==
  \A t \in Tasks : /\ Len(mem.user_pages[t]) <= MAX_PROCESS_PAGES
                   /\ Len(mem.kernel_pages[t]) <= MAX_PROCESS_PAGES - 1

-----------------------------------------------------------------------------
(* Mm implements AddressSpaces: a process sees, at each address, the page  *)
(* the MMU finds under its tables.                                         *)
SpaceOf(t) ==
  [a \in {b \in Addr : Translate(mem, t, b) # Absent} |->
     mem.data[Translate(mem, t, a)]]
Spaces == INSTANCE AddressSpaces WITH space <- [t \in Tasks |-> SpaceOf(t)]
(* Promised as long as pages last: a step that leaves one free is a step of *)
(* AddressSpaces.  No page is ever freed, so the promise ends only once.   *)
ImplementsAddressSpaces ==
  Spaces!Init /\ [][mem'.used = Page \/ Spaces!Next]_[t \in Tasks |-> SpaceOf(t)]

=============================================================================
