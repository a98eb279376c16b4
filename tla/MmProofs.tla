------------------------------ MODULE MmProofs ------------------------------
(***************************************************************************)
(* For any number of tasks, pages and addresses, and any page tables: as   *)
(* long as no tick lands in get_free_page, no page is held twice, lost or  *)
(* handed out again, tables and records agree, and each process has its    *)
(* own memory, of which a fork makes a copy, until the pages run out.      *)
(***************************************************************************)
EXTENDS Mm, SequenceTheorems, WellFoundedInduction, TLAPS

(* The walk of a below the pgd of t: the table of level k, or the page for *)
(* k = 4.                                                                  *)
Node(m, t, a, k) == Walk(m, t, a)[k + 1]
Agree(a, b, k) == \A i \in 1 .. k : Path[a][i] = Path[b][i]
Tables(m, t) == {m.kernel_pages[t][k] : k \in DOMAIN m.kernel_pages[t]}

(* The tables of a task are a tree: a table is met at one level, by the    *)
(* addresses that share the path so far, and it is on the task's record.   *)
Tree(m) ==
  \A t \in Tasks, a \in Addr :
    /\ Node(m, t, a, 4) \in Page \cup {Absent}
    /\ \A k \in 0 .. 3 :
         Node(m, t, a, k) \in Page =>
           /\ Node(m, t, a, k) \in Tables(m, t)
           /\ \A u \in Tasks, b \in Addr : \A j \in 0 .. 3 :
                Node(m, u, b, j) = Node(m, t, a, k) =>
                  u = t /\ j = k /\ Agree(a, b, k)

(* T holds the pages that are taken and not yet on record.                 *)
Owned(m, T) ==
  /\ \A x, y \in Places(m) :
       PageAt(m, x) = PageAt(m, y) /\ PageAt(m, x) # KernelImage => x = y
  /\ m.used = Held(m) \cup T
  /\ T \subseteq Page /\ Held(m) \cap T = {}

(* What a failed get_free_page leaves behind tells that no page is free.   *)
Spent(m) ==
  /\ m.wild => m.used = Page
  /\ \A p \in Page, i \in Index : m.table[p][i] = KernelImage => m.used = Page

Good(m, T) == m \in Mem /\ Owned(m, T) /\ Tree(m) /\ Spent(m)

(* TablesAgree, from the address and from the record.  A walk that ends in *)
(* the kernel image records a page without mapping it.                     *)
Agreed(m) ==
  /\ \A t \in Tasks, a \in Addr :
       Translate(m, t, a) # Absent =>
         \E k \in DOMAIN m.user_pages[t] :
           /\ m.user_pages[t][k].va = a
           /\ m.user_pages[t][k].pa = Translate(m, t, a)
  /\ ~m.wild =>
       \A t \in Tasks : \A k \in DOMAIN m.user_pages[t] :
         Translate(m, t, m.user_pages[t][k].va) = m.user_pages[t][k].pa

-----------------------------------------------------------------------------
(* Naturals, and the first free page.                                      *)

LEMMA Least ==
  ASSUME NEW T \in SUBSET Nat, T # {}
  PROVE  \E x \in T : \A y \in T : x <= y
<1>. DEFINE R == OpToRel(<, Nat)
<1>1. PICK x \in T : \A y \in T : <<y, x>> \notin R
  <2>1. IsWellFoundedOn(R, Nat)
    BY NatLessThanWellFounded
  <2>. HIDE DEF R
  <2>. QED
    BY <2>1, WFMin
<1>2. \A y \in T : ~(y < x)
  BY <1>1 DEF OpToRel
<1>. QED
  BY <1>2

LEMMA Induction ==
  ASSUME NEW S \in SUBSET Nat, 0 \in S, \A n \in S : n + 1 \in S
  PROVE  S = Nat
<1>. SUFFICES ASSUME Nat \ S # {} PROVE FALSE
  OBVIOUS
<1>1. PICK x \in Nat \ S : \A y \in Nat \ S : x <= y
  BY Least
<1>2. x # 0 /\ x - 1 \in Nat
  BY <1>1
<1>3. x - 1 \in S
  BY <1>1, <1>2
<1>. QED
  BY <1>1, <1>2, <1>3

LEMMA Pages ==
  /\ Page \subseteq Nat /\ KernelImage \notin Page /\ Absent \notin Page
  /\ KernelImage # Absent /\ 1 \in Page
  /\ 0 \in Tasks /\ 1 \in Tasks /\ Tasks \subseteq Nat
BY MmAssumption DEF Page, KernelImage, Absent, Tasks

LEMMA Paths ==
  ASSUME NEW a \in Addr, NEW k \in 1 .. 4
  PROVE  Path[a][k] \in Index
BY MmAssumption DEF Index

LEMMA FirstFreePage ==
  ASSUME NEW m, m.used \subseteq Page
  PROVE  /\ FirstFree(m) = KernelImage <=> m.used = Page
         /\ m.used # Page => FirstFree(m) \in Page \ m.used
         /\ FirstFree(m) \in Page \cup {KernelImage}
<1>1. CASE m.used = Page
  BY <1>1 DEF FirstFree
<1>2. CASE m.used # Page
  <2>1. PICK S \in SUBSET Nat : S = Page \ m.used
    BY Pages
  <2>2. \E x \in S : \A y \in S : x <= y
    BY <1>2, <2>1, Least
  <2>3. Min(S) \in S
    BY <2>2 DEF Min
  <2>. QED
    BY <1>2, <2>1, <2>3, Pages DEF FirstFree
<1>. QED
  BY <1>1, <1>2

-----------------------------------------------------------------------------
(* Walks.                                                                  *)

LEMMA NodeSteps ==
  ASSUME NEW m, NEW t, NEW a
  PROVE  /\ Node(m, t, a, 0) = m.pgd[t]
         /\ \A k \in 0 .. 3 :
              Node(m, t, a, k + 1) = Step(m, Node(m, t, a, k), Path[a][k + 1])
         /\ Translate(m, t, a) = Node(m, t, a, 4)
BY DEF Node, Walk, Translate

(* What holds for level 0 and is handed on from level to level holds.      *)
LEMMA Levels ==
  ASSUME NEW S, 0 \in S, \A k \in 0 .. 3 : k \in S => k + 1 \in S
  PROVE  0 .. 4 \subseteq S
<1>1. 1 \in S
  <2>. 0 + 1 \in S
    OBVIOUS
  <2>. QED
    OBVIOUS
<1>2. 2 \in S
  <2>. 1 + 1 \in S
    BY <1>1
  <2>. QED
    OBVIOUS
<1>3. 3 \in S
  <2>. 2 + 1 \in S
    BY <1>2
  <2>. QED
    OBVIOUS
<1>4. 4 \in S
  <2>. 3 + 1 \in S
    BY <1>3
  <2>. QED
    OBVIOUS
<1>. QED
  BY <1>1, <1>2, <1>3, <1>4

LEMMA SamePath ==
  ASSUME NEW m, NEW t, NEW a \in Addr, NEW b \in Addr, NEW k \in 0 .. 4,
         Agree(a, b, k)
  PROVE  Node(m, t, a, k) = Node(m, t, b, k)
<1>. DEFINE S == {j \in 0 .. 4 : j <= k =>
                                   Node(m, t, a, j) = Node(m, t, b, j)}
<1>1. 0 \in S
  <2>1. Node(m, t, a, 0) = m.pgd[t] /\ Node(m, t, b, 0) = m.pgd[t]
    BY NodeSteps
  <2>. QED
    BY <2>1
<1>2. ASSUME NEW j \in 0 .. 3, j \in S PROVE j + 1 \in S
  <2>. SUFFICES ASSUME j + 1 <= k
                PROVE  Node(m, t, a, j + 1) = Node(m, t, b, j + 1)
    OBVIOUS
  <2>1. Node(m, t, a, j) = Node(m, t, b, j)
    BY <1>2
  <2>2. Path[a][j + 1] = Path[b][j + 1]
    BY DEF Agree
  <2>. QED
    BY <2>1, <2>2, NodeSteps
<1>. HIDE DEF S
<1>3. 0 .. 4 \subseteq S
  BY <1>1, <1>2, Levels
<1>. QED
  BY <1>3 DEF S

(* Walks that find the same tables are the same.                           *)
LEMMA SameWalk ==
  ASSUME NEW m, NEW n, NEW t, NEW a \in Addr, n.pgd[t] = m.pgd[t],
         \A k \in 0 .. 3 : Node(m, t, a, k) \in Page =>
           n.table[Node(m, t, a, k)][Path[a][k + 1]] =
             m.table[Node(m, t, a, k)][Path[a][k + 1]]
  PROVE  \A k \in 0 .. 4 : Node(n, t, a, k) = Node(m, t, a, k)
<1>. DEFINE S == {j \in 0 .. 4 : Node(n, t, a, j) = Node(m, t, a, j)}
<1>1. 0 \in S
  BY NodeSteps
<1>2. ASSUME NEW j \in 0 .. 3, j \in S PROVE j + 1 \in S
  <2>1. Node(n, t, a, j) = Node(m, t, a, j)
    BY <1>2
  <2>2. Node(n, t, a, j + 1) = Step(n, Node(m, t, a, j), Path[a][j + 1])
    BY <2>1, NodeSteps
  <2>3. Node(m, t, a, j + 1) = Step(m, Node(m, t, a, j), Path[a][j + 1])
    BY NodeSteps
  <2>4. CASE Node(m, t, a, j) \in Page
    <3>1. n.table[Node(m, t, a, j)][Path[a][j + 1]] =
            m.table[Node(m, t, a, j)][Path[a][j + 1]]
      BY <2>4
    <3>. QED
      BY <2>2, <2>3, <3>1 DEF Step
  <2>5. CASE Node(m, t, a, j) \notin Page
    BY <2>2, <2>3, <2>5 DEF Step
  <2>. QED
    BY <2>4, <2>5
<1>. HIDE DEF S
<1>3. 0 .. 4 \subseteq S
  BY <1>1, <1>2, Levels
<1>. QED
  BY <1>3 DEF S

(* The entry i of table x is all that differs between m and n, for a walk; *)
(* a table with nothing in it.                                             *)
EntryIs(n, m, x, i, y) ==
  /\ \A u \in Tasks : n.pgd[u] = m.pgd[u]
  /\ n.table[x][i] = y
  /\ \A p \in Page, j \in Index : p # x \/ j # i => n.table[p][j] = m.table[p][j]
Blank(m, y) == \A i \in Index : m.table[y][i] = Absent
(* What the walk of b for u is with y linked below level k of (t, a).      *)
WalkFinds(n, m, t, a, k, y, u, b) ==
  \A j \in 0 .. 4 :
    Node(n, u, b, j) = IF u = t /\ j > k /\ Agree(a, b, k + 1)
                       THEN IF j = k + 1 THEN y ELSE Absent
                       ELSE Node(m, u, b, j)

(* An entry of the table of (t, a) at level k is set to y: the walks that  *)
(* share the path of a up to this entry find y, and below it nothing.      *)
LEMMA LinkWalk ==
  ASSUME NEW m, NEW n, Tree(m), NEW t \in Tasks, NEW a \in Addr,
         NEW k \in 0 .. 3, Node(m, t, a, k) \in Page, NEW y,
         EntryIs(n, m, Node(m, t, a, k), Path[a][k + 1], y),
         y \in Page /\ k < 3 => y # Node(m, t, a, k) /\ Blank(m, y),
         NEW u \in Tasks, NEW b \in Addr
  PROVE  WalkFinds(n, m, t, a, k, y, u, b)
<1>0. PICK x \in Page :
        /\ x = Node(m, t, a, k) /\ EntryIs(n, m, x, Path[a][k + 1], y)
        /\ y \in Page /\ k < 3 => y # x /\ Blank(m, y)
  OBVIOUS
<1>. DEFINE Below(j) == u = t /\ j > k /\ Agree(a, b, k + 1)
            S == {j \in 0 .. 4 :
                    Node(n, u, b, j) = IF Below(j)
                                       THEN IF j = k + 1 THEN y ELSE Absent
                                       ELSE Node(m, u, b, j)}
<1>1. 0 \in S
  <2>1. Node(n, u, b, 0) = Node(m, u, b, 0)
    BY <1>0, NodeSteps DEF EntryIs
  <2>. QED
    BY <2>1
<1>2. ASSUME NEW j \in 0 .. 3, j \in S PROVE j + 1 \in S
  <2>. DEFINE i == Path[b][j + 1]
  <2>1. Node(n, u, b, j + 1) = Step(n, Node(n, u, b, j), i)
    BY NodeSteps
  <2>2. Node(m, u, b, j + 1) = Step(m, Node(m, u, b, j), i)
    BY NodeSteps
  <2>3. i \in Index /\ j + 1 \in 0 .. 4
    BY Paths
  <2>. HIDE DEF i
  <2>4. CASE Below(j)
    <3>1. Below(j + 1) /\ j + 1 # k + 1
      BY <2>4
    <3>2. Node(n, u, b, j) = IF j = k + 1 THEN y ELSE Absent
      BY <1>2, <2>4
    <3>3. Node(n, u, b, j + 1) = Absent
      <4>1. CASE j = k + 1 /\ y \in Page
        <5>1. y # x /\ m.table[y][i] = Absent
          BY <1>0, <2>3, <4>1 DEF Blank
        <5>2. n.table[y][i] = Absent
          BY <1>0, <2>3, <4>1, <5>1 DEF EntryIs
        <5>. QED
          BY <2>1, <3>2, <4>1, <5>2 DEF Step
      <4>2. CASE ~(j = k + 1 /\ y \in Page)
        BY <2>1, <3>2, <4>2, Pages DEF Step
      <4>. QED
        BY <4>1, <4>2
    <3>. QED
      BY <2>3, <3>1, <3>3
  <2>5. CASE ~Below(j)
    <3>1. PICK v : v = Node(m, u, b, j)
      OBVIOUS
    <3>2. Node(n, u, b, j) = v
      BY <1>2, <2>5, <3>1
    <3>3. Below(j + 1) => j = k /\ v = x /\ i = Path[a][k + 1]
      <4>. SUFFICES ASSUME Below(j + 1)
                    PROVE  j = k /\ v = x /\ i = Path[a][k + 1]
        OBVIOUS
      <4>1. j = k /\ u = t /\ Agree(a, b, k + 1)
        BY <2>5
      <4>2. Agree(a, b, k) /\ Path[a][k + 1] = Path[b][k + 1]
        BY <4>1 DEF Agree
      <4>. QED
        BY <1>0, <3>1, <4>1, <4>2, SamePath DEF i
    <3>4. v = x /\ i = Path[a][k + 1] => Below(j + 1) /\ j = k
      <4>. SUFFICES ASSUME v = x, i = Path[a][k + 1]
                    PROVE  Below(j + 1) /\ j = k
        OBVIOUS
      <4>1. u = t /\ j = k /\ Agree(a, b, k)
        <5>1. Node(m, u, b, j) = Node(m, t, a, k) /\ Node(m, t, a, k) \in Page
          BY <1>0, <3>1
        <5>. QED
          BY <5>1 DEF Tree
      <4>2. Agree(a, b, k + 1)
        BY <4>1 DEF Agree, i
      <4>. QED
        BY <4>1, <4>2
    <3>5. CASE v = x /\ i = Path[a][k + 1]
      <4>1. Node(n, u, b, j + 1) = y
        BY <1>0, <2>1, <3>2, <3>5 DEF Step, EntryIs
      <4>. QED
        BY <2>3, <3>4, <3>5, <4>1
    <3>6. CASE ~(v = x /\ i = Path[a][k + 1])
      <4>1. ~Below(j + 1)
        BY <3>3, <3>6
      <4>2. v \in Page => n.table[v][i] = m.table[v][i]
        BY <1>0, <2>3, <3>6 DEF EntryIs
      <4>3. Node(n, u, b, j + 1) = Node(m, u, b, j + 1)
        BY <2>1, <2>2, <3>1, <3>2, <4>2 DEF Step
      <4>. QED
        BY <2>3, <4>1, <4>3
    <3>. QED
      BY <3>5, <3>6
  <2>. QED
    BY <2>4, <2>5
<1>. HIDE DEF S
<1>3. 0 .. 4 \subseteq S
  BY <1>1, <1>2, Levels
<1>. QED
  BY <1>3 DEF S, WalkFinds

-----------------------------------------------------------------------------
(* The fields of mem, and what each operation does to them.                *)

Empty == [i \in Index |-> Absent]
Entries == [Page -> [Index -> Page \cup {KernelImage, Absent}]]
UserRecords == [Tasks -> Seq([pa : Page, va : Addr])]
KernelRecords == [Tasks -> Seq(Page \cup {KernelImage})]
PageOf == [Tasks -> Page \cup {KernelImage}]

LEMMA Fields ==
  ASSUME NEW m \in Mem
  PROVE  /\ m.used \in SUBSET Page /\ m.wild \in BOOLEAN
         /\ m.table \in Entries /\ m.data \in [Page -> Value]
         /\ m.struct \in PageOf /\ m.pgd \in PageOf
         /\ m.user_pages \in UserRecords /\ m.kernel_pages \in KernelRecords
         /\ m = [used |-> m.used, table |-> m.table, data |-> m.data,
                 struct |-> m.struct, pgd |-> m.pgd,
                 user_pages |-> m.user_pages,
                 kernel_pages |-> m.kernel_pages, wild |-> m.wild]
<1>1. m = [used |-> m.used, table |-> m.table, data |-> m.data,
           struct |-> m.struct, pgd |-> m.pgd, user_pages |-> m.user_pages,
           kernel_pages |-> m.kernel_pages, wild |-> m.wild]
  BY Zenon DEF Mem
<1>. QED
  BY <1>1 DEF Mem, Entries, UserRecords, KernelRecords, PageOf

(* A record with the fields of mem and their types is a mem.               *)
LEMMA IsMem ==
  ASSUME NEW used \in SUBSET Page, NEW wild \in BOOLEAN, NEW table \in Entries,
         NEW data \in [Page -> Value], NEW struct \in PageOf, NEW pgd \in PageOf,
         NEW user_pages \in UserRecords, NEW kernel_pages \in KernelRecords
  PROVE  [used |-> used, table |-> table, data |-> data, struct |-> struct,
          pgd |-> pgd, user_pages |-> user_pages,
          kernel_pages |-> kernel_pages, wild |-> wild] \in Mem
BY DEF Mem, Entries, UserRecords, KernelRecords, PageOf

(* n is m with one field changed to v.                                     *)
UsedSet(n, m, v) == n = [m EXCEPT !.used = v]
WildSet(n, m, v) == n = [m EXCEPT !.wild = v]
TableSet(n, m, v) == n = [m EXCEPT !.table = v]
DataSet(n, m, v) == n = [m EXCEPT !.data = v]
StructSet(n, m, v) == n = [m EXCEPT !.struct = v]
PgdSet(n, m, v) == n = [m EXCEPT !.pgd = v]
UserSet(n, m, v) == n = [m EXCEPT !.user_pages = v]
KernelSet(n, m, v) == n = [m EXCEPT !.kernel_pages = v]
(* A record f is longer by v, or a function f changed to v, at t.          *)
Longer(g, f, t, v) == g = [f EXCEPT ![t] = Append(@, v)]
Changed(g, f, t, v) == g = [f EXCEPT ![t] = v]
(* n is m after one step of the code.                                      *)
IsTaken(n, m, p) == n = Taken(m, p)
IsRecorded(n, m, t, a, p) == n = Recorded(m, t, a, p)
TableRecorded(n, m, t, p) == n = [m EXCEPT !.kernel_pages[t] = Append(@, p)]
EntrySet(n, m, x, i, y) == n = [m EXCEPT !.table[x][i] = y]

LEMMA SetUsed ==
  ASSUME NEW m \in Mem, NEW v, v \subseteq Page, NEW n, UsedSet(n, m, v)
  PROVE  /\ n \in Mem /\ n.used = v
         /\ n.table = m.table /\ n.data = m.data
         /\ n.struct = m.struct /\ n.pgd = m.pgd
         /\ n.user_pages = m.user_pages /\ n.kernel_pages = m.kernel_pages
         /\ n.wild = m.wild
<1>1. n = [used |-> v, table |-> m.table, data |-> m.data, struct |->
           m.struct, pgd |-> m.pgd, user_pages |-> m.user_pages,
           kernel_pages |-> m.kernel_pages, wild |-> m.wild]
  BY Fields DEF UsedSet
<1>2. n \in Mem
  BY <1>1, Fields, IsMem
<1>. QED
  BY <1>1, <1>2

LEMMA SetTable ==
  ASSUME NEW m \in Mem, NEW v \in Entries, NEW n, TableSet(n, m, v)
  PROVE  /\ n \in Mem /\ n.table = v
         /\ n.used = m.used /\ n.data = m.data
         /\ n.struct = m.struct /\ n.pgd = m.pgd
         /\ n.user_pages = m.user_pages /\ n.kernel_pages = m.kernel_pages
         /\ n.wild = m.wild
<1>1. n = [used |-> m.used, table |-> v, data |-> m.data, struct |->
           m.struct, pgd |-> m.pgd, user_pages |-> m.user_pages,
           kernel_pages |-> m.kernel_pages, wild |-> m.wild]
  BY Fields DEF TableSet
<1>2. n \in Mem
  BY <1>1, Fields, IsMem
<1>. QED
  BY <1>1, <1>2

LEMMA SetData ==
  ASSUME NEW m \in Mem, NEW v \in [Page -> Value], NEW n, DataSet(n, m, v)
  PROVE  /\ n \in Mem /\ n.data = v
         /\ n.used = m.used /\ n.table = m.table
         /\ n.struct = m.struct /\ n.pgd = m.pgd
         /\ n.user_pages = m.user_pages /\ n.kernel_pages = m.kernel_pages
         /\ n.wild = m.wild
<1>1. n = [used |-> m.used, table |-> m.table, data |-> v, struct |->
           m.struct, pgd |-> m.pgd, user_pages |-> m.user_pages,
           kernel_pages |-> m.kernel_pages, wild |-> m.wild]
  BY Fields DEF DataSet
<1>2. n \in Mem
  BY <1>1, Fields, IsMem
<1>. QED
  BY <1>1, <1>2

LEMMA SetStruct ==
  ASSUME NEW m \in Mem, NEW v \in PageOf, NEW n, StructSet(n, m, v)
  PROVE  /\ n \in Mem /\ n.struct = v
         /\ n.used = m.used /\ n.table = m.table
         /\ n.data = m.data /\ n.pgd = m.pgd
         /\ n.user_pages = m.user_pages /\ n.kernel_pages = m.kernel_pages
         /\ n.wild = m.wild
<1>1. n = [used |-> m.used, table |-> m.table, data |-> m.data, struct |->
           v, pgd |-> m.pgd, user_pages |-> m.user_pages, kernel_pages |->
           m.kernel_pages, wild |-> m.wild]
  BY Fields DEF StructSet
<1>2. n \in Mem
  BY <1>1, Fields, IsMem
<1>. QED
  BY <1>1, <1>2

LEMMA SetPgd ==
  ASSUME NEW m \in Mem, NEW v \in PageOf, NEW n, PgdSet(n, m, v)
  PROVE  /\ n \in Mem /\ n.pgd = v
         /\ n.used = m.used /\ n.table = m.table
         /\ n.data = m.data /\ n.struct = m.struct
         /\ n.user_pages = m.user_pages /\ n.kernel_pages = m.kernel_pages
         /\ n.wild = m.wild
<1>1. n = [used |-> m.used, table |-> m.table, data |-> m.data, struct |->
           m.struct, pgd |-> v, user_pages |-> m.user_pages, kernel_pages
           |-> m.kernel_pages, wild |-> m.wild]
  BY Fields DEF PgdSet
<1>2. n \in Mem
  BY <1>1, Fields, IsMem
<1>. QED
  BY <1>1, <1>2

LEMMA SetUser ==
  ASSUME NEW m \in Mem, NEW v \in UserRecords, NEW n, UserSet(n, m, v)
  PROVE  /\ n \in Mem /\ n.user_pages = v
         /\ n.used = m.used /\ n.table = m.table
         /\ n.data = m.data /\ n.struct = m.struct
         /\ n.pgd = m.pgd /\ n.kernel_pages = m.kernel_pages
         /\ n.wild = m.wild
<1>1. n = [used |-> m.used, table |-> m.table, data |-> m.data, struct |->
           m.struct, pgd |-> m.pgd, user_pages |-> v, kernel_pages |->
           m.kernel_pages, wild |-> m.wild]
  BY Fields DEF UserSet
<1>2. n \in Mem
  BY <1>1, Fields, IsMem
<1>. QED
  BY <1>1, <1>2

LEMMA SetKernel ==
  ASSUME NEW m \in Mem, NEW v \in KernelRecords, NEW n, KernelSet(n, m, v)
  PROVE  /\ n \in Mem /\ n.kernel_pages = v
         /\ n.used = m.used /\ n.table = m.table
         /\ n.data = m.data /\ n.struct = m.struct
         /\ n.pgd = m.pgd /\ n.user_pages = m.user_pages
         /\ n.wild = m.wild
<1>1. n = [used |-> m.used, table |-> m.table, data |-> m.data, struct |->
           m.struct, pgd |-> m.pgd, user_pages |-> m.user_pages,
           kernel_pages |-> v, wild |-> m.wild]
  BY Fields DEF KernelSet
<1>2. n \in Mem
  BY <1>1, Fields, IsMem
<1>. QED
  BY <1>1, <1>2

LEMMA SetWild ==
  ASSUME NEW m \in Mem, NEW v \in BOOLEAN, NEW n, WildSet(n, m, v)
  PROVE  /\ n \in Mem /\ n.wild = v
         /\ n.used = m.used /\ n.table = m.table
         /\ n.data = m.data /\ n.struct = m.struct
         /\ n.pgd = m.pgd /\ n.user_pages = m.user_pages
         /\ n.kernel_pages = m.kernel_pages
<1>1. n = [used |-> m.used, table |-> m.table, data |-> m.data, struct |->
           m.struct, pgd |-> m.pgd, user_pages |-> m.user_pages,
           kernel_pages |-> m.kernel_pages, wild |-> v]
  BY Fields DEF WildSet
<1>2. n \in Mem
  BY <1>1, Fields, IsMem
<1>. QED
  BY <1>1, <1>2

LEMMA TakenFields ==
  ASSUME NEW m \in Mem, NEW p \in Page, NEW n, IsTaken(n, m, p)
  PROVE  /\ n \in Mem /\ n.used = m.used \cup {p} /\ n.wild = m.wild
         /\ Changed(n.table, m.table, p, Empty)
         /\ Changed(n.data, m.data, p, 0)
         /\ n.struct = m.struct /\ n.pgd = m.pgd
         /\ n.user_pages = m.user_pages /\ n.kernel_pages = m.kernel_pages
<1>1. PICK table \in Entries : table = [m.table EXCEPT ![p] = Empty]
  BY Fields DEF Entries, Empty
<1>2. PICK data \in [Page -> Value] : data = [m.data EXCEPT ![p] = 0]
  BY Fields, MmAssumption
<1>3. PICK used : used = m.used \cup {p} /\ used \subseteq Page
  <2>1. m.used \in SUBSET Page
    BY Fields
  <2>. QED
    BY <2>1
<1>5. PICK o : TableSet(o, m, table)
  BY DEF TableSet
<1>6. PICK q : DataSet(q, o, data)
  BY DEF DataSet
<1>8. /\ o \in Mem /\ o.table = table /\ o.data = m.data /\ o.struct = m.struct
      /\ o.pgd = m.pgd /\ o.user_pages = m.user_pages
      /\ o.kernel_pages = m.kernel_pages /\ o.used = m.used /\ o.wild = m.wild
  BY <1>5, SetTable
<1>9. /\ q \in Mem /\ q.table = o.table /\ q.data = data /\ q.struct = o.struct
      /\ q.pgd = o.pgd /\ q.user_pages = o.user_pages
      /\ q.kernel_pages = o.kernel_pages /\ q.used = o.used /\ q.wild = o.wild
  BY <1>6, <1>8, SetData
<1>7. UsedSet(n, q, used)
  <2>1. q = Zeroed(m, p)
    BY <1>1, <1>2, <1>5, <1>6, <1>8 DEF Zeroed, Empty, TableSet, DataSet
  <2>2. n = [q EXCEPT !.used = @ \cup {p}]
    BY <2>1, Pages DEF Taken, IsTaken
  <2>. QED
    BY <1>3, <1>8, <1>9, <2>2 DEF UsedSet
<1>10. /\ n \in Mem /\ n.table = q.table /\ n.data = q.data
       /\ n.struct = q.struct /\ n.pgd = q.pgd /\ n.user_pages = q.user_pages
       /\ n.kernel_pages = q.kernel_pages /\ n.used = used /\ n.wild = q.wild
  BY <1>3, <1>7, <1>9, SetUsed
<1>11. n.table = table /\ n.data = data
  BY <1>8, <1>9, <1>10
<1>12. Changed(n.table, m.table, p, Empty)
  BY <1>1, <1>11 DEF Changed
<1>13. Changed(n.data, m.data, p, 0)
  BY <1>2, <1>11 DEF Changed
<1>. QED
  BY <1>3, <1>8, <1>9, <1>10, <1>12, <1>13

(* A table is put on the record of its task ...                            *)
LEMMA RecordTable ==
  ASSUME NEW m \in Mem, NEW t \in Tasks, NEW p \in Page \cup {KernelImage},
         NEW n, TableRecorded(n, m, t, p)
  PROVE  /\ n \in Mem
         /\ Longer(n.kernel_pages, m.kernel_pages, t, p)
         /\ n.used = m.used /\ n.table = m.table /\ n.data = m.data
         /\ n.struct = m.struct /\ n.pgd = m.pgd
         /\ n.user_pages = m.user_pages /\ n.wild = m.wild
<1>1. PICK kernel_pages \in KernelRecords :
        kernel_pages = [m.kernel_pages EXCEPT ![t] = Append(@, p)]
  <2>1. m.kernel_pages \in [Tasks -> Seq(Page \cup {KernelImage})]
    BY Fields DEF KernelRecords
  <2>2. Append(m.kernel_pages[t], p) \in Seq(Page \cup {KernelImage})
    BY <2>1
  <2>. QED
    BY <2>1, <2>2 DEF KernelRecords
<1>2. KernelSet(n, m, kernel_pages)
  BY <1>1 DEF KernelSet, TableRecorded
<1>3. kernel_pages \in KernelRecords /\ Longer(kernel_pages, m.kernel_pages, t, p)
  BY <1>1 DEF Longer
<1>. QED
  BY <1>2, <1>3, SetKernel

(* ... and a page of memory, with its address.                             *)
LEMMA RecordedFields ==
  ASSUME NEW m \in Mem, NEW t \in Tasks, NEW p \in Page, NEW a \in Addr,
         NEW n, IsRecorded(n, m, t, a, p)
  PROVE  /\ n \in Mem
         /\ Longer(n.user_pages, m.user_pages, t, [pa |-> p, va |-> a])
         /\ n.used = m.used /\ n.table = m.table /\ n.data = m.data
         /\ n.struct = m.struct /\ n.pgd = m.pgd
         /\ n.kernel_pages = m.kernel_pages /\ n.wild = m.wild
<1>1. PICK user_pages \in UserRecords :
        user_pages = [m.user_pages EXCEPT ![t] = Append(@, [pa |-> p, va |-> a])]
  <2>. DEFINE R == [pa : Page, va : Addr]
              f == [pa |-> p, va |-> a]
  <2>1. m.user_pages \in [Tasks -> Seq(R)] /\ f \in R
    BY Fields DEF UserRecords
  <2>. HIDE DEF R, f
  <2>2. Append(m.user_pages[t], f) \in Seq(R)
    BY <2>1
  <2>. QED
    BY <2>1, <2>2 DEF UserRecords, R, f
<1>2. UserSet(n, m, user_pages)
  BY <1>1 DEF Recorded, IsRecorded, UserSet
<1>3. /\ user_pages \in UserRecords
      /\ Longer(user_pages, m.user_pages, t, [pa |-> p, va |-> a])
  BY <1>1 DEF Longer
<1>. QED
  BY <1>2, <1>3, SetUser

LEMMA EntryFields ==
  ASSUME NEW m \in Mem, NEW x \in Page, NEW i \in Index,
         NEW y \in Page \cup {KernelImage}, NEW n, EntrySet(n, m, x, i, y)
  PROVE  /\ n \in Mem /\ n.table[x][i] = y
         /\ \A p \in Page, j \in Index :
              p # x \/ j # i => n.table[p][j] = m.table[p][j]
         /\ n.used = m.used /\ n.data = m.data /\ n.struct = m.struct
         /\ n.pgd = m.pgd /\ n.user_pages = m.user_pages
         /\ n.kernel_pages = m.kernel_pages /\ n.wild = m.wild
<1>1. PICK table \in Entries : table = [m.table EXCEPT ![x][i] = y]
  <2>1. m.table \in Entries
    BY Fields
  <2>. QED
    BY <2>1 DEF Entries
<1>2. TableSet(n, m, table)
  BY <1>1 DEF TableSet, EntrySet
<1>3. /\ table[x][i] = y
      /\ \A p \in Page, j \in Index :
           p # x \/ j # i => table[p][j] = m.table[p][j]
  BY <1>1, Fields DEF Entries
<1>4. table \in Entries
  BY <1>1
<1>. QED
  BY <1>2, <1>3, <1>4, SetTable

-----------------------------------------------------------------------------
(* Who holds which page.                                                   *)

SamePlaces(m, n) ==
  /\ n.struct = m.struct /\ n.user_pages = m.user_pages
  /\ n.kernel_pages = m.kernel_pages

(* n has the page p on record at z, and else what m has.                   *)
Grown(m, n, z, p) ==
  /\ z \in Places(n) /\ PageAt(n, z) = p
  /\ \A x \in Places(n) :
       x = z \/ (x \in Places(m) /\ PageAt(m, x) = PageAt(n, x))
  /\ \A x \in Places(m) : x \in Places(n) /\ (x = z => PageAt(m, x) = KernelImage)

(* The places by name.                                                     *)
StructAt(t) == <<"struct", t, 0>>
TableAt(t, k) == <<"table", t, k>>
UserAt(t, k) == <<"user", t, k>>

LEMMA PlaceKinds ==
  ASSUME NEW m, NEW x
  PROVE  x \in Places(m) <=> \/ x \in Structs
                             \/ \E t \in Tasks : x \in TablesOf(m, t)
                             \/ \E t \in Tasks : x \in UsersOf(m, t)
<1>1. x \in UNION {TablesOf(m, t) \cup UsersOf(m, t) : t \in Tasks} <=>
        \E t \in Tasks : x \in TablesOf(m, t) \cup UsersOf(m, t)
  BY Zenon
<1>. QED
  BY <1>1 DEF Places

LEMMA StructPlace ==
  ASSUME NEW m, NEW t \in Tasks
  PROVE  StructAt(t) \in Places(m) /\ PageAt(m, StructAt(t)) = m.struct[t]
<1>1. StructAt(t) \in Structs
  BY DEF Structs, StructAt
<1>2. PageAt(m, StructAt(t)) = m.struct[t]
  BY DEF PageAt, StructAt
<1>. QED
  BY <1>1, <1>2, PlaceKinds

LEMMA TablePlace ==
  ASSUME NEW m, NEW t \in Tasks, NEW k
  PROVE  /\ TableAt(t, k) \in Places(m) <=> k \in DOMAIN m.kernel_pages[t]
         /\ PageAt(m, TableAt(t, k)) = m.kernel_pages[t][k]
<1>1. "struct" # "table" /\ "user" # "table"
  OBVIOUS
<1>2. TableAt(t, k) \notin Structs /\ \A u : TableAt(t, k) \notin UsersOf(m, u)
  BY <1>1 DEF Structs, UsersOf, TableAt
<1>3. \A u : TableAt(t, k) \in TablesOf(m, u) <=>
               u = t /\ k \in DOMAIN m.kernel_pages[t]
  BY DEF TablesOf, TableAt
<1>4. PageAt(m, TableAt(t, k)) = m.kernel_pages[t][k]
  BY <1>1 DEF PageAt, TableAt
<1>. QED
  BY <1>2, <1>3, <1>4, PlaceKinds

LEMMA UserPlace ==
  ASSUME NEW m, NEW t \in Tasks, NEW k
  PROVE  /\ UserAt(t, k) \in Places(m) <=> k \in DOMAIN m.user_pages[t]
         /\ PageAt(m, UserAt(t, k)) = m.user_pages[t][k].pa
<1>1. "struct" # "user" /\ "table" # "user"
  OBVIOUS
<1>2. UserAt(t, k) \notin Structs /\ \A u : UserAt(t, k) \notin TablesOf(m, u)
  BY <1>1 DEF Structs, TablesOf, UserAt
<1>3. \A u : UserAt(t, k) \in UsersOf(m, u) <=>
               u = t /\ k \in DOMAIN m.user_pages[t]
  BY DEF UsersOf, UserAt
<1>4. PageAt(m, UserAt(t, k)) = m.user_pages[t][k].pa
  BY <1>1 DEF PageAt, UserAt
<1>. QED
  BY <1>2, <1>3, <1>4, PlaceKinds

LEMMA PlaceCases ==
  ASSUME NEW m, NEW x \in Places(m)
  PROVE  \/ \E t \in Tasks : x = StructAt(t)
         \/ \E t \in Tasks : \E k \in DOMAIN m.kernel_pages[t] : x = TableAt(t, k)
         \/ \E t \in Tasks : \E k \in DOMAIN m.user_pages[t] : x = UserAt(t, k)
<1>1. x \in Structs => \E t \in Tasks : x = StructAt(t)
  BY DEF Structs, StructAt
<1>2. \A t : x \in TablesOf(m, t) =>
               \E k \in DOMAIN m.kernel_pages[t] : x = TableAt(t, k)
  BY DEF TablesOf, TableAt
<1>3. \A t : x \in UsersOf(m, t) =>
               \E k \in DOMAIN m.user_pages[t] : x = UserAt(t, k)
  BY DEF UsersOf, UserAt
<1>. QED
  BY <1>1, <1>2, <1>3, PlaceKinds, Zenon

LEMMA PlacesSame ==
  ASSUME NEW m, NEW n, SamePlaces(m, n)
  PROVE  Places(n) = Places(m) /\ (\A x : PageAt(n, x) = PageAt(m, x))
         /\ Held(n) = Held(m)
<1>1. Places(n) = Places(m)
  BY DEF Places, TablesOf, UsersOf, SamePlaces
<1>2. ASSUME NEW x PROVE PageAt(n, x) = PageAt(m, x)
  BY DEF PageAt, SamePlaces
<1>. QED
  BY <1>1, <1>2 DEF Held

LEMMA OwnSame ==
  ASSUME NEW m, NEW n, NEW T, Owned(m, T), SamePlaces(m, n), n.used = m.used
  PROVE  Owned(n, T)
BY PlacesSame DEF Owned

LEMMA OwnTake ==
  ASSUME NEW m, NEW n, NEW T, Owned(m, T), SamePlaces(m, n),
         NEW p \in Page, p \notin m.used, n.used = m.used \cup {p}
  PROVE  Owned(n, T \cup {p})
BY PlacesSame DEF Owned

LEMMA OwnGrow ==
  ASSUME NEW m, NEW n, NEW T, Owned(m, T), NEW z, NEW p, Grown(m, n, z, p),
         n.used = m.used, p \in T \cup {KernelImage}
  PROVE  Owned(n, T \ {p})
<1>1. T \subseteq Page /\ KernelImage \notin T
  BY Pages DEF Owned
<1>2. \A x \in Places(m) : PageAt(m, x) # p \/ PageAt(m, x) = KernelImage
  BY DEF Owned, Held
<1>3. ASSUME NEW x \in Places(n), NEW y \in Places(n),
             PageAt(n, x) = PageAt(n, y), PageAt(n, x) # KernelImage
      PROVE  x = y
  <2>1. CASE x = z \/ y = z
    BY <1>2, <1>3, <2>1 DEF Grown
  <2>2. CASE x # z /\ y # z
    BY <1>3, <2>2 DEF Grown, Owned
  <2>. QED
    BY <2>1, <2>2
<1>4. Held(n) = Held(m) \cup ({p} \ {KernelImage})
  BY DEF Held, Grown
<1>5. n.used = Held(n) \cup (T \ {p})
  BY <1>1, <1>4 DEF Owned
<1>6. Held(n) \cap (T \ {p}) = {}
  BY <1>4 DEF Owned
<1>. QED
  BY <1>1, <1>3, <1>5, <1>6 DEF Owned

(* One page more on the record of a task.                                  *)
LEMMA GrownTable ==
  ASSUME NEW m \in Mem, NEW n, NEW t \in Tasks, NEW p,
         n.struct = m.struct, n.user_pages = m.user_pages,
         Longer(n.kernel_pages, m.kernel_pages, t, p)
  PROVE  Grown(m, n, TableAt(t, Len(m.kernel_pages[t]) + 1), p)
<1>1. m.kernel_pages \in [Tasks -> Seq(Page \cup {KernelImage})]
  BY Fields DEF KernelRecords
<1>2. PICK l \in Nat : /\ l = Len(m.kernel_pages[t])
                       /\ DOMAIN m.kernel_pages[t] = 1 .. l
  BY <1>1
<1>3. /\ DOMAIN n.kernel_pages[t] = 1 .. l + 1 /\ n.kernel_pages[t][l + 1] = p
      /\ \A k \in 1 .. l : n.kernel_pages[t][k] = m.kernel_pages[t][k]
      /\ \A u \in Tasks \ {t} : n.kernel_pages[u] = m.kernel_pages[u]
  BY <1>1, <1>2 DEF Longer
<1>. DEFINE z == TableAt(t, l + 1)
<1>4. z \in Places(n) /\ PageAt(n, z) = p /\ z \notin Places(m)
  BY <1>2, <1>3, TablePlace
<1>5. ASSUME NEW x \in Places(m)
      PROVE  x \in Places(n) /\ PageAt(m, x) = PageAt(n, x)
  <2>1. ASSUME NEW u \in Tasks, x = StructAt(u)
        PROVE  x \in Places(n) /\ PageAt(m, x) = PageAt(n, x)
    BY <2>1, StructPlace
  <2>2. ASSUME NEW u \in Tasks, NEW k \in DOMAIN m.user_pages[u],
               x = UserAt(u, k)
        PROVE  x \in Places(n) /\ PageAt(m, x) = PageAt(n, x)
    BY <2>2, UserPlace
  <2>3. ASSUME NEW u \in Tasks, NEW k \in DOMAIN m.kernel_pages[u],
               x = TableAt(u, k)
        PROVE  x \in Places(n) /\ PageAt(m, x) = PageAt(n, x)
    <3>1. /\ k \in DOMAIN n.kernel_pages[u]
          /\ n.kernel_pages[u][k] = m.kernel_pages[u][k]
      BY <1>2, <1>3
    <3>2. TableAt(u, k) \in Places(n)
      BY <3>1, TablePlace
    <3>3. PageAt(n, TableAt(u, k)) = n.kernel_pages[u][k]
      BY TablePlace
    <3>4. PageAt(m, TableAt(u, k)) = m.kernel_pages[u][k]
      BY TablePlace
    <3>. QED
      BY <2>3, <3>1, <3>2, <3>3, <3>4
  <2>. QED
    BY <2>1, <2>2, <2>3, PlaceCases
<1>6. ASSUME NEW x \in Places(n) PROVE x = z \/ x \in Places(m)
  <2>1. ASSUME NEW u \in Tasks, x = StructAt(u) PROVE x \in Places(m)
    BY <2>1, StructPlace
  <2>2. ASSUME NEW u \in Tasks, NEW k \in DOMAIN n.user_pages[u],
               x = UserAt(u, k)
        PROVE  x \in Places(m)
    BY <2>2, UserPlace
  <2>3. ASSUME NEW u \in Tasks, NEW k \in DOMAIN n.kernel_pages[u],
               x = TableAt(u, k)
        PROVE  x = z \/ x \in Places(m)
    <3>1. (u = t /\ k = l + 1) \/ k \in DOMAIN m.kernel_pages[u]
      BY <1>2, <1>3
    <3>. QED
      BY <2>3, <3>1, TablePlace
  <2>. QED
    BY <2>1, <2>2, <2>3, PlaceCases
<1>. HIDE DEF z
<1>7. Grown(m, n, z, p)
  BY <1>4, <1>5, <1>6 DEF Grown
<1>. QED
  BY <1>2, <1>7 DEF z

LEMMA GrownUser ==
  ASSUME NEW m \in Mem, NEW n, NEW t \in Tasks, NEW p, NEW a,
         n.struct = m.struct, n.kernel_pages = m.kernel_pages,
         Longer(n.user_pages, m.user_pages, t, [pa |-> p, va |-> a])
  PROVE  Grown(m, n, UserAt(t, Len(m.user_pages[t]) + 1), p)
<1>1. PICK f : f = [pa |-> p, va |-> a] /\ f.pa = p
  OBVIOUS
<1>2. Longer(n.user_pages, m.user_pages, t, f)
  BY <1>1
<1>3. PICK R : m.user_pages \in [Tasks -> Seq(R)]
  BY Fields DEF UserRecords
<1>4. PICK l \in Nat : /\ l = Len(m.user_pages[t])
                       /\ DOMAIN m.user_pages[t] = 1 .. l
  BY <1>3
<1>5. /\ DOMAIN n.user_pages[t] = 1 .. l + 1 /\ n.user_pages[t][l + 1] = f
      /\ \A k \in 1 .. l : n.user_pages[t][k] = m.user_pages[t][k]
      /\ \A u \in Tasks \ {t} : n.user_pages[u] = m.user_pages[u]
  BY <1>2, <1>3, <1>4 DEF Longer
<1>. DEFINE z == UserAt(t, l + 1)
<1>6. z \in Places(n) /\ PageAt(n, z) = p /\ z \notin Places(m)
  BY <1>1, <1>4, <1>5, UserPlace
<1>7. ASSUME NEW x \in Places(m)
      PROVE  x \in Places(n) /\ PageAt(m, x) = PageAt(n, x)
  <2>1. ASSUME NEW u \in Tasks, x = StructAt(u)
        PROVE  x \in Places(n) /\ PageAt(m, x) = PageAt(n, x)
    BY <2>1, StructPlace
  <2>2. ASSUME NEW u \in Tasks, NEW k \in DOMAIN m.kernel_pages[u],
               x = TableAt(u, k)
        PROVE  x \in Places(n) /\ PageAt(m, x) = PageAt(n, x)
    BY <2>2, TablePlace
  <2>3. ASSUME NEW u \in Tasks, NEW k \in DOMAIN m.user_pages[u],
               x = UserAt(u, k)
        PROVE  x \in Places(n) /\ PageAt(m, x) = PageAt(n, x)
    <3>1. /\ k \in DOMAIN n.user_pages[u]
          /\ n.user_pages[u][k] = m.user_pages[u][k]
      BY <1>4, <1>5
    <3>2. UserAt(u, k) \in Places(n)
      BY <3>1, UserPlace
    <3>3. PageAt(n, UserAt(u, k)) = n.user_pages[u][k].pa
      BY UserPlace
    <3>4. PageAt(m, UserAt(u, k)) = m.user_pages[u][k].pa
      BY UserPlace
    <3>. QED
      BY <2>3, <3>1, <3>2, <3>3, <3>4
  <2>. QED
    BY <2>1, <2>2, <2>3, PlaceCases
<1>8. ASSUME NEW x \in Places(n) PROVE x = z \/ x \in Places(m)
  <2>1. ASSUME NEW u \in Tasks, x = StructAt(u) PROVE x \in Places(m)
    BY <2>1, StructPlace
  <2>2. ASSUME NEW u \in Tasks, NEW k \in DOMAIN n.kernel_pages[u],
               x = TableAt(u, k)
        PROVE  x \in Places(m)
    BY <2>2, TablePlace
  <2>3. ASSUME NEW u \in Tasks, NEW k \in DOMAIN n.user_pages[u],
               x = UserAt(u, k)
        PROVE  x = z \/ x \in Places(m)
    <3>1. (u = t /\ k = l + 1) \/ k \in DOMAIN m.user_pages[u]
      BY <1>4, <1>5
    <3>. QED
      BY <2>3, <3>1, UserPlace
  <2>. QED
    BY <2>1, <2>2, <2>3, PlaceCases
<1>. HIDE DEF z
<1>9. Grown(m, n, z, p)
  BY <1>6, <1>7, <1>8 DEF Grown
<1>. QED
  BY <1>4, <1>9 DEF z

LEMMA GrownStruct ==
  ASSUME NEW m \in Mem, NEW n, NEW t \in Tasks, NEW p,
         m.struct[t] = KernelImage, Changed(n.struct, m.struct, t, p),
         n.user_pages = m.user_pages, n.kernel_pages = m.kernel_pages
  PROVE  Grown(m, n, StructAt(t), p)
<1>1. Places(n) = Places(m)
  BY DEF Places, TablesOf, UsersOf
<1>2. n.struct[t] = p /\ \A u \in Tasks \ {t} : n.struct[u] = m.struct[u]
  BY Fields DEF PageOf, Changed
<1>3. /\ StructAt(t) \in Places(n) /\ PageAt(n, StructAt(t)) = p
      /\ PageAt(m, StructAt(t)) = KernelImage
  BY <1>2, StructPlace
<1>4. ASSUME NEW x \in Places(n), x # StructAt(t)
      PROVE  PageAt(m, x) = PageAt(n, x)
  <2>1. ASSUME NEW u \in Tasks, x = StructAt(u)
        PROVE  PageAt(m, x) = PageAt(n, x)
    BY <1>2, <1>4, <2>1, StructPlace
  <2>2. ASSUME NEW u \in Tasks, NEW k, x = TableAt(u, k)
        PROVE  PageAt(m, x) = PageAt(n, x)
    <3>1. PageAt(m, TableAt(u, k)) = m.kernel_pages[u][k]
      BY TablePlace
    <3>2. PageAt(n, TableAt(u, k)) = n.kernel_pages[u][k]
      BY TablePlace
    <3>. QED
      BY <2>2, <3>1, <3>2
  <2>3. ASSUME NEW u \in Tasks, NEW k, x = UserAt(u, k)
        PROVE  PageAt(m, x) = PageAt(n, x)
    <3>1. PageAt(m, UserAt(u, k)) = m.user_pages[u][k].pa
      BY UserPlace
    <3>2. PageAt(n, UserAt(u, k)) = n.user_pages[u][k].pa
      BY UserPlace
    <3>. QED
      BY <2>3, <3>1, <3>2
  <2>. QED
    BY <2>1, <2>2, <2>3, PlaceCases
<1>. QED
  BY <1>1, <1>3, <1>4 DEF Grown

-----------------------------------------------------------------------------
(* Taking a page.                                                          *)

(* A table that is in use is marked.                                       *)
LEMMA TablesUsed ==
  ASSUME NEW m, NEW T, Good(m, T), NEW t \in Tasks, NEW a \in Addr,
         NEW k \in 0 .. 3, Node(m, t, a, k) \in Page
  PROVE  Node(m, t, a, k) \in m.used
<1>1. Node(m, t, a, k) \in Tables(m, t)
  BY DEF Good, Tree
<1>2. PICK j \in DOMAIN m.kernel_pages[t] : m.kernel_pages[t][j] = Node(m, t, a, k)
  BY <1>1 DEF Tables
<1>3. /\ TableAt(t, j) \in Places(m)
      /\ PageAt(m, TableAt(t, j)) = Node(m, t, a, k)
  BY <1>2, TablePlace
<1>4. Node(m, t, a, k) \in Held(m)
  BY <1>3, Pages DEF Held
<1>. QED
  BY <1>4 DEF Good, Owned

(* The same walks through no fewer tables on record.                       *)
LEMMA SameTree ==
  ASSUME NEW m, NEW n, Tree(m),
         \A t \in Tasks, a \in Addr : \A k \in 0 .. 4 :
           Node(n, t, a, k) = Node(m, t, a, k),
         \A t \in Tasks : Tables(m, t) \subseteq Tables(n, t)
  PROVE  Tree(n)
<1>. SUFFICES ASSUME NEW t \in Tasks, NEW a \in Addr
              PROVE  /\ Node(n, t, a, 4) \in Page \cup {Absent}
                     /\ \A k \in 0 .. 3 :
                          Node(n, t, a, k) \in Page =>
                            /\ Node(n, t, a, k) \in Tables(n, t)
                            /\ \A u \in Tasks, b \in Addr : \A j \in 0 .. 3 :
                                 Node(n, u, b, j) = Node(n, t, a, k) =>
                                   u = t /\ j = k /\ Agree(a, b, k)
  BY DEF Tree
<1>1. 0 .. 3 \subseteq 0 .. 4 /\ 4 \in 0 .. 4
  OBVIOUS
<1>2. Node(n, t, a, 4) \in Page \cup {Absent}
  BY <1>1 DEF Tree
<1>3. ASSUME NEW k \in 0 .. 3, Node(n, t, a, k) \in Page
      PROVE  /\ Node(n, t, a, k) \in Tables(n, t)
             /\ \A u \in Tasks, b \in Addr : \A j \in 0 .. 3 :
                  Node(n, u, b, j) = Node(n, t, a, k) =>
                    u = t /\ j = k /\ Agree(a, b, k)
  <2>1. Node(m, t, a, k) = Node(n, t, a, k)
    BY <1>1
  <2>2. Node(n, t, a, k) \in Tables(n, t)
    BY <1>3, <2>1 DEF Tree
  <2>3. ASSUME NEW u \in Tasks, NEW b \in Addr, NEW j \in 0 .. 3,
               Node(n, u, b, j) = Node(n, t, a, k)
        PROVE  u = t /\ j = k /\ Agree(a, b, k)
    <3>1. Node(m, u, b, j) = Node(m, t, a, k) /\ Node(m, t, a, k) \in Page
      BY <1>1, <1>3, <2>1, <2>3
    <3>. QED
      BY <3>1 DEF Tree
  <2>. QED
    BY <2>2, <2>3
<1>. QED
  BY <1>2, <1>3

(* What get_free_page leaves behind: p is nobody's table.                  *)
Took(m, n, p) ==
  /\ n \in Mem /\ n.used = m.used \cup {p} /\ n.wild = m.wild
  /\ \A i \in Index : n.table[p][i] = Absent
  /\ \A q \in Page \ {p} : n.table[q] = m.table[q] /\ n.data[q] = m.data[q]
  /\ n.data[p] = 0
  /\ n.struct = m.struct /\ n.pgd = m.pgd
  /\ n.user_pages = m.user_pages /\ n.kernel_pages = m.kernel_pages
  /\ \A t \in Tasks, a \in Addr : \A k \in 0 .. 4 :
       Node(n, t, a, k) = Node(m, t, a, k)

LEMMA TakePageGood ==
  ASSUME NEW m, NEW T, Good(m, T), NEW p \in Page, p \notin m.used,
         NEW n, IsTaken(n, m, p)
  PROVE  Good(n, T \cup {p}) /\ Took(m, n, p)
<1>1. m \in Mem
  BY DEF Good
<1>2. /\ n \in Mem /\ n.used = m.used \cup {p} /\ n.wild = m.wild
      /\ n.struct = m.struct /\ n.pgd = m.pgd
      /\ n.user_pages = m.user_pages /\ n.kernel_pages = m.kernel_pages
  BY <1>1, TakenFields
<1>3. /\ \A i \in Index : n.table[p][i] = Absent
      /\ \A q \in Page \ {p} : n.table[q] = m.table[q]
  <2>1. Changed(n.table, m.table, p, Empty)
    BY <1>1, TakenFields
  <2>2. m.table \in Entries
    BY <1>1, Fields
  <2>. QED
    BY <2>1, <2>2 DEF Entries, Empty, Changed
<1>4. n.data[p] = 0 /\ \A q \in Page \ {p} : n.data[q] = m.data[q]
  <2>1. Changed(n.data, m.data, p, 0)
    BY <1>1, TakenFields
  <2>2. m.data \in [Page -> Value]
    BY <1>1, Fields
  <2>. QED
    BY <2>1, <2>2 DEF Changed
<1>5. ASSUME NEW t \in Tasks, NEW a \in Addr
      PROVE  \A k \in 0 .. 4 : Node(n, t, a, k) = Node(m, t, a, k)
  <2>1. n.pgd[t] = m.pgd[t]
    BY <1>2
  <2>2. ASSUME NEW k \in 0 .. 3, Node(m, t, a, k) \in Page
        PROVE  n.table[Node(m, t, a, k)][Path[a][k + 1]] =
                 m.table[Node(m, t, a, k)][Path[a][k + 1]]
    BY <1>3, <2>2, TablesUsed
  <2>. QED
    BY <2>1, <2>2, SameWalk
<1>6. Took(m, n, p)
  BY <1>2, <1>3, <1>4, <1>5 DEF Took
<1>7. Owned(n, T \cup {p})
  <2>1. SamePlaces(m, n)
    BY <1>2 DEF SamePlaces
  <2>. QED
    BY <1>2, <2>1, OwnTake DEF Good
<1>8. Tree(n)
  <2>1. \A t \in Tasks : Tables(n, t) = Tables(m, t)
    BY <1>2 DEF Tables
  <2>. QED
    BY <1>5, <2>1, SameTree DEF Good
<1>9. Spent(n)
  <2>1. m.used # Page
    OBVIOUS
  <2>2. ~n.wild
    BY <1>2, <2>1 DEF Good, Spent
  <2>3. \A q \in Page, i \in Index : n.table[q][i] # KernelImage
    BY <1>3, <2>1, Pages DEF Good, Spent
  <2>. QED
    BY <2>2, <2>3 DEF Spent
<1>. QED
  BY <1>2, <1>6, <1>7, <1>8, <1>9 DEF Good

-----------------------------------------------------------------------------
(* A new table is linked.                                                  *)

LEMMA LongerBy ==
  ASSUME NEW R, NEW f \in [Tasks -> Seq(R)], NEW t \in Tasks, NEW v \in R,
         NEW g, Longer(g, f, t, v)
  PROVE  /\ Len(g[t]) = Len(f[t]) + 1 /\ Len(f[t]) \in Nat
         /\ g[t][Len(f[t]) + 1] = v
         /\ DOMAIN f[t] = 1 .. Len(f[t]) /\ DOMAIN g[t] = 1 .. Len(f[t]) + 1
         /\ \A k \in DOMAIN f[t] : g[t][k] = f[t][k]
         /\ \A u \in Tasks \ {t} : g[u] = f[u]
<1>1. f[t] \in Seq(R) /\ Len(f[t]) \in Nat
  OBVIOUS
<1>2. g[t] = Append(f[t], v) /\ \A u \in Tasks \ {t} : g[u] = f[u]
  BY DEF Longer
<1>. QED
  BY <1>1, <1>2

(* Below what is not a page a walk finds nothing.                          *)
LEMMA NothingBelow ==
  ASSUME NEW m, NEW t, NEW a \in Addr, NEW k \in 0 .. 3,
         Node(m, t, a, k) \notin Page
  PROVE  \A j \in 0 .. 4 : j > k => Node(m, t, a, j) = Absent
<1>. DEFINE S == {j \in 0 .. 4 : j > k => Node(m, t, a, j) = Absent}
<1>1. 0 \in S
  OBVIOUS
<1>2. ASSUME NEW j \in 0 .. 3, j \in S PROVE j + 1 \in S
  <2>. SUFFICES ASSUME j + 1 > k PROVE Node(m, t, a, j + 1) = Absent
    OBVIOUS
  <2>1. Node(m, t, a, j) \notin Page
    BY <1>2, Pages
  <2>. QED
    BY <2>1, NodeSteps DEF Step
<1>. HIDE DEF S
<1>3. 0 .. 4 \subseteq S
  BY <1>1, <1>2, Levels
<1>. QED
  BY <1>3 DEF S

(* x is the table of level k that the walk of a for t finds.               *)
At(m, t, a, k, x) == x \in Page /\ x = Node(m, t, a, k)
SameView(m, n) ==
  \A u \in Tasks, b \in Addr : Translate(n, u, b) = Translate(m, u, b)

(* n is m with the table y, or the failed page, linked below x and put on  *)
(* the record of t.                                                        *)
Linked(n, m, t, x, i, y) ==
  /\ n \in Mem /\ n.table[x][i] = y
  /\ \A p \in Page, j \in Index : p # x \/ j # i => n.table[p][j] = m.table[p][j]
  /\ Longer(n.kernel_pages, m.kernel_pages, t, y)
  /\ n.used = m.used /\ n.data = m.data /\ n.struct = m.struct
  /\ n.pgd = m.pgd /\ n.user_pages = m.user_pages /\ n.wild = m.wild

LEMMA TablesGrow ==
  ASSUME NEW m \in Mem, NEW n, NEW t \in Tasks, NEW y \in Page \cup {KernelImage},
         Longer(n.kernel_pages, m.kernel_pages, t, y)
  PROVE  /\ y \in Tables(n, t)
         /\ \A u \in Tasks : Tables(m, u) \subseteq Tables(n, u)
<1>. DEFINE R == Page \cup {KernelImage}
<1>1. m.kernel_pages \in [Tasks -> Seq(R)] /\ y \in R
  BY Fields DEF KernelRecords
<1>. HIDE DEF R
<1>2. PICK l \in Nat :
        /\ DOMAIN m.kernel_pages[t] = 1 .. l
        /\ DOMAIN n.kernel_pages[t] = 1 .. l + 1 /\ n.kernel_pages[t][l + 1] = y
        /\ \A k \in 1 .. l : n.kernel_pages[t][k] = m.kernel_pages[t][k]
        /\ \A u \in Tasks \ {t} : n.kernel_pages[u] = m.kernel_pages[u]
  BY <1>1, LongerBy
<1>3. y \in Tables(n, t)
  BY <1>2 DEF Tables
<1>4. ASSUME NEW u \in Tasks PROVE Tables(m, u) \subseteq Tables(n, u)
  <2>1. CASE u = t
    BY <1>2, <2>1 DEF Tables
  <2>2. CASE u # t
    BY <1>2, <2>2 DEF Tables
  <2>. QED
    BY <2>1, <2>2
<1>. QED
  BY <1>3, <1>4

(* A page that waits to be put on record is nobody's table.                *)
LEMMA WaitingPage ==
  ASSUME NEW m, NEW T, Good(m, T), NEW y \in T \cup {KernelImage},
         NEW t \in Tasks, NEW a \in Addr, NEW k \in 0 .. 3,
         Node(m, t, a, k) \in Page
  PROVE  Node(m, t, a, k) # y
<1>1. Node(m, t, a, k) \in Tables(m, t)
  BY DEF Good, Tree
<1>2. PICK j \in DOMAIN m.kernel_pages[t] : m.kernel_pages[t][j] = Node(m, t, a, k)
  BY <1>1 DEF Tables
<1>3. /\ TableAt(t, j) \in Places(m)
      /\ PageAt(m, TableAt(t, j)) = Node(m, t, a, k)
  BY <1>2, TablePlace
<1>4. Node(m, t, a, k) \in Held(m)
  BY <1>3, Pages DEF Held
<1>. QED
  BY <1>4, Pages DEF Good, Owned

LEMMA LinkTree ==
  ASSUME NEW m, NEW n, NEW T, Good(m, T), NEW t \in Tasks, NEW a \in Addr,
         NEW k \in 0 .. 2, NEW x, At(m, t, a, k, x),
         NEW y \in T \cup {KernelImage}, m.table[x][Path[a][k + 1]] = Absent,
         y \in T => Blank(m, y),
         Linked(n, m, t, x, Path[a][k + 1], y)
  PROVE  /\ Tree(n) /\ Node(n, t, a, k + 1) = y /\ SameView(m, n)
<1>0. x \in Page /\ x = Node(m, t, a, k)
  BY DEF At
<1>1. T \subseteq Page /\ y \in Page \cup {KernelImage} /\ y # x
  <2>1. T \subseteq Page
    BY DEF Good, Owned
  <2>. QED
    BY <1>0, <2>1, WaitingPage
<1>. DEFINE Below(u, b, j) == u = t /\ j > k /\ Agree(a, b, k + 1)
<1>2. ASSUME NEW u \in Tasks, NEW b \in Addr, NEW j \in 0 .. 4
      PROVE  Node(n, u, b, j) = IF Below(u, b, j)
                                THEN IF j = k + 1 THEN y ELSE Absent
                                ELSE Node(m, u, b, j)
  <2>1. k \in 0 .. 3
    OBVIOUS
  <2>2. Tree(m)
    BY DEF Good
  <2>3. EntryIs(n, m, Node(m, t, a, k), Path[a][k + 1], y)
    BY <1>0 DEF Linked, EntryIs
  <2>4. /\ y \in Page /\ k < 3 => y # Node(m, t, a, k) /\ Blank(m, y)
        /\ Node(m, t, a, k) \in Page
    BY <1>0, <1>1, Pages
  <2>5. WalkFinds(n, m, t, a, k, y, u, b)
    BY <2>1, <2>2, <2>3, <2>4, LinkWalk
  <2>. QED
    BY <2>5 DEF WalkFinds
<1>3. Agree(a, a, k + 1)
  BY DEF Agree
<1>4. Node(n, t, a, k + 1) = y
  BY <1>2, <1>3
<1>5. \A u \in Tasks, b \in Addr : \A j \in 0 .. 4 :
        Below(u, b, j) => Node(m, u, b, j) = Absent
  <2>. SUFFICES ASSUME NEW b \in Addr, NEW j \in 0 .. 4, j > k,
                       Agree(a, b, k + 1)
                PROVE  Node(m, t, b, j) = Absent
    OBVIOUS
  <2>1. Node(m, t, a, k + 1) = Absent
    BY <1>0, NodeSteps DEF Step
  <2>2. Node(m, t, b, k + 1) = Absent
    BY <2>1, SamePath
  <2>3. k + 1 \in 0 .. 3 /\ (j = k + 1 \/ j > k + 1)
    OBVIOUS
  <2>. QED
    BY <2>2, <2>3, NothingBelow, Pages
<1>6. \A u \in Tasks, b \in Addr : Node(n, u, b, 4) = Node(m, u, b, 4)
  <2>1. 4 \in 0 .. 4 /\ 4 # k + 1
    OBVIOUS
  <2>. QED
    BY <1>2, <1>5, <2>1
<1>7. /\ y \in Tables(n, t)
      /\ \A u \in Tasks : Tables(m, u) \subseteq Tables(n, u)
  <2>1. m \in Mem /\ Longer(n.kernel_pages, m.kernel_pages, t, y)
    BY DEF Linked, Good
  <2>. QED
    BY <1>1, <2>1, TablesGrow
<1>8. \A u \in Tasks, b \in Addr : \A j \in 0 .. 3 :
        Node(n, u, b, j) \in Page =>
          \/ Node(n, u, b, j) = y /\ u = t /\ j = k + 1 /\ Agree(a, b, k + 1)
          \/ Node(n, u, b, j) # y /\ Node(n, u, b, j) = Node(m, u, b, j)
  <2>. SUFFICES ASSUME NEW u \in Tasks, NEW b \in Addr, NEW j \in 0 .. 3,
                       Node(n, u, b, j) \in Page
                PROVE  \/ /\ Node(n, u, b, j) = y /\ u = t /\ j = k + 1
                          /\ Agree(a, b, k + 1)
                       \/ /\ Node(n, u, b, j) # y
                          /\ Node(n, u, b, j) = Node(m, u, b, j)
    OBVIOUS
  <2>1. j \in 0 .. 4
    OBVIOUS
  <2>2. CASE Below(u, b, j)
    BY <1>2, <2>1, <2>2, Pages
  <2>3. CASE ~Below(u, b, j)
    <3>1. Node(n, u, b, j) = Node(m, u, b, j)
      BY <1>2, <2>1, <2>3
    <3>. QED
      BY <3>1, WaitingPage
  <2>. QED
    BY <2>2, <2>3
<1>. HIDE DEF Below
<1>9. Tree(n)
  <2>1. ASSUME NEW u \in Tasks, NEW b \in Addr
        PROVE  Node(n, u, b, 4) \in Page \cup {Absent}
    BY <1>6 DEF Good, Tree
  <2>2. ASSUME NEW u \in Tasks, NEW b \in Addr, NEW j \in 0 .. 3,
               Node(n, u, b, j) \in Page
        PROVE  Node(n, u, b, j) \in Tables(n, u)
    BY <1>7, <1>8, <2>2 DEF Good, Tree
  <2>3. ASSUME NEW u \in Tasks, NEW b \in Addr, NEW j \in 0 .. 3,
               Node(n, u, b, j) \in Page,
               NEW v \in Tasks, NEW c \in Addr, NEW i \in 0 .. 3,
               Node(n, v, c, i) = Node(n, u, b, j)
        PROVE  v = u /\ i = j /\ Agree(b, c, j)
    <3>1. CASE Node(n, u, b, j) = y
      <4>1. /\ u = t /\ j = k + 1 /\ Agree(a, b, k + 1)
            /\ v = t /\ i = k + 1 /\ Agree(a, c, k + 1)
        BY <1>8, <2>3, <3>1
      <4>. QED
        BY <4>1 DEF Agree
    <3>2. CASE Node(n, u, b, j) # y
      BY <1>8, <2>3, <3>2 DEF Good, Tree
    <3>. QED
      BY <3>1, <3>2
  <2>. QED
    BY <2>1, <2>2, <2>3 DEF Tree
<1>. QED
  BY <1>4, <1>6, <1>9, NodeSteps DEF SameView

LEMMA OwnTable ==
  ASSUME NEW m \in Mem, NEW n, NEW T, Owned(m, T), NEW t \in Tasks,
         NEW y \in T \cup {KernelImage},
         Longer(n.kernel_pages, m.kernel_pages, t, y),
         n.struct = m.struct, n.user_pages = m.user_pages, n.used = m.used
  PROVE  Owned(n, T \ {y})
<1>1. PICK z : Grown(m, n, z, y)
  BY GrownTable
<1>. QED
  BY <1>1, OwnGrow

LEMMA LinkGood ==
  ASSUME NEW m, NEW n, NEW T, Good(m, T), NEW t \in Tasks, NEW a \in Addr,
         NEW k \in 0 .. 2, NEW x, At(m, t, a, k, x),
         NEW y \in T \cup {KernelImage}, m.table[x][Path[a][k + 1]] = Absent,
         y \in T => Blank(m, y), y = KernelImage => m.used = Page,
         Linked(n, m, t, x, Path[a][k + 1], y)
  PROVE  /\ Good(n, T \ {y}) /\ Node(n, t, a, k + 1) = y /\ SameView(m, n)
<1>1. Tree(n) /\ Node(n, t, a, k + 1) = y /\ SameView(m, n)
  BY LinkTree
<1>2. m \in Mem /\ Owned(m, T) /\ Spent(m)
  BY DEF Good
<1>3. n.struct = m.struct /\ n.user_pages = m.user_pages /\ n.used = m.used
  BY DEF Linked
<1>4. Longer(n.kernel_pages, m.kernel_pages, t, y) /\ n \in Mem
  BY DEF Linked
<1>5. Owned(n, T \ {y})
  BY <1>2, <1>3, <1>4, OwnTable
<1>6. Spent(n)
  <2>1. n.wild => n.used = Page
    BY <1>2 DEF Linked, Spent
  <2>2. ASSUME NEW p \in Page, NEW i \in Index, n.table[p][i] = KernelImage
        PROVE  n.used = Page
    <3>1. CASE p = x /\ i = Path[a][k + 1]
      <4>1. y = KernelImage
        BY <2>2, <3>1 DEF Linked
      <4>. QED
        BY <1>3, <4>1
    <3>2. CASE ~(p = x /\ i = Path[a][k + 1])
      <4>1. m.table[p][i] = KernelImage
        BY <2>2, <3>2 DEF Linked
      <4>. QED
        BY <1>2, <1>3, <4>1 DEF Spent
    <3>. QED
      BY <3>1, <3>2
  <2>. QED
    BY <2>1, <2>2 DEF Spent
<1>. QED
  BY <1>1, <1>4, <1>5, <1>6 DEF Good

-----------------------------------------------------------------------------
(* The walk of map_page.                                                   *)

(* What mapping a page for t leaves alone.                                 *)
Kept(m, n, t) ==
  /\ m.used \subseteq n.used /\ (m.wild => n.wild) /\ n.struct = m.struct
  /\ \A u \in Tasks \ {t} : /\ n.pgd[u] = m.pgd[u]
                            /\ n.kernel_pages[u] = m.kernel_pages[u]
  /\ \A p \in m.used : n.data[p] = m.data[p]

(* How many tables the levels up to k may cost, the pgd included.          *)
Cost(m, n, t, k) ==
  /\ n.pgd[t] = KernelImage => m.pgd[t] = KernelImage
  /\ Len(n.kernel_pages[t]) <=
       Len(m.kernel_pages[t]) + (IF n.pgd[t] = KernelImage THEN 1
                                 ELSE IF m.pgd[t] = KernelImage THEN k + 1 ELSE k)

(* From m the walk of a for t has reached table x of level k, in n.        *)
Walking(m, n, t, a, k, x, T) ==
  /\ Good(n, T)
  /\ x \in Page \cup {KernelImage}
  /\ x \in Page => At(n, t, a, k, x) /\ n.pgd[t] # KernelImage
  /\ x = KernelImage => n.used = Page
  /\ Kept(m, n, t) /\ n.user_pages = m.user_pages
  /\ SameView(m, n)
  /\ Cost(m, n, t, k)

LEMMA KeptOn ==
  ASSUME NEW m, NEW n, NEW o, NEW t, Kept(m, n, t), Kept(n, o, t)
  PROVE  Kept(m, o, t)
<1>1. /\ m.used \subseteq n.used /\ n.used \subseteq o.used
      /\ (m.wild => n.wild) /\ (n.wild => o.wild)
      /\ n.struct = m.struct /\ o.struct = n.struct
  BY DEF Kept
<1>2. ASSUME NEW u \in Tasks \ {t}
      PROVE  o.pgd[u] = m.pgd[u] /\ o.kernel_pages[u] = m.kernel_pages[u]
  BY DEF Kept
<1>3. ASSUME NEW p \in m.used PROVE o.data[p] = m.data[p]
  BY DEF Kept
<1>. QED
  BY <1>1, <1>2, <1>3 DEF Kept

(* Writing the pgd of a task that has none.                                *)
RootIs(n, m, t, p) ==
  /\ n \in Mem /\ n.pgd[t] = p /\ \A u \in Tasks \ {t} : n.pgd[u] = m.pgd[u]
  /\ Longer(n.kernel_pages, m.kernel_pages, t, p)
  /\ n.used = m.used /\ n.table = m.table /\ n.data = m.data
  /\ n.struct = m.struct /\ n.user_pages = m.user_pages /\ n.wild = m.wild

RootSet(n, m, t, p) ==
  n = [m EXCEPT !.pgd[t] = p, !.kernel_pages[t] = Append(@, p)]

LEMMA RootFields ==
  ASSUME NEW m \in Mem, NEW t \in Tasks, NEW p \in Page \cup {KernelImage},
         NEW n, RootSet(n, m, t, p)
  PROVE  RootIs(n, m, t, p)
<1>1. PICK pgd \in PageOf : pgd = [m.pgd EXCEPT ![t] = p]
  BY Fields DEF PageOf
<1>2. PICK o : PgdSet(o, m, pgd)
  BY DEF PgdSet
<1>3. /\ o \in Mem /\ o.pgd = pgd
      /\ o.used = m.used /\ o.table = m.table
      /\ o.data = m.data /\ o.struct = m.struct
      /\ o.user_pages = m.user_pages /\ o.kernel_pages = m.kernel_pages
      /\ o.wild = m.wild
  BY <1>1, <1>2, SetPgd
<1>4. TableRecorded(n, o, t, p)
  <2>1. o = [m EXCEPT !.pgd[t] = p]
    BY <1>1, <1>2 DEF PgdSet
  <2>. QED
    BY <2>1 DEF TableRecorded, RootSet
<1>5. /\ n \in Mem
      /\ Longer(n.kernel_pages, o.kernel_pages, t, p)
      /\ n.used = o.used /\ n.table = o.table /\ n.data = o.data
      /\ n.struct = o.struct /\ n.pgd = o.pgd
      /\ n.user_pages = o.user_pages /\ n.wild = o.wild
  BY <1>3, <1>4, RecordTable
<1>6. pgd[t] = p /\ \A u \in Tasks \ {t} : pgd[u] = m.pgd[u]
  BY <1>1, Fields DEF PageOf
<1>7. n.pgd = pgd /\ Longer(n.kernel_pages, m.kernel_pages, t, p)
  BY <1>3, <1>5
<1>. QED
  BY <1>3, <1>5, <1>6, <1>7 DEF RootIs

LEMMA RootGood ==
  ASSUME NEW m, NEW n, NEW T, Good(m, T), NEW t \in Tasks,
         m.pgd[t] = KernelImage, NEW y \in T \cup {KernelImage},
         y \in T => Blank(m, y), y = KernelImage => m.used = Page,
         RootIs(n, m, t, y)
  PROVE  Good(n, T \ {y}) /\ SameView(m, n)
<1>1. m \in Mem /\ Owned(m, T) /\ Tree(m) /\ Spent(m) /\ T \subseteq Page
  BY DEF Good, Owned
<1>2. /\ n \in Mem /\ n.struct = m.struct /\ n.user_pages = m.user_pages
      /\ n.used = m.used /\ n.table = m.table /\ n.wild = m.wild
      /\ Longer(n.kernel_pages, m.kernel_pages, t, y)
      /\ n.pgd[t] = y
  BY DEF RootIs
<1>3. ASSUME NEW b \in Addr
      PROVE  /\ Node(n, t, b, 0) = y /\ Node(m, t, b, 0) = KernelImage
             /\ \A j \in 1 .. 4 : Node(n, t, b, j) = Absent
             /\ \A j \in 1 .. 4 : Node(m, t, b, j) = Absent
  <2>1. Node(n, t, b, 0) = y /\ Node(m, t, b, 0) = KernelImage
    BY <1>2, NodeSteps
  <2>2. \A j \in 1 .. 4 : j \in 0 .. 4 /\ j > 0
    OBVIOUS
  <2>3. \A j \in 1 .. 4 : Node(m, t, b, j) = Absent
    BY <2>1, <2>2, NothingBelow, Pages
  <2>4. Node(n, t, b, 1) = Absent
    <3>1. Node(n, t, b, 0 + 1) = Step(n, y, Path[b][0 + 1])
      BY <2>1, NodeSteps
    <3>2. CASE y \in T
      <4>1. Path[b][0 + 1] \in Index
        BY Paths
      <4>2. n.table[y][Path[b][0 + 1]] = Absent
        BY <1>2, <3>2, <4>1 DEF Blank
      <4>. QED
        BY <3>1, <4>2 DEF Step
    <3>3. CASE y = KernelImage
      BY <3>1, <3>3, Pages DEF Step
    <3>. QED
      BY <3>2, <3>3
  <2>5. \A j \in 1 .. 4 : j = 1 \/ (j \in 0 .. 4 /\ j > 1)
    OBVIOUS
  <2>6. \A j \in 1 .. 4 : Node(n, t, b, j) = Absent
    BY <2>4, <2>5, NothingBelow, Pages
  <2>. QED
    BY <2>1, <2>3, <2>6
<1>4. ASSUME NEW u \in Tasks \ {t}, NEW b \in Addr
      PROVE  \A j \in 0 .. 4 : Node(n, u, b, j) = Node(m, u, b, j)
  <2>1. n.pgd[u] = m.pgd[u]
    BY DEF RootIs
  <2>. QED
    BY <1>2, <2>1, SameWalk
<1>5. SameView(m, n)
  <2>1. 4 \in 1 .. 4 /\ 4 \in 0 .. 4
    OBVIOUS
  <2>2. ASSUME NEW u \in Tasks, NEW b \in Addr
        PROVE  Node(n, u, b, 4) = Node(m, u, b, 4)
    <3>1. CASE u = t
      BY <1>3, <2>1, <3>1
    <3>2. CASE u # t
      BY <1>4, <2>1, <3>2
    <3>. QED
      BY <3>1, <3>2
  <2>. QED
    BY <2>2, NodeSteps DEF SameView
<1>6. /\ y \in Tables(n, t)
      /\ \A u \in Tasks : Tables(m, u) \subseteq Tables(n, u)
  BY <1>1, <1>2, TablesGrow
<1>7. Tree(n)
  <2>1. ASSUME NEW u \in Tasks, NEW b \in Addr
        PROVE  Node(n, u, b, 4) \in Page \cup {Absent}
    <3>1. Node(n, u, b, 4) = Node(m, u, b, 4)
      BY <1>5, NodeSteps DEF SameView
    <3>. QED
      BY <1>1, <3>1 DEF Tree
  <2>2. \A u \in Tasks, b \in Addr : \A j \in 0 .. 3 :
          Node(n, u, b, j) \in Page =>
            \/ Node(n, u, b, j) = y /\ u = t /\ j = 0
            \/ Node(n, u, b, j) # y /\ Node(n, u, b, j) = Node(m, u, b, j)
    <3>. SUFFICES ASSUME NEW u \in Tasks, NEW b \in Addr, NEW j \in 0 .. 3,
                         Node(n, u, b, j) \in Page
                  PROVE  \/ Node(n, u, b, j) = y /\ u = t /\ j = 0
                         \/ /\ Node(n, u, b, j) # y
                            /\ Node(n, u, b, j) = Node(m, u, b, j)
      OBVIOUS
    <3>1. CASE u = t
      <4>1. j = 0 \/ j \in 1 .. 4
        OBVIOUS
      <4>. QED
        BY <1>3, <3>1, <4>1, Pages
    <3>2. CASE u # t
      <4>1. j \in 0 .. 4
        OBVIOUS
      <4>2. Node(n, u, b, j) = Node(m, u, b, j)
        BY <1>4, <3>2, <4>1
      <4>. QED
        BY <4>2, WaitingPage
    <3>. QED
      BY <3>1, <3>2
  <2>3. ASSUME NEW u \in Tasks, NEW b \in Addr, NEW j \in 0 .. 3,
               Node(n, u, b, j) \in Page
        PROVE  Node(n, u, b, j) \in Tables(n, u)
    BY <1>1, <1>6, <2>2, <2>3 DEF Tree
  <2>4. ASSUME NEW u \in Tasks, NEW b \in Addr, NEW j \in 0 .. 3,
               Node(n, u, b, j) \in Page,
               NEW v \in Tasks, NEW c \in Addr, NEW i \in 0 .. 3,
               Node(n, v, c, i) = Node(n, u, b, j)
        PROVE  v = u /\ i = j /\ Agree(b, c, j)
    <3>1. CASE Node(n, u, b, j) = y
      <4>1. u = t /\ j = 0 /\ v = t /\ i = 0
        BY <2>2, <2>4, <3>1
      <4>. QED
        BY <4>1 DEF Agree
    <3>2. CASE Node(n, u, b, j) # y
      BY <1>1, <2>2, <2>4, <3>2 DEF Tree
    <3>. QED
      BY <3>1, <3>2
  <2>. QED
    BY <2>1, <2>3, <2>4 DEF Tree
<1>8. Owned(n, T \ {y})
  BY <1>1, <1>2, OwnTable
<1>9. Spent(n)
  BY <1>1, <1>2 DEF Spent
<1>. QED
  BY <1>2, <1>5, <1>7, <1>8, <1>9 DEF Good

(* One table more on the record of t costs one.                            *)
LEMMA OneMore ==
  ASSUME NEW m \in Mem, NEW n, NEW t \in Tasks, NEW y \in Page \cup {KernelImage},
         Longer(n.kernel_pages, m.kernel_pages, t, y)
  PROVE  /\ Len(m.kernel_pages[t]) \in Nat
         /\ Len(n.kernel_pages[t]) = Len(m.kernel_pages[t]) + 1
         /\ \A u \in Tasks \ {t} : n.kernel_pages[u] = m.kernel_pages[u]
<1>. DEFINE R == Page \cup {KernelImage}
<1>1. m.kernel_pages \in [Tasks -> Seq(R)] /\ y \in R
  BY Fields DEF KernelRecords
<1>. HIDE DEF R
<1>. QED
  BY <1>1, LongerBy

(* get_free_page got p, or failed with p = 0; U is what then waits.        *)
Got(m, o, p, t, T, U) ==
  /\ Good(o, U) /\ U \ {p} = T /\ p \in U \cup {KernelImage}
  /\ p \in U => Blank(o, p) /\ p \in Page \ m.used /\ o.data[p] = 0
  /\ p = KernelImage => m.used = Page /\ o = m
  /\ Kept(m, o, t) /\ SameView(m, o)
  /\ o.pgd = m.pgd /\ o.kernel_pages = m.kernel_pages
  /\ o.user_pages = m.user_pages /\ o.used \subseteq m.used \cup {p}
  /\ \A a \in Addr : \A k \in 0 .. 4 : Node(o, t, a, k) = Node(m, t, a, k)
  /\ \A q \in m.used : o.table[q] = m.table[q]

LEMMA GetPage ==
  ASSUME NEW m, NEW T, Good(m, T), NEW t \in Tasks
  PROVE  \E U : Got(m, Taken(m, FirstFree(m)), FirstFree(m), t, T, U)
<1>1. m.used \subseteq Page /\ T \subseteq m.used
  BY Fields DEF Good, Owned
<1>2. PICK p : p = FirstFree(m)
  OBVIOUS
<1>3. PICK o : IsTaken(o, m, p)
  BY DEF IsTaken
<1>4. CASE p = KernelImage
  <2>1. m.used = Page /\ o = m
    BY <1>1, <1>2, <1>3, <1>4, FirstFreePage DEF IsTaken, Taken
  <2>2. T \ {p} = T
    BY <1>1, <1>4, Pages
  <2>3. Kept(m, m, t) /\ SameView(m, m)
    BY DEF Kept, SameView
  <2>4. Got(m, m, p, t, T, T)
    BY <1>1, <1>4, <2>1, <2>2, <2>3, Pages DEF Got
  <2>. QED
    BY <1>2, <1>3, <2>1, <2>4 DEF IsTaken
<1>5. CASE p # KernelImage
  <2>1. p \in Page /\ p \notin m.used
    BY <1>1, <1>2, <1>5, FirstFreePage
  <2>2. Good(o, T \cup {p}) /\ Took(m, o, p)
    BY <1>3, <2>1, TakePageGood
  <2>3. (T \cup {p}) \ {p} = T
    BY <1>1, <2>1
  <2>4. /\ Blank(o, p) /\ o.data[p] = 0
        /\ \A q \in m.used : o.table[q] = m.table[q] /\ o.data[q] = m.data[q]
    BY <1>1, <2>1, <2>2 DEF Took, Blank
  <2>5. /\ o.used = m.used \cup {p} /\ o.wild = m.wild
        /\ o.struct = m.struct /\ o.pgd = m.pgd
        /\ o.user_pages = m.user_pages /\ o.kernel_pages = m.kernel_pages
    BY <2>2 DEF Took
  <2>6. \A u \in Tasks, a \in Addr : \A k \in 0 .. 4 :
          Node(o, u, a, k) = Node(m, u, a, k)
    BY <2>2 DEF Took
  <2>7. SameView(m, o)
    <3>1. 4 \in 0 .. 4
      OBVIOUS
    <3>. QED
      BY <2>6, <3>1, NodeSteps DEF SameView
  <2>8. Kept(m, o, t)
    BY <2>4, <2>5 DEF Kept
  <2>9. Got(m, o, p, t, T, T \cup {p})
    BY <1>5, <2>1, <2>2, <2>3, <2>4, <2>5, <2>6, <2>7, <2>8 DEF Got
  <2>. QED
    BY <1>2, <1>3, <2>9 DEF IsTaken
<1>. QED
  BY <1>4, <1>5

LEMMA SameViewOn ==
  ASSUME NEW m, NEW n, NEW o, SameView(m, n), SameView(n, o)
  PROVE  SameView(m, o)
BY DEF SameView

LEMMA Root ==
  ASSUME NEW m, NEW T, Good(m, T), NEW t \in Tasks, NEW a \in Addr,
         NEW n, n = WithPgd(m, t)
  PROVE  Walking(m, n, t, a, 0, n.pgd[t], T)
<1>0. m \in Mem /\ m.pgd[t] \in Page \cup {KernelImage}
      /\ Len(m.kernel_pages[t]) \in Nat
  <2>1. m \in Mem
    BY DEF Good
  <2>. QED
    BY <2>1, Fields DEF PageOf, KernelRecords
<1>1. CASE m.pgd[t] # KernelImage
  <2>1. n = m
    BY <1>1 DEF WithPgd
  <2>2. At(m, t, a, 0, m.pgd[t])
    BY <1>0, <1>1, NodeSteps DEF At
  <2>3. Kept(m, m, t) /\ SameView(m, m) /\ Cost(m, m, t, 0)
    BY <1>0, <1>1 DEF Kept, SameView, Cost
  <2>4. Walking(m, m, t, a, 0, m.pgd[t], T)
    BY <1>0, <1>1, <2>2, <2>3 DEF Walking
  <2>. QED
    BY <2>1, <2>4
<1>2. CASE m.pgd[t] = KernelImage
  <2>1. PICK p, o : p = FirstFree(m) /\ o = Taken(m, p)
    OBVIOUS
  <2>2. PICK U : Got(m, o, p, t, T, U)
    BY <2>1, GetPage
  <2>3. RootSet(n, o, t, p)
    BY <1>2, <2>1 DEF WithPgd, RootSet
  <2>4. o \in Mem /\ p \in Page \cup {KernelImage} /\ o.pgd[t] = KernelImage
    BY <1>2, <2>2 DEF Got, Good, Owned
  <2>5. RootIs(n, o, t, p)
    BY <2>3, <2>4, RootFields
  <2>6. Good(n, T) /\ SameView(o, n)
    <3>1. /\ Good(o, U) /\ p \in U \cup {KernelImage}
          /\ p \in U => Blank(o, p)
          /\ p = KernelImage => o.used = Page
          /\ U \ {p} = T
      BY <2>2 DEF Got
    <3>. QED
      BY <2>4, <2>5, <3>1, RootGood
  <2>7. SameView(m, n)
    BY <2>2, <2>6, SameViewOn DEF Got
  <2>8. Kept(m, n, t)
    <3>1. \A u \in Tasks \ {t} : n.kernel_pages[u] = o.kernel_pages[u]
      BY <2>4, <2>5, OneMore DEF RootIs
    <3>2. Kept(o, n, t)
      BY <2>5, <3>1 DEF Kept, RootIs
    <3>. QED
      BY <2>2, <3>2, KeptOn DEF Got
  <2>9. n.user_pages = m.user_pages /\ n.pgd[t] = p
    BY <2>2, <2>5 DEF RootIs, Got
  <2>10. Cost(m, n, t, 0)
    <3>1. Len(n.kernel_pages[t]) = Len(o.kernel_pages[t]) + 1
      BY <2>4, <2>5, OneMore DEF RootIs
    <3>2. Len(n.kernel_pages[t]) = Len(m.kernel_pages[t]) + 1
      BY <2>2, <3>1 DEF Got
    <3>. QED
      BY <1>0, <1>2, <3>2 DEF Cost
  <2>11. p \in Page => At(n, t, a, 0, p)
    BY <2>9, NodeSteps DEF At
  <2>12. p = KernelImage => n.used = Page
    BY <2>2, <2>5 DEF Got, RootIs
  <2>13. Walking(m, n, t, a, 0, p, T)
    BY <2>4, <2>6, <2>7, <2>8, <2>9, <2>10, <2>11, <2>12, Pages DEF Walking
  <2>. QED
    BY <2>9, <2>13
<1>. QED
  BY <1>1, <1>2

LEMMA WildGood ==
  ASSUME NEW l, NEW o, NEW T, Good(l, T), l.used = Page, NEW t \in Tasks,
         WildSet(o, l, TRUE)
  PROVE  /\ Good(o, T) /\ SameView(l, o) /\ Kept(l, o, t)
         /\ o.used = Page /\ o.pgd = l.pgd /\ o.user_pages = l.user_pages
         /\ o.kernel_pages = l.kernel_pages /\ o.data = l.data /\ o.wild
<1>1. l \in Mem /\ Owned(l, T) /\ Tree(l)
  BY DEF Good
<1>2. /\ o \in Mem /\ o.wild = TRUE
      /\ o.used = l.used /\ o.table = l.table
      /\ o.data = l.data /\ o.struct = l.struct
      /\ o.pgd = l.pgd /\ o.user_pages = l.user_pages
      /\ o.kernel_pages = l.kernel_pages
  BY <1>1, SetWild
<1>3. ASSUME NEW u \in Tasks, NEW b \in Addr
      PROVE  \A k \in 0 .. 4 : Node(o, u, b, k) = Node(l, u, b, k)
  BY <1>2, SameWalk
<1>4. Tree(o)
  <2>1. \A u \in Tasks : Tables(o, u) = Tables(l, u)
    BY <1>2 DEF Tables
  <2>. QED
    BY <1>1, <1>3, <2>1, SameTree
<1>5. Owned(o, T)
  <2>1. SamePlaces(l, o)
    BY <1>2 DEF SamePlaces
  <2>. QED
    BY <1>1, <1>2, <2>1, OwnSame
<1>6. SameView(l, o)
  <2>1. 4 \in 0 .. 4
    OBVIOUS
  <2>. QED
    BY <1>3, <2>1, NodeSteps DEF SameView
<1>7. Kept(l, o, t)
  BY <1>2 DEF Kept
<1>8. Spent(o)
  BY <1>2 DEF Spent
<1>. QED
  BY <1>2, <1>4, <1>5, <1>6, <1>7, <1>8 DEF Good

(* From level k the walk gets to level k + 1.                              *)
Reaches(m, l, x, t, a, k, T) ==
  \E n, y : /\ MapTable([m |-> l, table |-> x], t, Path[a][k + 1]) =
                 [m |-> n, table |-> y]
            /\ Walking(m, n, t, a, k + 1, y, T)

LEMMA Level ==
  ASSUME NEW m \in Mem, NEW T, NEW t \in Tasks, NEW a \in Addr, NEW k \in 0 .. 2,
         NEW l, NEW x, Walking(m, l, t, a, k, x, T)
  PROVE  Reaches(m, l, x, t, a, k, T)
<1>. DEFINE i == Path[a][k + 1]
            w == [m |-> l, table |-> x]
<1>1. /\ Good(l, T) /\ l \in Mem /\ i \in Index
      /\ Kept(m, l, t) /\ SameView(m, l) /\ Cost(m, l, t, k)
      /\ l.user_pages = m.user_pages
      /\ x \in Page \cup {KernelImage}
  BY Paths DEF Walking, Good
<1>2. Len(m.kernel_pages[t]) \in Nat /\ Len(l.kernel_pages[t]) \in Nat
  BY <1>1, Fields DEF KernelRecords
<1>3. w.m = l /\ w.table = x
  OBVIOUS
<1>4. Cost(m, l, t, k + 1)
  <2>1. PICK c \in Nat, d \in Nat :
          c = Len(m.kernel_pages[t]) /\ d = Len(l.kernel_pages[t])
    BY <1>2
  <2>2. /\ l.pgd[t] = KernelImage => m.pgd[t] = KernelImage
        /\ d <= c + (IF l.pgd[t] = KernelImage THEN 1
                     ELSE IF m.pgd[t] = KernelImage THEN k + 1 ELSE k)
    BY <1>1, <2>1 DEF Cost
  <2>3. d <= c + (IF l.pgd[t] = KernelImage THEN 1
                  ELSE IF m.pgd[t] = KernelImage THEN k + 1 + 1 ELSE k + 1)
    BY <2>2
  <2>. QED
    BY <2>1, <2>2, <2>3 DEF Cost
<1>. HIDE DEF i
<1>5. CASE x = KernelImage
  <2>1. PICK n : WildSet(n, l, TRUE)
    BY DEF WildSet
  <2>2. MapTable(w, t, i) = [m |-> n, table |-> x]
    BY <1>5, <2>1 DEF MapTable, WildSet
  <2>3. /\ Good(n, T) /\ SameView(l, n) /\ Kept(l, n, t)
        /\ n.used = Page /\ n.pgd = l.pgd /\ n.user_pages = l.user_pages
        /\ n.kernel_pages = l.kernel_pages
    BY <1>1, <1>5, <2>1, WildGood DEF Walking
  <2>4. Cost(m, n, t, k + 1)
    BY <1>4, <2>3 DEF Cost
  <2>5. SameView(m, n) /\ Kept(m, n, t)
    BY <1>1, <2>3, SameViewOn, KeptOn
  <2>6. Walking(m, n, t, a, k + 1, x, T)
    BY <1>1, <1>5, <2>3, <2>4, <2>5, Pages DEF Walking
  <2>. QED
    BY <2>2, <2>6 DEF Reaches, i
<1>6. CASE x \in Page /\ l.table[x][i] # Absent
  <2>1. PICK y : y = l.table[x][i]
    OBVIOUS
  <2>2. MapTable(w, t, i) = [m |-> l, table |-> y]
    BY <1>6, <2>1, Pages DEF MapTable
  <2>3. y \in Page \cup {KernelImage}
    BY <1>1, <1>6, <2>1, Fields DEF Entries
  <2>4. At(l, t, a, k, x) /\ l.pgd[t] # KernelImage
    BY <1>6 DEF Walking
  <2>5. Node(l, t, a, k + 1) = y
    <3>1. Node(l, t, a, k + 1) = Step(l, Node(l, t, a, k), Path[a][k + 1])
      BY NodeSteps
    <3>. QED
      BY <1>6, <2>1, <2>4, <3>1 DEF Step, At, i
  <2>6. y = KernelImage => l.used = Page
    BY <1>1, <1>6, <2>1 DEF Good, Spent
  <2>7. Walking(m, l, t, a, k + 1, y, T)
    BY <1>1, <1>4, <2>3, <2>4, <2>5, <2>6 DEF Walking, At
  <2>. QED
    BY <2>2, <2>7 DEF Reaches, i
<1>7. CASE x \in Page /\ l.table[x][i] = Absent
  <2>1. PICK p, o : p = FirstFree(l) /\ o = Taken(l, p)
    OBVIOUS
  <2>2. PICK U : Got(l, o, p, t, T, U)
    BY <1>1, <2>1, GetPage
  <2>3. /\ Good(o, U) /\ o \in Mem /\ U \subseteq Page
        /\ p \in Page \cup {KernelImage}
    BY <2>2 DEF Got, Good, Owned
  <2>4. PICK q, n : EntrySet(q, o, x, i, p) /\ TableRecorded(n, q, t, p)
    BY DEF EntrySet, TableRecorded
  <2>5. MapTable(w, t, i) = [m |-> n, table |-> p]
    BY <1>7, <2>1, <2>4, Pages DEF MapTable, EntrySet, TableRecorded
  <2>6. Linked(n, o, t, x, i, p)
    <3>1. /\ q \in Mem /\ q.table[x][i] = p
          /\ \A r \in Page, j \in Index :
               r # x \/ j # i => q.table[r][j] = o.table[r][j]
          /\ q.used = o.used /\ q.data = o.data /\ q.struct = o.struct
          /\ q.pgd = o.pgd /\ q.user_pages = o.user_pages
          /\ q.kernel_pages = o.kernel_pages /\ q.wild = o.wild
      <4>1. /\ o \in Mem /\ x \in Page /\ i \in Index
            /\ p \in Page \cup {KernelImage}
        BY <1>1, <1>7, <2>3
      <4>2. EntrySet(q, o, x, i, p)
        BY <2>4
      <4>3. q \in Mem /\ q.table[x][i] = p
        BY <4>1, <4>2, EntryFields
      <4>4. \A r \in Page, j \in Index :
               r # x \/ j # i => q.table[r][j] = o.table[r][j]
        BY <4>1, <4>2, EntryFields
      <4>5. /\ q.used = o.used /\ q.data = o.data /\ q.struct = o.struct
            /\ q.pgd = o.pgd /\ q.user_pages = o.user_pages
            /\ q.kernel_pages = o.kernel_pages /\ q.wild = o.wild
        BY <4>1, <4>2, EntryFields
      <4>. QED
        BY <4>3, <4>4, <4>5
    <3>2. /\ n \in Mem
          /\ Longer(n.kernel_pages, q.kernel_pages, t, p)
          /\ n.used = q.used /\ n.table = q.table /\ n.data = q.data
          /\ n.struct = q.struct /\ n.pgd = q.pgd
          /\ n.user_pages = q.user_pages /\ n.wild = q.wild
      BY <2>3, <2>4, <3>1, RecordTable
    <3>3. Longer(n.kernel_pages, o.kernel_pages, t, p)
      BY <3>1, <3>2
    <3>. QED
      BY <3>1, <3>2, <3>3 DEF Linked
  <2>7. At(l, t, a, k, x) /\ l.pgd[t] # KernelImage
    BY <1>7 DEF Walking
  <2>8. At(o, t, a, k, x)
    <3>1. k \in 0 .. 4
      OBVIOUS
    <3>. QED
      BY <2>2, <2>7, <3>1 DEF Got, At
  <2>9. o.table[x][Path[a][k + 1]] = Absent
    <3>1. x \in l.used
      <4>1. k \in 0 .. 3
        OBVIOUS
      <4>. QED
        BY <1>1, <2>7, <4>1, TablesUsed DEF At
    <3>. QED
      BY <1>7, <2>2, <3>1 DEF Got, i
  <2>10. Good(n, T) /\ Node(n, t, a, k + 1) = p /\ SameView(o, n)
    <3>1. /\ p \in U \cup {KernelImage}
          /\ p \in U => Blank(o, p)
          /\ p = KernelImage => o.used = Page
          /\ U \ {p} = T
      BY <2>2 DEF Got
    <3>2. Linked(n, o, t, x, Path[a][k + 1], p)
      BY <2>6 DEF i
    <3>3. Good(n, U \ {p}) /\ Node(n, t, a, k + 1) = p /\ SameView(o, n)
      BY <2>3, <2>8, <2>9, <3>1, <3>2, LinkGood
    <3>. QED
      BY <3>1, <3>3
  <2>11. /\ Len(n.kernel_pages[t]) = Len(o.kernel_pages[t]) + 1
         /\ \A u \in Tasks \ {t} : n.kernel_pages[u] = o.kernel_pages[u]
    BY <2>3, <2>6, OneMore DEF Linked
  <2>12. Kept(m, n, t) /\ SameView(m, n)
    <3>1. Kept(o, n, t)
      BY <2>6, <2>11 DEF Kept, Linked
    <3>2. Kept(l, o, t) /\ SameView(l, o)
      BY <2>2 DEF Got
    <3>. QED
      BY <1>1, <2>10, <3>1, <3>2, KeptOn, SameViewOn
  <2>13. n.pgd[t] = l.pgd[t] /\ n.user_pages = m.user_pages
    BY <1>1, <2>2, <2>6 DEF Linked, Got
  <2>14. Cost(m, n, t, k + 1)
    <3>1. Len(n.kernel_pages[t]) = Len(l.kernel_pages[t]) + 1
      BY <2>2, <2>11 DEF Got
    <3>2. PICK c \in Nat, d \in Nat :
            c = Len(m.kernel_pages[t]) /\ d = Len(l.kernel_pages[t])
      BY <1>2
    <3>3. d <= c + (IF m.pgd[t] = KernelImage THEN k + 1 ELSE k)
      BY <1>1, <2>7, <3>2 DEF Cost
    <3>4. d + 1 <= c + (IF m.pgd[t] = KernelImage THEN k + 1 + 1 ELSE k + 1)
      BY <3>3
    <3>5. Len(n.kernel_pages[t]) = d + 1 /\ n.pgd[t] # KernelImage
      BY <2>7, <2>13, <3>1, <3>2
    <3>. QED
      BY <3>2, <3>4, <3>5 DEF Cost
  <2>15. p = KernelImage => n.used = Page
    BY <2>2, <2>6 DEF Got, Linked
  <2>16. Walking(m, n, t, a, k + 1, p, T)
    BY <2>3, <2>7, <2>10, <2>12, <2>13, <2>14, <2>15 DEF Walking, At
  <2>. QED
    BY <2>5, <2>16 DEF Reaches, i
<1>. QED
  BY <1>1, <1>5, <1>6, <1>7

-----------------------------------------------------------------------------
(* map_page.                                                               *)

(* What map_page makes of p at address a of t.                             *)
Mapped(m, n, t, a, p, T) ==
  /\ Good(n, T \ {p}) /\ Kept(m, n, t) /\ Cost(m, n, t, 3)
  /\ \A u \in Tasks, b \in Addr :
       u # t \/ b # a => Translate(n, u, b) = Translate(m, u, b)
  /\ Translate(n, t, a) = p \/ (n.wild /\ Translate(n, t, a) = Absent)
  /\ Longer(n.user_pages, m.user_pages, t, [pa |-> p, va |-> a])

(* The same before the page is put on record.                              *)
Entered(l, o, t, a, p, T) ==
  /\ Good(o, T) /\ Kept(l, o, t)
  /\ o.pgd = l.pgd /\ o.kernel_pages = l.kernel_pages
  /\ o.user_pages = l.user_pages
  /\ \A u \in Tasks, b \in Addr :
       u # t \/ b # a => Translate(o, u, b) = Translate(l, u, b)
  /\ Translate(o, t, a) = p \/ (o.wild /\ Translate(o, t, a) = Absent)

LEMMA Leaf ==
  ASSUME NEW l, NEW o, NEW T, Good(l, T), NEW t \in Tasks, NEW a \in Addr,
         NEW p \in T, NEW x, At(l, t, a, 3, x), EntrySet(o, l, x, Path[a][4], p)
  PROVE  Entered(l, o, t, a, p, T)
<1>1. /\ l \in Mem /\ Owned(l, T) /\ Tree(l) /\ Spent(l) /\ p \in Page
      /\ x \in Page /\ Path[a][4] \in Index
  BY Paths DEF Good, Owned, At
<1>2. /\ o \in Mem /\ o.table[x][Path[a][4]] = p
      /\ \A q \in Page, j \in Index :
           q # x \/ j # Path[a][4] => o.table[q][j] = l.table[q][j]
      /\ o.used = l.used /\ o.data = l.data /\ o.struct = l.struct
      /\ o.pgd = l.pgd /\ o.user_pages = l.user_pages
      /\ o.kernel_pages = l.kernel_pages /\ o.wild = l.wild
  BY <1>1, EntryFields
<1>3. ASSUME NEW u \in Tasks, NEW b \in Addr
      PROVE  WalkFinds(o, l, t, a, 3, p, u, b)
  <2>1. EntryIs(o, l, x, Path[a][3 + 1], p)
    BY <1>2 DEF EntryIs
  <2>2. Node(l, t, a, 3) \in Page /\ EntryIs(o, l, Node(l, t, a, 3), Path[a][3 + 1], p)
    BY <2>1 DEF At
  <2>3. 3 \in 0 .. 3 /\ ~(3 < 3)
    OBVIOUS
  <2>. QED
    BY <1>1, <2>2, <2>3, LinkWalk
<1>4. \A b \in Addr : Agree(a, b, 4) <=> b = a
  <2>1. ASSUME NEW b \in Addr, Agree(a, b, 4) PROVE b = a
    <3>1. /\ Path[a] \in Seq(Nat) /\ Len(Path[a]) = 4
          /\ Path[b] \in Seq(Nat) /\ Len(Path[b]) = 4
      BY MmAssumption
    <3>2. \A i \in 1 .. 4 : Path[a][i] = Path[b][i]
      BY <2>1 DEF Agree
    <3>3. PICK f \in Seq(Nat), g \in Seq(Nat) :
            f = Path[a] /\ g = Path[b] /\ Len(f) = 4 /\ Len(g) = 4
      BY <3>1
    <3>4. f = g
      BY <3>2, <3>3, SeqEqual
    <3>5. Path[a] = Path[b]
      BY <3>3, <3>4
    <3>. QED
      BY <3>5, MmAssumption
  <2>. QED
    BY <2>1 DEF Agree
<1>5. ASSUME NEW u \in Tasks, NEW b \in Addr
      PROVE  /\ \A j \in 0 .. 3 : Node(o, u, b, j) = Node(l, u, b, j)
             /\ Node(o, u, b, 4) =
                  IF u = t /\ b = a THEN p ELSE Node(l, u, b, 4)
  <2>1. /\ \A j \in 0 .. 3 : j \in 0 .. 4 /\ ~(j > 3)
        /\ 4 \in 0 .. 4 /\ 4 > 3 /\ 4 = 3 + 1
    OBVIOUS
  <2>2. \A j \in 0 .. 3 : Node(o, u, b, j) = Node(l, u, b, j)
    BY <1>3, <2>1 DEF WalkFinds
  <2>3. Node(o, u, b, 4) = IF u = t /\ Agree(a, b, 4) THEN p ELSE Node(l, u, b, 4)
    BY <1>3, <2>1 DEF WalkFinds
  <2>. QED
    BY <1>4, <2>2, <2>3
<1>6. Tree(o)
  <2>1. ASSUME NEW u \in Tasks, NEW b \in Addr
        PROVE  Node(o, u, b, 4) \in Page \cup {Absent}
    BY <1>1, <1>5 DEF Tree
  <2>2. \A u \in Tasks : Tables(o, u) = Tables(l, u)
    BY <1>2 DEF Tables
  <2>3. ASSUME NEW u \in Tasks, NEW b \in Addr, NEW j \in 0 .. 3,
               Node(o, u, b, j) \in Page
        PROVE  /\ Node(o, u, b, j) \in Tables(o, u)
               /\ \A v \in Tasks, c \in Addr : \A i \in 0 .. 3 :
                    Node(o, v, c, i) = Node(o, u, b, j) =>
                      v = u /\ i = j /\ Agree(b, c, j)
    <3>1. \A v \in Tasks, c \in Addr : \A i \in 0 .. 3 :
            Node(o, v, c, i) = Node(l, v, c, i)
      BY <1>5
    <3>. QED
      BY <1>1, <2>2, <2>3, <3>1 DEF Tree
  <2>. QED
    BY <2>1, <2>3 DEF Tree
<1>7. Owned(o, T)
  <2>1. SamePlaces(l, o)
    BY <1>2 DEF SamePlaces
  <2>. QED
    BY <1>1, <1>2, <2>1, OwnSame
<1>8. Spent(o)
  <2>1. o.wild => o.used = Page
    BY <1>1, <1>2 DEF Spent
  <2>2. ASSUME NEW q \in Page, NEW j \in Index, o.table[q][j] = KernelImage
        PROVE  o.used = Page
    BY <1>1, <1>2, <2>2, Pages DEF Spent
  <2>. QED
    BY <2>1, <2>2 DEF Spent
<1>9. Good(o, T)
  BY <1>2, <1>6, <1>7, <1>8 DEF Good
<1>10. Kept(l, o, t)
  BY <1>2 DEF Kept
<1>11. /\ \A u \in Tasks, b \in Addr :
            u # t \/ b # a => Translate(o, u, b) = Translate(l, u, b)
       /\ Translate(o, t, a) = p
  BY <1>5, NodeSteps
<1>. QED
  BY <1>2, <1>9, <1>10, <1>11 DEF Entered

LEMMA Entry ==
  ASSUME NEW m, NEW l, NEW x, NEW T, NEW t \in Tasks, NEW a \in Addr,
         NEW p \in T, Walking(m, l, t, a, 3, x, T), Translate(m, t, a) = Absent,
         NEW o, o = MapTableEntry([m |-> l, table |-> x], a, p)
  PROVE  Entered(l, o, t, a, p, T)
<1>1. x \in Page \cup {KernelImage}
  BY DEF Walking
<1>2. CASE x = KernelImage
  <2>1. WildSet(o, l, TRUE)
    BY <1>2 DEF MapTableEntry, WildSet
  <2>2. Good(l, T) /\ l.used = Page /\ Translate(l, t, a) = Absent
    BY <1>2 DEF Walking, SameView
  <2>3. /\ Good(o, T) /\ SameView(l, o) /\ Kept(l, o, t)
        /\ o.pgd = l.pgd /\ o.user_pages = l.user_pages
        /\ o.kernel_pages = l.kernel_pages /\ o.wild
    BY <2>1, <2>2, WildGood
  <2>. QED
    BY <2>2, <2>3 DEF Entered, SameView
<1>3. CASE x \in Page
  <2>1. EntrySet(o, l, x, Path[a][4], p)
    BY <1>3, Pages DEF MapTableEntry, EntrySet
  <2>2. At(l, t, a, 3, x) /\ Good(l, T)
    BY <1>3 DEF Walking
  <2>. QED
    BY <2>1, <2>2, Leaf
<1>. QED
  BY <1>1, <1>2, <1>3

(* The same fields of the page tables give the same walks.                 *)
LEMMA SameTables ==
  ASSUME NEW o, NEW n, n.table = o.table, n.pgd = o.pgd,
         n.kernel_pages = o.kernel_pages, n.used = o.used, n.wild = o.wild
  PROVE  SameView(o, n) /\ (Tree(o) => Tree(n)) /\ (Spent(o) => Spent(n))
<1>1. ASSUME NEW u \in Tasks, NEW b \in Addr
      PROVE  \A k \in 0 .. 4 : Node(n, u, b, k) = Node(o, u, b, k)
  BY SameWalk
<1>2. SameView(o, n)
  <2>1. 4 \in 0 .. 4
    OBVIOUS
  <2>. QED
    BY <1>1, <2>1, NodeSteps DEF SameView
<1>3. \A u \in Tasks : Tables(n, u) = Tables(o, u)
  BY DEF Tables
<1>4. Tree(o) => Tree(n)
  BY <1>1, <1>3, SameTree
<1>. QED
  BY <1>2, <1>4 DEF Spent

LEMMA Record ==
  ASSUME NEW o, NEW n, NEW T, Good(o, T), NEW t \in Tasks, NEW a \in Addr,
         NEW p \in T, IsRecorded(n, o, t, a, p)
  PROVE  /\ Good(n, T \ {p}) /\ Kept(o, n, t) /\ SameView(o, n)
         /\ n.pgd = o.pgd /\ n.kernel_pages = o.kernel_pages
         /\ Longer(n.user_pages, o.user_pages, t, [pa |-> p, va |-> a])
         /\ n.wild = o.wild
<1>1. o \in Mem /\ Owned(o, T) /\ Tree(o) /\ Spent(o) /\ p \in Page
  BY DEF Good, Owned
<1>2. /\ n \in Mem
      /\ Longer(n.user_pages, o.user_pages, t, [pa |-> p, va |-> a])
      /\ n.used = o.used /\ n.table = o.table /\ n.data = o.data
      /\ n.struct = o.struct /\ n.pgd = o.pgd
      /\ n.kernel_pages = o.kernel_pages /\ n.wild = o.wild
  BY <1>1, RecordedFields
<1>3. PICK z : Grown(o, n, z, p)
  BY <1>1, <1>2, GrownUser
<1>4. Owned(n, T \ {p})
  BY <1>1, <1>2, <1>3, OwnGrow
<1>5. SameView(o, n) /\ Tree(n) /\ Spent(n)
  BY <1>1, <1>2, SameTables
<1>6. Kept(o, n, t)
  BY <1>2 DEF Kept
<1>. QED
  BY <1>2, <1>4, <1>5, <1>6 DEF Good

LEMMA MapPageGood ==
  ASSUME NEW m, NEW T, Good(m, T), NEW t \in Tasks, NEW a \in Addr,
         NEW p \in T, Translate(m, t, a) = Absent,
         NEW n, n = MapPage(m, t, a, p)
  PROVE  Mapped(m, n, t, a, p, T)
<1>1. m \in Mem
  BY DEF Good
<1>2. PICK r, x : r = WithPgd(m, t) /\ x = r.pgd[t]
  OBVIOUS
<1>3. Walking(m, r, t, a, 0, x, T)
  BY <1>2, Root
<1>4. PICK l1, y1 :
        /\ MapTable([m |-> r, table |-> x], t, Path[a][1]) =
             [m |-> l1, table |-> y1]
        /\ Walking(m, l1, t, a, 1, y1, T)
  <2>1. 0 \in 0 .. 2 /\ 0 + 1 = 1
    OBVIOUS
  <2>2. Reaches(m, r, x, t, a, 0, T)
    BY <1>1, <1>3, <2>1, Level
  <2>. QED
    BY <2>1, <2>2 DEF Reaches
<1>5. PICK l2, y2 :
        /\ MapTable([m |-> l1, table |-> y1], t, Path[a][2]) =
             [m |-> l2, table |-> y2]
        /\ Walking(m, l2, t, a, 2, y2, T)
  <2>1. 1 \in 0 .. 2 /\ 1 + 1 = 2
    OBVIOUS
  <2>2. Reaches(m, l1, y1, t, a, 1, T)
    BY <1>1, <1>4, <2>1, Level
  <2>. QED
    BY <2>1, <2>2 DEF Reaches
<1>6. PICK l, y :
        /\ MapTable([m |-> l2, table |-> y2], t, Path[a][3]) =
             [m |-> l, table |-> y]
        /\ Walking(m, l, t, a, 3, y, T)
  <2>1. 2 \in 0 .. 2 /\ 2 + 1 = 3
    OBVIOUS
  <2>2. Reaches(m, l2, y2, t, a, 2, T)
    BY <1>1, <1>5, <2>1, Level
  <2>. QED
    BY <2>1, <2>2 DEF Reaches
<1>7. PICK o : o = MapTableEntry([m |-> l, table |-> y], a, p)
  OBVIOUS
<1>8. Entered(l, o, t, a, p, T)
  BY <1>6, <1>7, Entry
<1>9. IsRecorded(n, o, t, a, p)
  BY <1>2, <1>4, <1>5, <1>6, <1>7 DEF MapPage, IsRecorded
<1>10. /\ Good(n, T \ {p}) /\ Kept(o, n, t) /\ SameView(o, n)
       /\ n.pgd = o.pgd /\ n.kernel_pages = o.kernel_pages
       /\ Longer(n.user_pages, o.user_pages, t, [pa |-> p, va |-> a])
       /\ n.wild = o.wild
  BY <1>8, <1>9, Record DEF Entered
<1>11. /\ Kept(m, l, t) /\ SameView(m, l) /\ Cost(m, l, t, 3)
       /\ l.user_pages = m.user_pages
  BY <1>6 DEF Walking
<1>12. Kept(m, n, t)
  <2>1. Kept(l, o, t)
    BY <1>8 DEF Entered
  <2>2. Kept(m, o, t)
    BY <1>11, <2>1, KeptOn
  <2>. QED
    BY <1>10, <2>2, KeptOn
<1>13. Cost(m, n, t, 3)
  <2>1. n.pgd = l.pgd /\ n.kernel_pages = l.kernel_pages
    BY <1>8, <1>10 DEF Entered
  <2>. QED
    BY <1>11, <2>1 DEF Cost
<1>14. Longer(n.user_pages, m.user_pages, t, [pa |-> p, va |-> a])
  <2>1. o.user_pages = m.user_pages
    BY <1>8, <1>11 DEF Entered
  <2>. QED
    BY <1>10, <2>1
<1>15. \A u \in Tasks, b \in Addr :
         u # t \/ b # a => Translate(n, u, b) = Translate(m, u, b)
  BY <1>8, <1>10, <1>11 DEF Entered, SameView
<1>16. Translate(n, t, a) = p \/ (n.wild /\ Translate(n, t, a) = Absent)
  BY <1>8, <1>10 DEF Entered, SameView
<1>. QED
  BY <1>10, <1>12, <1>13, <1>14, <1>15, <1>16 DEF Mapped

(* What map_page adds to the l records of t.                               *)
OneRecord(m, n, t, a, p, l) ==
  /\ l \in Nat
  /\ l = Len(m.user_pages[t]) /\ Len(n.user_pages[t]) = l + 1
  /\ DOMAIN m.user_pages[t] = 1 .. l
  /\ DOMAIN n.user_pages[t] = 1 .. l + 1
  /\ n.user_pages[t][l + 1].pa = p /\ n.user_pages[t][l + 1].va = a
  /\ \A k \in 1 .. l : n.user_pages[t][k] = m.user_pages[t][k]
  /\ \A u \in Tasks \ {t} : n.user_pages[u] = m.user_pages[u]

LEMMA MappedRecords ==
  ASSUME NEW m \in Mem, NEW n, NEW T, NEW t \in Tasks, NEW a \in Addr,
         NEW p \in Page, Mapped(m, n, t, a, p, T)
  PROVE  OneRecord(m, n, t, a, p, Len(m.user_pages[t]))
<1>. DEFINE R == [pa : Page, va : Addr]
<1>0. PICK v : v = [pa |-> p, va |-> a]
  OBVIOUS
<1>1. v = [pa |-> p, va |-> a] /\ v.pa = p /\ v.va = a
  BY <1>0
<1>2. m.user_pages \in [Tasks -> Seq(R)] /\ v \in R
  BY <1>1, Fields DEF UserRecords
<1>3. Longer(n.user_pages, m.user_pages, t, v)
  BY <1>1 DEF Mapped
<1>. HIDE DEF R
<1>4. /\ Len(n.user_pages[t]) = Len(m.user_pages[t]) + 1
      /\ Len(m.user_pages[t]) \in Nat
      /\ n.user_pages[t][Len(m.user_pages[t]) + 1] = v
      /\ DOMAIN m.user_pages[t] = 1 .. Len(m.user_pages[t])
      /\ DOMAIN n.user_pages[t] = 1 .. Len(m.user_pages[t]) + 1
      /\ \A k \in DOMAIN m.user_pages[t] : n.user_pages[t][k] = m.user_pages[t][k]
      /\ \A u \in Tasks \ {t} : n.user_pages[u] = m.user_pages[u]
  BY <1>2, <1>3, LongerBy
<1>. QED
  BY <1>1, <1>4 DEF OneRecord

LEMMA RecordTypes ==
  ASSUME NEW m \in Mem, NEW t \in Tasks
  PROVE  /\ Len(m.user_pages[t]) \in Nat
         /\ DOMAIN m.user_pages[t] = 1 .. Len(m.user_pages[t])
         /\ \A k \in DOMAIN m.user_pages[t] : /\ m.user_pages[t][k].pa \in Page
                                             /\ m.user_pages[t][k].va \in Addr
<1>. DEFINE R == [pa : Page, va : Addr]
<1>1. m.user_pages \in [Tasks -> Seq(R)]
  BY Fields DEF UserRecords
<1>2. \A r \in R : r.pa \in Page /\ r.va \in Addr
  OBVIOUS
<1>. HIDE DEF R
<1>3. \A k \in DOMAIN m.user_pages[t] : m.user_pages[t][k] \in R
  BY <1>1
<1>. QED
  BY <1>1, <1>2, <1>3

LEMMA MappedAgrees ==
  ASSUME NEW m \in Mem, NEW n, NEW T, NEW t \in Tasks, NEW a \in Addr,
         NEW p \in Page, Mapped(m, n, t, a, p, T), Agreed(m),
         Translate(m, t, a) = Absent
  PROVE  Agreed(n)
<1>0. PICK l : OneRecord(m, n, t, a, p, l)
  BY MappedRecords
<1>1. /\ l \in Nat /\ DOMAIN m.user_pages[t] = 1 .. l
      /\ DOMAIN n.user_pages[t] = 1 .. l + 1
      /\ n.user_pages[t][l + 1].pa = p /\ n.user_pages[t][l + 1].va = a
      /\ \A k \in 1 .. l : n.user_pages[t][k] = m.user_pages[t][k]
      /\ \A u \in Tasks \ {t} : n.user_pages[u] = m.user_pages[u]
  BY <1>0 DEF OneRecord
<1>2. \A u \in Tasks, b \in Addr :
        u # t \/ b # a => Translate(n, u, b) = Translate(m, u, b)
  BY DEF Mapped
<1>3. Translate(n, t, a) = p \/ (n.wild /\ Translate(n, t, a) = Absent)
  BY DEF Mapped
<1>4. ASSUME NEW u \in Tasks, NEW k \in DOMAIN m.user_pages[u]
      PROVE  m.user_pages[u][k].pa \in Page /\ m.user_pages[u][k].va \in Addr
  BY RecordTypes
<1>5. ASSUME NEW u \in Tasks, NEW b \in Addr, Translate(n, u, b) # Absent
      PROVE  \E k \in DOMAIN n.user_pages[u] :
               /\ n.user_pages[u][k].va = b
               /\ n.user_pages[u][k].pa = Translate(n, u, b)
  <2>1. CASE u = t /\ b = a
    BY <1>1, <1>3, <1>5, <2>1
  <2>2. CASE u # t \/ b # a
    <3>1. Translate(n, u, b) = Translate(m, u, b)
      BY <1>2, <2>2
    <3>2. PICK k \in DOMAIN m.user_pages[u] :
            /\ m.user_pages[u][k].va = b
            /\ m.user_pages[u][k].pa = Translate(n, u, b)
      BY <1>5, <3>1 DEF Agreed
    <3>3. k \in DOMAIN n.user_pages[u] /\ n.user_pages[u][k] = m.user_pages[u][k]
      <4>1. CASE u = t
        <5>1. k \in 1 .. l /\ k \in 1 .. l + 1
          BY <1>1, <4>1
        <5>. QED
          BY <1>1, <4>1, <5>1
      <4>2. CASE u # t
        BY <1>1, <4>2
      <4>. QED
        BY <4>1, <4>2
    <3>. QED
      BY <3>2, <3>3
  <2>. QED
    BY <2>1, <2>2
<1>6. ASSUME ~n.wild, NEW u \in Tasks, NEW k \in DOMAIN n.user_pages[u]
      PROVE  Translate(n, u, n.user_pages[u][k].va) = n.user_pages[u][k].pa
  <2>1. CASE u = t /\ k = l + 1
    BY <1>1, <1>3, <1>6, <2>1
  <2>2. CASE ~(u = t /\ k = l + 1)
    <3>1. k \in DOMAIN m.user_pages[u] /\ n.user_pages[u][k] = m.user_pages[u][k]
      BY <1>1, <2>2
    <3>2. ~m.wild
      BY <1>6 DEF Mapped, Kept
    <3>3. Translate(m, u, m.user_pages[u][k].va) = m.user_pages[u][k].pa
      BY <3>1, <3>2 DEF Agreed
    <3>4. m.user_pages[u][k].pa \in Page /\ m.user_pages[u][k].va \in Addr
      BY <1>4, <3>1
    <3>5. u # t \/ m.user_pages[u][k].va # a
      BY <3>3, <3>4, Pages
    <3>. QED
      BY <1>2, <3>1, <3>3, <3>4, <3>5
  <2>. QED
    BY <2>1, <2>2
<1>. QED
  BY <1>5, <1>6 DEF Agreed

-----------------------------------------------------------------------------
(* What user code sees.                                                    *)

LEMMA RecordUsed ==
  ASSUME NEW m, NEW T, Good(m, T), NEW t \in Tasks,
         NEW k \in DOMAIN m.user_pages[t]
  PROVE  m.user_pages[t][k].pa \in m.used \ T
<1>1. m.user_pages[t][k].pa \in Page
  BY RecordTypes DEF Good
<1>2. /\ UserAt(t, k) \in Places(m)
      /\ PageAt(m, UserAt(t, k)) = m.user_pages[t][k].pa
  BY UserPlace
<1>3. m.user_pages[t][k].pa \in Held(m)
  BY <1>1, <1>2, Pages DEF Held
<1>. QED
  BY <1>3 DEF Good, Owned

(* What is mapped is in use, and does not wait to be.                      *)
LEMMA ViewUsed ==
  ASSUME NEW m, NEW T, Good(m, T), Agreed(m), NEW t \in Tasks, NEW a \in Addr,
         Translate(m, t, a) # Absent
  PROVE  Translate(m, t, a) \in Page /\ Translate(m, t, a) \in m.used \ T
<1>1. PICK k \in DOMAIN m.user_pages[t] :
        m.user_pages[t][k].pa = Translate(m, t, a)
  BY DEF Agreed
<1>2. Translate(m, t, a) \in m.used \ T
  BY <1>1, RecordUsed
<1>3. m.used \subseteq Page
  BY Fields DEF Good
<1>. QED
  BY <1>2, <1>3

(* A page that is held once is on record once.                             *)
LEMMA OneOwner ==
  ASSUME NEW m, NEW T, Good(m, T), NEW t \in Tasks, NEW u \in Tasks,
         NEW k \in DOMAIN m.user_pages[t], NEW j \in DOMAIN m.user_pages[u],
         m.user_pages[t][k].pa = m.user_pages[u][j].pa
  PROVE  t = u /\ k = j
<1>1. m.user_pages[t][k].pa \in Page
  BY RecordTypes DEF Good
<1>2. /\ UserAt(t, k) \in Places(m) /\ UserAt(u, j) \in Places(m)
      /\ PageAt(m, UserAt(t, k)) = m.user_pages[t][k].pa
      /\ PageAt(m, UserAt(u, j)) = m.user_pages[u][j].pa
  BY UserPlace
<1>3. UserAt(t, k) = UserAt(u, j)
  BY <1>1, <1>2, Pages DEF Good, Owned
<1>. QED
  BY <1>3 DEF UserAt

(* As long as no walk went wild, an address is on record once.             *)
LEMMA OneAddress ==
  ASSUME NEW m, NEW T, Good(m, T), Agreed(m), ~m.wild, NEW t \in Tasks,
         NEW k \in DOMAIN m.user_pages[t], NEW j \in DOMAIN m.user_pages[t],
         m.user_pages[t][k].va = m.user_pages[t][j].va
  PROVE  k = j
<1>1. /\ Translate(m, t, m.user_pages[t][k].va) = m.user_pages[t][k].pa
      /\ Translate(m, t, m.user_pages[t][j].va) = m.user_pages[t][j].pa
  BY DEF Agreed
<1>2. m.user_pages[t][k].pa = m.user_pages[t][j].pa
  BY <1>1
<1>. QED
  BY <1>2, OneOwner

(* Two mapped addresses never share a page.                                *)
LEMMA OneView ==
  ASSUME NEW m, NEW T, Good(m, T), Agreed(m), NEW t \in Tasks, NEW a \in Addr,
         NEW u \in Tasks, NEW b \in Addr, Translate(m, t, a) # Absent,
         Translate(m, t, a) = Translate(m, u, b)
  PROVE  t = u /\ a = b
<1>1. PICK k \in DOMAIN m.user_pages[t] : /\ m.user_pages[t][k].va = a
                                          /\ m.user_pages[t][k].pa = Translate(m, t, a)
  BY DEF Agreed
<1>2. PICK j \in DOMAIN m.user_pages[u] : /\ m.user_pages[u][j].va = b
                                          /\ m.user_pages[u][j].pa = Translate(m, u, b)
  BY DEF Agreed
<1>3. t = u /\ k = j
  BY <1>1, <1>2, OneOwner
<1>. QED
  BY <1>1, <1>2, <1>3

(* n is m with v in page p.                                                *)
DataAt(n, m, p, v) == n = [m EXCEPT !.data[p] = v]

LEMMA Written ==
  ASSUME NEW m, NEW n, NEW T, Good(m, T), NEW p \in Page, NEW v \in Value,
         DataAt(n, m, p, v)
  PROVE  /\ Good(n, T) /\ SameView(m, n) /\ (Agreed(m) => Agreed(n))
         /\ n.used = m.used /\ n.wild = m.wild /\ n.struct = m.struct
         /\ n.pgd = m.pgd /\ n.user_pages = m.user_pages
         /\ n.kernel_pages = m.kernel_pages
         /\ n.data[p] = v /\ \A q \in Page \ {p} : n.data[q] = m.data[q]
<1>1. m \in Mem /\ Owned(m, T) /\ Tree(m) /\ Spent(m)
  BY DEF Good
<1>2. PICK data \in [Page -> Value] : data = [m.data EXCEPT ![p] = v]
  BY <1>1, Fields
<1>3. DataSet(n, m, data)
  BY <1>2 DEF DataAt, DataSet
<1>4. /\ n \in Mem /\ n.data = data
      /\ n.used = m.used /\ n.table = m.table
      /\ n.struct = m.struct /\ n.pgd = m.pgd
      /\ n.user_pages = m.user_pages /\ n.kernel_pages = m.kernel_pages
      /\ n.wild = m.wild
  BY <1>1, <1>2, <1>3, SetData
<1>5. SameView(m, n) /\ Tree(n) /\ Spent(n)
  BY <1>1, <1>4, SameTables
<1>6. Owned(n, T)
  <2>1. SamePlaces(m, n)
    BY <1>4 DEF SamePlaces
  <2>. QED
    BY <1>1, <1>4, <2>1, OwnSame
<1>7. data[p] = v /\ \A q \in Page \ {p} : data[q] = m.data[q]
  <2>1. m.data \in [Page -> Value]
    BY <1>1, Fields
  <2>. QED
    BY <1>2, <2>1
<1>8. Agreed(m) => Agreed(n)
  <2>. SUFFICES ASSUME Agreed(m) PROVE Agreed(n)
    OBVIOUS
  <2>1. \A t \in Tasks, a \in Addr : Translate(n, t, a) = Translate(m, t, a)
    BY <1>5 DEF SameView
  <2>2. ASSUME NEW t \in Tasks, NEW k \in DOMAIN m.user_pages[t]
        PROVE  m.user_pages[t][k].va \in Addr
    BY <1>1, RecordTypes
  <2>. QED
    BY <1>4, <2>1, <2>2 DEF Agreed
<1>. QED
  BY <1>4, <1>5, <1>6, <1>7, <1>8 DEF Good

-----------------------------------------------------------------------------
(* copy_virt_memory.                                                       *)

(* The function of CopyVirtMemory: f[k] has the copies of k pages.         *)
CopyStep(f, m, t, c, k) ==
  IF k = 0 THEN m ELSE CopyNext(f[k - 1], t, c, m.user_pages[t][k])
IsCopies(f, m, t, c, n) ==
  f = [k \in 0 .. n |-> CopyStep(f, m, t, c, k)]

LEMMA CopiesExist ==
  ASSUME NEW m, NEW t, NEW c, NEW n \in Nat
  PROVE  \E f : IsCopies(f, m, t, c, n)
<1>. DEFINE S == {k \in Nat : \E f : IsCopies(f, m, t, c, k)}
<1>1. 0 \in S
  <2>. DEFINE f == [k \in 0 .. 0 |-> m]
  <2>1. IsCopies(f, m, t, c, 0)
    BY DEF IsCopies, CopyStep
  <2>. QED
    BY <2>1
<1>2. ASSUME NEW k \in S PROVE k + 1 \in S
  <2>1. PICK f : IsCopies(f, m, t, c, k)
    OBVIOUS
  <2>. DEFINE x == CopyNext(f[k], t, c, m.user_pages[t][k + 1])
              g == [i \in 0 .. k + 1 |-> IF i = k + 1 THEN x ELSE f[i]]
  <2>. HIDE DEF x
  <2>2. ASSUME NEW i \in 0 .. k + 1 PROVE g[i] = CopyStep(g, m, t, c, i)
    <3>1. CASE i = k + 1
      BY <3>1 DEF CopyStep, x
    <3>2. CASE i # k + 1
      <4>1. i \in 0 .. k /\ g[i] = f[i] /\ (i # 0 => g[i - 1] = f[i - 1])
        BY <3>2
      <4>2. f[i] = CopyStep(f, m, t, c, i)
        BY <2>1, <4>1 DEF IsCopies
      <4>. QED
        BY <4>1, <4>2 DEF CopyStep
    <3>. QED
      BY <3>1, <3>2
  <2>3. IsCopies(g, m, t, c, k + 1)
    BY <2>2 DEF IsCopies
  <2>. QED
    BY <2>3
<1>3. S = Nat
  <2>. HIDE DEF S
  <2>1. S \in SUBSET Nat
    BY DEF S
  <2>. QED
    BY <1>1, <1>2, <2>1, Induction
<1>. QED
  BY <1>3

LEMMA CopiesOf ==
  ASSUME NEW m, NEW t, NEW c, NEW n \in Nat, n = Len(m.user_pages[t])
  PROVE  \E f : IsCopies(f, m, t, c, n) /\ CopyVirtMemory(m, t, c) = f[n]
<1>1. PICK f : f = CHOOSE g : IsCopies(g, m, t, c, n)
  OBVIOUS
<1>2. IsCopies(f, m, t, c, n)
  BY <1>1, CopiesExist
<1>3. CopyVirtMemory(m, t, c) = f[n]
  BY <1>1 DEF CopyVirtMemory, IsCopies, CopyStep
<1>. QED
  BY <1>2, <1>3

LEMMA SameAgreed ==
  ASSUME NEW m \in Mem, NEW n, Agreed(m), SameView(m, n),
         n.user_pages = m.user_pages, m.wild => n.wild
  PROVE  Agreed(n)
<1>1. \A t \in Tasks, a \in Addr : Translate(n, t, a) = Translate(m, t, a)
  BY DEF SameView
<1>2. ASSUME NEW t \in Tasks, NEW k \in DOMAIN m.user_pages[t]
      PROVE  m.user_pages[t][k].va \in Addr
  BY RecordTypes
<1>. QED
  BY <1>1, <1>2 DEF Agreed

(* A page on the record of t came with at most three tables, and the first *)
(* with a pgd.                                                             *)
Fits(m, t) ==
  Len(m.kernel_pages[t]) <=
    3 * Len(m.user_pages[t]) + (IF m.pgd[t] = KernelImage THEN 0 ELSE 1)

LEMMA KernelLength ==
  ASSUME NEW m \in Mem, NEW t \in Tasks
  PROVE  Len(m.kernel_pages[t]) \in Nat
<1>. DEFINE R == Page \cup {KernelImage}
<1>1. m.kernel_pages \in [Tasks -> Seq(R)]
  BY Fields DEF KernelRecords
<1>. HIDE DEF R
<1>. QED
  BY <1>1

LEMMA MappedFits ==
  ASSUME NEW m \in Mem, NEW n \in Mem, NEW T, NEW t \in Tasks, NEW a \in Addr,
         NEW p \in Page, Mapped(m, n, t, a, p, T), Fits(m, t)
  PROVE  Fits(n, t)
<1>1. PICK c \in Nat, d \in Nat, l \in Nat :
        /\ c = Len(m.kernel_pages[t]) /\ d = Len(n.kernel_pages[t])
        /\ l = Len(m.user_pages[t])
  BY KernelLength, RecordTypes
<1>2. Len(n.user_pages[t]) = l + 1
  <2>1. OneRecord(m, n, t, a, p, Len(m.user_pages[t]))
    BY MappedRecords
  <2>. QED
    BY <1>1, <2>1 DEF OneRecord
<1>3. c <= 3 * l + (IF m.pgd[t] = KernelImage THEN 0 ELSE 1)
  BY <1>1 DEF Fits
<1>4. /\ n.pgd[t] = KernelImage => m.pgd[t] = KernelImage
      /\ d <= c + (IF n.pgd[t] = KernelImage THEN 1
                   ELSE IF m.pgd[t] = KernelImage THEN 3 + 1 ELSE 3)
  BY <1>1 DEF Mapped, Cost
<1>5. d <= 3 * (l + 1) + (IF n.pgd[t] = KernelImage THEN 0 ELSE 1)
  BY <1>3, <1>4
<1>. QED
  BY <1>1, <1>2, <1>5 DEF Fits

(* n holds for c copies of the first k pages of t in m; once a page was    *)
(* missing, of fewer.                                                      *)
Copied(m, n, t, c, k, T) ==
  /\ Good(n, T) /\ Agreed(n) /\ Kept(m, n, c) /\ Fits(n, c)
  /\ \A u \in Tasks \ {c} : n.user_pages[u] = m.user_pages[u]
  /\ \A u \in Tasks \ {c}, b \in Addr : Translate(n, u, b) = Translate(m, u, b)
  /\ Len(n.user_pages[c]) <= k
  /\ \A j \in DOMAIN n.user_pages[c] :
       \E i \in 1 .. k : n.user_pages[c][j].va = m.user_pages[t][i].va
  /\ n.used # Page =>
       \A i \in 1 .. k :
         /\ Translate(n, c, m.user_pages[t][i].va) # Absent
         /\ n.data[Translate(n, c, m.user_pages[t][i].va)] =
              m.data[m.user_pages[t][i].pa]

(* One page r of m is copied to p.                                         *)
OneCopied(m, n, o, c, r, p, T) ==
  /\ Good(o, T) /\ Agreed(o) /\ Kept(n, o, c) /\ Fits(o, c)
  /\ \A u \in Tasks, b \in Addr :
       u # c \/ b # r.va => Translate(o, u, b) = Translate(n, u, b)
  /\ OneRecord(n, o, c, r.va, p, Len(n.user_pages[c]))
  /\ o.used # Page => Translate(o, c, r.va) = p
  /\ o.data[p] = m.data[r.pa]

LEMMA PageCopied ==
  ASSUME NEW m, NEW n, NEW T, NEW t \in Tasks, NEW c \in Tasks, t # c,
         Good(m, T), NEW k \in Nat, k + 1 \in DOMAIN m.user_pages[t],
         Copied(m, n, t, c, k, T), n.used # Page,
         NEW r, r = m.user_pages[t][k + 1],
         NEW o, o = CopyPage(n, t, c, r)
  PROVE  \E p \in Page \ n.used : OneCopied(m, n, o, c, r, p, T)
<1>1. /\ m \in Mem /\ n \in Mem /\ Good(n, T) /\ Agreed(n) /\ Kept(m, n, c)
      /\ n.user_pages[t] = m.user_pages[t] /\ Fits(n, c)
  BY DEF Copied, Good
<1>2. ~n.wild
  BY <1>1 DEF Good, Spent
<1>3. /\ k + 1 \in DOMAIN n.user_pages[t] /\ r = n.user_pages[t][k + 1]
      /\ r.va \in Addr /\ r.pa \in Page
      /\ r.pa \in n.used \ T /\ r.pa \in m.used
  <2>1. k + 1 \in DOMAIN n.user_pages[t] /\ r = n.user_pages[t][k + 1]
    BY <1>1
  <2>2. r.pa \in n.used \ T
    BY <1>1, <2>1, RecordUsed
  <2>3. r.pa \in m.used
    BY RecordUsed
  <2>. QED
    BY <1>1, <2>1, <2>2, <2>3, RecordTypes
<1>4. Translate(n, c, r.va) = Absent
  <2>. SUFFICES ASSUME Translate(n, c, r.va) # Absent PROVE FALSE
    OBVIOUS
  <2>1. PICK j \in DOMAIN n.user_pages[c] : n.user_pages[c][j].va = r.va
    BY <1>1, <1>3 DEF Agreed
  <2>2. PICK i \in 1 .. k : n.user_pages[c][j].va = m.user_pages[t][i].va
    BY DEF Copied
  <2>3. i \in DOMAIN n.user_pages[t] /\ i # k + 1
    <3>1. DOMAIN n.user_pages[t] = 1 .. Len(n.user_pages[t])
          /\ Len(n.user_pages[t]) \in Nat
      BY <1>1, RecordTypes
    <3>. QED
      BY <1>3, <3>1
  <2>4. n.user_pages[t][i].va = n.user_pages[t][k + 1].va
    BY <1>1, <1>3, <2>1, <2>2
  <2>. QED
    BY <1>1, <1>2, <1>3, <2>3, <2>4, OneAddress
<1>5. PICK p, s : p = FirstFree(n) /\ s = Taken(n, p)
  OBVIOUS
<1>6. PICK U : Got(n, s, p, c, T, U)
  BY <1>1, <1>5, GetPage
<1>7. p \in Page \ n.used /\ p \in U
  <2>1. n.used \subseteq Page
    BY <1>1, Fields
  <2>2. p # KernelImage
    BY <1>5, <2>1, FirstFreePage
  <2>. QED
    BY <1>6, <2>2 DEF Got
<1>8. /\ Good(s, U) /\ s \in Mem /\ SameView(n, s) /\ Kept(n, s, c)
      /\ s.user_pages = n.user_pages /\ U \ {p} = T
      /\ s.pgd = n.pgd /\ s.kernel_pages = n.kernel_pages
  BY <1>6 DEF Got, Good
<1>9. Agreed(s) /\ Translate(s, c, r.va) = Absent /\ Fits(s, c)
  <2>1. n.wild => s.wild
    BY <1>8 DEF Kept
  <2>2. Agreed(s)
    BY <1>1, <1>8, <2>1, SameAgreed
  <2>. QED
    BY <1>1, <1>3, <1>4, <1>8, <2>2 DEF SameView, Fits
<1>10. PICK q : q = MapPage(s, c, r.va, p)
  OBVIOUS
<1>11. Mapped(s, q, c, r.va, p, U)
  BY <1>3, <1>7, <1>8, <1>9, <1>10, MapPageGood
<1>12. Good(q, T) /\ q \in Mem /\ Kept(s, q, c)
  BY <1>8, <1>11 DEF Mapped, Good
<1>13. Agreed(q) /\ Fits(q, c)
  BY <1>3, <1>7, <1>8, <1>9, <1>11, <1>12, MappedAgrees, MappedFits
<1>14. \A u \in Tasks, b \in Addr :
         u # c \/ b # r.va => Translate(q, u, b) = Translate(n, u, b)
  BY <1>8, <1>11 DEF Mapped, SameView
<1>15. Translate(q, t, r.va) = r.pa
  <2>1. Translate(n, t, r.va) = r.pa
    BY <1>1, <1>2, <1>3 DEF Agreed
  <2>. QED
    BY <1>3, <1>14, <2>1
<1>16. PICK v : v = q.data[r.pa]
  OBVIOUS
<1>17. v \in Value /\ v = m.data[r.pa]
  <2>1. q.data \in [Page -> Value]
    BY <1>12, Fields
  <2>2. Kept(m, q, c)
    BY <1>1, <1>8, <1>12, KeptOn
  <2>3. q.data[r.pa] = m.data[r.pa]
    BY <1>3, <2>2 DEF Kept
  <2>. QED
    BY <1>3, <1>16, <2>1, <2>3
<1>18. DataAt(o, q, p, v)
  BY <1>5, <1>10, <1>15, <1>16 DEF CopyPage, DataAt
<1>19. /\ Good(o, T) /\ SameView(q, o) /\ Agreed(o)
       /\ o.used = q.used /\ o.wild = q.wild /\ o.struct = q.struct
       /\ o.pgd = q.pgd /\ o.user_pages = q.user_pages
       /\ o.kernel_pages = q.kernel_pages
       /\ o.data[p] = v /\ \A x \in Page \ {p} : o.data[x] = q.data[x]
  BY <1>7, <1>12, <1>13, <1>17, <1>18, Written
<1>20. Kept(n, o, c)
  <2>1. Kept(n, q, c)
    BY <1>8, <1>12, KeptOn
  <2>2. \A x \in n.used : o.data[x] = q.data[x]
    <3>1. n.used \subseteq Page
      BY <1>1, Fields
    <3>. QED
      BY <1>7, <1>19, <3>1
  <2>. QED
    BY <1>19, <2>1, <2>2 DEF Kept
<1>21. Fits(o, c)
  BY <1>13, <1>19 DEF Fits
<1>22. \A u \in Tasks, b \in Addr :
         u # c \/ b # r.va => Translate(o, u, b) = Translate(n, u, b)
  BY <1>14, <1>19 DEF SameView
<1>23. OneRecord(n, o, c, r.va, p, Len(n.user_pages[c]))
  <2>1. OneRecord(s, q, c, r.va, p, Len(s.user_pages[c]))
    BY <1>3, <1>7, <1>8, <1>11, MappedRecords
  <2>. QED
    BY <1>8, <1>19, <2>1 DEF OneRecord
<1>24. o.used # Page => Translate(o, c, r.va) = p
  <2>1. o.used # Page => ~q.wild
    BY <1>12, <1>19 DEF Good, Spent
  <2>2. ~q.wild => Translate(q, c, r.va) = p
    BY <1>11 DEF Mapped
  <2>. QED
    BY <1>3, <1>19, <2>1, <2>2 DEF SameView
<1>. QED
  BY <1>7, <1>17, <1>19, <1>20, <1>21, <1>22, <1>23, <1>24 DEF OneCopied

LEMMA CopyNextKeeps ==
  ASSUME NEW m, NEW n, NEW T, NEW t \in Tasks, NEW c \in Tasks, t # c,
         Good(m, T), NEW k \in Nat, k + 1 \in DOMAIN m.user_pages[t],
         Copied(m, n, t, c, k, T),
         NEW o, o = CopyNext(n, t, c, m.user_pages[t][k + 1])
  PROVE  Copied(m, o, t, c, k + 1, T)
<1>1. /\ m \in Mem /\ n \in Mem /\ Good(n, T) /\ Agreed(n) /\ Kept(m, n, c)
      /\ Fits(n, c) /\ n.used \subseteq Page
      /\ \A u \in Tasks \ {c} : n.user_pages[u] = m.user_pages[u]
      /\ \A u \in Tasks \ {c}, b \in Addr :
           Translate(n, u, b) = Translate(m, u, b)
      /\ Len(n.user_pages[c]) <= k
  BY Fields DEF Copied, Good
<1>2. \A j \in DOMAIN n.user_pages[c] :
        \E i \in 1 .. k : n.user_pages[c][j].va = m.user_pages[t][i].va
  BY DEF Copied
<1>3. n.used # Page =>
        \A i \in 1 .. k :
          /\ Translate(n, c, m.user_pages[t][i].va) # Absent
          /\ n.data[Translate(n, c, m.user_pages[t][i].va)] =
               m.data[m.user_pages[t][i].pa]
  BY DEF Copied
<1>4. PICK l \in Nat : l = Len(n.user_pages[c]) /\ DOMAIN n.user_pages[c] = 1 .. l
  BY <1>1, RecordTypes
<1>5. CASE n.used = Page
  <2>1. o = n
    BY <1>1, <1>5, FirstFreePage DEF CopyNext
  <2>2. Len(n.user_pages[c]) <= k + 1
    BY <1>1, <1>4
  <2>3. ASSUME NEW j \in DOMAIN n.user_pages[c]
        PROVE  \E i \in 1 .. k + 1 :
                 n.user_pages[c][j].va = m.user_pages[t][i].va
    <3>1. PICK i \in 1 .. k : n.user_pages[c][j].va = m.user_pages[t][i].va
      BY <1>2
    <3>2. i \in 1 .. k + 1
      OBVIOUS
    <3>. QED
      BY <3>1, <3>2
  <2>4. Copied(m, n, t, c, k + 1, T)
    BY <1>1, <1>5, <2>2, <2>3 DEF Copied
  <2>. QED
    BY <2>1, <2>4
<1>6. CASE n.used # Page
  <2>1. PICK r : r = m.user_pages[t][k + 1]
    OBVIOUS
  <2>2. o = CopyPage(n, t, c, r)
    <3>1. FirstFree(n) # KernelImage
      BY <1>1, <1>6, FirstFreePage
    <3>. QED
      BY <2>1, <3>1 DEF CopyNext
  <2>0. PICK p \in Page \ n.used : OneCopied(m, n, o, c, r, p, T)
    BY <1>6, <2>1, <2>2, PageCopied
  <2>3. /\ p \in Page \ n.used
        /\ Good(o, T) /\ Agreed(o) /\ Kept(n, o, c) /\ Fits(o, c)
        /\ \A u \in Tasks, b \in Addr :
             u # c \/ b # r.va => Translate(o, u, b) = Translate(n, u, b)
        /\ OneRecord(n, o, c, r.va, p, Len(n.user_pages[c]))
        /\ o.used # Page => Translate(o, c, r.va) = p
        /\ o.data[p] = m.data[r.pa]
    BY <2>0 DEF OneCopied
  <2>4. /\ DOMAIN o.user_pages[c] = 1 .. l + 1 /\ Len(o.user_pages[c]) = l + 1
        /\ o.user_pages[c][l + 1].va = r.va
        /\ \A j \in 1 .. l : o.user_pages[c][j] = n.user_pages[c][j]
        /\ \A u \in Tasks \ {c} : o.user_pages[u] = n.user_pages[u]
    BY <1>4, <2>3 DEF OneRecord
  <2>5. Kept(m, o, c)
    BY <1>1, <2>3, KeptOn
  <2>6. ASSUME NEW u \in Tasks \ {c}
        PROVE  /\ o.user_pages[u] = m.user_pages[u]
               /\ \A b \in Addr : Translate(o, u, b) = Translate(m, u, b)
    BY <1>1, <2>3, <2>4
  <2>7. Len(o.user_pages[c]) <= k + 1
    BY <1>1, <1>4, <2>4
  <2>8. ASSUME NEW j \in DOMAIN o.user_pages[c]
        PROVE  \E i \in 1 .. k + 1 :
                 o.user_pages[c][j].va = m.user_pages[t][i].va
    <3>1. CASE j = l + 1
      <4>1. k + 1 \in 1 .. k + 1
        OBVIOUS
      <4>. QED
        BY <2>1, <2>4, <3>1, <4>1
    <3>2. CASE j # l + 1
      <4>1. j \in 1 .. l
        BY <2>4, <3>2
      <4>2. PICK i \in 1 .. k : n.user_pages[c][j].va = m.user_pages[t][i].va
        BY <1>2, <1>4, <4>1
      <4>3. i \in 1 .. k + 1
        OBVIOUS
      <4>. QED
        BY <2>4, <4>1, <4>2, <4>3
    <3>. QED
      BY <3>1, <3>2
  <2>9. ASSUME o.used # Page, NEW i \in 1 .. k + 1
        PROVE  /\ Translate(o, c, m.user_pages[t][i].va) # Absent
               /\ o.data[Translate(o, c, m.user_pages[t][i].va)] =
                    m.data[m.user_pages[t][i].pa]
    <3>1. CASE i = k + 1
      BY <2>1, <2>3, <2>9, <3>1, Pages
    <3>2. CASE i # k + 1
      <4>1. i \in 1 .. k /\ i \in DOMAIN m.user_pages[t]
        <5>1. DOMAIN m.user_pages[t] = 1 .. Len(m.user_pages[t])
              /\ Len(m.user_pages[t]) \in Nat
          BY <1>1, RecordTypes
        <5>. QED
          BY <3>2, <5>1
      <4>2. PICK b \in Addr : b = m.user_pages[t][i].va
        BY <1>1, <4>1, RecordTypes
      <4>3. b # r.va
        <5>. SUFFICES ASSUME b = r.va PROVE FALSE
          OBVIOUS
        <5>1. n.user_pages[t] = m.user_pages[t] /\ ~n.wild
          BY <1>1, <1>6 DEF Good, Spent
        <5>. QED
          BY <1>1, <2>1, <3>2, <4>1, <4>2, <5>1, OneAddress
      <4>4. Translate(o, c, b) = Translate(n, c, b)
        BY <2>3, <4>3
      <4>5. /\ Translate(n, c, b) # Absent
            /\ n.data[Translate(n, c, b)] = m.data[m.user_pages[t][i].pa]
        BY <1>3, <1>6, <4>1, <4>2
      <4>6. Translate(n, c, b) \in n.used
        BY <1>1, <4>5, ViewUsed
      <4>7. o.data[Translate(n, c, b)] = n.data[Translate(n, c, b)]
        BY <2>3, <4>6 DEF Kept
      <4>. QED
        BY <4>2, <4>4, <4>5, <4>7
    <3>. QED
      BY <3>1, <3>2
  <2>. QED
    BY <2>3, <2>5, <2>6, <2>7, <2>8, <2>9 DEF Copied
<1>. QED
  BY <1>5, <1>6

LEMMA CopyAll ==
  ASSUME NEW m, NEW T, Good(m, T), Agreed(m), NEW t \in Tasks, NEW c \in Tasks,
         t # c, m.user_pages[c] = <<>>, m.kernel_pages[c] = <<>>
  PROVE  Copied(m, CopyVirtMemory(m, t, c), t, c, Len(m.user_pages[t]), T)
<1>1. m \in Mem
  BY DEF Good
<1>2. PICK n \in Nat : n = Len(m.user_pages[t]) /\ DOMAIN m.user_pages[t] = 1 .. n
  BY <1>1, RecordTypes
<1>3. PICK f : IsCopies(f, m, t, c, n) /\ CopyVirtMemory(m, t, c) = f[n]
  BY <1>2, CopiesOf
<1>. DEFINE S == {k \in Nat : k <= n => Copied(m, f[k], t, c, k, T)}
<1>4. 0 \in S
  <2>1. f[0] = m
    BY <1>3 DEF IsCopies, CopyStep
  <2>2. DOMAIN m.user_pages[c] = {} /\ Len(m.user_pages[c]) = 0
        /\ Len(m.kernel_pages[c]) = 0
    OBVIOUS
  <2>3. Fits(m, c)
    BY <2>2 DEF Fits
  <2>4. Kept(m, m, c)
    BY DEF Kept
  <2>5. Copied(m, m, t, c, 0, T)
    BY <2>2, <2>3, <2>4 DEF Copied
  <2>. QED
    BY <2>1, <2>5
<1>5. ASSUME NEW k \in S PROVE k + 1 \in S
  <2>. SUFFICES ASSUME k + 1 <= n PROVE Copied(m, f[k + 1], t, c, k + 1, T)
    OBVIOUS
  <2>1. Copied(m, f[k], t, c, k, T) /\ k \in Nat
    OBVIOUS
  <2>2. k + 1 \in 0 .. n /\ k + 1 # 0 /\ k + 1 - 1 = k /\ k + 1 \in 1 .. n
    BY <2>1
  <2>3. f[k + 1] = CopyNext(f[k], t, c, m.user_pages[t][k + 1])
    <3>1. f[k + 1] = CopyStep(f, m, t, c, k + 1)
      BY <1>3, <2>2 DEF IsCopies
    <3>. QED
      BY <2>2, <3>1 DEF CopyStep
  <2>. QED
    BY <1>2, <2>1, <2>2, <2>3, CopyNextKeeps
<1>6. S = Nat
  <2>. HIDE DEF S
  <2>1. S \in SUBSET Nat
    BY DEF S
  <2>. QED
    BY <1>4, <1>5, <2>1, Induction
<1>. QED
  BY <1>2, <1>3, <1>6

-----------------------------------------------------------------------------
(* The inductive invariant.                                                *)

(* The pages that are taken and not yet mapped.                            *)
Waiting == {page[t] : t \in {u \in Tasks : pc[u] = "taken"}}

Memory == Good(mem, Waiting) /\ Agreed(mem)

(* What get_free_page found is free until it is marked.                    *)
Finding ==
  \A t \in Tasks : pc[t] = "found" =>
    /\ page[t] \notin mem.used
    /\ \A u \in Tasks : pc[u] = "found" => u = t

(* A page that waits to be mapped is zeroed and waits for one task.        *)
Zeroes ==
  \A t \in Tasks : pc[t] = "taken" =>
    /\ mem.data[page[t]] = 0
    /\ \A u \in Tasks : pc[u] = "taken" /\ page[u] = page[t] => u = t

(* A task at c maps page p at address a, which has none; only the first    *)
(* page of the kernel process is mapped where no code page is.             *)
Loads(m, t) == t = 1 /\ m.user_pages[t] = <<>>
Maps(m, t, p, a) ==
  /\ p \in Page /\ Translate(m, t, a) = Absent
  /\ IF Loads(m, t) THEN a = CodeAddr ELSE Translate(m, t, CodeAddr) # Absent

(* A slot past nr_tasks is as it was at boot.                              *)
Unborn(m, t, c) ==
  /\ c = "none" /\ m.struct[t] = KernelImage
  /\ m.user_pages[t] = <<>> /\ m.kernel_pages[t] = <<>>

(* The third page that a process gets is its last: it hangs.               *)
Size(m, t, c, i) ==
  /\ Fits(m, t)
  /\ Len(m.user_pages[t]) <= 3
  /\ c # "hang" => Len(m.user_pages[t]) <= 2
  /\ i = 1 => Len(m.user_pages[t]) <= 1

Local(m, t, c, p, a, i, k) ==
  /\ c \in {"found", "taken"} => Maps(m, t, p, a)
  /\ c = "kernel_process" => Loads(m, t)
  /\ t >= k => Unborn(m, t, c)
  /\ Size(m, t, c, i)
TaskSound(t) == Local(mem, t, pc[t], page[t], va[t], ind, nr_tasks)

IInv ==
  /\ TypeOK /\ Memory /\ Finding /\ Zeroes
  /\ \A t \in Tasks : TaskSound(t)

-----------------------------------------------------------------------------
(* Steps that leave a task alone.                                          *)

Same(m, n, u) ==
  /\ n.user_pages[u] = m.user_pages[u] /\ n.kernel_pages[u] = m.kernel_pages[u]
  /\ n.pgd[u] = m.pgd[u] /\ n.struct[u] = m.struct[u]
  /\ \A b \in Addr : Translate(n, u, b) = Translate(m, u, b)

LEMMA SameMaps ==
  ASSUME NEW m, NEW n, NEW u, Same(m, n, u), NEW p, NEW a \in Addr,
         Maps(m, u, p, a)
  PROVE  Maps(n, u, p, a)
BY MmAssumption DEF Same, Maps, Loads

LEMMA SameSize ==
  ASSUME NEW m, NEW n, NEW u, Same(m, n, u), NEW c, NEW d, NEW i, NEW j,
         Size(m, u, c, i), d # "hang" => c # "hang", j = 1 => i = 1
  PROVE  Size(n, u, d, j)
BY DEF Same, Size, Fits

LEMMA SameLocal ==
  ASSUME NEW m, NEW n, NEW u \in Tasks, Same(m, n, u), NEW c, NEW p,
         NEW a \in Addr, NEW i, NEW j, NEW k \in Nat, NEW l \in Nat,
         Local(m, u, c, p, a, i, k), k <= l, j = 1 => i = 1
  PROVE  Local(n, u, c, p, a, j, l)
<1>1. c \in {"found", "taken"} => Maps(n, u, p, a)
  BY SameMaps DEF Local
<1>2. c = "kernel_process" => Loads(n, u)
  BY DEF Local, Loads, Same
<1>3. u >= l => Unborn(n, u, c)
  BY Pages DEF Local, Unborn, Same
<1>4. Size(n, u, c, j)
  BY SameSize DEF Local
<1>. QED
  BY <1>1, <1>2, <1>3, <1>4 DEF Local

(* A tick outside get_free_page finds no task inside it.                   *)
LEMMA NoneFinds ==
  ASSUME ~TickInAllocator, NEW t \in Tasks, MayRun(t), pc[t] # "found"
  PROVE  \A u \in Tasks : pc[u] # "found"
BY DEF MayRun

LEMMA Types ==
  ASSUME TypeOK, NEW t \in Tasks
  PROVE  /\ mem \in Mem /\ va[t] \in Addr /\ nr_tasks \in Nat /\ ind \in 1 .. 3
         /\ page[t] \in Page \cup {KernelImage}
BY MmAssumption DEF TypeOK

LEMMA InitIInv == Init => IInv
<1>. SUFFICES ASSUME Init PROVE IInv
  OBVIOUS
<1>1. mem \in Mem
  <2>. DEFINE used == {1}
              table == [p \in Page |-> [i \in Index |-> Absent]]
              data == [p \in Page |-> 0]
              struct == [t \in Tasks |-> IF t = 1 THEN 1 ELSE KernelImage]
              pgd == [t \in Tasks |-> KernelImage]
              user_pages == [t \in Tasks |-> <<>>]
              kernel_pages == [t \in Tasks |-> <<>>]
  <2>1. used \in SUBSET Page /\ struct \in PageOf /\ pgd \in PageOf
    BY Pages DEF PageOf
  <2>2. table \in Entries
    BY DEF Entries
  <2>3. data \in [Page -> Value]
    BY MmAssumption
  <2>4. user_pages \in UserRecords /\ kernel_pages \in KernelRecords
    BY DEF UserRecords, KernelRecords
  <2>5. mem = [used |-> used, table |-> table, data |-> data, struct |-> struct,
               pgd |-> pgd, user_pages |-> user_pages,
               kernel_pages |-> kernel_pages, wild |-> FALSE]
    BY DEF Init
  <2>. HIDE DEF used, table, data, struct, pgd, user_pages, kernel_pages
  <2>. QED
    BY <2>1, <2>2, <2>3, <2>4, <2>5, IsMem
<1>2. /\ mem.used = {1} /\ mem.wild = FALSE
      /\ \A p \in Page, i \in Index : mem.table[p][i] = Absent
      /\ \A t \in Tasks : /\ mem.struct[t] = (IF t = 1 THEN 1 ELSE KernelImage)
                          /\ mem.pgd[t] = KernelImage
                          /\ mem.user_pages[t] = <<>>
                          /\ mem.kernel_pages[t] = <<>>
  BY DEF Init
<1>3. /\ nr_tasks = 2 /\ ind = 1
      /\ \A t \in Tasks : /\ pc[t] = (IF t = 1 THEN "kernel_process" ELSE "none")
                          /\ va[t] = CodeAddr /\ page[t] = KernelImage
  BY DEF Init
<1>4. TypeOK
  BY <1>1, MmAssumption DEF TypeOK, Init
<1>5. ASSUME NEW t \in Tasks, NEW a \in Addr
      PROVE  \A k \in 0 .. 4 : Node(mem, t, a, k) \notin Page
  <2>1. Node(mem, t, a, 0) \notin Page
    BY <1>2, Pages, NodeSteps
  <2>2. 0 \in 0 .. 3
    OBVIOUS
  <2>3. \A j \in 0 .. 4 : j > 0 => Node(mem, t, a, j) = Absent
    BY <2>1, <2>2, NothingBelow
  <2>. QED
    BY <2>1, <2>3, Pages
<1>6. ASSUME NEW t \in Tasks, NEW a \in Addr PROVE Translate(mem, t, a) = Absent
  <2>1. 0 \in 0 .. 3 /\ 4 \in 0 .. 4 /\ 0 \in 0 .. 4 /\ 4 > 0
    OBVIOUS
  <2>2. Node(mem, t, a, 0) \notin Page
    BY <1>5, <2>1
  <2>. QED
    BY <2>1, <2>2, NothingBelow, NodeSteps
<1>7. Tree(mem)
  <2>1. 4 \in 0 .. 4 /\ 0 .. 3 \subseteq 0 .. 4
    OBVIOUS
  <2>2. \A t \in Tasks, a \in Addr : Node(mem, t, a, 4) = Absent
    BY <1>6, NodeSteps
  <2>. QED
    BY <1>5, <2>1, <2>2 DEF Tree
<1>8. Waiting = {}
  BY <1>3 DEF Waiting
<1>9. Owned(mem, {})
  <2>1. ASSUME NEW x \in Places(mem) PROVE \E t \in Tasks : x = StructAt(t)
    <3>1. \A t \in Tasks : /\ DOMAIN mem.kernel_pages[t] = {}
                           /\ DOMAIN mem.user_pages[t] = {}
      BY <1>2
    <3>. QED
      BY <3>1, PlaceCases
  <2>2. \A t \in Tasks : /\ StructAt(t) \in Places(mem)
                         /\ PageAt(mem, StructAt(t)) = (IF t = 1 THEN 1 ELSE KernelImage)
    BY <1>2, StructPlace
  <2>3. Held(mem) = {1}
    <3>1. 1 \in Held(mem)
      BY <2>2, Pages DEF Held
    <3>2. ASSUME NEW p \in Held(mem) PROVE p = 1
      BY <2>1, <2>2 DEF Held
    <3>. QED
      BY <3>1, <3>2
  <2>. QED
    BY <1>2, <2>1, <2>2, <2>3 DEF Owned
<1>10. Spent(mem)
  BY <1>2, Pages DEF Spent
<1>11. Memory
  <2>1. Agreed(mem)
    BY <1>2, <1>6 DEF Agreed
  <2>. QED
    BY <1>1, <1>7, <1>8, <1>9, <1>10, <2>1 DEF Memory, Good
<1>12. Finding /\ Zeroes
  BY <1>3 DEF Finding, Zeroes
<1>13. ASSUME NEW t \in Tasks PROVE TaskSound(t)
  <2>1. t >= 2 => Unborn(mem, t, pc[t])
    BY <1>2, <1>3, MmAssumption DEF Unborn
  <2>2. Len(mem.user_pages[t]) = 0 /\ Len(mem.kernel_pages[t]) = 0
    BY <1>2
  <2>3. Size(mem, t, pc[t], ind)
    BY <2>2 DEF Size, Fits
  <2>. QED
    BY <1>2, <1>3, <2>1, <2>3 DEF TaskSound, Local, Loads
<1>. QED
  BY <1>4, <1>11, <1>12, <1>13 DEF IInv

-----------------------------------------------------------------------------
(* Steps that leave the memory as it is.                                   *)

LEMMA FindKeeps ==
  ASSUME ~TickInAllocator, IInv, NEW t \in Tasks, NEW a \in Addr, Find(t, a),
         pc[t] \in {"kernel_process", "user"}, Translate(mem, t, a) = Absent,
         IF Loads(mem, t) THEN a = CodeAddr
         ELSE Translate(mem, t, CodeAddr) # Absent
  PROVE  IInv'
<1>. DEFINE p == FirstFree(mem)
            to == IF p = KernelImage THEN "hang" ELSE "found"
<1>1. /\ mem' = mem /\ nr_tasks' = nr_tasks /\ ind' = ind /\ ret' = ret
      /\ va' = [va EXCEPT ![t] = a] /\ page' = [page EXCEPT ![t] = p]
      /\ pc' = [pc EXCEPT ![t] = to]
  BY DEF Find, Goto
<1>2. p \in Page \cup {KernelImage} /\ (p # KernelImage => p \in Page \ mem.used)
  <2>1. mem.used \subseteq Page
    BY Fields DEF IInv, TypeOK
  <2>. QED
    BY <2>1, FirstFreePage
<1>. HIDE DEF p, to
<1>3. /\ pc'[t] = to /\ page'[t] = p /\ va'[t] = a
      /\ \A u \in Tasks \ {t} : /\ pc'[u] = pc[u] /\ page'[u] = page[u]
                                /\ va'[u] = va[u]
  BY <1>1 DEF IInv, TypeOK
<1>4. to \in {"hang", "found"} /\ (to = "found" => p \in Page \ mem.used)
  BY <1>2 DEF to
<1>5. TypeOK'
  BY <1>1, <1>2, <1>4 DEF IInv, TypeOK
<1>6. Memory'
  <2>1. Waiting' = Waiting
    BY <1>3, <1>4 DEF Waiting
  <2>. QED
    BY <1>1, <2>1 DEF IInv, Memory
<1>7. Finding'
  <2>1. \A u \in Tasks : pc[u] # "found"
    BY NoneFinds DEF Find
  <2>. QED
    BY <1>1, <1>3, <1>4, <2>1 DEF Finding
<1>8. Zeroes'
  BY <1>1, <1>3, <1>4 DEF IInv, Zeroes
<1>9. ASSUME NEW u \in Tasks PROVE TaskSound(u)'
  <2>1. CASE u # t
    BY <1>1, <1>3, <2>1 DEF IInv, TaskSound
  <2>2. CASE u = t
    <3>1. Local(mem, t, pc[t], page[t], va[t], ind, nr_tasks)
      BY DEF IInv, TaskSound
    <3>2. to = "found" => Maps(mem, t, p, a)
      BY <1>4 DEF Maps
    <3>3. ~(t >= nr_tasks)
      BY <3>1 DEF Local, Unborn
    <3>4. Size(mem, t, to, ind)
      BY <3>1 DEF Local, Size
    <3>5. Local(mem, t, to, p, a, ind, nr_tasks)
      BY <1>4, <3>2, <3>3, <3>4 DEF Local
    <3>. QED
      BY <1>1, <1>3, <2>2, <3>5 DEF TaskSound
  <2>. QED
    BY <2>1, <2>2
<1>. QED
  BY <1>5, <1>6, <1>7, <1>8, <1>9 DEF IInv

LEMMA MoveKeeps ==
  ASSUME ~TickInAllocator, IInv, NEW t \in Tasks, MoveToUserMode(t)
  PROVE  IInv'
<1>1. Loads(mem, t)
  BY DEF MoveToUserMode, IInv, TaskSound, Local
<1>2. Translate(mem, t, CodeAddr) = Absent
  <2>1. DOMAIN mem.user_pages[t] = {}
    BY <1>1 DEF Loads
  <2>. QED
    BY <2>1, MmAssumption DEF IInv, Memory, Agreed
<1>. QED
  BY <1>1, <1>2, FindKeeps, MmAssumption DEF MoveToUserMode

(* What runs in user mode has its code page.                               *)
LEMMA UserHasCode ==
  ASSUME IInv, NEW t \in Tasks, InUser(t)
  PROVE  /\ ~Loads(mem, t) /\ Translate(mem, t, CodeAddr) # Absent
         /\ pc[t] = "user" /\ ~(t >= nr_tasks)
<1>1. pc[t] = "user" /\ Translate(mem, t, CodeAddr) # Absent
  BY Pages DEF InUser
<1>2. DOMAIN mem.user_pages[t] # {}
  BY <1>1, MmAssumption DEF IInv, Memory, Agreed
<1>3. ~Loads(mem, t)
  BY <1>2 DEF Loads
<1>4. ~(t >= nr_tasks)
  BY <1>1 DEF IInv, TaskSound, Local, Unborn
<1>. QED
  BY <1>1, <1>3, <1>4

LEMMA DataAbortKeeps ==
  ASSUME ~TickInAllocator, IInv, NEW t \in Tasks, NEW a \in Addr, DataAbort(t, a)
  PROVE  IInv'
<1>1. InUser(t) /\ Translate(mem, t, a) = Absent /\ Find(t, a)
  BY DEF DataAbort
<1>. QED
  BY <1>1, UserHasCode, FindKeeps

(* The memory as it is, and one task that may leave user mode.             *)
LEMMA IdleKeeps ==
  ASSUME IInv, NEW t \in Tasks, pc[t] = "user",
         NEW to \in {"user", "hang", "zombie"}, pc' = [pc EXCEPT ![t] = to],
         UNCHANGED <<mem, nr_tasks, va, page, ind>>,
         ret' \in [Tasks -> 0 .. NR_TASKS]
  PROVE  IInv'
<1>1. pc'[t] = to /\ \A u \in Tasks \ {t} : pc'[u] = pc[u]
  BY DEF IInv, TypeOK
<1>2. TypeOK'
  BY DEF IInv, TypeOK
<1>3. Memory'
  <2>1. Waiting' = Waiting
    BY <1>1 DEF Waiting
  <2>. QED
    BY <2>1 DEF IInv, Memory
<1>4. Finding' /\ Zeroes'
  BY <1>1 DEF IInv, Finding, Zeroes
<1>5. ASSUME NEW u \in Tasks PROVE TaskSound(u)'
  <2>1. CASE u # t
    BY <1>1, <2>1 DEF IInv, TaskSound
  <2>2. CASE u = t
    <3>1. Local(mem, t, pc[t], page[t], va[t], ind, nr_tasks)
      BY DEF IInv, TaskSound
    <3>2. ~(t >= nr_tasks)
      BY <3>1 DEF Local, Unborn
    <3>3. Size(mem, t, to, ind)
      BY <3>1 DEF Local, Size
    <3>4. Local(mem, t, to, page[t], va[t], ind, nr_tasks)
      BY <3>2, <3>3 DEF Local
    <3>. QED
      BY <1>1, <2>2, <3>4 DEF TaskSound
  <2>. QED
    BY <2>1, <2>2
<1>. QED
  BY <1>2, <1>3, <1>4, <1>5 DEF IInv

LEMMA OtherAbortKeeps ==
  ASSUME IInv, NEW t \in Tasks, OtherAbort(t)
  PROVE  IInv'
<1>1. ret' \in [Tasks -> 0 .. NR_TASKS]
  BY DEF OtherAbort, IInv, TypeOK
<1>. QED
  BY <1>1, IdleKeeps DEF OtherAbort, Goto

LEMMA ExitKeeps ==
  ASSUME IInv, NEW t \in Tasks, Exit(t)
  PROVE  IInv'
<1>1. ret' \in [Tasks -> 0 .. NR_TASKS]
  BY DEF Exit, IInv, TypeOK
<1>. QED
  BY <1>1, IdleKeeps DEF Exit, Goto, InUser

LEMMA ForkFailKeeps ==
  ASSUME IInv, NEW t \in Tasks, ForkFail(t)
  PROVE  IInv'
<1>1. ret' \in [Tasks -> 0 .. NR_TASKS]
  BY MmAssumption DEF ForkFail, IInv, TypeOK
<1>2. pc' = [pc EXCEPT ![t] = "user"]
  BY DEF ForkFail, InUser, IInv, TypeOK
<1>. QED
  BY <1>1, <1>2, IdleKeeps DEF ForkFail, InUser

-----------------------------------------------------------------------------
(* Steps that take, map or write a page.                                   *)

LEMMA TakeKeeps ==
  ASSUME IInv, NEW t \in Tasks, TakePage(t)
  PROVE  IInv'
<1>. DEFINE p == page[t]
<1>1. /\ pc[t] = "found" /\ pc' = [pc EXCEPT ![t] = "taken"]
      /\ UNCHANGED <<nr_tasks, va, page, ind, ret>>
      /\ mem' = Taken(mem, p)
  BY DEF TakePage, Goto
<1>2. /\ pc'[t] = "taken" /\ \A u \in Tasks \ {t} : pc'[u] = pc[u]
      /\ \A u \in Tasks \ {t} : pc[u] # "found"
  BY <1>1 DEF IInv, TypeOK, Finding
<1>3. p \in Page /\ p \notin mem.used
  BY <1>1 DEF IInv, Finding, TaskSound, Local, Maps
<1>4. Good(mem', Waiting \cup {p}) /\ Took(mem, mem', p)
  <2>1. IsTaken(mem', mem, p)
    BY <1>1 DEF IsTaken
  <2>2. Good(mem, Waiting)
    BY DEF IInv, Memory
  <2>. QED
    BY <1>3, <2>1, <2>2, TakePageGood
<1>5. Waiting' = Waiting \cup {p}
  BY <1>1, <1>2 DEF Waiting
<1>6. \A u \in Tasks : Same(mem, mem', u)
  <2>1. 4 \in 0 .. 4
    OBVIOUS
  <2>. QED
    BY <1>4, <2>1, NodeSteps DEF Took, Same
<1>7. TypeOK'
  BY <1>1, <1>4 DEF IInv, TypeOK, Good
<1>8. Memory'
  <2>1. SameView(mem, mem')
    BY <1>6 DEF Same, SameView
  <2>2. mem'.user_pages = mem.user_pages /\ mem'.wild = mem.wild
    BY <1>4 DEF Took
  <2>3. Agreed(mem')
    BY <2>1, <2>2, SameAgreed DEF IInv, Memory, Good
  <2>. QED
    BY <1>4, <1>5, <2>3 DEF Memory
<1>9. Finding'
  BY <1>2 DEF Finding
<1>10. Zeroes'
  <2>1. \A u \in Tasks \ {t} : pc[u] = "taken" => page[u] \in mem.used
    BY DEF IInv, Memory, Good, Owned, Waiting
  <2>2. mem'.data[p] = 0 /\ \A q \in Page \ {p} : mem'.data[q] = mem.data[q]
    BY <1>4 DEF Took
  <2>3. mem.used \subseteq Page
    BY Fields DEF IInv, TypeOK
  <2>. QED
    BY <1>1, <1>2, <1>3, <2>1, <2>2, <2>3 DEF IInv, Zeroes
<1>11. ASSUME NEW u \in Tasks PROVE TaskSound(u)'
  <2>1. Local(mem, u, pc[u], page[u], va[u], ind, nr_tasks)
    BY DEF IInv, TaskSound
  <2>2. Local(mem', u, pc[u], page[u], va[u], ind, nr_tasks)
    <3>1. nr_tasks \in Nat /\ nr_tasks <= nr_tasks /\ va[u] \in Addr
      BY Types DEF IInv
    <3>. QED
      BY <1>6, <2>1, <3>1, SameLocal
  <2>3. CASE u # t
    BY <1>1, <1>2, <2>2, <2>3 DEF TaskSound
  <2>4. CASE u = t
    <3>1. Local(mem', t, "taken", page[t], va[t], ind, nr_tasks)
      BY <1>1, <2>2, <2>4 DEF Local, Unborn, Size
    <3>. QED
      BY <1>1, <1>2, <2>4, <3>1 DEF TaskSound
  <2>. QED
    BY <2>3, <2>4
<1>. QED
  BY <1>7, <1>8, <1>9, <1>10, <1>11 DEF IInv

(* Task t has mapped its page p: what map_page leaves, but for the data.   *)
LEMMA MappedSame ==
  ASSUME NEW m \in Mem, NEW n, NEW T, NEW t \in Tasks, NEW a \in Addr,
         NEW p \in Page, Mapped(m, n, t, a, p, T), NEW u \in Tasks, u # t
  PROVE  Same(m, n, u)
<1>1. n.user_pages[u] = m.user_pages[u]
  <2>1. OneRecord(m, n, t, a, p, Len(m.user_pages[t]))
    BY MappedRecords
  <2>. QED
    BY <2>1 DEF OneRecord
<1>. QED
  BY <1>1 DEF Mapped, Kept, Same

LEMMA MappedSize ==
  ASSUME NEW m \in Mem, NEW n, NEW T, NEW t \in Tasks, NEW a \in Addr,
         NEW p \in Page, Mapped(m, n, t, a, p, T),
         NEW c, c # "hang", NEW i \in 1 .. 3, Size(m, t, c, i),
         NEW d, NEW j \in 1 .. 3,
         i # 1 => d = "hang" \/ Len(m.user_pages[t]) = 0,
         j = 1 => Len(m.user_pages[t]) = 0
  PROVE  Size(n, t, d, j)
<1>1. PICK l \in Nat : l = Len(m.user_pages[t]) /\ Len(n.user_pages[t]) = l + 1
  <2>1. OneRecord(m, n, t, a, p, Len(m.user_pages[t]))
    BY MappedRecords
  <2>. QED
    BY <2>1 DEF OneRecord
<1>2. Fits(n, t)
  BY MappedFits DEF Size, Mapped, Good
<1>3. l <= 2 /\ (i = 1 => l <= 1) /\ (j = 1 => l = 0)
  BY <1>1 DEF Size
<1>4. l + 1 <= 3 /\ (d # "hang" => l + 1 <= 2) /\ (j = 1 => l + 1 <= 1)
  BY <1>1, <1>3
<1>. QED
  BY <1>1, <1>2, <1>4 DEF Size

(* Page p, which waits for task t, is mapped and its data may be set; t    *)
(* goes to user mode or hangs.                                             *)
MapsPage(n, t, p) ==
  /\ Good(n, Waiting \ {p}) /\ Agreed(n) /\ mem.used \subseteq n.used
  /\ \A u \in Tasks \ {t} : Same(mem, n, u)
  /\ \A q \in mem.used \ {p} : n.data[q] = mem.data[q]
  /\ n.struct = mem.struct

LEMMA MapKeeps ==
  ASSUME ~TickInAllocator, IInv, NEW t \in Tasks, MayRun(t), pc[t] = "taken",
         MapsPage(mem', t, page[t]),
         NEW to \in {"user", "hang"}, pc' = [pc EXCEPT ![t] = to],
         ind' \in 1 .. 3, ind' = 1 => ind = 1, Size(mem', t, to, ind'),
         UNCHANGED <<nr_tasks, va, page, ret>>
  PROVE  IInv'
<1>. DEFINE p == page[t]
<1>1. pc'[t] = to /\ \A u \in Tasks \ {t} : pc'[u] = pc[u]
  BY DEF IInv, TypeOK
<1>2. \A u \in Tasks : pc[u] # "found"
  BY NoneFinds
<1>3. Waiting' = Waiting \ {p}
  BY <1>1 DEF IInv, Zeroes, Waiting
<1>4. Memory'
  BY <1>3 DEF Memory, MapsPage
<1>5. TypeOK'
  BY DEF IInv, TypeOK, MapsPage, Good
<1>6. Finding'
  BY <1>1, <1>2 DEF Finding
<1>7. Zeroes'
  <2>1. ASSUME NEW u \in Tasks, pc'[u] = "taken" PROVE mem'.data[page[u]] = 0
    <3>1. u # t /\ pc[u] = "taken"
      BY <1>1, <2>1
    <3>2. page[u] # p /\ mem.data[page[u]] = 0
      BY <3>1 DEF IInv, Zeroes
    <3>3. page[u] \in mem.used
      BY <3>1 DEF IInv, Memory, Good, Owned, Waiting
    <3>. QED
      BY <3>2, <3>3 DEF MapsPage
  <2>2. \A u \in Tasks : pc'[u] = "taken" => pc[u] = "taken"
    BY <1>1
  <2>. QED
    BY <2>1, <2>2 DEF IInv, Zeroes
<1>8. ASSUME NEW u \in Tasks PROVE TaskSound(u)'
  <2>1. Local(mem, u, pc[u], page[u], va[u], ind, nr_tasks)
    BY DEF IInv, TaskSound
  <2>2. CASE u # t
    <3>1. Local(mem', u, pc[u], page[u], va[u], ind', nr_tasks)
      <4>1. nr_tasks \in Nat /\ nr_tasks <= nr_tasks /\ va[u] \in Addr
        BY Types DEF IInv
      <4>2. Same(mem, mem', u)
        BY <2>2 DEF MapsPage
      <4>. QED
        BY <2>1, <4>1, <4>2, SameLocal
    <3>. QED
      BY <1>1, <2>2, <3>1 DEF TaskSound
  <2>3. CASE u = t
    <3>1. ~(t >= nr_tasks)
      BY <2>1, <2>3 DEF Local, Unborn
    <3>2. Local(mem', t, to, page[t], va[t], ind', nr_tasks)
      BY <3>1 DEF Local
    <3>. QED
      BY <1>1, <2>3, <3>2 DEF TaskSound
  <2>. QED
    BY <2>2, <2>3
<1>. QED
  BY <1>4, <1>5, <1>6, <1>7, <1>8 DEF IInv

(* map_page for the page that waits for task t.                            *)
LEMMA MapWaiting ==
  ASSUME IInv, NEW t \in Tasks, pc[t] = "taken",
         NEW n, n = MapPage(mem, t, va[t], page[t])
  PROVE  /\ Mapped(mem, n, t, va[t], page[t], Waiting) /\ Agreed(n)
         /\ Maps(mem, t, page[t], va[t]) /\ page[t] \in Waiting
         /\ va[t] \in Addr
<1>1. Maps(mem, t, page[t], va[t]) /\ page[t] \in Waiting
  BY DEF IInv, TaskSound, Local, Waiting
<1>2. va[t] \in Addr /\ mem \in Mem
  BY Types DEF IInv
<1>3. /\ page[t] \in Page /\ Translate(mem, t, va[t]) = Absent
      /\ Good(mem, Waiting) /\ Agreed(mem)
  BY <1>1 DEF IInv, Memory, Maps
<1>4. Mapped(mem, n, t, va[t], page[t], Waiting)
  BY <1>1, <1>2, <1>3, MapPageGood
<1>. QED
  BY <1>1, <1>2, <1>3, <1>4, MappedAgrees

LEMMA ServeKeeps ==
  ASSUME ~TickInAllocator, IInv, NEW t \in Tasks, ServeAbort(t)
  PROVE  IInv'
<1>. DEFINE p == page[t]
            to == IF Serves(ind + 1) THEN "user" ELSE "hang"
<1>1. /\ MayRun(t) /\ pc[t] = "taken" /\ pc' = [pc EXCEPT ![t] = to]
      /\ mem' = MapPage(mem, t, va[t], p)
      /\ ind' = (IF ind > 2 THEN ind ELSE ind + 1)
      /\ UNCHANGED <<nr_tasks, va, page, ret>>
  BY DEF ServeAbort, Goto
<1>2. /\ Mapped(mem, mem', t, va[t], p, Waiting) /\ Agreed(mem')
      /\ p \in Page /\ va[t] \in Addr /\ mem \in Mem
  BY <1>1, MapWaiting, Types DEF IInv, Maps
<1>3. \A u \in Tasks \ {t} : Same(mem, mem', u)
  BY <1>2, MappedSame
<1>4. MapsPage(mem', t, p)
  BY <1>2, <1>3 DEF MapsPage, Mapped, Kept
<1>5. ind \in 1 .. 3 /\ ind' \in 1 .. 3 /\ ind' # 1 /\ (ind # 1 => to = "hang")
      /\ to \in {"user", "hang"}
  BY <1>1, Types DEF IInv, Serves
<1>. HIDE DEF to
<1>6. Size(mem', t, to, ind')
  <2>1. Size(mem, t, "taken", ind)
    BY <1>1 DEF IInv, TaskSound, Local
  <2>2. "taken" # "hang"
    OBVIOUS
  <2>. QED
    BY <1>2, <1>5, <2>1, <2>2, MappedSize
<1>. QED
  BY <1>1, <1>4, <1>5, <1>6, MapKeeps

LEMMA LoadKeeps ==
  ASSUME ~TickInAllocator, IInv, NEW t \in Tasks, LoadProgram(t)
  PROVE  IInv'
<1>. DEFINE p == page[t]
            n == MapPage(mem, t, va[t], p)
<1>1. /\ MayRun(t) /\ pc[t] = "taken" /\ pc' = [pc EXCEPT ![t] = "user"]
      /\ mem' = [n EXCEPT !.data[p] = Program]
      /\ UNCHANGED <<nr_tasks, va, page, ind, ret>>
      /\ Loading(t)
  BY DEF LoadProgram, Goto
<1>2. /\ Mapped(mem, n, t, va[t], p, Waiting) /\ Agreed(n)
      /\ p \in Page /\ va[t] \in Addr /\ mem \in Mem
  BY <1>1, MapWaiting, Types DEF IInv, Maps
<1>. HIDE DEF n
<1>3. \A u \in Tasks \ {t} : Same(mem, n, u)
  BY <1>2, MappedSame
<1>4. /\ Good(mem', Waiting \ {p}) /\ SameView(n, mem') /\ Agreed(mem')
      /\ mem'.used = n.used /\ mem'.struct = n.struct
      /\ mem'.pgd = n.pgd /\ mem'.user_pages = n.user_pages
      /\ mem'.kernel_pages = n.kernel_pages
      /\ \A q \in Page \ {p} : mem'.data[q] = n.data[q]
  <2>1. DataAt(mem', n, p, Program)
    BY <1>1 DEF DataAt
  <2>2. Good(n, Waiting \ {p}) /\ Program \in Value
    BY <1>2, MmAssumption DEF Mapped
  <2>. QED
    BY <1>2, <2>1, <2>2, Written
<1>5. \A u \in Tasks \ {t} : Same(mem, mem', u)
  BY <1>3, <1>4 DEF Same, SameView
<1>6. MapsPage(mem', t, p)
  <2>1. mem.used \subseteq Page
    BY <1>2, Fields
  <2>. QED
    BY <1>2, <1>4, <1>5, <2>1 DEF MapsPage, Mapped, Kept
<1>7. ind \in 1 .. 3 /\ Len(mem.user_pages[t]) = 0
  BY <1>1, Types DEF IInv, Loading
<1>8. Size(mem', t, "user", ind)
  <2>1. Size(mem, t, "taken", ind)
    BY <1>1 DEF IInv, TaskSound, Local
  <2>2. "taken" # "hang"
    OBVIOUS
  <2>3. Size(n, t, "user", ind)
    BY <1>2, <1>7, <2>1, <2>2, MappedSize
  <2>. QED
    BY <1>4, <2>3 DEF Size, Fits
<1>. QED
  BY <1>1, <1>6, <1>7, <1>8, MapKeeps

LEMMA StoreKeeps ==
  ASSUME ~TickInAllocator, IInv, NEW t \in Tasks, NEW a \in Addr, Store(t, a)
  PROVE  IInv'
<1>. DEFINE p == Translate(mem, t, a)
<1>1. /\ MayRun(t) /\ InUser(t) /\ p \in Page
      /\ UNCHANGED <<nr_tasks, pc, va, page, ind, ret>>
  BY DEF Store
<1>2. PICK v \in Value : mem' = [mem EXCEPT !.data[p] = v]
  BY DEF Store
<1>3. Good(mem, Waiting) /\ Agreed(mem) /\ p \in mem.used \ Waiting
  <2>1. Good(mem, Waiting) /\ Agreed(mem) /\ p # Absent
    BY <1>1, Pages DEF IInv, Memory
  <2>. QED
    BY <2>1, ViewUsed
<1>. HIDE DEF p
<1>4. /\ Good(mem', Waiting) /\ SameView(mem, mem') /\ Agreed(mem')
      /\ mem'.used = mem.used /\ mem'.struct = mem.struct
      /\ mem'.pgd = mem.pgd /\ mem'.user_pages = mem.user_pages
      /\ mem'.kernel_pages = mem.kernel_pages
      /\ \A q \in Page \ {p} : mem'.data[q] = mem.data[q]
  <2>1. DataAt(mem', mem, p, v)
    BY <1>2 DEF DataAt
  <2>. QED
    BY <1>1, <1>3, <2>1, Written
<1>5. \A u \in Tasks : Same(mem, mem', u)
  BY <1>4 DEF Same, SameView
<1>6. TypeOK'
  BY <1>1, <1>4 DEF IInv, TypeOK, Good
<1>7. Memory'
  <2>1. Waiting' = Waiting
    BY <1>1 DEF Waiting
  <2>. QED
    BY <1>4, <2>1 DEF Memory
<1>8. Finding'
  BY <1>1, <1>4 DEF IInv, Finding
<1>9. Zeroes'
  <2>1. \A u \in Tasks : pc[u] = "taken" => page[u] \in Waiting
    BY DEF Waiting
  <2>2. Waiting \subseteq Page
    BY DEF IInv, Memory, Good, Owned
  <2>. QED
    BY <1>1, <1>3, <1>4, <2>1, <2>2 DEF IInv, Zeroes
<1>10. ASSUME NEW u \in Tasks PROVE TaskSound(u)'
  <2>1. Local(mem, u, pc[u], page[u], va[u], ind, nr_tasks)
    BY DEF IInv, TaskSound
  <2>2. nr_tasks \in Nat /\ nr_tasks <= nr_tasks /\ va[u] \in Addr
    BY Types DEF IInv
  <2>3. Local(mem', u, pc[u], page[u], va[u], ind, nr_tasks)
    BY <1>5, <2>1, <2>2, SameLocal
  <2>. QED
    BY <1>1, <2>3 DEF TaskSound
<1>. QED
  BY <1>6, <1>7, <1>8, <1>9, <1>10 DEF IInv

(* n is the memory with page p as the task_struct of task c.               *)
StructTaken(n, c, p) == n = [Taken(mem, p) EXCEPT !.struct[c] = p]
Started(n, c) ==
  /\ Good(n, Waiting) /\ Agreed(n) /\ SameView(mem, n)
  /\ mem.used \subseteq n.used /\ n.wild = mem.wild
  /\ n.pgd = mem.pgd /\ n.user_pages = mem.user_pages
  /\ n.kernel_pages = mem.kernel_pages
  /\ \A u \in Tasks \ {c} : n.struct[u] = mem.struct[u]
  /\ \A q \in mem.used : n.data[q] = mem.data[q]

LEMMA StartTask ==
  ASSUME IInv, NEW c \in Tasks, c = nr_tasks, NEW p, p = FirstFree(mem),
         p # KernelImage, NEW n, StructTaken(n, c, p)
  PROVE  Started(n, c)
<1>1. mem \in Mem /\ Good(mem, Waiting) /\ Agreed(mem)
  BY DEF IInv, Memory, Good
<1>2. p \in Page /\ p \notin mem.used /\ p \notin Waiting
  <2>1. mem.used \subseteq Page
    BY <1>1, Fields
  <2>2. Waiting \subseteq mem.used
    BY <1>1 DEF Good, Owned
  <2>. QED
    BY <2>1, <2>2, FirstFreePage
<1>. DEFINE k == Taken(mem, p)
<1>3. Good(k, Waiting \cup {p}) /\ Took(mem, k, p)
  <2>1. IsTaken(k, mem, p)
    BY DEF IsTaken
  <2>. HIDE DEF k
  <2>. QED
    BY <1>1, <1>2, <2>1, TakePageGood
<1>4. StructSet(n, k, [k.struct EXCEPT ![c] = p])
  BY DEF StructTaken, StructSet
<1>. HIDE DEF k
<1>5. k \in Mem /\ k.struct = mem.struct
  BY <1>3 DEF Good, Took
<1>6. mem.struct[c] = KernelImage
  BY <1>1, Types DEF IInv, TaskSound, Local, Unborn
<1>7. /\ n \in Mem /\ n.struct = [k.struct EXCEPT ![c] = p]
      /\ n.used = k.used /\ n.table = k.table
      /\ n.data = k.data /\ n.pgd = k.pgd
      /\ n.user_pages = k.user_pages /\ n.kernel_pages = k.kernel_pages
      /\ n.wild = k.wild
  <2>. DEFINE v == [k.struct EXCEPT ![c] = p]
  <2>1. v \in PageOf
    BY <1>2, <1>5, Fields DEF PageOf
  <2>2. StructSet(n, k, v)
    BY <1>4
  <2>. HIDE DEF v
  <2>3. /\ n \in Mem /\ n.struct = v
        /\ n.used = k.used /\ n.table = k.table
        /\ n.data = k.data /\ n.pgd = k.pgd
        /\ n.user_pages = k.user_pages /\ n.kernel_pages = k.kernel_pages
        /\ n.wild = k.wild
    BY <1>5, <2>1, <2>2, SetStruct
  <2>. QED
    BY <2>3 DEF v
<1>8. Owned(n, Waiting)
  <2>1. Changed(n.struct, k.struct, c, p)
    BY <1>7 DEF Changed
  <2>2. Grown(k, n, StructAt(c), p)
    BY <1>5, <1>6, <1>7, <2>1, GrownStruct
  <2>3. Owned(k, Waiting \cup {p})
    BY <1>3 DEF Good
  <2>4. Owned(n, (Waiting \cup {p}) \ {p})
    BY <1>7, <2>2, <2>3, OwnGrow
  <2>5. (Waiting \cup {p}) \ {p} = Waiting
    BY <1>2
  <2>. QED
    BY <2>4, <2>5
<1>9. SameView(k, n) /\ Tree(n) /\ Spent(n)
  BY <1>3, <1>7, SameTables DEF Good
<1>10. SameView(mem, n)
  <2>1. SameView(mem, k)
    <3>1. 4 \in 0 .. 4
      OBVIOUS
    <3>. QED
      BY <1>3, <3>1, NodeSteps DEF Took, SameView
  <2>. QED
    BY <1>9, <2>1, SameViewOn
<1>11. /\ k.used = mem.used \cup {p} /\ k.wild = mem.wild
       /\ k.pgd = mem.pgd /\ k.user_pages = mem.user_pages
       /\ k.kernel_pages = mem.kernel_pages
       /\ \A q \in mem.used : k.data[q] = mem.data[q]
  <2>1. mem.used \subseteq Page \ {p}
    BY <1>1, <1>2, Fields
  <2>. QED
    BY <1>3, <2>1 DEF Took
<1>12. Agreed(n)
  BY <1>1, <1>7, <1>10, <1>11, SameAgreed
<1>13. \A u \in Tasks \ {c} : n.struct[u] = mem.struct[u]
  BY <1>5, <1>7, Fields DEF PageOf
<1>. QED
  BY <1>7, <1>8, <1>9, <1>10, <1>11, <1>12, <1>13 DEF Started, Good

(* What fork leaves: c is a copy of t in the memory with its task_struct.  *)
LEMMA ForkCopies ==
  ASSUME IInv, NEW t \in Tasks, Fork(t)
  PROVE  \E m : /\ Started(m, nr_tasks)
                /\ Copied(m, mem', t, nr_tasks, Len(m.user_pages[t]), Waiting)
<1>. DEFINE c == nr_tasks
            p == FirstFree(mem)
            m == [Taken(mem, p) EXCEPT !.struct[c] = p]
<1>1. /\ InUser(t) /\ c \in Tasks /\ p # KernelImage
      /\ mem' = CopyVirtMemory(m, t, c)
  BY DEF Fork
<1>2. Started(m, c)
  <2>1. StructTaken(m, c, p)
    BY DEF StructTaken
  <2>. HIDE DEF m, p
  <2>2. p = FirstFree(mem)
    BY DEF p
  <2>. QED
    BY <1>1, <2>1, <2>2, StartTask
<1>. HIDE DEF m, p
<1>3. m.user_pages[c] = <<>> /\ m.kernel_pages[c] = <<>>
  <2>1. mem.user_pages[c] = <<>> /\ mem.kernel_pages[c] = <<>>
    BY <1>1, Pages DEF IInv, TaskSound, Local, Unborn
  <2>. QED
    BY <1>2, <2>1 DEF Started
<1>4. t # c
  BY <1>1, UserHasCode, Pages
<1>5. Good(m, Waiting) /\ Agreed(m)
  BY <1>2 DEF Started
<1>6. Copied(m, CopyVirtMemory(m, t, c), t, c, Len(m.user_pages[t]), Waiting)
  BY <1>1, <1>3, <1>4, <1>5, CopyAll
<1>. QED
  BY <1>1, <1>2, <1>6

LEMMA ForkKeeps ==
  ASSUME ~TickInAllocator, IInv, NEW t \in Tasks, Fork(t)
  PROVE  IInv'
<1>. DEFINE c == nr_tasks
<1>1. /\ MayRun(t) /\ InUser(t) /\ c \in Tasks /\ nr_tasks' = c + 1
      /\ pc' = [pc EXCEPT ![c] = "user"] /\ ret' = [ret EXCEPT ![t] = c]
      /\ UNCHANGED <<va, page, ind>>
  BY DEF Fork
<1>2. PICK m : /\ Started(m, c)
               /\ Copied(m, mem', t, c, Len(m.user_pages[t]), Waiting)
  BY ForkCopies
<1>3. /\ pc[t] = "user" /\ t # c
      /\ pc'[c] = "user" /\ \A u \in Tasks \ {c} : pc'[u] = pc[u]
      /\ c \in Nat /\ \A u \in Tasks : u # c /\ u >= c + 1 => u >= c
  BY <1>1, UserHasCode, Pages DEF IInv, TypeOK
<1>4. pc[c] = "none"
  BY <1>1, <1>3 DEF IInv, TaskSound, Local, Unborn
<1>5. \A u \in Tasks : pc[u] # "found"
  BY <1>1, <1>3, NoneFinds
<1>6. /\ Good(mem', Waiting) /\ Agreed(mem')
      /\ m.used \subseteq mem'.used
      /\ \A q \in m.used : mem'.data[q] = m.data[q]
  BY <1>2 DEF Copied, Kept
<1>7. \A u \in Tasks \ {c} : Same(mem, mem', u)
  BY <1>2 DEF Same, Started, SameView, Copied, Kept
<1>8. TypeOK'
  <2>1. nr_tasks' \in 2 .. NR_TASKS /\ c \in 0 .. NR_TASKS
    BY <1>1, MmAssumption DEF IInv, TypeOK, Tasks
  <2>. QED
    BY <1>1, <1>6, <2>1 DEF IInv, TypeOK, Good
<1>9. Memory'
  <2>1. Waiting' = Waiting
    BY <1>1, <1>3, <1>4 DEF Waiting
  <2>. QED
    BY <1>6, <2>1 DEF Memory
<1>10. Finding'
  BY <1>1, <1>3, <1>5 DEF Finding
<1>11. Zeroes'
  <2>1. ASSUME NEW u \in Tasks, pc'[u] = "taken"
        PROVE  pc[u] = "taken" /\ mem'.data[page[u]] = 0
    <3>1. u # c /\ pc[u] = "taken"
      BY <1>3, <2>1
    <3>2. page[u] \in mem.used /\ mem.data[page[u]] = 0
      BY <3>1 DEF IInv, Zeroes, Memory, Good, Owned, Waiting
    <3>. QED
      BY <1>2, <1>6, <3>1, <3>2 DEF Started
  <2>. QED
    BY <1>1, <2>1 DEF IInv, Zeroes
<1>12. ASSUME NEW u \in Tasks PROVE TaskSound(u)'
  <2>1. CASE u # c
    <3>1. Local(mem, u, pc[u], page[u], va[u], ind, c)
      BY DEF IInv, TaskSound
    <3>2. va[u] \in Addr /\ c + 1 \in Nat /\ c <= c + 1
      BY <1>3, Types DEF IInv
    <3>3. Local(mem', u, pc[u], page[u], va[u], ind, c + 1)
      BY <1>3, <1>7, <2>1, <3>1, <3>2, SameLocal
    <3>. QED
      BY <1>1, <1>3, <2>1, <3>3 DEF TaskSound
  <2>2. CASE u = c
    <3>1. PICK k \in Nat : k = Len(mem.user_pages[t])
      BY RecordTypes DEF IInv, TypeOK
    <3>2. k <= 2 /\ (ind = 1 => k <= 1)
      BY <1>3, <3>1 DEF IInv, TaskSound, Local, Size
    <3>3. Fits(mem', c) /\ Len(mem'.user_pages[c]) <= k
      BY <1>2, <3>1 DEF Started, Copied
    <3>4. Len(mem'.user_pages[c]) \in Nat
      BY <1>1, <1>6, RecordTypes DEF Good
    <3>5. Size(mem', c, "user", ind)
      <4>. DEFINE l == Len(mem'.user_pages[c])
      <4>1. l \in Nat /\ l <= k
        BY <3>3, <3>4
      <4>. HIDE DEF l
      <4>2. l <= 3 /\ l <= 2 /\ (ind = 1 => l <= 1)
        BY <3>2, <4>1
      <4>. QED
        BY <3>3, <4>2 DEF Size, l
    <3>6. ~(c >= c + 1)
      BY <1>3
    <3>7. Local(mem', c, "user", page[c], va[c], ind, c + 1)
      BY <3>5, <3>6 DEF Local
    <3>. QED
      BY <1>1, <1>3, <2>2, <3>7 DEF TaskSound
  <2>. QED
    BY <2>1, <2>2
<1>. QED
  BY <1>8, <1>9, <1>10, <1>11, <1>12 DEF IInv

-----------------------------------------------------------------------------
(* The theorems.  All but the last assume what the runs assume: no tick    *)
(* lands between the test of a mem_map entry and its update.               *)

(* IInv holds in every state: the records own the marked pages, the tables *)
(* form a tree on record, and they say what user_pages says.               *)
THEOREM Inductive ==
  ASSUME ~TickInAllocator
  PROVE  Spec => []IInv
<1>1. ASSUME IInv, Next PROVE IInv'
  <2>1. PICK t \in Tasks :
          \/ MoveToUserMode(t) \/ TakePage(t) \/ LoadProgram(t) \/ ServeAbort(t)
          \/ OtherAbort(t) \/ Fork(t) \/ ForkFail(t) \/ Exit(t)
          \/ \E a \in Addr : DataAbort(t, a) \/ Store(t, a)
    BY <1>1 DEF Next
  <2>2. CASE MoveToUserMode(t) \/ \E a \in Addr : DataAbort(t, a)
    BY <1>1, <2>2, MoveKeeps, DataAbortKeeps
  <2>3. CASE TakePage(t)
    BY <1>1, <2>3, TakeKeeps
  <2>4. CASE LoadProgram(t)
    BY <1>1, <2>4, LoadKeeps
  <2>5. CASE ServeAbort(t)
    BY <1>1, <2>5, ServeKeeps
  <2>6. CASE Fork(t)
    BY <1>1, <2>6, ForkKeeps
  <2>7. CASE OtherAbort(t) \/ ForkFail(t) \/ Exit(t)
    BY <1>1, <2>7, OtherAbortKeeps, ForkFailKeeps, ExitKeeps
  <2>8. CASE \E a \in Addr : Store(t, a)
    BY <1>1, <2>8, StoreKeeps
  <2>. QED
    BY <2>1, <2>2, <2>3, <2>4, <2>5, <2>6, <2>7, <2>8
<1>2. ASSUME IInv, UNCHANGED vars PROVE IInv'
  <2>1. UNCHANGED <<mem, nr_tasks, pc, va, page, ind, ret>>
    BY <1>2 DEF vars
  <2>2. Waiting' = Waiting /\ TypeOK'
    BY <1>2, <2>1 DEF Waiting, IInv, TypeOK
  <2>3. Finding' /\ Zeroes'
    BY <1>2, <2>1 DEF IInv, Finding, Zeroes
  <2>4. \A t \in Tasks : TaskSound(t)'
    BY <1>2, <2>1 DEF IInv, TaskSound
  <2>. QED
    BY <1>2, <2>1, <2>2, <2>3, <2>4 DEF IInv, Memory
<1>. QED
  BY <1>1, <1>2, InitIInv, PTL DEF Spec

(* get_free_page never hands out a page that is on record: no page is held *)
(* twice, by two processes or as a table and as memory (README.md:213).    *)
THEOREM NoPageIsSharedByAccident ==
  ASSUME ~TickInAllocator
  PROVE  Spec => []NoFrameTwice
<1>1. IInv => NoFrameTwice
  BY DEF IInv, Memory, Good, Owned, NoFrameTwice
<1>. QED
  BY <1>1, Inductive, PTL

(* mem_map marks exactly the pages on record and those that a handler has  *)
(* taken and is about to map: none is lost, none is handed out again.      *)
THEOREM EveryPageAccounted ==
  ASSUME ~TickInAllocator
  PROVE  Spec => []Accounted
<1>1. IInv => Accounted
  BY DEF IInv, Memory, Good, Owned, Accounted, Waiting
<1>. QED
  BY <1>1, Inductive, PTL

(* As long as no walk has met the failed page, the tables that map_page    *)
(* builds and the user_pages array that fork copies by say the same.       *)
THEOREM TablesSayWhatIsRecorded ==
  ASSUME ~TickInAllocator
  PROVE  Spec => []TablesAgree
<1>1. ASSUME IInv, ~mem.wild, NEW t \in Tasks, NEW a \in Addr
      PROVE  {mem.user_pages[t][k].pa :
                k \in {j \in DOMAIN mem.user_pages[t] :
                         mem.user_pages[t][j].va = a}}
               = {Translate(mem, t, a)} \ {Absent}
  <2>1. Agreed(mem)
    BY <1>1 DEF IInv, Memory
  <2>2. \A k \in DOMAIN mem.user_pages[t] :
          mem.user_pages[t][k].va = a =>
            /\ mem.user_pages[t][k].pa = Translate(mem, t, a)
            /\ mem.user_pages[t][k].pa # Absent
    <3>1. \A k \in DOMAIN mem.user_pages[t] : mem.user_pages[t][k].pa \in Page
      BY <1>1, RecordTypes DEF IInv, TypeOK
    <3>. QED
      BY <1>1, <2>1, <3>1, Pages DEF Agreed
  <2>3. Translate(mem, t, a) # Absent =>
          \E k \in DOMAIN mem.user_pages[t] :
            /\ mem.user_pages[t][k].va = a
            /\ mem.user_pages[t][k].pa = Translate(mem, t, a)
    BY <2>1 DEF Agreed
  <2>. QED
    BY <2>2, <2>3
<1>2. IInv => TablesAgree
  BY <1>1 DEF TablesAgree, Created
<1>. QED
  BY <1>2, Inductive, PTL

(* do_mem_abort counts the faults it serves: a process gets three pages at *)
(* most, with ten tables, and the 16 entries of the code's arrays suffice. *)
THEOREM ArraysSuffice ==
  ASSUME ~TickInAllocator, MAX_PROCESS_PAGES > 10
  PROVE  Spec => []ArrayBounds
<1>1. ASSUME IInv, NEW t \in Tasks
      PROVE  /\ Len(mem.user_pages[t]) <= MAX_PROCESS_PAGES
             /\ Len(mem.kernel_pages[t]) <= MAX_PROCESS_PAGES - 1
  <2>1. PICK k \in Nat, l \in Nat :
          k = Len(mem.user_pages[t]) /\ l = Len(mem.kernel_pages[t])
    BY <1>1, RecordTypes, KernelLength DEF IInv, TypeOK
  <2>2. k <= 3 /\ l <= 3 * k + 1
    <3>1. Size(mem, t, pc[t], ind)
      BY <1>1 DEF IInv, TaskSound, Local
    <3>2. l <= 3 * k + (IF mem.pgd[t] = KernelImage THEN 0 ELSE 1) /\ k <= 3
      BY <2>1, <3>1 DEF Size, Fits
    <3>3. CASE mem.pgd[t] = KernelImage
      BY <2>1, <3>2, <3>3
    <3>4. CASE mem.pgd[t] # KernelImage
      BY <2>1, <3>2, <3>4
    <3>. QED
      BY <3>3, <3>4
  <2>3. l <= 10
    BY <2>2
  <2>. QED
    BY <2>1, <2>2, <2>3, MmAssumption
<1>2. IInv => ArrayBounds
  BY <1>1 DEF ArrayBounds
<1>. QED
  BY <1>2, Inductive, PTL

-----------------------------------------------------------------------------
(* Mm implements AddressSpaces.                                            *)

(* The memory that task t sees when the memory is m.                       *)
Has(m, t) == {b \in Addr : Translate(m, t, b) # Absent}
View(m, t) == [a \in Has(m, t) |-> m.data[Translate(m, t, a)]]
Views(m) == [t \in Tasks |-> View(m, t)]

LEMMA SpacesAreViews ==
  /\ [t \in Tasks |-> SpaceOf(t)] = Views(mem)
  /\ [t \in Tasks |-> SpaceOf(t)]' = Views(mem')
BY DEF Views, View, Has, SpaceOf

(* The same walks to the same data show the same memory.                   *)
LEMMA SameMemory ==
  ASSUME NEW m, NEW n, NEW t, NEW u,
         \A b \in Addr : Translate(n, u, b) = Translate(m, t, b),
         \A b \in Addr : Translate(m, t, b) # Absent =>
           n.data[Translate(m, t, b)] = m.data[Translate(m, t, b)]
  PROVE  View(n, u) = View(m, t)
<1>1. Has(n, u) = Has(m, t)
  BY DEF Has
<1>2. \A b \in Has(m, t) :
        n.data[Translate(n, u, b)] = m.data[Translate(m, t, b)]
  BY DEF Has
<1>. QED
  BY <1>1, <1>2 DEF View

LEMMA Seen ==
  ASSUME IInv, NEW t \in Tasks, NEW b \in Addr, Translate(mem, t, b) # Absent
  PROVE  /\ Translate(mem, t, b) \in Page
         /\ Translate(mem, t, b) \in mem.used \ Waiting
BY ViewUsed DEF IInv, Memory

(* What leaves a task alone, and the data of the pages that were in use,   *)
(* leaves what it sees.                                                    *)
LEMMA SameSeen ==
  ASSUME IInv, NEW t \in Tasks, NEW n, Same(mem, n, t), NEW T,
         T \cap (mem.used \ Waiting) = {},
         \A q \in mem.used \ T : n.data[q] = mem.data[q]
  PROVE  View(n, t) = View(mem, t)
<1>1. \A b \in Addr : Translate(n, t, b) = Translate(mem, t, b)
  BY DEF Same
<1>2. \A b \in Addr : Translate(mem, t, b) # Absent =>
        n.data[Translate(mem, t, b)] = mem.data[Translate(mem, t, b)]
  BY Seen
<1>. QED
  BY <1>1, <1>2, SameMemory

(* Steps of the abstract memory, on what the tasks see.                    *)
ViewStep(v, w) ==
  \E t \in Tasks :
    \/ /\ v[t] = [a \in {} |-> 0]
       /\ w = [v EXCEPT ![t] = [a \in {CodeAddr} |-> Program]]
    \/ \E a \in Addr :
         /\ CodeAddr \in DOMAIN v[t] /\ a \notin DOMAIN v[t]
         /\ w = [v EXCEPT ![t] = [b \in DOMAIN @ \cup {a} |->
                                    IF b = a THEN 0 ELSE @[b]]]
    \/ \E a \in Addr :
         /\ a \in DOMAIN v[t]
         /\ \E x \in Value : w = [v EXCEPT ![t][a] = x]
    \/ \E c \in Tasks :
         /\ v[t] # [a \in {} |-> 0] /\ v[c] = [a \in {} |-> 0]
         /\ w = [v EXCEPT ![c] = v[t]]

LEMMA ViewStepIsNext ==
  ASSUME ViewStep(Views(mem), Views(mem'))
  PROVE  Spaces!Next
<1>. DEFINE v == [t \in Tasks |-> SpaceOf(t)]
<1>1. v = Views(mem) /\ v' = Views(mem')
  BY SpacesAreViews
<1>2. ViewStep(v, v')
  BY <1>1
<1>. HIDE DEF v
<1>. QED
  BY <1>2 DEF ViewStep, Spaces!Next, Spaces!Load, Spaces!Grow, Spaces!Write,
              Spaces!Fork, Spaces!Nowhere, v

LEMMA TakeSeen ==
  ASSUME IInv, NEW t \in Tasks, TakePage(t)
  PROVE  Views(mem') = Views(mem)
<1>. DEFINE p == page[t]
<1>1. p \in Page /\ p \notin mem.used
  BY DEF TakePage, IInv, Finding, TaskSound, Local, Maps
<1>2. Took(mem, mem', p)
  <2>1. IsTaken(mem', mem, p)
    BY DEF IsTaken, TakePage
  <2>2. Good(mem, Waiting)
    BY DEF IInv, Memory
  <2>. QED
    BY <1>1, <2>1, <2>2, TakePageGood
<1>3. \A u \in Tasks : Same(mem, mem', u)
  <2>1. 4 \in 0 .. 4
    OBVIOUS
  <2>. QED
    BY <1>2, <2>1, NodeSteps DEF Took, Same
<1>4. \A q \in mem.used \ {} : mem'.data[q] = mem.data[q]
  <2>1. mem.used \subseteq Page \ {p}
    BY <1>1, Fields DEF IInv, TypeOK
  <2>. QED
    BY <1>2, <2>1 DEF Took
<1>5. ASSUME NEW u \in Tasks PROVE View(mem', u) = View(mem, u)
  <2>1. {} \cap (mem.used \ Waiting) = {}
    OBVIOUS
  <2>. QED
    BY <1>3, <1>4, <2>1, SameSeen
<1>. QED
  BY <1>5 DEF Views

(* The kernel process gets its program.                                    *)
LEMMA LoadSeen ==
  ASSUME IInv, NEW t \in Tasks, LoadProgram(t), IInv', mem'.used # Page
  PROVE  ViewStep(Views(mem), Views(mem'))
<1>. DEFINE p == page[t]
            n == MapPage(mem, t, va[t], p)
<1>1. /\ pc[t] = "taken" /\ mem' = [n EXCEPT !.data[p] = Program]
      /\ Loads(mem, t)
  BY DEF LoadProgram, Loading, Loads
<1>2. /\ Mapped(mem, n, t, va[t], p, Waiting) /\ Maps(mem, t, p, va[t])
      /\ p \in Waiting /\ va[t] \in Addr /\ mem \in Mem
  BY <1>1, MapWaiting, Types DEF IInv
<1>. HIDE DEF n
<1>3. p \in Page /\ va[t] = CodeAddr
  BY <1>1, <1>2 DEF Maps
<1>4. /\ Good(mem', Waiting \ {p}) /\ SameView(n, mem')
      /\ mem'.wild = n.wild /\ mem'.pgd = n.pgd
      /\ mem'.user_pages = n.user_pages
      /\ mem'.kernel_pages = n.kernel_pages /\ mem'.struct = n.struct
      /\ mem'.data[p] = Program
      /\ \A q \in Page \ {p} : mem'.data[q] = n.data[q]
  <2>1. DataAt(mem', n, p, Program)
    BY <1>1 DEF DataAt
  <2>2. Good(n, Waiting \ {p}) /\ Program \in Value
    BY <1>2, MmAssumption DEF Mapped
  <2>. QED
    BY <1>3, <2>1, <2>2, Written
<1>5. ~mem'.wild
  BY DEF IInv, Memory, Good, Spent
<1>6. \A b \in Addr : Translate(mem, t, b) = Absent
  <2>1. DOMAIN mem.user_pages[t] = {}
    BY <1>1 DEF Loads
  <2>. QED
    BY <2>1 DEF IInv, Memory, Agreed
<1>7. Translate(mem', t, CodeAddr) = p
  BY <1>2, <1>3, <1>4, <1>5 DEF Mapped, SameView
<1>8. \A b \in Addr : b # CodeAddr => Translate(mem', t, b) = Absent
  BY <1>2, <1>3, <1>4, <1>6 DEF Mapped, SameView
<1>9. View(mem, t) = [a \in {} |-> 0]
  <2>1. Has(mem, t) = {}
    BY <1>6 DEF Has
  <2>. QED
    BY <2>1 DEF View
<1>10. View(mem', t) = [a \in {CodeAddr} |-> Program]
  <2>1. Has(mem', t) = {CodeAddr}
    BY <1>3, <1>7, <1>8, Pages, MmAssumption DEF Has
  <2>. QED
    BY <1>4, <1>7, <2>1 DEF View
<1>11. ASSUME NEW u \in Tasks, u # t PROVE View(mem', u) = View(mem, u)
  <2>1. Same(mem, mem', u)
    <3>1. Same(mem, n, u)
      BY <1>2, <1>3, <1>11, MappedSame
    <3>. QED
      BY <1>4, <3>1 DEF Same, SameView
  <2>2. \A q \in mem.used \ {p} : mem'.data[q] = mem.data[q]
    <3>1. mem.used \subseteq Page
      BY <1>2, Fields
    <3>. QED
      BY <1>2, <1>4, <3>1 DEF Mapped, Kept
  <2>3. {p} \cap (mem.used \ Waiting) = {}
    BY <1>2
  <2>. QED
    BY <2>1, <2>2, <2>3, SameSeen
<1>12. Views(mem') = [Views(mem) EXCEPT ![t] = [a \in {CodeAddr} |-> Program]]
  BY <1>10, <1>11 DEF Views
<1>13. Views(mem)[t] = [a \in {} |-> 0]
  BY <1>9 DEF Views
<1>. QED
  BY <1>12, <1>13 DEF ViewStep

(* A process that touches a new address gets a page of zeroes there.       *)
LEMMA ServeSeen ==
  ASSUME IInv, NEW t \in Tasks, ServeAbort(t), IInv', mem'.used # Page
  PROVE  ViewStep(Views(mem), Views(mem'))
<1>. DEFINE p == page[t]
            a == va[t]
<1>1. /\ pc[t] = "taken" /\ mem' = MapPage(mem, t, a, p) /\ ~Loads(mem, t)
  BY DEF ServeAbort, Loading, Loads
<1>2. /\ Mapped(mem, mem', t, a, p, Waiting) /\ Maps(mem, t, p, a)
      /\ p \in Waiting /\ a \in Addr /\ mem \in Mem
  BY <1>1, MapWaiting, Types DEF IInv
<1>3. /\ p \in Page /\ Translate(mem, t, a) = Absent
      /\ Translate(mem, t, CodeAddr) # Absent
  BY <1>1, <1>2 DEF Maps
<1>4. ~mem'.wild
  BY DEF IInv, Memory, Good, Spent
<1>5. /\ Translate(mem', t, a) = p
      /\ \A b \in Addr : b # a => Translate(mem', t, b) = Translate(mem, t, b)
  BY <1>2, <1>4 DEF Mapped
<1>6. \A q \in mem.used : mem'.data[q] = mem.data[q]
  BY <1>2 DEF Mapped, Kept
<1>7. mem'.data[p] = 0
  <2>1. mem.data[p] = 0
    BY <1>1 DEF IInv, Zeroes
  <2>2. p \in mem.used
    BY <1>2 DEF IInv, Memory, Good, Owned
  <2>. QED
    BY <1>6, <2>1, <2>2
<1>8. Has(mem', t) = Has(mem, t) \cup {a} /\ a \notin Has(mem, t)
      /\ CodeAddr \in Has(mem, t)
  BY <1>2, <1>3, <1>5, Pages, MmAssumption DEF Has
<1>9. View(mem', t) = [b \in Has(mem, t) \cup {a} |->
                         IF b = a THEN 0 ELSE View(mem, t)[b]]
  <2>1. \A b \in Has(mem, t) : mem'.data[Translate(mem', t, b)] = View(mem, t)[b]
    <3>1. \A b \in Has(mem, t) : Translate(mem, t, b) \in mem.used
      BY Seen DEF Has
    <3>2. \A b \in Has(mem, t) : Translate(mem', t, b) = Translate(mem, t, b)
      BY <1>5, <1>8 DEF Has
    <3>. QED
      BY <1>6, <3>1, <3>2 DEF View
  <2>2. mem'.data[Translate(mem', t, a)] = 0
    BY <1>5, <1>7
  <2>. QED
    BY <1>8, <2>1, <2>2 DEF View
<1>10. ASSUME NEW u \in Tasks, u # t PROVE View(mem', u) = View(mem, u)
  <2>1. Same(mem, mem', u)
    BY <1>2, <1>3, <1>10, MappedSame
  <2>2. {} \cap (mem.used \ Waiting) = {}
    OBVIOUS
  <2>. QED
    BY <1>6, <2>1, <2>2, SameSeen
<1>11. DOMAIN View(mem, t) = Has(mem, t)
  BY DEF View
<1>12. Views(mem') = [Views(mem) EXCEPT ![t] = [b \in DOMAIN @ \cup {a} |->
                                                  IF b = a THEN 0 ELSE @[b]]]
  BY <1>9, <1>10, <1>11 DEF Views
<1>13. CodeAddr \in DOMAIN Views(mem)[t] /\ a \notin DOMAIN Views(mem)[t]
  BY <1>8, <1>11 DEF Views
<1>. QED
  BY <1>2, <1>12, <1>13 DEF ViewStep

(* A store changes what one process reads at one address.                  *)
LEMMA StoreSeen ==
  ASSUME IInv, NEW t \in Tasks, NEW a \in Addr, Store(t, a)
  PROVE  ViewStep(Views(mem), Views(mem'))
<1>. DEFINE p == Translate(mem, t, a)
<1>1. p \in Page
  BY DEF Store
<1>2. PICK v \in Value : mem' = [mem EXCEPT !.data[p] = v]
  BY DEF Store
<1>. HIDE DEF p
<1>3. Good(mem, Waiting) /\ Agreed(mem) /\ p # Absent
  BY <1>1, Pages DEF IInv, Memory
<1>4. /\ Good(mem', Waiting) /\ SameView(mem, mem') /\ mem'.data[p] = v
      /\ \A q \in Page \ {p} : mem'.data[q] = mem.data[q]
  <2>1. DataAt(mem', mem, p, v)
    BY <1>2 DEF DataAt
  <2>. QED
    BY <1>1, <1>3, <2>1, Written
<1>5. ASSUME NEW u \in Tasks, NEW b \in Addr, Translate(mem, u, b) # Absent,
             u # t \/ b # a
      PROVE  mem'.data[Translate(mem, u, b)] = mem.data[Translate(mem, u, b)]
  <2>1. Translate(mem, u, b) # p
    BY <1>3, <1>5, OneView DEF p
  <2>2. Translate(mem, u, b) \in Page
    BY <1>5, Seen
  <2>. QED
    BY <1>4, <2>1, <2>2
<1>6. \A u \in Tasks, b \in Addr : Translate(mem', u, b) = Translate(mem, u, b)
  BY <1>4 DEF SameView
<1>7. ASSUME NEW u \in Tasks, u # t PROVE View(mem', u) = View(mem, u)
  BY <1>5, <1>6, <1>7, SameMemory
<1>8. Has(mem', t) = Has(mem, t) /\ a \in Has(mem, t)
  BY <1>3, <1>6 DEF Has, p
<1>9. View(mem', t) = [View(mem, t) EXCEPT ![a] = v]
  <2>1. \A b \in Has(mem, t) \ {a} :
          mem'.data[Translate(mem', t, b)] = mem.data[Translate(mem, t, b)]
    BY <1>5, <1>6 DEF Has
  <2>2. mem'.data[Translate(mem', t, a)] = v
    BY <1>4, <1>6 DEF p
  <2>. QED
    BY <1>8, <2>1, <2>2 DEF View
<1>10. Views(mem') = [Views(mem) EXCEPT ![t][a] = v]
  <2>1. Views(mem)[t] = View(mem, t)
    BY DEF Views
  <2>. QED
    BY <1>7, <1>9, <2>1 DEF Views
<1>11. a \in DOMAIN Views(mem)[t]
  BY <1>8 DEF Views, View
<1>. QED
  BY <1>10, <1>11 DEF ViewStep

(* A fork gives the child what the parent has.                             *)
LEMMA ForkSeen ==
  ASSUME IInv, NEW t \in Tasks, Fork(t), IInv', mem'.used # Page
  PROVE  ViewStep(Views(mem), Views(mem'))
<1>. DEFINE c == nr_tasks
<1>1. c \in Tasks /\ InUser(t) /\ t # c
  BY UserHasCode, Pages DEF Fork
<1>2. PICK m : /\ Started(m, c)
               /\ Copied(m, mem', t, c, Len(m.user_pages[t]), Waiting)
  BY ForkCopies
<1>. HIDE DEF c
<1>3. /\ Good(m, Waiting) /\ Agreed(m) /\ m \in Mem /\ SameView(mem, m)
      /\ mem.used \subseteq m.used
      /\ \A q \in mem.used : m.data[q] = mem.data[q]
  BY <1>2 DEF Started, Good
<1>4. /\ m.used \subseteq mem'.used /\ (m.wild => mem'.wild)
      /\ \A q \in m.used : mem'.data[q] = m.data[q]
  BY <1>2 DEF Copied, Kept
<1>5. ~m.wild /\ ~mem'.wild
  BY <1>4 DEF IInv, Memory, Good, Spent
<1>6. PICK k \in Nat : k = Len(m.user_pages[t]) /\ DOMAIN m.user_pages[t] = 1 .. k
  BY <1>3, RecordTypes
<1>7. \A u \in Tasks \ {c} : View(mem', u) = View(mem, u)
  <2>1. ASSUME NEW u \in Tasks \ {c} PROVE Same(mem, mem', u)
    BY <1>2 DEF Same, Started, SameView, Copied, Kept
  <2>2. \A q \in mem.used \ {} : mem'.data[q] = mem.data[q]
    BY <1>3, <1>4
  <2>3. {} \cap (mem.used \ Waiting) = {}
    OBVIOUS
  <2>. QED
    BY <2>1, <2>2, <2>3, SameSeen
<1>8. ASSUME NEW b \in Addr, Translate(mem, t, b) # Absent
      PROVE  /\ Translate(mem', c, b) # Absent
             /\ mem'.data[Translate(mem', c, b)] =
                  mem.data[Translate(mem, t, b)]
  <2>1. Translate(m, t, b) = Translate(mem, t, b)
    BY <1>3 DEF SameView
  <2>2. PICK i \in 1 .. k : /\ m.user_pages[t][i].va = b
                            /\ m.user_pages[t][i].pa = Translate(mem, t, b)
    BY <1>3, <1>6, <1>8, <2>1 DEF Agreed
  <2>3. /\ Translate(mem', c, b) # Absent
        /\ mem'.data[Translate(mem', c, b)] = m.data[Translate(mem, t, b)]
    BY <1>2, <1>6, <2>2 DEF Copied
  <2>4. Translate(mem, t, b) \in mem.used
    BY <1>8, Seen
  <2>. QED
    BY <1>3, <2>3, <2>4
<1>9. ASSUME NEW b \in Addr, Translate(mem', c, b) # Absent
      PROVE  Translate(mem, t, b) # Absent
  <2>1. PICK j \in DOMAIN mem'.user_pages[c] : mem'.user_pages[c][j].va = b
    BY <1>1, <1>9 DEF IInv, Memory, Agreed
  <2>2. PICK i \in 1 .. k : m.user_pages[t][i].va = b
    BY <1>2, <1>6, <2>1 DEF Copied
  <2>3. Translate(m, t, b) = m.user_pages[t][i].pa
    BY <1>3, <1>5, <1>6, <2>2 DEF Agreed
  <2>4. m.user_pages[t][i].pa \in Page
    BY <1>3, <1>6, RecordTypes
  <2>. QED
    BY <1>3, <2>3, <2>4, Pages DEF SameView
<1>10. View(mem', c) = View(mem, t)
  <2>1. Has(mem', c) = Has(mem, t)
    BY <1>8, <1>9 DEF Has
  <2>2. \A b \in Has(mem, t) : mem'.data[Translate(mem', c, b)] =
                                 mem.data[Translate(mem, t, b)]
    BY <1>8 DEF Has
  <2>. QED
    BY <2>1, <2>2 DEF View
<1>11. View(mem, c) = [a \in {} |-> 0]
  <2>1. mem.user_pages[c] = <<>>
    BY <1>1, Pages DEF IInv, TaskSound, Local, Unborn, c
  <2>2. DOMAIN mem.user_pages[c] = {}
    BY <2>1
  <2>3. Has(mem, c) = {}
    BY <1>1, <2>2 DEF IInv, Memory, Agreed, Has
  <2>. QED
    BY <2>3 DEF View
<1>12. View(mem, t) # [a \in {} |-> 0]
  <2>1. CodeAddr \in Has(mem, t)
    BY <1>1, UserHasCode, MmAssumption DEF Has
  <2>2. DOMAIN View(mem, t) = Has(mem, t) /\ DOMAIN [a \in {} |-> 0] = {}
    BY DEF View
  <2>. QED
    BY <2>1, <2>2
<1>13. Views(mem') = [Views(mem) EXCEPT ![c] = Views(mem)[t]]
  BY <1>7, <1>10 DEF Views
<1>14. Views(mem)[t] # [a \in {} |-> 0] /\ Views(mem)[c] = [a \in {} |-> 0]
  BY <1>1, <1>11, <1>12 DEF Views
<1>. QED
  BY <1>1, <1>13, <1>14 DEF ViewStep

(* As long as pages last, what the tasks see is an AddressSpaces: a first  *)
(* touch reads zeroes, a store changes one memory, a fork copies it.       *)
THEOREM ImplementsSpaces ==
  ASSUME ~TickInAllocator
  PROVE  Spec => ImplementsAddressSpaces
<1>. DEFINE v == [t \in Tasks |-> SpaceOf(t)]
            A == mem'.used = Page \/ Spaces!Next
<1>1. ASSUME Init PROVE Spaces!Init
  <2>1. IInv /\ \A t \in Tasks : DOMAIN mem.user_pages[t] = {}
    BY <1>1, InitIInv DEF Init
  <2>2. \A t \in Tasks : Has(mem, t) = {}
    BY <2>1 DEF IInv, Memory, Agreed, Has
  <2>3. \A t \in Tasks : SpaceOf(t) = [a \in {} |-> 0]
    BY <2>2 DEF SpaceOf, Has
  <2>. QED
    BY <2>3 DEF Spaces!Init, Spaces!Nowhere
<1>2. ASSUME IInv, IInv', Next PROVE A \/ v' = v
  <2>. SUFFICES ASSUME mem'.used # Page
                PROVE  ViewStep(Views(mem), Views(mem')) \/ Views(mem') = Views(mem)
    BY ViewStepIsNext, SpacesAreViews
  <2>1. PICK t \in Tasks :
          \/ MoveToUserMode(t) \/ TakePage(t) \/ LoadProgram(t) \/ ServeAbort(t)
          \/ OtherAbort(t) \/ Fork(t) \/ ForkFail(t) \/ Exit(t)
          \/ \E a \in Addr : DataAbort(t, a) \/ Store(t, a)
    BY <1>2 DEF Next
  <2>2. CASE \/ MoveToUserMode(t) \/ OtherAbort(t) \/ ForkFail(t) \/ Exit(t)
             \/ \E a \in Addr : DataAbort(t, a)
    <3>1. mem' = mem
      BY <2>2 DEF MoveToUserMode, OtherAbort, ForkFail, Exit, DataAbort, Find
    <3>. QED
      BY <3>1
  <2>3. CASE TakePage(t)
    BY <1>2, <2>3, TakeSeen
  <2>4. CASE LoadProgram(t)
    BY <1>2, <2>4, LoadSeen
  <2>5. CASE ServeAbort(t)
    BY <1>2, <2>5, ServeSeen
  <2>6. CASE Fork(t)
    BY <1>2, <2>6, ForkSeen
  <2>7. CASE \E a \in Addr : Store(t, a)
    BY <1>2, <2>7, StoreSeen
  <2>. QED
    BY <2>1, <2>2, <2>3, <2>4, <2>5, <2>6, <2>7
<1>3. ASSUME UNCHANGED vars PROVE v' = v
  BY <1>3, SpacesAreViews DEF vars
<1>4. IInv /\ IInv' /\ [Next]_vars => [A]_v
  BY <1>2, <1>3
<1>5. Spec => []IInv
  BY Inductive
<1>. QED
  BY <1>1, <1>4, <1>5, PTL DEF Spec, ImplementsAddressSpaces

=============================================================================
