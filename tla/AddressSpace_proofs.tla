------------------------- MODULE AddressSpace_proofs -------------------------
(***************************************************************************)
(* Proofs about the page tables (module AddressSpace), for every number of *)
(* levels, size of the tables and of the pages, amount of memory, program  *)
(* and sequence of accesses, faults, evictions and forks: the type         *)
(* invariant; the tables of every process form a tree whose frames nobody  *)
(* else uses; and a page that a child shares is never mapped anew.         *)
(*                                                                         *)
(* The heart of the argument is what one call of mapVirtualAddress does to *)
(* a tree (Extends): the tables that are missing on the way to a page are  *)
(* all the ones below some level, they get frames nobody has, and nothing  *)
(* of what was mapped lies below them.                                     *)
(***************************************************************************)
EXTENDS AddressSpace, FiniteSetTheorems, SequenceTheorems,
        WellFoundedInduction, TLAPS

-----------------------------------------------------------------------------
(* The pages below a table *)

(* A nonempty set of naturals has a least element. *)
LEMMA LeastNatural ==
    ASSUME NEW T, T \subseteq Nat, T # {}
    PROVE  \E x \in T : \A y \in T : x <= y
<1> DEFINE R == OpToRel(<, Nat)
<1>1. IsWellFoundedOn(R, Nat)
  BY NatLessThanWellFounded
<1>2. PICK x \in T : \A y \in T : <<y, x>> \notin R
  BY <1>1, WFMin
<1>3. \A a, b \in Nat : b < a => <<b, a>> \in R
  BY DEF OpToRel
<1> HIDE DEF R
<1>4. \A y \in T : ~ (y < x)
  BY <1>2, <1>3
<1>5. \A y \in T : x <= y
  BY <1>4
<1>6. QED
  BY <1>5

(* A set that holds zero and the successor of each of its naturals holds     *)
(* every natural.                                                            *)
LEMMA SuccessorsReachAll ==
    ASSUME NEW S, 0 \in S, \A n \in Nat : n \in S => n + 1 \in S
    PROVE  \A n \in Nat : n \in S
<1> SUFFICES ASSUME Nat \ S # {} PROVE FALSE
  OBVIOUS
<1>1. PICK x \in Nat \ S : \A y \in Nat \ S : x <= y
  BY LeastNatural
<1>2. x # 0
  OBVIOUS
<1>3. x - 1 \in Nat /\ x - 1 \notin Nat \ S
  BY <1>1, <1>2
<1>4. x \in S
  BY <1>3
<1>5. QED
  BY <1>4

(* The functions that give the pages below a table of up to m levels above. *)
Counts(m) == {g \in [0 .. m -> Nat \ {0}] :
                g[0] = 1 /\ \A i \in 1 .. m : g[i] = Fanout * g[i - 1]}

(* There is such a function for every m. *)
LEMMA CountsExist == \A m \in Nat : Counts(m) # {}
<1> DEFINE S == {m \in Nat : Counts(m) # {}}
<1>1. [i \in 0 .. 0 |-> 1] \in Counts(0)
  BY DEF Counts
<1>2. ASSUME NEW m \in Nat, m \in S PROVE m + 1 \in S
  <2>1. PICK g : g \in Counts(m)
    BY <1>2
  <2>2. g \in [0 .. m -> Nat \ {0}] /\ g[0] = 1
        /\ \A i \in 1 .. m : g[i] = Fanout * g[i - 1]
    BY <2>1 DEF Counts
  <2> DEFINE h == [i \in 0 .. m + 1 |->
                     IF i = m + 1 THEN Fanout * g[m] ELSE g[i]]
  <2>3. Fanout * g[m] \in Nat \ {0}
    BY <2>2, ShapeOK
  <2>4. h \in [0 .. m + 1 -> Nat \ {0}]
    BY <2>2, <2>3
  <2>5. h[0] = 1
    BY <2>2
  <2>6. ASSUME NEW i \in 1 .. m + 1 PROVE h[i] = Fanout * h[i - 1]
    <3>1. CASE i = m + 1
      BY <3>1
    <3>2. CASE i # m + 1
      BY <3>2, <2>2
    <3>3. QED
      BY <3>1, <3>2
  <2> HIDE DEF h
  <2>7. h \in Counts(m + 1)
    BY <2>4, <2>5, <2>6 DEF Counts
  <2>8. QED
    BY <2>7
<1>3. 0 \in S
  BY <1>1
<1> HIDE DEF S
<1>4. \A m \in Nat : m \in S
  BY <1>2, <1>3, SuccessorsReachAll
<1>5. QED
  BY <1>4 DEF S

(* Two of them agree wherever both are defined. *)
LEMMA CountsAgree ==
    ASSUME NEW m \in Nat, NEW k \in Nat, NEW g \in Counts(m),
           NEW h \in Counts(k)
    PROVE  \A i \in Nat : i <= m /\ i <= k => g[i] = h[i]
<1> DEFINE S == {i \in Nat : i <= m /\ i <= k => g[i] = h[i]}
<1>1. g[0] = 1 /\ \A i \in 1 .. m : g[i] = Fanout * g[i - 1]
  BY DEF Counts
<1>2. h[0] = 1 /\ \A i \in 1 .. k : h[i] = Fanout * h[i - 1]
  BY DEF Counts
<1>3. 0 \in S
  BY <1>1, <1>2
<1>4. ASSUME NEW i \in Nat, i \in S PROVE i + 1 \in S
  <2>1. CASE i + 1 <= m /\ i + 1 <= k
    <3>1. g[i + 1] = Fanout * g[i] /\ h[i + 1] = Fanout * h[i]
      BY <1>1, <1>2, <2>1
    <3>2. g[i] = h[i]
      BY <1>4, <2>1
    <3>3. QED
      BY <3>1, <3>2
  <2>2. QED
    BY <2>1
<1> HIDE DEF S
<1>5. \A i \in Nat : i \in S
  BY <1>3, <1>4, SuccessorsReachAll
<1>6. QED
  BY <1>5 DEF S

(* Pages is what its equation says. *)
LEMMA PagesDef ==
    /\ Pages[0] = 1
    /\ \A n \in Nat : Pages[n + 1] = Fanout * Pages[n]
    /\ \A n \in Nat : Pages[n] \in Nat \ {0}
<1> DEFINE Count(m) == CHOOSE g : g \in Counts(m)
           G == [m \in Nat |-> Count(m)[m]]
<1>1. \A m \in Nat : Count(m) \in Counts(m)
  BY CountsExist
<1>a. \A m \in Nat : G[m] = Count(m)[m]
  OBVIOUS
<1> HIDE DEF Count, G
<1>2. \A m \in Nat : G[m] \in Nat \ {0}
  <2> SUFFICES ASSUME NEW m \in Nat PROVE Count(m)[m] \in Nat \ {0}
    BY <1>a
  <2>1. Count(m) \in [0 .. m -> Nat \ {0}]
    BY <1>1 DEF Counts
  <2>2. QED
    BY <2>1
<1>3. G[0] = 1
  BY <1>1, <1>a DEF Counts
<1>4. ASSUME NEW m \in Nat PROVE G[m + 1] = Fanout * G[m]
  <2>1. Count(m + 1) \in Counts(m + 1) /\ Count(m) \in Counts(m)
    BY <1>1
  <2>2. Count(m + 1)[m + 1] = Fanout * Count(m + 1)[m]
    <3>1. \A i \in 1 .. m + 1 : Count(m + 1)[i] = Fanout * Count(m + 1)[i - 1]
      BY <2>1 DEF Counts
    <3>2. m + 1 \in 1 .. m + 1 /\ (m + 1) - 1 = m
      OBVIOUS
    <3>3. QED
      BY <3>1, <3>2
  <2>3. m + 1 \in Nat
    OBVIOUS
  <2>4. Count(m + 1)[m] = Count(m)[m]
    BY <2>1, <2>3, CountsAgree
  <2>5. QED
    BY <1>a, <2>2, <2>3, <2>4
<1>5. G = [n \in Nat |-> IF n = 0 THEN 1 ELSE Fanout * G[n - 1]]
  <2>1. G = [n \in Nat |-> G[n]]
    BY DEF G
  <2>2. ASSUME NEW n \in Nat
        PROVE  G[n] = IF n = 0 THEN 1 ELSE Fanout * G[n - 1]
    BY <1>3, <1>4
  <2>3. QED
    BY <2>1, <2>2
<1>6. Pages = [n \in Nat |-> IF n = 0 THEN 1 ELSE Fanout * Pages[n - 1]]
  BY <1>5 DEF Pages
<1>7. Pages[0] = 1
  BY <1>6
<1>8. \A n \in Nat : Pages[n + 1] = Fanout * Pages[n]
  BY <1>6
<1> DEFINE S == {n \in Nat : Pages[n] \in Nat \ {0}}
<1>9. \A n \in Nat : n \in S => n + 1 \in S
  BY <1>8, ShapeOK
<1>10. 0 \in S
  BY <1>7
<1> HIDE DEF S
<1>11. \A n \in Nat : n \in S
  BY <1>9, <1>10, SuccessorsReachAll
<1>12. QED
  BY <1>7, <1>8, <1>11 DEF S

(* The pages below a table are those below each of its entries. *)
LEMMA PagesProduct ==
    \A a, b \in Nat : Pages[a + b] = Pages[a] * Pages[b]
<1> SUFFICES ASSUME NEW b \in Nat
             PROVE  \A a \in Nat : Pages[a + b] = Pages[a] * Pages[b]
  OBVIOUS
<1> DEFINE S == {a \in Nat : Pages[a + b] = Pages[a] * Pages[b]}
<1>1. 0 \in S
  BY PagesDef
<1>2. ASSUME NEW a \in Nat, a \in S PROVE a + 1 \in S
  <2>1. Pages[(a + 1) + b] = Fanout * Pages[a + b]
    <3>1. (a + 1) + b = (a + b) + 1 /\ a + b \in Nat
      OBVIOUS
    <3>2. QED
      BY <3>1, PagesDef
  <2>2. Pages[a + 1] = Fanout * Pages[a]
    BY PagesDef
  <2>3. Pages[a] \in Nat /\ Pages[b] \in Nat
    BY PagesDef
  <2>4. QED
    BY <1>2, <2>1, <2>2, <2>3, ShapeOK
<1> HIDE DEF S
<1>3. \A a \in Nat : a \in S
  BY <1>1, <1>2, SuccessorsReachAll
<1>4. QED
  BY <1>3 DEF S

(* Dividing by the pages of two levels, one after the other. *)
LEMMA DivDiv ==
    ASSUME NEW p \in Nat, NEW m \in Nat \ {0}, NEW n \in Nat \ {0}
    PROVE  (p \div m) \div n = p \div (m * n)
OBVIOUS

-----------------------------------------------------------------------------
(* The trees *)

(* The table of level j on the way to table n. *)
Above(n, j) == <<j, n[2] \div Pages[n[1] - j]>>

(* Page tables that start at the PML4 and lead to each of their entries. *)
Tree(T) ==
    /\ IsTables(T)
    /\ IsFiniteSet(DOMAIN T)
    /\ <<0, 0>> \in DOMAIN T
    /\ \A n \in DOMAIN T : \A j \in 0 .. Levels :
          j <= n[1] => Above(n, j) \in DOMAIN T

(* No frame is in T twice; all were granted before frame f; f is not in T;   *)
(* T and U have no frame of a table in common.                               *)
Own(T) == \A m, n \in DOMAIN T : T[m].frame = T[n].frame => m = n
Below(T, f) == \A n \in DOMAIN T : T[n].frame < f
Spare(f, T) == \A n \in DOMAIN T : T[n].frame # f
Apart(T, U) == \A m \in DOMAIN T, n \in DOMAIN U :
                  m[1] < Levels \/ n[1] < Levels => T[m].frame # U[n].frame

(* What Install(p, first, frame) makes of T: the tables from level top on    *)
(* were missing.                                                             *)
Extends(T, U, p, first, frame, top) ==
    /\ \A k \in 1 .. Levels - 1 : Table(k, p) \in DOMAIN T <=> k < top
    /\ DOMAIN U = DOMAIN T \cup {Table(k, p) : k \in top .. Levels}
    /\ \A n \in DOMAIN T : n # Leaf(p) => U[n] = T[n]
    /\ \A k \in top .. Levels - 1 :
          U[Table(k, p)] = [frame |-> first + k - top, flags |-> RW]
    /\ U[Leaf(p)] = [frame |-> frame, flags |-> RW]

(* The pages of the address space. *)
PagesOfSpace == 0 .. Pages[Levels] - 1

(* The tables on the way to a page are on the way to one another. *)
LEMMA TableAbove ==
    ASSUME NEW p \in Nat, NEW k \in 0 .. Levels, NEW j \in 0 .. Levels, j <= k
    PROVE  Above(Table(k, p), j) = Table(j, p)
<1>1. /\ Levels - k \in Nat /\ k - j \in Nat
      /\ (Levels - k) + (k - j) = Levels - j
  BY ShapeOK
<1>2. Pages[Levels - j] = Pages[Levels - k] * Pages[k - j]
  BY <1>1, PagesProduct
<1>3. Pages[Levels - k] \in Nat \ {0} /\ Pages[k - j] \in Nat \ {0}
  BY <1>1, PagesDef
<1>4. (p \div Pages[Levels - k]) \div Pages[k - j] = p \div Pages[Levels - j]
  BY <1>2, <1>3, DivDiv
<1>5. QED
  BY <1>4 DEF Above, Table

(* A table is named by its level and a number. *)
LEMMA TableType ==
    ASSUME NEW p \in Nat, NEW k \in 0 .. Levels
    PROVE  Table(k, p) \in (0 .. Levels) \X Nat
<1>1. Pages[Levels - k] \in Nat \ {0}
  BY PagesDef, ShapeOK
<1>2. p \div Pages[Levels - k] \in Nat
  BY <1>1
<1>3. QED
  BY <1>2 DEF Table

(* All ways start at the PML4, and a page of its own ends each.              *)
LEMMA TableEnds ==
    /\ \A p \in PagesOfSpace : p \in Nat /\ Table(0, p) = <<0, 0>>
    /\ \A p \in Nat : Leaf(p) = <<Levels, p>>
<1>1. Pages[Levels] \in Nat \ {0} /\ Pages[0] = 1
  BY PagesDef, ShapeOK
<1>2. ASSUME NEW p \in PagesOfSpace PROVE p \in Nat /\ Table(0, p) = <<0, 0>>
  <2>1. p \in Nat /\ p < Pages[Levels]
    BY <1>1 DEF PagesOfSpace
  <2>2. p \div Pages[Levels] = 0
    BY <1>1, <2>1
  <2>3. QED
    BY <2>1, <2>2, ShapeOK DEF Table
<1>3. ASSUME NEW p \in Nat PROVE Leaf(p) = <<Levels, p>>
  <2>1. Levels - Levels = 0 /\ p \div 1 = p
    BY ShapeOK
  <2>2. QED
    BY <1>1, <2>1 DEF Leaf, Table
<1>4. QED
  BY <1>2, <1>3

(* Install extends a tree by the tables that are missing below some level.   *)
LEMMA InstallExtends ==
    ASSUME Tree(tables), NEW p \in PagesOfSpace, NEW first \in Nat, NEW frame,
           Install(p, first, frame)
    PROVE  \E top \in 1 .. Levels :
              /\ Cardinality(Missing(p)) = Levels - top
              /\ Extends(tables, tables', p, first, frame, top)
<1>1. p \in Nat /\ Levels \in Nat \ {0}
  BY TableEnds, ShapeOK
<1> DEFINE S == Missing(p) \cup {Levels}
<1>2. S \subseteq Nat /\ S # {}
  BY <1>1 DEF Missing
<1>3. PICK top \in S : \A k \in S : top <= k
  BY <1>2, LeastNatural
<1>4. top \in 1 .. Levels
  BY <1>1, <1>3 DEF Missing
<1>5. ASSUME NEW k \in top .. Levels - 1 PROVE k \in Missing(p)
  <2>1. top \in Missing(p)
    BY <1>1, <1>3, <1>5
  <2>2. Table(top, p) \notin DOMAIN tables
    BY <2>1 DEF Missing
  <2>3. k \in 0 .. Levels /\ top \in 0 .. Levels /\ top <= k
    BY <1>1, <1>4
  <2>4. Above(Table(k, p), top) = Table(top, p)
    BY <1>1, <2>3, TableAbove
  <2>5. Table(k, p)[1] = k
    BY DEF Table
  <2>6. Table(k, p) \notin DOMAIN tables
    BY <2>2, <2>3, <2>4, <2>5 DEF Tree
  <2>7. QED
    BY <1>1, <1>4, <2>6 DEF Missing
<1>6. Missing(p) = top .. Levels - 1
  <2>1. ASSUME NEW k \in Missing(p) PROVE k \in top .. Levels - 1
    BY <1>1, <1>3, <1>4 DEF Missing
  <2>2. QED
    BY <1>5, <2>1
<1>7. Cardinality(Missing(p)) = Levels - top
  <2>1. Cardinality(top .. Levels - 1) = Levels - top
    <3>1. top \in Int /\ Levels - 1 \in Int
      BY <1>1, <1>4
    <3>2. Cardinality(top .. Levels - 1) =
            IF top > Levels - 1 THEN 0 ELSE (Levels - 1) - top + 1
      BY <3>1, FS_Interval
    <3>3. QED
      BY <1>1, <1>4, <3>2
  <2>2. QED
    BY <1>6, <2>1
<1> DEFINE new == {Table(k, p) : k \in Missing(p)}
           old == {n \in DOMAIN tables : \A t \in new : ~Under(n, t)}
<1>8. old = DOMAIN tables
  <2> SUFFICES ASSUME NEW n \in DOMAIN tables, NEW k \in Missing(p),
                      Under(n, Table(k, p))
               PROVE  FALSE
    OBVIOUS
  <2>1. k \in 0 .. Levels /\ Table(k, p) \notin DOMAIN tables
    BY <1>1 DEF Missing
  <2>2. n[1] > k /\ n[2] \div Pages[n[1] - k] = Table(k, p)[2]
    BY DEF Under, Table
  <2>3. n[1] \in 0 .. Levels
    BY DEF Tree, IsTables
  <2>4. k <= n[1]
    BY <2>1, <2>2, <2>3
  <2>5. Above(n, k) \in DOMAIN tables
    BY <2>1, <2>4 DEF Tree
  <2>6. Above(n, k) = Table(k, p)
    BY <2>2 DEF Above, Table
  <2>7. QED
    BY <2>1, <2>5, <2>6
<1>9. Levels - Cardinality(Missing(p)) = top
  BY <1>1, <1>4, <1>7
<1>10. tables' = [n \in ({Leaf(p)} \cup new) \cup DOMAIN tables |->
                    IF n = Leaf(p) THEN [frame |-> frame, flags |-> RW]
                    ELSE IF n \in new
                    THEN [frame |-> first + n[1] - top, flags |-> RW]
                    ELSE tables[n]]
  BY <1>8, <1>9 DEF Install
<1>11. \A k \in Missing(p) :
          Table(k, p) \in new /\ Table(k, p)[1] = k /\ Table(k, p) # Leaf(p)
  BY <1>1 DEF Missing, Leaf, Table
<1>12. new \cap DOMAIN tables = {}
  BY DEF Missing
<1>13. DOMAIN tables' = {Leaf(p)} \cup new \cup DOMAIN tables
  BY <1>10
<1> HIDE DEF new
<1>16. tables'[Leaf(p)] = [frame |-> frame, flags |-> RW]
  BY <1>10
<1>17. ASSUME NEW k \in Missing(p)
       PROVE  tables'[Table(k, p)] = [frame |-> first + k - top, flags |-> RW]
  BY <1>10, <1>11
<1>18. ASSUME NEW n \in DOMAIN tables, n # Leaf(p)
       PROVE  tables'[n] = tables[n]
  BY <1>10, <1>12, <1>18
<1>19. {Leaf(p)} \cup new = {Table(k, p) : k \in top .. Levels}
  <2>1. top .. Levels = (top .. Levels - 1) \cup {Levels}
    BY <1>1, <1>4
  <2>2. QED
    BY <1>6, <2>1 DEF Leaf, new
<1>20. DOMAIN tables' = DOMAIN tables \cup {Table(k, p) : k \in top .. Levels}
  BY <1>13, <1>19
<1>21. \A k \in 1 .. Levels - 1 : Table(k, p) \in DOMAIN tables <=> k < top
  <2> SUFFICES ASSUME NEW k \in 1 .. Levels - 1
               PROVE  Table(k, p) \in DOMAIN tables <=> k < top
    OBVIOUS
  <2>1. k \in Missing(p) <=> ~ (k < top)
    BY <1>1, <1>4, <1>6
  <2>2. QED
    BY <2>1 DEF Missing
<1>22. Extends(tables, tables', p, first, frame, top)
  BY <1>6, <1>16, <1>17, <1>18, <1>20, <1>21 DEF Extends
<1>23. QED
  BY <1>4, <1>7, <1>22

(* The child's pages are the program's. *)
SharedIn(T, C) == \A n \in DOMAIN C :
                     n[1] = Levels => /\ n \in DOMAIN T
                                      /\ T[n].frame = C[n].frame

(* What an extended tree holds: the page, the new tables, the old entries.   *)
LEMMA ExtendsCases ==
    ASSUME NEW T, NEW U, NEW p, NEW first, NEW frame, NEW top \in 1 .. Levels,
           Extends(T, U, p, first, frame, top), NEW n \in DOMAIN U
    PROVE  \/ n = Leaf(p) /\ U[n] = [frame |-> frame, flags |-> RW]
           \/ \E k \in top .. Levels - 1 :
                 /\ n = Table(k, p)
                 /\ U[n] = [frame |-> first + k - top, flags |-> RW]
           \/ n \in DOMAIN T /\ n # Leaf(p) /\ U[n] = T[n]
<1>1. CASE n = Leaf(p)
  BY <1>1 DEF Extends
<1>2. CASE n # Leaf(p) /\ n \in DOMAIN T
  BY <1>2 DEF Extends
<1>3. CASE n # Leaf(p) /\ n \notin DOMAIN T
  <2>1. PICK k \in top .. Levels : n = Table(k, p)
    BY <1>3 DEF Extends
  <2>2. k # Levels
    BY <1>3, <2>1 DEF Leaf
  <2>3. k \in top .. Levels - 1
    BY <2>2, ShapeOK
  <2>4. QED
    BY <2>1, <2>3 DEF Extends
<1>4. QED
  BY <1>1, <1>2, <1>3

(* An extended tree is a tree, while there are frames. *)
LEMMA ExtendsTree ==
    ASSUME NEW T, NEW U, NEW p \in PagesOfSpace, NEW first \in Nat \ {0},
           NEW frame \in 1 .. Frames, NEW top \in 1 .. Levels,
           Extends(T, U, p, first, frame, top), Tree(T),
           first + (Levels - top) <= Frames + 1
    PROVE  Tree(U)
<1>1. p \in Nat /\ Levels \in Nat \ {0} /\ Frames \in Nat
  BY TableEnds, ShapeOK
<1>2. DOMAIN U = DOMAIN T \cup {Table(k, p) : k \in top .. Levels}
  BY DEF Extends
<1>3. ASSUME NEW n \in DOMAIN U
      PROVE  n \in (0 .. Levels) \X Nat /\ U[n] \in Entry
  <2>1. CASE n = Leaf(p) /\ U[n] = [frame |-> frame, flags |-> RW]
    <3>1. Levels \in 0 .. Levels
      BY <1>1
    <3>2. n \in (0 .. Levels) \X Nat
      BY <1>1, <2>1, <3>1, TableType DEF Leaf
    <3>3. QED
      BY <2>1, <3>2 DEF Entry
  <2>2. ASSUME NEW k \in top .. Levels - 1, n = Table(k, p),
               U[n] = [frame |-> first + k - top, flags |-> RW]
        PROVE  n \in (0 .. Levels) \X Nat /\ U[n] \in Entry
    <3>1. k \in 0 .. Levels
      BY <1>1
    <3>2. n \in (0 .. Levels) \X Nat
      BY <1>1, <2>2, <3>1, TableType
    <3>3. first + k - top \in 1 .. Frames
      BY <1>1
    <3>4. QED
      BY <2>2, <3>2, <3>3 DEF Entry
  <2>3. CASE n \in DOMAIN T /\ U[n] = T[n]
    BY <2>3 DEF Tree, IsTables
  <2>4. QED
    BY <2>1, <2>2, <2>3, ExtendsCases
<1>4. IsTables(U)
  BY <1>3 DEF IsTables
<1>5. IsFiniteSet(DOMAIN U)
  <2>1. top \in Int /\ Levels \in Int
    BY <1>1
  <2>2. IsFiniteSet(top .. Levels)
    BY <2>1, FS_Interval
  <2>3. IsFiniteSet({Table(k, p) : k \in top .. Levels})
    <3> DEFINE f == [k \in top .. Levels |-> Table(k, p)]
               R == {Table(k, p) : k \in top .. Levels}
    <3>1. f \in Surjection(top .. Levels, R)
      BY DEF Surjection
    <3> HIDE DEF f, R
    <3>2. IsFiniteSet(R)
      BY <2>2, <3>1, FS_Surjection
    <3>3. QED
      BY <3>2 DEF R
  <2>4. IsFiniteSet(DOMAIN T)
    BY DEF Tree
  <2>5. QED
    BY <1>2, <2>3, <2>4, FS_Union
<1>6. <<0, 0>> \in DOMAIN U
  BY <1>2 DEF Tree
<1>7. ASSUME NEW k \in top .. Levels, NEW j \in 0 .. Levels, j <= k
      PROVE  Above(Table(k, p), j) \in DOMAIN U
  <2>1. k \in 0 .. Levels
    BY <1>1
  <2>2. Above(Table(k, p), j) = Table(j, p)
    BY <1>1, <1>7, <2>1, TableAbove
  <2>3. CASE j >= top
    BY <1>2, <2>2, <2>3
  <2>4. CASE j < top /\ j # 0
    <3>1. j \in 1 .. Levels - 1
      BY <1>1, <2>4
    <3>2. QED
      BY <1>2, <2>2, <2>4, <3>1 DEF Extends
  <2>5. CASE j = 0
    BY <1>6, <2>2, <2>5, TableEnds
  <2>6. QED
    BY <1>1, <2>3, <2>4, <2>5
<1>8. ASSUME NEW n \in DOMAIN U, NEW j \in 0 .. Levels, j <= n[1]
      PROVE  Above(n, j) \in DOMAIN U
  <2>1. CASE n \in DOMAIN T
    BY <1>2, <1>8, <2>1 DEF Tree
  <2>2. CASE n \notin DOMAIN T
    <3>1. PICK k \in top .. Levels : n = Table(k, p)
      BY <1>2, <2>2
    <3>2. j <= k
      BY <1>8, <3>1 DEF Table
    <3>3. QED
      BY <1>7, <3>1, <3>2
  <2>3. QED
    BY <2>1, <2>2
<1>9. QED
  BY <1>4, <1>5, <1>6, <1>8 DEF Tree

(* The frame of entry n of an extended tree. *)
FrameOf(T, U, p, first, frame, top, n) ==
    \/ U[n].frame = frame /\ n = Leaf(p)
    \/ \E k \in top .. Levels - 1 :
          n = Table(k, p) /\ U[n].frame = first + k - top
    \/ n \in DOMAIN T /\ n # Leaf(p) /\ U[n].frame = T[n].frame

(* It is the page's, one of the new ones or the one it had. *)
LEMMA ExtendsFrames ==
    ASSUME NEW T, NEW U, NEW p, NEW first,
           NEW frame, NEW top \in 1 .. Levels,
           Extends(T, U, p, first, frame, top), NEW n \in DOMAIN U
    PROVE  FrameOf(T, U, p, first, frame, top, n)
BY ExtendsCases DEF FrameOf

(* The new frames are below the one that is granted next. *)
LEMMA ExtendsBelow ==
    ASSUME NEW T, NEW U, NEW p, NEW first \in Nat,
           NEW frame \in Nat, NEW top \in 1 .. Levels, NEW next \in Nat,
           Extends(T, U, p, first, frame, top), Tree(T), Below(T, first),
           first + (Levels - top) <= next, frame < next
    PROVE  Below(U, next)
<1> SUFFICES ASSUME NEW n \in DOMAIN U PROVE U[n].frame < next
  BY DEF Below
<1>1. Levels \in Nat
  BY ShapeOK
<1>2. ASSUME n \in DOMAIN T PROVE T[n].frame \in Nat /\ T[n].frame < first
  BY <1>2, ShapeOK DEF Below, Tree, IsTables, Entry
<1>3. FrameOf(T, U, p, first, frame, top, n)
  BY ExtendsFrames, Zenon
<1>4. QED
  BY <1>1, <1>2, <1>3 DEF FrameOf

(* No frame is used twice in the extended tree. *)
LEMMA ExtendsOwn ==
    ASSUME NEW T, NEW U, NEW p, NEW first \in Nat,
           NEW frame \in Nat, NEW top \in 1 .. Levels,
           Extends(T, U, p, first, frame, top), Tree(T), Below(T, first),
           Own(T), Spare(frame, T),
           frame < first \/ frame >= first + (Levels - top)
    PROVE  Own(U)
<1> SUFFICES ASSUME NEW m \in DOMAIN U, NEW n \in DOMAIN U,
                    U[m].frame = U[n].frame
             PROVE  m = n
  BY DEF Own
<1>1. Levels \in Nat
  BY ShapeOK
<1>2. \A x \in DOMAIN T : /\ T[x].frame \in Nat /\ T[x].frame < first
                          /\ T[x].frame # frame
  BY ShapeOK DEF Below, Spare, Tree, IsTables, Entry
<1>a. FrameOf(T, U, p, first, frame, top, m)
  BY ExtendsFrames, Zenon
<1>b. FrameOf(T, U, p, first, frame, top, n)
  BY ExtendsFrames, Zenon
<1>3. \/ U[m].frame = frame /\ m = Leaf(p)
      \/ \E k \in top .. Levels - 1 :
            m = Table(k, p) /\ U[m].frame = first + k - top
      \/ m \in DOMAIN T /\ m # Leaf(p) /\ U[m].frame = T[m].frame
  BY <1>a DEF FrameOf
<1>4. \/ U[n].frame = frame /\ n = Leaf(p)
      \/ \E k \in top .. Levels - 1 :
            n = Table(k, p) /\ U[n].frame = first + k - top
      \/ n \in DOMAIN T /\ n # Leaf(p) /\ U[n].frame = T[n].frame
  BY <1>b DEF FrameOf
<1>5. CASE U[m].frame = frame /\ m = Leaf(p)
  BY <1>1, <1>2, <1>4, <1>5
<1>6. ASSUME NEW k \in top .. Levels - 1, m = Table(k, p),
             U[m].frame = first + k - top
      PROVE  m = n
  <2>1. CASE U[n].frame = frame /\ n = Leaf(p)
    BY <1>1, <1>6, <2>1
  <2>2. ASSUME NEW l \in top .. Levels - 1, n = Table(l, p),
               U[n].frame = first + l - top
        PROVE  m = n
    <3>1. k = l
      BY <1>1, <1>6, <2>2
    <3>2. QED
      BY <1>6, <2>2, <3>1
  <2>3. CASE n \in DOMAIN T /\ n # Leaf(p) /\ U[n].frame = T[n].frame
    BY <1>1, <1>2, <1>6, <2>3
  <2>4. QED
    BY <1>4, <2>1, <2>2, <2>3
<1>7. CASE m \in DOMAIN T /\ m # Leaf(p) /\ U[m].frame = T[m].frame
  <2>1. CASE n \in DOMAIN T /\ n # Leaf(p) /\ U[n].frame = T[n].frame
    BY <1>7, <2>1 DEF Own
  <2>2. QED
    BY <1>1, <1>2, <1>4, <1>7, <2>1
<1>8. QED
  BY <1>3, <1>5, <1>6, <1>7

(* The extended tree still shares only pages with another. *)
LEMMA ExtendsApart ==
    ASSUME NEW T, NEW U, NEW p, NEW first \in Nat,
           NEW frame \in Nat, NEW top \in 1 .. Levels, NEW C,
           Extends(T, U, p, first, frame, top), Tree(C), Below(C, first),
           Apart(T, C), Spare(frame, C)
    PROVE  Apart(U, C)
<1> SUFFICES ASSUME NEW m \in DOMAIN U, NEW n \in DOMAIN C,
                    m[1] < Levels \/ n[1] < Levels
             PROVE  U[m].frame # C[n].frame
  BY DEF Apart
<1>1. Levels \in Nat
  BY ShapeOK
<1>2. C[n].frame \in Nat /\ C[n].frame < first /\ C[n].frame # frame
  BY ShapeOK DEF Below, Spare, Tree, IsTables, Entry
<1>3. CASE m \in DOMAIN T /\ U[m].frame = T[m].frame
  BY <1>3 DEF Apart
<1>4. FrameOf(T, U, p, first, frame, top, m)
  BY ExtendsFrames, Zenon
<1>5. QED
  BY <1>1, <1>2, <1>3, <1>4 DEF FrameOf

(* A frame that is being copied to is not used by the extension. *)
LEMMA ExtendsSpare ==
    ASSUME NEW T, NEW U, NEW p, NEW first \in Nat,
           NEW frame \in Nat, NEW top \in 1 .. Levels, NEW f \in Nat,
           Extends(T, U, p, first, frame, top), Spare(f, T), f < first,
           f # frame
    PROVE  Spare(f, U)
<1> SUFFICES ASSUME NEW n \in DOMAIN U PROVE U[n].frame # f
  BY DEF Spare
<1>1. Levels \in Nat
  BY ShapeOK
<1>2. CASE n \in DOMAIN T /\ U[n].frame = T[n].frame
  BY <1>2 DEF Spare
<1>3. FrameOf(T, U, p, first, frame, top, n)
  BY ExtendsFrames, Zenon
<1>4. QED
  BY <1>1, <1>2, <1>3 DEF FrameOf

(* What a child shares is kept by the extension to a page it does not have.  *)
LEMMA ExtendsShared ==
    ASSUME NEW T, NEW U, NEW p, NEW first, NEW frame, NEW top, NEW C,
           Extends(T, U, p, first, frame, top), SharedIn(T, C),
           Leaf(p) \notin DOMAIN C
    PROVE  SharedIn(U, C)
BY DEF SharedIn, Extends

-----------------------------------------------------------------------------
(* The copy fork makes *)

(* The order in which copyPML4 .. copyPTE meet the tables is total. *)
LEMMA BeforeOrders ==
    ASSUME NEW m \in (0 .. Levels) \X Nat, NEW n \in (0 .. Levels) \X Nat
    PROVE  /\ ~ Before(m, m)
           /\ m # n => Before(m, n) \/ Before(n, m)
           /\ \A x \in (0 .. Levels) \X Nat :
                 Before(x, m) /\ Before(m, n) => Before(x, n)
<1> DEFINE First(t) == t[2] * Pages[Levels - t[1]]
<1>1. ASSUME NEW t \in (0 .. Levels) \X Nat
      PROVE  /\ t[1] \in 0 .. Levels /\ t[2] \in Nat
             /\ Pages[Levels - t[1]] \in Nat \ {0} /\ First(t) \in Nat
  <2>1. t[1] \in 0 .. Levels /\ t[2] \in Nat
    OBVIOUS
  <2>2. Levels - t[1] \in Nat
    BY <2>1, ShapeOK
  <2>3. Pages[Levels - t[1]] \in Nat \ {0}
    BY <2>2, PagesDef
  <2>4. QED
    BY <2>1, <2>3
<1>2. ASSUME m[1] = n[1], First(m) = First(n) PROVE m = n
  <2>1. m[2] = n[2]
    BY <1>1, <1>2
  <2>2. m = <<m[1], m[2]>> /\ n = <<n[1], n[2]>>
    OBVIOUS
  <2>3. QED
    BY <1>2, <2>1, <2>2
<1>3. \A s, t : Before(s, t) <=> \/ First(s) < First(t)
                                 \/ First(s) = First(t) /\ s[1] < t[1]
  BY DEF Before
<1> HIDE DEF First
<1>4. ~ Before(m, m)
  BY <1>1, <1>3
<1>5. m # n => Before(m, n) \/ Before(n, m)
  BY <1>1, <1>2, <1>3
<1>6. ASSUME NEW x \in (0 .. Levels) \X Nat, Before(x, m), Before(m, n)
      PROVE  Before(x, n)
  BY <1>1, <1>3, <1>6
<1>7. QED
  BY <1>4, <1>5, <1>6

(* A table that comes before another has a smaller rank, and ranks are below *)
(* the number of tables.                                                     *)
LEMMA RanksOrder ==
    ASSUME Tree(tables), NEW n \in Tables
    PROVE  /\ Rank(n) \in Nat /\ Rank(n) < Cardinality(Tables)
           /\ \A m \in Tables : Before(m, n) => Rank(m) < Rank(n)
<1> DEFINE B(x) == {y \in Tables : Before(y, x)}
<1>1. IsFiniteSet(Tables) /\ \A x \in Tables : x \in (0 .. Levels) \X Nat
  <2>1. IsFiniteSet(DOMAIN tables) /\ Tables \in SUBSET DOMAIN tables
    BY DEF Tree, Tables
  <2>2. IsFiniteSet(Tables)
    BY <2>1, FS_Subset
  <2>3. \A x \in Tables : x \in (0 .. Levels) \X Nat
    BY <2>1 DEF Tree, IsTables
  <2>4. QED
    BY <2>2, <2>3
<1>2. \A x : Rank(x) = Cardinality(B(x))
  BY DEF Rank
<1>3. \A x : B(x) \in SUBSET Tables
  OBVIOUS
<1>4. \A x : IsFiniteSet(B(x))
  BY <1>1, <1>3, FS_Subset
<1>5. \A x : Cardinality(B(x)) \in Nat
  BY <1>4, FS_CardinalityType
<1>6. Cardinality(Tables) \in Nat
  BY <1>1, FS_CardinalityType
<1>7. n \notin B(n)
  BY <1>1, BeforeOrders
<1>8. Cardinality(B(n)) <= Cardinality(Tables)
  BY <1>1, <1>3, FS_Subset
<1>9. Cardinality(B(n)) # Cardinality(Tables)
  <2>1. SUFFICES ASSUME Cardinality(Tables) = Cardinality(B(n)) PROVE FALSE
    OBVIOUS
  <2> HIDE DEF B
  <2>2. Tables = B(n)
    BY <1>1, <1>3, <2>1, FS_Subset
  <2>3. QED
    BY <1>7, <2>2
<1>10. ASSUME NEW m \in Tables, Before(m, n)
       PROVE  Cardinality(B(m)) < Cardinality(B(n))
  <2>1. B(m) \in SUBSET B(n)
    BY <1>1, <1>10, BeforeOrders
  <2>2. m \in B(n) /\ m \notin B(m)
    BY <1>1, <1>10, BeforeOrders
  <2> HIDE DEF B
  <2>3. Cardinality(B(m)) <= Cardinality(B(n))
    BY <1>4, <2>1, FS_Subset
  <2>4. Cardinality(B(n)) = Cardinality(B(m)) => B(n) = B(m)
    BY <1>4, <2>1, FS_Subset
  <2>5. QED
    BY <1>5, <2>2, <2>3, <2>4
<1>11. Rank(n) \in Nat /\ Rank(n) < Cardinality(Tables)
  BY <1>2, <1>5, <1>6, <1>8, <1>9
<1>12. QED
  BY <1>2, <1>10, <1>11

(* So different tables have different ranks. *)
LEMMA RanksDiffer ==
    ASSUME Tree(tables), NEW m \in Tables, NEW n \in Tables, Rank(m) = Rank(n)
    PROVE  m = n
<1>1. m \in (0 .. Levels) \X Nat /\ n \in (0 .. Levels) \X Nat
  BY DEF Tables, Tree, IsTables
<1>2. Rank(m) \in Nat /\ Rank(n) \in Nat
  BY RanksOrder
<1>3. ~ Before(m, n) /\ ~ Before(n, m)
  BY <1>2, RanksOrder
<1>4. QED
  BY <1>1, <1>3, BeforeOrders

(* What the child gets: its frames are new, or the program's pages. *)
LEMMA CopyFrames ==
    ASSUME Tree(tables), NEW first \in Nat, NEW n \in DOMAIN tables
    PROVE  /\ n \in DOMAIN CopyTables(first)
           /\ n[1] \in 0 .. Levels
           /\ n[1] < Levels =>
                /\ n \in Tables
                /\ CopyTables(first)[n] = [frame |-> first + Rank(n), flags |-> RW]
           /\ n[1] = Levels =>
                CopyTables(first)[n] = [frame |-> tables[n].frame, flags |-> COW]
<1>1. n[1] \in 0 .. Levels
  BY DEF Tree, IsTables
<1>2. n \in Tables <=> n[1] < Levels
  BY DEF Tables
<1>3. Levels \in Nat
  BY ShapeOK
<1>4. QED
  BY <1>1, <1>2, <1>3 DEF CopyTables

(* The frame of entry n in the child's copy C. *)
CopiedFrame(C, first, n) ==
    /\ n[1] \in 0 .. Levels
    /\ n[1] < Levels => n \in Tables /\ C[n].frame = first + Rank(n)
    /\ n[1] = Levels => C[n].frame = tables[n].frame

(* It is new, or that of the program's page. *)
LEMMA CopyFrame ==
    ASSUME Tree(tables), NEW first \in Nat, NEW n \in DOMAIN tables,
           NEW C, C = CopyTables(first)
    PROVE  CopiedFrame(C, first, n)
<1>1. n[1] \in 0 .. Levels
  BY CopyFrames
<1>2. n[1] < Levels =>
        n \in Tables /\ C[n] = [frame |-> first + Rank(n), flags |-> RW]
  BY CopyFrames
<1>3. n[1] = Levels => C[n] = [frame |-> tables[n].frame, flags |-> COW]
  BY CopyFrames
<1>4. n[1] < Levels => n \in Tables /\ C[n].frame = first + Rank(n)
  BY <1>2
<1>5. n[1] = Levels => C[n].frame = tables[n].frame
  BY <1>3
<1>6. QED
  BY <1>1, <1>4, <1>5 DEF CopiedFrame

(* The child's tables lead to its pages as the program's do. *)
LEMMA CopyTree ==
    ASSUME Tree(tables), NEW first \in Nat \ {0},
           first + Cardinality(Tables) <= Frames + 1
    PROVE  Tree(CopyTables(first))
<1> DEFINE C == CopyTables(first)
<1>1. DOMAIN C = DOMAIN tables
  BY DEF CopyTables
<1>2. Cardinality(Tables) \in Nat
  <2>1. IsFiniteSet(DOMAIN tables) /\ Tables \in SUBSET DOMAIN tables
    BY DEF Tree, Tables
  <2>2. IsFiniteSet(Tables)
    BY <2>1, FS_Subset
  <2>3. QED
    BY <2>2, FS_CardinalityType
<1>3. ASSUME NEW n \in DOMAIN tables PROVE C[n] \in Entry
  <2>1. n[1] \in 0 .. Levels
    BY CopyFrames
  <2>2. CASE n[1] < Levels
    <3>1. n \in Tables /\ C[n] = [frame |-> first + Rank(n), flags |-> RW]
      BY <2>2, CopyFrames
    <3>2. Rank(n) \in Nat /\ Rank(n) < Cardinality(Tables)
      BY <3>1, RanksOrder
    <3>3. first + Rank(n) \in 1 .. Frames
      BY <1>2, <3>2, ShapeOK
    <3>4. QED
      BY <3>1, <3>3 DEF Entry
  <2>3. CASE n[1] = Levels
    <3>1. C[n] = [frame |-> tables[n].frame, flags |-> COW]
      BY <2>3, CopyFrames
    <3>2. tables[n].frame \in 1 .. Frames
      BY DEF Tree, IsTables, Entry
    <3>3. QED
      BY <3>1, <3>2 DEF Entry
  <2>4. QED
    BY <2>1, <2>2, <2>3, ShapeOK
<1> HIDE DEF C
<1>4. IsTables(C)
  BY <1>1, <1>3 DEF Tree, IsTables
<1>5. Tree(C)
  BY <1>1, <1>4 DEF Tree
<1>6. QED
  BY <1>5 DEF C

(* No frame is twice in them. *)
LEMMA CopyOwn ==
    ASSUME Tree(tables), Own(tables), NEW first \in Nat, Below(tables, first)
    PROVE  Own(CopyTables(first))
<1> DEFINE C == CopyTables(first)
<1>1. DOMAIN C = DOMAIN tables
  BY DEF CopyTables
<1> SUFFICES ASSUME NEW m \in DOMAIN tables, NEW n \in DOMAIN tables,
                    C[m].frame = C[n].frame
             PROVE  m = n
  BY <1>1 DEF Own
<1> HIDE DEF C
<1>2. /\ m[1] \in 0 .. Levels /\ n[1] \in 0 .. Levels
      /\ m[1] < Levels => m \in Tables /\ C[m].frame = first + Rank(m)
      /\ n[1] < Levels => n \in Tables /\ C[n].frame = first + Rank(n)
      /\ m[1] = Levels => C[m].frame = tables[m].frame
      /\ n[1] = Levels => C[n].frame = tables[n].frame
  <2>1. CopiedFrame(C, first, m) /\ CopiedFrame(C, first, n)
    BY CopyFrame DEF C
  <2>2. QED
    BY <2>1 DEF CopiedFrame
<1>3. /\ tables[m].frame \in Nat /\ tables[m].frame < first
      /\ tables[n].frame \in Nat /\ tables[n].frame < first
  BY ShapeOK DEF Below, Tree, IsTables, Entry
<1>4. Levels \in Nat
  BY ShapeOK
<1>5. CASE m[1] < Levels /\ n[1] < Levels
  <2>1. m \in Tables /\ n \in Tables /\ first + Rank(m) = first + Rank(n)
    BY <1>2, <1>5
  <2>2. Rank(m) \in Nat /\ Rank(n) \in Nat
    BY <2>1, RanksOrder
  <2>3. Rank(m) = Rank(n)
    BY <2>1, <2>2
  <2>4. QED
    BY <2>1, <2>3, RanksDiffer
<1>6. CASE m[1] = Levels /\ n[1] = Levels
  BY <1>2, <1>6 DEF Own
<1>7. CASE m[1] < Levels /\ n[1] = Levels
  <2>1. Rank(m) \in Nat
    BY <1>2, <1>7, RanksOrder
  <2>2. QED
    BY <1>2, <1>3, <1>7, <2>1
<1>8. CASE m[1] = Levels /\ n[1] < Levels
  <2>1. Rank(n) \in Nat
    BY <1>2, <1>8, RanksOrder
  <2>2. QED
    BY <1>2, <1>3, <1>8, <2>1
<1>9. QED
  BY <1>2, <1>4, <1>5, <1>6, <1>7, <1>8

(* They are granted before the frame that is granted next, the program's     *)
(* pages are in them, and they have no table in common with a tree that was  *)
(* there before and shares nothing but pages with the program.               *)
LEMMA CopyRelates ==
    ASSUME Tree(tables), NEW first \in Nat, Below(tables, first),
           NEW next \in Nat, next = first + Cardinality(Tables)
    PROVE  /\ Below(CopyTables(first), next)
           /\ SharedIn(tables, CopyTables(first))
<1> DEFINE C == CopyTables(first)
<1>1. DOMAIN C = DOMAIN tables
  BY DEF CopyTables
<1> HIDE DEF C
<1>2. Cardinality(Tables) \in Nat
  <2>1. IsFiniteSet(DOMAIN tables) /\ Tables \in SUBSET DOMAIN tables
    BY DEF Tree, Tables
  <2>2. IsFiniteSet(Tables)
    BY <2>1, FS_Subset
  <2>3. QED
    BY <2>2, FS_CardinalityType
<1>3. ASSUME NEW n \in DOMAIN tables PROVE C[n].frame < next
  <2>1. /\ n[1] \in 0 .. Levels
        /\ n[1] < Levels => n \in Tables /\ C[n].frame = first + Rank(n)
        /\ n[1] = Levels => C[n].frame = tables[n].frame
    <3>1. CopiedFrame(C, first, n)
      BY CopyFrame DEF C
    <3>2. QED
      BY <3>1 DEF CopiedFrame
  <2>2. CASE n[1] < Levels
    <3>1. Rank(n) \in Nat /\ Rank(n) < Cardinality(Tables)
      BY <2>1, <2>2, RanksOrder
    <3>2. QED
      BY <1>2, <2>1, <2>2, <3>1
  <2>3. CASE n[1] = Levels
    <3>1. tables[n].frame \in Nat /\ tables[n].frame < first
      BY ShapeOK DEF Below, Tree, IsTables, Entry
    <3>2. QED
      BY <1>2, <2>1, <2>3, <3>1
  <2>4. QED
    BY <2>1, <2>2, <2>3, ShapeOK
<1>4. Below(C, next)
  BY <1>1, <1>3 DEF Below
<1>5. ASSUME NEW n \in DOMAIN tables, n[1] = Levels
      PROVE  C[n].frame = tables[n].frame
  <2>1. CopiedFrame(C, first, n)
    BY CopyFrame DEF C
  <2>2. QED
    BY <1>5, <2>1 DEF CopiedFrame
<1>6. SharedIn(tables, C)
  BY <1>1, <1>5 DEF SharedIn
<1>7. QED
  BY <1>4, <1>6 DEF C

(* The copy shares nothing but pages with a tree D from before, if every     *)
(* page they share is where it was.                                          *)
LEMMA CopyApart ==
    ASSUME Tree(tables), NEW first \in Nat, NEW D, Tree(D), Below(D, first),
           Apart(tables, D) \/ (D = tables /\ Own(tables))
    PROVE  Apart(CopyTables(first), D)
<1> DEFINE C == CopyTables(first)
<1>1. DOMAIN C = DOMAIN tables
  BY DEF CopyTables
<1> SUFFICES ASSUME NEW m \in DOMAIN tables, NEW n \in DOMAIN D,
                    m[1] < Levels \/ n[1] < Levels
             PROVE  C[m].frame # D[n].frame
  BY <1>1 DEF Apart
<1> HIDE DEF C
<1>2. /\ m[1] \in 0 .. Levels
      /\ m[1] < Levels => m \in Tables /\ C[m].frame = first + Rank(m)
      /\ m[1] = Levels => C[m].frame = tables[m].frame
  <2>1. CopiedFrame(C, first, m)
    BY CopyFrame DEF C
  <2>2. QED
    BY <2>1 DEF CopiedFrame
<1>3. D[n].frame \in Nat /\ D[n].frame < first
  BY ShapeOK DEF Below, Tree, IsTables, Entry
<1>4. CASE m[1] < Levels
  <2>1. Rank(m) \in Nat
    BY <1>2, <1>4, RanksOrder
  <2>2. QED
    BY <1>2, <1>3, <1>4, <2>1
<1>5. CASE m[1] = Levels
  <2>1. tables[m].frame # D[n].frame
    <3>1. n[1] < Levels /\ Levels \in Nat
      BY <1>5, ShapeOK
    <3>2. CASE Apart(tables, D)
      BY <3>1, <3>2 DEF Apart
    <3>3. CASE D = tables /\ Own(tables)
      BY <1>5, <3>1, <3>3 DEF Own
    <3>4. QED
      BY <3>2, <3>3
  <2>2. QED
    BY <1>2, <1>5, <2>1
<1>6. QED
  BY <1>2, <1>4, <1>5, ShapeOK

-----------------------------------------------------------------------------
(* The inductive invariant *)

(* s is a sequence. *)
IsSequence(s) == Len(s) \in Nat /\ s = [i \in 1 .. Len(s) |-> s[i]]

(* The program's tables and each child's: trees with frames of their own,    *)
(* which share nothing but the pages the child had from fork.                *)
ChildOK(C) == /\ Tree(C) /\ Own(C) /\ Below(C, free)
              /\ SharedIn(tables, C) /\ Apart(tables, C)

TreesOK ==
    /\ Tree(tables) /\ Own(tables) /\ Below(tables, free)
    /\ \A i \in 1 .. Len(children) : ChildOK(children[i].tables)
    /\ \A i, j \in 1 .. Len(children) :
          i # j => Apart(children[i].tables, children[j].tables)

(* The frame of a copy under way is in no tree, and its page is in the       *)
(* address space.                                                            *)
CopyOK(f) ==
    /\ f.copy < free /\ Spare(f.copy, tables)
    /\ \A i \in 1 .. Len(children) : Spare(f.copy, children[i].tables)
    /\ Page(f.addr) \in PagesOfSpace

(* No child has the page that is being mapped.                               *)
FaultOK(f) ==
    /\ f \in [addr : Nat, copy : 0 .. Frames]
    /\ \A i \in 1 .. Len(children) : Leaf(Page(f.addr)) \notin DOMAIN children[i].tables
    /\ f.copy # 0 => CopyOK(f)

(* Only the first read of a page to copy faults in the handler, and that     *)
(* fault is about the same page.                                             *)
NestedFault(f) == [addr |-> Page(f.addr) * PageSize, copy |-> 0]

FaultsOK ==
    /\ IsSequence(faults)
    /\ \/ Len(faults) = 0
       \/ Len(faults) = 1 /\ access # Idle /\ FaultOK(faults[1])
       \/ /\ Len(faults) = 2 /\ access # Idle /\ FaultOK(faults[1])
          /\ faults[1].copy # 0 /\ faults[2] = NestedFault(faults[1])

(* The rest of the types, and where the loader is when a word is on its way. *)
StateOK ==
    /\ DOMAIN data = 1 .. Frames
    /\ \A f \in DOMAIN data : DOMAIN data[f] = 0 .. PageSize - 1
    /\ free \in 1 .. Frames + 1
    /\ IsSequence(children) /\ Len(children) <= MaxChildren
    /\ \A p \in DOMAIN tlb : tlb[p] \in 1 .. Frames
    /\ DOMAIN snapshot \subseteq DOMAIN tlb
    /\ access # Idle => access.addr \in Nat
    /\ IsSequence(vmas) /\ \A i \in 1 .. Len(vmas) : InSpace(vmas[i])

LoaderOK ==
    /\ stage \in {"load", "user", "hung"}
    /\ seg \in 0 .. Len(Segments) /\ word \in 0 .. Words(seg)
    /\ stage = "load" /\ access # Idle => word < Words(seg)

IInv == TreesOK /\ FaultsOK /\ StateOK /\ LoaderOK

(* Sequences *)

(* Append puts one element behind the others. *)
LEMMA AppendSequence ==
    ASSUME NEW s, IsSequence(s), NEW e
    PROVE  /\ IsSequence(Append(s, e)) /\ Len(Append(s, e)) = Len(s) + 1
           /\ \A i \in 1 .. Len(s) : Append(s, e)[i] = s[i]
           /\ Append(s, e)[Len(s) + 1] = e
<1> DEFINE S == {s[i] : i \in 1 .. Len(s)} \cup {e}
<1>1. s \in Seq(S) /\ e \in S
  BY DEF IsSequence
<1> HIDE DEF S
<1>2. /\ Append(s, e) \in Seq(S) /\ Len(Append(s, e)) = Len(s) + 1
      /\ \A i \in 1 .. Len(s) : Append(s, e)[i] = s[i]
      /\ Append(s, e)[Len(s) + 1] = e
  BY <1>1
<1>3. IsSequence(Append(s, e))
  <2> DEFINE t == Append(s, e)
  <2>1. t \in Seq(S)
    BY <1>2
  <2> HIDE DEF t
  <2>2. IsSequence(t)
    BY <2>1 DEF IsSequence
  <2>3. QED
    BY <2>2 DEF t
<1>4. QED
  BY <1>2, <1>3

(* An activation returns: the others stay. *)
LEMMA PopSequence ==
    ASSUME NEW s, IsSequence(s), Len(s) > 0,
           NEW t, t = SubSeq(s, 1, Len(s) - 1)
    PROVE  /\ IsSequence(t) /\ Len(t) = Len(s) - 1
           /\ \A i \in 1 .. Len(s) - 1 : t[i] = s[i]
<1> DEFINE S == {s[i] : i \in 1 .. Len(s)}
<1>1. s \in Seq(S) /\ Len(s) \in Nat
  BY DEF IsSequence
<1> HIDE DEF S
<1>2. /\ t \in Seq(S) /\ Len(t) = Len(s) - 1
      /\ \A i \in 1 .. Len(s) - 1 : t[i] = s[i]
  <2>1. 1 \in Int /\ Len(s) - 1 \in Int
    BY <1>1
  <2>2. \A i \in 1 .. Len(s) - 1 : s[i] \in S
    BY <1>1
  <2>3. /\ t \in Seq(S)
        /\ Len(t) = IF 1 <= Len(s) - 1 THEN (Len(s) - 1) - 1 + 1 ELSE 0
        /\ \A i \in 1 .. (Len(s) - 1) - 1 + 1 : t[i] = s[1 + i - 1]
    BY <2>1, <2>2, SubSeqProperties
  <2>4. Len(t) = Len(s) - 1
    <3>1. \A a \in Nat \ {0} : (IF 1 <= a - 1 THEN (a - 1) - 1 + 1 ELSE 0) = a - 1
      OBVIOUS
    <3>2. Len(s) \in Nat \ {0}
      BY <1>1
    <3>3. QED
      BY <2>3, <3>1, <3>2, Zenon
  <2>5. ASSUME NEW i \in 1 .. Len(s) - 1 PROVE t[i] = s[i]
    <3>1. i \in 1 .. (Len(s) - 1) - 1 + 1 /\ 1 + i - 1 = i
      BY <1>1
    <3>2. QED
      BY <2>3, <3>1
  <2>6. QED
    BY <2>3, <2>4, <2>5
<1>3. IsSequence(t)
  BY <1>2 DEF IsSequence
<1>4. QED
  BY <1>2, <1>3

(* A sequence without elements is empty, and the empty one is a sequence.    *)
LEMMA EmptySequence ==
    /\ IsSequence(<<>>) /\ Len(<<>>) = 0
    /\ \A s : IsSequence(s) => (Len(s) = 0 <=> s = <<>>)
<1>1. IsSequence(<<>>) /\ Len(<<>>) = 0
  BY DEF IsSequence
<1>2. ASSUME NEW s, IsSequence(s), Len(s) = 0 PROVE s = <<>>
  <2>1. s = [i \in 1 .. 0 |-> s[i]]
    BY <1>2 DEF IsSequence
  <2>2. s \in Seq({})
    BY <2>1
  <2>3. QED
    BY <1>2, <2>2
<1>3. QED
  BY <1>1, <1>2

-----------------------------------------------------------------------------
(* The invariant implies the properties *)

(* Apart does not depend on the order. *)
LEMMA ApartSymmetric ==
    ASSUME NEW T, NEW U, Apart(T, U)
    PROVE  Apart(U, T)
BY DEF Apart

(* The types. *)
LEMMA InvGivesTypes == IInv => TypeOK
<1> SUFFICES ASSUME IInv PROVE TypeOK
  OBVIOUS
<1> USE DEF IInv
<1>1. IsTables(tables) /\ \A i \in 1 .. Len(children) : IsTables(children[i].tables)
  BY DEF TreesOK, ChildOK, Tree
<1>2. /\ access = Idle => faults = <<>>
      /\ Len(faults) <= 2
      /\ \A i \in 1 .. Len(faults) : faults[i].copy \in 0 .. Frames
  <2>1. IsSequence(faults)
    BY DEF FaultsOK
  <2>2. CASE Len(faults) = 0
    BY <2>1, <2>2, EmptySequence
  <2>3. CASE Len(faults) = 1 /\ access # Idle /\ FaultOK(faults[1])
    BY <2>3 DEF FaultOK
  <2>4. CASE /\ Len(faults) = 2 /\ access # Idle /\ FaultOK(faults[1])
             /\ faults[2] = NestedFault(faults[1])
    <3>1. faults[2].copy = 0
      BY <2>4 DEF NestedFault
    <3>2. QED
      BY <2>4, <3>1, ShapeOK DEF FaultOK
  <2>5. QED
    BY <2>2, <2>3, <2>4 DEF FaultsOK
<1>3. QED
  BY <1>1, <1>2 DEF StateOK, LoaderOK, TypeOK

(* The pages the children share. *)
LEMMA InvGivesShares == IInv => ChildSharesPages
BY DEF IInv, TreesOK, ChildOK, SharedIn, ChildSharesPages

(* The trees. *)
LEMMA InvGivesTrees == IInv => FramesAreTrees
<1> SUFFICES ASSUME IInv PROVE FramesAreTrees
  OBVIOUS
<1>1. \A i \in Spaces : Tree(Space(i)) /\ Own(Space(i))
  BY DEF IInv, TreesOK, ChildOK, Spaces, Space
<1>2. ASSUME NEW i \in Spaces, NEW n \in DOMAIN Space(i), n[1] = Levels,
             NEW k \in 0 .. Levels
      PROVE  Table(k, n[2]) \in DOMAIN Space(i)
  <2>1. k <= n[1]
    BY <1>2, ShapeOK
  <2>2. Above(n, k) \in DOMAIN Space(i)
    BY <1>1, <2>1 DEF Tree
  <2>3. Above(n, k) = Table(k, n[2])
    BY <1>2 DEF Above, Table
  <2>4. QED
    BY <2>2, <2>3
<1>3. Len(children) \in Nat
  BY DEF IInv, StateOK, IsSequence
<1>4. ASSUME NEW i \in Spaces, NEW j \in Spaces, i # j
      PROVE  Apart(Space(i), Space(j))
  <2>1. CASE i = 0
    BY <1>3, <1>4, <2>1 DEF IInv, TreesOK, ChildOK, Spaces, Space
  <2>2. CASE j = 0
    <3>1. Apart(Space(j), Space(i))
      BY <1>3, <1>4, <2>2 DEF IInv, TreesOK, ChildOK, Spaces, Space
    <3>2. QED
      BY <3>1, ApartSymmetric
  <2>3. CASE i # 0 /\ j # 0
    BY <1>3, <1>4, <2>3 DEF IInv, TreesOK, Spaces, Space
  <2>4. QED
    BY <2>1, <2>2, <2>3
<1>5. ASSUME NEW i \in Spaces, NEW n \in DOMAIN Space(i), n[1] = Levels
      PROVE  n \in DOMAIN tables /\ Space(i)[n].frame = tables[n].frame
  <2>1. CASE i = 0
    BY <2>1 DEF Space
  <2>2. CASE i # 0
    BY <1>3, <1>5, <2>2 DEF IInv, TreesOK, ChildOK, SharedIn, Spaces, Space
  <2>3. QED
    BY <2>1, <2>2
<1>6. ASSUME NEW i \in Spaces, NEW j \in Spaces,
             NEW m \in DOMAIN Space(i), NEW n \in DOMAIN Space(j),
             Space(i)[m].frame = Space(j)[n].frame
      PROVE  m = n /\ (i = j \/ m[1] = Levels)
  <2>1. CASE i = j
    BY <1>1, <1>6, <2>1 DEF Own
  <2>2. CASE i # j
    <3>1. Apart(Space(i), Space(j))
      BY <1>4, <2>2
    <3>2. ~ (m[1] < Levels) /\ ~ (n[1] < Levels)
      BY <1>6, <3>1 DEF Apart
    <3>3. m[1] \in 0 .. Levels /\ n[1] \in 0 .. Levels
      BY <1>1 DEF Tree, IsTables
    <3>4. m[1] = Levels /\ n[1] = Levels
      BY <3>2, <3>3, ShapeOK
    <3>5. /\ m \in DOMAIN tables /\ n \in DOMAIN tables
          /\ tables[m].frame = tables[n].frame
      BY <1>5, <1>6, <3>4
    <3>6. m = n
      BY <3>5 DEF IInv, TreesOK, Own
    <3>7. QED
      BY <3>4, <3>6
  <2>3. QED
    BY <2>1, <2>2
<1>7. ASSUME NEW h \in 1 .. Len(faults), NEW i \in Spaces,
             NEW n \in DOMAIN Space(i)
      PROVE  faults[h].copy # Space(i)[n].frame
  <2>1. Space(i)[n].frame \in 1 .. Frames
    BY <1>1 DEF Tree, IsTables, Entry
  <2>2. CASE faults[h].copy = 0
    BY <2>1, <2>2
  <2>3. CASE faults[h].copy # 0
    <3>1. CopyOK(faults[h])
      <4>1. CASE h = 1
        BY <2>3, <4>1 DEF IInv, FaultsOK, FaultOK
      <4>2. CASE h # 1
        <5>1. Len(faults) = 2 /\ faults[2] = NestedFault(faults[1])
          <6>1. Len(faults) # 0 /\ Len(faults) # 1
            BY <4>2 DEF IInv, FaultsOK, IsSequence
          <6>2. QED
            BY <6>1 DEF IInv, FaultsOK
        <5>2. h = 2
          BY <4>2, <5>1
        <5>3. QED
          BY <2>3, <5>1, <5>2 DEF NestedFault
      <4>3. QED
        BY <4>1, <4>2
    <3>2. Spare(faults[h].copy, Space(i))
      BY <1>3, <3>1 DEF CopyOK, Spaces, Space
    <3>3. QED
      BY <3>2 DEF Spare
  <2>4. QED
    BY <2>2, <2>3
<1>8. QED
  BY <1>2, <1>6, <1>7 DEF FramesAreTrees

-----------------------------------------------------------------------------
(* Every step keeps the invariant *)

(* processPreloading establishes it. *)
LEMMA InitHolds == Init => IInv
<1> SUFFICES ASSUME Init PROVE IInv
  OBVIOUS
<1>1. /\ tables = [n \in {<<0, 0>>} |-> [frame |-> 1, flags |-> RW]]
      /\ data = [f \in 1 .. Frames |-> Blank] /\ free = 2
      /\ vmas = <<[addr |-> Stack.addr, size |-> Stack.size]>>
      /\ children = <<>> /\ tlb = <<>> /\ access = Idle /\ faults = <<>>
      /\ stage = "load" /\ seg = 0 /\ word = 0 /\ snapshot = <<>>
  BY DEF Init
<1>2. Levels \in Nat \ {0} /\ Frames \in Nat \ {0} /\ MaxChildren \in Nat
  BY ShapeOK
<1>3. Tree(tables)
  <2>1. DOMAIN tables = {<<0, 0>>} /\ tables[<<0, 0>>] = [frame |-> 1, flags |-> RW]
    BY <1>1
  <2>2. IsTables(tables)
    BY <1>2, <2>1 DEF IsTables, Entry
  <2>3. IsFiniteSet(DOMAIN tables)
    BY <2>1, FS_Singleton
  <2>4. ASSUME NEW j \in 0 .. Levels, j <= 0 PROVE Above(<<0, 0>>, j) = <<0, 0>>
    <3>1. j = 0 /\ Pages[0] = 1
      BY <1>2, <2>4, PagesDef
    <3>2. QED
      BY <3>1 DEF Above
  <2>5. QED
    BY <2>1, <2>2, <2>3, <2>4 DEF Tree
<1>4. Own(tables) /\ Below(tables, free)
  BY <1>1 DEF Own, Below
<1>5. IsSequence(children) /\ Len(children) = 0
  BY <1>1, EmptySequence
<1>6. TreesOK
  BY <1>3, <1>4, <1>5 DEF TreesOK
<1>7. FaultsOK
  BY <1>1, EmptySequence DEF FaultsOK
<1>8. IsSequence(vmas) /\ \A i \in 1 .. Len(vmas) : InSpace(vmas[i])
  <2>1. InSpace([addr |-> Stack.addr, size |-> Stack.size])
    BY VmasFit DEF InSpace
  <2>2. Len(vmas) = 1 /\ vmas[1] = [addr |-> Stack.addr, size |-> Stack.size]
    BY <1>1
  <2>3. IsSequence(vmas)
    BY <1>1 DEF IsSequence
  <2>4. QED
    BY <2>1, <2>2, <2>3
<1>9. StateOK
  BY <1>1, <1>2, <1>5, <1>8 DEF StateOK, Blank
<1>10. LoaderOK
  BY <1>1, VmasFit DEF LoaderOK, Words
<1>11. QED
  BY <1>6, <1>7, <1>9, <1>10 DEF IInv

(* The words of a program header are counted by a natural number. *)
LEMMA WordsType == \A s \in 0 .. Len(Segments) : Words(s) \in Nat
<1>1. ASSUME NEW s \in 0 .. Len(Segments) PROVE Words(s) \in Nat
  <2>1. CASE s = 0
    BY <2>1 DEF Words
  <2>2. CASE s # 0
    <3>1. Segments[s].size \in Nat
      BY <2>2, VmasFit DEF InSpace
    <3>2. QED
      BY <2>2, <3>1, ShapeOK DEF Words
  <2>3. QED
    BY <2>1, <2>2
<1>2. QED
  BY <1>1

(* The page of an address inside a VMA has a way through the tables. *)
LEMMA PageInSpace ==
    ASSUME StateOK, NEW a \in Nat, isValidAddress(a)
    PROVE  Page(a) \in PagesOfSpace
<1>1. PICK i \in 1 .. Len(vmas) : InVma(vmas[i], a)
  BY DEF isValidAddress
<1>2. /\ vmas[i].addr \in Nat /\ vmas[i].size \in Nat
      /\ vmas[i].addr + vmas[i].size <= PageSize * Pages[Levels]
  BY DEF StateOK, InSpace
<1>3. Pages[Levels] \in Nat /\ PageSize \in Nat \ {0}
  BY PagesDef, ShapeOK
<1>4. a < PageSize * Pages[Levels]
  BY <1>1, <1>2, <1>3 DEF InVma
<1>5. a \div PageSize \in Nat /\ a \div PageSize < Pages[Levels]
  BY <1>3, <1>4
<1>6. QED
  BY <1>3, <1>5 DEF Page, PagesOfSpace

(* The processor finds a frame of the memory. *)
LEMMA TranslationType ==
    ASSUME StateOK, TreesOK, NEW p, Present(p)
    PROVE  Translation(p) \in 1 .. Frames
BY DEF StateOK, TreesOK, Tree, IsTables, Entry, Present, Translation

(* Nothing happens to the trees. *)
LEMMA TreesStay ==
    ASSUME TreesOK, UNCHANGED <<tables, free, children>>
    PROVE  TreesOK'
BY DEF TreesOK, ChildOK

(* Nothing happens to the faults. *)
LEMMA FaultsStay ==
    ASSUME FaultsOK, UNCHANGED <<tables, free, children, access, faults>>
    PROVE  FaultsOK'
BY DEF FaultsOK, FaultOK, CopyOK

(* No fault is under way. *)
LEMMA FaultsIdle ==
    ASSUME FaultsOK, faults = <<>>, UNCHANGED faults
    PROVE  FaultsOK'
BY EmptySequence DEF FaultsOK

(* Nothing happens to the rest of the state. *)
LEMMA StateStays ==
    ASSUME StateOK, UNCHANGED <<data, free, vmas, children, tlb, access, snapshot>>
    PROVE  StateOK'
BY DEF StateOK

(* Nothing happens to the loader. *)
LEMMA LoaderStays ==
    ASSUME LoaderOK, UNCHANGED <<access, stage, seg, word>>
    PROVE  LoaderOK'
BY DEF LoaderOK

(* parseElf goes to the next program header. *)
LEMMA NextSegmentKeeps ==
    ASSUME IInv, NextSegment
    PROVE  IInv'
<1>1. /\ access = Idle /\ stage = "load"
      /\ word = Words(seg) /\ seg < Len(Segments)
      /\ seg' = seg + 1 /\ word' = 0
      /\ vmas' = Append(vmas, [addr |-> Segments[seg + 1].addr,
                               size |-> Segments[seg + 1].size])
      /\ UNCHANGED <<tables, data, free, children, tlb, access, faults, stage,
                     snapshot>>
  BY DEF NextSegment, Running
<1>2. TreesOK' /\ FaultsOK'
  BY <1>1, TreesStay, FaultsStay DEF IInv
<1>3. seg + 1 \in 1 .. Len(Segments)
  BY <1>1, VmasFit DEF IInv, LoaderOK
<1> DEFINE v == [addr |-> Segments[seg + 1].addr, size |-> Segments[seg + 1].size]
<1>4. InSpace(v)
  BY <1>3, VmasFit DEF InSpace
<1> HIDE DEF v
<1>5. vmas' = Append(vmas, v)
  BY <1>1 DEF v
<1>6. IsSequence(vmas) /\ \A i \in 1 .. Len(vmas) : InSpace(vmas[i])
  BY DEF IInv, StateOK
<1>7. /\ IsSequence(vmas') /\ Len(vmas') = Len(vmas) + 1
      /\ \A i \in 1 .. Len(vmas) : vmas'[i] = vmas[i]
      /\ vmas'[Len(vmas) + 1] = v
  BY <1>5, <1>6, AppendSequence
<1>8. ASSUME NEW i \in 1 .. Len(vmas') PROVE InSpace(vmas'[i])
  <2>1. CASE i \in 1 .. Len(vmas)
    BY <1>6, <1>7, <2>1
  <2>2. CASE i \notin 1 .. Len(vmas)
    <3>1. i = Len(vmas) + 1
      BY <1>6, <1>7, <2>2 DEF IsSequence
    <3>2. QED
      BY <1>4, <1>7, <3>1
  <2>3. QED
    BY <2>1, <2>2
<1>9. StateOK'
  BY <1>1, <1>7, <1>8 DEF IInv, StateOK
<1>10. LoaderOK'
  <2>1. seg' \in 0 .. Len(Segments)
    BY <1>1, <1>3
  <2>2. Words(seg') \in Nat
    BY <2>1, WordsType
  <2>3. QED
    BY <1>1, <2>1, <2>2 DEF IInv, LoaderOK
<1>11. QED
  BY <1>2, <1>9, <1>10 DEF IInv

(* copyBytes goes to the next word. *)
LEMMA CopyWordKeeps ==
    ASSUME IInv, CopyWord
    PROVE  IInv'
<1>1. /\ access = Idle /\ stage = "load" /\ word < Words(seg)
      /\ access'.addr = Segments[seg].addr + word * Word
      /\ UNCHANGED <<tables, free, vmas, children, data, tlb, faults, stage,
                     seg, word, snapshot>>
  BY DEF CopyWord, Running, kernel, loader
<1>2. TreesOK'
  BY <1>1, TreesStay DEF IInv
<1>3. faults = <<>>
  BY <1>1, EmptySequence DEF IInv, FaultsOK
<1>4. FaultsOK'
  BY <1>1, <1>3, FaultsIdle DEF IInv
<1>5. seg \in 1 .. Len(Segments) /\ word \in Nat
  <2>1. seg \in 0 .. Len(Segments) /\ word \in 0 .. Words(seg)
    BY DEF IInv, LoaderOK
  <2>2. seg # 0
    BY <1>1, <2>1 DEF Words
  <2>3. Words(seg) \in Nat
    BY <2>1, WordsType
  <2>4. QED
    BY <2>1, <2>2, <2>3
<1>6. access'.addr \in Nat
  <2>1. Segments[seg].addr \in Nat
    BY <1>5, VmasFit DEF InSpace
  <2>2. word * Word \in Nat
    BY <1>5, ShapeOK
  <2>3. QED
    BY <1>1, <2>1, <2>2
<1>7. StateOK'
  BY <1>1, <1>6 DEF IInv, StateOK
<1>8. LoaderOK'
  BY <1>1 DEF IInv, LoaderOK
<1>9. QED
  BY <1>2, <1>4, <1>7, <1>8 DEF IInv

(* The program starts. *)
LEMMA EnterProgramKeeps ==
    ASSUME IInv, EnterProgram
    PROVE  IInv'
<1>1. /\ stage' = "user"
      /\ UNCHANGED <<tables, free, vmas, children, data, tlb, access, faults,
                     seg, word, snapshot>>
  BY DEF EnterProgram, kernel
<1>2. TreesOK' /\ FaultsOK' /\ StateOK'
  BY <1>1, TreesStay, FaultsStay, StateStays DEF IInv
<1>3. LoaderOK'
  BY <1>1 DEF IInv, LoaderOK
<1>4. QED
  BY <1>2, <1>3 DEF IInv

(* The program uses its memory. *)
LEMMA IssueKeeps ==
    ASSUME IInv, NEW a \in Accesses, Issue(a)
    PROVE  IInv'
<1>1. /\ access = Idle /\ stage = "user" /\ access' = a
      /\ UNCHANGED <<tables, free, vmas, children, data, tlb, faults, stage,
                     seg, word, snapshot>>
  BY DEF Issue, Running, kernel, loader
<1>2. TreesOK'
  BY <1>1, TreesStay DEF IInv
<1>3. faults = <<>>
  BY <1>1, EmptySequence DEF IInv, FaultsOK
<1>4. FaultsOK'
  BY <1>1, <1>3, FaultsIdle DEF IInv
<1>5. StateOK'
  BY <1>1, VmasFit DEF IInv, StateOK
<1>6. LoaderOK'
  BY <1>1 DEF IInv, LoaderOK
<1>7. QED
  BY <1>2, <1>4, <1>5, <1>6 DEF IInv

(* The access is done. *)
LEMMA PerformKeeps ==
    ASSUME IInv, Perform
    PROVE  IInv'
<1> DEFINE p == Page(access.addr)
<1>1. /\ access # Idle /\ faults = <<>> /\ Present(p)
      /\ tlb' = With(tlb, p, Translation(p)) /\ access' = Idle
      /\ word' = IF stage = "load" THEN word + 1 ELSE word
      /\ UNCHANGED <<tables, free, vmas, children, faults, stage, seg, snapshot>>
  BY DEF Perform, kernel
<1>2. \E store : data' = [data EXCEPT ![Translation(p)] =
                            [o \in 0 .. PageSize - 1 |-> store[o]]]
  <2> DEFINE at == access.addr % PageSize
             store == [o \in 0 .. PageSize - 1 |->
                         IF o - at \in 0 .. Len(access.cells) - 1
                         THEN access.cells[o - at + 1]
                         ELSE data[Translation(p)][o]]
  <2>1. data' = [data EXCEPT ![Translation(p)] = store]
    BY DEF Perform
  <2>2. store = [o \in 0 .. PageSize - 1 |-> store[o]]
    OBVIOUS
  <2> HIDE DEF store
  <2>3. QED
    BY <2>1, <2>2
<1> HIDE DEF p
<1>3. TreesOK'
  BY <1>1, TreesStay DEF IInv
<1>4. FaultsOK'
  BY <1>1, FaultsIdle DEF IInv
<1>5. Translation(p) \in 1 .. Frames
  BY <1>1, TranslationType DEF IInv
<1>6. /\ DOMAIN data' = 1 .. Frames
      /\ \A f \in DOMAIN data' : DOMAIN data'[f] = 0 .. PageSize - 1
  BY <1>2 DEF IInv, StateOK
<1>7. /\ \A q \in DOMAIN tlb' : tlb'[q] \in 1 .. Frames
      /\ DOMAIN snapshot' \subseteq DOMAIN tlb'
  BY <1>1, <1>5 DEF IInv, StateOK, With
<1>8. StateOK'
  BY <1>1, <1>6, <1>7 DEF IInv, StateOK
<1>9. LoaderOK'
  <2>1. /\ seg \in 0 .. Len(Segments) /\ word \in 0 .. Words(seg)
        /\ stage \in {"load", "user", "hung"}
        /\ stage = "load" => word < Words(seg)
    BY <1>1 DEF IInv, LoaderOK
  <2>2. Words(seg) \in Nat
    BY <2>1, WordsType
  <2>3. word' \in 0 .. Words(seg)
    BY <1>1, <2>1, <2>2
  <2>4. QED
    BY <1>1, <2>1, <2>3 DEF LoaderOK
<1>10. QED
  BY <1>3, <1>4, <1>8, <1>9 DEF IInv

(* A translation is dropped. *)
LEMMA EvictKeeps ==
    ASSUME IInv, NEW p \in DOMAIN tlb, Evict(p)
    PROVE  IInv'
<1>1. /\ tlb' = [q \in DOMAIN tlb \ {p} |-> tlb[q]]
      /\ snapshot' = [q \in DOMAIN snapshot \ {p} |-> snapshot[q]]
      /\ UNCHANGED <<tables, free, vmas, children, data, access, faults,
                     stage, seg, word>>
  BY DEF Evict, kernel, loader
<1>2. TreesOK' /\ FaultsOK' /\ LoaderOK'
  BY <1>1, TreesStay, FaultsStay, LoaderStays DEF IInv
<1>3. StateOK'
  BY <1>1 DEF IInv, StateOK
<1>4. QED
  BY <1>2, <1>3 DEF IInv

(* The handler hangs: the address is in no VMA, or no frame is left. *)
LEMMA HangKeeps ==
    ASSUME IInv, RejectAddress \/ RunOut
    PROVE  IInv'
<1>1. /\ stage' = "hung"
      /\ UNCHANGED <<tables, free, vmas, children, data, tlb, access, faults,
                     seg, word, snapshot>>
  BY DEF RejectAddress, RunOut, kernel
<1>2. TreesOK' /\ FaultsOK' /\ StateOK'
  BY <1>1, TreesStay, FaultsStay, StateStays DEF IInv
<1>3. LoaderOK'
  BY <1>1 DEF IInv, LoaderOK
<1>4. QED
  BY <1>2, <1>3 DEF IInv

(* The first page of the space that an activation is about, also when it is  *)
(* the nested one.                                                           *)
LEMMA NestedPage ==
    ASSUME NEW f, f.addr \in Nat
    PROVE  /\ NestedFault(f).addr \in Nat /\ NestedFault(f).copy = 0
           /\ Page(NestedFault(f).addr) = Page(f.addr)
           /\ ~ cowBitSet(NestedFault(f).addr)
<1>1. PageSize \in Nat \ {0}
  BY ShapeOK
<1>2. Page(f.addr) \in Nat
  BY <1>1 DEF Page
<1>3. ASSUME NEW q \in Nat
      PROVE  /\ q * PageSize \in Nat /\ (q * PageSize) \div PageSize = q
             /\ (q * PageSize) % PageSize = 0
  BY <1>1
<1>4. NestedFault(f).addr = Page(f.addr) * PageSize /\ NestedFault(f).copy = 0
  BY DEF NestedFault
<1>5. Page(NestedFault(f).addr) = Page(f.addr)
  BY <1>2, <1>3, <1>4 DEF Page
<1>6. NestedFault(f).addr % PageSize = 0
  BY <1>2, <1>3, <1>4
<1>7. 0 \notin CowOffsets
  BY ShapeOK
<1>8. QED
  BY <1>2, <1>3, <1>4, <1>5, <1>6, <1>7 DEF cowBitSet

(* What the innermost activation is about. *)
Outer == faults[1]

(* The innermost activation handles a fault: it is the first one, which has  *)
(* no copy, or the nested one.                                               *)
LEMMA TopHandles ==
    ASSUME FaultsOK, faults # <<>>, ~ Copying
    PROVE  /\ Top.addr \in Nat /\ Top.copy = 0 /\ access # Idle
           /\ Page(Top.addr) = Page(Outer.addr) /\ FaultOK(Outer)
           /\ \/ Len(faults) = 1 /\ Outer.copy = 0 /\ Top = Outer
              \/ Len(faults) = 2 /\ Outer.copy # 0 /\ ~ cowBitSet(Top.addr)
<1>1. IsSequence(faults) /\ Len(faults) # 0
  BY EmptySequence DEF FaultsOK
<1>2. CASE Len(faults) = 1 /\ access # Idle /\ FaultOK(faults[1])
  BY <1>2 DEF Outer, Top, Copying, FaultOK
<1>3. CASE /\ Len(faults) = 2 /\ access # Idle /\ FaultOK(faults[1])
           /\ faults[1].copy # 0 /\ faults[2] = NestedFault(faults[1])
  <2>1. faults[1].addr \in Nat
    BY <1>3 DEF FaultOK
  <2>2. Top = NestedFault(faults[1])
    BY <1>3 DEF Top
  <2>3. QED
    BY <1>3, <2>1, <2>2, NestedPage DEF Outer
<1>4. QED
  BY <1>1, <1>2, <1>3 DEF FaultsOK

(* The innermost activation copies: it is the first one. *)
LEMMA TopCopies ==
    ASSUME FaultsOK, Copying
    PROVE  /\ Len(faults) = 1 /\ Top = Outer /\ access # Idle
           /\ FaultOK(Outer) /\ CopyOK(Outer) /\ Outer.copy \in 1 .. Frames
           /\ Outer.addr \in Nat
<1>1. faults # <<>> /\ faults[Len(faults)].copy # 0
  BY DEF Copying
<1>2. IsSequence(faults) /\ Len(faults) # 0
  BY <1>1, EmptySequence DEF FaultsOK
<1>3. ~ (Len(faults) = 2 /\ faults[2] = NestedFault(faults[1]))
  BY <1>1 DEF NestedFault
<1>4. Len(faults) = 1 /\ access # Idle /\ FaultOK(faults[1])
  BY <1>2, <1>3 DEF FaultsOK
<1>5. faults[1].copy # 0
  BY <1>1, <1>4
<1>6. QED
  BY <1>4, <1>5, ShapeOK DEF FaultOK, Outer, Top

(* An activation that is the same as before is as good as before. *)
LEMMA FaultStays ==
    ASSUME NEW f, FaultOK(f), UNCHANGED <<tables, free, children>>,
           faults'[1] = f
    PROVE  FaultOK(faults[1])'
BY DEF FaultOK, CopyOK

(* Frames that were granted before f were granted before later ones. *)
LEMMA BelowLater ==
    ASSUME NEW T, Tree(T), NEW f \in Nat, NEW g \in Nat, f <= g, Below(T, f)
    PROVE  Below(T, g)
<1>1. \A n \in DOMAIN T : T[n].frame \in Nat
  BY ShapeOK DEF Tree, IsTables, Entry
<1>2. QED
  BY <1>1 DEF Below

(* A frame that is granted next is not in a tree. *)
LEMMA BelowSpares ==
    ASSUME NEW T, Tree(T), NEW f \in Nat, NEW g \in Nat, f <= g, Below(T, f)
    PROVE  Spare(g, T)
<1>1. \A n \in DOMAIN T : T[n].frame \in Nat
  BY ShapeOK DEF Tree, IsTables, Entry
<1>2. QED
  BY <1>1 DEF Below, Spare

(* Granting a frame does nothing to the trees. *)
LEMMA TreesLater ==
    ASSUME TreesOK, UNCHANGED <<tables, children>>, free \in Nat,
           free' \in Nat, free <= free'
    PROVE  TreesOK'
<1>1. Below(tables, free') /\ Tree(tables) /\ Own(tables)
  BY BelowLater DEF TreesOK
<1>2. ASSUME NEW i \in 1 .. Len(children) PROVE ChildOK(children[i].tables)'
  <2> DEFINE C == children[i].tables
  <2>1. ChildOK(C)
    BY DEF TreesOK
  <2>2. Below(C, free')
    BY <2>1, BelowLater DEF ChildOK
  <2>3. QED
    BY <2>1, <2>2 DEF ChildOK
<1>3. QED
  BY <1>1, <1>2 DEF TreesOK

(* Exception 14: no child has the page, or it is the page that is copied.    *)
LEMMA FaultKeeps ==
    ASSUME IInv, Fault
    PROVE  IInv'
<1>1. /\ access # Idle /\ (faults = <<>> \/ Copying)
      /\ ~ Present(Page(Current))
      /\ faults' = Append(faults, [addr |-> Current, copy |-> 0])
      /\ UNCHANGED <<tables, free, vmas, children, data, tlb, access, stage,
                     seg, word, snapshot>>
  BY DEF Fault, kernel, loader
<1>2. TreesOK' /\ StateOK' /\ LoaderOK'
  BY <1>1, TreesStay, StateStays, LoaderStays DEF IInv
<1> DEFINE new == [addr |-> Current, copy |-> 0]
<1>3. IsSequence(faults)
  BY DEF IInv, FaultsOK
<1>4. /\ IsSequence(faults') /\ Len(faults') = Len(faults) + 1
      /\ \A i \in 1 .. Len(faults) : faults'[i] = faults[i]
      /\ faults'[Len(faults) + 1] = new
  BY <1>1, <1>3, AppendSequence
<1>5. CASE faults = <<>>
  <2>1. Len(faults') = 1 /\ faults'[1] = new
    BY <1>4, <1>5, EmptySequence
  <2>2. Current = access.addr /\ access.addr \in Nat
    BY <1>1, <1>5 DEF Current, Copying, IInv, StateOK
  <2>3. Page(access.addr) \in Nat
    BY <2>2, ShapeOK DEF Page
  <2>4. Leaf(Page(access.addr)) \notin DOMAIN tables
    BY <1>1, <2>2 DEF Present
  <2>5. Leaf(Page(access.addr))[1] = Levels
    BY <2>3, TableEnds
  <2>6. ASSUME NEW i \in 1 .. Len(children)
        PROVE  Leaf(Page(access.addr)) \notin DOMAIN children[i].tables
    <3>1. SharedIn(tables, children[i].tables)
      BY DEF IInv, TreesOK, ChildOK
    <3>2. QED
      BY <2>4, <2>5, <3>1 DEF SharedIn
  <2>7. new.addr = access.addr /\ new.copy = 0
    BY <2>2
  <2>8. new \in [addr : Nat, copy : 0 .. Frames]
    BY <2>2, ShapeOK
  <2> HIDE DEF new
  <2>9. FaultOK(new)
    BY <2>6, <2>7, <2>8 DEF FaultOK
  <2>10. FaultOK(faults[1])'
    <3>1. PICK f : f = new
      OBVIOUS
    <3>2. FaultOK(f) /\ faults'[1] = f
      BY <2>1, <2>9, <3>1
    <3>3. QED
      BY <1>1, <3>2, FaultStays
  <2>11. IsSequence(faults') /\ access' # Idle
    BY <1>1, <1>4
  <2>12. FaultsOK'
    BY <2>1, <2>10, <2>11 DEF FaultsOK
  <2>13. QED
    BY <1>2, <2>12 DEF IInv
<1>6. CASE Copying
  <2>1. Len(faults) = 1 /\ FaultOK(faults[1]) /\ faults[1].copy # 0
    BY <1>6, TopCopies, ShapeOK DEF IInv, Outer
  <2>2. Current = Page(faults[1].addr) * PageSize
    BY <1>6, <2>1 DEF Current
  <2>3. /\ Len(faults') = 2 /\ faults'[1] = faults[1]
        /\ faults'[2] = NestedFault(faults[1])
    BY <1>4, <2>1, <2>2 DEF NestedFault
  <2>4. FaultOK(faults[1])'
    BY <1>1, <2>1, <2>3, FaultStays
  <2>5. faults'[2] = NestedFault(faults'[1])
    BY <2>3
  <2>6. QED
    BY <1>1, <1>2, <1>4, <2>1, <2>3, <2>4, <2>5 DEF IInv, FaultsOK
<1>7. QED
  BY <1>1, <1>5, <1>6

(* The copy-on-write branch takes a frame. *)
LEMMA BeginCopyKeeps ==
    ASSUME IInv, BeginCopy
    PROVE  IInv'
<1>1. /\ faults # <<>> /\ ~ Copying
      /\ isValidAddress(Top.addr) /\ cowBitSet(Top.addr)
      /\ ~ Exhausted(1) /\ free' = free + 1
      /\ faults' = [faults EXCEPT ![Len(faults)].copy = free]
      /\ UNCHANGED <<tables, data, vmas, children, tlb, access, stage, seg,
                     word, snapshot>>
  BY DEF BeginCopy, Handling, loader
<1>2. Len(faults) = 1 /\ Top = faults[1] /\ FaultOK(faults[1]) /\ access # Idle
  BY <1>1, TopHandles DEF IInv, Outer
<1>3. free \in 1 .. Frames /\ free' \in 1 .. Frames + 1
  BY <1>1, ShapeOK DEF Exhausted, IInv, StateOK
<1>4. IsSequence(faults) /\ faults[1] \in [addr : Nat, copy : 0 .. Frames]
  BY <1>2 DEF IInv, FaultsOK, FaultOK
<1> DEFINE new == [faults[1] EXCEPT !.copy = free]
<1>5. IsSequence(faults') /\ Len(faults') = 1 /\ faults'[1] = new
  <2>1. faults = [i \in 1 .. 1 |-> faults[i]]
    BY <1>2, <1>4 DEF IsSequence
  <2>2. faults' = [i \in 1 .. 1 |-> new]
    <3>1. faults' = [faults EXCEPT ![1] = new]
      BY <1>1, <1>2
    <3>2. DOMAIN faults = 1 .. 1
      BY <2>1
    <3> HIDE DEF new
    <3>3. faults' = [i \in 1 .. 1 |-> IF i = 1 THEN new ELSE faults[i]]
      BY <3>1, <3>2
    <3>4. QED
      BY <3>3
  <2> HIDE DEF new
  <2>3. faults' \in Seq({new}) /\ Len(faults') = 1 /\ faults'[1] = new
    BY <2>2
  <2>4. QED
    BY <2>2, <2>3 DEF IsSequence
<1>6. /\ new \in [addr : Nat, copy : 0 .. Frames]
      /\ new.addr = faults[1].addr /\ new.copy = free
  BY <1>3, <1>4
<1> HIDE DEF new
<1>7. Page(faults[1].addr) \in PagesOfSpace
  BY <1>1, <1>2, <1>4, PageInSpace DEF IInv
<1>8. TreesOK'
  BY <1>1, <1>3, TreesLater DEF IInv
<1>9. PICK f : f = new
  OBVIOUS
<1>a. CopyOK(f)'
  <2>1. free < free' /\ Page(f.addr) \in PagesOfSpace
    BY <1>1, <1>3, <1>6, <1>7, <1>9
  <2>2. Spare(free, tables)
    BY <1>3, BelowSpares DEF IInv, TreesOK
  <2>3. \A i \in 1 .. Len(children) : Spare(free, children[i].tables)
    BY <1>3, BelowSpares DEF IInv, TreesOK, ChildOK
  <2>4. f.copy = free
    BY <1>6, <1>9
  <2>5. QED
    BY <1>1, <2>1, <2>2, <2>3, <2>4 DEF CopyOK
<1>b. FaultOK(f)'
  <2>1. f \in [addr : Nat, copy : 0 .. Frames] /\ f.addr = faults[1].addr
    BY <1>6, <1>9
  <2>2. \A i \in 1 .. Len(children) :
           Leaf(Page(f.addr)) \notin DOMAIN children[i].tables
    BY <1>2, <2>1 DEF FaultOK
  <2>3. QED
    BY <1>1, <1>a, <2>1, <2>2 DEF FaultOK
<1>10. FaultOK(faults[1])'
  <2>1. faults'[1] = f
    BY <1>5, <1>9
  <2>2. QED
    BY <1>b, <2>1 DEF FaultOK, CopyOK
<1>11. FaultsOK'
  BY <1>1, <1>2, <1>5, <1>10 DEF FaultsOK
<1>12. StateOK' /\ LoaderOK'
  BY <1>1, <1>3, LoaderStays DEF IInv, StateOK
<1>13. QED
  BY <1>8, <1>11, <1>12 DEF IInv

(* mapVirtualAddress has extended the program's tables by the way to a page  *)
(* that no child has: first is the first frame it took, next the one that is *)
(* granted next.                                                             *)
LEMMA MappingKeepsTrees ==
    ASSUME TreesOK, StateOK, NEW p \in PagesOfSpace, NEW frame \in 1 .. Frames,
           Install(p, free, frame), UNCHANGED children,
           \A i \in 1 .. Len(children) : Leaf(p) \notin DOMAIN children[i].tables,
           Spare(frame, tables),
           \A i \in 1 .. Len(children) : Spare(frame, children[i].tables),
           frame < free \/ frame = free + Cardinality(Missing(p)),
           free' \in Nat, free' <= Frames + 1, frame < free',
           free + Cardinality(Missing(p)) <= free'
    PROVE  TreesOK'
<1>1. Tree(tables) /\ Own(tables) /\ Below(tables, free)
  BY DEF TreesOK
<1>2. free \in Nat \ {0} /\ frame \in Nat /\ Levels \in Nat /\ Frames \in Nat
  BY ShapeOK DEF StateOK
<1>3. PICK top \in 1 .. Levels :
         /\ Cardinality(Missing(p)) = Levels - top
         /\ Extends(tables, tables', p, free, frame, top)
  BY <1>1, <1>2, InstallExtends
<1>4. /\ free + (Levels - top) <= free' /\ free + (Levels - top) <= Frames + 1
      /\ frame < free \/ frame >= free + (Levels - top)
      /\ free <= free'
  BY <1>2, <1>3
<1>5. Tree(tables')
  BY <1>1, <1>2, <1>3, <1>4, ExtendsTree
<1>6. Own(tables')
  BY <1>1, <1>2, <1>3, <1>4, ExtendsOwn
<1>7. Below(tables', free')
  BY <1>1, <1>2, <1>3, <1>4, ExtendsBelow
<1>8. ASSUME NEW i \in 1 .. Len(children) PROVE ChildOK(children[i].tables)'
  <2> DEFINE C == children[i].tables
  <2>1. ChildOK(C)
    BY DEF TreesOK
  <2>2. Tree(C) /\ Own(C) /\ Below(C, free)
    BY <2>1 DEF ChildOK
  <2>3. Below(C, free')
    BY <1>2, <1>4, <2>2, BelowLater
  <2>4. SharedIn(tables', C)
    BY <1>3, <2>1, ExtendsShared DEF ChildOK
  <2>5. Apart(tables', C)
    BY <1>2, <1>3, <2>1, <2>2, ExtendsApart DEF ChildOK
  <2>6. QED
    BY <2>2, <2>3, <2>4, <2>5 DEF ChildOK
<1>9. \A i, j \in 1 .. Len(children) :
         i # j => Apart(children[i].tables, children[j].tables)
  BY DEF TreesOK
<1>10. QED
  BY <1>5, <1>6, <1>7, <1>8, <1>9 DEF TreesOK

(* A frame that is being copied to stays out of the trees. *)
LEMMA MappingKeepsSpare ==
    ASSUME TreesOK, StateOK, NEW p \in PagesOfSpace, NEW frame \in Nat,
           Install(p, free, frame),
           NEW f \in Nat, Spare(f, tables), f < free, f # frame
    PROVE  Spare(f, tables')
<1>1. Tree(tables) /\ free \in Nat
  BY DEF TreesOK, StateOK
<1>2. PICK top \in 1 .. Levels : Extends(tables, tables', p, free, frame, top)
  BY <1>1, InstallExtends
<1>3. QED
  BY <1>1, <1>2, ExtendsSpare

(* The missing tables are counted by a natural number. *)
LEMMA MissingCounts ==
    ASSUME NEW p
    PROVE  Cardinality(Missing(p)) \in Nat
<1>1. IsFiniteSet(1 .. Levels - 1) /\ Missing(p) \in SUBSET (1 .. Levels - 1)
  BY FS_Interval, ShapeOK DEF Missing
<1>2. QED
  BY <1>1, FS_Subset, FS_CardinalityType

(* A page is mapped to the frame behind those of its missing tables. *)
LEMMA MapPageKeeps ==
    ASSUME IInv, MapPage
    PROVE  IInv'
<1> DEFINE p == Page(Top.addr)
           n == Cardinality(Missing(p))
<1>1. /\ faults # <<>> /\ ~ Copying /\ isValidAddress(Top.addr)
      /\ ~ Exhausted(n + 1) /\ Install(p, free, free + n)
      /\ free' = free + n + 1
      /\ faults' = SubSeq(faults, 1, Len(faults) - 1)
      /\ UNCHANGED <<data, vmas, children, tlb, access, stage, seg, word,
                     snapshot>>
  BY DEF MapPage, Handling, Return, loader
<1>2. /\ Top.addr \in Nat /\ access # Idle
      /\ Page(Top.addr) = Page(Outer.addr) /\ FaultOK(Outer)
      /\ \/ Len(faults) = 1
         \/ Len(faults) = 2 /\ Outer.copy # 0
  BY <1>1, TopHandles DEF IInv
<1>3. p \in PagesOfSpace
  BY <1>1, <1>2, PageInSpace DEF IInv
<1>4. n \in Nat
  BY MissingCounts
<1>5. \A i \in 1 .. Len(children) : Leaf(p) \notin DOMAIN children[i].tables
  BY <1>2 DEF FaultOK
<1> HIDE DEF n, p
<1>6. /\ free \in Nat \ {0} /\ free + n \in 1 .. Frames
      /\ free' \in 1 .. Frames + 1 /\ free <= free + n
      /\ free + n < free' /\ free < free'
  BY <1>1, <1>4, ShapeOK DEF Exhausted, IInv, StateOK
<1>7. Spare(free + n, tables)
  BY <1>6, BelowSpares DEF IInv, TreesOK
<1>8. \A i \in 1 .. Len(children) : Spare(free + n, children[i].tables)
  BY <1>6, BelowSpares DEF IInv, TreesOK, ChildOK
<1>9. TreesOK'
  <2>1. /\ free' \in Nat /\ free' <= Frames + 1 /\ free + n <= free'
        /\ free + n = free + Cardinality(Missing(p))
    BY <1>6, ShapeOK DEF n
  <2>2. QED
    BY <1>1, <1>3, <1>5, <1>6, <1>7, <1>8, <2>1, MappingKeepsTrees
    DEF IInv
<1>10. IsSequence(faults)
  BY DEF IInv, FaultsOK
<1>11. FaultsOK'
  <2>1. CASE Len(faults) = 1
    <3>1. IsSequence(faults') /\ Len(faults') = 0
      <4>1. Len(faults) > 0 /\ Len(faults) - 1 = 0
        BY <2>1
      <4>2. IsSequence(faults') /\ Len(faults') = Len(faults) - 1
        BY <1>1, <1>10, <4>1, PopSequence
      <4>3. QED
        BY <4>1, <4>2
    <3>2. QED
      BY <3>1 DEF FaultsOK
  <2>2. CASE Len(faults) = 2 /\ Outer.copy # 0
    <3>1. IsSequence(faults') /\ Len(faults') = 1 /\ faults'[1] = faults[1]
      <4>1. Len(faults) > 0 /\ Len(faults) - 1 = 1 /\ 1 \in 1 .. 1
        BY <2>2
      <4>2. /\ IsSequence(faults') /\ Len(faults') = Len(faults) - 1
            /\ \A i \in 1 .. Len(faults) - 1 : faults'[i] = faults[i]
        BY <1>1, <1>10, <4>1, PopSequence
      <4>3. QED
        BY <4>1, <4>2
    <3>2. PICK f : f = faults[1]
      OBVIOUS
    <3>3. FaultOK(f) /\ CopyOK(f) /\ f \in [addr : Nat, copy : 0 .. Frames]
      BY <1>2, <2>2, <3>2 DEF FaultOK, Outer
    <3>4. f.copy \in Nat /\ f.copy < free /\ f.copy < free'
      BY <1>6, <3>3, ShapeOK DEF CopyOK
    <3>5. Spare(f.copy, tables')
      <4>1. f.copy # free + n /\ free + n \in Nat
        BY <1>4, <1>6, <3>4
      <4>2. QED
        BY <1>1, <1>3, <3>3, <3>4, <4>1, MappingKeepsSpare DEF IInv, CopyOK
    <3>6. CopyOK(f)'
      BY <1>1, <3>3, <3>4, <3>5 DEF CopyOK
    <3>7. FaultOK(f)'
      BY <1>1, <3>3, <3>6 DEF FaultOK
    <3>8. FaultOK(faults[1])'
      BY <3>1, <3>2, <3>7 DEF FaultOK, CopyOK
    <3>9. QED
      BY <1>1, <1>2, <3>1, <3>8 DEF FaultsOK
  <2>3. QED
    BY <1>2, <2>1, <2>2
<1>12. StateOK' /\ LoaderOK'
  BY <1>1, <1>6, LoaderStays DEF IInv, StateOK
<1>13. QED
  BY <1>9, <1>11, <1>12 DEF IInv

(* A page is mapped to its copy. *)
LEMMA FinishCopyKeeps ==
    ASSUME IInv, FinishCopy
    PROVE  IInv'
<1> DEFINE p == Page(Top.addr)
           n == Cardinality(Missing(p))
<1>1. /\ Copying /\ Present(p) /\ ~ Exhausted(n)
      /\ data' = [data EXCEPT ![Top.copy] = data[Translation(p)]]
      /\ tlb' = With(tlb, p, Translation(p))
      /\ Install(p, free, Top.copy) /\ free' = free + n
      /\ faults' = SubSeq(faults, 1, Len(faults) - 1)
      /\ snapshot' = With(snapshot, p, data[Translation(p)])
      /\ UNCHANGED <<vmas, children, access, stage, seg, word>>
  BY DEF FinishCopy, Return, loader
<1>2. /\ Len(faults) = 1 /\ Top = Outer /\ FaultOK(Outer) /\ CopyOK(Outer)
      /\ Outer.copy \in 1 .. Frames
  BY <1>1, TopCopies DEF IInv
<1>3. p \in PagesOfSpace
  BY <1>2 DEF CopyOK
<1>4. n \in Nat
  BY MissingCounts
<1>5. \A i \in 1 .. Len(children) : Leaf(p) \notin DOMAIN children[i].tables
  BY <1>2 DEF FaultOK
<1>6. /\ Spare(Top.copy, tables) /\ Top.copy < free
      /\ \A i \in 1 .. Len(children) : Spare(Top.copy, children[i].tables)
      /\ Top.copy \in 1 .. Frames
  BY <1>2 DEF CopyOK
<1> HIDE DEF n, p
<1>7. free \in 1 .. Frames + 1 /\ free' \in 1 .. Frames + 1 /\ free <= free'
  BY <1>1, <1>4, ShapeOK DEF Exhausted, IInv, StateOK
<1>8. TreesOK'
  <2>1. /\ free' \in Nat /\ free' <= Frames + 1
        /\ free + Cardinality(Missing(p)) <= free' /\ Top.copy < free'
    BY <1>1, <1>4, <1>6, <1>7, ShapeOK DEF n
  <2>2. QED
    BY <1>1, <1>3, <1>5, <1>6, <2>1, MappingKeepsTrees DEF IInv
<1>9. FaultsOK'
  <2>1. IsSequence(faults)
    BY DEF IInv, FaultsOK
  <2>2. IsSequence(faults') /\ Len(faults') = 0
    <3>1. Len(faults) > 0 /\ Len(faults) - 1 = 0
      BY <1>2
    <3>2. IsSequence(faults') /\ Len(faults') = Len(faults) - 1
      BY <1>1, <2>1, <3>1, PopSequence
    <3>3. QED
      BY <3>1, <3>2
  <2>3. QED
    BY <2>2 DEF FaultsOK
<1>10. Translation(p) \in 1 .. Frames
  BY <1>1, TranslationType DEF IInv
<1>11. /\ DOMAIN data' = 1 .. Frames
       /\ \A f \in DOMAIN data' : DOMAIN data'[f] = 0 .. PageSize - 1
  BY <1>1, <1>6, <1>10 DEF IInv, StateOK
<1>12. /\ \A q \in DOMAIN tlb' : tlb'[q] \in 1 .. Frames
       /\ DOMAIN snapshot' \subseteq DOMAIN tlb'
  BY <1>1, <1>10 DEF IInv, StateOK, With
<1>13. StateOK'
  BY <1>1, <1>7, <1>11, <1>12 DEF IInv, StateOK
<1>14. LoaderOK'
  BY <1>1, LoaderStays DEF IInv
<1>15. QED
  BY <1>8, <1>9, <1>13, <1>14 DEF IInv

(* The child gets tables of its own and the program's pages. *)
LEMMA ForkKeeps ==
    ASSUME IInv, Fork
    PROVE  IInv'
<1> DEFINE n == 1 + Cardinality(Tables)
           C == CopyTables(free + 1)
           child == [tables |-> C, vmas |-> vmas]
<1>1. /\ access = Idle /\ stage = "user" /\ Len(children) < MaxChildren
      /\ \/ stage' = "hung" /\ UNCHANGED <<free, children>>
         \/ /\ ~ Exhausted(n) /\ free' = free + n
            /\ children' = Append(children, child) /\ UNCHANGED stage
      /\ UNCHANGED <<tables, data, vmas, tlb, access, faults, seg, word,
                     snapshot>>
  BY DEF Fork, Running
<1>2. faults = <<>> /\ FaultsOK'
  BY <1>1, EmptySequence, FaultsIdle DEF IInv, FaultsOK
<1>3. LoaderOK'
  BY <1>1 DEF IInv, LoaderOK
<1>4. CASE stage' = "hung" /\ UNCHANGED <<free, children>>
  BY <1>1, <1>2, <1>3, <1>4, TreesStay, StateStays DEF IInv
<1>5. CASE /\ ~ Exhausted(n) /\ free' = free + n
           /\ children' = Append(children, child)
  <2>1. Tree(tables) /\ Own(tables) /\ Below(tables, free)
    BY DEF IInv, TreesOK
  <2>2. Cardinality(Tables) \in Nat
    <3>1. IsFiniteSet(DOMAIN tables) /\ Tables \in SUBSET DOMAIN tables
      BY <2>1 DEF Tree, Tables
    <3>2. IsFiniteSet(Tables)
      BY <3>1, FS_Subset
    <3>3. QED
      BY <3>2, FS_CardinalityType
  <2>3. IsSequence(children)
    BY DEF IInv, StateOK
  <2> HIDE DEF C
  <2>4. child.tables = C
    OBVIOUS
  <2> HIDE DEF child
  <2>5. /\ IsSequence(children') /\ Len(children') = Len(children) + 1
        /\ \A i \in 1 .. Len(children) : children'[i] = children[i]
        /\ children'[Len(children) + 1] = child
    BY <1>5, <2>3, AppendSequence
  <2>6. /\ free \in Nat \ {0} /\ free' \in 1 .. Frames + 1
        /\ free + 1 \in Nat \ {0} /\ free <= free + 1 /\ free <= free'
        /\ (free + 1) + Cardinality(Tables) <= Frames + 1
        /\ free' = (free + 1) + Cardinality(Tables)
    BY <1>5, <2>2, ShapeOK DEF Exhausted, IInv, StateOK
  <2>7. Below(tables, free + 1) /\ Below(tables, free')
    BY <2>1, <2>6, BelowLater
  <2>8. Tree(C)
    BY <2>1, <2>6, CopyTree DEF C
  <2>9. Own(C)
    BY <2>1, <2>6, <2>7, CopyOwn DEF C
  <2>10. Below(C, free') /\ SharedIn(tables, C)
    BY <2>1, <2>6, <2>7, CopyRelates DEF C
  <2>11. Apart(tables, C)
    <3>1. Apart(C, tables)
      BY <2>1, <2>6, <2>7, CopyApart DEF C
    <3>2. QED
      BY <3>1, ApartSymmetric
  <2>12. ASSUME NEW i \in 1 .. Len(children)
         PROVE  /\ Below(children[i].tables, free')
                /\ Apart(C, children[i].tables)
                /\ Apart(children[i].tables, C)
    <3> DEFINE D == children[i].tables
    <3>1. Tree(D) /\ Below(D, free) /\ Apart(tables, D)
      BY DEF IInv, TreesOK, ChildOK
    <3> HIDE DEF D
    <3>2. Below(D, free + 1) /\ Below(D, free')
      BY <2>6, <3>1, BelowLater
    <3>3. Apart(C, D)
      BY <2>1, <2>6, <3>1, <3>2, CopyApart DEF C
    <3>4. QED
      BY <3>2, <3>3, ApartSymmetric DEF D
  <2>13. ASSUME NEW i \in 1 .. Len(children') PROVE ChildOK(children[i].tables)'
    <3>1. CASE i \in 1 .. Len(children)
      <4>1. ChildOK(children[i].tables)
        BY <3>1 DEF IInv, TreesOK
      <4>2. children'[i] = children[i] /\ Below(children[i].tables, free')
        BY <2>5, <2>12, <3>1
      <4>3. QED
        BY <1>1, <4>1, <4>2 DEF ChildOK
    <3>2. CASE i = Len(children) + 1
      <4>1. children'[i].tables = C
        BY <2>4, <2>5, <3>2
      <4>2. QED
        BY <1>1, <2>8, <2>9, <2>10, <2>11, <4>1 DEF ChildOK
    <3>3. QED
      BY <2>3, <2>5, <3>1, <3>2 DEF IsSequence
  <2>14. ASSUME NEW i \in 1 .. Len(children'), NEW j \in 1 .. Len(children'),
                i # j
         PROVE  Apart(children'[i].tables, children'[j].tables)
    <3>1. children'[Len(children) + 1].tables = C
      BY <2>4, <2>5
    <3>2. CASE i \in 1 .. Len(children) /\ j \in 1 .. Len(children)
      BY <2>5, <2>14, <3>2 DEF IInv, TreesOK
    <3>3. CASE i \in 1 .. Len(children) /\ j = Len(children) + 1
      BY <2>5, <2>12, <3>1, <3>3
    <3>4. CASE i = Len(children) + 1 /\ j \in 1 .. Len(children)
      BY <2>5, <2>12, <3>1, <3>4
    <3>5. QED
      BY <2>3, <2>5, <2>14, <3>2, <3>3, <3>4 DEF IsSequence
  <2>15. TreesOK'
    BY <1>1, <2>1, <2>7, <2>13, <2>14 DEF TreesOK
  <2>16. Len(children') <= MaxChildren
    BY <1>1, <2>3, <2>5, ShapeOK DEF IsSequence
  <2>17. StateOK'
    BY <1>1, <2>5, <2>6, <2>16 DEF IInv, StateOK
  <2>18. QED
    BY <1>2, <1>3, <2>15, <2>17 DEF IInv
<1>6. QED
  BY <1>1, <1>4, <1>5

(* Nothing happens. *)
LEMMA StutterKeeps ==
    ASSUME IInv, UNCHANGED vars
    PROVE  IInv'
<1>1. UNCHANGED <<tables, data, free, vmas, children, tlb, access, faults,
                  stage, seg, word, snapshot>>
  BY DEF vars
<1>2. QED
  BY <1>1, TreesStay, FaultsStay, StateStays, LoaderStays DEF IInv

(* The invariant is inductive. *)
LEMMA NextKeeps == IInv /\ [Next]_vars => IInv'
<1> SUFFICES ASSUME IInv, [Next]_vars PROVE IInv'
  OBVIOUS
<1>1. CASE Load
  BY <1>1, NextSegmentKeeps, CopyWordKeeps, EnterProgramKeeps DEF Load
<1>2. CASE Handle
  BY <1>2, HangKeeps, MapPageKeeps, BeginCopyKeeps, FinishCopyKeeps DEF Handle
<1>3. CASE Perform
  BY <1>3, PerformKeeps
<1>4. CASE Fault
  BY <1>4, FaultKeeps
<1>5. CASE Fork
  BY <1>5, ForkKeeps
<1>6. ASSUME NEW a \in Accesses, Issue(a) PROVE IInv'
  BY <1>6, IssueKeeps
<1>7. ASSUME NEW p \in DOMAIN tlb, Evict(p) PROVE IInv'
  BY <1>7, EvictKeeps
<1>8. CASE UNCHANGED vars
  BY <1>8, StutterKeeps
<1>9. QED
  BY <1>1, <1>2, <1>3, <1>4, <1>5, <1>6, <1>7, <1>8 DEF Next

(* It holds in every state of the system. *)
LEMMA AlwaysInv == Spec => []IInv
BY InitHolds, NextKeeps, PTL DEF Spec

-----------------------------------------------------------------------------
(* The results *)

(* Every variable keeps its type: tables name frames of the memory, at most  *)
(* two faults are nested, and the loader stays inside the program header.    *)
THEOREM AddressSpaceTypes == Spec => []TypeOK
BY AlwaysInv, InvGivesTypes, PTL

(* The page tables of the program and of every child are trees with frames   *)
(* of their own, however faults, copies, evictions and forks interleave; and *)
(* a frame that is being copied to is in none of them.                       *)
THEOREM TreesNeverMix == Spec => []FramesAreTrees
BY AlwaysInv, InvGivesTrees, PTL

(* A page that a child got from fork is never mapped anew by the program.    *)
THEOREM SharedPagesStay == Spec => []ChildSharesPages
BY AlwaysInv, InvGivesShares, PTL

=============================================================================
