---------------------------- MODULE Shell_proofs ----------------------------
(***************************************************************************)
(* Proofs about sbush (module Shell), for all numbers and sizes of words,  *)
(* all lines, and whatever the words hold at the start: a command gets the *)
(* argument of its own line or, where that has none, what is left of the   *)
(* lines before; and what the lines look like on which it hangs.           *)
(***************************************************************************)
EXTENDS Shell, SequenceTheorems, FiniteSetTheorems, WellFoundedInduction, TLAPS

-----------------------------------------------------------------------------
(* Numbers *)

(* A nonempty set of naturals has a least element.                           *)
LEMMA LeastNatural ==
    ASSUME NEW T, T \subseteq Nat, T # {}
    PROVE  \E x \in T : \A y \in T : x <= y
<1> DEFINE R == OpToRel(<, Nat)
<1>1. IsWellFoundedOn(R, Nat)
  BY NatLessThanWellFounded
<1>2. PICK x \in T : \A y \in T : <<y, x>> \notin R
  BY <1>1, WFMin
<1>3. \A a, b \in Nat : b < a => <<b, a>> \in R
  BY DEF OpToRel
<1> HIDE DEF R
<1>4. \A y \in T : ~ (y < x)
  BY <1>2, <1>3
<1>5. \A y \in T : x <= y
  BY <1>4
<1>6. QED
  BY <1>5

(* and Min is it.                                                            *)
LEMMA MinIs ==
    ASSUME NEW T, T \subseteq Nat, T # {}
    PROVE  Min(T) \in T /\ \A y \in T : Min(T) <= y
<1>1. \E x \in T : \A y \in T : x <= y
  BY LeastNatural
<1>2. QED
  BY <1>1 DEF Min

(* A least element is the minimum.                                           *)
LEMMA MinOf ==
    ASSUME NEW T, T \subseteq Nat, NEW x \in T, \A y \in T : x <= y
    PROVE  Min(T) = x
<1>1. Min(T) \in T /\ Min(T) <= x
  BY MinIs
<1>2. x <= Min(T)
  BY <1>1
<1>3. x \in Nat /\ Min(T) \in Nat
  BY <1>1
<1>4. QED
  BY <1>1, <1>2, <1>3

(* A set that holds zero and the successor of each of its naturals holds     *)
(* every natural.                                                            *)
LEMMA SuccessorsReachAll ==
    ASSUME NEW T, 0 \in T, \A n \in Nat : n \in T => n + 1 \in T
    PROVE  \A n \in Nat : n \in T
<1> SUFFICES ASSUME Nat \ T # {} PROVE FALSE
  OBVIOUS
<1>1. PICK x \in Nat \ T : \A y \in Nat \ T : x <= y
  BY LeastNatural
<1>2. x # 0
  OBVIOUS
<1>3. x - 1 \in Nat /\ x - 1 \notin Nat \ T
  BY <1>1, <1>2
<1>4. x \in T
  BY <1>3
<1>5. QED
  BY <1>4

(* Finitely many naturals have a greatest.                                   *)
LEMMA MaxIs ==
    ASSUME NEW n \in Nat, NEW T \in SUBSET (1 .. n), T # {}
    PROVE  Max(T) \in T /\ \A y \in T : y <= Max(T)
<1> DEFINE D == {n - y : y \in T}
<1>1. D \subseteq Nat /\ D # {}
  <2>1. \A y \in T : y \in 1 .. n
    OBVIOUS
  <2>2. \A y \in T : n - y \in Nat
    BY <2>1
  <2>3. QED
    BY <2>2
<1>2. PICK d \in D : \A e \in D : d <= e
  <2> HIDE DEF D
  <2>1. QED
    BY <1>1, LeastNatural
<1>3. PICK x \in T : d = n - x
  BY <1>2
<1>4. \A y \in T : n - x <= n - y
  BY <1>2, <1>3
<1>5. \A y \in T : x >= y /\ y <= x
  BY <1>4
<1>6. \E z \in T : \A y \in T : z >= y
  BY <1>5
<1>7. Max(T) \in T /\ \A y \in T : Max(T) >= y
  BY <1>6 DEF Max
<1>8. QED
  BY <1>7

-----------------------------------------------------------------------------
(* The words of a line *)

(* The blanks before a place are finitely many.                              *)
LEMMA BeforeIs ==
    ASSUME NEW s, Len(s) \in Nat
    PROVE  /\ IsFiniteSet(Blanks(s)) /\ Cardinality(Blanks(s)) \in Nat /\ Count(s) \in Nat
           /\ \A i : IsFiniteSet(Before(s, i)) /\ Cardinality(Before(s, i)) \in Nat
                     /\ Before(s, i) \subseteq Blanks(s)
<1>1. IsFiniteSet(1 .. Len(s))
  BY FS_Interval
<1>2. IsFiniteSet(Blanks(s))
  BY <1>1, FS_Subset DEF Blanks
<1>3. \A i : Before(s, i) \subseteq Blanks(s)
  BY DEF Before
<1>4. \A i : IsFiniteSet(Before(s, i))
  BY <1>2, <1>3, FS_Subset
<1>5. QED
  BY <1>2, <1>3, <1>4, FS_CardinalityType DEF Count

(* A blank counts for the places behind it.                                  *)
LEMMA BlankCounts ==
    ASSUME NEW s, Len(s) \in Nat, NEW b \in Blanks(s), NEW i \in Int, b < i
    PROVE  Cardinality(Before(s, b)) + 1 <= Cardinality(Before(s, i))
<1>1. b \in Int /\ \A j \in Blanks(s) : j \in Int
  BY DEF Blanks
<1>2. b \notin Before(s, b) /\ Before(s, b) \cup {b} \subseteq Before(s, i)
  <2>1. ~ (b < b)
    BY <1>1
  <2>2. \A j \in Blanks(s) : j < b => j < i
    BY <1>1
  <2>3. QED
    BY <2>1, <2>2 DEF Before
<1>3. Cardinality(Before(s, b) \cup {b}) = Cardinality(Before(s, b)) + 1
  BY <1>2, BeforeIs, FS_AddElement
<1>4. Cardinality(Before(s, b) \cup {b}) <= Cardinality(Before(s, i))
  BY <1>2, BeforeIs, FS_Subset
<1>5. QED
  BY <1>3, <1>4

(* Later places have no fewer blanks before them.                            *)
LEMMA BeforeGrows ==
    ASSUME NEW s, Len(s) \in Nat, NEW i \in Int, NEW j \in Int, i <= j
    PROVE  Cardinality(Before(s, i)) <= Cardinality(Before(s, j))
<1>1. \A b \in Blanks(s) : b \in Int
  BY DEF Blanks
<1>2. Before(s, i) \subseteq Before(s, j)
  BY <1>1 DEF Before
<1>3. QED
  BY <1>2, BeforeIs, FS_Subset

(* Where a word can end.                                                     *)
Places(s) == Blanks(s) \cup {Len(s) + 1}

LEMMA PlacesAre ==
    ASSUME NEW s, Len(s) \in Nat
    PROVE  /\ Places(s) \subseteq 1 .. Len(s) + 1
           /\ Before(s, Len(s) + 1) = Blanks(s)
           /\ \A i \in Places(s) : i # Len(s) + 1 => i \in Blanks(s)
<1>1. \A b \in Blanks(s) : b \in Int /\ b < Len(s) + 1
  BY DEF Blanks
<1>2. QED
  BY <1>1 DEF Places, Before, Blanks

(* Each word has an end.                                                     *)
LEMMA EndExists ==
    ASSUME NEW s, Len(s) \in Nat
    PROVE  \A k \in Nat : k <= Cardinality(Blanks(s))
              => \E i \in Places(s) : Cardinality(Before(s, i)) = k
<1> DEFINE T == {k \in Nat : k <= Cardinality(Blanks(s))
                               => \E i \in Places(s) : Cardinality(Before(s, i)) = k}
<1>1. 0 \in T
  <2>1. Places(s) \subseteq Nat /\ Places(s) # {}
    BY PlacesAre DEF Places
  <2>2. PICK i \in Places(s) : \A j \in Places(s) : i <= j
    BY <2>1, LeastNatural
  <2>3. \A j \in Blanks(s) : j \in Nat /\ i <= j
    BY <2>1, <2>2 DEF Places
  <2>4. i \in Nat
    BY <2>1
  <2>5. Before(s, i) = {}
    BY <2>3, <2>4 DEF Before
  <2>6. Cardinality(Before(s, i)) = 0
    BY <2>5, FS_EmptySet
  <2>7. QED
    BY <2>6
<1>2. ASSUME NEW k \in Nat, k \in T PROVE k + 1 \in T
  <2> SUFFICES ASSUME k + 1 <= Cardinality(Blanks(s))
               PROVE  \E i \in Places(s) : Cardinality(Before(s, i)) = k + 1
    BY <1>2
  <2>1. PICK i \in Places(s) : Cardinality(Before(s, i)) = k
    BY <1>2, BeforeIs
  <2>2. i \in Blanks(s)
    BY <2>1, PlacesAre, BeforeIs
  <2> DEFINE L == {j \in Places(s) : j > i}
  <2>3. L \subseteq Nat /\ L # {} /\ i \in Nat
    <3>1. i \in 1 .. Len(s)
      BY <2>2 DEF Blanks
    <3>2. Len(s) + 1 \in L
      BY <3>1 DEF Places
    <3>3. QED
      BY <3>1, <3>2, PlacesAre
  <2>4. PICK m \in L : \A j \in L : m <= j
    <3> HIDE DEF L
    <3>1. QED
      BY <2>3, LeastNatural
  <2>5. m \in Places(s) /\ m \in Nat /\ m > i
    BY <2>3, <2>4
  <2>6. ASSUME NEW b \in Blanks(s) PROVE b < m <=> b < i \/ b = i
    <3>1. b \in Nat /\ (b > i => m <= b)
      BY <2>4 DEF Blanks, Places
    <3>2. QED
      BY <2>3, <2>5, <3>1
  <2>7. Before(s, m) = Before(s, i) \cup {i}
    BY <2>2, <2>6 DEF Before
  <2>8. i \notin Before(s, i)
    BY <2>3 DEF Before
  <2>9. Cardinality(Before(s, m)) = k + 1
    BY <2>1, <2>7, <2>8, BeforeIs, FS_AddElement
  <2>10. QED
    BY <2>5, <2>9
<1>3. \A k \in Nat : k \in T
  <2> HIDE DEF T
  <2>1. QED
    BY <1>1, <1>2, SuccessorsReachAll
<1>4. QED
  BY <1>3

(* The end of the w-th word.                                                 *)
LEMMA EndIs ==
    ASSUME NEW s, Len(s) \in Nat, NEW w \in 1 .. Count(s)
    PROVE  WordEnd(s, w) \in Places(s) /\ Cardinality(Before(s, WordEnd(s, w))) = w - 1
<1>1. w - 1 \in Nat /\ w - 1 <= Cardinality(Blanks(s))
  BY BeforeIs DEF Count
<1>2. \E i \in Places(s) : Cardinality(Before(s, i)) = w - 1
  BY <1>1, EndExists
<1>3. QED
  BY <1>2 DEF WordEnd, Places

(* Before the end there is no blank in a first word.                         *)
LEMMA FirstWord ==
    ASSUME NEW s, Len(s) \in Nat, NEW j \in Int, j < WordEnd(s, 1)
    PROVE  j \notin Blanks(s)
<1>1. 1 \in 1 .. Count(s)
  BY BeforeIs DEF Count
<1>2. PICK e \in Int : e = WordEnd(s, 1) /\ Cardinality(Before(s, e)) = 0
  BY <1>1, EndIs, PlacesAre
<1>3. Before(s, e) = {}
  BY <1>2, BeforeIs, FS_EmptySet
<1>4. QED
  BY <1>2, <1>3 DEF Before

(* The words follow one another, a blank between them.                       *)
LEMMA NextWord ==
    ASSUME NEW s, Len(s) \in Nat, NEW w \in Nat \ {0}, w + 1 <= Count(s)
    PROVE  /\ WordEnd(s, w) \in Blanks(s) /\ WordEnd(s, w) < WordEnd(s, w + 1)
           /\ \A j \in Int : WordEnd(s, w) < j /\ j < WordEnd(s, w + 1) => j \notin Blanks(s)
<1>1. w \in 1 .. Count(s) /\ w + 1 \in 1 .. Count(s)
  BY BeforeIs
<1>2. PICK e, f \in 1 .. Len(s) + 1 :
        /\ e = WordEnd(s, w) /\ e \in Places(s) /\ Cardinality(Before(s, e)) = w - 1
        /\ f = WordEnd(s, w + 1) /\ Cardinality(Before(s, f)) = w
  <2>1. (w + 1) - 1 = w
    OBVIOUS
  <2>2. QED
    BY <1>1, <2>1, EndIs, PlacesAre
<1>3. e \in Blanks(s)
  <2>1. Cardinality(Before(s, e)) # Cardinality(Blanks(s))
    BY <1>2, BeforeIs DEF Count
  <2>2. QED
    BY <1>2, <2>1, PlacesAre
<1>4. e < f
  <2>1. CASE f <= e
    <3>1. Cardinality(Before(s, f)) <= Cardinality(Before(s, e))
      BY <2>1, BeforeGrows
    <3>2. QED
      BY <1>2, <3>1
  <2>2. QED
    BY <2>1
<1>5. ASSUME NEW j \in Int, e < j, j < f, j \in Blanks(s) PROVE FALSE
  <2>1. Cardinality(Before(s, e)) + 1 <= Cardinality(Before(s, j))
    BY <1>3, <1>5, BlankCounts
  <2>2. Cardinality(Before(s, j)) + 1 <= Cardinality(Before(s, f))
    BY <1>5, BlankCounts
  <2>3. Cardinality(Before(s, j)) \in Nat
    BY BeforeIs
  <2>4. QED
    BY <1>2, <2>1, <2>2, <2>3
<1>6. QED
  BY <1>2, <1>3, <1>4, <1>5

(* The w-th word, its length and its characters; none of them is a blank.    *)
LEMMA WordIs ==
    ASSUME NEW S, NEW s \in Seq(S), NEW w \in 1 .. Count(s)
    PROVE  \E a, e \in 1 .. Len(s) + 1 :
              /\ a = WordStart(s, w) /\ e = WordEnd(s, w) /\ a <= e /\ e \in Places(s)
              /\ Word(s, w) \in Seq(S) /\ Len(Word(s, w)) = e - a
              /\ \A i \in 1 .. e - a : Word(s, w)[i] = s[a + i - 1]
              /\ \A j \in a .. e - 1 : j \in 1 .. Len(s) /\ s[j] # Space
<1>1. Len(s) \in Nat
  BY LenProperties
<1>2. PICK e \in 1 .. Len(s) + 1 : e = WordEnd(s, w) /\ e \in Places(s)
  BY <1>1, EndIs, PlacesAre
<1>3. PICK a \in 1 .. Len(s) + 1 :
        /\ a = WordStart(s, w) /\ a <= e
        /\ \A j \in a .. e - 1 : j \notin Blanks(s)
  <2>1. CASE w = 1
    <3>1. \A j \in 1 .. e - 1 : j \notin Blanks(s)
      BY <1>1, <1>2, <2>1, FirstWord
    <3>2. WordStart(s, w) = 1 /\ 1 \in 1 .. Len(s) + 1 /\ 1 <= e
      BY <1>1, <1>2, <2>1 DEF WordStart
    <3>3. QED
      BY <3>1, <3>2
  <2>2. CASE w # 1
    <3>1. PICK v \in Nat \ {0} : v = w - 1 /\ v + 1 = w /\ v + 1 <= Count(s)
      BY <1>1, <2>2, BeforeIs
    <3>2. PICK d \in Blanks(s) : d = WordEnd(s, v) /\ d < e
      BY <1>1, <1>2, <3>1, NextWord
    <3>3. \A j \in Int : d < j /\ j < e => j \notin Blanks(s)
      BY <1>1, <1>2, <3>1, <3>2, NextWord
    <3>4. d \in 1 .. Len(s)
      BY <3>2 DEF Blanks
    <3>5. \A j \in d + 1 .. e - 1 : j \notin Blanks(s)
      BY <1>2, <3>3, <3>4
    <3>6. WordStart(s, w) = d + 1 /\ d + 1 \in 1 .. Len(s) + 1 /\ d + 1 <= e
      BY <1>1, <1>2, <2>2, <3>1, <3>2, <3>4 DEF WordStart
    <3>7. QED
      BY <3>5, <3>6
  <2>3. QED
    BY <2>1, <2>2
<1>4. ASSUME NEW j \in a .. e - 1 PROVE j \in 1 .. Len(s) /\ s[j] # Space
  <2>1. j \in 1 .. Len(s)
    BY <1>1
  <2>2. QED
    BY <1>3, <2>1 DEF Blanks
<1>5. Word(s, w) = SubSeq(s, a, e - 1)
  BY <1>2, <1>3 DEF Word
<1>6. /\ SubSeq(s, a, e - 1) \in Seq(S)
      /\ Len(SubSeq(s, a, e - 1)) = e - a
      /\ \A i \in 1 .. e - a : SubSeq(s, a, e - 1)[i] = s[a + i - 1]
  <2>1. PICK d \in Int : d = e - 1
    BY <1>1
  <2>2. a \in 1 .. Len(s) + 1 /\ d \in a - 1 .. Len(s)
    BY <1>1, <1>3, <2>1
  <2>3. /\ SubSeq(s, a, d) \in Seq(S)
        /\ Len(SubSeq(s, a, d)) = IF a <= d THEN d - a + 1 ELSE 0
        /\ \A i \in 1 .. d - a + 1 : SubSeq(s, a, d)[i] = s[a + i - 1]
    BY <2>2, SubSeqProperties
  <2>4. (IF a <= d THEN d - a + 1 ELSE 0) = e - a /\ d - a + 1 = e - a
    BY <1>1, <1>3, <2>1
  <2>5. QED
    BY <2>1, <2>3, <2>4
<1>7. /\ Word(s, w) \in Seq(S) /\ Len(Word(s, w)) = e - a
      /\ \A i \in 1 .. e - a : Word(s, w)[i] = s[a + i - 1]
  BY <1>5, <1>6
<1>8. a = WordStart(s, w) /\ e = WordEnd(s, w) /\ a <= e /\ e \in Places(s)
  BY <1>2, <1>3
<1>9. QED
  BY <1>4, <1>7, <1>8, Zenon

(* The same, of all lines.                                                   *)
AreWords(S) == \A x \in Seq(S) : \A w \in 1 .. Count(x) : \E a, e \in 1 .. Len(x) + 1 :
              /\ a = WordStart(x, w) /\ e = WordEnd(x, w) /\ a <= e /\ e \in Places(x)
              /\ Word(x, w) \in Seq(S) /\ Len(Word(x, w)) = e - a
              /\ \A i \in 1 .. e - a : Word(x, w)[i] = x[a + i - 1]
              /\ \A j \in a .. e - 1 : j \in 1 .. Len(x) /\ x[j] # Space

(* WordIs says so for every set of characters.                               *)
LEMMA WordsAre == \A S : AreWords(S)
BY WordIs DEF AreWords

(* Every character that is no blank is in a word; behind a blank, in one but *)
(* the first.                                                                *)
LEMMA InAWord ==
    ASSUME NEW S, NEW s \in Seq(S), NEW p \in 1 .. Len(s), s[p] # Space
    PROVE  \E w \in 1 .. Count(s) : \E i \in 1 .. Len(Word(s, w)) :
              /\ Word(s, w)[i] = s[p]
              /\ (\E b \in Blanks(s) : b < p) => w # 1
<1>1. Len(s) \in Nat /\ p \in Nat
  BY LenProperties
<1>2. p \notin Blanks(s)
  BY DEF Blanks
<1>3. PICK w \in 1 .. Count(s) : w = Cardinality(Before(s, p)) + 1
  <2>1. Cardinality(Before(s, p)) <= Cardinality(Blanks(s))
    BY <1>1, BeforeIs, FS_Subset
  <2>2. QED
    BY <1>1, <2>1, BeforeIs DEF Count
<1>4. PICK a, e \in 1 .. Len(s) + 1 :
        /\ a = WordStart(s, w) /\ e = WordEnd(s, w) /\ a <= e /\ e \in Places(s)
        /\ Len(Word(s, w)) = e - a
        /\ \A i \in 1 .. e - a : Word(s, w)[i] = s[a + i - 1]
  BY WordIs
<1>5. p < e
  <2>1. Cardinality(Before(s, e)) = w - 1
    BY <1>1, <1>4, EndIs
  <2>2. e # p
    BY <1>1, <1>2, <1>4 DEF Places
  <2>3. CASE e < p
    <3>1. e \in Blanks(s)
      BY <1>1, <1>4, <2>3, PlacesAre
    <3>2. Cardinality(Before(s, e)) + 1 <= Cardinality(Before(s, p))
      BY <1>1, <2>3, <3>1, BlankCounts
    <3>3. QED
      BY <1>1, <1>3, <2>1, <3>2, BeforeIs
  <2>4. QED
    BY <1>1, <2>2, <2>3
<1>6. a <= p
  <2>1. CASE w = 1
    BY <1>1, <1>4, <2>1 DEF WordStart
  <2>2. CASE w # 1
    <3>1. PICK v \in 1 .. Count(s) : v = w - 1
      BY <1>1, <2>2, BeforeIs
    <3>2. PICK d \in 1 .. Len(s) + 1 : d = WordEnd(s, v) /\ Cardinality(Before(s, d)) = v - 1
      BY <1>1, EndIs, PlacesAre
    <3>3. CASE p <= d
      <4>1. Cardinality(Before(s, p)) <= Cardinality(Before(s, d))
        BY <1>1, <3>3, BeforeGrows
      <4>2. Cardinality(Before(s, p)) = v
        <5>1. PICK k \in Nat : k = Cardinality(Before(s, p))
          BY <1>1, BeforeIs
        <5>2. v = k
          BY <1>3, <3>1, <5>1
        <5>3. QED
          BY <5>1, <5>2
      <4>3. v <= v - 1
        BY <3>2, <4>1, <4>2
      <4>4. v \in Int
        OBVIOUS
      <4>5. QED
        BY <4>3, <4>4
    <3>4. CASE d < p
      BY <1>1, <1>4, <2>2, <3>1, <3>2, <3>4 DEF WordStart
    <3>5. QED
      BY <1>1, <3>3, <3>4
  <2>3. QED
    BY <2>1, <2>2
<1>7. PICK i \in 1 .. e - a : i = p - a + 1 /\ a + i - 1 = p
  BY <1>1, <1>5, <1>6
<1>8. (\E b \in Blanks(s) : b < p) => w # 1
  <2>1. ASSUME NEW b \in Blanks(s), b < p PROVE w # 1
    <3>1. Cardinality(Before(s, b)) + 1 <= Cardinality(Before(s, p))
      BY <1>1, <2>1, BlankCounts
    <3>2. QED
      BY <1>1, <1>3, <3>1, BeforeIs
  <2>2. QED
    BY <2>1
<1>9. QED
  BY <1>4, <1>7, <1>8
-----------------------------------------------------------------------------
(* Lines are strings, and so are their words.                                *)
Text == Char \ {Nul}

LEMMA WordsAreText ==
    ASSUME NEW s \in Lines
    PROVE  /\ s \in Seq(Text) /\ Len(s) \in Nat /\ Count(s) \in Nat /\ Count(s) >= 1
           /\ \A w \in 1 .. Count(s) : Word(s, w) \in Seq(Text) /\ Len(Word(s, w)) \in Nat
                                       /\ Len(Word(s, w)) <= Len(s)
<1>1. s \in Seq(Text)
  BY ShellOK DEF ShellOK, Text
<1>2. Len(s) \in Nat
  BY <1>1, LenProperties
<1>3. Count(s) \in Nat /\ Count(s) >= 1
  BY <1>2, BeforeIs DEF Count
<1>4. ASSUME NEW w \in 1 .. Count(s)
      PROVE  Word(s, w) \in Seq(Text) /\ Len(Word(s, w)) \in Nat /\ Len(Word(s, w)) <= Len(s)
  <2>1. PICK a, e \in 1 .. Len(s) + 1 :
          a <= e /\ Word(s, w) \in Seq(Text) /\ Len(Word(s, w)) = e - a
    <3>1. AreWords(Text)
      BY WordsAre
    <3>2. QED
      BY <1>1, <3>1 DEF AreWords
  <2>2. e - a \in Nat /\ e - a <= Len(s)
    BY <1>2, <2>1
  <2>3. QED
    BY <2>1, <2>2
<1>5. QED
  BY <1>1, <1>2, <1>3, <1>4

-----------------------------------------------------------------------------
(* The rows and their cells                                                  *)

Rows == 0 .. Words - 1
Size == Words * Room

LEMMA Sizes == Words \in Nat /\ Words > 1 /\ Room \in Nat /\ Room > 0
BY ShellOK DEF ShellOK

(* Every row lies in the array; the second starts at cell Room.              *)
LEMMA RowsAre ==
    /\ Size \in Nat /\ Cells = 0 .. Size - 1 /\ 0 \in Rows /\ 1 \in Rows
    /\ 0 * Room = 0 /\ 1 * Room = Room /\ 0 \in Cells /\ Room \in Cells /\ Room + Room <= Size
    /\ \A r \in Rows : r * Room \in Nat /\ r * Room < Size
<1>1. Size \in Nat /\ Cells = 0 .. Size - 1
  BY Sizes DEF Size, Cells
<1>2. ASSUME NEW r \in Rows PROVE r * Room \in Nat /\ r * Room + Room <= Size
  <2>1. PICK k \in Nat : Words = r + k + 1 /\ r \in Nat
    <3>1. PICK k \in Nat : k = Words - 1 - r
      BY Sizes DEF Rows
    <3>2. QED
      BY <3>1, Sizes DEF Rows
  <2>2. PICK x, y \in Nat : x = r * Room /\ y = k * Room
    BY <2>1, Sizes
  <2>3. Size = x + y + Room
    BY <2>1, <2>2, Sizes DEF Size
  <2>4. QED
    BY <2>2, <2>3, Sizes
<1>3. 0 \in Rows /\ 1 \in Rows /\ 0 * Room = 0 /\ 1 * Room = Room
  BY Sizes DEF Rows
<1>4. Room + Room <= Size
  BY <1>2, <1>3
<1>5. 0 \in Cells /\ Room \in Cells
  BY <1>1, <1>4, Sizes
<1>6. \A r \in Rows : r * Room \in Nat /\ r * Room < Size
  <2>1. ASSUME NEW r \in Rows PROVE r * Room \in Nat /\ r * Room < Size
    <3>1. PICK x \in Nat : x = r * Room /\ x + Room <= Size
      BY <1>2
    <3>2. QED
      BY <1>1, <3>1, Sizes
  <2>2. QED
    BY <2>1
<1>7. QED
  BY <1>1, <1>3, <1>4, <1>5, <1>6

-----------------------------------------------------------------------------
(* splitString: all words at once                                            *)

(* The words of s with a number in T that are laid over cell a, '\0' and     *)
(* all; the last of them stays.                                              *)
Over(s, T, a) == {w \in T : a - (w - 1) * Room \in 0 .. Len(Word(s, w))}
Letter(s, w, a) == LET i == a - (w - 1) * Room
                   IN  IF i = Len(Word(s, w)) THEN Nul ELSE Word(s, w)[i + 1]
Laid(b, s, T) == [a \in Cells |-> IF Over(s, T, a) = {} THEN b[a]
                                  ELSE Letter(s, Max(Over(s, T, a)), a)]

(* A greatest element is the maximum.                                        *)
LEMMA MaxOf ==
    ASSUME NEW n \in Nat, NEW T \in SUBSET (1 .. n), NEW x \in T, \A y \in T : y <= x
    PROVE  Max(T) = x
<1>1. PICK m \in T : m = Max(T) /\ x <= m
  BY MaxIs
<1>2. m <= x /\ m \in Nat /\ x \in Nat
  OBVIOUS
<1>3. m = x
  BY <1>1, <1>2
<1>4. QED
  BY <1>1, <1>3

(* copyString lays one word more over the others.                            *)
LEMMA LaidNext ==
    ASSUME NEW b, NEW s \in Lines, NEW T \in SUBSET (1 .. Count(s)), NEW x \in T,
           \A y \in T : y <= x, NEW c,
           \A a \in Cells : c[a] = Laid(b, s, T \ {x})[a]
    PROVE  copyString(c, x - 1, Word(s, x)) = Laid(b, s, T)
<1>1. x \in 1 .. Count(s) /\ Count(s) \in Nat /\ Len(Word(s, x)) \in Nat
  BY WordsAreText
<1>0. PICK f : f = copyString(c, x - 1, Word(s, x))
  OBVIOUS
<1>2. PICK n, p \in Nat : n = Len(Word(s, x)) /\ p = (x - 1) * Room
  <2>1. PICK v \in Nat : v = x - 1
    BY <1>1
  <2>2. (x - 1) * Room \in Nat
    BY <2>1, Sizes
  <2>3. QED
    BY <1>1, <2>2
<1>3. ASSUME NEW a \in Cells PROVE f[a] = Laid(b, s, T)[a]
  <2>1. PICK k \in Int : k = a - p
    BY <1>2, RowsAre
  <2>2. f[a] = IF k + 1 \in 1 .. n THEN Word(s, x)[k + 1]
               ELSE IF k + 1 = n + 1 THEN Nul ELSE c[a]
    BY <1>0, <1>2, <2>1 DEF copyString
  <2>3. PICK V \in SUBSET (1 .. Count(s)) : V = Over(s, T, a)
    BY DEF Over
  <2>4. Laid(b, s, T)[a] = IF V = {} THEN b[a] ELSE Letter(s, Max(V), a)
    BY <2>3 DEF Laid
  <2>5. CASE k \in 0 .. n
    <3>1. x \in V
      BY <1>2, <2>1, <2>3, <2>5 DEF Over
    <3>2. \A y \in V : y <= x
      BY <2>3 DEF Over
    <3>3. Max(V) = x
      BY <1>1, <3>1, <3>2, MaxOf
    <3>4. Laid(b, s, T)[a] = IF k = n THEN Nul ELSE Word(s, x)[k + 1]
      BY <1>2, <2>1, <2>4, <3>1, <3>3 DEF Letter
    <3>5. CASE k = n
      <4>1. ~ (k + 1 \in 1 .. n) /\ k + 1 = n + 1
        BY <3>5
      <4>2. QED
        BY <2>2, <3>4, <3>5, <4>1
    <3>6. CASE k # n
      <4>1. k + 1 \in 1 .. n
        BY <2>5, <3>6
      <4>2. QED
        BY <2>2, <3>4, <3>6, <4>1
    <3>7. QED
      BY <3>5, <3>6
  <2>6. CASE k \notin 0 .. n
    <3>1. ~ (k + 1 \in 1 .. n) /\ k + 1 # n + 1
      BY <2>6
    <3>2. f[a] = c[a]
      BY <2>2, <3>1
    <3>3. x \notin V
      BY <1>2, <2>1, <2>3, <2>6 DEF Over
    <3>4. V = Over(s, T \ {x}, a)
      BY <2>3, <3>3 DEF Over
    <3>5. Laid(b, s, T \ {x})[a] = IF V = {} THEN b[a] ELSE Letter(s, Max(V), a)
      BY <3>4 DEF Laid
    <3>6. QED
      BY <2>4, <3>2, <3>5
  <2>7. QED
    BY <2>5, <2>6
<1>4. /\ f = [a \in Cells |-> f[a]]
      /\ Laid(b, s, T) = [a \in Cells |-> Laid(b, s, T)[a]]
  BY <1>0 DEF copyString, Laid
<1>5. f = Laid(b, s, T)
  BY <1>3, <1>4
<1>6. QED
  BY <1>0, <1>5

(* What splitString leaves in the rows.                                      *)
LEMMA SplitIs ==
    ASSUME NEW b, NEW s \in Lines
    PROVE  Split(b, s) = Laid(b, s, 1 .. Count(s))
<1> DEFINE N == 1 .. Count(s)
           seq == [w \in N |-> w]
           F(g, T) == IF T = {} THEN b
                      ELSE copyString(g[T \ {Max(T)}], seq[Max(T)] - 1, Word(s, seq[Max(T)]))
           iter == CHOOSE g : g = [T \in SUBSET N |-> F(g, T)]
           G == [T \in SUBSET N |-> IF T = {} THEN b ELSE Laid(b, s, T)]
<1>1. Split(b, s) = iter[N]
  BY DEF Split, FoldLeft, MapThenFoldSet
<1> HIDE DEF iter
<1>2. Count(s) \in Nat /\ Count(s) > 0
  BY WordsAreText
<1>3. \A T \in SUBSET N : T # {} => Max(T) \in T /\ \A y \in T : y <= Max(T)
  BY <1>2, MaxIs
<1>4. ASSUME NEW T \in SUBSET N, T # {}, NEW c,
             \A a \in Cells : c[a] = Laid(b, s, T \ {Max(T)})[a]
      PROVE  copyString(c, seq[Max(T)] - 1, Word(s, seq[Max(T)])) = Laid(b, s, T)
  <2>1. PICK x \in T : x = Max(T) /\ seq[x] = x /\ \A y \in T : y <= x
    BY <1>3, <1>4
  <2>2. copyString(c, x - 1, Word(s, x)) = Laid(b, s, T)
    BY <1>4, <2>1, LaidNext
  <2>3. QED
    BY <2>1, <2>2
<1>5. \A a \in Cells : b[a] = Laid(b, s, {})[a]
  BY DEF Laid, Over
<1>6. G = [T \in SUBSET N |-> F(G, T)]
  <2>1. ASSUME NEW T \in SUBSET N PROVE G[T] = F(G, T)
    <3>1. CASE T = {}
      BY <3>1
    <3>2. CASE T # {}
      <4>1. PICK t \in SUBSET N : t = T \ {Max(T)}
        OBVIOUS
      <4>2. \A a \in Cells : G[t][a] = Laid(b, s, t)[a]
        BY <1>5
      <4>3. F(G, T) = Laid(b, s, T)
        BY <1>4, <3>2, <4>1, <4>2
      <4>4. QED
        BY <3>2, <4>3
    <3>3. QED
      BY <3>1, <3>2
  <2>2. QED
    BY <2>1
<1>7. iter = [T \in SUBSET N |-> F(iter, T)]
  <2>1. \E g : g = [T \in SUBSET N |-> F(g, T)]
    BY <1>6
  <2>2. QED
    BY <2>1 DEF iter
<1> DEFINE Agree(T) == \A a \in Cells : iter[T][a] = Laid(b, s, T)[a]
           K == {k \in Nat : \A T \in SUBSET N : T \subseteq 1 .. k => Agree(T)}
<1>8. Agree({})
  BY <1>5, <1>7
<1>9. 0 \in K
  BY <1>8
<1>10. ASSUME NEW k \in Nat, k \in K PROVE k + 1 \in K
  <2>1. ASSUME NEW T \in SUBSET N, T \subseteq 1 .. k + 1, T # {}
        PROVE  Agree(T)
    <3>1. PICK x \in T : x = Max(T) /\ \A y \in T : y <= x
      BY <1>3, <2>1
    <3>2. PICK t \in SUBSET N : t = T \ {x}
      OBVIOUS
    <3>3. t \subseteq 1 .. k
      <4>1. ASSUME NEW y \in t PROVE y \in 1 .. k
        BY <2>1, <3>1, <3>2
      <4>2. QED
        BY <4>1
    <3>4. Agree(t)
      BY <1>10, <3>3
    <3>5. iter[T] = copyString(iter[t], seq[x] - 1, Word(s, seq[x]))
      BY <1>7, <2>1, <3>1, <3>2
    <3>6. iter[T] = Laid(b, s, T)
      BY <1>4, <2>1, <3>1, <3>2, <3>4, <3>5
    <3>7. QED
      BY <3>6
  <2>2. ASSUME NEW T \in SUBSET N, T \subseteq 1 .. k + 1
        PROVE  Agree(T)
    <3>1. CASE T = {}
      BY <1>8, <3>1
    <3>2. CASE T # {}
      BY <2>1, <2>2, <3>2
    <3>3. QED
      BY <3>1, <3>2
  <2>3. QED
    BY <2>2
<1>11. \A k \in Nat : k \in K
  <2> HIDE DEF K
  <2>1. QED
    BY <1>9, <1>10, SuccessorsReachAll
<1>12. PICK x \in N : x = Max(N)
  BY <1>2, <1>3
<1>13. PICK t \in SUBSET N : t = N \ {x}
  OBVIOUS
<1>14. Agree(t)
  <2>1. t \subseteq 1 .. Count(s)
    BY <1>13
  <2>2. QED
    BY <1>2, <1>11, <2>1
<1>15. iter[N] = Laid(b, s, N)
  <2>1. iter[N] = copyString(iter[t], seq[x] - 1, Word(s, seq[x]))
    BY <1>7, <1>12, <1>13
  <2>2. QED
    BY <1>4, <1>12, <1>13, <1>14, <2>1
<1>16. QED
  BY <1>1, <1>15

-----------------------------------------------------------------------------
(* Parts of strings                                                          *)

LEMMA UptoIs ==
    ASSUME NEW S, NEW B \in Seq(S), NEW u \in Seq(S), NEW ends, Len(u) <= Len(B),
           \A i \in 1 .. Len(u) : u[i] = B[i] /\ B[i] \notin ends,
           Len(u) = Len(B) \/ B[Len(u) + 1] \in ends
    PROVE  Upto(B, ends) = u
<1>1. PICK k \in Nat : k = Len(u)
  BY LenProperties
<1>2. PICK m \in Nat : m = Len(B) /\ k <= m
  BY <1>1, LenProperties
<1> DEFINE n == {i \in 1 .. m : B[i] \in ends}
<1>3. ASSUME NEW i \in n PROVE i > k /\ i \in Nat
  BY <1>1, <1>2
<1>4. /\ SubSeq(B, 1, k) \in Seq(S) /\ Len(SubSeq(B, 1, k)) = k
      /\ \A i \in 1 .. k : SubSeq(B, 1, k)[i] = B[i]
  <2>1. /\ SubSeq(B, 1, k) \in Seq(S)
        /\ Len(SubSeq(B, 1, k)) = IF 1 <= k THEN k - 1 + 1 ELSE 0
        /\ \A i \in 1 .. k - 1 + 1 : SubSeq(B, 1, k)[i] = B[1 + i - 1]
    <3>1. 1 \in 1 .. Len(B) + 1 /\ k \in 1 - 1 .. Len(B)
      BY <1>1, <1>2
    <3>2. QED
      BY <3>1, SubSeqProperties
  <2>2. k - 1 + 1 = k /\ \A i \in 1 .. k : 1 + i - 1 = i
    BY <1>1
  <2>3. QED
    BY <1>1, <2>1, <2>2
<1>5. SubSeq(B, 1, k) = u
  BY <1>1, <1>4, SeqEqual
<1>6. CASE n = {}
  <2>1. k = m
    <3>1. CASE k # m
      <4>1. k + 1 \in n
        BY <1>1, <1>2, <3>1
      <4>2. QED
        BY <1>6, <4>1
    <3>2. QED
      BY <3>1
  <2>2. B = u
    BY <1>1, <1>2, <2>1, SeqEqual
  <2>3. Upto(B, ends) = B
    BY <1>2, <1>6 DEF Upto
  <2>4. QED
    BY <2>2, <2>3
<1>7. CASE n # {}
  <2>1. k + 1 \in n
    <3>1. PICK i \in n : i > k /\ i \in 1 .. m
      BY <1>3, <1>7
    <3>2. k # m
      BY <1>1, <1>2, <3>1
    <3>3. QED
      BY <1>1, <1>2, <3>2
  <2>2. n \subseteq Nat /\ \A i \in n : k + 1 <= i
    BY <1>1, <1>3
  <2>3. n = {i \in 1 .. Len(B) : B[i] \in ends}
    BY <1>2
  <2> HIDE DEF n
  <2>4. Min(n) = k + 1
    BY <2>1, <2>2, MinOf
  <2>5. Min(n) - 1 = k
    BY <1>1, <2>4
  <2>6. Upto(B, ends) = SubSeq(B, 1, Min(n) - 1)
    BY <1>7, <2>3 DEF Upto
  <2>7. QED
    BY <1>5, <2>5, <2>6
<1>8. QED
  BY <1>6, <1>7

(* The second word starts behind the first blank.                            *)
LEMMA BehindIs ==
    ASSUME NEW S, NEW s \in Seq(S), Blanks(s) # {}
    PROVE  /\ 2 \in 1 .. Count(s) /\ Behind(s) \in Seq(S) /\ Word(s, 2) \in Seq(S)
           /\ Len(Word(s, 2)) <= Len(Behind(s))
           /\ \A i \in 1 .. Len(Word(s, 2)) : Word(s, 2)[i] = Behind(s)[i] /\ Behind(s)[i] # Space
           /\ Len(Word(s, 2)) = Len(Behind(s)) \/ Behind(s)[Len(Word(s, 2)) + 1] = Space
           /\ \A p \in 1 .. Len(Behind(s)) : \E q \in 1 .. Len(s), b \in Blanks(s) :
                 b < q /\ s[q] = Behind(s)[p]
<1>1. PICK l \in Nat : l = Len(s)
  BY LenProperties
<1>2. 2 \in 1 .. Count(s) /\ 1 \in 1 .. Count(s)
  <2>1. Cardinality(Blanks(s)) # 0
    BY <1>1, BeforeIs, FS_EmptySet
  <2>2. QED
    BY <1>1, <2>1, BeforeIs DEF Count
<1>3. PICK a, e \in 1 .. l + 1 :
        /\ a = WordStart(s, 2) /\ e = WordEnd(s, 2) /\ a <= e /\ e \in Places(s)
        /\ Word(s, 2) \in Seq(S) /\ Len(Word(s, 2)) = e - a
        /\ \A i \in 1 .. e - a : Word(s, 2)[i] = s[a + i - 1]
        /\ \A j \in a .. e - 1 : j \in 1 .. Len(s) /\ s[j] # Space
  <2>1. AreWords(S)
    BY WordsAre
  <2>2. QED
    BY <1>1, <1>2, <2>1 DEF AreWords
<1>4. PICK m \in Blanks(s) : m = WordEnd(s, 1) /\ a = m + 1
  <2>1. 1 + 1 = 2 /\ 2 <= Count(s) /\ 2 - 1 = 1
    BY <1>1, <1>2, BeforeIs
  <2>2. WordEnd(s, 1) \in Blanks(s)
    BY <1>1, <2>1, NextWord
  <2>3. QED
    BY <1>3, <2>1, <2>2 DEF WordStart
<1>5. m \in 1 .. l
  BY <1>1, <1>4 DEF Blanks
<1>6. Min(Blanks(s)) = m
  <2>1. \A b \in Blanks(s) : b \in Nat
    BY DEF Blanks
  <2>2. \A j \in Int : j < m => j \notin Blanks(s)
    BY <1>1, <1>4, FirstWord
  <2>3. \A b \in Blanks(s) : m <= b
    BY <1>5, <2>1, <2>2
  <2>4. Blanks(s) \subseteq Nat
    BY <2>1
  <2>5. QED
    BY <2>3, <2>4, MinOf
<1>7. PICK B : B = Behind(s) /\ B = SubSeq(s, a, l)
  BY <1>1, <1>4, <1>6 DEF Behind
<1>8. B \in Seq(S) /\ Len(B) = l - m /\ \A i \in 1 .. l - m : B[i] = s[m + i]
  <2>1. a \in 1 .. Len(s) + 1 /\ l \in a - 1 .. Len(s)
    BY <1>1, <1>4, <1>5
  <2>2. /\ B \in Seq(S) /\ Len(B) = IF a <= l THEN l - a + 1 ELSE 0
        /\ \A i \in 1 .. l - a + 1 : B[i] = s[a + i - 1]
    BY <1>7, <2>1, SubSeqProperties
  <2>3. l - a + 1 = l - m /\ (IF a <= l THEN l - a + 1 ELSE 0) = l - m
    BY <1>1, <1>4, <1>5
  <2>4. \A i \in 1 .. l - m : a + i - 1 = m + i
    BY <1>1, <1>4, <1>5
  <2>5. QED
    BY <2>2, <2>3, <2>4
<1>9. PICK k \in Nat : k = e - a /\ k = Len(Word(s, 2)) /\ m + k + 1 = e /\ k <= l - m
                     /\ e <= l + 1
  <2>1. a <= e /\ e <= l + 1 /\ a = m + 1 /\ m \in Nat /\ e \in Nat
    BY <1>3, <1>4, <1>5
  <2>2. PICK k \in Nat : k = e - a
    BY <2>1
  <2>3. m + k + 1 = e /\ k <= l - m
    BY <2>1, <2>2
  <2>4. QED
    BY <1>3, <2>1, <2>2, <2>3
<1>10. ASSUME NEW i \in 1 .. k PROVE Word(s, 2)[i] = B[i] /\ B[i] # Space
  <2>1. a + i - 1 = m + i /\ m + i \in a .. e - 1 /\ i \in 1 .. l - m
    <3>1. a = m + 1 /\ m \in Nat /\ e = m + k + 1 /\ k <= l - m
      BY <1>4, <1>5, <1>9
    <3>2. QED
      BY <3>1
  <2>2. QED
    BY <1>3, <1>8, <1>9, <2>1
<1>11. k = l - m \/ B[k + 1] = Space
  <2>1. CASE e = l + 1
    BY <1>1, <1>5, <1>9, <2>1
  <2>2. CASE e # l + 1
    <3>1. e \in Blanks(s)
      BY <1>1, <1>3, <2>2 DEF Places
    <3>2. s[e] = Space
      BY <3>1 DEF Blanks
    <3>3. k + 1 \in 1 .. l - m /\ m + (k + 1) = e
      <4>1. e = m + k + 1 /\ e <= l + 1 /\ e # l + 1 /\ m \in Nat
        BY <1>5, <1>9, <2>2
      <4>2. QED
        BY <4>1
    <3>4. QED
      BY <1>8, <3>2, <3>3
  <2>3. QED
    BY <2>1, <2>2
<1>12. ASSUME NEW p \in 1 .. l - m
       PROVE  \E q \in 1 .. l, b \in Blanks(s) : b < q /\ s[q] = B[p]
  <2>1. m + p \in 1 .. l /\ m < m + p
    BY <1>1, <1>5
  <2>2. QED
    BY <1>4, <1>8, <2>1
<1>13. /\ Behind(s) \in Seq(S) /\ Len(Behind(s)) = l - m /\ Len(Word(s, 2)) = k
       /\ Word(s, 2) \in Seq(S)
  BY <1>3, <1>7, <1>8, <1>9
<1>14. QED
  BY <1>1, <1>2, <1>7, <1>9, <1>10, <1>11, <1>12, <1>13
(* and Upto has what it says.                                                *)
LEMMA UptoHolds ==
    ASSUME NEW S, NEW B \in Seq(S), NEW ends
    PROVE  LET u == Upto(B, ends)
           IN  /\ u \in Seq(S) /\ Len(u) \in Nat /\ Len(u) <= Len(B)
               /\ \A i \in 1 .. Len(u) : u[i] = B[i] /\ B[i] \notin ends
               /\ Len(u) = Len(B) \/ B[Len(u) + 1] \in ends
<1>1. PICK m \in Nat : m = Len(B)
  BY LenProperties
<1> DEFINE n == {i \in 1 .. m : B[i] \in ends}
<1>2. CASE n = {}
  <2>1. Upto(B, ends) = B
    BY <1>1, <1>2 DEF Upto
  <2>2. \A i \in 1 .. m : B[i] \notin ends
    BY <1>2
  <2>3. QED
    BY <1>1, <2>1, <2>2
<1>3. CASE n # {}
  <2>1. n \subseteq Nat
    OBVIOUS
  <2>2. Upto(B, ends) = SubSeq(B, 1, Min(n) - 1)
    BY <1>1, <1>3 DEF Upto
  <2>3. PICK x \in n : x = Min(n) /\ \A y \in n : x <= y
    <3> HIDE DEF n
    <3>1. QED
      BY <1>3, <2>1, MinIs
  <2>4. PICK k \in Nat : k = x - 1 /\ k + 1 = x /\ k + 1 \in 1 .. m /\ B[k + 1] \in ends
    <3>1. x \in 1 .. m /\ B[x] \in ends
      BY <2>3
    <3>2. PICK k \in Nat : k = x - 1
      BY <3>1
    <3>3. QED
      BY <3>1, <3>2
  <2>5. ASSUME NEW i \in 1 .. k PROVE B[i] \notin ends
    <3>1. i \in 1 .. m /\ ~ (x <= i)
      BY <2>4
    <3>2. QED
      BY <2>3, <3>1
  <2>6. PICK u : u = SubSeq(B, 1, k)
    OBVIOUS
  <2>7. u \in Seq(S) /\ Len(u) = k /\ \A i \in 1 .. k : u[i] = B[i]
    <3>1. 1 \in 1 .. Len(B) + 1 /\ k \in 1 - 1 .. Len(B)
      BY <1>1, <2>4
    <3>2. /\ u \in Seq(S) /\ Len(u) = IF 1 <= k THEN k - 1 + 1 ELSE 0
          /\ \A i \in 1 .. k - 1 + 1 : u[i] = B[1 + i - 1]
      BY <2>6, <3>1, SubSeqProperties
    <3>3. k - 1 + 1 = k /\ \A i \in 1 .. k : 1 + i - 1 = i
      BY <2>4
    <3>4. QED
      BY <3>2, <3>3
  <2>8. Upto(B, ends) = u
    BY <2>2, <2>3, <2>4, <2>6
  <2>9. k <= Len(B)
    BY <1>1, <2>4
  <2>10. QED
    BY <2>4, <2>5, <2>7, <2>8, <2>9
<1>4. QED
  BY <1>2, <1>3

(* Up to a blank and then up to a '\n' is up to the first of the two.        *)
LEMMA UptoTwice ==
    ASSUME NEW S, NEW B \in Seq(S)
    PROVE  Upto(Upto(B, {Space}), {Newline}) = Upto(B, {Space, Newline})
<1>1. PICK v \in Seq(S) :
        /\ v = Upto(B, {Space}) /\ Len(v) \in Nat /\ Len(v) <= Len(B)
        /\ \A i \in 1 .. Len(v) : v[i] = B[i] /\ B[i] \notin {Space}
        /\ Len(v) = Len(B) \/ B[Len(v) + 1] \in {Space}
  BY UptoHolds, Zenon
<1>2. PICK u \in Seq(S) :
        /\ u = Upto(v, {Newline}) /\ Len(u) \in Nat /\ Len(u) <= Len(v)
        /\ \A i \in 1 .. Len(u) : u[i] = v[i] /\ v[i] \notin {Newline}
        /\ Len(u) = Len(v) \/ v[Len(u) + 1] \in {Newline}
  BY UptoHolds, Zenon
<1>3. Len(B) \in Nat
  BY LenProperties
<1>4. PICK k, m, n \in Nat : k = Len(u) /\ m = Len(v) /\ n = Len(B) /\ k <= m /\ m <= n
  BY <1>1, <1>2, <1>3
<1>5. ASSUME NEW i \in 1 .. k PROVE u[i] = B[i] /\ B[i] \notin {Space, Newline}
  <2>1. i \in 1 .. m
    BY <1>4
  <2>2. QED
    BY <1>1, <1>2, <1>4, <2>1
<1>6. k = n \/ B[k + 1] \in {Space, Newline}
  <2>1. CASE k = m
    BY <1>1, <1>4, <2>1
  <2>2. CASE k # m
    <3>1. k + 1 \in 1 .. m
      BY <1>4, <2>2
    <3>2. QED
      BY <1>1, <1>2, <1>4, <2>2, <3>1
  <2>3. QED
    BY <2>1, <2>2
<1>7. k <= n
  BY <1>4
<1>8. Upto(B, {Space, Newline}) = u
  <2>1. PICK ends : ends = {Space, Newline}
    OBVIOUS
  <2>2. /\ Len(u) <= Len(B) /\ \A i \in 1 .. Len(u) : u[i] = B[i] /\ B[i] \notin ends
        /\ Len(u) = Len(B) \/ B[Len(u) + 1] \in ends
    BY <1>4, <1>5, <1>6, <1>7, <2>1
  <2>3. Upto(B, ends) = u
    BY <2>2, UptoIs
  <2>4. QED
    BY <2>1, <2>3
<1>9. QED
  BY <1>1, <1>2, <1>8

(* Up to nothing is all of it.                                               *)
LEMMA UptoNothing == ASSUME NEW s PROVE Upto(s, {}) = s
BY DEF Upto

(* The second word is what is behind the first blank, up to the next.        *)
LEMMA SecondIs ==
    ASSUME NEW s \in Lines, Blanks(s) # {}
    PROVE  /\ 2 \in 1 .. Count(s) /\ Word(s, 2) = Upto(Behind(s), {Space})
           /\ Word(s, 2) \in Seq(Text) /\ Behind(s) \in Seq(Text)
<1>1. s \in Seq(Text)
  BY WordsAreText
<1>2. PICK B, t \in Seq(Text) :
        /\ B = Behind(s) /\ t = Word(s, 2) /\ 2 \in 1 .. Count(s) /\ Len(t) <= Len(B)
        /\ \A i \in 1 .. Len(t) : t[i] = B[i] /\ B[i] # Space
        /\ Len(t) = Len(B) \/ B[Len(t) + 1] = Space
  BY <1>1, BehindIs
<1>3. Upto(B, {Space}) = t
  BY <1>2, UptoIs
<1>4. QED
  BY <1>2, <1>3

-----------------------------------------------------------------------------
(* Strings in the rows                                                       *)

(* From its row on b has the characters of t and then a '\0', or the array   *)
(* ends there.                                                               *)
Holds(b, v, t) ==
    /\ v * Room + Len(t) <= Size
    /\ \A j \in 0 .. Len(t) - 1 : b[v * Room + j] = t[j + 1] /\ t[j + 1] # Nul
    /\ v * Room + Len(t) = Size \/ b[v * Room + Len(t)] = Nul

LEMMA StringIs ==
    ASSUME NEW b, NEW v \in Rows, NEW S, NEW t \in Seq(S), Holds(b, v, t)
    PROVE  String(b, v) = t
<1>1. PICK n \in Nat : n = Len(t)
  BY LenProperties
<1>2. PICK p, z \in Nat : p = v * Room /\ z = Size /\ p + n <= z
  <2>1. v * Room \in Nat /\ Size \in Nat
    BY RowsAre
  <2>2. QED
    BY <1>1, <2>1 DEF Holds
<1>3. /\ \A j \in 0 .. n - 1 : b[p + j] = t[j + 1] /\ t[j + 1] # Nul
      /\ p + n = z \/ b[p + n] = Nul
  BY <1>1, <1>2 DEF Holds
<1> DEFINE stops == {i \in p .. z - 1 : b[i] \in {Nul}}
<1>4. ASSUME NEW y \in stops PROVE p + n <= y
  <2>1. CASE y < p + n
    <3>1. PICK j \in 0 .. n - 1 : y = p + j
      <4>1. PICK j \in Int : j = y - p
        BY <1>2
      <4>2. QED
        BY <1>1, <1>2, <2>1, <4>1
    <3>2. QED
      BY <1>3, <3>1
  <2>2. QED
    BY <1>1, <1>2, <2>1
<1>5. (IF stops = {} THEN z ELSE Min(stops)) = p + n
  <2>1. stops \subseteq Nat
    BY <1>2
  <2>2. CASE p + n = z
    <3>1. stops = {}
      <4>1. ASSUME NEW y \in stops PROVE FALSE
        <5>1. y <= z - 1 /\ y \in Int
          BY <1>2
        <5>2. QED
          BY <1>2, <1>4, <2>2, <5>1
      <4>2. QED
        BY <4>1
    <3>2. QED
      BY <2>2, <3>1
  <2>3. CASE p + n # z
    <3>1. p + n \in stops
      BY <1>1, <1>2, <1>3, <2>3
    <3> HIDE DEF stops
    <3>2. Min(stops) = p + n
      BY <1>4, <2>1, <3>1, MinOf
    <3>3. QED
      BY <3>1, <3>2
  <2>4. QED
    BY <2>2, <2>3
<1>6. String(b, v) = [i \in 1 .. n |-> b[p + i - 1]]
  <2>1. String(b, v) = [i \in 1 .. (IF stops = {} THEN z ELSE Min(stops)) - p |-> b[p + i - 1]]
    BY <1>2 DEF String, Until, Size
  <2>2. (p + n) - p = n
    BY <1>1, <1>2
  <2> HIDE DEF stops
  <2>3. QED
    BY <1>5, <2>1, <2>2
<1>7. ASSUME NEW i \in 1 .. n PROVE b[p + i - 1] = t[i]
  <2>1. PICK j \in 0 .. n - 1 : j = i - 1 /\ j + 1 = i /\ p + i - 1 = p + j
    BY <1>1, <1>2
  <2>2. QED
    BY <1>3, <2>1
<1>8. t = [i \in 1 .. n |-> t[i]]
  <2>1. DOMAIN t = 1 .. n /\ t \in [1 .. n -> S]
    BY <1>1, LenProperties
  <2>2. QED
    BY <2>1
<1>9. [i \in 1 .. n |-> b[p + i - 1]] = [i \in 1 .. n |-> t[i]]
  BY <1>7
<1>10. QED
  BY <1>6, <1>8, <1>9

(* and String is such a string.                                              *)
LEMMA StringHolds ==
    ASSUME NEW b \in [Cells -> Char], NEW v \in Rows
    PROVE  String(b, v) \in Seq(Text) /\ Holds(b, v, String(b, v))
<1>1. PICK p, z \in Nat : p = v * Room /\ z = Size /\ p < z /\ Cells = 0 .. z - 1
  BY RowsAre
<1> DEFINE stops == {i \in p .. z - 1 : b[i] \in {Nul}}
<1>2. PICK n \in Nat : /\ (IF stops = {} THEN z ELSE Min(stops)) = p + n /\ p + n <= z
                       /\ \A j \in 0 .. n - 1 : p + j \notin stops
                       /\ p + n = z \/ p + n \in stops
  <2>1. stops \subseteq Nat
    BY <1>1
  <2>2. CASE stops = {}
    <3>1. PICK n \in Nat : n = z - p
      BY <1>1
    <3>2. z = p + n
      BY <1>1, <3>1
    <3>3. QED
      BY <2>2, <3>2
  <2>3. CASE stops # {}
    <3>1. PICK x \in stops : x = Min(stops) /\ \A y \in stops : x <= y
      <4> HIDE DEF stops
      <4>1. QED
        BY <2>1, <2>3, MinIs
    <3>2. PICK n \in Nat : x = p + n /\ p + n <= z
      <4>1. x \in p .. z - 1
        BY <3>1
      <4>2. PICK n \in Nat : n = x - p
        BY <1>1, <4>1
      <4>3. QED
        BY <1>1, <4>1, <4>2
    <3>3. ASSUME NEW j \in 0 .. n - 1 PROVE p + j \notin stops
      <4>1. ~ (x <= p + j)
        BY <1>1, <3>2
      <4>2. QED
        BY <3>1, <4>1
    <3>4. QED
      BY <2>3, <3>1, <3>2, <3>3
  <2>4. QED
    BY <2>2, <2>3
<1>3. PICK t : t = String(b, v) /\ t = [i \in 1 .. n |-> b[p + i - 1]]
  <2>1. String(b, v) = [i \in 1 .. (IF stops = {} THEN z ELSE Min(stops)) - p |-> b[p + i - 1]]
    BY <1>1 DEF String, Until, Size
  <2>2. (p + n) - p = n
    BY <1>1
  <2> HIDE DEF stops
  <2>3. QED
    BY <1>2, <2>1, <2>2
<1>4. ASSUME NEW j \in 0 .. n - 1 PROVE b[p + j] \in Text
  <2>1. p + j \in p .. z - 1 /\ p + j \in Cells
    BY <1>1, <1>2
  <2>2. b[p + j] # Nul
    BY <1>2, <2>1
  <2>3. QED
    BY <2>1, <2>2 DEF Text
<1>5. t \in [1 .. n -> Text]
  <2>1. ASSUME NEW i \in 1 .. n PROVE b[p + i - 1] \in Text
    <3>1. PICK j \in 0 .. n - 1 : p + i - 1 = p + j
      <4>1. PICK j \in 0 .. n - 1 : j = i - 1
        OBVIOUS
      <4>2. QED
        BY <1>1, <4>1
    <3>2. QED
      BY <1>4, <3>1
  <2>2. QED
    BY <1>3, <2>1
<1>6. t \in Seq(Text)
  BY <1>5, SeqDef
<1>7. Len(t) = n
  BY <1>5, <1>6, LenProperties
<1>8. ASSUME NEW j \in 0 .. n - 1 PROVE b[p + j] = t[j + 1] /\ t[j + 1] # Nul
  <2>1. j + 1 \in 1 .. n /\ p + (j + 1) - 1 = p + j
    BY <1>1
  <2>2. t[j + 1] = b[p + j]
    BY <1>3, <2>1
  <2>3. QED
    BY <1>4, <2>2 DEF Text
<1>9. p + n = z \/ b[p + n] = Nul
  BY <1>2
<1> HIDE DEF stops
<1>10. Holds(b, v, t)
  BY <1>1, <1>2, <1>7, <1>8, <1>9 DEF Holds
<1>11. QED
  BY <1>3, <1>6, <1>10

(* A row that starts with '\0' holds the empty string.                       *)
LEMMA EmptyRow ==
    ASSUME NEW b, NEW v \in Rows, b[v * Room] = Nul
    PROVE  String(b, v) = <<>>
<1>1. <<>> \in Seq({}) /\ Len(<<>>) = 0
  BY EmptySeq
<1>2. PICK p \in Nat : p = v * Room /\ p < Size /\ Size \in Nat
  BY RowsAre
<1>3. Holds(b, v, <<>>)
  BY <1>1, <1>2 DEF Holds
<1>4. QED
  BY <1>1, <1>3, StringIs

(* The second string depends on the cells from the second row on.            *)
LEMMA SameString ==
    ASSUME NEW b \in [Cells -> Char], NEW c, \A a \in Cells : a >= Room => c[a] = b[a]
    PROVE  String(c, 1) = String(b, 1)
<1>1. PICK t : t = String(b, 1) /\ t \in Seq(Text) /\ Holds(b, 1, t)
  BY StringHolds, RowsAre
<1>2. PICK n, z \in Nat : n = Len(t) /\ z = Size /\ Cells = 0 .. z - 1 /\ 1 * Room = Room
                          /\ Room \in Nat
  BY <1>1, LenProperties, RowsAre, Sizes
<1>3. /\ Room + n <= z /\ \A j \in 0 .. n - 1 : b[Room + j] = t[j + 1] /\ t[j + 1] # Nul
      /\ Room + n = z \/ b[Room + n] = Nul
  BY <1>1, <1>2 DEF Holds
<1>4. ASSUME NEW j \in 0 .. n - 1 PROVE c[Room + j] = b[Room + j]
  <2>1. Room + j \in Cells /\ Room + j >= Room
    BY <1>2, <1>3
  <2>2. QED
    BY <2>1
<1>5. Room + n = z \/ c[Room + n] = Nul
  <2>1. CASE Room + n # z
    <3>1. Room + n \in Cells /\ Room + n >= Room
      BY <1>2, <1>3, <2>1
    <3>2. QED
      BY <1>3, <2>1, <3>1
  <2>2. QED
    BY <2>1
<1>6. Holds(c, 1, t)
  BY <1>2, <1>3, <1>4, <1>5 DEF Holds
<1>7. QED
  BY <1>1, <1>6, StringIs, RowsAre
-----------------------------------------------------------------------------
(* What the operations leave                                                 *)

(* clearBuffer stores nothing but '\0', and one in the first place.          *)
LEMMA ClearedIs ==
    ASSUME NEW b \in [Cells -> Char], NEW v \in Rows
    PROVE  /\ clearBuffer(b, v) \in [Cells -> Char]
           /\ clearBuffer(b, v)[v * Room] = Nul
           /\ \A a \in Cells : clearBuffer(b, v)[a] = Nul \/ clearBuffer(b, v)[a] = b[a]
<1>1. PICK p, z \in Nat : p = v * Room /\ z = Size /\ p < z /\ Cells = 0 .. z - 1
  BY RowsAre
<1>2. PICK f : f = clearBuffer(b, v)
  OBVIOUS
<1>3. f = [a \in Cells |-> IF a >= p /\ Nul \notin {b[i] : i \in p .. a} THEN Nul ELSE b[a]]
  BY <1>1, <1>2 DEF clearBuffer
<1>4. Nul \in Char
  BY ShellOK DEF ShellOK
<1>5. \A a \in Cells : f[a] = Nul \/ f[a] = b[a]
  BY <1>3
<1>6. f \in [Cells -> Char]
  BY <1>3, <1>4, <1>5
<1>7. f[p] = Nul
  <2>1. p \in Cells /\ \A i \in p .. p : i = p
    BY <1>1
  <2>2. CASE b[p] = Nul
    BY <1>5, <2>1, <2>2
  <2>3. CASE b[p] # Nul
    <3>1. Nul \notin {b[i] : i \in p .. p}
      BY <2>1, <2>3
    <3>2. p >= p
      BY <1>1
    <3>3. QED
      BY <1>3, <2>1, <3>1, <3>2
  <2>4. QED
    BY <2>2, <2>3
<1>8. QED
  BY <1>1, <1>2, <1>5, <1>6, <1>7

(* After a command the second word is empty.                                 *)
LEMMA BothCleared ==
    ASSUME NEW b \in [Cells -> Char]
    PROVE  /\ clearBuffer(clearBuffer(b, 1), 0) \in [Cells -> Char]
           /\ String(clearBuffer(clearBuffer(b, 1), 0), 1) = <<>>
<1>1. PICK g \in [Cells -> Char] : g = clearBuffer(b, 1) /\ g[1 * Room] = Nul
  BY ClearedIs, RowsAre
<1>2. PICK f \in [Cells -> Char] : f = clearBuffer(g, 0) /\ \A a \in Cells : f[a] = Nul \/ f[a] = g[a]
  BY ClearedIs, RowsAre
<1>3. f[1 * Room] = Nul
  BY <1>1, <1>2, RowsAre
<1>4. String(f, 1) = <<>>
  BY <1>3, EmptyRow, RowsAre
<1>5. QED
  BY <1>1, <1>2, <1>4

(* splitString lays characters over the words.                               *)
LEMMA SplitType ==
    ASSUME NEW b \in [Cells -> Char], NEW s \in Lines
    PROVE  Split(b, s) \in [Cells -> Char]
<1>1. PICK N : N = 1 .. Count(s)
  OBVIOUS
<1>2. PICK f : f = Split(b, s) /\ f = Laid(b, s, N)
  BY <1>1, SplitIs
<1>3. ASSUME NEW a \in Cells PROVE f[a] \in Char
  <2>1. PICK V \in SUBSET N : V = Over(s, N, a)
    BY DEF Over
  <2>2. f[a] = IF V = {} THEN b[a] ELSE Letter(s, Max(V), a)
    BY <1>2, <2>1 DEF Laid
  <2>3. CASE V = {}
    BY <2>2, <2>3
  <2>4. CASE V # {}
    <3>1. PICK w \in V : w = Max(V) /\ w \in 1 .. Count(s)
      <4>1. Count(s) \in Nat
        BY WordsAreText
      <4>2. QED
        BY <1>1, <2>4, <4>1, MaxIs
    <3>2. PICK n \in Nat : n = Len(Word(s, w)) /\ Word(s, w) \in Seq(Text)
      BY <3>1, WordsAreText
    <3>3. PICK i \in 0 .. n : i = a - (w - 1) * Room
      BY <2>1, <3>2 DEF Over
    <3>4. f[a] = IF i = n THEN Nul ELSE Word(s, w)[i + 1]
      BY <2>2, <2>4, <3>1, <3>2, <3>3 DEF Letter
    <3>5. CASE i = n
      BY <3>4, <3>5, ShellOK DEF ShellOK
    <3>6. CASE i # n
      <4>1. i + 1 \in 1 .. Len(Word(s, w))
        BY <3>2, <3>6
      <4>2. Word(s, w)[i + 1] \in Text
        BY <3>2, <4>1, ElementOfSeq
      <4>3. QED
        BY <3>4, <3>6, <4>2 DEF Text
    <3>7. QED
      BY <3>5, <3>6
  <2>5. QED
    BY <2>3, <2>4
<1>4. f = [a \in Cells |-> f[a]]
  BY <1>2 DEF Laid
<1>5. QED
  BY <1>2, <1>3, <1>4

(* A word that is the last of those laid over a cell is there.               *)
LEMMA LastStays ==
    ASSUME NEW b, NEW s \in Lines, NEW w \in 1 .. Count(s), NEW a \in Cells,
           NEW i \in 0 .. Len(Word(s, w)), a = (w - 1) * Room + i,
           \A y \in 1 .. Count(s) : y > w => a < (y - 1) * Room
    PROVE  Split(b, s)[a] = IF i = Len(Word(s, w)) THEN Nul ELSE Word(s, w)[i + 1]
<1>1. Count(s) \in Nat /\ Len(Word(s, w)) \in Nat /\ a \in Nat
  BY WordsAreText, RowsAre
<1>2. PICK p \in Nat : p = (w - 1) * Room /\ a = p + i /\ i = a - p
  <2>1. PICK v \in Nat : v = w - 1
    BY <1>1
  <2>2. (w - 1) * Room \in Nat
    BY <2>1, Sizes
  <2>3. PICK p \in Nat : p = (w - 1) * Room
    BY <2>2
  <2>4. a = p + i /\ i = a - p
    BY <1>1, <2>3
  <2>5. QED
    BY <2>3, <2>4
<1>3. PICK V \in SUBSET (1 .. Count(s)) : V = Over(s, 1 .. Count(s), a)
  BY DEF Over
<1>4. w \in V
  BY <1>2, <1>3 DEF Over
<1>5. ASSUME NEW y \in V PROVE y <= w
  <2>1. y \in 1 .. Count(s) /\ a - (y - 1) * Room \in 0 .. Len(Word(s, y))
    BY <1>3 DEF Over
  <2>2. PICK q \in Nat : q = (y - 1) * Room
    <3>1. PICK v \in Nat : v = y - 1
      BY <1>1, <2>1
    <3>2. (y - 1) * Room \in Nat
      BY <3>1, Sizes
    <3>3. QED
      BY <3>2
  <2>3. a - q >= 0 /\ ~ (a < q)
    BY <1>1, <2>1, <2>2
  <2>4. ~ (y > w)
    BY <2>1, <2>2, <2>3
  <2>5. QED
    BY <2>1, <2>4
<1>6. Max(V) = w
  BY <1>1, <1>4, <1>5, MaxOf
<1>7. Split(b, s)[a] = Letter(s, w, a)
  <2>1. PICK N : N = 1 .. Count(s)
    OBVIOUS
  <2>2. Split(b, s) = Laid(b, s, N)
    BY <2>1, SplitIs
  <2>3. QED
    BY <1>3, <1>4, <1>6, <2>1, <2>2 DEF Laid
<1>8. QED
  BY <1>2, <1>7 DEF Letter

(* Later words start in later rows.                                          *)
LEMMA LaterRow ==
    ASSUME NEW w \in Nat \ {0}, NEW y \in Nat, y > w
    PROVE  (w - 1) * Room \in Nat /\ (w - 1) * Room + Room <= (y - 1) * Room
<1>1. PICK k, v \in Nat : v = w - 1 /\ y - 1 = v + k + 1
  <2>1. PICK v \in Nat : v = w - 1
    OBVIOUS
  <2>2. PICK k \in Nat : k = y - 1 - v - 1
    BY <2>1
  <2>3. QED
    BY <2>1, <2>2
<1>2. PICK p, q \in Nat : p = v * Room /\ q = k * Room
  BY Sizes
<1>3. (v + k + 1) * Room = p + q + Room
  BY <1>2, Sizes
<1>4. QED
  BY <1>1, <1>2, <1>3, Sizes

(* The first cell has the first character of the line.                       *)
LEMMA FirstCharacter ==
    ASSUME NEW b, NEW s \in Lines, Split(b, s)[0] # Nul
    PROVE  s[1] = Split(b, s)[0]
<1>1. PICK n \in Nat : n = Len(Word(s, 1)) /\ 1 \in 1 .. Count(s) /\ Count(s) \in Nat
  BY WordsAreText
<1>2. (1 - 1) * Room = 0 /\ 0 \in Cells
  BY RowsAre
<1>3. ASSUME NEW y \in 1 .. Count(s), y > 1 PROVE 0 < (y - 1) * Room
  <2>1. (1 - 1) * Room + Room <= (y - 1) * Room
    BY <1>1, <1>3, LaterRow
  <2>2. PICK q \in Nat : q = (y - 1) * Room
    <3>1. PICK v \in Nat : v = y - 1
      BY <1>1
    <3>2. (y - 1) * Room \in Nat
      BY <3>1, Sizes
    <3>3. QED
      BY <3>2
  <2>3. QED
    BY <1>2, <2>1, <2>2, Sizes
<1>4. 0 \in 0 .. n /\ 0 = (1 - 1) * Room + 0
  BY <1>2
<1>5. Split(b, s)[0] = IF 0 = n THEN Nul ELSE Word(s, 1)[0 + 1]
  BY <1>1, <1>2, <1>3, <1>4, LastStays
<1>6. n # 0 /\ Split(b, s)[0] = Word(s, 1)[1]
  BY <1>5
<1>7. PICK a, e \in 1 .. Len(s) + 1 :
        /\ a = WordStart(s, 1) /\ a <= e /\ Len(Word(s, 1)) = e - a
        /\ \A i \in 1 .. e - a : Word(s, 1)[i] = s[a + i - 1]
  <2>1. s \in Seq(Text)
    BY WordsAreText
  <2>2. AreWords(Text)
    BY WordsAre
  <2>3. QED
    BY <1>1, <2>1, <2>2 DEF AreWords
<1>8. a = 1
  BY <1>7 DEF WordStart
<1>9. 1 \in 1 .. e - a /\ a + 1 - 1 = 1
  BY <1>1, <1>6, <1>7, <1>8
<1>10. QED
  BY <1>6, <1>7, <1>9

(* A line without a blank, shorter than a row, leaves the second word alone. *)
LEMMA OneWord ==
    ASSUME NEW b \in [Cells -> Char], NEW s \in Lines, Blanks(s) = {}, Len(s) < Room
    PROVE  String(Split(b, s), 1) = String(b, 1)
<1>1. Count(s) = 1
  BY FS_EmptySet DEF Count
<1>2. PICK n, l \in Nat : n = Len(Word(s, 1)) /\ l = Len(s) /\ n <= l /\ l < Room
  <2>1. 1 \in 1 .. Count(s)
    BY <1>1
  <2>2. QED
    BY <2>1, WordsAreText
<1>3. ASSUME NEW a \in Cells, a >= Room PROVE Split(b, s)[a] = b[a]
  <2>1. ASSUME NEW w \in Over(s, 1 .. 1, a) PROVE FALSE
    <3>1. w = 1 /\ a - (w - 1) * Room \in 0 .. Len(Word(s, w))
      BY DEF Over
    <3>2. (w - 1) * Room = 0
      BY <3>1, RowsAre
    <3>3. a - 0 \in 0 .. n
      BY <1>2, <3>1, <3>2
    <3>4. a \in Nat
      BY RowsAre
    <3>5. QED
      BY <1>2, <1>3, <3>3, <3>4, Sizes
  <2>2. Over(s, 1 .. 1, a) = {}
    BY <2>1
  <2>3. Split(b, s) = Laid(b, s, 1 .. 1)
    BY <1>1, SplitIs
  <2>4. QED
    BY <2>2, <2>3 DEF Laid
<1>4. QED
  BY <1>3, SameString

(* A second word shorter than a row is the second string.                    *)
LEMMA TwoWords ==
    ASSUME NEW b, NEW s \in Lines, Blanks(s) # {}, Len(Upto(Behind(s), {Space})) < Room
    PROVE  String(Split(b, s), 1) = Upto(Behind(s), {Space})
<1>1. PICK t \in Seq(Text) : t = Word(s, 2) /\ t = Upto(Behind(s), {Space}) /\ 2 \in 1 .. Count(s)
  BY SecondIs
<1>2. PICK n \in Nat : n = Len(t) /\ n < Room
  BY <1>1, LenProperties
<1>3. PICK z \in Nat : z = Size /\ Room + Room <= z /\ Cells = 0 .. z - 1
  BY RowsAre
<1>4. ASSUME NEW i \in 0 .. n
      PROVE  Split(b, s)[Room + i] = IF i = n THEN Nul ELSE t[i + 1]
  <2>1. PICK a \in Cells : a = Room + i /\ a < Room + Room
    BY <1>2, <1>3, Sizes
  <2>2. (2 - 1) * Room = Room
    BY Sizes
  <2>3. a = (2 - 1) * Room + i
    BY <2>1, <2>2
  <2>4. ASSUME NEW y \in 1 .. Count(s), y > 2 PROVE a < (y - 1) * Room
    <3>1. y \in Nat /\ Count(s) \in Nat
      BY WordsAreText
    <3>2. Room + Room <= (y - 1) * Room
      BY <2>2, <2>4, <3>1, LaterRow
    <3>3. PICK q \in Nat : q = (y - 1) * Room
      <4>1. PICK v \in Nat : v = y - 1
        BY <2>4, <3>1
      <4>2. (y - 1) * Room \in Nat
        BY <4>1, Sizes
      <4>3. QED
        BY <4>2
    <3>4. a \in Nat
      BY RowsAre
    <3>5. QED
      BY <2>1, <3>2, <3>3, <3>4, Sizes
  <2>5. i \in 0 .. Len(Word(s, 2))
    BY <1>1, <1>2
  <2>6. Split(b, s)[a] = IF i = Len(Word(s, 2)) THEN Nul ELSE Word(s, 2)[i + 1]
    BY <1>1, <2>3, <2>4, <2>5, LastStays
  <2>7. QED
    BY <1>1, <1>2, <2>1, <2>6
<1>5. ASSUME NEW j \in 0 .. n - 1 PROVE Split(b, s)[Room + j] = t[j + 1] /\ t[j + 1] # Nul
  <2>1. j \in 0 .. n /\ j # n /\ j + 1 \in 1 .. Len(t)
    BY <1>2
  <2>2. t[j + 1] \in Text
    BY <2>1, ElementOfSeq
  <2>3. QED
    BY <1>4, <2>1, <2>2 DEF Text
<1>6. Split(b, s)[Room + n] = Nul /\ Room + n <= z
  BY <1>2, <1>3, <1>4, Sizes
<1>7. Holds(Split(b, s), 1, t)
  BY <1>2, <1>3, <1>5, <1>6, RowsAre DEF Holds
<1>8. QED
  BY <1>1, <1>7, StringIs, RowsAre

(* A '\n' behind the first blank is in the array, if words behind the first  *)
(* are shorter than a row and end in the array.                              *)
LEMMA NewlineStays ==
    ASSUME NEW b, NEW s \in Lines, Blanks(s) # {}, Newline \in Range(Behind(s)),
           EndBefore(s, Words * Room), \A w \in 2 .. Count(s) : Len(Word(s, w)) < Room
    PROVE  \E a \in Cells : a >= Room /\ Split(b, s)[a] = Newline
<1>1. s \in Seq(Text) /\ Len(s) \in Nat /\ Count(s) \in Nat
  BY WordsAreText
<1>2. PICK p \in 1 .. Len(Behind(s)) : Behind(s)[p] = Newline
  <2>1. Behind(s) \in Seq(Text)
    BY SecondIs
  <2>2. QED
    BY <2>1, LenProperties DEF Range
<1>3. PICK q \in 1 .. Len(s), m \in Blanks(s) : m < q /\ s[q] = Newline
  BY <1>1, <1>2, BehindIs
<1>4. s[q] # Space
  BY <1>3, ShellOK DEF ShellOK
<1>5. PICK w \in 1 .. Count(s) : \E i \in 1 .. Len(Word(s, w)) : Word(s, w)[i] = Newline /\ w # 1
  BY <1>1, <1>3, <1>4, InAWord
<1>6. PICK i \in 1 .. Len(Word(s, w)) : Word(s, w)[i] = Newline /\ w # 1
  BY <1>5
<1>7. PICK n \in Nat : n = Len(Word(s, w)) /\ n < Room /\ i \in 1 .. n
  <2>1. w \in 2 .. Count(s)
    BY <1>1, <1>6
  <2>2. QED
    BY <1>6, <2>1, WordsAreText
<1>8. PICK j \in 0 .. n - 1 : j + 1 = i /\ j \in Nat /\ j < Room
  <2>1. PICK j \in Nat : j = i - 1
    BY <1>7
  <2>2. QED
    BY <1>7, <2>1, Sizes
<1>9. PICK r \in Nat : r = (w - 1) * Room /\ Room <= r
  <2>1. w \in Nat /\ w > 1
    BY <1>1, <1>6
  <2>2. (1 - 1) * Room + Room <= (w - 1) * Room /\ (1 - 1) * Room = 0
    BY <2>1, LaterRow, RowsAre
  <2>3. PICK v \in Nat : v = w - 1
    BY <2>1
  <2>4. (w - 1) * Room \in Nat
    BY <2>3, Sizes
  <2>5. Room <= (w - 1) * Room
    BY <2>2, Sizes
  <2>6. QED
    BY <2>4, <2>5
<1>10. PICK a \in Cells : a = r + j /\ a >= Room
  <2>1. r + n < Size /\ Size \in Nat /\ Cells = 0 .. Size - 1
    BY <1>7, <1>9, RowsAre DEF EndBefore, Size
  <2>2. PICK z \in Nat : z = Size /\ Cells = 0 .. z - 1 /\ r + n < z
    BY <2>1
  <2>3. j < n /\ j \in Nat /\ r >= Room /\ Room \in Nat
    BY <1>7, <1>8, <1>9, Sizes
  <2>4. r + j \in 0 .. z - 1 /\ r + j >= Room
    BY <2>2, <2>3
  <2>5. QED
    BY <2>2, <2>4
<1>11. ASSUME NEW y \in 1 .. Count(s), y > w PROVE a < (y - 1) * Room
  <2>1. y \in Nat /\ w \in Nat \ {0}
    BY <1>1
  <2>2. r + Room <= (y - 1) * Room
    BY <1>9, <1>11, <2>1, LaterRow
  <2>3. PICK x \in Nat : x = (y - 1) * Room
    <3>1. PICK v \in Nat : v = y - 1
      BY <1>11, <2>1
    <3>2. (y - 1) * Room \in Nat
      BY <3>1, Sizes
    <3>3. QED
      BY <3>2
  <2>4. QED
    BY <1>8, <1>10, <2>2, <2>3, Sizes
<1>12. j \in 0 .. Len(Word(s, w)) /\ a = (w - 1) * Room + j /\ j # Len(Word(s, w))
  BY <1>7, <1>8, <1>9, <1>10
<1>13. Split(b, s)[a] = Word(s, w)[j + 1]
  BY <1>11, <1>12, LastStays
<1>14. QED
  BY <1>6, <1>8, <1>10, <1>13

(* sleep and cat end the second string at its first '\n', if it has one.     *)
LinesIn(b) == {a \in Cells : a >= Room /\ b[a] = Newline}

LEMMA CutIs ==
    ASSUME NEW b \in [Cells -> Char], NEW c,
           c = IF LinesIn(b) = {} THEN b ELSE [b EXCEPT ![Min(LinesIn(b))] = Nul]
    PROVE  c \in [Cells -> Char] /\ String(c, 1) = Upto(String(b, 1), {Newline})
<1>1. LinesIn(b) \subseteq Nat
  BY RowsAre DEF LinesIn
<1>2. PICK x : LinesIn(b) # {} => x = Min(LinesIn(b)) /\ x \in LinesIn(b) /\ x \in Cells /\ x >= Room
                                  /\ \A y \in LinesIn(b) : x <= y
  BY <1>1, MinIs DEF LinesIn
<1>3. \A a \in Cells : c[a] = IF LinesIn(b) # {} /\ a = x THEN Nul ELSE b[a]
  BY <1>2
<1>4. c \in [Cells -> Char]
  BY ShellOK DEF ShellOK
<1>5. PICK t \in Seq(Text) : t = String(b, 1) /\ Holds(b, 1, t)
  BY StringHolds, RowsAre
<1>6. PICK n, z \in Nat : n = Len(t) /\ z = Size /\ Cells = 0 .. z - 1 /\ 1 * Room = Room
                          /\ Room \in Nat
  BY <1>5, LenProperties, RowsAre, Sizes
<1>7. /\ Room + n <= z /\ \A j \in 0 .. n - 1 : b[Room + j] = t[j + 1] /\ t[j + 1] # Nul
      /\ Room + n = z \/ b[Room + n] = Nul
  BY <1>5, <1>6 DEF Holds
<1>8. PICK u \in Seq(Text) :
        /\ u = Upto(t, {Newline}) /\ Len(u) \in Nat /\ Len(u) <= Len(t)
        /\ \A i \in 1 .. Len(u) : u[i] = t[i] /\ t[i] \notin {Newline}
        /\ Len(u) = Len(t) \/ t[Len(u) + 1] \in {Newline}
  BY UptoHolds, Zenon
<1>9. PICK k \in Nat : k = Len(u) /\ k <= n
  BY <1>6, <1>8
<1>10. ASSUME NEW j \in 0 .. k - 1
       PROVE  b[Room + j] = u[j + 1] /\ u[j + 1] # Nul /\ b[Room + j] # Newline
  <2>1. j \in 0 .. n - 1 /\ j + 1 \in 1 .. k
    BY <1>9
  <2>2. QED
    BY <1>7, <1>8, <1>9, <2>1
<1>11. ASSUME NEW y \in LinesIn(b) PROVE Room + k <= y /\ y \in Nat
  <2>1. y \in Nat /\ y >= Room /\ b[y] = Newline
    BY <1>1 DEF LinesIn
  <2>2. CASE y < Room + k
    <3>1. PICK j \in 0 .. k - 1 : y = Room + j
      <4>1. PICK j \in Int : j = y - Room
        BY <1>6, <2>1
      <4>2. QED
        BY <1>6, <1>9, <2>1, <2>2, <4>1
    <3>2. QED
      BY <1>10, <2>1, <3>1
  <2>3. QED
    BY <1>6, <1>9, <2>1, <2>2
<1>12. ASSUME NEW j \in 0 .. k - 1 PROVE c[Room + j] = u[j + 1] /\ u[j + 1] # Nul
  <2>1. Room + j \in Cells /\ ~ (Room + k <= Room + j)
    BY <1>6, <1>7, <1>9
  <2>2. ~ (LinesIn(b) # {} /\ Room + j = x)
    BY <1>2, <1>11, <2>1
  <2>3. QED
    BY <1>3, <1>10, <2>1, <2>2
<1>13. Room + k = z \/ c[Room + k] = Nul
  <2>1. CASE k = n
    <3>1. CASE Room + n # z
      <4>1. Room + n \in Cells
        BY <1>6, <1>7, <3>1
      <4>2. QED
        BY <1>3, <1>7, <2>1, <3>1, <4>1
    <3>2. QED
      BY <2>1, <3>1
  <2>2. CASE k # n
    <3>1. k \in 0 .. n - 1 /\ Room + k \in Cells /\ Room + k >= Room
      BY <1>6, <1>7, <1>9, <2>2
    <3>2. b[Room + k] = Newline
      BY <1>6, <1>7, <1>8, <1>9, <2>2, <3>1
    <3>3. Room + k \in LinesIn(b)
      BY <3>1, <3>2 DEF LinesIn
    <3>4. x <= Room + k /\ Room + k <= x /\ x \in Nat
      BY <1>2, <1>11, <3>3
    <3>5. x = Room + k
      BY <1>6, <3>4
    <3>6. QED
      BY <1>3, <3>1, <3>3, <3>5
  <2>3. QED
    BY <2>1, <2>2
<1>14. Room + k <= z
  BY <1>6, <1>7, <1>9
<1>15. Holds(c, 1, u)
  BY <1>6, <1>9, <1>12, <1>13, <1>14 DEF Holds
<1>16. String(c, 1) = u
  BY <1>15, StringIs, RowsAre
<1>17. QED
  BY <1>4, <1>5, <1>8, <1>16
-----------------------------------------------------------------------------
(* The invariant                                                             *)

(* What splitString leaves for the command: the second string is the one the *)
(* lines are meant to have left; the first character is that of the line;    *)
(* and a '\n' behind a blank is found.                                       *)
Ready ==
    /\ String(buffer, 1) = left
    /\ buffer[0] # Nul => input[1] = buffer[0]
    /\ (Blanks(input) # {} /\ RowHolds(input)) => left = Upto(Behind(input), {Space})
    /\ (/\ prompt /\ Blanks(input) # {} /\ Newline \in Range(Behind(input))
        /\ \A w \in 2 .. Count(input) : Len(Word(input, w)) < Room) => LinesIn(buffer) # {}

(* Between commands the second string is what the last command left.         *)
Kept == pc \in {"prompt", "input", "split"} =>
            String(buffer, 1) = IF cleared THEN <<>> ELSE left

MayRead == /\ pc = "input" => typed < MaxLines
           /\ pc \in {"split", "process"} => input \in Lines

ShellInv ==
    /\ TypeOK /\ ArgumentIsWord /\ ArgumentIsLeft /\ HangsOnlyOnBadLine
    /\ Kept /\ MayRead /\ (pc = "process" => Ready)

LEMMA Names == /\ Nul \notin {echo, sleep, cat} /\ echo \notin {sleep, cat} /\ Nul \in Char
               /\ MaxLines \in Nat
BY ShellOK DEF ShellOK

-----------------------------------------------------------------------------
(* The steps                                                                 *)

LEMMA ShellInit == Init => ShellInv
<1> SUFFICES ASSUME Init PROVE ShellInv
  OBVIOUS
<1>1. buffer \in [Cells -> Char]
  BY ShellOK DEF Init, ShellOK
<1>2. left = String(buffer, 1) /\ left \in Seq(Text)
  BY <1>1, StringHolds, RowsAre DEF Init
<1>3. ran.command = Nul /\ ran.argument = <<>> /\ <<>> \in Seq(Text)
  BY EmptySeq DEF Init
<1>4. TypeOK
  <2>1. /\ input = <<>> /\ pc = "prompt" /\ prompt = TRUE /\ cleared = FALSE
        /\ typed \in 0 .. MaxLines
    BY Names DEF Init
  <2>2. left \in Seq(Char \ {Nul}) /\ ran.argument \in Seq(Char \ {Nul})
    BY <1>2, <1>3 DEF Text
  <2>3. QED
    BY <1>1, <1>3, <2>1, <2>2 DEF TypeOK
<1>5. Kept /\ MayRead /\ (pc = "process" => Ready)
  BY <1>2 DEF Init, Kept, MayRead
<1>6. ArgumentIsWord /\ ArgumentIsLeft /\ HangsOnlyOnBadLine
  BY <1>3, Names DEF Init, ArgumentIsWord, ArgumentIsLeft, HangsOnlyOnBadLine, CameBack
<1>7. QED
  BY <1>4, <1>5, <1>6 DEF ShellInv

(* A command on buffer b that takes its argument from there.                 *)
LEMMA FinishKeeps ==
    ASSUME ShellInv, pc = "process", NEW c \in {echo, sleep, cat},
           NEW b \in [Cells -> Char], Finish(c, b),
           String(b, 1) = Upto(left, IF c = echo THEN {} ELSE {Newline})
    PROVE  ShellInv'
<1>1. buffer' \in [Cells -> Char] /\ String(buffer', 1) = <<>>
  BY BothCleared DEF Finish
<1>2. /\ ran' = [command |-> c, argument |-> String(b, 1)]
      /\ pc' = "prompt" /\ cleared' = TRUE
      /\ input' = input /\ typed' = typed /\ left' = left
  BY DEF Finish
<1>3. ran'.command = c /\ ran'.argument = String(b, 1) /\ String(b, 1) \in Seq(Text)
  BY <1>2, StringHolds, RowsAre
<1>4. prompt' \in BOOLEAN
  BY DEF Finish
<1>5. TypeOK'
  BY <1>1, <1>2, <1>3, <1>4 DEF ShellInv, TypeOK, Text
<1>6. (String(buffer, 1))' = <<>>
  BY <1>1 DEF String, Until
<1>7. Kept' /\ MayRead' /\ (pc = "process" => Ready)' /\ HangsOnlyOnBadLine'
  BY <1>2, <1>6 DEF Kept, MayRead, HangsOnlyOnBadLine
<1>8. ArgumentIsLeft'
  BY <1>2, <1>3 DEF ArgumentIsLeft, CameBack
<1>9. ASSUME Blanks(input) # {}, RowHolds(input)
      PROVE  String(b, 1) = Upto(Behind(input), IF c = echo THEN {Space} ELSE {Space, Newline})
  <2>1. input \in Lines /\ left = Upto(Behind(input), {Space})
    BY <1>9 DEF ShellInv, Ready, MayRead
  <2>2. CASE c = echo
    BY <2>1, <2>2, UptoNothing
  <2>3. CASE c # echo
    <3>1. Behind(input) \in Seq(Text)
      BY <1>9, <2>1, SecondIs
    <3>2. QED
      BY <2>1, <2>3, <3>1, UptoTwice
  <2>4. QED
    BY <2>2, <2>3
<1>10. ArgumentIsWord'
  BY <1>2, <1>3, <1>9 DEF ArgumentIsWord, CameBack, RowHolds
<1>11. QED
  BY <1>5, <1>7, <1>8, <1>10 DEF ShellInv

LEMMA PromptKeeps == ASSUME ShellInv, displayPrompt PROVE ShellInv'
<1>1. /\ pc' \in {"input", "hung"} /\ (pc' = "hung" => ~prompt) /\ typed < MaxLines
      /\ pc = "prompt" /\ UNCHANGED <<buffer, input, prompt, ran, typed, cleared, left>>
  BY DEF displayPrompt
<1>2. TypeOK'
  BY <1>1 DEF ShellInv, TypeOK
<1>3. (String(buffer, 1))' = String(buffer, 1)
  BY <1>1 DEF String, Until
<1>4. Kept' /\ MayRead'
  BY <1>1, <1>3 DEF ShellInv, Kept, MayRead
<1>5. QED
  BY <1>1, <1>2, <1>4 DEF ShellInv, ArgumentIsWord, ArgumentIsLeft, CameBack, HangsOnlyOnBadLine

LEMMA ReadKeeps == ASSUME ShellInv, NEW l \in Lines, readInput(l) PROVE ShellInv'
<1>1. /\ pc = "input" /\ pc' = "split" /\ input' = l /\ typed' = typed + 1
      /\ UNCHANGED <<buffer, prompt, ran, cleared, left>>
  BY DEF readInput
<1>2. typed' \in 0 .. MaxLines
  BY <1>1, Names DEF ShellInv, TypeOK, MayRead
<1>3. TypeOK'
  BY <1>1, <1>2 DEF ShellInv, TypeOK
<1>4. (String(buffer, 1))' = String(buffer, 1)
  BY <1>1 DEF String, Until
<1>5. Kept' /\ MayRead'
  BY <1>1, <1>4 DEF ShellInv, Kept, MayRead
<1>6. QED
  BY <1>1, <1>3, <1>5 DEF ShellInv, ArgumentIsWord, ArgumentIsLeft, CameBack, HangsOnlyOnBadLine

(* A row takes the second word, or the only one.                             *)
LEMMA SplitLeaves ==
    ASSUME ShellInv, splitString
    PROVE  String(buffer', 1) = left' /\ left' \in Seq(Text) /\ buffer' \in [Cells -> Char]
<1>1. /\ input \in Lines /\ buffer \in [Cells -> Char] /\ buffer' = Split(buffer, input)
      /\ left' = IF RowHolds(input) THEN SecondWord ELSE String(buffer', 1)
      /\ String(buffer, 1) = IF cleared THEN <<>> ELSE left
  BY DEF splitString, ShellInv, MayRead, Kept, TypeOK
<1>2. buffer' \in [Cells -> Char]
  BY <1>1, SplitType
<1>3. String(buffer', 1) = left'
  <2>1. CASE ~RowHolds(input)
    BY <1>1, <2>1
  <2>2. CASE RowHolds(input) /\ Blanks(input) = {}
    <3>1. Len(input) < Room
      BY <2>2 DEF RowHolds
    <3>2. String(buffer', 1) = String(buffer, 1)
      BY <1>1, <2>2, <3>1, OneWord
    <3>3. QED
      BY <1>1, <2>2, <3>2 DEF SecondWord
  <2>3. CASE RowHolds(input) /\ Blanks(input) # {}
    <3>1. Len(Upto(Behind(input), {Space})) < Room
      BY <2>3 DEF RowHolds
    <3>2. String(buffer', 1) = Upto(Behind(input), {Space})
      BY <1>1, <2>3, <3>1, TwoWords
    <3>3. QED
      BY <1>1, <2>3, <3>2 DEF SecondWord
  <2>4. QED
    BY <2>1, <2>2, <2>3
<1>4. left' \in Seq(Text)
  BY <1>2, <1>3, StringHolds, RowsAre
<1>5. QED
  BY <1>2, <1>3, <1>4

LEMMA SplitKeeps == ASSUME ShellInv, splitString PROVE ShellInv'
<1>1. /\ input \in Lines /\ buffer' = Split(buffer, input) /\ pc = "split"
      /\ prompt' = (prompt /\ EndBefore(input, Words * Room))
      /\ pc' \in {"process", "hung"}
      /\ (pc' = "hung" => ~EndBefore(input, (Words + 1) * Room))
      /\ UNCHANGED <<input, ran, typed, cleared>>
  BY DEF splitString, ShellInv, MayRead
<1>2. prompt' \in BOOLEAN /\ (prompt' => EndBefore(input, Words * Room))
  BY <1>1
<1>3. TypeOK'
  BY <1>1, <1>2, SplitLeaves DEF ShellInv, TypeOK, Text
<1>4. Ready'
  <2>1. (String(buffer, 1))' = left'
    BY SplitLeaves DEF String, Until
  <2>2. buffer'[0] # Nul => input[1] = buffer'[0]
    BY <1>1, FirstCharacter
  <2>3. (Blanks(input) # {} /\ RowHolds(input)) => left' = Upto(Behind(input), {Space})
    BY DEF splitString, SecondWord
  <2>4. ASSUME prompt', Blanks(input) # {}, Newline \in Range(Behind(input)),
               \A w \in 2 .. Count(input) : Len(Word(input, w)) < Room
        PROVE  LinesIn(buffer') # {}
    BY <1>1, <1>2, <2>4, NewlineStays DEF LinesIn
  <2>5. (LinesIn(buffer))' = LinesIn(buffer')
    BY DEF LinesIn
  <2>6. QED
    BY <1>1, <2>1, <2>2, <2>3, <2>4, <2>5 DEF Ready, RowHolds
<1>5. HangsOnlyOnBadLine'
  <2>1. ASSUME EndBefore(input, Words * Room) PROVE EndBefore(input, (Words + 1) * Room)
    <3>1. PICK z \in Nat : z = Words * Room /\ (Words + 1) * Room = z + Room
      BY Sizes
    <3>2. ASSUME NEW w \in 1 .. Count(input)
          PROVE  (w - 1) * Room + Len(Word(input, w)) < z + Room
      <4>1. PICK e \in Nat : e = (w - 1) * Room + Len(Word(input, w))
        <5>1. Count(input) \in Nat /\ Len(Word(input, w)) \in Nat
          BY <1>1, WordsAreText
        <5>2. PICK v \in Nat : v = w - 1
          BY <5>1
        <5>3. (w - 1) * Room \in Nat
          BY <5>2, Sizes
        <5>4. QED
          BY <5>1, <5>3
      <4>2. e < z
        BY <2>1, <3>1, <4>1 DEF EndBefore
      <4>3. QED
        BY <4>1, <4>2, Sizes
    <3>3. QED
      BY <3>1, <3>2 DEF EndBefore
  <2>2. pc' = "hung" => ~ prompt'
    BY <1>1, <1>2, <2>1
  <2>3. QED
    BY <2>2 DEF HangsOnlyOnBadLine
<1>6. QED
  BY <1>1, <1>3, <1>4, <1>5 DEF ShellInv, Kept, MayRead, ArgumentIsWord, ArgumentIsLeft, CameBack

LEMMA EchoKeeps == ASSUME ShellInv, Echo PROVE ShellInv'
<1>1. pc = "process" /\ Finish(echo, buffer) /\ buffer \in [Cells -> Char]
  BY DEF Echo, ShellInv, TypeOK
<1>2. String(buffer, 1) = Upto(left, {})
  BY <1>1, UptoNothing DEF ShellInv, Ready
<1>3. QED
  BY <1>1, <1>2, FinishKeeps

LEMMA CutKeeps ==
    ASSUME ShellInv, pc = "process"
    PROVE  Cut \in [Cells -> Char] /\ String(Cut, 1) = Upto(left, {Newline})
<1>1. buffer \in [Cells -> Char] /\ String(buffer, 1) = left
  BY DEF ShellInv, TypeOK, Ready
<1>2. PICK c : c = Cut
  OBVIOUS
<1>3. c = IF LinesIn(buffer) = {} THEN buffer ELSE [buffer EXCEPT ![Min(LinesIn(buffer))] = Nul]
  BY <1>2 DEF Cut, Newlines, LinesIn
<1>4. c \in [Cells -> Char] /\ String(c, 1) = Upto(String(buffer, 1), {Newline})
  BY <1>1, <1>3, CutIs
<1>5. QED
  BY <1>1, <1>2, <1>4

LEMMA ArgumentKeeps == ASSUME ShellInv, NEW c \in {sleep, cat}, WithArgument(c) PROVE ShellInv'
<1>1. PICK b \in [Cells -> Char] :
        pc = "process" /\ Finish(c, b) /\ String(b, 1) = Upto(left, {Newline})
  BY CutKeeps DEF WithArgument
<1>2. c # echo /\ c \in {echo, sleep, cat}
  BY Names
<1>3. QED
  BY <1>1, <1>2, FinishKeeps

(* The shell stops in sleep or cat; what of the line is to blame is proved   *)
(* for each of its two ways.                                                 *)
LEMMA HangKeeps ==
    ASSUME ShellInv, pc = "process", Is(sleep) \/ Is(cat), pc' = "hung", TypeOK',
           UNCHANGED <<input, prompt>>,
           (/\ prompt /\ Blanks(input) # {} /\ Newline \in Range(Behind(input))
            /\ \A w \in 2 .. Count(input) : Len(Word(input, w)) < Room) =>
              input[1] = cat /\ Upto(Behind(input), {Space, Newline}) \notin Openable
    PROVE  ShellInv'
<1>1. input[1] \in {sleep, cat}
  BY Names DEF ShellInv, Ready, Is
<1>2. input \in Lines
  BY DEF ShellInv, MayRead
<1>3. ASSUME NEW w \in 2 .. Count(input)
      PROVE  ~ (Len(Word(input, w)) >= Room) => Len(Word(input, w)) < Room
  <2>1. Len(Word(input, w)) \in Nat
    <3>1. Count(input) \in Nat
      BY <1>2, WordsAreText
    <3>2. w \in 1 .. Count(input)
      BY <3>1
    <3>3. QED
      BY <1>2, <3>2, WordsAreText
  <2>2. QED
    BY <2>1, Sizes
<1>4. HangsOnlyOnBadLine'
  BY <1>1, <1>3 DEF HangsOnlyOnBadLine
<1>5. QED
  BY <1>4 DEF ShellInv, Kept, MayRead, ArgumentIsWord, ArgumentIsLeft, CameBack

LEMMA RunOffKeeps == ASSUME ShellInv, RunOff PROVE ShellInv'
<1>1. /\ pc = "process" /\ (Is(sleep) \/ Is(cat)) /\ Newlines = {}
      /\ pc' = "hung" /\ UNCHANGED <<buffer, input, prompt, ran, typed, cleared, left>>
  BY DEF RunOff
<1>2. TypeOK'
  BY <1>1 DEF ShellInv, TypeOK
<1>3. LinesIn(buffer) = {}
  BY <1>1 DEF Newlines, LinesIn
<1>4. QED
  BY <1>1, <1>2, <1>3, HangKeeps DEF ShellInv, Ready

LEMMA NotFoundKeeps == ASSUME ShellInv, NotFound PROVE ShellInv'
<1>1. /\ pc = "process" /\ Is(cat) /\ NewlineFound
      /\ ~Ended(Cut) \/ String(Cut, 1) \notin Openable
      /\ pc' = "hung" /\ buffer' = Cut /\ UNCHANGED <<input, prompt, ran, typed, cleared, left>>
  BY DEF NotFound
<1>2. Cut \in [Cells -> Char] /\ String(Cut, 1) = Upto(left, {Newline})
  BY <1>1, CutKeeps
<1>3. TypeOK'
  BY <1>1, <1>2 DEF ShellInv, TypeOK
<1>4. input \in Lines
  BY <1>1 DEF ShellInv, MayRead
<1>5. ASSUME prompt PROVE Ended(Cut)
  <2>1. PICK N : N = Newlines /\ N # {} /\ N \subseteq Cells /\ \A a \in N : a >= Room
    <3>1. Newlines # {}
      BY <1>1, <1>5 DEF NewlineFound
    <3>2. Newlines \subseteq Cells /\ \A a \in Newlines : a >= Room
      BY DEF Newlines
    <3>3. QED
      BY <3>1, <3>2
  <2>2. N \subseteq Nat
    BY <2>1, RowsAre
  <2>3. Min(N) \in N
    BY <2>1, <2>2, MinIs
  <2>4. Cut = [buffer EXCEPT ![Min(N)] = Nul] /\ buffer \in [Cells -> Char]
    BY <2>1 DEF Cut, ShellInv, TypeOK
  <2>5. Min(N) \in Cells /\ Min(N) >= Room /\ Cut[Min(N)] = Nul
    BY <2>1, <2>3, <2>4
  <2>6. QED
    BY <2>5 DEF Ended
<1>6. ASSUME prompt, Blanks(input) # {},
             \A w \in 2 .. Count(input) : Len(Word(input, w)) < Room
      PROVE  input[1] = cat /\ Upto(Behind(input), {Space, Newline}) \notin Openable
  <2>1. Word(input, 2) = Upto(Behind(input), {Space}) /\ Behind(input) \in Seq(Text)
        /\ 2 \in 2 .. Count(input)
    <3>1. 2 \in 1 .. Count(input) /\ Count(input) \in Nat
      BY <1>4, <1>6, SecondIs, WordsAreText
    <3>2. 2 \in 2 .. Count(input)
      BY <3>1
    <3>3. QED
      BY <1>4, <1>6, <3>2, SecondIs
  <2>2. RowHolds(input)
    BY <1>6, <2>1 DEF RowHolds
  <2>3. left = Upto(Behind(input), {Space})
    BY <1>1, <1>6, <2>2 DEF ShellInv, Ready
  <2>4. String(Cut, 1) = Upto(Behind(input), {Space, Newline})
    BY <1>2, <2>1, <2>3, UptoTwice
  <2>5. input[1] = cat
    BY <1>1, Names DEF ShellInv, Ready, Is
  <2>6. QED
    BY <1>1, <1>5, <1>6, <2>4, <2>5
<1>7. QED
  BY <1>1, <1>3, <1>6, HangKeeps

LEMMA OtherKeeps == ASSUME ShellInv, Other PROVE ShellInv'
<1>1. /\ pc = "process" /\ pc' = "prompt" /\ cleared' = FALSE
      /\ UNCHANGED <<buffer, input, prompt, typed, left>>
      /\ ran' = [command |-> IF Is(ps) THEN ps ELSE Nul, argument |-> <<>>]
      /\ ~Is(echo) /\ ~Is(sleep) /\ ~Is(cat)
  BY DEF Other
<1>2. ran'.command = (IF Is(ps) THEN ps ELSE Nul) /\ ran'.argument = <<>> /\ <<>> \in Seq(Text)
  BY <1>1, EmptySeq
<1>3. TypeOK'
  BY <1>1, <1>2 DEF ShellInv, TypeOK, Text
<1>4. ran'.command \notin {echo, sleep, cat}
  BY <1>1, <1>2, Names DEF Is
<1>5. (String(buffer, 1))' = left'
  BY <1>1 DEF String, Until, ShellInv, Ready
<1>6. Kept' /\ MayRead'
  BY <1>1, <1>5 DEF Kept, MayRead
<1>7. QED
  BY <1>1, <1>3, <1>4, <1>6 DEF ShellInv, ArgumentIsWord, ArgumentIsLeft, CameBack,
                                HangsOnlyOnBadLine

(* Every step keeps the invariant.                                           *)
LEMMA ShellStep == ShellInv /\ [Next]_vars => ShellInv'
<1> SUFFICES ASSUME ShellInv, [Next]_vars PROVE ShellInv'
  OBVIOUS
<1>1. CASE displayPrompt
  BY <1>1, PromptKeeps
<1>2. CASE \E l \in Lines : readInput(l)
  BY <1>2, ReadKeeps
<1>3. CASE splitString
  BY <1>3, SplitKeeps
<1>4. CASE Echo
  BY <1>4, EchoKeeps
<1>5. CASE \E c \in {sleep, cat} : WithArgument(c)
  BY <1>5, ArgumentKeeps
<1>6. CASE NotFound
  BY <1>6, NotFoundKeeps
<1>7. CASE RunOff
  BY <1>7, RunOffKeeps
<1>8. CASE Other
  BY <1>8, OtherKeeps
<1>9. CASE UNCHANGED vars
  <2>1. UNCHANGED <<buffer, input, pc, prompt, ran, typed, cleared, left>>
    BY <1>9 DEF vars
  <2>2. TypeOK' /\ MayRead' /\ HangsOnlyOnBadLine'
    BY <2>1 DEF ShellInv, TypeOK, MayRead, HangsOnlyOnBadLine
  <2>3. ArgumentIsWord' /\ ArgumentIsLeft'
    BY <2>1 DEF ShellInv, ArgumentIsWord, ArgumentIsLeft, CameBack, RowHolds
  <2>4. (String(buffer, 1))' = String(buffer, 1) /\ (LinesIn(buffer))' = LinesIn(buffer)
    BY <2>1 DEF String, Until, LinesIn
  <2>5. Kept'
    BY <2>1, <2>4 DEF ShellInv, Kept
  <2>6. (pc = "process" => Ready)'
    BY <2>1, <2>4 DEF ShellInv, Ready, RowHolds
  <2>7. QED
    BY <2>2, <2>3, <2>5, <2>6 DEF ShellInv
<1>10. QED
  BY <1>1, <1>2, <1>3, <1>4, <1>5, <1>6, <1>7, <1>8, <1>9 DEF Next

LEMMA ShellAlways == Spec => []ShellInv
<1>1. QED
  BY ShellInit, ShellStep, PTL DEF Spec

-----------------------------------------------------------------------------
(* The array keeps characters, and every argument is a C string, however     *)
(* many and however long words are laid over the array, split or cleared,    *)
(* and whatever it holds at the start.                                       *)
THEOREM ShellTypes == Spec => []TypeOK
<1>1. ShellInv => TypeOK
  BY DEF ShellInv
<1>2. QED
  BY <1>1, ShellAlways, PTL

(* echo, sleep and cat get the second word of their line, if it is shorter   *)
(* than a row, whatever earlier lines left in the array and however many     *)
(* words the line has.                                                       *)
THEOREM ArgumentCorrect == Spec => []ArgumentIsWord
<1>1. ShellInv => ArgumentIsWord
  BY DEF ShellInv
<1>2. QED
  BY <1>1, ShellAlways, PTL

(* Without a second word they get what is left of the lines before: nothing  *)
(* after a command that clears, as clearBuffer stores a '\0' in the first    *)
(* place of both words, and else exactly one older second word.              *)
THEOREM LeftoverCorrect == Spec => []ArgumentIsLeft
<1>1. ShellInv => ArgumentIsLeft
  BY DEF ShellInv
<1>2. QED
  BY <1>1, ShellAlways, PTL

(* Until something overwrites the prompt, the shell hangs on no line but a   *)
(* sleep or cat without a '\n' behind a blank or with a word longer than a   *)
(* row, and a cat of a file that is not there.                               *)
THEOREM HangsCorrect == Spec => []HangsOnlyOnBadLine
<1>1. ShellInv => HangsOnlyOnBadLine
  BY DEF ShellInv
<1>2. QED
  BY <1>1, ShellAlways, PTL
=============================================================================
