---------------------------- MODULE Files_proofs ----------------------------
(***************************************************************************)
(* Proofs about open, read and close (module Files), for every archive     *)
(* that tar makes, all names a program opens and all counts it reads: open *)
(* finds the first file whose name begins as asked, and what is read from  *)
(* the newest descriptor is its file's text in order.                      *)
(*                                                                         *)
(* The search in the archive steps by one block, as the size it is meant   *)
(* to skip is -1 at first and rounds to 0.                                 *)
(***************************************************************************)
EXTENDS Files, SequenceTheorems, WellFoundedInduction, TLAPS

-----------------------------------------------------------------------------
(* The search steps through the blocks *)

(* A nonempty set of naturals has a least element.                           *)
LEMMA LeastNatural ==
    ASSUME NEW T, T \subseteq Nat, T # {}
    PROVE  \E x \in T : \A y \in T : x <= y
<1> DEFINE R == OpToRel(<, Nat)
<1>1. IsWellFoundedOn(R, Nat)
  BY NatLessThanWellFounded
<1>2. PICK x \in T : \A y \in T : <<y, x>> \notin R
  BY <1>1, WFMin
<1>3. \A a, b \in Nat : b < a => <<b, a>> \in R
  BY DEF OpToRel
<1> HIDE DEF R
<1>4. \A y \in T : ~ (y < x)
  BY <1>2, <1>3
<1>5. \A y \in T : x <= y
  BY <1>4
<1>6. QED
  BY <1>5

(* and Min is it.                                                            *)
LEMMA MinIs ==
    ASSUME NEW T, T \subseteq Nat, T # {}
    PROVE  Min(T) \in T /\ \A y \in T : Min(T) <= y
<1>1. \E x \in T : \A y \in T : x <= y
  BY LeastNatural
<1>2. QED
  BY <1>1 DEF Min

(* A least element is the minimum.                                           *)
LEMMA MinOf ==
    ASSUME NEW T, T \subseteq Nat, NEW x \in T, \A y \in T : x <= y
    PROVE  Min(T) = x
<1>1. Min(T) \in T /\ Min(T) <= x
  BY MinIs
<1>2. x <= Min(T)
  BY <1>1
<1>3. x \in Nat /\ Min(T) \in Nat
  BY <1>1
<1>4. QED
  BY <1>1, <1>2, <1>3
(* A set that holds zero and the successor of each of its naturals holds     *)
(* every natural.                                                            *)
LEMMA SuccessorsReachAll ==
    ASSUME NEW T, 0 \in T, \A n \in Nat : n \in T => n + 1 \in T
    PROVE  \A n \in Nat : n \in T
<1> SUFFICES ASSUME Nat \ T # {} PROVE FALSE
  OBVIOUS
<1>1. PICK x \in Nat \ T : \A y \in Nat \ T : x <= y
  BY LeastNatural
<1>2. x # 0
  OBVIOUS
<1>3. x - 1 \in Nat /\ x - 1 \notin Nat \ T
  BY <1>1, <1>2
<1>4. x \in T
  BY <1>3
<1>5. QED
  BY <1>4

(* Quotient and remainder by an unknown n. *)
LEMMA Division ==
    ASSUME NEW a \in Nat, NEW n \in Nat \ {0}
    PROVE  \E q \in Nat, r \in 0 .. n - 1 : a = n * q + r /\ a % n = r
<1>1. a \div n \in Nat
  <2>1. a \div n \in Int BY SMT
  <2>2. a \div n >= 0 BY SMT
  <2> QED BY <2>1, <2>2
<1>2. PICK q \in Nat : q = a \div n
  BY <1>1
<1>3. a % n = a - n * q
  BY <1>2
<1>4. a % n \in 0 .. n - 1
  BY SMT
<1>5. PICK r \in 0 .. n - 1 : r = a % n
  BY <1>4
<1>6. n * q \in Int
  OBVIOUS
<1>7. PICK m \in Int : m = n * q
  BY <1>6
<1>8. a = m + r
  BY <1>3, <1>5, <1>7
<1> QED BY <1>5, <1>7, <1>8

(* A remainder is unique. *)
LEMMA RemainderIs ==
    ASSUME NEW n \in Nat \ {0}, NEW q \in Nat, NEW r \in 0 .. n - 1, NEW a \in Nat, a = n * q + r
    PROVE  a % n = r
BY SMT

(* The first size rounds up to 0, and so does 0.                             *)
LEMMA RoundsToZero == RoundUp(Wrap - 1) = 0 /\ RoundUp(0) = 0
<1>a. Block \in Nat \ {0} /\ Wrap \in Nat /\ Wrap % Block = 0
  BY ArchiveOK DEF ArchiveOK
<1>1. PICK q \in Nat : Wrap = q * Block
  <2>1. PICK q \in Nat, r \in 0 .. Block - 1 : Wrap = Block * q + r /\ Wrap % Block = r
    BY <1>a, Division
  <2>2. QED
    BY <1>a, <2>1
<1>2. Block \in Nat /\ Block > 1 /\ Wrap \in Nat /\ Wrap > 0
  <2>1. Len(Archive) \in Nat
    BY ArchiveOK, LenProperties DEF ArchiveOK
  <2>2. QED
    BY <2>1, ArchiveOK DEF ArchiveOK, Size
<1>3. q > 0
  BY <1>1, <1>2
<1>4. Wrap - 1 = (q - 1) * Block + (Block - 1) /\ q - 1 \in Nat
  BY <1>1, <1>2, <1>3
<1>5. (Wrap - 1) \div Block = q - 1 /\ (Wrap - 1) % Block = Block - 1
  BY <1>2, <1>4
<1>6. ((Wrap - 1) \div Block) * Block + Block = Wrap
  BY <1>1, <1>2, <1>3, <1>5
<1>7. Wrap % Wrap = 0 /\ 0 % Block = 0
  BY <1>2
<1>8. (Wrap - 1) % Block # 0
  BY <1>2, <1>5
<1>9. QED
  BY <1>6, <1>7, <1>8 DEF RoundUp

(* After k iterations the loop is at the k-th block.                         *)
LEMMA VisitIs == \A k \in Nat : k * Block < Wrap => Visit[k].t = k * Block
<1> DEFINE Size0(k) == IF k = 0 THEN Wrap - 1 ELSE 0
           G == [k \in Nat |-> [t |-> (k * Block) % Wrap, size |-> Size0(k)]]
           F(g, k) == IF k = 0 THEN [t |-> 0, size |-> Wrap - 1]
                      ELSE LET size == RoundUp(g[k - 1].size)
                           IN  [t |-> (g[k - 1].t + size + Block) % Wrap, size |-> size]
<1>1. Block \in Nat /\ Wrap \in Nat /\ Wrap > 0
  <2>1. Len(Archive) \in Nat
    BY ArchiveOK, LenProperties DEF ArchiveOK
  <2>2. QED
    BY <2>1, ArchiveOK DEF ArchiveOK, Size
<1>2. \A k \in Nat : G[k] = [t |-> (k * Block) % Wrap, size |-> Size0(k)]
  OBVIOUS
<1>3. \A k \in Nat : RoundUp(Size0(k)) = 0
  BY RoundsToZero
<1>4. ASSUME NEW a \in Nat, NEW b \in Nat
      PROVE  ((a % Wrap) + 0 + b) % Wrap = (a + b) % Wrap
  <2>1. PICK q \in Nat, r \in 0 .. Wrap - 1 : a = Wrap * q + r /\ a % Wrap = r
    BY <1>1, Division
  <2>2. PICK p \in Nat, v \in 0 .. Wrap - 1 :
            r + b = Wrap * p + v /\ (r + b) % Wrap = v
    <3>1. PICK c \in Nat : c = r + b
      OBVIOUS
    <3>2. QED
      BY <1>1, <3>1, Division
  <2>3. PICK m \in Nat : m = q + p
    OBVIOUS
  <2>4. Wrap * m = Wrap * q + Wrap * p
    BY <1>1, <2>3
  <2>5. PICK c \in Nat : c = a + b
    OBVIOUS
  <2>6. c = Wrap * m + v
    BY <1>1, <2>1, <2>2, <2>4, <2>5
  <2>7. c % Wrap = v
    BY <1>1, <2>6, RemainderIs
  <2>8. (a % Wrap) + 0 + b = r + b
    BY <2>1
  <2>9. QED
    BY <2>2, <2>5, <2>7, <2>8
<1> HIDE DEF Size0
<1>5. ASSUME NEW k \in Nat PROVE G[k] = F(G, k)
  <2>1. CASE k = 0
    BY <1>1, <1>2, <2>1 DEF Size0
  <2>2. CASE k # 0
    <3>1. k - 1 \in Nat
      BY <2>2
    <3>2. G[k - 1] = [t |-> ((k - 1) * Block) % Wrap, size |-> Size0(k - 1)]
      BY <1>2, <3>1
    <3>3. RoundUp(G[k - 1].size) = 0
      BY <1>3, <3>1, <3>2
    <3>4. (G[k - 1].t + 0 + Block) % Wrap = (k * Block) % Wrap
      <4>1. (k - 1) * Block \in Nat /\ (k - 1) * Block + Block = k * Block
        BY <1>1, <3>1
      <4>2. G[k - 1].t = ((k - 1) * Block) % Wrap
        BY <3>2
      <4>3. QED
        BY <1>1, <1>4, <4>1, <4>2
    <3>5. Size0(k) = 0
      BY <2>2 DEF Size0
    <3> HIDE DEF G
    <3>6. F(G, k) = [t |-> (G[k - 1].t + 0 + Block) % Wrap, size |-> 0]
      BY <2>2, <3>3
    <3>7. QED
      BY <1>2, <3>4, <3>5, <3>6 DEF G
  <2>3. QED
    BY <2>1, <2>2
<1>6. G = [k \in Nat |-> F(G, k)]
  <2>1. G = [k \in Nat |-> G[k]]
    BY DEF G
  <2> HIDE DEF G, F
  <2>2. QED
    BY <1>5, <2>1
<1> HIDE DEF G
<1>7. Visit = [k \in Nat |-> F(Visit, k)]
  BY <1>6 DEF Visit
<1>8. \A k \in Nat : Visit[k] = F(Visit, k)
  BY <1>7
<1> DEFINE T == {k \in Nat : Visit[k] = G[k]}
<1>9. 0 \in T
  BY <1>5, <1>8
<1>10. ASSUME NEW k \in Nat, k \in T PROVE k + 1 \in T
  <2>1. k + 1 \in Nat /\ k + 1 # 0 /\ (k + 1) - 1 = k /\ Visit[k] = G[k]
    BY <1>10
  <2>2. F(Visit, k + 1) = F(G, k + 1)
    BY <2>1
  <2> HIDE DEF F
  <2>3. QED
    BY <1>5, <1>8, <2>1, <2>2
<1> HIDE DEF T
<1>11. \A k \in Nat : k \in T
  BY <1>9, <1>10, SuccessorsReachAll
<1> USE DEF T
<1>12. SUFFICES ASSUME NEW k \in Nat, k * Block < Wrap PROVE Visit[k].t = k * Block
  OBVIOUS
<1>13. Visit[k].t = (k * Block) % Wrap
  <2>1. Visit[k] = [t |-> (k * Block) % Wrap, size |-> Size0(k)]
    BY <1>2, <1>11
  <2>2. QED
    BY <2>1
<1>14. \A a \in Nat : a < Wrap => a % Wrap = a
  BY <1>1
<1>15. QED
  BY <1>1, <1>12, <1>13, <1>14
-----------------------------------------------------------------------------
(* Blocks and headers of the archive *)

Blocks == Size \div Block

(* The archive is made of blocks.                                            *)
LEMMA ArchiveBlocks ==
    /\ Block \in Nat /\ Block > 1 /\ Size \in Nat /\ Blocks \in Nat
    /\ Size = Blocks * Block
    /\ \A k \in 0 .. Blocks : k * Block \in Nat /\ k * Block <= Size /\ k * Block < Wrap
    /\ \A k \in 0 .. Blocks : k * Block < Size => k * Block + Block <= Size /\ k < Blocks
    /\ \A k \in 0 .. Blocks - 1 : k * Block < Size
<1>1. Block \in Nat /\ Block > 1 /\ Size \in Nat /\ Wrap \in Nat /\ Size < Wrap /\ Size % Block = 0
  <2>1. Len(Archive) \in Nat
    BY ArchiveOK, LenProperties DEF ArchiveOK
  <2>2. QED
    BY <2>1, ArchiveOK DEF ArchiveOK, Size
<1>2. PICK q \in Nat, r \in 0 .. Block - 1 : Size = Block * q + r /\ Size % Block = r
  BY <1>1, Division
<1>3. Size = Block * q
  BY <1>1, <1>2
<1>4. Blocks = q
  BY <1>1, <1>3 DEF Blocks
<1>5. \A k \in 0 .. q : k * Block \in Nat /\ k * Block <= q * Block
  <2> SUFFICES ASSUME NEW k \in 0 .. q PROVE k * Block \in Nat /\ k * Block <= q * Block
    OBVIOUS
  <2>1. PICK d \in Nat : q = k + d
    <3>1. q - k \in Nat /\ q = k + (q - k)
      BY <1>2
    <3>2. QED
      BY <3>1
  <2>2. q * Block = k * Block + d * Block /\ k * Block \in Nat /\ d * Block \in Nat
    BY <1>1, <2>1
  <2>3. QED
    BY <2>2
<1>6. \A k \in 0 .. q : k < q => k * Block + Block <= q * Block
  <2> SUFFICES ASSUME NEW k \in 0 .. q, k < q PROVE k * Block + Block <= q * Block
    OBVIOUS
  <2>1. (k + 1) * Block = k * Block + Block
    BY <1>1
  <2>2. k + 1 \in 0 .. q
    BY <1>2
  <2>3. QED
    BY <1>5, <2>1, <2>2
<1>7. q * Block = Size
  BY <1>1, <1>2, <1>3
<1>8. ASSUME NEW k \in 0 .. q, k * Block < Size PROVE k < q
  <2>1. k # q
    BY <1>1, <1>7, <1>8
  <2>2. QED
    BY <1>2, <2>1
<1>9. \A k \in 0 .. q - 1 : k * Block < Size
  BY <1>1, <1>2, <1>5, <1>6, <1>7
<1>10. QED
  BY <1>1, <1>2, <1>4, <1>5, <1>6, <1>7, <1>8, <1>9

(* The blocks that start with a name, and the search for the first of them.  *)
Hits(name) == {k \in 0 .. Blocks - 1 : At(k * Block, name)}

LEMMA SearchIs ==
    ASSUME NEW name
    PROVE  searchTarfs(name) = IF Hits(name) = {} THEN -1 ELSE Min(Hits(name)) * Block
<1> DEFINE hits == {k \in 0 .. Size \div Block : Visit[k].t < Size /\ At(Visit[k].t, name)}
<1>1. \A k \in 0 .. Blocks : Visit[k].t = k * Block
  BY VisitIs, ArchiveBlocks
<1>2. hits = {k \in 0 .. Blocks : k * Block < Size /\ At(k * Block, name)}
  BY <1>1 DEF Blocks
<1>3. hits = Hits(name)
  BY <1>2, ArchiveBlocks DEF Hits
<1>4. searchTarfs(name) = IF hits = {} THEN -1 ELSE Visit[Min(hits)].t
  BY DEF searchTarfs
<1> HIDE DEF hits
<1>5. CASE hits = {}
  BY <1>3, <1>4, <1>5
<1>6. CASE hits # {}
  <2>1. Hits(name) \subseteq Nat /\ Hits(name) \subseteq 0 .. Blocks
    BY ArchiveBlocks DEF Hits
  <2>2. Min(Hits(name)) \in 0 .. Blocks
    BY <1>3, <1>6, <2>1, MinIs
  <2>3. QED
    BY <1>1, <1>3, <1>4, <1>6, <2>2
<1>7. QED
  BY <1>5, <1>6

(* A file that is found lies in the archive, with its header.                *)
LEMMA SearchRange ==
    ASSUME NEW name, searchTarfs(name) # -1
    PROVE  searchTarfs(name) \in Nat /\ searchTarfs(name) + Block <= Size
<1>1. Hits(name) # {} /\ searchTarfs(name) = Min(Hits(name)) * Block
  BY SearchIs
<1>2. Hits(name) \subseteq Nat /\ Hits(name) \subseteq 0 .. Blocks - 1
  BY ArchiveBlocks DEF Hits
<1>3. Min(Hits(name)) \in 0 .. Blocks - 1
  BY <1>1, <1>2, MinIs
<1>4. QED
  BY <1>1, <1>3, ArchiveBlocks

(* What a prefix is.                                                         *)
LEMMA PrefixIs ==
    ASSUME NEW S, NEW s \in Seq(S), NEW t \in Seq(S)
    PROVE  IsPrefix(s, t) <=> Len(s) <= Len(t) /\ \A i \in 1 .. Len(s) : s[i] = t[i]
<1>1. Len(s) \in Nat /\ Len(t) \in Nat
  BY LenProperties
<1>2. SubSeq(s, 1, Len(s)) = s
  BY SubSeqFull
<1>3. ASSUME Len(s) <= Len(t)
      PROVE  /\ SubSeq(t, 1, Len(s)) \in Seq(S) /\ Len(SubSeq(t, 1, Len(s))) = Len(s)
             /\ \A i \in 1 .. Len(s) : SubSeq(t, 1, Len(s))[i] = t[i]
  <2>1. \A i \in 1 .. Len(s) : t[i] \in S
    BY <1>1, <1>3, ElementOfSeq
  <2>2. /\ SubSeq(t, 1, Len(s)) \in Seq(S)
        /\ Len(SubSeq(t, 1, Len(s))) = IF 1 <= Len(s) THEN Len(s) - 1 + 1 ELSE 0
        /\ \A i \in 1 .. Len(s) - 1 + 1 : SubSeq(t, 1, Len(s))[i] = t[1 + i - 1]
    BY <1>1, <2>1, SubSeqProperties
  <2>3. QED
    BY <1>1, <2>2
<1>4. ASSUME Len(s) <= Len(t), \A i \in 1 .. Len(s) : s[i] = t[i]
      PROVE  s = SubSeq(t, 1, Len(s))
  <2>1. PICK u : u = SubSeq(t, 1, Len(s))
    OBVIOUS
  <2>2. u \in Seq(S) /\ Len(s) = Len(u) /\ \A i \in 1 .. Len(s) : s[i] = u[i]
    BY <1>3, <1>4, <2>1
  <2>3. QED
    BY <2>1, <2>2, SeqEqual
<1>5. QED
  BY <1>2, <1>3, <1>4 DEF IsPrefix

(* The file's header starts with a name exactly if the file's name does.     *)
LEMMA HeaderStarts ==
    ASSUME NEW name \in Names, NEW i \in Files
    PROVE  At(Contents[i].at, name) <=> IsPrefix(name, Contents[i].name)
<1> DEFINE f == Contents[i]
           S == Range(name) \cup Range(f.name) \cup {Nul}
<1>1. f.at \in Nat /\ f.name \in Seq(Range(f.name)) /\ At(f.at, Append(f.name, Nul))
  BY ContentsOK DEF ContentsOK, Files
<1>2. name \in Seq(Range(name) \ {Nul})
  BY NamesOK DEF NamesOK
<1>3. name \in Seq(S) /\ f.name \in Seq(S) /\ Nul \in S
  BY <1>1, <1>2, SeqMonotonic
<1>4. Nul \notin Range(name) \ {Nul}
  OBVIOUS
<1>5. \A j \in 1 .. Len(name) : name[j] # Nul
  BY <1>2, <1>4, ElementOfSeq
<1> HIDE DEF f, S
<1>6. Len(name) \in Nat /\ Len(f.name) \in Nat
  BY <1>3, LenProperties
<1>7. /\ Len(Append(f.name, Nul)) = Len(f.name) + 1
      /\ \A j \in 1 .. Len(f.name) : Append(f.name, Nul)[j] = f.name[j]
      /\ Append(f.name, Nul)[Len(f.name) + 1] = Nul
  BY <1>3, AppendProperties
<1>8. /\ f.at + Len(f.name) + 1 <= Size
      /\ \A j \in 1 .. Len(f.name) : Byte(f.at + j - 1) = f.name[j]
      /\ Byte(f.at + (Len(f.name) + 1) - 1) = Nul
  <2>1. PICK a : a = Append(f.name, Nul)
    OBVIOUS
  <2>2. /\ f.at + Len(a) <= Size
        /\ \A j \in 1 .. Len(a) : Byte(f.at + j - 1) = a[j]
    BY <1>1, <2>1 DEF At
  <2>3. /\ Len(a) = Len(f.name) + 1 /\ a[Len(f.name) + 1] = Nul
        /\ \A j \in 1 .. Len(f.name) : a[j] = f.name[j]
    BY <1>7, <2>1
  <2>4. Len(f.name) + 1 \in 1 .. Len(a)
    BY <1>6, <2>3
  <2>5. Byte(f.at + (Len(f.name) + 1) - 1) = a[Len(f.name) + 1]
    BY <2>2, <2>4
  <2>6. \A j \in 1 .. Len(f.name) : j \in 1 .. Len(a)
    BY <1>6, <2>3
  <2>7. f.at + Len(f.name) + 1 <= Size
    BY <1>1, <1>6, <2>2, <2>3, ArchiveBlocks
  <2>8. QED
    BY <2>2, <2>3, <2>5, <2>6, <2>7
<1>9. IsPrefix(name, f.name) <=> Len(name) <= Len(f.name) /\ \A j \in 1 .. Len(name) : name[j] = f.name[j]
  BY <1>3, PrefixIs
<1>10. ASSUME IsPrefix(name, f.name) PROVE At(f.at, name)
  BY <1>1, <1>6, <1>8, <1>9, <1>10, ArchiveBlocks DEF At
<1>11. ASSUME At(f.at, name) PROVE IsPrefix(name, f.name)
  <2>1. \A j \in 1 .. Len(name) : Byte(f.at + j - 1) = name[j]
    BY <1>11 DEF At
  <2>2. Len(name) <= Len(f.name)
    <3>1. SUFFICES ASSUME Len(name) > Len(f.name) PROVE FALSE
      BY <1>6
    <3>2. Len(f.name) + 1 \in 1 .. Len(name)
      BY <1>6, <3>1
    <3>3. name[Len(f.name) + 1] = Nul
      BY <1>8, <2>1, <3>2
    <3>4. QED
      BY <1>5, <3>2, <3>3
  <2>3. \A j \in 1 .. Len(name) : name[j] = f.name[j]
    BY <1>6, <1>8, <2>1, <2>2
  <2>4. QED
    BY <1>9, <2>2, <2>3
<1>12. QED
  BY <1>10, <1>11 DEF f

(* A header is a block of the archive.                                       *)
LEMMA HeaderIsBlock ==
    ASSUME NEW i \in Files
    PROVE  \E k \in 0 .. Blocks - 1 : Contents[i].at = k * Block
<1> DEFINE f == Contents[i]
<1>1. f.at \in Nat /\ f.at % Block = 0 /\ f.name \in Seq(Range(f.name)) /\ At(f.at, Append(f.name, Nul))
  BY ContentsOK DEF ContentsOK, Files
<1> HIDE DEF f
<1>2. PICK k \in Nat, r \in 0 .. Block - 1 : f.at = Block * k + r /\ f.at % Block = r
  <2>1. Block \in Nat \ {0}
    BY ArchiveBlocks
  <2>2. QED
    BY <1>1, <2>1, Division
<1>3. f.at = k * Block
  BY <1>1, <1>2, ArchiveBlocks
<1>4. f.at < Size
  <2>1. f.name \in Seq(Range(f.name) \cup {Nul})
    BY <1>1, SeqMonotonic
  <2>2. Len(Append(f.name, Nul)) = Len(f.name) + 1 /\ Len(f.name) \in Nat
    BY <2>1, AppendProperties, LenProperties
  <2>3. QED
    BY <1>1, <2>2, ArchiveBlocks DEF At
<1>5. k < Blocks
  <2>1. SUFFICES ASSUME k >= Blocks PROVE FALSE
    BY ArchiveBlocks
  <2>2. PICK d \in Nat : k = Blocks + d
    <3>1. k - Blocks \in Nat /\ k = Blocks + (k - Blocks)
      BY <2>1, ArchiveBlocks
    <3>2. QED
      BY <3>1
  <2>3. k * Block = Blocks * Block + d * Block /\ d * Block \in Nat
    BY <2>2, ArchiveBlocks
  <2>4. QED
    BY <1>3, <1>4, <2>3, ArchiveBlocks
<1>6. QED
  BY <1>3, <1>5, ArchiveBlocks DEF f

(* The search finds the first file whose name begins as asked, if no other   *)
(* block looks like its header.                                              *)
LEMMA SearchFinds ==
    ASSUME NEW name \in Names, ~ Mistakable(name)
    PROVE  searchTarfs(name) = IF Begins(name) = {} THEN -1
                               ELSE Contents[Min(Begins(name))].at
<1>1. \A i \in Begins(name) : \E k \in Hits(name) : Contents[i].at = k * Block
  BY HeaderIsBlock, HeaderStarts DEF Hits, Begins
<1>2. \A k \in Hits(name) : \E i \in Begins(name) : Contents[i].at = k * Block
  <2> SUFFICES ASSUME NEW k \in Hits(name)
               PROVE  \E i \in Begins(name) : Contents[i].at = k * Block
    OBVIOUS
  <2>1. k \in 0 .. Blocks - 1 /\ At(k * Block, name)
    BY DEF Hits
  <2>2. k * Block \in Headers
    BY <2>1 DEF Mistakable, Blocks
  <2>3. PICK i \in Files : Contents[i].at = k * Block
    BY <2>2 DEF Headers
  <2>4. QED
    BY <2>1, <2>3, HeaderStarts DEF Begins
<1>3. CASE Begins(name) = {}
  BY <1>2, <1>3, SearchIs
<1>4. CASE Begins(name) # {}
  <2>1. Begins(name) \subseteq Nat
    BY ContentsOK DEF Begins, Files, ContentsOK
  <2>2. PICK m \in Begins(name) : m = Min(Begins(name)) /\ \A i \in Begins(name) : m <= i
    BY <1>4, <2>1, MinIs
  <2>3. PICK k \in Hits(name) : Contents[m].at = k * Block
    BY <1>1
  <2>4. ASSUME NEW j \in Hits(name) PROVE k <= j
    <3>1. PICK i \in Begins(name) : Contents[i].at = j * Block
      BY <1>2
    <3>2. m <= i /\ m \in Files /\ i \in Files
      BY <2>2 DEF Begins
    <3>3. Contents[m].at <= Contents[i].at
      BY <3>2, ContentsOK DEF ContentsOK, Files
    <3>4. k \in Nat /\ j \in Nat
      BY ArchiveBlocks DEF Hits
    <3>5. SUFFICES ASSUME j + 1 <= k PROVE FALSE
      BY <3>4
    <3>6. PICK d \in Nat : k = j + 1 + d
      <4>1. k - j - 1 \in Nat /\ k = j + 1 + (k - j - 1)
        BY <3>4, <3>5
      <4>2. QED
        BY <4>1
    <3>7. k * Block = j * Block + Block + d * Block /\ d * Block \in Nat /\ j * Block \in Nat
      BY <3>4, <3>6, ArchiveBlocks
    <3>8. QED
      BY <2>3, <3>1, <3>3, <3>7, ArchiveBlocks
  <2>5. Hits(name) \subseteq Nat
    BY ArchiveBlocks DEF Hits
  <2>6. Min(Hits(name)) = k
    BY <2>4, <2>5, MinOf
  <2>7. QED
    BY <1>4, <2>2, <2>3, <2>6, SearchIs
<1>5. QED
  BY <1>3, <1>4
-----------------------------------------------------------------------------
(* What a read copies *)

(* A '\0' or the end of the archive.                                         *)
Ends(a) == a = Size \/ Byte(a) = Nul

(* copyBytes2 stops short of count only at a '\0', and copies none.          *)
LEMMA CopyIs ==
    ASSUME NEW a \in 0 .. Size, NEW count \in Nat \ {0}
    PROVE  \E n \in 0 .. count :
              /\ copyBytes2(a, count) = SubSeq(Archive, a + 1, a + n)
              /\ a + n <= Size /\ Len(copyBytes2(a, count)) = n
              /\ copyBytes2(a, count) \in Seq(Range(Archive) \ {Nul})
              /\ n < count => Ends(a + n)
<1> DEFINE ends == {n \in 0 .. count - 1 : a + n >= Size \/ Byte(a + n) = Nul}
<1>1. Size \in Nat /\ a \in Nat
  BY ArchiveBlocks
<1>2. PICK n : n = IF ends = {} THEN count ELSE Min(ends)
  OBVIOUS
<1>3. copyBytes2(a, count) = SubSeq(Archive, a + 1, a + n)
  BY <1>2 DEF copyBytes2
<1>4. ends \subseteq Nat
  BY <1>1
<1>5. /\ n \in 0 .. count /\ a + n <= Size
      /\ n < count => Ends(a + n)
      /\ \A m \in 0 .. n - 1 : a + m < Size /\ Byte(a + m) # Nul
  <2>1. CASE ends = {}
    <3>1. n = count
      BY <1>2, <2>1
    <3>2. ASSUME NEW m \in 0 .. count - 1 PROVE a + m < Size /\ Byte(a + m) # Nul
      <4>1. m \notin ends
        BY <2>1
      <4>2. ~ (a + m >= Size) /\ Byte(a + m) # Nul
        BY <4>1
      <4>3. QED
        BY <1>1, <4>2
    <3>3. a + (count - 1) < Size
      BY <3>2
    <3>4. QED
      BY <1>1, <3>1, <3>2, <3>3
  <2>2. CASE ends # {}
    <3>1. n \in ends /\ \A m \in ends : n <= m
      BY <1>2, <1>4, <2>2, MinIs
    <3>2. n \in 0 .. count - 1 /\ (a + n >= Size \/ Byte(a + n) = Nul)
      BY <3>1
    <3>3. \A m \in 0 .. n - 1 : m \in 0 .. count - 1 /\ m \notin ends
      <4> SUFFICES ASSUME NEW m \in 0 .. n - 1 PROVE m \in 0 .. count - 1 /\ m \notin ends
        OBVIOUS
      <4>1. m \in 0 .. count - 1 /\ ~ (n <= m)
        BY <3>2
      <4>2. QED
        BY <3>1, <4>1
    <3>4. \A m \in 0 .. n - 1 : a + m < Size /\ Byte(a + m) # Nul
      BY <1>1, <3>3
    <3>5. a + n <= Size
      <4>1. CASE n = 0
        BY <1>1, <4>1
      <4>2. CASE n # 0
        <5>1. n - 1 \in 0 .. n - 1
          BY <3>2, <4>2
        <5>2. a + (n - 1) < Size
          BY <3>4, <5>1
        <5>3. QED
          BY <1>1, <3>2, <5>2
      <4>3. QED
        BY <4>1, <4>2
    <3>6. QED
      BY <1>1, <3>2, <3>4, <3>5 DEF Ends
  <2>3. QED
    BY <2>1, <2>2
<1> HIDE DEF ends
<1>6. \A i \in a + 1 .. a + n : Archive[i] \in Range(Archive) \ {Nul}
  <2> SUFFICES ASSUME NEW i \in a + 1 .. a + n PROVE Archive[i] \in Range(Archive) \ {Nul}
    OBVIOUS
  <2>1. i - a - 1 \in 0 .. n - 1 /\ a + (i - a - 1) = i - 1
    BY <1>1, <1>5
  <2>2. Byte(i - 1) # Nul
    BY <1>5, <2>1
  <2>3. (i - 1) + 1 = i
    BY <1>1
  <2>4. Archive[i] # Nul
    BY <2>2, <2>3 DEF Byte
  <2>5. i \in 1 .. Len(Archive)
    BY <1>1, <1>5 DEF Size
  <2>6. Archive[i] \in Range(Archive)
    BY <2>5, ArchiveOK, ElementOfSeq DEF ArchiveOK
  <2>7. QED
    BY <2>4, <2>6
<1>7. /\ SubSeq(Archive, a + 1, a + n) \in Seq(Range(Archive) \ {Nul})
      /\ Len(SubSeq(Archive, a + 1, a + n)) =
            IF a + 1 <= a + n THEN (a + n) - (a + 1) + 1 ELSE 0
  <2>1. a + 1 \in Int /\ a + n \in Int
    BY <1>1, <1>5
  <2>2. QED
    BY <1>6, <2>1, SubSeqProperties
<1>8. Len(SubSeq(Archive, a + 1, a + n)) = n
  BY <1>1, <1>5, <1>7
<1>9. QED
  BY <1>3, <1>5, <1>7, <1>8

(* A stretch of the archive that a read continues.                           *)
LEMMA PiecesJoin ==
    ASSUME NEW s \in 0 .. Size, NEW a \in s .. Size, NEW e \in a .. Size
    PROVE  SubSeq(Archive, s + 1, a) \o SubSeq(Archive, a + 1, e) = SubSeq(Archive, s + 1, e)
<1>1. Size \in Nat /\ Size = Len(Archive) /\ Archive \in Seq(Range(Archive))
  BY ArchiveBlocks, ArchiveOK DEF ArchiveOK, Size
<1>2. PICK m \in 1 .. Len(Archive) + 1 : m = s + 1
  BY <1>1
<1>3. a \in m - 1 .. Len(Archive) /\ e \in a .. Len(Archive)
  BY <1>1, <1>2
<1>4. SubSeq(Archive, m, a) \o SubSeq(Archive, a + 1, e) = SubSeq(Archive, m, e)
  BY <1>1, <1>3, ConcatAdjacentSubSeq
<1>5. QED
  BY <1>2, <1>4

-----------------------------------------------------------------------------
(* The inductive invariant *)

Places == -1 .. Slots - 1
Slot == [free : BOOLEAN, start : {Unset} \cup Block .. Size,
         offset : {Unset} \cup 0 .. Size]
Gotten == [bytes : Seq(Range(Archive) \ {Nul}), short : BOOLEAN]
Handle == [name : Names, fd : {-1, 3}, closed : BOOLEAN]

Types ==
    /\ fdArr \in [Places -> Slot] /\ got \in [Places -> Gotten]
    /\ handles \in Seq(Handle)
    /\ hung \in BOOLEAN /\ astray \in BOOLEAN

(* Every open gets slot 3: it is the first free one, and stays free.         *)
OneSlot ==
    /\ \A i \in 0 .. Slots - 1 : fdArr[i].free <=> i >= 3
    /\ \A i \in Places : i # 3 => fdArr[i].start = Unset

(* What was read since the slot was set are the bytes from its start to its  *)
(* place.                                                                    *)
Place == fdArr[3].start + fdArr[3].offset

Reading ==
    fdArr[3].start # Unset =>
        /\ fdArr[3].offset \in 0 .. Size /\ Place <= Size
        /\ got[3].bytes = SubSeq(Archive, fdArr[3].start + 1, Place)
        /\ got[3].short => Ends(Place)

(* A descriptor says what the search found; the last that found a file has   *)
(* set the slot.                                                             *)
HandleOK(h) ==
    LET at == searchTarfs(handles[h].name)
    IN  /\ handles[h].fd = (IF at = -1 THEN -1 ELSE 3)
        /\ (at # -1 /\ Newest(h)) => fdArr[3].start = at + Block

FilesInv == Types /\ OneSlot /\ Reading /\ \A h \in 1 .. Len(handles) : HandleOK(h)

(* The slots at the start.                                                   *)
LEMMA InitInv == Init => FilesInv
<1> SUFFICES ASSUME Init PROVE FilesInv
  OBVIOUS
<1> USE DEF Init
<1>1. Slots \in Nat /\ Slots > 3 /\ Size \in Nat
  BY ArchiveBlocks, ArchiveOK DEF ArchiveOK
<1>2. <<>> \in Seq(Range(Archive) \ {Nul}) /\ <<>> \in Seq(Handle) /\ Len(<<>>) = 0
  BY EmptySeq
<1>3. fdArr \in [Places -> Slot]
  <2>1. \A i \in Places : [free |-> i >= 3, start |-> Unset, offset |-> Unset] \in Slot
    BY <1>1 DEF Slot, Places
  <2>2. QED
    BY <2>1 DEF Places
<1>4. got \in [Places -> Gotten]
  BY <1>2 DEF Places, Gotten
<1>5. OneSlot
  <2>1. \A i \in -1 .. Slots - 1 :
            fdArr[i] = [free |-> i >= 3, start |-> Unset, offset |-> Unset]
    BY Zenon
  <2>2. \A i \in -1 .. Slots - 1 : fdArr[i].free = (i >= 3) /\ fdArr[i].start = Unset
    BY <2>1, Zenon
  <2>3. \A i \in 0 .. Slots - 1 : i \in -1 .. Slots - 1
    BY <1>1
  <2>4. \A i \in 0 .. Slots - 1 : fdArr[i].free = (i >= 3)
    BY <2>2, <2>3, Zenon
  <2>5. \A i \in Places : i # 3 => fdArr[i].start = Unset
    BY <2>2, Zenon DEF Places
  <2>6. QED
    BY <2>4, <2>5, Zenon DEF OneSlot
<1>6. Reading
  BY <1>1 DEF Reading
<1>7. \A h \in 1 .. Len(handles) : HandleOK(h)
  BY <1>2
<1>8. QED
  BY <1>2, <1>3, <1>4, <1>5, <1>6, <1>7 DEF FilesInv, Types

(* The first free slot is slot 3.                                            *)
LEMMA FreeFdIsThree == OneSlot => getFreeFd = 3
<1> SUFFICES ASSUME OneSlot PROVE getFreeFd = 3
  OBVIOUS
<1> DEFINE free == {i \in 0 .. Slots - 1 : fdArr[i].free}
<1>1. Slots \in Nat /\ Slots > 3
  BY ArchiveOK DEF ArchiveOK
<1>2. free \subseteq Nat /\ 3 \in free /\ \A i \in free : 3 <= i
  BY <1>1 DEF OneSlot
<1> HIDE DEF free
<1>3. Min(free) = 3
  BY <1>2, MinOf
<1>4. QED
  BY <1>3 DEF free, getFreeFd
-----------------------------------------------------------------------------
(* The steps *)

(* An open, which finds a file or not.                                       *)
LEMMA OpenInv ==
    ASSUME FilesInv, NEW name \in Names, open(name)
    PROVE  FilesInv'
<1> DEFINE at == searchTarfs(name)
<1>1. Types /\ OneSlot /\ Reading /\ \A h \in 1 .. Len(handles) : HandleOK(h)
  BY DEF FilesInv
<1>2. PICK fd : fd = IF at = -1 THEN -1 ELSE 3
  OBVIOUS
<1>3. getFreeFd = 3
  BY <1>1, FreeFdIsThree
<1>4. /\ handles' = Append(handles, [name |-> name, fd |-> fd, closed |-> FALSE])
      /\ at = -1 => UNCHANGED <<fdArr, got>>
      /\ at # -1 => /\ fdArr' = [fdArr EXCEPT ![3] = initializeFd(at)]
                    /\ got' = [got EXCEPT ![3] = [bytes |-> <<>>, short |-> FALSE]]
      /\ UNCHANGED <<hung, astray>>
  BY <1>2, <1>3 DEF open
<1> DEFINE new == [name |-> name, fd |-> fd, closed |-> FALSE]
<1>5. new \in Handle /\ fd \in {-1, 3}
  BY <1>2 DEF Handle
<1> HIDE DEF at
<1>6. /\ handles' \in Seq(Handle) /\ Len(handles) \in Nat
      /\ Len(handles') = Len(handles) + 1
      /\ \A h \in 1 .. Len(handles) : handles'[h] = handles[h]
      /\ handles'[Len(handles) + 1] = new
  BY <1>1, <1>4, <1>5, AppendProperties, LenProperties DEF Types
<1>7. 3 \in Places /\ 3 \in 0 .. Slots - 1 /\ Block \in Nat /\ Size \in Nat
  BY ArchiveBlocks, ArchiveOK DEF ArchiveOK, Places
<1>8. ASSUME at # -1 PROVE at \in Nat /\ at + Block <= Size
  BY <1>8, SearchRange DEF at
<1>9. ASSUME at # -1
      PROVE  /\ fdArr'[3] = [free |-> TRUE, start |-> at + Block, offset |-> 0]
             /\ got'[3] = [bytes |-> <<>>, short |-> FALSE]
             /\ \A i \in Places : i # 3 => fdArr'[i] = fdArr[i]
  BY <1>1, <1>4, <1>7, <1>9 DEF Types, initializeFd
<1>10. Types'
  <2>1. CASE at = -1
    BY <1>1, <1>4, <1>6, <2>1 DEF Types
  <2>2. CASE at # -1
    <3>1. initializeFd(at) \in Slot
      BY <1>7, <1>8, <2>2 DEF initializeFd, Slot
    <3>2. [bytes |-> <<>>, short |-> FALSE] \in Gotten
      BY EmptySeq DEF Gotten
    <3>3. QED
      BY <1>1, <1>4, <1>6, <2>2, <3>1, <3>2 DEF Types
  <2>3. QED
    BY <2>1, <2>2
<1>11. OneSlot'
  <2>1. CASE at = -1
    BY <1>1, <1>4, <2>1 DEF OneSlot
  <2>2. CASE at # -1
    <3>1. fdArr'[3].free = TRUE
      BY <1>9, <2>2
    <3>2. \A i \in 0 .. Slots - 1 : i \in Places
      BY ArchiveOK DEF ArchiveOK, Places
    <3>3. ASSUME NEW i \in 0 .. Slots - 1 PROVE fdArr'[i].free <=> i >= 3
      <4>1. CASE i = 3
        BY <3>1, <4>1
      <4>2. CASE i # 3
        BY <1>1, <1>9, <2>2, <3>2, <4>2 DEF OneSlot
      <4>3. QED
        BY <4>1, <4>2
    <3>4. \A i \in Places : i # 3 => fdArr'[i].start = Unset
      BY <1>1, <1>9, <2>2 DEF OneSlot
    <3>5. QED
      BY <3>3, <3>4 DEF OneSlot
  <2>3. QED
    BY <2>1, <2>2
<1>12. Reading'
  <2>1. CASE at = -1
    BY <1>1, <1>4, <2>1 DEF Reading, Place
  <2>2. CASE at # -1
    <3>1. /\ Place' = at + Block /\ fdArr'[3].start = at + Block
          /\ fdArr'[3].offset \in 0 .. Size
      BY <1>7, <1>8, <1>9, <2>2 DEF Place
    <3>2. SubSeq(Archive, (at + Block) + 1, at + Block) = <<>>
      BY <1>7, <1>8, <2>2, SubSeqEmpty
    <3>3. got'[3].short = FALSE /\ got'[3].bytes = <<>>
      BY <1>9, <2>2
    <3>4. QED
      BY <1>8, <2>2, <3>1, <3>2, <3>3 DEF Reading
  <2>3. QED
    BY <2>1, <2>2
<1>13. ASSUME NEW h \in 1 .. Len(handles') PROVE HandleOK(h)'
  <2>1. CASE h = Len(handles) + 1
    <3>1. handles'[h] = new
      BY <1>6, <2>1
    <3>2. handles'[h].name = name /\ handles'[h].fd = fd
      BY <3>1
    <3>3. at # -1 => fdArr'[3].start = at + Block
      BY <1>9
    <3>4. searchTarfs(handles'[h].name) = at
      BY <3>2 DEF at
    <3>5. QED
      BY <1>2, <3>2, <3>3, <3>4 DEF HandleOK
  <2>2. CASE h # Len(handles) + 1
    <3>1. h \in 1 .. Len(handles)
      BY <1>6, <2>2
    <3>2. handles'[h] = handles[h] /\ HandleOK(h)
      BY <1>1, <1>6, <3>1
    <3>3. CASE at = -1
      <4>1. Newest(h)' => Newest(h)
        <5>1. \A g \in h + 1 .. Len(handles) : g \in h + 1 .. Len(handles') /\ handles'[g] = handles[g]
          BY <1>6, <3>1
        <5>2. QED
          BY <3>2, <5>1 DEF Newest
      <4>2. fdArr' = fdArr
        BY <1>4, <3>3
      <4>3. QED
        BY <3>2, <4>1, <4>2 DEF HandleOK
    <3>4. CASE at # -1
      <4>1. Len(handles) + 1 \in h + 1 .. Len(handles')
        BY <1>6, <3>1
      <4>2. handles'[Len(handles) + 1].fd = 3
        BY <1>2, <1>6, <3>4
      <4>3. Newest(h)' => handles'[h].fd # 3
        BY <4>1, <4>2 DEF Newest
      <4>4. QED
        BY <3>2, <4>3 DEF HandleOK
    <3>5. QED
      BY <3>3, <3>4
  <2>3. QED
    BY <2>1, <2>2
<1>14. QED
  BY <1>10, <1>11, <1>12, <1>13 DEF FilesInv

(* Descriptors are those of slot 3 and of failed opens.                      *)
LEMMA HandleTypes ==
    ASSUME FilesInv, NEW h \in 1 .. Len(handles)
    PROVE  /\ handles[h] \in Handle /\ handles[h].fd \in {-1, 3}
           /\ handles[h].fd \in Places /\ 3 \in Places
<1>1. handles \in Seq(Handle)
  BY DEF FilesInv, Types
<1>2. handles[h] \in Handle
  BY <1>1, ElementOfSeq
<1>3. -1 \in Places /\ 3 \in Places
  BY ArchiveOK DEF ArchiveOK, Places
<1>4. QED
  BY <1>2, <1>3 DEF Handle

(* Steps that change no descriptor and not where slot 3 starts.              *)
LEMMA HandlesKeep ==
    ASSUME \A h \in 1 .. Len(handles) : HandleOK(h),
           Len(handles') = Len(handles),
           \A h \in 1 .. Len(handles) : /\ handles'[h].name = handles[h].name
                                        /\ handles'[h].fd = handles[h].fd,
           fdArr'[3].start = fdArr[3].start, Len(handles) \in Nat
    PROVE  \A h \in 1 .. Len(handles') : HandleOK(h)'
<1> SUFFICES ASSUME NEW h \in 1 .. Len(handles) PROVE HandleOK(h)'
  OBVIOUS
<1>1. Newest(h)' <=> Newest(h)
  BY DEF Newest
<1>2. HandleOK(h)
  OBVIOUS
<1>3. QED
  BY <1>1, <1>2 DEF HandleOK

(* close changes nothing that matters: the slot was free all the time.       *)
LEMMA CloseInv ==
    ASSUME FilesInv, NEW h \in 1 .. Len(handles), close(h)
    PROVE  FilesInv'
<1> DEFINE fd == handles[h].fd
<1>1. Types /\ OneSlot /\ Reading /\ \A g \in 1 .. Len(handles) : HandleOK(g)
  BY DEF FilesInv
<1>2. handles[h] \in Handle /\ fd \in {-1, 3} /\ fd \in Places /\ 3 \in Places
  BY HandleTypes
<1>3. /\ fdArr' = [fdArr EXCEPT ![fd].free = TRUE]
      /\ handles' = [handles EXCEPT ![h].closed = TRUE]
      /\ UNCHANGED <<hung, got, astray>>
  BY DEF close
<1>4. handles \in Seq(Handle) /\ Len(handles) \in Nat
  BY <1>1, LenProperties DEF Types
<1> HIDE DEF fd
<1>5. PICK c : c = [handles[h] EXCEPT !.closed = TRUE]
  OBVIOUS
<1>6. c \in Handle /\ c.name = handles[h].name /\ c.fd = handles[h].fd
  BY <1>2, <1>5 DEF Handle
<1>7. handles' = [handles EXCEPT ![h] = c]
  BY <1>3, <1>5
<1>8. /\ handles' \in Seq(Handle) /\ Len(handles') = Len(handles)
      /\ \A g \in 1 .. Len(handles) : handles'[g] = IF g = h THEN c ELSE handles[g]
  BY <1>4, <1>6, <1>7, ExceptSeq
<1>9. \A i \in Places : /\ fdArr[i] \in Slot /\ fdArr'[i] \in Slot
                        /\ fdArr'[i].start = fdArr[i].start
                        /\ fdArr'[i].offset = fdArr[i].offset
                        /\ fdArr'[i].free = IF i = fd THEN TRUE ELSE fdArr[i].free
  BY <1>1, <1>2, <1>3 DEF Types, Slot
<1>10. Types'
  <2>1. fdArr' \in [Places -> Slot]
    BY <1>1, <1>3, <1>9 DEF Types
  <2>2. QED
    BY <1>1, <1>3, <1>8, <2>1 DEF Types
<1>11. OneSlot'
  <2>1. ASSUME NEW i \in 0 .. Slots - 1 PROVE fdArr'[i].free <=> i >= 3
    <3>1. i \in Places
      BY ArchiveOK DEF ArchiveOK, Places
    <3>2. CASE i = fd
      <4>1. i >= 3
        BY <1>2, <3>2
      <4>2. fdArr'[i].free = TRUE
        BY <1>9, <3>1, <3>2
      <4>3. QED
        BY <4>1, <4>2
    <3>3. CASE i # fd
      BY <1>1, <1>9, <3>1, <3>3 DEF OneSlot
    <3>4. QED
      BY <3>2, <3>3
  <2>2. QED
    BY <1>1, <1>9, <2>1 DEF OneSlot
<1>12. fdArr'[3].start = fdArr[3].start /\ fdArr'[3].offset = fdArr[3].offset
  BY <1>2, <1>9
<1>13. Reading'
  BY <1>1, <1>3, <1>12 DEF Reading, Place
<1>14. \A g \in 1 .. Len(handles) : /\ handles'[g].name = handles[g].name
                                    /\ handles'[g].fd = handles[g].fd
  BY <1>6, <1>8
<1>15. \A g \in 1 .. Len(handles') : HandleOK(g)'
  BY <1>1, <1>4, <1>8, <1>12, <1>14, HandlesKeep
<1>16. QED
  BY <1>10, <1>11, <1>13, <1>15 DEF FilesInv

(* A read copies the bytes that follow what was read before.                 *)
LEMMA ReadInv ==
    ASSUME FilesInv, NEW h \in 1 .. Len(handles), NEW count \in Counts,
           fileRead(h, count)
    PROVE  FilesInv'
<1>1. Types /\ OneSlot /\ Reading /\ \A g \in 1 .. Len(handles) : HandleOK(g)
  BY DEF FilesInv
<1>2. handles[h].fd \in {-1, 3} /\ -1 \in Places /\ 3 \in Places
  BY HandleTypes, ArchiveOK DEF ArchiveOK, Places
<1>3. handles[h].fd = 3 /\ fdArr[3].start # Unset
  <2>1. fdArr[handles[h].fd].start # Unset
    BY DEF fileRead
  <2>2. fdArr[-1].start = Unset
    BY <1>1, <1>2 DEF OneSlot
  <2>3. QED
    BY <1>2, <2>1, <2>2
<1>4. PICK bytes : bytes = copyBytes2(Place, count)
  OBVIOUS
<1>5. /\ fdArr' = [fdArr EXCEPT ![3].offset = @ + Len(bytes)]
      /\ got' = [got EXCEPT ![3] = [bytes |-> @.bytes \o bytes,
                                    short |-> Len(bytes) < count]]
      /\ UNCHANGED <<handles, hung, astray>>
  BY <1>3, <1>4 DEF fileRead, Place
<1>6. Block \in Nat /\ Size \in Nat /\ count \in Nat \ {0}
  BY ArchiveBlocks, ArchiveOK DEF ArchiveOK
<1>7. fdArr[3] \in Slot /\ got[3] \in Gotten
  BY <1>1, <1>2 DEF Types
<1>8. PICK start, offset : start = fdArr[3].start /\ offset = fdArr[3].offset
  OBVIOUS
<1>9. /\ start \in Block .. Size /\ offset \in 0 .. Size /\ Place = start + offset
      /\ Place \in start .. Size /\ Place \in 0 .. Size
      /\ got[3].bytes = SubSeq(Archive, start + 1, Place)
  BY <1>1, <1>3, <1>6, <1>7, <1>8 DEF Reading, Slot, Place
<1>10. PICK n \in 0 .. count :
          /\ bytes = SubSeq(Archive, Place + 1, Place + n)
          /\ Place + n <= Size /\ Len(bytes) = n
          /\ bytes \in Seq(Range(Archive) \ {Nul})
          /\ n < count => Ends(Place + n)
  BY <1>4, <1>6, <1>9, CopyIs
<1>11. /\ fdArr'[3] = [fdArr[3] EXCEPT !.offset = offset + n]
       /\ \A i \in Places : i # 3 => fdArr'[i] = fdArr[i]
  BY <1>1, <1>2, <1>5, <1>8, <1>10 DEF Types
<1>12. /\ fdArr'[3].free = fdArr[3].free /\ fdArr'[3].start = start
       /\ fdArr'[3].offset = offset + n
       /\ offset + n \in 0 .. Size /\ fdArr'[3] \in Slot
  <2>1. offset + n \in 0 .. Size
    BY <1>6, <1>9, <1>10
  <2>2. PICK o \in 0 .. Size : o = offset + n
    BY <2>1
  <2>3. fdArr'[3] = [fdArr[3] EXCEPT !.offset = o]
    BY <1>11, <2>2
  <2>4. QED
    BY <1>7, <1>8, <2>2, <2>3 DEF Slot
<1>13. got[3].bytes \o bytes = SubSeq(Archive, start + 1, Place + n)
  <2>1. start \in 0 .. Size /\ Place + n \in Place .. Size
    BY <1>6, <1>9, <1>10
  <2>2. PICK e \in Place .. Size : e = Place + n
    BY <2>1
  <2>3. SubSeq(Archive, start + 1, Place) \o SubSeq(Archive, Place + 1, e)
            = SubSeq(Archive, start + 1, e)
    BY <1>9, <2>1, PiecesJoin
  <2>4. QED
    BY <1>9, <1>10, <2>2, <2>3
<1>14. got'[3] = [bytes |-> got[3].bytes \o bytes, short |-> n < count]
  BY <1>1, <1>2, <1>5, <1>10 DEF Types
<1>15. got[3].bytes \o bytes \in Seq(Range(Archive) \ {Nul})
  BY <1>7, <1>10, ConcatProperties DEF Gotten
<1>16. Types'
  <2>1. fdArr' \in [Places -> Slot]
    BY <1>1, <1>5, <1>11, <1>12 DEF Types
  <2>2. [bytes |-> got[3].bytes \o bytes, short |-> n < count] \in Gotten
    BY <1>15 DEF Gotten
  <2>3. got' \in [Places -> Gotten]
    BY <1>1, <1>5, <1>10, <2>2 DEF Types
  <2>4. QED
    BY <1>1, <1>5, <2>1, <2>3 DEF Types
<1>17. OneSlot'
  <2>1. ASSUME NEW i \in 0 .. Slots - 1 PROVE fdArr'[i].free <=> i >= 3
    <3>1. i \in Places
      BY ArchiveOK DEF ArchiveOK, Places
    <3>2. fdArr'[i].free = fdArr[i].free
      BY <1>11, <1>12, <3>1
    <3>3. QED
      BY <1>1, <3>2 DEF OneSlot
  <2>2. QED
    BY <1>1, <1>11, <2>1 DEF OneSlot
<1>18. Reading'
  <2>1. Place' = Place + n
    BY <1>9, <1>10, <1>12, <1>6 DEF Place
  <2>2. got'[3].bytes = got[3].bytes \o bytes
    BY <1>14
  <2>3. got'[3].short => Ends(Place + n)
    <3>1. CASE n < count
      BY <1>10, <3>1
    <3>2. CASE ~ (n < count)
      <4>1. (n < count) = FALSE
        BY <1>6, <3>2
      <4>2. got'[3] = [bytes |-> got[3].bytes \o bytes, short |-> FALSE]
        BY <1>14, <4>1, Zenon
      <4>3. got'[3].short = FALSE
        BY <4>2
      <4>4. QED
        BY <4>3
    <3>3. QED
      BY <3>1, <3>2
  <2>4. got'[3].bytes = SubSeq(Archive, fdArr'[3].start + 1, Place + n)
    BY <1>12, <1>13, <2>2
  <2>5. QED
    BY <1>10, <1>12, <2>1, <2>3, <2>4 DEF Reading, Ends
<1>19. \A g \in 1 .. Len(handles') : HandleOK(g)'
  <2>1. Len(handles) \in Nat
    BY <1>1, LenProperties DEF Types
  <2>2. QED
    BY <1>1, <1>5, <1>8, <1>12, <2>1, HandlesKeep
<1>20. QED
  BY <1>16, <1>17, <1>18, <1>19 DEF FilesInv

(* A read through a slot no open has set moves an offset nobody knows.       *)
LEMMA AstrayInv ==
    ASSUME FilesInv, NEW h \in 1 .. Len(handles), fileReadAstray(h)
    PROVE  FilesInv'
<1> DEFINE fd == handles[h].fd
<1>1. Types /\ OneSlot /\ Reading /\ \A g \in 1 .. Len(handles) : HandleOK(g)
  BY DEF FilesInv
<1>2. fd \in Places /\ 3 \in Places
  BY HandleTypes
<1>3. /\ fdArr[fd].start = Unset
      /\ fdArr' = [fdArr EXCEPT ![fd].offset = Unset]
      /\ hung' \in BOOLEAN /\ astray' = TRUE
      /\ UNCHANGED <<handles, got>>
  BY DEF fileReadAstray
<1> HIDE DEF fd
<1>4. \A i \in Places : /\ fdArr[i] \in Slot /\ fdArr'[i] \in Slot
                        /\ fdArr'[i].start = fdArr[i].start
                        /\ fdArr'[i].free = fdArr[i].free
                        /\ i # fd => fdArr'[i] = fdArr[i]
  BY <1>1, <1>2, <1>3 DEF Types, Slot
<1>5. fdArr' \in [Places -> Slot]
  BY <1>1, <1>3, <1>4 DEF Types
<1>6. Types'
  BY <1>1, <1>3, <1>5 DEF Types
<1>7. OneSlot'
  <2>1. \A i \in 0 .. Slots - 1 : i \in Places
    BY DEF Places
  <2>2. QED
    BY <1>1, <1>4, <2>1 DEF OneSlot
<1>8. Reading'
  <2>1. CASE fd = 3
    BY <1>2, <1>3, <1>4, <2>1 DEF Reading
  <2>2. CASE fd # 3
    <3>1. fdArr'[3] = fdArr[3]
      BY <1>2, <1>4, <2>2
    <3>2. Place' = Place
      BY <3>1 DEF Place
    <3>3. QED
      BY <1>1, <1>3, <3>1, <3>2 DEF Reading
  <2>3. QED
    BY <2>1, <2>2
<1>9. Len(handles) \in Nat
  BY <1>1, LenProperties DEF Types
<1>10. \A g \in 1 .. Len(handles') : HandleOK(g)'
  BY <1>1, <1>2, <1>3, <1>4, <1>9, HandlesKeep
<1>11. QED
  BY <1>6, <1>7, <1>8, <1>10 DEF FilesInv

(* Every step keeps the invariant.                                           *)
LEMMA StepInv == FilesInv /\ [Next]_vars => FilesInv'
<1> SUFFICES ASSUME FilesInv, [Next]_vars PROVE FilesInv'
  OBVIOUS
<1>1. ASSUME UNCHANGED vars PROVE FilesInv'
  <2>1. UNCHANGED <<fdArr, handles, got, hung, astray>>
    BY <1>1 DEF vars
  <2>2. Types' /\ OneSlot' /\ Reading'
    BY <2>1 DEF FilesInv, Types, OneSlot, Reading, Place
  <2>3. Len(handles) \in Nat
    BY LenProperties DEF FilesInv, Types
  <2>4. \A g \in 1 .. Len(handles') : HandleOK(g)'
    BY <2>1, <2>3, HandlesKeep DEF FilesInv
  <2>5. QED
    BY <2>2, <2>4 DEF FilesInv
<1>2. CASE \E name \in Names : open(name)
  BY <1>2, OpenInv
<1>3. CASE \E h \in 1 .. Len(handles) : close(h)
  BY <1>3, CloseInv
<1>4. CASE \E h \in 1 .. Len(handles) : fileReadAstray(h)
  BY <1>4, AstrayInv
<1>5. CASE \E h \in 1 .. Len(handles), count \in Counts : fileRead(h, count)
  BY <1>5, ReadInv
<1>6. CASE UNCHANGED vars
  BY <1>1, <1>6
<1>7. QED
  BY <1>2, <1>3, <1>4, <1>5, <1>6 DEF Next

(* so it always holds.                                                       *)
LEMMA AlwaysInv == Spec => []FilesInv
BY InitInv, StepInv, PTL DEF Spec
-----------------------------------------------------------------------------
(* The properties *)

(* Slots, descriptors and what was read stay in the archive's bounds, and no *)
(* read returns a '\0'.                                                      *)
THEOREM FilesTypes == Spec => []TypeOK
<1>1. ASSUME FilesInv PROVE TypeOK
  <2>1. Types /\ Size \in Nat /\ Block \in Nat /\ Slots \in Nat /\ Slots > 3
    BY <1>1, ArchiveBlocks, ArchiveOK DEF FilesInv, ArchiveOK
  <2>2. ASSUME NEW i \in -1 .. Slots - 1
        PROVE  /\ fdArr[i].free \in BOOLEAN
               /\ fdArr[i].start \in {Unset} \cup Block .. Size + Block
               /\ fdArr[i].offset \in {Unset} \cup 0 .. Size
               /\ fdArr[i].start # Unset => fdArr[i].offset # Unset
               /\ got[i].bytes \in Seq(Range(Archive) \ {Nul})
    <3>1. fdArr[i] \in Slot /\ got[i] \in Gotten
      BY <2>1 DEF Types, Places
    <3>2. \A a \in Block .. Size : a \in Block .. Size + Block
      BY <2>1
    <3>3. fdArr[i].start # Unset => fdArr[i].offset # Unset
      <4>1. CASE i = 3
        BY <1>1, <2>1, <4>1 DEF FilesInv, Reading, Unset
      <4>2. CASE i # 3
        BY <1>1, <4>2 DEF FilesInv, OneSlot, Places
      <4>3. QED
        BY <4>1, <4>2
    <3>4. QED
      BY <3>1, <3>2, <3>3 DEF Slot, Gotten
  <2>3. ASSUME NEW h \in 1 .. Len(handles)
        PROVE  handles[h].name \in Names /\ handles[h].fd \in -1 .. Slots - 1
    BY <1>1, <2>1, HandleTypes DEF Handle
  <2>4. QED
    BY <2>1, <2>2, <2>3 DEF TypeOK, Types
<1>2. QED
  BY <1>1, AlwaysInv, PTL

(* open finds a file exactly if a file's name begins as asked, and then the  *)
(* first such file, although it never uses a size to get from one header to  *)
(* the next.                                                                 *)
THEOREM OpenIsCorrect == Spec => []OpenFindsFile
<1>1. ASSUME FilesInv PROVE OpenFindsFile
  <2> SUFFICES ASSUME NEW h \in 1 .. Len(handles), ~ Mistakable(handles[h].name)
               PROVE  /\ handles[h].fd = -1 <=> Begins(handles[h].name) = {}
                      /\ (handles[h].fd # -1 /\ Newest(h)) =>
                           fdArr[handles[h].fd].start =
                              Contents[Min(Begins(handles[h].name))].at + Block
    BY DEF OpenFindsFile
  <2>1. PICK name \in Names : name = handles[h].name
    BY <1>1, HandleTypes DEF Handle
  <2>2. HandleOK(h)
    BY <1>1 DEF FilesInv
  <2>3. searchTarfs(name) = IF Begins(name) = {} THEN -1
                            ELSE Contents[Min(Begins(name))].at
    BY <2>1, SearchFinds
  <2>4. Begins(name) # {} => Contents[Min(Begins(name))].at # -1
    <3>1. SUFFICES ASSUME Begins(name) # {} PROVE Contents[Min(Begins(name))].at # -1
      OBVIOUS
    <3>2. Begins(name) \subseteq Nat
      BY ContentsOK DEF Begins, Files, ContentsOK
    <3>3. Min(Begins(name)) \in Files
      BY <3>1, <3>2, MinIs DEF Begins
    <3>4. QED
      BY <3>3, ContentsOK DEF Files, ContentsOK
  <2>5. QED
    BY <2>1, <2>2, <2>3, <2>4 DEF HandleOK
<1>2. QED
  BY <1>1, AlwaysInv, PTL

(* The bytes of a file in the archive are its text, and a '\0' follows.      *)
LEMMA TextIs ==
    ASSUME NEW i \in Files, Len(Contents[i].text) % Block # 0
    PROVE  LET text == Contents[i].text
               start == Contents[i].at + Block
           IN  /\ text \in Seq(Range(text)) /\ Len(text) \in Nat /\ start \in Nat
               /\ start + Len(text) < Size
               /\ \A j \in 1 .. Len(text) : Archive[start + j] = text[j]
               /\ Byte(start + Len(text)) = Nul
<1> DEFINE f == Contents[i]
           start == f.at + Block
<1>1. /\ f.at \in Nat /\ f.at % Block = 0 /\ f.text \in Seq(Range(f.text))
      /\ At(f.at + Block, f.text)
      /\ Padding(f) % Block # 0 => Byte(Padding(f)) = Nul
  BY ContentsOK DEF ContentsOK, Files
<1>2. Len(f.text) % Block # 0
  OBVIOUS
<1> HIDE DEF f
<1>3. Len(f.text) \in Nat /\ Block \in Nat \ {0} /\ Size \in Nat
  BY <1>1, ArchiveBlocks, LenProperties
<1>4. start + Len(f.text) <= Size
      /\ \A j \in 1 .. Len(f.text) : Byte(start + j - 1) = f.text[j]
  BY <1>1, <1>3 DEF At
<1>5. \A j \in 1 .. Len(f.text) : Archive[start + j] = f.text[j]
  <2> SUFFICES ASSUME NEW j \in 1 .. Len(f.text) PROVE Archive[start + j] = f.text[j]
    OBVIOUS
  <2>1. (start + j - 1) + 1 = start + j
    BY <1>1, <1>3
  <2>2. Byte(start + j - 1) = Archive[start + j]
    BY <2>1 DEF Byte
  <2>3. QED
    BY <1>4, <2>2
<1>6. (f.at + Block + Len(f.text)) % Block # 0
  <2>1. PICK q \in Nat, r \in 0 .. Block - 1 : f.at = Block * q + r /\ f.at % Block = r
    BY <1>1, <1>3, Division
  <2>2. PICK p \in Nat, v \in 0 .. Block - 1 :
            Len(f.text) = Block * p + v /\ Len(f.text) % Block = v
    BY <1>3, Division
  <2>3. PICK m \in Nat : m = q + 1 + p
    OBVIOUS
  <2>4. Block * m = Block * q + Block + Block * p
    BY <1>3, <2>3
  <2>5. PICK a \in Nat : a = f.at + Block + Len(f.text)
    BY <1>1, <1>3
  <2>6. a = Block * m + v
    BY <1>1, <1>3, <2>1, <2>2, <2>4, <2>5
  <2>7. a % Block = v
    BY <1>3, <2>6, RemainderIs
  <2>8. QED
    BY <1>2, <2>2, <2>5, <2>7
<1>7. start + Len(f.text) # Size
  BY <1>6, ArchiveOK DEF ArchiveOK
<1>8. Byte(start + Len(f.text)) = Nul
  BY <1>1, <1>6 DEF Padding
<1>9. start \in Nat /\ start + Len(f.text) < Size
  <2>1. PICK a, n \in Nat : a = start + Len(f.text) /\ n = start
    BY <1>1, <1>3
  <2>2. a <= Size /\ a # Size
    BY <1>4, <1>7, <2>1
  <2>3. QED
    BY <1>3, <2>1, <2>2
<1>10. QED
  BY <1>1, <1>3, <1>5, <1>8, <1>9 DEF f

(* What the newest descriptor reads is the text of its file piece by piece   *)
(* from its start, and a read comes up short only when all of it was read,   *)
(* for texts that do not fill their last block.                              *)
THEOREM ReadIsCorrect == Spec => []ReadsFileInOrder
<1>1. ASSUME FilesInv PROVE ReadsFileInOrder
  <2> SUFFICES ASSUME NEW h \in 1 .. Len(handles), handles[h].fd # -1, Newest(h),
                      ~ Mistakable(handles[h].name),
                      NEW text,
                      text = Contents[Min(Begins(handles[h].name))].text,
                      Nul \notin Range(text), Len(text) % Block # 0
               PROVE  /\ IsPrefix(got[handles[h].fd].bytes, text)
                      /\ fdArr[handles[h].fd].offset = Len(got[handles[h].fd].bytes)
                      /\ got[handles[h].fd].short => got[handles[h].fd].bytes = text
    BY DEF ReadsFileInOrder
  <2>1. PICK name \in Names : name = handles[h].name
    BY <1>1, HandleTypes DEF Handle
  <2>2. HandleOK(h) /\ Types /\ Reading
    BY <1>1 DEF FilesInv
  <2>3. handles[h].fd = 3 /\ searchTarfs(name) # -1
    BY <2>1, <2>2 DEF HandleOK
  <2>4. Begins(name) # {} /\ searchTarfs(name) = Contents[Min(Begins(name))].at
    BY <2>1, <2>3, SearchFinds
  <2>5. PICK i \in Files : i = Min(Begins(name))
    <3>1. Begins(name) \subseteq Nat
      BY ContentsOK DEF Begins, Files, ContentsOK
    <3>2. QED
      BY <2>4, <3>1, MinIs DEF Begins
  <2>6. PICK start : start = Contents[i].at + Block
    OBVIOUS
  <2>7. fdArr[3].start = start
    BY <2>1, <2>2, <2>3, <2>4, <2>5, <2>6 DEF HandleOK
  <2>8. text = Contents[i].text
    BY <2>1, <2>5
  <2>9. /\ text \in Seq(Range(text)) /\ Len(text) \in Nat /\ start \in Nat
        /\ start + Len(text) < Size
        /\ \A j \in 1 .. Len(text) : Archive[start + j] = text[j]
        /\ Byte(start + Len(text)) = Nul
    BY <2>6, <2>8, TextIs
  <2>10. /\ fdArr[3] \in Slot /\ got[3] \in Gotten /\ Size \in Nat
    <3>1. 3 \in Places /\ Size \in Nat
      BY ArchiveOK, ArchiveBlocks DEF Places, ArchiveOK
    <3>2. QED
      BY <2>2, <3>1 DEF Types
  <2>11. PICK offset \in 0 .. Size, bytes \in Seq(Range(Archive) \ {Nul}) :
            offset = fdArr[3].offset /\ bytes = got[3].bytes
    <3>1. start # Unset
      BY <2>9 DEF Unset
    <3>2. QED
      BY <2>2, <2>7, <2>10, <3>1 DEF Reading, Gotten
  <2>12. /\ start + offset <= Size /\ bytes = SubSeq(Archive, start + 1, start + offset)
         /\ got[3].short => Ends(start + offset)
    <3>1. fdArr[3].start # Unset /\ Place = start + offset
      BY <2>7, <2>9, <2>11 DEF Unset, Place
    <3>2. QED
      BY <2>2, <2>7, <2>11, <3>1 DEF Reading
  <2>13. Len(bytes) = offset /\ \A j \in 1 .. offset : bytes[j] = Archive[start + j]
    <3>1. \A j \in start + 1 .. start + offset : Archive[j] \in Range(Archive)
      <4> SUFFICES ASSUME NEW j \in start + 1 .. start + offset
                   PROVE  Archive[j] \in Range(Archive)
        OBVIOUS
      <4>1. j \in 1 .. Len(Archive)
        BY <2>9, <2>10, <2>11, <2>12 DEF Size
      <4>2. QED
        BY <4>1, ArchiveOK, ElementOfSeq DEF ArchiveOK
    <3>2. PICK a, e \in Int : a = start + 1 /\ e = start + offset
      BY <2>9, <2>11
    <3>3. /\ Len(SubSeq(Archive, a, e)) = IF a <= e THEN e - a + 1 ELSE 0
          /\ \A j \in 1 .. e - a + 1 : SubSeq(Archive, a, e)[j] = Archive[a + j - 1]
      <4>1. \A j \in a .. e : Archive[j] \in Range(Archive)
        BY <3>1, <3>2
      <4>2. QED
        BY <4>1, SubSeqProperties
    <3>4. Len(bytes) = offset
      <4>1. offset \in Nat /\ start \in Nat
        BY <2>9, <2>10, <2>11
      <4>2. (IF a <= e THEN e - a + 1 ELSE 0) = offset
        BY <3>2, <4>1
      <4>3. QED
        BY <2>12, <3>2, <3>3, <4>2
    <3>5. ASSUME NEW j \in 1 .. offset PROVE bytes[j] = Archive[start + j]
      <4>1. offset \in Nat /\ start \in Nat /\ j \in Int
        BY <2>9, <2>10, <2>11
      <4>2. e - a + 1 = offset /\ a + j - 1 = start + j
        BY <3>2, <4>1
      <4>3. j \in 1 .. e - a + 1
        BY <4>2
      <4>4. QED
        BY <2>12, <3>2, <3>3, <4>2, <4>3
    <3>6. QED
      BY <3>4, <3>5
  <2>14. offset <= Len(text)
    <3>1. SUFFICES ASSUME offset > Len(text) PROVE FALSE
      BY <2>9, <2>11
    <3>2. Len(text) + 1 \in 1 .. offset
      BY <2>9, <2>11, <3>1
    <3>3. bytes[Len(text) + 1] = Archive[start + (Len(text) + 1)]
      BY <2>13, <3>2
    <3>4. Archive[start + (Len(text) + 1)] = Nul
      <4>1. (start + Len(text)) + 1 = start + (Len(text) + 1)
        BY <2>9
      <4>2. QED
        BY <2>9, <4>1 DEF Byte
    <3>5. bytes[Len(text) + 1] \in Range(Archive) \ {Nul}
      BY <2>11, <2>13, <3>2, ElementOfSeq
    <3>6. QED
      BY <3>3, <3>4, <3>5
  <2>15. \A j \in 1 .. offset : bytes[j] = text[j]
    BY <2>9, <2>11, <2>13, <2>14
  <2>16. PICK S : bytes \in Seq(S) /\ text \in Seq(S)
    <3>1. bytes \in Seq(Range(Archive) \cup Range(text)) /\ text \in Seq(Range(Archive) \cup Range(text))
      BY <2>9, <2>11, SeqMonotonic
    <3>2. QED
      BY <3>1
  <2>17. IsPrefix(bytes, text)
    BY <2>13, <2>14, <2>15, <2>16, PrefixIs
  <2>18. ASSUME got[3].short PROVE bytes = text
    <3>1. start + offset = Size \/ Byte(start + offset) = Nul
      BY <2>12, <2>18 DEF Ends
    <3>2. offset = Len(text)
      <4>1. SUFFICES ASSUME offset < Len(text) PROVE FALSE
        BY <2>9, <2>11, <2>14
      <4>2. start + offset # Size /\ offset + 1 \in 1 .. Len(text)
        <5>1. offset \in Nat
          BY <2>10, <2>11
        <5>2. start + offset < start + Len(text)
          BY <2>9, <4>1, <5>1
        <5>3. QED
          BY <2>9, <2>10, <4>1, <5>1, <5>2
      <4>3. (start + offset) + 1 = start + (offset + 1)
        BY <2>9, <2>11
      <4>4. text[offset + 1] = Nul
        BY <2>9, <3>1, <4>2, <4>3 DEF Byte
      <4>5. text[offset + 1] \in Range(text)
        BY <2>9, <4>2, ElementOfSeq
      <4>6. QED
        BY <4>4, <4>5
    <3>3. QED
      BY <2>13, <2>15, <2>16, <3>2, SeqEqual
  <2>19. QED
    BY <2>3, <2>11, <2>13, <2>17, <2>18
<1>2. QED
  BY <1>1, AlwaysInv, PTL
=============================================================================
