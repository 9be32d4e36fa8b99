--------------------------- MODULE ListingProofs ---------------------------
(***************************************************************************)
(* Proofs about the two listings, DirListing and XattrList, for any number *)
(* of files or attributes, names of any length (up to 255 bytes in a       *)
(* directory) and any number of changes.                                   *)
(* Both rest on recursive definitions of what a buffer holds, which are    *)
(* unfolded by the induction of the first two lemmas.                      *)
(***************************************************************************)
EXTENDS DirListing, XattrList,
        FiniteSetTheorems, SequenceTheorems, WellFoundedInduction, TLAPS

-----------------------------------------------------------------------------
(* Induction, from the library's theorem on minimal elements. *)
LEMMA LeastNat ==
  ASSUME NEW T, T \subseteq Nat, T # {}
  PROVE  \E x \in T : \A y \in T : x <= y
<1> DEFINE R == {p \in Nat \X Nat : p[1] < p[2]}
<1>1. IsWellFoundedOn(R, Nat)
  BY NatLessThanWellFounded DEF OpToRel
<1> HIDE DEF R
<1>2. PICK x \in T : \A y \in T : ~ (<<y, x>> \in R)
  BY <1>1, WFMin
<1>3. \A y \in T : ~ (y < x)
  BY <1>2 DEF R
<1> QED
  BY <1>3

LEMMA Inductive ==
  ASSUME NEW P, 0 \in P, \A k \in Nat : k \in P => k + 1 \in P
  PROVE  \A k \in Nat : k \in P
<1> SUFFICES ASSUME NEW k \in Nat, k \notin P PROVE FALSE
  OBVIOUS
<1>1. PICK x \in Nat \ P : \A y \in Nat \ P : x <= y
  BY LeastNat
<1>2. x - 1 \in Nat /\ x - 1 \notin Nat \ P
  BY <1>1
<1> QED
  BY <1>1, <1>2

-----------------------------------------------------------------------------
(***************************************************************************)
(* DirListing.  How many members of a set come before e: in a directory,   *)
(* the offset at which e is listed.                                        *)
(***************************************************************************)
Rank(s, e) == Cardinality({m \in s : m < e})

LEMMA RankType ==
  ASSUME NEW s \in SUBSET Nat, IsFiniteSet(s), NEW e \in Nat
  PROVE  /\ IsFiniteSet({m \in s : m < e}) /\ Rank(s, e) \in Nat
         /\ Cardinality(s) \in Nat
         /\ Rank(s, e) <= Cardinality(s)
         /\ e \in s => Rank(s, e) < Cardinality(s)
<1> DEFINE below == {m \in s : m < e}
<1>1. below \subseteq s /\ (e \in s => below # s)
  OBVIOUS
<1>2. /\ IsFiniteSet(below) /\ Cardinality(below) <= Cardinality(s)
      /\ (below = s) <=> (Cardinality(below) = Cardinality(s))
  BY <1>1, FS_Subset
<1>3. Cardinality(below) \in Nat /\ Cardinality(s) \in Nat
  BY <1>2, FS_CardinalityType
<1>4. e \in s => Cardinality(below) < Cardinality(s)
  BY <1>1, <1>2, <1>3
<1> QED
  BY <1>2, <1>3, <1>4 DEF Rank

(* Members that come later have a higher rank. *)
LEMMA RankRises ==
  ASSUME NEW s \in SUBSET Nat, IsFiniteSet(s), NEW d \in Nat, NEW e \in Nat
  PROVE  /\ d <= e => Rank(s, d) <= Rank(s, e)
         /\ d \in s /\ d < e => Rank(s, d) < Rank(s, e)
<1> DEFINE low == {m \in s : m < d}
           high == {m \in s : m < e}
<1>1. IsFiniteSet(high) /\ Rank(s, d) \in Nat /\ Rank(s, e) \in Nat
  BY RankType
<1>2. ASSUME d <= e
      PROVE  Rank(s, d) <= Rank(s, e) /\ (Rank(s, d) = Rank(s, e) => low = high)
  <2>0. \A m \in s : m \in Nat /\ (m < d => m < e)
    BY <1>2
  <2>1. low \subseteq high
    BY <2>0
  <2> QED
    BY <1>1, <2>1, FS_Subset DEF Rank
<1>3. d \in s /\ d < e => low # high
  OBVIOUS
<1> QED
  BY <1>1, <1>2, <1>3

LEMMA RankOnce ==
  ASSUME NEW s \in SUBSET Nat, IsFiniteSet(s), NEW d \in s, NEW e \in s,
         Rank(s, d) = Rank(s, e)
  PROVE  d = e
<1>1. d \in Nat /\ e \in Nat /\ ~ (d < e) /\ ~ (e < d)
  <2>1. d \in Nat /\ e \in Nat
    OBVIOUS
  <2>2. Rank(s, d) \in Nat
    BY <2>1, RankType
  <2>3. (d < e => Rank(s, d) < Rank(s, e)) /\ (e < d => Rank(s, e) < Rank(s, d))
    BY <2>1, RankRises
  <2> QED
    BY <2>2, <2>3
<1> QED
  BY <1>1

(* Every number below the cardinality is the rank of a member. *)
LEMMA RankOnto ==
  ASSUME NEW s \in SUBSET Nat, IsFiniteSet(s), NEW k \in Nat, k < Cardinality(s)
  PROVE  \E e \in s : Rank(s, e) = k
<1> DEFINE c == Cardinality(s)
           f == [e \in s |-> Rank(s, e)]
<1>1. c \in Nat
  BY FS_CardinalityType
<1>2. \A e \in s : Rank(s, e) \in 0 .. (c - 1)
  <2> SUFFICES ASSUME NEW e \in s PROVE Rank(s, e) \in 0 .. (c - 1)
    OBVIOUS
  <2>1. e \in Nat
    OBVIOUS
  <2>2. Rank(s, e) \in Nat /\ Rank(s, e) < c
    BY <2>1, RankType
  <2> QED
    BY <1>1, <2>2
<1>3. \A d, e \in s : Rank(s, d) = Rank(s, e) => d = e
  BY RankOnce
<1>4. f \in Injection(s, 0 .. (c - 1))
  BY <1>2, <1>3 DEF Injection, IsInjective
<1>5. IsFiniteSet(0 .. (c - 1)) /\ Cardinality(0 .. (c - 1)) = c
  <2> HIDE DEF c
  <2>1. 0 \in Int /\ c - 1 \in Int
    BY <1>1
  <2>2. /\ IsFiniteSet(0 .. (c - 1))
        /\ Cardinality(0 .. (c - 1)) = IF 0 > c - 1 THEN 0 ELSE (c - 1) - 0 + 1
    BY <2>1, FS_Interval
  <2> QED
    BY <1>1, <2>2
<1>6. f \in Surjection(s, 0 .. (c - 1))
  BY <1>4, <1>5, FS_Injection
<1>7. k \in 0 .. (c - 1)
  BY <1>1
<1> QED
  BY <1>6, <1>7 DEF Surjection

(* A new member raises the ranks behind it by one. *)
LEMMA RankMore ==
  ASSUME NEW s \in SUBSET Nat, IsFiniteSet(s), NEW n \in Nat, n \notin s, NEW e \in Nat
  PROVE  Rank(s \cup {n}, e) = IF n < e THEN Rank(s, e) + 1 ELSE Rank(s, e)
<1> DEFINE low == {m \in s : m < e}
<1>1. IsFiniteSet(low) /\ n \notin low
  BY RankType
<1>2. CASE n < e
  <2>1. {m \in s \cup {n} : m < e} = low \cup {n}
    BY <1>2
  <2> QED
    BY <1>1, <1>2, <2>1, FS_AddElement DEF Rank
<1>3. CASE ~ (n < e)
  <2>1. {m \in s \cup {n} : m < e} = low
    BY <1>3
  <2> QED
    BY <1>3, <2>1 DEF Rank
<1> QED
  BY <1>2, <1>3

(* The entries of a directory with these files. *)
With(fs) == fs \cup {DotDot, Dot}

LEMMA WithIs ==
  ASSUME NEW fs \in SUBSET Name
  PROVE  /\ MaxName \in Nat /\ fs \subseteq Nat /\ IsFiniteSet(fs) /\ Cardinality(fs) \in Nat
         /\ With(fs) \in SUBSET Nat /\ With(fs) \subseteq Entry /\ IsFiniteSet(With(fs))
         /\ Cardinality(With(fs)) = Cardinality(fs) + 2
         /\ \A n \in fs : n < DotDot
<1> USE DEF Name, DotDot, Dot, Entry
<1>1. MaxName \in Nat
  BY NameAssumption
<1>2. IsFiniteSet(1 .. MaxName) /\ fs \subseteq 1 .. MaxName
  BY <1>1, FS_Interval
<1>3. IsFiniteSet(fs) /\ Cardinality(fs) \in Nat
  BY <1>2, FS_Subset, FS_CardinalityType
<1>4. \A n \in fs : n \in Nat /\ n \in 1 .. MaxName
  BY <1>1, <1>2
<1>5. \A n \in fs : n < DotDot /\ n < Dot
  BY <1>1, <1>4
<1>6. DotDot \notin fs /\ Dot \notin fs \cup {DotDot}
  BY <1>1, <1>5
<1>7. /\ IsFiniteSet(fs \cup {DotDot})
      /\ Cardinality(fs \cup {DotDot}) = Cardinality(fs) + 1
  BY <1>3, <1>6, FS_AddElement
<1>8. With(fs) = (fs \cup {DotDot}) \cup {Dot}
  BY DEF With
<1>9. IsFiniteSet(With(fs)) /\ Cardinality(With(fs)) = (Cardinality(fs) + 1) + 1
  BY <1>6, <1>7, <1>8, FS_AddElement
<1>10. DotDot \in Nat /\ Dot \in Nat /\ DotDot \in Entry /\ Dot \in Entry /\ 1 .. MaxName \subseteq Entry
  BY <1>1
<1>11. With(fs) \in SUBSET Nat /\ With(fs) \subseteq Entry
  BY <1>2, <1>4, <1>10 DEF With
<1>12. Cardinality(With(fs)) = Cardinality(fs) + 2
  BY <1>3, <1>9
<1> QED
  BY <1>1, <1>3, <1>4, <1>5, <1>11, <1>9, <1>12

LEMMA WithRank ==
  ASSUME NEW fs \in SUBSET Name
  PROVE  /\ \A n \in fs : Rank(With(fs), n) = Rank(fs, n)
         /\ Rank(With(fs), DotDot) = Cardinality(fs)
         /\ Rank(With(fs), Dot) = Cardinality(fs) + 1
<1>1. MaxName \in Nat /\ \A n \in fs : n \in Nat /\ n < DotDot
  BY WithIs
<1>2. DotDot \in Nat /\ Dot = DotDot + 1
  BY <1>1 DEF DotDot, Dot
<1>3. ASSUME NEW n \in fs PROVE Rank(With(fs), n) = Rank(fs, n)
  <2>1. ~ (DotDot < n) /\ ~ (Dot < n)
    BY <1>1, <1>2
  <2>2. {m \in With(fs) : m < n} = {m \in fs : m < n}
    BY <2>1 DEF With
  <2> QED
    BY <2>2 DEF Rank
<1>4. {m \in With(fs) : m < DotDot} = fs
  <2>1. ~ (DotDot < DotDot) /\ ~ (Dot < DotDot)
    BY <1>2
  <2> QED
    BY <1>1, <2>1 DEF With
<1>5. {m \in With(fs) : m < Dot} = fs \cup {DotDot}
  <2>1. DotDot < Dot /\ ~ (Dot < Dot) /\ \A n \in fs : n < Dot
    BY <1>1, <1>2
  <2> QED
    BY <2>1 DEF With
<1>6. Cardinality(fs \cup {DotDot}) = Cardinality(fs) + 1
  <2>1. DotDot \notin fs
    BY <1>1, <1>2
  <2> QED
    BY <2>1, WithIs, FS_AddElement
<1> QED
  BY <1>3, <1>4, <1>5, <1>6 DEF Rank

(* The listing has every entry at its rank. *)
LEMMA NthIs ==
  ASSUME files \in SUBSET Name, NEW k \in Nat, k < file_count
  PROVE  Nth(k) \in files /\ Rank(files, Nth(k)) = k
<1>1. \E n \in files : Rank(files, n) = k
  BY WithIs, RankOnto DEF file_count
<1> QED
  BY <1>1 DEF Nth, Rank

LEMMA ListingIs ==
  ASSUME files \in SUBSET Name
  PROVE  /\ file_count \in Nat /\ Len(Listing) = file_count + 2
         /\ DOMAIN Listing = 1 .. (file_count + 2)
         /\ \A i \in 1 .. (file_count + 2) :
              Listing[i] \in With(files) /\ Rank(With(files), Listing[i]) = i - 1
         /\ \A i \in 1 .. file_count : Listing[i] = Nth(i - 1)
         /\ Listing[file_count + 1] = DotDot /\ Listing[file_count + 2] = Dot
<1> DEFINE c == file_count
<1>1. c \in Nat
  BY WithIs DEF file_count
<1> HIDE DEF c
<1>2. Listing = [i \in 1 .. (c + 2) |->
                   IF i <= c THEN Nth(i - 1) ELSE IF i = c + 1 THEN DotDot ELSE Dot]
  BY DEF Listing, c
<1>3. DOMAIN Listing = 1 .. (c + 2) /\ Len(Listing) = c + 2
  BY <1>1, <1>2
<1>4. \A i \in 1 .. c : Listing[i] = Nth(i - 1)
  <2>1. \A i \in 1 .. c : i \in 1 .. (c + 2) /\ i <= c
    BY <1>1
  <2> QED
    BY <1>2, <2>1
<1>5. Listing[c + 1] = DotDot /\ Listing[c + 2] = Dot
  BY <1>1, <1>2
<1>6. ASSUME NEW i \in 1 .. (c + 2)
      PROVE  Listing[i] \in With(files) /\ Rank(With(files), Listing[i]) = i - 1
  <2>1. CASE i <= c
    <3>1. i \in 1 .. c /\ i - 1 \in Nat /\ i - 1 < c
      BY <1>1, <2>1
    <3>2. Nth(i - 1) \in files /\ Rank(files, Nth(i - 1)) = i - 1
      BY <3>1, NthIs DEF c
    <3> QED
      BY <1>4, <3>1, <3>2, WithRank DEF With
  <2>2. CASE i = c + 1
    BY <1>1, <1>5, <2>2, WithRank DEF With, c, file_count
  <2>3. CASE i = c + 2
    <3>1. Dot \in With(files) /\ Rank(With(files), Dot) = c + 1
      BY WithRank DEF With, c, file_count
    <3>2. Listing[i] = Dot /\ i - 1 = c + 1
      BY <1>1, <1>5, <2>3
    <3> QED
      BY <3>1, <3>2
  <2> QED
    BY <1>1, <2>1, <2>2, <2>3
<1> QED
  BY <1>1, <1>3, <1>4, <1>5, <1>6 DEF c

LEMMA ListedAt ==
  ASSUME files \in SUBSET Name, NEW e \in With(files)
  PROVE  /\ Rank(With(files), e) + 1 \in 1 .. (file_count + 2)
         /\ Listing[Rank(With(files), e) + 1] = e
<1> DEFINE w == With(files)
           r == Rank(w, e)
<1>1. /\ w \in SUBSET Nat /\ IsFiniteSet(w) /\ Cardinality(w) = file_count + 2
      /\ file_count \in Nat
  BY WithIs DEF file_count
<1>2. r \in Nat /\ r < file_count + 2
  <2>1. e \in Nat
    BY <1>1
  <2> QED
    BY <1>1, <2>1, RankType
<1>3. r + 1 \in 1 .. (file_count + 2) /\ (r + 1) - 1 = r
  BY <1>1, <1>2
<1> HIDE DEF w, r
<1>4. Listing[r + 1] \in w /\ Rank(w, Listing[r + 1]) = r
  BY <1>3, ListingIs DEF w
<1>5. Listing[r + 1] = e
  BY <1>1, <1>4, RankOnce DEF r, w
<1> QED
  BY <1>3, <1>5 DEF r, w

-----------------------------------------------------------------------------
(***************************************************************************)
(* What a ReplyBuf holds after the entries ns have been added to it, the   *)
(* first of them with offset p + 1: off[i] is where the i-th entry ends.   *)
(***************************************************************************)
Width(plusEntry, n) ==
  IF plusEntry THEN fuse_direntplus_size(NameLen[n]) ELSE fuse_dirent_size(NameLen[n])

Header(plusEntry) == IF plusEntry THEN FUSE_ENTRY_OUT_SIZE ELSE 0

EntryOf(n, at) == Dirent(n, NameLen[n], Stat(n), at)

Adds(plusEntry, ns, off) ==
  /\ off \in [0 .. Len(ns) -> Nat] /\ off[0] = 0
  /\ \A i \in 1 .. Len(ns) : off[i] = off[i - 1] + Width(plusEntry, ns[i])

Holds(b, plusEntry, ns, p, off) ==
  /\ Adds(plusEntry, ns, off)
  /\ b = [size |-> b.size, filled |-> b.filled, data |-> b.data]
  /\ b.size \in Nat /\ b.filled = off[Len(ns)]
  /\ b.data = [q \in DOMAIN b.data |-> b.data[q]]
  /\ \A q \in DOMAIN b.data :
       /\ q \in Nat /\ q < b.filled
       /\ "name" \in DOMAIN b.data[q] => b.data[q].namelen \in Nat
  /\ \A i \in 1 .. Len(ns) :
       /\ off[i - 1] + Header(plusEntry) \in DOMAIN b.data
       /\ b.data[off[i - 1] + Header(plusEntry)] = EntryOf(ns[i], p + i)

(* The size of an entry: add_readdir_plus and fuse_direntplus_size agree   *)
(* because a fuse_entry_out is a multiple of eight bytes long.             *)
LEMMA WidthIs ==
  ASSUME NEW n \in Entry
  PROVE  /\ NameLen[n] \in Nat
         /\ \A q \in BOOLEAN :
              /\ Width(q, n) \in Nat /\ Width(q, n) > Header(q)
              /\ Width(q, n) = Header(q) + fuse_dirent_size(NameLen[n])
              /\ Width(q, n) = (((Header(q) + FUSE_DIRENT_HEADER_SIZE + NameLen[n]) + 7) \div 8) * 8
<1>1. NameLen[n] \in 1 .. 255
  BY NameAssumption
<1> QED
  BY <1>1 DEF Width, Header, fuse_direntplus_size, fuse_dirent_size, fuse_dirent_align,
              FUSE_ENTRY_OUT_SIZE, FUSE_DIRENT_HEADER_SIZE

(* An empty buffer. *)
LEMMA HoldsNone ==
  ASSUME NEW z \in Nat, NEW q \in BOOLEAN, NEW p \in Nat
  PROVE  \E off : Holds(new(z), q, << >>, p, off)
<1> DEFINE off == [i \in 0 .. 0 |-> 0]
<1>1. Len(<< >>) = 0 /\ 1 .. 0 = {} /\ off[0] = 0 /\ off \in [0 .. 0 -> Nat]
  OBVIOUS
<1>2. Adds(q, << >>, off)
  BY <1>1 DEF Adds
<1>3. DOMAIN << >> = {} /\ << >> = [i \in {} |-> << >>[i]]
  OBVIOUS
<1> HIDE DEF off
<1>4. /\ new(z).size = z /\ new(z).filled = 0 /\ new(z).data = << >>
      /\ new(z) = [size |-> z, filled |-> 0, data |-> << >>]
  BY DEF new
<1>5. Holds(new(z), q, << >>, p, off)
  BY <1>1, <1>2, <1>3, <1>4 DEF Holds
<1> QED
  BY <1>5

Added(b, q, d) == IF q THEN add_readdir_plus(b, d) ELSE add_readdir(b, d)

(* What is written, and that nothing written before is touched. *)
LEMMA AddedIs ==
  ASSUME NEW b, NEW q \in BOOLEAN, NEW d,
         b = [size |-> b.size, filled |-> b.filled, data |-> b.data],
         b.filled \in Nat, d.namelen \in Nat, "name" \in DOMAIN d,
         \A k \in DOMAIN b.data : k \in Nat /\ k < b.filled,
         NEW w, w = Header(q) + fuse_dirent_size(d.namelen), w \in Nat, w > Header(q)
  PROVE  LET c == Added(b, q, d)
             at == b.filled + Header(q)
         IN  /\ c = [size |-> c.size, filled |-> c.filled, data |-> c.data]
             /\ c.size = b.size /\ c.filled = b.filled + w
             /\ c.data = [k \in DOMAIN c.data |-> c.data[k]]
             /\ at \in DOMAIN c.data /\ c.data[at] = d
             /\ \A k \in DOMAIN b.data : k \in DOMAIN c.data /\ c.data[k] = b.data[k]
             /\ \A k \in DOMAIN c.data :
                  /\ k \in DOMAIN b.data \cup {b.filled, at}
                  /\ k \in DOMAIN b.data \/ k = at \/ "name" \notin DOMAIN c.data[k]
<1> DEFINE f == b.filled
           h == FUSE_ENTRY_OUT_SIZE
           s == fuse_dirent_size(d.namelen)
           D == b.data
<1>0. PICK x, e, g : x = b.size /\ e = f /\ g = D
  OBVIOUS
<1>s. s \in Int
  BY DEF fuse_dirent_size, fuse_dirent_align, FUSE_DIRENT_HEADER_SIZE
<1>1. CASE ~ q
  <2>1. Added(b, q, d) = [size |-> x, filled |-> e + s, data |-> Write(g, e, d)]
    BY <1>0, <1>1 DEF Added, add_readdir
  <2>2. Header(q) = 0 /\ w = s
    BY <1>s, <1>1 DEF Header
  <2> DEFINE X == Write(g, e, d)
  <2>3. X = [k \in DOMAIN g \cup {e} |-> IF k = e THEN d ELSE g[k]]
    BY DEF Write
  <2>4. /\ DOMAIN X = DOMAIN g \cup {e} /\ X[e] = d
        /\ \A k \in DOMAIN g : k # e => X[k] = g[k]
        /\ X = [k \in DOMAIN X |-> X[k]]
    BY <2>3
  <2>5. \A k \in DOMAIN g : k # e
    BY <1>0
  <2> HIDE DEF X
  <2> QED
    BY <1>0, <2>1, <2>2, <2>4, <2>5 DEF X
<1>2. CASE q
  <2> DEFINE v == [nodeid |-> d.ino]
             Y == Write(g, e, v)
             X == Write(Y, e + h, d)
  <2>1. Added(b, q, d) = [size |-> x, filled |-> e + h + s, data |-> X]
    BY <1>0, <1>2 DEF Added, add_readdir_plus
  <2>2. Header(q) = h /\ w = h + s /\ h = 128
    BY <1>2 DEF Header, FUSE_ENTRY_OUT_SIZE
  <2>3. Y = [k \in DOMAIN g \cup {e} |-> IF k = e THEN v ELSE g[k]]
    BY DEF Write
  <2>4. DOMAIN Y = DOMAIN g \cup {e} /\ Y[e] = v /\ \A k \in DOMAIN g : k # e => Y[k] = g[k]
    BY <2>3
  <2>5. X = [k \in DOMAIN Y \cup {e + h} |-> IF k = e + h THEN d ELSE Y[k]]
    BY DEF Write
  <2>6. "name" \notin DOMAIN v
    OBVIOUS
  <2> HIDE DEF Y, v, X
  <2>7. /\ DOMAIN X = DOMAIN Y \cup {e + h} /\ X[e + h] = d
        /\ \A k \in DOMAIN Y : k # e + h => X[k] = Y[k]
        /\ X = [k \in DOMAIN X |-> X[k]]
    BY <2>5
  <2>8. e # e + h /\ \A k \in DOMAIN g : k # e /\ k # e + h
    BY <1>0, <2>2
  <2>10. e + h + s = e + w
    BY <1>0, <1>s, <2>2
  <2> DEFINE c == Added(b, q, d)
  <2>11. c = [size |-> x, filled |-> e + w, data |-> X]
    BY <2>1, <2>10
  <2>12. c.size = x /\ c.filled = e + w /\ c.data = X
    BY <2>11
  <2> HIDE DEF c
  <2>13. /\ e + h \in DOMAIN X /\ X[e + h] = d
         /\ \A k \in DOMAIN g : k \in DOMAIN X /\ X[k] = g[k]
         /\ \A k \in DOMAIN X : k \in DOMAIN g \cup {e, e + h}
         /\ X[e] = v
    BY <2>4, <2>7, <2>8
  <2> QED
    BY <1>0, <2>2, <2>6, <2>7, <2>11, <2>12, <2>13 DEF c
<1> QED
  BY <1>1, <1>2

(* One more entry in the buffer. *)
LEMMA HoldsMore ==
  ASSUME NEW b, NEW q \in BOOLEAN, NEW ns \in Seq(Entry), NEW p \in Nat, NEW off,
         Holds(b, q, ns, p, off), NEW n \in Entry
  PROVE  LET c == Added(b, q, EntryOf(n, p + Len(ns) + 1))
         IN  /\ \E o : Holds(c, q, Append(ns, n), p, o)
             /\ c.size = b.size /\ c.filled = b.filled + Width(q, n)
<1> DEFINE l == Len(ns)
           d == EntryOf(n, p + l + 1)
           c == Added(b, q, d)
           h == Header(q)
           w == Width(q, n)
           ms == Append(ns, n)
           o == [i \in 0 .. (l + 1) |-> IF i <= l THEN off[i] ELSE b.filled + w]
           at == b.filled + h
<1>1. l \in Nat /\ ms \in Seq(Entry) /\ Len(ms) = l + 1 /\ ms[l + 1] = n
      /\ \A i \in 1 .. l : ms[i] = ns[i]
  OBVIOUS
<1>2. /\ NameLen[n] \in Nat /\ w \in Nat /\ w > h
      /\ w = h + fuse_dirent_size(NameLen[n])
  BY WidthIs
<1>3. d.namelen = NameLen[n] /\ "name" \in DOMAIN d
  BY DEF EntryOf, Dirent
<1>4. h \in Nat
  BY DEF Header, FUSE_ENTRY_OUT_SIZE
<1>5. /\ off \in [0 .. l -> Nat] /\ off[0] = 0
      /\ \A i \in 1 .. l : off[i] = off[i - 1] + Width(q, ns[i])
      /\ b = [size |-> b.size, filled |-> b.filled, data |-> b.data]
      /\ b.size \in Nat /\ b.filled = off[l] /\ b.filled \in Nat
  BY <1>1 DEF Holds, Adds
<1>6. \A k \in DOMAIN b.data :
        /\ k \in Nat /\ k < b.filled
        /\ "name" \in DOMAIN b.data[k] => b.data[k].namelen \in Nat
  BY DEF Holds
<1>7. \A i \in 1 .. l : /\ off[i - 1] + h \in DOMAIN b.data
                        /\ b.data[off[i - 1] + h] = EntryOf(ns[i], p + i)
  BY DEF Holds
<1> HIDE DEF d, h, w, ms, l
<1>8. /\ c = [size |-> c.size, filled |-> c.filled, data |-> c.data]
      /\ c.size = b.size /\ c.filled = b.filled + w
      /\ c.data = [k \in DOMAIN c.data |-> c.data[k]]
      /\ at \in DOMAIN c.data /\ c.data[at] = d
      /\ \A k \in DOMAIN b.data : k \in DOMAIN c.data /\ c.data[k] = b.data[k]
      /\ \A k \in DOMAIN c.data :
           /\ k \in DOMAIN b.data \cup {b.filled, at}
           /\ k \in DOMAIN b.data \/ k = at \/ "name" \notin DOMAIN c.data[k]
  <2>1. \A k \in DOMAIN b.data : k \in Nat /\ k < b.filled
    BY <1>6
  <2>2. w = Header(q) + fuse_dirent_size(d.namelen) /\ w > Header(q) /\ d.namelen \in Nat
    BY <1>2, <1>3 DEF h
  <2> QED
    BY <1>2, <1>3, <1>5, <2>1, <2>2, AddedIs DEF h
<1> HIDE DEF c
<1>9. Adds(q, ms, o)
  <2>1. o \in [0 .. (l + 1) -> Nat]
    BY <1>1, <1>2, <1>5
  <2>2. \A i \in 0 .. l : o[i] = off[i]
    BY <1>1
  <2>3. o[l + 1] = b.filled + w
    BY <1>1
  <2>4. o[0] = 0
    BY <1>1, <1>5, <2>2
  <2>5. ASSUME NEW i \in 1 .. (l + 1) PROVE o[i] = o[i - 1] + Width(q, ms[i])
    <3>1. CASE i = l + 1
      <4>1. o[i - 1] = b.filled /\ ms[i] = n
        BY <1>1, <1>5, <2>2, <3>1
      <4> QED
        BY <2>3, <3>1, <4>1 DEF w
    <3>2. CASE i # l + 1
      <4>1. i \in 1 .. l /\ i \in 0 .. l /\ i - 1 \in 0 .. l
        BY <1>1, <3>2
      <4> QED
        BY <1>1, <1>5, <2>2, <4>1
    <3> QED
      BY <3>1, <3>2
  <2> HIDE DEF o
  <2> QED
    BY <1>1, <2>1, <2>4, <2>5 DEF Adds
<1>10. o[l + 1] = c.filled /\ \A i \in 0 .. l : o[i] = off[i]
  BY <1>1, <1>8
<1> HIDE DEF o
<1>11. ASSUME NEW k \in DOMAIN c.data
       PROVE  /\ k \in Nat /\ k < c.filled
              /\ "name" \in DOMAIN c.data[k] => c.data[k].namelen \in Nat
  <2>1. k \in DOMAIN b.data \cup {b.filled, at}
    BY <1>8
  <2>2. k \in Nat /\ k < c.filled
    BY <1>2, <1>4, <1>5, <1>6, <1>8, <2>1
  <2>3. k \in DOMAIN b.data \/ k = at \/ "name" \notin DOMAIN c.data[k]
    BY <1>8
  <2> QED
    BY <1>2, <1>3, <1>6, <1>8, <2>2, <2>3
<1>12. ASSUME NEW i \in 1 .. (l + 1)
       PROVE  /\ o[i - 1] + h \in DOMAIN c.data
              /\ c.data[o[i - 1] + h] = EntryOf(ms[i], p + i)
  <2>1. CASE i = l + 1
    <3>1. o[i - 1] = b.filled /\ ms[i] = n /\ p + i = p + l + 1
      BY <1>1, <1>5, <1>10, <2>1, SMTT(30)
    <3> QED
      BY <1>8, <3>1 DEF d
  <2>2. CASE i # l + 1
    <3>1. i \in 1 .. l /\ i - 1 \in 0 .. l
      BY <1>1, <2>2
    <3> QED
      BY <1>1, <1>7, <1>8, <1>10, <3>1
  <2> QED
    BY <2>1, <2>2
<1>13. Holds(c, q, ms, p, o)
  BY <1>1, <1>5, <1>8, <1>9, <1>10, <1>11, <1>12 DEF Holds, h
<1> QED
  BY <1>8, <1>13 DEF c, ms, d, l, w

-----------------------------------------------------------------------------
(***************************************************************************)
(* KernelParse: a recursion towards the end of the buffer.                 *)
(***************************************************************************)
Step(q, d) == (((Header(q) + FUSE_DIRENT_HEADER_SIZE + d.namelen) + 7) \div 8) * 8

ParseAt(b, q, f, p) ==
  IF ~ IsDirent(b, p + Header(q)) THEN << >>
  ELSE IF p + Step(q, b.data[p + Header(q)]) > b.filled THEN << >>
  ELSE << b.data[p + Header(q)] >> \o
         (IF p + Step(q, b.data[p + Header(q)]) = b.filled THEN << >>
          ELSE f[p + Step(q, b.data[p + Header(q)])])

Parses(b, q, f) == f = [p \in 0 .. b.filled |-> ParseAt(b, q, f, p)]

Readable(b) ==
  /\ b.filled \in Nat
  /\ \A k \in DOMAIN b.data : "name" \in DOMAIN b.data[k] => b.data[k].namelen \in Nat

LEMMA ParseAhead ==
  ASSUME NEW b, Readable(b), NEW q \in BOOLEAN, NEW f, NEW g, NEW p \in 0 .. b.filled,
         \A k \in 0 .. b.filled : k > p => f[k] = g[k]
  PROVE  ParseAt(b, q, f, p) = ParseAt(b, q, g, p)
<1> DEFINE at == p + Header(q)
           k == p + Step(q, b.data[at])
<1>1. CASE ~ IsDirent(b, at)
  BY <1>1 DEF ParseAt
<1>2. CASE IsDirent(b, at)
  <2>1. b.data[at].namelen \in Nat
    BY <1>2 DEF IsDirent, Readable
  <2>2. Header(q) \in Nat
    BY DEF Header, FUSE_ENTRY_OUT_SIZE
  <2>3. Step(q, b.data[at]) \in Nat /\ Step(q, b.data[at]) > 0
    BY <2>1, <2>2 DEF Step, FUSE_DIRENT_HEADER_SIZE
  <2>4. ~ (k > b.filled) => k \in 0 .. b.filled /\ k > p
    BY <2>3 DEF Readable
  <2> HIDE DEF k
  <2>5. ~ (k > b.filled) => f[k] = g[k]
    BY <2>4
  <2> QED
    BY <2>5 DEF ParseAt, k
<1> QED
  BY <1>1, <1>2

LEMMA ParsesExists ==
  ASSUME NEW b, Readable(b), NEW q \in BOOLEAN
  PROVE  \E f : Parses(b, q, f)
<1> DEFINE F == b.filled
           Good(f, m) == /\ f = [p \in 0 .. F |-> f[p]]
                         /\ \A p \in 0 .. F : p + m > F => f[p] = ParseAt(b, q, f, p)
           P == {m \in Nat : \E f : Good(f, m)}
<1>0. F \in Nat
  BY DEF Readable
<1>1. 0 \in P
  <2> DEFINE f == [p \in 0 .. F |-> << >>]
  <2>1. f = [p \in 0 .. F |-> f[p]]
    OBVIOUS
  <2> HIDE DEF f
  <2>2. Good(f, 0)
    BY <1>0, <2>1
  <2> QED
    BY <2>2
<1>2. ASSUME NEW m \in Nat, m \in P
      PROVE  m + 1 \in P
  <2>1. PICK f : Good(f, m)
    BY <1>2
  <2> DEFINE g == [p \in 0 .. F |-> IF p + m = F THEN ParseAt(b, q, f, p) ELSE f[p]]
  <2>2. g = [p \in 0 .. F |-> g[p]]
    OBVIOUS
  <2>3. \A p \in 0 .. F : g[p] = IF p + m = F THEN ParseAt(b, q, f, p) ELSE f[p]
    OBVIOUS
  <2> HIDE DEF g
  <2>4. ASSUME NEW p \in 0 .. F, p + (m + 1) > F
        PROVE  g[p] = ParseAt(b, q, g, p)
    <3>1. \A k \in 0 .. F : k > p => f[k] = g[k]
      BY <1>0, <2>3, <2>4
    <3>2. ParseAt(b, q, f, p) = ParseAt(b, q, g, p)
      BY <3>1, ParseAhead
    <3>3. p + m = F \/ p + m > F
      BY <1>0, <2>4
    <3>4. g[p] = ParseAt(b, q, f, p)
      BY <1>0, <2>1, <2>3, <3>3
    <3> QED
      BY <3>2, <3>4
  <2>5. Good(g, m + 1)
    BY <2>2, <2>4
  <2> HIDE DEF Good
  <2> QED
    BY <2>5
<1> HIDE DEF P
<1>3. F + 1 \in P
  <2>1. \A m \in Nat : m \in P
    BY <1>1, <1>2, Inductive
  <2> QED
    BY <1>0, <2>1
<1>4. PICK f : Good(f, F + 1)
  BY <1>3 DEF P
<1>5. \A p \in 0 .. F : f[p] = ParseAt(b, q, f, p)
  BY <1>0, <1>4
<1>6. [p \in 0 .. F |-> f[p]] = [p \in 0 .. F |-> ParseAt(b, q, f, p)]
  BY <1>5
<1>7. f = [p \in 0 .. F |-> ParseAt(b, q, f, p)]
  BY <1>4, <1>6, Zenon
<1> QED
  BY <1>7 DEF Parses

LEMMA ParseIs ==
  ASSUME NEW b, Readable(b), NEW q \in BOOLEAN
  PROVE  \E f : /\ \A p \in 0 .. b.filled : f[p] = ParseAt(b, q, f, p)
                /\ KernelParse(b, q) = f[0]
<1> DEFINE chosen == CHOOSE f : Parses(b, q, f)
<1>1. Parses(b, q, chosen)
  BY ParsesExists, Zenon
<1>2. KernelParse(b, q) = chosen[0]
  BY Zenon DEF KernelParse, Parses, ParseAt, Step, Header
<1> HIDE DEF chosen
<1>3. chosen = [p \in 0 .. b.filled |-> ParseAt(b, q, chosen, p)]
  BY <1>1 DEF Parses
<1>4. \A p \in 0 .. b.filled : chosen[p] = ParseAt(b, q, chosen, p)
  BY <1>3, Zenon
<1> QED
  BY <1>2, <1>4

Record == {EntryOf(n, k) : n \in Entry, k \in Nat}

LEMMA ConsIs ==
  ASSUME NEW S, NEW e \in S, NEW t \in Seq(S)
  PROVE  /\ << e >> \o t \in Seq(S) /\ Len(<< e >> \o t) = Len(t) + 1
         /\ (<< e >> \o t)[1] = e
         /\ \A i \in 1 .. Len(t) : (<< e >> \o t)[i + 1] = t[i]
OBVIOUS

(* The kernel finds the entries that were added, in their order. *)
LEMMA HoldsParse ==
  ASSUME NEW b, NEW q \in BOOLEAN, NEW ns \in Seq(Entry), NEW p \in Nat, NEW off,
         Holds(b, q, ns, p, off)
  PROVE  /\ KernelParse(b, q) \in Seq(Record) /\ Len(KernelParse(b, q)) = Len(ns)
         /\ \A i \in 1 .. Len(ns) : KernelParse(b, q)[i] = EntryOf(ns[i], p + i)
<1> DEFINE l == Len(ns)
           h == Header(q)
           F == b.filled
           E(i) == EntryOf(ns[i], p + i)
<1>1. /\ l \in Nat /\ off \in [0 .. l -> Nat] /\ off[0] = 0 /\ F = off[l] /\ F \in Nat
      /\ \A i \in 1 .. l : off[i] = off[i - 1] + Width(q, ns[i])
      /\ h \in Nat
  BY DEF Holds, Adds, Header, FUSE_ENTRY_OUT_SIZE
<1>2. \A k \in DOMAIN b.data : k \in Nat /\ k < F
  BY DEF Holds
<1>3. \A i \in 1 .. l : off[i - 1] + h \in DOMAIN b.data /\ b.data[off[i - 1] + h] = E(i)
  BY DEF Holds
<1>4. Readable(b)
  BY <1>1 DEF Readable, Holds
<1>5. PICK f : /\ \A k \in 0 .. F : f[k] = ParseAt(b, q, f, k)
               /\ KernelParse(b, q) = f[0]
  BY <1>4, ParseIs
<1>6. ASSUME NEW i \in 1 .. l
      PROVE  /\ E(i) \in Record
             /\ f[off[i - 1]] = << E(i) >> \o (IF i = l THEN << >> ELSE f[off[i]])
  <2>1. ns[i] \in Entry /\ p + i \in Nat
    BY <1>1
  <2>2. E(i) \in Record /\ "name" \in DOMAIN E(i) /\ E(i).namelen = NameLen[ns[i]]
    BY <2>1 DEF Record, EntryOf, Dirent
  <2>3. Step(q, E(i)) = Width(q, ns[i])
    BY <2>1, <2>2, WidthIs DEF Step
  <2>4. off[i - 1] \in Nat /\ off[i] \in Nat /\ off[i - 1] + Width(q, ns[i]) = off[i]
    BY <1>1, SMTT(30)
  <2>5. off[i - 1] \in 0 .. F /\ IsDirent(b, off[i - 1] + h)
    BY <1>1, <1>2, <1>3, <2>2, <2>4 DEF IsDirent
  <2>6. ~ (off[i] > F) /\ (off[i] = F <=> i = l)
    <3>1. CASE i = l
      BY <1>1, <3>1
    <3>2. CASE i # l
      <4>1. i + 1 \in 1 .. l /\ (i + 1) - 1 = i
        BY <1>1, <3>2
      <4>2. off[i] + h \in DOMAIN b.data
        BY <1>3, <4>1
      <4> QED
        BY <1>1, <1>2, <2>4, <3>2, <4>2
    <3> QED
      BY <3>1, <3>2
  <2>7. b.data[off[i - 1] + Header(q)] = E(i) /\ IsDirent(b, off[i - 1] + Header(q))
    BY <1>3, <2>5
  <2> HIDE DEF E
  <2>8. f[off[i - 1]] = ParseAt(b, q, f, off[i - 1])
    BY <1>5, <2>5
  <2> HIDE DEF F, h, l
  <2>9. off[i - 1] + Step(q, E(i)) = off[i]
    BY <2>3, <2>4
  <2>10. ParseAt(b, q, f, off[i - 1]) =
           << E(i) >> \o (IF off[i] = b.filled THEN << >> ELSE f[off[i]])
    BY <2>6, <2>7, <2>9 DEF ParseAt, F
  <2> QED
    BY <2>2, <2>6, <2>8, <2>10 DEF F
<1> HIDE DEF E
<1> DEFINE Q(m) == /\ f[off[l - m]] \in Seq(Record) /\ Len(f[off[l - m]]) = m
                   /\ \A i \in 1 .. m : f[off[l - m]][i] = E((l - m) + i)
           P == {m \in Nat : m + 1 <= l => Q(m + 1)}
<1>7. 0 \in P
  <2>0. PICK z : z = 0 + 1 /\ z = 1
    OBVIOUS
  <2> SUFFICES ASSUME z <= l PROVE Q(z)
    <3> HIDE DEF Q
    <3> QED
      BY <2>0
  <2>1. l \in 1 .. l
    BY <1>1, <2>0
  <2>2. f[off[l - 1]] = << E(l) >> \o << >> /\ E(l) \in Record
    BY <1>6, <2>1
  <2>3. << >> \in Seq(Record) /\ Len(<< >>) = 0
    OBVIOUS
  <2>4. /\ << E(l) >> \o << >> \in Seq(Record) /\ Len(<< E(l) >> \o << >>) = 0 + 1
        /\ (<< E(l) >> \o << >>)[1] = E(l)
    BY <2>2, <2>3, ConsIs
  <2>5. \A i \in 1 .. 1 : i = 1 /\ (l - 1) + i = l
    BY <1>1
  <2>6. Q(1)
    BY <2>2, <2>4, <2>5
  <2> QED
    BY <2>0, <2>6
<1>8. ASSUME NEW m \in Nat, m \in P
      PROVE  m + 1 \in P
  <2> SUFFICES ASSUME (m + 1) + 1 <= l PROVE Q((m + 1) + 1)
    OBVIOUS
  <2> DEFINE j == l - (m + 1)
  <2>0. l \in Nat
    BY <1>1
  <2>1. j \in 1 .. l /\ j # l /\ j - 1 = l - ((m + 1) + 1) /\ m + 1 <= l
    <3> HIDE DEF P
    <3> QED
      BY <2>0, SMTT(30)
  <2>2. Q(m + 1)
    BY <1>8, <2>1, Zenon
  <2>3. PICK t : t = f[off[j]]
    OBVIOUS
  <2>4. t \in Seq(Record) /\ Len(t) = m + 1 /\ \A i \in 1 .. (m + 1) : t[i] = E(j + i)
    BY <2>2, <2>3
  <2> HIDE DEF j
  <2>5. f[off[j - 1]] = << E(j) >> \o t /\ E(j) \in Record
    BY <1>6, <2>1, <2>3
  <2>6. PICK u : u = << E(j) >> \o t
    OBVIOUS
  <2>7. /\ u \in Seq(Record) /\ Len(u) = Len(t) + 1 /\ u[1] = E(j)
        /\ \A i \in 1 .. Len(t) : u[i + 1] = t[i]
    BY <2>4, <2>5, <2>6, ConsIs
  <2>8. ASSUME NEW i \in 1 .. ((m + 1) + 1) PROVE u[i] = E((j - 1) + i)
    <3>1. CASE i = 1
      <4>1. (j - 1) + i = j
        BY <2>1, <3>1
      <4> QED
        BY <2>7, <3>1, <4>1
    <3>2. CASE i # 1
      <4>1. i - 1 \in 1 .. (m + 1) /\ (i - 1) + 1 = i /\ (j - 1) + i = j + (i - 1)
        BY <2>1, <3>2
      <4>2. u[(i - 1) + 1] = t[i - 1]
        BY <2>4, <2>7, <4>1
      <4> QED
        BY <2>4, <4>1, <4>2
    <3> QED
      BY <3>1, <3>2
  <2>9. f[off[j - 1]] = u
    BY <2>5, <2>6
  <2>10. Len(u) = (m + 1) + 1
    BY <2>4, <2>7
  <2> QED
    BY <2>1, <2>7, <2>8, <2>9, <2>10
<1> HIDE DEF P
<1>9. \A m \in Nat : m \in P
  BY <1>7, <1>8, Inductive
<1>10. CASE l = 0
  <2>1. F = 0 /\ 0 \in 0 .. F
    BY <1>1, <1>10
  <2>2. ~ IsDirent(b, 0 + Header(q))
    BY <1>2, <2>1 DEF IsDirent
  <2>3. f[0] = << >>
    BY <1>5, <2>1, <2>2 DEF ParseAt
  <2>4. << >> \in Seq(Record) /\ Len(<< >>) = 0 /\ 1 .. 0 = {}
    OBVIOUS
  <2> QED
    BY <1>5, <1>10, <2>3, <2>4
<1>11. CASE l # 0
  <2>1. l - 1 \in Nat /\ (l - 1) + 1 = l /\ l - l = 0
    BY <1>1, <1>11
  <2>2. Q((l - 1) + 1)
    <3>1. l - 1 \in P
      BY <1>9, <2>1
    <3> QED
      BY <1>1, <2>1, <3>1 DEF P
  <2>3. Q(l)
    BY <2>1, <2>2
  <2>4. \A i \in 1 .. l : 0 + i = i
    BY <1>1
  <2> QED
    BY <1>1, <1>5, <2>1, <2>3, <2>4 DEF E
<1> QED
  BY <1>10, <1>11

(* The bytes that one more entry would need. *)
SumAt(f, p, i) == IF i = 0 THEN 0 ELSE f[i - 1] + Width(plus, Listing[p + i])
Sums(f, k, p) == f = [i \in 0 .. k |-> SumAt(f, p, i)]

LEMMA RoomIs ==
  ASSUME NEW ns \in Seq(Entry), NEW off, Adds(plus, ns, off), NEW p \in Nat,
         \A i \in 1 .. Len(ns) : ns[i] = Listing[p + i]
  PROVE  Room(Len(ns) + 1, p) = off[Len(ns)] + Width(plus, Listing[p + (Len(ns) + 1)])
<1> DEFINE l == Len(ns)
           w == Width(plus, Listing[p + (l + 1)])
           g == [i \in 0 .. (l + 1) |-> IF i = l + 1 THEN off[l] + w ELSE off[i]]
<1>1. /\ l \in Nat /\ off[0] = 0
      /\ \A i \in 1 .. l : off[i] = off[i - 1] + Width(plus, Listing[p + i])
  BY DEF Adds
<1> HIDE DEF w, l
<1>2. Sums(g, l + 1, p)
  <2>1. \A i \in 0 .. l : g[i] = off[i]
    BY <1>1
  <2>2. g[l + 1] = off[l] + w
    BY <1>1
  <2>3. ASSUME NEW i \in 0 .. (l + 1) PROVE g[i] = SumAt(g, p, i)
    <3>1. CASE i = 0
      BY <1>1, <2>1, <3>1 DEF SumAt
    <3>2. CASE i = l + 1
      <4>1. i - 1 = l /\ i - 1 \in 0 .. l /\ i # 0
        BY <1>1, <3>2
      <4>2. g[i - 1] = off[l]
        BY <2>1, <4>1
      <4> QED
        BY <2>2, <3>2, <4>1, <4>2 DEF SumAt, w
    <3>3. CASE i # 0 /\ i # l + 1
      <4>1. i \in 1 .. l /\ i \in 0 .. l /\ i - 1 \in 0 .. l
        BY <1>1, <3>3
      <4> QED
        BY <1>1, <2>1, <3>3, <4>1 DEF SumAt
    <3> QED
      BY <3>1, <3>2, <3>3
  <2>4. g = [i \in 0 .. (l + 1) |-> g[i]]
    OBVIOUS
  <2> HIDE DEF g
  <2>5. [i \in 0 .. (l + 1) |-> g[i]] = [i \in 0 .. (l + 1) |-> SumAt(g, p, i)]
    BY <2>3
  <2>6. g = [i \in 0 .. (l + 1) |-> SumAt(g, p, i)]
    BY <2>4, <2>5, Zenon
  <2> QED
    BY <2>6 DEF Sums
<1> HIDE DEF g
<1> DEFINE chosen == CHOOSE f : Sums(f, l + 1, p)
<1>3. Sums(chosen, l + 1, p)
  BY <1>2, Zenon
<1>4. Room(l + 1, p) = chosen[l + 1]
  BY Zenon DEF Room, Sums, SumAt, Width
<1> HIDE DEF chosen
<1>5. chosen = [i \in 0 .. (l + 1) |-> SumAt(chosen, p, i)]
  BY <1>3 DEF Sums
<1>6. \A i \in 0 .. (l + 1) : chosen[i] = SumAt(chosen, p, i)
  BY <1>5, Zenon
<1> DEFINE P == {i \in Nat : i <= l => chosen[i] = off[i]}
<1>7. 0 \in P
  BY <1>1, <1>6 DEF SumAt
<1>8. ASSUME NEW i \in Nat, i \in P PROVE i + 1 \in P
  <2> SUFFICES ASSUME i + 1 <= l PROVE chosen[i + 1] = off[i + 1]
    OBVIOUS
  <2>1. i <= l /\ i + 1 \in 0 .. (l + 1) /\ i + 1 \in 1 .. l /\ (i + 1) - 1 = i /\ i + 1 # 0
    BY <1>1
  <2>2. chosen[i + 1] = SumAt(chosen, p, i + 1)
    BY <1>6, <2>1
  <2>3. chosen[i] = off[i]
    BY <1>8, <2>1
  <2>4. off[i + 1] = off[i] + Width(plus, Listing[p + (i + 1)])
    BY <1>1, <2>1
  <2> QED
    BY <2>1, <2>2, <2>3, <2>4 DEF SumAt
<1> HIDE DEF P
<1>9. \A i \in Nat : i \in P
  BY <1>7, <1>8, Inductive
<1>10. chosen[l] = off[l]
  BY <1>1, <1>9 DEF P
<1>11. chosen[l + 1] = SumAt(chosen, p, l + 1) /\ l + 1 # 0 /\ (l + 1) - 1 = l
  BY <1>1, <1>6
<1>12. chosen[l + 1] = off[l] + w
  BY <1>10, <1>11 DEF SumAt, w
<1> QED
  BY <1>4, <1>12 DEF l, w

-----------------------------------------------------------------------------
(***************************************************************************)
(* The invariant of handle_readdir.                                        *)
(***************************************************************************)
LEMMA SameListing ==
  ASSUME files' = files
  PROVE  file_count' = file_count /\ Listing' = Listing
<1>1. file_count' = file_count
  BY DEF file_count
<1>2. \A k : Nth(k)' = Nth(k)
  BY DEF Nth
<1> QED
  BY <1>1, <1>2 DEF Listing

DirType ==
  /\ files \in SUBSET Name
  /\ pc \in {"idle", "files", "dotdot", "dot", "reply"}
  /\ next \in Nat /\ plus \in BOOLEAN /\ pos \in Nat
  /\ got \in Seq(Entry) /\ ended \in BOOLEAN
  /\ stable \subseteq files /\ created \in Nat /\ removed \in Nat

(* How far the loop has come when k entries have been added: an offset     *)
(* behind the place it looks at adds nothing, and it stops at the first    *)
(* entry that does not fit.                                                *)
AtPhase(k) ==
  /\ pc = "files" => next = pos + k /\ (next <= file_count \/ k = 0)
  /\ pc = "dotdot" => next = pos + k /\ next >= file_count /\ (next = file_count \/ k = 0)
  /\ pc = "dot" => next = pos + k /\ next >= file_count + 1 /\ (next = file_count + 1 \/ k = 0)
  /\ pc = "reply" =>
       pos + k >= file_count + 2 \/ buf.filled + Width(plus, Listing[pos + (k + 1)]) > buf.size

Placed(ns, off) ==
  /\ ns \in Seq(Entry) /\ Holds(buf, plus, ns, pos, off)
  /\ \A i \in 1 .. Len(ns) : pos + i <= file_count + 2 /\ ns[i] = Listing[pos + i]
  /\ AtPhase(Len(ns))

FillInv ==
  /\ buf.filled <= buf.size
  /\ pc # "idle" =>
       /\ ~ended
       /\ buf.size \in IF plus THEN ReaddirPlusSizes ELSE ReaddirSizes
       /\ \E ns, off : Placed(ns, off)

LEMMA EntryFits ==
  ASSUME NEW n \in Entry, NEW q \in BOOLEAN,
         NEW z \in IF q THEN ReaddirPlusSizes ELSE ReaddirSizes
  PROVE  z \in Nat /\ Width(q, n) <= z
<1>1. CASE q
  BY <1>1, SizesAssumption DEF Width
<1>2. CASE ~ q
  BY <1>2, SizesAssumption DEF Width
<1> QED
  BY <1>1, <1>2

LEMMA FillInit == Init => DirType /\ FillInv
<1> SUFFICES ASSUME Init PROVE DirType /\ FillInv
  OBVIOUS
<1>1. << >> \in Seq(Entry)
  OBVIOUS
<1>2. DirType
  BY <1>1 DEF Init, DirType
<1>3. new(0).size = 0 /\ new(0).filled = 0
  BY DEF new
<1>4. FillInv
  BY <1>3 DEF Init, FillInv
<1> QED
  BY <1>2, <1>4

LEMMA ReaddirFill ==
  ASSUME DirType, FillInv, Readdir
  PROVE  DirType' /\ FillInv'
<1>1. PICK q \in BOOLEAN, z \in ReaddirSizes \cup ReaddirPlusSizes :
         z \in (IF q THEN ReaddirPlusSizes ELSE ReaddirSizes) /\ plus' = q /\ buf' = new(z)
  BY DEF Readdir
<1>2. /\ pc = "idle" /\ ~ended /\ pc' = "files" /\ next' = pos
      /\ UNCHANGED <<files, pos, got, ended, stable, created, removed>>
  BY DEF Readdir, kernelVars, ghostVars
<1>3. z \in Nat
  BY SizesAssumption
<1>4. DirType'
  BY <1>1, <1>2 DEF DirType
<1>5. PICK off : Holds(new(z), q, << >>, pos, off)
  BY <1>3, HoldsNone DEF DirType
<1>6. << >> \in Seq(Entry) /\ Len(<< >>) = 0 /\ 1 .. 0 = {}
  OBVIOUS
<1>7. AtPhase(0)'
  BY <1>2 DEF AtPhase, DirType
<1>8. Placed(<< >>, off)'
  BY <1>1, <1>2, <1>5, <1>6, <1>7 DEF Placed
<1>9. new(z).size = z /\ new(z).filled = 0
  BY DEF new
<1> QED
  BY <1>1, <1>2, <1>3, <1>4, <1>8, <1>9 DEF FillInv

(* A step of the loop leaves everything but its own variables alone. *)
LEMMA LoopType ==
  ASSUME DirType, next' \in Nat, pc' \in {"files", "dotdot", "dot", "reply"},
         UNCHANGED <<files, plus, pos, got, ended, stable, created, removed>>
  PROVE  DirType'
BY DEF DirType

(* add_entry for the entry that is next in the listing. *)
LEMMA AddEntryFill ==
  ASSUME DirType, FillInv, pc # "idle", NEW ns, NEW off, Placed(ns, off),
         NEW n, NEW then \in {"files", "dot", "reply"}, add_entry(n, then),
         next = pos + Len(ns),
         pos + (Len(ns) + 1) <= file_count + 2, n = Listing[pos + (Len(ns) + 1)],
         then = "files" => next < file_count,
         then = "dot" => next = file_count,
         then = "reply" => next = file_count + 1
  PROVE  DirType' /\ FillInv'
<1> DEFINE l == Len(ns)
<1>1. /\ next' = next + 1
      /\ UNCHANGED <<files, plus, pos, got, ended, stable, created, removed>>
  BY DEF add_entry, kernelVars, ghostVars
<1>2. /\ ns \in Seq(Entry) /\ l \in Nat /\ pos \in Nat /\ next \in Nat /\ plus \in BOOLEAN
      /\ file_count \in Nat /\ files \in SUBSET Name
  BY ListingIs DEF Placed, DirType
<1>3. n \in Entry
  <2>1. pos + (l + 1) \in 1 .. (file_count + 2)
    BY <1>2
  <2>2. With(files) \subseteq Entry
    BY <1>2, WithIs
  <2> QED
    BY <1>2, <2>1, <2>2, ListingIs
<1>4. file_count' = file_count /\ Listing' = Listing
  BY <1>1, SameListing
<1>5. CASE Full(buf, plus, NameLen[n])
  <2>1. buf' = buf /\ pc' = "reply"
    BY <1>5 DEF add_entry
  <2>2. buf.filled + Width(plus, n) > buf.size
    BY <1>5 DEF Full, Width
  <2>3. DirType'
    BY <1>1, <1>2, <2>1, LoopType
  <2>4. AtPhase(l)'
    BY <1>1, <1>4, <2>1, <2>2 DEF AtPhase
  <2>5. Placed(ns, off)'
    BY <1>1, <1>4, <2>1, <2>4 DEF Placed
  <2> QED
    BY <1>1, <2>1, <2>3, <2>5 DEF FillInv
<1>6. CASE ~ Full(buf, plus, NameLen[n])
  <2> DEFINE ms == Append(ns, n)
  <2>0. next + 1 = pos + l + 1
    BY <1>2
  <2>1. buf' = Added(buf, plus, EntryOf(n, pos + l + 1)) /\ pc' = then
    BY <1>6, <2>0 DEF add_entry, Added, EntryOf
  <2>2. ~ (buf.filled + Width(plus, n) > buf.size)
    BY <1>6 DEF Full, Width
  <2>3. Holds(buf, plus, ns, pos, off)
    BY DEF Placed
  <2>4. /\ \E o : Holds(buf', plus, ms, pos, o)
        /\ buf'.size = buf.size /\ buf'.filled = buf.filled + Width(plus, n)
    BY <1>2, <1>3, <2>1, <2>3, HoldsMore
  <2>5. PICK o : Holds(buf', plus, ms, pos, o)
    BY <2>4
  <2>6. DirType'
    BY <1>1, <1>2, <2>1, LoopType
  <2>7. /\ ms \in Seq(Entry) /\ Len(ms) = l + 1 /\ ms[l + 1] = n
        /\ \A i \in 1 .. l : ms[i] = ns[i]
    BY <1>2, <1>3
  <2>8. ASSUME NEW i \in 1 .. (l + 1)
        PROVE  pos + i <= file_count + 2 /\ ms[i] = Listing[pos + i]
    <3>1. CASE i = l + 1
      BY <2>7, <3>1
    <3>2. CASE i # l + 1
      <4>1. i \in 1 .. l
        BY <1>2, <3>2
      <4> QED
        BY <2>7, <4>1 DEF Placed
    <3> QED
      BY <3>1, <3>2
  <2>9. AtPhase(l + 1)'
    <3>1. next + 1 = pos + (l + 1) /\ (next < file_count => next + 1 <= file_count)
          /\ (next = file_count + 1 => pos + (l + 1) >= file_count + 2)
      BY <1>2
    <3> QED
      BY <1>1, <1>2, <1>4, <2>1, <3>1 DEF AtPhase
  <2> HIDE DEF ms
  <2>10. Placed(ms, o)'
    BY <1>1, <1>4, <2>5, <2>7, <2>8, <2>9 DEF Placed
  <2>11. buf.filled \in Nat /\ buf.size \in Nat /\ Width(plus, n) \in Nat
    <3>1. buf.filled \in Nat /\ buf.size \in Nat
      BY <1>2, <2>3 DEF Holds, Adds
    <3> QED
      BY <1>2, <1>3, <3>1, WidthIs
  <2>12. buf'.filled <= buf'.size
    BY <2>2, <2>4, <2>11
  <2> QED
    BY <1>1, <2>4, <2>6, <2>10, <2>12 DEF FillInv
<1> QED
  BY <1>5, <1>6

(* The steps of handle_readdir up to its reply. *)
Loop == AddFile \/ EndFiles \/ AddDotDot \/ SkipDotDot \/ AddDot \/ SkipDot

LEMMA GotoFill ==
  ASSUME DirType, FillInv, pc # "idle", NEW ns, NEW off, Placed(ns, off),
         NEW there \in {"files", "dotdot", "dot", "reply"}, Goto(there), AtPhase(Len(ns))'
  PROVE  DirType' /\ FillInv'
<1>1. UNCHANGED <<files, next, plus, buf, pos, got, ended, stable, created, removed>> /\ pc' = there
  BY DEF Goto, kernelVars, ghostVars
<1>2. file_count' = file_count /\ Listing' = Listing
  BY <1>1, SameListing
<1>3. DirType'
  BY <1>1, LoopType DEF DirType
<1>4. Placed(ns, off)'
  BY <1>1, <1>2 DEF Placed
<1> QED
  BY <1>1, <1>3, <1>4 DEF FillInv

LEMMA LoopFill ==
  ASSUME DirType, FillInv, Loop
  PROVE  DirType' /\ FillInv'
<1>1. pc # "idle"
  BY DEF Loop, AddFile, EndFiles, AddDotDot, SkipDotDot, AddDot, SkipDot
<1>2. PICK ns, off : Placed(ns, off)
  BY <1>1 DEF FillInv
<1> DEFINE l == Len(ns)
<1>3. /\ l \in Nat /\ pos \in Nat /\ next \in Nat /\ file_count \in Nat
      /\ \A i \in 1 .. file_count : Listing[i] = Nth(i - 1)
      /\ Listing[file_count + 1] = DotDot /\ Listing[file_count + 2] = Dot
  <2>1. ns \in Seq(Entry) /\ files \in SUBSET Name /\ pos \in Nat /\ next \in Nat
    BY <1>2 DEF Placed, DirType
  <2> QED
    BY <2>1, ListingIs
<1>4. AtPhase(l)
  BY <1>2 DEF Placed
<1> HIDE DEF l
<1>5. CASE AddFile
  <2>1. pc = "files" /\ next < file_count /\ add_entry(Nth(next), "files")
    BY <1>5 DEF AddFile
  <2>2. next = pos + l
    BY <1>4, <2>1 DEF AtPhase
  <2>3. /\ pos + (l + 1) \in 1 .. file_count /\ (pos + (l + 1)) - 1 = next
        /\ pos + (l + 1) <= file_count + 2 /\ next # file_count /\ next # file_count + 1
    BY <1>3, <2>1, <2>2
  <2>4. Nth(next) = Listing[pos + (l + 1)]
    BY <1>3, <2>3
  <2> QED
    BY <1>1, <1>2, <2>1, <2>2, <2>3, <2>4, AddEntryFill DEF l
<1>6. CASE AddDotDot
  <2>1. pc = "dotdot" /\ next = file_count /\ add_entry(DotDot, "dot")
    BY <1>6 DEF AddDotDot
  <2>2. next = pos + l
    BY <1>4, <2>1 DEF AtPhase
  <2>3. pos + (l + 1) = file_count + 1 /\ pos + (l + 1) <= file_count + 2
    BY <1>3, <2>1, <2>2
  <2>4. DotDot = Listing[pos + (l + 1)]
    BY <1>3, <2>3
  <2> QED
    BY <1>1, <1>2, <2>1, <2>2, <2>3, <2>4, AddEntryFill DEF l
<1>7. CASE AddDot
  <2>1. pc = "dot" /\ next = file_count + 1 /\ add_entry(Dot, "reply")
    BY <1>7 DEF AddDot
  <2>2. next = pos + l
    BY <1>4, <2>1 DEF AtPhase
  <2>3. pos + (l + 1) = file_count + 2 /\ pos + (l + 1) <= file_count + 2
    BY <1>3, <2>1, <2>2
  <2>4. Dot = Listing[pos + (l + 1)]
    BY <1>3, <2>3
  <2> QED
    BY <1>1, <1>2, <2>1, <2>2, <2>3, <2>4, AddEntryFill DEF l
<1>8. ASSUME NEW there, Goto(there)
      PROVE  /\ pc' = there /\ next' = next /\ pos' = pos /\ plus' = plus /\ buf' = buf
             /\ file_count' = file_count /\ Listing' = Listing
  BY <1>8, SameListing DEF Goto, kernelVars
<1>9. CASE EndFiles
  <2>1. pc = "files" /\ next >= file_count /\ Goto("dotdot")
    BY <1>9 DEF EndFiles
  <2>2. next = pos + l /\ (next = file_count \/ l = 0)
    BY <1>3, <1>4, <2>1 DEF AtPhase
  <2>3. AtPhase(l)'
    BY <1>8, <2>1, <2>2 DEF AtPhase
  <2> QED
    BY <1>1, <1>2, <2>1, <2>3, GotoFill DEF l
<1>10. CASE SkipDotDot
  <2>1. pc = "dotdot" /\ next # file_count /\ Goto("dot")
    BY <1>10 DEF SkipDotDot
  <2>2. next = pos + l /\ next >= file_count + 1 /\ l = 0
    BY <1>3, <1>4, <2>1 DEF AtPhase
  <2>3. AtPhase(l)'
    BY <1>8, <2>1, <2>2 DEF AtPhase
  <2> QED
    BY <1>1, <1>2, <2>1, <2>3, GotoFill DEF l
<1>11. CASE SkipDot
  <2>1. pc = "dot" /\ next # file_count + 1 /\ Goto("reply")
    BY <1>11 DEF SkipDot
  <2>2. next = pos + l /\ pos + l >= file_count + 2
    BY <1>3, <1>4, <2>1 DEF AtPhase
  <2>3. AtPhase(l)'
    BY <1>8, <2>1, <2>2 DEF AtPhase
  <2> QED
    BY <1>1, <1>2, <2>1, <2>3, GotoFill DEF l
<1> QED
  BY <1>5, <1>6, <1>7, <1>9, <1>10, <1>11 DEF Loop

LEMMA EntryOfIs ==
  ASSUME NEW n \in Entry, NEW at
  PROVE  /\ EntryOf(n, at).name = n /\ EntryOf(n, at).off = at
         /\ EntryOf(n, at).ino = Stat(n).ino
         /\ EntryOf(n, at).typ = IF IsDir(n) THEN 4 ELSE 8
<1>1. Stat(n).mode = IF IsDir(n) THEN 16384 + 493 ELSE 32768 + 420
  BY DEF Stat
<1>2. ((16384 + 493) \div 4096) % 16 = 4 /\ ((32768 + 420) \div 4096) % 16 = 8
  OBVIOUS
<1>3. mode_to_dirent_type(Stat(n).mode) = IF IsDir(n) THEN 4 ELSE 8
  BY <1>1, <1>2 DEF mode_to_dirent_type
<1> QED
  BY <1>3 DEF EntryOf, Dirent

(* What the kernel finds in a finished reply. *)
LEMMA ReplyIs ==
  ASSUME DirType, FillInv, pc = "reply"
  PROVE  LET entries == KernelParse(buf, plus)
         IN  /\ Len(entries) \in Nat
             /\ \A i \in 1 .. Len(entries) :
                  /\ pos + i <= file_count + 2 /\ Listing[pos + i] \in Entry
                  /\ entries[i] = EntryOf(Listing[pos + i], pos + i)
             /\ pos + Len(entries) < file_count + 2 =>
                  Room(Len(entries) + 1, pos) > buf.size
             /\ entries = << >> => Len(entries) = 0 /\ pos >= file_count + 2
<1>1. PICK ns, off : Placed(ns, off)
  BY DEF FillInv
<1> DEFINE l == Len(ns)
           entries == KernelParse(buf, plus)
           w == Width(plus, Listing[pos + (l + 1)])
<1>2. /\ ns \in Seq(Entry) /\ Holds(buf, plus, ns, pos, off) /\ AtPhase(l)
      /\ \A i \in 1 .. l : pos + i <= file_count + 2 /\ ns[i] = Listing[pos + i]
      /\ plus \in BOOLEAN /\ pos \in Nat /\ files \in SUBSET Name
  BY <1>1 DEF Placed, DirType
<1>3. /\ Len(entries) = l /\ l \in Nat
      /\ \A i \in 1 .. l : entries[i] = EntryOf(ns[i], pos + i) /\ ns[i] \in Entry
  BY <1>2, HoldsParse
<1>4. Adds(plus, ns, off) /\ buf.filled = off[l] /\ buf.size \in Nat
  BY <1>2 DEF Holds
<1>5. pos + l >= file_count + 2 \/ buf.filled + w > buf.size
  BY <1>2 DEF AtPhase
<1>6. Room(l + 1, pos) = off[l] + w
  BY <1>2, <1>4, RoomIs
<1>7. file_count \in Nat
  BY <1>2, ListingIs
<1>8. pos + l < file_count + 2 => Room(l + 1, pos) > buf.size
  BY <1>2, <1>3, <1>4, <1>5, <1>6, <1>7
<1>9. ASSUME l = 0 PROVE pos >= file_count + 2
  <2> SUFFICES ASSUME pos < file_count + 2 PROVE FALSE
    BY <1>2, <1>7
  <2>1. pos + 1 \in 1 .. (file_count + 2) /\ pos + (l + 1) = pos + 1 /\ pos + l < file_count + 2
    BY <1>2, <1>7, <1>9
  <2>2. Listing[pos + 1] \in Entry
    BY <1>2, <2>1, ListingIs, WithIs
  <2>3. buf.size \in IF plus THEN ReaddirPlusSizes ELSE ReaddirSizes
    BY DEF FillInv
  <2>4. Width(plus, Listing[pos + 1]) <= buf.size
    BY <1>2, <2>2, <2>3, EntryFits
  <2>5. off[l] = 0
    BY <1>4, <1>9 DEF Adds
  <2>6. Width(plus, Listing[pos + 1]) \in Nat
    BY <1>2, <2>2, WidthIs
  <2> QED
    BY <1>2, <1>4, <1>5, <1>7, <2>1, <2>4, <2>5, <2>6
<1>10. entries = << >> => l = 0
  BY <1>3
<1> HIDE DEF entries, l
<1> QED
  BY <1>2, <1>3, <1>8, <1>9, <1>10 DEF entries

LEMMA SegmentHolds ==
  ASSUME DirType, FillInv
  PROVE  ReplyIsSegment
<1>1. buf.filled <= buf.size
  BY DEF FillInv
<1>2. ASSUME pc = "reply"
      PROVE  LET entries == KernelParse(buf, plus)
                 k       == Len(entries)
             IN  /\ pos + k <= Len(Listing) \/ k = 0
                 /\ \A i \in 1 .. k :
                      /\ entries[i].name = Listing[pos + i]
                      /\ entries[i].off  = pos + i
                      /\ entries[i].ino  = Stat(Listing[pos + i]).ino
                      /\ entries[i].typ  = IF IsDir(Listing[pos + i]) THEN 4 ELSE 8
                 /\ pos + k < Len(Listing) => Room(k + 1, pos) > buf.size
  <2> DEFINE entries == KernelParse(buf, plus)
             k == Len(entries)
  <2>1. /\ k \in Nat
        /\ \A i \in 1 .. k :
             /\ pos + i <= file_count + 2 /\ Listing[pos + i] \in Entry
             /\ entries[i] = EntryOf(Listing[pos + i], pos + i)
        /\ pos + k < file_count + 2 => Room(k + 1, pos) > buf.size
    BY <1>2, ReplyIs
  <2>2. Len(Listing) = file_count + 2
    BY ListingIs DEF DirType
  <2> HIDE DEF entries, k
  <2>3. pos + k <= file_count + 2 \/ k = 0
    <3>1. k # 0 => k \in 1 .. k
      BY <2>1
    <3> QED
      BY <2>1, <3>1
  <2>4. \A i \in 1 .. k : /\ entries[i].name = Listing[pos + i]
                          /\ entries[i].off  = pos + i
                          /\ entries[i].ino  = Stat(Listing[pos + i]).ino
                          /\ entries[i].typ  = IF IsDir(Listing[pos + i]) THEN 4 ELSE 8
    BY <2>1, EntryOfIs
  <2> QED
    BY <2>1, <2>2, <2>3, <2>4 DEF k, entries
<1> QED
  BY <1>1, <1>2 DEF ReplyIsSegment

-----------------------------------------------------------------------------
(***************************************************************************)
(* What has been missed and what may be repeated.                          *)
(***************************************************************************)
Names(s) == {s[i] : i \in DOMAIN s}
Seen == Names(got)

(* Listed behind the kernel's back, and not seen. *)
Missed == {e \in With(stable) : Rank(With(files), e) < pos /\ e \notin Seen}

(* Seen, and still to come. *)
Twice == {e \in With(files) \cap Seen : Rank(With(files), e) >= pos}

(***************************************************************************)
(* ListedOnce is about the end of a listing.  On the way there a removal   *)
(* moves one entry at most in front of the offset, and a creation one at   *)
(* most behind it; what the kernel takes lies between two offsets.         *)
(***************************************************************************)
CountInv ==
  /\ Cardinality(Missed) <= removed
  /\ Len(got) + Cardinality(Twice) <= created + Cardinality(Seen)
  /\ ended => pos >= file_count + 2
  /\ created = 0 /\ removed = 0 =>
       /\ pos <= file_count + 2 /\ Len(got) = pos
       /\ \A i \in 1 .. pos : got[i] = Listing[i]

LEMMA ConcatIs ==
  ASSUME NEW S, NEW s \in Seq(S), NEW t \in Seq(S)
  PROVE  /\ s \o t \in Seq(S) /\ Len(s \o t) = Len(s) + Len(t)
         /\ \A i \in 1 .. Len(s) : (s \o t)[i] = s[i]
         /\ \A i \in 1 .. Len(t) : (s \o t)[Len(s) + i] = t[i]
         /\ Len(s) \in Nat /\ Len(t) \in Nat
OBVIOUS

LEMMA Appended ==
  ASSUME NEW S, NEW s, NEW t, NEW c, s \in Seq(S), t \in Seq(S), c = s \o t
  PROVE  /\ c \in Seq(S) /\ Len(c) = Len(s) + Len(t)
         /\ \A i \in 1 .. Len(s) : c[i] = s[i]
         /\ \A i \in 1 .. Len(t) : c[Len(s) + i] = t[i]
         /\ Len(s) \in Nat
BY ConcatIs

LEMMA NamesMore ==
  ASSUME NEW S, NEW s \in Seq(S), NEW t \in Seq(S)
  PROVE  Names(s \o t) = Names(s) \cup Names(t)
<1> DEFINE c == s \o t
<1>1. /\ c \in Seq(S) /\ Len(c) = Len(s) + Len(t)
      /\ \A i \in 1 .. Len(s) : c[i] = s[i]
      /\ \A i \in 1 .. Len(t) : c[Len(s) + i] = t[i]
      /\ Len(s) \in Nat /\ Len(t) \in Nat
  BY ConcatIs
<1>2. DOMAIN c = 1 .. Len(c) /\ DOMAIN s = 1 .. Len(s) /\ DOMAIN t = 1 .. Len(t)
  BY <1>1
<1> HIDE DEF c
<1>3. ASSUME NEW x \in Names(c) PROVE x \in Names(s) \cup Names(t)
  <2>1. PICK i \in 1 .. Len(c) : x = c[i]
    BY <1>2 DEF Names
  <2>2. CASE i <= Len(s)
    <3>1. i \in 1 .. Len(s)
      BY <1>1, <2>2
    <3> QED
      BY <1>1, <1>2, <2>1, <3>1 DEF Names
  <2>3. CASE ~ (i <= Len(s))
    <3>1. i - Len(s) \in 1 .. Len(t) /\ Len(s) + (i - Len(s)) = i
      BY <1>1, <2>3
    <3>2. c[i] = t[i - Len(s)]
      BY <1>1, <3>1
    <3> QED
      BY <1>2, <2>1, <3>1, <3>2 DEF Names
  <2> QED
    BY <2>2, <2>3
<1>4. ASSUME NEW x \in Names(s) PROVE x \in Names(c)
  <2>1. PICK i \in 1 .. Len(s) : x = s[i]
    BY <1>2 DEF Names
  <2>2. i \in 1 .. Len(c)
    BY <1>1
  <2> QED
    BY <1>1, <1>2, <2>1, <2>2 DEF Names
<1>5. ASSUME NEW x \in Names(t) PROVE x \in Names(c)
  <2>1. PICK i \in 1 .. Len(t) : x = t[i]
    BY <1>2 DEF Names
  <2>2. Len(s) + i \in 1 .. Len(c) /\ c[Len(s) + i] = t[i]
    BY <1>1
  <2> QED
    BY <1>2, <2>1, <2>2 DEF Names
<1> QED
  BY <1>3, <1>4, <1>5 DEF c

LEMMA OneMoreAtMost ==
  ASSUME NEW A, IsFiniteSet(A), NEW X, \A x, y \in X : x = y,
         NEW B, B \subseteq A \cup X
  PROVE  IsFiniteSet(B) /\ Cardinality(B) <= Cardinality(A) + 1
<1>0. Cardinality(A) \in Nat
  BY FS_CardinalityType
<1>1. CASE X = {}
  <2>1. B \subseteq A
    BY <1>1
  <2>2. IsFiniteSet(B) /\ Cardinality(B) <= Cardinality(A)
    BY <2>1, FS_Subset
  <2>3. Cardinality(B) \in Nat
    BY <2>2, FS_CardinalityType
  <2> QED
    BY <1>0, <2>2, <2>3
<1>2. CASE X # {}
  <2>1. PICK x \in X : TRUE
    BY <1>2
  <2>2. B \subseteq A \cup {x}
    BY <2>1
  <2>3. /\ IsFiniteSet(A \cup {x})
        /\ Cardinality(A \cup {x}) = IF x \in A THEN Cardinality(A) ELSE Cardinality(A) + 1
    BY FS_AddElement
  <2>4. IsFiniteSet(B) /\ Cardinality(B) <= Cardinality(A \cup {x})
    BY <2>2, <2>3, FS_Subset
  <2>5. Cardinality(B) \in Nat
    BY <2>4, FS_CardinalityType
  <2> QED
    BY <1>0, <2>3, <2>4, <2>5
<1> QED
  BY <1>1, <1>2

(* The sets of the invariant are finite. *)
LEMMA CountsType ==
  ASSUME DirType
  PROVE  /\ IsFiniteSet(Seen) /\ IsFiniteSet(Missed) /\ IsFiniteSet(Twice)
         /\ Seen \subseteq Entry /\ Len(got) \in Nat
         /\ Cardinality(Seen) \in Nat /\ Cardinality(Missed) \in Nat /\ Cardinality(Twice) \in Nat
<1>1. got \in Seq(Entry) /\ files \in SUBSET Name /\ stable \in SUBSET Name
  BY DEF DirType
<1>2. IsFiniteSet(Entry)
  <2>1. Dot \in Int
    BY NameAssumption DEF Dot
  <2> QED
    BY <2>1, FS_Interval DEF Entry
<1>3. Seen \subseteq Entry
  BY <1>1 DEF Seen, Names
<1>4. With(stable) \subseteq Entry
  BY <1>1, WithIs
<1>5. Missed \subseteq Entry /\ Twice \subseteq Entry
  BY <1>3, <1>4 DEF Missed, Twice
<1>6. IsFiniteSet(Seen) /\ IsFiniteSet(Missed) /\ IsFiniteSet(Twice)
  BY <1>2, <1>3, <1>5, FS_Subset
<1> QED
  BY <1>1, <1>3, <1>6, FS_CardinalityType

LEMMA CountInit == Init => CountInv
<1> SUFFICES ASSUME Init PROVE CountInv
  OBVIOUS
<1>1. DirType /\ pos = 0 /\ got = << >> /\ ended = FALSE /\ created = 0 /\ removed = 0
  BY FillInit DEF Init
<1>2. Names(<< >>) = {} /\ Len(<< >>) = 0
  BY DEF Names
<1>3. Seen = {} /\ Twice = {}
  BY <1>1, <1>2 DEF Seen, Twice
<1>4. Missed = {}
  <2> SUFFICES ASSUME NEW e \in With(stable) PROVE ~ (Rank(With(files), e) < 0)
    BY <1>1 DEF Missed
  <2>1. With(files) \in SUBSET Nat /\ IsFiniteSet(With(files)) /\ With(stable) \subseteq Nat
    BY <1>1, WithIs DEF DirType
  <2>2. e \in Nat
    BY <2>1
  <2>3. Rank(With(files), e) \in Nat
    BY <2>1, <2>2, RankType
  <2> QED
    BY <2>3
<1>5. Cardinality({}) = 0
  BY FS_EmptySet
<1>6. file_count \in Nat
  BY <1>1, ListingIs DEF DirType
<1> QED
  BY <1>1, <1>2, <1>3, <1>4, <1>5, <1>6 DEF CountInv

(* What the kernel takes lies between two offsets. *)
LEMMA TakenIs ==
  ASSUME files \in SUBSET Name, pos \in Nat, NEW k \in Nat, pos + k <= file_count + 2,
         NEW t \in Seq(Entry), Len(t) = k, \A i \in 1 .. k : t[i] = Listing[pos + i]
  PROVE  /\ IsFiniteSet(Names(t)) /\ Cardinality(Names(t)) = k
         /\ \A e : e \in Names(t) <=> /\ e \in With(files)
                                      /\ Rank(With(files), e) >= pos
                                      /\ Rank(With(files), e) < pos + k
<1> DEFINE W == With(files)
<1>1. /\ file_count \in Nat
      /\ \A i \in 1 .. (file_count + 2) : Listing[i] \in W /\ Rank(W, Listing[i]) = i - 1
  BY ListingIs
<1>2. \A i \in 1 .. k : pos + i \in 1 .. (file_count + 2) /\ (pos + i) - 1 >= pos /\ (pos + i) - 1 < pos + k
  BY <1>1
<1>3. DOMAIN t = 1 .. k
  OBVIOUS
<1> HIDE DEF W
<1>4. \A i \in 1 .. k : t[i] \in W /\ Rank(W, t[i]) = (pos + i) - 1
  BY <1>1, <1>2
<1>5. \A i, j \in 1 .. k : t[i] = t[j] => i = j
  <2> SUFFICES ASSUME NEW i \in 1 .. k, NEW j \in 1 .. k, t[i] = t[j] PROVE i = j
    OBVIOUS
  <2>1. (pos + i) - 1 = (pos + j) - 1
    BY <1>4
  <2> QED
    BY <2>1
<1>6. IsFiniteSet(Names(t)) /\ Cardinality(Names(t)) = k
  <2>1. IsFiniteSet(1 .. k) /\ Cardinality(1 .. k) = k
    <3>1. /\ IsFiniteSet(1 .. k)
          /\ Cardinality(1 .. k) = IF 1 > k THEN 0 ELSE (k - 1) + 1
      BY FS_Interval
    <3> QED
      BY <3>1
  <2>2. t \in [1 .. k -> Names(t)]
    BY <1>3 DEF Names
  <2>3. \A y \in Names(t) : \E i \in 1 .. k : t[i] = y
    BY <1>3 DEF Names
  <2>4. t \in Surjection(1 .. k, Names(t))
    BY <2>2, <2>3 DEF Surjection
  <2>5. t \in Injection(1 .. k, Names(t))
    BY <1>5, <2>2 DEF Injection, IsInjective
  <2> QED
    BY <2>1, <2>4, <2>5, FS_Surjection
<1>7. ASSUME NEW e \in Names(t)
      PROVE  e \in W /\ Rank(W, e) >= pos /\ Rank(W, e) < pos + k
  <2>1. PICK i \in 1 .. k : e = t[i]
    BY <1>3 DEF Names
  <2> QED
    BY <1>2, <1>4, <2>1
<1>8. ASSUME NEW e \in W, Rank(W, e) >= pos, Rank(W, e) < pos + k
      PROVE  e \in Names(t)
  <2>1. Rank(W, e) + 1 \in 1 .. (file_count + 2) /\ Listing[Rank(W, e) + 1] = e
    BY ListedAt DEF W
  <2> DEFINE i == (Rank(W, e) + 1) - pos
  <2>2. i \in 1 .. k /\ pos + i = Rank(W, e) + 1
    BY <1>1, <1>8, <2>1
  <2>3. t[i] = e
    BY <2>1, <2>2
  <2> HIDE DEF i
  <2> QED
    BY <1>3, <2>2, <2>3 DEF Names
<1> QED
  BY <1>6, <1>7, <1>8 DEF W

LEMMA TakenCount ==
  ASSUME NEW S, NEW T, NEW E, IsFiniteSet(S), IsFiniteSet(T), IsFiniteSet(E),
         T \subseteq S, E \cap S \subseteq T
  PROVE  Cardinality(T \ E) + Cardinality(E) + Cardinality(S) =
           Cardinality(T) + Cardinality(S \cup E)
<1>1. S \cap E = T \cap E
  OBVIOUS
<1>2. Cardinality(S \cup E) = Cardinality(S) + Cardinality(E) - Cardinality(S \cap E)
  BY FS_Union
<1>3. Cardinality(T \ E) = Cardinality(T) - Cardinality(T \cap E)
  BY FS_Difference
<1>4. IsFiniteSet(T \cap E)
  BY FS_Intersection
<1>5. /\ Cardinality(S) \in Nat /\ Cardinality(T) \in Nat /\ Cardinality(E) \in Nat
      /\ Cardinality(T \cap E) \in Nat
  BY <1>4, FS_CardinalityType
<1>6. Cardinality(S \cup E) = Cardinality(S) + Cardinality(E) - Cardinality(T \cap E)
  BY <1>1, <1>2, Zenon
<1> QED
  BY <1>3, <1>5, <1>6

LEMMA ReplyCounts ==
  ASSUME DirType, FillInv, CountInv, Reply
  PROVE  DirType' /\ FillInv' /\ CountInv'
<1> DEFINE entries == KernelParse(buf, plus)
           W == With(files)
<1>1. /\ pc = "reply" /\ pc' = "idle" /\ buf' = new(0) /\ next' = 0 /\ plus' = FALSE
      /\ UNCHANGED <<files, stable, created, removed>>
  BY DEF Reply, ghostVars
<1>2. FillInv'
  <2>1. new(0).filled <= new(0).size
    BY DEF new
  <2> QED
    BY <1>1, <2>1 DEF FillInv
<1>3. /\ Len(entries) \in Nat
      /\ \A i \in 1 .. Len(entries) :
           /\ pos + i <= file_count + 2 /\ Listing[pos + i] \in Entry
           /\ entries[i] = EntryOf(Listing[pos + i], pos + i)
      /\ entries = << >> => pos >= file_count + 2
  BY <1>1, ReplyIs
<1>4. file_count' = file_count /\ Listing' = Listing
  BY <1>1, SameListing
<1>5. \/ entries = << >> /\ ended' = TRUE /\ UNCHANGED <<pos, got>>
      \/ \E k \in 1 .. Len(entries) :
           /\ got' = got \o [i \in 1 .. k |-> entries[i].name]
           /\ pos' = entries[k].off
           /\ UNCHANGED ended
  BY DEF Reply
<1> HIDE DEF entries
<1>6. CASE entries = << >> /\ ended' = TRUE /\ UNCHANGED <<pos, got>>
  <2>1. DirType'
    BY <1>1, <1>6 DEF DirType
  <2>2. Seen' = Seen /\ Missed' = Missed /\ Twice' = Twice
    BY <1>1, <1>6 DEF Seen, Missed, Twice
  <2>3. CountInv'
    BY <1>1, <1>3, <1>4, <1>6, <2>2 DEF CountInv
  <2> QED
    BY <1>2, <2>1, <2>3
<1>7. ASSUME NEW k \in 1 .. Len(entries),
             got' = got \o [i \in 1 .. k |-> entries[i].name],
             pos' = entries[k].off, UNCHANGED ended
      PROVE  DirType' /\ CountInv'
  <2> DEFINE t == [i \in 1 .. k |-> entries[i].name]
  <2>0. /\ files \in SUBSET Name /\ pos \in Nat /\ got \in Seq(Entry) /\ file_count \in Nat
        /\ created \in Nat /\ removed \in Nat /\ stable \in SUBSET Name /\ stable \subseteq files
    BY ListingIs DEF DirType
  <2>1. k \in Nat /\ k \in 1 .. Len(entries) /\ \A i \in 1 .. k : i \in 1 .. Len(entries)
    BY <1>3
  <2>2. \A i \in 1 .. k : /\ entries[i].name = Listing[pos + i] /\ Listing[pos + i] \in Entry
                          /\ entries[i].off = pos + i
    BY <1>3, <2>1, EntryOfIs
  <2>3. t \in Seq(Entry) /\ Len(t) = k /\ \A i \in 1 .. k : t[i] = Listing[pos + i]
    BY <2>1, <2>2
  <2>4. pos' = pos + k /\ pos + k <= file_count + 2 /\ k >= 1
    <3>1. k \in 1 .. k
      BY <2>1
    <3> QED
      BY <1>3, <1>7, <2>1, <2>2, <3>1
  <2> HIDE DEF t
  <2>5. /\ got' = got \o t /\ got' \in Seq(Entry) /\ Len(got') = Len(got) + k
        /\ \A i \in 1 .. Len(got) : got'[i] = got[i]
        /\ \A i \in 1 .. k : got'[Len(got) + i] = t[i]
        /\ Len(got) \in Nat
    <3>1. got' = got \o t
      BY <1>7 DEF t
    <3>2. PICK g, u : g = got /\ u = t
      OBVIOUS
    <3>3. g \in Seq(Entry) /\ u \in Seq(Entry) /\ got' = g \o u /\ Len(u) = k
      BY <2>0, <2>3, <3>1, <3>2
    <3>4. PICK c : c = g \o u
      OBVIOUS
    <3>5. /\ c \in Seq(Entry) /\ Len(c) = Len(g) + Len(u)
          /\ \A i \in 1 .. Len(g) : c[i] = g[i]
          /\ \A i \in 1 .. Len(u) : c[Len(g) + i] = u[i]
          /\ Len(g) \in Nat
      <4>1. g \in Seq(Entry) /\ u \in Seq(Entry) /\ c = g \o u
        BY <3>3, <3>4
      <4>2. c \in Seq(Entry)
        BY <4>1, Appended
      <4>3. Len(c) = Len(g) + Len(u)
        BY <4>1, Appended
      <4>4. \A i \in 1 .. Len(g) : c[i] = g[i]
        BY <4>1, Appended
      <4>5. \A i \in 1 .. Len(u) : c[Len(g) + i] = u[i]
        BY <4>1, Appended
      <4>6. Len(g) \in Nat
        BY <4>1, Appended
      <4> QED
        BY <4>2, <4>3, <4>4, <4>5, <4>6
    <3> QED
      BY <3>1, <3>2, <3>3, <3>4, <3>5
  <2>6. DirType'
    <3>1. ended' \in BOOLEAN
      BY <1>7 DEF DirType
    <3>2. pos' \in Nat
      BY <2>0, <2>1, <2>4
    <3>3. next' \in Nat
      BY <1>1
    <3>4. plus' \in BOOLEAN
      BY <1>1
    <3> QED
      BY <1>1, <2>0, <2>5, <3>1, <3>2, <3>3, <3>4 DEF DirType
  <2>7. /\ IsFiniteSet(Names(t)) /\ Cardinality(Names(t)) = k
        /\ \A e : e \in Names(t) <=> e \in W /\ Rank(W, e) >= pos /\ Rank(W, e) < pos + k
    BY <2>0, <2>1, <2>3, <2>4, TakenIs
  <2>8. Seen' = Seen \cup Names(t)
    BY <2>0, <2>3, <2>5, NamesMore DEF Seen
  <2>9. \A e \in W \cup With(stable) : Rank(W, e) \in Nat
    <3>1. W \in SUBSET Nat /\ IsFiniteSet(W) /\ With(stable) \subseteq Nat
      BY <2>0, WithIs
    <3> QED
      BY <3>1, RankType
  <2>10. Missed' \subseteq Missed
    <3> SUFFICES ASSUME NEW e \in With(stable), Rank(W, e) < pos + k, e \notin Seen,
                        e \notin Names(t)
                 PROVE  Rank(W, e) < pos
      BY <1>1, <2>4, <2>8 DEF Missed
    <3>1. e \in W
      BY <2>0 DEF With
    <3> QED
      BY <2>0, <2>7, <2>9, <3>1
  <2>11. Twice' = Twice \ Names(t)
    <3>1. Twice' = {e \in W \cap (Seen \cup Names(t)) : Rank(W, e) >= pos + k}
      BY <1>1, <2>4, <2>8 DEF Twice
    <3>2. \A e \in W : Rank(W, e) >= pos + k <=> Rank(W, e) >= pos /\ ~ (Rank(W, e) < pos + k)
      BY <2>0, <2>1, <2>9
    <3>3. ASSUME NEW e \in Twice' PROVE e \in Twice \ Names(t)
      <4>1. e \in W /\ e \in Seen \cup Names(t) /\ Rank(W, e) >= pos + k
        BY <3>1
      <4>2. Rank(W, e) >= pos /\ e \notin Names(t)
        BY <2>7, <3>2, <4>1
      <4> QED
        BY <4>1, <4>2 DEF Twice
    <3>4. ASSUME NEW e \in Twice \ Names(t) PROVE e \in Twice'
      <4>1. e \in W /\ e \in Seen /\ Rank(W, e) >= pos /\ e \notin Names(t)
        BY DEF Twice
      <4>2. Rank(W, e) >= pos + k
        BY <2>7, <3>2, <4>1
      <4> QED
        BY <3>1, <4>1, <4>2
    <3> QED
      BY <3>3, <3>4
  <2>12. /\ IsFiniteSet(Seen) /\ IsFiniteSet(Missed) /\ IsFiniteSet(Twice)
         /\ Cardinality(Seen) \in Nat /\ Cardinality(Missed) \in Nat /\ Cardinality(Twice) \in Nat
    BY CountsType
  <2>13. Twice \subseteq Seen /\ Names(t) \cap Seen \subseteq Twice
    BY <2>7 DEF Twice
  <2>14. Cardinality(Twice \ Names(t)) + k + Cardinality(Seen) =
           Cardinality(Twice) + Cardinality(Seen \cup Names(t))
    BY <2>7, <2>12, <2>13, TakenCount
  <2>15. /\ Cardinality(Missed') \in Nat /\ Cardinality(Twice') \in Nat /\ Cardinality(Seen') \in Nat
         /\ Cardinality(Missed') <= Cardinality(Missed)
    <3>1. IsFiniteSet(Missed') /\ Cardinality(Missed') <= Cardinality(Missed)
      BY <2>10, <2>12, FS_Subset
    <3>2. IsFiniteSet(Twice')
      BY <2>11, <2>12, FS_Difference
    <3>3. IsFiniteSet(Seen')
      BY <2>7, <2>8, <2>12, FS_Union
    <3> QED
      BY <3>1, <3>2, <3>3, FS_CardinalityType
  <2>16. Cardinality(Twice') + k + Cardinality(Seen) = Cardinality(Twice) + Cardinality(Seen')
    BY <2>8, <2>11, <2>14
  <2>17. Cardinality(Missed') <= removed'
    BY <1>1, <2>0, <2>12, <2>15 DEF CountInv
  <2>18. Len(got') + Cardinality(Twice') <= created' + Cardinality(Seen')
    <3>1. Len(got) + Cardinality(Twice) <= created + Cardinality(Seen)
      BY DEF CountInv
    <3>2. Len(got') = Len(got) + k /\ created' = created
      BY <1>1, <2>5
    <3>3. /\ Len(got) \in Nat /\ k \in Nat /\ created \in Nat /\ Cardinality(Seen) \in Nat
          /\ Cardinality(Twice) \in Nat /\ Cardinality(Twice') \in Nat
          /\ Cardinality(Seen') \in Nat
      BY <2>0, <2>1, <2>5, <2>12, <2>15
    <3> HIDE DEF W
    <3> QED
      BY <2>16, <3>1, <3>2, <3>3, SMTT(30)
  <2>19. ~ ended'
    BY <1>1, <1>7 DEF FillInv
  <2>20. ASSUME created' = 0, removed' = 0
         PROVE  /\ pos' <= file_count' + 2 /\ Len(got') = pos'
                /\ \A i \in 1 .. pos' : got'[i] = Listing'[i]
    <3>1. Len(got) = pos /\ \A i \in 1 .. pos : got[i] = Listing[i]
      BY <1>1, <2>20 DEF CountInv
    <3>2. ASSUME NEW i \in 1 .. (pos + k) PROVE got'[i] = Listing[i]
      <4>1. CASE i <= pos
        <5>1. i \in 1 .. pos
          BY <2>0, <4>1
        <5> QED
          BY <2>5, <3>1, <5>1
      <4>2. CASE ~ (i <= pos)
        <5>1. i - pos \in 1 .. k /\ pos + (i - pos) = i
          BY <2>0, <2>1, <4>2
        <5>2. got'[pos + (i - pos)] = t[i - pos] /\ t[i - pos] = Listing[pos + (i - pos)]
          BY <2>3, <2>5, <3>1, <5>1
        <5> QED
          BY <5>1, <5>2
      <4> QED
        BY <4>1, <4>2
    <3> QED
      BY <1>4, <2>4, <2>5, <3>1, <3>2
  <2>21. CountInv'
    BY <2>17, <2>18, <2>19, <2>20 DEF CountInv
  <2> QED
    BY <2>6, <2>21
<1> QED
  BY <1>2, <1>5, <1>6, <1>7

(* Removing a name moves at most one entry in front of the offset: the     *)
(* one the kernel would have been given next.                              *)
LEMMA UnlinkCounts ==
  ASSUME DirType, FillInv, CountInv, NEW n \in Name, Unlink(n)
  PROVE  DirType' /\ FillInv' /\ CountInv'
<1> DEFINE W == With(files)
           V == With(files \ {n})
           X == {e \in W : Rank(W, e) = pos}
<1>1. /\ pc = "idle" /\ ~ended /\ n \in files /\ removed' = removed + 1
      /\ files' = files \ {n} /\ stable' = stable \ {n}
      /\ UNCHANGED <<pc, next, plus, buf, pos, got, ended, created>>
  BY DEF Unlink, MayChange, daemonVars, kernelVars
<1>2. /\ files \in SUBSET Name /\ stable \subseteq files /\ pos \in Nat
      /\ created \in Nat /\ removed \in Nat
  BY DEF DirType
<1>3. DirType'
  BY <1>1, <1>2 DEF DirType
<1>4. FillInv'
  BY <1>1 DEF FillInv
<1>5. /\ W \in SUBSET Nat /\ IsFiniteSet(W) /\ V \in SUBSET Nat /\ IsFiniteSet(V)
      /\ n \in Nat /\ n < DotDot /\ MaxName \in Nat
  BY <1>1, <1>2, WithIs
<1>6. W = V \cup {n} /\ n \notin V
  <2>1. n # DotDot /\ n # Dot
    BY <1>5 DEF DotDot, Dot
  <2> QED
    BY <1>1, <2>1 DEF With
<1>7. \A e \in W : /\ Rank(V, e) \in Nat /\ Rank(W, e) \in Nat
                   /\ Rank(V, e) <= Rank(W, e) /\ Rank(W, e) <= Rank(V, e) + 1
  <2> SUFFICES ASSUME NEW e \in W
               PROVE  /\ Rank(V, e) \in Nat /\ Rank(W, e) \in Nat
                      /\ Rank(V, e) <= Rank(W, e) /\ Rank(W, e) <= Rank(V, e) + 1
    OBVIOUS
  <2>1. e \in Nat
    BY <1>5
  <2> HIDE DEF W, V
  <2>2. Rank(V, e) \in Nat
    BY <1>5, <2>1, RankType
  <2>3. Rank(V \cup {n}, e) = IF n < e THEN Rank(V, e) + 1 ELSE Rank(V, e)
    BY <1>5, <1>6, <2>1, RankMore
  <2> QED
    BY <1>6, <2>2, <2>3
<1>8. Seen' = Seen
  BY <1>1 DEF Seen
<1>9. Missed' \subseteq Missed \cup X
  <2> SUFFICES ASSUME NEW e \in With(stable \ {n}), Rank(V, e) < pos, e \notin Seen
               PROVE  e \in Missed \cup X
    BY <1>1, <1>8 DEF Missed
  <2>1. e \in With(stable) /\ e \in W
    BY <1>2 DEF With
  <2>2. Rank(W, e) < pos \/ Rank(W, e) = pos
    <3> HIDE DEF W, V
    <3>1. Rank(V, e) \in Nat /\ Rank(W, e) \in Nat /\ Rank(W, e) <= Rank(V, e) + 1
      BY <1>7, <2>1
    <3> QED
      BY <1>2, <3>1
  <2> QED
    BY <2>1, <2>2 DEF Missed
<1>10. Twice' \subseteq Twice
  <2> SUFFICES ASSUME NEW e \in V \cap Seen, Rank(V, e) >= pos
               PROVE  e \in Twice
    BY <1>1, <1>8 DEF Twice
  <2>1. e \in W
    BY <1>6
  <2>2. Rank(W, e) >= pos
    BY <1>2, <1>7, <2>1
  <2> QED
    BY <2>1, <2>2 DEF Twice
<1>11. \A d, e \in X : d = e
  BY <1>5, RankOnce
<1>12. /\ IsFiniteSet(Missed) /\ IsFiniteSet(Twice) /\ Len(got) \in Nat
       /\ Cardinality(Seen) \in Nat /\ Cardinality(Missed) \in Nat /\ Cardinality(Twice) \in Nat
  BY CountsType
<1> HIDE DEF X
<1>13. IsFiniteSet(Missed') /\ Cardinality(Missed') <= Cardinality(Missed) + 1
  BY <1>9, <1>11, <1>12, OneMoreAtMost
<1>14. IsFiniteSet(Twice') /\ Cardinality(Twice') <= Cardinality(Twice)
  BY <1>10, <1>12, FS_Subset
<1>15. Cardinality(Missed') \in Nat /\ Cardinality(Twice') \in Nat
  BY <1>13, <1>14, FS_CardinalityType
<1>16. Cardinality(Missed') <= removed'
  BY <1>1, <1>2, <1>12, <1>13, <1>15, SMTT(30) DEF CountInv
<1>17. Len(got') + Cardinality(Twice') <= created' + Cardinality(Seen')
  BY <1>1, <1>2, <1>8, <1>12, <1>14, <1>15 DEF CountInv
<1>18. removed' # 0 /\ ~ended'
  BY <1>1, <1>2
<1>19. CountInv'
  BY <1>16, <1>17, <1>18 DEF CountInv
<1> QED
  BY <1>3, <1>4, <1>19

(* Creating a name moves at most one entry behind the offset: the last one *)
(* in front of it, or the new name itself.                                 *)
LEMMA CreateCounts ==
  ASSUME DirType, FillInv, CountInv, NEW n \in Name, Create(n)
  PROVE  DirType' /\ FillInv' /\ CountInv'
<1> DEFINE W == With(files)
           V == With(files \cup {n})
           X == IF Rank(W, n) < pos THEN {e \in W : Rank(W, e) = pos - 1} ELSE {n}
<1>1. /\ pc = "idle" /\ ~ended /\ n \notin files /\ created' = created + 1
      /\ files' = files \cup {n} /\ stable' = stable
      /\ UNCHANGED <<pc, next, plus, buf, pos, got, ended, removed>>
  BY DEF Create, MayChange, daemonVars, kernelVars
<1>2. /\ files \in SUBSET Name /\ stable \subseteq files /\ pos \in Nat
      /\ created \in Nat /\ removed \in Nat
  BY DEF DirType
<1>3. DirType'
  BY <1>1, <1>2 DEF DirType
<1>4. FillInv'
  BY <1>1 DEF FillInv
<1>5. /\ W \in SUBSET Nat /\ IsFiniteSet(W) /\ n \in Nat /\ n < DotDot /\ MaxName \in Nat
  <2>1. files \cup {n} \in SUBSET Name
    BY <1>2
  <2> QED
    BY <1>2, <2>1, WithIs
<1>6. V = W \cup {n} /\ n \notin W
  <2>1. n # DotDot /\ n # Dot
    BY <1>5 DEF DotDot, Dot
  <2> QED
    BY <1>1, <2>1 DEF With
<1>7. \A e \in V : /\ Rank(W, e) \in Nat
                   /\ Rank(V, e) = IF n < e THEN Rank(W, e) + 1 ELSE Rank(W, e)
                   /\ Rank(V, e) \in Nat /\ e \in Nat
                   /\ n <= e => Rank(W, n) <= Rank(W, e)
  <2> SUFFICES ASSUME NEW e \in V
               PROVE  /\ Rank(W, e) \in Nat
                      /\ Rank(V, e) = IF n < e THEN Rank(W, e) + 1 ELSE Rank(W, e)
                      /\ Rank(V, e) \in Nat /\ e \in Nat
                      /\ n <= e => Rank(W, n) <= Rank(W, e)
    OBVIOUS
  <2>1. e \in Nat
    BY <1>5, <1>6
  <2> HIDE DEF W, V
  <2>2. Rank(W, e) \in Nat
    BY <1>5, <2>1, RankType
  <2>3. Rank(W \cup {n}, e) = IF n < e THEN Rank(W, e) + 1 ELSE Rank(W, e)
    BY <1>5, <1>6, <2>1, RankMore
  <2>4. n <= e => Rank(W, n) <= Rank(W, e)
    BY <1>5, <2>1, RankRises
  <2> QED
    BY <1>6, <2>1, <2>2, <2>3, <2>4
<1>8. Seen' = Seen
  BY <1>1 DEF Seen
<1>9. Missed' \subseteq Missed
  <2> SUFFICES ASSUME NEW e \in With(stable), Rank(V, e) < pos, e \notin Seen
               PROVE  e \in Missed
    BY <1>1, <1>8 DEF Missed
  <2>1. e \in V
    BY <1>2 DEF With
  <2>2. Rank(W, e) < pos
    BY <1>2, <1>7, <2>1
  <2> QED
    BY <2>2 DEF Missed
<1>10. n \in V /\ Rank(W, n) \in Nat /\ Rank(V, n) = Rank(W, n)
  BY <1>5, <1>6, <1>7
<1>11. Twice' \subseteq Twice \cup X
  <2> SUFFICES ASSUME NEW e \in V \cap Seen, Rank(V, e) >= pos
               PROVE  e \in Twice \cup X
    BY <1>1, <1>8 DEF Twice
  <2>0. /\ Rank(W, e) \in Nat /\ e \in Nat
        /\ Rank(V, e) = IF n < e THEN Rank(W, e) + 1 ELSE Rank(W, e)
        /\ n <= e => Rank(W, n) <= Rank(W, e)
    BY <1>7
  <2>1. CASE e = n
    <3>1. ~ (Rank(W, n) < pos)
      BY <1>2, <1>10, <2>1
    <3> QED
      BY <2>1, <3>1
  <2>2. CASE e # n /\ Rank(W, e) >= pos
    BY <1>6, <2>2 DEF Twice
  <2>3. CASE e # n /\ ~ (Rank(W, e) >= pos)
    <3>1. n < e /\ Rank(W, e) = pos - 1
      BY <1>2, <2>0, <2>3
    <3>2. Rank(W, n) < pos
      BY <1>2, <1>5, <1>10, <2>0, <2>3, <3>1
    <3> QED
      BY <1>6, <2>3, <3>1, <3>2
  <2> QED
    BY <2>1, <2>2, <2>3
<1>12. \A d, e \in X : d = e
  <2>1. \A d, e \in W : Rank(W, d) = pos - 1 /\ Rank(W, e) = pos - 1 => d = e
    BY <1>5, RankOnce
  <2> HIDE DEF W
  <2> QED
    BY <2>1
<1>13. /\ IsFiniteSet(Missed) /\ IsFiniteSet(Twice) /\ Len(got) \in Nat
       /\ Cardinality(Seen) \in Nat /\ Cardinality(Missed) \in Nat /\ Cardinality(Twice) \in Nat
  BY CountsType
<1> HIDE DEF X
<1>14. IsFiniteSet(Twice') /\ Cardinality(Twice') <= Cardinality(Twice) + 1
  BY <1>11, <1>12, <1>13, OneMoreAtMost
<1>15. IsFiniteSet(Missed') /\ Cardinality(Missed') <= Cardinality(Missed)
  BY <1>9, <1>13, FS_Subset
<1>16. Cardinality(Missed') \in Nat /\ Cardinality(Twice') \in Nat
  BY <1>14, <1>15, FS_CardinalityType
<1>17. Cardinality(Missed') <= removed'
  BY <1>1, <1>2, <1>13, <1>15, <1>16 DEF CountInv
<1>18. Len(got') + Cardinality(Twice') <= created' + Cardinality(Seen')
  BY <1>1, <1>2, <1>8, <1>13, <1>14, <1>16 DEF CountInv
<1>19. created' # 0 /\ ~ended'
  BY <1>1, <1>2
<1>20. CountInv'
  BY <1>17, <1>18, <1>19 DEF CountInv
<1> QED
  BY <1>3, <1>4, <1>20

LEMMA RewindCounts ==
  ASSUME DirType, FillInv, Rewind
  PROVE  DirType' /\ FillInv' /\ CountInv'
<1>1. /\ ended /\ pos' = 0 /\ got' = << >> /\ ended' = FALSE
      /\ stable' = files /\ created' = 0 /\ removed' = 0
      /\ UNCHANGED <<files, pc, next, plus, buf>>
  BY DEF Rewind, daemonVars
<1>2. pc = "idle"
  BY <1>1 DEF FillInv
<1>3. << >> \in Seq(Entry)
  OBVIOUS
<1>4. DirType'
  BY <1>1, <1>3 DEF DirType
<1>5. FillInv'
  BY <1>1, <1>2 DEF FillInv
<1>6. Names(<< >>) = {} /\ Len(<< >>) = 0
  BY DEF Names
<1>7. Seen' = {} /\ Twice' = {}
  BY <1>1, <1>6 DEF Seen, Twice
<1>8. Missed' = {}
  <2> SUFFICES ASSUME NEW e \in With(files) PROVE ~ (Rank(With(files), e) < 0)
    BY <1>1 DEF Missed
  <2>1. With(files) \in SUBSET Nat /\ IsFiniteSet(With(files))
    BY WithIs DEF DirType
  <2>2. Rank(With(files), e) \in Nat
    BY <2>1, RankType
  <2> QED
    BY <2>2
<1>9. Cardinality({}) = 0
  BY FS_EmptySet
<1>10. file_count' = file_count /\ file_count \in Nat
  BY <1>1, SameListing, ListingIs DEF DirType
<1> QED
  BY <1>1, <1>4, <1>5, <1>6, <1>7, <1>8, <1>9, <1>10 DEF CountInv

(* The program's own steps, and those that change nothing, leave what the  *)
(* kernel has and what is in the directory alone.                          *)
LEMMA SameCounts ==
  ASSUME CountInv, UNCHANGED <<files, pos, got, ended, stable, created, removed>>
  PROVE  CountInv'
<1>1. file_count' = file_count /\ Listing' = Listing
  BY SameListing
<1>2. Seen' = Seen /\ Missed' = Missed /\ Twice' = Twice
  BY DEF Seen, Missed, Twice
<1> QED
  BY <1>1, <1>2 DEF CountInv

LEMMA DirStep ==
  ASSUME DirType, FillInv, CountInv, [Next]_vars
  PROVE  DirType' /\ FillInv' /\ CountInv'
<1>1. CASE Readdir
  <2>1. UNCHANGED <<files, pos, got, ended, stable, created, removed>>
    BY <1>1 DEF Readdir, kernelVars, ghostVars
  <2> QED
    BY <1>1, <2>1, ReaddirFill, SameCounts
<1>2. CASE Loop
  <2>1. UNCHANGED <<files, pos, got, ended, stable, created, removed>>
    BY <1>2 DEF Loop, AddFile, EndFiles, AddDotDot, SkipDotDot, AddDot, SkipDot,
                add_entry, Goto, kernelVars, ghostVars
  <2> QED
    BY <1>2, <2>1, LoopFill, SameCounts
<1>3. CASE Reply
  BY <1>3, ReplyCounts
<1>4. CASE Rewind
  BY <1>4, RewindCounts
<1>5. ASSUME NEW n \in Name, Create(n) PROVE DirType' /\ FillInv' /\ CountInv'
  BY <1>5, CreateCounts
<1>6. ASSUME NEW n \in Name, Unlink(n) PROVE DirType' /\ FillInv' /\ CountInv'
  BY <1>6, UnlinkCounts
<1>7. CASE UNCHANGED vars
  <2>1. UNCHANGED <<files, pc, next, plus, buf, pos, got, ended, stable, created, removed>>
    BY <1>7 DEF vars, daemonVars, kernelVars, ghostVars
  <2>2. file_count' = file_count /\ Listing' = Listing
    BY <2>1, SameListing
  <2>3. DirType'
    BY <2>1 DEF DirType
  <2>4. FillInv'
    BY <2>1, <2>2 DEF FillInv, Placed, AtPhase
  <2> QED
    BY <2>1, <2>3, <2>4, SameCounts
<1> QED
  BY <1>1, <1>2, <1>3, <1>4, <1>5, <1>6, <1>7 DEF Next, Daemon, Loop

(* At the end of a listing nothing of it lies behind the offset. *)
LEMMA OnceHolds ==
  ASSUME DirType, FillInv, CountInv
  PROVE  ListedOnce
<1>0. /\ files \in SUBSET Name /\ stable \subseteq files /\ pos \in Nat /\ got \in Seq(Entry)
      /\ created \in Nat /\ removed \in Nat
  BY DEF DirType
<1>1. /\ file_count \in Nat /\ Len(Listing) = file_count + 2
      /\ DOMAIN Listing = 1 .. (file_count + 2)
  BY <1>0, ListingIs
<1>2. /\ IsFiniteSet(Twice) /\ Len(got) \in Nat
      /\ Cardinality(Seen) \in Nat /\ Cardinality(Twice) \in Nat
  BY CountsType
<1>3. ASSUME ended, created = 0, removed = 0 PROVE got = Listing
  <2>1. /\ pos <= file_count + 2 /\ Len(got) = pos /\ pos >= file_count + 2
        /\ \A i \in 1 .. pos : got[i] = Listing[i]
    BY <1>3 DEF CountInv
  <2>2. pos = file_count + 2
    BY <1>0, <1>1, <2>1
  <2>3. DOMAIN got = 1 .. (file_count + 2) /\ got = [i \in DOMAIN got |-> got[i]]
    BY <1>0, <2>1, <2>2
  <2>4. Listing = [i \in 1 .. (file_count + 2) |-> Listing[i]]
    BY <1>1 DEF Listing
  <2> QED
    BY <2>1, <2>2, <2>3, <2>4
<1>4. ASSUME ended
      PROVE  Cardinality((stable \cup {DotDot, Dot}) \ {got[i] : i \in DOMAIN got}) <= removed
  <2>1. pos >= file_count + 2
    BY <1>4 DEF CountInv
  <2>2. \A e \in With(stable) : Rank(With(files), e) < pos
    <3> SUFFICES ASSUME NEW e \in With(stable) PROVE Rank(With(files), e) < pos
      OBVIOUS
    <3>1. e \in With(files)
      BY <1>0 DEF With
    <3>2. Rank(With(files), e) + 1 \in 1 .. (file_count + 2)
      BY <1>0, <3>1, ListedAt
    <3> DEFINE r == Rank(With(files), e)
    <3>3. r + 1 <= file_count + 2 /\ r \in Nat
      <4>1. With(files) \in SUBSET Nat /\ IsFiniteSet(With(files))
        BY <1>0, WithIs
      <4>2. r \in Nat
        BY <3>1, <4>1, RankType
      <4> HIDE DEF r
      <4> QED
        BY <1>1, <3>2, <4>2 DEF r
    <3> HIDE DEF r
    <3>4. r < pos
      BY <1>0, <1>1, <2>1, <3>3
    <3> QED
      BY <3>4 DEF r
  <2>3. Missed = (stable \cup {DotDot, Dot}) \ {got[i] : i \in DOMAIN got}
    BY <2>2 DEF Missed, With, Seen, Names
  <2> QED
    BY <2>3 DEF CountInv
<1>5. Len(got) - Cardinality({got[i] : i \in DOMAIN got}) <= created
  <2>1. Len(got) + Cardinality(Twice) <= created + Cardinality(Seen)
    BY DEF CountInv
  <2>2. Len(got) - Cardinality(Seen) <= created
    BY <1>0, <1>2, <2>1
  <2> QED
    BY <2>2 DEF Seen, Names
<1> QED
  BY <1>3, <1>4, <1>5 DEF ListedOnce, UnchangedListedOnce, MissedOnlyByRemoval,
                          RepeatedOnlyByCreation

(***************************************************************************)
(* The results.                                                            *)
(***************************************************************************)
(* While handle_readdir fills its buffer, the buffer holds a part of the   *)
(* listing that begins at the offset asked for; between requests no more   *)
(* entries are missed, or seen and still to come, than names were removed  *)
(* and created.                                                            *)
THEOREM ListingInvariant == Spec => [](DirType /\ FillInv /\ CountInv)
<1>1. Init => DirType /\ FillInv /\ CountInv
  BY FillInit, CountInit
<1>2. DirType /\ FillInv /\ CountInv /\ [Next]_vars => (DirType /\ FillInv /\ CountInv)'
  BY DirStep
<1> QED
  BY <1>1, <1>2, PTL DEF Spec

(* Every reply of handle_readdir is what the directory holds behind the    *)
(* offset, as much of it as fits, whatever the names, the sizes asked for  *)
(* and the changes between the requests.                                   *)
THEOREM RepliesAreSegments == Spec => []ReplyIsSegment
<1>1. DirType /\ FillInv /\ CountInv => ReplyIsSegment
  BY SegmentHolds
<1> QED
  BY <1>1, ListingInvariant, PTL

(* A directory left alone is listed exactly once; otherwise a listing      *)
(* misses no more lasting entries than names were removed, and repeats no  *)
(* more than were created.                                                 *)
THEOREM EntriesListedOnce == Spec => []ListedOnce
<1>1. DirType /\ FillInv /\ CountInv => ListedOnce
  BY OnceHolds
<1> QED
  BY <1>1, ListingInvariant, PTL

-----------------------------------------------------------------------------
(***************************************************************************)
(* XattrList.  Encode: the list of a set of attributes.                    *)
(***************************************************************************)
N == Len(AttrLen)

LEMMA NamesOk ==
  /\ N \in Nat /\ Attr = 1 .. N
  /\ \A a \in 1 .. N : AttrLen[a] \in Nat /\ AttrLen[a] >= 1
BY AttrLenAssumption DEF N, Attr

(* What a set contributes at attribute a, and the recursion of Encode.     *)
Part(s, a) == IF a \in s THEN Append(Bytes(a), 0) ELSE << >>
Upto(s, f, a) == IF a = 0 THEN << >> ELSE f[a - 1] \o Part(s, a)
Unfolds(s, f, k) == f = [a \in 0 .. k |-> Upto(s, f, a)]

LEMMA UnfoldsExists ==
  ASSUME NEW s
  PROVE  \A k \in Nat : \E f : Unfolds(s, f, k)
<1> DEFINE P == {k \in Nat : \E f : Unfolds(s, f, k)}
<1>1. 0 \in P
  <2> DEFINE g == [a \in 0 .. 0 |-> << >>]
  <2>1. \A a \in 0 .. 0 : g[a] = Upto(s, g, a)
    BY DEF Upto
  <2>2. [a \in 0 .. 0 |-> g[a]] = [a \in 0 .. 0 |-> Upto(s, g, a)]
    BY <2>1
  <2> QED
    BY <2>2 DEF Unfolds
<1>2. ASSUME NEW k \in Nat, k \in P
      PROVE  k + 1 \in P
  <2>1. PICK f : Unfolds(s, f, k)
    BY <1>2
  <2> DEFINE g == [a \in 0 .. (k + 1) |-> IF a <= k THEN f[a] ELSE Upto(s, f, a)]
  <2>2. \A a \in 0 .. k : f[a] = Upto(s, f, a)
    <3>1. f = [a \in 0 .. k |-> Upto(s, f, a)]
      BY <2>1 DEF Unfolds
    <3> QED
      BY <3>1, Zenon
  <2>3. \A a \in 0 .. (k + 1) : Upto(s, g, a) = Upto(s, f, a)
    <3> SUFFICES ASSUME NEW a \in 0 .. (k + 1), a # 0
                 PROVE  g[a - 1] = f[a - 1]
      BY DEF Upto
    <3>1. a - 1 \in 0 .. (k + 1) /\ a - 1 <= k
      OBVIOUS
    <3> QED
      BY <3>1
  <2>4. \A a \in 0 .. (k + 1) : g[a] = Upto(s, f, a)
    BY <2>2
  <2> DEFINE h == [a \in 0 .. (k + 1) |-> Upto(s, g, a)]
  <2>5. \A a \in 0 .. (k + 1) : g[a] = h[a]
    BY <2>3, <2>4
  <2>6. g = h
    BY <2>5
  <2>7. Unfolds(s, g, k + 1)
    BY <2>6 DEF Unfolds
  <2> HIDE DEF g
  <2> QED
    BY <2>7
<1> HIDE DEF P
<1>3. \A k \in Nat : k \in P
  BY <1>1, <1>2, Inductive
<1> QED
  BY <1>3 DEF P

(* The lists of the attributes up to each one. *)
Lists(s, f) == f[0] = << >> /\ \A a \in 1 .. N : f[a] = f[a - 1] \o Part(s, a)

LEMMA EncodeIs ==
  ASSUME NEW s
  PROVE  \E f : Lists(s, f) /\ Encode(s) = f[N]
<1> DEFINE chosen == CHOOSE f : Unfolds(s, f, N)
<1>1. \E f : Unfolds(s, f, N)
  BY NamesOk, UnfoldsExists
<1>2. Unfolds(s, chosen, N)
  BY <1>1, Zenon
<1>3. Encode(s) = chosen[N]
  BY Zenon DEF Encode, Unfolds, Upto, Part, N
<1> HIDE DEF chosen
<1>4. chosen = [a \in 0 .. N |-> Upto(s, chosen, a)]
  BY <1>2 DEF Unfolds
<1>5. \A a \in 0 .. N : chosen[a] = Upto(s, chosen, a)
  BY <1>4, Zenon
<1>6. Lists(s, chosen)
  <2>1. 0 \in 0 .. N /\ \A a \in 1 .. N : a \in 0 .. N /\ a # 0
    BY NamesOk
  <2> QED
    BY <1>5, <2>1 DEF Upto, Lists
<1> QED
  BY <1>3, <1>6

LEMMA BytesAre ==
  ASSUME NEW a \in 1 .. N
  PROVE  /\ Bytes(a) \in Seq(Nat) /\ Len(Bytes(a)) = AttrLen[a]
         /\ \A i \in 1 .. AttrLen[a] : Bytes(a)[i] = a
         /\ Append(Bytes(a), 0) \in Seq(Nat) /\ Len(Append(Bytes(a), 0)) = AttrLen[a] + 1
BY NamesOk DEF Bytes

LEMMA PartIs ==
  ASSUME NEW s, NEW a \in 1 .. N
  PROVE  /\ Part(s, a) \in Seq(Nat)
         /\ Len(Part(s, a)) = IF a \in s THEN AttrLen[a] + 1 ELSE 0
BY BytesAre DEF Part

(* Induction up to the number of attributes. *)
LEMMA Upwards ==
  ASSUME NEW P, 0 \in P, \A a \in 1 .. N : a - 1 \in P => a \in P
  PROVE  \A a \in 0 .. N : a \in P
<1> DEFINE Q == {k \in Nat : k \in 0 .. N => k \in P}
<1>1. 0 \in Q
  OBVIOUS
<1>2. ASSUME NEW k \in Nat, k \in Q
      PROVE  k + 1 \in Q
  <2>1. CASE k + 1 \in 0 .. N
    <3>1. k \in 0 .. N /\ k + 1 \in 1 .. N /\ (k + 1) - 1 = k
      BY <2>1, NamesOk
    <3> QED
      BY <1>2, <3>1
  <2>2. CASE k + 1 \notin 0 .. N
    BY <2>2
  <2> QED
    BY <2>1, <2>2
<1> HIDE DEF Q
<1>3. \A k \in Nat : k \in Q
  BY <1>1, <1>2, Inductive
<1> QED
  BY <1>3, NamesOk DEF Q

LEMMA ListsType ==
  ASSUME NEW s, NEW f, Lists(s, f)
  PROVE  \A a \in 0 .. N : f[a] \in Seq(Nat)
<1> DEFINE P == {a \in 0 .. N : f[a] \in Seq(Nat)}
<1>1. 0 \in P
  <2>1. f[0] = << >> /\ << >> \in Seq(Nat) /\ 0 \in 0 .. N
    BY NamesOk DEF Lists
  <2> QED
    BY <2>1
<1>2. ASSUME NEW a \in 1 .. N, a - 1 \in P PROVE a \in P
  <2>1. f[a] = f[a - 1] \o Part(s, a) /\ f[a - 1] \in Seq(Nat) /\ Part(s, a) \in Seq(Nat)
    BY <1>2, PartIs DEF Lists
  <2>2. f[a] \in Seq(Nat) /\ a \in 0 .. N
    BY <2>1, NamesOk
  <2> QED
    BY <2>2
<1> HIDE DEF P
<1>3. \A a \in 0 .. N : a \in P
  BY <1>1, <1>2, Upwards
<1> QED
  BY <1>3 DEF P

(* Without attributes the list is empty. *)
LEMMA EncodeNone ==
  Encode({}) = << >>
<1>1. PICK f : Lists({}, f) /\ Encode({}) = f[N]
  BY EncodeIs
<1> DEFINE P == {a \in 0 .. N : f[a] = << >>}
<1>2. 0 \in P
  BY <1>1, NamesOk DEF Lists
<1>3. ASSUME NEW a \in 1 .. N, a - 1 \in P PROVE a \in P
  <2>1. f[a] = << >> \o << >> /\ a \in 0 .. N
    BY <1>1, <1>3, NamesOk DEF Lists, Part
  <2> QED
    BY <2>1
<1> HIDE DEF P
<1>4. \A a \in 0 .. N : a \in P
  BY <1>2, <1>3, Upwards
<1> QED
  BY <1>1, <1>4, NamesOk DEF P

LEMMA EncodeType ==
  ASSUME NEW s
  PROVE  Encode(s) \in Seq(Nat) /\ Len(Encode(s)) \in Nat
<1>1. PICK f : Lists(s, f) /\ Encode(s) = f[N]
  BY EncodeIs
<1>2. Encode(s) \in Seq(Nat)
  BY <1>1, ListsType, NamesOk
<1> QED
  BY <1>2

(* An attribute less makes the list shorter by its name and its zero. *)
LEMMA EncodeWithout ==
  ASSUME NEW s, NEW c \in 1 .. N, c \in s
  PROVE  Len(Encode(s)) = Len(Encode(s \ {c})) + (AttrLen[c] + 1)
<1>1. PICK f : Lists(s, f) /\ Encode(s) = f[N]
  BY EncodeIs
<1>2. PICK g : Lists(s \ {c}, g) /\ Encode(s \ {c}) = g[N]
  BY EncodeIs
<1>3. AttrLen[c] \in Nat
  BY NamesOk
<1> DEFINE More(a) == IF c <= a THEN AttrLen[c] + 1 ELSE 0
           P == {a \in 0 .. N : Len(f[a]) = Len(g[a]) + More(a)}
<1>4. 0 \in P
  BY <1>1, <1>2, NamesOk DEF Lists
<1>5. ASSUME NEW a \in 1 .. N, a - 1 \in P PROVE a \in P
  <2>1. f[a] = f[a - 1] \o Part(s, a) /\ g[a] = g[a - 1] \o Part(s \ {c}, a)
    BY <1>1, <1>2 DEF Lists
  <2>2. a - 1 \in 0 .. N /\ a \in 0 .. N
    BY NamesOk
  <2>3. f[a - 1] \in Seq(Nat) /\ g[a - 1] \in Seq(Nat)
    BY <1>1, <1>2, <2>2, ListsType
  <2>4. /\ Part(s, a) \in Seq(Nat) /\ Len(Part(s, a)) = IF a \in s THEN AttrLen[a] + 1 ELSE 0
        /\ Part(s \ {c}, a) \in Seq(Nat)
        /\ Len(Part(s \ {c}, a)) = IF a \in s \ {c} THEN AttrLen[a] + 1 ELSE 0
    BY PartIs
  <2>5. /\ Len(f[a]) = Len(f[a - 1]) + Len(Part(s, a))
        /\ Len(g[a]) = Len(g[a - 1]) + Len(Part(s \ {c}, a))
    <3>1. /\ Len(f[a - 1] \o Part(s, a)) = Len(f[a - 1]) + Len(Part(s, a))
          /\ Len(g[a - 1] \o Part(s \ {c}, a)) = Len(g[a - 1]) + Len(Part(s \ {c}, a))
      BY <2>3, <2>4, ConcatProperties, ZenonT(40)
    <3> QED
      BY <2>1, <3>1
  <2>6. PICK x, y, u, v : /\ x = Len(f[a - 1]) /\ y = Len(g[a - 1])
                          /\ u = Len(Part(s, a)) /\ v = Len(Part(s \ {c}, a))
    OBVIOUS
  <2>7. x \in Nat /\ y \in Nat /\ u \in Nat /\ v \in Nat
    BY <2>3, <2>4, <2>6
  <2>8. x = y + More(a - 1)
    BY <1>5, <2>6
  <2>9. x + u = (y + v) + More(a)
    <3>1. CASE a = c
      <4>1. u = AttrLen[c] + 1 /\ v = 0 /\ More(a - 1) = 0 /\ More(a) = AttrLen[c] + 1
        BY <2>4, <2>6, <3>1, NamesOk
      <4> QED
        BY <1>3, <2>7, <2>8, <4>1
    <3>2. CASE a # c
      <4>1. u = v /\ More(a - 1) = More(a)
        BY <2>4, <2>6, <3>2, NamesOk
      <4>2. More(a) \in Nat
        BY <1>3
      <4> QED
        BY <2>7, <2>8, <4>1, <4>2
    <3> QED
      BY <3>1, <3>2
  <2>10. Len(f[a]) = Len(g[a]) + More(a)
    BY <2>5, <2>6, <2>9
  <2> QED
    BY <2>2, <2>10
<1> HIDE DEF P
<1>6. \A a \in 0 .. N : a \in P
  BY <1>4, <1>5, Upwards
<1>7. N \in 0 .. N /\ c <= N
  BY NamesOk
<1> QED
  BY <1>1, <1>2, <1>6, <1>7 DEF P

-----------------------------------------------------------------------------
(***************************************************************************)
(* NamesIn: what a caller reads out of a list.  A name lies between two    *)
(* zeroes that follow each other.                                          *)
(***************************************************************************)
Zeroes(b) == {0} \cup {i \in DOMAIN b : b[i] = 0}
Ending(b, z) == CHOOSE y \in Zeroes(b) : y > z /\ \A x \in Zeroes(b) : x > z => y <= x
Gap(b, z, y) ==
  /\ z \in Zeroes(b) /\ y \in Zeroes(b) /\ y > z
  /\ \A x \in Zeroes(b) : x > z => y <= x

LEMMA ZeroesAre ==
  ASSUME NEW b \in Seq(Nat)
  PROVE  Zeroes(b) \subseteq 0 .. Len(b) /\ Zeroes(b) \subseteq Nat /\ Len(b) \in Nat
BY DEF Zeroes

LEMMA GapEnds ==
  ASSUME NEW b \in Seq(Nat), NEW z \in Zeroes(b), NEW u \in Zeroes(b), u > z
  PROVE  Gap(b, z, Ending(b, z))
<1>1. Zeroes(b) \subseteq Nat
  BY ZeroesAre
<1>2. PICK T : T = {x \in Zeroes(b) : x > z}
  OBVIOUS
<1>3. T \subseteq Nat /\ T # {}
  BY <1>1, <1>2
<1>4. PICK y \in T : \A x \in T : y <= x
  BY <1>3, LeastNat
<1>5. y \in Zeroes(b) /\ y > z /\ \A x \in Zeroes(b) : x > z => y <= x
  BY <1>2, <1>4
<1>6. PICK e : e = Ending(b, z)
  OBVIOUS
<1>7. e \in Zeroes(b) /\ e > z /\ \A x \in Zeroes(b) : x > z => e <= x
  BY <1>5, <1>6, Zenon DEF Ending
<1> QED
  BY <1>6, <1>7 DEF Gap

LEMMA GapIsOne ==
  ASSUME NEW b \in Seq(Nat), NEW z, NEW y, NEW u, Gap(b, z, y), Gap(b, z, u)
  PROVE  y = u
<1>1. y \in Nat /\ u \in Nat
  BY ZeroesAre DEF Gap
<1>2. y <= u /\ u <= y
  BY DEF Gap
<1> QED
  BY <1>1, <1>2

LEMMA NamesAre ==
  ASSUME NEW b \in Seq(Nat)
  PROVE  /\ \A z, y : Gap(b, z, y) => SubSeq(b, z + 1, y - 1) \in NamesIn(b)
         /\ \A w \in NamesIn(b) : \E z, y : Gap(b, z, y) /\ w = SubSeq(b, z + 1, y - 1)
<1> DEFINE Inner == {x \in Zeroes(b) : \E y \in Zeroes(b) : y > x}
<1>1. NamesIn(b) = {SubSeq(b, z + 1, Ending(b, z) - 1) : z \in Inner}
  BY Zenon DEF NamesIn, Zeroes, Ending
<1>2. ASSUME NEW z, NEW y, Gap(b, z, y)
      PROVE  SubSeq(b, z + 1, y - 1) \in NamesIn(b)
  <2>1. z \in Zeroes(b) /\ y \in Zeroes(b) /\ y > z
    BY <1>2 DEF Gap
  <2>2. Gap(b, z, Ending(b, z))
    BY <2>1, GapEnds
  <2>3. y = Ending(b, z)
    BY <1>2, <2>2, GapIsOne
  <2> QED
    BY <1>1, <2>1, <2>3
<1>3. ASSUME NEW w \in NamesIn(b)
      PROVE  \E z, y : Gap(b, z, y) /\ w = SubSeq(b, z + 1, y - 1)
  <2>1. PICK z \in Inner : w = SubSeq(b, z + 1, Ending(b, z) - 1)
    BY <1>1
  <2>2. Gap(b, z, Ending(b, z))
    BY GapEnds
  <2> QED
    BY <2>1, <2>2
<1> QED
  BY <1>2, <1>3

LEMMA PartOf ==
  ASSUME NEW b \in Seq(Nat), NEW i \in Nat, NEW j \in Nat, i >= 1, j <= Len(b)
  PROVE  /\ SubSeq(b, i, j) \in Seq(Nat)
         /\ Len(SubSeq(b, i, j)) = IF i <= j THEN j - i + 1 ELSE 0
         /\ \A k \in 1 .. (j - i + 1) : SubSeq(b, i, j)[k] = b[i + k - 1]
<1>1. \A k \in i .. j : b[k] \in Nat
  OBVIOUS
<1> QED
  BY <1>1, SubSeqProperties

LEMMA SamePart ==
  ASSUME NEW b \in Seq(Nat), NEW d \in Seq(Nat), Len(b) <= Len(d),
         \A i \in 1 .. Len(b) : d[i] = b[i],
         NEW i \in Nat, NEW j \in Nat, i >= 1, j <= Len(b)
  PROVE  SubSeq(d, i, j) = SubSeq(b, i, j)
<1>1. PICK t, u : t = SubSeq(d, i, j) /\ u = SubSeq(b, i, j)
  OBVIOUS
<1>2. Len(b) \in Nat /\ Len(d) \in Nat
  OBVIOUS
<1>5. /\ t \in Seq(Nat) /\ Len(t) = IF i <= j THEN j - i + 1 ELSE 0
      /\ \A k \in 1 .. (j - i + 1) : t[k] = d[i + k - 1]
  <2>1. j <= Len(d)
    BY <1>2
  <2>2. /\ SubSeq(d, i, j) \in Seq(Nat)
        /\ Len(SubSeq(d, i, j)) = IF i <= j THEN j - i + 1 ELSE 0
        /\ \A k \in 1 .. (j - i + 1) : SubSeq(d, i, j)[k] = d[i + k - 1]
    BY <2>1, PartOf, ZenonT(40)
  <2> QED
    BY <1>1, <2>2
<1>6. /\ u \in Seq(Nat) /\ Len(u) = IF i <= j THEN j - i + 1 ELSE 0
      /\ \A k \in 1 .. (j - i + 1) : u[k] = b[i + k - 1]
  <2>1. /\ SubSeq(b, i, j) \in Seq(Nat)
        /\ Len(SubSeq(b, i, j)) = IF i <= j THEN j - i + 1 ELSE 0
        /\ \A k \in 1 .. (j - i + 1) : SubSeq(b, i, j)[k] = b[i + k - 1]
    BY PartOf, ZenonT(40)
  <2> QED
    BY <1>1, <2>1
<1>7. Len(t) = Len(u)
  BY <1>5, <1>6
<1>8. ASSUME NEW k \in 1 .. Len(t) PROVE t[k] = u[k]
  <2>1. k \in 1 .. (j - i + 1)
    BY <1>5
  <2>2. t[k] = d[i + k - 1] /\ u[k] = b[i + k - 1]
    BY <1>5, <1>6, <2>1
  <2>3. i + k - 1 \in 1 .. Len(b)
    BY <1>2, <2>1
  <2>4. d[i + k - 1] = b[i + k - 1]
    BY <2>3
  <2> QED
    BY <2>2, <2>4
<1>9. t = u
  BY <1>5, <1>6, <1>7, <1>8, SeqEqual
<1> QED
  BY <1>1, <1>9

-----------------------------------------------------------------------------
(* A list with the names of a set, as far as a caller can tell. *)
Coded(b, s) ==
  /\ b \in Seq(Nat) /\ Len(b) \in Zeroes(b)
  /\ NamesIn(b) = {Bytes(a) : a \in s}

LEMMA CodedNone == Coded(<< >>, {})
<1>1. << >> \in Seq(Nat) /\ Len(<< >>) = 0 /\ Zeroes(<< >>) = {0}
  BY DEF Zeroes
<1>2. \A z, y : ~ Gap(<< >>, z, y)
  BY <1>1 DEF Gap
<1>3. NamesIn(<< >>) = {}
  BY <1>1, <1>2, NamesAre
<1> QED
  BY <1>1, <1>3 DEF Coded

(* d is b with the name of a and its zero behind it. *)
Extended(b, a, d) ==
  /\ d \in Seq(Nat) /\ Len(d) = (Len(b) + AttrLen[a]) + 1
  /\ \A i \in 1 .. Len(b) : d[i] = b[i]
  /\ \A i \in 1 .. AttrLen[a] : d[Len(b) + i] = a
  /\ d[Len(d)] = 0

LEMMA ExtendedIs ==
  ASSUME NEW b \in Seq(Nat), NEW a \in 1 .. N
  PROVE  /\ Append(b \o Bytes(a), 0) = b \o Append(Bytes(a), 0)
         /\ Extended(b, a, b \o Append(Bytes(a), 0))
<1>1. PICK w, n, m : w = Bytes(a) /\ n = AttrLen[a] /\ m = Len(b)
  OBVIOUS
<1>2. w \in Seq(Nat) /\ Len(w) = n /\ n \in Nat /\ m \in Nat /\ \A i \in 1 .. n : w[i] = a
  BY <1>1, BytesAre, NamesOk
<1>3. PICK v : v = Append(w, 0)
  OBVIOUS
<1>4. v \in Seq(Nat) /\ Len(v) = n + 1 /\ (\A i \in 1 .. n : v[i] = a) /\ v[n + 1] = 0
  BY <1>2, <1>3
<1>5. PICK d : d = b \o v
  OBVIOUS
<1>6. /\ d \in Seq(Nat) /\ Len(d) = m + (n + 1)
      /\ \A i \in 1 .. (m + (n + 1)) : d[i] = IF i <= m THEN b[i] ELSE v[i - m]
  <2>1. /\ b \o v \in Seq(Nat) /\ Len(b \o v) = Len(b) + Len(v)
        /\ \A i \in 1 .. (Len(b) + Len(v)) :
              (b \o v)[i] = IF i <= Len(b) THEN b[i] ELSE v[i - Len(b)]
    BY <1>4, ConcatProperties
  <2> QED
    BY <1>1, <1>4, <1>5, <2>1
<1>7. \A i \in 1 .. m : d[i] = b[i]
  BY <1>2, <1>6
<1>8. ASSUME NEW i \in 1 .. (n + 1)
      PROVE  d[m + i] = v[i]
  <2>1. m + i \in 1 .. (m + (n + 1)) /\ ~ (m + i <= m) /\ (m + i) - m = i
    BY <1>2
  <2> QED
    BY <1>6, <2>1
<1>9. (\A i \in 1 .. n : d[m + i] = a) /\ d[m + (n + 1)] = 0
  <2>1. (\A i \in 1 .. n : i \in 1 .. (n + 1)) /\ n + 1 \in 1 .. (n + 1)
    BY <1>2
  <2> QED
    BY <1>4, <1>8, <2>1
<1>10. m + (n + 1) = (m + n) + 1
  BY <1>2
<1>11. Extended(b, a, d)
  BY <1>1, <1>6, <1>7, <1>9, <1>10 DEF Extended
<1>12. Append(b \o w, 0) = d
  <2>1. PICK e, g : e = b \o w /\ g = Append(b \o w, 0)
    OBVIOUS
  <2>2. /\ e \in Seq(Nat) /\ Len(e) = m + n
        /\ \A i \in 1 .. (m + n) : e[i] = IF i <= m THEN b[i] ELSE w[i - m]
    <3>1. /\ b \o w \in Seq(Nat) /\ Len(b \o w) = Len(b) + Len(w)
          /\ \A i \in 1 .. (Len(b) + Len(w)) :
                (b \o w)[i] = IF i <= Len(b) THEN b[i] ELSE w[i - Len(b)]
      BY <1>2, ConcatProperties
    <3> QED
      BY <1>1, <1>2, <2>1, <3>1
  <2>3. g \in Seq(Nat) /\ Len(g) = (m + n) + 1 /\ (\A i \in 1 .. (m + n) : g[i] = e[i])
        /\ g[(m + n) + 1] = 0
    BY <1>2, <2>1, <2>2
  <2>4. ASSUME NEW i \in 1 .. ((m + n) + 1)
        PROVE  g[i] = d[i]
    <3>1. CASE i = (m + n) + 1
      BY <1>9, <1>10, <2>3, <3>1
    <3>2. CASE i <= m
      <4>1. i \in 1 .. m /\ i \in 1 .. (m + n)
        BY <1>2, <3>2
      <4> QED
        BY <1>7, <2>2, <2>3, <3>2, <4>1
    <3>3. CASE ~ (i <= m) /\ i # (m + n) + 1
      <4>1. i - m \in 1 .. n /\ i \in 1 .. (m + n) /\ m + (i - m) = i
        BY <1>2, <3>3
      <4>2. g[i] = w[i - m]
        BY <2>2, <2>3, <3>3, <4>1
      <4>3. d[m + (i - m)] = a /\ w[i - m] = a
        BY <1>2, <1>9, <4>1
      <4> QED
        BY <4>1, <4>2, <4>3
    <3> QED
      BY <3>1, <3>2, <3>3
  <2>5. g = d
    BY <1>6, <1>10, <2>3, <2>4, SeqEqual
  <2> QED
    BY <2>1, <2>5
<1> QED
  BY <1>1, <1>3, <1>5, <1>11, <1>12

(* One name more at the end of a list. *)
LEMMA CodedMore ==
  ASSUME NEW b, NEW s, Coded(b, s), NEW a \in 1 .. N, NEW d, Extended(b, a, d)
  PROVE  Coded(d, s \cup {a})
<1>1. PICK n, m, k : n = AttrLen[a] /\ m = Len(b) /\ k = Len(d)
  OBVIOUS
<1>2. b \in Seq(Nat) /\ d \in Seq(Nat) /\ NamesIn(b) = {Bytes(c) : c \in s}
  BY DEF Coded, Extended
<1>3. n \in Nat /\ n >= 1 /\ m \in Nat /\ k \in Nat /\ k = (m + n) + 1 /\ a \in Nat /\ a # 0
  BY <1>1, <1>2, NamesOk DEF Extended
<1>4. /\ \A i \in 1 .. m : d[i] = b[i]
      /\ \A i \in 1 .. n : d[m + i] = a
      /\ d[k] = 0
  BY <1>1 DEF Extended
<1>5. PICK Z : Z = Zeroes(b)
  OBVIOUS
<1>6. Z \subseteq 0 .. m /\ m \in Z
  BY <1>1, <1>2, <1>5, ZeroesAre DEF Coded
<1>7. Zeroes(d) = Z \cup {k}
  <2>1. DOMAIN d = 1 .. k /\ DOMAIN b = 1 .. m
    BY <1>1, <1>2
  <2>2. ASSUME NEW i \in 1 .. k
        PROVE  d[i] = 0 <=> (i \in 1 .. m /\ b[i] = 0) \/ i = k
    <3>1. CASE i <= m
      BY <1>3, <1>4, <3>1
    <3>2. CASE i = k
      BY <1>4, <3>2
    <3>3. CASE ~ (i <= m) /\ i # k
      <4>1. i - m \in 1 .. n /\ m + (i - m) = i
        BY <1>3, <3>3
      <4>2. d[i] = a
        BY <1>4, <4>1
      <4> QED
        BY <1>3, <3>3, <4>2
    <3> QED
      BY <3>1, <3>2, <3>3
  <2>3. 1 .. m \subseteq 1 .. k /\ k \in 1 .. k
    BY <1>3
  <2> QED
    BY <1>5, <2>1, <2>2, <2>3 DEF Zeroes
<1>8. ASSUME NEW z, NEW y
      PROVE  Gap(d, z, y) <=> Gap(b, z, y) \/ (z = m /\ y = k)
  <2>1. \A x \in Z : x \in Nat /\ x <= m /\ x < k
    BY <1>3, <1>6
  <2>2. ASSUME Gap(d, z, y) PROVE Gap(b, z, y) \/ (z = m /\ y = k)
    <3>1. /\ z \in Z \cup {k} /\ y \in Z \cup {k} /\ y > z
          /\ \A x \in Z \cup {k} : x > z => y <= x
      BY <1>7, <2>2 DEF Gap
    <3>2. z \in Z
      BY <1>3, <2>1, <3>1
    <3>3. CASE y = k
      <4>1. ~ (m > z)
        BY <1>3, <1>6, <2>1, <3>1, <3>3
      <4>2. z = m
        BY <1>3, <2>1, <3>2, <4>1
      <4> QED
        BY <3>3, <4>2
    <3>4. CASE y # k
      BY <1>5, <3>1, <3>2, <3>4 DEF Gap
    <3> QED
      BY <3>3, <3>4
  <2>3. ASSUME Gap(b, z, y) PROVE Gap(d, z, y)
    <3>1. /\ z \in Z /\ y \in Z /\ y > z /\ \A x \in Z : x > z => y <= x
      BY <1>5, <2>3 DEF Gap
    <3>2. y <= k
      BY <1>3, <2>1, <3>1
    <3> QED
      BY <1>7, <3>1, <3>2 DEF Gap
  <2>4. ASSUME z = m, y = k PROVE Gap(d, z, y)
    <3>1. y > z /\ \A x \in Z \cup {k} : x > z => y <= x
      BY <1>3, <2>1, <2>4
    <3> QED
      BY <1>6, <1>7, <2>4, <3>1 DEF Gap
  <2> QED
    BY <2>2, <2>3, <2>4
<1>9. ASSUME NEW z, NEW y, Gap(b, z, y)
      PROVE  SubSeq(d, z + 1, y - 1) = SubSeq(b, z + 1, y - 1)
  <2>1. z \in Nat /\ y \in Nat /\ y > z /\ y <= m
    BY <1>3, <1>5, <1>6, <1>9 DEF Gap
  <2>2. PICK i, j : i = z + 1 /\ j = y - 1
    OBVIOUS
  <2>3. i \in Nat /\ j \in Nat /\ i >= 1 /\ j <= Len(b) /\ Len(b) <= Len(d)
    BY <1>1, <1>3, <2>1, <2>2
  <2>4. SubSeq(d, i, j) = SubSeq(b, i, j)
    BY <1>1, <1>2, <1>4, <2>3, SamePart
  <2> QED
    BY <2>2, <2>4
<1>10. SubSeq(d, m + 1, k - 1) = Bytes(a)
  <2>1. PICK t, w : t = SubSeq(d, m + 1, k - 1) /\ w = Bytes(a)
    OBVIOUS
  <2>2. w \in Seq(Nat) /\ Len(w) = n /\ \A i \in 1 .. n : w[i] = a
    BY <1>1, <2>1, BytesAre
  <2>3. \A i \in (m + 1) .. (k - 1) : i \in 1 .. k
    BY <1>3
  <2>4. \A i \in (m + 1) .. (k - 1) : d[i] \in Nat
    BY <1>1, <1>2, <2>3
  <2>5. /\ t \in Seq(Nat)
        /\ Len(t) = IF m + 1 <= k - 1 THEN (k - 1) - (m + 1) + 1 ELSE 0
        /\ \A i \in 1 .. ((k - 1) - (m + 1) + 1) : t[i] = d[(m + 1) + i - 1]
    <3>1. m + 1 \in Int /\ k - 1 \in Int
      BY <1>3
    <3> QED
      BY <2>1, <2>4, <3>1, SubSeqProperties
  <2>6. /\ (k - 1) - (m + 1) + 1 = n /\ m + 1 <= k - 1
        /\ \A i \in 1 .. n : (m + 1) + i - 1 = m + i
    BY <1>3
  <2>7. Len(t) = n
    BY <2>5, <2>6
  <2>8. \A i \in 1 .. n : t[i] = a
    BY <1>4, <2>5, <2>6
  <2>9. t = w
    BY <2>2, <2>5, <2>7, <2>8, SeqEqual
  <2> QED
    BY <2>1, <2>9
<1>11. NamesIn(d) = NamesIn(b) \cup {Bytes(a)}
  <2>1. ASSUME NEW w \in NamesIn(d)
        PROVE  w \in NamesIn(b) \cup {Bytes(a)}
    <3>1. PICK z, y : Gap(d, z, y) /\ w = SubSeq(d, z + 1, y - 1)
      BY <1>2, NamesAre
    <3>2. CASE Gap(b, z, y)
      <4>1. w = SubSeq(b, z + 1, y - 1)
        BY <1>9, <3>1, <3>2
      <4>2. SubSeq(b, z + 1, y - 1) \in NamesIn(b)
        BY <1>2, <3>2, NamesAre, Zenon
      <4> QED
        BY <4>1, <4>2
    <3>3. CASE z = m /\ y = k
      BY <1>10, <3>1, <3>3
    <3> QED
      BY <1>8, <3>1, <3>2, <3>3
  <2>2. ASSUME NEW w \in NamesIn(b)
        PROVE  w \in NamesIn(d)
    <3>1. PICK z, y : Gap(b, z, y) /\ w = SubSeq(b, z + 1, y - 1)
      BY <1>2, NamesAre
    <3>2. Gap(d, z, y) /\ w = SubSeq(d, z + 1, y - 1)
      BY <1>8, <1>9, <3>1
    <3> QED
      BY <1>2, <3>2, NamesAre
  <2>3. Bytes(a) \in NamesIn(d)
    <3>1. Gap(d, m, k)
      BY <1>8
    <3> QED
      <4>1. SubSeq(d, m + 1, k - 1) \in NamesIn(d)
        BY <1>2, <3>1, NamesAre, Zenon
      <4> QED
        BY <1>10, <4>1
  <2> QED
    BY <2>1, <2>2, <2>3
<1>12. NamesIn(d) = {Bytes(c) : c \in s \cup {a}}
  BY <1>2, <1>11
<1>13. Len(d) \in Zeroes(d)
  BY <1>1, <1>7
<1> QED
  BY <1>2, <1>12, <1>13 DEF Coded

LEMMA EncodeCoded ==
  ASSUME NEW s, s \subseteq 1 .. N
  PROVE  Coded(Encode(s), s)
<1>1. PICK f : Lists(s, f) /\ Encode(s) = f[N]
  BY EncodeIs
<1> DEFINE P == {a \in 0 .. N : Coded(f[a], s \cap (1 .. a))}
<1>2. 0 \in P
  <2>1. f[0] = << >> /\ s \cap (1 .. 0) = {} /\ 0 \in 0 .. N
    BY <1>1, NamesOk DEF Lists
  <2> QED
    BY <2>1, CodedNone
<1>3. ASSUME NEW a \in 1 .. N, a - 1 \in P PROVE a \in P
  <2>1. f[a] = f[a - 1] \o Part(s, a) /\ a \in 0 .. N
    BY <1>1, NamesOk DEF Lists
  <2>2. Coded(f[a - 1], s \cap (1 .. (a - 1))) /\ f[a - 1] \in Seq(Nat)
    BY <1>3 DEF Coded
  <2>3. CASE a \in s
    <3>1. f[a] = f[a - 1] \o Append(Bytes(a), 0)
      BY <2>1, <2>3 DEF Part
    <3>2. Extended(f[a - 1], a, f[a])
      BY <2>2, <3>1, ExtendedIs
    <3>3. Coded(f[a], (s \cap (1 .. (a - 1))) \cup {a})
      BY <2>2, <3>2, CodedMore
    <3>4. (s \cap (1 .. (a - 1))) \cup {a} = s \cap (1 .. a)
      BY <2>3, NamesOk
    <3> QED
      BY <2>1, <3>3, <3>4
  <2>4. CASE a \notin s
    <3>1. f[a] = f[a - 1]
      <4>1. f[a] = f[a - 1] \o << >>
        BY <2>1, <2>4 DEF Part
      <4> QED
        BY <2>2, <4>1
    <3>2. s \cap (1 .. (a - 1)) = s \cap (1 .. a)
      BY <2>4, NamesOk
    <3> QED
      BY <2>1, <2>2, <3>1, <3>2
  <2> QED
    BY <2>3, <2>4
<1> HIDE DEF P
<1>4. \A a \in 0 .. N : a \in P
  BY <1>2, <1>3, Upwards
<1>5. s \cap (1 .. N) = s
  <2> QED
    BY Zenon
<1>6. N \in 0 .. N
  BY NamesOk
<1> QED
  BY <1>1, <1>4, <1>5, <1>6 DEF P

(* An empty list is that of no attribute. *)
LEMMA EncodeEmpty ==
  ASSUME NEW s, s \subseteq 1 .. N, Len(Encode(s)) = 0
  PROVE  s = {}
<1> SUFFICES ASSUME NEW c \in s PROVE FALSE
  OBVIOUS
<1>1. c \in 1 .. N /\ AttrLen[c] \in Nat /\ Len(Encode(s \ {c})) \in Nat
  BY NamesOk, EncodeType
<1>2. Len(Encode(s)) = Len(Encode(s \ {c})) + (AttrLen[c] + 1)
  BY <1>1, EncodeWithout
<1>3. PICK x : x = Len(Encode(s \ {c}))
  OBVIOUS
<1>4. x \in Nat /\ 0 = x + (AttrLen[c] + 1)
  BY <1>1, <1>2, <1>3
<1> QED
  BY <1>1, <1>4

-----------------------------------------------------------------------------
(***************************************************************************)
(* The inductive invariant: while the file system puts a reply together,   *)
(* the reply holds the names that are not to be added any more, and with   *)
(* those still to be added it gets as long as the list of all of them.     *)
(***************************************************************************)
Filling ==
  /\ todo \subseteq listed /\ size = hint
  /\ Coded(response, listed \ todo)
  /\ Len(response) + Len(Encode(todo)) = Len(Encode(listed))

Answered ==
  /\ Coded(result, listed)
  /\ Len(result) = Len(Encode(listed)) /\ Len(result) <= hint

XattrInv ==
  /\ attrs \subseteq Attr /\ listed \subseteq Attr
  /\ hint \in Nat /\ size \in Nat
  /\ response \in Seq(Nat) /\ Len(response) <= size
  /\ caller # "done" => result = << >>
  /\ caller = "waits" => Filling
  /\ caller = "done" => Answered

LEMMA InitHolds == XattrInit => XattrInv
<1> SUFFICES ASSUME XattrInit PROVE XattrInv
  OBVIOUS
<1>1. << >> \in Seq(Nat) /\ Len(<< >>) = 0
  OBVIOUS
<1> QED
  BY <1>1 DEF XattrInit, XattrInv

LEMMA SizeStep ==
  ASSUME XattrInv, ListXAttrSize
  PROVE  XattrInv'
<1>1. /\ caller = "ask" /\ hint' = Len(Encode(attrs)) /\ listed' = attrs
      /\ caller' = IF hint' = 0 THEN "done" ELSE "sized"
      /\ UNCHANGED <<attrs, result, size, response>>
  BY DEF ListXAttrSize
<1>2. attrs \subseteq 1 .. N /\ hint' \in Nat
  BY <1>1, NamesOk, EncodeType DEF XattrInv
<1>3. ASSUME hint' = 0 PROVE Answered'
  <2>1. attrs = {} /\ result' = << >>
    BY <1>1, <1>2, <1>3, EncodeEmpty DEF XattrInv
  <2>2. Coded(result', listed') /\ Encode(listed') = << >>
    BY <1>1, <2>1, CodedNone, EncodeNone
  <2>3. Len(result') = 0
    BY <2>1
  <2> QED
    BY <1>3, <2>1, <2>2, <2>3 DEF Answered
<1>4. caller' # "waits"
  BY <1>1
<1>5. caller' = "done" => hint' = 0
  BY <1>1
<1> QED
  BY <1>1, <1>2, <1>3, <1>4, <1>5 DEF XattrInv

LEMMA RequestStep ==
  ASSUME XattrInv, ListXAttr
  PROVE  XattrInv'
<1>1. /\ caller = "sized" /\ caller' = "waits" /\ listed' = attrs /\ todo' = attrs
      /\ size' = hint /\ response' = << >> /\ UNCHANGED <<attrs, hint, result>>
  BY DEF ListXAttr
<1>2. Coded(response', listed' \ todo')
  <2>1. listed' \ todo' = {}
    BY <1>1
  <2> QED
    BY <1>1, <2>1, CodedNone
<1>3. Len(response') + Len(Encode(todo')) = Len(Encode(listed'))
  <2>1. Len(response') = 0 /\ Len(Encode(todo')) \in Nat
    BY <1>1, EncodeType
  <2> QED
    BY <1>1, <2>1
<1>4. Filling'
  BY <1>1, <1>2, <1>3 DEF Filling
<1>5. response' \in Seq(Nat) /\ Len(response') = 0
  BY <1>1
<1> QED
  BY <1>1, <1>4, <1>5 DEF XattrInv

LEMMA FailStep ==
  ASSUME XattrInv, caller = "waits", fail_full
  PROVE  XattrInv'
<1>1. << >> \in Seq(Nat) /\ Len(<< >>) = 0
  OBVIOUS
<1> QED
  BY <1>1 DEF XattrInv, fail_full

LEMMA AnswerStep ==
  ASSUME XattrInv, caller = "waits", NEW bytes, Answer(bytes), Coded(bytes, listed),
         Len(bytes) = Len(Encode(listed)), Len(bytes) <= size
  PROVE  XattrInv'
<1>1. << >> \in Seq(Nat) /\ Len(<< >>) = 0
  OBVIOUS
<1>2. /\ result' = bytes /\ caller' = "done" /\ size' = 0 /\ response' = << >>
      /\ UNCHANGED <<listed, attrs, hint>>
  BY DEF Answer
<1>3. size = hint
  BY DEF XattrInv, Filling
<1>4. Answered'
  BY <1>2, <1>3 DEF Answered
<1> QED
  BY <1>1, <1>2, <1>4 DEF XattrInv

(* A reply that holds some of the names, when the rest of the state stays. *)
LEMMA FillStep ==
  ASSUME XattrInv, caller = "waits", UNCHANGED <<attrs, hint, caller, result, listed, size>>,
         response' \in Seq(Nat), Len(response') <= size, Filling'
  PROVE  XattrInv'
BY DEF XattrInv

LEMMA AddStep ==
  ASSUME XattrInv, caller = "waits", NEW a \in todo, check_add(AttrLen[a] + 1),
         todo' = todo \ {a}, response' = response \o Append(Bytes(a), 0),
         UNCHANGED <<attrs, hint, caller, result, listed, size>>
  PROVE  XattrInv'
<1>1. /\ todo \subseteq listed /\ size = hint /\ Coded(response, listed \ todo)
      /\ Len(response) + Len(Encode(todo)) = Len(Encode(listed))
      /\ listed \subseteq 1 .. N /\ response \in Seq(Nat) /\ size \in Nat
  BY NamesOk DEF XattrInv, Filling
<1>2. a \in 1 .. N /\ AttrLen[a] \in Nat
  BY <1>1, NamesOk
<1>3. Extended(response, a, response')
  BY <1>1, <1>2, ExtendedIs
<1>4. response' \in Seq(Nat) /\ Len(response') = (Len(response) + AttrLen[a]) + 1
  BY <1>3 DEF Extended
<1>5. Len(response') <= size
  BY <1>1, <1>2, <1>4 DEF check_add
<1>6. Coded(response', listed' \ todo')
  <2>1. Coded(response', (listed \ todo) \cup {a})
    BY <1>1, <1>2, <1>3, CodedMore
  <2>2. (listed \ todo) \cup {a} = listed' \ todo'
    BY <1>1
  <2> QED
    BY <2>1, <2>2
<1>7. Len(response') + Len(Encode(todo')) = Len(Encode(listed'))
  <2>1. Len(Encode(todo)) = Len(Encode(todo \ {a})) + (AttrLen[a] + 1)
    BY <1>2, EncodeWithout
  <2>2. PICK x, y, z : x = Len(response) /\ y = Len(Encode(todo \ {a})) /\ z = Len(Encode(listed))
    OBVIOUS
  <2>3. x \in Nat /\ y \in Nat /\ z \in Nat
    BY <1>1, <2>2, EncodeType
  <2>4. x + (y + (AttrLen[a] + 1)) = z
    BY <1>1, <2>1, <2>2
  <2>5. ((x + AttrLen[a]) + 1) + y = z
    BY <1>2, <2>3, <2>4
  <2> QED
    BY <1>4, <2>2, <2>5
<1>8. Filling'
  BY <1>1, <1>6, <1>7 DEF Filling
<1> QED
  BY <1>4, <1>5, <1>8, FillStep

(* What is Encoded holds every name of the list. *)
LEMMA WholeList ==
  ASSUME XattrInv
  PROVE  Coded(Encode(listed), listed) /\ Encode(listed) \in Seq(Nat) /\ Len(Encode(listed)) \in Nat
<1>1. listed \subseteq 1 .. N
  BY NamesOk DEF XattrInv
<1> QED
  BY <1>1, EncodeCoded, EncodeType

LEMMA FileSystemStep ==
  ASSUME XattrInv, FileSystem
  PROVE  XattrInv'
<1>0. size \in Nat
  BY DEF XattrInv
<1>1. CASE reply
  <2>1. caller = "waits" /\ todo = {} /\ Answer(response)
    BY <1>1 DEF reply
  <2>2. /\ Coded(response, listed \ todo) /\ Len(response) <= size /\ response \in Seq(Nat)
        /\ Len(response) + Len(Encode(todo)) = Len(Encode(listed))
    BY <2>1 DEF XattrInv, Filling
  <2>3. listed \ todo = listed /\ Len(Encode(todo)) = 0 /\ Len(response) \in Nat
    BY <2>1, <2>2, EncodeNone
  <2>4. Len(response) = Len(Encode(listed))
    BY <2>2, <2>3, WholeList
  <2> QED
    BY <2>1, <2>2, <2>3, <2>4, AnswerStep
<1>2. CASE reply_raw
  <2>1. caller = "waits"
    BY <1>2 DEF reply_raw
  <2>2. CASE Len(Encode(listed)) > size
    BY <1>2, <2>1, <2>2, FailStep DEF reply_raw
  <2>3. CASE ~ (Len(Encode(listed)) > size)
    <3>1. Answer(Encode(listed))
      BY <1>2, <2>3 DEF reply_raw
    <3>2. Len(Encode(listed)) <= size
      BY <1>0, <2>3, WholeList
    <3> QED
      BY <2>1, <3>1, <3>2, WholeList, AnswerStep
  <2> QED
    BY <2>2, <2>3
<1>3. CASE set_raw_reply
  <2>1. caller = "waits"
    BY <1>3 DEF set_raw_reply
  <2>2. CASE Len(Encode(listed)) > size
    BY <1>3, <2>1, <2>2, FailStep DEF set_raw_reply
  <2>3. CASE ~ (Len(Encode(listed)) > size)
    <3>1. /\ response' = Encode(listed) /\ todo' = {}
          /\ UNCHANGED <<attrs, hint, caller, result, listed, size>>
      BY <1>3, <2>3 DEF set_raw_reply
    <3>2. Len(response') <= size /\ response' \in Seq(Nat)
      BY <1>0, <2>3, <3>1, WholeList
    <3>3. Filling'
      <4>1. listed' \ todo' = listed /\ Len(Encode(todo')) = 0 /\ todo' \subseteq listed'
        BY <3>1, EncodeNone
      <4>2. Coded(response', listed' \ todo')
        BY <3>1, <4>1, WholeList
      <4>3. Len(response') + Len(Encode(todo')) = Len(Encode(listed'))
        BY <3>1, <4>1, WholeList
      <4>4. size' = hint'
        BY <2>1, <3>1 DEF XattrInv, Filling
      <4> QED
        BY <4>1, <4>2, <4>3, <4>4 DEF Filling
    <3> QED
      BY <2>1, <3>1, <3>2, <3>3, FillStep
  <2> QED
    BY <2>2, <2>3
<1>4. ASSUME NEW a \in Attr, add(a)
      PROVE  XattrInv'
  <2>1. caller = "waits" /\ a \in todo
    BY <1>4 DEF add
  <2>2. CASE ~ check_add(AttrLen[a] + 1)
    BY <1>4, <2>1, <2>2, FailStep DEF add
  <2>3. CASE check_add(AttrLen[a] + 1)
    <3>1. /\ todo' = todo \ {a} /\ response' = Append(response \o Bytes(a), 0)
          /\ UNCHANGED <<attrs, hint, caller, result, listed, size>>
      BY <1>4, <2>3 DEF add
    <3>2. response' = response \o Append(Bytes(a), 0)
      BY <3>1, NamesOk, ExtendedIs DEF XattrInv
    <3> QED
      BY <2>1, <2>3, <3>1, <3>2, AddStep
  <2> QED
    BY <2>2, <2>3
<1>5. ASSUME NEW a \in Attr, add_c_string(a)
      PROVE  XattrInv'
  <2>1. caller = "waits" /\ a \in todo
    BY <1>5 DEF add_c_string
  <2>2. Len(Append(Bytes(a), 0)) = AttrLen[a] + 1
    BY NamesOk, BytesAre
  <2>3. CASE ~ check_add(AttrLen[a] + 1)
    BY <1>5, <2>1, <2>2, <2>3, FailStep DEF add_c_string
  <2>4. CASE check_add(AttrLen[a] + 1)
    <3>1. /\ todo' = todo \ {a} /\ response' = response \o Append(Bytes(a), 0)
          /\ UNCHANGED <<attrs, hint, caller, result, listed, size>>
      BY <1>5, <2>2, <2>4 DEF add_c_string
    <3> QED
      BY <2>1, <2>4, <3>1, AddStep
  <2> QED
    BY <2>3, <2>4
<1> QED
  BY <1>1, <1>2, <1>3, <1>4, <1>5 DEF FileSystem

LEMMA StepHolds ==
  XattrInv /\ [XattrNext]_xattrVars => XattrInv'
<1> SUFFICES ASSUME XattrInv, [XattrNext]_xattrVars PROVE XattrInv'
  OBVIOUS
<1>1. CASE Again
  <2>1. UNCHANGED <<attrs, size, response>> /\ caller' = "ask" /\ hint' = 0 /\ result' = << >>
        /\ listed' = {}
    BY <1>1 DEF Again
  <2> QED
    BY <2>1 DEF XattrInv
<1>2. ASSUME NEW a \in Attr, Change(a)
      PROVE  XattrInv'
  <2>1. attrs' \subseteq Attr
    BY <1>2 DEF Change, XattrInv
  <2>2. UNCHANGED <<hint, caller, result, listed, size, response, todo>>
    BY <1>2 DEF Change, requestVars
  <2> QED
    BY <2>1, <2>2 DEF XattrInv, Filling, Answered
<1>3. CASE UNCHANGED xattrVars
  BY <1>3 DEF xattrVars, requestVars, XattrInv, Filling, Answered
<1> QED
  BY <1>1, <1>2, <1>3, SizeStep, RequestStep, FileSystemStep DEF XattrNext

(* The list that is put together is always one of whole names. *)
THEOREM ListInvariant == XattrSpec => []XattrInv
BY InitHolds, StepHolds, PTL DEF XattrSpec

(* Whatever mix of add, add_c_string, set_raw_reply and reply_raw makes a  *)
(* ListXAttr reply, in whatever order and however the attributes change    *)
(* meanwhile: a caller reads exactly the names out of it that the file had *)
(* when the request came, and it fits the buffer.                          *)
THEOREM AnswersAreComplete == XattrSpec => []AnswerIsComplete
<1>1. XattrInv => AnswerIsComplete
  BY DEF XattrInv, Answered, Coded, AnswerIsComplete
<1> QED
  BY <1>1, ListInvariant, PTL
=============================================================================
