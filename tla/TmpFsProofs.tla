---------------------------- MODULE TmpFsProofs ----------------------------
(***************************************************************************)
(* Proofs about TmpFs, for any names, any number of inode slots and any    *)
(* traffic.                                                                *)
(***************************************************************************)
EXTENDS TmpFs, FiniteSetTheorems, FunctionTheorems, TLAPS

(***************************************************************************)
(* The inductive invariant, on a file system f.  No inode ever has more    *)
(* than one name, so the count of its names is said without counting.      *)
(***************************************************************************)
RootStays(f) ==
    /\ f.entries[Root].kind = "dir" /\ f.entries[Root].links = 1
    /\ f.entries[Root].parent = Root

LinksOk(f) ==
    \A i \in Inode : /\ f.entries[i].links \in {0, 1}
                     /\ ~Live(f, i) => f.entries[i].links = 0

(* A name is in a directory that has a name itself, and it is the only     *)
(* name of the inode it refers to.                                         *)
NameOk(f, p, n) ==
    LET i == f.entries[p].files[n]
    IN  i # 0 =>
          /\ f.entries[p].kind = "dir" /\ f.entries[p].links = 1
          /\ i # Root /\ f.entries[i].links = 1 /\ f.entries[i].parent = p
          /\ \A m \in Name : f.entries[p].files[m] = i => m = n

NamesOk(f) == \A p \in Inode, n \in Name : NameOk(f, p, n)

LinkedOk(f) ==
    \A i \in Inode \ {Root} :
        f.entries[i].links = 1 =>
            /\ f.entries[i].parent \in Inode
            /\ \E n \in Name : f.entries[f.entries[i].parent].files[n] = i

SlotsOk(f) ==
    /\ \A a, b \in DOMAIN f.free : a # b => f.free[a] # f.free[b]
    /\ \A a \in DOMAIN f.free : f.free[a] <= f.used
    /\ \A i \in Inode :
          Live(f, i) <=> i <= f.used /\ \A a \in DOMAIN f.free : f.free[a] # i

FsOk(f) ==
    f \in Fs /\ RootStays(f) /\ LinksOk(f) /\ NamesOk(f) /\ LinkedOk(f) /\ SlotsOk(f)

-----------------------------------------------------------------------------
(***************************************************************************)
(* What the operations of fs.rs do to the entries, apart from the counts:  *)
(* nothing, delete one entry, add one, or take the name of one.            *)
(***************************************************************************)
SameEntry(d, e) ==
    d.kind = e.kind /\ d.parent = e.parent /\ d.links = e.links /\ d.files = e.files

Kept(f, g) ==
    /\ g \in Fs /\ g.free = f.free /\ g.used = f.used
    /\ \A j \in Inode : SameEntry(g.entries[j], f.entries[j])

Freed(f, g, i) ==
    /\ g \in Fs /\ Live(f, i) /\ f.entries[i].links = 0
    /\ g.free = Append(f.free, i) /\ g.used = f.used
    /\ g.entries[i] = Vacant
    /\ \A j \in Inode \ {i} : SameEntry(g.entries[j], f.entries[j])

Linked(f, g, p, n, i, kind) ==
    /\ g \in Fs /\ i = NextSlot(f)
    /\ f.entries[p].kind = "dir" /\ f.entries[p].links = 1 /\ f.entries[p].files[n] = 0
    /\ g.free = (IF f.free # <<>> THEN Front(f.free) ELSE f.free)
    /\ g.used = (IF f.free # <<>> THEN f.used ELSE i)
    /\ SameEntry(g.entries[i], NewEntry(kind, p, 1))
    /\ SameEntry(g.entries[p],
                 [f.entries[p] EXCEPT !.files = [@ EXCEPT ![n] = i]])
    /\ \A j \in Inode \ {i, p} : SameEntry(g.entries[j], f.entries[j])

Unlinked(f, g, p, n, i) ==
    /\ g \in Fs /\ g.free = f.free /\ g.used = f.used
    /\ i = f.entries[p].files[n] /\ i # 0 /\ f.entries[i].files = NoFiles
    /\ SameEntry(g.entries[i],
                 [f.entries[i] EXCEPT !.links = 0])
    /\ SameEntry(g.entries[p],
                 [f.entries[p] EXCEPT !.files = [@ EXCEPT ![n] = 0]])
    /\ \A j \in Inode \ {i, p} : SameEntry(g.entries[j], f.entries[j])

LEMMA KeptOk ==
    ASSUME NEW f, NEW g, FsOk(f), Kept(f, g)
    PROVE  FsOk(g)
<1> USE DEF FsOk, Kept, SameEntry, Live
<1>1. Root \in Inode
  BY MaxInodesAssumption DEF Root, Inode
<1>2. RootStays(g) /\ LinksOk(g)
  BY <1>1 DEF RootStays, LinksOk
<1>3. NamesOk(g)
  <2> SUFFICES ASSUME NEW p \in Inode, NEW n \in Name PROVE NameOk(g, p, n)
    BY DEF NamesOk
  <2>1. NameOk(f, p, n)
    BY DEF NamesOk
  <2>2. f.entries[p].files[n] \in Inode \cup {0}
    BY DEF Fs, Entry
  <2> QED
    BY <2>1, <2>2 DEF NameOk
<1>4. LinkedOk(g)
  BY DEF LinkedOk
<1>5. SlotsOk(g)
  BY DEF SlotsOk
<1> QED
  BY <1>2, <1>3, <1>4, <1>5
LEMMA InodeFacts ==
    /\ Root \in Inode /\ 0 \notin Inode
    /\ \A i \in Inode : i \in Int
BY MaxInodesAssumption DEF Root, Inode

LEMMA FileType ==
    ASSUME NEW f \in Fs, NEW p \in Inode, NEW n \in Name
    PROVE  f.entries[p].files[n] \in Inode \cup {0}
BY DEF Fs, Entry

LEMMA FreedOk ==
    ASSUME NEW f, NEW g, NEW i \in Inode, FsOk(f), Freed(f, g, i)
    PROVE  FsOk(g)
<1> USE InodeFacts DEF FsOk, Freed, SameEntry, Live
<1>1. i # Root
  BY DEF RootStays
<1>2. g.entries[i].kind = "free" /\ g.entries[i].links = 0
      /\ \A n \in Name : g.entries[i].files[n] = 0
  BY DEF Vacant, NoFiles
<1>3. RootStays(g) /\ LinksOk(g)
  BY <1>1, <1>2 DEF RootStays, LinksOk
<1>4. NamesOk(g)
  <2> SUFFICES ASSUME NEW p \in Inode, NEW n \in Name PROVE NameOk(g, p, n)
    BY DEF NamesOk
  <2>1. NameOk(f, p, n) /\ f.entries[p].files[n] \in Inode \cup {0}
    BY FileType DEF NamesOk
  <2>2. CASE p = i
    BY <1>2, <2>2 DEF NameOk
  <2>3. CASE p # i
    <3>1. SameEntry(g.entries[p], f.entries[p])
      BY <2>3
    <3>2. f.entries[p].files[n] # 0 => f.entries[p].files[n] # i
      BY <2>1 DEF NameOk
    <3> HIDE DEF FsOk, Freed
    <3>3. f.entries[p].files[n] # 0 =>
            SameEntry(g.entries[f.entries[p].files[n]], f.entries[f.entries[p].files[n]])
      BY <2>1, <3>2 DEF Freed
    <3> QED
      BY <2>1, <3>1, <3>3 DEF NameOk
  <2> QED
    BY <2>2, <2>3
<1>5. LinkedOk(g)
  <2> SUFFICES ASSUME NEW j \in Inode \ {Root}, g.entries[j].links = 1
               PROVE  /\ g.entries[j].parent \in Inode
                      /\ \E n \in Name : g.entries[g.entries[j].parent].files[n] = j
    BY DEF LinkedOk
  <2>1. j # i
    BY <1>2
  <2>2. PICK n \in Name : /\ f.entries[j].parent \in Inode
                          /\ f.entries[f.entries[j].parent].files[n] = j
    BY <2>1 DEF LinkedOk
  <2>3. f.entries[j].parent # i
    BY <2>2 DEF NamesOk, NameOk
  <2> QED
    BY <2>1, <2>2, <2>3, SMTT(30)
<1>6. SlotsOk(g)
  <2>1. f.free \in Seq(Inode)
    BY DEF Fs
  <2>2. /\ DOMAIN f.free = 1..Len(f.free)
        /\ DOMAIN g.free = 1..(Len(f.free) + 1)
        /\ g.free[Len(f.free) + 1] = i
        /\ \A a \in 1..Len(f.free) : g.free[a] = f.free[a] /\ f.free[a] # i
        /\ Len(f.free) \in Nat
    BY <2>1 DEF SlotsOk
  <2>3. i <= f.used
    BY DEF SlotsOk
  <2>4. \A a \in DOMAIN g.free : a \in 1..Len(f.free) \/ a = Len(f.free) + 1
    BY <2>2
  <2>5. \A a, b \in DOMAIN g.free : a # b => g.free[a] # g.free[b]
    BY <2>2, <2>4 DEF SlotsOk
  <2>6. \A a \in DOMAIN g.free : g.free[a] <= g.used
    BY <2>2, <2>3, <2>4 DEF SlotsOk
  <2>7. ASSUME NEW j \in Inode
        PROVE  Live(g, j) <=> j <= g.used /\ \A a \in DOMAIN g.free : g.free[a] # j
    <3>1. CASE j = i
      BY <1>2, <2>2, <3>1
    <3>2. CASE j # i
      <4>1. Live(g, j) <=> Live(f, j)
        BY <3>2
      <4>2. (\A a \in DOMAIN g.free : g.free[a] # j)
              <=> (\A a \in DOMAIN f.free : f.free[a] # j)
        BY <2>2, <2>4, <3>2
      <4> QED
        BY <4>1, <4>2 DEF SlotsOk
    <3> QED
      BY <3>1, <3>2
  <2> QED
    BY <2>5, <2>6, <2>7 DEF SlotsOk
<1> QED
  BY <1>3, <1>4, <1>5, <1>6

(* The slot that do_create takes is not in use. *)
LEMMA NextSlotFree ==
    ASSUME NEW f, FsOk(f), NextSlot(f) \in Inode
    PROVE  ~Live(f, NextSlot(f)) /\ f.entries[NextSlot(f)].links = 0
<1>1. f.free \in Seq(Inode) /\ f.used \in Inode
  BY DEF FsOk, Fs
<1>2. ~Live(f, NextSlot(f))
  <2>1. CASE f.free # <<>>
    <3>1. Len(f.free) \in DOMAIN f.free
      BY <1>1, <2>1
    <3> QED
      BY <2>1, <3>1 DEF FsOk, SlotsOk, NextSlot, Last
  <2>2. CASE f.free = <<>>
    BY <1>1, <2>2, InodeFacts DEF FsOk, SlotsOk, NextSlot
  <2> QED
    BY <2>1, <2>2
<1> QED
  BY <1>2 DEF FsOk, LinksOk

LEMMA LinkedIsOk ==
    ASSUME NEW f, NEW g, NEW p \in Inode, NEW n \in Name, NEW i \in Inode,
           NEW kind \in {"file", "dir"}, FsOk(f), Linked(f, g, p, n, i, kind)
    PROVE  FsOk(g)
<1> USE InodeFacts
<1>1. /\ ~Live(f, i) /\ f.entries[i].links = 0
      /\ i # p /\ i # Root
  BY NextSlotFree DEF Live, FsOk, RootStays, Linked
<1>2. /\ g.entries[i].kind = kind /\ g.entries[i].links = 1
      /\ g.entries[i].parent = p
      /\ \A m \in Name : g.entries[i].files[m] = 0
  BY DEF NewEntry, NoFiles, Linked, SameEntry
<1>3. /\ g.entries[p].kind = "dir" /\ g.entries[p].links = 1
      /\ g.entries[p].parent = f.entries[p].parent
      /\ g.entries[p].files[n] = i
      /\ \A m \in Name \ {n} : g.entries[p].files[m] = f.entries[p].files[m]
  BY DEF Fs, Entry, FsOk, Linked, SameEntry
<1>4. \A q \in Inode, m \in Name : f.entries[q].files[m] # i
  BY <1>1 DEF NamesOk, NameOk, FsOk
<1>5. \A j \in Inode \ {i} :
         /\ g.entries[j].kind = f.entries[j].kind
         /\ g.entries[j].links = f.entries[j].links
         /\ g.entries[j].parent = f.entries[j].parent
  BY <1>3 DEF Linked, SameEntry
<1>10. \A j \in Inode \ {i, p} : g.entries[j].files = f.entries[j].files
  BY DEF Linked, SameEntry
<1>11. g \in Fs /\ f \in Fs
  BY DEF Linked, FsOk
<1>6. RootStays(g) /\ LinksOk(g)
  BY <1>1, <1>2, <1>5 DEF RootStays, LinksOk, Live, FsOk
<1>7. NamesOk(g)
  <2> SUFFICES ASSUME NEW q \in Inode, NEW m \in Name PROVE NameOk(g, q, m)
    BY DEF NamesOk
  <2>1. NameOk(f, q, m) /\ f.entries[q].files[m] \in Inode \cup {0}
    BY <1>11, FileType DEF NamesOk, FsOk
  <2>2. CASE q = i
    BY <1>2, <2>2 DEF NameOk
  <2>3. CASE q = p /\ m = n
    BY <1>1, <1>2, <1>3, <1>4, <2>3 DEF NameOk
  <2>4. CASE q = p /\ m # n
    <3>1. g.entries[p].files[m] = f.entries[p].files[m] /\ f.entries[p].files[m] # i
      BY <1>3, <1>4, <2>4
    <3> QED
      BY <1>1, <1>3, <1>5, <2>1, <2>4, <3>1 DEF NameOk
  <2>5. CASE q \notin {i, p}
    <3>1. g.entries[q].files = f.entries[q].files /\ f.entries[q].files[m] # i
      BY <1>4, <1>10, <2>5
    <3> QED
      BY <1>5, <2>1, <2>5, <3>1 DEF NameOk
  <2> QED
    BY <2>2, <2>3, <2>4, <2>5
<1>8. LinkedOk(g)
  <2> SUFFICES ASSUME NEW j \in Inode \ {Root}, g.entries[j].links = 1
               PROVE  /\ g.entries[j].parent \in Inode
                      /\ \E m \in Name : g.entries[g.entries[j].parent].files[m] = j
    BY DEF LinkedOk
  <2>1. CASE j = i
    BY <1>2, <1>3, <2>1
  <2>2. CASE j # i
    <3>1. PICK m \in Name : /\ f.entries[j].parent \in Inode
                            /\ f.entries[f.entries[j].parent].files[m] = j
      BY <1>5, <2>2 DEF LinkedOk, FsOk
    <3>2. f.entries[j].parent # i
      BY <1>1, <3>1 DEF NamesOk, NameOk, FsOk, Live
    <3>3. CASE f.entries[j].parent = p
      <4>1. m # n
        BY <3>1, <3>3 DEF Linked
      <4> QED
        BY <1>3, <1>5, <2>2, <3>1, <3>3, <4>1
    <3>4. CASE f.entries[j].parent # p
      BY <1>5, <1>10, <2>2, <3>1, <3>2, <3>4
    <3> QED
      BY <3>3, <3>4
  <2> QED
    BY <2>1, <2>2
<1>9. SlotsOk(g)
  <2>1. f.free \in Seq(Inode) /\ f.used \in Inode /\ SlotsOk(f)
    BY DEF Fs, FsOk
  <2>2. Live(g, i) /\ \A j \in Inode \ {i} : Live(g, j) <=> Live(f, j)
    BY <1>2, <1>5 DEF Live
  <2>3. CASE f.free = <<>>
    <3>1. g.free = <<>> /\ g.used = f.used + 1 /\ i = f.used + 1
      BY <2>3 DEF NextSlot, Linked
    <3>2. DOMAIN f.free = {} /\ DOMAIN g.free = {}
      BY <2>3, <3>1
    <3>3. ASSUME NEW j \in Inode PROVE Live(g, j) <=> j <= g.used
      <4>1. CASE j = i
        BY <2>1, <2>2, <3>1, <4>1
      <4>2. CASE j # i
        <5>1. Live(g, j) <=> j <= f.used
          BY <2>1, <2>2, <3>2, <4>2 DEF SlotsOk
        <5>2. j \in Int /\ f.used \in Int
          BY <2>1
        <5> QED
          BY <3>1, <4>2, <5>1, <5>2
      <4> QED
        BY <4>1, <4>2
    <3> QED
      BY <3>2, <3>3 DEF SlotsOk
  <2>4. CASE f.free # <<>>
    <3>1. /\ Len(f.free) \in Nat \ {0}
          /\ DOMAIN f.free = 1..Len(f.free)
          /\ DOMAIN g.free = 1..(Len(f.free) - 1)
          /\ \A a \in DOMAIN g.free : a \in DOMAIN f.free /\ g.free[a] = f.free[a]
          /\ g.used = f.used /\ i = f.free[Len(f.free)]
      BY <2>1, <2>4, SMTT(30) DEF NextSlot, Front, Last, Linked
    <3>2. \A a \in DOMAIN f.free : a \in DOMAIN g.free \/ a = Len(f.free)
      BY <3>1
    <3>3. ASSUME NEW a \in DOMAIN g.free PROVE g.free[a] # i
      <4>1. Len(f.free) \in DOMAIN f.free /\ a # Len(f.free) /\ a \in DOMAIN f.free
        BY <3>1
      <4> QED
        BY <2>1, <3>1, <4>1 DEF SlotsOk
    <3>4. i <= g.used
      BY <2>1, <3>1, SMTT(30) DEF SlotsOk
    <3>5. ASSUME NEW j \in Inode
          PROVE  Live(g, j) <=> j <= g.used /\ \A a \in DOMAIN g.free : g.free[a] # j
      <4>1. CASE j = i
        BY <2>2, <3>3, <3>4, <4>1
      <4>2. CASE j # i
        <5>1. (\A a \in DOMAIN g.free : g.free[a] # j)
                <=> (\A a \in DOMAIN f.free : f.free[a] # j)
          BY <3>1, <3>2, <4>2
        <5> QED
          BY <2>1, <2>2, <3>1, <4>2, <5>1 DEF SlotsOk
      <4> QED
        BY <4>1, <4>2
    <3> QED
      BY <2>1, <3>1, <3>5, ZenonT(40) DEF SlotsOk
  <2> QED
    BY <2>3, <2>4
<1> QED
  BY <1>6, <1>7, <1>8, <1>9, <1>11 DEF FsOk

LEMMA UnlinkedIsOk ==
    ASSUME NEW f, NEW g, NEW p \in Inode, NEW n \in Name, NEW i \in Inode,
           FsOk(f), Unlinked(f, g, p, n, i)
    PROVE  FsOk(g)
<1> USE InodeFacts
<1>9. g \in Fs /\ f \in Fs /\ NameOk(f, p, n) /\ f.entries[p].files[n] = i /\ i # 0
  BY SMTT(30) DEF Unlinked, FsOk, NamesOk
<1>1. /\ i # Root /\ f.entries[i].links = 1 /\ f.entries[i].parent = p
      /\ \A m \in Name : f.entries[p].files[m] = i => m = n
      /\ \A m \in Name : f.entries[i].files[m] = 0
      /\ i # p
  BY <1>9 DEF NameOk, NoFiles, Unlinked
<1>2. /\ g.entries[i].kind = f.entries[i].kind /\ g.entries[i].links = 0
      /\ \A m \in Name : g.entries[i].files[m] = 0
  <2>1. f.entries[i] \in Entry
    BY <1>9 DEF Fs
  <2> DEFINE e == [f.entries[i] EXCEPT !.links = 0]
  <2>2. e.kind = f.entries[i].kind /\ e.links = 0 /\ e.files = f.entries[i].files
    BY <2>1, SMTT(30) DEF Entry
  <2>3. SameEntry(g.entries[i], e)
    BY DEF Unlinked
  <2> HIDE DEF e
  <2> QED
    BY <1>1, <2>2, <2>3 DEF SameEntry
<1>3. /\ g.entries[p].files[n] = 0
      /\ \A m \in Name \ {n} : g.entries[p].files[m] = f.entries[p].files[m]
  BY <1>9 DEF Fs, Entry, Unlinked, SameEntry
<1>4. \A j \in Inode \ {i} :
         /\ g.entries[j].kind = f.entries[j].kind
         /\ g.entries[j].links = f.entries[j].links
         /\ g.entries[j].parent = f.entries[j].parent
  BY <1>9, SMTT(30) DEF Fs, Entry, Unlinked, SameEntry
<1>10. \A j \in Inode \ {i, p} : g.entries[j].files = f.entries[j].files
  BY DEF Unlinked, SameEntry
<1>5. RootStays(g) /\ LinksOk(g)
  BY <1>1, <1>2, <1>4 DEF RootStays, LinksOk, Live, FsOk
<1>6. NamesOk(g)
  <2> SUFFICES ASSUME NEW q \in Inode, NEW m \in Name PROVE NameOk(g, q, m)
    BY DEF NamesOk
  <2>1. NameOk(f, q, m) /\ f.entries[q].files[m] \in Inode \cup {0}
    BY <1>9, FileType DEF NamesOk, FsOk
  <2>2. CASE q = i
    BY <1>2, <2>2 DEF NameOk
  <2>3. CASE q = p /\ m = n
    BY <1>3, <2>3 DEF NameOk
  <2>4. CASE q = p /\ m # n
    <3>1. g.entries[p].files[m] = f.entries[p].files[m] /\ f.entries[p].files[m] # i
      BY <1>1, <1>3, <2>4
    <3> QED
      BY <1>1, <1>3, <1>4, <2>1, <2>4, <3>1 DEF NameOk
  <2>5. CASE q \notin {i, p}
    <3>1. g.entries[q].files = f.entries[q].files /\ f.entries[q].files[m] # i
      BY <1>1, <1>10, <2>1, <2>5 DEF NameOk
    <3> QED
      BY <1>4, <2>1, <2>5, <3>1 DEF NameOk
  <2> QED
    BY <2>2, <2>3, <2>4, <2>5
<1>7. LinkedOk(g)
  <2> SUFFICES ASSUME NEW j \in Inode \ {Root}, g.entries[j].links = 1
               PROVE  /\ g.entries[j].parent \in Inode
                      /\ \E m \in Name : g.entries[g.entries[j].parent].files[m] = j
    BY DEF LinkedOk
  <2>1. j # i
    BY <1>2
  <2>2. PICK m \in Name : /\ f.entries[j].parent \in Inode
                          /\ f.entries[f.entries[j].parent].files[m] = j
    BY <1>4, <2>1 DEF LinkedOk, FsOk
  <2>3. f.entries[j].parent # i
    BY <1>1, <2>2
  <2>4. CASE f.entries[j].parent = p
    <3>1. m # n
      BY <1>9, <2>1, <2>2, <2>4
    <3> QED
      BY <1>3, <1>4, <2>1, <2>2, <2>4, <3>1
  <2>5. CASE f.entries[j].parent # p
    BY <1>4, <1>10, <2>1, <2>2, <2>3, <2>5
  <2> QED
    BY <2>4, <2>5
<1>8. SlotsOk(g)
  <2>1. \A j \in Inode : Live(g, j) <=> Live(f, j)
    BY <1>2, <1>4 DEF Live
  <2>2. SlotsOk(f) /\ g.free = f.free /\ g.used = f.used
    BY DEF FsOk, Unlinked
  <2> QED
    BY <2>1, <2>2 DEF SlotsOk
<1> QED
  BY <1>5, <1>6, <1>7, <1>8, <1>9 DEF FsOk
-----------------------------------------------------------------------------
(* What the operations of fs.rs do, with the counts. *)
SameCount(f, g, j) == g.entries[j].lookups = f.entries[j].lookups

SameLinks(f, g, j) == g.entries[j].links = f.entries[j].links

LEMMA AcquireIs ==
    ASSUME NEW f \in Fs, NEW i \in Inode
    PROVE  /\ Kept(f, Acquire(f, i))
           /\ Acquire(f, i).entries[i].lookups = f.entries[i].lookups + 1
           /\ \A j \in Inode \ {i} : SameCount(f, Acquire(f, i), j)
<1> DEFINE e == [f.entries[i] EXCEPT !.lookups = @ + 1]
<1>1. f.entries[i] \in Entry
  BY DEF Fs
<1>2. /\ e \in Entry /\ SameEntry(e, f.entries[i])
      /\ e.lookups = f.entries[i].lookups + 1
  BY <1>1 DEF Entry, SameEntry
<1>3. Acquire(f, i) = [f EXCEPT !.entries = [f.entries EXCEPT ![i] = e]]
  BY DEF Acquire, Fs
<1> HIDE DEF e
<1>4. /\ Acquire(f, i) \in Fs /\ Acquire(f, i).free = f.free /\ Acquire(f, i).used = f.used
      /\ Acquire(f, i).entries[i] = e
      /\ \A j \in Inode \ {i} : Acquire(f, i).entries[j] = f.entries[j]
  BY <1>2, <1>3 DEF Fs
<1> QED
  BY <1>2, <1>4 DEF Kept, SameEntry, SameCount

LEMMA VacantType == Vacant \in Entry
BY DEF Vacant, Entry, NoFiles

LEMMA ForgetIs ==
    ASSUME NEW f \in Fs, NEW i \in Inode, NEW n \in Nat, Live(f, i)
    PROVE  LET g == forget_entry(f, i, n)
           IN  /\ \A j \in Inode \ {i} : SameCount(f, g, j)
               /\ \/ /\ Kept(f, g)
                     /\ g.entries[i].lookups = f.entries[i].lookups - n
                     /\ f.entries[i].lookups \notin {0, 1} \/ f.entries[i].links # 0
                  \/ Freed(f, g, i) /\ f.entries[i].lookups \in {0, 1}
<1> DEFINE e == [f.entries[i] EXCEPT !.lookups = @ - n]
           h == [f EXCEPT !.entries[i].lookups = @ - n]
<1>1. f.entries[i] \in Entry
  BY DEF Fs
<1>2. /\ e \in Entry /\ SameEntry(e, f.entries[i])
      /\ e.lookups = f.entries[i].lookups - n
  BY <1>1 DEF Entry, SameEntry
<1>3. h = [f EXCEPT !.entries = [f.entries EXCEPT ![i] = e]]
  BY DEF Fs
<1>4. forget_entry(f, i, n) =
        IF f.entries[i].lookups \notin {0, 1} \/ h.entries[i].links # 0
        THEN h ELSE Delete(h, i)
  BY DEF forget_entry
<1> HIDE DEF e, h
<1>5. /\ h \in Fs /\ h.free = f.free /\ h.used = f.used
      /\ h.entries[i] = e
      /\ \A j \in Inode \ {i} : h.entries[j] = f.entries[j]
  BY <1>2, <1>3 DEF Fs
<1>6. h.entries[i].links = f.entries[i].links
  BY <1>2, <1>5 DEF SameEntry
<1>7. CASE f.entries[i].lookups \notin {0, 1} \/ f.entries[i].links # 0
  <2>1. forget_entry(f, i, n) = h
    BY <1>4, <1>6, <1>7
  <2>2. Kept(f, h)
    BY <1>2, <1>5 DEF Kept, SameEntry
  <2> QED
    BY <1>2, <1>5, <1>7, <2>1, <2>2 DEF SameCount
<1>8. CASE f.entries[i].lookups \in {0, 1} /\ f.entries[i].links = 0
  <2>1. forget_entry(f, i, n) = Delete(h, i)
    BY <1>4, <1>6, <1>8
  <2> DEFINE d == Delete(h, i)
  <2>2. h.free \in Seq(Inode)
    BY <1>5 DEF Fs
  <2>3. /\ d \in Fs /\ d.free = Append(f.free, i) /\ d.used = f.used
        /\ d.entries[i] = Vacant
        /\ \A j \in Inode \ {i} : d.entries[j] = f.entries[j]
    <3>1. d = [h EXCEPT !.entries = [h.entries EXCEPT ![i] = Vacant],
                        !.free = Append(h.free, i)]
      BY <1>5 DEF Delete, Fs
    <3>2. [h.entries EXCEPT ![i] = Vacant] \in [Inode -> Entry]
      BY <1>5, VacantType DEF Fs
    <3>3. Append(h.free, i) \in Seq(Inode)
      BY <2>2
    <3> HIDE DEF d
    <3>4. d \in Fs
      BY <1>5, <3>1, <3>2, <3>3 DEF Fs
    <3> QED
      BY <1>5, <3>1, <3>4 DEF Fs
  <2> HIDE DEF d
  <2>4. Freed(f, d, i)
    BY <1>8, <2>3 DEF Freed, SameEntry
  <2> QED
    BY <1>8, <2>1, <2>3, <2>4 DEF SameCount, d
<1> QED
  BY <1>7, <1>8

(* A lookup that is taken and given back. *)
Passed(f, g, i) ==
    /\ \A j \in Inode \ {i} : SameCount(f, g, j)
    /\ \/ Kept(f, g) /\ SameCount(f, g, i)
       \/ Freed(f, g, i) /\ f.entries[i].lookups \in {-1, 0}

LEMMA TouchIs ==
    ASSUME NEW f \in Fs, NEW i \in Inode
    PROVE  Passed(f, Touch(f, i), i)
<1> DEFINE h == Acquire(f, i)
           g == forget_entry(h, i, 1)
<1>1. CASE ~Live(f, i)
  <2>1. Touch(f, i) = f
    BY <1>1 DEF Touch
  <2> QED
    BY <2>1 DEF Passed, Kept, SameEntry, SameCount
<1>2. CASE Live(f, i)
  <2>1. Touch(f, i) = g
    BY <1>2 DEF Touch
  <2>2. /\ Kept(f, h) /\ h.entries[i].lookups = f.entries[i].lookups + 1
        /\ \A j \in Inode \ {i} : SameCount(f, h, j)
    BY AcquireIs
  <2> HIDE DEF h
  <2>3. h \in Fs /\ Live(h, i) /\ h.entries[i].links = f.entries[i].links
    BY <1>2, <2>2 DEF Kept, SameEntry, Live
  <2>4. /\ \A j \in Inode \ {i} : SameCount(h, g, j)
        /\ \/ Kept(h, g) /\ g.entries[i].lookups = h.entries[i].lookups - 1
           \/ Freed(h, g, i) /\ h.entries[i].lookups \in {0, 1}
    BY <2>3, ForgetIs
  <2> HIDE DEF g
  <2>5. f.entries[i].lookups \in Int
    BY DEF Fs, Entry
  <2>6. CASE Kept(h, g) /\ g.entries[i].lookups = h.entries[i].lookups - 1
    <3>1. Kept(f, g)
      BY <2>2, <2>6 DEF Kept, SameEntry
    <3> QED
      BY <2>1, <2>2, <2>4, <2>5, <2>6, <3>1 DEF Passed, SameCount
  <2>7. CASE Freed(h, g, i) /\ h.entries[i].lookups \in {0, 1}
    <3>1. Freed(f, g, i)
      BY <1>2, <2>2, <2>7 DEF Kept, SameEntry, Freed
    <3> QED
      BY <2>1, <2>2, <2>4, <2>5, <2>7, <3>1 DEF Passed, SameCount
  <2> QED
    BY <2>4, <2>6, <2>7
<1> QED
  BY <1>1, <1>2

(***************************************************************************)
(* A handler that leaves every count as it was, deletes at most entries    *)
(* that had no lookups, and takes the name of none of those it leaves.     *)
(***************************************************************************)
NeutralAt(f, g, j) ==
    \/ /\ (Live(g, j) <=> Live(f, j)) /\ SameCount(f, g, j)
       /\ SameLinks(f, g, j) \/ f.entries[j].lookups \notin {-1, 0}
    \/ Live(f, j) /\ ~Live(g, j) /\ f.entries[j].lookups \in {-1, 0}

Neutral(f, g) == FsOk(g) /\ \A j \in Inode : NeutralAt(f, g, j)

LEMMA PassedNeutral ==
    ASSUME NEW f, NEW g, NEW i \in Inode, FsOk(f), Passed(f, g, i)
    PROVE  Neutral(f, g)
<1>1. CASE Kept(f, g) /\ SameCount(f, g, i)
  <2>1. FsOk(g)
    BY <1>1, KeptOk
  <2> QED
    BY <1>1, <2>1 DEF Passed, Neutral, NeutralAt, Kept, SameEntry, SameLinks, Live
<1>2. CASE Freed(f, g, i) /\ f.entries[i].lookups \in {-1, 0}
  <2>1. FsOk(g)
    BY <1>2, FreedOk
  <2>2. ~Live(g, i) /\ Live(f, i)
    BY <1>2 DEF Freed, Live, Vacant
  <2>3. \A j \in Inode \ {i} : (Live(g, j) <=> Live(f, j)) /\ SameLinks(f, g, j)
    BY <1>2 DEF Freed, Live, SameEntry, SameLinks
  <2> QED
    BY <1>2, <2>1, <2>2, <2>3 DEF Passed, Neutral, NeutralAt
<1> QED
  BY <1>1, <1>2 DEF Passed

LEMMA NeutralTwice ==
    ASSUME NEW f, NEW g, NEW h, Neutral(f, g), Neutral(g, h)
    PROVE  Neutral(f, h)
BY DEF Neutral, NeutralAt, SameCount, SameLinks

LEMMA TouchNeutral ==
    ASSUME NEW f, NEW i \in Inode, FsOk(f)
    PROVE  Neutral(f, Touch(f, i))
BY TouchIs, PassedNeutral DEF FsOk

(* An inode that has a name survives being looked up and let go of. *)
LEMMA TouchNamed ==
    ASSUME NEW f \in Fs, NEW i \in Inode, f.entries[i].links # 0
    PROVE  /\ Kept(f, Touch(f, i))
           /\ \A j \in Inode : SameCount(f, Touch(f, i), j)
<1>1. ~Freed(f, Touch(f, i), i)
  BY DEF Freed
<1> QED
  BY <1>1, TouchIs DEF Passed

(* Nothing happens to inode j but in its files. *)
SameApart(f, g, j) ==
    (Live(g, j) <=> Live(f, j)) /\ SameCount(f, g, j) /\ SameLinks(f, g, j)

LEMMA CreateIs ==
    ASSUME NEW f, NEW p \in Inode, NEW n \in Name, NEW kind \in {"file", "dir"},
           FsOk(f), Creatable(f, p, n), f.entries[p].links = 1,
           NextSlot(f) \in Inode
    PROVE  LET i == NextSlot(f)
               g == do_create(f, p, n, kind)
           IN  /\ FsOk(g) /\ Live(g, i)
               /\ g.entries[i].links = 1 /\ g.entries[i].lookups = 1
               /\ \A j \in Inode \ {i} : SameApart(f, g, j)
<1> DEFINE i == NextSlot(f)
           ne == NewEntry(kind, p, 1)
           pe == [f.entries[p] EXCEPT !.files = [@ EXCEPT ![n] = i]]
           es == [f.entries EXCEPT ![i] = ne, ![p] = pe]
           fr == IF f.free # <<>> THEN Front(f.free) ELSE f.free
           us == IF f.free # <<>> THEN f.used ELSE i
           c == [f EXCEPT !.free = fr, !.used = us, !.entries = es]
<1>1. f \in Fs /\ f.entries[p] \in Entry /\ f.free \in Seq(Inode)
  BY DEF FsOk, Fs
<1>2. ~Live(f, i) /\ i # p /\ i \in Inode
  BY NextSlotFree DEF Creatable, Live
<1>3. ne \in Entry /\ ne.kind = kind /\ ne.links = 1 /\ ne.lookups = 1
  BY DEF NewEntry, Entry, NoFiles
<1>4. /\ pe \in Entry /\ pe.kind = "dir" /\ pe.links = 1
      /\ pe.lookups = f.entries[p].lookups
  BY <1>1, <1>2 DEF Entry, Creatable
<1>5. [f EXCEPT !.free = IF @ # <<>> THEN Front(@) ELSE @,
                !.used = IF f.free # <<>> THEN @ ELSE i,
                !.entries = [@ EXCEPT ![i] = NewEntry(kind, p, 1),
                                      ![p].files[n] = i]] = c
  BY <1>1, <1>2 DEF Fs, Entry
<1>6. do_create(f, p, n, kind) = Touch(c, p)
  BY <1>5 DEF do_create
<1>7. fr \in Seq(Inode) /\ us \in Inode
  BY <1>1, <1>2 DEF Front, Fs
<1>8. es \in [Inode -> Entry] /\ es[i] = ne /\ es[p] = pe
      /\ \A j \in Inode \ {i, p} : es[j] = f.entries[j]
  BY <1>1, <1>2, <1>3, <1>4 DEF Fs
<1> HIDE DEF es
<1>9. /\ c \in Fs /\ c.free = fr /\ c.used = us /\ c.entries = es
  BY <1>1, <1>7, <1>8 DEF Fs
<1> HIDE DEF c
<1>10. Linked(f, c, p, n, i, kind)
  <2>1. SameEntry(c.entries[i], NewEntry(kind, p, 1)) /\ SameEntry(c.entries[p], pe)
        /\ \A j \in Inode \ {i, p} : SameEntry(c.entries[j], f.entries[j])
    BY <1>8, <1>9 DEF SameEntry
  <2> QED
    BY <1>9, <2>1 DEF Linked, Creatable
<1>11. FsOk(c)
  BY <1>2, <1>10, LinkedIsOk
<1> HIDE DEF i, ne, pe, fr, us
<1>12. c.entries[p].links # 0
  BY <1>4, <1>8, <1>9
<1>13. Kept(c, Touch(c, p)) /\ \A j \in Inode : SameCount(c, Touch(c, p), j)
  BY <1>9, <1>12, TouchNamed
<1>14. FsOk(Touch(c, p))
  BY <1>11, <1>13, KeptOk
<1>15. Live(c, i) /\ \A j \in Inode \ {i} : SameApart(f, c, j)
  <2>1. Live(c, p) /\ Live(f, p) /\ SameCount(f, c, p) /\ SameLinks(f, c, p)
    BY <1>4, <1>8, <1>9 DEF Live, SameCount, SameLinks, Creatable
  <2> QED
    BY <1>3, <1>8, <1>9, <2>1 DEF SameApart, Live, SameCount, SameLinks
<1>16. c.entries[i].links = 1 /\ c.entries[i].lookups = 1
  BY <1>3, <1>8, <1>9
<1> QED
  BY <1>2, <1>6, <1>13, <1>14, <1>15, <1>16
     DEF Kept, SameEntry, SameApart, SameCount, SameLinks, Live, i

LEMMA UnlinkNeutral ==
    ASSUME NEW f, NEW p \in Inode, NEW n \in Name, NEW is_rmdir,
           FsOk(f), Removable(f, p, n, is_rmdir)
    PROVE  Neutral(f, unlink(f, p, n))
<1> DEFINE i == Child(f, p, n)
           ie == [f.entries[i] EXCEPT !.links = f.entries[i].links - 1,
                                      !.lookups = f.entries[i].lookups + 1]
           pe == [f.entries[p] EXCEPT !.files = [@ EXCEPT ![n] = 0]]
           es == [f.entries EXCEPT ![p] = pe, ![i] = ie]
           c == [f EXCEPT !.entries = es]
           h == forget_entry(c, i, 1)
<1>1. f \in Fs /\ f.entries[p] \in Entry
  BY DEF FsOk, Fs
<1>2. i # 0 /\ i = f.entries[p].files[n]
  BY DEF Removable, Child
<1>3. i \in Inode /\ NameOk(f, p, n)
  BY <1>1, <1>2, FileType DEF FsOk, NamesOk
<1>4. f.entries[i] \in Entry /\ f.entries[i].links = 1 /\ f.entries[i].lookups \in Int
  BY <1>1, <1>2, <1>3 DEF Fs, Entry, NameOk
<1>5. f.entries[i].files = NoFiles
  <2>1. CASE f.entries[i].kind = "dir"
    BY <2>1 DEF Removable, Empty
  <2>2. CASE f.entries[i].kind # "dir"
    <3>1. \A m \in Name : f.entries[i].files[m] = 0
      BY <1>3, <2>2 DEF FsOk, NamesOk, NameOk
    <3>2. f.entries[i].files \in [Name -> Inode \cup {0}]
      BY <1>4 DEF Entry
    <3> QED
      BY <3>1, <3>2 DEF NoFiles
  <2> QED
    BY <2>1, <2>2
<1>6. i # p
  BY <1>2, <1>5 DEF NoFiles
<1>7. /\ ie \in Entry /\ SameEntry(ie, [f.entries[i] EXCEPT !.links = 0])
      /\ ie.kind = f.entries[i].kind /\ ie.links = 0
      /\ ie.lookups = f.entries[i].lookups + 1
  <2> HIDE DEF i
  <2>1. f.entries[i].links - 1 \in Int /\ f.entries[i].lookups + 1 \in Int
    BY <1>4
  <2>2. /\ ie \in Entry /\ ie.links = f.entries[i].links - 1
        /\ ie.lookups = f.entries[i].lookups + 1
        /\ ie.kind = f.entries[i].kind /\ ie.parent = f.entries[i].parent
        /\ ie.files = f.entries[i].files
    <3> DEFINE e == f.entries[i]
               l == f.entries[i].links - 1
               k == f.entries[i].lookups + 1
    <3>1. e \in Entry /\ l \in Int /\ k \in Int
      BY <1>4, <2>1
    <3>2. ie = [e EXCEPT !.links = l, !.lookups = k]
      OBVIOUS
    <3> HIDE DEF e, l, k, ie
    <3>3. /\ ie \in Entry /\ ie.links = l /\ ie.lookups = k
          /\ ie.kind = e.kind /\ ie.parent = e.parent /\ ie.files = e.files
      BY <3>1, <3>2 DEF Entry
    <3> QED
      BY <3>3 DEF e, l, k
  <2> HIDE DEF ie
  <2> QED
    BY <1>4, <2>2 DEF Entry, SameEntry
<1>8. /\ pe \in Entry /\ pe.lookups = f.entries[p].lookups
      /\ pe.kind = f.entries[p].kind /\ pe.links = f.entries[p].links
  BY <1>1 DEF Entry
<1>9. unlink(f, p, n) = Touch(h, p)
  <2> DEFINE p1 == [f.entries[p] EXCEPT !.files[n] = 0]
  <2>1. unlink(f, p, n) =
          Touch(forget_entry([f EXCEPT !.entries = [@ EXCEPT ![p] = p1, ![i] = ie]],
                             i, 1), p)
    BY DEF unlink
  <2>2. p1 = pe
    BY <1>1 DEF Entry
  <2>3. [f EXCEPT !.entries = [@ EXCEPT ![p] = p1, ![i] = ie]] = c
    <3> HIDE DEF p1, pe, ie, i
    <3> QED
      BY <1>1, <2>2 DEF Fs
  <2> QED
    BY <2>1, <2>3
<1> HIDE DEF i, ie, pe
<1>10. es \in [Inode -> Entry] /\ es[i] = ie /\ es[p] = pe
       /\ \A j \in Inode \ {i, p} : es[j] = f.entries[j]
  BY <1>1, <1>3, <1>6, <1>7, <1>8 DEF Fs
<1> HIDE DEF es
<1>11. c \in Fs /\ c.free = f.free /\ c.used = f.used /\ c.entries = es
  BY <1>1, <1>10, SMTT(30) DEF Fs
<1> HIDE DEF c
<1>12. Unlinked(f, c, p, n, i)
  <2>1. \A j \in Inode \ {i, p} : SameEntry(c.entries[j], f.entries[j])
    BY <1>10, <1>11 DEF SameEntry
  <2>2. SameEntry(c.entries[p], pe)
    BY <1>10, <1>11 DEF SameEntry
  <2> QED
    BY <1>2, <1>5, <1>7, <1>10, <1>11, <2>1, <2>2 DEF Unlinked, pe
<1>13. FsOk(c)
  BY <1>3, <1>12, UnlinkedIsOk
<1>14. /\ \A j \in Inode : Live(c, j) <=> Live(f, j)
       /\ \A j \in Inode \ {i} : SameCount(f, c, j) /\ SameLinks(f, c, j)
       /\ c.entries[i].lookups = f.entries[i].lookups + 1
       /\ c.entries[i].links = 0
  BY <1>7, <1>8, <1>10, <1>11 DEF Live, SameCount, SameLinks
<1>15. Live(f, i)
  BY <1>3, <1>4 DEF FsOk, LinksOk
<1>16. /\ \A j \in Inode \ {i} : SameCount(c, h, j)
       /\ \/ /\ Kept(c, h) /\ h.entries[i].lookups = c.entries[i].lookups - 1
             /\ c.entries[i].lookups \notin {0, 1}
          \/ Freed(c, h, i) /\ c.entries[i].lookups \in {0, 1}
  BY <1>3, <1>11, <1>14, <1>15, ForgetIs
<1> HIDE DEF h
<1>17. FsOk(h)
  BY <1>3, <1>13, <1>16, KeptOk, FreedOk
<1>18. \A j \in Inode \ {i} : NeutralAt(f, h, j)
  BY <1>14, <1>16 DEF NeutralAt, SameCount, SameLinks, Kept, Freed, SameEntry, Live
<1>19. NeutralAt(f, h, i)
  <2>1. CASE /\ Kept(c, h) /\ h.entries[i].lookups = c.entries[i].lookups - 1
             /\ c.entries[i].lookups \notin {0, 1}
    BY <1>3, <1>4, <1>14, <2>1 DEF NeutralAt, SameCount, Kept, SameEntry, Live
  <2>2. CASE Freed(c, h, i) /\ c.entries[i].lookups \in {0, 1}
    BY <1>4, <1>14, <1>15, <2>2 DEF NeutralAt, Freed, Vacant, Live
  <2> QED
    BY <1>16, <2>1, <2>2
<1>20. Neutral(f, h)
  BY <1>3, <1>17, <1>18, <1>19 DEF Neutral
<1> QED
  BY <1>9, <1>17, <1>20, TouchNeutral, NeutralTwice

(* The inodes a listing looks up all have names. *)
LEMMA ListingNeutral ==
    ASSUME NEW i \in Inode, NEW seen \in SUBSET Listed(i), FsOk(fs), ~Dead(i)
    PROVE  Neutral(fs, Touch(TouchEach(fs, seen), i))
<1>1. fs \in Fs /\ fs.free \in Seq(Inode)
  BY DEF FsOk, Fs
<1>2. ASSUME NEW j \in seen PROVE j \in Inode /\ fs.entries[j].links # 0
  <2>1. fs.entries[i].kind = "dir" /\ fs.entries[i].links = 1 /\ j # 0 /\ j # i
    BY <1>2 DEF Listed, Dead, FsOk, LinksOk
  <2>2. CASE \E n \in Name : j = fs.entries[i].files[n]
    <3>1. PICK n \in Name : j = fs.entries[i].files[n]
      BY <2>2
    <3>2. NameOk(fs, i, n) /\ j \in Inode
      BY <1>1, <2>1, <3>1, FileType DEF FsOk, NamesOk
    <3> QED
      BY <2>1, <3>1, <3>2 DEF NameOk
  <2>3. CASE j = fs.entries[i].parent
    <3>1. i # Root
      BY <2>1, <2>3 DEF FsOk, RootStays
    <3>2. PICK n \in Name : j \in Inode /\ fs.entries[j].files[n] = i
      BY <2>1, <2>3, <3>1 DEF FsOk, LinkedOk
    <3>3. NameOk(fs, j, n) /\ i # 0
      BY <3>2, InodeFacts DEF FsOk, NamesOk
    <3> QED
      BY <3>2, <3>3 DEF NameOk
  <2> QED
    BY <1>2, <2>2, <2>3 DEF Listed
<1> DEFINE gone == {j \in seen : Live(fs, j) /\ ~Live(Touch(fs, j), j)}
           g == TouchEach(fs, seen)
<1>3. gone = {}
  <2>1. ASSUME NEW j \in seen, Live(fs, j) PROVE Live(Touch(fs, j), j)
    BY <1>1, <1>2, <2>1, TouchNamed DEF Kept, SameEntry, Live
  <2> QED
    BY <2>1
<1>4. SetToSeq({}) = <<>>
  <2>1. Cardinality({}) = 0
    BY FS_EmptySet
  <2>2. <<>> \in [1..0 -> {}] /\ \A s \in [1..0 -> {}] : s = <<>>
    OBVIOUS
  <2>3. IsInjective(<<>>)
    BY DEF IsInjective
  <2>4. SetToSeq({}) \in [1..0 -> {}]
    BY <2>1, <2>2, <2>3 DEF SetToSeq
  <2> QED
    BY <2>2, <2>4
<1>5. fs.free \o <<>> = fs.free
  BY <1>1
<1>6. g = [fs EXCEPT !.entries = [j \in Inode |-> IF j \in gone THEN Vacant ELSE @[j]],
                     !.free = @ \o SetToSeq(gone)]
  BY DEF TouchEach
<1>7. g \in Fs /\ g.free = fs.free /\ g.used = fs.used
      /\ \A j \in Inode : g.entries[j] = fs.entries[j]
  BY <1>1, <1>3, <1>4, <1>5, <1>6 DEF Fs
<1> HIDE DEF g
<1>8. Kept(fs, g)
  BY <1>7 DEF Kept, SameEntry
<1>9. Neutral(fs, g)
  BY <1>7, <1>8, KeptOk DEF Neutral, NeutralAt, SameCount, SameLinks, Live
<1> QED
  BY <1>9, TouchNeutral, NeutralTwice DEF Neutral, g
-----------------------------------------------------------------------------
(***************************************************************************)
(* The handlers come down to five effects on the file system.              *)
(***************************************************************************)
Passes == Neutral(fs, fs')

(* The lookup of inode i that a reply takes to the kernel. *)
Looks(i) ==
    \E g : /\ FsOk(g) /\ Neutral(g, fs')
           /\ Live(fs, i) /\ g.entries[i].lookups = fs.entries[i].lookups + 1
           /\ \A j \in Inode : (Live(g, j) <=> Live(fs, j)) /\ SameLinks(fs, g, j)
           /\ \A j \in Inode \ {i} : SameCount(fs, g, j)

(* A new entry i with a count of k. *)
Makes(i, k) ==
    /\ FsOk(fs') /\ ~Live(fs, i)
    /\ Live(fs', i) /\ fs'.entries[i].lookups = k /\ fs'.entries[i].links = 1
    /\ \A j \in Inode \ {i} : SameApart(fs, fs', j)

(* n lookups of inode i are given back. *)
Forgets(i, n) ==
    /\ FsOk(fs')
    /\ \A j \in Inode \ {i} : SameApart(fs, fs', j)
    /\ \/ ~Live(fs, i) /\ UNCHANGED fs
       \/ /\ Live(fs, i) /\ Live(fs', i)
          /\ fs'.entries[i].lookups = fs.entries[i].lookups - n /\ SameLinks(fs, fs', i)
          /\ fs.entries[i].lookups \notin {0, 1} \/ fs.entries[i].links # 0
       \/ Live(fs, i) /\ ~Live(fs', i) /\ fs.entries[i].lookups \in {0, 1}

LEMMA SameFs ==
    ASSUME FsOk(fs)
    PROVE  Neutral(fs, fs)
BY DEF Neutral, NeutralAt, SameCount, SameLinks

LEMMA AcquireLooks ==
    ASSUME NEW i \in Inode, FsOk(fs), Live(fs, i), Neutral(Acquire(fs, i), fs')
    PROVE  Looks(i)
<1>1. fs \in Fs
  BY DEF FsOk
<1>2. FsOk(Acquire(fs, i))
  BY <1>1, AcquireIs, KeptOk
<1>3. \A j \in Inode : (Live(Acquire(fs, i), j) <=> Live(fs, j))
                         /\ SameLinks(fs, Acquire(fs, i), j)
  BY <1>1, AcquireIs DEF Kept, SameEntry, SameLinks, Live
<1> QED
  BY <1>1, <1>2, <1>3, AcquireIs DEF Looks

LEMMA ForgetForgets ==
    ASSUME NEW i \in Inode, NEW n \in Nat, FsOk(fs),
           fs' = IF Live(fs, i) THEN forget_entry(fs, i, n) ELSE fs
    PROVE  Forgets(i, n)
<1>1. fs \in Fs
  BY DEF FsOk
<1>2. CASE ~Live(fs, i)
  BY <1>2 DEF Forgets, SameApart, SameCount, SameLinks
<1>3. CASE Live(fs, i)
  <2>1. /\ \A j \in Inode \ {i} : SameCount(fs, fs', j)
        /\ \/ /\ Kept(fs, fs') /\ fs'.entries[i].lookups = fs.entries[i].lookups - n
              /\ fs.entries[i].lookups \notin {0, 1} \/ fs.entries[i].links # 0
           \/ Freed(fs, fs', i) /\ fs.entries[i].lookups \in {0, 1}
    BY <1>1, <1>3, ForgetIs
  <2>2. FsOk(fs')
    BY <2>1, KeptOk, FreedOk
  <2>3. CASE /\ Kept(fs, fs') /\ fs'.entries[i].lookups = fs.entries[i].lookups - n
             /\ fs.entries[i].lookups \notin {0, 1} \/ fs.entries[i].links # 0
    BY <1>3, <2>1, <2>2, <2>3 DEF Forgets, SameApart, SameLinks, Kept, SameEntry, Live
  <2>4. CASE Freed(fs, fs', i) /\ fs.entries[i].lookups \in {0, 1}
    <3>1. ~Live(fs', i) /\ \A j \in Inode \ {i} : SameApart(fs, fs', j)
      BY <2>1, <2>4 DEF Freed, Vacant, SameEntry, SameApart, SameLinks, Live
    <3> QED
      BY <1>3, <2>1, <2>2, <2>4, <3>1 DEF Forgets
  <2> QED
    BY <2>1, <2>3, <2>4
<1> QED
  BY <1>2, <1>3

LEMMA InodeEffects ==
    ASSUME FsOk(fs), NEW i \in Inode, NEW o \in {"ok", "gone"}
    PROVE  /\ Getattr(i, o) => Looks(i) \/ Passes
           /\ Setattr(i, o) \/ Read(i, o) \/ Write(i, o) \/ Readdir(i, o) => Passes
           /\ Open(i, o) \/ OpenFails(i, o) => Passes
           /\ Release(i, o) => Forgets(i, 1)
<1>1. ASSUME Getattr(i, o) PROVE Looks(i) \/ Passes
  <2>1. CASE Live(fs, i)
    <3>1. fs' = Acquire(fs, i)
      BY <1>1, <2>1 DEF Getattr
    <3>2. FsOk(Acquire(fs, i))
      BY AcquireIs, KeptOk DEF FsOk
    <3>3. Neutral(Acquire(fs, i), Acquire(fs, i))
      BY <3>2 DEF Neutral, NeutralAt, SameCount, SameLinks
    <3> QED
      BY <2>1, <3>1, <3>3, AcquireLooks
  <2>2. CASE ~Live(fs, i)
    BY <1>1, <2>2, SameFs DEF Getattr, Passes
  <2> QED
    BY <2>1, <2>2
<1>2. ASSUME Setattr(i, o) \/ Read(i, o) \/ Write(i, o) PROVE Passes
  BY <1>2, TouchNeutral DEF Setattr, Read, Write, Passing, Passes
<1>3. ASSUME Readdir(i, o) PROVE Passes
  BY <1>3, ListingNeutral DEF Readdir, Passes
<1>4. ASSUME Open(i, o) \/ OpenFails(i, o) PROVE Passes
  BY <1>4, TouchNeutral, SameFs DEF Open, OpenFails, Passes
<1>5. ASSUME Release(i, o) PROVE Forgets(i, 1)
  BY <1>5, ForgetForgets DEF Release
<1> QED
  BY <1>1, <1>2, <1>3, <1>4, <1>5

LEMMA ChildType ==
    ASSUME FsOk(fs), NEW p \in Inode, NEW n \in Name
    PROVE  Child(fs, p, n) \in Inode \cup {0}
BY FileType DEF FsOk, Child

LEMMA CreateEffects ==
    ASSUME FsOk(fs), NEW p \in Inode, NEW n \in Name, NEW o \in {"ok", "gone"}
    PROVE  /\ Mkdir(p, n, o) \/ Mknod(p, n, o) => Makes(NextSlot(fs), 1)
           /\ Create(p, n, o) => Makes(NextSlot(fs), IF o = "ok" THEN 1 ELSE 0)
<1> DEFINE i == NextSlot(fs)
<1>1. ASSUME NEW op, Creates(op, p, n, o), NEW kind \in {"file", "dir"}
      PROVE  LET g == do_create(fs, p, n, kind)
             IN  /\ i \in Inode /\ ~Live(fs, i)
                 /\ FsOk(g) /\ Live(g, i)
                 /\ g.entries[i].links = 1 /\ g.entries[i].lookups = 1
                 /\ \A j \in Inode \ {i} : SameApart(fs, g, j)
  <2>1. i \in Inode /\ Creatable(fs, p, n) /\ fs.entries[p].links = 1
    BY <1>1 DEF Creates, Creatable, Dead, FsOk, LinksOk
  <2> QED
    BY <2>1, CreateIs, NextSlotFree
<1>2. ASSUME Mkdir(p, n, o) \/ Mknod(p, n, o) PROVE Makes(i, 1)
  <2>1. CASE Mkdir(p, n, o)
    <3>1. Creates("Mkdir", p, n, o) /\ fs' = do_create(fs, p, n, "dir")
      BY <2>1 DEF Mkdir
    <3> QED
      BY <1>1, <3>1 DEF Makes
  <2>2. CASE Mknod(p, n, o)
    <3>1. Creates("Mknod", p, n, o) /\ fs' = do_create(fs, p, n, "file")
      BY <2>2 DEF Mknod
    <3> QED
      BY <1>1, <3>1 DEF Makes
  <2> QED
    BY <1>2, <2>1, <2>2
<1>3. ASSUME Create(p, n, o) PROVE Makes(i, IF o = "ok" THEN 1 ELSE 0)
  <2> DEFINE f == do_create(fs, p, n, "file")
             g == IF o = "ok" THEN Acquire(f, i) ELSE f
             k == IF o = "ok" THEN 2 ELSE 1
  <2>1. /\ i \in Inode /\ ~Live(fs, i)
        /\ FsOk(f) /\ Live(f, i)
        /\ f.entries[i].links = 1 /\ f.entries[i].lookups = 1
        /\ \A j \in Inode \ {i} : SameApart(fs, f, j)
    BY <1>1, <1>3 DEF Create
  <2>2. fs' = forget_entry(g, i, 1)
    BY <1>3 DEF Create
  <2> HIDE DEF f, i
  <2>3. Kept(f, g) /\ g.entries[i].lookups = k
        /\ \A j \in Inode \ {i} : SameCount(f, g, j)
    <3>1. f \in Fs
      BY <2>1 DEF FsOk
    <3>2. CASE o = "ok"
      BY <2>1, <3>1, <3>2, AcquireIs
    <3>3. CASE o # "ok"
      BY <2>1, <3>1, <3>3 DEF Kept, SameEntry, SameCount
    <3> QED
      BY <3>2, <3>3
  <2> HIDE DEF g
  <2>4. g \in Fs /\ FsOk(g) /\ Live(g, i) /\ g.entries[i].links = 1
    BY <2>1, <2>3, KeptOk DEF Kept, SameEntry, Live
  <2>5. Kept(g, fs') /\ fs'.entries[i].lookups = k - 1
        /\ \A j \in Inode \ {i} : SameCount(g, fs', j)
    BY <2>1, <2>2, <2>3, <2>4, ForgetIs DEF Freed
  <2>6. FsOk(fs')
    BY <2>4, <2>5, KeptOk
  <2> QED
    BY <2>1, <2>3, <2>4, <2>5, <2>6
       DEF Makes, Kept, SameEntry, SameApart, SameCount, SameLinks, Live
<1> QED
  BY <1>2, <1>3

LEMMA NameEffects ==
    ASSUME FsOk(fs), NEW p \in Inode, NEW n \in Name, NEW o \in {"ok", "gone"}
    PROVE  /\ LookupFound(p, n, o) => Child(fs, p, n) \in Inode /\ Looks(Child(fs, p, n))
           /\ LookupFails(p, n, o) => Passes
           /\ \A kind : CreateFails(kind, p, n, o) => Passes
           /\ Unlink(p, n, o) \/ Rmdir(p, n, o) => Passes
<1>1. ASSUME LookupFound(p, n, o)
      PROVE  Child(fs, p, n) \in Inode /\ Looks(Child(fs, p, n))
  <2> DEFINE i == Child(fs, p, n)
  <2>1. i \in Inode /\ Live(fs, i) /\ fs' = Touch(Acquire(fs, i), p)
    BY <1>1, ChildType DEF LookupFound
  <2> HIDE DEF i
  <2>2. FsOk(Acquire(fs, i))
    BY <2>1, AcquireIs, KeptOk DEF FsOk
  <2>3. Neutral(Acquire(fs, i), fs')
    BY <2>1, <2>2, TouchNeutral
  <2> QED
    BY <2>1, <2>3, AcquireLooks DEF i
<1>2. ASSUME LookupFails(p, n, o) PROVE Passes
  BY <1>2, TouchNeutral DEF LookupFails, Passes
<1>3. ASSUME NEW kind, CreateFails(kind, p, n, o) PROVE Passes
  BY <1>3, TouchNeutral DEF CreateFails, Passes
<1>4. ASSUME NEW kind, Unlinks(kind, p, n, o) PROVE Passes
  <2>1. CASE Removable(fs, p, n, kind = "Rmdir")
    BY <1>4, <2>1, UnlinkNeutral DEF Unlinks, Passes
  <2>2. CASE ~Removable(fs, p, n, kind = "Rmdir")
    <3> DEFINE i == Child(fs, p, n)
               g == IF i = 0 THEN fs ELSE Touch(fs, i)
    <3>1. fs' = Touch(g, p)
      BY <1>4, <2>2 DEF Unlinks
    <3>2. Neutral(fs, g)
      BY ChildType, TouchNeutral, SameFs
    <3> HIDE DEF g
    <3>3. Neutral(g, fs')
      BY <3>1, <3>2, TouchNeutral DEF Neutral
    <3> QED
      BY <3>2, <3>3, NeutralTwice DEF Passes
  <2> QED
    BY <2>1, <2>2
<1> QED
  BY <1>1, <1>2, <1>3, <1>4 DEF Unlink, Rmdir

(* FORGET and what the kernel does by itself. *)
LEMMA ForgetEffects ==
    ASSUME TypeOK, FsOk(fs), Forget
    PROVE  /\ Head(forgets)[1] \in Inode /\ Head(forgets)[2] \in Nat
           /\ Forgets(Head(forgets)[1], Head(forgets)[2])
<1>1. Head(forgets) \in Inode \X Nat
  BY DEF TypeOK, Forget
<1> QED
  BY <1>1, ForgetForgets DEF Forget

LEMMA EffectOk ==
    ASSUME \/ Passes
           \/ \E i \in Inode : Looks(i)
           \/ \E i, k : Makes(i, k)
           \/ \E i, n : Forgets(i, n)
    PROVE  FsOk(fs')
BY DEF Passes, Looks, Makes, Forgets, Neutral

LEMMA InitFsOk ==
    ASSUME Init
    PROVE  FsOk(fs)
<1>1. fs = new
  BY DEF Init
<1>2. Root \in Inode /\ 0 \notin Inode /\ Inode \subseteq Int /\ Root = 1
  BY MaxInodesAssumption DEF Root, Inode
<1>3. NoFiles \in [Name -> Inode \cup {0}]
  BY DEF NoFiles
<1>4. NewEntry("dir", Root, 1) \in Entry /\ Vacant \in Entry
  BY <1>2, <1>3 DEF NewEntry, Vacant, Entry
<1>5. fs \in Fs /\ fs.free = <<>> /\ fs.used = 1
  BY <1>1, <1>2, <1>4 DEF new, Fs
<1>6. /\ fs.entries[Root] = NewEntry("dir", Root, 1)
      /\ \A i \in Inode \ {Root} : fs.entries[i] = Vacant
  BY <1>1, <1>2 DEF new
<1>7. /\ fs.entries[Root].kind = "dir" /\ fs.entries[Root].links = 1
      /\ fs.entries[Root].parent = Root
      /\ \A i \in Inode \ {Root} : fs.entries[i].kind = "free" /\ fs.entries[i].links = 0
  BY <1>6 DEF NewEntry, Vacant
<1>8. \A i \in Inode, n \in Name : fs.entries[i].files[n] = 0
  BY <1>6 DEF NewEntry, Vacant, NoFiles
<1>9. RootStays(fs) /\ LinksOk(fs) /\ LinkedOk(fs)
  BY <1>2, <1>7 DEF RootStays, LinksOk, LinkedOk, Live
<1>10. NamesOk(fs)
  BY <1>8 DEF NamesOk, NameOk
<1>11. SlotsOk(fs)
  <2>1. \A i \in Inode : Live(fs, i) <=> i <= fs.used
    BY <1>2, <1>5, <1>7 DEF Live, Inode, Root
  <2>2. DOMAIN fs.free = {}
    BY <1>5
  <2> QED
    BY <2>1, <2>2 DEF SlotsOk
<1> QED
  BY <1>5, <1>9, <1>10, <1>11 DEF FsOk

LEMMA StepFsOk ==
    ASSUME TypeOK, FsOk(fs), [Next]_vars
    PROVE  FsOk(fs')
<1>1. CASE OnInode
  <2>1. PICK i \in Inode, o \in {"ok", "gone"} :
          \/ Getattr(i, o) \/ Setattr(i, o) \/ Read(i, o) \/ Write(i, o)
          \/ Readdir(i, o) \/ Open(i, o) \/ OpenFails(i, o) \/ Release(i, o)
    BY <1>1 DEF OnInode
  <2>2. Passes \/ Looks(i) \/ Forgets(i, 1)
    BY <2>1, InodeEffects
  <2> QED
    BY <2>2, EffectOk
<1>2. CASE OnName
  <2>1. PICK p \in Inode, n \in Name, o \in {"ok", "gone"} :
          \/ LookupFound(p, n, o) \/ LookupFails(p, n, o)
          \/ Mkdir(p, n, o) \/ Mknod(p, n, o) \/ Create(p, n, o)
          \/ \E kind \in {"Mkdir", "Mknod", "Create"} : CreateFails(kind, p, n, o)
          \/ Unlink(p, n, o) \/ Rmdir(p, n, o)
    BY <1>2 DEF OnName
  <2>2. CASE LookupFound(p, n, o)
    BY <2>2, NameEffects, EffectOk
  <2>3. CASE Mkdir(p, n, o) \/ Mknod(p, n, o) \/ Create(p, n, o)
    BY <2>3, CreateEffects, EffectOk
  <2>4. CASE ~(\/ LookupFound(p, n, o) \/ Mkdir(p, n, o) \/ Mknod(p, n, o)
               \/ Create(p, n, o))
    BY <2>1, <2>4, NameEffects, EffectOk
  <2> QED
    BY <2>2, <2>3, <2>4
<1>3. CASE Forget
  BY <1>3, ForgetEffects, EffectOk
<1>4. CASE \E i \in Inode, n \in 1..MaxBatch : KernelForget(i, n)
  BY <1>4 DEF KernelForget
<1>5. CASE UNCHANGED vars
  BY <1>5 DEF vars
<1> QED
  BY <1>1, <1>2, <1>3, <1>4, <1>5 DEF Next

(***************************************************************************)
(* The FORGETs under way as a set of single lookups <<place, number>>, so  *)
(* that what they add up to is a cardinality.                              *)
(***************************************************************************)
Single(q, i) ==
    {kx \in (1..Len(q)) \X (1..MaxBatch) : q[kx[1]][1] = i /\ kx[2] <= q[kx[1]][2]}

LEMMA SingleFinite ==
    ASSUME NEW q \in Seq(Inode \X Nat), NEW i
    PROVE  IsFiniteSet(Single(q, i)) /\ Cardinality(Single(q, i)) \in Nat
<1>1. MaxBatch \in Nat /\ Len(q) \in Nat
  BY BoundsAssumption
<1>2. IsFiniteSet((1..Len(q)) \X (1..MaxBatch))
  <2>1. IsFiniteSet(1..Len(q)) /\ IsFiniteSet(1..MaxBatch)
    BY <1>1, FS_Interval
  <2> QED
    BY <2>1, FS_Product
<1>3. Single(q, i) \in SUBSET ((1..Len(q)) \X (1..MaxBatch))
  BY DEF Single
<1>4. IsFiniteSet(Single(q, i))
  BY <1>2, <1>3, FS_Subset
<1> QED
  BY <1>4, FS_CardinalityType

LEMMA PendingIs ==
    ASSUME NEW i
    PROVE  /\ PendingForgets(i) = Cardinality(Single(forgets, i))
           /\ PendingForgets(i)' = Cardinality(Single(forgets', i))
BY DEF PendingForgets, Single

LEMMA CountTypes ==
    ASSUME TypeOK, NEW i \in Inode
    PROVE  /\ nlookup[i] \in Nat /\ handles[i] \in Nat /\ PendingForgets(i) \in Nat
           /\ KernelCount(i) \in Nat
           /\ KernelCount(i) >= nlookup[i] + PendingForgets(i)
           /\ i # Root => KernelCount(i) = nlookup[i] + PendingForgets(i)
<1>1. nlookup[i] \in Nat /\ handles[i] \in Nat
  BY DEF TypeOK
<1>2. PendingForgets(i) \in Nat
  BY SingleFinite, PendingIs DEF TypeOK
<1> QED
  BY <1>1, <1>2 DEF KernelCount

(* The kernel's side keeps its type. *)
LEMMA KernelTypes ==
    ASSUME TypeOK, FsOk(fs), [Next]_vars
    PROVE  /\ alive' \in BOOLEAN
           /\ nlookup' \in [Inode -> Nat]
           /\ handles' \in [Inode -> Nat]
           /\ forgets' \in Seq(Inode \X Nat)
           /\ drift' \in [Inode -> Int]
<1>1. /\ alive \in BOOLEAN /\ nlookup \in [Inode -> Nat]
      /\ handles \in [Inode -> Nat] /\ forgets \in Seq(Inode \X Nat)
      /\ drift \in [Inode -> Int]
  BY DEF TypeOK
<1>10. ASSUME NEW i \in Inode, NEW n \in Int, Miscount(i, n)
       PROVE  drift' \in [Inode -> Int]
  BY <1>1, <1>10 DEF Miscount
<1>11. ASSUME NEW i \in Inode, CountAnew(i)
       PROVE  drift' \in [Inode -> Int]
  <2>1. KernelCount(i) \in Nat
    BY CountTypes
  <2> QED
    BY <1>1, <1>11, <2>1 DEF CountAnew
<1>2. ASSUME NEW i \in Inode, NEW o, KernelLearns(i, o)
      PROVE  nlookup' \in [Inode -> Nat]
  BY <1>1, <1>2 DEF KernelLearns
<1>3. ASSUME NEW i \in Inode, NEW o, KernelOpens(i, o)
      PROVE  handles' \in [Inode -> Nat]
  BY <1>1, <1>3 DEF KernelOpens
<1>4. ASSUME NEW o, ReplyOrEnd(o) \/ ReplyOrGoOn
      PROVE  alive' \in BOOLEAN
  BY <1>4 DEF ReplyOrEnd, ReplyOrGoOn
<1>5. CASE OnInode
  <2>1. PICK i \in Inode, o \in {"ok", "gone"} :
          \/ Getattr(i, o) \/ Setattr(i, o) \/ Read(i, o) \/ Write(i, o)
          \/ Readdir(i, o) \/ Open(i, o) \/ OpenFails(i, o) \/ Release(i, o)
    BY <1>5 DEF OnInode
  <2>2. CASE Setattr(i, o) \/ Read(i, o) \/ Write(i, o)
             \/ Readdir(i, o) \/ OpenFails(i, o)
    BY <1>1, <1>4, <2>2
       DEF Setattr, Read, Write, Passing, Readdir, OpenFails, kernel, counts
  <2>5. CASE Getattr(i, o)
    BY <1>1, <1>4, <1>10, <2>5 DEF Getattr, kernel
  <2>3. CASE Open(i, o)
    BY <1>1, <1>3, <1>4, <2>3 DEF Open
  <2>4. CASE Release(i, o)
    <3>1. handles' = [handles EXCEPT ![i] = handles[i] - 1] /\ handles[i] > 0
      BY <2>4 DEF Release
    <3> QED
      BY <1>1, <1>4, <1>10, <2>4, <3>1 DEF Release
  <2> QED
    BY <2>1, <2>2, <2>3, <2>4, <2>5
<1>6. CASE OnName
  <2>1. PICK p \in Inode, n \in Name, o \in {"ok", "gone"} :
          \/ LookupFound(p, n, o) \/ LookupFails(p, n, o)
          \/ Mkdir(p, n, o) \/ Mknod(p, n, o) \/ Create(p, n, o)
          \/ \E kind \in {"Mkdir", "Mknod", "Create"} : CreateFails(kind, p, n, o)
          \/ Unlink(p, n, o) \/ Rmdir(p, n, o)
    BY <1>6 DEF OnName
  <2>2. CASE LookupFound(p, n, o)
    <3>1. Child(fs, p, n) \in Inode
      BY <2>2, NameEffects
    <3>2. KernelLearns(Child(fs, p, n), o) /\ ReplyOrGoOn /\ UNCHANGED <<handles, forgets>>
          /\ Miscount(Child(fs, p, n), IF o = "ok" THEN 0 ELSE 1)
      BY <2>2 DEF LookupFound
    <3> QED
      BY <1>1, <1>2, <1>4, <1>10, <3>1, <3>2
  <2>3. CASE Mkdir(p, n, o) \/ Mknod(p, n, o)
    BY <1>1, <1>2, <1>4, <1>11, <2>3 DEF Mkdir, Mknod, Creates
  <2>4. CASE Create(p, n, o)
    BY <1>1, <1>2, <1>3, <1>4, <1>11, <2>4 DEF Create, Creates
  <2>5. CASE ~(\/ LookupFound(p, n, o) \/ Mkdir(p, n, o) \/ Mknod(p, n, o)
               \/ Create(p, n, o))
    BY <1>1, <1>4, <2>1, <2>5
       DEF LookupFails, CreateFails, Unlink, Rmdir, Unlinks, kernel, counts
  <2> QED
    BY <2>2, <2>3, <2>4, <2>5
<1>7. CASE Forget
  BY <1>1, <1>7 DEF Forget
<1>8. CASE \E i \in Inode, n \in 1..MaxBatch : KernelForget(i, n)
  <2>1. PICK i \in Inode, n \in 1..MaxBatch : KernelForget(i, n)
    BY <1>8
  <2>2. MaxBatch \in Nat
    BY BoundsAssumption
  <2>3. n \in Nat /\ n <= nlookup[i] /\ nlookup' = [nlookup EXCEPT ![i] = nlookup[i] - n]
        /\ forgets' = Append(forgets, <<i, n>>)
    BY <2>1, <2>2 DEF KernelForget
  <2>4. nlookup' \in [Inode -> Nat]
    BY <1>1, <2>3
  <2>5. <<i, n>> \in Inode \X Nat
    BY <2>3
  <2>6. forgets' \in Seq(Inode \X Nat)
    BY <1>1, <2>3, <2>5
  <2> QED
    BY <1>1, <2>1, <2>4, <2>6 DEF KernelForget
<1>9. CASE UNCHANGED vars
  BY <1>1, <1>9 DEF vars, counts, kernel
<1> QED
  BY <1>5, <1>6, <1>7, <1>8, <1>9 DEF Next

(* Every handler and the kernel's own steps keep the names, the slots and  *)
(* the types, for any traffic.                                             *)
THEOREM FsInvariant == Spec => [](TypeOK /\ FsOk(fs))
<1>1. Init => TypeOK /\ FsOk(fs)
  <2> SUFFICES ASSUME Init PROVE TypeOK /\ FsOk(fs)
    OBVIOUS
  <2>1. FsOk(fs)
    BY InitFsOk
  <2>2. <<>> \in Seq(Inode \X Nat)
    OBVIOUS
  <2> QED
    BY <2>1, <2>2 DEF Init, TypeOK, FsOk
<1>2. TypeOK /\ FsOk(fs) /\ [Next]_vars => (TypeOK /\ FsOk(fs))'
  <2> SUFFICES ASSUME TypeOK, FsOk(fs), [Next]_vars PROVE (TypeOK /\ FsOk(fs))'
    OBVIOUS
  <2>1. FsOk(fs)'
    BY StepFsOk
  <2>2. fs' \in Fs
    BY <2>1 DEF FsOk
  <2> QED
    BY <2>1, <2>2, KernelTypes DEF TypeOK
<1> QED
  BY <1>1, <1>2, PTL DEF Spec

(***************************************************************************)
(* The names of an inode, counted: none without a link, one with a link.   *)
(***************************************************************************)
LEMMA NamesCounted ==
    ASSUME FsOk(fs), NEW i \in Inode
    PROVE  /\ \A pn \in Names(i) : Live(fs, i) /\ fs.entries[i].parent = pn[1]
           /\ i # Root => Cardinality(Names(i)) = fs.entries[i].links
<1>1. \A p \in Inode, n \in Name : NameOk(fs, p, n)
  BY DEF FsOk, NamesOk
<1>2. i # 0 /\ fs.entries[i].links \in {0, 1}
  BY InodeFacts DEF FsOk, LinksOk
<1>3. ASSUME NEW pn \in Names(i)
      PROVE  /\ pn \in Inode \X Name /\ fs.entries[pn[1]].files[pn[2]] = i
             /\ fs.entries[i].links = 1 /\ fs.entries[i].parent = pn[1]
             /\ \A m \in Name : fs.entries[pn[1]].files[m] = i => m = pn[2]
  <2>1. pn \in Inode \X Name /\ fs.entries[pn[1]].files[pn[2]] = i
    BY DEF Names
  <2>2. NameOk(fs, pn[1], pn[2])
    BY <1>1, <2>1
  <2> QED
    BY <1>2, <2>1, <2>2 DEF NameOk
<1>4. \A pn \in Names(i) : Live(fs, i) /\ fs.entries[i].parent = pn[1]
  BY <1>3 DEF FsOk, LinksOk
<1>5. CASE fs.entries[i].links = 0
  <2>1. Names(i) = {}
    BY <1>3, <1>5
  <2> QED
    BY <1>4, <1>5, <2>1, FS_EmptySet
<1>6. CASE i # Root /\ fs.entries[i].links = 1
  <2> DEFINE p == fs.entries[i].parent
  <2>1. PICK n \in Name : p \in Inode /\ fs.entries[p].files[n] = i
    BY <1>6 DEF FsOk, LinkedOk
  <2> HIDE DEF p
  <2>2. <<p, n>> \in Names(i)
    BY <2>1 DEF Names
  <2>3. ASSUME NEW pn \in Names(i) PROVE pn = <<p, n>>
    <3>1. pn \in Inode \X Name /\ pn[1] = p /\ n = pn[2]
      BY <1>3, <2>1 DEF p
    <3> QED
      BY <3>1
  <2>4. Names(i) = {<<p, n>>}
    BY <2>2, <2>3
  <2>5. Cardinality(Names(i)) = 1
    BY <2>4, FS_Singleton
  <2> QED
    BY <1>4, <1>6, <2>5
<1> QED
  BY <1>2, <1>4, <1>5, <1>6

(***************************************************************************)
(* The names of the file system hold together for any traffic: an inode    *)
(* has exactly as many names as its link count says, each in its parent,   *)
(* a name refers to an entry that is there (do_create, unlink and          *)
(* forget_entry change these in separate steps), and Dir::on_drop never    *)
(* finds a child in a directory that was removed.                          *)
(***************************************************************************)
THEOREM NamesHoldTogether == Spec => []FsConsistent
<1>1. TypeOK /\ FsOk(fs) => FsConsistent
  <2> SUFFICES ASSUME TypeOK, FsOk(fs) PROVE FsConsistent
    OBVIOUS
  <2>1. NamesMatchLinks
    BY NamesCounted DEF NamesMatchLinks
  <2>2. ASSUME NEW i \in Inode, Dead(i) PROVE Empty(fs, i)
    <3>1. \A n \in Name : fs.entries[i].files[n] = 0
      BY <2>2 DEF Dead, FsOk, NamesOk, NameOk
    <3>2. fs.entries[i].files \in [Name -> Inode \cup {0}]
      BY DEF FsOk, Fs, Entry
    <3> QED
      BY <3>1, <3>2 DEF Empty, NoFiles
  <2> QED
    BY <2>1, <2>2 DEF FsConsistent, RemovedDirsAreEmpty
<1> QED
  BY <1>1, FsInvariant, PTL

(***************************************************************************)
(* No slot is lost and none is handed out twice: free_inodes holds exactly *)
(* the slots without an entry, each once, whatever Release and FORGET do   *)
(* to the lookup counts.                                                   *)
(***************************************************************************)
THEOREM SlotsNeverLost == Spec => []SlotsAccounted
<1>1. FsOk(fs) => SlotsAccounted
  BY DEF FsOk, SlotsOk, SlotsAccounted
<1> QED
  BY <1>1, FsInvariant, PTL

-----------------------------------------------------------------------------
(* One more FORGET of n lookups at a place of its own. *)
LEMMA OneMore ==
    ASSUME NEW S, IsFiniteSet(S), NEW k, NEW n \in Nat,
           \A kx \in S : kx[1] # k
    PROVE  Cardinality(S \cup ({k} \X (1..n))) = Cardinality(S) + n
<1> DEFINE T == {k} \X (1..n)
<1>1. IsFiniteSet({k}) /\ Cardinality({k}) = 1
  BY FS_Singleton
<1>2. IsFiniteSet(1..n) /\ Cardinality(1..n) = n
  <2>1. IsFiniteSet(1..n) /\ Cardinality(1..n) = IF 1 > n THEN 0 ELSE n - 1 + 1
    BY FS_Interval
  <2> QED
    BY <2>1
<1>3. IsFiniteSet(T) /\ Cardinality(T) = Cardinality({k}) * Cardinality(1..n)
  BY <1>1, <1>2, FS_Product
<1>4. Cardinality(T) = n
  BY <1>1, <1>2, <1>3
<1>5. S \cap T = {}
  <2> SUFFICES ASSUME NEW kx \in S, kx \in {k} \X (1..n) PROVE FALSE
    OBVIOUS
  <2>1. kx[1] = k
    OBVIOUS
  <2> QED
    BY <2>1
<1>6. Cardinality(S \cap T) = 0
  BY <1>5, FS_EmptySet
<1>7. Cardinality(S) \in Nat
  BY FS_CardinalityType
<1> HIDE DEF T
<1>8. Cardinality(S \cup T) = Cardinality(S) + Cardinality(T) - Cardinality(S \cap T)
  BY <1>3, FS_Union
<1>9. Cardinality(S \cup T) = Cardinality(S) + n
  BY <1>4, <1>6, <1>7, <1>8
<1> QED
  BY <1>9 DEF T

LEMMA AppendCounts ==
    ASSUME NEW q \in Seq(Inode \X Nat), NEW i \in Inode, NEW n \in 1..MaxBatch,
           NEW j \in Inode
    PROVE  LET r == Append(q, <<i, n>>)
           IN  /\ i = j => Cardinality(Single(r, j)) = Cardinality(Single(q, j)) + n
               /\ i # j => Cardinality(Single(r, j)) = Cardinality(Single(q, j))
<1> DEFINE r == Append(q, <<i, n>>)
           k == Len(q) + 1
<1>1. MaxBatch \in Nat /\ n \in Nat /\ n <= MaxBatch /\ Len(q) \in Nat
  BY BoundsAssumption
<1>2. <<i, n>> \in Inode \X Nat
  BY <1>1
<1>3. Len(r) = k /\ r[k] = <<i, n>> /\ \A a \in 1..Len(q) : r[a] = q[a]
  BY <1>1, <1>2
<1>4. r[k][1] = i /\ r[k][2] = n
  BY <1>3
<1> HIDE DEF r
<1>5. CASE i = j
  <2>1. Single(r, j) = Single(q, j) \cup ({k} \X (1..n))
    <3>1. ASSUME NEW a \in 1..k, NEW x \in 1..MaxBatch
          PROVE  <<a, x>> \in Single(r, j) <=>
                     <<a, x>> \in Single(q, j) \/ (a = k /\ x \in 1..n)
      BY <1>1, <1>3, <1>4, <1>5 DEF Single
    <3>2. Single(r, j) \subseteq (1..k) \X (1..MaxBatch)
      BY <1>3 DEF Single
    <3>3. Single(q, j) \subseteq (1..k) \X (1..MaxBatch)
      BY <1>1 DEF Single
    <3>4. {k} \X (1..n) \subseteq (1..k) \X (1..MaxBatch)
      BY <1>1
    <3>5. \A a, x : <<a, x>> \in {k} \X (1..n) <=> a = k /\ x \in 1..n
      OBVIOUS
    <3> HIDE DEF k
    <3> QED
      BY <3>1, <3>2, <3>3, <3>4, <3>5
  <2>2. \A kx \in Single(q, j) : kx[1] # k
    BY <1>1 DEF Single
  <2>3. IsFiniteSet(Single(q, j))
    BY SingleFinite
  <2> HIDE DEF k
  <2>4. Cardinality(Single(q, j) \cup ({k} \X (1..n))) = Cardinality(Single(q, j)) + n
    BY <1>1, <2>2, <2>3, OneMore
  <2> QED
    BY <1>5, <2>1, <2>4 DEF r
<1>6. CASE i # j
  <2>1. Single(r, j) = Single(q, j)
    BY <1>1, <1>3, <1>4, <1>6, SMTT(30) DEF Single
  <2> QED
    BY <1>6, <2>1 DEF r
<1> QED
  BY <1>5, <1>6

LEMMA TailCounts ==
    ASSUME NEW q \in Seq(Inode \X Nat), q # <<>>, NEW j \in Inode,
           Head(q)[2] \in 1..MaxBatch
    PROVE  /\ Head(q)[1] = j =>
                Cardinality(Single(q, j)) = Cardinality(Single(Tail(q), j)) + Head(q)[2]
           /\ Head(q)[1] # j =>
                Cardinality(Single(q, j)) = Cardinality(Single(Tail(q), j))
<1> DEFINE t == Tail(q)
           S == Single(t, j)
           T == {kx \in Single(q, j) : kx[1] # 1}
           f == [kx \in S |-> <<kx[1] + 1, kx[2]>>]
           n == Head(q)[2]
<1>1. MaxBatch \in Nat /\ n \in Nat /\ n <= MaxBatch /\ Len(q) \in Nat /\ Len(q) >= 1
  BY BoundsAssumption
<1>2. t \in Seq(Inode \X Nat) /\ Len(t) = Len(q) - 1
      /\ \A a \in 1..Len(t) : t[a] = q[a + 1]
  OBVIOUS
<1>3. q[1] = Head(q)
  OBVIOUS
<1> HIDE DEF t, n
<1>4. f \in Bijection(S, T)
  <2>1. ASSUME NEW kx \in S
        PROVE  kx[1] \in Nat /\ kx = <<kx[1], kx[2]>> /\ <<kx[1] + 1, kx[2]>> \in T
    <3>1. /\ kx \in (1..Len(t)) \X (1..MaxBatch)
          /\ t[kx[1]][1] = j /\ kx[2] <= t[kx[1]][2]
      BY DEF Single
    <3>2. PICK a \in 1..Len(t), x \in 1..MaxBatch : kx = <<a, x>>
      BY <3>1
    <3>3. a \in Nat /\ a + 1 \in 1..Len(q) /\ a + 1 # 1 /\ t[a] = q[a + 1]
      BY <1>1, <1>2
    <3>4. <<a + 1, x>> \in T
      BY <3>1, <3>2, <3>3 DEF Single
    <3> QED
      BY <3>2, <3>3, <3>4
  <2>2. ASSUME NEW kx \in T
        PROVE  <<kx[1] - 1, kx[2]>> \in S /\ kx = <<kx[1] - 1 + 1, kx[2]>>
    <3>1. /\ kx \in (1..Len(q)) \X (1..MaxBatch) /\ kx[1] # 1
          /\ q[kx[1]][1] = j /\ kx[2] <= q[kx[1]][2]
      BY DEF Single
    <3>2. PICK a \in 1..Len(q), x \in 1..MaxBatch : kx = <<a, x>>
      BY <3>1
    <3>3. a - 1 \in 1..Len(t) /\ a - 1 + 1 = a /\ t[a - 1] = q[a]
      BY <1>1, <1>2, <3>1, <3>2
    <3>4. <<a - 1, x>> \in S
      BY <3>1, <3>2, <3>3 DEF Single
    <3> QED
      BY <3>2, <3>3, <3>4
  <2> HIDE DEF S, T
  <2>3. f \in [S -> T]
    BY <2>1
  <2>4. ASSUME NEW a \in S, NEW b \in S, f[a] = f[b] PROVE a = b
    <3>1. a[1] + 1 = b[1] + 1 /\ a[2] = b[2]
      BY <2>4
    <3>2. a[1] \in Nat /\ b[1] \in Nat
      BY <2>1
    <3>3. a[1] = b[1]
      BY <3>1, <3>2
    <3>4. a = <<a[1], a[2]>> /\ b = <<b[1], b[2]>>
      BY <2>1
    <3> QED
      BY <3>1, <3>3, <3>4
  <2>5. ASSUME NEW b \in T PROVE \E a \in S : f[a] = b
    <3>1. f[<<b[1] - 1, b[2]>>] = b
      BY <2>2
    <3> QED
      BY <2>2, <3>1
  <2> QED
    BY <2>3, <2>4, <2>5, Fun_IsBij
<1>5. IsFiniteSet(S) /\ Cardinality(S) \in Nat
  BY <1>2, SingleFinite
<1>6. IsFiniteSet(T) /\ Cardinality(T) = Cardinality(S)
  BY <1>4, <1>5, FS_Bijection, Fun_ExistsBij
<1>7. CASE Head(q)[1] = j
  <2>1. Single(q, j) = T \cup ({1} \X (1..n))
    <3>1. ASSUME NEW x \in 1..MaxBatch
          PROVE  <<1, x>> \in Single(q, j) <=> x \in 1..n
      BY <1>1, <1>3, <1>7 DEF Single, n
    <3>2. Single(q, j) \subseteq (1..Len(q)) \X (1..MaxBatch)
      BY DEF Single
    <3>3. \A a, x : <<a, x>> \in {1} \X (1..n) <=> a = 1 /\ x \in 1..n
      OBVIOUS
    <3>4. 1..n \subseteq 1..MaxBatch
      BY <1>1
    <3> QED
      BY <3>1, <3>2, <3>3, <3>4
  <2>2. \A kx \in T : kx[1] # 1
    OBVIOUS
  <2> HIDE DEF T
  <2>3. Cardinality(T \cup ({1} \X (1..n))) = Cardinality(T) + n
    BY <1>1, <1>6, <2>2, OneMore, ZenonT(40)
  <2> QED
    BY <1>6, <1>7, <2>1, <2>3 DEF t, n
<1>8. CASE Head(q)[1] # j
  <2>1. Single(q, j) = T
    BY <1>3, <1>8 DEF Single
  <2> QED
    BY <1>6, <1>8, <2>1 DEF t
<1> QED
  BY <1>7, <1>8

-----------------------------------------------------------------------------
(***************************************************************************)
(* The inductive invariant of the counts: a live entry has the kernel's    *)
(* count and the drift, and what is open is also looked up.  A slot that   *)
(* was given up may still be known to the kernel; the drift starts anew    *)
(* when the slot is taken.                                                 *)
(***************************************************************************)
Even(i) == Live(fs, i) => fs.entries[i].lookups = KernelCount(i) + drift[i]

OpenIsKnown(i) == handles[i] > 0 => nlookup[i] > 0

ForgetsOk ==
    \A k \in DOMAIN forgets : forgets[k][1] # Root /\ forgets[k][2] \in 1..MaxBatch

CountInv ==
    /\ ForgetsOk
    /\ alive => \A i \in Inode : Even(i) /\ OpenIsKnown(i)

(* What the kernel holds, when it learns of nothing and gives nothing up. *)
LEMMA SameKernelCount ==
    ASSUME NEW i, nlookup'[i] = nlookup[i], forgets' = forgets
    PROVE  KernelCount(i)' = KernelCount(i)
BY DEF KernelCount, PendingForgets

(* One more lookup. *)
LEMMA LearnCount ==
    ASSUME TypeOK, NEW i \in Inode, nlookup' = [nlookup EXCEPT ![i] = @ + 1],
           forgets' = forgets
    PROVE  /\ KernelCount(i)' = KernelCount(i) + 1
           /\ nlookup'[i] = nlookup[i] + 1
           /\ \A j \in Inode \ {i} : KernelCount(j)' = KernelCount(j)
<1>1. nlookup \in [Inode -> Nat] /\ PendingForgets(i) \in Nat
  BY CountTypes DEF TypeOK
<1>2. nlookup'[i] = nlookup[i] + 1 /\ \A j \in Inode \ {i} : nlookup'[j] = nlookup[j]
  BY <1>1
<1>3. PendingForgets(i)' = PendingForgets(i)
  BY DEF PendingForgets
<1>4. KernelCount(i)' = KernelCount(i) + 1
  BY <1>1, <1>2, <1>3 DEF KernelCount
<1> QED
  BY <1>2, <1>4, SameKernelCount

LEMMA NeutralEven ==
    ASSUME TypeOK, NEW i \in Inode, Even(i), NeutralAt(fs, fs', i),
           KernelCount(i)' = KernelCount(i), drift'[i] = drift[i]
    PROVE  Even(i)'
BY DEF Even, NeutralAt, SameCount

(* Handlers that leave the counts alone. *)
LEMMA PassEven ==
    ASSUME TypeOK, \A i \in Inode : Even(i), Passes, UNCHANGED <<nlookup, forgets, drift>>
    PROVE  \A i \in Inode : Even(i)'
<1> SUFFICES ASSUME NEW i \in Inode PROVE Even(i)'
  OBVIOUS
<1>1. KernelCount(i)' = KernelCount(i)
  BY SameKernelCount
<1> QED
  BY <1>1, NeutralEven DEF Passes, Neutral

(***************************************************************************)
(* What the handlers do, seen from both sides at once: they pass (Open     *)
(* with a new handle), they count a lookup that the kernel learns of or    *)
(* one that it does not, they make an entry that the kernel learns of or   *)
(* one that it does not, or they give a lookup back with a handle.         *)
(***************************************************************************)
PassStep ==
    /\ Passes /\ UNCHANGED <<nlookup, forgets, drift>>
    /\ \/ UNCHANGED handles
       \/ \E i \in Inode : nlookup[i] > 0 /\ handles' = [handles EXCEPT ![i] = @ + 1]

LookStep(i) ==
    /\ Looks(i) /\ UNCHANGED <<handles, forgets>>
    /\ \/ nlookup' = [nlookup EXCEPT ![i] = @ + 1] /\ UNCHANGED drift
       \/ UNCHANGED nlookup /\ drift' = [drift EXCEPT ![i] = @ + 1]

MakeStep(i) ==
    /\ Makes(i, 1) /\ nlookup' = [nlookup EXCEPT ![i] = @ + 1] /\ UNCHANGED forgets
    /\ CountAnew(i)
    /\ UNCHANGED handles \/ handles' = [handles EXCEPT ![i] = @ + 1]

LostStep(i) ==
    /\ UNCHANGED <<nlookup, handles, forgets>>
    /\ CountAnew(i)
    /\ Makes(i, 0) \/ (Makes(i, 1) /\ alive' = FALSE)

CloseStep(i) ==
    /\ Forgets(i, 1) /\ UNCHANGED <<nlookup, forgets>>
    /\ Miscount(i, -1)
    /\ handles[i] > 0 /\ handles' = [handles EXCEPT ![i] = @ - 1]

RequestStep ==
    \/ PassStep
    \/ \E i \in Inode : LookStep(i) \/ MakeStep(i) \/ LostStep(i) \/ CloseStep(i)

(* What the kernel holds and the drift, after a lookup. *)
LEMMA LookCount ==
    ASSUME TypeOK, NEW i \in Inode, LookStep(i)
    PROVE  /\ KernelCount(i)' + drift'[i] = KernelCount(i) + drift[i] + 1
           /\ \A j \in Inode \ {i} :
                 KernelCount(j)' = KernelCount(j) /\ drift'[j] = drift[j]
<1>1. KernelCount(i) \in Nat /\ drift \in [Inode -> Int]
  BY CountTypes DEF TypeOK
<1>2. CASE nlookup' = [nlookup EXCEPT ![i] = @ + 1] /\ UNCHANGED drift
  <2>1. /\ KernelCount(i)' = KernelCount(i) + 1
        /\ \A j \in Inode \ {i} : KernelCount(j)' = KernelCount(j)
    BY <1>2, LearnCount DEF LookStep
  <2> QED
    BY <1>1, <1>2, <2>1
<1>3. CASE UNCHANGED nlookup /\ drift' = [drift EXCEPT ![i] = @ + 1]
  <2>1. \A j \in Inode : KernelCount(j)' = KernelCount(j)
    BY <1>3, SameKernelCount DEF LookStep
  <2>2. drift'[i] = drift[i] + 1 /\ \A j \in Inode \ {i} : drift'[j] = drift[j]
    BY <1>1, <1>3
  <2> QED
    BY <1>1, <2>1, <2>2
<1> QED
  BY <1>2, <1>3 DEF LookStep

LEMMA LookEven ==
    ASSUME TypeOK, \A j \in Inode : Even(j), NEW i \in Inode, LookStep(i)
    PROVE  \A j \in Inode : Even(j)'
<1>1. PICK g : /\ FsOk(g) /\ Neutral(g, fs')
               /\ Live(fs, i) /\ g.entries[i].lookups = fs.entries[i].lookups + 1
               /\ \A j \in Inode : (Live(g, j) <=> Live(fs, j)) /\ SameLinks(fs, g, j)
               /\ \A j \in Inode \ {i} : SameCount(fs, g, j)
  BY DEF LookStep, Looks
<1>2. /\ KernelCount(i)' + drift'[i] = KernelCount(i) + drift[i] + 1
      /\ \A j \in Inode \ {i} : KernelCount(j)' = KernelCount(j) /\ drift'[j] = drift[j]
  BY LookCount
<1>3. Even(i)'
  <2>1. g.entries[i].lookups = KernelCount(i)' + drift'[i]
    BY <1>1, <1>2 DEF Even
  <2>2. NeutralAt(g, fs', i)
    BY <1>1 DEF Neutral
  <2> QED
    BY <2>1, <2>2 DEF Even, NeutralAt, SameCount
<1>4. ASSUME NEW j \in Inode \ {i} PROVE Even(j)'
  <2>1. NeutralAt(g, fs', j) /\ SameCount(fs, g, j) /\ (Live(g, j) <=> Live(fs, j))
    BY <1>1 DEF Neutral
  <2> QED
    BY <1>2, <2>1 DEF Even, NeutralAt, SameCount
<1> QED
  BY <1>3, <1>4

(* A new entry with the lookup that the kernel gets, if it gets one. *)
LEMMA MakeEven ==
    ASSUME TypeOK, \A j \in Inode : Even(j), NEW i \in Inode, NEW k \in {0, 1},
           Makes(i, k), forgets' = forgets, CountAnew(i),
           nlookup' = IF k = 1 THEN [nlookup EXCEPT ![i] = @ + 1] ELSE nlookup
    PROVE  \A j \in Inode : Even(j)'
<1>1. KernelCount(i) \in Nat /\ drift \in [Inode -> Int]
  BY CountTypes DEF TypeOK
<1>2. drift'[i] = -KernelCount(i) /\ \A j \in Inode \ {i} : drift'[j] = drift[j]
  BY <1>1 DEF CountAnew
<1>3. KernelCount(i)' = KernelCount(i) + k
      /\ \A j \in Inode \ {i} : KernelCount(j)' = KernelCount(j)
  <2>1. CASE k = 1
    BY <2>1, LearnCount
  <2>2. CASE k = 0
    <3>1. \A j \in Inode : KernelCount(j)' = KernelCount(j)
      BY <2>2, SameKernelCount
    <3> QED
      BY <1>1, <2>2, <3>1
  <2> QED
    BY <2>1, <2>2
<1>4. KernelCount(i)' + drift'[i] = k
  BY <1>1, <1>2, <1>3
<1>5. Even(i)'
  BY <1>4 DEF Makes, Even
<1>6. ASSUME NEW j \in Inode \ {i} PROVE Even(j)'
  BY <1>2, <1>3, <1>6 DEF Makes, SameApart, SameCount, Even
<1> QED
  BY <1>5, <1>6

(* A handle is closed: the lookup that goes with it is the drift. *)
LEMMA CloseEven ==
    ASSUME TypeOK, FsOk(fs), \A j \in Inode : Even(j), NEW i \in Inode, CloseStep(i)
    PROVE  \A j \in Inode : Even(j)'
<1>1. \A j \in Inode : KernelCount(j)' = KernelCount(j) /\ KernelCount(j) \in Nat
  BY SameKernelCount, CountTypes DEF CloseStep
<1>2. drift \in [Inode -> Int] /\ Miscount(i, -1) /\ Forgets(i, 1)
  BY DEF TypeOK, CloseStep
<1>3. \A j \in Inode \ {i} : drift'[j] = drift[j]
  BY <1>2 DEF Miscount
<1>4. Live(fs, i) => drift'[i] = drift[i] - 1
  BY <1>2 DEF Miscount
<1>5. Even(i)'
  BY <1>1, <1>2, <1>4 DEF Forgets, Even
<1>6. ASSUME NEW j \in Inode \ {i} PROVE Even(j)'
  BY <1>1, <1>2, <1>3, <1>6 DEF Forgets, SameApart, SameCount, Even
<1> QED
  BY <1>5, <1>6

(* A FORGET: it gives back what it carries, and an entry that goes away    *)
(* had nothing else.                                                       *)
LEMMA ForgetEven ==
    ASSUME TypeOK, FsOk(fs), ForgetsOk, \A j \in Inode : Even(j), Forget
    PROVE  \A j \in Inode : Even(j)'
<1>0. PICK i \in Inode, n \in Nat : i = Head(forgets)[1] /\ n = Head(forgets)[2]
  BY ForgetEffects
<1>1. forgets \in Seq(Inode \X Nat) /\ forgets # <<>> /\ forgets' = Tail(forgets)
      /\ nlookup' = nlookup
  BY DEF TypeOK, Forget
<1>10. drift' = drift /\ drift \in [Inode -> Int]
  BY DEF TypeOK, Forget
<1>2. i # Root /\ n \in 1..MaxBatch /\ n >= 1
  <2>1. 1 \in DOMAIN forgets /\ Head(forgets) = forgets[1]
    BY <1>1
  <2> QED
    BY <1>0, <2>1, BoundsAssumption DEF ForgetsOk
<1>3. Forgets(i, n)
  BY <1>0, ForgetEffects
<1>4. \A j \in Inode :
        /\ i = j => PendingForgets(j) = PendingForgets(j)' + n
        /\ i # j => PendingForgets(j) = PendingForgets(j)'
  BY <1>0, <1>1, <1>2, TailCounts, PendingIs
<1>5. TypeOK'
  BY StepFsOk, KernelTypes DEF Next, TypeOK, FsOk
<1>6. PendingForgets(i)' \in Nat /\ nlookup[i] \in Nat
  <2>1. PendingForgets(i)' \in Nat
    BY <1>5, SingleFinite, PendingIs DEF TypeOK
  <2> QED
    BY <1>2, <2>1, CountTypes
<1>7. /\ KernelCount(i) = KernelCount(i)' + n /\ KernelCount(i)' \in Nat
      /\ \A j \in Inode \ {i} : KernelCount(j)' = KernelCount(j)
  BY <1>1, <1>2, <1>4, <1>6 DEF KernelCount
<1>8. Even(i)'
  BY <1>2, <1>3, <1>7, <1>10 DEF Forgets, Even
<1>9. ASSUME NEW j \in Inode \ {i} PROVE Even(j)'
  BY <1>3, <1>7, <1>9, <1>10 DEF Forgets, SameApart, SameCount, Even
<1> QED
  BY <1>8, <1>9

(* The kernel puts lookups on their way back. *)
LEMMA KernelForgetCount ==
    ASSUME TypeOK, NEW i \in Inode, NEW n \in 1..MaxBatch, KernelForget(i, n)
    PROVE  /\ \A j \in Inode : KernelCount(j)' = KernelCount(j)
           /\ nlookup'[i] = nlookup[i] - n
           /\ \A j \in Inode \ {i} : nlookup'[j] = nlookup[j]
<1>1. n \in Nat /\ MaxBatch \in Nat
  BY BoundsAssumption
<1>2. /\ forgets \in Seq(Inode \X Nat) /\ forgets' = Append(forgets, <<i, n>>)
      /\ nlookup \in [Inode -> Nat] /\ nlookup' = [nlookup EXCEPT ![i] = nlookup[i] - n]
  BY DEF TypeOK, KernelForget
<1>3. \A j \in Inode :
        /\ i = j => PendingForgets(j)' = PendingForgets(j) + n
        /\ i # j => PendingForgets(j)' = PendingForgets(j)
  BY <1>2, AppendCounts, PendingIs
<1>4. nlookup'[i] = nlookup[i] - n /\ \A j \in Inode \ {i} : nlookup'[j] = nlookup[j]
  BY <1>2
<1>5. nlookup[i] \in Nat /\ PendingForgets(i) \in Nat
  BY CountTypes
<1>6. \A j \in Inode : KernelCount(j)' = KernelCount(j)
  BY <1>1, <1>3, <1>4, <1>5 DEF KernelCount
<1> QED
  BY <1>4, <1>6

LEMMA KernelForgetEven ==
    ASSUME TypeOK, \A j \in Inode : Even(j) /\ OpenIsKnown(j),
           NEW i \in Inode, NEW n \in 1..MaxBatch, KernelForget(i, n)
    PROVE  \A j \in Inode : Even(j)' /\ OpenIsKnown(j)'
<1>1. /\ n \in Nat /\ n <= nlookup[i] /\ nlookup[i] \in Nat
      /\ n = nlookup[i] => handles[i] = 0
      /\ fs' = fs /\ drift' = drift /\ handles' = handles /\ handles \in [Inode -> Nat]
  BY BoundsAssumption DEF TypeOK, KernelForget
<1>2. OpenIsKnown(i)'
  BY <1>1, KernelForgetCount DEF OpenIsKnown
<1>3. \A j \in Inode \ {i} : OpenIsKnown(j)'
  BY <1>1, KernelForgetCount DEF OpenIsKnown
<1> QED
  BY <1>1, <1>2, <1>3, KernelForgetCount DEF Even

LEMMA RequestSteps ==
    ASSUME TypeOK, FsOk(fs), OnInode \/ OnName
    PROVE  alive /\ RequestStep
<1>1. drift \in [Inode -> Int]
  BY DEF TypeOK
<1>2. CASE OnInode
  <2>1. PICK i \in Inode, o \in {"ok", "gone"} :
          \/ Getattr(i, o) \/ Setattr(i, o) \/ Read(i, o) \/ Write(i, o)
          \/ Readdir(i, o) \/ Open(i, o) \/ OpenFails(i, o) \/ Release(i, o)
    BY <1>2 DEF OnInode
  <2>2. CASE Getattr(i, o)
    <3>1. alive /\ Miscount(i, 1) /\ UNCHANGED <<nlookup, handles, forgets>>
      BY <2>2 DEF Getattr, Incoming, kernel
    <3>2. CASE Live(fs, i)
      <4>1. fs' = Acquire(fs, i)
        BY <2>2, <3>2 DEF Getattr
      <4>2. FsOk(Acquire(fs, i))
        BY AcquireIs, KeptOk DEF FsOk
      <4>3. Neutral(Acquire(fs, i), Acquire(fs, i))
        BY <4>2 DEF Neutral, NeutralAt, SameCount, SameLinks
      <4>4. Looks(i)
        BY <3>2, <4>1, <4>3, AcquireLooks
      <4>5. drift' = [drift EXCEPT ![i] = @ + 1]
        BY <3>1, <3>2 DEF Miscount
      <4> QED
        BY <3>1, <4>4, <4>5 DEF LookStep, RequestStep
    <3>3. CASE ~Live(fs, i)
      BY <2>2, <3>1, <3>3, SameFs DEF Getattr, Passes, Miscount, PassStep, RequestStep
    <3> QED
      BY <3>2, <3>3
  <2>5. CASE Release(i, o)
    BY <2>5, InodeEffects DEF Release, Incoming, CloseStep, RequestStep
  <2>3. CASE Setattr(i, o) \/ Read(i, o) \/ Write(i, o) \/ Readdir(i, o) \/ OpenFails(i, o)
    <3>1. Passes
      BY <2>3, InodeEffects
    <3>2. alive /\ UNCHANGED <<nlookup, handles, forgets, drift>>
      BY <2>3
         DEF Setattr, Read, Write, Passing, Readdir, OpenFails, Incoming, kernel, counts
    <3> QED
      BY <3>1, <3>2 DEF PassStep, RequestStep
  <2>4. CASE Open(i, o)
    <3>1. Passes
      BY <2>4, InodeEffects
    <3>2. alive /\ Known(i) /\ fs.entries[i].kind = "file"
          /\ KernelOpens(i, o) /\ UNCHANGED <<nlookup, forgets, drift>>
      BY <2>4 DEF Open, Incoming
    <3>3. nlookup[i] > 0
      BY <3>2 DEF Known, FsOk, RootStays
    <3> QED
      BY <3>1, <3>2, <3>3 DEF PassStep, RequestStep, KernelOpens
  <2> QED
    BY <2>1, <2>2, <2>3, <2>4, <2>5
<1>3. CASE OnName
  <2>1. PICK p \in Inode, n \in Name, o \in {"ok", "gone"} :
          \/ LookupFound(p, n, o) \/ LookupFails(p, n, o)
          \/ Mkdir(p, n, o) \/ Mknod(p, n, o) \/ Create(p, n, o)
          \/ \E kind \in {"Mkdir", "Mknod", "Create"} : CreateFails(kind, p, n, o)
          \/ Unlink(p, n, o) \/ Rmdir(p, n, o)
    BY <1>3 DEF OnName
  <2>2. CASE LookupFound(p, n, o)
    <3>1. Child(fs, p, n) \in Inode /\ Looks(Child(fs, p, n))
      BY <2>2, NameEffects
    <3>2. PICK i \in Inode : i = Child(fs, p, n)
      BY <3>1
    <3>3. alive /\ Live(fs, i) /\ KernelLearns(i, o) /\ UNCHANGED <<handles, forgets>>
          /\ Miscount(i, IF o = "ok" THEN 0 ELSE 1)
      BY <2>2, <3>2 DEF LookupFound, Incoming
    <3>4. CASE o = "ok"
      <4>1. drift' = [drift EXCEPT ![i] = @ + 0]
        BY <3>3, <3>4 DEF Miscount
      <4>2. UNCHANGED drift
        BY <1>1, <4>1
      <4> QED
        BY <3>1, <3>2, <3>3, <3>4, <4>2 DEF LookStep, RequestStep, KernelLearns
    <3>5. CASE o # "ok"
      BY <3>1, <3>2, <3>3, <3>5 DEF LookStep, RequestStep, KernelLearns, Miscount
    <3> QED
      BY <3>4, <3>5
  <2>3. CASE Mkdir(p, n, o) \/ Mknod(p, n, o) \/ Create(p, n, o)
    <3>1. PICK i \in Inode : i = NextSlot(fs)
      BY <2>3 DEF Mkdir, Mknod, Create, Creates
    <3>2. alive /\ KernelLearns(i, o) /\ UNCHANGED forgets /\ CountAnew(i)
      BY <2>3, <3>1 DEF Mkdir, Mknod, Create, Creates, Incoming
    <3>3. CASE Mkdir(p, n, o) \/ Mknod(p, n, o)
      <4>1. Makes(i, 1)
        BY <3>1, <3>3, CreateEffects
      <4>2. ReplyOrEnd(o) /\ UNCHANGED handles
        BY <3>3 DEF Mkdir, Mknod
      <4>3. CASE o = "ok"
        BY <3>2, <4>1, <4>2, <4>3 DEF RequestStep, MakeStep, KernelLearns
      <4>4. CASE o # "ok"
        BY <3>2, <4>1, <4>2, <4>4 DEF RequestStep, LostStep, KernelLearns, ReplyOrEnd
      <4> QED
        BY <4>3, <4>4
    <3>4. CASE Create(p, n, o)
      <4>1. Makes(i, IF o = "ok" THEN 1 ELSE 0)
        BY <3>1, <3>4, CreateEffects
      <4>2. KernelOpens(i, o)
        BY <3>1, <3>4 DEF Create
      <4>3. CASE o = "ok"
        BY <3>2, <4>1, <4>2, <4>3 DEF RequestStep, MakeStep, KernelLearns, KernelOpens
      <4>4. CASE o # "ok"
        BY <3>2, <4>1, <4>2, <4>4 DEF RequestStep, LostStep, KernelLearns, KernelOpens
      <4> QED
        BY <4>3, <4>4
    <3> QED
      BY <2>3, <3>3, <3>4
  <2>4. CASE ~(\/ LookupFound(p, n, o) \/ Mkdir(p, n, o) \/ Mknod(p, n, o)
               \/ Create(p, n, o))
    <3>1. Passes
      BY <2>1, <2>4, NameEffects
    <3>2. alive /\ UNCHANGED <<nlookup, handles, forgets, drift>>
      BY <2>1, <2>4
         DEF LookupFails, CreateFails, Unlink, Rmdir, Unlinks, Incoming, kernel, counts
    <3> QED
      BY <3>1, <3>2 DEF PassStep, RequestStep
  <2> QED
    BY <2>2, <2>3, <2>4
<1> QED
  BY <1>2, <1>3

(* More handles only where there are lookups, no fewer lookups. *)
LEMMA StepsKnown ==
    ASSUME TypeOK, \A i \in Inode : OpenIsKnown(i), RequestStep
    PROVE  \A i \in Inode : OpenIsKnown(i)'
<1> SUFFICES ASSUME NEW j \in Inode PROVE OpenIsKnown(j)'
  OBVIOUS
<1>1. nlookup \in [Inode -> Nat] /\ handles \in [Inode -> Nat] /\ OpenIsKnown(j)
  BY DEF TypeOK
<1>2. CASE PassStep
  BY <1>1, <1>2 DEF PassStep, OpenIsKnown
<1>3. CASE \E i \in Inode : LookStep(i) \/ MakeStep(i) \/ LostStep(i)
  BY <1>1, <1>3 DEF LookStep, MakeStep, LostStep, OpenIsKnown
<1>4. CASE \E i \in Inode : CloseStep(i)
  BY <1>1, <1>4 DEF CloseStep, OpenIsKnown
<1> QED
  BY <1>2, <1>3, <1>4 DEF RequestStep

LEMMA StepsEven ==
    ASSUME TypeOK, FsOk(fs), alive', \A i \in Inode : Even(i), RequestStep
    PROVE  \A i \in Inode : Even(i)'
<1>1. CASE PassStep
  BY <1>1, PassEven DEF PassStep
<1>2. ASSUME NEW i \in Inode, LookStep(i) PROVE \A j \in Inode : Even(j)'
  BY <1>2, LookEven
<1>3. ASSUME NEW i \in Inode, MakeStep(i) PROVE \A j \in Inode : Even(j)'
  BY <1>3, MakeEven DEF MakeStep
<1>4. ASSUME NEW i \in Inode, LostStep(i) PROVE \A j \in Inode : Even(j)'
  BY <1>4, MakeEven DEF LostStep
<1>5. ASSUME NEW i \in Inode, CloseStep(i) PROVE \A j \in Inode : Even(j)'
  BY <1>5, CloseEven
<1> QED
  BY <1>1, <1>2, <1>3, <1>4, <1>5 DEF RequestStep

(* Every step keeps the program's counts even with the kernel's and the    *)
(* drift, as long as the loop runs.                                        *)
LEMMA CountInvariant == Spec => []CountInv
<1>1. Init => CountInv
  <2> SUFFICES ASSUME Init PROVE CountInv
    OBVIOUS
  <2>1. /\ forgets = <<>> /\ fs = new
        /\ \A i \in Inode : nlookup[i] = 0 /\ handles[i] = 0 /\ drift[i] = 0
    BY DEF Init
  <2>2. ForgetsOk
    BY <2>1 DEF ForgetsOk
  <2>3. ASSUME NEW i \in Inode PROVE Even(i) /\ OpenIsKnown(i)
    <3>1. (1..Len(forgets)) \X (1..MaxBatch) = {}
      BY <2>1
    <3>2. PendingForgets(i) = 0
      BY <3>1, FS_EmptySet DEF PendingForgets
    <3>3. KernelCount(i) = IF i = Root THEN 1 ELSE 0
      BY <2>1, <3>2 DEF KernelCount
    <3>4. fs.entries[i] = IF i = Root THEN NewEntry("dir", Root, 1) ELSE Vacant
      BY <2>1 DEF new
    <3>5. Even(i)
      BY <2>1, <3>3, <3>4 DEF Even, Live, NewEntry, Vacant
    <3> QED
      BY <2>1, <3>5 DEF OpenIsKnown
  <2> QED
    BY <2>2, <2>3 DEF CountInv
<1>2. TypeOK /\ FsOk(fs) /\ CountInv /\ [Next]_vars => CountInv'
  <2> SUFFICES ASSUME TypeOK, FsOk(fs), CountInv, [Next]_vars PROVE CountInv'
    OBVIOUS
  <2>1. ForgetsOk /\ (alive => \A i \in Inode : Even(i) /\ OpenIsKnown(i))
    BY DEF CountInv
  <2>2. CASE OnInode \/ OnName
    <3>1. alive /\ RequestStep
      BY <2>2, RequestSteps
    <3>2. forgets' = forgets
      BY <3>1 DEF RequestStep, PassStep, LookStep, MakeStep, LostStep, CloseStep
    <3>3. ForgetsOk'
      BY <2>1, <3>2 DEF ForgetsOk
    <3>4. \A i \in Inode : OpenIsKnown(i)'
      BY <2>1, <3>1, StepsKnown
    <3>5. alive' => \A i \in Inode : Even(i)'
      BY <2>1, <3>1, StepsEven
    <3> QED
      BY <3>3, <3>4, <3>5 DEF CountInv
  <2>3. CASE Forget
    <3>1. alive /\ forgets # <<>> /\ forgets' = Tail(forgets) /\ UNCHANGED <<nlookup, handles>>
          /\ forgets \in Seq(Inode \X Nat)
      BY <2>3 DEF Forget, TypeOK
    <3>2. ForgetsOk'
      <4>1. \A k \in DOMAIN forgets' : k + 1 \in DOMAIN forgets /\ forgets'[k] = forgets[k + 1]
        BY <3>1
      <4> QED
        BY <2>1, <4>1 DEF ForgetsOk
    <3>3. \A i \in Inode : Even(i)'
      BY <2>1, <2>3, <3>1, ForgetEven
    <3> QED
      BY <2>1, <3>1, <3>2, <3>3 DEF CountInv, OpenIsKnown
  <2>4. CASE \E i \in Inode, n \in 1..MaxBatch : KernelForget(i, n)
    <3>1. PICK i \in Inode, n \in 1..MaxBatch : KernelForget(i, n)
      BY <2>4
    <3>2. alive /\ i # Root /\ forgets' = Append(forgets, <<i, n>>)
          /\ forgets \in Seq(Inode \X Nat)
      BY <3>1 DEF KernelForget, TypeOK
    <3>3. ForgetsOk'
      <4>1. <<i, n>>[1] = i /\ <<i, n>>[2] = n
        OBVIOUS
      <4>2. \A k \in DOMAIN forgets' :
              \/ k \in DOMAIN forgets /\ forgets'[k] = forgets[k]
              \/ forgets'[k] = <<i, n>>
        BY <3>2
      <4> QED
        BY <2>1, <3>2, <4>1, <4>2 DEF ForgetsOk
    <3>4. \A j \in Inode : Even(j)' /\ OpenIsKnown(j)'
      BY <2>1, <3>1, <3>2, KernelForgetEven
    <3> QED
      BY <3>3, <3>4 DEF CountInv
  <2>5. CASE UNCHANGED vars
    <3>1. UNCHANGED <<fs, alive, nlookup, handles, forgets, drift>>
      BY <2>5 DEF vars, counts, kernel
    <3>2. \A i \in Inode : KernelCount(i)' = KernelCount(i)
      BY <3>1, SameKernelCount
    <3> QED
      BY <2>1, <3>1, <3>2 DEF CountInv, ForgetsOk, Even, OpenIsKnown
  <2> QED
    BY <2>2, <2>3, <2>4, <2>5 DEF Next
<1> QED
  BY <1>1, <1>2, FsInvariant, PTL DEF Spec

(***************************************************************************)
(* For any requests, with replies that find nobody waiting, any number of  *)
(* inodes, counts and FORGETs of any size: the lookup count of every entry *)
(* is the kernel's, with the FORGETs under way, and the drift of GETATTR,  *)
(* cancelled LOOKUPs and RELEASE.                                          *)
(***************************************************************************)
THEOREM CountsAreExplained == Spec => []CountsExplained
<1>1. CountInv => CountsExplained
  BY DEF CountInv, CountsExplained, Even
<1> QED
  BY <1>1, CountInvariant, PTL

(* The FORGET that is handled gives back at least one lookup. *)
LEMMA ForgetGivesBack ==
    ASSUME TypeOK, FsOk(fs), CountInv, Forget
    PROVE  \E i \in Inode, n \in Nat :
             /\ i = Head(forgets)[1] /\ n = Head(forgets)[2] /\ n >= 1
             /\ Forgets(i, n)
             /\ PendingForgets(i) >= n
             /\ \A j \in Inode \ {i} : KernelCount(j)' = KernelCount(j)
<1>1. PICK i \in Inode, n \in Nat : i = Head(forgets)[1] /\ n = Head(forgets)[2]
  BY ForgetEffects
<1>2. forgets # <<>> /\ forgets \in Seq(Inode \X Nat)
  BY DEF Forget, TypeOK
<1>3. n \in 1..MaxBatch /\ n >= 1
  <2>1. 1 \in DOMAIN forgets /\ Head(forgets) = forgets[1]
    BY <1>2
  <2> QED
    BY <1>1, <2>1, BoundsAssumption DEF CountInv, ForgetsOk
<1>4. Tail(forgets) \in Seq(Inode \X Nat)
  BY <1>2
<1>5. Cardinality(Single(Tail(forgets), i)) \in Nat
  BY <1>4, SingleFinite
<1>6. PendingForgets(i) = Cardinality(Single(Tail(forgets), i)) + n
  BY <1>1, <1>2, <1>3, TailCounts, PendingIs
<1>7. forgets' = Tail(forgets) /\ nlookup' = nlookup
  BY DEF Forget
<1>8. \A j \in Inode \ {i} : PendingForgets(j) = PendingForgets(j)'
  BY <1>1, <1>2, <1>3, <1>7, TailCounts, PendingIs
<1>9. \A j \in Inode \ {i} : KernelCount(j)' = KernelCount(j)
  BY <1>7, <1>8 DEF KernelCount
<1> QED
  BY <1>1, <1>3, <1>5, <1>6, <1>9, ForgetEffects

(***************************************************************************)
(* forget_entry deletes an entry, and hands out its slot again, only when  *)
(* the kernel holds neither a lookup nor a handle, or after more RELEASEs  *)
(* than lookups in excess.                                                 *)
(***************************************************************************)
THEOREM FreedOnlyUnheld == Spec => NoEarlyFree
<1> DEFINE Step == \A i \in Inode : Live(fs, i) /\ ~Live(fs', i) =>
                       drift'[i] < 0 \/ (nlookup[i] = 0 /\ handles[i] = 0)
<1>1. TypeOK /\ FsOk(fs) /\ CountInv /\ [Next]_vars => [Step]_vars
  <2> SUFFICES ASSUME TypeOK, FsOk(fs), CountInv, [Next]_vars,
                      NEW j \in Inode, Live(fs, j), ~Live(fs', j), ~(drift'[j] < 0)
               PROVE  nlookup[j] = 0 /\ handles[j] = 0
    OBVIOUS
  <2>1. /\ nlookup[j] \in Nat /\ handles[j] \in Nat /\ KernelCount(j) \in Nat
        /\ PendingForgets(j) \in Nat
        /\ KernelCount(j) >= nlookup[j] + PendingForgets(j)
        /\ drift \in [Inode -> Int]
    BY CountTypes DEF TypeOK
  <2>2. alive => OpenIsKnown(j) /\ fs.entries[j].lookups = KernelCount(j) + drift[j]
    BY DEF CountInv, Even
  <2>3. ASSUME alive, nlookup[j] = 0 PROVE handles[j] = 0
    BY <2>1, <2>2, <2>3 DEF OpenIsKnown
  <2>4. CASE OnInode \/ OnName
    <3>1. alive /\ RequestStep
      BY <2>4, RequestSteps
    <3>2. CASE PassStep
      <4>1. fs.entries[j].lookups \in {-1, 0} /\ drift[j] >= 0
        BY <2>1, <3>2 DEF PassStep, Passes, Neutral, NeutralAt
      <4>2. nlookup[j] = 0
        BY <2>1, <2>2, <3>1, <4>1
      <4> QED
        BY <2>3, <3>1, <4>2
    <3>3. ASSUME NEW i \in Inode, LookStep(i)
          PROVE  nlookup[j] = 0 /\ handles[j] = 0
      <4>1. PICK g : /\ FsOk(g) /\ Neutral(g, fs')
                     /\ Live(fs, i) /\ g.entries[i].lookups = fs.entries[i].lookups + 1
                     /\ \A k \in Inode : (Live(g, k) <=> Live(fs, k)) /\ SameLinks(fs, g, k)
                     /\ \A k \in Inode \ {i} : SameCount(fs, g, k)
        BY <3>3 DEF LookStep, Looks
      <4>2. g.entries[j].lookups \in {-1, 0}
        BY <4>1 DEF Neutral, NeutralAt
      <4>3. /\ KernelCount(i)' + drift'[i] = KernelCount(i) + drift[i] + 1
            /\ \A k \in Inode \ {i} : drift'[k] = drift[k]
        BY <3>3, LookCount
      <4>4. CASE j = i
        <5>1. drift'[i] \in Int /\ drift'[i] >= 0 /\ drift[i] >= -1
          BY <2>1, <3>3, <4>4 DEF LookStep
        <5>2. KernelCount(j) + drift[j] \in {-2, -1}
          BY <2>1, <2>2, <3>1, <4>1, <4>2, <4>4
        <5>3. drift[j] = -1 /\ KernelCount(j) = 0
          BY <2>1, <4>4, <5>1, <5>2
        <5>4. nlookup[j] = 0
          BY <2>1, <5>3
        <5> QED
          BY <2>3, <3>1, <5>4
      <4>5. CASE j # i
        <5>1. drift[j] >= 0 /\ fs.entries[j].lookups \in {-1, 0}
          BY <2>1, <4>1, <4>2, <4>3, <4>5 DEF SameCount
        <5>2. nlookup[j] = 0
          BY <2>1, <2>2, <3>1, <5>1
        <5> QED
          BY <2>3, <3>1, <5>2
      <4> QED
        BY <4>4, <4>5
    <3>4. ASSUME NEW i \in Inode, MakeStep(i) \/ LostStep(i) PROVE FALSE
      BY <3>4 DEF MakeStep, LostStep, Makes, SameApart
    <3>5. ASSUME NEW i \in Inode, CloseStep(i) PROVE FALSE
      <4>1. i = j /\ fs.entries[j].lookups \in {0, 1}
        BY <3>5 DEF CloseStep, Forgets, SameApart
      <4>2. drift'[j] = drift[j] - 1
        BY <2>1, <3>5, <4>1 DEF CloseStep, Miscount
      <4>3. nlookup[j] > 0
        BY <2>1, <2>2, <3>1, <3>5, <4>1 DEF CloseStep, OpenIsKnown
      <4> QED
        BY <2>1, <2>2, <3>1, <4>1, <4>2, <4>3
    <3> QED
      BY <3>1, <3>2, <3>3, <3>4, <3>5 DEF RequestStep
  <2>5. CASE Forget
    <3>1. PICK i \in Inode, n \in Nat :
                 n >= 1 /\ Forgets(i, n) /\ PendingForgets(i) >= n
      BY <2>5, ForgetGivesBack
    <3>2. i = j /\ fs.entries[j].lookups \in {0, 1}
      BY <3>1 DEF Forgets, SameApart
    <3>3. alive /\ drift' = drift
      BY <2>5 DEF Forget
    <3>4. nlookup[j] = 0
      <4>1. KernelCount(j) <= 1
        BY <2>1, <2>2, <3>2, <3>3
      <4> QED
        BY <2>1, <3>1, <3>2, <4>1
    <3> QED
      BY <2>3, <3>3, <3>4
  <2>6. CASE \E i \in Inode, n \in 1..MaxBatch : KernelForget(i, n)
    BY <2>6 DEF KernelForget
  <2>7. CASE UNCHANGED vars
    BY <2>7 DEF vars
  <2> QED
    BY <2>4, <2>5, <2>6, <2>7 DEF Next
<1> QED
  BY <1>1, FsInvariant, CountInvariant, PTL DEF Spec, NoEarlyFree

(***************************************************************************)
(* An inode that loses its last name and its last lookup is deleted in the *)
(* step in which it loses the second of them, unless forget_entry gets a   *)
(* FORGET of several lookups or the count was off.                         *)
(***************************************************************************)
THEOREM UnlinkedGoes == Spec => UnlinkedIsFreed
<1> DEFINE Step == \A i \in Inode : alive' /\ ~Abandoned(i) /\ Abandoned(i)' =>
                       drift'[i] # 0 \/ ForgetsMany(i)
<1>1. TypeOK /\ FsOk(fs) /\ CountInv /\ CountInv' /\ [Next]_vars => [Step]_vars
  <2> SUFFICES ASSUME TypeOK, FsOk(fs), CountInv, CountInv', [Next]_vars,
                      NEW j \in Inode, alive', Abandoned(j)', drift'[j] = 0,
                      ~ForgetsMany(j)
               PROVE  Abandoned(j)
    OBVIOUS
  <2>1. /\ Live(fs', j) /\ fs'.entries[j].links = 0 /\ KernelCount(j)' = 0
        /\ fs'.entries[j].lookups = 0
    BY DEF Abandoned, CountInv, Even
  <2>2. /\ KernelCount(j) \in Nat /\ drift \in [Inode -> Int]
        /\ fs.entries[j].lookups \in Int
    BY CountTypes DEF TypeOK, Fs, Entry
  <2>3. CASE OnInode \/ OnName
    <3>1. RequestStep
      BY <2>3, RequestSteps
    <3>2. CASE PassStep
      <4>1. KernelCount(j) = 0 /\ NeutralAt(fs, fs', j)
        BY <2>1, <3>2, SameKernelCount DEF PassStep, Passes, Neutral
      <4> QED
        BY <2>1, <4>1 DEF NeutralAt, SameCount, SameLinks, Abandoned
    <3>3. ASSUME NEW i \in Inode, LookStep(i) PROVE Abandoned(j)
      <4>1. PICK g : /\ FsOk(g) /\ Neutral(g, fs')
                     /\ Live(fs, i) /\ g.entries[i].lookups = fs.entries[i].lookups + 1
                     /\ \A k \in Inode : (Live(g, k) <=> Live(fs, k)) /\ SameLinks(fs, g, k)
                     /\ \A k \in Inode \ {i} : SameCount(fs, g, k)
        BY <3>3 DEF LookStep, Looks
      <4>2. KernelCount(j) = 0
        <5>1. CASE j = i /\ nlookup' = [nlookup EXCEPT ![i] = @ + 1]
          <6>1. KernelCount(i)' = KernelCount(i) + 1
            BY <3>3, <5>1, LearnCount DEF LookStep
          <6> QED
            BY <2>1, <2>2, <5>1, <6>1
        <5>2. CASE j = i /\ UNCHANGED nlookup
          BY <2>1, <3>3, <5>2, SameKernelCount DEF LookStep
        <5>3. CASE j # i
          BY <2>1, <3>3, <5>3, LookCount
        <5> QED
          BY <3>3, <5>1, <5>2, <5>3 DEF LookStep
      <4>3. NeutralAt(g, fs', j)
        BY <4>1 DEF Neutral
      <4>4. Live(g, j) /\ g.entries[j].links = 0
        BY <2>1, <4>3 DEF NeutralAt, SameCount, SameLinks
      <4> QED
        BY <4>1, <4>2, <4>4 DEF Abandoned, SameLinks
    <3>4. ASSUME NEW i \in Inode, MakeStep(i) \/ LostStep(i) PROVE Abandoned(j)
      <4>1. j # i
        BY <2>1, <3>4 DEF MakeStep, LostStep, Makes
      <4>2. KernelCount(j) = 0
        BY <2>1, <3>4, <4>1, LearnCount, SameKernelCount DEF MakeStep, LostStep
      <4> QED
        BY <2>1, <3>4, <4>1, <4>2
           DEF MakeStep, LostStep, Makes, SameApart, SameLinks, Abandoned
    <3>5. ASSUME NEW i \in Inode, CloseStep(i) PROVE Abandoned(j)
      <4>1. KernelCount(j) = 0 /\ Forgets(i, 1)
        BY <2>1, <3>5, SameKernelCount DEF CloseStep
      <4>2. j # i
        BY <2>1, <2>2, <4>1 DEF Forgets, SameLinks
      <4> QED
        BY <2>1, <4>1, <4>2 DEF Forgets, SameApart, SameLinks, Abandoned
    <3> QED
      BY <3>1, <3>2, <3>3, <3>4, <3>5 DEF RequestStep
  <2>4. CASE Forget
    <3>1. PICK i \in Inode, n \in Nat :
                 /\ i = Head(forgets)[1] /\ n = Head(forgets)[2] /\ n >= 1
                 /\ Forgets(i, n)
                 /\ \A k \in Inode \ {i} : KernelCount(k)' = KernelCount(k)
      BY <2>4, ForgetGivesBack
    <3>2. i = j => n = 1
      BY <2>4, <3>1 DEF Forget, ForgetsMany
    <3>3. i # j
      BY <2>1, <2>2, <3>1, <3>2 DEF Forgets, SameLinks
    <3> QED
      BY <2>1, <3>1, <3>3 DEF Forgets, SameApart, SameLinks, Abandoned
  <2>5. CASE \E i \in Inode, n \in 1..MaxBatch : KernelForget(i, n)
    <3>1. PICK i \in Inode, n \in 1..MaxBatch : KernelForget(i, n)
      BY <2>5
    <3>2. KernelCount(j)' = KernelCount(j) /\ fs' = fs
      BY <3>1, KernelForgetCount DEF KernelForget
    <3> QED
      BY <2>1, <3>2 DEF Abandoned
  <2>6. CASE UNCHANGED vars
    <3>1. UNCHANGED <<fs, nlookup, forgets>>
      BY <2>6 DEF vars, counts, kernel
    <3>2. KernelCount(j)' = KernelCount(j)
      BY <3>1, SameKernelCount
    <3> QED
      BY <2>1, <3>1, <3>2 DEF Abandoned
  <2> QED
    BY <2>3, <2>4, <2>5, <2>6 DEF Next
<1> QED
  BY <1>1, FsInvariant, CountInvariant, PTL DEF Spec, UnlinkedIsFreed
=============================================================================
