---------------------------- MODULE ImageProofs ----------------------------
(***************************************************************************)
(* On cards that are sound, whatever they hold, the window shows what its  *)
(* label says, the file object stands where the chain says, only the       *)
(* sectors of the opened image are written, and the directory shows its    *)
(* images and opens what it shows; and the files are a Drive.              *)
(***************************************************************************)
EXTENDS ImageInv, TLAPS, SequenceTheorems

-----------------------------------------------------------------------------
(* Arithmetic. *)

\* Quotient and remainder.
LEMMA DivMod ==
  ASSUME NEW x \in Int, NEW m \in Nat, m > 0
  PROVE  x = (m * (x \div m)) + (x % m) /\ x % m \in 0 .. m - 1 /\ x \div m \in Int
  BY SMT

LEMMA ModRange ==
  ASSUME NEW x \in Int, NEW m \in Nat, m > 0
  PROVE  x % m \in 0 .. m - 1
  BY SMT

\* ... are the only ones.
LEMMA DivIs ==
  ASSUME NEW x \in Int, NEW m \in Nat, NEW q \in Int, q * m <= x, x < (q + 1) * m
  PROVE  x \div m = q /\ x % m = x - (q * m)
<1> DEFINE a == x \div m
           r == x % m
<1>1. m > 0
  BY SMT
<1>2. x = (m * a) + r /\ r \in 0 .. m - 1 /\ a \in Int
  BY <1>1, DivMod
<1> HIDE DEF a, r
<1>3. ~(a < q)
  <2> SUFFICES ASSUME a + 1 <= q PROVE FALSE
    BY <1>2, SMT
  <2>1. (a + 1) * m <= q * m
    BY <1>1, <1>2, SMT
  <2> QED
    BY <1>2, <2>1, SMT
<1>4. ~(a > q)
  <2> SUFFICES ASSUME q + 1 <= a PROVE FALSE
    BY <1>2, SMT
  <2>1. (q + 1) * m <= a * m
    BY <1>1, <1>2, SMT
  <2> QED
    BY <1>2, <2>1, SMT
<1>5. a = q
  BY <1>2, <1>3, <1>4, SMT
<1> QED
  BY <1>2, <1>5, SMT DEF a, r

\* Division keeps the order.
LEMMA DivGrows ==
  ASSUME NEW x \in Nat, NEW y \in Nat, x <= y, NEW m \in Nat, m > 0
  PROVE  x \div m \in Nat /\ x \div m <= y \div m
<1> DEFINE a == x \div m
           b == y \div m
           r == x % m
           s == y % m
<1>1. /\ x = (m * a) + r /\ r \in 0 .. m - 1 /\ a \in Int
      /\ y = (m * b) + s /\ s \in 0 .. m - 1 /\ b \in Int
  BY DivMod
<1> HIDE DEF a, b, r, s
<1>2. a >= 0
  <2> SUFFICES ASSUME a <= -1 PROVE FALSE
    BY <1>1, SMT
  <2>1. m * a <= m * (-1)
    BY <1>1, SMT
  <2> QED
    BY <1>1, <2>1, SMT
<1>3. a <= b
  <2> SUFFICES ASSUME b + 1 <= a PROVE FALSE
    BY <1>1, SMT
  <2>1. m * (b + 1) <= m * a
    BY <1>1, SMT
  <2> QED
    BY <1>1, <2>1, SMT
<1> QED
  BY <1>1, <1>2, <1>3, SMT DEF a, b

\* A place in n rows of m.
LEMMA Rows ==
  ASSUME NEW m \in Nat, m > 0, NEW n \in Nat, NEW i \in 1 .. n * m
  PROVE  \E j \in 1 .. n, k \in 0 .. m - 1 : i = (j - 1) * m + k + 1
<1> DEFINE q == (i - 1) \div m
           r == (i - 1) % m
<1>1. i - 1 = (m * q) + r /\ r \in 0 .. m - 1 /\ q \in Int
  BY DivMod, SMT
<1> HIDE DEF q, r
<1>2. i \in Int /\ i >= 1 /\ i <= n * m
  BY SMT
<1>3. q >= 0
  <2> SUFFICES ASSUME q <= -1 PROVE FALSE
    BY <1>1, SMT
  <2>1. m * q <= m * (-1)
    BY <1>1, SMT
  <2> QED
    BY <1>1, <1>2, <2>1, SMT
<1>4. q < n
  <2> SUFFICES ASSUME n <= q PROVE FALSE
    BY <1>1, SMT
  <2>1. n * m <= q * m
    BY <1>1, SMT
  <2> QED
    BY <1>1, <1>2, <2>1, SMT
<1>5. q + 1 \in 1 .. n /\ i = ((q + 1) - 1) * m + r + 1
  BY <1>1, <1>2, <1>3, <1>4, SMT
<1> QED
  BY <1>1, <1>5

\* Counting up in a table of rows of m.
LEMMA NextRow ==
  ASSUME NEW x \in Nat, NEW m \in Nat, m > 0
  PROVE  /\ (x + 1) % m # 0 => (x + 1) \div m = x \div m /\ (x + 1) % m = (x % m) + 1
         /\ (x + 1) % m = 0 => (x + 1) \div m = (x \div m) + 1 /\ x % m = m - 1
<1> DEFINE q == x \div m
           r == x % m
<1>1. x = (m * q) + r /\ r \in 0 .. m - 1 /\ q \in Int
  BY DivMod
<1> HIDE DEF q, r
<1>2. CASE r + 1 < m
  <2>1. q * m <= x + 1 /\ x + 1 < (q + 1) * m
    BY <1>1, <1>2, SMT
  <2>2. (x + 1) \div m = q /\ (x + 1) % m = x + 1 - (q * m)
    BY <1>1, <2>1, DivIs
  <2> QED
    BY <1>1, <1>2, <2>2, SMT DEF q, r
<1>3. CASE r + 1 = m
  <2>1. (q + 1) * m <= x + 1 /\ x + 1 < (q + 1 + 1) * m /\ x + 1 = (q + 1) * m
    BY <1>1, <1>3, SMT
  <2>2. (x + 1) \div m = q + 1 /\ (x + 1) % m = x + 1 - ((q + 1) * m)
    BY <1>1, <2>1, DivIs
  <2> QED
    BY <1>1, <1>3, <2>1, <2>2, SMT DEF q, r
<1> QED
  BY <1>1, <1>2, <1>3, SMT

-----------------------------------------------------------------------------
(* The clusters of a card. *)

LEMMA CardFacts ==
  ASSUME NEW c \in Cards, Formatted(c)
  PROVE  SoundLayout(c) /\ SoundRoot(c) /\ SoundListing(c) /\ SoundFiles(c)
  BY CardsAssumption

\* A cluster is onward of itself, with every cluster the FAT leads to, and
\* beyond the first there is nothing but those onward of the next.
LEMMA OnwardFacts ==
  ASSUME NEW c, NEW k \in Clusters(c)
  PROVE  /\ k \in Onward(c, k) /\ Onward(c, k) \subseteq Clusters(c)
         /\ \A x \in Onward(c, k) : FatEntry(c, x) \in Clusters(c) => FatEntry(c, x) \in Onward(c, k)
         /\ Onward(c, k) = {k} \union Beyond(c, k)
<1> DEFINE Closed(S) == \A y \in S : FatEntry(c, y) \in Clusters(c) => FatEntry(c, y) \in S
           next == FatEntry(c, k)
<1>1. ASSUME NEW l, NEW S \in SUBSET Clusters(c), l \in S, Closed(S)
      PROVE  Onward(c, l) \subseteq S
  BY <1>1 DEF Onward
<1>2. ASSUME NEW l \in Clusters(c)
      PROVE  /\ l \in Onward(c, l) /\ Onward(c, l) \in SUBSET Clusters(c)
             /\ Closed(Onward(c, l))
  <2>1. l \in Onward(c, l) /\ Onward(c, l) \in SUBSET Clusters(c)
    BY DEF Onward
  <2>2. ASSUME NEW y \in Onward(c, l), FatEntry(c, y) \in Clusters(c)
        PROVE  FatEntry(c, y) \in Onward(c, l)
    <3> SUFFICES ASSUME NEW S \in SUBSET Clusters(c), l \in S, Closed(S)
                 PROVE  FatEntry(c, y) \in S
      BY <2>2, Zenon DEF Onward
    <3>1. y \in S
      BY <1>1
    <3> QED
      BY <2>2, <3>1
  <2> QED
    BY <2>1, <2>2
<1>3. Beyond(c, k) \in SUBSET Clusters(c)
  BY <1>2 DEF Beyond
<1>4. Onward(c, k) \subseteq {k} \union Beyond(c, k)
  <2>1. Closed({k} \union Beyond(c, k))
    <3> SUFFICES ASSUME NEW y \in {k} \union Beyond(c, k), FatEntry(c, y) \in Clusters(c)
                 PROVE  FatEntry(c, y) \in {k} \union Beyond(c, k)
      OBVIOUS
    <3>1. CASE y = k
      BY <3>1, <1>2 DEF Beyond
    <3>2. CASE y \in Beyond(c, k)
      <4>1. next \in Clusters(c) /\ Beyond(c, k) = Onward(c, next)
        BY <3>2 DEF Beyond
      <4>2. Closed(Onward(c, next))
        BY <1>2, <4>1
      <4> HIDE DEF next
      <4> QED
        BY <3>2, <4>1, <4>2, Zenon
    <3> QED
      BY <3>1, <3>2
  <2> DEFINE B == {k} \union Beyond(c, k)
  <2>2. B \in SUBSET Clusters(c) /\ k \in B
    BY <1>3
  <2> HIDE DEF B
  <2>3. Closed(B)
    BY <2>1, Zenon DEF B
  <2>4. Onward(c, k) \subseteq B
    BY <1>1, <2>2, <2>3, Zenon
  <2> QED
    BY <2>4 DEF B
<1>5. Beyond(c, k) \subseteq Onward(c, k)
  <2>1. ASSUME next \in Clusters(c)
        PROVE  Onward(c, next) \subseteq Onward(c, k)
    <3>1. next \in Onward(c, k)
      BY <2>1, <1>2
    <3> QED
      BY <3>1, <1>1, <1>2
  <2> QED
    BY <2>1 DEF Beyond
<1> QED
  BY <1>2, <1>4, <1>5

-----------------------------------------------------------------------------
(* The card that is mounted. *)

\* The file system object is that of a sound card.
Mounting == fs.type # 0 /\ Mount

LEMMA MountFacts ==
  ASSUME Mounting
  PROVE  /\ medium \in Cards /\ Formatted(medium)
         /\ SoundLayout(medium) /\ SoundRoot(medium) /\ SoundListing(medium) /\ SoundFiles(medium)
         /\ fs.type = Layout(medium).type /\ fs.fatbase = Layout(medium).fatbase
         /\ fs.dirbase = Layout(medium).dirbase /\ fs.database = Layout(medium).database
         /\ fs.max_clust = Layout(medium).max_clust /\ fs.n_rootdir = Layout(medium).n_rootdir
         /\ fs.sects_clust = Layout(medium).sects_clust
         /\ fs.fatbase \in Nat \ {0} /\ fs.dirbase \in Nat /\ fs.database \in Nat
         /\ fs.max_clust \in Nat /\ fs.n_rootdir \in Nat \ {0} /\ fs.sects_clust \in Nat \ {0}
<1>1. medium \in Cards /\ Formatted(medium) /\ fs = [Layout(medium) EXCEPT !.id = fs.id]
  BY DEF Mounting, Mount
<1>2. SoundLayout(medium) /\ SoundRoot(medium) /\ SoundListing(medium) /\ SoundFiles(medium)
  BY <1>1, CardFacts
<1>3. /\ fs.type = Layout(medium).type /\ fs.fatbase = Layout(medium).fatbase
      /\ fs.dirbase = Layout(medium).dirbase /\ fs.database = Layout(medium).database
      /\ fs.max_clust = Layout(medium).max_clust /\ fs.n_rootdir = Layout(medium).n_rootdir
      /\ fs.sects_clust = Layout(medium).sects_clust
  BY <1>1 DEF Layout, FatFs
<1>4. /\ fs.fatbase \in Nat \ {0} /\ fs.dirbase \in Nat /\ fs.database \in Nat
      /\ fs.max_clust \in Nat /\ fs.n_rootdir \in Nat \ {0} /\ fs.sects_clust \in Nat \ {0}
  BY <1>2, <1>3 DEF SoundLayout
<1> QED
  BY <1>1, <1>2, <1>3, <1>4

\* Links of the code are clusters of the card.
LEMMA LinkFacts ==
  ASSUME Mounting, NEW k \in Int
  PROVE  /\ IsLink(k) <=> k \in Clusters(medium)
         /\ Clust2Sect(k) = IF k \in Clusters(medium) THEN FirstSect(medium, k) ELSE 0
<1>1. IsLink(k) <=> k \in Clusters(medium)
  BY MountFacts DEF IsLink, Clusters
<1> QED
  BY <1>1, MountFacts DEF Clust2Sect, FirstSect

\* The clusters lie behind the tables.
LEMMA ClusterSects ==
  ASSUME NEW c \in Cards, Formatted(c), NEW k \in Clusters(c)
  PROVE  /\ FirstSect(c, k) \in Nat /\ FirstSect(c, k) >= Layout(c).database
         /\ SectsOf(c, k) \subseteq Nat
         /\ \A s \in SectsOf(c, k) : s >= Layout(c).database
<1>1. /\ Layout(c).database \in Nat /\ Layout(c).sects_clust \in Nat \ {0}
      /\ k \in Int /\ k >= 2
  BY CardFacts DEF SoundLayout, Clusters
<1>2. (k - 2) * Layout(c).sects_clust \in Nat
  BY <1>1, SMT
<1> QED
  BY <1>1, <1>2, SMT DEF FirstSect, SectsOf

-----------------------------------------------------------------------------
(* The window. *)

\* What Window says of fs__win, of any window.
Shows(w) ==
  w.sect # 0 => /\ w.data = Contents(medium, w.sect)
                /\ w.sect \notin Own(medium) \/ Partial(medium, w.sect)

LEMMA MoveWindowShows ==
  ASSUME Mounting, NEW w, Shows(w), NEW s, s = 0 \/ s \notin Own(medium) \/ Partial(medium, s),
         NEW m \in MoveWindow(w, s)
  PROVE  Shows(m.win) /\ m.ok \in BOOLEAN
         /\ (s # 0 /\ m.ok => m.win.sect = s /\ m.win.data = Contents(medium, s))
<1>1. CASE s \in {w.sect, 0}
  <2>1. m = [ok |-> TRUE, win |-> w]
    BY <1>1 DEF MoveWindow
  <2> QED
    BY <1>1, <2>1 DEF Shows
<1>2. CASE s \notin {w.sect, 0}
  <2>1. PICK r \in DiskRead(s) :
          m = [ok |-> r.ok, win |-> IF r.ok THEN [sect |-> s, data |-> r.data] ELSE w]
    BY <1>2 DEF MoveWindow
  <2>2. CASE r = Failure
    BY <2>1, <2>2 DEF Failure, Shows
  <2>3. CASE r = [ok |-> TRUE, data |-> Contents(slot, s)] /\ Alive
    <3>1. slot = medium
      BY <2>3 DEF Mounting, Mount
    <3> QED
      BY <2>1, <2>3, <3>1 DEF Shows
  <2> QED
    BY <2>1, <2>2, <2>3 DEF DiskRead
<1> QED
  BY <1>1, <1>2

\* A sector that no image owns is as the card came.
LEMMA Untouched ==
  ASSUME Written, NEW c \in Cards, NEW s, s \notin Own(c)
  PROVE  Contents(c, s) = Volume[c][s]
  BY DEF Written, Contents

\* Each sector of an image is one of a cluster of it.
LEMMA SectorOf ==
  ASSUME NEW c \in Cards, Formatted(c), NEW f, NEW e, Describes(c, f, e), NEW i \in DOMAIN f.sectors
  PROVE  \E j \in DOMAIN f.clusts : \E k \in 0 .. Layout(c).sects_clust - 1 :
           /\ i = (j - 1) * Layout(c).sects_clust + k + 1 /\ f.clusts[j] \in Clusters(c)
           /\ f.sectors[i] = FirstSect(c, f.clusts[j]) + k
<1> DEFINE per == Layout(c).sects_clust
<1>1. per \in Nat /\ per > 0
  BY CardFacts DEF SoundLayout
<1>2. /\ f.clusts \in Seq(Clusters(c)) /\ f.sectors \in Seq(Nat)
      /\ Len(f.sectors) = Len(f.clusts) * per
      /\ \A j \in DOMAIN f.clusts : \A k \in 0 .. per - 1 :
           f.sectors[(j - 1) * per + k + 1] = FirstSect(c, f.clusts[j]) + k
  BY DEF Describes
<1> HIDE DEF per
<1>3. Len(f.clusts) \in Nat /\ i \in 1 .. Len(f.clusts) * per
  BY <1>2
<1>4. PICK j \in 1 .. Len(f.clusts), k \in 0 .. per - 1 : i = (j - 1) * per + k + 1
  BY <1>1, <1>3, Rows, Zenon
<1>5. j \in DOMAIN f.clusts /\ f.clusts[j] \in Clusters(c)
  BY <1>2, <1>4
<1> QED
  BY <1>2, <1>4, <1>5 DEF per

\* The sectors of images lie behind the tables.
LEMMA OwnBehind ==
  ASSUME NEW c \in Cards, Formatted(c), NEW s \in Own(c)
  PROVE  s \in Nat /\ s >= Layout(c).database
<1>1. PICK n \in DOMAIN Files[c] : \E i \in DOMAIN Files[c][n].sectors : s = Files[c][n].sectors[i]
  BY DEF Own
<1>2. PICK i \in DOMAIN Files[c][n].sectors : s = Files[c][n].sectors[i]
  BY <1>1
<1>3. PICK e \in Images(c) : Describes(c, Files[c][n], e)
  BY CardFacts DEF SoundFiles
<1> QED
  BY <1>2, <1>3, SectorOf, ClusterSects, CardFacts DEF SoundLayout

-----------------------------------------------------------------------------
(* The FAT. *)

\* A sector of the FAT is no image's, and is as the card came.
LEMMA FatSector ==
  ASSUME Mounting, Written, NEW k \in Clusters(medium), NEW s \in Nat,
         fs.fatbase + s <= FatLast(medium, k)
  PROVE  /\ fs.fatbase + s # 0 /\ fs.fatbase + s \notin Own(medium)
         /\ Contents(medium, fs.fatbase + s) = Volume[medium][Layout(medium).fatbase + s]
<1>1. FatLast(medium, k) < Layout(medium).database /\ FatLast(medium, k) \in Int
  <2>1. Layout(medium).fatbase \in Nat /\ FatLast(medium, k) < Layout(medium).database
    BY MountFacts DEF SoundLayout
  <2>2. k \in Nat /\ Half \in Nat /\ Half > 0 /\ SectorSize \in Nat /\ SectorSize > 0
    BY SizesAssumption, MountFacts DEF Clusters, Half
  <2>3. k \div Half \in Int /\ Table12(k) \in Int /\ (Table12(k) + 1) \div SectorSize \in Int
    BY <2>2, DivMod, SMT DEF Table12
  <2> QED
    BY <2>1, <2>3 DEF FatLast
<1>2. fs.fatbase + s \notin Own(medium)
  BY <1>1, OwnBehind, MountFacts
<1> QED
  BY <1>2, Untouched, MountFacts

\* get_cluster returns the entry that the card has for a cluster, or 1.
LEMMA GetClusterReads ==
  ASSUME Mounting, Written, NEW k \in Int, NEW w, Shows(w), NEW g \in GetCluster(k, w)
  PROVE  /\ Shows(g.win)
         /\ g.next = 1 \/ (k \in Clusters(medium) /\ g.next = FatEntry(medium, k))
<1> DEFINE bc == Table12(k)
           lo == bc \div SectorSize
           hi == (bc + 1) \div SectorSize
<1>1. CASE k \notin Clusters(medium)
  <2>1. ~IsLink(k)
    BY <1>1, LinkFacts
  <2> QED
    BY <2>1 DEF GetCluster
<1>2. CASE k \in Clusters(medium)
  <2>1. IsLink(k)
    BY <1>2, LinkFacts
  <2>2. k \in Nat /\ Half \in Nat /\ Half > 0 /\ SectorSize \in Nat /\ SectorSize > 0 /\ bc \in Nat
    BY <1>2, SizesAssumption, MountFacts DEF Clusters, Half, Table12
  <2>3. CASE fs.type = 16
    <3> DEFINE s == fs.fatbase + k \div Half
    <3>1. k \div Half \in Nat
      BY <2>2, DivGrows
    <3>2. s <= FatLast(medium, k)
      BY <2>3, <3>1, MountFacts DEF FatLast
    <3>3. s # 0 /\ s \notin Own(medium) /\ Contents(medium, s) = Volume[medium][Layout(medium).fatbase + k \div Half]
      BY <1>2, <3>1, <3>2, FatSector
    <3>4. PICK m \in MoveWindow(w, s) :
            g = IF m.ok THEN [next |-> m.win.data[(k * 2) % SectorSize]
                                         + (256 * m.win.data[((k * 2) % SectorSize) + 1]),
                              win |-> m.win]
                ELSE [next |-> 1, win |-> m.win]
      BY <2>1, <2>3 DEF GetCluster
    <3> HIDE DEF s
    <3>5. Shows(m.win) /\ (m.ok => m.win.data = Contents(medium, s)) /\ m.ok \in BOOLEAN
      BY <3>3, MoveWindowShows
    <3>6. Layout(medium).type = 16
      BY <2>3, MountFacts
    <3> QED
      BY <1>2, <3>3, <3>4, <3>5, <3>6 DEF FatEntry
  <2>4. CASE fs.type # 16
    <3> DEFINE s == fs.fatbase + lo
               u == fs.fatbase + hi
    <3>1. lo \in Nat /\ hi \in Nat /\ lo <= hi
      BY <2>2, DivGrows
    <3> HIDE DEF lo, hi
    <3>2. s <= FatLast(medium, k) /\ u <= FatLast(medium, k)
      BY <2>4, <3>1, MountFacts DEF FatLast, hi
    <3>3. /\ s # 0 /\ s \notin Own(medium) /\ Contents(medium, s) = Volume[medium][Layout(medium).fatbase + lo]
          /\ u # 0 /\ u \notin Own(medium) /\ Contents(medium, u) = Volume[medium][Layout(medium).fatbase + hi]
      BY <1>2, <3>1, <3>2, FatSector
    <3> HIDE DEF s, u
    <3>4. PICK m \in MoveWindow(w, s) :
            \/ ~m.ok /\ g = [next |-> 1, win |-> m.win]
            \/ m.ok /\ \E n \in MoveWindow(m.win, u) :
                 g = IF n.ok THEN [next |-> Fat12(k, m.win.data[bc % SectorSize],
                                                  n.win.data[(bc + 1) % SectorSize]),
                                   win |-> n.win] ELSE [next |-> 1, win |-> n.win]
      BY <2>1, <2>4 DEF GetCluster, s, u, lo, hi, Table12
    <3>5. Shows(m.win) /\ (m.ok => m.win.data = Contents(medium, s)) /\ m.ok \in BOOLEAN
      BY <3>3, MoveWindowShows
    <3>6. CASE ~m.ok
      BY <3>4, <3>5, <3>6
    <3>7. CASE m.ok
      <4>1. PICK n \in MoveWindow(m.win, u) :
                 g = IF n.ok THEN [next |-> Fat12(k, m.win.data[bc % SectorSize],
                                                  n.win.data[(bc + 1) % SectorSize]),
                                   win |-> n.win] ELSE [next |-> 1, win |-> n.win]
        BY <3>4, <3>7
      <4>2. Shows(n.win) /\ (n.ok => n.win.data = Contents(medium, u)) /\ n.ok \in BOOLEAN
        BY <3>3, <3>5, MoveWindowShows
      <4>3. Layout(medium).type # 16
        BY <2>4, MountFacts
      <4>4. FatEntry(medium, k) = Fat12(k, Contents(medium, s)[bc % SectorSize],
                                        Contents(medium, u)[(bc + 1) % SectorSize])
        BY <3>3, <4>3 DEF FatEntry, lo, hi
      <4> QED
        BY <1>2, <3>5, <3>7, <4>1, <4>2, <4>4
    <3> QED
      BY <3>4, <3>6, <3>7
  <2> QED
    BY <2>3, <2>4
<1> QED
  BY <1>1, <1>2

-----------------------------------------------------------------------------
(* Directories. *)

\* The slot at a place.
Here(d) == <<d.sect, d.index % PerSector>>

\* In the same sector the next slot comes.
LEMMA NextInSector ==
  ASSUME NEW c, NEW d, NEW e, d.index \in Nat, e.clust = d.clust, e.sect = d.sect,
         e.index % PerSector = (d.index % PerSector) + 1
  PROVE  Coming(c, d) \subseteq {Here(d)} \union Coming(c, e) /\ Coming(c, e) \subseteq Coming(c, d)
<1> DEFINE r == d.index % PerSector
<1>1. r \in 0 .. PerSector - 1 /\ PerSector \in Nat
  BY SizesAssumption, ModRange
<1>2. After(c, d) = After(c, e)
  BY DEF After
<1>3. r .. PerSector - 1 = {r} \union r + 1 .. PerSector - 1
  BY <1>1, SMT
<1> HIDE DEF r
<1>4. /\ Coming(c, d) = ({d.sect} \X (r .. PerSector - 1)) \union (After(c, d) \X (0 .. PerSector - 1))
      /\ Coming(c, e) = ({d.sect} \X (r + 1 .. PerSector - 1)) \union (After(c, d) \X (0 .. PerSector - 1))
      /\ Here(d) = <<d.sect, r>>
  BY <1>2 DEF Coming, Here, r
<1> QED
  BY <1>3, <1>4

\* Else the sectors that come after it.
LEMMA NextAfter ==
  ASSUME NEW c, NEW d, NEW e, d.index \in Nat, e.index % PerSector = 0,
         d.index % PerSector = PerSector - 1, After(c, d) = {e.sect} \union After(c, e)
  PROVE  Coming(c, d) = {Here(d)} \union Coming(c, e)
<1>1. PerSector \in Nat
  BY SizesAssumption
<1>2. d.index % PerSector .. PerSector - 1 = {PerSector - 1}
  BY <1>1, SMT
<1>3. /\ Coming(c, d) = ({d.sect} \X {PerSector - 1}) \union (After(c, d) \X (0 .. PerSector - 1))
      /\ Coming(c, e) = ({e.sect} \X (0 .. PerSector - 1)) \union (After(c, e) \X (0 .. PerSector - 1))
      /\ Here(d) = <<d.sect, PerSector - 1>>
  BY <1>2 DEF Coming, Here
<1> QED
  BY <1>3

\* next_dir_entry goes to the next slot that comes, and, unless it is cut
\* short, stops where none does.
LEMMA NextInFolder ==
  ASSUME Mounting, Written, NEW d, FolderPlace(medium, d), NEW w, Shows(w), NEW n \in NextDirEntry(d, w)
  PROVE  /\ Shows(n.win) /\ n.ok \in BOOLEAN /\ n.cut \in BOOLEAN
         /\ n.ok => /\ FolderPlace(medium, n.dir) /\ n.dir.id = d.id
                    /\ Coming(medium, d) \subseteq {Here(d)} \union Coming(medium, n.dir)
         /\ ~n.ok /\ ~n.cut => Coming(medium, d) \subseteq {Here(d)}
         /\ ~n.ok => IsPlace(n.dir) /\ n.dir.id = d.id
<1> DEFINE c   == medium
           k   == d.clust
           i   == d.index
           per == Layout(medium).sects_clust
           q   == i \div PerSector
           on  == [d EXCEPT !.sect = @ + 1, !.index = i + 1]
           Yes(e, v)   == [ok |-> TRUE, dir |-> e, win |-> v, cut |-> FALSE]
           No(cut, v)  == [ok |-> FALSE, dir |-> [d EXCEPT !.sect = @ + 1], win |-> v, cut |-> cut]
<1>1. /\ k \in Clusters(c) /\ k \in Int /\ k >= 2 /\ i \in Nat /\ PerSector \in Nat /\ PerSector > 2
      /\ PerSector > 0 /\ per \in Nat /\ per > 0 /\ fs.sects_clust = per /\ IsPlace(d)
      /\ d.sect = FirstSect(c, k) + (q % per) /\ Coming(c, d) \subseteq Listing(c)
      /\ \E l \in Folders(c) : k \in {l} \union Onward(c, l)
      /\ FirstSect(c, k) \in Nat
  BY SizesAssumption, MountFacts, ClusterSects, SMTT(30) DEF FolderPlace, Clusters
<1>2. q \in Nat /\ q % per \in 0 .. per - 1
  BY <1>1, DivGrows, ModRange
<1>3. Here(d) \in Coming(c, d)
  <2>1. i % PerSector \in 0 .. PerSector - 1
    BY <1>1, ModRange
  <2> QED
    BY <1>1, <2>1 DEF Coming, Here
<1>4. CASE (i + 1) % PerSector # 0
  <2> DEFINE e == [d EXCEPT !.index = i + 1]
  <2>1. n = Yes(e, w)
    BY <1>4 DEF NextDirEntry
  <2>2. /\ e.clust = k /\ e.sect = d.sect /\ e.index = i + 1 /\ e.id = d.id /\ IsPlace(e)
    BY <1>1 DEF IsPlace
  <2>3. (i + 1) \div PerSector = q /\ (i + 1) % PerSector = (i % PerSector) + 1
    BY <1>1, <1>4, NextRow, Zenon
  <2> HIDE DEF e
  <2>4. Coming(c, d) \subseteq {Here(d)} \union Coming(c, e) /\ Coming(c, e) \subseteq Coming(c, d)
    BY <1>1, <2>2, <2>3, NextInSector
  <2>5. FolderPlace(medium, e)
    BY <1>1, <2>2, <2>3, <2>4 DEF FolderPlace
  <2> QED
    BY <2>1, <2>2, <2>4, <2>5
<1>5. CASE (i + 1) % PerSector = 0
  <2>1. (i + 1) \div PerSector = q + 1 /\ i % PerSector = PerSector - 1
    BY <1>1, <1>5, NextRow, Zenon
  <2>2. k # 0
    BY <1>1
  <2>3. CASE (q + 1) % per # 0
    <3>1. n = Yes(on, w)
      BY <1>1, <1>5, <2>1, <2>2, <2>3 DEF NextDirEntry
    <3>2. on.clust = k /\ on.sect = d.sect + 1 /\ on.index = i + 1 /\ on.id = d.id /\ IsPlace(on)
      BY <1>1 DEF IsPlace
    <3>3. (q + 1) % per = (q % per) + 1 /\ (q + 1) % per \in 0 .. per - 1
      <4>1. (q + 1) % per = (q % per) + 1
        BY <1>1, <1>2, <2>3, NextRow, Zenon
      <4> QED
        BY <1>1, <1>2, <4>1, ModRange
    <3> HIDE DEF on, q
    <3>4. {s \in SectsOf(c, k) : s > d.sect} = {d.sect + 1} \union {s \in SectsOf(c, k) : s > d.sect + 1}
      BY <1>1, <1>2, <3>3 DEF SectsOf
    <3>5. After(c, d) = {on.sect} \union After(c, on)
      BY <3>2, <3>4 DEF After
    <3>6. Coming(c, d) = {Here(d)} \union Coming(c, on)
      BY <1>1, <1>5, <2>1, <3>2, <3>5, NextAfter
    <3>7. FolderPlace(medium, on)
      BY <1>1, <1>2, <2>1, <3>2, <3>3, <3>6 DEF FolderPlace
    <3> QED
      BY <3>1, <3>2, <3>6, <3>7
  <2>4. CASE (q + 1) % per = 0
    <3>1. q % per = per - 1
      BY <1>1, <1>2, <2>4, NextRow
    <3>2. {s \in SectsOf(c, k) : s > d.sect} = {}
      BY <1>1, <3>1 DEF SectsOf
    <3>3. After(c, d) = UNION {SectsOf(c, x) : x \in Beyond(c, k)}
      BY <3>2 DEF After
    <3>4. PICK g \in GetCluster(k, w) :
            n = IF IsLink(g.next)
                THEN Yes([on EXCEPT !.clust = g.next, !.sect = Clust2Sect(g.next)], g.win)
                ELSE No(g.next = 1, g.win)
      BY <1>1, <1>5, <2>1, <2>2, <2>4 DEF NextDirEntry
    <3>5. Shows(g.win) /\ (g.next = 1 \/ g.next = FatEntry(c, k))
      BY <1>1, GetClusterReads
    <3>6. FatEntry(c, k) \in Nat
      BY <1>1, MountFacts DEF SoundLayout
    <3>7. g.next \in Int /\ (IsLink(g.next) <=> g.next \in Clusters(c)) /\ 1 \notin Clusters(c)
      BY <3>5, <3>6, LinkFacts DEF Clusters
    <3>8. CASE IsLink(g.next)
      <4> DEFINE l == g.next
                 e == [on EXCEPT !.clust = l, !.sect = Clust2Sect(l)]
      <4>1. l = FatEntry(c, k) /\ l \in Clusters(c) /\ Clust2Sect(l) = FirstSect(c, l)
        BY <3>5, <3>7, <3>8, LinkFacts
      <4>2. /\ e.clust = l /\ e.sect = FirstSect(c, l) /\ e.index = i + 1 /\ e.id = d.id /\ IsPlace(e)
        BY <1>1, <4>1 DEF IsPlace
      <4>3. n = Yes(e, g.win)
        BY <3>4, <3>8
      <4> HIDE DEF e, on, q, l
      <4>4. Beyond(c, k) = {l} \union Beyond(c, l)
        BY <4>1, OnwardFacts DEF Beyond
      <4>5. FirstSect(c, l) \in Nat /\ SectsOf(c, l) = {FirstSect(c, l)} \union {s \in SectsOf(c, l) : s > FirstSect(c, l)}
        <5>1. FirstSect(c, l) \in Nat
          BY <4>1, ClusterSects, MountFacts
        <5> QED
          BY <1>1, <5>1 DEF SectsOf
      <4>6. UNION {SectsOf(c, x) : x \in {l} \union Beyond(c, l)}
              = SectsOf(c, l) \union UNION {SectsOf(c, x) : x \in Beyond(c, l)}
        BY Zenon
      <4>7. After(c, d) = {e.sect} \union After(c, e)
        BY <3>3, <4>2, <4>4, <4>5, <4>6 DEF After
      <4>8. Coming(c, d) = {Here(d)} \union Coming(c, e)
        BY <1>1, <1>5, <2>1, <4>2, <4>7, NextAfter
      <4>9. \E m \in Folders(c) : l \in {m} \union Onward(c, m)
        <5>1. PICK m \in Folders(c) : k \in {m} \union Onward(c, m)
          BY <1>1
        <5>2. m \in Clusters(c)
          BY MountFacts DEF SoundRoot
        <5>3. k \in Onward(c, m)
          BY <5>1, <5>2, OnwardFacts
        <5> QED
          BY <4>1, <5>2, <5>3, OnwardFacts
      <4>10. FolderPlace(medium, e)
        BY <1>1, <2>1, <2>4, <4>1, <4>2, <4>5, <4>8, <4>9 DEF FolderPlace
      <4> QED
        BY <3>5, <4>2, <4>3, <4>8, <4>10
    <3>9. CASE ~IsLink(g.next)
      <4>1. n = No(g.next = 1, g.win)
        BY <3>4, <3>9
      <4>2. g.next # 1 => FatEntry(c, k) \notin Clusters(c)
        BY <3>5, <3>7, <3>9
      <4>3. g.next # 1 => Coming(c, d) \subseteq {Here(d)}
        <5> SUFFICES ASSUME g.next # 1 PROVE Coming(c, d) \subseteq {Here(d)}
          OBVIOUS
        <5>1. After(c, d) = {}
          BY <3>3, <4>2 DEF Beyond
        <5>2. i % PerSector .. PerSector - 1 = {i % PerSector}
          BY <1>1, <2>1
        <5> QED
          BY <5>1, <5>2 DEF Coming, Here
      <4>4. IsPlace([d EXCEPT !.sect = @ + 1]) /\ [d EXCEPT !.sect = @ + 1].id = d.id
        BY <1>1 DEF IsPlace
      <4> QED
        BY <3>5, <4>1, <4>3, <4>4
    <3> QED
      BY <3>8, <3>9
  <2> QED
    BY <2>3, <2>4
<1> QED
  BY <1>4, <1>5

\* Where next_dir_entry goes in the root, and that it misses no folder.
LEMMA NextInRoot ==
  ASSUME Mounting, NEW d, RootPlace(medium, d), NEW w, NEW n \in NextDirEntry(d, w),
         ~IsFolder(medium, d.index)
  PROVE  /\ n.win = w /\ n.ok \in BOOLEAN /\ n.cut = FALSE
         /\ n.ok => RootPlace(medium, n.dir)
         /\ ~n.ok => Folders(medium) = {}
<1> DEFINE c    == medium
           i    == d.index
           last == Layout(c).n_rootdir
           No   == [ok |-> FALSE, dir |-> [d EXCEPT !.sect = @ + 1], win |-> w, cut |-> FALSE]
           Yes(e) == [ok |-> TRUE, dir |-> e, win |-> w, cut |-> FALSE]
<1>1. /\ d.clust = 0 /\ i \in Nat /\ i < last /\ last \in Nat /\ d.sect = RootSect(c, i) /\ IsPlace(d)
      /\ \A j \in RootSlots(c) : IsFolder(c, j) => j >= i
      /\ PerSector \in Nat /\ PerSector > 0 /\ last % PerSector = 0 /\ fs.n_rootdir = last
      /\ Layout(c).dirbase \in Nat
  BY SizesAssumption, MountFacts DEF RootPlace, RootSlots, SoundLayout
<1>2. \A j \in RootSlots(c) : IsFolder(c, j) => j >= i + 1
  BY <1>1 DEF RootSlots
<1>3. i \div PerSector \in Nat
  BY <1>1, DivGrows
<1>4. CASE (i + 1) % PerSector # 0
  <2> DEFINE e == [d EXCEPT !.index = i + 1]
  <2>1. n = Yes(e)
    BY <1>4 DEF NextDirEntry
  <2>2. e.clust = 0 /\ e.sect = d.sect /\ e.index = i + 1 /\ IsPlace(e)
    BY <1>1 DEF IsPlace
  <2>3. (i + 1) \div PerSector = i \div PerSector
    BY <1>1, <1>4, NextRow, Zenon
  <2>4. i + 1 # last
    BY <1>1, <1>4
  <2> HIDE DEF e
  <2>5. RootPlace(medium, e)
    BY <1>1, <1>2, <2>2, <2>3, <2>4 DEF RootPlace, RootSlots, RootSect
  <2> QED
    BY <2>1, <2>5
<1>5. CASE (i + 1) % PerSector = 0 /\ i + 1 >= last
  <2>1. n = No
    BY <1>1, <1>5 DEF NextDirEntry
  <2>2. Folders(c) = {}
    BY <1>1, <1>2, <1>5 DEF Folders, RootSlots
  <2> QED
    BY <2>1, <2>2
<1>6. CASE (i + 1) % PerSector = 0 /\ i + 1 < last
  <2> DEFINE e == [d EXCEPT !.sect = @ + 1, !.index = i + 1]
  <2>1. n = Yes(e)
    BY <1>1, <1>6 DEF NextDirEntry
  <2>2. e.clust = 0 /\ e.sect = d.sect + 1 /\ e.index = i + 1 /\ IsPlace(e)
    BY <1>1 DEF IsPlace
  <2>3. (i + 1) \div PerSector = (i \div PerSector) + 1
    BY <1>1, <1>6, NextRow, Zenon
  <2> HIDE DEF e
  <2>4. RootPlace(medium, e)
    BY <1>1, <1>2, <1>3, <1>6, <2>2, <2>3 DEF RootPlace, RootSlots, RootSect
  <2> QED
    BY <2>1, <2>4
<1>7. i + 1 >= last \/ i + 1 < last
  BY <1>1
<1> QED
  BY <1>4, <1>5, <1>6, <1>7, Zenon

\* The entry that is looked at is the one that the card came with.
LEMMA RootRead ==
  ASSUME Mounting, Written, NEW d, RootPlace(medium, d), NEW w, Shows(w), NEW m \in MoveWindow(w, d.sect)
  PROVE  /\ Shows(m.win) /\ m.ok \in BOOLEAN
         /\ m.ok => EntryAt(d, m.win) = RootEntry(medium, d.index)
<1>1. /\ d.index \in RootSlots(medium) /\ d.sect = RootSect(medium, d.index)
      /\ d.index \in Nat /\ PerSector \in Nat /\ PerSector > 0
  BY SizesAssumption DEF RootPlace, RootSlots
<1>2. d.index \div PerSector \in Nat
  BY <1>1, DivGrows
<1>3. d.sect \in Nat /\ d.sect # 0 /\ d.sect < Layout(medium).database
  BY <1>1, <1>2, MountFacts DEF SoundLayout, RootSect
<1>4. d.sect \notin Own(medium)
  BY <1>3, OwnBehind, MountFacts
<1>5. Contents(medium, d.sect) = Volume[medium][d.sect]
  BY <1>4, Untouched, MountFacts
<1>6. Shows(m.win) /\ m.ok \in BOOLEAN /\ (m.ok => m.win.data = Contents(medium, d.sect))
  BY <1>3, <1>4, MoveWindowShows
<1> QED
  BY <1>1, <1>5, <1>6 DEF EntryAt, RootEntry

LEMMA HereComes ==
  ASSUME NEW c, NEW d, d.index \in Nat
  PROVE  Here(d) \in Coming(c, d)
<1>1. d.index % PerSector \in 0 .. PerSector - 1 /\ PerSector \in Nat
  BY SizesAssumption, ModRange
<1> QED
  BY <1>1 DEF Coming, Here

\* It is in a sector.
LEMMA PlaceSector ==
  ASSUME Mounting, NEW d, FolderPlace(medium, d)
  PROVE  d.sect # 0
<1> DEFINE q == d.index \div PerSector
           per == Layout(medium).sects_clust
<1>1. PerSector \in Nat /\ PerSector > 0 /\ per \in Nat /\ per > 0
      /\ d.index \in Nat /\ d.clust \in Clusters(medium)
  BY SizesAssumption, MountFacts DEF SoundLayout, FolderPlace
<1>2. q \in Nat
  BY <1>1, DivGrows
<1>3. q % per \in 0 .. per - 1
  BY <1>1, <1>2, ModRange
<1>4. FirstSect(medium, d.clust) \in Nat /\ FirstSect(medium, d.clust) >= Layout(medium).database
  BY <1>1, ClusterSects, MountFacts
<1>5. Layout(medium).database > 0
  <2>1. 0 \in RootSlots(medium) /\ RootSect(medium, 0) < Layout(medium).database
    BY MountFacts DEF SoundLayout, RootSlots
  <2>2. 0 \div PerSector \in Nat
    BY <1>1, DivGrows
  <2> QED
    BY <2>1, <2>2, MountFacts DEF RootSect
<1>6. d.sect = FirstSect(medium, d.clust) + (q % per)
  BY DEF FolderPlace
<1>7. Layout(medium).database \in Nat
  BY MountFacts DEF SoundLayout
<1> HIDE DEF q, per
<1> QED
  BY <1>1, <1>3, <1>4, <1>5, <1>6, <1>7

LEMMA FolderRead ==
  ASSUME Mounting, Written, NEW d, FolderPlace(medium, d), NEW w, Shows(w), NEW m \in MoveWindow(w, d.sect)
  PROVE  /\ Shows(m.win) /\ m.ok \in BOOLEAN /\ Here(d) \in Listing(medium)
         /\ d.sect # 0
         /\ m.ok => EntryAt(d, m.win) = SlotEntry(medium, Here(d))
<1>1. d.index \in Nat /\ Here(d) \in Listing(medium) /\ d.clust \in Clusters(medium)
  BY HereComes DEF FolderPlace
<1>2. d.sect \notin Own(medium)
  BY <1>1, MountFacts DEF SoundListing, Here
<1>3. d.sect # 0
  BY PlaceSector
<1>4. Contents(medium, d.sect) = Volume[medium][d.sect]
  BY <1>2, Untouched, MountFacts
<1>5. Shows(m.win) /\ m.ok \in BOOLEAN /\ (m.ok => m.win.data = Contents(medium, d.sect))
  BY <1>2, <1>3, MoveWindowShows
<1> QED
  BY <1>1, <1>3, <1>4, <1>5 DEF EntryAt, SlotEntry, Here

\* There is one directory of the images at most, and it starts with all of
\* them to come.
LEMMA FolderTop ==
  ASSUME Mounting, NEW d, IsPlace(d), NEW i \in RootSlots(medium), IsFolder(medium, i)
  PROVE  LET e == SubDir(d, RootEntry(medium, i)) IN
         /\ FolderPlace(medium, e) /\ e.id = d.id
         /\ \A n \in DOMAIN Files[medium] : Ahead(medium, n, e)
<1> DEFINE c == medium
           k == RootEntry(c, i).clust
           e == SubDir(d, RootEntry(c, i))
<1>1. k \in Folders(c) /\ k \in Clusters(c)
  BY MountFacts DEF Folders, SoundRoot
<1>2. Folders(c) = {k}
  <2>1. ASSUME NEW j \in RootSlots(c), IsFolder(c, j) PROVE j = i
    BY <2>1, MountFacts DEF SoundRoot, IsFolder
  <2> QED
    BY <1>1, <2>1 DEF Folders
<1>3. Clust2Sect(k) = FirstSect(c, k)
  BY <1>1, LinkFacts DEF Clusters
<1>4. e.clust = k /\ e.sect = FirstSect(c, k) /\ e.index = 2 /\ e.id = d.id /\ IsPlace(e)
  BY <1>3 DEF SubDir, IsPlace
<1> HIDE DEF e
<1>5. Coming(c, e) = Coming(c, Top(c, k)) /\ Listing(c) = Coming(c, Top(c, k))
  <2>1. Coming(c, e) = Coming(c, Top(c, k))
    BY <1>4 DEF Coming, After, Top
  <2> QED
    BY <1>2, <2>1 DEF Listing
<1>6. (2 \div PerSector) % Layout(c).sects_clust = 0
  <2>1. 2 \div PerSector = 0
    BY SizesAssumption, DivIs
  <2>2. Layout(c).sects_clust \in Nat /\ Layout(c).sects_clust > 0
    BY MountFacts DEF SoundLayout
  <2>3. 0 % Layout(c).sects_clust = 0
    BY <2>2, DivIs
  <2> QED
    BY <2>1, <2>3
<1>7. FirstSect(c, k) \in Nat
  BY <1>1, ClusterSects, MountFacts
<1>8. FolderPlace(medium, e)
  BY <1>1, <1>4, <1>5, <1>6, <1>7 DEF FolderPlace
<1>9. ASSUME NEW n \in DOMAIN Files[c] PROVE Ahead(medium, n, e)
  <2>1. PICK x \in Images(c) : Spells(n, x.name)
    BY MountFacts DEF SoundFiles
  <2> QED
    BY <1>5, <2>1 DEF Ahead, Images
<1> QED
  BY <1>4, <1>8, <1>9 DEF e

-----------------------------------------------------------------------------
(* Names. *)

LEMMA LeastIs ==
  ASSUME NEW I \in SUBSET Nat, NEW i \in I, \A j \in I : i <= j
  PROVE  Min(I) = i
<1>1. \A j \in I : (\A l \in I : j <= l) => j = i
  BY SMT
<1> QED
  BY <1>1 DEF Min

\* What comes before the first of a character.
LEMMA UptoFacts ==
  ASSUME NEW S, NEW s \in Seq(S), NEW ch
  PROVE  /\ (\A j \in 1 .. Len(s) : s[j] # ch) => Upto(s, ch) = s
         /\ \A i \in 1 .. Len(s) :
              s[i] = ch /\ (\A j \in 1 .. i - 1 : s[j] # ch) => Upto(s, ch) = SubSeq(s, 1, i - 1)
<1> DEFINE I == {i \in 1 .. Len(s) : s[i] = ch}
<1>1. SelectInSeq(s, LAMBDA x : x = ch) = IF I # {} THEN Min(I) ELSE 0
  BY DEF SelectInSeq
<1>2. ASSUME \A j \in 1 .. Len(s) : s[j] # ch PROVE Upto(s, ch) = s
  BY <1>1, <1>2 DEF Upto
<1>3. ASSUME NEW i \in 1 .. Len(s), s[i] = ch, \A j \in 1 .. i - 1 : s[j] # ch
      PROVE  Upto(s, ch) = SubSeq(s, 1, i - 1)
  <2>1. I \in SUBSET Nat /\ i \in I /\ \A j \in I : i <= j
    BY <1>3
  <2>2. Min(I) = i
    BY <2>1, LeastIs
  <2>3. SelectInSeq(s, LAMBDA x : x = ch) = i /\ i # 0
    BY <1>1, <2>1, <2>2
  <2> QED
    BY <2>3 DEF Upto
<1> QED
  BY <1>2, <1>3

\* The first that is not that character: the second.
Skip(s, ch) == SelectInSeq(s, LAMBDA x : x # ch)

LEMMA SecondFacts ==
  ASSUME NEW S, NEW s \in Seq(S), NEW ch
  PROVE  /\ s = <<>> => Skip(s, ch) = 0
         /\ Len(s) >= 2 /\ s[1] = ch /\ s[2] # ch => Skip(s, ch) = 2
<1> DEFINE I == {i \in 1 .. Len(s) : s[i] # ch}
<1>1. Skip(s, ch) = IF I # {} THEN Min(I) ELSE 0
  BY DEF SelectInSeq, Skip
<1>2. ASSUME Len(s) >= 2, s[1] = ch, s[2] # ch PROVE Min(I) = 2 /\ I # {}
  <2>1. I \in SUBSET Nat /\ 2 \in I /\ \A j \in I : 2 <= j
    BY <1>2
  <2> QED
    BY <2>1, LeastIs
<1> QED
  BY <1>1, <1>2

\* Parts of sequences.
LEMMA PartOf ==
  ASSUME NEW S, NEW s \in Seq(S), NEW m \in Nat, NEW n \in Nat, 1 <= m, m <= n + 1, n <= Len(s)
  PROVE  /\ SubSeq(s, m, n) \in Seq(S) /\ Len(SubSeq(s, m, n)) = n - m + 1
         /\ \A i \in 1 .. n - m + 1 : SubSeq(s, m, n)[i] = s[m + i - 1]
  BY SMT

LEMMA Begun ==
  ASSUME NEW S, NEW s \in Seq(S), NEW n \in Nat, n <= Len(s)
  PROVE  /\ SubSeq(s, 1, n) \in Seq(S) /\ Len(SubSeq(s, 1, n)) = n
         /\ \A i \in 1 .. n : SubSeq(s, 1, n)[i] = s[i]
  BY SMT

LEMMA Sliced ==
  ASSUME NEW S, NEW s \in Seq(S), NEW a \in Nat, NEW n \in Nat, a + n <= Len(s)
  PROVE  /\ SubSeq(s, a + 1, a + n) \in Seq(S) /\ Len(SubSeq(s, a + 1, a + n)) = n
         /\ \A i \in 1 .. n : SubSeq(s, a + 1, a + n)[i] = s[a + i]
<1>1. a + 1 \in Nat /\ a + n \in Nat /\ (a + n) - (a + 1) + 1 = n
  BY SMT
<1>2. \A i \in 1 .. n : (a + 1) + i - 1 = a + i
  BY SMT
<1>3. /\ SubSeq(s, a + 1, a + n) \in Seq(S)
      /\ Len(SubSeq(s, a + 1, a + n)) = (a + n) - (a + 1) + 1
      /\ \A i \in 1 .. (a + n) - (a + 1) + 1 : SubSeq(s, a + 1, a + n)[i] = s[(a + 1) + i - 1]
  <2>1. 1 <= a + 1 /\ a + 1 <= a + n + 1
    BY SMT
  <2> QED
    BY <1>1, <2>1, PartOf, Zenon
<1> QED
  BY <1>1, <1>2, <1>3

\* Equal in all places.
LEMMA SameSeq ==
  ASSUME NEW S, NEW s \in Seq(S), NEW t \in Seq(S), NEW n \in Nat, Len(s) = n, Len(t) = n,
         \A i \in 1 .. n : s[i] = t[i]
  PROVE  s = t
  BY SeqEqual

LEMMA PartOfPart ==
  ASSUME NEW S, NEW s \in Seq(S), NEW a \in Nat, NEW n \in Nat, NEW b \in Nat, b <= n, a + n <= Len(s)
  PROVE  SubSeq(SubSeq(s, a + 1, a + n), 1, b) = SubSeq(s, a + 1, a + b)
<1> DEFINE p == SubSeq(s, a + 1, a + n)
           q == SubSeq(p, 1, b)
           r == SubSeq(s, a + 1, a + b)
<1>1. p \in Seq(S) /\ Len(p) = n /\ \A i \in 1 .. n : p[i] = s[a + i]
  BY Sliced
<1>2. r \in Seq(S) /\ Len(r) = b /\ \A i \in 1 .. b : r[i] = s[a + i]
  <2>1. a + b <= Len(s)
    BY SMT
  <2> QED
    BY <2>1, Sliced
<1> HIDE DEF p, r
<1>3. q \in Seq(S) /\ Len(q) = b /\ \A i \in 1 .. b : q[i] = p[i]
  BY <1>1, SMT
<1> HIDE DEF q
<1>4. \A i \in 1 .. b : q[i] = r[i]
  BY <1>1, <1>2, <1>3
<1>5. q = r
  BY <1>2, <1>3, <1>4, SameSeq
<1> QED
  BY <1>5 DEF p, q, r

LEMMA BegunPart ==
  ASSUME NEW S, NEW s \in Seq(S), NEW n \in Nat, NEW b \in Nat, b <= n, n <= Len(s)
  PROVE  SubSeq(SubSeq(s, 1, n), 1, b) = SubSeq(s, 1, b)
<1> DEFINE p == SubSeq(s, 1, n)
           q == SubSeq(p, 1, b)
           r == SubSeq(s, 1, b)
<1>1. p \in Seq(S) /\ Len(p) = n /\ \A i \in 1 .. n : p[i] = s[i]
  BY Begun
<1>2. r \in Seq(S) /\ Len(r) = b /\ \A i \in 1 .. b : r[i] = s[i]
  BY Begun, SMT
<1> HIDE DEF p, r
<1>3. q \in Seq(S) /\ Len(q) = b /\ \A i \in 1 .. b : q[i] = p[i]
  BY <1>1, Begun, SMT
<1> HIDE DEF q
<1>4. \A i \in 1 .. b : q[i] = r[i]
  BY <1>1, <1>2, <1>3
<1>5. q = r
  BY <1>2, <1>3, <1>4, SameSeq
<1> QED
  BY <1>5 DEF p, q, r

\* One after the other.
LEMMA Joined ==
  ASSUME NEW S, NEW s \in Seq(S), NEW t \in Seq(S)
  PROVE  /\ s \o t \in Seq(S) /\ Len(s \o t) = Len(s) + Len(t)
         /\ \A i \in 1 .. Len(s) : (s \o t)[i] = s[i]
         /\ \A i \in 1 .. Len(t) : (s \o t)[Len(s) + i] = t[i]
<1> DEFINE u == s \o t
           m == Len(s)
           n == Len(t)
<1>0. m \in Nat /\ n \in Nat
  BY LenProperties
<1>1. u \in Seq(S) /\ Len(u) = m + n
      /\ \A i \in 1 .. m + n : u[i] = IF i <= m THEN s[i] ELSE t[i - m]
  BY ConcatProperties
<1> HIDE DEF u, m, n
<1>2. ASSUME NEW i \in 1 .. m PROVE u[i] = s[i]
  BY <1>0, <1>1, SMT
<1>3. ASSUME NEW i \in 1 .. n PROVE u[m + i] = t[i]
  <2>1. m + i \in 1 .. m + n /\ ~(m + i <= m) /\ (m + i) - m = i
    BY <1>0, SMT
  <2>2. u[m + i] = t[(m + i) - m]
    BY <1>1, <2>1, Zenon
  <2> QED
    BY <2>1, <2>2
<1> QED
  BY <1>1, <1>2, <1>3, Zenon DEF u, m, n

\* What comes before the first of a character, where it is known.
LEMMA UptoIs ==
  ASSUME NEW S, NEW s \in Seq(S), NEW ch, NEW b \in Nat, b <= Len(s),
         \A i \in 1 .. b : s[i] # ch, b < Len(s) => s[b + 1] = ch
  PROVE  Upto(s, ch) = SubSeq(s, 1, b)
<1>1. CASE b = Len(s)
  <2>1. Upto(s, ch) = s
    BY <1>1, UptoFacts
  <2> QED
    BY <1>1, <2>1, SMT
<1>2. CASE b < Len(s)
  <2>1. b + 1 \in 1 .. Len(s) /\ (b + 1) - 1 = b
    BY <1>2, SMT
  <2>2. Upto(s, ch) = SubSeq(s, 1, (b + 1) - 1)
    BY <1>2, <2>1, UptoFacts
  <2> QED
    BY <2>1, <2>2
<1> QED
  BY <1>1, <1>2, SMT

\* The characters of a name.
Plain(ch) == ch \notin Rejected \union {"."} \union DOMAIN Capital

LEMMA PlainFacts ==
  ASSUME NEW ch, Plain(ch)
  PROVE  ch # " " /\ ch # "." /\ ch \notin Rejected /\ ch \notin DOMAIN Capital
  BY Zenon DEF Plain, Rejected

Chars == STRING \union {".", " "}

LEMMA NameFacts ==
  ASSUME NEW nm, NEW b, NEW x, Filled(nm, b, x)
  PROVE  /\ nm \in Seq(Chars) /\ Len(nm) = NameLen + ExtLen
         /\ b \in Nat /\ b >= 1 /\ b <= NameLen /\ x \in Nat /\ x <= ExtLen
         /\ NameLen \in Nat /\ ExtLen \in Nat /\ NameLen >= 1 /\ ExtLen >= 1
         /\ \A i \in 1 .. b : Plain(nm[i])
         /\ \A i \in 1 .. x : Plain(nm[NameLen + i])
         /\ \A i \in b + 1 .. NameLen : nm[i] = " "
         /\ \A i \in x + 1 .. ExtLen : nm[NameLen + i] = " "
<1>1. \A i \in 1 .. NameLen + ExtLen :
        IF (b < i /\ i <= NameLen) \/ NameLen + x < i THEN nm[i] = " " ELSE Plain(nm[i])
  BY Zenon DEF Filled, Plain
<1>2. /\ nm \in Seq(Chars) /\ Len(nm) = NameLen + ExtLen
      /\ b \in 1 .. NameLen /\ x \in 0 .. ExtLen
  <2>1. STRING \subseteq Chars
    BY DEF Chars
  <2> HIDE DEF Chars
  <2> QED
    BY <2>1, SeqMonotonic, Zenon DEF Filled
<1>3. /\ b \in Nat /\ b >= 1 /\ b <= NameLen /\ x \in Nat /\ x <= ExtLen
      /\ NameLen \in Nat /\ ExtLen \in Nat /\ NameLen >= 1 /\ ExtLen >= 1
  BY <1>2, SizesAssumption
<1>4. \A i \in 1 .. b : Plain(nm[i])
  <2> SUFFICES ASSUME NEW i \in 1 .. b PROVE Plain(nm[i])
    OBVIOUS
  <2>1. i \in 1 .. NameLen + ExtLen /\ ~(b < i) /\ ~(NameLen + x < i)
    BY <1>3
  <2> QED
    BY <1>1, <2>1, Zenon
<1>5. \A i \in 1 .. x : Plain(nm[NameLen + i])
  <2> SUFFICES ASSUME NEW i \in 1 .. x PROVE Plain(nm[NameLen + i])
    OBVIOUS
  <2>1. NameLen + i \in 1 .. NameLen + ExtLen /\ ~(NameLen + i <= NameLen) /\ ~(NameLen + x < NameLen + i)
    BY <1>3
  <2> QED
    BY <1>1, <2>1, Zenon
<1>6. \A i \in b + 1 .. NameLen : nm[i] = " "
  <2> SUFFICES ASSUME NEW i \in b + 1 .. NameLen PROVE nm[i] = " "
    OBVIOUS
  <2>1. i \in 1 .. NameLen + ExtLen /\ b < i /\ i <= NameLen
    BY <1>3
  <2> QED
    BY <1>1, <2>1, Zenon
<1>7. \A i \in x + 1 .. ExtLen : nm[NameLen + i] = " "
  <2> SUFFICES ASSUME NEW i \in x + 1 .. ExtLen PROVE nm[NameLen + i] = " "
    OBVIOUS
  <2>1. NameLen + i \in 1 .. NameLen + ExtLen /\ NameLen + x < NameLen + i
    BY <1>3
  <2> QED
    BY <1>1, <2>1, Zenon
<1> QED
  BY <1>2, <1>3, <1>4, <1>5, <1>6, <1>7


\* get_fileinfo spells a name.
LEMMA FileInfoSpells ==
  ASSUME NEW e, NEW b, NEW x, Filled(e.name, b, x)
  PROVE  FileInfo(e) = Spelling(e.name, b, x)
<1> DEFINE nm   == e.name
           name == SubSeq(nm, 1, NameLen)
           ext  == SubSeq(nm, NameLen + 1, NameLen + ExtLen)
<1>1. /\ nm \in Seq(Chars) /\ Len(nm) = NameLen + ExtLen
      /\ b \in Nat /\ b >= 1 /\ b <= NameLen /\ x \in Nat /\ x <= ExtLen
      /\ NameLen \in Nat /\ ExtLen \in Nat /\ NameLen >= 1 /\ ExtLen >= 1
  BY NameFacts
<1>2. /\ \A i \in 1 .. b : nm[i] # " "
      /\ \A i \in 1 .. x : nm[NameLen + i] # " "
      /\ \A i \in b + 1 .. NameLen : nm[i] = " "
      /\ \A i \in x + 1 .. ExtLen : nm[NameLen + i] = " "
  <2>1. /\ \A i \in 1 .. b : Plain(nm[i])
        /\ \A i \in 1 .. x : Plain(nm[NameLen + i])
        /\ \A i \in b + 1 .. NameLen : nm[i] = " "
        /\ \A i \in x + 1 .. ExtLen : nm[NameLen + i] = " "
    BY NameFacts
  <2> QED
    BY <2>1, PlainFacts, Zenon
<1> HIDE DEF nm
<1>3. /\ name \in Seq(Chars) /\ Len(name) = NameLen /\ \A i \in 1 .. NameLen : name[i] = nm[i]
  <2>1. NameLen <= Len(nm)
    BY <1>1
  <2> QED
    BY <1>1, <2>1, Begun, Zenon
<1>4. /\ ext \in Seq(Chars) /\ Len(ext) = ExtLen /\ \A i \in 1 .. ExtLen : ext[i] = nm[NameLen + i]
  <2>1. NameLen + ExtLen <= Len(nm)
    BY <1>1
  <2> QED
    BY <1>1, <2>1, Sliced
<1>5. SubSeq(name, 1, b) = SubSeq(nm, 1, b)
  <2>1. NameLen <= Len(nm)
    BY <1>1
  <2> QED
    BY <1>1, <2>1, BegunPart
<1>6. SubSeq(ext, 1, x) = SubSeq(nm, NameLen + 1, NameLen + x)
  <2>1. NameLen + ExtLen <= Len(nm)
    BY <1>1
  <2> QED
    BY <1>1, <2>1, PartOfPart
<1> HIDE DEF name, ext
<1>7. Upto(name, " ") = SubSeq(nm, 1, b)
  <2>1. ASSUME NEW i \in 1 .. b PROVE name[i] # " "
    <3>1. i \in 1 .. NameLen
      BY <1>1
    <3> QED
      BY <1>2, <1>3, <3>1, Zenon
  <2>2. ASSUME b < NameLen PROVE name[b + 1] = " "
    <3>1. b + 1 \in 1 .. NameLen /\ b + 1 \in b + 1 .. NameLen
      BY <1>1, <2>2
    <3> QED
      BY <1>2, <1>3, <3>1, Zenon
  <2>3. b <= Len(name) /\ (b < Len(name) => name[b + 1] = " ")
    BY <1>1, <1>3, <2>2, Zenon
  <2>4. Upto(name, " ") = SubSeq(name, 1, b)
    BY <1>1, <1>3, <2>1, <2>3, UptoIs, Zenon
  <2> QED
    BY <1>5, <2>4
<1>8. Upto(ext, " ") = SubSeq(nm, NameLen + 1, NameLen + x)
  <2>1. ASSUME NEW i \in 1 .. x PROVE ext[i] # " "
    <3>1. i \in 1 .. ExtLen
      BY <1>1
    <3> QED
      BY <1>2, <1>4, <3>1, Zenon
  <2>2. ASSUME x < ExtLen PROVE ext[x + 1] = " "
    <3>1. x + 1 \in 1 .. ExtLen /\ x + 1 \in x + 1 .. ExtLen
      BY <1>1, <2>2
    <3> QED
      BY <1>2, <1>4, <3>1, Zenon
  <2>3. x <= Len(ext) /\ (x < Len(ext) => ext[x + 1] = " ")
    BY <1>1, <1>4, <2>2, Zenon
  <2>4. Upto(ext, " ") = SubSeq(ext, 1, x)
    BY <1>1, <1>4, <2>1, <2>3, UptoIs, Zenon
  <2> QED
    BY <1>6, <2>4
<1>9. ext[1] = " " <=> x = 0
  <2>1. CASE x = 0
    <3>1. 1 \in x + 1 .. ExtLen /\ 1 \in 1 .. ExtLen
      BY <1>1, <2>1
    <3> QED
      BY <1>2, <1>4, <2>1, <3>1, Zenon
  <2>2. CASE x # 0
    <3>1. 1 \in 1 .. x /\ 1 \in 1 .. ExtLen
      BY <1>1, <2>2
    <3> QED
      BY <1>2, <1>4, <2>2, <3>1, Zenon
  <2> QED
    BY <2>1, <2>2
<1> QED
  BY <1>7, <1>8, <1>9, Zenon DEF FileInfo, Spelling, nm, name, ext

\* The characters of a spelling.
LEMMA SpellingFacts ==
  ASSUME NEW nm, NEW b, NEW x, Filled(nm, b, x)
  PROVE  LET s == Spelling(nm, b, x) IN
         /\ s \in Seq(Chars) /\ Len(s) = IF x = 0 THEN b ELSE b + (1 + x)
         /\ \A i \in 1 .. b : s[i] = nm[i]
         /\ x # 0 => s[b + 1] = "." /\ \A i \in 1 .. x : s[b + (1 + i)] = nm[NameLen + i]
<1> DEFINE name == SubSeq(nm, 1, b)
           ext  == SubSeq(nm, NameLen + 1, NameLen + x)
<1>1. /\ nm \in Seq(Chars) /\ Len(nm) = NameLen + ExtLen
      /\ b \in Nat /\ b >= 1 /\ b <= NameLen /\ x \in Nat /\ x <= ExtLen
      /\ NameLen \in Nat /\ ExtLen \in Nat /\ NameLen >= 1 /\ ExtLen >= 1
  BY NameFacts
<1>2. name \in Seq(Chars) /\ Len(name) = b /\ \A i \in 1 .. b : name[i] = nm[i]
  <2>1. b <= Len(nm)
    BY <1>1
  <2> QED
    BY <1>1, <2>1, Begun, Zenon
<1>3. ext \in Seq(Chars) /\ Len(ext) = x /\ \A i \in 1 .. x : ext[i] = nm[NameLen + i]
  <2>1. NameLen + x <= Len(nm) /\ nm \in Seq(Chars) /\ NameLen \in Nat /\ x \in Nat
    BY <1>1
  <2> QED
    BY <2>1, Sliced, Zenon
<1> HIDE DEF name, ext
<1>4. CASE x = 0
  <2>1. Spelling(nm, b, x) = name \o <<>>
    BY <1>4 DEF Spelling, name
  <2>2. name \o <<>> = name
    BY <1>2, ConcatEmptySeq
  <2> QED
    BY <1>2, <1>4, <2>1, <2>2
<1>5. CASE x # 0
  <2> DEFINE dot  == <<".">>
             tail == dot \o ext
             s    == name \o tail
  <2>1. Spelling(nm, b, x) = s
    BY <1>5 DEF Spelling, name, ext
  <2>2. dot \in Seq(Chars) /\ Len(dot) = 1 /\ dot[1] = "."
    <3>1. "." \in Chars
      BY Zenon DEF Chars
    <3> HIDE DEF Chars
    <3> QED
      BY <3>1, SMT
  <2> HIDE DEF dot
  <2>3. /\ tail \in Seq(Chars) /\ Len(tail) = 1 + x
        /\ \A i \in 1 .. 1 : tail[i] = dot[i]
        /\ \A i \in 1 .. x : tail[1 + i] = ext[i]
    <3>1. /\ tail \in Seq(Chars) /\ Len(tail) = Len(dot) + Len(ext)
          /\ \A i \in 1 .. Len(dot) : tail[i] = dot[i]
          /\ \A i \in 1 .. Len(ext) : tail[Len(dot) + i] = ext[i]
      <4>1. dot \in Seq(Chars) /\ ext \in Seq(Chars)
        BY <1>3, <2>2
      <4> HIDE DEF ext, Chars
      <4> QED
        BY <4>1, Joined
    <3> HIDE DEF tail
    <3> QED
      BY <1>3, <2>2, <3>1, Zenon
  <2> HIDE DEF tail
  <2>4. /\ s \in Seq(Chars) /\ Len(s) = b + (1 + x)
        /\ \A i \in 1 .. b : s[i] = name[i]
        /\ \A i \in 1 .. 1 + x : s[b + i] = tail[i]
    <3>1. /\ s \in Seq(Chars) /\ Len(s) = Len(name) + Len(tail)
          /\ \A i \in 1 .. Len(name) : s[i] = name[i]
          /\ \A i \in 1 .. Len(tail) : s[Len(name) + i] = tail[i]
      <4>1. name \in Seq(Chars) /\ tail \in Seq(Chars)
        BY <1>2, <2>3
      <4> QED
        BY <4>1, Joined
    <3> HIDE DEF s
    <3> QED
      BY <1>2, <2>3, <3>1, Zenon
  <2> HIDE DEF s
  <2>5. s[b + 1] = "."
    <3>1. 1 \in 1 .. 1 + x /\ 1 \in 1 .. 1
      BY <1>1
    <3> QED
      BY <2>2, <2>3, <2>4, <3>1, Zenon
  <2>6. ASSUME NEW i \in 1 .. x PROVE s[b + (1 + i)] = nm[NameLen + i]
    <3>1. 1 + i \in 1 .. 1 + x
      BY <1>1
    <3> QED
      BY <1>3, <2>3, <2>4, <3>1, Zenon
  <2>7. \A i \in 1 .. b : s[i] = nm[i]
    BY <1>2, <2>4, Zenon
  <2> QED
    BY <1>5, <2>1, <2>4, <2>5, <2>6, <2>7
<1> QED
  BY <1>4, <1>5

LEMMA Filling ==
  ASSUME NEW S, NEW c \in S, NEW k \in Nat
  PROVE  /\ [i \in 1 .. k |-> c] \in Seq(S) /\ Len([i \in 1 .. k |-> c]) = k
         /\ \A i \in 1 .. k : [j \in 1 .. k |-> c][i] = c
<1>1. [i \in 1 .. k |-> c] \in Seq(S)
  BY SMT
<1>2. Len([i \in 1 .. k |-> c]) = k
  BY SMT
<1> QED
  BY <1>1, <1>2, Zenon

\* A sequence filled up with blanks.
LEMMA PadFacts ==
  ASSUME NEW s \in Seq(Chars), NEW m \in Nat, NEW n \in Nat, Len(s) = m, m <= n
  PROVE  /\ Pad(s, n) \in Seq(Chars) /\ Len(Pad(s, n)) = n
         /\ \A i \in 1 .. m : Pad(s, n)[i] = s[i]
         /\ \A i \in m + 1 .. n : Pad(s, n)[i] = " "
<1> DEFINE blanks == [i \in 1 .. n - m |-> " "]
           p == s \o blanks
<1>1. " " \in Chars
  BY Zenon DEF Chars
<1> HIDE DEF Chars
<1>2. n - m \in Nat
  BY SMT
<1>3. blanks \in Seq(Chars) /\ Len(blanks) = n - m /\ \A i \in 1 .. n - m : blanks[i] = " "
  <2> DEFINE k == n - m
  <2>1. k \in Nat
    BY <1>2
  <2> HIDE DEF k
  <2>2. [i \in 1 .. k |-> " "] \in Seq(Chars) /\ Len([i \in 1 .. k |-> " "]) = k
        /\ \A i \in 1 .. k : [j \in 1 .. k |-> " "][i] = " "
    BY <1>1, <2>1, Filling
  <2> QED
    BY <2>2, Zenon DEF k
<1>4. p = Pad(s, n)
  BY DEF Pad
<1> HIDE DEF blanks
<1>5. /\ p \in Seq(Chars) /\ Len(p) = Len(s) + Len(blanks)
      /\ \A i \in 1 .. Len(s) : p[i] = s[i]
      /\ \A i \in 1 .. Len(blanks) : p[Len(s) + i] = blanks[i]
  <2>1. s \in Seq(Chars) /\ blanks \in Seq(Chars)
    BY <1>3
  <2> QED
    BY <2>1, Joined
<1> HIDE DEF p
<1>6. ASSUME NEW i \in m + 1 .. n PROVE p[i] = " "
  <2>1. i - m \in 1 .. n - m /\ m + (i - m) = i
    BY SMT
  <2>2. p[m + (i - m)] = blanks[i - m]
    BY <1>3, <1>5, <2>1, Zenon
  <2> QED
    BY <1>3, <2>1, <2>2, Zenon
<1>7. m + (n - m) = n
  BY SMT
<1>8. Len(p) = n
  BY <1>3, <1>5, <1>7, Zenon
<1> QED
  BY <1>4, <1>5, <1>6, <1>8, Zenon

\* Capital letters stay.
LEMMA UpperFacts ==
  ASSUME NEW s \in Seq(Chars), \A i \in 1 .. Len(s) : s[i] \notin DOMAIN Capital
  PROVE  Upper(s) = s
<1>1. DOMAIN s = 1 .. Len(s) /\ s = [i \in DOMAIN s |-> s[i]]
  BY LenProperties
<1>2. Upper(s) = [i \in DOMAIN s |-> s[i]]
  BY <1>1, Zenon DEF Upper
<1> QED
  BY <1>1, <1>2

\* The directory's form of a spelling is the name.
LEMMA DirfileSpells ==
  ASSUME NEW nm, NEW b, NEW x, Filled(nm, b, x)
  PROVE  MakeDirfile(Spelling(nm, b, x)) = nm /\ nm # <<>>
<1> DEFINE s    == Spelling(nm, b, x)
           body == Upto(s, ".")
           rest == SubSeq(s, Len(body) + 1, Len(s))
           dots == Skip(rest, ".")
           ext  == IF dots = 0 THEN <<>> ELSE SubSeq(rest, dots, Len(rest))
<1>1. /\ nm \in Seq(Chars) /\ Len(nm) = NameLen + ExtLen
      /\ b \in Nat /\ b >= 1 /\ b <= NameLen /\ x \in Nat /\ x <= ExtLen
      /\ NameLen \in Nat /\ ExtLen \in Nat /\ NameLen >= 1 /\ ExtLen >= 1
  BY NameFacts
<1>2. /\ \A i \in 1 .. b : Plain(nm[i])
      /\ \A i \in 1 .. x : Plain(nm[NameLen + i])
      /\ \A i \in b + 1 .. NameLen : nm[i] = " "
      /\ \A i \in x + 1 .. ExtLen : nm[NameLen + i] = " "
  BY NameFacts
<1>3. s \in Seq(Chars) /\ Len(s) = IF x = 0 THEN b ELSE b + (1 + x)
  BY SpellingFacts
<1>3a. \A i \in 1 .. b : s[i] = nm[i]
  BY SpellingFacts
<1>3b. x # 0 => s[b + 1] = "." /\ \A i \in 1 .. x : s[b + (1 + i)] = nm[NameLen + i]
  BY SpellingFacts
<1> HIDE DEF s
<1>4. body = SubSeq(s, 1, b) /\ b <= Len(s)
  <2>1. \A i \in 1 .. b : s[i] # "."
    BY <1>2, <1>3a, PlainFacts, Zenon
  <2>2. b <= Len(s) /\ (b < Len(s) => s[b + 1] = ".")
    <3>1. CASE x = 0
      BY <1>1, <1>3, <3>1
    <3>2. CASE x # 0
      <4>1. Len(s) = b + (1 + x) /\ s[b + 1] = "."
        BY <1>3, <1>3b, <3>2, Zenon
      <4> QED
        BY <1>1, <4>1
    <3> QED
      BY <3>1, <3>2
  <2> QED
    BY <1>1, <1>3, <2>1, <2>2, UptoIs, Zenon
<1>5. body \in Seq(Chars) /\ Len(body) = b /\ \A i \in 1 .. b : body[i] = s[i]
  <2>1. /\ SubSeq(s, 1, b) \in Seq(Chars) /\ Len(SubSeq(s, 1, b)) = b
        /\ \A i \in 1 .. b : SubSeq(s, 1, b)[i] = s[i]
    BY <1>1, <1>3, <1>4, Begun, Zenon
  <2> QED
    BY <1>4, <2>1, Zenon
<1>5a. \A i \in 1 .. b : body[i] = nm[i]
  BY <1>3a, <1>5, Zenon
<1> HIDE DEF body
<1>6. (ext \in Seq(Chars) /\ Len(ext) = x) /\ \A i \in 1 .. x : ext[i] = nm[NameLen + i]
  <2>1. CASE x = 0
    <3>1. rest = <<>>
      <4>1. Len(body) = b /\ Len(s) = b
        BY <1>3, <1>5, <2>1, Zenon
      <4>2. b + 1 \in Int /\ b \in Int /\ b < b + 1
        BY <1>1
      <4>3. SubSeq(s, b + 1, b) = <<>>
        BY <4>2, SubSeqEmpty, Zenon
      <4> QED
        BY <4>1, <4>3, Zenon
    <3> HIDE DEF rest
    <3>2. dots = 0
      BY <3>1, EmptySeq, SecondFacts, Zenon
    <3>3. ext = <<>>
      BY <3>2
    <3>4. ext \in Seq(Chars) /\ Len(ext) = x
      BY <2>1, <3>3, EmptySeq
    <3>5. 1 .. x = {}
      BY <2>1
    <3> QED
      BY <3>4, <3>5, Zenon
  <2>2. CASE x # 0
    <3>1. /\ rest \in Seq(Chars) /\ Len(rest) = 1 + x /\ \A i \in 1 .. 1 + x : rest[i] = s[b + i]
      <4>1. Len(body) = b /\ Len(s) = b + (1 + x)
        BY <1>3, <1>5, <2>2, Zenon
      <4>2. rest = SubSeq(s, b + 1, b + (1 + x))
        BY <4>1, Zenon
      <4> HIDE DEF rest
      <4>3. 1 + x \in Nat /\ b + (1 + x) <= Len(s) /\ b \in Nat
        BY <1>1, <4>1
      <4>4. s \in Seq(Chars)
        BY <1>3
      <4> QED
        BY <4>2, <4>3, <4>4, Sliced
    <3> HIDE DEF rest
    <3>2. 1 \in 1 .. 1 + x /\ 2 \in 1 .. 1 + x /\ 1 \in 1 .. x /\ 1 + 1 = 2 /\ Len(rest) >= 2
      BY <1>1, <2>2, <3>1
    <3>3. rest[1] = "." /\ rest[2] # "."
      <4>1. rest[1] = "."
        <5>1. s[b + 1] = "."
          BY <1>3b, <2>2, Zenon
        <5> QED
          BY <3>1, <3>2, <5>1, Zenon
      <4>2. rest[1 + 1] = nm[NameLen + 1]
        <5>1. rest[1 + 1] = s[b + (1 + 1)]
          BY <3>1, <3>2, Zenon
        <5>2. s[b + (1 + 1)] = nm[NameLen + 1]
          BY <1>3b, <2>2, <3>2, Zenon
        <5> QED
          BY <5>1, <5>2
      <4>3. nm[NameLen + 1] # "."
        BY <1>2, <3>2, PlainFacts, Zenon
      <4> QED
        BY <3>2, <4>1, <4>2, <4>3, Zenon
    <3>4. dots = 2
      <4>1. rest \in Seq(Chars)
        BY <3>1
      <4> QED
        BY <3>2, <3>3, <4>1, SecondFacts
    <3> HIDE DEF dots
    <3>5. ext = SubSeq(rest, 1 + 1, 1 + x)
      <4>1. Len(rest) = 1 + x /\ 2 # 0 /\ 1 + 1 = 2
        BY <3>1
      <4> QED
        BY <3>4, <4>1, Zenon
    <3> HIDE DEF ext
    <3>6. ext \in Seq(Chars) /\ Len(ext) = x /\ \A i \in 1 .. x : ext[i] = rest[1 + i]
      <4>1. rest \in Seq(Chars) /\ 1 + x <= Len(rest) /\ 1 \in Nat /\ x \in Nat
        <5>1. rest \in Seq(Chars) /\ Len(rest) = 1 + x
          BY <3>1
        <5> QED
          BY <1>1, <5>1
      <4> QED
        BY <3>5, <4>1, Sliced
    <3>7. ASSUME NEW i \in 1 .. x PROVE ext[i] = nm[NameLen + i]
      <4>1. 1 + i \in 1 .. 1 + x
        BY <1>1
      <4> QED
        BY <1>3b, <2>2, <3>1, <3>6, <4>1, Zenon
    <3> QED
      BY <3>6, <3>7
  <2> QED
    BY <2>1, <2>2
<1> HIDE DEF rest, dots, ext
<1>7. \A i \in DOMAIN s : s[i] \notin Rejected
  <2> SUFFICES ASSUME NEW i \in 1 .. Len(s) PROVE s[i] \notin Rejected
    BY <1>3, LenProperties
  <2>1. CASE i \in 1 .. b
    BY <1>2, <1>3a, <2>1, PlainFacts, Zenon
  <2>2. CASE x # 0 /\ i = b + 1
    <3>1. "." \notin Rejected
      BY Zenon DEF Rejected
    <3> QED
      BY <1>3b, <2>2, <3>1, Zenon
  <2>3. ASSUME x # 0, NEW j \in 1 .. x, i = b + (1 + j) PROVE s[i] \notin Rejected
    <3>1. s[b + (1 + j)] = nm[NameLen + j] /\ Plain(nm[NameLen + j])
      BY <1>2, <1>3b, <2>3, Zenon
    <3> QED
      BY <2>3, <3>1, PlainFacts, Zenon
  <2>4. \/ i \in 1 .. b
        \/ x # 0 /\ i = b + 1
        \/ x # 0 /\ \E j \in 1 .. x : i = b + (1 + j)
    <3>1. CASE x = 0
      BY <1>3, <3>1
    <3>2. CASE x # 0
      <4>1. i \in 1 .. b \/ i = b + 1 \/ (i - b - 1 \in 1 .. x /\ i = b + (1 + (i - b - 1)))
        BY <1>1, <1>3, <3>2
      <4> QED
        BY <3>2, <4>1, Zenon
    <3> QED
      BY <3>1, <3>2
  <2> QED
    BY <2>1, <2>2, <2>3, <2>4, Zenon
<1>8. \A i \in DOMAIN ext : ext[i] # "."
  <2>1. DOMAIN ext = 1 .. x
    BY <1>6, LenProperties, Zenon
  <2> QED
    BY <1>2, <1>6, <2>1, PlainFacts, Zenon
<1>9. body # <<>> /\ ~(Len(body) > NameLen) /\ ~(Len(ext) > ExtLen)
  <2>1. Len(<<>>) = 0
    OBVIOUS
  <2> QED
    <3>1. Len(body) = b /\ Len(ext) = x
      BY <1>5, <1>6
    <3> QED
      BY <1>1, <2>1, <3>1
<1>10. MakeDirfile(s) = Pad(Upper(body), NameLen) \o Pad(Upper(ext), ExtLen)
  BY <1>7, <1>8, <1>9, Zenon DEF MakeDirfile, Skip, body, rest, dots, ext
<1>11. Upper(body) = body /\ Upper(ext) = ext
  <2>1. \A i \in 1 .. Len(body) : body[i] \notin DOMAIN Capital
    BY <1>2, <1>5, <1>5a, PlainFacts, Zenon
  <2>2. \A i \in 1 .. Len(ext) : ext[i] \notin DOMAIN Capital
    BY <1>2, <1>6, PlainFacts, Zenon
  <2> QED
    BY <1>5, <1>6, <2>1, <2>2, UpperFacts, Zenon
<1> DEFINE p == Pad(body, NameLen)
           q == Pad(ext, ExtLen)
           r == p \o q
<1>12. p \in Seq(Chars) /\ Len(p) = NameLen
  BY <1>1, <1>5, PadFacts
<1>12a. /\ \A i \in 1 .. b : p[i] = body[i]
        /\ \A i \in b + 1 .. NameLen : p[i] = " "
  <2>1. body \in Seq(Chars) /\ Len(body) = b /\ NameLen \in Nat /\ b \in Nat /\ b <= NameLen
    BY <1>1, <1>5
  <2> QED
    BY <2>1, PadFacts, Zenon
<1>13. q \in Seq(Chars) /\ Len(q) = ExtLen
  BY <1>1, <1>6, PadFacts
<1>13a. /\ \A i \in 1 .. x : q[i] = ext[i]
        /\ \A i \in x + 1 .. ExtLen : q[i] = " "
  BY <1>1, <1>6, PadFacts, ZenonT(40)
<1>14. MakeDirfile(s) = r
  BY <1>10, <1>11
<1> HIDE DEF p, q
<1>15. r \in Seq(Chars) /\ Len(r) = Len(p) + Len(q)
  BY <1>12, <1>13, Joined
<1>15a. /\ \A i \in 1 .. Len(p) : r[i] = p[i]
        /\ \A i \in 1 .. Len(q) : r[Len(p) + i] = q[i]
  BY <1>12, <1>13, Joined
<1> HIDE DEF r
<1>16. ASSUME NEW i \in 1 .. NameLen PROVE r[i] = nm[i]
  <2>1. r[i] = p[i]
    BY <1>12, <1>15a, Zenon
  <2>2. i \in 1 .. b \/ i \in b + 1 .. NameLen
    BY <1>1
  <2> QED
    BY <1>2, <1>5a, <1>12a, <2>1, <2>2, Zenon
<1>17. ASSUME NEW i \in 1 .. ExtLen PROVE r[NameLen + i] = nm[NameLen + i]
  <2>1. r[NameLen + i] = q[i]
    BY <1>12, <1>13, <1>15a, Zenon
  <2>2. i \in 1 .. x \/ i \in x + 1 .. ExtLen
    BY <1>1
  <2> QED
    BY <1>2, <1>6, <1>13a, <2>1, <2>2, Zenon
<1>18. ASSUME NEW i \in 1 .. NameLen + ExtLen PROVE r[i] = nm[i]
  <2>1. i \in 1 .. NameLen \/ (i - NameLen \in 1 .. ExtLen /\ NameLen + (i - NameLen) = i)
    BY <1>1
  <2> QED
    BY <1>16, <1>17, <2>1, Zenon
<1>19. Len(r) = NameLen + ExtLen /\ NameLen + ExtLen \in Nat
  BY <1>1, <1>12, <1>13, <1>15
<1>20. r = nm
  BY <1>1, <1>15, <1>18, <1>19, SameSeq
<1>21. nm # <<>>
  <2>1. Len(<<>>) = 0
    OBVIOUS
  <2> QED
    BY <1>1, <2>1
<1> QED
  BY <1>14, <1>20, <1>21 DEF s

-----------------------------------------------------------------------------
(* The images of a card. *)

\* The name that is listed opens the entry that it was made from.
LEMMA SpellsFacts ==
  ASSUME NEW e, NEW n, Spells(n, e.name)
  PROVE  FileInfo(e) = n /\ MakeDirfile(n) = e.name /\ MakeDirfile(n) # <<>>
<1>1. PICK b \in 1 .. NameLen, x \in 0 .. ExtLen :
        Filled(e.name, b, x) /\ n = Spelling(e.name, b, x)
  BY DEF Spells
<1> QED
  BY <1>1, FileInfoSpells, DirfileSpells, Zenon

\* An image that is listed is one of Files.
LEMMA ListedImage ==
  ASSUME NEW c \in Cards, Formatted(c), NEW e \in Images(c)
  PROVE  FileInfo(e) \in DOMAIN Files[c] /\ Spells(FileInfo(e), e.name)
<1>1. PICK n \in DOMAIN Files[c] : Spells(n, e.name)
  BY CardFacts DEF SoundFiles
<1> QED
  BY <1>1, SpellsFacts, Zenon

\* There is one entry for a name.
LEMMA OneEntry ==
  ASSUME NEW c \in Cards, Formatted(c), NEW p \in Listing(c), Live(SlotEntry(c, p)),
         NEW q \in Listing(c), Live(SlotEntry(c, q)), SlotEntry(c, p).name = SlotEntry(c, q).name
  PROVE  p = q
  BY CardFacts DEF SoundListing

LEMMA ImageOf ==
  ASSUME NEW c \in Cards, Formatted(c), NEW p \in Listing(c), Live(SlotEntry(c, p)),
         NEW n \in DOMAIN Files[c], Spells(n, SlotEntry(c, p).name)
  PROVE  Describes(c, Files[c][n], SlotEntry(c, p))
<1>1. PICK e \in Images(c) : Spells(n, e.name) /\ Describes(c, Files[c][n], e)
  BY CardFacts DEF SoundFiles
<1>2. PICK q \in Listing(c) : Live(SlotEntry(c, q)) /\ e = SlotEntry(c, q)
  BY DEF Images
<1>3. e.name = SlotEntry(c, p).name
  BY <1>1, SpellsFacts, Zenon
<1>4. p = q
  BY <1>2, <1>3, OneEntry
<1> QED
  BY <1>1, <1>2, <1>4

\* What a name opens is an image, if it is not a directory.
LEMMA FoundImage ==
  ASSUME NEW c \in Cards, Formatted(c), NEW p \in Listing(c), Live(SlotEntry(c, p)),
         NEW n \in Names, SlotEntry(c, p).name = MakeDirfile(n), SlotEntry(c, p).attr # "DIR"
  PROVE  LET e    == SlotEntry(c, p)
             name == IF n \in DOMAIN Files[c] THEN n ELSE FileInfo(e)
         IN e \in Images(c) /\ name \in DOMAIN Files[c] /\ Describes(c, Files[c][name], e)
<1> DEFINE e == SlotEntry(c, p)
<1>1. IsImage(e)
  <2>1. CASE n \in Odd \union {NoName}
    BY <2>1, CardFacts DEF SoundFiles
  <2>2. ASSUME NEW d \in Cards, n \in DOMAIN Files[d]
        PROVE  IsImage(e)
    <3>1. Formatted(d)
      BY <2>2, CardsAssumption
    <3>2. PICK f \in Images(d) : Spells(n, f.name)
      BY <2>2, <3>1, CardFacts DEF SoundFiles
    <3>3. IsImage(f) /\ FileInfo(f) = n /\ f.name = e.name
      BY <3>2, SpellsFacts DEF Images
    <3>4. Spells(n, e.name)
      BY <3>2, <3>3
    <3>5. FileInfo(e) = n
      BY <3>4, SpellsFacts
    <3>6. Valid(e)
      BY DEF Live
    <3> QED
      BY <3>3, <3>5, <3>6, Zenon DEF IsImage
  <2> QED
    BY <2>1, <2>2 DEF Names
<1>2. e \in Images(c)
  BY <1>1 DEF Images
<1>3. FileInfo(e) \in DOMAIN Files[c] /\ Spells(FileInfo(e), e.name)
  BY <1>2, ListedImage
<1>4. CASE n \in DOMAIN Files[c]
  <2>1. PICK f \in Images(c) : Spells(n, f.name)
    BY <1>4, CardFacts DEF SoundFiles
  <2>2. Spells(n, e.name)
    BY <2>1, SpellsFacts
  <2> QED
    BY <1>2, <1>4, <2>2, ImageOf
<1>5. CASE n \notin DOMAIN Files[c]
  <2>1. Describes(c, Files[c][FileInfo(e)], e)
    BY <1>3, ImageOf
  <2> QED
    BY <1>2, <1>3, <1>5, <2>1
<1> QED
  BY <1>4, <1>5

\* A walk that goes on to the next slot loses no image but the one here.
LEMMA StillAhead ==
  ASSUME NEW n, NEW d, NEW e, Ahead(medium, n, d),
         Coming(medium, d) \subseteq {Here(d)} \union Coming(medium, e)
  PROVE  \/ Ahead(medium, n, e)
         \/ /\ Live(SlotEntry(medium, Here(d))) /\ IsImage(SlotEntry(medium, Here(d)))
            /\ Spells(n, SlotEntry(medium, Here(d)).name)
  BY DEF Ahead

LEMMA LastAhead ==
  ASSUME NEW n, NEW d, Ahead(medium, n, d), Coming(medium, d) \subseteq {Here(d)}
  PROVE  /\ Live(SlotEntry(medium, Here(d))) /\ IsImage(SlotEntry(medium, Here(d)))
         /\ Spells(n, SlotEntry(medium, Here(d)).name)
  BY DEF Ahead

\* Where a directory ends no image is to come.
LEMMA EndsBehind ==
  ASSUME Mounting, NEW d, FolderPlace(medium, d), Ends(SlotEntry(medium, Here(d)))
  PROVE  \A p \in Coming(medium, d) : ~Live(SlotEntry(medium, p))
<1> DEFINE c   == medium
           per == Layout(c).sects_clust
           q   == d.index \div PerSector
           i   == d.index % PerSector
           e   == [clust |-> d.clust, sect |-> d.sect, index |-> i]
<1>1. /\ d.index \in Nat /\ d.clust \in Clusters(c) /\ PerSector \in Nat /\ PerSector > 0
      /\ per \in Nat /\ per > 0 /\ d.sect = FirstSect(c, d.clust) + (q % per)
      /\ FirstSect(c, d.clust) \in Nat
  BY SizesAssumption, MountFacts, ClusterSects DEF FolderPlace, SoundLayout
<1>2. PICK k \in Folders(c) : d.clust \in {k} \union Onward(c, k)
  BY DEF FolderPlace
<1>3. q \in Nat
  BY <1>1, DivGrows
<1>4. q % per \in 0 .. per - 1
  BY <1>1, <1>3, ModRange
<1>5. i \in 0 .. PerSector - 1
  BY <1>1, ModRange
<1>6. i % PerSector = i
  <2>1. 0 \in Int /\ i \in Int /\ 0 * PerSector <= i /\ i < (0 + 1) * PerSector
    BY <1>1, <1>5
  <2>2. i % PerSector = i - (0 * PerSector)
    BY <1>1, <2>1, DivIs, Zenon
  <2> QED
    BY <1>1, <2>1, <2>2
<1>7. d.sect \in SectsOf(c, d.clust)
  <2> HIDE DEF q, per
  <2>1. \A z \in Nat : z \in 0 .. per - 1 => FirstSect(c, d.clust) + z \in FirstSect(c, d.clust) .. FirstSect(c, d.clust) + per - 1
    BY <1>1
  <2> QED
    BY <1>1, <1>4, <2>1 DEF SectsOf, per
<1>8. Coming(c, e) = Coming(c, d)
  BY <1>6 DEF Coming, After
<1>9. Volume[c][d.sect][i] = SlotEntry(c, Here(d))
  BY DEF SlotEntry, Here
<1> HIDE DEF i
<1> QED
  BY <1>2, <1>5, <1>7, <1>8, <1>9, MountFacts DEF SoundListing

-----------------------------------------------------------------------------
(* What the actions have in common. *)

LEMMA WindowShows == Window => Shows(win)
  BY DEF Window, WindowTrue, Shows

LEMMA WindowKept ==
  ASSUME Shows(win'), UNCHANGED <<written, medium>>
  PROVE  Window'
  BY DEF Shows, Window, WindowTrue, Contents

LEMMA WrittenKept == Written /\ UNCHANGED written => Written'
  BY DEF Written

LEMMA MountKept ==
  ASSUME Mount, UNCHANGED <<fs, win, medium, slot, awake, noinit>>,
         cpu'.at \in {"TRACE", "NEXT"} \/ Holding' => fs.type # 0 /\ ~noinit,
         cpu'.at = "CHECK" => fs.type = 0
  PROVE  Mount'
  BY DEF Mount, Alive, At

\* ... also with another window.
LEMMA MountRead ==
  ASSUME Mounting, UNCHANGED <<fs, medium, slot, awake, noinit>>, ~noinit, cpu'.at # "CHECK"
  PROVE  Mount'
  BY DEF Mounting, Mount, Alive, At

LEMMA ChosenKept ==
  ASSUME Chosen, UNCHANGED <<imagefile, named>>, OpenListed'
  PROVE  Chosen'
  BY DEF Chosen

\* Where the file object is kept.
LEMMA OpeningKept ==
  ASSUME Opening, Holding' = Holding, UNCHANGED <<fp, owner, medium, fs>>,
         Holding => /\ cpu'.at = "FAILED" <=> cpu.at = "FAILED"
                    /\ cpu'.at = "FOLLOW" <=> cpu.at = "FOLLOW"
  PROVE  Opening'
  BY DEF Opening, At

\* Where there is none.
LEMMA OpeningNot ==
  ASSUME ~Holding', owner' = NoOne
  PROVE  Opening'
  BY DEF Opening

\* The walks are not under way, nor is a transfer.
LEMMA Idle ==
  ASSUME cpu'.at \notin {"TRACE", "NEXT", "LISTED", "LISTFAILED", "FOLLOW", "TRANSFER", "SEEK"}
  PROVE  Tracing' /\ Listings' /\ Moving' /\ ListsAll'
  BY DEF Tracing, Listings, Moving, ListsAll, At

LEMMA OpenListedIdle == cpu'.at # "REFUSED" => OpenListed'
  BY DEF OpenListed, At

LEMMA OneVars ==
  IInv => /\ Shape /\ Mount /\ Window /\ Written /\ Tracing /\ Listings /\ Chosen
          /\ Opening /\ Moving
  BY DEF IInv

\* thrall() starts over, or the menu is back in slave().
LEMMA RestingIs ==
  /\ Resting.at = "START" /\ Resting.why = "thrall" /\ Resting.path = <<>>
  /\ Resting.ofs = 0 /\ Resting.btr = 0 /\ Resting.cut = FALSE
  /\ Resting = [x \in {"at", "why", "path", "dj", "ofs", "btr", "cut"} |-> Resting[x]]
  BY DEF Resting

IsCpu(p) == /\ p = [x \in {"at", "why", "path", "dj", "ofs", "btr", "cut"} |-> p[x]]
            /\ p.ofs \in Nat /\ p.btr \in Nat /\ p.cut \in BOOLEAN

LEMMA AgainIs == Again => cpu' = Resting /\ IsCpu(cpu') /\ cpu'.at = "START" /\ cpu'.why = "thrall"
  BY DEF Again, Resting, IsCpu

LEMMA ServeIs == Serve => IsCpu(cpu') /\ cpu'.at = "SERVE" /\ cpu'.why = "thrall"
<1> SUFFICES ASSUME Serve PROVE IsCpu(cpu') /\ cpu'.at = "SERVE" /\ cpu'.why = "thrall"
  OBVIOUS
<1>1. cpu' = [at |-> "SERVE", why |-> "thrall", path |-> <<>>, dj |-> NoDir,
              ofs |-> 0, btr |-> 0, cut |-> FALSE]
  BY DEF Serve, Resting
<1> QED
  BY <1>1 DEF IsCpu

LEMMA CallIs ==
  ASSUME NEW why, NEW path, Call(why, path)
  PROVE  IsCpu(cpu') /\ cpu'.at = "AUTOMOUNT" /\ cpu'.why = why /\ cpu'.path = path
  BY DEF Call, Resting, IsCpu

LEMMA GotoIs ==
  ASSUME NEW place, Goto(place), cpu.cut \in BOOLEAN
  PROVE  IsCpu(cpu') /\ cpu'.at = place /\ cpu'.why = cpu.why /\ cpu'.path = cpu.path /\ cpu'.cut = cpu.cut
  BY DEF Goto, Resting, IsCpu

LEMMA RefuseIs ==
  ASSUME NEW cut \in BOOLEAN, Refuse(cut)
  PROVE  IsCpu(cpu') /\ cpu'.at = "REFUSED" /\ cpu'.why = cpu.why /\ cpu'.cut = cut
  BY DEF Refuse, Resting, IsCpu

\* Where a failed call leads.
LEMMA GivenUp ==
  ASSUME Shape, cpu.at \notin Reading, GiveUp, UNCHANGED owner, Opening, UNCHANGED <<fp, medium>>,
         cpu.why = "browse" => UNCHANGED fs
  PROVE  /\ Shape' /\ Tracing' /\ Listings' /\ Moving' /\ Opening' /\ OpenListed'
         /\ UNCHANGED <<imagefile, named, seen>>
         /\ cpu'.at = IF cpu.why = "browse" THEN "SERVE" ELSE "START"
         /\ cpu'.why = "thrall"
<1>1. UNCHANGED <<imagefile, named, seen>>
  BY DEF GiveUp
<1>2. CASE cpu.why = "browse"
  <2>1. IsCpu(cpu') /\ cpu'.at = "SERVE" /\ cpu'.why = "thrall"
    BY <1>2, ServeIs DEF GiveUp
  <2>2. Holding /\ Holding'
    BY <1>2, <2>1 DEF Holding, Reading
  <2>3. Opening'
    BY <1>2, <2>1, <2>2, OpeningKept DEF Reading
  <2>4. Shape'
    BY <2>1 DEF Shape, IsCpu, Reading, At
  <2> QED
    BY <1>1, <1>2, <2>1, <2>3, <2>4, Idle, OpenListedIdle
<1>3. CASE cpu.why # "browse"
  <2>1. IsCpu(cpu') /\ cpu'.at = "START" /\ cpu'.why = "thrall"
    BY <1>3, AgainIs DEF GiveUp
  <2>2. ~Holding /\ ~Holding'
    BY <1>3, <2>1 DEF Holding, Reading
  <2>3. Opening'
    BY <2>2, OpeningNot DEF Opening
  <2>4. Shape'
    BY <2>1 DEF Shape, IsCpu, Reading, At
  <2> QED
    BY <1>1, <1>3, <2>1, <2>3, <2>4, Idle, OpenListedIdle
<1> QED
  BY <1>2, <1>3

-----------------------------------------------------------------------------
(* Each action keeps the invariant. *)

LEMMA PhilesMountKeeps == IInv /\ PhilesMount => IInv'
<1> SUFFICES ASSUME IInv, PhilesMount PROVE IInv'
  OBVIOUS
<1>1. At("START") /\ Shape /\ Mount /\ Window /\ Written /\ Chosen /\ Opening
  BY OneVars DEF PhilesMount
<1>2. /\ Call("opendir", <<DirName>>) /\ fs' = NoFs /\ win' = NoWindow
      /\ UNCHANGED <<slot, written, fp, choice, medium, owner>>
  BY DEF PhilesMount, Unlabel
<1>3. IsCpu(cpu') /\ cpu'.at = "AUTOMOUNT" /\ cpu'.why = "opendir" /\ cpu'.path = <<DirName>>
  BY <1>2, CallIs
<1>4. ~Holding /\ ~Holding'
  BY <1>1, <1>3 DEF Shape, Holding, Reading, At, Listed
<1>5. Shape'
  BY <1>3 DEF Shape, IsCpu, WholePath, At
<1>6. Mount'
  BY <1>1, <1>2, <1>3, <1>4 DEF Mount, NoFs, At
<1>7. Window' /\ Written'
  BY <1>1, <1>2, WrittenKept DEF Window, WindowTrue, NoWindow
<1>8. Tracing' /\ Listings' /\ Moving' /\ OpenListed'
  BY <1>3, Idle, OpenListedIdle
<1>9. Chosen'
  BY <1>1, <1>2, <1>8, ChosenKept DEF choice
<1>10. Opening'
  BY <1>1, <1>2, <1>4, OpeningNot DEF Opening
<1> QED
  BY <1>5, <1>6, <1>7, <1>8, <1>9, <1>10 DEF IInv

LEMMA RootTop == Mounting => RootPlace(medium, RootDir)
<1> SUFFICES ASSUME Mounting PROVE RootPlace(medium, RootDir)
  OBVIOUS
<1>1. 0 \div PerSector = 0
  BY SizesAssumption, DivIs
<1>2. 0 \in RootSlots(medium) /\ fs.dirbase = Layout(medium).dirbase /\ Layout(medium).dirbase \in Nat
  BY MountFacts DEF RootSlots
<1>3. \A i \in RootSlots(medium) : i >= 0
  BY MountFacts DEF RootSlots
<1> QED
  BY <1>1, <1>2, <1>3 DEF RootPlace, IsPlace, RootDir, RootSect

LEMMA StillMountedKeeps == IInv /\ StillMounted => IInv'
<1> SUFFICES ASSUME IInv, StillMounted PROVE IInv'
  OBVIOUS
<1>1. /\ At("AUTOMOUNT") /\ fs.type # 0 /\ ~noinit
      /\ Shape /\ Mount /\ Window /\ Written /\ Chosen /\ Opening
  BY OneVars DEF StillMounted
<1>2. /\ cpu' = [cpu EXCEPT !.at = "TRACE", !.dj = RootDir]
      /\ UNCHANGED <<slot, awake, noinit, written, fs, win, fp, choice, medium, owner>>
  BY DEF StillMounted, fsvars, card
<1>3. /\ IsCpu(cpu') /\ cpu'.at = "TRACE" /\ cpu'.why = cpu.why /\ cpu'.path = cpu.path
      /\ cpu'.dj = RootDir /\ cpu.why \in {"opendir", "open", "browse"} /\ WholePath
  BY <1>1, <1>2 DEF Shape, IsCpu, At, Listed, Reading
<1>4. Holding' = Holding
  BY <1>1, <1>3 DEF Holding, Reading, At
<1>5. Shape'
  BY <1>2, <1>3 DEF Shape, IsCpu, WholePath, At, choice
<1>6. Mount'
  BY <1>1, <1>2, <1>3, MountKept
<1>7. Window' /\ Written'
  BY <1>1, <1>2, WindowShows, WindowKept, WrittenKept
<1>8. Tracing'
  <2>1. RootPlace(medium, RootDir)
    BY <1>1, RootTop DEF Mounting
  <2>2. ~InFolder'
    BY <1>2, <1>3 DEF InFolder, WholePath, choice
  <2> QED
    BY <1>2, <1>3, <2>1, <2>2 DEF Tracing
<1>9. Listings' /\ Moving' /\ OpenListed'
  BY <1>3 DEF Listings, Moving, ListsAll, OpenListed, At
<1>10. Chosen'
  BY <1>1, <1>2, <1>9, ChosenKept DEF choice
<1>11. Opening'
  BY <1>1, <1>2, <1>3, <1>4, OpeningKept DEF At
<1> QED
  BY <1>5, <1>6, <1>7, <1>8, <1>9, <1>10, <1>11 DEF IInv

LEMMA RemountKeeps == IInv /\ Remount => IInv'
<1> SUFFICES ASSUME IInv, Remount PROVE IInv'
  OBVIOUS
<1>1. /\ At("AUTOMOUNT") /\ (fs.type = 0 \/ noinit)
      /\ Shape /\ Mount /\ Window /\ Written /\ Chosen /\ Opening
  BY OneVars DEF Remount
<1>2. ~Holding /\ cpu.why # "browse"
  BY <1>1 DEF Mount, Holding
<1>3. /\ fs' = NoFs /\ win' = NoWindow /\ UNCHANGED <<slot, written, fp, medium, owner>>
      /\ GiveUp \/ (Goto("CHECK") /\ UNCHANGED choice)
  BY DEF Remount, Unlabel
<1>4. Window' /\ Written'
  BY <1>1, <1>3, WrittenKept DEF Window, WindowTrue, NoWindow
<1>5. CASE GiveUp
  <2>1. /\ Shape' /\ Tracing' /\ Listings' /\ Moving' /\ Opening' /\ OpenListed'
        /\ UNCHANGED <<imagefile, named, seen>> /\ cpu'.at = "START" /\ cpu'.why = "thrall"
    BY <1>1, <1>2, <1>3, <1>5, GivenUp DEF At, Reading
  <2>2. Mount'
    BY <1>1, <1>3, <2>1 DEF Mount, NoFs, At, Holding, Reading
  <2>3. Chosen'
    BY <1>1, <2>1, ChosenKept
  <2> QED
    BY <1>4, <2>1, <2>2, <2>3 DEF IInv
<1>6. CASE Goto("CHECK") /\ UNCHANGED choice
  <2>1. IsCpu(cpu') /\ cpu'.at = "CHECK" /\ cpu'.why = cpu.why /\ cpu'.path = cpu.path
    BY <1>1, <1>6, GotoIs DEF Shape
  <2>2. cpu.why \in {"opendir", "open", "browse"} /\ WholePath
    BY <1>1 DEF Shape, At, Listed, Reading
  <2>3. Shape'
    BY <1>6, <2>1, <2>2 DEF Shape, IsCpu, WholePath, At, choice
  <2>4. ~Holding'
    BY <1>2, <2>1 DEF Holding, Reading
  <2>5. Mount'
    BY <1>1, <1>3, <2>1, <2>4 DEF Mount, NoFs, At
  <2>6. Tracing' /\ Listings' /\ Moving' /\ OpenListed'
    BY <2>1, Idle, OpenListedIdle
  <2>7. Chosen'
    BY <1>1, <1>6, <2>6, ChosenKept DEF choice
  <2>8. Opening'
    BY <1>1, <1>2, <1>3, <2>4, OpeningNot DEF Opening
  <2> QED
    BY <1>4, <2>3, <2>5, <2>6, <2>7, <2>8 DEF IInv
<1> QED
  BY <1>3, <1>5, <1>6

\* The boot records are as the card came, if it is a FAT volume or if nothing
\* was written to it.
LEMMA BootRead ==
  ASSUME Written, NEW c \in Cards, NEW s \in {0, BootSect(c)}
  PROVE  Contents(c, s) = Volume[c][s]
<1>1. CASE Formatted(c)
  <2>1. SoundLayout(c)
    BY <1>1, CardFacts
  <2>2. BootSect(c) \in Nat /\ BootSect(c) < Layout(c).database /\ 0 < Layout(c).database
    <3>1. /\ 0 \in RootSlots(c) /\ Layout(c).dirbase \in Nat /\ Layout(c).fatbase \in Nat
          /\ BootSect(c) \in Nat /\ BootSect(c) < Layout(c).fatbase
          /\ Layout(c).fatbase <= Layout(c).dirbase /\ Layout(c).database \in Nat
      BY <2>1 DEF SoundLayout, RootSlots
    <3>2. RootSect(c, 0) < Layout(c).database
      BY <2>1, <3>1 DEF SoundLayout
    <3>3. 0 \div PerSector = 0
      BY SizesAssumption, DivIs
    <3>4. RootSect(c, 0) = Layout(c).dirbase
      BY <3>1, <3>3 DEF RootSect
    <3> QED
      BY <3>1, <3>2, <3>4
  <2>3. s \notin Own(c)
    BY <1>1, <2>1, <2>2, OwnBehind DEF SoundLayout
  <2> QED
    BY <2>3, Untouched
<1>2. CASE ~Formatted(c)
  <2>1. Own(c) = {}
    BY <1>2, CardsAssumption DEF Own
  <2> QED
    BY <2>1, Untouched
<1> QED
  BY <1>1, <1>2

\* A volume that is found is that of a sound card.
LEMMA MountedIs ==
  ASSUME Written, slot \in Cards \union {NoCard}, NEW m \in Mounted
  PROVE  \/ m = NoFs
         \/ /\ slot \in Cards /\ Formatted(slot) /\ Alive /\ m.type # 0
            /\ m = [Layout(slot) EXCEPT !.id = m.id]
<1> DEFINE id == (fsid + 1) % IdMod
           FsAt(r, base) == IF CheckFs(r) = 0 /\ r.data.bytes = SectorSize
                            THEN FatFs(r.data, base, id) ELSE NoFs
<1>1. PICK r \in DiskRead(0) :
        IF CheckFs(r) = 1 /\ r.data.part # 0
        THEN \E q \in DiskRead(r.data.part) : m = FsAt(q, r.data.part)
        ELSE m = FsAt(r, 0)
  BY DEF Mounted
<1>2. CheckFs(Failure) = 2
  BY DEF CheckFs, Failure
<1>3. ASSUME NEW s \in {0, BootSect(slot)}, NEW q \in DiskRead(s), CheckFs(q) # 2
      PROVE  /\ slot \in Cards /\ Alive /\ s \in DOMAIN Volume[slot]
             /\ q = Shipped(slot, s) /\ q.data = Volume[slot][s]
  <2>1. q # Failure
    BY <1>2, <1>3
  <2>2. q = [ok |-> TRUE, data |-> Contents(slot, s)] /\ Alive /\ s \in DOMAIN Volume[slot]
    BY <1>3, <2>1 DEF DiskRead
  <2>3. slot \in Cards
    BY <2>2 DEF Alive
  <2>4. Contents(slot, s) = Volume[slot][s]
    BY <2>3, BootRead
  <2> QED
    BY <2>2, <2>3, <2>4 DEF Shipped
<1>4. ASSUME NEW s, NEW q, m = FsAt(q, s), m # NoFs,
             slot \in Cards, Alive, s = BootSect(slot), {0, s} \subseteq DOMAIN Volume[slot],
             q = Shipped(slot, s), q.data = Volume[slot][s]
      PROVE  /\ slot \in Cards /\ Formatted(slot) /\ Alive /\ m.type # 0
             /\ m = [Layout(slot) EXCEPT !.id = m.id]
  <2>1. CheckFs(q) = 0 /\ q.data.bytes = SectorSize /\ m = FatFs(Volume[slot][s], s, id)
    BY <1>4
  <2>2. Formatted(slot)
    BY <1>4, <2>1 DEF Formatted
  <2>3. m.id = id /\ m.type # 0
    BY <2>1 DEF FatFs
  <2>4. FatFs(Volume[slot][s], s, id) = [FatFs(Volume[slot][s], s, 0) EXCEPT !.id = id]
    BY DEF FatFs
  <2> QED
    BY <1>4, <2>1, <2>2, <2>3, <2>4 DEF Layout
<1>5. CASE CheckFs(r) = 1 /\ r.data.part # 0
  <2>1. /\ slot \in Cards /\ Alive /\ 0 \in DOMAIN Volume[slot]
        /\ r = Shipped(slot, 0) /\ r.data = Volume[slot][0]
    BY <1>3, <1>5
  <2>2. BootSect(slot) = r.data.part
    BY <1>5, <2>1 DEF BootSect
  <2>3. PICK q \in DiskRead(BootSect(slot)) : m = FsAt(q, BootSect(slot))
    BY <1>1, <1>5, <2>2
  <2>4. CASE CheckFs(q) = 0
    <3>1. /\ BootSect(slot) \in DOMAIN Volume[slot]
          /\ q = Shipped(slot, BootSect(slot)) /\ q.data = Volume[slot][BootSect(slot)]
      BY <1>3, <2>4
    <3> HIDE DEF FsAt
    <3> QED
      BY <1>4, <2>1, <2>3, <3>1
  <2>5. CASE CheckFs(q) # 0
    BY <2>3, <2>5
  <2> QED
    BY <2>4, <2>5
<1>6. CASE ~(CheckFs(r) = 1 /\ r.data.part # 0)
  <2>1. m = FsAt(r, 0)
    BY <1>1, <1>6
  <2>2. CASE CheckFs(r) = 0
    <3>1. /\ slot \in Cards /\ Alive /\ 0 \in DOMAIN Volume[slot]
          /\ r = Shipped(slot, 0) /\ r.data = Volume[slot][0]
      BY <1>3, <2>2
    <3>2. BootSect(slot) = 0
      BY <2>2, <3>1 DEF BootSect
    <3> HIDE DEF FsAt
    <3> QED
      BY <1>4, <2>1, <3>1, <3>2
  <2>3. CASE CheckFs(r) # 0
    BY <2>1, <2>3
  <2> QED
    BY <2>2, <2>3
<1> QED
  BY <1>5, <1>6

LEMMA FindVolumeKeeps == IInv /\ FindVolume => IInv'
<1> SUFFICES ASSUME IInv, FindVolume PROVE IInv'
  OBVIOUS
<1>1. At("CHECK") /\ Shape /\ Mount /\ Window /\ Written /\ Chosen /\ Opening
  BY OneVars DEF FindVolume
<1>2. /\ fs.type = 0 /\ win = NoWindow /\ slot \in Cards \union {NoCard}
      /\ ~Holding /\ cpu.why # "browse"
  BY <1>1 DEF Mount, Holding
<1>3. PICK m \in Mounted :
        /\ fs' = m
        /\ IF m = NoFs THEN GiveUp /\ UNCHANGED <<fsid, medium>>
           ELSE medium' = slot /\ Goto("AUTOMOUNT") /\ UNCHANGED choice
  BY DEF FindVolume
<1>4. UNCHANGED <<slot, awake, noinit, written, win, fp, owner>>
  BY DEF FindVolume, card
<1>5. Window' /\ Written'
  BY <1>1, <1>2, <1>4, WrittenKept DEF Window, WindowTrue, NoWindow
<1>6. CASE m = NoFs
  <2>1. GiveUp /\ UNCHANGED medium
    BY <1>3, <1>6
  <2>2. /\ Shape' /\ Tracing' /\ Listings' /\ Moving' /\ Opening' /\ OpenListed'
        /\ UNCHANGED <<imagefile, named, seen>> /\ cpu'.at = "START" /\ cpu'.why = "thrall"
    BY <1>1, <1>2, <1>4, <2>1, GivenUp DEF At, Reading
  <2>3. Mount'
    BY <1>2, <1>3, <1>4, <1>6, <2>2 DEF Mount, NoFs, At, Holding, Reading
  <2>4. Chosen'
    BY <1>1, <2>2, ChosenKept
  <2> QED
    BY <1>5, <2>2, <2>3, <2>4 DEF IInv
<1>7. CASE m # NoFs
  <2>1. medium' = slot /\ Goto("AUTOMOUNT") /\ UNCHANGED choice
    BY <1>3, <1>7
  <2>2. IsCpu(cpu') /\ cpu'.at = "AUTOMOUNT" /\ cpu'.why = cpu.why /\ cpu'.path = cpu.path
    BY <1>1, <2>1, GotoIs DEF Shape
  <2>3. cpu.why \in {"opendir", "open", "browse"} /\ WholePath
    BY <1>1 DEF Shape, At, Listed, Reading
  <2>4. Shape'
    BY <2>1, <2>2, <2>3 DEF Shape, IsCpu, WholePath, At, choice
  <2>5. ~Holding'
    BY <1>2, <2>2 DEF Holding, Reading
  <2>6. slot \in Cards /\ Formatted(slot) /\ m.type # 0 /\ m = [Layout(slot) EXCEPT !.id = m.id]
    BY <1>1, <1>2, <1>7, MountedIs
  <2>7. Mount'
    BY <1>2, <1>3, <1>4, <2>1, <2>2, <2>5, <2>6 DEF Mount, At
  <2>8. Tracing' /\ Listings' /\ Moving' /\ OpenListed'
    BY <2>2, Idle, OpenListedIdle
  <2>9. Chosen'
    BY <1>1, <2>1, <2>8, ChosenKept DEF choice
  <2>10. Opening'
    BY <1>1, <1>2, <1>4, <2>5, OpeningNot DEF Opening
  <2> QED
    BY <1>5, <2>4, <2>7, <2>8, <2>9, <2>10 DEF IInv
<1> QED
  BY <1>6, <1>7

\* Where a path is refused.
LEMMA Refusing ==
  ASSUME Shape, At("TRACE"), Opening, Chosen, NEW cut \in BOOLEAN, Refuse(cut),
         UNCHANGED <<imagefile, named, fp, owner, medium, fs>>,
         ~cut /\ cpu.why = "open" => named # medium
  PROVE  /\ Shape' /\ Tracing' /\ Listings' /\ Moving' /\ Opening' /\ Chosen'
         /\ cpu'.at = "REFUSED"
<1>1. IsCpu(cpu') /\ cpu'.at = "REFUSED" /\ cpu'.why = cpu.why /\ cpu'.cut = cut
  BY RefuseIs
<1>2. cpu.why \in {"opendir", "open", "browse"}
  BY DEF Shape, At, Listed, Reading
<1>3. Shape'
  BY <1>1, <1>2 DEF Shape, IsCpu, At
<1>4. Tracing' /\ Listings' /\ Moving'
  BY <1>1, Idle
<1>5. OpenListed'
  BY <1>1 DEF OpenListed
<1>6. Chosen'
  BY <1>5, ChosenKept
<1>7. Holding' = Holding
  BY <1>1 DEF Holding, Reading, At
<1>8. Opening'
  BY <1>1, <1>7, OpeningKept DEF At
<1> QED
  BY <1>1, <1>3, <1>4, <1>6, <1>8

LEMMA BadNameKeeps == IInv /\ BadName => IInv'
<1> SUFFICES ASSUME IInv, BadName PROVE IInv'
  OBVIOUS
<1>1. /\ At("TRACE") /\ Sought = <<>> /\ Refuse(FALSE)
      /\ Shape /\ Mount /\ Window /\ Written /\ Chosen /\ Opening
  BY OneVars DEF BadName
<1>2. UNCHANGED <<slot, awake, noinit, written, fs, win, fp, imagefile, named, medium, owner>>
  BY DEF BadName, fsvars, card, choice
<1>3. ASSUME named = medium, cpu.why = "open" PROVE FALSE
  <2>1. ~WholePath
    BY <1>1, SizesAssumption DEF WholePath, Sought
  <2>2. InFolder
    BY <1>1, <2>1 DEF Shape, At, Listed, Reading
  <2>3. MakeDirfile(imagefile) = <<>>
    BY <1>1, <2>2 DEF InFolder, Sought
  <2>4. medium \in Cards /\ imagefile \in DOMAIN Files[medium] /\ Formatted(medium)
    BY <1>1, <1>3 DEF Mount, Chosen, At
  <2>5. PICK e \in Images(medium) : Spells(imagefile, e.name)
    BY <2>4, CardFacts DEF SoundFiles
  <2> QED
    BY <2>3, <2>5, SpellsFacts
<1>4. /\ Shape' /\ Tracing' /\ Listings' /\ Moving' /\ Opening' /\ Chosen'
      /\ cpu'.at = "REFUSED"
  BY <1>1, <1>2, <1>3, Refusing
<1>5. Holding' = Holding
  BY <1>1, <1>4 DEF Opening, Refuse, Resting, Holding, Reading, At
<1>6. Mount'
  BY <1>1, <1>2, <1>4, <1>5, MountKept DEF Mount
<1>7. Window' /\ Written'
  BY <1>1, <1>2, WindowShows, WindowKept, WrittenKept
<1> QED
  BY <1>4, <1>6, <1>7 DEF IInv

LEMMA RefusedKeeps == IInv /\ Refused => IInv'
<1> SUFFICES ASSUME IInv, Refused PROVE IInv'
  OBVIOUS
<1>1. /\ At("REFUSED") /\ GiveUp
      /\ Shape /\ Mount /\ Window /\ Written /\ Chosen /\ Opening
  BY OneVars DEF Refused
<1>2. UNCHANGED <<slot, awake, noinit, written, fs, win, fp, medium, owner>>
  BY DEF Refused, fsvars, card
<1>3. /\ Shape' /\ Tracing' /\ Listings' /\ Moving' /\ Opening' /\ OpenListed'
      /\ UNCHANGED <<imagefile, named, seen>> /\ cpu'.why = "thrall"
      /\ cpu'.at = IF cpu.why = "browse" THEN "SERVE" ELSE "START"
  BY <1>1, <1>2, GivenUp DEF At, Reading
<1>4. Holding' = Holding
  BY <1>1, <1>3 DEF Holding, Reading, At
<1>5. Mount'
  BY <1>1, <1>2, <1>3, <1>4, MountKept DEF Mount
<1>6. Window' /\ Written'
  BY <1>1, <1>2, WindowShows, WindowKept, WrittenKept
<1>7. Chosen'
  BY <1>1, <1>3, ChosenKept
<1> QED
  BY <1>3, <1>5, <1>6, <1>7 DEF IInv

\* slave() returns: nothing is open, and nothing under way.
LEMMA QuitIs ==
  ASSUME Quit
  PROVE  /\ Shape' /\ Tracing' /\ Listings' /\ Moving' /\ Opening' /\ OpenListed'
         /\ cpu'.at = "START" /\ ~Holding'
<1>1. IsCpu(cpu') /\ cpu'.at = "START" /\ cpu'.why = "thrall" /\ owner' = NoOne
  BY AgainIs DEF Quit
<1>2. Shape' /\ ~Holding'
  BY <1>1 DEF Shape, IsCpu, Reading, At, Holding
<1> QED
  BY <1>1, <1>2, Idle, OpenListedIdle, OpeningNot

LEMMA NoSdKeeps == IInv /\ NoSd => IInv'
<1> SUFFICES ASSUME IInv, NoSd PROVE IInv'
  OBVIOUS
<1>1. At("SERVE") /\ Quit /\ Mount /\ Window /\ Written /\ Chosen
  BY OneVars DEF NoSd
<1>2. UNCHANGED <<slot, awake, noinit, written, fs, win, medium, imagefile, named>>
  BY DEF NoSd, card
<1>3. /\ Shape' /\ Tracing' /\ Listings' /\ Moving' /\ Opening' /\ OpenListed'
      /\ cpu'.at = "START" /\ ~Holding'
  BY <1>1, QuitIs
<1>4. Mount'
  BY <1>1, <1>2, <1>3, MountKept
<1>5. Window' /\ Written' /\ Chosen'
  BY <1>1, <1>2, <1>3, WindowShows, WindowKept, WrittenKept, ChosenKept
<1> QED
  BY <1>3, <1>4, <1>5 DEF IInv

LEMMA PickKeeps == IInv /\ Pick => IInv'
<1> SUFFICES ASSUME IInv, Pick PROVE IInv'
  OBVIOUS
<1>1. /\ Listed /\ Quit /\ imagefile' \in seen \union Odd
      /\ named' = IF imagefile' \in seen THEN medium ELSE NoCard
      /\ Shape /\ Mount /\ Window /\ Written /\ Listings
  BY OneVars DEF Pick
<1>2. UNCHANGED <<slot, awake, noinit, written, fs, win, medium>>
  BY DEF Pick, card
<1>3. /\ Shape' /\ Tracing' /\ Listings' /\ Moving' /\ Opening' /\ OpenListed'
      /\ cpu'.at = "START" /\ ~Holding'
  BY <1>1, QuitIs
<1>4. Mount'
  BY <1>1, <1>2, <1>3, MountKept
<1>5. Window' /\ Written'
  BY <1>1, <1>2, WindowShows, WindowKept, WrittenKept
<1>6. cpu.why = "browse" /\ seen \subseteq DOMAIN Files[medium]
  BY <1>1 DEF Shape, Listed, Listings, At, Reading
<1>7. medium \in Cards /\ Formatted(medium)
  BY <1>1, <1>6 DEF Mount, Holding
<1>8. imagefile' \in Names
  BY <1>1, <1>6, <1>7 DEF Names
<1>9. Chosen'
  <2>1. named' \in Cards => imagefile' \in seen /\ named' = medium
    BY <1>1, NoCardAssumption
  <2> QED
    BY <1>1, <1>3, <1>6, <1>7, <1>8, <2>1 DEF Chosen
<1> QED
  BY <1>3, <1>4, <1>5, <1>9 DEF IInv

\* Where the image stays open.
LEMMA CloseKeeps == IInv /\ Close => IInv'
<1> SUFFICES ASSUME IInv, Close PROVE IInv'
  OBVIOUS
<1>1. /\ Listed /\ Serve /\ Shape /\ Mount /\ Window /\ Written /\ Chosen /\ Opening
  BY OneVars DEF Close
<1>2. UNCHANGED <<slot, awake, noinit, written, fs, win, fp, medium, owner, imagefile, named>>
  BY DEF Close, card
<1>3. IsCpu(cpu') /\ cpu'.at = "SERVE" /\ cpu'.why = "thrall"
  BY <1>1, ServeIs
<1>4. Holding /\ Holding'
  BY <1>1, <1>3 DEF Shape, Listed, Holding, Reading, At
<1>5. Shape'
  BY <1>3 DEF Shape, IsCpu, Reading, At
<1>6. Mount'
  BY <1>1, <1>2, <1>3, <1>4, MountKept DEF Mount
<1>7. Window' /\ Written'
  BY <1>1, <1>2, WindowShows, WindowKept, WrittenKept
<1>8. Tracing' /\ Listings' /\ Moving' /\ OpenListed'
  BY <1>3, Idle, OpenListedIdle
<1>9. Chosen'
  BY <1>1, <1>2, <1>8, ChosenKept
<1>10. Opening'
  BY <1>1, <1>2, <1>3, <1>4, OpeningKept DEF Listed, At
<1> QED
  BY <1>5, <1>6, <1>7, <1>8, <1>9, <1>10 DEF IInv

LEMMA BrowseKeeps == IInv /\ Browse => IInv'
<1> SUFFICES ASSUME IInv, Browse PROVE IInv'
  OBVIOUS
<1>1. /\ At("SERVE") /\ Call("browse", <<DirName>>)
      /\ Shape /\ Mount /\ Window /\ Written /\ Chosen /\ Opening
  BY OneVars DEF Browse
<1>2. UNCHANGED <<slot, awake, noinit, written, fs, win, fp, medium, owner, imagefile, named>>
  BY DEF Browse, fsvars, card, choice
<1>3. IsCpu(cpu') /\ cpu'.at = "AUTOMOUNT" /\ cpu'.why = "browse" /\ cpu'.path = <<DirName>>
  BY <1>1, CallIs
<1>4. Holding /\ Holding'
  BY <1>1, <1>3 DEF Holding, Reading, At
<1>5. Shape'
  BY <1>3 DEF Shape, IsCpu, WholePath, At
<1>6. Mount'
  BY <1>1, <1>2, <1>3, <1>4, MountKept DEF Mount
<1>7. Window' /\ Written'
  BY <1>1, <1>2, WindowShows, WindowKept, WrittenKept
<1>8. Tracing' /\ Listings' /\ Moving' /\ OpenListed'
  BY <1>3, Idle, OpenListedIdle
<1>9. Chosen'
  BY <1>1, <1>2, <1>8, ChosenKept
<1>10. Opening'
  BY <1>1, <1>2, <1>3, <1>4, OpeningKept DEF At
<1> QED
  BY <1>5, <1>6, <1>7, <1>8, <1>9, <1>10 DEF IInv

LEMMA AskKeeps == IInv /\ Ask => IInv'
<1> SUFFICES ASSUME IInv, Ask PROVE IInv'
  OBVIOUS
<1>1. /\ At("SERVE") /\ Goto("SEEK")
      /\ Shape /\ Mount /\ Window /\ Written /\ Chosen /\ Opening
  BY OneVars DEF Ask
<1>2. UNCHANGED <<slot, awake, noinit, written, fs, win, fp, medium, owner, imagefile, named>>
  BY DEF Ask, fsvars, card, choice
<1>3. IsCpu(cpu') /\ cpu'.at = "SEEK" /\ cpu'.why = "thrall"
  BY <1>1, GotoIs DEF Shape, At, Listed
<1>4. Holding /\ Holding'
  BY <1>1, <1>3 DEF Holding, Reading, At
<1>5. Shape'
  BY <1>3 DEF Shape, IsCpu, Reading, At
<1>6. Mount'
  BY <1>1, <1>2, <1>3, <1>4, MountKept DEF Mount
<1>7. Window' /\ Written'
  BY <1>1, <1>2, WindowShows, WindowKept, WrittenKept
<1>8. Moving'
  <2>1. PICK r \in Requests : request' = [op |-> r.op, side |-> r.side, track |-> r.track,
                                          sector |-> r.sector, done |-> 0]
    BY DEF Ask
  <2> QED
    BY <1>3, <2>1, SizesAssumption DEF Moving, At
<1>9. Tracing' /\ Listings' /\ OpenListed'
  BY <1>3 DEF Tracing, Listings, ListsAll, OpenListed, At
<1>10. Chosen'
  BY <1>1, <1>2, <1>9, ChosenKept
<1>11. Opening'
  BY <1>1, <1>2, <1>3, <1>4, OpeningKept DEF At
<1> QED
  BY <1>5, <1>6, <1>7, <1>8, <1>9, <1>10, <1>11 DEF IInv

LEMMA DoneKeeps == IInv /\ Done => IInv'
<1> SUFFICES ASSUME IInv, Done PROVE IInv'
  OBVIOUS
<1>1. /\ At("TRANSFER") /\ cpu' = [Resting EXCEPT !.at = "ANSWERED"]
      /\ Shape /\ Mount /\ Window /\ Written /\ Chosen /\ Opening
  BY OneVars DEF Done
<1>2. UNCHANGED <<slot, awake, noinit, written, fs, win, fp, medium, owner, imagefile, named>>
  BY DEF Done, fsvars, card, choice
<1>3. IsCpu(cpu') /\ cpu'.at = "ANSWERED" /\ cpu'.why = "thrall"
  BY <1>1 DEF Resting, IsCpu
<1>4. Holding /\ Holding'
  BY <1>1, <1>3 DEF Holding, Reading, At
<1>5. Shape'
  BY <1>3 DEF Shape, IsCpu, Reading, At
<1>6. Mount'
  BY <1>1, <1>2, <1>3, <1>4, MountKept DEF Mount
<1>7. Window' /\ Written'
  BY <1>1, <1>2, WindowShows, WindowKept, WrittenKept
<1>8. Tracing' /\ Listings' /\ Moving' /\ OpenListed'
  BY <1>3, Idle, OpenListedIdle
<1>9. Chosen'
  BY <1>1, <1>2, <1>8, ChosenKept
<1>10. Opening'
  BY <1>1, <1>2, <1>3, <1>4, OpeningKept DEF At
<1> QED
  BY <1>5, <1>6, <1>7, <1>8, <1>9, <1>10 DEF IInv

LEMMA AckedKeeps == IInv /\ Acked => IInv'
<1> SUFFICES ASSUME IInv, Acked PROVE IInv'
  OBVIOUS
<1>1. /\ cpu.at \in {"ANSWERED", "FAILED"} /\ Shape /\ Mount /\ Window /\ Written /\ Chosen /\ Opening
  BY OneVars DEF Acked
<1>2. UNCHANGED <<slot, awake, noinit, written, fs, win, medium, imagefile, named>>
  BY DEF Acked, card
<1>3. Window' /\ Written'
  BY <1>1, <1>2, WindowShows, WindowKept, WrittenKept
<1>4. CASE At("FAILED")
  <2>1. Quit
    BY <1>4 DEF Acked
  <2>2. /\ Shape' /\ Tracing' /\ Listings' /\ Moving' /\ Opening' /\ OpenListed'
        /\ cpu'.at = "START" /\ ~Holding'
    BY <2>1, QuitIs
  <2>3. Mount' /\ Chosen'
    BY <1>1, <1>2, <2>2, MountKept, ChosenKept
  <2> QED
    BY <1>3, <2>2, <2>3 DEF IInv
<1>5. CASE ~At("FAILED")
  <2>1. Serve /\ UNCHANGED <<owner, fp>> /\ cpu.at = "ANSWERED"
    BY <1>1, <1>5 DEF Acked, At
  <2>2. IsCpu(cpu') /\ cpu'.at = "SERVE" /\ cpu'.why = "thrall"
    BY <2>1, ServeIs
  <2>3. Holding /\ Holding'
    BY <2>1, <2>2 DEF Holding, Reading
  <2>4. Shape'
    BY <2>2 DEF Shape, IsCpu, Reading, At
  <2>5. Mount'
    BY <1>1, <1>2, <2>2, <2>3, MountKept DEF Mount
  <2>6. Tracing' /\ Listings' /\ Moving' /\ OpenListed'
    BY <2>2, Idle, OpenListedIdle
  <2>7. Chosen'
    BY <1>1, <1>2, <2>6, ChosenKept
  <2>8. Opening'
    BY <1>1, <1>2, <2>1, <2>2, <2>3, OpeningKept DEF Mount
  <2> QED
    BY <1>3, <2>4, <2>5, <2>6, <2>7, <2>8 DEF IInv
<1> QED
  BY <1>4, <1>5

\* Nothing but the card in the slot, and whether it answers, changes.
LEMMA CardMoved ==
  ASSUME IInv, UNCHANGED <<noinit, written, fs, win, fp, dir, cpu, choice, request, medium, owner>>,
         slot' \in Cards \union {NoCard}, Alive' => Alive /\ slot' = slot
  PROVE  IInv'
<1>1. /\ Shape /\ Mount /\ Window /\ Written /\ Tracing /\ Listings /\ Chosen /\ Opening /\ Moving
  BY OneVars
<1>2. UNCHANGED <<imagefile, named, seen>>
  BY DEF choice
<1>3. Shape'
  BY <1>1, <1>2 DEF Shape, WholePath, InFolder, At, Listed
<1>4. Mount'
  BY <1>1 DEF Mount, At, Holding
<1>5. Window' /\ Written'
  BY <1>1, WindowShows, WindowKept, WrittenKept
<1>6. Tracing' /\ Listings'
  BY <1>1, <1>2 DEF Tracing, Listings, ListsAll, At, InFolder
<1>7. Chosen'
  BY <1>1, <1>2 DEF Chosen, OpenListed, At
<1>8. Opening' /\ Moving'
  BY <1>1 DEF Opening, Moving, Holding, At
<1> QED
  BY <1>3, <1>4, <1>5, <1>6, <1>7, <1>8 DEF IInv

LEMMA SwapKeeps == IInv /\ Swap => IInv'
  BY CardMoved DEF Swap, Alive, floppy

LEMMA WobbleKeeps == IInv /\ Wobble => IInv'
<1> SUFFICES ASSUME IInv, Wobble PROVE IInv'
  OBVIOUS
<1>1. slot \in Cards \union {NoCard}
  BY OneVars DEF Mount
<1> QED
  BY <1>1, CardMoved DEF Wobble, Alive, floppy

\* Without a directory of the images there are none.
LEMMA NoFolder ==
  ASSUME Mounting, Folders(medium) = {}
  PROVE  DOMAIN Files[medium] = {}
<1>1. Listing(medium) = {}
  BY DEF Listing
<1>2. Images(medium) = {}
  BY <1>1 DEF Images
<1> QED
  BY <1>2, MountFacts DEF SoundFiles

\* There is none in a root that ends first, or has something else by its name.
LEMMA RootStops ==
  ASSUME Mounting, NEW d, RootPlace(medium, d), NEW e, e = RootEntry(medium, d.index),
         Ends(e) \/ (Live(e) /\ e.name = MakeDirfile(DirName) /\ e.attr # "DIR")
  PROVE  DOMAIN Files[medium] = {}
<1>1. SoundRoot(medium) /\ d.index \in RootSlots(medium) /\ RootSlots(medium) \subseteq Nat
  BY MountFacts DEF RootPlace, RootSlots
<1>2. ASSUME NEW i \in RootSlots(medium), IsFolder(medium, i) PROVE FALSE
  <2>1. i >= d.index /\ i \in Nat /\ d.index \in Nat
    BY <1>1, <1>2 DEF RootPlace
  <2>2. Live(RootEntry(medium, i)) /\ RootEntry(medium, i).attr = "DIR"
        /\ RootEntry(medium, i).name = MakeDirfile(DirName)
    BY <1>2 DEF IsFolder
  <2>3. CASE i = d.index
    BY <2>2, <2>3 DEF Live
  <2>4. CASE i # d.index
    <3>1. d.index < i
      BY <2>1, <2>4
    <3>2. CASE Ends(e)
      BY <1>1, <2>2, <3>1, <3>2 DEF SoundRoot
    <3>3. CASE Live(e) /\ e.name = MakeDirfile(DirName)
      BY <1>1, <2>2, <2>4, <3>3 DEF SoundRoot
    <3> QED
      BY <3>2, <3>3
  <2> QED
    BY <2>3, <2>4
<1>3. Folders(medium) = {}
  BY <1>2 DEF Folders
<1> QED
  BY <1>3, NoFolder

\* imagefile was not listed here.
LEMMA Unlisted ==
  ASSUME Mounting, Chosen, imagefile \notin DOMAIN Files[medium]
  PROVE  named # medium
  BY MountFacts DEF Chosen

\* The program goes on to open an image.
LEMMA Opens ==
  ASSUME OpenFile, owner' = NoOne
  PROVE  /\ Shape' /\ Tracing' /\ Listings' /\ Moving' /\ Opening' /\ OpenListed'
         /\ ~Holding' /\ cpu'.at = "AUTOMOUNT"
<1>1. IsCpu(cpu') /\ cpu'.at = "AUTOMOUNT" /\ cpu'.why = "open" /\ cpu'.path = <<DirName, imagefile'>>
  BY CallIs DEF OpenFile
<1>2. Shape' /\ ~Holding'
  BY <1>1 DEF Shape, IsCpu, WholePath, At, Holding, Reading
<1> QED
  BY <1>1, <1>2, Idle, OpenListedIdle, OpeningNot

\* In the root the directory of the images is looked for.
LEMMA TraceRoot ==
  ASSUME IInv, At("TRACE"), ~InFolder, UNCHANGED <<medium, fs>>,
         NEW w, Shows(w), NEW e, e = EntryAt(cpu.dj, w), e = RootEntry(medium, cpu.dj.index),
         \/ /\ Ends(e) /\ win' = w /\ Refuse(FALSE) /\ UNCHANGED <<dir, fp, choice, owner>>
         \/ ~Ends(e) /\ Matches(e) /\ win' = w /\ Found(e)
         \/ /\ ~Ends(e) /\ ~Matches(e) /\ UNCHANGED <<dir, fp, choice, owner>>
            /\ \E n \in NextDirEntry(cpu.dj, w) :
                 win' = n.win /\ IF n.ok THEN cpu' = [cpu EXCEPT !.dj = n.dir] ELSE Refuse(n.cut)
  PROVE  /\ Shape' /\ Tracing' /\ Listings' /\ Moving' /\ Opening' /\ Chosen'
         /\ Shows(win') /\ cpu'.at # "CHECK"
<1> DEFINE d == cpu.dj
<1>1. Shape /\ Mount /\ Tracing /\ Chosen /\ Opening /\ Mounting
  BY OneVars DEF Mounting, Mount, At
<1>2. /\ cpu.why \in {"opendir", "open", "browse"} /\ WholePath /\ RootPlace(medium, d) /\ IsCpu(cpu)
      /\ d.index \in RootSlots(medium) /\ IsPlace(d)
  BY <1>1 DEF Shape, At, Listed, Reading, Tracing, IsCpu, RootPlace
<1>3. Sought = MakeDirfile(DirName) /\ (Len(cpu.path) > 1 <=> cpu.why = "open")
  BY <1>2 DEF WholePath, Sought
<1>4. ASSUME NEW cut \in BOOLEAN, Refuse(cut), UNCHANGED <<fp, choice, owner>>,
             ~cut /\ cpu.why = "open" => DOMAIN Files[medium] = {}, Shows(win')
      PROVE  /\ Shape' /\ Tracing' /\ Listings' /\ Moving' /\ Opening' /\ Chosen'
             /\ Shows(win') /\ cpu'.at # "CHECK"
  <2>1. ~cut /\ cpu.why = "open" => named # medium
    BY <1>1, <1>4, Unlisted
  <2>2. UNCHANGED <<imagefile, named>>
    BY <1>4 DEF choice
  <2> QED
    BY <1>1, <1>4, <2>1, <2>2, Refusing
<1>5. CASE Ends(e)
  <2>1. win' = w /\ Refuse(FALSE) /\ UNCHANGED <<fp, choice, owner>>
    BY <1>5
  <2>2. DOMAIN Files[medium] = {}
    BY <1>1, <1>2, <1>5, RootStops
  <2> QED
    BY <1>4, <2>1, <2>2
<1>6. CASE ~Ends(e) /\ Matches(e) /\ e.attr # "DIR"
  <2>1. win' = w /\ Found(e)
    BY <1>6
  <2>2. Refuse(FALSE) /\ UNCHANGED <<fp, choice, owner>>
    BY <1>3, <1>6, <2>1 DEF Found
  <2>3. DOMAIN Files[medium] = {}
    BY <1>1, <1>2, <1>3, <1>6, RootStops DEF Matches, Live
  <2> QED
    BY <1>4, <2>1, <2>2, <2>3
<1>7. CASE ~Ends(e) /\ Matches(e) /\ e.attr = "DIR"
  <2>1. win' = w /\ Found(e)
    BY <1>7
  <2>2. IsFolder(medium, d.index)
    BY <1>3, <1>7 DEF Matches, IsFolder, Live
  <2>3. CASE cpu.why = "open"
    <3>1. /\ cpu' = [cpu EXCEPT !.path = Tail(@), !.dj = SubDir(@, e)]
          /\ UNCHANGED <<fp, choice, owner>>
      BY <1>3, <1>7, <2>1, <2>3 DEF Found
    <3>2. cpu.path = <<DirName, imagefile>>
      BY <1>2, <2>3 DEF WholePath
    <3>3. /\ IsCpu(cpu') /\ cpu'.at = "TRACE" /\ cpu'.why = "open" /\ cpu'.path = <<imagefile>>
          /\ cpu'.dj = SubDir(d, e) /\ UNCHANGED <<imagefile, named>>
      <4>1. Tail(cpu.path) = <<imagefile>>
        BY <3>2
      <4>2. cpu' = [cpu EXCEPT !.path = <<imagefile>>, !.dj = SubDir(d, e)]
        BY <3>1, <4>1
      <4> QED
        BY <1>2, <2>3, <3>1, <4>2 DEF IsCpu, At, choice
    <3>4. InFolder'
      BY <3>3 DEF InFolder
    <3>5. Shape'
      BY <3>3, <3>4 DEF Shape, IsCpu, At
    <3>6. FolderPlace(medium, cpu'.dj) /\ \A n \in DOMAIN Files[medium] : Ahead(medium, n, cpu'.dj)
      BY <1>1, <1>2, <2>2, <3>3, FolderTop
    <3>7. Tracing'
      BY <3>3, <3>4, <3>6 DEF Tracing
    <3>8. Listings' /\ Moving' /\ OpenListed'
      BY <3>3 DEF Listings, ListsAll, Moving, OpenListed, At
    <3>9. Chosen'
      BY <1>1, <3>3, <3>8, ChosenKept
    <3>10. Holding' = Holding
      BY <3>3, <2>3 DEF Holding, Reading, At
    <3>11. Opening'
      BY <1>1, <3>1, <3>3, <3>10, OpeningKept DEF At
    <3> QED
      BY <2>1, <3>3, <3>5, <3>7, <3>8, <3>9, <3>11
  <2>4. CASE cpu.why # "open"
    <3> DEFINE e0 == [d EXCEPT !.id = fs.id]
    <3>1. DirFound(e)
      BY <1>3, <1>7, <2>1, <2>4 DEF Found
    <3>2. dir' = SubDir(e0, e) /\ UNCHANGED <<imagefile, named, owner>>
      BY <3>1 DEF DirFound
    <3>3. IsPlace(e0) /\ e0.id = fs.id
      BY <1>2 DEF IsPlace
    <3> HIDE DEF e0
    <3>4. FolderPlace(medium, dir') /\ dir'.id = fs.id /\ \A n \in DOMAIN Files[medium] : Ahead(medium, n, dir')
      BY <1>1, <1>2, <2>2, <3>2, <3>3, FolderTop
    <3>5. CASE cpu.why = "opendir" /\ first
      <4>1. OpenFile /\ ~Holding
        BY <3>1, <3>5 DEF DirFound, Holding, Reading, At
      <4>2. owner' = NoOne
        BY <1>1, <3>2, <4>1 DEF Opening
      <4>3. /\ Shape' /\ Tracing' /\ Listings' /\ Moving' /\ Opening' /\ OpenListed'
            /\ ~Holding' /\ cpu'.at = "AUTOMOUNT"
        BY <4>1, <4>2, Opens
      <4> QED
        BY <1>1, <2>1, <3>2, <4>3, ChosenKept
    <3>6. CASE ~(cpu.why = "opendir" /\ first)
      <4>1. Goto("NEXT") /\ UNCHANGED fp
        BY <3>1, <3>6 DEF DirFound
      <4>2. IsCpu(cpu') /\ cpu'.at = "NEXT" /\ cpu'.why = cpu.why /\ cpu'.path = cpu.path
        BY <1>2, <4>1, GotoIs DEF IsCpu
      <4>3. Shape'
        BY <1>2, <2>4, <4>2 DEF Shape, IsCpu, At
      <4>4. cpu.why = "browse" => seen' = {}
        BY <3>1 DEF DirFound
      <4>5. dir'.sect # 0
        BY <1>1, <3>4, PlaceSector
      <4>6. Listings'
        BY <3>4, <4>2, <4>4, <4>5 DEF Listings, ListsAll, At
      <4>7. Tracing' /\ Moving' /\ OpenListed'
        BY <4>2 DEF Tracing, Moving, OpenListed, At
      <4>8. Chosen'
        BY <1>1, <3>2, <4>7, ChosenKept
      <4>9. Holding' = Holding
        BY <4>2 DEF Holding, Reading, At
      <4>10. Opening'
        BY <1>1, <3>2, <4>1, <4>2, <4>9, OpeningKept DEF At
      <4> QED
        BY <2>1, <4>2, <4>3, <4>6, <4>7, <4>8, <4>10
    <3> QED
      BY <3>5, <3>6
  <2> QED
    BY <2>3, <2>4
<1>8. CASE ~Ends(e) /\ ~Matches(e)
  <2>1. UNCHANGED <<fp, choice, owner, dir>>
    BY <1>8
  <2>2. PICK n \in NextDirEntry(d, w) :
          win' = n.win /\ IF n.ok THEN cpu' = [cpu EXCEPT !.dj = n.dir] ELSE Refuse(n.cut)
    BY <1>8
  <2>3. ~IsFolder(medium, d.index)
    BY <1>3, <1>8 DEF IsFolder, Matches, Live
  <2>4. /\ n.win = w /\ n.ok \in BOOLEAN /\ n.cut = FALSE
        /\ n.ok => RootPlace(medium, n.dir)
        /\ ~n.ok => Folders(medium) = {}
    BY <1>1, <1>2, <2>3, NextInRoot
  <2>5. CASE n.ok
    <3>1. /\ IsCpu(cpu') /\ cpu'.at = "TRACE" /\ cpu'.why = cpu.why /\ cpu'.path = cpu.path
          /\ cpu'.dj = n.dir /\ UNCHANGED <<imagefile, named>>
      BY <1>2, <2>1, <2>2, <2>5 DEF IsCpu, At, choice
    <3>2. Shape' /\ ~InFolder'
      BY <1>2, <3>1 DEF Shape, IsCpu, At, WholePath, InFolder
    <3>3. Tracing'
      BY <2>4, <2>5, <3>1, <3>2 DEF Tracing
    <3>4. Listings' /\ Moving' /\ OpenListed'
      BY <3>1 DEF Listings, ListsAll, Moving, OpenListed, At
    <3>5. Chosen'
      BY <1>1, <3>1, <3>4, ChosenKept
    <3>6. Holding' = Holding
      BY <3>1 DEF Holding, Reading, At
    <3>7. Opening'
      BY <1>1, <2>1, <3>1, <3>6, OpeningKept DEF At
    <3> QED
      BY <2>2, <2>4, <3>1, <3>2, <3>3, <3>4, <3>5, <3>7
  <2>6. CASE ~n.ok
    <3>1. Refuse(FALSE)
      BY <2>2, <2>4, <2>6
    <3>2. DOMAIN Files[medium] = {}
      BY <1>1, <2>4, <2>6, NoFolder
    <3> QED
      BY <1>4, <2>1, <2>2, <2>4, <3>1, <3>2
  <2> QED
    BY <2>4, <2>5, <2>6
<1> QED
  BY <1>5, <1>6, <1>7, <1>8

\* In the directory the image.
LEMMA TraceFolder ==
  ASSUME IInv, At("TRACE"), InFolder, UNCHANGED <<medium, fs>>,
         NEW w, Shows(w), NEW e, e = EntryAt(cpu.dj, w), e = SlotEntry(medium, Here(cpu.dj)),
         \/ /\ Ends(e) /\ win' = w /\ Refuse(FALSE) /\ UNCHANGED <<dir, fp, choice, owner>>
         \/ ~Ends(e) /\ Matches(e) /\ win' = w /\ Found(e)
         \/ /\ ~Ends(e) /\ ~Matches(e) /\ UNCHANGED <<dir, fp, choice, owner>>
            /\ \E n \in NextDirEntry(cpu.dj, w) :
                 win' = n.win /\ IF n.ok THEN cpu' = [cpu EXCEPT !.dj = n.dir] ELSE Refuse(n.cut)
  PROVE  /\ Shape' /\ Tracing' /\ Listings' /\ Moving' /\ Opening' /\ Chosen'
         /\ Shows(win') /\ cpu'.at # "CHECK"
<1> DEFINE d == cpu.dj
<1>1. Shape /\ Mount /\ Written /\ Tracing /\ Chosen /\ Opening /\ Mounting
  BY OneVars DEF Mounting, Mount, At
<1>2. /\ cpu.why = "open" /\ cpu.path = <<imagefile>> /\ FolderPlace(medium, d) /\ IsCpu(cpu)
      /\ imagefile \in DOMAIN Files[medium] => Ahead(medium, imagefile, d)
      /\ Here(d) \in Listing(medium) /\ d.index \in Nat
  <2>1. FolderPlace(medium, d) /\ (imagefile \in DOMAIN Files[medium] => Ahead(medium, imagefile, d))
    BY <1>1 DEF Tracing
  <2>2. Here(d) \in Listing(medium) /\ d.index \in Nat
    BY <2>1, HereComes DEF FolderPlace
  <2> QED
    BY <1>1, <2>1, <2>2 DEF Shape, InFolder, IsCpu
<1>3. Sought = MakeDirfile(imagefile) /\ ~(Len(cpu.path) > 1)
  BY <1>2 DEF Sought
<1>4. ASSUME NEW cut \in BOOLEAN, Refuse(cut), UNCHANGED <<fp, choice, owner>>,
             ~cut => imagefile \notin DOMAIN Files[medium], Shows(win')
      PROVE  /\ Shape' /\ Tracing' /\ Listings' /\ Moving' /\ Opening' /\ Chosen'
             /\ Shows(win') /\ cpu'.at # "CHECK"
  <2>1. ~cut /\ cpu.why = "open" => named # medium
    BY <1>1, <1>4, Unlisted
  <2>2. UNCHANGED <<imagefile, named>>
    BY <1>4 DEF choice
  <2> QED
    BY <1>1, <1>4, <2>1, <2>2, Refusing
<1>5. CASE Ends(e)
  <2>1. win' = w /\ Refuse(FALSE) /\ UNCHANGED <<fp, choice, owner>>
    BY <1>5
  <2>2. imagefile \notin DOMAIN Files[medium]
    <3>1. \A p \in Coming(medium, d) : ~Live(SlotEntry(medium, p))
      BY <1>1, <1>2, <1>5, EndsBehind
    <3> QED
      BY <1>2, <3>1 DEF Ahead
  <2> QED
    BY <1>4, <2>1, <2>2
<1>6. CASE ~Ends(e) /\ Matches(e) /\ e.attr = "DIR"
  <2>1. win' = w /\ Found(e)
    BY <1>6
  <2>2. Refuse(FALSE) /\ UNCHANGED <<fp, choice, owner>>
    BY <1>2, <1>3, <1>6, <2>1 DEF Found
  <2>3. ASSUME imagefile \in DOMAIN Files[medium] PROVE FALSE
    <3>1. PICK p \in Listing(medium) : /\ Live(SlotEntry(medium, p)) /\ IsImage(SlotEntry(medium, p))
                                      /\ Spells(imagefile, SlotEntry(medium, p).name)
      BY <1>2, <2>3 DEF Ahead, FolderPlace
    <3>2. MakeDirfile(imagefile) = SlotEntry(medium, p).name
      BY <3>1, SpellsFacts
    <3>3. Live(e) /\ e.name = MakeDirfile(imagefile)
      BY <1>3, <1>6 DEF Matches, Live
    <3>4. p = Here(d)
      BY <1>1, <1>2, <3>1, <3>2, <3>3, MountFacts, OneEntry
    <3> QED
      BY <1>6, <3>1, <3>4 DEF IsImage
  <2> QED
    BY <1>4, <2>1, <2>2, <2>3
<1>7. CASE ~Ends(e) /\ Matches(e) /\ e.attr # "DIR"
  <2> DEFINE name == IF imagefile \in DOMAIN Files[medium] THEN imagefile ELSE FileInfo(e)
  <2>1. win' = w /\ Found(e)
    BY <1>7
  <2>2. FileFound(e)
    BY <1>2, <1>3, <1>7, <2>1 DEF Found
  <2>3. /\ fp' = Opened(e) /\ Serve /\ UNCHANGED choice
        /\ owner' = [card |-> medium, name |-> name]
    BY <2>2 DEF FileFound
  <2>4. imagefile \in Names /\ medium \in Cards /\ Formatted(medium)
    BY <1>1, MountFacts DEF Chosen
  <2>5. Live(e) /\ e.name = MakeDirfile(imagefile)
    BY <1>3, <1>7 DEF Matches, Live
  <2>6. e \in Images(medium) /\ name \in DOMAIN Files[medium] /\ Describes(medium, Files[medium][name], e)
    BY <1>2, <1>7, <2>4, <2>5, FoundImage
  <2> HIDE DEF name
  <2>7. IsCpu(cpu') /\ cpu'.at = "SERVE" /\ cpu'.why = "thrall"
    BY <2>3, ServeIs
  <2>8. Shape' /\ Holding'
    BY <2>7 DEF Shape, IsCpu, Reading, At, Holding
  <2>9. Tracing' /\ Listings' /\ Moving' /\ OpenListed'
    BY <2>7, Idle, OpenListedIdle
  <2>10. Chosen'
    BY <1>1, <2>3, <2>9, ChosenKept DEF choice
  <2>11. /\ fp'.id = fs.id /\ fp'.fsize = e.size /\ fp'.org = e.clust /\ fp'.fptr = 0
         /\ fp'.sect_clust = 1 /\ fp'.err = FALSE /\ IsFile(fp')
    BY <2>3 DEF Opened, NoFile, IsFile
  <2>12. Files[medium][name].size = e.size /\ e.size \in Nat
    BY <2>6 DEF Describes
  <2>13. OfImage(medium, name, fp') /\ Placed(medium, name, fp')
    BY <2>6, <2>11, <2>12 DEF OfImage, Placed
  <2>14. owner'.card = medium /\ owner'.name = name
    BY <2>3
  <2>15. Opening'
    BY <2>7, <2>8, <2>11, <2>13, <2>14 DEF Opening, At
  <2> QED
    BY <2>1, <2>7, <2>8, <2>9, <2>10, <2>15
<1>8. CASE ~Ends(e) /\ ~Matches(e)
  <2>1. UNCHANGED <<fp, choice, owner, dir>>
    BY <1>8
  <2>2. PICK n \in NextDirEntry(d, w) :
          win' = n.win /\ IF n.ok THEN cpu' = [cpu EXCEPT !.dj = n.dir] ELSE Refuse(n.cut)
    BY <1>8
  <2>3. /\ Shows(n.win) /\ n.ok \in BOOLEAN /\ n.cut \in BOOLEAN
        /\ n.ok => /\ FolderPlace(medium, n.dir)
                   /\ Coming(medium, d) \subseteq {Here(d)} \union Coming(medium, n.dir)
        /\ ~n.ok /\ ~n.cut => Coming(medium, d) \subseteq {Here(d)}
    BY <1>1, <1>2, NextInFolder
  <2>4. ~(/\ Live(SlotEntry(medium, Here(d))) /\ IsImage(SlotEntry(medium, Here(d)))
          /\ Spells(imagefile, SlotEntry(medium, Here(d)).name))
    BY <1>3, <1>8, SpellsFacts DEF Matches, Live
  <2>5. CASE n.ok
    <3>1. /\ IsCpu(cpu') /\ cpu'.at = "TRACE" /\ cpu'.why = "open" /\ cpu'.path = <<imagefile>>
          /\ cpu'.dj = n.dir /\ UNCHANGED <<imagefile, named>>
      BY <1>2, <2>1, <2>2, <2>5 DEF IsCpu, At, choice
    <3>2. Shape' /\ InFolder'
      BY <3>1 DEF Shape, IsCpu, At, InFolder
    <3>3. imagefile \in DOMAIN Files[medium] => Ahead(medium, imagefile, n.dir)
      BY <1>2, <2>3, <2>4, <2>5, StillAhead
    <3>4. Tracing'
      BY <2>3, <2>5, <3>1, <3>2, <3>3 DEF Tracing
    <3>5. Listings' /\ Moving' /\ OpenListed'
      BY <3>1 DEF Listings, ListsAll, Moving, OpenListed, At
    <3>6. Chosen'
      BY <1>1, <3>1, <3>5, ChosenKept
    <3>7. Holding' = Holding
      BY <1>2, <3>1 DEF Holding, Reading, At
    <3>8. Opening'
      BY <1>1, <2>1, <3>1, <3>7, OpeningKept DEF At
    <3> QED
      BY <2>2, <2>3, <3>1, <3>2, <3>4, <3>5, <3>6, <3>8
  <2>6. CASE ~n.ok
    <3>1. Refuse(n.cut)
      BY <2>2, <2>6
    <3>2. ~n.cut => imagefile \notin DOMAIN Files[medium]
      BY <1>2, <2>3, <2>4, <2>6, LastAhead
    <3> QED
      BY <1>4, <2>1, <2>2, <2>3, <3>1, <3>2
  <2> QED
    BY <2>3, <2>5, <2>6
<1> QED
  BY <1>5, <1>6, <1>7, <1>8

LEMMA TraceKeeps == IInv /\ Trace => IInv'
<1> SUFFICES ASSUME IInv, Trace PROVE IInv'
  OBVIOUS
<1> DEFINE d == cpu.dj
<1>1. /\ At("TRACE") /\ Shape /\ Mount /\ Window /\ Written /\ Tracing /\ Chosen /\ Opening
      /\ Mounting /\ ~noinit /\ Shows(win)
  BY OneVars, WindowShows DEF Trace, Mounting, Mount, At
<1>2. UNCHANGED <<slot, awake, noinit, written, fs, medium>>
  BY DEF Trace, card
<1>3. PICK m \in MoveWindow(win, d.sect) :
       IF ~m.ok THEN win' = m.win /\ GiveUp /\ UNCHANGED <<dir, fp, owner>>
       ELSE \/ /\ Ends(EntryAt(d, m.win)) /\ win' = m.win /\ Refuse(FALSE)
               /\ UNCHANGED <<dir, fp, choice, owner>>
            \/ /\ ~Ends(EntryAt(d, m.win)) /\ Matches(EntryAt(d, m.win))
               /\ win' = m.win /\ Found(EntryAt(d, m.win))
            \/ /\ ~Ends(EntryAt(d, m.win)) /\ ~Matches(EntryAt(d, m.win))
               /\ UNCHANGED <<dir, fp, choice, owner>>
               /\ \E n \in NextDirEntry(d, m.win) :
                    win' = n.win /\ IF n.ok THEN cpu' = [cpu EXCEPT !.dj = n.dir] ELSE Refuse(n.cut)
  BY DEF Trace
<1>4. CASE ~m.ok
  <2>1. Shows(m.win)
    <3>1. CASE InFolder
      BY <1>1, <3>1, FolderRead DEF Tracing
    <3>2. CASE ~InFolder
      BY <1>1, <3>2, RootRead DEF Tracing
    <3> QED
      BY <3>1, <3>2
  <2>2. win' = m.win /\ GiveUp /\ UNCHANGED <<fp, owner>>
    BY <1>3, <1>4
  <2>3. /\ Shape' /\ Tracing' /\ Listings' /\ Moving' /\ Opening' /\ OpenListed'
        /\ UNCHANGED <<imagefile, named>> /\ cpu'.at # "CHECK"
    BY <1>1, <1>2, <2>2, GivenUp DEF At, Reading
  <2>4. Mount' /\ Window' /\ Written' /\ Chosen'
    BY <1>1, <1>2, <2>1, <2>2, <2>3, MountRead, WindowKept, WrittenKept, ChosenKept
  <2> QED
    BY <2>3, <2>4 DEF IInv
<1>5. CASE m.ok /\ ~InFolder
  <2>1. Shows(m.win) /\ EntryAt(d, m.win) = RootEntry(medium, d.index)
    BY <1>1, <1>5, RootRead DEF Tracing
  <2>2. /\ Shape' /\ Tracing' /\ Listings' /\ Moving' /\ Opening' /\ Chosen'
        /\ Shows(win') /\ cpu'.at # "CHECK"
    BY <1>1, <1>2, <1>3, <1>5, <2>1, TraceRoot
  <2>3. Mount' /\ Window' /\ Written'
    BY <1>1, <1>2, <2>2, MountRead, WindowKept, WrittenKept
  <2> QED
    BY <2>2, <2>3 DEF IInv
<1>6. CASE m.ok /\ InFolder
  <2>1. Shows(m.win) /\ EntryAt(d, m.win) = SlotEntry(medium, Here(d))
    BY <1>1, <1>6, FolderRead DEF Tracing
  <2>2. /\ Shape' /\ Tracing' /\ Listings' /\ Moving' /\ Opening' /\ Chosen'
        /\ Shows(win') /\ cpu'.at # "CHECK"
    BY <1>1, <1>2, <1>3, <1>6, <2>1, TraceFolder
  <2>3. Mount' /\ Window' /\ Written'
    BY <1>1, <1>2, <2>2, MountRead, WindowKept, WrittenKept
  <2> QED
    BY <2>2, <2>3 DEF IInv
<1> QED
  BY <1>4, <1>5, <1>6

\* No more images: the menu has its listing, thrall() tries the name it has.
LEMMA Missed ==
  ASSUME IInv, At("NEXT"), UNCHANGED <<medium, fs, owner>>, NEW place \in {"LISTED", "LISTFAILED"},
         Miss(place),
         place = "LISTED" /\ cpu.why = "browse" /\ ~cpu.cut => DOMAIN Files[medium] \subseteq seen
  PROVE  /\ Shape' /\ Tracing' /\ Listings' /\ Moving' /\ Opening' /\ Chosen' /\ cpu'.at # "CHECK"
<1>1. Shape /\ Listings /\ Chosen /\ Opening
  BY OneVars
<1>2. CASE cpu.why = "browse"
  <2>1. Goto(place) /\ UNCHANGED <<imagefile, named, seen, fp>>
    BY <1>2 DEF Miss, choice
  <2>2. IsCpu(cpu') /\ cpu'.at = place /\ cpu'.why = "browse" /\ cpu'.cut = cpu.cut
    BY <1>1, <1>2, <2>1, GotoIs DEF Shape
  <2>3. Shape'
    BY <2>2 DEF Shape, IsCpu, Listed, At
  <2>4. Tracing' /\ Moving' /\ OpenListed'
    BY <2>2 DEF Tracing, Moving, OpenListed, At
  <2>5. seen \subseteq DOMAIN Files[medium]
    BY <1>1, <1>2 DEF Listings, At
  <2>6. Listings'
    BY <1>2, <2>1, <2>2, <2>5 DEF Listings, ListsAll, At
  <2>7. Chosen'
    BY <1>1, <2>1, <2>4, ChosenKept
  <2>8. Holding' = Holding
    BY <1>2, <2>2 DEF Holding
  <2>9. Opening'
    BY <1>1, <2>1, <2>2, <2>8, OpeningKept DEF At
  <2> QED
    BY <2>2, <2>3, <2>4, <2>6, <2>7, <2>9
<1>3. CASE cpu.why # "browse"
  <2>1. OpenFile /\ UNCHANGED <<imagefile, named>>
    BY <1>3 DEF Miss
  <2>2. ~Holding
    BY <1>3 DEF Holding, Reading, At
  <2>3. owner' = NoOne
    BY <1>1, <2>2 DEF Opening
  <2>4. /\ Shape' /\ Tracing' /\ Listings' /\ Moving' /\ Opening' /\ OpenListed'
        /\ ~Holding' /\ cpu'.at = "AUTOMOUNT"
    BY <2>1, <2>3, Opens
  <2> QED
    BY <1>1, <2>1, <2>4, ChosenKept
<1> QED
  BY <1>2, <1>3

\* The walk goes on from d, past entry e of it, to dir'; the images it lists
\* and those still to come are all.
LEMMA Walked ==
  ASSUME IInv, At("NEXT"), UNCHANGED <<medium, fs, owner, imagefile, named, fp>>,
         NEW cut \in BOOLEAN, Walk(cut),
         seen \subseteq seen', cpu.why = "browse" => seen' \subseteq DOMAIN Files[medium],
         dir'.id = dir.id, dir'.sect = 0 \/ FolderPlace(medium, dir'),
         cpu.why = "browse" /\ ~cut =>
           \A n \in DOMAIN Files[medium] : dir.sect # 0 /\ Ahead(medium, n, dir) =>
             n \in seen' \/ (dir'.sect # 0 /\ Ahead(medium, n, dir'))
  PROVE  /\ Shape' /\ Tracing' /\ Listings' /\ Moving' /\ Opening' /\ Chosen' /\ cpu'.at # "CHECK"
<1>1. Shape /\ Listings /\ Chosen /\ Opening
  BY OneVars
<1>2. IsCpu(cpu') /\ cpu'.at = "NEXT" /\ cpu'.why = cpu.why /\ cpu'.cut = (cpu.cut \/ cut)
  BY <1>1 DEF Shape, IsCpu, Walk, At
<1>3. Shape'
  BY <1>1, <1>2 DEF Shape, IsCpu, At, Listed, Reading
<1>4. Tracing' /\ Moving' /\ OpenListed'
  BY <1>2 DEF Tracing, Moving, OpenListed, At
<1>5. /\ dir.id = fs.id /\ (cpu.why = "browse" /\ ~cpu.cut =>
           \A n \in DOMAIN Files[medium] : n \in seen \/ (dir.sect # 0 /\ Ahead(medium, n, dir)))
  BY <1>1 DEF Listings, At
<1>6. Listings'
  BY <1>2, <1>5 DEF Listings, ListsAll, At
<1>7. Chosen'
  BY <1>1, <1>4, ChosenKept
<1>8. Holding' = Holding
  BY <1>2 DEF Holding, Reading, At
<1>9. Opening'
  BY <1>1, <1>2, <1>8, OpeningKept DEF At
<1> QED
  BY <1>2, <1>3, <1>4, <1>6, <1>7, <1>9

LEMMA NextFileKeeps == IInv /\ NextFile => IInv'
<1> SUFFICES ASSUME IInv, NextFile PROVE IInv'
  OBVIOUS
<1>1. /\ At("NEXT") /\ Shape /\ Mount /\ Window /\ Written /\ Listings /\ Chosen /\ Opening
      /\ Mounting /\ ~noinit /\ Shows(win) /\ dir.id = fs.id
      /\ dir.sect # 0 => FolderPlace(medium, dir)
      /\ cpu.why \in {"opendir", "browse"} /\ cpu.cut \in BOOLEAN
  BY OneVars, WindowShows DEF NextFile, Mounting, Mount, At, Listings, Shape, Listed, Reading
<1>2. UNCHANGED <<slot, awake, noinit, written, fs, medium, owner>>
  BY DEF NextFile, card
<1>3. SUFFICES /\ Shape' /\ Tracing' /\ Listings' /\ Moving' /\ Opening' /\ Chosen'
               /\ cpu'.at # "CHECK" /\ Shows(win')
  BY <1>1, <1>2, MountRead, WindowKept, WrittenKept DEF IInv
<1>4. CASE dir.sect = 0
  <2>1. Miss("LISTED") /\ UNCHANGED win
    BY <1>1, <1>4 DEF NextFile, Validate
  <2>2. cpu.why = "browse" /\ ~cpu.cut => DOMAIN Files[medium] \subseteq seen
    BY <1>1, <1>4 DEF Listings, At
  <2> QED
    BY <1>1, <1>2, <2>1, <2>2, Missed
<1>5. CASE dir.sect # 0
  <2>1. FolderPlace(medium, dir) /\ Here(dir) \in Listing(medium) /\ dir.index \in Nat
    <3>1. FolderPlace(medium, dir)
      BY <1>1, <1>5
    <3> QED
      BY <3>1, HereComes DEF FolderPlace
  <2>2. PICK m \in MoveWindow(win, dir.sect) :
          IF ~m.ok THEN Miss("LISTFAILED") /\ win' = m.win
          ELSE LET e == EntryAt(dir, m.win) IN
            IF Ends(e) THEN Miss("LISTED") /\ win' = m.win
            ELSE \E n \in NextDirEntry(dir, m.win) :
                   /\ win' = n.win
                   /\ dir' = IF n.ok THEN n.dir ELSE [n.dir EXCEPT !.sect = 0]
                   /\ IF IsImage(e) THEN Hit(FileInfo(e), n.cut)
                      ELSE Walk(n.cut) /\ UNCHANGED <<choice, fp>>
    BY <1>1, <1>5 DEF NextFile, Validate
  <2>3. /\ Shows(m.win) /\ m.ok \in BOOLEAN
        /\ m.ok => EntryAt(dir, m.win) = SlotEntry(medium, Here(dir))
    BY <1>1, <2>1, FolderRead
  <2>4. CASE ~m.ok
    BY <1>1, <1>2, <2>2, <2>3, <2>4, Missed
  <2> DEFINE e == SlotEntry(medium, Here(dir))
  <2>5. CASE m.ok /\ Ends(e)
    <3>1. Miss("LISTED") /\ win' = m.win
      BY <2>2, <2>3, <2>5
    <3>2. \A p \in Coming(medium, dir) : ~Live(SlotEntry(medium, p))
      BY <1>1, <2>1, <2>5, EndsBehind
    <3>3. \A n : ~Ahead(medium, n, dir)
      BY <3>2 DEF Ahead
    <3>4. cpu.why = "browse" /\ ~cpu.cut => DOMAIN Files[medium] \subseteq seen
      BY <1>1, <3>3 DEF Listings, At
    <3> QED
      BY <1>1, <1>2, <2>3, <3>1, <3>4, Missed
  <2>6. CASE m.ok /\ ~Ends(e)
    <3>1. PICK n \in NextDirEntry(dir, m.win) :
            /\ win' = n.win
            /\ dir' = IF n.ok THEN n.dir ELSE [n.dir EXCEPT !.sect = 0]
            /\ IF IsImage(e) THEN Hit(FileInfo(e), n.cut)
               ELSE Walk(n.cut) /\ UNCHANGED <<choice, fp>>
      BY <2>2, <2>3, <2>6
    <3>2. /\ Shows(n.win) /\ n.ok \in BOOLEAN /\ n.cut \in BOOLEAN
          /\ n.ok => /\ FolderPlace(medium, n.dir) /\ n.dir.id = dir.id
                     /\ Coming(medium, dir) \subseteq {Here(dir)} \union Coming(medium, n.dir)
          /\ ~n.ok /\ ~n.cut => Coming(medium, dir) \subseteq {Here(dir)}
          /\ ~n.ok => IsPlace(n.dir) /\ n.dir.id = dir.id
      BY <1>1, <2>1, <2>3, NextInFolder
    <3>3. /\ dir'.id = dir.id
          /\ n.ok => FolderPlace(medium, dir') /\ dir'.sect # 0 /\ dir' = n.dir
          /\ ~n.ok => dir'.sect = 0
      <4>1. CASE n.ok
        <5>1. dir' = n.dir
          BY <3>1, <4>1
        <5> QED
          BY <1>1, <3>2, <4>1, <5>1, PlaceSector
      <4>2. CASE ~n.ok
        <5>1. dir' = [n.dir EXCEPT !.sect = 0] /\ IsPlace(n.dir) /\ n.dir.id = dir.id
          BY <3>1, <3>2, <4>2
        <5> QED
          BY <4>2, <5>1 DEF IsPlace
      <4> QED
        BY <4>1, <4>2
    <3>4. ASSUME NEW x, Ahead(medium, x, dir), ~n.cut
          PROVE  \/ dir'.sect # 0 /\ Ahead(medium, x, dir')
                 \/ IsImage(e) /\ x = FileInfo(e)
      <4>1. CASE n.ok
        <5>1. Coming(medium, dir) \subseteq {Here(dir)} \union Coming(medium, n.dir)
          BY <3>2, <4>1
        <5>2. \/ Ahead(medium, x, n.dir)
              \/ IsImage(e) /\ Spells(x, e.name)
          BY <3>4, <5>1, StillAhead
        <5>3. dir' = n.dir /\ dir'.sect # 0
          BY <3>3, <4>1
        <5>4. Spells(x, e.name) => x = FileInfo(e)
          BY SpellsFacts
        <5> QED
          BY <5>2, <5>3, <5>4
      <4>2. CASE ~n.ok
        BY <3>2, <3>4, <4>2, LastAhead, SpellsFacts
      <4> QED
        BY <4>1, <4>2
    <3>5. CASE IsImage(e)
      <4>1. e \in Images(medium)
        BY <2>1, <2>6, <3>5 DEF Images, Live, IsImage
      <4>2. FileInfo(e) \in DOMAIN Files[medium] /\ medium \in Cards /\ Formatted(medium)
        BY <1>1, <4>1, MountFacts, ListedImage
      <4>3. CASE cpu.why = "browse"
        <5>1. /\ seen' = seen \union {FileInfo(e)} /\ Walk(n.cut)
              /\ UNCHANGED <<imagefile, named, fp>>
          BY <3>1, <3>5, <4>3 DEF Hit
        <5>2. seen \subseteq DOMAIN Files[medium]
          BY <1>1, <4>3 DEF Listings, At
        <5> QED
          BY <1>1, <1>2, <3>1, <3>2, <3>3, <3>4, <4>2, <5>1, <5>2, Walked
      <4>4. CASE cpu.why # "browse"
        <5>1. imagefile' = FileInfo(e) /\ named' = medium /\ OpenFile
          BY <3>1, <3>5, <4>4 DEF Hit
        <5>2. ~Holding
          BY <1>1, <4>4 DEF Holding, Reading, At
        <5>3. owner' = NoOne
          BY <1>1, <1>2, <5>2 DEF Opening
        <5>4. /\ Shape' /\ Tracing' /\ Listings' /\ Moving' /\ Opening' /\ OpenListed'
              /\ ~Holding' /\ cpu'.at = "AUTOMOUNT"
          BY <5>1, <5>3, Opens
        <5>5. Chosen'
          BY <4>2, <5>1, <5>4 DEF Chosen, Names
        <5> QED
          BY <3>1, <3>2, <5>4, <5>5
      <4> QED
        BY <4>3, <4>4
    <3>6. CASE ~IsImage(e)
      <4>1. Walk(n.cut) /\ UNCHANGED <<imagefile, named, seen, fp>>
        BY <3>1, <3>6 DEF choice
      <4>2. cpu.why = "browse" => seen \subseteq DOMAIN Files[medium]
        BY <1>1 DEF Listings, At
      <4> QED
        BY <1>1, <1>2, <3>1, <3>2, <3>3, <3>4, <3>6, <4>1, <4>2, Walked
    <3> QED
      BY <3>5, <3>6
  <2> QED
    BY <2>3, <2>4, <2>5, <2>6
<1> QED
  BY <1>4, <1>5

-----------------------------------------------------------------------------
(* The file object. *)

\* What the file object of an image knows of it.
LEMMA Chain ==
  ASSUME Mounting, NEW n, NEW f, OfImage(medium, n, f)
  PROVE  LET F == Files[medium][n]  per == Layout(medium).sects_clust IN
         /\ IsFile(f) /\ n \in DOMAIN Files[medium] /\ f.fsize = F.size /\ f.fsize \in Nat
         /\ f.fptr \in Nat /\ f.fptr <= f.fsize /\ f.org \in Nat
         /\ per \in Nat /\ per > 0 /\ fs.sects_clust = per
         /\ Len(F.clusts) \in Nat /\ DOMAIN F.clusts = 1 .. Len(F.clusts)
         /\ \A j \in DOMAIN F.clusts : F.clusts[j] \in Clusters(medium)
         /\ (f.fsize > 0 /\ f.org # 0) \/ f.org \in Clusters(medium) =>
              1 \in DOMAIN F.clusts /\ f.org = F.clusts[1]
         /\ \A j \in DOMAIN F.clusts : FatEntry(medium, F.clusts[j]) \in Clusters(medium) =>
              j + 1 \in DOMAIN F.clusts /\ FatEntry(medium, F.clusts[j]) = F.clusts[j + 1]
         /\ F.sectors \in Seq(Nat) /\ Len(F.sectors) = Len(F.clusts) * per
         /\ \A j \in DOMAIN F.clusts : \A k \in 0 .. per - 1 :
              F.sectors[(j - 1) * per + k + 1] = FirstSect(medium, F.clusts[j]) + k
<1> DEFINE F == Files[medium][n]
           per == Layout(medium).sects_clust
           ks == F.clusts
<1>1. PICK e \in Images(medium) : f.org = e.clust /\ Describes(medium, F, e)
  BY DEF OfImage
<1>2. /\ IsFile(f) /\ n \in DOMAIN Files[medium] /\ f.fsize = F.size /\ f.fptr \in Nat /\ f.fptr <= f.fsize
  BY DEF OfImage
<1>3. per \in Nat /\ per > 0 /\ fs.sects_clust = per
  BY MountFacts
<1>4. /\ F.size \in Nat /\ e.clust \in Nat /\ ks \in Seq(Clusters(medium))
      /\ F.sectors \in Seq(Nat) /\ Len(F.sectors) = Len(ks) * per
      /\ \A j \in DOMAIN ks : \A k \in 0 .. per - 1 :
           F.sectors[(j - 1) * per + k + 1] = FirstSect(medium, ks[j]) + k
      /\ IF ks = <<>> THEN e.clust = 0 \/ (F.size = 0 /\ e.clust \notin Clusters(medium))
         ELSE /\ e.clust = ks[1]
              /\ \A j \in 1 .. Len(ks) - 1 : FatEntry(medium, ks[j]) = ks[j + 1]
              /\ FatEntry(medium, ks[Len(ks)]) \notin Clusters(medium)
  BY <1>1, Zenon DEF Describes
<1>5. Len(ks) \in Nat /\ DOMAIN ks = 1 .. Len(ks) /\ \A j \in DOMAIN ks : ks[j] \in Clusters(medium)
  BY <1>4
<1>6. 0 \notin Clusters(medium)
  BY DEF Clusters
<1>7. (f.fsize > 0 /\ f.org # 0) \/ f.org \in Clusters(medium) => 1 \in DOMAIN ks /\ f.org = ks[1]
  <2>1. CASE ks = <<>>
    BY <1>1, <1>2, <1>4, <1>6, <2>1
  <2>2. CASE ks # <<>>
    <3>1. Len(ks) # 0
      BY <1>4, <2>2
    <3> QED
      BY <1>1, <1>4, <1>5, <2>2, <3>1
  <2> QED
    BY <2>1, <2>2
<1>8. ASSUME NEW j \in DOMAIN ks, FatEntry(medium, ks[j]) \in Clusters(medium)
      PROVE  j + 1 \in DOMAIN ks /\ FatEntry(medium, ks[j]) = ks[j + 1]
  <2>1. ks # <<>>
    BY <1>5
  <2>2. j # Len(ks)
    BY <1>4, <1>8, <2>1
  <2>3. j \in 1 .. Len(ks) - 1 /\ j + 1 \in 1 .. Len(ks)
    BY <1>5, <2>2
  <2> QED
    BY <1>4, <1>5, <2>1, <2>3
<1> QED
  BY <1>1, <1>2, <1>3, <1>4, <1>5, <1>7, <1>8

LEMMA OfImageKept ==
  ASSUME NEW c, NEW n, NEW f, OfImage(c, n, f), NEW g, IsFile(g), g.fsize = f.fsize, g.org = f.org,
         g.fptr \in Nat, g.fptr <= g.fsize
  PROVE  OfImage(c, n, g)
  BY DEF OfImage

\* The answer is an error.
LEMMA Fails ==
  ASSUME Failed, Chosen, Holding, Opening, UNCHANGED <<imagefile, named, owner, medium, fs>>,
         fp'.id = fp.id, OfImage(medium, owner.name, fp')
  PROVE  /\ Shape' /\ Tracing' /\ Listings' /\ Moving' /\ Opening' /\ Chosen' /\ cpu'.at # "CHECK"
<1>1. IsCpu(cpu') /\ cpu'.at = "FAILED" /\ cpu'.why = "thrall"
  BY DEF Failed, Resting, IsCpu
<1>2. Shape' /\ Holding'
  BY <1>1 DEF Shape, IsCpu, Reading, At, Holding
<1>3. Tracing' /\ Listings' /\ Moving' /\ OpenListed'
  BY <1>1, Idle, OpenListedIdle
<1>4. Chosen'
  BY <1>3, ChosenKept
<1>5. Opening'
  BY <1>1, <1>2 DEF Opening, At
<1> QED
  BY <1>1, <1>2, <1>3, <1>4, <1>5

\* What is moved is whole sectors, but for the end of the file.
LEMMA Least ==
  ASSUME NEW left \in Nat
  PROVE  LET btr == IF FddSize > left THEN left ELSE FddSize IN
         btr \in Nat /\ btr <= left /\ (btr % SectorSize = 0 \/ btr = left)
<1>1. SectorSize \in Nat /\ SectorSize > 0 /\ FddSize = 2 * SectorSize
  BY SizesAssumption DEF FddSize
<1>2. 2 * SectorSize < (2 + 1) * SectorSize /\ 2 * SectorSize - (2 * SectorSize) = 0
  BY <1>1, SMT
<1>3. FddSize % SectorSize = 0
  BY <1>1, <1>2, DivIs
<1> QED
  BY <1>1, <1>3

LEMMA Transfers ==
  ASSUME Transfer, Chosen, Holding, Opening, UNCHANGED <<imagefile, named, owner, medium, fs>>,
         fp'.id = fp.id, OfImage(medium, owner.name, fp'), Placed(medium, owner.name, fp'), ~fp'.err,
         Mounting, Even(fp', fp'.fptr)
  PROVE  /\ Shape' /\ Tracing' /\ Listings' /\ Moving' /\ Opening' /\ Chosen' /\ cpu'.at # "CHECK"
<1> DEFINE left == fp'.fsize - fp'.fptr
           btr  == IF FddSize > left THEN left ELSE FddSize
<1>1. fp'.fsize \in Nat /\ fp'.fptr \in Nat /\ fp'.fptr <= fp'.fsize
  BY Chain
<1>2. left \in Nat
  BY <1>1
<1>3. btr \in Nat /\ btr <= left /\ (btr % SectorSize = 0 \/ btr = left)
  BY <1>2, Least
<1>4. cpu' = [Resting EXCEPT !.at = "TRANSFER", !.btr = btr]
  BY DEF Transfer
<1> HIDE DEF btr
<1>5. IsCpu(cpu') /\ cpu'.at = "TRANSFER" /\ cpu'.why = "thrall" /\ cpu'.btr = btr
  BY <1>3, <1>4 DEF Resting, IsCpu
<1>6. Shape' /\ Holding'
  BY <1>5 DEF Shape, IsCpu, Reading, At, Holding
<1>7. Sending(fp', cpu'.btr)
  BY <1>1, <1>3, <1>5 DEF Sending, Even
<1>8. Tracing' /\ Listings' /\ Moving' /\ OpenListed'
  BY <1>5, <1>7 DEF Tracing, Listings, ListsAll, Moving, OpenListed, At
<1>9. Chosen'
  BY <1>8, ChosenKept
<1>10. Opening'
  BY <1>5, <1>6 DEF Opening, At
<1> QED
  BY <1>5, <1>6, <1>8, <1>9, <1>10

\* What a request asks for starts with a sector.
LEMMA OffsetFacts ==
  ASSUME NEW r, r.side \in Nat, r.track \in Nat, r.sector \in Nat
  PROVE  CalcOffset(r) \in Nat /\ CalcOffset(r) % SectorSize = 0
<1> DEFINE x == (2 * r.track + 1 - r.side) * NSectors + r.sector - 1
           y == x * FddSize
           q == y \div OffsetMod
           z == OffsetMod \div FddSize
           u == 2 * (x - (q * z))
<1>1. SectorSize \in Nat /\ SectorSize > 0 /\ FddSize = 2 * SectorSize /\ FddSize \in Nat /\ FddSize > 0
  BY SizesAssumption DEF FddSize
<1>2. OffsetMod \in Nat /\ OffsetMod > 0 /\ OffsetMod % FddSize = 0 /\ NSectors \in Nat
  BY SizesAssumption
<1>3. x \in Int
  BY <1>2
<1> HIDE DEF x
<1>4. y \in Int
  BY <1>1, <1>3
<1>5. y = (OffsetMod * q) + (y % OffsetMod) /\ y % OffsetMod \in 0 .. OffsetMod - 1 /\ q \in Int
  BY <1>2, <1>4, DivMod
<1>6. OffsetMod = (FddSize * z) + (OffsetMod % FddSize) /\ z \in Int
  BY <1>1, <1>2, DivMod
<1>7. CalcOffset(r) = y % OffsetMod
  BY DEF CalcOffset, x
<1> DEFINE w == y % OffsetMod
<1>8. w \in Nat
  BY <1>2, <1>5
<1> HIDE DEF q, z, w
<1>9. w = u * SectorSize /\ u \in Int
  <2>1. OffsetMod = (2 * SectorSize) * z /\ y = x * (2 * SectorSize) /\ w = y - (OffsetMod * q)
    BY <1>1, <1>2, <1>4, <1>5, <1>6, <1>8 DEF w
  <2>2. (x * (2 * SectorSize)) - (((2 * SectorSize) * z) * q) = (2 * (x - (q * z))) * SectorSize
    BY <1>1, <1>3, <1>5, <1>6, SMT
  <2>3. u \in Int
    BY <1>3, <1>5, <1>6
  <2> QED
    BY <2>1, <2>2, <2>3
<1> HIDE DEF u, y
<1>10. u * SectorSize < (u + 1) * SectorSize /\ u * SectorSize \in Int
  BY <1>1, <1>9
<1>11. (u * SectorSize) % SectorSize = (u * SectorSize) - (u * SectorSize)
  BY <1>1, <1>9, <1>10, DivIs, SMTT(30)
<1> QED
  BY <1>7, <1>8, <1>9, <1>10, <1>11 DEF w

LEMMA LSeekKeeps == IInv /\ LSeek => IInv'
<1> SUFFICES ASSUME IInv, LSeek PROVE IInv'
  OBVIOUS
<1> DEFINE n   == owner.name
           ofs == Cut(CalcOffset(request))
<1>1. /\ At("SEEK") /\ Shape /\ Mount /\ Window /\ Written /\ Chosen /\ Opening /\ Moving
      /\ Holding /\ Mounting /\ ~noinit
  BY OneVars DEF LSeek, At, Holding, Reading, Mounting, Mount
<1>2. UNCHANGED <<slot, awake, noinit, written, fs, win, medium, owner, imagefile, named>>
  BY DEF LSeek, card, choice
<1>3. OfImage(medium, n, fp) /\ ~fp.err /\ fp.id = fs.id /\ owner.card = medium
  BY <1>1 DEF Opening, At
<1>4. /\ fp' = Rewound(ofs)
      /\ IF ofs = 0 \/ fp.org = 0 THEN Transfer
         ELSE cpu' = [Resting EXCEPT !.at = "FOLLOW", !.ofs = ofs]
  BY <1>1, <1>3 DEF LSeek, Validate
<1>5. CalcOffset(request) \in Nat /\ CalcOffset(request) % SectorSize = 0
  BY <1>1, OffsetFacts DEF Moving
<1>6. IsFile(fp) /\ fp.fsize \in Nat /\ fp.org \in Nat
  BY <1>1, <1>3, Chain
<1>7. ofs \in Nat /\ ofs <= fp.fsize /\ (ofs % SectorSize = 0 \/ ofs = fp.fsize)
  BY <1>5, <1>6 DEF Cut
<1> HIDE DEF ofs
<1>8. /\ IsFile(fp') /\ fp'.id = fp.id /\ fp'.err = fp.err /\ fp'.fptr = 0 /\ fp'.fsize = fp.fsize
      /\ fp'.org = fp.org /\ fp'.sect_clust = 1
      /\ ofs # 0 /\ fp.org # 0 => fp'.curr_clust = fp.org
  BY <1>4, <1>6 DEF Rewound, IsFile
<1>9. OfImage(medium, n, fp')
  BY <1>3, <1>6, <1>8, OfImageKept
<1>10. SUFFICES /\ Shape' /\ Tracing' /\ Listings' /\ Moving' /\ Opening' /\ Chosen'
                /\ cpu'.at # "CHECK"
  BY <1>1, <1>2, MountRead, WindowShows, WindowKept, WrittenKept DEF IInv
<1>11. CASE ofs = 0 \/ fp.org = 0
  <2>1. Transfer
    BY <1>4, <1>11
  <2>2. Placed(medium, n, fp') /\ Even(fp', fp'.fptr)
    <3>1. 0 % SectorSize = 0
      BY SizesAssumption, DivIs
    <3> QED
      BY <1>8, <3>1 DEF Placed, Even
  <2> QED
    BY <1>1, <1>2, <1>3, <1>8, <1>9, <2>1, <2>2, Transfers
<1>12. CASE ~(ofs = 0 \/ fp.org = 0)
  <2>1. cpu' = [Resting EXCEPT !.at = "FOLLOW", !.ofs = ofs]
    BY <1>4, <1>12
  <2>2. IsCpu(cpu') /\ cpu'.at = "FOLLOW" /\ cpu'.why = "thrall" /\ cpu'.ofs = ofs
    BY <1>7, <2>1 DEF Resting, IsCpu
  <2>3. Shape' /\ Holding'
    BY <2>2 DEF Shape, IsCpu, Reading, At, Holding
  <2>4. Heading(medium, n, fp', ofs)
    <3>1. 1 \in DOMAIN Files[medium][n].clusts /\ fp.org = Files[medium][n].clusts[1]
      BY <1>1, <1>3, <1>6, <1>7, <1>12, Chain
    <3>2. Layout(medium).sects_clust \in Nat /\ SectorSize \in Nat
      BY <1>1, MountFacts, SizesAssumption
    <3>3. ((1 - 1) * Layout(medium).sects_clust) * SectorSize = 0
      BY <3>2
    <3>4. fp'.fptr + ofs = ofs /\ ofs > 0
      BY <1>7, <1>8, <1>12
    <3>5. Even(fp', fp'.fptr + ofs) /\ fp'.fptr + ofs <= fp'.fsize
      BY <1>7, <1>8, <3>4 DEF Even
    <3>6. fp'.curr_clust = Files[medium][n].clusts[1]
      BY <1>8, <1>12, <3>1
    <3> QED
      BY <1>8, <3>1, <3>3, <3>4, <3>5, <3>6 DEF Heading
  <2>5. Moving'
    BY <1>2, <2>2, <2>4 DEF Moving, At
  <2>6. Tracing' /\ Listings' /\ OpenListed'
    BY <2>2 DEF Tracing, Listings, ListsAll, OpenListed, At
  <2>7. Chosen'
    BY <1>1, <1>2, <2>6, ChosenKept
  <2>8. Opening'
    BY <1>2, <1>3, <1>8, <1>9, <2>2, <2>3 DEF Opening, At
  <2> QED
    BY <2>2, <2>3, <2>5, <2>6, <2>7, <2>8
<1> QED
  BY <1>11, <1>12

\* In which of the sectors behind sector t an offset falls.
LEMMA Within ==
  ASSUME NEW t \in Nat, NEW ofs \in Nat, ofs > 0, NEW per \in Nat, ofs <= per * SectorSize
  PROVE  LET k == (ofs - 1) \div SectorSize IN
         /\ k \in 0 .. per - 1
         /\ (t + k) * SectorSize < (t * SectorSize) + ofs
         /\ (t * SectorSize) + ofs <= (t + k + 1) * SectorSize
<1> DEFINE m == SectorSize
           k == (ofs - 1) \div m
           r == (ofs - 1) % m
<1>1. m \in Nat /\ m > 0
  BY SizesAssumption
<1>2. ofs - 1 = (m * k) + r /\ r \in 0 .. m - 1 /\ k \in Int
  BY <1>1, DivMod
<1>3. k \in Nat
  BY <1>1, DivGrows
<1> HIDE DEF k, r, m
<1>4. k < per
  <2> SUFFICES ASSUME per <= k PROVE FALSE
    BY <1>2
  <2>1. per * m <= k * m
    BY <1>1, <1>2, SMT
  <2> QED
    BY <1>1, <1>2, <2>1, SMT DEF m
<1>5. (t + k) * m = (t * m) + (m * k) /\ (t + k + 1) * m = (t * m) + (m * k) + m
  BY <1>1, <1>2, SMT
<1>6. (t * m) \in Int /\ (m * k) \in Int
  BY <1>1, <1>2
<1>7. (t + k) * m < (t * m) + ofs /\ (t * m) + ofs <= (t + k + 1) * m
  BY <1>1, <1>2, <1>5, <1>6, SMT
<1> QED
  BY <1>3, <1>4, <1>7 DEF k, m

LEMMA MultipleIs ==
  ASSUME NEW q \in Int
  PROVE  (q * SectorSize) % SectorSize = 0 /\ (q * SectorSize) \div SectorSize = q
<1>1. SectorSize \in Nat /\ q * SectorSize < (q + 1) * SectorSize /\ q * SectorSize \in Int
      /\ q * SectorSize - (q * SectorSize) = 0
  BY SizesAssumption, SMT
<1> QED
  BY <1>1, DivIs

\* The offset is in the cluster that was reached,
LEMMA FollowLands ==
  ASSUME IInv, At("FOLLOW"), cpu.ofs <= ClustSize, UNCHANGED <<fs, medium, owner, imagefile, named>>,
         fp' = Land(fp, fp.curr_clust, cpu.ofs), Transfer
  PROVE  /\ Shape' /\ Tracing' /\ Listings' /\ Moving' /\ Opening' /\ Chosen' /\ cpu'.at # "CHECK"
<1> DEFINE n   == owner.name
           F   == Files[medium][n]
           per == Layout(medium).sects_clust
           ofs == cpu.ofs
           k   == (ofs - 1) \div SectorSize
<1>1. /\ Mount /\ Chosen /\ Opening /\ Holding /\ Mounting /\ ofs \in Nat
      /\ OfImage(medium, n, fp) /\ ~fp.err /\ fp.id = fs.id /\ owner.card = medium
      /\ Heading(medium, n, fp, ofs)
  BY OneVars DEF At, Holding, Reading, Mounting, Mount, Opening, Moving, Shape
<1>2. PICK j \in DOMAIN F.clusts : /\ fp.curr_clust = F.clusts[j]
                                   /\ fp.fptr = ((j - 1) * per) * SectorSize
  BY <1>1 DEF Heading
<1> DEFINE t == (j - 1) * per
<1>3. /\ IsFile(fp) /\ fp.fsize \in Nat /\ per \in Nat /\ fs.sects_clust = per
      /\ F.clusts[j] \in Clusters(medium) /\ Len(F.clusts) \in Nat /\ DOMAIN F.clusts = 1 .. Len(F.clusts)
  BY <1>1, Chain
<1>4. j - 1 \in Nat
  BY <1>3
<1>5. t \in Nat
  BY <1>3, <1>4
<1>6. ofs > 0 /\ ofs <= per * SectorSize /\ fp.fptr + ofs <= fp.fsize /\ Even(fp, fp.fptr + ofs)
  BY <1>1, <1>3 DEF Heading, ClustSize
<1>7. /\ k \in 0 .. per - 1 /\ (t + k) * SectorSize < (t * SectorSize) + ofs
      /\ (t * SectorSize) + ofs <= (t + k + 1) * SectorSize
  BY <1>1, <1>3, <1>5, <1>6, Within
<1>8. Clust2Sect(fp.curr_clust) = FirstSect(medium, F.clusts[j])
  BY <1>1, <1>2, <1>3, LinkFacts DEF Clusters
<1> HIDE DEF k, t
<1>9. /\ IsFile(fp') /\ fp'.id = fp.id /\ fp'.err = fp.err /\ fp'.fptr = (t * SectorSize) + ofs
      /\ fp'.fptr = fp.fptr + ofs /\ fp'.fsize = fp.fsize /\ fp'.org = fp.org
      /\ fp'.curr_clust = F.clusts[j] /\ fp'.sect_clust = per - k
      /\ fp'.curr_sect = FirstSect(medium, F.clusts[j]) + k
  BY <1>2, <1>3, <1>8 DEF Land, IsFile, k, t
<1>10. fp'.fptr \in Nat /\ fp'.fptr <= fp'.fsize /\ Even(fp', fp'.fptr)
  <2>1. fp.fptr \in Nat
    BY <1>1, Chain
  <2> QED
    BY <1>1, <1>6, <1>9, <2>1 DEF Even
<1>11. OfImage(medium, n, fp')
  BY <1>1, <1>9, <1>10, OfImageKept
<1>12. In(medium, n, fp', j, k)
  BY <1>7, <1>9 DEF In, t
<1>13. Placed(medium, n, fp')
  BY <1>7, <1>12 DEF Placed
<1> QED
  BY <1>1, <1>9, <1>10, <1>11, <1>13, Transfers

\* The end of a cluster.
LEMMA ClusterEnd ==
  ASSUME NEW j \in Nat, j > 0, NEW per \in Nat, per > 0, NEW m \in Nat, m > 0
  PROVE  /\ (j - 1) * per \in Nat
         /\ ((j - 1) * per) * m + (per * m) = (((j + 1) - 1) * per) * m
         /\ ((j - 1) * per) * m + (per * m) = (((j - 1) * per) + per) * m
         /\ (((j - 1) * per) + (per - 1)) * m < (((j - 1) * per) + per) * m
<1>1. j - 1 \in Nat
  OBVIOUS
<1>2. (j - 1) * per \in Nat
  BY <1>1
<1> DEFINE t == (j - 1) * per
<1>3. j * per = t + per
  BY SMT
<1> HIDE DEF t
<1>4. (t + per) * m = t * m + (per * m)
  BY <1>2, SMT DEF t
<1>5. (t + (per - 1)) * m = t * m + (per * m) - m /\ t * m \in Int /\ per * m \in Int
  BY <1>2, SMT DEF t
<1>6. (j + 1) - 1 = j
  OBVIOUS
<1> QED
  BY <1>2, <1>3, <1>4, <1>5, <1>6 DEF t

\* or the next cluster has to be found, if there is one.
LEMMA FollowGoes ==
  ASSUME IInv, At("FOLLOW"), cpu.ofs > ClustSize, UNCHANGED <<fs, medium, owner, imagefile, named>>,
         NEW g, g.next = 1 \/ (fp.curr_clust \in Clusters(medium) /\ g.next = FatEntry(medium, fp.curr_clust)),
         CASE g.next = 0 -> fp' = Land(fp, 0, ClustSize) /\ Transfer
           [] IsLink(g.next) ->
                /\ fp' = [fp EXCEPT !.curr_clust = g.next, !.fptr = @ + ClustSize]
                /\ cpu' = [cpu EXCEPT !.ofs = @ - ClustSize]
           [] OTHER -> fp' = [fp EXCEPT !.err = TRUE] /\ Failed
  PROVE  /\ Shape' /\ Tracing' /\ Listings' /\ Moving' /\ Opening' /\ Chosen' /\ cpu'.at # "CHECK"
<1> DEFINE n   == owner.name
           F   == Files[medium][n]
           per == Layout(medium).sects_clust
           ofs == cpu.ofs
           m   == SectorSize
<1>1. /\ Shape /\ Mount /\ Chosen /\ Opening /\ Holding /\ Mounting /\ ofs \in Nat
      /\ OfImage(medium, n, fp) /\ ~fp.err /\ fp.id = fs.id /\ owner.card = medium
      /\ Heading(medium, n, fp, ofs)
  BY OneVars DEF At, Holding, Reading, Mounting, Mount, Opening, Moving, Shape
<1>2. PICK j \in DOMAIN F.clusts : /\ fp.curr_clust = F.clusts[j]
                                   /\ fp.fptr = ((j - 1) * per) * m
  BY <1>1 DEF Heading
<1>3. /\ IsFile(fp) /\ fp.fsize \in Nat /\ fp.fptr \in Nat /\ per \in Nat /\ per > 0
      /\ fs.sects_clust = per /\ m \in Nat /\ m > 0
      /\ F.clusts[j] \in Clusters(medium) /\ Len(F.clusts) \in Nat /\ DOMAIN F.clusts = 1 .. Len(F.clusts)
      /\ FatEntry(medium, F.clusts[j]) \in Clusters(medium) =>
              j + 1 \in DOMAIN F.clusts /\ FatEntry(medium, F.clusts[j]) = F.clusts[j + 1]
      /\ fp.fptr <= fp.fsize
  <2>1. m \in Nat /\ m > 0
    BY SizesAssumption
  <2>2. /\ IsFile(fp) /\ fp.fsize \in Nat /\ fp.fptr \in Nat /\ per \in Nat /\ per > 0
        /\ fs.sects_clust = per /\ fp.fptr <= fp.fsize
        /\ \A i \in DOMAIN F.clusts : F.clusts[i] \in Clusters(medium)
        /\ Len(F.clusts) \in Nat /\ DOMAIN F.clusts = 1 .. Len(F.clusts)
    BY <1>1, Chain
  <2>3. \A i \in DOMAIN F.clusts : FatEntry(medium, F.clusts[i]) \in Clusters(medium) =>
          i + 1 \in DOMAIN F.clusts /\ FatEntry(medium, F.clusts[i]) = F.clusts[i + 1]
    BY <1>1, Chain
  <2> HIDE DEF m, per, F
  <2> QED
    BY <2>1, <2>2, <2>3
<1>4. /\ ofs > per * m /\ fp.fptr + ofs <= fp.fsize /\ Even(fp, fp.fptr + ofs) /\ ClustSize = per * m
      /\ per * m \in Nat /\ per * m > 0
  <2>1. per * m \in Nat /\ per * m > 0
    BY <1>3
  <2> QED
    BY <1>1, <1>3, <2>1 DEF Heading, ClustSize
<1>5. /\ j \in Nat /\ j > 0 /\ (j - 1) * per \in Nat
      /\ ((j - 1) * per) * m + (per * m) = (((j + 1) - 1) * per) * m
      /\ ((j - 1) * per) * m + (per * m) = (((j - 1) * per) + per) * m
      /\ (((j - 1) * per) + (per - 1)) * m < (((j - 1) * per) + per) * m
  <2>1. j \in Nat /\ j > 0
    BY <1>3
  <2> HIDE DEF m, per
  <2> QED
    BY <1>3, <2>1, ClusterEnd
<1>6. FatEntry(medium, F.clusts[j]) \in Nat
  BY <1>1, <1>3, MountFacts DEF SoundLayout
<1>7. CASE g.next = 0
  <2> DEFINE t == (j - 1) * per
             k == (per * m - 1) \div m
  <2>1. fp' = Land(fp, 0, ClustSize) /\ Transfer
    <3>1. ~IsLink(g.next)
      BY <1>7 DEF IsLink
    <3> QED
      BY <1>7, <3>1
  <2>2. k = per - 1
    <3>1. per - 1 \in Int /\ (per - 1) * m <= per * m - 1 /\ per * m - 1 < ((per - 1) + 1) * m
          /\ per * m - 1 \in Int
      BY <1>3, <1>4, SMT
    <3> QED
      BY <1>3, <3>1, DivIs, Zenon
  <2>3. /\ IsFile(fp') /\ fp'.id = fp.id /\ fp'.err = fp.err
        /\ fp'.fptr = fp.fptr + per * m /\ fp'.fsize = fp.fsize /\ fp'.org = fp.org
        /\ fp'.curr_clust = F.clusts[j] /\ fp'.sect_clust = per - k
    BY <1>2, <1>3, <1>4, <2>1 DEF Land, IsFile
  <2> HIDE DEF k
  <2> DEFINE z == per * m
  <2>0. z \in Nat /\ ofs > z /\ fp'.fptr = fp.fptr + z
    BY <1>4, <2>3
  <2> HIDE DEF t, z
  <2>4. fp'.sect_clust = 1 /\ fp'.fptr = (t + per) * m /\ t \in Nat
    BY <1>2, <1>3, <1>5, <2>2, <2>3 DEF t
  <2>5. fp'.fptr \in Nat /\ fp'.fptr <= fp'.fsize
    BY <1>1, <1>3, <1>4, <2>0, <2>3, SMTT(30)
  <2>6. Even(fp', fp'.fptr)
    <3>1. t + per \in Int
      BY <1>3, <2>4
    <3>2. ((t + per) * m) % m = 0
      BY <3>1, MultipleIs
    <3> QED
      BY <2>4, <3>2 DEF Even
  <2>7. OfImage(medium, n, fp')
    BY <1>1, <2>3, <2>5, OfImageKept
  <2>8. In(medium, n, fp', j, per - 1)
    <3>0. (t + (per - 1)) * m < (t + per) * m
      BY <1>5 DEF t
    <3>1. t + (per - 1) \in Int /\ (t + (per - 1)) * m < (t + per) * m /\ t + (per - 1) + 1 = t + per
      <4>1. t + (per - 1) \in Int /\ t + (per - 1) + 1 = t + per
        BY <1>3, <2>4
      <4> QED
        BY <3>0, <4>1
    <3>2. (t + (per - 1)) * m < fp'.fptr /\ fp'.fptr = (t + (per - 1) + 1) * m
      BY <2>4, <3>1
    <3>3. per - (per - 1) = 1 /\ (t + (per - 1) + 1) * m \in Int
      BY <1>3, <2>4
    <3>4. ~(fp'.sect_clust > 1 \/ fp'.fptr < (t + (per - 1) + 1) * m)
      BY <2>4, <3>2, <3>3
    <3>5. fp'.fptr <= (t + (per - 1) + 1) * m
      BY <3>2, <3>3
    <3>6. fp'.sect_clust = per - (per - 1)
      BY <2>4, <3>3
    <3> QED
      BY <2>3, <3>2, <3>4, <3>5, <3>6, Zenon DEF In, t
  <2>9. Placed(medium, n, fp')
    BY <1>3, <2>8 DEF Placed
  <2> QED
    BY <1>1, <2>1, <2>3, <2>5, <2>6, <2>7, <2>9, Transfers
<1>8. CASE g.next # 0 /\ IsLink(g.next)
  <2>1. /\ fp' = [fp EXCEPT !.curr_clust = g.next, !.fptr = @ + ClustSize]
        /\ cpu' = [cpu EXCEPT !.ofs = @ - ClustSize]
    BY <1>8
  <2>2. g.next # 1
    BY <1>8 DEF IsLink
  <2>3. g.next = FatEntry(medium, F.clusts[j])
    BY <1>2, <2>2
  <2>4. j + 1 \in DOMAIN F.clusts /\ g.next = F.clusts[j + 1]
    BY <1>1, <1>3, <1>6, <1>8, <2>3, LinkFacts
  <2>5. /\ IsFile(fp') /\ fp'.id = fp.id /\ fp'.err = fp.err
        /\ fp'.fptr = fp.fptr + per * m /\ fp'.fsize = fp.fsize /\ fp'.org = fp.org
        /\ fp'.curr_clust = F.clusts[j + 1]
    BY <1>3, <1>4, <2>1, <2>4 DEF IsFile
  <2> DEFINE z == per * m
  <2>0. z \in Nat /\ ofs > z /\ fp'.fptr = fp.fptr + z
    BY <1>4, <2>5
  <2> HIDE DEF z
  <2>6. fp'.fptr \in Nat /\ fp'.fptr <= fp'.fsize
    <3>1. fp.fptr \in Nat /\ fp.fsize \in Nat /\ ofs \in Nat /\ fp.fptr + ofs <= fp.fsize /\ fp'.fsize = fp.fsize
      BY <1>1, <1>3, <1>4, <2>5
    <3> HIDE DEF ofs
    <3> QED
      BY <2>0, <3>1
  <2>7. OfImage(medium, n, fp')
    BY <1>1, <2>5, <2>6, OfImageKept
  <2>8. /\ IsCpu(cpu') /\ cpu'.at = "FOLLOW" /\ cpu'.why = "thrall" /\ cpu'.ofs = ofs - per * m
        /\ ofs - per * m > 0
    BY <1>1, <1>4, <2>1 DEF Shape, IsCpu, At, Listed
  <2>9. Shape' /\ Holding'
    BY <2>8 DEF Shape, IsCpu, Reading, At, Holding
  <2>10. Heading(medium, n, fp', cpu'.ofs)
    <3>1. fp'.fptr = (((j + 1) - 1) * per) * m
      BY <1>2, <1>5, <2>5
    <3>2. fp'.fptr + cpu'.ofs = fp.fptr + ofs
      BY <1>1, <1>3, <1>4, <2>5, <2>8
    <3>3. Even(fp', fp'.fptr + cpu'.ofs) /\ fp'.fptr + cpu'.ofs <= fp'.fsize /\ cpu'.ofs > 0
      BY <1>4, <2>5, <2>8, <3>2 DEF Even
    <3> QED
      BY <2>4, <2>5, <3>1, <3>3 DEF Heading
  <2>11. Moving'
    BY <2>8, <2>10 DEF Moving, At
  <2>12. Tracing' /\ Listings' /\ OpenListed'
    BY <2>8 DEF Tracing, Listings, ListsAll, OpenListed, At
  <2>13. Chosen'
    BY <1>1, <2>12, ChosenKept
  <2>14. Opening'
    BY <1>1, <2>5, <2>7, <2>8, <2>9 DEF Opening, At
  <2> QED
    BY <2>8, <2>9, <2>11, <2>12, <2>13, <2>14
<1>9. CASE g.next # 0 /\ ~IsLink(g.next)
  <2>1. fp' = [fp EXCEPT !.err = TRUE] /\ Failed
    BY <1>9
  <2>2. /\ IsFile(fp') /\ fp'.id = fp.id /\ fp'.fptr = fp.fptr /\ fp'.fsize = fp.fsize
        /\ fp'.org = fp.org
    BY <1>3, <2>1 DEF IsFile
  <2>3. OfImage(medium, n, fp')
    BY <1>1, <1>3, <2>2, OfImageKept
  <2> QED
    BY <1>1, <2>1, <2>2, <2>3, Fails
<1> QED
  BY <1>7, <1>8, <1>9

LEMMA FollowKeeps == IInv /\ Follow => IInv'
<1> SUFFICES ASSUME IInv, Follow PROVE IInv'
  OBVIOUS
<1>1. /\ At("FOLLOW") /\ Shape /\ Mount /\ Window /\ Written /\ Opening /\ Moving
      /\ Mounting /\ ~noinit /\ Shows(win)
  BY OneVars, WindowShows DEF Follow, At, Holding, Reading, Mounting, Mount
<1>2. UNCHANGED <<slot, awake, noinit, written, fs, medium, owner, imagefile, named>>
  BY DEF Follow, card, choice
<1>3. SUFFICES /\ Shape' /\ Tracing' /\ Listings' /\ Moving' /\ Opening' /\ Chosen'
               /\ cpu'.at # "CHECK" /\ Shows(win')
  BY <1>1, <1>2, MountRead, WindowKept, WrittenKept DEF IInv
<1>4. CASE cpu.ofs <= ClustSize
  <2>1. fp' = Land(fp, fp.curr_clust, cpu.ofs) /\ Transfer /\ UNCHANGED win
    BY <1>4 DEF Follow
  <2> QED
    BY <1>1, <1>2, <1>4, <2>1, FollowLands
<1>5. CASE ~(cpu.ofs <= ClustSize)
  <2>1. PICK g \in GetCluster(fp.curr_clust, win) :
          /\ win' = g.win
          /\ CASE g.next = 0 -> fp' = Land(fp, 0, ClustSize) /\ Transfer /\ UNCHANGED floppy
               [] IsLink(g.next) ->
                    /\ fp' = [fp EXCEPT !.curr_clust = g.next, !.fptr = @ + ClustSize]
                    /\ cpu' = [cpu EXCEPT !.ofs = @ - ClustSize] /\ UNCHANGED floppy
               [] OTHER -> fp' = [fp EXCEPT !.err = TRUE] /\ Failed /\ UNCHANGED buffer
    BY <1>5 DEF Follow
  <2>2. fp.curr_clust \in Clusters(medium)
    <3>1. OfImage(medium, owner.name, fp) /\ Heading(medium, owner.name, fp, cpu.ofs)
      BY <1>1 DEF Opening, Moving, Holding, Reading, At
    <3> QED
      BY <1>1, <3>1, Chain DEF Heading
  <2>3. Shows(g.win) /\ (g.next = 1 \/ g.next = FatEntry(medium, fp.curr_clust))
    BY <1>1, <2>2, GetClusterReads DEF Clusters
  <2>4. cpu.ofs > ClustSize
    <3>1. cpu.ofs \in Nat
      BY <1>1 DEF Shape
    <3>2. ClustSize \in Nat
      BY <1>1, MountFacts, SizesAssumption DEF ClustSize
    <3> QED
      BY <1>5, <3>1, <3>2
  <2>5. (CASE g.next = 0 -> fp' = Land(fp, 0, ClustSize) /\ Transfer
           [] IsLink(g.next) ->
                /\ fp' = [fp EXCEPT !.curr_clust = g.next, !.fptr = @ + ClustSize]
                /\ cpu' = [cpu EXCEPT !.ofs = @ - ClustSize]
           [] OTHER -> fp' = [fp EXCEPT !.err = TRUE] /\ Failed)
    BY <2>1
  <2> QED
    BY <1>1, <1>2, <2>1, <2>2, <2>3, <2>4, <2>5, FollowGoes
<1> QED
  BY <1>4, <1>5

\* At the end of a sector.
LEMMA SectorEnd ==
  ASSUME NEW last \in Nat, NEW x \in Nat, last * SectorSize < x, x <= (last + 1) * SectorSize,
         x % SectorSize = 0
  PROVE  x = (last + 1) * SectorSize /\ x # 0
<1> DEFINE m == SectorSize
           q == x \div m
<1>1. m \in Nat /\ m > 0
  BY SizesAssumption
<1>2. x = (m * q) + (x % m) /\ q \in Int
  BY <1>1, DivMod
<1> HIDE DEF q, m
<1>3. x = q * m
  BY <1>1, <1>2 DEF m
<1>4. ~(q <= last)
  <2> SUFFICES ASSUME q <= last PROVE FALSE
    OBVIOUS
  <2>1. q * m <= last * m
    BY <1>1, <1>2, SMT
  <2> QED
    BY <1>1, <1>2, <1>3, <2>1, SMT DEF m
<1>5. ~(q >= last + 2)
  <2> SUFFICES ASSUME last + 2 <= q PROVE FALSE
    BY <1>2
  <2>1. (last + 2) * m <= q * m
    BY <1>1, <1>2, SMT
  <2>2. (last + 2) * m = (last + 1) * m + m /\ (last + 1) * m \in Int
    BY <1>1, SMT
  <2> QED
    BY <1>1, <1>2, <1>3, <2>1, <2>2, SMT DEF m
<1>6. q = last + 1
  BY <1>2, <1>4, <1>5
<1>7. last * m \in Nat
  BY <1>1
<1> QED
  BY <1>1, <1>3, <1>6, <1>7 DEF m

\* File object f has just entered sector k of cluster j.
Entering(c, n, f, j, k) ==
  LET per == Layout(c).sects_clust IN
  /\ j \in DOMAIN Files[c][n].clusts /\ k \in 0 .. per - 1
  /\ f.fptr = ((j - 1) * per + k) * SectorSize
  /\ f.curr_clust = Files[c][n].clusts[j] /\ f.sect_clust = per - k
  /\ f.curr_sect = FirstSect(c, Files[c][n].clusts[j]) + k
\* It is the same but for where it stands.
SameFile(f, g) ==
  IsFile(g) /\ g.id = f.id /\ g.err = f.err /\ g.fsize = f.fsize /\ g.org = f.org

\* The next sector is that of the chain.
LEMMA NextSectorIs ==
  ASSUME Mounting, Written, NEW n, OfImage(medium, n, fp), Placed(medium, n, fp),
         fp.fptr % SectorSize = 0, NEW w, Shows(w), NEW x \in NextSector(w)
  PROVE  /\ Shows(x.win) /\ x.ok \in BOOLEAN /\ SameFile(fp, x.fp) /\ x.fp.fptr = fp.fptr
         /\ x.ok => \E j, k : Entering(medium, n, x.fp, j, k)
<1> DEFINE F   == Files[medium][n]
           per == Layout(medium).sects_clust
           left == fp.sect_clust - 1
           Enter(c) == [fp EXCEPT !.curr_clust = c, !.curr_sect = Clust2Sect(c),
                                  !.sect_clust = fs.sects_clust]
<1>1. /\ IsFile(fp) /\ fp.fsize \in Nat /\ fp.fptr \in Nat /\ per \in Nat /\ per > 0
      /\ fs.sects_clust = per /\ fp.org \in Nat
      /\ \A i \in DOMAIN F.clusts : F.clusts[i] \in Clusters(medium)
      /\ Len(F.clusts) \in Nat /\ DOMAIN F.clusts = 1 .. Len(F.clusts)
      /\ fp.org \in Clusters(medium) => 1 \in DOMAIN F.clusts /\ fp.org = F.clusts[1]
  BY Chain
<1>2. \A i \in DOMAIN F.clusts : FatEntry(medium, F.clusts[i]) \in Clusters(medium) =>
        i + 1 \in DOMAIN F.clusts /\ FatEntry(medium, F.clusts[i]) = F.clusts[i + 1]
  BY Chain
<1>3. SectorSize \in Nat /\ SectorSize > 0
  BY SizesAssumption
\* Entering cluster j from the one before, or from the top.
<1>4. ASSUME NEW j \in DOMAIN F.clusts, fp.fptr = ((j - 1) * per + 0) * SectorSize,
             x.fp = Enter(F.clusts[j])
      PROVE  SameFile(fp, x.fp) /\ x.fp.fptr = fp.fptr /\ Entering(medium, n, x.fp, j, 0)
  <2>1. F.clusts[j] \in Clusters(medium) /\ F.clusts[j] \in Int
    BY <1>1 DEF Clusters
  <2>2. Clust2Sect(F.clusts[j]) = FirstSect(medium, F.clusts[j]) /\ FirstSect(medium, F.clusts[j]) \in Nat
    BY <2>1, LinkFacts, ClusterSects, MountFacts
  <2>3. /\ SameFile(fp, x.fp) /\ x.fp.fptr = fp.fptr /\ x.fp.curr_clust = F.clusts[j]
        /\ x.fp.curr_sect = FirstSect(medium, F.clusts[j]) /\ x.fp.sect_clust = per
    BY <1>1, <1>4, <2>2 DEF SameFile, IsFile
  <2>4. /\ 0 \in 0 .. per - 1 /\ per - 0 = per
        /\ FirstSect(medium, F.clusts[j]) + 0 = FirstSect(medium, F.clusts[j])
    BY <1>1, <2>2
  <2> HIDE DEF Enter
  <2> QED
    BY <1>4, <2>3, <2>4, Zenon DEF Entering
\* The chain has ended.
<1>5. ASSUME x.fp = [fp EXCEPT !.sect_clust = 0]
      PROVE  SameFile(fp, x.fp) /\ x.fp.fptr = fp.fptr
  BY <1>1, <1>5 DEF SameFile, IsFile
<1>6. CASE fp.fptr = 0 /\ fp.sect_clust = 1
  <2>1. x = [ok |-> IsLink(fp.org), win |-> w,
             fp |-> IF IsLink(fp.org) THEN Enter(fp.org) ELSE [fp EXCEPT !.sect_clust = 0]]
    <3>1. left = 0
      BY <1>6
    <3>2. PICK g \in {[next |-> fp.org, win |-> w]} :
            x = [ok |-> IsLink(g.next), win |-> g.win,
                 fp |-> IF IsLink(g.next) THEN Enter(g.next) ELSE [fp EXCEPT !.sect_clust = 0]]
      BY <1>6, <3>1 DEF NextSector
    <3>3. g.next = fp.org /\ g.win = w
      OBVIOUS
    <3> QED
      BY <3>2, <3>3
  <2>2. IsLink(fp.org) \in BOOLEAN
    BY DEF IsLink
  <2>3. CASE IsLink(fp.org)
    <3>1. fp.org \in Clusters(medium)
      BY <1>1, <2>3, LinkFacts
    <3>2. 1 \in DOMAIN F.clusts /\ x.fp = Enter(F.clusts[1])
      BY <1>1, <2>1, <2>3, <3>1
    <3>3. fp.fptr = ((1 - 1) * per + 0) * SectorSize
      BY <1>1, <1>3, <1>6
    <3>4. SameFile(fp, x.fp) /\ x.fp.fptr = fp.fptr /\ Entering(medium, n, x.fp, 1, 0)
      BY <1>4, <3>2, <3>3
    <3> QED
      BY <2>1, <2>2, <3>4
  <2>4. CASE ~IsLink(fp.org)
    <3>1. x.ok = FALSE /\ x.win = w /\ x.fp = [fp EXCEPT !.sect_clust = 0]
      BY <2>1, <2>2, <2>4
    <3> QED
      BY <1>5, <3>1
  <2> QED
    BY <2>3, <2>4
<1>7. ASSUME NEW j \in DOMAIN F.clusts, NEW k \in 0 .. per - 1, In(medium, n, fp, j, k)
      PROVE  /\ Shows(x.win) /\ x.ok \in BOOLEAN /\ SameFile(fp, x.fp) /\ x.fp.fptr = fp.fptr
             /\ x.ok => \E i, l : Entering(medium, n, x.fp, i, l)
  <2> DEFINE t == (j - 1) * per
             last == t + k
  <2>1. j \in Nat /\ j > 0 /\ k \in Nat /\ k <= per - 1 /\ t \in Nat
    <3>1. j \in Nat /\ j > 0 /\ j - 1 \in Nat
      BY <1>1
    <3> QED
      BY <1>1, <3>1
  <2>2. /\ last * SectorSize < fp.fptr /\ fp.fptr <= (last + 1) * SectorSize
        /\ fp.curr_clust = F.clusts[j] /\ fp.sect_clust = per - k
        /\ fp.sect_clust > 1 => fp.curr_sect = FirstSect(medium, F.clusts[j]) + k
    BY <1>7 DEF In
  <2>3. last \in Nat
    BY <2>1
  <2> HIDE DEF last, t
  <2>4. fp.fptr = (last + 1) * SectorSize /\ fp.fptr # 0
    BY <1>1, <2>2, <2>3, SectorEnd
  <2>5. CASE k + 1 < per
    <3>1. left # 0 /\ fp.sect_clust > 1 /\ left = per - (k + 1) /\ k + 1 \in 0 .. per - 1
      BY <1>1, <2>1, <2>2, <2>5
    <3>2. x = [ok |-> TRUE, win |-> w,
               fp |-> [fp EXCEPT !.sect_clust = left, !.curr_sect = @ + 1]]
      BY <3>1 DEF NextSector
    <3>3. FirstSect(medium, F.clusts[j]) \in Nat
      BY <1>1, ClusterSects, MountFacts
    <3>4. FirstSect(medium, F.clusts[j]) + k + 1 = FirstSect(medium, F.clusts[j]) + (k + 1)
      BY <2>1, <3>3
    <3>5. /\ SameFile(fp, x.fp) /\ x.fp.fptr = fp.fptr /\ x.fp.curr_clust = F.clusts[j]
          /\ x.fp.curr_sect = FirstSect(medium, F.clusts[j]) + (k + 1) /\ x.fp.sect_clust = per - (k + 1)
      BY <1>1, <2>2, <3>1, <3>2, <3>4 DEF SameFile, IsFile
    <3>6. last + 1 = t + (k + 1)
      BY <2>1 DEF last
    <3>7. fp.fptr = ((j - 1) * per + (k + 1)) * SectorSize
      BY <2>4, <3>6 DEF t
    <3>8. Entering(medium, n, x.fp, j, k + 1)
      BY <1>7, <3>1, <3>5, <3>7, Zenon DEF Entering
    <3> QED
      BY <3>2, <3>5, <3>8
  <2>6. CASE ~(k + 1 < per)
    <3>1. left = 0 /\ k + 1 = per
      <4>1. k + 1 = per
        BY <1>1, <2>1, <2>6
      <4>2. fp.sect_clust = per - k
        BY <2>2
      <4> HIDE DEF per
      <4> QED
        BY <1>1, <2>1, <4>1, <4>2
    <3>2. PICK g \in GetCluster(fp.curr_clust, w) :
            x = [ok |-> IsLink(g.next), win |-> g.win,
                 fp |-> IF IsLink(g.next) THEN Enter(g.next) ELSE [fp EXCEPT !.sect_clust = 0]]
      BY <2>4, <3>1 DEF NextSector
    <3>3. F.clusts[j] \in Clusters(medium) /\ F.clusts[j] \in Int
      BY <1>1 DEF Clusters
    <3>4. Shows(g.win) /\ (g.next = 1 \/ g.next = FatEntry(medium, F.clusts[j]))
      BY <2>2, <3>3, GetClusterReads
    <3>5. IsLink(g.next) \in BOOLEAN
      BY DEF IsLink
    <3>6. CASE IsLink(g.next)
      <4>1. g.next = FatEntry(medium, F.clusts[j])
        BY <3>4, <3>6 DEF IsLink
      <4>2. FatEntry(medium, F.clusts[j]) \in Nat
        BY <3>3, MountFacts DEF SoundLayout
      <4>3. FatEntry(medium, F.clusts[j]) \in Clusters(medium)
        BY <3>6, <4>1, <4>2, LinkFacts
      <4>4. j + 1 \in DOMAIN F.clusts /\ x.fp = Enter(F.clusts[j + 1])
        BY <1>2, <3>2, <3>6, <4>1, <4>3
      <4>5. last + 1 = ((j + 1) - 1) * per + 0
        <5>1. (j + 1) - 1 = j /\ j * per = t + per /\ last + 1 = t + per
          <6>1. j * per = ((j - 1) * per) + per
            <7> HIDE DEF per
            <7> QED
              BY <1>1, <2>1, SMT
          <6>2. (j + 1) - 1 = j
            BY <2>1
          <6>3. last + 1 = t + per
            <7>1. per \in Nat /\ k \in Nat /\ t \in Nat /\ k + 1 = per
              BY <1>1, <2>1, <3>1
            <7> HIDE DEF per
            <7> QED
              BY <7>1 DEF last
          <6> QED
            BY <6>1, <6>2, <6>3 DEF t
        <5> QED
          BY <1>1, <2>1, <5>1
      <4>6. fp.fptr = (((j + 1) - 1) * per + 0) * SectorSize
        BY <2>4, <4>5
      <4>7. SameFile(fp, x.fp) /\ x.fp.fptr = fp.fptr /\ Entering(medium, n, x.fp, j + 1, 0)
        BY <1>4, <4>4, <4>6
      <4> QED
        BY <3>2, <3>4, <3>5, <4>7
    <3>7. CASE ~IsLink(g.next)
      <4>1. x.ok = FALSE /\ x.win = g.win /\ x.fp = [fp EXCEPT !.sect_clust = 0]
        BY <3>2, <3>5, <3>7
      <4> QED
        BY <1>5, <3>4, <4>1
    <3> QED
      BY <3>6, <3>7
  <2> QED
    BY <2>5, <2>6
<1> QED
  BY <1>6, <1>7 DEF Placed

LEMMA RowAt ==
  ASSUME NEW j \in Nat, j > 0, NEW per \in Nat
  PROVE  (j - 1) * per \in Nat /\ j * per = ((j - 1) * per) + per
<1>1. j - 1 \in Nat
  OBVIOUS
<1> QED
  BY <1>1, SMT

LEMMA RowsGrow ==
  ASSUME NEW a \in Nat, NEW b \in Nat, a <= b, NEW per \in Nat
  PROVE  a * per \in Nat /\ b * per \in Nat /\ a * per <= b * per
  BY SMT

\* The whole sectors that are moved are sectors of the image, and none of them
\* has its end.
LEMMA Moved ==
  ASSUME Mounting, NEW n, NEW f, OfImage(medium, n, f), NEW j, NEW k, Entering(medium, n, f, j, k),
         NEW cc \in Nat, k + cc <= Layout(medium).sects_clust,
         f.fptr + cc * SectorSize <= f.fsize,
         NEW x \in f.curr_sect .. f.curr_sect + cc - 1
  PROVE  \E i \in DOMAIN Files[medium][n].sectors :
           Files[medium][n].sectors[i] = x /\ i * SectorSize <= Files[medium][n].size
<1> DEFINE F   == Files[medium][n]
           per == Layout(medium).sects_clust
           t   == (j - 1) * per
           y   == x - f.curr_sect
           i   == t + (k + y) + 1
           m   == SectorSize
<1>1. /\ j \in DOMAIN F.clusts /\ k \in 0 .. per - 1 /\ f.fptr = (t + k) * m
      /\ f.curr_sect = FirstSect(medium, F.clusts[j]) + k
  BY DEF Entering
<1>2. /\ f.fsize = F.size /\ f.fsize \in Nat /\ f.fptr \in Nat /\ per \in Nat /\ per > 0
      /\ F.clusts[j] \in Clusters(medium)
      /\ Len(F.clusts) \in Nat /\ DOMAIN F.clusts = 1 .. Len(F.clusts)
      /\ F.sectors \in Seq(Nat) /\ Len(F.sectors) = Len(F.clusts) * per
  BY <1>1, Chain
<1>3. \A z \in 0 .. per - 1 : F.sectors[(j - 1) * per + z + 1] = FirstSect(medium, F.clusts[j]) + z
  BY <1>1, Chain
<1>4. FirstSect(medium, F.clusts[j]) \in Nat
  BY <1>2, ClusterSects, MountFacts
<1>5. j \in Nat /\ j > 0 /\ j <= Len(F.clusts) /\ t \in Nat /\ j * per = t + per
  <2>1. j \in Nat /\ j > 0 /\ j <= Len(F.clusts) /\ j - 1 \in Nat
    BY <1>1, <1>2, SMTT(30)
  <2> HIDE DEF per
  <2> QED
    BY <1>2, <2>1, RowAt DEF t
<1>6. j * per <= Len(F.clusts) * per
  <2> HIDE DEF per
  <2> QED
    BY <1>2, <1>5, RowsGrow
<1> HIDE DEF t, m
<1>7. y \in Nat /\ y < cc /\ f.curr_sect + y = x /\ f.curr_sect \in Nat /\ k \in Nat
  <2>1. k \in 0 .. per - 1 /\ f.curr_sect = FirstSect(medium, F.clusts[j]) + k
    BY <1>1
  <2>2. k \in Nat /\ f.curr_sect \in Nat
    BY <1>2, <1>4, <2>1
  <2> HIDE DEF per, F
  <2> QED
    BY <2>2
<1> HIDE DEF y
<1>8. k + y \in 0 .. per - 1
  BY <1>1, <1>2, <1>7, SMTT(30)
<1>9. F.sectors[t + (k + y) + 1] = FirstSect(medium, F.clusts[j]) + (k + y)
  BY <1>3, <1>8 DEF t
<1>10. FirstSect(medium, F.clusts[j]) + (k + y) = x
  BY <1>1, <1>4, <1>7
<1>11. i \in Nat /\ i > 0 /\ i <= t + per /\ i <= t + k + cc
  <2> HIDE DEF per
  <2> QED
    BY <1>1, <1>2, <1>5, <1>7, <1>8
<1>12. i \in DOMAIN F.sectors
  <2>1. i <= Len(F.sectors)
    <3> DEFINE u == j * per
               v == Len(F.clusts) * per
    <3>1. u \in Int /\ v \in Int /\ u <= v /\ Len(F.sectors) = v /\ u = t + per
      <4>1. v \in Int
        <5>1. Len(F.clusts) \in Nat /\ per \in Nat
          BY <1>2
        <5> HIDE DEF per, F
        <5> QED
          BY <5>1, SMT
      <4>2. u = t + per /\ u <= v /\ Len(F.sectors) = v
        BY <1>2, <1>5, <1>6
      <4>3. t + per \in Int
        BY <1>2, <1>5
      <4> HIDE DEF u, v, per, F
      <4> QED
        BY <4>1, <4>2, <4>3
    <3> HIDE DEF u, v, i, per
    <3> QED
      BY <1>11, <3>1, <1>2, <1>5
  <2> HIDE DEF i
  <2> QED
    BY <1>2, <1>11, <2>1
<1>13. i * m <= F.size
  <2>1. m \in Nat /\ m > 0
    BY SizesAssumption DEF m
  <2> DEFINE q == t + k
  <2>2. q \in Nat /\ i <= q + cc
    BY <1>5, <1>7, <1>11
  <2> HIDE DEF i, q
  <2>3. i * m <= (q + cc) * m
    BY <1>11, <2>1, <2>2, SMT
  <2>4. (q + cc) * m = q * m + cc * m
    BY <2>1, <2>2, SMT
  <2>5. f.fptr = q * m /\ f.fptr + cc * m <= F.size
    BY <1>1, <1>2 DEF q, m
  <2>6. i * m \in Int /\ q * m \in Int /\ cc * m \in Int /\ F.size \in Int
    BY <1>2, <1>11, <2>1, <2>2
  <2> QED
    BY <2>3, <2>4, <2>5, <2>6
<1> QED
  BY <1>9, <1>10, <1>12, <1>13 DEF m

LEMMA NotPartial ==
  ASSUME Mounting, NEW n \in DOMAIN Files[medium], NEW i \in DOMAIN Files[medium][n].sectors,
         i * SectorSize <= Files[medium][n].size
  PROVE  Files[medium][n].sectors[i] \in Own(medium) /\ ~Partial(medium, Files[medium][n].sectors[i])
<1>1. Files[medium][n].sectors[i] \in Own(medium)
  BY DEF Own
<1>2. ASSUME NEW l \in DOMAIN Files[medium], NEW h \in DOMAIN Files[medium][l].sectors,
             Files[medium][l].sectors[h] = Files[medium][n].sectors[i],
             h * SectorSize > Files[medium][l].size
      PROVE  FALSE
  <2>1. l = n /\ h = i
    BY <1>2, MountFacts DEF SoundFiles
  <2>2. SoundFiles(medium)
    BY MountFacts
  <2>3. PICK e \in Images(medium) : Describes(medium, Files[medium][n], e)
    BY <2>2 DEF SoundFiles
  <2>4. Files[medium][n].size \in Nat /\ i \in Nat
    BY <2>3 DEF Describes
  <2>5. i * SectorSize \in Nat
    BY <2>4, SizesAssumption
  <2> QED
    BY <1>2, <2>1, <2>4, <2>5
<1> QED
  BY <1>1, <1>2 DEF Partial

\* Who leaves the cards alone writes to nobody's sectors.
LEMMA OwnKept == UNCHANGED written => OwnStep
  BY DEF OwnStep

\* Writing those sectors touches the image, and not the window.
LEMMA Stores ==
  ASSUME Mounting, Written, UNCHANGED medium, NEW s \in Nat, NEW num \in Nat,
         Alive, written' = Store(s, num), Shows(win'), owner.card = medium,
         owner.name \in DOMAIN Files[medium],
         \A x \in s .. s + num - 1 :
           \E i \in DOMAIN Files[medium][owner.name].sectors :
             /\ Files[medium][owner.name].sectors[i] = x
             /\ i * SectorSize <= Files[medium][owner.name].size
  PROVE  Written' /\ Window' /\ OwnStep
<1> DEFINE S == s .. s + num - 1
<1>1. slot = medium /\ medium \in Cards
  BY MountFacts DEF Mounting, Mount
<1>2. /\ written = [c \in Cards |-> written[c]] /\ \A c \in Cards : DOMAIN written[c] \subseteq Own(c)
  BY DEF Written
<1>3. /\ \A c \in Cards \ {medium} : written'[c] = written[c]
      /\ DOMAIN written'[medium] = DOMAIN written[medium] \union S
      /\ \A x \in DOMAIN written[medium] \ S : written'[medium][x] = written[medium][x]
      /\ written' = [c \in Cards |-> written'[c]]
  BY <1>1, <1>2 DEF Store
<1>4. \A x \in S : x \in Own(medium) /\ ~Partial(medium, x)
  BY NotPartial
<1>5. Written'
  BY <1>2, <1>3, <1>4 DEF Written
<1>6. ASSUME NEW x, x \notin S
      PROVE  (x \in DOMAIN written'[medium]) = (x \in DOMAIN written[medium])
             /\ (x \in DOMAIN written[medium] => written'[medium][x] = written[medium][x])
  BY <1>3, <1>6
<1>7. Window'
  <2>1. SUFFICES ASSUME win'.sect # 0
                 PROVE  /\ win'.data = IF win'.sect \in DOMAIN written'[medium] THEN written'[medium][win'.sect]
                                       ELSE Volume[medium][win'.sect]
                        /\ win'.sect \notin Own(medium) \/ Partial(medium, win'.sect)
    BY DEF Window, WindowTrue, Contents
  <2>2. /\ win'.data = Contents(medium, win'.sect)
        /\ win'.sect \notin Own(medium) \/ Partial(medium, win'.sect)
    BY <2>1 DEF Shows
  <2>3. win'.sect \notin S
    BY <1>4, <2>2
  <2> QED
    BY <1>6, <2>2, <2>3 DEF Contents
<1>8. OwnStep
  <2> SUFFICES ASSUME NEW c \in Cards, NEW x \in DOMAIN written'[c]
               PROVE  \/ x \in DOMAIN written[c] /\ written'[c][x] = written[c][x]
                      \/ /\ owner.card = c
                         /\ \E i \in DOMAIN Files[c][owner.name].sectors : Files[c][owner.name].sectors[i] = x
    BY DEF OwnStep
  <2>1. CASE c # medium
    BY <1>3, <2>1
  <2>2. CASE c = medium /\ x \in S
    BY <2>2
  <2>3. CASE c = medium /\ x \notin S
    BY <1>3, <2>3
  <2> QED
    BY <2>1, <2>2, <2>3
<1> QED
  BY <1>5, <1>7, <1>8

LEMMA WholeSum ==
  ASSUME NEW a \in Int, NEW b \in Int, a % SectorSize = 0, b % SectorSize = 0
  PROVE  (a + b) % SectorSize = 0 /\ (a - b) % SectorSize = 0
<1> DEFINE m == SectorSize
           p == a \div m
           q == b \div m
<1>1. m \in Nat /\ m > 0
  BY SizesAssumption
<1>2. a = (m * p) + (a % m) /\ p \in Int /\ b = (m * q) + (b % m) /\ q \in Int
  BY <1>1, DivMod
<1> HIDE DEF p, q, m
<1>3. a = m * p /\ b = m * q
  BY <1>1, <1>2 DEF m
<1>4. a + b = (p + q) * m /\ a - b = (p - q) * m /\ p + q \in Int /\ p - q \in Int
  BY <1>1, <1>2, <1>3, SMT
<1> QED
  BY <1>4, MultipleIs DEF m

\* Some bytes were moved, and the file object stands behind them.
LEMMA Advances ==
  ASSUME IInv, At("TRANSFER"), UNCHANGED <<medium, fs, owner, imagefile, named>>,
         NEW f, SameFile(fp, f), f.fptr = fp.fptr, NEW bytes \in Nat, bytes <= cpu.btr,
         bytes % SectorSize = 0 \/ bytes = cpu.btr, cpu.btr > 0,
         fp' = [f EXCEPT !.fptr = @ + bytes], cpu' = [cpu EXCEPT !.btr = @ - bytes],
         Placed(medium, owner.name, fp')
  PROVE  /\ Shape' /\ Tracing' /\ Listings' /\ Moving' /\ Opening' /\ Chosen' /\ cpu'.at # "CHECK"
<1> DEFINE n   == owner.name
           btr == cpu.btr
<1>1. /\ Shape /\ Mount /\ Chosen /\ Opening /\ Holding /\ Mounting /\ btr \in Nat
      /\ OfImage(medium, n, fp) /\ ~fp.err /\ fp.id = fs.id /\ owner.card = medium
      /\ Sending(fp, btr)
  BY OneVars DEF At, Holding, Reading, Mounting, Mount, Opening, Moving, Shape
<1>2. /\ fp.fsize \in Nat /\ fp.fptr \in Nat
  BY <1>1, Chain
<1>3. /\ fp.fptr + btr <= fp.fsize /\ fp.fptr % SectorSize = 0
      /\ btr % SectorSize = 0 \/ fp.fptr + btr = fp.fsize
  BY <1>1 DEF Sending
<1>4. /\ IsFile(fp') /\ fp'.id = fp.id /\ fp'.err = fp.err /\ fp'.fsize = fp.fsize
      /\ fp'.org = fp.org /\ fp'.fptr = fp.fptr + bytes
  BY <1>2 DEF SameFile, IsFile
<1>5. /\ IsCpu(cpu') /\ cpu'.at = "TRANSFER" /\ cpu'.why = "thrall" /\ cpu'.btr = btr - bytes
      /\ btr - bytes \in Nat
  BY <1>1 DEF Shape, IsCpu, At, Listed
<1>6. fp'.fptr \in Nat /\ fp'.fptr <= fp'.fsize /\ fp'.fptr + cpu'.btr = fp.fptr + btr
  <2> HIDE DEF btr
  <2>1. bytes <= btr
    BY DEF btr
  <2> QED
    BY <1>1, <1>2, <1>3, <1>4, <1>5, <2>1
<1>7. OfImage(medium, n, fp')
  BY <1>1, <1>4, <1>6, OfImageKept
<1>8. Shape' /\ Holding'
  BY <1>5 DEF Shape, IsCpu, Reading, At, Holding
<1>9. Sending(fp', cpu'.btr)
  <2>1. 0 % SectorSize = 0
    BY SizesAssumption, DivIs
  <2>2. CASE bytes = btr
    <3>1. cpu'.btr = 0
      BY <1>1, <1>5, <2>2
    <3> QED
      BY <1>3, <1>4, <1>6, <2>1, <3>1 DEF Sending
  <2>3. CASE bytes % SectorSize = 0
    <3>1. (fp.fptr + bytes) % SectorSize = 0
      BY <1>2, <1>3, <2>3, WholeSum
    <3>2. btr % SectorSize = 0 => (btr - bytes) % SectorSize = 0
      BY <1>1, <2>3, WholeSum
    <3> QED
      BY <1>3, <1>4, <1>5, <1>6, <3>1, <3>2 DEF Sending
  <2> QED
    BY <2>2, <2>3
<1>10. Tracing' /\ Listings' /\ Moving' /\ OpenListed'
  BY <1>5, <1>9 DEF Tracing, Listings, ListsAll, Moving, OpenListed, At
<1>11. Chosen'
  BY <1>1, <1>10, ChosenKept
<1>12. Opening'
  BY <1>1, <1>4, <1>5, <1>7, <1>8 DEF Opening, At
<1> QED
  BY <1>5, <1>8, <1>10, <1>11, <1>12

\* An access failed.
LEMMA Breaks ==
  ASSUME IInv, At("TRANSFER"), UNCHANGED <<medium, fs, owner, imagefile, named>>,
         NEW f, SameFile(fp, f), f.fptr = fp.fptr, Break(f)
  PROVE  /\ Shape' /\ Tracing' /\ Listings' /\ Moving' /\ Opening' /\ Chosen' /\ cpu'.at # "CHECK"
<1>1. /\ Mount /\ Chosen /\ Opening /\ Holding /\ Mounting
      /\ OfImage(medium, owner.name, fp)
  BY OneVars DEF At, Holding, Reading, Mounting, Mount, Opening
<1>2. fp.fsize \in Nat /\ fp.fptr \in Nat /\ fp.fptr <= fp.fsize
  BY <1>1, Chain
<1>3. /\ IsFile(fp') /\ fp'.id = fp.id /\ fp'.fsize = fp.fsize /\ fp'.org = fp.org /\ fp'.fptr = fp.fptr
      /\ Failed
  BY DEF SameFile, IsFile, Break
<1>4. OfImage(medium, owner.name, fp')
  BY <1>1, <1>2, <1>3, OfImageKept
<1> QED
  BY <1>1, <1>3, <1>4, Fails

\* The fraction of a sector is the end of the image.
LEMMA FractionPartial ==
  ASSUME Mounting, NEW n, NEW f, OfImage(medium, n, f), NEW j, NEW k, Entering(medium, n, f, j, k),
         NEW btr \in Nat, btr > 0, btr < SectorSize, f.fptr + btr = f.fsize
  PROVE  Partial(medium, f.curr_sect)
<1> DEFINE F   == Files[medium][n]
           per == Layout(medium).sects_clust
           t   == (j - 1) * per
           i   == t + k + 1
           m   == SectorSize
<1>1. /\ j \in DOMAIN F.clusts /\ k \in 0 .. per - 1 /\ f.fptr = (t + k) * m
      /\ f.curr_sect = FirstSect(medium, F.clusts[j]) + k
  BY DEF Entering
<1>2. /\ n \in DOMAIN Files[medium] /\ f.fsize = F.size /\ f.fsize \in Nat
      /\ per \in Nat /\ per > 0 /\ Len(F.clusts) \in Nat /\ DOMAIN F.clusts = 1 .. Len(F.clusts)
      /\ F.sectors \in Seq(Nat) /\ Len(F.sectors) = Len(F.clusts) * per
  BY Chain
<1>3. F.sectors[t + k + 1] = FirstSect(medium, F.clusts[j]) + k
  BY <1>1, Chain
<1>4. j \in Nat /\ j > 0 /\ j <= Len(F.clusts)
  BY <1>1, <1>2
<1>5. t \in Nat /\ j * per = t + per
  <2> HIDE DEF per
  <2> QED
    BY <1>2, <1>4, RowAt DEF t
<1>6. j * per <= Len(F.clusts) * per /\ Len(F.clusts) * per \in Nat /\ k \in Nat /\ k < per
  <2> HIDE DEF per
  <2>1. j * per <= Len(F.clusts) * per /\ Len(F.clusts) * per \in Nat
    BY <1>2, <1>4, RowsGrow
  <2>2. k \in 0 .. per - 1
    BY <1>1 DEF per
  <2> QED
    BY <1>2, <2>1, <2>2
<1>7. i \in Nat /\ i > 0 /\ i <= Len(F.sectors)
  <2> DEFINE v == Len(F.clusts) * per
  <2>1. v \in Nat /\ t + per <= v /\ Len(F.sectors) = v
    BY <1>2, <1>5, <1>6
  <2> HIDE DEF v, t, per
  <2> QED
    BY <1>2, <1>5, <1>6, <2>1
<1> HIDE DEF t
<1>8. i \in DOMAIN F.sectors
  BY <1>2, <1>7
<1>9. i * m > F.size
  <2>1. m \in Nat /\ m > 0
    BY SizesAssumption
  <2> DEFINE q == t + k
  <2>2. q \in Nat /\ i = q + 1
    BY <1>5, <1>6
  <2> HIDE DEF q, i, m
  <2>3. (q + 1) * m = q * m + m /\ q * m \in Int
    BY <2>1, <2>2, SMT
  <2>4. f.fptr = q * m
    BY <1>1 DEF q
  <2>5. i * m = q * m + m
    BY <2>2, <2>3
  <2> QED
    BY <1>2, <2>1, <2>3, <2>4, <2>5 DEF m
<1> QED
  BY <1>1, <1>2, <1>3, <1>8, <1>9 DEF Partial

LEMMA TurnFraction ==
  ASSUME IInv, At("TRANSFER"), UNCHANGED <<medium, fs, owner, imagefile, named>>, cpu.btr > 0,
         cpu.btr < SectorSize, NEW f, SameFile(fp, f), f.fptr = fp.fptr,
         NEW j, NEW k, Entering(medium, owner.name, f, j, k), NEW w, Shows(w), Fraction(f, w)
  PROVE  /\ Shape' /\ Tracing' /\ Listings' /\ Moving' /\ Opening' /\ Chosen' /\ cpu'.at # "CHECK"
         /\ Shows(win') /\ UNCHANGED written
<1> DEFINE n   == owner.name
           btr == cpu.btr
           per == Layout(medium).sects_clust
<1>1. /\ Mount /\ Opening /\ Mounting /\ btr \in Nat
      /\ OfImage(medium, n, fp) /\ Sending(fp, btr)
  BY OneVars DEF At, Holding, Reading, Mounting, Mount, Opening, Moving, Shape
<1>2. fp.fsize \in Nat /\ fp.fptr \in Nat /\ fp.fptr <= fp.fsize /\ per \in Nat /\ per > 0
  BY <1>1, Chain
<1>3. SectorSize \in Nat /\ SectorSize > 0
  BY SizesAssumption
<1>4. fp.fptr % SectorSize = 0 /\ fp.fptr + btr = fp.fsize
  <2>1. 0 * SectorSize <= btr /\ btr < (0 + 1) * SectorSize
    BY <1>1, <1>3
  <2>2. btr % SectorSize = btr - (0 * SectorSize)
    BY <1>1, <1>3, <2>1, DivIs
  <2>3. btr % SectorSize # 0
    BY <1>1, <1>3, <2>2
  <2> QED
    BY <1>1, <2>3 DEF Sending
<1>5. OfImage(medium, n, f)
  BY <1>1, <1>2, OfImageKept DEF SameFile
<1>6. Partial(medium, f.curr_sect)
  BY <1>1, <1>4, <1>5, FractionPartial DEF SameFile
<1>7. PICK m \in MoveWindow(w, f.curr_sect) :
        /\ win' = m.win /\ UNCHANGED written
        /\ IF ~m.ok THEN Break(f)
           ELSE LET off == f.fptr % SectorSize
                IN Forth(f, IF SectorSize - off > btr THEN btr ELSE SectorSize - off)
  BY DEF Fraction
<1>8. Shows(m.win) /\ m.ok \in BOOLEAN
  BY <1>1, <1>6, MoveWindowShows
<1>9. CASE ~m.ok
  BY <1>7, <1>8, <1>9, Breaks
<1>10. CASE m.ok
  <2>1. SectorSize - 0 > btr
    BY <1>1, <1>3
  <2>2. Forth(f, btr)
    BY <1>4, <1>7, <1>10, <2>1
  <2>3. fp' = [f EXCEPT !.fptr = @ + btr] /\ cpu' = [cpu EXCEPT !.btr = @ - btr]
    BY <2>2 DEF Forth
  <2>4. Placed(medium, n, fp')
    <3> DEFINE q == (j - 1) * per + k
    <3>1. /\ j \in DOMAIN Files[medium][n].clusts /\ k \in 0 .. per - 1 /\ f.fptr = q * SectorSize
          /\ f.curr_clust = Files[medium][n].clusts[j] /\ f.sect_clust = per - k
          /\ f.curr_sect = FirstSect(medium, Files[medium][n].clusts[j]) + k
      BY DEF Entering
    <3>2. q \in Nat
      <4>1. DOMAIN Files[medium][n].clusts = 1 .. Len(Files[medium][n].clusts) /\ Len(Files[medium][n].clusts) \in Nat
        BY <1>1, Chain
      <4>2. j \in Nat /\ j > 0
        BY <3>1, <4>1
      <4>3. (j - 1) * per \in Nat
        <5> HIDE DEF per
        <5> QED
          BY <1>2, <4>2, RowAt
      <4>4. k \in Nat
        BY <3>1
      <4> QED
        BY <4>3, <4>4
    <3> HIDE DEF q
    <3>3. (q + 1) * SectorSize = q * SectorSize + SectorSize /\ q * SectorSize \in Nat
      BY <1>3, <3>2, SMT
    <3>4. /\ fp'.fptr = f.fptr + btr /\ fp'.curr_clust = f.curr_clust /\ fp'.sect_clust = f.sect_clust
          /\ fp'.curr_sect = f.curr_sect
      BY <2>3 DEF SameFile, IsFile
    <3>5. q * SectorSize < fp'.fptr /\ fp'.fptr <= (q + 1) * SectorSize
      <4> DEFINE a == q * SectorSize
      <4>1. a \in Nat /\ f.fptr = a /\ (q + 1) * SectorSize = a + SectorSize
        BY <3>1, <3>3
      <4> HIDE DEF a, btr
      <4>2. btr > 0 /\ btr < SectorSize
        BY DEF btr
      <4>3. a < fp'.fptr /\ fp'.fptr <= a + SectorSize
        BY <1>1, <1>3, <3>4, <4>1, <4>2
      <4> QED
        BY <4>1, <4>3 DEF a
    <3>6. In(medium, n, fp', j, k)
      BY <3>1, <3>4, <3>5 DEF In, q
    <3> QED
      BY <3>1, <3>6 DEF Placed
  <2>5. /\ Shape' /\ Tracing' /\ Listings' /\ Moving' /\ Opening' /\ Chosen' /\ cpu'.at # "CHECK"
    BY <1>1, <2>3, <2>4, Advances
  <2> QED
    BY <1>7, <1>8, <2>5
<1> QED
  BY <1>8, <1>9, <1>10

\* As many sectors as there are to move and in the cluster.
LEMMA CountFacts ==
  ASSUME NEW btr \in Nat, btr >= SectorSize, NEW left \in Nat, left > 0
  PROVE  LET whole == btr \div SectorSize  cc == IF whole > left THEN left ELSE whole IN
         /\ cc \in Nat /\ cc > 0 /\ cc <= left /\ cc * SectorSize <= btr
         /\ (cc * SectorSize) % SectorSize = 0 /\ cc * SectorSize \in Nat
<1> DEFINE m == SectorSize
           whole == btr \div m
           cc == IF whole > left THEN left ELSE whole
<1>1. m \in Nat /\ m > 0 /\ btr >= m
  BY SizesAssumption
<1>2. btr = (m * whole) + (btr % m) /\ whole \in Int /\ btr % m \in 0 .. m - 1
  BY <1>1, DivMod, ModRange
<1>3. m * whole = whole * m
  <2> HIDE DEF whole, m
  <2> QED
    BY <1>1, <1>2, SMT
<1> HIDE DEF whole, m
<1>4. whole > 0
  <2> SUFFICES ASSUME whole <= 0 PROVE FALSE
    BY <1>2
  <2>1. whole * m <= 0
    BY <1>1, <1>2, SMT
  <2>2. whole * m \in Int
    BY <1>1, <1>2
  <2> QED
    BY <1>1, <1>2, <1>3, <2>1, <2>2
<1>5. cc \in Nat /\ cc > 0 /\ cc <= left /\ cc <= whole
  BY <1>2, <1>4
<1> HIDE DEF cc
<1>6. cc * m <= whole * m /\ cc * m \in Nat /\ whole * m \in Nat
  BY <1>1, <1>2, <1>4, <1>5, RowsGrow
<1>7. cc * m <= btr
  BY <1>2, <1>3, <1>6
<1>8. (cc * m) % m = 0
  BY <1>5, MultipleIs DEF m
<1> QED
  BY <1>5, <1>6, <1>7, <1>8 DEF cc, whole, m

\* When they were moved, the file object stands behind the last of them.
LEMMA Jumps ==
  ASSUME Mounting, NEW n, NEW f, OfImage(medium, n, f), NEW j, NEW k, Entering(medium, n, f, j, k),
         NEW cc \in Nat, cc > 0, k + cc <= Layout(medium).sects_clust,
         NEW g, SameFile(f, g), g.fptr = f.fptr + (cc * SectorSize), g.curr_clust = f.curr_clust,
         g.sect_clust = f.sect_clust - (cc - 1), g.curr_sect = f.curr_sect + (cc - 1)
  PROVE  Placed(medium, n, g)
<1> DEFINE F   == Files[medium][n]
           per == Layout(medium).sects_clust
           t   == (j - 1) * per
           h   == k + (cc - 1)
           m   == SectorSize
           last == t + h
<1>1. /\ j \in DOMAIN F.clusts /\ k \in 0 .. per - 1 /\ f.fptr = (t + k) * m
      /\ f.curr_clust = F.clusts[j] /\ f.sect_clust = per - k
      /\ f.curr_sect = FirstSect(medium, F.clusts[j]) + k
  BY DEF Entering
<1>2. /\ per \in Nat /\ per > 0 /\ F.clusts[j] \in Clusters(medium)
      /\ Len(F.clusts) \in Nat /\ DOMAIN F.clusts = 1 .. Len(F.clusts)
  BY <1>1, Chain
<1>3. FirstSect(medium, F.clusts[j]) \in Nat
  BY <1>2, ClusterSects, MountFacts
<1>4. t \in Nat
  <2>1. j \in Nat /\ j > 0
    BY <1>1, <1>2
  <2> HIDE DEF per
  <2> QED
    BY <1>2, <2>1, RowAt DEF t
<1>5. k \in Nat /\ k + cc <= per
  BY <1>1, <1>2
<1> HIDE DEF t, per
<1>6. /\ h \in 0 .. per - 1 /\ g.sect_clust = per - h
      /\ g.curr_sect = FirstSect(medium, F.clusts[j]) + h
  BY <1>1, <1>2, <1>3, <1>5
<1>7. last * m < g.fptr /\ g.fptr <= (last + 1) * m
  <2> DEFINE q == t + k
             a == q * m
             b == cc * m
             d == (cc - 1) * m
  <2>1. m \in Nat /\ m > 0 /\ q \in Nat /\ cc - 1 \in Nat
    BY <1>4, <1>5, SizesAssumption
  <2>2. last = q + (cc - 1) /\ last + 1 = q + cc
    BY <1>4, <1>5
  <2> HIDE DEF q, last, m
  <2>3. a \in Nat /\ b \in Nat /\ d \in Nat /\ b = d + m
    BY <2>1, SMT
  <2>4. (q + (cc - 1)) * m = a + d /\ (q + cc) * m = a + b
    BY <2>1, SMT
  <2>5. g.fptr = a + b
    BY <1>1 DEF q, m
  <2>6. last * m = a + d /\ (last + 1) * m = a + b
    BY <2>2, <2>4
  <2> HIDE DEF a, b, d
  <2> QED
    BY <2>1, <2>3, <2>5, <2>6
<1>8. In(medium, n, g, j, h)
  BY <1>1, <1>6, <1>7 DEF In, t, per, m
<1> QED
  BY <1>1, <1>6, <1>8 DEF Placed, per

\* Whole sectors are moved past the window.
LEMMA TurnDirect ==
  ASSUME IInv, At("TRANSFER"), UNCHANGED <<medium, fs, owner, imagefile, named>>,
         cpu.btr >= SectorSize, NEW f, SameFile(fp, f), f.fptr = fp.fptr,
         NEW j, NEW k, Entering(medium, owner.name, f, j, k),
         NEW cc, cc = (IF cpu.btr \div SectorSize > f.sect_clust THEN f.sect_clust
                       ELSE cpu.btr \div SectorSize),
         Direct(f, f.curr_sect, cc), Shows(win')
  PROVE  /\ Shape' /\ Tracing' /\ Listings' /\ Moving' /\ Opening' /\ Chosen' /\ cpu'.at # "CHECK"
         /\ Written' /\ Window' /\ OwnStep
<1> DEFINE n   == owner.name
           btr == cpu.btr
           per == Layout(medium).sects_clust
           F   == Files[medium][n]
           s   == f.curr_sect
           g   == [f EXCEPT !.sect_clust = @ - (cc - 1), !.curr_sect = @ + (cc - 1)]
           Rest == /\ Shape' /\ Tracing' /\ Listings' /\ Moving' /\ Opening' /\ Chosen'
                   /\ cpu'.at # "CHECK"
           Stays == Written' /\ Window' /\ OwnStep
<1>1. /\ Mount /\ Opening /\ Mounting /\ Written /\ btr \in Nat /\ owner.card = medium
      /\ OfImage(medium, n, fp) /\ Sending(fp, btr)
  BY OneVars DEF At, Holding, Reading, Mounting, Mount, Opening, Moving, Shape
<1>2. /\ n \in DOMAIN Files[medium] /\ fp.fsize \in Nat /\ fp.fptr \in Nat /\ fp.fptr <= fp.fsize
      /\ per \in Nat /\ per > 0
  BY <1>1, Chain
<1>3. OfImage(medium, n, f) /\ f.fsize = fp.fsize
  BY <1>1, <1>2, OfImageKept DEF SameFile
<1>4. /\ j \in DOMAIN F.clusts /\ k \in 0 .. per - 1 /\ f.sect_clust = per - k
      /\ s = FirstSect(medium, F.clusts[j]) + k
  BY DEF Entering
<1>5. FirstSect(medium, F.clusts[j]) \in Nat
  <2>1. F.clusts[j] \in Clusters(medium)
    BY <1>1, <1>4, Chain
  <2> QED
    BY <1>1, <2>1, ClusterSects, MountFacts
<1>6. /\ k \in Nat /\ s \in Nat /\ f.sect_clust \in Nat /\ f.sect_clust > 0
  <2>1. k \in Nat /\ k <= per - 1
    BY <1>2, <1>4
  <2> HIDE DEF per
  <2> QED
    BY <1>2, <1>4, <1>5, <2>1
<1>7. /\ cc \in Nat /\ cc > 0 /\ cc <= f.sect_clust /\ cc * SectorSize <= btr
      /\ (cc * SectorSize) % SectorSize = 0 /\ cc * SectorSize \in Nat
  BY <1>1, <1>6, CountFacts
<1>8. k + cc <= per
  BY <1>2, <1>4, <1>6, <1>7
<1>9. f.fptr + cc * SectorSize <= f.fsize
  <2> DEFINE b == cc * SectorSize
  <2>1. b \in Nat /\ b <= btr
    BY <1>7
  <2>2. fp.fptr + btr <= fp.fsize
    BY <1>1 DEF Sending
  <2> HIDE DEF b, btr
  <2>3. f.fptr + b <= f.fsize
    BY <1>1, <1>2, <1>3, <2>1, <2>2
  <2> QED
    BY <2>3 DEF b
<1>10. \A x \in s .. s + cc - 1 : \E i \in DOMAIN F.sectors : F.sectors[i] = x /\ i * SectorSize <= F.size
  BY <1>1, <1>3, <1>7, <1>8, <1>9, Moved
<1>11. UNCHANGED written => Stays
  BY <1>1, OwnKept, WrittenKept, WindowKept
<1>12. ASSUME NEW num \in 1 .. cc, Alive, written' = Store(s, num)
       PROVE  Stays
  <2>1. num \in Nat /\ \A x \in s .. s + num - 1 : x \in s .. s + cc - 1
    BY <1>6, <1>7
  <2>2. \A x \in s .. s + num - 1 : \E i \in DOMAIN F.sectors : F.sectors[i] = x /\ i * SectorSize <= F.size
    BY <1>10, <2>1
  <2> QED
    BY <1>1, <1>2, <1>6, <1>12, <2>1, <2>2, Stores
<1>13. CASE /\ Alive /\ Forth(g, cc * SectorSize)
            /\ written' = Store(s, cc) \/ UNCHANGED written
  <2> DEFINE b == cc * SectorSize
  <2>1. fp' = [g EXCEPT !.fptr = @ + b] /\ cpu' = [cpu EXCEPT !.btr = @ - b]
    BY <1>13 DEF Forth
  <2>2. SameFile(fp, g) /\ g.fptr = fp.fptr
    BY DEF SameFile, IsFile
  <2>3. /\ SameFile(f, fp') /\ fp'.fptr = f.fptr + (cc * SectorSize) /\ fp'.curr_clust = f.curr_clust
        /\ fp'.sect_clust = f.sect_clust - (cc - 1) /\ fp'.curr_sect = f.curr_sect + (cc - 1)
    BY <2>1 DEF SameFile, IsFile
  <2>4. Placed(medium, n, fp')
    BY <1>1, <1>3, <1>7, <1>8, <2>3, Jumps
  <2>5. btr > 0
    BY <1>1, SizesAssumption
  <2>6. Rest
    <3>1. b \in Nat /\ b <= btr /\ b % SectorSize = 0
      BY <1>7
    <3> HIDE DEF b, g
    <3> QED
      BY <2>1, <2>2, <2>4, <2>5, <3>1, Advances
  <2>7. Stays
    BY <1>7, <1>11, <1>12, <1>13
  <2> QED
    BY <2>6, <2>7
<1>14. CASE /\ Break(f)
            /\ UNCHANGED written \/ (Alive /\ \E num \in 1 .. cc : written' = Store(s, num))
  <2>1. Rest
    BY <1>14, Breaks
  <2>2. Stays
    BY <1>11, <1>12, <1>14
  <2> QED
    BY <2>1, <2>2
<1>15. \/ /\ Alive /\ Forth(g, cc * SectorSize)
          /\ written' = Store(s, cc) \/ UNCHANGED written
       \/ /\ Break(f)
          /\ UNCHANGED written \/ (Alive /\ \E num \in 1 .. cc : written' = Store(s, num))
  <2>1. \/ /\ Alive /\ Forth(g, cc * SectorSize)
           /\ IF request.op = "WRITE" THEN written' = Store(s, cc) ELSE UNCHANGED written
        \/ /\ Break(f)
           /\ \/ UNCHANGED written
              \/ /\ Alive
                 /\ \E num \in 1 .. cc :
                      IF request.op = "WRITE" THEN written' = Store(s, num) ELSE UNCHANGED written
    BY DEF Direct
  <2> QED
    BY <2>1
<1> QED
  BY <1>13, <1>14, <1>15

\* One turn of the loop.
LEMMA TurnKeeps == IInv /\ Turn => IInv' /\ OwnStep
<1> SUFFICES ASSUME IInv, Turn PROVE IInv' /\ OwnStep
  OBVIOUS
<1> DEFINE n    == owner.name
           Rest == /\ Shape' /\ Tracing' /\ Listings' /\ Moving' /\ Opening' /\ Chosen'
                   /\ cpu'.at # "CHECK"
           Stays == Written' /\ Window' /\ OwnStep
           Count(f) == IF cpu.btr \div SectorSize > f.sect_clust THEN f.sect_clust
                       ELSE cpu.btr \div SectorSize
<1>1. /\ At("TRANSFER") /\ cpu.btr > 0 /\ UNCHANGED <<medium, fs, owner, imagefile, named>>
      /\ UNCHANGED <<slot, awake, noinit>>
  BY DEF Turn, choice, card
<1>2. /\ Mount /\ Opening /\ Mounting /\ Written /\ Window /\ cpu.btr \in Nat /\ ~noinit
      /\ OfImage(medium, n, fp) /\ Placed(medium, n, fp) /\ Sending(fp, cpu.btr)
  BY <1>1, OneVars DEF At, Holding, Reading, Mounting, Mount, Opening, Moving, Shape
<1>3. fp.fptr % SectorSize = 0
  BY <1>1, <1>2 DEF Sending
<1>4. Shows(win)
  BY <1>2, WindowShows
<1>5. SectorSize \in Nat
  BY SizesAssumption
<1>6. PICK x \in NextSector(win) :
        IF ~x.ok THEN Break(x.fp) /\ win' = x.win /\ UNCHANGED written
        ELSE IF cpu.btr < SectorSize THEN Fraction(x.fp, x.win)
        ELSE /\ win' = x.win
             /\ Direct(x.fp, x.fp.curr_sect, Count(x.fp))
  BY <1>3 DEF Turn
<1>7. /\ Shows(x.win) /\ x.ok \in BOOLEAN /\ SameFile(fp, x.fp) /\ x.fp.fptr = fp.fptr
      /\ x.ok => \E j, k : Entering(medium, n, x.fp, j, k)
  BY <1>2, <1>3, <1>4, NextSectorIs
<1>8. UNCHANGED written /\ Shows(win') => Stays
  BY <1>1, <1>2, OwnKept, WrittenKept, WindowKept
<1>9. CASE ~x.ok
  <2>1. Break(x.fp) /\ Shows(win') /\ UNCHANGED written
    BY <1>6, <1>7, <1>9
  <2>2. Rest
    BY <1>1, <1>7, <2>1, Breaks
  <2> QED
    BY <1>1, <1>2, <1>8, <2>1, <2>2, MountRead DEF IInv
<1>10. CASE x.ok /\ cpu.btr < SectorSize
  <2>1. Fraction(x.fp, x.win)
    BY <1>6, <1>10
  <2>2. PICK j, k : Entering(medium, n, x.fp, j, k)
    BY <1>7, <1>10
  <2>3. Rest /\ Shows(win') /\ UNCHANGED written
    BY <1>1, <1>7, <1>10, <2>1, <2>2, TurnFraction
  <2> QED
    BY <1>1, <1>2, <1>8, <2>3, MountRead DEF IInv
<1>11. CASE x.ok /\ ~(cpu.btr < SectorSize)
  <2>1. Shows(win') /\ Direct(x.fp, x.fp.curr_sect, Count(x.fp))
    BY <1>6, <1>7, <1>11
  <2>2. PICK j, k : Entering(medium, n, x.fp, j, k)
    BY <1>7, <1>11
  <2>3. cpu.btr >= SectorSize
    BY <1>2, <1>5, <1>11
  <2>4. Rest /\ Stays
    BY <1>1, <1>7, <2>1, <2>2, <2>3, TurnDirect
  <2> QED
    BY <1>1, <1>2, <2>4, MountRead DEF IInv
<1> QED
  BY <1>7, <1>9, <1>10, <1>11

-----------------------------------------------------------------------------
(* The invariant holds, and what follows from it. *)

LEMMA InitHolds == Init => IInv
<1> SUFFICES ASSUME Init PROVE IInv
  OBVIOUS
<1>1. /\ slot \in Cards /\ awake = FALSE /\ noinit = TRUE /\ written = [c \in Cards |-> <<>>]
      /\ fs = NoFs /\ win = NoWindow /\ cpu = Resting /\ imagefile = NoName /\ named = NoCard
      /\ owner = NoOne
  BY DEF Init
<1>2. cpu.at = "START" /\ cpu.why = "thrall" /\ cpu.ofs = 0 /\ cpu.btr = 0 /\ cpu.cut = FALSE
  BY <1>1 DEF Resting
<1>3. Shape
  BY <1>1 DEF Shape, Resting, At
<1>4. ~Holding
  BY <1>2 DEF Holding, Reading
<1>5. Mount
  BY <1>1, <1>2, <1>4 DEF Mount, NoFs, At
<1>6. Window
  BY <1>1 DEF Window, WindowTrue, NoWindow
<1>7. Written
  BY <1>1 DEF Written
<1>8. Tracing /\ Listings /\ Moving /\ OpenListed
  BY <1>2 DEF Tracing, Listings, ListsAll, Moving, OpenListed, At
<1>9. Chosen
  <2>1. named \notin Cards
    BY <1>1, NoCardAssumption
  <2> QED
    BY <1>1, <1>8, <2>1 DEF Chosen, Names
<1>10. Opening
  BY <1>1, <1>4 DEF Opening
<1> QED
  BY <1>3, <1>5, <1>6, <1>7, <1>8, <1>9, <1>10 DEF IInv

LEMMA StepKeeps == IInv /\ [Next]_vars => IInv'
<1> SUFFICES ASSUME IInv, [Next]_vars PROVE IInv'
  OBVIOUS
<1>1. CASE UNCHANGED vars
  <2>1. UNCHANGED <<noinit, written, fs, win, fp, dir, cpu, choice, request, medium, owner, slot, awake>>
    BY <1>1 DEF vars, fsvars, card, floppy, choice
  <2>2. slot \in Cards \union {NoCard}
    BY OneVars DEF Mount
  <2> QED
    BY <2>1, <2>2, CardMoved DEF Alive
<1>2. CASE PhilesMount \/ StillMounted \/ Remount \/ FindVolume
  BY <1>2, PhilesMountKeeps, StillMountedKeeps, RemountKeeps, FindVolumeKeeps
<1>3. CASE Trace \/ BadName \/ Refused \/ NextFile \/ Close
  BY <1>3, TraceKeeps, BadNameKeeps, RefusedKeeps, NextFileKeeps, CloseKeeps
<1>4. CASE NoSd \/ LSeek \/ Follow \/ Turn \/ Done \/ Acked
  BY <1>4, NoSdKeeps, LSeekKeeps, FollowKeeps, TurnKeeps, DoneKeeps, AckedKeeps
<1>5. CASE Browse \/ Pick \/ Ask \/ Swap \/ Wobble
  BY <1>5, BrowseKeeps, PickKeeps, AskKeeps, SwapKeeps, WobbleKeeps
<1> QED
  BY <1>1, <1>2, <1>3, <1>4, <1>5 DEF Next, Work

\* Only Turn writes to a card.
LEMMA StepOwn == IInv /\ [Next]_vars => OwnStep
<1> SUFFICES ASSUME IInv, [Next]_vars PROVE OwnStep
  OBVIOUS
<1>1. CASE UNCHANGED vars
  BY <1>1, OwnKept DEF vars, fsvars
<1>2. CASE PhilesMount \/ StillMounted \/ Remount \/ FindVolume
  BY <1>2, OwnKept DEF PhilesMount, StillMounted, Remount, FindVolume, fsvars
<1>3. CASE Trace \/ BadName \/ Refused \/ NextFile \/ Close
  BY <1>3, OwnKept DEF Trace, BadName, Refused, NextFile, Close, fsvars
<1>4. CASE NoSd \/ LSeek \/ Follow \/ Done \/ Acked
  BY <1>4, OwnKept DEF NoSd, LSeek, Follow, Done, Acked, fsvars
<1>5. CASE Browse \/ Pick \/ Ask \/ Swap \/ Wobble
  BY <1>5, OwnKept DEF Browse, Pick, Ask, Swap, Wobble, fsvars
<1>6. CASE Turn
  BY <1>6, TurnKeeps
<1> QED
  BY <1>1, <1>2, <1>3, <1>4, <1>5, <1>6 DEF Next, Work

\* A remainder of a place in a row.
LEMMA Column ==
  ASSUME NEW j \in Nat, j > 0, NEW per \in Nat, per > 0, NEW k \in 0 .. per - 1
  PROVE  (((j - 1) * per) + k) % per = k
<1> DEFINE a == (j - 1) * per
           x == a + k
<1>1. a \in Nat /\ j * per = a + per
  BY RowAt
<1>2. x \in Int /\ j - 1 \in Int /\ (j - 1) * per <= x /\ x < ((j - 1) + 1) * per
  <2>1. (j - 1) + 1 = j /\ k \in Nat /\ k < per
    OBVIOUS
  <2>2. a <= x /\ x < a + per /\ x \in Int
    <3> HIDE DEF a
    <3> QED
      BY <1>1, <2>1
  <2> QED
    BY <1>1, <2>1, <2>2
<1>3. x % per = x - ((j - 1) * per)
  <2> HIDE DEF x
  <2> QED
    BY <1>2, DivIs
<1>4. x - a = k
  <2> HIDE DEF a
  <2> QED
    BY <1>1
<1> QED
  BY <1>3, <1>4

\* The sector that the last byte moved was in.
LEMMA LastSector ==
  ASSUME NEW last \in Nat, NEW x \in Nat, last * SectorSize < x, x <= (last + 1) * SectorSize
  PROVE  (x - 1) \div SectorSize = last
<1>1. SectorSize \in Nat /\ last * SectorSize \in Nat /\ (last + 1) * SectorSize \in Nat
  BY SizesAssumption
<1> DEFINE a == last * SectorSize
           b == (last + 1) * SectorSize
<1>2. a \in Nat /\ b \in Nat /\ a < x /\ x <= b
  BY <1>1
<1>3. x - 1 \in Int /\ a <= x - 1 /\ x - 1 < b
  <2> HIDE DEF a, b
  <2> QED
    BY <1>2
<1> QED
  BY <1>1, <1>3, DivIs

LEMMA Coherent == IInv => FilCoherent
<1> DEFINE n    == owner.name
           F    == Files[medium][n]
           per  == Layout(medium).sects_clust
           own  == Files[owner.card][n].sectors
           last == (fp.fptr - 1) \div SectorSize
<1> SUFFICES ASSUME IInv, cpu.at \in {"TRANSFER", "SERVE"}, owner # NoOne, fp.fptr > 0, ~fp.err
             PROVE  /\ last < Len(own)
                    /\ fp.sect_clust = fs.sects_clust - (last % fs.sects_clust)
                    /\ fp.sect_clust > 1 => fp.curr_sect = own[last + 1]
                    /\ Clust2Sect(fp.curr_clust) = own[last - (last % fs.sects_clust) + 1]
  BY DEF FilCoherent
<1>1. /\ Mount /\ Opening /\ Mounting /\ owner.card = medium /\ OfImage(medium, n, fp)
      /\ Placed(medium, n, fp)
  BY OneVars DEF At, Holding, Reading, Mounting, Mount, Opening
<1>2. PICK j \in DOMAIN F.clusts : \E k \in 0 .. per - 1 : In(medium, n, fp, j, k)
  BY <1>1 DEF Placed
<1>3. PICK k \in 0 .. per - 1 : In(medium, n, fp, j, k)
  BY <1>2
<1> DEFINE t == (j - 1) * per
           q == t + k
<1>4. /\ q * SectorSize < fp.fptr /\ fp.fptr <= (q + 1) * SectorSize
      /\ fp.curr_clust = F.clusts[j] /\ fp.sect_clust = per - k
      /\ fp.sect_clust > 1 => fp.curr_sect = FirstSect(medium, F.clusts[j]) + k
  BY <1>3 DEF In
<1>5. /\ fp.fptr \in Nat /\ per \in Nat /\ per > 0 /\ fs.sects_clust = per
      /\ Len(F.clusts) \in Nat /\ DOMAIN F.clusts = 1 .. Len(F.clusts)
      /\ F.sectors \in Seq(Nat) /\ Len(F.sectors) = Len(F.clusts) * per
      /\ F.clusts[j] \in Clusters(medium)
  BY <1>1, Chain
<1>6. \A z \in 0 .. per - 1 : F.sectors[(j - 1) * per + z + 1] = FirstSect(medium, F.clusts[j]) + z
  <2>1. Mounting /\ OfImage(medium, n, fp)
    BY <1>1
  <2>2. \A h \in DOMAIN F.clusts : \A z \in 0 .. per - 1 :
          F.sectors[(h - 1) * per + z + 1] = FirstSect(medium, F.clusts[h]) + z
    BY <2>1, Chain, ZenonT(40)
  <2> QED
    BY <2>2
<1>7. /\ FirstSect(medium, F.clusts[j]) \in Nat
      /\ Clust2Sect(fp.curr_clust) = FirstSect(medium, F.clusts[j])
  <2>1. Mounting /\ F.clusts[j] \in Clusters(medium) /\ fp.curr_clust = F.clusts[j]
    BY <1>1, <1>4, <1>5
  <2>2. FirstSect(medium, F.clusts[j]) \in Nat
    BY <2>1, ClusterSects, MountFacts
  <2>3. Clust2Sect(F.clusts[j]) = FirstSect(medium, F.clusts[j])
    <3>1. F.clusts[j] \in Int
      BY <2>1 DEF Clusters
    <3> QED
      BY <2>1, <3>1, LinkFacts
  <2> QED
    BY <2>1, <2>2, <2>3
<1>8. j \in Nat /\ j > 0 /\ j <= Len(F.clusts) /\ k \in Nat /\ k < per
  BY <1>5
<1>9. t \in Nat /\ j * per = t + per /\ q % per = k
  <2>1. k \in 0 .. per - 1
    OBVIOUS
  <2> HIDE DEF per
  <2> QED
    BY <1>5, <1>8, <2>1, RowAt, Column DEF t, q
<1>10. q < Len(F.sectors)
  <2> DEFINE v == Len(F.clusts) * per
             u == j * per
  <2>1. u <= v /\ v \in Nat /\ u \in Nat
    <3> HIDE DEF per
    <3> QED
      BY <1>5, <1>8, RowsGrow
  <2>2. Len(F.sectors) = v /\ u = t + per
    BY <1>5, <1>9
  <2>3. t \in Nat /\ k \in Nat /\ k < per /\ per \in Nat /\ Len(F.sectors) \in Nat
    <3>1. t \in Nat
      BY <1>9
    <3>2. k \in Nat /\ k < per
      BY <1>8
    <3>3. per \in Nat /\ F.sectors \in Seq(Nat)
      BY <1>5
    <3> HIDE DEF t, per
    <3> QED
      BY <3>1, <3>2, <3>3
  <2> HIDE DEF v, u, t, per
  <2>4. t + k < t + per /\ t + per <= Len(F.sectors)
    BY <2>1, <2>2, <2>3
  <2> QED
    BY <2>3, <2>4
<1>11. last = q
  <2>1. q \in Nat
    BY <1>8, <1>9
  <2> HIDE DEF q
  <2> QED
    BY <1>4, <1>5, <2>1, LastSector
<1>12. q - k + 1 = t + 0 + 1
  <2> HIDE DEF t
  <2> QED
    BY <1>8, <1>9
<1>13. F.sectors[q + 1] = FirstSect(medium, F.clusts[j]) + k
  BY <1>6 DEF q, t
<1>14. F.sectors[t + 0 + 1] = FirstSect(medium, F.clusts[j])
  <2>1. 0 \in 0 .. per - 1
    BY <1>5
  <2>2. F.sectors[t + 0 + 1] = FirstSect(medium, F.clusts[j]) + 0
    BY <1>6, <2>1
  <2> QED
    BY <1>7, <2>2
<1> HIDE DEF last, t, q, per
<1>15. last % per = k /\ last + 1 = q + 1 /\ last - k + 1 = t + 0 + 1
  BY <1>9, <1>11, <1>12
<1> QED
  BY <1>1, <1>4, <1>5, <1>7, <1>10, <1>11, <1>13, <1>14, <1>15 DEF last

-----------------------------------------------------------------------------
\* The invariant holds of every run with sound cards.
LEMMA AlwaysIInv == Spec => []IInv
<1>1. Init => IInv
  BY InitHolds
<1>2. IInv /\ [Next]_vars => IInv'
  BY StepKeeps
<1> QED
  BY <1>1, <1>2, PTL DEF Spec

\* The window of tff.c always holds the sector that it is labelled with, on
\* the card that is mounted: through failed reads and swapped cards, and
\* although files are written past it.
THEOREM WindowTrueCorrect == Spec => []WindowTrue
<1>1. IInv => WindowTrue
  BY DEF IInv, Window
<1> QED
  BY <1>1, AlwaysIInv, PTL

\* The file object of the image, whenever a request may use it, stands where
\* the chain of clusters says.
THEOREM FilCoherentCorrect == Spec => []FilCoherent
  BY Coherent, AlwaysIInv, PTL

\* A name that the directory of the card showed is not refused on that card,
\* unless the card fails.
THEOREM OpenListedCorrect == Spec => []OpenListed
<1>1. IInv => OpenListed
  BY DEF IInv, Chosen
<1> QED
  BY <1>1, AlwaysIInv, PTL

\* The menu lists all the images of the directory and nothing else, unless an
\* error cut the listing short.
THEOREM ListsAllCorrect == Spec => []ListsAll
<1>1. IInv => ListsAll
  BY DEF IInv, Listings
<1> QED
  BY <1>1, AlwaysIInv, PTL

\* Whatever is requested, and whichever cards are put in, only the sectors of
\* the image that is open are ever written.
THEOREM OnlyOwnSectorsCorrect == Spec => OnlyOwnSectors
<1>1. IInv /\ [Next]_vars => [OwnStep]_vars
  BY StepOwn
<1>2. Spec => [][OwnStep]_vars
  BY <1>1, AlwaysIInv, PTL DEF Spec
<1> QED
  BY <1>2 DEF OnlyOwnSectors

-----------------------------------------------------------------------------
(* Between two cards the emulator gets the array of blocks it expects,     *)
(* whatever fails on the way: first the image.                             *)

\* What fits into a number of sectors.
LEMMA Fits ==
  ASSUME NEW a \in Nat, NEW q \in Nat
  PROVE  a \div SectorSize \in Nat /\ (q <= a \div SectorSize <=> q * SectorSize <= a)
<1> DEFINE m == SectorSize
           d == a \div m
           r == a % m
<1>1. m \in Nat /\ m > 0
  BY SizesAssumption
<1>2. a = (m * d) + r /\ r \in 0 .. m - 1 /\ d \in Int /\ d \in Nat
  BY <1>1, DivMod, DivGrows
<1> HIDE DEF d, r, m
<1>3. m * d = d * m /\ d * m \in Nat /\ q * m \in Nat
  BY <1>1, <1>2, SMT
<1>4. q <= d => q * m <= d * m
  BY <1>1, <1>2, RowsGrow
<1>5. d + 1 <= q => (d + 1) * m <= q * m
  BY <1>1, <1>2, RowsGrow
<1>6. (d + 1) * m = (d * m) + m
  BY <1>1, <1>2, SMT
<1>7. q <= d <=> q * m <= a
  BY <1>1, <1>2, <1>3, <1>4, <1>5, <1>6
<1> QED
  BY <1>2, <1>7 DEF d, m

\* The blocks of an image: the whole sectors that it has.
LEMMA InWhole ==
  ASSUME NEW c, NEW n, Files[c][n].size \in Nat, Len(Files[c][n].sectors) \in Nat, NEW i \in Int
  PROVE  i \in 0 .. Whole(c, n) - 1 <=>
           i >= 0 /\ i < Len(Files[c][n].sectors) /\ (i + 1) * SectorSize <= Files[c][n].size
<1> DEFINE k == Files[c][n].size \div SectorSize
           l == Len(Files[c][n].sectors)
<1>1. k \in Nat /\ (i >= 0 => (i + 1 <= k <=> (i + 1) * SectorSize <= Files[c][n].size))
  <2> DEFINE a == Files[c][n].size
  <2>1. a \in Nat
    OBVIOUS
  <2> HIDE DEF a
  <2>2. a \div SectorSize \in Nat
    BY <2>1, 0 \in Nat, Fits
  <2>3. ASSUME i >= 0 PROVE i + 1 <= a \div SectorSize <=> (i + 1) * SectorSize <= a
    <3>1. i + 1 \in Nat
      BY <2>3
    <3> QED
      BY <2>1, <3>1, Fits, Zenon
  <2> QED
    BY <2>2, <2>3 DEF a
<1>2. Whole(c, n) = IF k < l THEN k ELSE l
  BY DEF Whole
<1> HIDE DEF k
<1>3. i \in 0 .. Whole(c, n) - 1 <=> i >= 0 /\ i < l /\ i + 1 <= k
  BY <1>1, <1>2
<1> QED
  BY <1>1, <1>3

\* The images of a sound card.
LEMMA ImageFacts ==
  ASSUME NEW c \in Cards, Formatted(c), NEW n \in DOMAIN Files[c]
  PROVE  LET F == Files[c][n] IN
         /\ F.size \in Nat /\ F.sectors \in Seq(Nat) /\ Len(F.sectors) \in Nat
         /\ DOMAIN F.sectors = 1 .. Len(F.sectors) /\ F.size + FddSize <= OffsetMod
         /\ \A i \in DOMAIN F.sectors : F.sectors[i] \in Own(c)
<1>1. PICK e \in Images(c) : Describes(c, Files[c][n], e)
  BY CardFacts DEF SoundFiles
<1>2. Files[c][n].size \in Nat /\ Files[c][n].sectors \in Seq(Nat)
  BY <1>1 DEF Describes
<1>3. Files[c][n].size + FddSize <= OffsetMod
  BY DriveAssumption
<1>4. \A i \in DOMAIN Files[c][n].sectors : Files[c][n].sectors[i] \in Own(c)
  BY DEF Own
<1> QED
  BY <1>2, <1>3, <1>4

\* What they hold is data, whatever was written to them.
Stored(w, c, s) == IF s \in DOMAIN w[c] THEN w[c][s] ELSE Volume[c][s]
Picture(w, c, n) == [i \in 0 .. Whole(c, n) - 1 |-> Stored(w, c, Files[c][n].sectors[i + 1])]

\* A sector of an image holds a block of data,
LEMMA StoredIs ==
  ASSUME NEW w, NEW c \in Cards, Formatted(c), \A s \in DOMAIN w[c] : w[c][s] \in Sector,
         NEW s \in Own(c)
  PROVE  Stored(w, c, s) \in Sector
  BY DriveAssumption DEF Stored

\* and an image is an array of them.
LEMMA Pictured ==
  ASSUME NEW w, NEW c \in Cards, Formatted(c), \A s \in DOMAIN w[c] : w[c][s] \in Sector,
         NEW n \in DOMAIN Files[c]
  PROVE  Picture(w, c, n) \in [0 .. Whole(c, n) - 1 -> Sector] /\ Picture(w, c, n) # NoImage
<1>1. ASSUME NEW i \in 0 .. Whole(c, n) - 1
      PROVE  Stored(w, c, Files[c][n].sectors[i + 1]) \in Sector
  <2>1. i \in Int
    OBVIOUS
  <2>2. i + 1 \in DOMAIN Files[c][n].sectors
    BY <1>1, <2>1, ImageFacts, InWhole
  <2> QED
    BY <2>2, ImageFacts, StoredIs
<1>2. Picture(w, c, n) \in [0 .. Whole(c, n) - 1 -> Sector]
  BY <1>1 DEF Picture
<1>3. NoImage \notin [0 .. Whole(c, n) - 1 -> Sector]
  BY DriveAssumption
<1> QED
  BY <1>2, <1>3

-----------------------------------------------------------------------------
(* The steps of Drive. *)

\* What the drive shows.
Shown == IF owner = NoOne THEN NoImage ELSE Picture(written, owner.card, owner.name)

Steps == Abstract!Next \/ UNCHANGED Abstract!vars

\* Most steps do not concern the drive.
LEMMA Stutters ==
  ASSUME UNCHANGED <<owner, written, request, buffer, answer>>
  PROVE  Steps
  BY DEF Steps, Abstract!vars, Contents

\* The image may change while nothing is asked.
LEMMA Changes ==
  ASSUME request = NoRequest, Shown # Shown', UNCHANGED <<request, buffer, answer>>
  PROVE  Steps
  BY DEF Steps, Abstract!Next, Abstract!Change, Shown, Picture, Stored, Contents

\* An image that is open.
LEMMA Held ==
  ASSUME IInv, Holding
  PROVE  /\ Mounting /\ ~noinit /\ medium \in Cards /\ Formatted(medium)
         /\ owner.card = medium /\ owner.name \in DOMAIN Files[medium] /\ owner # NoOne
         /\ OfImage(medium, owner.name, fp) /\ fp.id = fs.id
<1>1. Mounting /\ ~noinit /\ Opening
  BY OneVars DEF Mounting, Mount
<1>2. medium \in Cards /\ Formatted(medium)
  BY <1>1, MountFacts
<1>3. owner.card = medium /\ OfImage(medium, owner.name, fp) /\ fp.id = fs.id
  BY <1>1 DEF Opening
<1>4. owner # NoOne
  BY <1>2, <1>3, NoCardAssumption DEF NoOne
<1> QED
  BY <1>1, <1>2, <1>3, <1>4 DEF OfImage

\* What the drive shows of it.
LEMMA ShownHeld ==
  ASSUME IInv, Blocked, Holding
  PROVE  Shown = Picture(written, medium, owner.name) /\ Shown # NoImage
<1>1. \A s \in DOMAIN written[medium] : written[medium][s] \in Sector
  BY Held DEF Blocked
<1> QED
  BY <1>1, Held, Pictured DEF Shown

\* Where nothing is asked or answered, nothing becomes of it.
Silent(p) == p.at \notin {"SEEK", "FOLLOW", "TRANSFER", "ANSWERED", "FAILED"}

LEMMA SilentNow ==
  ASSUME Answering, Silent(cpu)
  PROVE  request = NoRequest /\ answer = "NONE"
  BY DEF Answering, Silent, Asked, At

LEMMA SilentNext ==
  ASSUME Silent(cpu'), request' = NoRequest, answer' = "NONE"
  PROVE  Answering' /\ Aiming'
  BY DEF Answering, Aiming, Silent, Asked, At

LEMMA BlockedKept ==
  ASSUME Blocked, UNCHANGED written, buffer' \in [Blocks -> Sector]
  PROVE  Blocked'
  BY DEF Blocked

\* A step that neither asks, answers nor moves anything.
LEMMA Quiet ==
  ASSUME DInv, Silent(cpu), Silent(cpu'), UNCHANGED <<owner, written, request, buffer, answer>>
  PROVE  DInv' /\ Steps
<1>1. Blocked /\ Answering /\ buffer \in [Blocks -> Sector]
  BY DEF DInv, Blocked
<1> QED
  BY <1>1, SilentNow, SilentNext, BlockedKept, Stutters DEF DInv

\* An image that is closed, or opened, changes it.
LEMMA Closes ==
  ASSUME IInv, DInv, Holding, Silent(cpu), Silent(cpu'), owner' = NoOne,
         UNCHANGED <<written, request, buffer, answer>>
  PROVE  DInv' /\ Steps
<1>1. Blocked /\ Answering /\ buffer \in [Blocks -> Sector]
  BY DEF DInv, Blocked
<1>2. Shown # Shown'
  BY <1>1, ShownHeld DEF Shown
<1> QED
  BY <1>1, <1>2, SilentNow, SilentNext, BlockedKept, Changes DEF DInv

\* One that is opened.
LEMMA Loads ==
  ASSUME IInv, DInv, IInv', Silent(cpu), Silent(cpu'), ~Holding, Holding',
         UNCHANGED <<written, request, buffer, answer>>
  PROVE  DInv' /\ Steps
<1>1. Blocked /\ Answering /\ buffer \in [Blocks -> Sector]
  BY DEF DInv, Blocked
<1>2. owner = NoOne
  BY OneVars DEF Opening
<1>3. /\ owner'.card \in Cards /\ Formatted(owner'.card) /\ owner' # NoOne
      /\ owner'.name \in DOMAIN Files[owner'.card]
  <2>1. Mount' /\ Opening'
    BY DEF IInv
  <2>2. fs'.type # 0 /\ medium' \in Cards /\ Formatted(medium')
    BY <2>1 DEF Mount
  <2>3. owner'.card = medium' /\ owner'.name \in DOMAIN Files[medium']
    BY <2>1 DEF Opening, OfImage
  <2>4. owner' # NoOne
    BY <2>2, <2>3, NoCardAssumption DEF NoOne
  <2> QED
    BY <2>2, <2>3, <2>4
<1>4. \A s \in DOMAIN written[owner'.card] : written[owner'.card][s] \in Sector
  BY <1>1, <1>3 DEF Blocked
<1>5. Picture(written, owner'.card, owner'.name) # NoImage
  BY <1>3, <1>4, Pictured
<1>6. Shown # Shown'
  BY <1>2, <1>3, <1>5 DEF Shown
<1> QED
  BY <1>1, <1>6, SilentNow, SilentNext, BlockedKept, Changes DEF DInv

-----------------------------------------------------------------------------
(* How far the request got. *)

\* Behind the end of the image there are no blocks.
LEMMA Past ==
  ASSUME IInv, Holding, request \in Request, NEW d \in Int,
         fp.fsize < (FirstBlock + d + 1) * SectorSize
  PROVE  \A k \in Int : k >= d => ~InImage(k)
<1>1. /\ owner.card = medium /\ medium \in Cards /\ Formatted(medium) /\ owner.name \in DOMAIN Files[medium]
      /\ fp.fsize = Files[medium][owner.name].size
  BY Held DEF OfImage
<1>2. /\ Files[medium][owner.name].size \in Nat /\ Len(Files[medium][owner.name].sectors) \in Nat
  BY <1>1, ImageFacts
<1>3. FirstBlock \in Int /\ SectorSize \in Nat
  BY SizesAssumption DEF Request, FirstBlock, Placing
<1> SUFFICES ASSUME NEW k \in Int, k >= d, InImage(k) PROVE FALSE
  OBVIOUS
<1> DEFINE i == FirstBlock + k
<1>4. i \in Int /\ i \in 0 .. Whole(medium, owner.name) - 1
  BY <1>1, <1>3 DEF InImage
<1>5. (i + 1) * SectorSize <= fp.fsize /\ i >= 0
  BY <1>1, <1>2, <1>4, InWhole
<1>6. FirstBlock + d + 1 \in Int /\ FirstBlock + d + 1 <= i + 1
  BY <1>3
<1> DEFINE a == FirstBlock + d + 1
           b == i + 1
<1>7. a * SectorSize <= b * SectorSize
  <2>1. a \in Int /\ b \in Int /\ a <= b
    BY <1>3, <1>4, <1>6
  <2> HIDE DEF a, b
  <2> QED
    BY <1>3, <2>1, SMT
<1>8. a * SectorSize \in Int /\ b * SectorSize \in Int
  <2>1. a \in Int /\ b \in Int
    BY <1>3, <1>4, <1>6
  <2> HIDE DEF a, b
  <2> QED
    BY <1>3, <2>1, SMT
<1>9. fp.fsize < a * SectorSize /\ b * SectorSize <= fp.fsize /\ fp.fsize \in Int
  BY <1>1, <1>2, <1>5
<1> HIDE DEF a, b, i
<1> QED
  BY <1>7, <1>8, <1>9

\* All is moved.
LEMMA Arrived ==
  ASSUME IInv, Holding, request \in Request, OnWay, cpu.btr = 0
  PROVE  NoMore
<1>1. FirstBlock \in Int /\ SectorSize \in Nat /\ SectorSize > 0 /\ request.done \in 0 .. 2
  BY SizesAssumption DEF Request, FirstBlock, Placing
<1>2. fp.fptr \in Nat /\ fp.fsize \in Nat
  BY Held, Chain
<1> DEFINE p == FirstBlock + request.done
           u == p * SectorSize
           v == (FirstBlock + 2) * SectorSize
<1>3. fp.fptr = u /\ (u = v \/ u = fp.fsize)
  BY <1>2 DEF OnWay
<1>4. CASE u = v
  <2>1. ~(request.done < 2)
    <3> SUFFICES ASSUME request.done < 2 PROVE FALSE
      OBVIOUS
    <3>1. p \in Int /\ p < FirstBlock + 2
      BY <1>1
    <3> HIDE DEF p
    <3>2. p * SectorSize < (FirstBlock + 2) * SectorSize
      BY <1>1, <3>1, SMT
    <3>3. p * SectorSize \in Int
      BY <1>1, <3>1, SMT
    <3> QED
      BY <1>4, <3>2, <3>3
  <2> QED
    BY <1>1, <2>1 DEF NoMore
<1>5. CASE u = fp.fsize
  <2>1. p \in Int
    BY <1>1
  <2>2. (p + 1) * SectorSize = u + SectorSize /\ u \in Int
    <3> HIDE DEF p
    <3> QED
      BY <1>1, <2>1, SMT
  <2>3. fp.fsize < (p + 1) * SectorSize
    <3> HIDE DEF u
    <3> QED
      BY <1>1, <1>5, <2>2
  <2>4. \A k \in Int : k >= request.done => ~InImage(k)
    <3>1. request.done \in Int /\ fp.fsize < (FirstBlock + request.done + 1) * SectorSize
      BY <1>1, <2>3
    <3> QED
      BY <3>1, Past, Zenon
  <2> QED
    BY <1>1, <2>4 DEF NoMore
<1> QED
  BY <1>3, <1>4, <1>5

-----------------------------------------------------------------------------
(* Opening an image, and closing it. *)

LEMMA CutIs == IInv => cpu.cut \in BOOLEAN
  BY DEF IInv, Shape

LEMMA GiveUpSilent == ASSUME GiveUp PROVE Silent(cpu')
  BY AgainIs, ServeIs DEF GiveUp, Silent

\* The steps to an open image, up to the last one, leave the drive alone.
LEMMA MountingDrives ==
  ASSUME IInv, DInv, PhilesMount \/ StillMounted \/ Remount \/ FindVolume
  PROVE  DInv' /\ Steps
<1>1. UNCHANGED <<owner, written, request, buffer, answer>>
  BY DEF PhilesMount, StillMounted, Remount, FindVolume, fsvars, floppy
<1>2. Silent(cpu)
  BY DEF PhilesMount, StillMounted, Remount, FindVolume, At, Silent
<1>3. Silent(cpu')
  <2>1. CASE PhilesMount
    BY <2>1, CallIs DEF PhilesMount, Silent
  <2>2. CASE StillMounted
    BY <2>2 DEF StillMounted, Silent, At, Shape, IInv
  <2>3. CASE Remount
    BY <2>3, CutIs, GotoIs, GiveUpSilent DEF Remount, Silent
  <2>4. CASE FindVolume
    BY <2>4, CutIs, GotoIs, GiveUpSilent DEF FindVolume, Silent
  <2> QED
    BY <2>1, <2>2, <2>3, <2>4
<1> QED
  BY <1>1, <1>2, <1>3, Quiet

LEMMA RefusingDrives ==
  ASSUME IInv, DInv, BadName \/ Refused
  PROVE  DInv' /\ Steps
<1>1. UNCHANGED <<owner, written, request, buffer, answer>>
  BY DEF BadName, Refused, fsvars, floppy
<1>2. Silent(cpu)
  BY DEF BadName, Refused, At, Silent
<1>3. Silent(cpu')
  BY RefuseIs, GiveUpSilent DEF BadName, Refused, Silent
<1> QED
  BY <1>1, <1>2, <1>3, Quiet

\* Finding an entry opens the image, or nothing.
LEMMA FoundDrives ==
  ASSUME IInv, At("TRACE"), NEW e, Found(e)
  PROVE  /\ Silent(cpu') /\ (UNCHANGED owner \/ (~Holding /\ Holding'))
<1>1. cpu = [x \in {"at", "why", "path", "dj", "ofs", "btr", "cut"} |-> cpu[x]] /\ cpu.cut \in BOOLEAN
  BY DEF IInv, Shape
<1>2. CASE /\ cpu' = [cpu EXCEPT !.path = Tail(@), !.dj = SubDir(@, e)] /\ UNCHANGED owner
  BY <1>1, <1>2 DEF Silent, At
<1>3. CASE Refuse(FALSE) /\ UNCHANGED owner
  BY <1>3, RefuseIs DEF Silent
<1>4. CASE cpu.why = "open" /\ FileFound(e)
  <2>1. cpu'.at = "SERVE"
    BY <1>4, ServeIs DEF FileFound
  <2> QED
    BY <1>4, <2>1 DEF Silent, Holding, Reading, At
<1>5. CASE DirFound(e)
  BY <1>1, <1>5, CallIs, GotoIs DEF DirFound, OpenFile, Silent
<1> QED
  BY <1>2, <1>3, <1>4, <1>5 DEF Found

\* The last one loads it.
LEMMA TraceDrives ==
  ASSUME IInv, DInv, Trace
  PROVE  DInv' /\ Steps
<1>1. At("TRACE") /\ UNCHANGED <<written, request, buffer, answer>>
  BY DEF Trace, floppy
<1>2. Silent(cpu)
  BY <1>1 DEF Silent, At
<1>3. cpu = [x \in {"at", "why", "path", "dj", "ofs", "btr", "cut"} |-> cpu[x]]
  BY DEF IInv, Shape
<1>4. /\ Silent(cpu')
      /\ UNCHANGED owner \/ (~Holding /\ Holding')
  <2>1. CASE \E e : Found(e)
    BY <1>1, <2>1, FoundDrives
  <2>2. CASE (\E cut : Refuse(cut)) /\ UNCHANGED owner
    BY <2>2 DEF Refuse, Silent, Resting
  <2>3. CASE GiveUp /\ UNCHANGED owner
    BY <2>3, GiveUpSilent
  <2>4. CASE (\E d : cpu' = [cpu EXCEPT !.dj = d]) /\ UNCHANGED owner
    BY <1>1, <1>3, <2>4 DEF Silent, At
  <2> QED
    BY <2>1, <2>2, <2>3, <2>4 DEF Trace
<1>5. CASE UNCHANGED owner
  BY <1>1, <1>2, <1>4, <1>5, Quiet
<1>6. CASE ~Holding /\ Holding'
  BY <1>1, <1>2, <1>4, <1>6, TraceKeeps, Loads
<1> QED
  BY <1>4, <1>5, <1>6

LEMMA NextFileDrives ==
  ASSUME IInv, DInv, NextFile
  PROVE  DInv' /\ Steps
<1>1. At("NEXT") /\ UNCHANGED <<owner, written, request, buffer, answer>>
  BY DEF NextFile, floppy
<1>2. Silent(cpu)
  BY <1>1 DEF Silent, At
<1>3. cpu = [x \in {"at", "why", "path", "dj", "ofs", "btr", "cut"} |-> cpu[x]] /\ cpu.cut \in BOOLEAN
  BY DEF IInv, Shape
<1>4. ASSUME NEW place \in {"LISTED", "LISTFAILED"}, Miss(place)
      PROVE  Silent(cpu')
  BY <1>3, <1>4, GotoIs, CallIs DEF Miss, OpenFile, Silent
<1>5. ASSUME NEW cut, Walk(cut)
      PROVE  Silent(cpu')
  BY <1>1, <1>3, <1>5 DEF Walk, Silent, At
<1>6. ASSUME NEW name, NEW cut, Hit(name, cut)
      PROVE  Silent(cpu')
  BY <1>5, <1>6, CallIs DEF Hit, OpenFile, Silent
<1>7. Silent(cpu')
  BY <1>4, <1>5, <1>6 DEF NextFile
<1> QED
  BY <1>1, <1>2, <1>7, Quiet

LEMMA MenuDrives ==
  ASSUME IInv, DInv, Browse \/ Close
  PROVE  DInv' /\ Steps
<1>1. UNCHANGED <<owner, written, request, buffer, answer>>
  BY DEF Browse, Close, fsvars, floppy
<1>2. Silent(cpu)
  BY DEF Browse, Close, Listed, At, Silent
<1>3. Silent(cpu')
  BY CallIs, ServeIs DEF Browse, Close, Silent
<1> QED
  BY <1>1, <1>2, <1>3, Quiet

\* slave() returns: the image is closed.
LEMMA QuitDrives ==
  ASSUME IInv, DInv, NoSd \/ Pick
  PROVE  DInv' /\ Steps
<1>1. Quit /\ UNCHANGED <<written, request, buffer, answer>>
  BY DEF NoSd, Pick, floppy
<1>2. Silent(cpu') /\ owner' = NoOne
  BY <1>1, AgainIs DEF Quit, Silent
<1>3. Silent(cpu) /\ Holding
  BY DEF NoSd, Pick, Listed, At, Silent, Holding, Reading, IInv, Shape
<1> QED
  BY <1>1, <1>2, <1>3, Closes

\* Cards come and go, and fail.
LEMMA CardDrives ==
  ASSUME DInv, UNCHANGED <<cpu, fp, owner, written, request, buffer, answer>>
  PROVE  DInv' /\ Steps
<1>1. DInv'
  BY DEF DInv, Blocked, Answering, Asked, At, Aiming, OnWay, Stuck, NoMore, InImage, FirstBlock, Placing,
         OwnerSectors
<1> QED
  BY <1>1, Stutters

-----------------------------------------------------------------------------
(* A request, and its answer. *)

\* The step of the drive that takes a request,
LEMMA Asks ==
  ASSUME request = NoRequest, Shown # NoImage, answer = "NONE", UNCHANGED answer, Shown' = Shown,
         request' \in [op : {"READ", "WRITE"}, side : 0 .. 1, track : Nat, sector : Nat, done : {0}],
         UNCHANGED buffer \/ (request'.op = "WRITE" /\ buffer' \in [Blocks -> Sector])
  PROVE  Steps
<1> DEFINE image == IF owner = NoOne THEN NoImage
                    ELSE [i \in 0 .. Whole(owner.card, owner.name) - 1 |->
                            Contents(owner.card, Files[owner.card][owner.name].sectors[i + 1])]
<1>1. image = Shown /\ image' = Shown'
  BY Zenon DEF Shown, Picture, Stored, Contents
<1>2. buffer' \in [Blocks -> Sector] => buffer' \in [0 .. Abstract!Per - 1 -> [0 .. SectorSize - 1 -> Nat]]
  BY DEF Abstract!Per, Blocks, Sector
<1>3. UNCHANGED image
  BY <1>1
<1>4. image # NoImage
  BY <1>1
<1> HIDE DEF image
<1>5. request = NoRequest /\ image # NoImage /\ answer = "NONE"
  BY <1>4
<1>6. \/ UNCHANGED buffer
      \/ request'.op = "WRITE" /\ buffer' \in [0 .. Abstract!Per - 1 -> [0 .. SectorSize - 1 -> Nat]]
  BY <1>2
<1>7. Abstract!Ask
  BY <1>3, <1>5, <1>6, Zenon DEF Abstract!Ask, image
<1> QED
  BY <1>7 DEF Steps, Abstract!Next

\* and the one that gives the answer away.
LEMMA Takes ==
  ASSUME request = NoRequest, answer # "NONE", answer' = "NONE", buffer' \in [Blocks -> Sector],
         UNCHANGED request, Shown' = IF answer = "ERROR" THEN NoImage ELSE Shown
  PROVE  Steps
<1> DEFINE image == IF owner = NoOne THEN NoImage
                    ELSE [i \in 0 .. Whole(owner.card, owner.name) - 1 |->
                            Contents(owner.card, Files[owner.card][owner.name].sectors[i + 1])]
<1>1. image = Shown /\ image' = Shown'
  BY Zenon DEF Shown, Picture, Stored, Contents
<1>2. buffer' \in [0 .. Abstract!Per - 1 -> [0 .. SectorSize - 1 -> Nat]]
  BY DEF Abstract!Per, Blocks, Sector
<1>3. image' = IF answer = "ERROR" THEN NoImage ELSE image
  BY <1>1
<1>4. Abstract!Take
  BY <1>2, <1>3, Zenon DEF Abstract!Take, image
<1> QED
  BY <1>4 DEF Steps, Abstract!Next

\* Where the request is in the image.
LEMMA Places ==
  ASSUME owner # NoOne
  PROVE  /\ \A k \in Int : Abstract!Place(k) = FirstBlock + k
         /\ DOMAIN Shown = 0 .. Whole(owner.card, owner.name) - 1
         /\ Shown # NoImage => Abstract!Whole = DOMAIN Shown
<1>1. ASSUME NEW k \in Int PROVE Abstract!Place(k) = FirstBlock + k
  BY DEF Abstract!Place, Abstract!Per, FirstBlock, Placing
<1>2. DOMAIN Shown = 0 .. Whole(owner.card, owner.name) - 1
  BY DEF Shown, Picture
<1>3. Shown # NoImage => Abstract!Whole = DOMAIN Shown
  BY DEF Abstract!Whole, Shown, Picture, Stored, Contents
<1> QED
  BY <1>1, <1>2, <1>3

\* Nothing is left to be moved of a request.
LEMMA Overs ==
  ASSUME IInv, Blocked, Holding, request # NoRequest, request.done \in 0 .. 2, NoMore
  PROVE  Abstract!Over
<1>1. Abstract!Whole = 0 .. Whole(owner.card, owner.name) - 1
  BY ShownHeld, Held, Places
<1>2. \A k \in request.done .. 1 : Abstract!Place(k) = FirstBlock + k
  BY Held, Places
<1>3. Abstract!Per - 1 = 1
  BY DEF Abstract!Per
<1> QED
  BY <1>1, <1>2, <1>3 DEF Abstract!Over, NoMore, InImage

\* A request comes.
LEMMA AskDrives ==
  ASSUME IInv, DInv, Ask
  PROVE  DInv' /\ Steps
<1>1. At("SERVE") /\ UNCHANGED <<owner, written, answer>> /\ Goto("SEEK")
  BY DEF Ask, fsvars
<1>2. PICK r \in Requests :
        /\ request' = [op |-> r.op, side |-> r.side, track |-> r.track, sector |-> r.sector, done |-> 0]
        /\ buffer' = IF r.op = "WRITE" THEN [k \in Blocks |-> HostBlock] ELSE buffer
  BY DEF Ask
<1>3. /\ r.op \in {"READ", "WRITE"} /\ r.side \in 0 .. 1 /\ r.track \in Nat /\ r.sector \in Nat
      /\ Placing(r) * FddSize < OffsetMod
  BY DriveAssumption, SizesAssumption
<1>4. Holding /\ Silent(cpu) /\ Blocked /\ Answering
  BY <1>1 DEF DInv, Holding, Reading, Silent, At
<1>5. request = NoRequest /\ answer = "NONE" /\ Shown # NoImage
  BY <1>4, SilentNow, ShownHeld
<1>6. cpu'.at = "SEEK"
  BY <1>1, CutIs, GotoIs
<1>7. /\ request' \in Request /\ Placing(request') = Placing(r) /\ request'.done = 0
      /\ request' \in [op : {"READ", "WRITE"}, side : 0 .. 1, track : Nat, sector : Nat, done : {0}]
      /\ request'.op = r.op
  BY <1>2, <1>3 DEF Request, Placing
<1>8. buffer' \in [Blocks -> Sector] /\ (UNCHANGED buffer \/ request'.op = "WRITE")
  BY <1>2, <1>4, <1>7, DriveAssumption DEF Blocked
<1>9. Shown' = Shown
  BY <1>1 DEF Shown
<1>10. Steps
  BY <1>1, <1>5, <1>7, <1>8, <1>9, Asks
<1>11. Blocked'
  BY <1>1, <1>4, <1>8, BlockedKept
<1>12. Answering' /\ Aiming'
  BY <1>1, <1>3, <1>5, <1>6, <1>7 DEF Answering, Aiming, Asked, At
<1> QED
  BY <1>10, <1>11, <1>12 DEF DInv

\* It is answered when all was moved that is in the image.
LEMMA DoneDrives ==
  ASSUME IInv, DInv, Done
  PROVE  DInv' /\ Steps
<1>1. /\ At("TRANSFER") /\ cpu.btr = 0 /\ answer' = "OK" /\ request' = NoRequest
      /\ cpu' = [Resting EXCEPT !.at = "ANSWERED"] /\ UNCHANGED <<buffer, written, owner>>
  BY DEF Done, fsvars
<1>2. Holding /\ Blocked /\ Answering /\ Aiming /\ buffer \in [Blocks -> Sector]
  BY <1>1 DEF DInv, Blocked, Holding, Reading, At
<1>3. request \in Request /\ request # NoRequest /\ request.done \in 0 .. 2
  BY <1>1, <1>2, DriveAssumption DEF Answering, Asked, At, Request
<1>4. NoMore
  <2>1. CASE OnWay
    BY <1>1, <1>2, <1>3, <2>1, Arrived
  <2>2. CASE ~OnWay
    BY <1>1, <1>2, <2>2 DEF Aiming, Stuck
  <2> QED
    BY <2>1, <2>2
<1>5. Abstract!Over
  BY <1>2, <1>3, <1>4, Overs
<1>6. Abstract!Ok
  BY <1>1, <1>5 DEF Abstract!Ok, Contents
<1>7. Steps
  BY <1>6 DEF Steps, Abstract!Next
<1>8. cpu'.at = "ANSWERED"
  BY <1>1 DEF Resting
<1>9. Blocked'
  BY <1>1, <1>2, BlockedKept
<1>10. Answering' /\ Aiming'
  BY <1>1, <1>8 DEF Answering, Aiming, Asked, At
<1> QED
  BY <1>7, <1>9, <1>10 DEF DInv

\* The answer is taken; an error closes the image.
LEMMA AckedDrives ==
  ASSUME IInv, DInv, Acked
  PROVE  DInv' /\ Steps
<1>1. /\ cpu.at \in {"ANSWERED", "FAILED"} /\ answer' = "NONE" /\ buffer' = Empty
      /\ UNCHANGED <<written, request>>
  BY DEF Acked
<1>2. Holding /\ Blocked /\ Answering
  BY <1>1 DEF DInv, Holding, Reading
<1>3. request = NoRequest /\ answer = IF At("ANSWERED") THEN "OK" ELSE "ERROR"
  BY <1>1, <1>2 DEF Answering, Asked, At
<1>4. buffer' \in [Blocks -> Sector]
  <2>1. 0 \in Nat
    OBVIOUS
  <2> QED
    BY <1>1, <2>1 DEF Empty, Sector
<1>5. Blocked'
  BY <1>1, <1>2, <1>4, BlockedKept
<1>6. CASE At("FAILED")
  <2>1. Quit
    BY <1>6 DEF Acked
  <2>2. owner' = NoOne /\ Silent(cpu')
    BY <2>1, AgainIs DEF Quit, Silent
  <2>3. answer = "ERROR" /\ Shown' = NoImage
    BY <1>3, <1>6, <2>2 DEF Shown, At
  <2>4. Steps
    BY <1>1, <1>3, <1>4, <2>3, Takes
  <2> QED
    BY <1>1, <1>3, <1>5, <2>2, <2>4, SilentNext DEF DInv
<1>7. CASE ~At("FAILED")
  <2>1. Serve /\ UNCHANGED owner /\ At("ANSWERED")
    BY <1>1, <1>7 DEF Acked, At
  <2>2. Silent(cpu')
    BY <2>1, ServeIs DEF Silent
  <2>3. answer = "OK" /\ Shown' = Shown
    BY <1>1, <1>3, <2>1 DEF Shown
  <2>4. Steps
    BY <1>1, <1>3, <1>4, <2>3, Takes
  <2> QED
    BY <1>1, <1>3, <1>5, <2>2, <2>4, SilentNext DEF DInv
<1> QED
  BY <1>6, <1>7

-----------------------------------------------------------------------------
(* The way to the place asked for. *)

\* The offset that is sought: of the place, or, if that is before the image,
\* behind every image.
LEMMA OffsetIs ==
  ASSUME NEW r, r.side \in 0 .. 1, r.track \in Nat, r.sector \in Nat, Placing(r) * FddSize < OffsetMod
  PROVE  \/ Placing(r) \in Nat /\ CalcOffset(r) = (2 * Placing(r)) * SectorSize
         \/ Placing(r) = -1 /\ CalcOffset(r) = OffsetMod - FddSize
<1> DEFINE a == 2 * r.track + 1 - r.side
           x == Placing(r)
           m == SectorSize
<1>1. /\ m \in Nat /\ m > 0 /\ FddSize = 2 * m /\ NSectors \in Nat
      /\ OffsetMod \in Nat /\ OffsetMod > 0 /\ OffsetMod % FddSize = 0
  BY SizesAssumption DEF FddSize
<1>2. x \in Int /\ x >= -1
  <2>1. a \in Nat
    OBVIOUS
  <2>2. x = a * NSectors + r.sector - 1
    BY DEF Placing
  <2> HIDE DEF a, x
  <2>3. a * NSectors \in Nat
    BY <1>1, <2>1
  <2> QED
    BY <2>2, <2>3
<1>3. CalcOffset(r) = (x * FddSize) % OffsetMod
  BY DEF CalcOffset, Placing
<1>4. x * FddSize < OffsetMod
  OBVIOUS
<1>5. FddSize \in Nat /\ FddSize > 0
  BY <1>1
<1> HIDE DEF x, m
<1>6. CASE x >= 0
  <2>1. x \in Nat
    BY <1>2, <1>6
  <2>2. x * FddSize \in Nat /\ x * FddSize = (2 * x) * m
    BY <1>1, <1>5, <2>1, SMT
  <2> DEFINE y == x * FddSize
  <2>3. y \in Nat /\ y < OffsetMod
    BY <1>4, <2>2
  <2> HIDE DEF y
  <2>4. 0 * OffsetMod <= y /\ y < (0 + 1) * OffsetMod /\ y - (0 * OffsetMod) = y
    BY <1>1, <2>3
  <2>5. y % OffsetMod = y - (0 * OffsetMod)
    <3>1. 0 \in Int /\ y \in Int
      BY <2>3
    <3> QED
      BY <1>1, <2>4, <3>1, DivIs, Zenon
  <2> QED
    BY <1>3, <2>1, <2>2, <2>4, <2>5 DEF x, y, m
<1>7. CASE x = -1
  <2>1. x * FddSize = -FddSize
    BY <1>1, <1>7
  <2>2. FddSize <= OffsetMod
    <3> SUFFICES ASSUME OffsetMod < FddSize PROVE FALSE
      BY <1>1
    <3>1. 0 * FddSize <= OffsetMod /\ OffsetMod < (0 + 1) * FddSize /\ OffsetMod - (0 * FddSize) = OffsetMod
      BY <1>1
    <3>2. OffsetMod % FddSize = OffsetMod
      BY <1>1, <3>1, DivIs
    <3> QED
      BY <1>1, <3>2
  <2> DEFINE y == -FddSize
  <2>3. y \in Int /\ (-1) * OffsetMod <= y /\ y < ((-1) + 1) * OffsetMod
        /\ y - ((-1) * OffsetMod) = OffsetMod - FddSize
    BY <1>1, <1>5, <2>2
  <2> HIDE DEF y
  <2>4. y % OffsetMod = y - ((-1) * OffsetMod)
    <3>1. -1 \in Int
      OBVIOUS
    <3> QED
      BY <1>1, <2>3, <3>1, DivIs, Zenon
  <2> QED
    BY <1>3, <1>7, <2>1, <2>3, <2>4 DEF x, y
<1> QED
  BY <1>2, <1>6, <1>7

\* A request is for a place in the image, or before it.
LEMMA AskedIs ==
  ASSUME DInv, Asked
  PROVE  /\ request \in Request /\ request # NoRequest /\ request.side \in 0 .. 1 /\ request.track \in Nat
         /\ request.sector \in Nat /\ request.op \in {"READ", "WRITE"} /\ request.done \in 0 .. 2
         /\ Placing(request) * FddSize < OffsetMod
         /\ Placing(request) \in Int /\ FirstBlock \in Int /\ FirstBlock = 2 * Placing(request)
         /\ buffer \in [Blocks -> Sector] /\ answer = "NONE"
<1>1. Answering /\ Blocked
  BY DEF DInv
<1>2. request \in Request /\ request # NoRequest /\ Placing(request) * FddSize < OffsetMod
  BY <1>1, DriveAssumption DEF Answering
<1>3. /\ request.side \in 0 .. 1 /\ request.track \in Nat /\ request.sector \in Nat
      /\ request.op \in {"READ", "WRITE"} /\ request.done \in 0 .. 2
  BY <1>2 DEF Request
<1>4. Placing(request) \in Int /\ FirstBlock \in Int /\ FirstBlock = 2 * Placing(request)
  <2> DEFINE a == 2 * request.track + 1 - request.side
  <2>1. a \in Int /\ NSectors \in Int
    BY <1>3, SizesAssumption
  <2>2. Placing(request) = a * NSectors + request.sector - 1
    BY DEF Placing
  <2> HIDE DEF a
  <2>3. Placing(request) \in Int
    BY <1>3, <2>1, <2>2
  <2> QED
    BY <2>3 DEF FirstBlock
<1> QED
  BY <1>1, <1>2, <1>3, <1>4 DEF Answering, Blocked, Asked, At

\* As much is moved as the request is for, or as there is.
LEMMA LeftIs ==
  ASSUME NEW size \in Nat, NEW ptr \in Nat, ptr <= size, Transfer, fp'.fsize = size, fp'.fptr = ptr
  PROVE  /\ cpu'.at = "TRANSFER" /\ cpu'.btr \in Nat
         /\ ptr + cpu'.btr <= ptr + FddSize /\ ptr + cpu'.btr \in {ptr + FddSize, size}
         /\ cpu'.btr = 0 => ptr = size
<1>1. cpu'.at = "TRANSFER" /\ cpu'.btr = IF FddSize > size - ptr THEN size - ptr ELSE FddSize
  BY DEF Transfer, Resting
<1>2. FddSize \in Nat /\ FddSize > 0
  BY SizesAssumption DEF FddSize
<1> QED
  BY <1>1, <1>2

\* A transfer starts where it should.
LEMMA Aims ==
  ASSUME IInv, DInv, Asked, Holding, request.done = 0, UNCHANGED <<request, owner>>, Transfer,
         fp'.fsize = fp.fsize, fp'.fptr \in Nat, fp'.fptr <= fp.fsize,
         \/ fp'.fptr = FirstBlock * SectorSize
         \/ fp'.fptr = fp.fsize /\ NoMore
         \/ fp'.fptr = Len(OwnerSectors) * SectorSize /\ fp'.fptr < fp.fsize
  PROVE  cpu'.at = "TRANSFER" /\ (Answering' = (answer' = "NONE")) /\ Aiming'
<1> DEFINE ptr == fp'.fptr
           btr == cpu'.btr
           size == fp.fsize
<1>1. size \in Nat
  BY Held, Chain
<1>2. /\ cpu'.at = "TRANSFER" /\ btr \in Nat
      /\ ptr + btr <= ptr + FddSize /\ ptr + btr \in {ptr + FddSize, size}
      /\ btr = 0 => ptr = size
  BY <1>1, LeftIs
<1>3. /\ Placing(request) \in Int /\ request \in Request /\ FirstBlock \in Int
      /\ Placing(request) * FddSize < OffsetMod
  BY AskedIs
<1>4. /\ FirstBlock' = FirstBlock /\ OwnerSectors' = OwnerSectors /\ NoMore' = NoMore
      /\ Placing(request') = Placing(request) /\ request' = request
  BY DEF FirstBlock, OwnerSectors, NoMore, InImage, Placing
<1>5. Answering' = (answer' = "NONE")
  BY <1>2, <1>3, <1>4 DEF Answering, Asked, At
<1>6. CASE ptr = FirstBlock * SectorSize
  <2>1. FirstBlock * SectorSize + FddSize = (FirstBlock + 2) * SectorSize /\ FirstBlock * SectorSize \in Int
    BY <1>3, SizesAssumption, SMT DEF FddSize
  <2>2. FirstBlock + request.done = FirstBlock
    BY <1>3
  <2>3. /\ ptr = (FirstBlock + request.done) * SectorSize
        /\ ptr + btr <= (FirstBlock + 2) * SectorSize
        /\ ptr + btr \in {(FirstBlock + 2) * SectorSize, size}
    BY <1>2, <1>6, <2>1, <2>2
  <2>4. OnWay'
    BY <1>4, <2>3 DEF OnWay
  <2> QED
    BY <1>2, <1>5, <2>4 DEF Aiming, At
<1>7. CASE ptr = size /\ NoMore
  <2>1. btr = 0
    <3>1. FddSize \in Nat /\ FddSize > 0 /\ ptr \in Nat
      BY SizesAssumption DEF FddSize
    <3>2. btr = IF FddSize > size - ptr THEN size - ptr ELSE FddSize
      BY DEF Transfer, Resting
    <3> QED
      BY <1>1, <1>7, <3>1, <3>2
  <2> QED
    BY <1>2, <1>4, <1>5, <1>7, <2>1 DEF Aiming, At
<1>8. CASE ptr = Len(OwnerSectors) * SectorSize /\ ptr < size
  <2>1. btr > 0
    BY <1>1, <1>2, <1>8
  <2>2. Stuck'
    BY <1>4, <1>8, <2>1 DEF Stuck
  <2> QED
    BY <1>2, <1>5, <2>2 DEF Aiming, At
<1> QED
  BY <1>6, <1>7, <1>8

\* An image without a chain has no sectors.
LEMMA Chainless ==
  ASSUME IInv, Holding, fp.org \notin Clusters(medium)
  PROVE  Len(OwnerSectors) = 0
<1>1. owner.card = medium /\ OfImage(medium, owner.name, fp) /\ Mounting
  BY Held
<1> DEFINE F == Files[medium][owner.name]
           per == Layout(medium).sects_clust
<1>2. PICK e \in Images(medium) : fp.org = e.clust /\ Describes(medium, F, e)
  BY <1>1 DEF OfImage
<1>3. /\ F.clusts \in Seq(Clusters(medium)) /\ Len(F.sectors) = Len(F.clusts) * per
      /\ F.clusts # <<>> => e.clust = F.clusts[1]
  BY <1>2, Zenon DEF Describes
<1>4. F.clusts = <<>>
  <2> SUFFICES ASSUME F.clusts # <<>> PROVE FALSE
    OBVIOUS
  <2>1. F.clusts[1] \in Clusters(medium)
    BY <1>3
  <2> QED
    BY <1>2, <1>3, <2>1
<1>5. Len(F.clusts) = 0 /\ per \in Nat
  BY <1>1, <1>4, MountFacts
<1>6. Len(F.sectors) = 0
  BY <1>3, <1>5
<1> QED
  BY <1>1, <1>6 DEF OwnerSectors

\* f_lseek: the transfer can start, or the chain is followed.
LEMMA LSeekDrives ==
  ASSUME IInv, DInv, LSeek
  PROVE  DInv' /\ Steps
<1> DEFINE off == CalcOffset(request)
           ofs == Cut(off)
<1>1. At("SEEK") /\ UNCHANGED <<medium, owner, written>>
  BY DEF LSeek
<1>2. Asked /\ Holding
  BY <1>1 DEF Asked, At, Holding, Reading
<1>3. /\ Mounting /\ ~noinit /\ OfImage(medium, owner.name, fp) /\ fp.id = fs.id /\ ~fp.err
      /\ owner.card = medium
  BY <1>1, <1>2, Held, OneVars DEF Opening, At
<1>4. /\ UNCHANGED floppy /\ fp' = Rewound(ofs)
      /\ IF ofs = 0 \/ fp.org = 0 THEN Transfer
         ELSE cpu' = [Resting EXCEPT !.at = "FOLLOW", !.ofs = ofs]
  BY <1>1, <1>3 DEF LSeek, Validate
<1>5. /\ request \in Request /\ request.side \in 0 .. 1 /\ request.track \in Nat
      /\ request.sector \in Nat /\ Placing(request) * FddSize < OffsetMod
      /\ FirstBlock \in Int /\ FirstBlock = 2 * Placing(request) /\ request.done = 0
      /\ buffer \in [Blocks -> Sector]
  BY <1>1, <1>2, AskedIs DEF DInv, Answering, At
<1>6. IsFile(fp) /\ fp.fsize \in Nat /\ fp.org \in Nat
  BY <1>3, Chain
<1>7. fp.fsize + FddSize <= OffsetMod
  <2>1. owner.name \in DOMAIN Files[medium] /\ fp.fsize = Files[medium][owner.name].size
    BY <1>3, Chain
  <2>2. medium \in Cards /\ Formatted(medium)
    BY <1>3, MountFacts
  <2> QED
    BY <2>1, <2>2, ImageFacts
\* What is sought is the place, or the end of the image.
<1>8. ofs \in Nat /\ ofs <= fp.fsize /\ (ofs = FirstBlock * SectorSize \/ (ofs = fp.fsize /\ NoMore))
  <2>1. SectorSize \in Nat /\ SectorSize > 0 /\ FddSize \in Nat /\ OffsetMod \in Nat
    BY SizesAssumption DEF FddSize
  <2>2. CASE Placing(request) \in Nat /\ off = (2 * Placing(request)) * SectorSize
    <3>1. off = FirstBlock * SectorSize
      BY <1>5, <2>2
    <3>2. off \in Nat
      <4>1. FirstBlock \in Nat
        BY <1>5, <2>2
      <4> QED
        BY <2>1, <3>1, <4>1
    <3> HIDE DEF off
    <3>3. CASE off <= fp.fsize
      BY <1>6, <3>1, <3>2, <3>3 DEF Cut
    <3>4. CASE fp.fsize < off
      <4>1. ofs = fp.fsize
        BY <1>6, <3>2, <3>4 DEF Cut
      <4>2. fp.fsize < (FirstBlock + 0 + 1) * SectorSize
        <5>1. (FirstBlock + 0 + 1) * SectorSize = FirstBlock * SectorSize + SectorSize
          BY <1>5, <2>1, SMT
        <5> QED
          BY <1>6, <2>1, <3>1, <3>2, <3>4, <5>1
      <4>3. \A k \in Int : k >= 0 => ~InImage(k)
        <5>1. 0 \in Int
          OBVIOUS
        <5> QED
          BY <1>2, <1>5, <4>2, <5>1, Past, Zenon
      <4>4. NoMore
        BY <1>5, <4>3 DEF NoMore
      <4> QED
        BY <1>6, <4>1, <4>4
    <3> QED
      BY <1>6, <3>2, <3>3, <3>4
  <2>3. CASE Placing(request) = -1 /\ off = OffsetMod - FddSize
    <3>1. ofs = fp.fsize
      BY <1>6, <1>7, <2>1, <2>3 DEF Cut
    <3>2. NoMore
      <4>1. FirstBlock = -2
        BY <1>5, <2>3
      <4> QED
        BY <1>5, <4>1 DEF NoMore, InImage
    <3> QED
      BY <1>6, <3>1, <3>2
  <2> QED
    BY <1>5, <2>2, <2>3, OffsetIs
<1> HIDE DEF ofs
<1>9. fp'.fsize = fp.fsize /\ fp'.fptr = 0
  BY <1>4, <1>6 DEF Rewound, IsFile
<1>10. UNCHANGED <<request, buffer, answer>>
  BY <1>4 DEF floppy
<1>11. Blocked' /\ Steps
  BY <1>1, <1>5, <1>10, BlockedKept, Stutters DEF DInv
<1>12. answer' = "NONE"
  BY <1>2, <1>10, AskedIs
<1>13. CASE ofs = 0 \/ fp.org = 0
  <2>1. Transfer
    BY <1>4, <1>13
  <2>2. ASSUME \/ fp'.fptr = FirstBlock * SectorSize
               \/ fp'.fptr = fp.fsize /\ NoMore
               \/ fp'.fptr = Len(OwnerSectors) * SectorSize /\ fp'.fptr < fp.fsize
        PROVE  DInv' /\ Steps
    <3>1. UNCHANGED <<request, owner>> /\ fp'.fptr \in Nat /\ fp'.fptr <= fp.fsize
      BY <1>1, <1>6, <1>9, <1>10
    <3>2. (Answering' = (answer' = "NONE")) /\ Aiming'
      BY <1>2, <1>5, <1>9, <2>2, <2>1, <3>1, Aims
    <3> QED
      BY <1>11, <1>12, <3>2 DEF DInv
  <2>3. CASE ofs = 0
    <3>1. fp'.fptr = FirstBlock * SectorSize \/ (fp'.fptr = fp.fsize /\ NoMore)
      BY <1>8, <1>9, <2>3
    <3> QED
      BY <2>2, <3>1
  <2>4. CASE ofs # 0
    <3>1. fp.org \notin Clusters(medium)
      BY <1>13, <2>4 DEF Clusters
    <3>2. Len(OwnerSectors) * SectorSize = 0
      BY <1>2, <3>1, Chainless, SizesAssumption
    <3>3. fp'.fptr = Len(OwnerSectors) * SectorSize /\ fp'.fptr < fp.fsize
      BY <1>6, <1>8, <1>9, <2>4, <3>2
    <3> QED
      BY <2>2, <3>3
  <2> QED
    BY <2>3, <2>4
<1>14. CASE ~(ofs = 0 \/ fp.org = 0)
  <2>1. cpu'.at = "FOLLOW" /\ cpu'.ofs = ofs
    BY <1>4, <1>14 DEF Resting
  <2>2. fp'.fptr + cpu'.ofs = ofs
    BY <1>8, <1>9, <2>1
  <2>3. FirstBlock' = FirstBlock /\ NoMore' = NoMore /\ Placing(request') = Placing(request)
    BY <1>1, <1>10 DEF FirstBlock, NoMore, InImage, Placing
  <2>4. Aiming'
    BY <1>8, <1>9, <2>1, <2>2, <2>3 DEF Aiming, At
  <2>5. Answering'
    BY <1>5, <1>10, <1>12, <2>1, <2>3 DEF Answering, Asked, At
  <2> QED
    BY <1>11, <2>4, <2>5 DEF DInv
<1> QED
  BY <1>13, <1>14

-----------------------------------------------------------------------------
(* The card does not fail: then the image has come to its end, or its chain  *)
(* is too short.                                                             *)

Works == Alive /\ ~bad /\ ~noinit

\* A card that works delivers each sector it has.
LEMMA MoveWindowWorks ==
  ASSUME Works, NEW w, NEW s \in DOMAIN Volume[slot], NEW m \in MoveWindow(w, s)
  PROVE  m.ok
<1>1. DiskRead(s) = {[ok |-> TRUE, data |-> Contents(slot, s)]}
  BY DEF DiskRead, Works
<1> QED
  BY <1>1 DEF MoveWindow

\* get_cluster returns the entry that the card has.
LEMMA GetClusterWorks ==
  ASSUME Mounting, Written, Works, NEW k \in Clusters(medium), NEW w, Shows(w),
         NEW g \in GetCluster(k, w)
  PROVE  g.next = FatEntry(medium, k)
<1> DEFINE bc == Table12(k)
           lo == bc \div SectorSize
           hi == (bc + 1) \div SectorSize
<1>1. IsLink(k) /\ medium \in Cards /\ Formatted(medium) /\ slot = medium
  BY LinkFacts, MountFacts DEF Clusters, Mounting, Mount, Works
<1>2. /\ k \in Nat /\ Half \in Nat /\ Half > 0 /\ SectorSize \in Nat /\ SectorSize > 0 /\ bc \in Nat
  BY SizesAssumption, MountFacts DEF Clusters, Half, Table12
<1>3. 0 .. Layout(medium).database - 1 \subseteq DOMAIN Volume[medium]
  BY <1>1, DriveAssumption
<1>4. /\ FatLast(medium, k) < Layout(medium).database /\ Layout(medium).database \in Nat
      /\ fs.fatbase \in Nat
  BY MountFacts DEF SoundLayout
<1>5. ASSUME NEW s \in Nat, s <= FatLast(medium, k), FatLast(medium, k) \in Int
      PROVE  s \in DOMAIN Volume[slot]
  BY <1>1, <1>3, <1>4, <1>5
<1>6. CASE fs.type = 16
  <2> DEFINE s == fs.fatbase + k \div Half
  <2>1. k \div Half \in Nat
    BY <1>2, DivGrows
  <2>2. FatLast(medium, k) = s
    BY <1>6, MountFacts DEF FatLast
  <2>3. s # 0 /\ s \notin Own(medium) /\ Contents(medium, s) = Volume[medium][Layout(medium).fatbase + k \div Half]
    BY <1>4, <2>1, <2>2, FatSector
  <2>4. PICK m \in MoveWindow(w, s) :
          g = IF m.ok THEN [next |-> m.win.data[(k * 2) % SectorSize]
                                       + (256 * m.win.data[((k * 2) % SectorSize) + 1]),
                            win |-> m.win]
              ELSE [next |-> 1, win |-> m.win]
    BY <1>1, <1>6 DEF GetCluster
  <2>5. s \in DOMAIN Volume[slot]
    BY <1>4, <1>5, <2>1, <2>2
  <2> HIDE DEF s
  <2>6. m.ok /\ m.win.data = Contents(medium, s)
    BY <2>3, <2>5, MoveWindowShows, MoveWindowWorks
  <2>7. Layout(medium).type = 16
    BY <1>6, MountFacts
  <2> QED
    BY <2>3, <2>4, <2>6, <2>7 DEF FatEntry
<1>7. CASE fs.type # 16
  <2> DEFINE s == fs.fatbase + lo
             u == fs.fatbase + hi
  <2>1. lo \in Nat /\ hi \in Nat /\ lo <= hi
    BY <1>2, DivGrows
  <2> HIDE DEF lo, hi
  <2>2. FatLast(medium, k) = u /\ s <= u /\ s \in Nat /\ u \in Nat
    BY <1>4, <1>7, <2>1, MountFacts DEF FatLast, hi
  <2>3. /\ s # 0 /\ s \notin Own(medium) /\ Contents(medium, s) = Volume[medium][Layout(medium).fatbase + lo]
        /\ u # 0 /\ u \notin Own(medium) /\ Contents(medium, u) = Volume[medium][Layout(medium).fatbase + hi]
    BY <2>1, <2>2, FatSector
  <2> HIDE DEF s, u
  <2>4. s \in DOMAIN Volume[slot] /\ u \in DOMAIN Volume[slot]
    BY <1>5, <2>2
  <2>5. PICK m \in MoveWindow(w, s) :
          \/ ~m.ok /\ g = [next |-> 1, win |-> m.win]
          \/ m.ok /\ \E n \in MoveWindow(m.win, u) :
               g = IF n.ok THEN [next |-> Fat12(k, m.win.data[bc % SectorSize],
                                                n.win.data[(bc + 1) % SectorSize]),
                                 win |-> n.win] ELSE [next |-> 1, win |-> n.win]
    BY <1>1, <1>7 DEF GetCluster, s, u, lo, hi, Table12
  <2>6. m.ok /\ Shows(m.win) /\ m.win.data = Contents(medium, s)
    BY <2>3, <2>4, MoveWindowShows, MoveWindowWorks
  <2>7. PICK n \in MoveWindow(m.win, u) :
          g = IF n.ok THEN [next |-> Fat12(k, m.win.data[bc % SectorSize],
                                           n.win.data[(bc + 1) % SectorSize]),
                            win |-> n.win] ELSE [next |-> 1, win |-> n.win]
    BY <2>5, <2>6
  <2>8. n.ok /\ n.win.data = Contents(medium, u)
    BY <2>3, <2>4, <2>6, MoveWindowShows, MoveWindowWorks
  <2>9. Layout(medium).type # 16
    BY <1>7, MountFacts
  <2>10. FatEntry(medium, k) = Fat12(k, Contents(medium, s)[bc % SectorSize],
                                     Contents(medium, u)[(bc + 1) % SectorSize])
    BY <2>3, <2>9 DEF FatEntry, lo, hi
  <2> QED
    BY <2>6, <2>7, <2>8, <2>10
<1> QED
  BY <1>6, <1>7

\* Where the FAT leads no further from cluster j the sectors end.
LEMMA ChainEnds ==
  ASSUME Mounting, NEW n, NEW f, OfImage(medium, n, f), NEW j \in DOMAIN Files[medium][n].clusts,
         FatEntry(medium, Files[medium][n].clusts[j]) \notin Clusters(medium)
  PROVE  Len(Files[medium][n].sectors) = j * Layout(medium).sects_clust
<1> DEFINE F == Files[medium][n]
<1>1. PICK e \in Images(medium) : Describes(medium, F, e)
  BY DEF OfImage
<1>2. /\ F.clusts \in Seq(Clusters(medium))
      /\ Len(F.sectors) = Len(F.clusts) * Layout(medium).sects_clust
      /\ F.clusts # <<>> => \A i \in 1 .. Len(F.clusts) - 1 : FatEntry(medium, F.clusts[i]) = F.clusts[i + 1]
  BY <1>1, Zenon DEF Describes
<1>3. j \in 1 .. Len(F.clusts) /\ Len(F.clusts) \in Nat /\ F.clusts # <<>>
  BY <1>2
<1>4. j = Len(F.clusts)
  <2> SUFFICES ASSUME j # Len(F.clusts) PROVE FALSE
    OBVIOUS
  <2>1. j \in 1 .. Len(F.clusts) - 1 /\ j + 1 \in 1 .. Len(F.clusts)
    BY <1>3
  <2>2. F.clusts[j + 1] \in Clusters(medium)
    BY <1>2, <2>1
  <2> QED
    BY <1>2, <1>3, <2>1, <2>2
<1> QED
  BY <1>2, <1>4

-----------------------------------------------------------------------------
(* A request fails. *)

\* The card is at fault.
Faulty == ~Alive \/ bad \/ Broken

\* The step of the drive that fails before a block was moved.
LEMMA FailSteps ==
  ASSUME owner # NoOne, Faulty, request # NoRequest, answer' = "ERROR", request' = NoRequest,
         UNCHANGED <<owner, written, buffer>>
  PROVE  Steps
<1> DEFINE image == IF owner = NoOne THEN NoImage
                    ELSE [i \in 0 .. Whole(owner.card, owner.name) - 1 |->
                            Contents(owner.card, Files[owner.card][owner.name].sectors[i + 1])]
<1>1. UNCHANGED image
  BY Zenon DEF Contents
<1>2. ~Alive \/ bad \/ (owner # NoOne /\ Broken)
  BY DEF Faulty
<1> HIDE DEF image
<1>3. Abstract!Fail
  BY <1>1, <1>2, Zenon DEF Abstract!Fail, image
<1> QED
  BY <1>3 DEF Steps, Abstract!Next

\* An access fails.
LEMMA FailDrives ==
  ASSUME IInv, DInv, Asked, Holding, Faulty, Failed, UNCHANGED <<owner, written, buffer>>
  PROVE  DInv' /\ Steps
<1>1. cpu'.at = "FAILED" /\ answer' = "ERROR" /\ request' = NoRequest
  BY DEF Failed, Resting
<1>2. request # NoRequest /\ buffer \in [Blocks -> Sector]
  BY AskedIs
<1>3. Steps
  BY <1>1, <1>2, Held, FailSteps
<1>4. Blocked'
  BY <1>2, BlockedKept DEF DInv
<1>5. Answering' /\ Aiming'
  BY <1>1 DEF Answering, Aiming, Asked, At
<1> QED
  BY <1>3, <1>4, <1>5 DEF DInv

\* It is if the file says to be longer than its chain.
LEMMA BrokenIs ==
  ASSUME IInv, Holding, NEW x \in Int, Len(OwnerSectors) * SectorSize <= x, x < fp.fsize
  PROVE  Broken
<1>1. owner.card = medium /\ OfImage(medium, owner.name, fp) /\ Mounting
  BY Held
<1> DEFINE F == Files[medium][owner.name]
<1>2. fp.fsize = F.size /\ F.size \in Nat /\ Len(F.sectors) \in Nat
  BY <1>1, Chain
<1>3. Len(F.sectors) * SectorSize \in Int
  BY <1>2, SizesAssumption
<1>4. F.size > Len(F.sectors) * SectorSize
  <2> DEFINE y == Len(F.sectors) * SectorSize
  <2>1. y \in Int /\ y <= x
    BY <1>1, <1>3 DEF OwnerSectors
  <2> HIDE DEF y
  <2>2. F.size > y
    BY <1>2, <2>1
  <2> QED
    BY <2>2 DEF y
<1> QED
  BY <1>1, <1>4 DEF Broken

-----------------------------------------------------------------------------
(* Following the chain. *)

\* One link of the chain.
LEMMA FollowDrives ==
  ASSUME IInv, DInv, Follow
  PROVE  DInv' /\ Steps
<1> DEFINE n   == owner.name
           F   == Files[medium][n]
           per == Layout(medium).sects_clust
           ofs == cpu.ofs
           m   == SectorSize
           z   == per * m
<1>1. At("FOLLOW") /\ UNCHANGED <<medium, owner, written>>
  BY DEF Follow
<1>2. Asked /\ Holding
  BY <1>1 DEF Asked, At, Holding, Reading
<1>3. /\ Mounting /\ ~noinit /\ OfImage(medium, n, fp) /\ owner.card = medium /\ owner # NoOne
      /\ Heading(medium, n, fp, ofs) /\ Written /\ Window /\ ofs \in Nat
  BY <1>1, <1>2, Held, OneVars DEF Moving, At, Shape
<1>4. /\ request \in Request /\ request.done = 0 /\ request # NoRequest
      /\ Placing(request) * FddSize < OffsetMod
      /\ buffer \in [Blocks -> Sector] /\ answer = "NONE"
      /\ (fp.fptr + ofs = FirstBlock * SectorSize \/ (fp.fptr + ofs = fp.fsize /\ NoMore))
  BY <1>1, <1>2, AskedIs DEF DInv, Answering, Aiming, At
<1>5. PICK j \in DOMAIN F.clusts : /\ fp.curr_clust = F.clusts[j]
                                   /\ fp.fptr = ((j - 1) * per) * m
  BY <1>3 DEF Heading
<1>6. /\ IsFile(fp) /\ fp.fsize \in Nat /\ fp.fptr \in Nat /\ per \in Nat /\ per > 0
      /\ fs.sects_clust = per /\ F.clusts[j] \in Clusters(medium)
      /\ Len(F.clusts) \in Nat /\ DOMAIN F.clusts = 1 .. Len(F.clusts)
  BY <1>3, Chain
<1>7. m \in Nat /\ m > 0 /\ z \in Nat /\ ClustSize = z /\ j \in Nat /\ j > 0
  <2>1. m \in Nat /\ m > 0
    BY SizesAssumption
  <2>2. ClustSize = z
    BY <1>6, Zenon DEF ClustSize
  <2>3. z \in Nat
    <3> HIDE DEF per, m
    <3> QED
      BY <1>6, <2>1
  <2>4. j \in Nat /\ j > 0
    BY <1>6
  <2> QED
    BY <2>1, <2>2, <2>3, <2>4
<1>8. ofs > 0 /\ fp.fptr + ofs <= fp.fsize
  BY <1>3 DEF Heading
<1> HIDE DEF F, per, ofs, m, z
\* At the end of the chain.
<1>9. ASSUME FatEntry(medium, F.clusts[j]) \notin Clusters(medium)
      PROVE  Len(OwnerSectors) * SectorSize = fp.fptr + z
  <2>1. Len(F.sectors) = j * per
    BY <1>3, <1>9, ChainEnds DEF F, per
  <2>2. ((j - 1) * per) * m + (per * m) = (((j - 1) * per) + per) * m
    BY <1>6, <1>7, ClusterEnd
  <2>3. j * per = ((j - 1) * per) + per
    BY <1>6, <1>7, RowAt
  <2> QED
    BY <1>3, <1>5, <2>1, <2>2, <2>3 DEF OwnerSectors, F, m, z
\* The transfer starts.
<1>10. ASSUME Transfer, UNCHANGED floppy, fp'.fsize = fp.fsize, fp'.fptr \in Nat, fp'.fptr <= fp.fsize,
              \/ fp'.fptr = FirstBlock * SectorSize
              \/ fp'.fptr = fp.fsize /\ NoMore
              \/ fp'.fptr = Len(OwnerSectors) * SectorSize /\ fp'.fptr < fp.fsize
       PROVE  DInv' /\ Steps
  <2>1. UNCHANGED <<request, buffer, answer>>
    BY <1>10 DEF floppy
  <2>2. Blocked' /\ Steps
    BY <1>1, <1>4, <2>1, BlockedKept, Stutters DEF DInv
  <2>3. (Answering' = (answer' = "NONE")) /\ Aiming'
    BY <1>1, <1>2, <1>4, <1>10, <2>1, Aims
  <2> QED
    BY <1>4, <2>1, <2>2, <2>3 DEF DInv
<1>11. CASE ofs <= ClustSize
  <2>1. fp' = Land(fp, fp.curr_clust, ofs) /\ Transfer /\ UNCHANGED floppy
    BY <1>11 DEF Follow, ofs
  <2>2. fp'.fsize = fp.fsize /\ fp'.fptr = fp.fptr + ofs
    BY <1>6, <2>1 DEF Land, IsFile
  <2> QED
    BY <1>3, <1>4, <1>6, <1>8, <1>10, <2>1, <2>2
<1>12. CASE ~(ofs <= ClustSize)
  <2>1. PICK g \in GetCluster(fp.curr_clust, win) :
          CASE g.next = 0 -> fp' = Land(fp, 0, ClustSize) /\ Transfer /\ UNCHANGED floppy
            [] IsLink(g.next) ->
                 /\ fp' = [fp EXCEPT !.curr_clust = g.next, !.fptr = @ + ClustSize]
                 /\ cpu' = [cpu EXCEPT !.ofs = @ - ClustSize] /\ UNCHANGED floppy
            [] OTHER -> fp' = [fp EXCEPT !.err = TRUE] /\ Failed /\ UNCHANGED buffer
    BY <1>12 DEF Follow, ofs
  <2>2. Shows(win) /\ F.clusts[j] \in Int
    BY <1>3, <1>6, WindowShows DEF Clusters
  <2>3. /\ g.next = 1 \/ g.next = FatEntry(medium, F.clusts[j])
        /\ Works => g.next = FatEntry(medium, F.clusts[j])
    BY <1>3, <1>5, <1>6, <2>2, GetClusterReads, GetClusterWorks
  <2>4. FatEntry(medium, F.clusts[j]) \in Nat
    BY <1>3, <1>6, MountFacts DEF SoundLayout
  <2>5. ofs > z /\ fp.fptr + z < fp.fsize
    BY <1>3, <1>6, <1>7, <1>8, <1>12
  <2>6. ~IsLink(g.next) /\ g.next = FatEntry(medium, F.clusts[j]) =>
          Len(OwnerSectors) * SectorSize = fp.fptr + z
    BY <1>3, <1>9, <2>4, LinkFacts
  <2>7. CASE g.next = 0
    <3>1. fp' = Land(fp, 0, ClustSize) /\ Transfer /\ UNCHANGED floppy
      BY <2>1, <2>7 DEF IsLink
    <3>2. fp'.fsize = fp.fsize /\ fp'.fptr = fp.fptr + z
      BY <1>6, <1>7, <3>1 DEF Land, IsFile
    <3>3. Len(OwnerSectors) * SectorSize = fp.fptr + z
      BY <2>3, <2>6, <2>7 DEF IsLink
    <3> QED
      BY <1>6, <1>7, <1>10, <2>5, <3>1, <3>2, <3>3
  <2>8. CASE g.next # 0 /\ IsLink(g.next)
    <3>1. /\ fp' = [fp EXCEPT !.curr_clust = g.next, !.fptr = @ + ClustSize]
          /\ cpu' = [cpu EXCEPT !.ofs = @ - ClustSize] /\ UNCHANGED floppy
      BY <2>1, <2>8
    <3>2. fp'.fsize = fp.fsize /\ fp'.fptr = fp.fptr + z
      BY <1>6, <1>7, <3>1 DEF IsFile
    <3>3. cpu'.at = "FOLLOW" /\ cpu'.ofs = ofs - z
      BY <1>1, <1>7, <3>1, OneVars DEF Shape, At, ofs
    <3>4. fp'.fptr + cpu'.ofs = fp.fptr + ofs
      BY <1>3, <1>6, <1>7, <3>2, <3>3
    <3>5. UNCHANGED <<request, buffer, answer>>
      BY <3>1 DEF floppy
    <3>6. FirstBlock' = FirstBlock /\ NoMore' = NoMore /\ Placing(request') = Placing(request)
      BY <1>1, <3>5 DEF FirstBlock, NoMore, InImage, Placing
    <3>7. Aiming'
      BY <1>4, <3>2, <3>3, <3>4, <3>6 DEF Aiming, At
    <3>8. Answering'
      BY <1>4, <3>3, <3>5, <3>6 DEF Answering, Asked, At
    <3>9. Blocked' /\ Steps
      BY <1>1, <1>4, <3>5, BlockedKept, Stutters DEF DInv
    <3> QED
      BY <3>7, <3>8, <3>9 DEF DInv
  <2>9. CASE g.next # 0 /\ ~IsLink(g.next)
    <3>1. Failed /\ UNCHANGED buffer
      BY <2>1, <2>9
    <3>2. Faulty
      <4> SUFFICES ASSUME Alive, ~bad PROVE Broken
        BY DEF Faulty
      <4>1. Len(OwnerSectors) * SectorSize = fp.fptr + z
        BY <1>3, <2>3, <2>6, <2>9 DEF Works
      <4> QED
        BY <1>2, <1>6, <1>7, <2>5, <4>1, BrokenIs
    <3> QED
      BY <1>1, <1>2, <3>1, <3>2, FailDrives
  <2> QED
    BY <2>7, <2>8, <2>9
<1> QED
  BY <1>11, <1>12

-----------------------------------------------------------------------------
(* Moving blocks. *)

\* There is no next sector: the chain has come to its end.
LEMMA NextSectorEnds ==
  ASSUME IInv, Holding, Works, Placed(medium, owner.name, fp), fp.fptr % SectorSize = 0,
         NEW x \in NextSector(win), ~x.ok
  PROVE  Len(OwnerSectors) * SectorSize <= fp.fptr
<1> DEFINE n   == owner.name
           F   == Files[medium][n]
           per == Layout(medium).sects_clust
           m   == SectorSize
           left == fp.sect_clust - 1
<1>1. /\ Mounting /\ OfImage(medium, n, fp) /\ owner.card = medium /\ Written /\ Shows(win)
  BY Held, OneVars, WindowShows
<1>2. /\ fp.fptr \in Nat /\ fp.org \in Nat /\ per \in Nat /\ per > 0
      /\ \A i \in DOMAIN F.clusts : F.clusts[i] \in Clusters(medium)
      /\ Len(F.clusts) \in Nat /\ DOMAIN F.clusts = 1 .. Len(F.clusts)
  BY <1>1, Chain
<1>3. m \in Nat /\ m > 0
  BY SizesAssumption
<1>4. CASE fp.fptr = 0 /\ fp.sect_clust = 1
  <2>1. ~IsLink(fp.org)
    BY <1>4 DEF NextSector
  <2>2. fp.org \notin Clusters(medium)
    BY <1>1, <1>2, <2>1, LinkFacts
  <2> QED
    BY <1>3, <1>4, <2>2, Chainless
<1>5. ASSUME NEW j \in DOMAIN F.clusts, NEW k \in 0 .. per - 1, In(medium, n, fp, j, k)
      PROVE  Len(OwnerSectors) * SectorSize <= fp.fptr
  <2> DEFINE t == (j - 1) * per
             last == t + k
  <2>1. j \in Nat /\ j > 0 /\ k \in Nat /\ k <= per - 1
    BY <1>2
  <2>2. t \in Nat /\ j * per = t + per
    <3> HIDE DEF per
    <3> QED
      BY <1>2, <2>1, RowAt DEF t
  <2>3. /\ last * m < fp.fptr /\ fp.fptr <= (last + 1) * m
        /\ fp.curr_clust = F.clusts[j] /\ fp.sect_clust = per - k
    BY <1>5 DEF In
  <2> HIDE DEF t
  <2>4. last \in Nat
    BY <2>1, <2>2
  <2> HIDE DEF last
  <2>5. fp.fptr = (last + 1) * m /\ fp.fptr # 0
    BY <1>2, <2>3, <2>4, SectorEnd
  <2>6. left = 0
    <3> SUFFICES ASSUME left # 0 PROVE FALSE
      OBVIOUS
    <3>1. x = [ok |-> TRUE, win |-> win,
               fp |-> [fp EXCEPT !.sect_clust = left, !.curr_sect = @ + 1]]
      BY DEF NextSector
    <3> QED
      BY <3>1
  <2>7. k + 1 = per /\ last + 1 = j * per
    <3>1. k + 1 = per
      BY <1>2, <2>1, <2>3, <2>6
    <3> DEFINE v == j * per
    <3>2. v = t + per
      BY <2>2
    <3> HIDE DEF per, v
    <3>3. last + 1 = v
      BY <1>2, <2>1, <2>2, <3>1, <3>2 DEF last
    <3> QED
      BY <3>1, <3>3 DEF v
  <2> DEFINE Enter(c) == [fp EXCEPT !.curr_clust = c, !.curr_sect = Clust2Sect(c),
                                    !.sect_clust = fs.sects_clust]
  <2>8. PICK g \in GetCluster(fp.curr_clust, win) :
          x = [ok |-> IsLink(g.next), win |-> g.win,
               fp |-> IF IsLink(g.next) THEN Enter(g.next) ELSE [fp EXCEPT !.sect_clust = 0]]
    BY <2>5, <2>6 DEF NextSector
  <2> HIDE DEF Enter
  <2>9. ~IsLink(g.next)
    <3>1. IsLink(g.next) \in BOOLEAN
      BY DEF IsLink
    <3> QED
      BY <2>8, <3>1
  <2>10. F.clusts[j] \in Clusters(medium) /\ F.clusts[j] \in Int
    BY <1>2 DEF Clusters
  <2>11. g.next = FatEntry(medium, F.clusts[j])
    BY <1>1, <2>3, <2>8, <2>10, GetClusterWorks
  <2>12. FatEntry(medium, F.clusts[j]) \in Nat
    BY <1>1, <2>10, MountFacts DEF SoundLayout
  <2>13. FatEntry(medium, F.clusts[j]) \notin Clusters(medium)
    BY <1>1, <2>9, <2>11, <2>12, LinkFacts
  <2>14. Len(F.sectors) = j * per
    BY <1>1, <2>13, ChainEnds
  <2>15. Len(OwnerSectors) * m = fp.fptr
    BY <1>1, <2>5, <2>7, <2>14 DEF OwnerSectors
  <2> QED
    BY <1>2, <2>15
<1> QED
  BY <1>1, <1>4, <1>5 DEF Placed

\* The sector that was entered holds the next block of the request, and the
\* sectors behind it in the cluster the blocks behind that.
LEMMA BlockAt ==
  ASSUME IInv, DInv, At("TRANSFER"), cpu.btr > 0, NEW f, SameFile(fp, f), f.fptr = fp.fptr,
         NEW j, NEW k, Entering(medium, owner.name, f, j, k)
  PROVE  LET per == Layout(medium).sects_clust IN
         /\ OnWay /\ request.done \in 0 .. 1 /\ k \in 0 .. per - 1 /\ f.sect_clust = per - k
         /\ per \in Nat /\ f.curr_sect \in Nat /\ f.curr_sect # 0
         /\ \A z \in Nat : k + z < per =>
              /\ FirstBlock + request.done + z \in 0 .. Len(OwnerSectors) - 1
              /\ OwnerSectors[FirstBlock + request.done + z + 1] = f.curr_sect + z
<1> DEFINE n   == owner.name
           F   == Files[medium][n]
           per == Layout(medium).sects_clust
           t   == (j - 1) * per
           q   == t + k
           m   == SectorSize
           p   == FirstBlock + request.done
<1>1. Asked /\ Holding
  BY DEF Asked, At, Holding, Reading
<1>2. /\ Mounting /\ OfImage(medium, n, fp) /\ owner.card = medium /\ OfImage(medium, n, f)
  <2>1. Mounting /\ OfImage(medium, n, fp) /\ owner.card = medium
    BY <1>1, Held
  <2>2. fp.fptr \in Nat /\ fp.fptr <= fp.fsize
    BY <2>1, Chain
  <2> QED
    BY <2>1, <2>2, OfImageKept DEF SameFile
<1>3. /\ j \in DOMAIN F.clusts /\ k \in 0 .. per - 1 /\ f.fptr = (t + k) * m
      /\ f.sect_clust = per - k /\ f.curr_sect = FirstSect(medium, F.clusts[j]) + k
  BY DEF Entering
<1>4. /\ per \in Nat /\ per > 0 /\ F.clusts[j] \in Clusters(medium)
      /\ Len(F.clusts) \in Nat /\ DOMAIN F.clusts = 1 .. Len(F.clusts)
      /\ F.sectors \in Seq(Nat) /\ Len(F.sectors) = Len(F.clusts) * per
  BY <1>2, <1>3, Chain
<1>5. \A z \in 0 .. per - 1 : F.sectors[(j - 1) * per + z + 1] = FirstSect(medium, F.clusts[j]) + z
  <2>1. \A i \in DOMAIN F.clusts : \A z \in 0 .. per - 1 :
          F.sectors[(i - 1) * per + z + 1] = FirstSect(medium, F.clusts[i]) + z
    <3>1. Mounting /\ OfImage(medium, n, f)
      BY <1>2
    <3> QED
      BY <3>1, Chain
  <2> QED
    BY <1>3, <2>1, Zenon
<1>6. m \in Nat /\ m > 0
  BY SizesAssumption
<1>7. j \in Nat /\ j > 0 /\ j <= Len(F.clusts) /\ k \in Nat /\ k < per
  <2>1. j \in 1 .. Len(F.clusts) /\ Len(F.clusts) \in Nat
    BY <1>3, <1>4
  <2>2. k \in 0 .. per - 1 /\ per \in Nat
    BY <1>3, <1>4
  <2> HIDE DEF F, per
  <2> QED
    BY <2>1, <2>2
<1>8. t \in Nat /\ j * per = t + per /\ j * per <= Len(F.clusts) * per /\ Len(F.clusts) * per \in Nat
  <2> HIDE DEF per, F
  <2>1. t \in Nat /\ j * per = t + per
    BY <1>4, <1>7, RowAt DEF t
  <2>2. j * per <= Len(F.clusts) * per /\ Len(F.clusts) * per \in Nat
    BY <1>4, <1>7, RowsGrow
  <2> QED
    BY <2>1, <2>2
<1>9. t + per <= Len(F.sectors)
  <2> DEFINE v == Len(F.clusts) * per
  <2>1. v \in Nat /\ Len(F.sectors) = v /\ t + per <= v
    BY <1>4, <1>8
  <2> HIDE DEF v
  <2> QED
    BY <2>1
<1>10. FirstSect(medium, F.clusts[j]) \in Nat /\ FirstSect(medium, F.clusts[j]) # 0
  <2>1. FirstSect(medium, F.clusts[j]) \in Nat /\ FirstSect(medium, F.clusts[j]) >= Layout(medium).database
    BY <1>2, <1>4, ClusterSects, MountFacts
  <2>2. Layout(medium).database \in Nat /\ Layout(medium).database > 0
    <3>1. /\ SoundLayout(medium) /\ Layout(medium).dirbase \in Nat /\ Layout(medium).database \in Nat
          /\ Layout(medium).n_rootdir \in Nat /\ Layout(medium).n_rootdir # 0
      BY <1>2, MountFacts DEF SoundLayout
    <3>2. RootSect(medium, 0) < Layout(medium).database
      <4>1. 0 \in RootSlots(medium)
        BY <3>1 DEF RootSlots
      <4> QED
        BY <3>1, <4>1, Zenon DEF SoundLayout
    <3>3. RootSect(medium, 0) = Layout(medium).dirbase
      <4>1. 0 \div PerSector = 0
        <5>1. PerSector \in Nat /\ 0 * PerSector <= 0 /\ 0 < (0 + 1) * PerSector
          BY SizesAssumption
        <5> QED
          BY <5>1, DivIs
      <4>2. Layout(medium).dirbase \in Nat
        BY <1>2, MountFacts
      <4> QED
        BY <4>1, <4>2 DEF RootSect
    <3> QED
      BY <3>1, <3>2, <3>3
  <2> QED
    BY <2>1, <2>2
<1>11. request.done \in 0 .. 2 /\ FirstBlock \in Int
  BY <1>1, AskedIs
<1>12. fp.fptr \in Nat /\ cpu.btr \in Nat
  BY <1>2, OneVars, Chain DEF Shape
<1> HIDE DEF t, per, m
<1>13. q \in Nat /\ q < Len(F.sectors) /\ fp.fptr = q * m
  <2>1. fp.fptr = q * m
    BY <1>3 DEF t, per, m
  <2>2. q \in Nat /\ q < t + per
    BY <1>4, <1>7, <1>8
  <2>3. Len(F.sectors) \in Nat
    BY <1>4
  <2> QED
    BY <1>4, <1>8, <1>9, <2>1, <2>2, <2>3
\* It is not the end of a chain that is too short.
<1>14. OnWay
  <2>1. ~Stuck
    <3> SUFFICES ASSUME Stuck PROVE FALSE
      OBVIOUS
    <3> DEFINE l == Len(F.sectors)
    <3>1. l \in Nat /\ q * m = l * m /\ q < l
      BY <1>2, <1>4, <1>13 DEF Stuck, OwnerSectors, m
    <3> HIDE DEF l, q
    <3>2. q * m < l * m
      BY <1>6, <1>13, <3>1, SMT
    <3>3. q * m \in Int
      BY <1>6, <1>13
    <3> QED
      BY <3>1, <3>2, <3>3
  <2> QED
    BY <2>1 DEF DInv, Aiming
<1>15. p = q
  <2>1. q * m = p * m /\ p \in Int
    BY <1>11, <1>13, <1>14 DEF OnWay, m
  <2> HIDE DEF p, q
  <2>2. ~(p < q) /\ ~(q < p)
    <3>1. p < q => p * m < q * m
      BY <1>6, <1>13, <2>1, SMT
    <3>2. q < p => q * m < p * m
      BY <1>6, <1>13, <2>1, SMT
    <3>3. q * m \in Int
      BY <1>6, <1>13
    <3> QED
      BY <2>1, <3>1, <3>2, <3>3
  <2> QED
    BY <1>13, <2>1, <2>2
<1>16. request.done # 2
  <2> SUFFICES ASSUME request.done = 2 PROVE FALSE
    OBVIOUS
  <2> DEFINE y == (FirstBlock + 2) * SectorSize
  <2>1. fp.fptr = y /\ fp.fptr + cpu.btr <= y
    BY <1>14 DEF OnWay
  <2> HIDE DEF y
  <2> QED
    BY <1>12, <2>1
<1>17. ASSUME NEW z \in Nat, k + z < per
       PROVE  /\ p + z \in 0 .. Len(OwnerSectors) - 1
              /\ OwnerSectors[p + z + 1] = f.curr_sect + z
  <2>1. p + z = t + (k + z) /\ k + z \in 0 .. per - 1
    BY <1>4, <1>7, <1>8, <1>15, <1>17
  <2>2. F.sectors[t + (k + z) + 1] = FirstSect(medium, F.clusts[j]) + (k + z)
    BY <1>5, <2>1 DEF t, per
  <2>3. FirstSect(medium, F.clusts[j]) + (k + z) = f.curr_sect + z
    BY <1>3, <1>7, <1>10
  <2>4. t + (k + z) \in 0 .. Len(F.sectors) - 1
    <3> DEFINE l == Len(F.sectors)
               y == k + z
    <3>1. l \in Nat /\ y \in Nat /\ y < per /\ t + per <= l
      BY <1>4, <1>7, <1>9, <1>17
    <3> HIDE DEF l, y
    <3>2. t + y \in 0 .. l - 1
      BY <1>4, <1>8, <3>1
    <3> QED
      BY <3>2 DEF l, y
  <2> HIDE DEF p
  <2> QED
    BY <1>2, <2>1, <2>2, <2>3, <2>4 DEF OwnerSectors
<1>18. f.curr_sect \in Nat /\ f.curr_sect # 0
  BY <1>3, <1>7, <1>10
<1> QED
  BY <1>3, <1>4, <1>11, <1>14, <1>16, <1>17, <1>18 DEF per

\* As many sectors as are to be moved at once are blocks of the request.
LEMMA BlocksAt ==
  ASSUME IInv, DInv, At("TRANSFER"), cpu.btr > 0, NEW f, SameFile(fp, f), f.fptr = fp.fptr,
         NEW j, NEW k, Entering(medium, owner.name, f, j, k),
         NEW cc \in Nat, cc <= f.sect_clust, cc * SectorSize <= cpu.btr
  PROVE  /\ request.done + cc <= 2
         /\ \A d \in request.done .. request.done + cc - 1 :
              InImage(d) /\ OwnerSectors[FirstBlock + d + 1] = f.curr_sect + (d - request.done)
<1> DEFINE per == Layout(medium).sects_clust
           p   == FirstBlock + request.done
           m   == SectorSize
<1>1. /\ OnWay /\ request.done \in 0 .. 1 /\ k \in 0 .. per - 1 /\ f.sect_clust = per - k
      /\ per \in Nat /\ f.curr_sect \in Nat
  BY BlockAt
<1>2. \A z \in Nat : k + z < per =>
        /\ FirstBlock + request.done + z \in 0 .. Len(OwnerSectors) - 1
        /\ OwnerSectors[FirstBlock + request.done + z + 1] = f.curr_sect + z
  BY BlockAt
<1>3. Asked /\ Holding
  BY DEF Asked, At, Holding, Reading
<1>4. /\ OfImage(medium, owner.name, fp) /\ owner.card = medium /\ Mounting
      /\ Sending(fp, cpu.btr) /\ cpu.btr \in Nat
  BY <1>3, Held, OneVars DEF Moving, Shape, At
<1>5. /\ fp.fsize = Files[medium][owner.name].size /\ fp.fsize \in Nat /\ fp.fptr \in Nat
      /\ Len(OwnerSectors) \in Nat
  BY <1>4, Chain DEF OwnerSectors
<1>6. m \in Nat /\ m > 0 /\ FirstBlock \in Int /\ p \in Int
  BY <1>1, <1>3, AskedIs, SizesAssumption
<1> HIDE DEF per, m
<1> DEFINE u == p * m
           v == cc * m
           y == (FirstBlock + 2) * m
<1>7. /\ fp.fptr = u /\ u + cpu.btr <= y /\ u + cpu.btr <= fp.fsize /\ v <= cpu.btr
      /\ u \in Int /\ v \in Int /\ y \in Int
  <2>1. u \in Int /\ v \in Int /\ y \in Int
    <3> HIDE DEF p
    <3> QED
      BY <1>6
  <2>2. fp.fptr = u /\ v <= cpu.btr /\ u + cpu.btr <= y
    BY <1>1 DEF OnWay, m
  <2>3. fp.fptr + cpu.btr <= fp.fsize
    BY <1>4 DEF Sending
  <2> HIDE DEF u, v, y
  <2> QED
    BY <2>1, <2>2, <2>3
<1>8. (p + cc) * m = u + v
  <2> HIDE DEF p
  <2> QED
    BY <1>6, SMT
<1>9. (p + cc) * m <= y /\ (p + cc) * m <= fp.fsize
  <2> HIDE DEF u, v, y, p
  <2> QED
    BY <1>4, <1>5, <1>7, <1>8
<1>10. p + cc <= FirstBlock + 2
  <2> DEFINE b == FirstBlock + 2
             a == p + cc
  <2>1. a \in Int /\ b \in Int
    BY <1>6
  <2>2. a * m <= b * m
    BY <1>9
  <2> HIDE DEF a, b
  <2>3. b < a => b * m < a * m
    BY <1>6, <2>1, SMT
  <2>4. a * m \in Int /\ b * m \in Int
    BY <1>6, <2>1
  <2>5. a <= b
    BY <2>1, <2>2, <2>3, <2>4
  <2> QED
    BY <2>5 DEF a, b
<1>11. request.done + cc <= 2
  BY <1>1, <1>6, <1>10
<1>12. ASSUME NEW d \in request.done .. request.done + cc - 1
       PROVE  InImage(d) /\ OwnerSectors[FirstBlock + d + 1] = f.curr_sect + (d - request.done)
  <2> DEFINE z == d - request.done
             i == FirstBlock + d
  <2>1. z \in Nat /\ z < cc /\ k + z < per /\ p + z = i /\ i \in Int
    <3>1. z \in Nat /\ z < cc /\ d = request.done + z
      BY <1>1
    <3>2. k + z < per
      <4>1. k \in Nat /\ cc <= per - k
        BY <1>1 DEF per
      <4> HIDE DEF z
      <4> QED
        BY <1>1, <3>1, <4>1 DEF per
    <3>3. p + z = i /\ i \in Int
      BY <1>1, <1>6
    <3> QED
      BY <3>1, <3>2, <3>3
  <2>2. i \in 0 .. Len(OwnerSectors) - 1 /\ OwnerSectors[i + 1] = f.curr_sect + z
    <3>1. p + z \in 0 .. Len(OwnerSectors) - 1 /\ OwnerSectors[p + z + 1] = f.curr_sect + z
      BY <1>2, <2>1 DEF per
    <3> HIDE DEF p, z, i
    <3> QED
      BY <2>1, <3>1
  <2>3. (i + 1) * m <= fp.fsize
    <3> DEFINE a == i + 1
               b == p + cc
    <3>1. a \in Int /\ b \in Int /\ a <= b
      BY <1>6, <2>1
    <3> HIDE DEF a, b
    <3>2. a * m <= b * m
      BY <1>6, <3>1, SMT
    <3>3. a * m \in Int /\ b * m \in Int
      BY <1>6, <3>1
    <3>4. b * m <= fp.fsize
      BY <1>9 DEF b
    <3>5. a * m <= fp.fsize
      BY <1>5, <3>2, <3>3, <3>4
    <3> QED
      BY <3>5 DEF a
  <2>4. InImage(d)
    <3>1. i \in Int /\ i >= 0 /\ i < Len(Files[medium][owner.name].sectors)
          /\ (i + 1) * SectorSize <= Files[medium][owner.name].size
      BY <1>4, <1>5, <2>2, <2>3 DEF OwnerSectors, m
    <3>2. Files[medium][owner.name].size \in Nat /\ Len(Files[medium][owner.name].sectors) \in Nat
      BY <1>4, <1>5 DEF OwnerSectors
    <3> HIDE DEF i
    <3>3. i \in 0 .. Whole(medium, owner.name) - 1
      BY <3>1, <3>2, InWhole
    <3> QED
      BY <1>4, <3>3 DEF InImage, i
  <2> QED
    BY <2>2, <2>4
<1> QED
  BY <1>11, <1>12

\* Blocks that are read, as the drive does it.
LEMMA ReadMoves ==
  ASSUME IInv, DInv, Asked, Holding, Alive, request.op = "READ", NEW num \in Nat, NEW s \in Nat,
         request.done + num <= 2,
         \A d \in request.done .. request.done + num - 1 :
           InImage(d) /\ OwnerSectors[FirstBlock + d + 1] = s + (d - request.done),
         buffer' = [k \in Blocks |-> IF k \in request.done .. request.done + num - 1
                                     THEN Contents(slot, s + k - request.done) ELSE buffer[k]],
         UNCHANGED <<written, owner>>
  PROVE  Abstract!Moved(num) /\ Blocked'
<1> DEFINE image == IF owner = NoOne THEN NoImage
                    ELSE [i \in 0 .. Whole(owner.card, owner.name) - 1 |->
                            Contents(owner.card, Files[owner.card][owner.name].sectors[i + 1])]
           now == request.done .. request.done + num - 1
<1>1. /\ owner.card = medium /\ slot = medium /\ owner # NoOne /\ medium \in Cards /\ Formatted(medium)
      /\ owner.name \in DOMAIN Files[medium]
  BY Held DEF Mounting, Mount
<1>2. /\ request.done \in 0 .. 2 /\ FirstBlock \in Int /\ buffer \in [Blocks -> Sector] /\ Blocked
  BY AskedIs DEF DInv
<1>3. /\ image = Shown /\ image' = Shown' /\ Shown' = Shown
  BY Zenon DEF Shown, Picture, Stored, Contents
<1>4. /\ Abstract!Whole = 0 .. Whole(medium, owner.name) - 1 /\ \A k \in Int : Abstract!Place(k) = FirstBlock + k
      /\ Shown = Picture(written, medium, owner.name)
  BY <1>1, <1>2, Places, ShownHeld
<1>5. ASSUME NEW d \in now
      PROVE  /\ d \in Int /\ Abstract!Place(d) \in Abstract!Whole
             /\ Shown[Abstract!Place(d)] = Contents(slot, s + d - request.done)
             /\ Contents(slot, s + d - request.done) \in Sector
  <2>1. d \in Int /\ s + (d - request.done) = s + d - request.done
    BY <1>2
  <2>2. Abstract!Place(d) = FirstBlock + d /\ FirstBlock + d \in 0 .. Whole(medium, owner.name) - 1
    BY <1>1, <1>4, <2>1 DEF InImage
  <2>3. Files[medium][owner.name].sectors[FirstBlock + d + 1] = s + d - request.done
    BY <1>1, <2>1 DEF OwnerSectors
  <2>4. Shown[FirstBlock + d] = Stored(written, medium, s + d - request.done)
    BY <1>4, <2>2, <2>3 DEF Picture
  <2>5. Shown \in [0 .. Whole(medium, owner.name) - 1 -> Sector]
    BY <1>1, <1>2, <1>4, Pictured DEF Blocked
  <2>6. Stored(written, medium, s + d - request.done) \in Sector
    BY <2>2, <2>4, <2>5
  <2> QED
    BY <1>1, <1>4, <2>1, <2>2, <2>4, <2>6 DEF Stored, Contents
<1>6. DOMAIN buffer = Blocks
  BY <1>2
<1>7. buffer' = [k \in DOMAIN buffer |-> IF k \in now THEN Shown[Abstract!Place(k)] ELSE buffer[k]]
  BY <1>5, <1>6
<1>8. Blocked'
  <2>1. buffer' \in [Blocks -> Sector]
    BY <1>2, <1>5
  <2> QED
    BY <1>2, <2>1, BlockedKept
<1>9. /\ \A k \in now : Abstract!Place(k) \in Abstract!Whole
      /\ buffer' = [k \in DOMAIN buffer |-> IF k \in now THEN image[Abstract!Place(k)] ELSE buffer[k]]
      /\ UNCHANGED image
  BY <1>3, <1>5, <1>7
<1> HIDE DEF image
<1>10. Abstract!Moved(num)
  BY <1>9, Zenon DEF Abstract!Moved, image
<1> QED
  BY <1>8, <1>10

\* And those that are written.
LEMMA WriteMoves ==
  ASSUME IInv, DInv, Asked, Holding, Alive, request.op = "WRITE", NEW num \in Nat, NEW s \in Nat,
         request.done + num <= 2,
         \A d \in request.done .. request.done + num - 1 :
           InImage(d) /\ OwnerSectors[FirstBlock + d + 1] = s + (d - request.done),
         written' = Store(s, num), UNCHANGED <<buffer, owner>>
  PROVE  Abstract!Moved(num) /\ Blocked'
<1> DEFINE image == IF owner = NoOne THEN NoImage
                    ELSE [i \in 0 .. Whole(owner.card, owner.name) - 1 |->
                            Contents(owner.card, Files[owner.card][owner.name].sectors[i + 1])]
           now == request.done .. request.done + num - 1
           S   == s .. s + num - 1
           n   == owner.name
           F   == Files[medium][n]
<1>1. /\ owner.card = medium /\ slot = medium /\ owner # NoOne /\ medium \in Cards /\ Formatted(medium)
      /\ n \in DOMAIN Files[medium]
  BY Held DEF Mounting, Mount
<1>2. /\ request.done \in 0 .. 2 /\ FirstBlock \in Int /\ buffer \in [Blocks -> Sector] /\ Blocked
  BY AskedIs DEF DInv
<1>3. image = Shown /\ image' = Shown'
  BY Zenon DEF Shown, Picture, Stored, Contents
<1>4. /\ Abstract!Whole = 0 .. Whole(medium, n) - 1 /\ \A k \in Int : Abstract!Place(k) = FirstBlock + k
      /\ Shown = Picture(written, medium, n) /\ Shown' = Picture(written', medium, n)
  BY <1>1, <1>2, Places, ShownHeld DEF Shown
<1>5. /\ \A c \in Cards \ {medium} : written'[c] = written[c]
      /\ DOMAIN written'[medium] = DOMAIN written[medium] \union S
      /\ \A x \in DOMAIN written[medium] \ S : written'[medium][x] = written[medium][x]
      /\ \A x \in S : written'[medium][x] = buffer[request.done + x - s]
  <2>1. written = [c \in Cards |-> written[c]]
    BY OneVars DEF Written
  <2> QED
    BY <1>1, <2>1 DEF Store
<1>6. \A i \in 0 .. Whole(medium, n) - 1 : i + 1 \in DOMAIN F.sectors /\ F.sectors[i + 1] \in Int
  <2> SUFFICES ASSUME NEW i \in 0 .. Whole(medium, n) - 1
               PROVE  i + 1 \in DOMAIN F.sectors /\ F.sectors[i + 1] \in Int
    OBVIOUS
  <2>1. i \in Int
    OBVIOUS
  <2>2. i + 1 \in DOMAIN F.sectors
    BY <1>1, <2>1, ImageFacts, InWhole
  <2> QED
    BY <1>1, <2>2, ImageFacts
\* A block of the request,
<1>7. ASSUME NEW d \in now
      PROVE  /\ d \in Int /\ d \in Blocks /\ Abstract!Place(d) = FirstBlock + d
             /\ FirstBlock + d \in 0 .. Whole(medium, n) - 1
             /\ F.sectors[FirstBlock + d + 1] = s + (d - request.done)
             /\ Shown'[FirstBlock + d] = buffer[d]
  <2>1. d \in Int /\ d \in Blocks /\ s + (d - request.done) \in S
        /\ request.done + (s + (d - request.done)) - s = d
    <3> DEFINE o == request.done
    <3>1. o \in 0 .. 2 /\ d \in o .. o + num - 1 /\ o + num <= 2
      BY <1>2
    <3> HIDE DEF o
    <3>2. d \in Int /\ d >= o /\ d < o + num /\ o \in Nat
      BY <3>1
    <3>3. d \in 0 .. 1
      BY <3>1, <3>2
    <3>4. s + (d - o) \in S /\ o + (s + (d - o)) - s = d
      BY <3>2
    <3> QED
      BY <3>2, <3>3, <3>4 DEF o, Blocks
  <2>2. Abstract!Place(d) = FirstBlock + d /\ FirstBlock + d \in 0 .. Whole(medium, n) - 1
    BY <1>1, <1>4, <2>1 DEF InImage
  <2>3. F.sectors[FirstBlock + d + 1] = s + (d - request.done)
    BY <1>1 DEF OwnerSectors
  <2>4. Shown'[FirstBlock + d] = Stored(written', medium, s + (d - request.done))
    BY <1>4, <2>2, <2>3 DEF Picture
  <2>5. Stored(written', medium, s + (d - request.done)) = buffer[d]
    <3> DEFINE x == s + (d - request.done)
    <3>1. x \in S /\ request.done + x - s = d
      BY <2>1
    <3> HIDE DEF x
    <3> QED
      BY <1>5, <3>1 DEF Stored, x
  <2> QED
    BY <2>1, <2>2, <2>3, <2>4, <2>5
\* and one that is none.
<1>8. ASSUME NEW i \in 0 .. Whole(medium, n) - 1, ~\E k \in now : Abstract!Place(k) = i
      PROVE  Shown'[i] = Shown[i]
  <2>1. F.sectors[i + 1] \notin S
    <3> SUFFICES ASSUME F.sectors[i + 1] \in S PROVE FALSE
      OBVIOUS
    <3> DEFINE d == request.done + (F.sectors[i + 1] - s)
    <3>1. d \in now /\ s + (d - request.done) = F.sectors[i + 1] /\ i \in Int
      BY <1>2, <1>6
    <3>2. /\ FirstBlock + d + 1 \in DOMAIN F.sectors /\ d \in Int /\ Abstract!Place(d) = FirstBlock + d
          /\ F.sectors[FirstBlock + d + 1] = F.sectors[i + 1]
      BY <1>6, <1>7, <3>1
    <3>3. FirstBlock + d + 1 = i + 1
      <4> DEFINE a == FirstBlock + d + 1
                 b == i + 1
      <4>1. a \in DOMAIN F.sectors /\ b \in DOMAIN F.sectors /\ F.sectors[a] = F.sectors[b]
        BY <1>6, <3>2
      <4>2. SoundFiles(medium)
        BY <1>1, CardFacts
      <4> HIDE DEF a, b
      <4>3. a = b
        BY <1>1, <4>1, <4>2 DEF SoundFiles
      <4> QED
        BY <4>3 DEF a, b
    <3>4. Abstract!Place(d) = i
      <4> HIDE DEF d
      <4> QED
        BY <1>2, <3>1, <3>2, <3>3
    <3> QED
      BY <1>8, <3>1, <3>4
  <2>2. Stored(written', medium, F.sectors[i + 1]) = Stored(written, medium, F.sectors[i + 1])
    BY <1>5, <2>1 DEF Stored
  <2> QED
    BY <1>4, <2>2 DEF Picture
<1>9. ASSUME NEW i \in 0 .. Whole(medium, n) - 1
      PROVE  Shown'[i] = IF \E k \in now : Abstract!Place(k) = i
                         THEN buffer[CHOOSE k \in now : Abstract!Place(k) = i] ELSE Shown[i]
  <2>1. CASE \E k \in now : Abstract!Place(k) = i
    <3> DEFINE c == CHOOSE k \in now : Abstract!Place(k) = i
    <3>1. c \in now /\ Abstract!Place(c) = i
      BY <2>1
    <3> HIDE DEF c
    <3>2. Shown'[i] = buffer[c]
      BY <1>7, <3>1
    <3> QED
      BY <2>1, <3>2 DEF c
  <2> QED
    BY <1>8, <2>1
<1>10. Shown' = [i \in Abstract!Whole |-> IF \E k \in now : Abstract!Place(k) = i
                                         THEN buffer[CHOOSE k \in now : Abstract!Place(k) = i]
                                         ELSE Shown[i]]
  <2>1. Shown' = [i \in 0 .. Whole(medium, n) - 1 |-> Shown'[i]]
    BY <1>4 DEF Picture
  <2> QED
    BY <1>4, <1>9, <2>1
<1>11. Blocked'
  <2> SUFFICES ASSUME NEW c \in Cards, NEW x \in DOMAIN written'[c]
               PROVE  written'[c][x] \in Sector
    BY <1>2 DEF Blocked
  <2>1. CASE c # medium
    BY <1>2, <1>5, <2>1 DEF Blocked
  <2>2. CASE c = medium /\ x \in S
    <3>1. request.done + x - s \in now
      BY <1>2, <2>2
    <3>2. request.done + x - s \in Blocks
      BY <1>7, <3>1
    <3> QED
      BY <1>2, <1>5, <2>2, <3>2
  <2>3. CASE c = medium /\ x \notin S
    BY <1>2, <1>5, <2>3 DEF Blocked
  <2> QED
    BY <2>1, <2>2, <2>3
<1>12. /\ \A k \in now : Abstract!Place(k) \in Abstract!Whole
       /\ image' = [i \in Abstract!Whole |-> IF \E k \in now : Abstract!Place(k) = i
                                            THEN buffer[CHOOSE k \in now : Abstract!Place(k) = i]
                                            ELSE image[i]]
  BY <1>3, <1>4, <1>7, <1>10
<1>13. request.op # "READ"
  OBVIOUS
<1> HIDE DEF image
<1>14. Abstract!Moved(num)
  BY <1>12, <1>13, Zenon DEF Abstract!Moved, image
<1> QED
  BY <1>11, <1>14

\* The card fails when some blocks were moved.
LEMMA FailMoves ==
  ASSUME owner # NoOne, Faulty, request # NoRequest, answer' = "ERROR", request' = NoRequest,
         NEW num \in 1 .. 2 - request.done, Abstract!Moved(num)
  PROVE  Steps
<1>1. \E l \in 1 .. Abstract!Per - request.done : Abstract!Moved(l)
  BY DEF Abstract!Per
<1>2. ~Alive \/ bad \/ (owner # NoOne /\ Broken)
  BY DEF Faulty
<1>3. Abstract!Fail
  BY <1>1, <1>2, Zenon DEF Abstract!Fail
<1> QED
  BY <1>3 DEF Steps, Abstract!Next

\* The step of the drive that moves blocks,
LEMMA MoveSteps ==
  ASSUME request # NoRequest, NEW num \in 1 .. 2, request.done + num <= 2, Abstract!Moved(num),
         request' = [request EXCEPT !.done = @ + num], UNCHANGED answer
  PROVE  Steps
<1>1. num \in 1 .. Abstract!Per /\ request.done + num <= Abstract!Per
  BY DEF Abstract!Per
<1>2. Abstract!Move(num)
  BY <1>1, Zenon DEF Abstract!Move
<1> QED
  BY <1>1, <1>2, Zenon DEF Steps, Abstract!Next

\* and the one that drops the rest of the request.
LEMMA ScrapSteps ==
  ASSUME Abstract!Over, request.done \in 0 .. 2, \A k \in 0 .. request.done - 1 : buffer'[k] = buffer[k],
         buffer' \in [Blocks -> Sector], UNCHANGED <<owner, written, request, answer>>
  PROVE  Steps
<1> DEFINE image == IF owner = NoOne THEN NoImage
                    ELSE [i \in 0 .. Whole(owner.card, owner.name) - 1 |->
                            Contents(owner.card, Files[owner.card][owner.name].sectors[i + 1])]
<1>1. UNCHANGED image
  BY Zenon DEF Contents
<1>2. buffer' \in [0 .. Abstract!Per - 1 -> [0 .. SectorSize - 1 -> Nat]]
  BY DEF Abstract!Per, Blocks, Sector
<1> HIDE DEF image
<1>3. Abstract!Scrap
  BY <1>1, <1>2, Zenon DEF Abstract!Scrap, image
<1> QED
  BY <1>3 DEF Steps, Abstract!Next

\* Whole sectors are moved.
LEMMA DirectDrives ==
  ASSUME IInv, DInv, At("TRANSFER"), cpu.btr >= SectorSize, UNCHANGED owner,
         NEW f, SameFile(fp, f), f.fptr = fp.fptr,
         NEW j, NEW k, Entering(medium, owner.name, f, j, k),
         NEW cc, cc = (IF cpu.btr \div SectorSize > f.sect_clust THEN f.sect_clust
                       ELSE cpu.btr \div SectorSize),
         Direct(f, f.curr_sect, cc)
  PROVE  DInv' /\ Steps
<1> DEFINE s == f.curr_sect
           g == [f EXCEPT !.sect_clust = @ - (cc - 1), !.curr_sect = @ + (cc - 1)]
           Got(l) == [b \in Blocks |-> IF b \in request.done .. request.done + l - 1
                                       THEN Contents(slot, s + b - request.done) ELSE buffer[b]]
           Sent(l) == IF request.op = "WRITE" THEN written' = Store(s, l) /\ UNCHANGED buffer
                      ELSE buffer' = Got(l) /\ UNCHANGED written
<1>1. /\ Asked /\ Holding /\ cpu.btr \in Nat /\ cpu.btr > 0 /\ SectorSize \in Nat
      /\ cpu = [x \in {"at", "why", "path", "dj", "ofs", "btr", "cut"} |-> cpu[x]]
  BY OneVars, SizesAssumption DEF Asked, At, Holding, Reading, Shape
<1>2. /\ ~noinit /\ owner # NoOne /\ Mounting /\ owner.card = medium
      /\ OfImage(medium, owner.name, fp) /\ fp.fptr \in Nat /\ fp.fsize \in Nat
  BY <1>1, Held, Chain
<1>3. /\ request \in Request /\ request # NoRequest /\ request.op \in {"READ", "WRITE"}
      /\ Placing(request) * FddSize < OffsetMod /\ FirstBlock \in Int
      /\ buffer \in [Blocks -> Sector] /\ answer = "NONE"
  BY <1>1, AskedIs
<1>4. LET per == Layout(medium).sects_clust IN
      /\ OnWay /\ request.done \in 0 .. 1 /\ k \in 0 .. per - 1 /\ f.sect_clust = per - k
      /\ per \in Nat /\ s \in Nat
  BY <1>1, BlockAt
<1>5. f.sect_clust \in Nat /\ f.sect_clust > 0
  BY <1>4
<1>6. cc \in Nat /\ cc > 0 /\ cc <= f.sect_clust /\ cc * SectorSize <= cpu.btr
  BY <1>1, <1>5, CountFacts
<1>7. /\ request.done + cc <= 2
      /\ \A d \in request.done .. request.done + cc - 1 :
           InImage(d) /\ OwnerSectors[FirstBlock + d + 1] = s + (d - request.done)
  BY <1>1, <1>6, BlocksAt
\* Any of them.
<1>8. ASSUME Alive, NEW num \in 1 .. cc, Sent(num)
      PROVE  Abstract!Moved(num) /\ Blocked'
  <2>1. num \in Nat /\ request.done + num <= 2
        /\ \A d \in request.done .. request.done + num - 1 : d \in request.done .. request.done + cc - 1
    BY <1>4, <1>6, <1>7
  <2>2. \A d \in request.done .. request.done + num - 1 :
          InImage(d) /\ OwnerSectors[FirstBlock + d + 1] = s + (d - request.done)
    BY <1>7, <2>1
  <2>3. CASE request.op = "READ"
    <3>1. buffer' = Got(num) /\ UNCHANGED written
      BY <1>8, <2>3
    <3> QED
      BY <1>1, <1>4, <1>8, <2>1, <2>2, <2>3, <3>1, ReadMoves
  <2>4. CASE request.op = "WRITE"
    <3>1. written' = Store(s, num) /\ UNCHANGED buffer
      BY <1>8, <2>4
    <3> QED
      BY <1>1, <1>4, <1>8, <2>1, <2>2, <2>4, <3>1, WriteMoves
  <2> QED
    BY <1>3, <2>3, <2>4
<1>9. \/ /\ Alive /\ Forth(g, cc * SectorSize) /\ Sent(cc)
         /\ request' = [request EXCEPT !.done = @ + cc] /\ UNCHANGED answer
      \/ /\ ~Alive \/ noinit \/ bad
         /\ Break(f)
         /\ \/ UNCHANGED <<written, buffer>>
            \/ Alive /\ \E num \in 1 .. cc : Sent(num)
  BY DEF Direct
<1> HIDE DEF Sent, g
<1>10. CASE /\ Alive /\ Forth(g, cc * SectorSize) /\ Sent(cc)
            /\ request' = [request EXCEPT !.done = @ + cc] /\ UNCHANGED answer
  <2>1. cc \in 1 .. cc /\ cc \in 1 .. 2
    BY <1>4, <1>6, <1>7
  <2>2. Abstract!Moved(cc) /\ Blocked'
    BY <1>8, <1>10, <2>1
  <2>3. Steps
    BY <1>3, <1>7, <1>10, <2>1, <2>2, MoveSteps
  <2>4. /\ request' \in Request /\ request'.done = request.done + cc
        /\ Placing(request') = Placing(request)
    <3>1. /\ request'.op = request.op /\ request'.side = request.side /\ request'.track = request.track
          /\ request'.sector = request.sector /\ request'.done = request.done + cc
      BY <1>3, <1>10 DEF Request
    <3>2. request' \in Request
      BY <1>3, <1>4, <1>6, <1>7, <1>10 DEF Request
    <3> QED
      BY <3>1, <3>2 DEF Placing
  <2>5. FirstBlock' = FirstBlock
    BY <2>4 DEF FirstBlock
  <2> DEFINE b == cc * SectorSize
             u == (FirstBlock + request.done) * SectorSize
  <2>6. fp' = [g EXCEPT !.fptr = @ + b] /\ cpu' = [cpu EXCEPT !.btr = @ - b]
    BY <1>10 DEF Forth
  <2>7. cpu'.at = "TRANSFER" /\ cpu'.btr = cpu.btr - b
    BY <1>1, <2>6 DEF At
  <2>8. fp'.fptr = fp.fptr + b /\ fp'.fsize = fp.fsize
    BY <2>6 DEF SameFile, IsFile, g
  <2>9. u + b = (FirstBlock + request.done + cc) * SectorSize /\ b \in Nat
    <3> DEFINE p == FirstBlock + request.done
    <3>1. p \in Int
      BY <1>3, <1>4
    <3> HIDE DEF p
    <3>2. p * SectorSize + cc * SectorSize = (p + cc) * SectorSize
      BY <1>1, <1>6, <3>1, SMT
    <3>3. cc * SectorSize \in Nat
      BY <1>1, <1>6, SMT
    <3> QED
      BY <3>2, <3>3 DEF p
  <2>10. fp.fptr = u
    BY <1>4 DEF OnWay
  <2>11. fp'.fptr = (FirstBlock + (request.done + cc)) * SectorSize
    <3>1. FirstBlock + (request.done + cc) = FirstBlock + request.done + cc
      BY <1>3, <1>4, <1>6
    <3> HIDE DEF u, b
    <3> QED
      BY <2>8, <2>9, <2>10, <3>1
  <2>12. fp'.fptr + cpu'.btr = fp.fptr + cpu.btr
    <3> HIDE DEF b
    <3> QED
      BY <1>1, <1>2, <2>7, <2>8, <2>9
  <2>13. OnWay'
    <3>1. /\ fp.fptr + cpu.btr <= (FirstBlock + 2) * SectorSize
          /\ fp.fptr + cpu.btr \in {(FirstBlock + 2) * SectorSize, fp.fsize}
      BY <1>4 DEF OnWay
    <3> QED
      BY <2>4, <2>5, <2>8, <2>11, <2>12, <3>1 DEF OnWay
  <2>14. Aiming'
    BY <2>7, <2>13 DEF Aiming, At
  <2>15. Answering'
    BY <1>3, <1>10, <2>4, <2>7 DEF Answering, Asked, At
  <2> QED
    BY <2>2, <2>3, <2>14, <2>15 DEF DInv
<1>11. CASE /\ ~Alive \/ noinit \/ bad
            /\ Break(f)
            /\ \/ UNCHANGED <<written, buffer>>
               \/ Alive /\ \E num \in 1 .. cc : Sent(num)
  <2>1. Faulty /\ Failed
    BY <1>2, <1>11 DEF Faulty, Break
  <2>2. CASE UNCHANGED <<written, buffer>>
    BY <1>1, <2>1, <2>2, FailDrives
  <2>3. CASE Alive /\ \E num \in 1 .. cc : Sent(num)
    <3>1. PICK num \in 1 .. cc : Sent(num)
      BY <2>3
    <3>2. Abstract!Moved(num) /\ Blocked'
      BY <1>8, <2>3, <3>1
    <3>3. cpu'.at = "FAILED" /\ answer' = "ERROR" /\ request' = NoRequest
      BY <2>1 DEF Failed, Resting
    <3>4. num \in 1 .. 2 - request.done
      BY <1>4, <1>6, <1>7
    <3>5. Steps
      BY <1>2, <1>3, <2>1, <3>2, <3>3, <3>4, FailMoves
    <3>6. Answering' /\ Aiming'
      BY <3>3 DEF Answering, Aiming, Asked, At
    <3> QED
      BY <3>2, <3>5, <3>6 DEF DInv
  <2> QED
    BY <1>11, <2>2, <2>3
<1> QED
  BY <1>9, <1>10, <1>11

\* The end of the image is moved through the window.
LEMMA FractionDrives ==
  ASSUME IInv, DInv, At("TRANSFER"), cpu.btr > 0, cpu.btr < SectorSize, UNCHANGED owner,
         NEW f, SameFile(fp, f), f.fptr = fp.fptr,
         NEW j, NEW k, Entering(medium, owner.name, f, j, k), NEW w, Shows(w), Fraction(f, w)
  PROVE  DInv' /\ Steps
<1> DEFINE n   == owner.name
           btr == cpu.btr
           s   == f.curr_sect
<1>1. /\ Asked /\ Holding /\ btr \in Nat /\ SectorSize \in Nat /\ SectorSize > 0
      /\ cpu = [x \in {"at", "why", "path", "dj", "ofs", "btr", "cut"} |-> cpu[x]]
  BY OneVars, SizesAssumption DEF Asked, At, Holding, Reading, Shape
<1>2. /\ ~noinit /\ owner # NoOne /\ Mounting /\ owner.card = medium /\ medium \in Cards
      /\ Formatted(medium) /\ n \in DOMAIN Files[medium]
      /\ OfImage(medium, n, fp) /\ Sending(fp, btr)
      /\ fp.fptr \in Nat /\ fp.fsize \in Nat /\ fp.fptr <= fp.fsize
  BY <1>1, Held, Chain, OneVars DEF Moving
<1>3. /\ request \in Request /\ request # NoRequest /\ FirstBlock \in Int
      /\ Placing(request) * FddSize < OffsetMod
      /\ buffer \in [Blocks -> Sector] /\ answer = "NONE" /\ Blocked
  BY <1>1, AskedIs DEF DInv
<1>4. fp.fptr % SectorSize = 0 /\ fp.fptr + btr = fp.fsize
  <2>1. 0 * SectorSize <= btr /\ btr < (0 + 1) * SectorSize
    BY <1>1
  <2>2. btr % SectorSize = btr - (0 * SectorSize)
    BY <1>1, <2>1, DivIs
  <2>3. btr % SectorSize # 0
    BY <1>1, <2>2
  <2> QED
    BY <1>2, <2>3 DEF Sending
<1>5. LET per == Layout(medium).sects_clust IN
      /\ OnWay /\ request.done \in 0 .. 1 /\ k \in 0 .. per - 1 /\ per \in Nat
      /\ \A z \in Nat : k + z < per =>
           /\ FirstBlock + request.done + z \in 0 .. Len(OwnerSectors) - 1
           /\ OwnerSectors[FirstBlock + request.done + z + 1] = s + z
      /\ s \in Nat /\ s # 0
  BY BlockAt
<1>6. s \in Own(medium)
  <2> DEFINE i == FirstBlock + request.done + 1
  <2>1. i \in 1 .. Len(OwnerSectors) /\ OwnerSectors[i] = s
    <3>1. k + 0 < Layout(medium).sects_clust
      BY <1>5
    <3>2. /\ FirstBlock + request.done + 0 \in 0 .. Len(OwnerSectors) - 1
          /\ OwnerSectors[FirstBlock + request.done + 0 + 1] = s + 0
      BY <1>5, <3>1
    <3>3. FirstBlock + request.done + 0 + 1 = i /\ s + 0 = s /\ FirstBlock + request.done + 0 + 1 \in Int
      BY <1>3, <1>5
    <3> QED
      BY <1>3, <1>5, <3>2, <3>3
  <2> HIDE DEF i
  <2> QED
    BY <1>2, <2>1, ImageFacts DEF OwnerSectors
<1>7. Partial(medium, s)
  <2>1. OfImage(medium, n, f)
    BY <1>2, OfImageKept DEF SameFile
  <2> QED
    BY <1>1, <1>2, <1>4, <2>1, FractionPartial DEF SameFile
<1>8. PICK m \in MoveWindow(w, s) :
        /\ UNCHANGED written
        /\ IF ~m.ok THEN Break(f) /\ UNCHANGED buffer
           ELSE LET off == f.fptr % SectorSize
                    l   == IF SectorSize - off > btr THEN btr ELSE SectorSize - off
                IN /\ Forth(f, l)
                   /\ buffer' = [buffer EXCEPT ![request.done] =
                        [i \in 0 .. SectorSize - 1 |-> IF i < l THEN m.win.data[off + i] ELSE @[i]]]
                   /\ UNCHANGED <<request, answer>>
  BY DEF Fraction
<1>9. m.ok \in BOOLEAN /\ (m.ok => m.win.data = Contents(medium, s))
  BY <1>2, <1>5, <1>7, MoveWindowShows
<1>10. CASE ~m.ok
  <2>1. Failed /\ UNCHANGED <<written, buffer>>
    BY <1>8, <1>10 DEF Break
  <2>2. Faulty
    <3> SUFFICES ASSUME Alive, ~bad PROVE FALSE
      BY DEF Faulty
    <3>1. Works /\ slot = medium
      BY <1>2 DEF Works, Mounting, Mount
    <3>2. s \in DOMAIN Volume[slot]
      BY <1>2, <1>6, <3>1, DriveAssumption
    <3> QED
      BY <1>10, <3>1, <3>2, MoveWindowWorks
  <2> QED
    BY <1>1, <2>1, <2>2, FailDrives
<1>11. CASE m.ok
  <2>1. SectorSize - 0 > btr
    BY <1>1
  <2>2. /\ Forth(f, btr) /\ UNCHANGED <<written, request, answer>>
        /\ buffer' = [buffer EXCEPT ![request.done] =
             [i \in 0 .. SectorSize - 1 |-> IF i < btr THEN m.win.data[0 + i] ELSE @[i]]]
    BY <1>4, <1>8, <1>11, <2>1
  <2>3. cpu'.at = "TRANSFER" /\ cpu'.btr = 0
    BY <1>1, <2>2 DEF Forth, At
  <2>4. m.win.data \in Sector
    <3>1. Contents(medium, s) = Stored(written, medium, s)
      BY DEF Contents, Stored
    <3> QED
      BY <1>2, <1>3, <1>6, <1>9, <1>11, <3>1, StoredIs DEF Blocked
  <2>5. buffer' \in [Blocks -> Sector]
    <3> DEFINE new == [i \in 0 .. SectorSize - 1 |->
                         IF i < btr THEN m.win.data[0 + i] ELSE buffer[request.done][i]]
    <3>1. request.done \in Blocks
      BY <1>5 DEF Blocks
    <3>2. buffer[request.done] \in Sector
      BY <1>3, <3>1
    <3>3. new \in Sector
      <4>1. \A i \in 0 .. SectorSize - 1 : 0 + i = i
        OBVIOUS
      <4> QED
        BY <2>4, <3>2, <4>1 DEF Sector
    <3>4. buffer' = [buffer EXCEPT ![request.done] = new]
      BY <2>2
    <3> HIDE DEF new
    <3> QED
      BY <1>3, <3>3, <3>4
  <2>6. \A b \in 0 .. request.done - 1 : buffer'[b] = buffer[b]
    BY <1>3, <1>5, <2>2 DEF Blocks
  <2>7. NoMore
    <3> DEFINE p == FirstBlock + request.done
    <3>1. p \in Int
      BY <1>3, <1>5
    <3>2. (p + 1) * SectorSize = p * SectorSize + SectorSize /\ p * SectorSize \in Int
      <4> HIDE DEF p
      <4> QED
        BY <1>1, <3>1, SMT
    <3>3. fp.fptr = p * SectorSize
      BY <1>5 DEF OnWay
    <3>4. fp.fsize < (p + 1) * SectorSize
      <4> DEFINE u == p * SectorSize
                 v == (p + 1) * SectorSize
      <4>1. v = u + SectorSize /\ u \in Int /\ fp.fptr = u
        BY <3>2, <3>3
      <4> HIDE DEF u, v
      <4> QED
        BY <1>1, <1>2, <1>4, <4>1 DEF v
    <3>5. request.done \in Int /\ fp.fsize < (FirstBlock + request.done + 1) * SectorSize
      BY <1>5, <3>4
    <3>6. \A b \in Int : b >= request.done => ~InImage(b)
      BY <1>1, <1>3, <3>5, Past, Zenon
    <3> QED
      BY <1>5, <3>6 DEF NoMore
  <2>8. Abstract!Over
    BY <1>1, <1>3, <1>5, <2>7, Overs
  <2>9. Steps
    BY <1>5, <2>2, <2>5, <2>6, <2>8, ScrapSteps
  <2>10. NoMore' = NoMore /\ Placing(request') = Placing(request)
    BY <2>2 DEF NoMore, InImage, FirstBlock, Placing
  <2>11. Aiming'
    BY <2>3, <2>7, <2>10 DEF Aiming, At
  <2>12. Answering'
    BY <1>3, <2>2, <2>3, <2>10 DEF Answering, Asked, At
  <2>13. Blocked'
    BY <1>3, <2>2, <2>5, BlockedKept
  <2> QED
    BY <2>9, <2>11, <2>12, <2>13 DEF DInv
<1> QED
  BY <1>9, <1>10, <1>11

\* One turn of the loop.
LEMMA TurnDrives ==
  ASSUME IInv, DInv, Turn
  PROVE  DInv' /\ Steps
<1> DEFINE n    == owner.name
           Count(f) == IF cpu.btr \div SectorSize > f.sect_clust THEN f.sect_clust
                       ELSE cpu.btr \div SectorSize
<1>1. At("TRANSFER") /\ cpu.btr > 0 /\ UNCHANGED owner
  BY DEF Turn
<1>2. Asked /\ Holding
  BY <1>1 DEF Asked, At, Holding, Reading
<1>3. /\ Mounting /\ Written /\ Window /\ cpu.btr \in Nat /\ ~noinit
      /\ OfImage(medium, n, fp) /\ Placed(medium, n, fp) /\ Sending(fp, cpu.btr)
  BY <1>1, <1>2, Held, OneVars DEF Opening, Moving, Shape, At
<1>4. fp.fptr % SectorSize = 0 /\ SectorSize \in Nat
  BY <1>1, <1>3, SizesAssumption DEF Sending
<1>5. Shows(win)
  BY <1>3, WindowShows
<1>6. PICK x \in NextSector(win) :
        IF ~x.ok THEN Break(x.fp) /\ UNCHANGED <<written, buffer>>
        ELSE IF cpu.btr < SectorSize THEN Fraction(x.fp, x.win)
        ELSE Direct(x.fp, x.fp.curr_sect, Count(x.fp))
  BY <1>4 DEF Turn
<1>7. /\ Shows(x.win) /\ x.ok \in BOOLEAN /\ SameFile(fp, x.fp) /\ x.fp.fptr = fp.fptr
      /\ x.ok => \E j, k : Entering(medium, n, x.fp, j, k)
  BY <1>3, <1>4, <1>5, NextSectorIs
<1>8. CASE ~x.ok
  <2>1. Failed /\ UNCHANGED <<written, buffer>>
    BY <1>6, <1>8 DEF Break
  <2>2. Faulty
    <3> SUFFICES ASSUME Alive, ~bad PROVE Broken
      BY DEF Faulty
    <3>1. Len(OwnerSectors) * SectorSize <= fp.fptr
      BY <1>2, <1>3, <1>4, <1>8, NextSectorEnds DEF Works
    <3>2. fp.fptr \in Int /\ fp.fptr < fp.fsize
      <4>1. fp.fptr \in Nat /\ fp.fsize \in Nat /\ fp.fptr + cpu.btr <= fp.fsize
        BY <1>3, Chain DEF Sending
      <4> QED
        BY <1>1, <1>3, <4>1
    <3> QED
      BY <1>2, <3>1, <3>2, BrokenIs
  <2> QED
    BY <1>1, <1>2, <2>1, <2>2, FailDrives
<1>9. CASE x.ok /\ cpu.btr < SectorSize
  <2>1. Fraction(x.fp, x.win)
    BY <1>6, <1>9
  <2>2. PICK j, k : Entering(medium, n, x.fp, j, k)
    BY <1>7, <1>9
  <2> QED
    BY <1>1, <1>7, <1>9, <2>1, <2>2, FractionDrives
<1>10. CASE x.ok /\ ~(cpu.btr < SectorSize)
  <2>1. Direct(x.fp, x.fp.curr_sect, Count(x.fp))
    BY <1>6, <1>10
  <2>2. PICK j, k : Entering(medium, n, x.fp, j, k)
    BY <1>7, <1>10
  <2>3. cpu.btr >= SectorSize
    BY <1>3, <1>4, <1>10
  <2> QED
    BY <1>1, <1>7, <2>1, <2>2, <2>3, DirectDrives
<1> QED
  BY <1>7, <1>8, <1>9, <1>10

-----------------------------------------------------------------------------
(* The files are a drive. *)

\* At first there is no image.
LEMMA InitDrives == Init => DInv /\ Abstract!Init
<1> SUFFICES ASSUME Init PROVE DInv /\ Abstract!Init
  OBVIOUS
<1>1. /\ cpu = Resting /\ written = [c \in Cards |-> <<>>] /\ owner = NoOne
      /\ request = NoRequest /\ answer = "NONE" /\ buffer = Empty
  BY DEF Init
<1>2. cpu.at = "START"
  BY <1>1 DEF Resting
<1>3. buffer \in [Blocks -> Sector]
  <2>1. 0 \in Nat
    OBVIOUS
  <2> QED
    BY <1>1, <2>1 DEF Empty, Sector
<1>4. Blocked
  BY <1>1, <1>3 DEF Blocked
<1>5. Answering /\ Aiming
  BY <1>1, <1>2 DEF Answering, Aiming, Asked, At
<1>6. buffer \in [0 .. Abstract!Per - 1 -> [0 .. SectorSize - 1 -> Nat]]
  BY <1>3 DEF Abstract!Per, Blocks, Sector
<1>7. Abstract!Init
  BY <1>1, <1>6 DEF Abstract!Init
<1> QED
  BY <1>4, <1>5, <1>7 DEF DInv

\* Each step is one of the drive, or none.
LEMMA StepDrives == IInv /\ DInv /\ [Next]_vars => DInv' /\ Steps
<1> SUFFICES ASSUME IInv, DInv, [Next]_vars PROVE DInv' /\ Steps
  OBVIOUS
<1>1. CASE PhilesMount \/ StillMounted \/ Remount \/ FindVolume
  BY <1>1, MountingDrives
<1>2. CASE BadName \/ Refused
  BY <1>2, RefusingDrives
<1>3. CASE Trace
  BY <1>3, TraceDrives
<1>4. CASE NextFile
  BY <1>4, NextFileDrives
<1>5. CASE Browse \/ Close
  BY <1>5, MenuDrives
<1>6. CASE NoSd \/ Pick
  BY <1>6, QuitDrives
<1>7. CASE Ask \/ LSeek \/ Follow \/ Turn \/ Done \/ Acked
  BY <1>7, AskDrives, LSeekDrives, FollowDrives, TurnDrives, DoneDrives, AckedDrives
<1>8. CASE Swap \/ Wobble \/ UNCHANGED vars
  <2>1. UNCHANGED <<cpu, fp, owner, written, request, buffer, answer>>
    BY <1>8 DEF Swap, Wobble, vars, fsvars, choice, floppy
  <2> QED
    BY <2>1, CardDrives
<1> QED
  BY <1>1, <1>2, <1>3, <1>4, <1>5, <1>6, <1>7, <1>8 DEF Next, Work

\* The emulator gets from the files what it expects of its card: whatever is
\* requested, the blocks of the image that is open are moved in their order,
\* the answer tells of every error but the end of the image, and an error is
\* the fault of the card.
THEOREM DriveCorrect == Spec => IsDrive
<1>1. Init => IInv /\ DInv /\ Abstract!Init
  BY InitHolds, InitDrives
<1>2. IInv /\ DInv /\ [Next]_vars => IInv' /\ DInv' /\ [Abstract!Next]_(Abstract!vars)
  BY StepKeeps, StepDrives DEF Steps
<1> QED
  BY <1>1, <1>2, PTL DEF Spec, IsDrive, Abstract!Spec
=============================================================================
