------------------------------ MODULE ImageInv ------------------------------
(***************************************************************************)
(* What has to be true of the cards for the files to be served from them,  *)
(* and the invariant that Image keeps on such cards.                       *)
(***************************************************************************)
EXTENDS Image

ASSUME SizesAssumption ==
  /\ SectorSize \in Nat \ {0} /\ SectorSize % 2 = 0
  /\ PerSector \in Nat /\ PerSector > 2
  /\ NameLen \in Nat \ {0} /\ ExtLen \in Nat \ {0}
  /\ NSectors \in Nat /\ OffsetMod \in Nat \ {0} /\ OffsetMod % FddSize = 0
  /\ MakeDirfile(DirName) # <<>>
  /\ \A r \in Requests : r.side \in Nat /\ r.track \in Nat /\ r.sector \in Nat

-----------------------------------------------------------------------------
\* A card.  Its boot record is in sector 0 or in the first partition.
Shipped(c, s) == [ok |-> TRUE, data |-> Volume[c][s]]
BootSect(c)   == IF CheckFs(Shipped(c, 0)) = 1 /\ Volume[c][0].part # 0
                 THEN Volume[c][0].part ELSE 0
Formatted(c)  == /\ {0, BootSect(c)} \subseteq DOMAIN Volume[c]
                 /\ CheckFs(Shipped(c, BootSect(c))) = 0
                 /\ Volume[c][BootSect(c)].bytes = SectorSize
Layout(c)     == FatFs(Volume[c][BootSect(c)], BootSect(c), 0)

\* Its clusters, what the FAT has about them, and their sectors.
Clusters(c)     == 2 .. Layout(c).max_clust - 1
Table12(k)      == (k * 3) \div 2
FatEntry(c, k)  ==
  LET f(s) == Volume[c][Layout(c).fatbase + s]
  IN IF Layout(c).type = 16
     THEN f(k \div Half)[(k * 2) % SectorSize] + (256 * f(k \div Half)[((k * 2) % SectorSize) + 1])
     ELSE Fat12(k, f(Table12(k) \div SectorSize)[Table12(k) % SectorSize],
                   f((Table12(k) + 1) \div SectorSize)[(Table12(k) + 1) % SectorSize])
FatLast(c, k)   == Layout(c).fatbase + (IF Layout(c).type = 16 THEN k \div Half
                                        ELSE (Table12(k) + 1) \div SectorSize)
FirstSect(c, k) == (k - 2) * Layout(c).sects_clust + Layout(c).database
SectsOf(c, k)   == FirstSect(c, k) .. FirstSect(c, k) + Layout(c).sects_clust - 1

\* The clusters from k on: those in every set that has k and follows the FAT.
Onward(c, k) ==
  {x \in Clusters(c) : \A S \in SUBSET Clusters(c) :
     (k \in S /\ \A y \in S : FatEntry(c, y) \in Clusters(c) => FatEntry(c, y) \in S) => x \in S}
Beyond(c, k) == IF FatEntry(c, k) \in Clusters(c) THEN Onward(c, FatEntry(c, k)) ELSE {}

-----------------------------------------------------------------------------
\* The slots of the root directory, and those of a directory in clusters from
\* place d on: its sectors and the indices in them.
Live(e)         == ~Ends(e) /\ Valid(e)
RootSlots(c)    == 0 .. Layout(c).n_rootdir - 1
RootSect(c, i)  == Layout(c).dirbase + i \div PerSector
RootEntry(c, i) == Volume[c][RootSect(c, i)][i % PerSector]
SlotEntry(c, p) == Volume[c][p[1]][p[2]]
After(c, d)     == {s \in SectsOf(c, d.clust) : s > d.sect}
                     \union UNION {SectsOf(c, k) : k \in Beyond(c, d.clust)}
Coming(c, d)    == ({d.sect} \X (d.index % PerSector .. PerSector - 1))
                     \union (After(c, d) \X (0 .. PerSector - 1))

\* The directory of the images, behind its "." and "..".
IsFolder(c, i) == /\ Live(RootEntry(c, i)) /\ RootEntry(c, i).attr = "DIR"
                  /\ RootEntry(c, i).name = MakeDirfile(DirName)
Folders(c)  == {RootEntry(c, i).clust : i \in {j \in RootSlots(c) : IsFolder(c, j)}}
Top(c, k)   == [clust |-> k, sect |-> FirstSect(c, k), index |-> 2]
Listing(c)  == UNION {Coming(c, Top(c, k)) : k \in Folders(c)}
Images(c)   == {SlotEntry(c, p) : p \in {q \in Listing(c) : /\ Live(SlotEntry(c, q))
                                                            /\ IsImage(SlotEntry(c, q))}}

\* The sectors of the images.
Own(c) == UNION {{Files[c][n].sectors[i] : i \in DOMAIN Files[c][n].sectors} : n \in DOMAIN Files[c]}

-----------------------------------------------------------------------------
\* The tables lie one behind the other and the FAT has an entry for each
\* cluster.
SoundLayout(c) ==
  LET l == Layout(c) IN
  /\ l.fatbase \in Nat /\ BootSect(c) \in Nat /\ BootSect(c) < l.fatbase
  /\ l.dirbase \in Nat /\ l.database \in Nat /\ l.max_clust \in Nat
  /\ l.fatbase <= l.dirbase /\ l.sects_clust \in Nat \ {0}
  /\ l.n_rootdir \in Nat \ {0} /\ l.n_rootdir % PerSector = 0
  /\ \A i \in RootSlots(c) : RootSect(c, i) < l.database
  /\ \A k \in Clusters(c) : FatLast(c, k) < l.database /\ FatEntry(c, k) \in Nat

\* Directories: names are unique in them, free slots follow a slot that ends
\* them, and their clusters are not those of images.
SoundRoot(c) ==
  /\ Folders(c) \subseteq Clusters(c)
  /\ \A i, j \in RootSlots(c) :
       /\ i < j /\ Ends(RootEntry(c, i)) => ~Live(RootEntry(c, j))
       /\ Live(RootEntry(c, i)) /\ Live(RootEntry(c, j)) /\ i # j
            => RootEntry(c, i).name # RootEntry(c, j).name
\* A name is filled up with blanks, and has no others, no dot, and nothing
\* that is rejected in a path: b characters, and x of the extension.  So it
\* is spelled without the blanks and with the dot.
Filled(nm, b, x) ==
  /\ nm \in Seq(STRING) /\ Len(nm) = NameLen + ExtLen
  /\ b \in 1 .. NameLen /\ x \in 0 .. ExtLen
  /\ \A i \in 1 .. NameLen + ExtLen :
       IF (b < i /\ i <= NameLen) \/ NameLen + x < i THEN nm[i] = " "
       ELSE nm[i] \notin Rejected \union {"."} \union DOMAIN Capital
Spelling(nm, b, x) == SubSeq(nm, 1, b)
  \o (IF x = 0 THEN <<>> ELSE <<".">> \o SubSeq(nm, NameLen + 1, NameLen + x))
SoundName(nm)  == \E b \in 1 .. NameLen, x \in 0 .. ExtLen : Filled(nm, b, x)
Spells(n, nm)  == \E b \in 1 .. NameLen, x \in 0 .. ExtLen :
                    Filled(nm, b, x) /\ n = Spelling(nm, b, x)
SoundListing(c) ==
  /\ \A p \in Listing(c) : p[1] \notin Own(c)
  /\ \A p \in Listing(c) : Live(SlotEntry(c, p)) => SoundName(SlotEntry(c, p).name)
  /\ \A p, q \in Listing(c) :
       Live(SlotEntry(c, p)) /\ Live(SlotEntry(c, q)) /\ p # q
         => SlotEntry(c, p).name # SlotEntry(c, q).name
  /\ \A k \in Folders(c) : \A x \in {k} \union Onward(c, k) : \A s \in SectsOf(c, x) :
       \A i \in 0 .. PerSector - 1 :
         Ends(Volume[c][s][i]) =>
           \A p \in Coming(c, [clust |-> x, sect |-> s, index |-> i]) : ~Live(SlotEntry(c, p))

\* An image and its entry: a chain of clusters that ends, or has none.
Describes(c, f, e) ==
  LET per == Layout(c).sects_clust IN
  /\ f.size = e.size /\ f.size \in Nat /\ e.clust \in Nat
  /\ f.clusts \in Seq(Clusters(c)) /\ f.sectors \in Seq(Nat)
  /\ Len(f.sectors) = Len(f.clusts) * per
  /\ \A j \in DOMAIN f.clusts : \A k \in 0 .. per - 1 :
       f.sectors[(j - 1) * per + k + 1] = FirstSect(c, f.clusts[j]) + k
  /\ IF f.clusts = <<>> THEN e.clust = 0 \/ (f.size = 0 /\ e.clust \notin Clusters(c))
     ELSE /\ e.clust = f.clusts[1]
          /\ \A j \in 1 .. Len(f.clusts) - 1 : FatEntry(c, f.clusts[j]) = f.clusts[j + 1]
          /\ FatEntry(c, f.clusts[Len(f.clusts)]) \notin Clusters(c)
\* Files says what the directory lists; images share no sector.  A name that
\* was never listed opens an image or nothing.
SoundFiles(c) ==
  /\ \A e \in Images(c) : \E n \in DOMAIN Files[c] : Spells(n, e.name)
  /\ \A n \in DOMAIN Files[c] : \E e \in Images(c) :
       Spells(n, e.name) /\ Describes(c, Files[c][n], e)
  /\ \A m, n \in DOMAIN Files[c] :
     \A i \in DOMAIN Files[c][m].sectors, j \in DOMAIN Files[c][n].sectors :
       Files[c][m].sectors[i] = Files[c][n].sectors[j] => m = n /\ i = j
  /\ \A p \in Listing(c) : \A o \in Odd \union {NoName} :
       /\ Live(SlotEntry(c, p)) /\ SlotEntry(c, p).attr # "DIR"
       /\ SlotEntry(c, p).name = MakeDirfile(o)
       => IsImage(SlotEntry(c, p))

ASSUME CardsAssumption ==
  \A c \in Cards :
    IF Formatted(c)
    THEN SoundLayout(c) /\ SoundRoot(c) /\ SoundListing(c) /\ SoundFiles(c)
    ELSE DOMAIN Files[c] = {}

-----------------------------------------------------------------------------
\* Places and file objects, on card c.

\* A sector with the end of an image in it.
Partial(c, s) == \E n \in DOMAIN Files[c] : \E i \in DOMAIN Files[c][n].sectors :
                   Files[c][n].sectors[i] = s /\ i * SectorSize > Files[c][n].size

\* A directory object in the root, no further than the directory of the
\* images, and one in that directory.
IsPlace(d) == d = [x \in {"clust", "sect", "index", "id"} |-> d[x]]
RootPlace(c, d) ==
  /\ IsPlace(d)
  /\ d.clust = 0 /\ d.index \in RootSlots(c) /\ d.sect = RootSect(c, d.index)
  /\ \A i \in RootSlots(c) : IsFolder(c, i) => i >= d.index
FolderPlace(c, d) ==
  /\ IsPlace(d)
  /\ d.clust \in Clusters(c) /\ d.index \in Nat
  /\ \E k \in Folders(c) : d.clust \in {k} \union Onward(c, k)
  /\ d.sect = FirstSect(c, d.clust) + ((d.index \div PerSector) % Layout(c).sects_clust)
  /\ Coming(c, d) \subseteq Listing(c)
\* The image with name n is still to come.
Ahead(c, n, d) == \E p \in Coming(c, d) : /\ Live(SlotEntry(c, p)) /\ IsImage(SlotEntry(c, p))
                                          /\ Spells(n, SlotEntry(c, p).name)

\* File object f is of image n,
IsFile(f) == f = [x \in {"open", "id", "err", "fptr", "fsize", "org", "sect_clust", "curr_clust",
                         "curr_sect"} |-> f[x]]
OfImage(c, n, f) ==
  /\ n \in DOMAIN Files[c] /\ IsFile(f)
  /\ f.fsize = Files[c][n].size /\ f.fptr \in Nat /\ f.fptr <= f.fsize
  /\ \E e \in Images(c) : f.org = e.clust /\ Describes(c, Files[c][n], e)
\* and stands at the top, or in or behind sector k of its cluster j,
In(c, n, f, j, k) ==
  LET per == Layout(c).sects_clust  last == (j - 1) * per + k IN
  /\ last * SectorSize < f.fptr /\ f.fptr <= (last + 1) * SectorSize
  /\ f.curr_clust = Files[c][n].clusts[j] /\ f.sect_clust = per - k
  /\ f.sect_clust > 1 \/ f.fptr < (last + 1) * SectorSize
       => f.curr_sect = FirstSect(c, Files[c][n].clusts[j]) + k
Placed(c, n, f) ==
  \/ f.fptr = 0 /\ f.sect_clust = 1
  \/ \E j \in DOMAIN Files[c][n].clusts : \E k \in 0 .. Layout(c).sects_clust - 1 : In(c, n, f, j, k)
\* or is on its way, at the top of a cluster.
Even(f, end) == end % SectorSize = 0 \/ end = f.fsize
Heading(c, n, f, ofs) ==
  /\ \E j \in DOMAIN Files[c][n].clusts :
       /\ f.curr_clust = Files[c][n].clusts[j]
       /\ f.fptr = ((j - 1) * Layout(c).sects_clust) * SectorSize
  /\ ofs > 0 /\ f.fptr + ofs <= f.fsize /\ Even(f, f.fptr + ofs)
\* The bytes that are to be moved: whole sectors, but for the end of the file.
Sending(f, btr) ==
  /\ f.fptr + btr <= f.fsize
  /\ btr > 0 => f.fptr % SectorSize = 0
  /\ btr % SectorSize = 0 \/ f.fptr + btr = f.fsize

-----------------------------------------------------------------------------
\* The invariant.  Where the workhorse has an image open:
Reading == {"SERVE", "SEEK", "FOLLOW", "TRANSFER", "ANSWERED", "FAILED"}
Holding == cpu.at \in Reading \/ cpu.why = "browse"

\* What each place of the program knows of its locals.
WholePath == cpu.path = IF cpu.why = "open" THEN <<DirName, imagefile>> ELSE <<DirName>>
InFolder  == cpu.why = "open" /\ cpu.path = <<imagefile>>
Shape ==
  /\ cpu = [x \in {"at", "why", "path", "dj", "ofs", "btr", "cut"} |-> cpu[x]]
  /\ cpu.ofs \in Nat /\ cpu.btr \in Nat /\ cpu.cut \in BOOLEAN
  /\ \/ /\ cpu.at \in {"AUTOMOUNT", "CHECK", "TRACE"} /\ cpu.why \in {"opendir", "open", "browse"}
        /\ WholePath \/ (At("TRACE") /\ InFolder)
     \/ At("REFUSED") /\ cpu.why \in {"opendir", "open", "browse"}
     \/ At("NEXT") /\ cpu.why \in {"opendir", "browse"}
     \/ Listed /\ cpu.why = "browse"
     \/ cpu.at \in {"START"} \union Reading /\ cpu.why = "thrall"

\* The file system is that of the card mounted, and of the card that answers.
Mount ==
  /\ IF fs.type = 0 THEN fs = NoFs /\ win = NoWindow
     ELSE /\ medium \in Cards /\ Formatted(medium)
          /\ fs = [Layout(medium) EXCEPT !.id = fs.id]
          /\ Alive => slot = medium
  /\ cpu.at \in {"TRACE", "NEXT"} \/ Holding => fs.type # 0 /\ ~noinit
  /\ At("CHECK") => fs.type = 0
  /\ slot \in Cards \union {NoCard}

\* The window is not one of the sectors that are written past it.
Window ==
  /\ WindowTrue
  /\ win.sect # 0 => win.sect \notin Own(medium) \/ Partial(medium, win.sect)
Written ==
  written = [c \in Cards |-> written[c]] /\ \A c \in Cards : DOMAIN written[c] \subseteq Own(c)

\* The directory walks: where they are, and what they still have to see.
Tracing ==
  At("TRACE") =>
    IF InFolder
    THEN /\ FolderPlace(medium, cpu.dj)
         /\ imagefile \in DOMAIN Files[medium] => Ahead(medium, imagefile, cpu.dj)
    ELSE RootPlace(medium, cpu.dj)
Listings ==
  /\ At("NEXT") => dir.id = fs.id /\ (dir.sect = 0 \/ FolderPlace(medium, dir))
  /\ cpu.why = "browse" /\ cpu.at \in {"NEXT", "LISTED", "LISTFAILED"} => seen \subseteq DOMAIN Files[medium]
  /\ At("NEXT") /\ cpu.why = "browse" /\ ~cpu.cut =>
       \A n \in DOMAIN Files[medium] : n \in seen \/ (dir.sect # 0 /\ Ahead(medium, n, dir))
  /\ ListsAll

\* The names it goes by.
Names == Odd \union {NoName} \union UNION {DOMAIN Files[c] : c \in Cards}
Chosen ==
  /\ imagefile \in Names /\ named \in Cards \union {NoCard}
  /\ named \in Cards => Formatted(named) /\ imagefile \in DOMAIN Files[named]
  /\ OpenListed

\* The file object.
Opening ==
  IF Holding
  THEN /\ owner.card = medium /\ fp.id = fs.id /\ OfImage(medium, owner.name, fp)
       /\ ~At("FAILED") => ~fp.err
       /\ ~At("FAILED") /\ ~At("FOLLOW") => Placed(medium, owner.name, fp)
  ELSE owner = NoOne
Moving ==
  /\ At("FOLLOW") => Heading(medium, owner.name, fp, cpu.ofs)
  /\ At("TRANSFER") => Sending(fp, cpu.btr)
  /\ At("SEEK") => request.side \in Nat /\ request.track \in Nat /\ request.sector \in Nat

IInv == /\ Shape /\ Mount /\ Window /\ Written /\ Tracing /\ Listings /\ Chosen
        /\ Opening /\ Moving
-----------------------------------------------------------------------------
(* What has to be true in addition for the emulator to get the blocks that  *)
(* Drive promises.                                                          *)

\* A request is for a place within 32 bits, and no image reaches so far that
\* an offset that wrapped around would fall into it.  The tables and the
\* images are on the card.
Sector == [0 .. SectorSize - 1 -> Nat]
Placing(r) == (2 * r.track + 1 - r.side) * NSectors + r.sector - 1
Request == [op : {"READ", "WRITE"}, side : 0 .. 1, track : Nat, sector : Nat, done : 0 .. 2]
ASSUME DriveAssumption ==
  /\ HostBlock \in Sector /\ NoRequest \notin Request
  /\ \A r \in Requests : /\ r.op \in {"READ", "WRITE"} /\ r.side \in 0 .. 1
                         /\ Placing(r) * FddSize < OffsetMod
  /\ \A c \in Cards : \A n \in DOMAIN Files[c] :
       Files[c][n].size + FddSize <= OffsetMod /\ NoImage \notin [0 .. Whole(c, n) - 1 -> Sector]
  /\ \A c \in Cards : Formatted(c) =>
       /\ 0 .. Layout(c).database - 1 \subseteq DOMAIN Volume[c]
       /\ \A s \in Own(c) : s \in DOMAIN Volume[c] /\ Volume[c][s] \in Sector

\* The blocks are blocks of data.
Blocked ==
  /\ buffer \in [Blocks -> Sector]
  /\ \A c \in Cards : \A s \in DOMAIN written[c] : written[c][s] \in Sector

\* A request is under way while its image is read or written, and is answered
\* once.
Asked == cpu.at \in {"SEEK", "FOLLOW", "TRANSFER"}
Answering ==
  /\ IF Asked THEN /\ request \in Request /\ Placing(request) * FddSize < OffsetMod
                   /\ ~At("TRANSFER") => request.done = 0
              ELSE request = NoRequest
  /\ answer = IF At("ANSWERED") THEN "OK" ELSE IF At("FAILED") THEN "ERROR" ELSE "NONE"

\* The file pointer is on its way to the block asked for, or to the end of the
\* image if that is before it.
FirstBlock   == 2 * Placing(request)
OwnerSectors == Files[owner.card][owner.name].sectors
InImage(k)   == FirstBlock + k \in 0 .. Whole(owner.card, owner.name) - 1
NoMore == \A k \in request.done .. 1 : ~InImage(k)
\* It moves block after block, to the end of the request or of the image;
OnWay == /\ fp.fptr = (FirstBlock + request.done) * SectorSize
         /\ fp.fptr + cpu.btr <= (FirstBlock + 2) * SectorSize
         /\ fp.fptr + cpu.btr \in {(FirstBlock + 2) * SectorSize, fp.fsize}
\* or has found the end of a chain that is too short.
Stuck == /\ request.done = 0 /\ cpu.btr > 0
         /\ fp.fptr = Len(OwnerSectors) * SectorSize
Aiming ==
  /\ At("FOLLOW") => \/ fp.fptr + cpu.ofs = FirstBlock * SectorSize
                     \/ fp.fptr + cpu.ofs = fp.fsize /\ NoMore
  /\ At("TRANSFER") => OnWay \/ Stuck \/ (cpu.btr = 0 /\ NoMore)

DInv == Blocked /\ Answering /\ Aiming
=============================================================================
