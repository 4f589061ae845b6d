-------------------------------- MODULE Tff --------------------------------
(***************************************************************************)
(* tff.c, the FAT file system of the workhorse as it is configured: read   *)
(* only but for f_write_inplace, FAT12 and FAT16, one window of one sector *)
(* for FATs, directories and partial sectors alike.                        *)
(*                                                                         *)
(* An operator with Outcomes in its comment returns the set of its         *)
(* possible results: each card access succeeds or fails by itself.  A      *)
(* sector of a FAT is a function to bytes, one of a directory a function   *)
(* to entries, one of a file a function to data; the boot record is a      *)
(* record.  Volumes are sane (a power of two of sectors per cluster,       *)
(* directories whose chains are sound); the chains of files need not be.   *)
(***************************************************************************)
EXTENDS Naturals, Integers, Sequences, SequencesExt, FiniteSets

CONSTANTS
  SectorSize,   \* bytes in a sector: 512
  PerSector,    \* directory entries in a sector: 16
  NameLen,      \* characters of a name (8)
  ExtLen,       \* and of its extension (3)
  Fat12Max,     \* largest max_clust of a FAT12 volume: $FF7
  OffsetMod,    \* 2^32, the range of a file offset
  IdMod,        \* 2^16, the range of a mount ID
  Cards,        \* the cards there are
  NoCard,       \* an empty slot
  Volume        \* the sectors of each card, as it comes out of the shop

ASSUME NoCardAssumption == NoCard \notin Cards

VARIABLES
  slot,     \* the card in the slot,
  awake,    \* whether it has been initialised since it was put in,
  bad,      \* and whether accesses may fail although it is there
  noinit,   \* Stat & STA_NOINIT of mmc.c
  written,  \* the sectors of each card that were written to
  fs,       \* the file system object FatFs
  win,      \* fs__win, and winsect, the sector it is supposed to hold
  fsid,     \* the mount counter
  fp,       \* the file object of the image
  dir       \* the directory object of philes.c

card   == <<slot, awake, bad>>
fsvars == <<card, noinit, written, fs, win, fsid, fp, dir>>

Contents(c, s) == IF s \in DOMAIN written[c] THEN written[c][s] ELSE Volume[c][s]

-----------------------------------------------------------------------------
\* The card as tff.c sees it.  A card that was swapped in does not answer
\* before disk_initialize.
Alive == slot # NoCard /\ awake
Failure == [ok |-> FALSE]
\* Outcomes of disk_read of a sector
DiskRead(s) ==
  (IF Alive /\ ~noinit /\ s \in DOMAIN Volume[slot]
   THEN {[ok |-> TRUE, data |-> Contents(slot, s)]} ELSE {})
  \union (IF Alive /\ ~noinit /\ ~bad /\ s \in DOMAIN Volume[slot] THEN {} ELSE {Failure})

\* Outcomes of disk_initialize: the new Stat
Initialised == (IF slot # NoCard THEN {FALSE} ELSE {})
                 \union (IF slot = NoCard \/ bad THEN {TRUE} ELSE {})

\* Mutant: the window is relabelled although the read failed.
MoveWindowHasty(w, s) ==
  IF s \in {w.sect, 0} THEN {[ok |-> TRUE, win |-> w]}
  ELSE {[ok |-> r.ok, win |-> [sect |-> s, data |-> IF r.ok THEN r.data ELSE w.data]] :
          r \in DiskRead(s)}
\* Outcomes of move_window: sector 0 stands for "none" and leaves it alone
MoveWindow(w, s) ==
  IF s \in {w.sect, 0} THEN {[ok |-> TRUE, win |-> w]}
  ELSE {[ok |-> r.ok, win |-> IF r.ok THEN [sect |-> s, data |-> r.data] ELSE w] :
          r \in DiskRead(s)}

-----------------------------------------------------------------------------
IsLink(c) == c >= 2 /\ c < fs.max_clust
Half == SectorSize \div 2
Fat12(c, lo, hi) == IF c % 2 = 1 THEN (lo + 256 * hi) \div 16 ELSE (lo + 256 * hi) % 4096
\* Outcomes of get_cluster: the entry of cluster c, 1 for an error.  A FAT12
\* entry may reach over the end of a sector.
GetCluster(c, w) ==
  LET Lost(v) == [next |-> 1, win |-> v]
      bc == (c * 3) \div 2
  IN IF ~IsLink(c) THEN {Lost(w)}
     ELSE IF fs.type = 16
     THEN {IF m.ok THEN [next |-> m.win.data[(c * 2) % SectorSize]
                                  + (256 * m.win.data[((c * 2) % SectorSize) + 1]),
                         win |-> m.win] ELSE Lost(m.win) :
             m \in MoveWindow(w, fs.fatbase + c \div Half)}
     ELSE UNION {IF ~m.ok THEN {Lost(m.win)} ELSE
             {IF n.ok THEN [next |-> Fat12(c, m.win.data[bc % SectorSize],
                                           n.win.data[(bc + 1) % SectorSize]),
                            win |-> n.win] ELSE Lost(n.win) :
                n \in MoveWindow(m.win, fs.fatbase + (bc + 1) \div SectorSize)} :
             m \in MoveWindow(w, fs.fatbase + bc \div SectorSize)}

Clust2Sect(c) == IF IsLink(c) THEN (c - 2) * fs.sects_clust + fs.database ELSE 0

\* Outcomes of next_dir_entry for directory object d.  A FAT that cannot be
\* read ends the directory like its end does (cut tells them apart).
NextDirEntry(d, w) ==
  LET idx == d.index + 1
      on  == [d EXCEPT !.sect = @ + 1, !.index = idx]
      Yes(e, v)   == [ok |-> TRUE, dir |-> e, win |-> v, cut |-> FALSE]
      No(cut, v)  == [ok |-> FALSE, dir |-> [d EXCEPT !.sect = @ + 1], win |-> v, cut |-> cut]
      Clust(g) == IF IsLink(g.next)
                  THEN Yes([on EXCEPT !.clust = g.next, !.sect = Clust2Sect(g.next)], g.win)
                  ELSE No(g.next = 1, g.win)
  IN IF idx % PerSector # 0 THEN {Yes([d EXCEPT !.index = idx], w)}
     ELSE IF d.clust = 0 THEN {IF idx >= fs.n_rootdir THEN No(FALSE, w) ELSE Yes(on, w)}
     ELSE IF (idx \div PerSector) % fs.sects_clust # 0 THEN {Yes(on, w)}
     ELSE {Clust(g) : g \in GetCluster(d.clust, w)}

-----------------------------------------------------------------------------
\* Names.  In a directory entry: NameLen characters and ExtLen more, filled
\* with blanks; in a path: without the blanks, and with a dot.
Upto(s, c) == LET i == SelectInSeq(s, LAMBDA x : x = c) IN
              IF i = 0 THEN s ELSE SubSeq(s, 1, i - 1)
Pad(s, n)  == s \o [i \in 1 .. n - Len(s) |-> " "]
Capital    == [a |-> "A", f |-> "F"]
Upper(s)   == [i \in DOMAIN s |-> IF s[i] \in DOMAIN Capital THEN Capital[s[i]] ELSE s[i]]
Rejected   == {" ", "*", "|"}   \* of many

\* Mutant: the blanks of the name stay.
FileInfoBlank(e) ==
  SubSeq(e.name, 1, NameLen) \o <<".">> \o SubSeq(e.name, NameLen + 1, NameLen + ExtLen)
\* get_fileinfo
FileInfo(e) ==
  LET ext == SubSeq(e.name, NameLen + 1, NameLen + ExtLen) IN
  Upto(SubSeq(e.name, 1, NameLen), " ")
    \o (IF ext[1] = " " THEN <<>> ELSE <<".">> \o Upto(ext, " "))

\* The directory's form of one component of a path; <<>> if it is not a name.
\* More than one dot between body and extension is taken for one.
MakeDirfile(s) ==
  LET body == Upto(s, ".")
      rest == SubSeq(s, Len(body) + 1, Len(s))
      dots == SelectInSeq(rest, LAMBDA x : x # ".")
      ext  == IF dots = 0 THEN <<>> ELSE SubSeq(rest, dots, Len(rest))
  IN IF \/ body = <<>> \/ Len(body) > NameLen \/ Len(ext) > ExtLen
        \/ \E i \in DOMAIN s : s[i] \in Rejected
        \/ \E i \in DOMAIN ext : ext[i] = "."
     THEN <<>> ELSE Pad(Upper(body), NameLen) \o Pad(Upper(ext), ExtLen)

EntryAt(d, w) == w.data[d.index % PerSector]
Ends(e)  == e.name[1] = "0"
Valid(e) == e.name[1] # "E5" /\ e.attr # "VOL"

RootDir == [clust |-> 0, sect |-> fs.dirbase, index |-> 0, id |-> fs.id]
NoDir   == [clust |-> 0, sect |-> 0, index |-> 0, id |-> 0]
SubDir(d, e) == [d EXCEPT !.clust = e.clust, !.sect = Clust2Sect(e.clust), !.index = 2]

-----------------------------------------------------------------------------
\* Mounting.  While there is no file system, and until the first sector of it
\* is read, the window holds something or other (a boot record), labelled 0.
NoWindow == [sect |-> 0, data |-> <<>>]
NoFs == [type |-> 0, id |-> 0, fatbase |-> 0, dirbase |-> 0, database |-> 0,
         max_clust |-> 0, n_rootdir |-> 0, sects_clust |-> 0]
\* check_fs: 0 a FAT boot record, 1 another boot record, 2 none
CheckFs(r) == IF ~r.ok \/ ~r.data.signed THEN 2 ELSE IF r.data.fat THEN 0 ELSE 1

FatFs(b, base, id) ==
  LET fat  == base + b.rsvd
      size == b.fatsz * b.fats
      max  == (b.total - b.rsvd - size - b.roots \div PerSector) \div b.perclust + 2
  IN [type |-> IF max > Fat12Max THEN 16 ELSE 12, id |-> id,
      fatbase |-> fat, dirbase |-> fat + size,
      database |-> fat + size + b.roots \div PerSector,
      max_clust |-> max, n_rootdir |-> b.roots, sects_clust |-> b.perclust]

\* Outcomes of looking for a FAT volume: in sector 0, else in the first
\* partition; NoFs if there is none.
Mounted ==
  LET id == (fsid + 1) % IdMod
      FsAt(r, base) == IF CheckFs(r) = 0 /\ r.data.bytes = SectorSize
                       THEN FatFs(r.data, base, id) ELSE NoFs
  IN UNION {IF CheckFs(r) = 1 /\ r.data.part # 0
            THEN {FsAt(q, r.data.part) : q \in DiskRead(r.data.part)}
            ELSE {FsAt(r, 0)} : r \in DiskRead(0)}

Validate(id) == fs.id = id /\ ~noinit

-----------------------------------------------------------------------------
\* Files.
NoFile == [open |-> FALSE, id |-> 0, err |-> FALSE, fptr |-> 0, fsize |-> 0, org |-> 0,
           sect_clust |-> 1, curr_clust |-> 0, curr_sect |-> 0]
Opened(e) == [NoFile EXCEPT !.open = TRUE, !.id = fs.id, !.fsize = e.size, !.org = e.clust]

\* f_lseek: the offset is cut to the size of the file, the pointer goes back
\* to the top, and the clusters are followed one by one.
\* Mutant: it is not cut.
CutNot(ofs) == ofs
Cut(ofs)  == IF ofs > fp.fsize THEN fp.fsize ELSE ofs
Rewound(ofs) == [fp EXCEPT !.fptr = 0, !.sect_clust = 1,
                           !.curr_clust = IF ofs # 0 /\ fp.org # 0 THEN fp.org ELSE @]
ClustSize == fs.sects_clust * SectorSize
\* The rest of the way, inside cluster c (0: the chain broke off).
\* Mutant: the end of a sector is counted to the next one.
LandLate(f, c, ofs) ==
  LET csect == ofs \div SectorSize IN
  [f EXCEPT !.curr_sect = Clust2Sect(c) + csect,
            !.sect_clust = fs.sects_clust - csect, !.fptr = @ + ofs]
Land(f, c, ofs) ==
  LET csect == (ofs - 1) \div SectorSize IN
  [f EXCEPT !.curr_sect = Clust2Sect(c) + csect,
            !.sect_clust = fs.sects_clust - csect, !.fptr = @ + ofs]

\* Mutant: the clusters of a file follow each other on the card.
NextSectorOn(w) ==
  LET left == fp.sect_clust - 1 IN
  {[ok |-> TRUE, win |-> w, fp |-> [fp EXCEPT
      !.sect_clust = IF left = 0 THEN fs.sects_clust ELSE left,
      !.curr_sect = IF fp.fptr = 0 THEN Clust2Sect(fp.org) ELSE @ + 1]]}
\* The next sector of the file; Outcomes: the file object and the window
\* after the cluster was found, or not ok.
NextSector(w) ==
  LET left == fp.sect_clust - 1
      Enter(c) == [fp EXCEPT !.curr_clust = c, !.curr_sect = Clust2Sect(c),
                             !.sect_clust = fs.sects_clust]
  IN IF left # 0
     THEN {[ok |-> TRUE, win |-> w,
            fp |-> [fp EXCEPT !.sect_clust = left, !.curr_sect = @ + 1]]}
     ELSE {[ok |-> IsLink(g.next), win |-> g.win,
            fp |-> IF IsLink(g.next) THEN Enter(g.next) ELSE [fp EXCEPT !.sect_clust = 0]] :
             g \in IF fp.fptr = 0 THEN {[next |-> fp.org, win |-> w]}
                   ELSE GetCluster(fp.curr_clust, w)}
=============================================================================
