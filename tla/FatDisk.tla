------------------------------ MODULE FatDisk ------------------------------
(***************************************************************************)
(* The half of tff.c that changes a volume (_FS_READONLY 0,                *)
(* _FS_MINIMIZE 0): FATs, directories and data through the window, which   *)
(* is written back when it moves.  Tff models the other half, which is the *)
(* one the firmware is built with.                                         *)
(*                                                                         *)
(* A function of the code is an operator on the state s of the volume, and *)
(* returns the set of its outcomes: a result, the new state and a value.   *)
(* Every access may fail, s.luck times: because the power or the card goes *)
(* (s.card = FALSE), so that the outcomes of a call cover its being cut    *)
(* off at each of its accesses, or by itself.                              *)
(* Names are atoms here, and directories as sound as Tff takes them to be. *)
(***************************************************************************)
EXTENDS Integers, Sequences, FiniteSets, FiniteSetsExt

CONSTANTS
  SectorSize,   \* bytes in a sector: 512
  PerSector,    \* directory entries in a sector: 16
  Units,        \* parts of a data sector that are told apart
  SectsClust,   \* sects_clust
  SectsFat,     \* sects_fat
  NFats,        \* n_fats, 1 or 2
  RootSects,    \* sectors of the root directory
  MaxClust,     \* max_clust
  Faults        \* how an access fails: a subset of {"cut", "glitch"}

FatBase  == 1
DirBase  == FatBase + NFats * SectsFat
DataBase == DirBase + RootSects
Unknown  == 65535   \* of free_clust
InUse    == 65535

-----------------------------------------------------------------------------
Out(res, s, v) == [res |-> res, s |-> s, val |-> v]
Val(s, v) == {Out("OK", s, v)}
Ok(s)     == Val(s, 0)
Err(res, s) == {Out(res, s, 0)}
\* Go on where S succeeded.
Then(S, Op(_, _)) == UNION {IF x.res = "OK" THEN Op(x.s, x.val) ELSE {x} : x \in S}
\* Take a failure for value v.
Catch(S, v) == {IF x.res = "OK" THEN x ELSE Out("OK", x.s, v) : x \in S}

Failing(s) ==
  IF ~s.card THEN {s}
  ELSE {[s EXCEPT !.luck = @ - 1, !.card = (f = "glitch")] : f \in IF s.luck = 0 THEN {} ELSE Faults}
DiskRead(s, n) ==
  {Out("RW_ERROR", t, 0) : t \in Failing(s)} \union (IF s.card THEN Val(s, s.disk[n]) ELSE {})
\* A write that is reported as failed may have been carried out.
DiskWrite(s, n, data) ==
  LET Put(t) == [t EXCEPT !.disk[n] = data] IN
  {Out("RW_ERROR", t, 0) : t \in Failing(s) \union {Put(t) : t \in {u \in Failing(s) : u.card}}}
    \union (IF s.card THEN Ok(Put(s)) ELSE {})

\* What is read from a sector that was last used for something else.
Fat(sector)   == sector.fat
Table(sector) == IF "dir" \in DOMAIN sector THEN sector.dir
                 ELSE [i \in 0 .. PerSector - 1 |-> [name |-> "junk", dir |-> FALSE,
                                                     ro |-> FALSE, clust |-> 0, size |-> 0]]
Data(sector)  == IF "data" \in DOMAIN sector THEN sector.data
                 ELSE [i \in 0 .. Units - 1 |-> "junk"]
Null  == [name |-> "0", dir |-> FALSE, ro |-> FALSE, clust |-> 0, size |-> 0]
Blank == [dir |-> [i \in 0 .. PerSector - 1 |-> Null]]

-----------------------------------------------------------------------------
\* move_window's first part: the dirty window goes back, a FAT to its copy
\* too, whether that can be written or not.
WriteBack(s) ==
  LET w == s.win
      Copy(t, v) == IF w.sect < FatBase + SectsFat /\ NFats = 2
                    THEN Catch(DiskWrite(t, w.sect + SectsFat, w.data), 0) ELSE Ok(t)
  IN Then(DiskWrite(s, w.sect, w.data), LAMBDA t, v : Copy([t EXCEPT !.win.dirty = FALSE], v))
MoveWindow(s, n) ==
  IF n = s.win.sect THEN Ok(s)
  ELSE Then(IF s.win.dirty THEN WriteBack(s) ELSE Ok(s), LAMBDA t, v :
       IF n = 0 THEN Ok(t)
       ELSE Then(DiskRead(t, n), LAMBDA u, data :
                 Ok([u EXCEPT !.win = [sect |-> n, data |-> data, dirty |-> FALSE]])))

\* CTRL_SYNC of disk_ioctl only waits for the card.
DiskSync(s) == {Out("RW_ERROR", t, 0) : t \in Failing(s)} \union (IF s.card THEN Ok(s) ELSE {})
Sync(s) == Then(MoveWindow([s EXCEPT !.win.dirty = TRUE], 0), LAMBDA t, v : DiskSync(t))

-----------------------------------------------------------------------------
\* The FAT.  An entry of a FAT12 may reach over the end of a sector.
IsLink(c) == c >= 2 /\ c < MaxClust
FatByte(s, k) == Fat(s.win.data)[k % SectorSize]
SetByte(s, k, b) == [s EXCEPT !.win.data.fat[k % SectorSize] = b, !.win.dirty = TRUE]
FatWord(s, k) == FatByte(s, k) + 256 * FatByte(s, k + 1)
AtByte(s, k) == MoveWindow(s, FatBase + k \div SectorSize)

GetCluster(s, c) ==
  LET bc == (c * 3) \div 2 IN
  IF ~IsLink(c) THEN Val(s, 1)
  ELSE IF s.type = 16
  THEN Catch(Then(AtByte(s, 2 * c), LAMBDA t, v : Val(t, FatWord(t, 2 * c))), 1)
  ELSE Catch(Then(AtByte(s, bc), LAMBDA t, v :
             Then(AtByte(t, bc + 1), LAMBDA u, x :
                  LET w == FatByte(t, bc) + 256 * FatByte(u, bc + 1) IN
                  Val(u, IF c % 2 = 1 THEN w \div 16 ELSE w % 4096))), 1)

PutCluster(s, c, val) ==
  LET bc == (c * 3) \div 2
      Low(b)  == IF c % 2 = 1 THEN (b % 16) + 16 * (val % 16) ELSE val % 256
      High(b) == IF c % 2 = 1 THEN (val \div 16) % 256
                 ELSE 16 * (b \div 16) + ((val \div 256) % 16)
  IN IF s.type = 16
     THEN Then(AtByte(s, 2 * c), LAMBDA t, v :
               Ok(SetByte(SetByte(t, 2 * c, val % 256), 2 * c + 1, val \div 256)))
     ELSE Then(AtByte(s, bc), LAMBDA t, v :
          Then(AtByte(SetByte(t, bc, Low(FatByte(t, bc))), bc + 1), LAMBDA u, x :
               Ok(SetByte(u, bc + 1, High(FatByte(u, bc + 1))))))

Count(s, n) == [s EXCEPT !.free = IF @ = Unknown THEN @ ELSE (@ + n) % 65536]

\* Mutant: only the first cluster is freed.
RemoveHead(s, c) ==
  IF ~IsLink(c) THEN Ok(s) ELSE Then(PutCluster(s, c, 0), LAMBDA t, v : Ok(Count(t, 1)))
RECURSIVE RemoveChain(_, _)
RemoveChain(s, c) ==
  IF ~IsLink(c) THEN Ok(s)
  ELSE Then(GetCluster(s, c), LAMBDA t, next :
       IF next = 1 THEN Err("RW_ERROR", t)
       ELSE Then(PutCluster(t, c, 0), LAMBDA u, v : RemoveChain(Count(u, 1), next)))

\* The first free cluster after n, once around from scl; 0 if there is none.
RECURSIVE Hunt(_, _, _)
Hunt(s, scl, n) ==
  LET ncl == IF n + 1 >= MaxClust THEN 2 ELSE n + 1 IN
  IF n + 1 >= MaxClust /\ ncl > scl THEN Val(s, 0)
  ELSE Then(GetCluster(s, ncl), LAMBDA t, cstat :
       CASE cstat = 0 -> Val(t, ncl)
         [] cstat = 1 -> Val(t, 1)
         [] cstat > 1 -> IF ncl = scl THEN Val(t, 0) ELSE Hunt(t, scl, ncl))

\* The new cluster is marked before it is linked to.
Link(s, c, ncl) ==
  Then(PutCluster(s, ncl, InUse), LAMBDA t, v : IF c = 0 THEN Ok(t) ELSE PutCluster(t, c, ncl))

\* create_chain: 0 no free cluster, 1 error, else the cluster after c
CreateChain(s, c) ==
  LET New(t, scl) ==
        Then(Hunt(t, scl, scl), LAMBDA u, ncl :
             IF ncl < 2 THEN Val(u, ncl)
             ELSE Catch(Then(Link(u, c, ncl), LAMBDA w, v :
                             Val(Count([w EXCEPT !.last = ncl], -1), ncl)), 1))
  IN IF c = 0 THEN New(s, IF IsLink(s.last) THEN s.last ELSE 1)
     ELSE Then(GetCluster(s, c), LAMBDA t, cstat :
          IF cstat < 2 THEN Val(t, 1)
          ELSE IF cstat < MaxClust THEN Val(t, cstat) ELSE New(t, c))

Clust2Sect(c) == IF IsLink(c) THEN (c - 2) * SectsClust + DataBase ELSE 0

-----------------------------------------------------------------------------
\* Directories.  A directory object is [sclust, clust, sect, index].
RootDir   == [sclust |-> 0, clust |-> 0, sect |-> DirBase, index |-> 0]
SubDir(c) == [sclust |-> c, clust |-> c, sect |-> Clust2Sect(c), index |-> 2]
Slot(s, i)       == Table(s.win.data)[i % PerSector]
SetSlot(s, i, e) == [s EXCEPT !.win.data = [dir |-> [Table(@) EXCEPT ![i % PerSector] = e]],
                              !.win.dirty = TRUE]
Ends(e) == e.name = "0"
Gone(e) == e.name = "E5"

NextDirEntry(s, d) ==
  LET idx  == d.index + 1
      Last(t) == {Out("END", t, d)}
      On   == [d EXCEPT !.sect = @ + 1, !.index = idx]
  IN IF idx % PerSector # 0 THEN Val(s, [d EXCEPT !.index = idx])
     ELSE IF d.clust = 0 THEN IF idx >= RootSects * PerSector THEN Last(s) ELSE Val(s, On)
     ELSE IF (idx \div PerSector) % SectsClust # 0 THEN Val(s, On)
     ELSE Then(GetCluster(s, d.clust), LAMBDA t, c :
          IF IsLink(c) THEN Val(t, [On EXCEPT !.clust = c, !.sect = Clust2Sect(c)]) ELSE Last(t))

\* trace_path: the directory object at the entry.  The root has no entry;
\* where the file is missing, the object is in the directory it is not in.
RECURSIVE Find(_, _, _)
Find(s, d, path) ==
  LET Missing(t) == {Out(IF Len(path) = 1 THEN "NO_FILE" ELSE "NO_PATH", t, d)} IN
  Then(MoveWindow(s, d.sect), LAMBDA t, v :
       LET e == Slot(t, d.index) IN
       IF Ends(e) THEN Missing(t)
       ELSE IF e.name # Head(path)
       THEN UNION {IF x.res = "OK" THEN Find(x.s, x.val, path) ELSE Missing(x.s) :
                     x \in NextDirEntry(t, d)}
       ELSE IF Len(path) = 1 THEN Val(t, d)
       ELSE IF e.dir THEN Find(t, SubDir(e.clust), Tail(path)) ELSE Err("NO_PATH", t))
TracePath(s, path) == IF path = <<>> THEN Err("ROOT", s) ELSE Find(s, RootDir, path)

\* Clean n sectors of the card.
RECURSIVE Wipe(_, _, _)
Wipe(s, from, n) ==
  IF n = 0 THEN Ok(s)
  ELSE Then(DiskWrite(s, from, Blank), LAMBDA t, v : Wipe(t, from + 1, n - 1))

\* The index of the first free slot of a directory, which is then in the window.
RECURSIVE Look(_, _)
Look(s, d) ==
  Then(MoveWindow(s, d.sect), LAMBDA t, v :
       IF Ends(Slot(t, d.index)) \/ Gone(Slot(t, d.index)) THEN Val(t, d.index)
       ELSE Then(NextDirEntry(t, d), Look))

\* reserve_direntry: ... or of a new table.  From the link to its cluster on,
\* and until that is clean, the directory is torn.
ReserveDirentry(s, dir) ==
  LET Labelled(t, c) == [t EXCEPT !.win = [sect |-> Clust2Sect(c), data |-> Blank,
                                           dirty |-> FALSE]]
      Expand(t, c) ==
        CASE c = 0 -> Err("DENIED", t)
          [] c = 1 -> Err("RW_ERROR", t)
          [] c > 1 -> Then(MoveWindow([t EXCEPT !.torn = TRUE], 0), LAMBDA u, v :
                      Then(Wipe(Labelled(u, c), Clust2Sect(c), SectsClust), LAMBDA w, x :
                           Ok([w EXCEPT !.torn = s.torn, !.win.dirty = TRUE])))
  IN UNION {IF x.res # "END" THEN {x}
            ELSE IF dir.sclust = 0 THEN Err("DENIED", x.s)
            ELSE Then(CreateChain(x.s, x.val.clust), Expand) :
              x \in Look(s, IF dir.sclust = 0 THEN RootDir
                            ELSE [SubDir(dir.sclust) EXCEPT !.index = 0])}
=============================================================================
