------------------------------ MODULE FatWrite ------------------------------
(***************************************************************************)
(* The calls of tff.c that change a volume, and a client that makes them:  *)
(* files are opened, written, sought in, synchronised and closed, several  *)
(* at a time, and files and directories are made, deleted, renamed and     *)
(* protected.  An action is one call; FatDisk cuts it off at each access   *)
(* of the card.  The client plays by the rules the code needs: it opens a  *)
(* file once, leaves open files alone, does not write on after a write     *)
(* that came up short, and synchronises before it seeks (else f_write may  *)
(* write a whole sector to the card of which the window still holds an     *)
(* older half, that is written back over it later).                        *)
(***************************************************************************)
EXTENDS FatDisk, TLC

CONSTANTS
  Paths,      \* files: sequences of names
  Dirs,       \* directories that are made and deleted
  Renames,    \* pairs of paths
  Modes,      \* of "write", "always", "create", "new"
  Lengths,    \* of writes
  Offsets,    \* of seeks
  MaxSize,    \* bound on the size of a file
  MaxCalls,   \* bound on the calls
  Cuts,       \* bound on the failures
  Volumes     \* what the card holds at first: [type, disk, kept]

VARIABLES
  vol,   \* the volume: its sectors, and what FatFs holds
  fil,   \* the open files
  kept,  \* history: the units of each file that have been made durable
  calls  \* and the number of calls
vars == <<vol, fil, kept, calls>>

Nothing == [u \in {} |-> ""]
NoWin   == [sect |-> 0, data |-> Blank, dirty |-> FALSE]
\* auto_mount, after a start: nothing is known of the free clusters
Mounted(s) == [s EXCEPT !.win = NoWin, !.last = 0, !.free = Unknown, !.card = TRUE]

Init ==
  /\ \E v \in Volumes :
       /\ vol = [disk |-> v.disk, type |-> v.type, win |-> NoWin, last |-> 0,
                 free |-> Unknown, card |-> TRUE, luck |-> Cuts, torn |-> FALSE]
       /\ kept = v.kept
  /\ fil = Nothing /\ calls = 0

\* What a torn directory leads to is left out.
Calls == vol.card /\ ~vol.torn /\ calls < MaxCalls /\ calls' = calls + 1
Open  == DOMAIN fil

-----------------------------------------------------------------------------
\* f_open.  A file object, for the entry in slot i of the window.
Fil(s, i) ==
  LET e == Slot(s, i) IN
  [err |-> FALSE, written |-> FALSE, full |-> FALSE, fptr |-> 0, fsize |-> e.size,
   org |-> e.clust, sect_clust |-> 1, curr_clust |-> 0, curr_sect |-> 0,
   dir_sect |-> s.win.sect, dir_ptr |-> i % PerSector,
   wrote |-> Nothing]

Truncate(s, i) ==
  LET e == Slot(s, i) IN
  Then(RemoveChain(SetSlot(s, i, [e EXCEPT !.clust = 0, !.size = 0]), e.clust), LAMBDA t, v :
  Then(MoveWindow(t, s.win.sect), LAMBDA u, x :
       Val([u EXCEPT !.last = (e.clust - 1) % 65536, !.win.dirty = TRUE], i)))

Create(s, dir, name) ==
  Then(ReserveDirentry(s, dir), LAMBDA t, i : Val(SetSlot(t, i, [Null EXCEPT !.name = name]), i))

FOpen(s, path, mode) ==
  LET Old(t, i) ==
        IF mode = "new" THEN Err("EXIST", t)
        ELSE IF Slot(t, i).dir THEN Err(IF mode = "write" THEN "NO_FILE" ELSE "DENIED", t)
        ELSE IF Slot(t, i).ro THEN Err("DENIED", t)
        ELSE IF mode = "create" THEN Truncate(t, i) ELSE Val(t, i)
  IN {IF x.res = "OK" THEN Out("OK", x.s, Fil(x.s, x.val)) ELSE x : x \in
        UNION {CASE x.res = "OK" -> Old(x.s, x.val.index)
                 [] x.res = "NO_FILE" /\ mode # "write" -> Create(x.s, x.val, path[Len(path)])
                 [] OTHER -> {x} : x \in TracePath(s, path)}}

OpenFile(p, mode) ==
  /\ Calls /\ p \notin Open
  /\ \E x \in FOpen(vol, p, mode) :
       /\ vol' = x.s
       /\ kept' = IF mode = "create" /\ x.res \in {"OK", "RW_ERROR"}
                  THEN [kept EXCEPT ![p] = Nothing] ELSE kept
       /\ fil' = IF x.res = "OK" THEN fil @@ (p :> [x.val EXCEPT !.wrote = kept'[p]]) ELSE fil

-----------------------------------------------------------------------------
\* f_write.  Its outcomes carry the file object, and how much is left.
Broken(S, f) == {IF x.res = "OK" THEN x
                 ELSE Out(x.res, x.s, [f |-> [f EXCEPT !.err = TRUE], left |-> 0]) : x \in S}

\* Sectors in a row, straight to the card; tag is what they are filled with.
RECURSIVE WriteRun(_, _, _, _)
WriteRun(s, sect, n, tag) ==
  IF n = 0 THEN Ok(s)
  ELSE Then(DiskWrite(s, sect, [data |-> [u \in 0 .. Units - 1 |-> tag]]),
            LAMBDA t, v : WriteRun(t, sect + 1, n - 1, tag))

\* The next sector of the file; where there is no cluster left, none.
Enter(f, c) == [f EXCEPT !.curr_clust = c, !.curr_sect = Clust2Sect(c), !.sect_clust = SectsClust]
Advance(s, f) ==
  LET left == (f.sect_clust - 1) % 256
      g    == [f EXCEPT !.sect_clust = left]
      To(t, c) ==
        LET h == IF f.fptr = 0 THEN [g EXCEPT !.org = c] ELSE g IN
        IF c = 0 THEN Val(t, [h EXCEPT !.full = TRUE])
        ELSE IF IsLink(c) THEN Val(t, Enter(h, c)) ELSE Broken(Err("RW_ERROR", t), h)
  IN IF left # 0 THEN Val(s, [g EXCEPT !.curr_sect = @ + 1])
     ELSE Then(IF f.fptr = 0 /\ f.org # 0 THEN Val(s, f.org)
               ELSE CreateChain(s, IF f.fptr = 0 THEN 0 ELSE f.curr_clust), To)

\* Part of a sector, through the window; a new sector is not read first.
\* Mutant: the window is given to it as it is.
FreshHasty(s, f) == IF f.fptr >= f.fsize /\ f.fptr % Units = 0
                    THEN Ok([s EXCEPT !.win.sect = f.curr_sect]) ELSE Ok(s)
Fresh(s, f) ==
  IF f.fptr >= f.fsize /\ f.fptr % Units = 0
  THEN Then(MoveWindow(s, 0), LAMBDA t, v : Ok([t EXCEPT !.win.sect = f.curr_sect])) ELSE Ok(s)
Fill(s, from, n, tag) ==
  [s EXCEPT !.win.dirty = TRUE,
            !.win.data = [data |-> [u \in 0 .. Units - 1 |->
                            IF u \in from .. from + n - 1 THEN tag ELSE Data(@)[u]]]]

RECURSIVE WriteOn(_, _, _, _)
WriteOn(s, f, n, tag) ==
  LET Partial(t, g) ==
        LET k == Min({n, Units - (g.fptr % Units)}) IN
        Then(Broken(Then(Fresh(t, g), LAMBDA u, v : MoveWindow(u, g.curr_sect)), g), LAMBDA u, v :
             WriteOn(Fill(u, g.fptr % Units, k, tag), [g EXCEPT !.fptr = @ + k], n - k, tag))
      Direct(t, g) ==
        LET cc == Min({n \div Units, g.sect_clust}) IN
        Then(Broken(WriteRun(t, g.curr_sect, cc, tag), g), LAMBDA u, v :
             WriteOn(u, [g EXCEPT !.fptr = @ + cc * Units, !.sect_clust = @ - (cc - 1),
                                  !.curr_sect = @ + cc - 1], n - cc * Units, tag))
  IN IF n = 0 THEN Val(s, [f |-> f, left |-> 0])
     ELSE IF f.fptr % Units # 0 THEN Partial(s, f)
     ELSE Then(Advance(s, f), LAMBDA t, g :
          IF g.full THEN Val(t, [f |-> g, left |-> n])
          ELSE IF n >= Units THEN Direct(t, g) ELSE Partial(t, g))

Size(f) == IF f.fptr > f.fsize THEN f.fptr ELSE f.fsize
Write(p, n) ==
  /\ Calls /\ p \in Open /\ ~fil[p].err /\ ~fil[p].full /\ fil[p].fptr + n <= MaxSize
  /\ LET f == fil[p]  tag == p[Len(p)]
         Outside(units) == [u \in DOMAIN units \ (f.fptr .. f.fptr + n - 1) |-> units[u]]
     IN /\ \E x \in WriteOn(vol, f, n, tag) :
             LET g == x.val.f IN
             /\ vol' = x.s
             /\ fil' = [fil EXCEPT ![p] =
                  IF x.res # "OK" THEN [g EXCEPT !.wrote = Outside(@)]
                  ELSE [g EXCEPT !.fsize = Size(g), !.written = TRUE,
                                 !.wrote = [u \in f.fptr .. g.fptr - 1 |-> tag] @@ @]]
        /\ kept' = [kept EXCEPT ![p] = Outside(@)]

-----------------------------------------------------------------------------
\* f_lseek, which lengthens the file where it must.  Inside cluster c (0: there
\* was no more, the offset is the end of the last one):
ClustSize == SectsClust * Units
Land(f, c, ofs) ==
  LET csect == (ofs - 1) \div Units IN
  [f EXCEPT !.curr_sect = Clust2Sect(c) + csect, !.sect_clust = SectsClust - csect,
            !.fptr = @ + ofs]
RECURSIVE Walk(_, _, _, _)
Walk(s, f, c, ofs) ==
  LET g == [f EXCEPT !.curr_clust = c] IN
  IF ofs <= ClustSize THEN Val(s, Land(g, c, ofs))
  ELSE Then(CreateChain(s, c), LAMBDA t, next :
       IF next = 0 THEN Val(t, Land(g, 0, ClustSize))
       ELSE IF ~IsLink(next) THEN {Out("RW_ERROR", t, [g EXCEPT !.err = TRUE])}
       ELSE Walk(t, [g EXCEPT !.fptr = @ + ClustSize], next, ofs - ClustSize))
FLseek(s, f, ofs) ==
  LET top == [f EXCEPT !.fptr = 0, !.sect_clust = 1, !.full = FALSE] IN
  IF ofs = 0 THEN Val(s, top)
  ELSE Then(IF f.org = 0 THEN CreateChain(s, 0) ELSE Val(s, f.org), LAMBDA t, c :
       CASE c = 0 -> Val(t, top)
         [] c = 1 -> {Out("RW_ERROR", t, [top EXCEPT !.err = TRUE])}
         [] c > 1 -> Walk(t, [top EXCEPT !.org = c], c, ofs))
Seek(p, ofs) ==
  /\ Calls /\ p \in Open /\ ~fil[p].err /\ ~fil[p].written
  /\ \E x \in FLseek(vol, fil[p], ofs) :
       LET g == x.val IN
       /\ vol' = x.s
       /\ fil' = [fil EXCEPT ![p] =
            IF x.res = "OK" THEN [g EXCEPT !.fsize = Size(g), !.written = @ \/ g.fptr > g.fsize]
            ELSE g]
  /\ UNCHANGED kept

\* f_sync, and f_close, which is that.
\* Mutant: the entry is left in the window.
FSyncLazy(s, f) ==
  IF ~f.written THEN Val(s, f)
  ELSE Then(MoveWindow(s, f.dir_sect), LAMBDA t, v :
       Val(SetSlot(t, f.dir_ptr, [Slot(t, f.dir_ptr) EXCEPT !.size = f.fsize, !.clust = f.org]),
           [f EXCEPT !.written = FALSE]))
FSync(s, f) ==
  IF ~f.written THEN Val(s, f)
  ELSE Then(MoveWindow(s, f.dir_sect), LAMBDA t, v :
       {Out(x.res, x.s, [f EXCEPT !.written = FALSE]) : x \in
          Sync(SetSlot(t, f.dir_ptr,
                       [Slot(t, f.dir_ptr) EXCEPT !.size = f.fsize, !.clust = f.org]))})
\* The file is durable once a call says so; one that failed is given up.
Settle(p, closing) ==
  /\ Calls /\ p \in Open
  /\ \E x \in FSync(vol, fil[p]) :
       /\ vol' = x.s
       /\ fil' = IF closing \/ x.res # "OK" THEN [q \in Open \ {p} |-> fil[q]]
                 ELSE [fil EXCEPT ![p] = x.val]
       /\ kept' = IF x.res = "OK" THEN [kept EXCEPT ![p] = fil[p].wrote] ELSE kept
SyncFile(p)  == Settle(p, FALSE)
CloseFile(p) == Settle(p, TRUE)

-----------------------------------------------------------------------------
\* f_unlink.  A directory must be empty.
RECURSIVE Vacant(_, _)
Vacant(s, d) ==
  Then(MoveWindow(s, d.sect), LAMBDA t, v :
       IF Ends(Slot(t, d.index)) THEN Ok(t)
       ELSE IF ~Gone(Slot(t, d.index)) THEN Err("DENIED", t)
       ELSE UNION {IF x.res = "OK" THEN Vacant(x.s, x.val) ELSE Ok(x.s) :
                     x \in NextDirEntry(t, d)})
\* Mutant: the chain goes before the entry that refers to it.
DropLate(s, n, i, e) ==
  Then(RemoveChain(s, e.clust), LAMBDA t, v : Then(MoveWindow(t, n), LAMBDA u, x :
       Sync(SetSlot(u, i, [e EXCEPT !.name = "E5"]))))
Drop(s, n, i, e) ==
  Then(MoveWindow(s, n), LAMBDA t, v :
  Then(RemoveChain(SetSlot(t, i, [e EXCEPT !.name = "E5"]), e.clust), LAMBDA u, x : Sync(u)))
FUnlink(s, path) ==
  Then(TracePath(s, path), LAMBDA t, d :
       LET e == Slot(t, d.index) IN
       IF e.ro THEN Err("DENIED", t)
       ELSE Then(IF e.dir THEN Vacant(t, SubDir(e.clust)) ELSE Ok(t), LAMBDA u, v :
                 Drop(u, t.win.sect, d.index, e)))
Forget(p, x) == kept' = IF p \in Paths /\ x.res \in {"OK", "RW_ERROR"}
                        THEN [kept EXCEPT ![p] = Nothing] ELSE kept
Unlink(p) ==
  /\ Calls /\ p \notin Open
  /\ \E x \in FUnlink(vol, p) : vol' = x.s /\ Forget(p, x)
  /\ UNCHANGED fil

\* f_mkdir: a clean table with its two dots, and then its entry.
Dots(c, up) ==
  LET Dot(name, n) == [Null EXCEPT !.name = name, !.dir = TRUE, !.clust = n] IN
  [dir |-> [i \in 0 .. PerSector - 1 |->
              IF i = 0 THEN Dot(".", c) ELSE IF i = 1 THEN Dot("..", up) ELSE Null]]
FMkdir(s, path) ==
  LET Build(t, i, d, c) ==
        Then(MoveWindow(t, Clust2Sect(c)), LAMBDA u, v :
        Then(Wipe([u EXCEPT !.win.data = Blank], Clust2Sect(c) + 1, SectsClust - 1), LAMBDA w, x :
        Then(MoveWindow([w EXCEPT !.win.data = Dots(c, d.sclust), !.win.dirty = TRUE],
                        t.win.sect), LAMBDA y, z : Ok(y))))
      Enlist(t, n, i, c) ==
        Then(MoveWindow(t, n), LAMBDA u, v :
             Sync(SetSlot(u, i, [Null EXCEPT !.name = path[Len(path)], !.dir = TRUE, !.clust = c])))
  IN UNION {CASE x.res = "OK" -> Err("EXIST", x.s)
              [] x.res = "NO_FILE" ->
                   Then(ReserveDirentry(x.s, x.val), LAMBDA t, i :
                   Then(CreateChain(t, 0), LAMBDA u, c :
                        CASE c = 0 -> Err("DENIED", u) [] c = 1 -> Err("RW_ERROR", u)
                          [] c > 1 -> Then(Build(u, i, x.val, c), LAMBDA w, v :
                                           Enlist(w, t.win.sect, i, c))))
              [] OTHER -> {x} : x \in TracePath(s, path)}
Mkdir(p) ==
  /\ Calls /\ \E x \in FMkdir(vol, p) : vol' = x.s
  /\ UNCHANGED <<fil, kept>>

\* f_rename: the new entry, and then the old one goes.  In between the chain
\* has two.
FRename(s, old, new) ==
  Then(TracePath(s, old), LAMBDA t, d :
  UNION {CASE x.res = "OK" -> Err("EXIST", x.s)
           [] x.res = "NO_FILE" ->
                Then(ReserveDirentry(x.s, x.val), LAMBDA u, i :
                LET named == SetSlot(u, i, [Slot(t, d.index) EXCEPT !.name = new[Len(new)]]) IN
                Then(MoveWindow([named EXCEPT !.torn = TRUE], t.win.sect), LAMBDA w, v :
                Then(Sync(SetSlot(w, d.index, [Slot(w, d.index) EXCEPT !.name = "E5"])),
                     LAMBDA y, z : Ok([y EXCEPT !.torn = s.torn]))))
           [] OTHER -> {x} : x \in TracePath(t, new)})
Rename(p, q) ==
  /\ Calls /\ {p, q} \cap Open = {}
  /\ \E x \in FRename(vol, p, q) :
       /\ vol' = x.s
       /\ kept' = CASE x.res = "OK" /\ p \in Paths -> [kept EXCEPT ![p] = Nothing, ![q] = kept[p]]
                    [] OTHER -> kept
  /\ UNCHANGED fil

\* f_chmod, f_stat and f_getfree.
FChmod(s, path, ro) ==
  Then(TracePath(s, path), LAMBDA t, d :
       Sync(SetSlot(t, d.index, [Slot(t, d.index) EXCEPT !.ro = ro])))
Chmod(p, ro) ==
  /\ Calls /\ \E x \in FChmod(vol, p, ro) : vol' = x.s
  /\ UNCHANGED <<fil, kept>>
Stat(p) ==
  /\ Calls /\ \E x \in TracePath(vol, p) : vol' = x.s
  /\ UNCHANGED <<fil, kept>>

\* A FAT12 is read by its clusters, an error counting as one in use; a FAT16
\* as it lies.
RECURSIVE Tally(_, _, _)
Tally(s, c, n) ==
  IF c = MaxClust THEN Ok([s EXCEPT !.free = n])
  ELSE Then(IF s.type = 12 THEN GetCluster(s, c)
            ELSE Then(AtByte(s, 2 * c), LAMBDA t, v : Val(t, FatWord(t, 2 * c))), LAMBDA t, st :
       Tally(t, c + 1, IF st = 0 THEN n + 1 ELSE n))
FGetfree(s) == IF s.free <= MaxClust - 2 THEN Ok(s) ELSE Tally(s, IF s.type = 12 THEN 2 ELSE 0, 0)
GetFree ==
  /\ Calls /\ \E x \in FGetfree(vol) : vol' = x.s
  /\ UNCHANGED <<fil, kept>>

\* The card, or the power, comes back.
Restart ==
  /\ ~vol.card
  /\ vol' = Mounted(vol) /\ fil' = Nothing /\ UNCHANGED <<kept, calls>>

Next ==
  \/ \E p \in Paths :
       \/ \E mode \in Modes : OpenFile(p, mode)
       \/ \E n \in Lengths : Write(p, n)
       \/ \E ofs \in Offsets : Seek(p, ofs)
       \/ SyncFile(p) \/ CloseFile(p)
       \/ \E ro \in BOOLEAN : Len(p) = 1 /\ Chmod(p, ro)
  \/ \E p \in Paths \union Dirs : Unlink(p) \/ Stat(p)
  \/ \E p \in Dirs : Mkdir(p)
  \/ \E r \in Renames : Rename(r[1], r[2])
  \/ GetFree \/ Restart

Spec == Init /\ [][Next]_vars

-----------------------------------------------------------------------------
\* What is on the card, whatever the window holds.
OnDisk(n) == vol.disk[n]
\* ... and what it would be if the window were written back now.
Seen(n) == IF n = vol.win.sect THEN vol.win.data ELSE vol.disk[n]
FatAt(At(_), c) ==
  LET Byte(k) == At(FatBase + k \div SectorSize).fat[k % SectorSize]
      w == Byte((c * 3) \div 2) + 256 * Byte((c * 3) \div 2 + 1)
  IN IF vol.type = 16 THEN Byte(2 * c) + 256 * Byte(2 * c + 1)
     ELSE IF c % 2 = 1 THEN w \div 16 ELSE w % 4096

\* The clusters of a chain; one that comes back to itself is cut off.
RECURSIVE Chain(_, _, _)
Chain(At(_), c, n) ==
  IF ~IsLink(c) \/ n = 0 THEN <<>> ELSE <<c>> \o Chain(At, FatAt(At, c), n - 1)
ChainOf(At(_), c) == Chain(At, c, MaxClust)
Sects(chain) ==
  [i \in 1 .. Len(chain) * SectsClust |->
     Clust2Sect(chain[((i - 1) \div SectsClust) + 1]) + ((i - 1) % SectsClust)]

\* The entries of a directory, and of those below it: with its path and place.
RECURSIVE Entries(_, _, _)
Entries(At(_), sects, path) ==
  LET Slots == {<<n, i>> : n \in {sects[j] : j \in DOMAIN sects}, i \in 0 .. PerSector - 1}
      Here == {[path |-> Append(path, Table(At(x[1]))[x[2]].name), at |-> x,
                entry |-> Table(At(x[1]))[x[2]]] : x \in Slots}
      Live == {h \in Here : h.entry.name \notin {"0", "E5", ".", ".."}}
  IN Live \union UNION {Entries(At, Sects(ChainOf(At, h.entry.clust)), h.path) :
                          h \in {g \in Live : g.entry.dir}}
All(At(_)) == Entries(At, [i \in 1 .. RootSects |-> DirBase + i - 1], <<>>)
Clusters(At(_), c) == LET ch == ChainOf(At, c) IN {ch[i] : i \in DOMAIN ch}

\* At every instant, and so after a cut at any access of any call, the chains
\* of the entries on the card are made of clusters that are in use, and no two
\* entries share one: what each call writes first (the mark of a new cluster
\* before the link to it, the FAT before the entry of a file that grew, the
\* entry before the FAT of one that goes) never leaves anything that a later
\* call would take for free space or for another file's (create_chain,
\* remove_chain, f_sync, f_unlink, f_open, f_mkdir).
Consistent ==
  ~vol.torn =>
    \A h \in All(OnDisk) :
      /\ \A c \in Clusters(OnDisk, h.entry.clust) : FatAt(OnDisk, c) \notin {0, 1}
      /\ \A g \in All(OnDisk) : g.at # h.at =>
           Clusters(OnDisk, g.entry.clust) \cap Clusters(OnDisk, h.entry.clust) = {}
Holds(h, units) ==
  LET sects == Sects(ChainOf(OnDisk, h.entry.clust)) IN
  \A u \in DOMAIN units :
    /\ u < h.entry.size /\ u \div Units < Len(sects)
    /\ Data(OnDisk(sects[u \div Units + 1]))[u % Units] = units[u]
\* What f_sync or f_close has reported as written is on the card and belongs to
\* the file, whatever is done to other files and wherever that is cut off,
\* until it is overwritten, or the file deleted.
Kept ==
  ~vol.torn => \A p \in Paths : kept[p] # Nothing =>
                 \E h \in All(OnDisk) : h.path = p /\ Holds(h, kept[p])
\* As long as nothing has failed, a cluster is in use exactly if an entry or an
\* open file leads to it, so that none leaks; and the count of free clusters,
\* once f_getfree has made it, stays right through all calls (remove_chain,
\* create_chain).
Accounted ==
  vol.luck = Cuts =>
    LET used == {c \in 2 .. MaxClust - 1 : FatAt(Seen, c) # 0} IN
    /\ vol.free # Unknown => vol.free = MaxClust - 2 - Cardinality(used)
    /\ used = UNION ({Clusters(Seen, h.entry.clust) : h \in All(Seen)}
                       \union {Clusters(Seen, fil[p].org) : p \in Open})
=============================================================================
