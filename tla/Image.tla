------------------------------- MODULE Image -------------------------------
(***************************************************************************)
(* The files of the workhorse: thrall() of slave.c opens an image with     *)
(* philes.c, slave() serves the requests for its sectors with fddimage.c,  *)
(* and in between the file selector of the menu lists the directory and    *)
(* lets the user choose another image; all of them through the one window  *)
(* of tff.c.  An action is one call, or one turn of a loop, that looks at  *)
(* the card; cards are swapped, and fail, between any two.                 *)
(***************************************************************************)
EXTENDS Tff

CONSTANTS
  NSectors,   \* FDD_NSECTORS
  DirName,    \* the directory of the images, "VECTOR06"
  NoName,     \* what imagefile holds before the first image is found
  Odd,        \* names the menu picks that were not listed
  Requests,   \* the sectors that are asked for: [op, side, track, sector]
  HostBlock,  \* what is written to them
  Faults,     \* a subset of {"swap", "bad", "browse"}
  Files,      \* what the cards hold: for each image of the directory its size
              \* and the sequences of its clusters and of their sectors
  NoImage, NoRequest

VARIABLES
  cpu,        \* the workhorse: where it is, for whom, and its locals
  imagefile,  \* the name of the chosen image
  first,      \* the local of thrall(): imagefile has been set
  request,    \* the sector asked for, and how many of its blocks were moved
  buffer,     \* the sector buffer
  answer,     \* the last answer
  medium,     \* history: the card last mounted,
  named,      \* the card on which imagefile was found, if it was,
  owner,      \* the card and the name that fp was opened with,
  seen        \* and the images listed since the menu opened the directory

choice == <<imagefile, first, named, seen>>
floppy == <<request, buffer, answer>>
vars   == <<fsvars, cpu, choice, floppy, medium, owner>>

Blocks  == 0 .. 1   \* FDD_SECTOR_SIZE, in sectors of the card
FddSize == 2 * SectorSize
NoOne   == [card |-> NoCard, name |-> NoName]

\* calc_offset, in 32 bits
CalcOffset(r) == (((2 * r.track + 1 - r.side) * NSectors + r.sector - 1) * FddSize) % OffsetMod

-----------------------------------------------------------------------------
At(place)   == cpu.at = place
Resting     == [at |-> "START", why |-> "thrall", path |-> <<>>, dj |-> NoDir,
                ofs |-> 0, btr |-> 0, cut |-> FALSE]
Goto(place) == cpu' = [Resting EXCEPT !.at = place, !.why = cpu.why, !.path = cpu.path,
                                      !.cut = cpu.cut]
Refuse(cut) == cpu' = [Resting EXCEPT !.at = "REFUSED", !.why = cpu.why, !.cut = cut]
Call(why, path) == cpu' = [Resting EXCEPT !.at = "AUTOMOUNT", !.why = why, !.path = path]
Again       == cpu' = Resting
Serve       == cpu' = [Resting EXCEPT !.at = "SERVE"]
Unlabel     == win' = NoWindow

\* thrall() from the top: philes_mount initialises the card and forgets the
\* file system.
PhilesMount ==
  /\ At("START")
  /\ \E n \in Initialised : noinit' = n /\ awake' = ~n
  /\ fs' = NoFs /\ Unlabel /\ Call("opendir", <<DirName>>)
  /\ UNCHANGED <<slot, bad, written, fsid, fp, dir, choice, floppy, medium, owner>>

\* Where a call that failed leads.  The menu gives up; thrall() starts over,
\* and where an image could not be opened, with the first of the directory.
\* Mutant: it keeps on trying the same image.
GiveUpStubborn ==
  (IF cpu.why = "browse" THEN Serve ELSE Again) /\ UNCHANGED choice
GiveUp ==
  /\ IF cpu.why = "browse" THEN Serve ELSE Again
  /\ first' = (first /\ cpu.why # "open") /\ UNCHANGED <<imagefile, named, seen>>

\* auto_mount: the volume is mounted already, or is looked for.
StillMounted ==
  /\ At("AUTOMOUNT") /\ fs.type # 0 /\ ~noinit
  /\ cpu' = [cpu EXCEPT !.at = "TRACE", !.dj = RootDir]
  /\ UNCHANGED <<fsvars, choice, floppy, medium, owner>>
Remount ==
  /\ At("AUTOMOUNT") /\ (fs.type = 0 \/ noinit)
  /\ \E n \in Initialised :
       /\ noinit' = n /\ awake' = ~n
       /\ IF n THEN GiveUp ELSE Goto("CHECK") /\ UNCHANGED choice
  /\ fs' = NoFs /\ Unlabel
  /\ UNCHANGED <<slot, bad, written, fsid, fp, dir, floppy, medium, owner>>
FindVolume ==
  /\ At("CHECK")
  /\ \E m \in Mounted :
       /\ fs' = m
       /\ IF m = NoFs THEN GiveUp /\ UNCHANGED <<fsid, medium>>
          ELSE /\ fsid' = m.id /\ medium' = slot
               /\ Goto("AUTOMOUNT") /\ UNCHANGED choice
  /\ UNCHANGED <<card, noinit, written, win, fp, dir, floppy, owner>>

-----------------------------------------------------------------------------
\* trace_path, one directory entry at a time.
Sought   == MakeDirfile(Head(cpu.path))
OpenFile == /\ Call("open", <<DirName, imagefile'>>)
            /\ fp' = [fp EXCEPT !.open = FALSE]
\* The directory is open: thrall() looks for its first image if it has none,
\* the menu lists it.
DirFound(e) ==
  /\ dir' = SubDir([cpu.dj EXCEPT !.id = fs.id], e)
  /\ UNCHANGED <<imagefile, named, first, owner>>
  /\ seen' = IF cpu.why = "browse" THEN {} ELSE seen
  /\ IF cpu.why = "opendir" /\ first THEN OpenFile ELSE Goto("NEXT") /\ UNCHANGED fp
\* The image is: fdd_load, and slave().
FileFound(e) ==
  /\ fp' = Opened(e) /\ Serve /\ dir' = NoDir /\ UNCHANGED choice
  /\ owner' = [card |-> medium,
                name |-> IF imagefile \in DOMAIN Files[medium] THEN imagefile ELSE FileInfo(e)]
Found(e) ==
  IF Len(cpu.path) > 1
  THEN IF e.attr = "DIR"
       THEN /\ cpu' = [cpu EXCEPT !.path = Tail(@), !.dj = SubDir(@, e)]
            /\ UNCHANGED <<dir, fp, choice, owner>>
       ELSE Refuse(FALSE) /\ UNCHANGED <<dir, fp, choice, owner>>
  ELSE IF (e.attr = "DIR") = (cpu.why = "open")
       THEN Refuse(FALSE) /\ UNCHANGED <<dir, fp, choice, owner>>
       ELSE IF cpu.why = "open" THEN FileFound(e) ELSE DirFound(e)

Matches(e) == Valid(e) /\ e.name = Sought
Trace ==
  /\ At("TRACE") /\ Sought # <<>>
  /\ \E m \in MoveWindow(win, cpu.dj.sect) :
       IF ~m.ok THEN win' = m.win /\ GiveUp /\ UNCHANGED <<dir, fp, owner>>
       ELSE LET e == EntryAt(cpu.dj, m.win) IN
         IF Ends(e) THEN win' = m.win /\ Refuse(FALSE) /\ UNCHANGED <<dir, fp, choice, owner>>
         ELSE IF Matches(e) THEN win' = m.win /\ Found(e)
         ELSE \E n \in NextDirEntry(cpu.dj, m.win) :
                /\ win' = n.win /\ UNCHANGED <<dir, fp, choice, owner>>
                /\ IF n.ok THEN cpu' = [cpu EXCEPT !.dj = n.dir] ELSE Refuse(n.cut)
  /\ UNCHANGED <<card, noinit, written, fs, fsid, floppy, medium>>
BadName ==
  /\ At("TRACE") /\ Sought = <<>>
  /\ Refuse(FALSE) /\ UNCHANGED <<fsvars, choice, floppy, medium, owner>>
Refused ==
  /\ At("REFUSED") /\ GiveUp /\ UNCHANGED <<fsvars, floppy, medium, owner>>

-----------------------------------------------------------------------------
\* philes_nextfile, one entry of f_readdir at a time.
\* Mutant: deleted files are listed.
IsImageEver(e) == e.attr \notin {"VOL", "DIR"} /\ ~Ends(e) /\ IsSuffix(<<".", "F">>, FileInfo(e))
IsImage(e) == /\ Valid(e) /\ e.attr # "DIR"
              /\ IsSuffix(<<".", "F">>, FileInfo(e))
Walk(cut) == cpu' = [cpu EXCEPT !.cut = @ \/ cut]
Hit(name, cut) ==
  IF cpu.why = "browse"
  THEN seen' = seen \union {name} /\ Walk(cut) /\ UNCHANGED <<imagefile, first, named, fp>>
  ELSE /\ imagefile' = name /\ first' = TRUE /\ named' = medium
       /\ OpenFile /\ UNCHANGED seen
\* No more images: thrall() tries the name it has.
Miss(place) ==
  IF cpu.why = "browse" THEN Goto(place) /\ UNCHANGED <<choice, fp>>
  ELSE /\ first' = TRUE /\ UNCHANGED <<imagefile, named, seen>>
       /\ OpenFile
NextFile ==
  /\ At("NEXT")
  /\ IF ~Validate(dir.id) THEN Miss("LISTFAILED") /\ UNCHANGED <<win, dir>>
     ELSE IF dir.sect = 0 THEN Miss("LISTED") /\ UNCHANGED <<win, dir>>
     ELSE \E m \in MoveWindow(win, dir.sect) :
       IF ~m.ok THEN Miss("LISTFAILED") /\ win' = m.win /\ UNCHANGED dir
       ELSE LET e == EntryAt(dir, m.win) IN
         IF Ends(e) THEN Miss("LISTED") /\ win' = m.win /\ UNCHANGED dir
         ELSE \E n \in NextDirEntry(dir, m.win) :
                /\ win' = n.win
                /\ dir' = IF n.ok THEN n.dir ELSE [n.dir EXCEPT !.sect = 0]
                /\ IF IsImage(e) THEN Hit(FileInfo(e), n.cut)
                   ELSE Walk(n.cut) /\ UNCHANGED <<choice, fp>>
  /\ UNCHANGED <<card, noinit, written, fs, fsid, floppy, medium, owner>>

\* slave() returns.  (What the next call sets before it is read is forgotten.)
Quit == Again /\ owner' = NoOne /\ seen' = {} /\ fp' = NoFile

\* The menu lists the directory; then the user chooses, or leaves.
Browse ==
  /\ At("SERVE") /\ Alive /\ "browse" \in Faults
  /\ Call("browse", <<DirName>>) /\ UNCHANGED <<fsvars, choice, floppy, medium, owner>>
Listed == cpu.at \in {"LISTED", "LISTFAILED"}
Close ==
  /\ Listed /\ Serve /\ dir' = NoDir /\ seen' = {}
  /\ UNCHANGED <<card, noinit, written, fs, win, fsid, fp, imagefile, first, named, floppy,
                 medium, owner>>
Pick ==
  /\ Listed /\ imagefile' \in seen \union Odd
  /\ named' = IF imagefile' \in seen THEN medium ELSE NoCard
  /\ Quit /\ dir' = NoDir
  /\ UNCHANGED <<card, noinit, written, fs, win, fsid, first, floppy, medium>>

-----------------------------------------------------------------------------
\* slave(): the card is polled, then a request taken.
NoSd ==
  /\ At("SERVE") /\ (~Alive \/ bad)
  /\ Quit
  /\ UNCHANGED <<card, noinit, written, fs, win, fsid, dir, imagefile, first, named, floppy, medium>>
Ask ==
  /\ At("SERVE") /\ Alive
  /\ \E r \in Requests :
       /\ request' = [op |-> r.op, side |-> r.side, track |-> r.track, sector |-> r.sector,
                      done |-> 0]
       /\ buffer' = IF r.op = "WRITE" THEN [k \in Blocks |-> HostBlock] ELSE buffer
  /\ Goto("SEEK") /\ UNCHANGED <<fsvars, choice, answer, medium, owner>>

Failed == cpu' = [Resting EXCEPT !.at = "FAILED"] /\ answer' = "ERROR" /\ request' = NoRequest
\* f_read_or_wr starts: the count is cut to what the file has left.
Transfer ==
  LET left == fp'.fsize - fp'.fptr IN
  cpu' = [Resting EXCEPT !.at = "TRANSFER", !.btr = IF FddSize > left THEN left ELSE FddSize]
LSeek ==
  /\ At("SEEK")
  /\ IF ~Validate(fp.id) \/ fp.err THEN Failed /\ UNCHANGED <<fp, buffer>>
     ELSE LET ofs == Cut(CalcOffset(request)) IN
          /\ fp' = Rewound(ofs) /\ UNCHANGED floppy
          /\ IF ofs = 0 \/ fp.org = 0 THEN Transfer
             ELSE cpu' = [Resting EXCEPT !.at = "FOLLOW", !.ofs = ofs]
  /\ UNCHANGED <<card, noinit, written, fs, win, fsid, dir, choice, medium, owner>>
Follow ==
  /\ At("FOLLOW")
  /\ IF cpu.ofs <= ClustSize
     THEN fp' = Land(fp, fp.curr_clust, cpu.ofs) /\ Transfer /\ UNCHANGED <<win, floppy>>
     ELSE \E g \in GetCluster(fp.curr_clust, win) :
       /\ win' = g.win
       /\ CASE g.next = 0 -> fp' = Land(fp, 0, ClustSize) /\ Transfer /\ UNCHANGED floppy
            [] IsLink(g.next) ->
                 /\ fp' = [fp EXCEPT !.curr_clust = g.next, !.fptr = @ + ClustSize]
                 /\ cpu' = [cpu EXCEPT !.ofs = @ - ClustSize] /\ UNCHANGED floppy
            [] OTHER -> fp' = [fp EXCEPT !.err = TRUE] /\ Failed /\ UNCHANGED buffer
  /\ UNCHANGED <<card, noinit, written, fs, fsid, dir, choice, medium, owner>>

\* One turn of the loop of f_read_or_wr.
Break(f) == fp' = [f EXCEPT !.err = TRUE] /\ Failed
Forth(f, n) ==
  /\ fp' = [f EXCEPT !.fptr = @ + n]
  /\ cpu' = [cpu EXCEPT !.btr = @ - n]
Store(s, n) == [written EXCEPT ![slot] =
  [i \in DOMAIN @ \union s .. s + n - 1 |->
     IF i \in s .. s + n - 1 THEN buffer[request.done + i - s] ELSE @[i]]]
\* cc sectors directly, from sector s on; if it fails, after none or some.
Direct(f, s, cc) ==
  LET g == [f EXCEPT !.sect_clust = @ - (cc - 1), !.curr_sect = @ + (cc - 1)]
      now(n) == request.done .. request.done + n - 1
      Got(n) == [k \in Blocks |-> IF k \in now(n) THEN Contents(slot, s + k - request.done)
                                  ELSE buffer[k]]
      possible == Alive /\ ~noinit
  IN \/ /\ possible /\ Forth(g, cc * SectorSize)
        /\ request' = [request EXCEPT !.done = @ + cc] /\ UNCHANGED answer
        /\ IF request.op = "WRITE" THEN written' = Store(s, cc) /\ UNCHANGED buffer
                                   ELSE buffer' = Got(cc) /\ UNCHANGED written
     \/ /\ ~possible \/ bad
        /\ Break(f)
        /\ \/ UNCHANGED <<written, buffer>>
           \/ /\ possible
              /\ \E n \in 1 .. cc :
                   IF request.op = "WRITE" THEN written' = Store(s, n) /\ UNCHANGED buffer
                   ELSE n < cc /\ buffer' = Got(n) /\ UNCHANGED written
\* A fraction of a sector, from the window, to the buffer for a write too.
Fraction(f, w) ==
  \E m \in MoveWindow(w, f.curr_sect) :
    /\ win' = m.win /\ UNCHANGED written
    /\ IF ~m.ok THEN Break(f) /\ UNCHANGED buffer
       ELSE LET off == f.fptr % SectorSize
                n   == IF SectorSize - off > cpu.btr THEN cpu.btr ELSE SectorSize - off
            IN /\ Forth(f, n)
               /\ buffer' = [buffer EXCEPT ![request.done] =
                     [i \in 0 .. SectorSize - 1 |-> IF i < n THEN m.win.data[off + i] ELSE @[i]]]
               /\ UNCHANGED <<request, answer>>
Turn ==
  /\ At("TRANSFER") /\ cpu.btr > 0
  /\ IF fp.fptr % SectorSize # 0 THEN Fraction(fp, win)
     ELSE \E n \in NextSector(win) :
       IF ~n.ok THEN Break(n.fp) /\ win' = n.win /\ UNCHANGED <<written, buffer>>
       ELSE IF cpu.btr < SectorSize THEN Fraction(n.fp, n.win)
       ELSE LET cc == cpu.btr \div SectorSize IN
            /\ win' = n.win
            /\ Direct(n.fp, n.fp.curr_sect, IF cc > n.fp.sect_clust THEN n.fp.sect_clust ELSE cc)
  /\ UNCHANGED <<card, noinit, fs, fsid, dir, choice, medium, owner>>
Done ==
  /\ At("TRANSFER") /\ cpu.btr = 0
  /\ answer' = "OK" /\ request' = NoRequest
  /\ cpu' = [Resting EXCEPT !.at = "ANSWERED"]
  /\ UNCHANGED <<fsvars, choice, buffer, medium, owner>>
\* The host has the answer, and what was in the buffer; FR_RW_ERROR ends
\* slave().
Empty == [k \in Blocks |-> [i \in 0 .. SectorSize - 1 |-> 0]]
Acked ==
  /\ cpu.at \in {"ANSWERED", "FAILED"}
  /\ IF At("FAILED") THEN Quit ELSE Serve /\ UNCHANGED <<owner, seen, fp>>
  /\ answer' = "NONE" /\ buffer' = Empty
  /\ UNCHANGED <<card, noinit, written, fs, win, fsid, dir, imagefile, first, named, request, medium>>

-----------------------------------------------------------------------------
Swap ==
  /\ "swap" \in Faults
  /\ slot' \in (Cards \union {NoCard}) \ {slot} /\ (slot = NoCard \/ slot' = NoCard)
  /\ awake' = FALSE
  /\ UNCHANGED <<bad, noinit, written, fs, win, fsid, fp, dir, cpu, choice, floppy, medium, owner>>
Wobble ==
  /\ "bad" \in Faults /\ bad' = ~bad
  /\ UNCHANGED <<slot, awake, noinit, written, fs, win, fsid, fp, dir,
                 cpu, choice, floppy, medium, owner>>

Init ==
  /\ slot \in Cards /\ awake = FALSE /\ bad = FALSE /\ noinit = TRUE
  /\ written = [c \in Cards |-> <<>>]
  /\ fs = NoFs /\ win = NoWindow /\ fsid = 0
  /\ fp = NoFile /\ dir = NoDir /\ cpu = Resting
  /\ imagefile = NoName /\ first = FALSE /\ named = NoCard /\ seen = {}
  /\ request = NoRequest /\ answer = "NONE"
  /\ buffer = Empty
  /\ medium = NoCard /\ owner = NoOne

Work ==
  \/ PhilesMount \/ StillMounted \/ Remount \/ FindVolume
  \/ Trace \/ BadName \/ Refused \/ NextFile \/ Close
  \/ NoSd \/ LSeek \/ Follow \/ Turn \/ Done \/ Acked
Next == Work \/ Browse \/ Pick \/ Ask \/ Swap \/ Wobble
\* The workhorse runs; nobody has to ask, to browse or to touch the card.
Spec == Init /\ [][Next]_vars /\ WF_vars(Work)
-----------------------------------------------------------------------------
Whole(c, n) == LET f == Files[c][n]  k == f.size \div SectorSize IN
               IF k < Len(f.sectors) THEN k ELSE Len(f.sectors)

TypeOK ==
  /\ slot \in Cards \union {NoCard} /\ awake \in BOOLEAN /\ bad \in BOOLEAN
  /\ noinit \in BOOLEAN /\ fsid \in 0 .. IdMod - 1 /\ fs.type \in {0, 12, 16}
  /\ \A c \in Cards : DOMAIN written[c] \subseteq DOMAIN Volume[c]
  /\ fp.sect_clust \in 0 .. 255 /\ fp.fptr <= fp.fsize
  /\ first \in BOOLEAN /\ answer \in {"NONE", "OK", "ERROR"}
  /\ (request # NoRequest) = (cpu.at \in {"SEEK", "FOLLOW", "TRANSFER"})

\* The window always holds the sector it says it holds, on the card that is
\* mounted: through failed reads, swapped cards, and although files are written
\* past it.
WindowTrue == win.sect # 0 => win.data = Contents(medium, win.sect)

\* The file object stands where the chain of clusters says: behind the last
\* sector taken, with the sectors left in its cluster counted right.  (Where
\* the chain broke off, the counter forces the next read to look at it again.)
FilCoherent ==
  LET own  == Files[owner.card][owner.name].sectors
      last == (fp.fptr - 1) \div SectorSize
  IN cpu.at \in {"TRANSFER", "SERVE"} /\ owner # NoOne /\ fp.fptr > 0 /\ ~fp.err
     => /\ last < Len(own)
        /\ fp.sect_clust = fs.sects_clust - (last % fs.sects_clust)
        /\ fp.sect_clust > 1 => fp.curr_sect = own[last + 1]
        /\ Clust2Sect(fp.curr_clust) = own[last - (last % fs.sects_clust) + 1]

\* A name that the directory of a card showed can be opened on that card,
\* unless the card fails.
OpenListed == At("REFUSED") /\ cpu.why = "open" /\ ~cpu.cut => named # medium

\* A listing of the directory that was not cut short by an error shows all its
\* images, and nothing else.
ListsAll == At("LISTED") /\ ~cpu.cut => seen = DOMAIN Files[medium]

\* Only the sectors of the opened image are ever written.
OwnStep ==
  \A c \in Cards : \A s \in DOMAIN written'[c] :
    \/ s \in DOMAIN written[c] /\ written'[c][s] = written[c][s]
    \/ /\ owner.card = c
       /\ \E i \in DOMAIN Files[c][owner.name].sectors : Files[c][owner.name].sectors[i] = s
OnlyOwnSectors == [][OwnStep]_vars

\* The emulator gets the array of blocks it expects.
Broken == LET f == Files[owner.card][owner.name] IN f.size > Len(f.sectors) * SectorSize
Abstract == INSTANCE Drive WITH
  faulty <- ~Alive \/ bad \/ (owner # NoOne /\ Broken),
  Block  <- [0 .. SectorSize - 1 -> Nat],
  image  <- IF owner = NoOne THEN NoImage
            ELSE [i \in 0 .. Whole(owner.card, owner.name) - 1 |->
                    Contents(owner.card, Files[owner.card][owner.name].sectors[i + 1])]
IsDrive == Abstract!Spec

\* Provided a card with an image comes to stay and works, it is served from
\* again and again, whatever the user picks.
EventuallyServes ==
  <>[](slot # NoCard /\ ~bad /\ Files[slot] # <<>>) => []<>(At("SERVE") /\ owner.card = slot)
=============================================================================
