------------------------------ MODULE MCImage ------------------------------
(***************************************************************************)
(* Three cards for TLC: a partitioned one with a FAT12 (entries across     *)
(* sector ends, two copies, one sector per cluster), one without           *)
(* partitions with a FAT16 (two sectors per cluster), and one that is no   *)
(* FAT volume.  They are described by their directories and chains, from   *)
(* which the raw sectors are built here.                                   *)
(***************************************************************************)
EXTENDS ImageInv

CONSTANTS part12, plain16, blank

Entry(n, a, c, s) == [name |-> n, attr |-> a, clust |-> c, size |-> s]
End == Entry(<<"0", " ", " ">>, "ARC", 0, 0)
Dot(c) == Entry(<<".", " ", " ">>, "DIR", c, 0)
V6  == <<"V", " ", " ">>

MCVolumes == part12 :> [bits |-> 12, part |-> 2, fats |-> 2, fatsz |-> 6, per |-> 1, clusts |-> 6,
  link |-> (2 :> 5) @@ (5 :> 4095) @@ (3 :> 6) @@ (6 :> 4) @@ (4 :> 7) @@ (7 :> 4095),
  root |-> <<Entry(<<"V", " ", " ">>, "VOL", 0, 0), Entry(<<"E5", " ", " ">>, "DIR", 6, 0),
             Entry(<<"V", " ", "F">>, "ARC", 6, 2), Entry(V6, "DIR", 2, 0)>>,
  sub  |-> (2 :> <<Dot(2), Dot(0), Entry(<<"C", " ", "F">>, "DIR", 6, 0),
                   Entry(<<"E5", "A", "F">>, "ARC", 6, 2)>>)
        @@ (5 :> <<Entry(<<"A", " ", "F">>, "ARC", 3, 8), Entry(<<"A", " ", "T">>, "ARC", 6, 2),
                   Entry(<<"B", "B", "F">>, "ARC", 0, 0), End>>)]
  @@ plain16 :> [bits |-> 16, part |-> 0, fats |-> 1, fatsz |-> 9, per |-> 2, clusts |-> 7,
  link |-> (2 :> 65535) @@ (4 :> 3) @@ (3 :> 65535) @@ (5 :> 0),
  root |-> <<Entry(<<"X", " ", "F">>, "ARC", 6, 2), Entry(<<"X", "X", " ">>, "DIR", 6, 0),
             Entry(<<"V", " ", " ">>, "VOL", 6, 0), Entry(<<"E5", " ", " ">>, "ARC", 6, 0),
             Entry(V6, "DIR", 2, 0), End, End, End>>,
  sub  |-> (2 :> <<Dot(2), Dot(0), Entry(<<"A", " ", "F">>, "VOL", 6, 2),
                   Entry(<<"A", " ", "F">>, "ARC", 4, 7), 
                   Entry(<<"D", " ", "F">>, "ARC", 5, 6), End, End, End>>)]

\* Entry c of a FAT12 is nibbles 3 c .. 3 c + 2.
Link(v, c)   == IF c \in DOMAIN v.link THEN v.link[c] ELSE 0
Nibble(v, n) == (Link(v, n \div 3) \div (16 ^ (n % 3))) % 16
FatByte(v, k) ==
  IF v.bits = 12 THEN Nibble(v, 2 * k) + 16 * Nibble(v, 2 * k + 1)
  ELSE (Link(v, k \div 2) \div (256 ^ (k % 2))) % 256

Base(v) == v.part + 1
Root(v) == Base(v) + v.fats * v.fatsz
Data(v) == Root(v) + Len(v.root) \div PerSector
Total(v) == 1 + v.fats * v.fatsz + Len(v.root) \div PerSector + v.clusts * v.per
BootOf(v) == [signed |-> TRUE, fat |-> TRUE, part |-> 0, bytes |-> SectorSize, rsvd |-> 1,
              fats |-> v.fats, fatsz |-> v.fatsz, perclust |-> v.per,
              roots |-> Len(v.root), total |-> Total(v)]
Mbr(p) == [BootOf(MCVolumes[part12]) EXCEPT !.fat = FALSE, !.part = p]
Place(v, c, i) == Data(v) + (c - 2) * v.per + i

Raw(v, s) ==
  IF s = v.part THEN BootOf(v)
  ELSE IF s < v.part THEN Mbr(v.part)
  ELSE IF s < Root(v)
  THEN [k \in 0 .. SectorSize - 1 |-> FatByte(v, ((s - Base(v)) % v.fatsz) * SectorSize + k)]
  ELSE IF s < Data(v)
  THEN [k \in 0 .. PerSector - 1 |-> v.root[(s - Root(v)) * PerSector + k + 1]]
  ELSE LET c == (s - Data(v)) \div v.per + 2  i == (s - Data(v)) % v.per IN
       IF c \in DOMAIN v.sub
       THEN [k \in 0 .. PerSector - 1 |-> v.sub[c][i * PerSector + k + 1]]
       ELSE [k \in 0 .. SectorSize - 1 |-> 1000 * v.bits + s * SectorSize + k]

MCVolume ==
  [c \in {part12, plain16} |-> [s \in 0 .. MCVolumes[c].part + Total(MCVolumes[c]) - 1 |-> Raw(MCVolumes[c], s)]]
  @@ blank :> [s \in 0 .. 1 |-> IF s = 0 THEN Mbr(1) ELSE [Mbr(0) EXCEPT !.signed = FALSE]]

On(c, size, clusts) ==
  LET v == MCVolumes[c] IN
  [size |-> size, clusts |-> clusts, sectors |-> [i \in 1 .. Len(clusts) * v.per |->
     Place(v, clusts[(i - 1) \div v.per + 1], (i - 1) % v.per)]]
MCFiles ==
  part12 :> ((<<"A", ".", "F">> :> On(part12, 8, <<3, 6, 4, 7>>)) @@ (<<"B", "B", ".", "F">> :> On(part12, 0, <<>>)))
  @@ plain16 :> ((<<"A", ".", "F">> :> On(plain16, 7, <<4, 3>>)) @@ (<<"D", ".", "F">> :> On(plain16, 6, <<5>>)))
  @@ blank :> <<>>

\* Whole sectors, the one with the end of the file in it, and sector 0.
MCRequests ==
  {[op |-> "READ", side |-> p, track |-> 0, sector |-> 1] : p \in {0, 1}}
    \union {[op |-> "WRITE", side |-> 0, track |-> 0, sector |-> 1],
           [op |-> "WRITE", side |-> 1, track |-> 0, sector |-> 0]}
MCHostBlock == [i \in 0 .. SectorSize - 1 |-> 9]
MCDirName == <<"V">>
MCNoName == <<"x">>
MCOdd == {<<"a", ".", ".", "f">>, <<"*", ".", "F">>}
=============================================================================
