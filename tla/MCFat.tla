------------------------------- MODULE MCFat -------------------------------
(***************************************************************************)
(* Cards for TLC: four clusters of two sectors, the first of them the      *)
(* directory D.  On two, formatted as FAT12 (whose entries lie across the  *)
(* ends of sectors), D has room for one more name, and the rest is free or *)
(* belongs to a file A in two pieces; on one, formatted as FAT16, D has    *)
(* two clusters, with a file B in the second.                              *)
(***************************************************************************)
EXTENDS FatWrite

\* The entries of their FATs.
Empty == 0 :> 4088 @@ 1 :> 4095 @@ 2 :> 4095
WithA == Empty @@ 3 :> 5 @@ 5 :> 4095
WithB == 0 :> 4088 @@ 1 :> 4095 @@ 2 :> 4 @@ 4 :> 4095 @@ 5 :> 4095
Link12(v, c) == IF c \in DOMAIN v THEN v[c] ELSE 0
Link16(v, c) == IF Link12(v, c) >= 4088 THEN Link12(v, c) + 61440 ELSE Link12(v, c)
Nibble(v, n) == (Link12(v, n \div 3) \div (16 ^ (n % 3))) % 16
ByteOf(t, v, k) ==
  IF t = 12 THEN Nibble(v, 2 * k) + 16 * Nibble(v, 2 * k + 1)
  ELSE (Link16(v, k \div 2) \div (256 ^ (k % 2))) % 256

Named(name) == [Null EXCEPT !.name = name]
DirNamed(name, c) == [Named(name) EXCEPT !.dir = TRUE, !.clust = c]
FileNamed(name, c, size) == [Named(name) EXCEPT !.clust = c, !.size = size]
Tab(e) == [dir |-> [i \in 0 .. PerSector - 1 |-> e[i + 1]]]
Place(c, i) == DataBase + (c - 2) * SectsClust + i
\* Whose a data sector is.
Owner(v, n) ==
  CASE v = WithA /\ n \in {Place(3, 0), Place(3, 1), Place(5, 0)} -> "A"
    [] v = WithB /\ n = Place(5, 0) -> "B"
    [] OTHER -> "junk"
Sector(t, v, n) ==
  CASE n < DirBase -> [fat |-> [k \in 0 .. SectorSize - 1 |->
                         ByteOf(t, v, ((n - FatBase) % SectsFat) * SectorSize + k)]]
    [] n = DirBase -> Tab(<<DirNamed("D", 2), IF v = WithA THEN FileNamed("A", 3, 5) ELSE Null,
                            Null, Null>>)
    [] n = Place(2, 0) -> Tab(<<DirNamed(".", 2), DirNamed("..", 0), Named("X"), Named("Y")>>)
    [] n = Place(2, 1) -> Tab(<<Named("U"), Named("V"), Named("W"),
                                IF v = WithB THEN Named("Z") ELSE Null>>)
    [] n = Place(4, 0) /\ v = WithB -> Tab(<<FileNamed("B", 5, 2), Null, Null, Null>>)
    [] n = Place(4, 1) /\ v = WithB -> Tab(<<Null, Null, Null, Null>>)
    [] OTHER -> [data |-> [u \in 0 .. Units - 1 |-> Owner(v, n)]]
MCVolume(t, v) ==
  [type |-> t,
   disk |-> [n \in FatBase .. DataBase + (MaxClust - 2) * SectsClust - 1 |-> Sector(t, v, n)],
   kept |-> [p \in Paths |->
     IF v = WithA /\ p = <<"A">> THEN [u \in 0 .. 4 |-> "A"]
     ELSE IF v = WithB /\ p = <<"D", "B">> THEN [u \in 0 .. 1 |-> "B"] ELSE Nothing]]
MCVolumes == {MCVolume(12, WithA), MCVolume(12, Empty), MCVolume(16, WithB)}

MCPaths == {<<"A">>, <<"D", "B">>}
MCDirs == {<<"D", "E">>}
MCRenames == {<< <<"A">>, <<"D", "B">> >>, << <<"D", "B">>, <<"A">> >>}
=============================================================================
