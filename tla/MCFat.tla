-------------------------------- MODULE MCFat --------------------------------
(***************************************************************************)
(* Volumes for TLC: FAT16 and FAT32, with and without a partition table,   *)
(* clusters of one and two sectors of two bytes, and directories and files *)
(* whose clusters are out of order, cut short or cyclic.                   *)
(***************************************************************************)
EXTENDS Fat, TLC

Entry(n, c, size) == [name |-> n, vol |-> FALSE, dir |-> FALSE, hi |-> 0, lo |-> c, size |-> size]
SubDir(n, c)      == [Entry(n, c, 0) EXCEPT !.dir = TRUE]
Label(n)          == [Entry(n, 0, 0) EXCEPT !.vol = TRUE]
Last              == Entry(End, 0, 0)

\* A boot record: of the volume, or of a disk with one partition, or none.
Boot(t, csize, root, total) ==
  [sig |-> TRUE, fat16 |-> t = "FAT16", fat32 |-> t = "FAT32", ptype |-> 0, plba |-> 0,
   csize |-> csize, rsvd |-> 1, nfats |-> 2, rootent |-> root,
   tot16 |-> IF t = "FAT16" THEN total ELSE 0, tot32 |-> total,
   fatsz16 |-> IF t = "FAT16" THEN 4 ELSE 0, fatsz32 |-> 9, rootclus |-> 3]
Mbr(type, base) == [sig |-> TRUE, fat16 |-> FALSE, fat32 |-> FALSE, ptype |-> type, plba |-> base]
Blank == [Mbr(0, 0) EXCEPT !.sig = FALSE]

\* A volume of n_fatent - 2 clusters.  v.fat: the FAT's links; v.root: the
\* static root directory; v.dirs: the clusters that hold directories.
Fatsz(v) == IF v.type = "FAT16" THEN 4 ELSE 9
PerSec(v) == IF v.type = "FAT16" THEN Ent16 ELSE Ent32
DirSect(v) == v.base + 1 + 2 * Fatsz(v)
DataSect(v) == DirSect(v) + Len(v.root) \div DirEnt
NumEnt(v) == IF v.type = "FAT16" THEN 8 ELSE 9
ClusterOf(v, s) == 2 + (s - DataSect(v)) \div v.csize
Link(v, c) == IF c \in DOMAIN v.fat THEN v.fat[c] ELSE 0

Kind(v, s) ==
  CASE s \in {0, v.base} -> "boot"
    [] s > v.base /\ s < DirSect(v) -> "fat"
    [] s >= DirSect(v) /\ s < DataSect(v) -> "dir"
    [] s >= DataSect(v) -> IF ClusterOf(v, s) \in DOMAIN v.dirs THEN "dir" ELSE "data"
    [] OTHER -> "none"

Contents(v, s) ==
  CASE s = v.base -> Boot(v.type, v.csize, Len(v.root), DataSect(v) - v.base + (NumEnt(v) - 2) * v.csize)
    [] s = 0 /\ v.base # 0 -> Mbr(6, v.base)
    [] Kind(v, s) = "fat" ->
         [e \in 0 .. PerSec(v) - 1 |-> Link(v, ((s - v.base - 1) % Fatsz(v)) * PerSec(v) + e)]
    [] Kind(v, s) = "dir" ->
         LET list == IF s < DataSect(v) THEN v.root ELSE v.dirs[ClusterOf(v, s)]
             from == IF s < DataSect(v) THEN s - DirSect(v) ELSE (s - DataSect(v)) % v.csize
         IN  [e \in 0 .. DirEnt - 1 |-> list[from * DirEnt + e + 1]]
    [] OTHER -> [e \in 0 .. SecSize - 1 |-> s * SecSize + e]

\* A file's bytes from its list of clusters, which is written down apart from
\* the FAT.
FileOf(v, chain, size) ==
  LET per == v.csize * SecSize
      byte(k) == (DataSect(v) + (chain[(k \div per) + 1] - 2) * v.csize) * SecSize + (k % per)
  IN  [size |-> size, bytes |-> [k \in 1 .. Min({size, Len(chain) * per}) |-> byte(k - 1)]]

\* files: path -> <<clusters, size>>
Volume(v, files) ==
  LET s == 0 .. DataSect(v) + (NumEnt(v) - 2) * v.csize - 1
  IN  [kind |-> [n \in s |-> Kind(v, n)], sect |-> [n \in s |-> Contents(v, n)],
       files |-> [p \in DOMAIN files |-> FileOf(v, files[p][1], files[p][2])]]

NoVolume(b) == [kind |-> [s \in 0 .. 1 |-> "boot"], sect |-> 0 :> b @@ 1 :> Blank,
                files |-> <<>>]

Eoc16 == 65535
Eoc32 == 268435455 + 268435456        \* the top four bits do not count
K == <<"K">>
DK == <<"D", "K">>
MCPaths == {<<>>, K, DK, <<"K", "D">>, <<"D">>, <<"X">>}

\* A label and a long name before the file, clusters out of order, the high
\* half of the cluster number used for something else.
V16 ==
  LET v == [type |-> "FAT16", base |-> 0, csize |-> 1,
            fat |-> 5 :> 3 @@ 3 :> 6 @@ 6 :> Eoc16 @@ 4 :> Eoc16, dirs |-> <<>>,
            root |-> <<Label("K"), Entry("Z", 4, 1), [Entry("K", 5, 5) EXCEPT !.hi = 7], Last>>]
  IN  Volume(v, K :> <<<<5, 3, 6>>, 5>>)

\* In a partition, two sectors a cluster; the root directory is full, a
\* subdirectory fills one cluster and part of another.
V16Part ==
  LET v == [type |-> "FAT16", base |-> 2, csize |-> 2,
            fat |-> 4 :> 7 @@ 7 :> Eoc16 @@ 6 :> 3 @@ 3 :> Eoc16,
            root |-> <<Entry("Z", 0, 0), SubDir("D", 4)>>,
            dirs |-> 4 :> <<Entry("Z", 0, 0), SubDir("X", 2), Label("K"), Entry("Y", 0, 0)>>
                  @@ 7 :> <<Entry("K", 6, 7), Last, Entry("X", 6, 8), Last>>]
  IN  Volume(v, DK :> <<<<6, 3>>, 7>>)

\* The root directory is a chain, full to its end; one file is empty.
V32 ==
  LET v == [type |-> "FAT32", base |-> 0, csize |-> 1, root |-> <<>>,
            fat |-> 3 :> 8 + 268435456 @@ 8 :> Eoc32 @@ 7 :> 2 @@ 2 :> 5 @@ 5 :> Eoc32,
            dirs |-> 3 :> <<Label("X"), Entry("X", 0, 0)>>
                  @@ 8 :> <<Entry("K", 7, 6), Entry("Z", 0, 0)>>]
  IN  Volume(v, K :> <<<<7, 2, 5>>, 6>> @@ <<"X">> :> <<<<>>, 0>>)

\* The chain of the file ends too soon, in one way or another.
V16Short(link) ==
  LET v == [type |-> "FAT16", base |-> 0, csize |-> 1, dirs |-> <<>>,
            fat |-> 5 :> 3 @@ 3 :> link, root |-> <<Entry("K", 5, 6), Last>>]
  IN  Volume(v, K :> <<<<5, 3>>, 6>>)

\* The chains of the file and of the root directory are cyclic.
V32Cyclic ==
  LET v == [type |-> "FAT32", base |-> 0, csize |-> 1, root |-> <<>>,
            fat |-> 3 :> 4 @@ 4 :> 3 @@ 7 :> 2 @@ 2 :> 7,
            dirs |-> 3 :> <<Entry("Y", 0, 0), Entry("Z", 0, 0)>>
                  @@ 4 :> <<Entry("K", 7, 7), Entry("Z", 0, 0)>>]
  IN  Volume(v, K :> <<<<7, 2, 7, 2>>, 7>>)

\* The directory's chain leads nowhere, or starts nowhere.
V16BadDir(c) ==
  LET v == [type |-> "FAT16", base |-> 0, csize |-> 1, fat |-> 4 :> 0,
            root |-> <<SubDir("D", c), Last>>,
            dirs |-> 4 :> <<Entry("Y", 0, 0), Entry("Z", 0, 0)>>]
  IN  Volume(v, <<>>)

\* No boot record; another system's; a partition without one; too small.
NoVolumes ==
  <<NoVolume(Blank), NoVolume(Mbr(0, 0)), NoVolume(Mbr(6, 1)), NoVolume(Boot("FAT16", 1, 0, 11))>>

MCVolumes ==
  <<V16, V16Part, V32, V16Short(0), V16Short(1), V16Short(Eoc16), V32Cyclic,
    V16BadDir(4), V16BadDir(1), V16BadDir(20)>> \o NoVolumes
=============================================================================
