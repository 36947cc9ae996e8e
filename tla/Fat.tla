--------------------------------- MODULE Fat ---------------------------------
(***************************************************************************)
(* The read-only FAT reader stage 2 loads the kernel with, Petit FatFs as  *)
(* configured in pffconf.h (pff3a/source/pff.c): pf_mount, pf_open,        *)
(* pf_lseek and pf_read, over the disk of module Disk.                     *)
(*                                                                         *)
(* A step is the code between two reads of a sector, after a first one     *)
(* that takes the caller's arguments.  A caller may make any call at any   *)
(* time the reader is idle.  A name is one value, and a    *)
(* path the sequence of its names; a byte of a file is known by its place  *)
(* on the disk.  Cluster sizes are powers of two, so that "& (csize - 1)"  *)
(* is a remainder.                                                         *)
(***************************************************************************)
EXTENDS Disk, Sequences, FiniteSetsExt, Functions

CONSTANTS
  SecSize,      \* 512: bytes in a sector
  Ent16,        \* 256: FAT16 entries in a sector
  Ent32,        \* 128: FAT32 entries in a sector
  DirEnt,       \* 16: directory entries in a sector
  IndexLimit,   \* 65536: the WORD index of a directory entry wraps here
  Fat16Min,     \* 0xFF8: with fewer clusters it is no FAT16
  Fat32Min,     \* 0xFFF7: with as many it is FAT32
  Mask32,       \* 2^28: the bits of a FAT32 entry that count
  HiUnit,       \* 2^16: the weight of DIR_FstClusHI
  End,          \* the name of the entry that ends a directory
  Volumes,      \* a sequence of disks: [sect, kind, files], see MCFat
  Paths,        \* the paths pf_open is called with
  MaxOffset,    \* bound: offsets and lengths the caller asks for
  NoFile, NoRequest

ASSUME FatAssumption ==
  /\ {SecSize, Ent16, Ent32, DirEnt, IndexLimit, MaxOffset} \subseteq Nat \ {0}
  /\ Fat16Min < Fat32Min

VARIABLES
  vol,                          \* which disk it is
  call,                         \* the call under way: where it is, its locals
  res,                          \* the result of the last
  FatFs,                        \* a file system is mounted
  geo,                          \* the fields of FATFS that pf_mount sets
  flag, fptr, fsize, org_clust, curr_clust, dsect,   \* the open file
  asked                         \* history: the path of the last pf_open

fileVars == <<flag, fptr, fsize, org_clust, curr_clust, dsect>>
vars == <<diskVars, vol, call, res, FatFs, geo, fileVars, asked>>

Results == {"FR_OK", "FR_DISK_ERR", "FR_NOT_READY", "FR_NO_FILE", "FR_NOT_OPENED",
            "FR_NOT_ENABLED", "FR_NO_FILESYSTEM"}

disk == Volumes[vol]
Sectors == DOMAIN disk.sect

\* The locals of pf_mount, of pf_open (its DIR, and what is left of the path),
\* of pf_read (what is left to read, what has been read) and of pf_lseek (what
\* is left of the offset; arg is history: the offset it was called with).
Frames ==
  [pc : {"idle"}]
    \cup [pc : {"check", "part"}, bsect : Nat]
    \cup [pc : {"find", "dirfat"}, path : Seq({n : n \in UNION {Range(p) : p \in Paths}}),
          index : 0 .. IndexLimit - 1, clust : Nat, sect : Nat]
    \cup [pc : {"ask"}, btr : Nat]
    \cup [pc : {"read", "readfat", "copy"}, btr : Nat, out : Seq(Nat)]
    \cup [pc : {"seek"}, arg : Nat]
    \cup [pc : {"seekfat"}, arg : Nat, ofs : Nat, ifptr : Nat]

TypeOK ==
  /\ DiskTypeOK(Sectors)
  /\ vol \in DOMAIN Volumes
  /\ call \in Frames /\ res \in Results
  /\ FatFs \in BOOLEAN /\ flag \in {0, 1}
  /\ {fptr, fsize, org_clust, curr_clust, dsect} \subseteq Nat
  /\ asked \in Paths

Idle == [pc |-> "idle"]

Init ==
  /\ DiskInit
  /\ vol \in DOMAIN Volumes
  /\ call = Idle /\ res = "FR_OK"
  /\ FatFs = FALSE /\ geo = [csize |-> 0]
  /\ flag = 0 /\ fptr = 0 /\ fsize = 0 /\ org_clust = 0 /\ curr_clust = 0 /\ dsect = 0
  /\ asked = <<>>

\* A call begins, goes on with new locals, or returns; ABORT closes the file.
Begin == call = Idle /\ dpc = "idle" /\ UNCHANGED <<diskVars, vol>>
Goto(frame) == call' = frame /\ UNCHANGED res
Return(r) == call' = Idle /\ res' = r
Abort == flag' = 0 /\ Return("FR_DISK_ERR")

-----------------------------------------------------------------------------
(* The volume's arithmetic.                                                *)

BadCluster(clst) == clst < 2 \/ clst >= geo.n_fatent

EntPerSec == IF geo.fs_type = "FAT32" THEN Ent32 ELSE Ent16

FatSector(clst) == geo.fatbase + clst \div EntPerSec

\* The FAT entry of a cluster, once its sector is in buf; 1 for a cluster
\* there is none of.
get_fat(clst) ==
  IF BadCluster(clst) THEN 1
  ELSE LET e == disk.sect[buf][clst % EntPerSec]
       IN  IF geo.fs_type = "FAT32" THEN e % Mask32 ELSE e

\* Mutant: cluster numbers taken to start at 0.
clust2sect_zero(clst) == IF BadCluster(clst) THEN 0 ELSE clst * geo.csize + geo.database

\* The first sector of a cluster, 0 for none.
clust2sect(clst) ==
  IF BadCluster(clst) THEN 0 ELSE (clst - 2) * geo.csize + geo.database

get_clust(dir) == (IF geo.fs_type = "FAT32" THEN dir.hi * HiUnit ELSE 0) + dir.lo

\* The sector the code is about to read, and whether it reads one: get_fat of
\* a cluster there is none of does not.
pc == call.pc

Wanted ==
  CASE pc \in {"check", "part"} -> call.bsect
    [] pc = "find" -> call.sect
    [] pc = "dirfat" -> FatSector(call.clust)
    [] pc \in {"readfat", "seekfat"} -> FatSector(curr_clust)
    [] pc = "copy" -> dsect

Reads ==
  \/ pc \in {"check", "part", "find", "copy"}
  \/ pc = "dirfat" /\ ~ BadCluster(call.clust)
  \/ pc \in {"readfat", "seekfat"} /\ ~ BadCluster(curr_clust)

\* The step of a call whose read, if it makes one, finds the sector in buf.
At(pcs) == pc \in pcs /\ (Reads => Cached(Wanted)) /\ UNCHANGED <<diskVars, vol>>

Fetch ==
  /\ \/ Reads /\ disk_readp(Wanted)
     \/ int13_error \/ int13_ok \/ readSector
  /\ UNCHANGED <<vol, call, res, FatFs, geo, fileVars, asked>>

-----------------------------------------------------------------------------
(* pf_mount                                                                *)

\* 0: a FAT boot record, 1: another boot record, 2: none.
check_fs(b) == CASE ~ b.sig -> 2 [] b.sig /\ (b.fat16 \/ b.fat32) -> 0 [] OTHER -> 1

Or(a, b) == IF a # 0 THEN a ELSE b

\* The file system object from the BIOS parameter block.  With a number of
\* clusters between FAT12's and FAT16's there is no type.
Geometry(b, base) ==
  LET fats  == Or(b.fatsz16, b.fatsz32) * b.nfats
      fatb  == base + b.rsvd
      mclst == (Or(b.tot16, b.tot32) - b.rsvd - fats - b.rootent \div DirEnt) \div b.csize + 2
      type  == CASE mclst >= Fat32Min -> "FAT32"
                 [] mclst >= Fat16Min /\ mclst < Fat32Min -> "FAT16"
                 [] OTHER -> "none"
  IN  [fs_type |-> type, csize |-> b.csize, n_rootdir |-> b.rootent, n_fatent |-> mclst,
       fatbase |-> fatb,
       dirbase |-> IF type = "FAT32" THEN b.rootclus ELSE fatb + fats,
       database |-> fatb + fats + b.rootent \div DirEnt]

\* The volumes' boot records have clusters of some size and as many sectors as
\* they say are used, so that none of the sums goes below zero, where the code's
\* unsigned ones would wrap.
ASSUME VolumeAssumption ==
  \A k \in DOMAIN Volumes : \A s \in DOMAIN Volumes[k].sect :
    LET b == Volumes[k].sect[s]
    IN  Volumes[k].kind[s] = "boot" /\ check_fs(b) = 0 =>
          /\ b.csize > 0
          /\ Or(b.tot16, b.tot32)
               >= b.rsvd + Or(b.fatsz16, b.fatsz32) * b.nfats + b.rootent \div DirEnt

pf_mount ==
  /\ Begin
  /\ FatFs' = FALSE
  /\ IF disk_initialize THEN Return("FR_NOT_READY") ELSE Goto([pc |-> "check", bsect |-> 0])
  /\ UNCHANGED <<geo, fileVars, asked>>

\* Sector 0 is the volume's boot record, or lists the partition whose first
\* sector is.
mount_check ==
  /\ At({"check", "part"})
  /\ LET b == disk.sect[buf]
         g == Geometry(b, call.bsect)
     IN  CASE check_fs(b) = 1 /\ pc = "check" /\ b.ptype # 0 ->
                Goto([pc |-> "part", bsect |-> b.plba]) /\ UNCHANGED <<FatFs, geo, flag>>
           [] check_fs(b) = 0 /\ g.fs_type # "none" ->
                geo' = g /\ flag' = 0 /\ FatFs' = TRUE /\ Return("FR_OK")
           [] OTHER -> Return("FR_NO_FILESYSTEM") /\ UNCHANGED <<FatFs, geo, flag>>
  /\ UNCHANGED <<fptr, fsize, org_clust, curr_clust, dsect, asked>>

-----------------------------------------------------------------------------
(* pf_open: follow_path, dir_find, dir_rewind, dir_next                    *)

\* dir_rewind on the directory that starts at a cluster; 0 is the root.
dir_rewind(path, sclust) ==
  LET clst == IF sclust = 0 /\ geo.fs_type = "FAT32" THEN geo.dirbase ELSE sclust
  IN  IF sclust = 1 \/ sclust >= geo.n_fatent THEN Return("FR_DISK_ERR")
      ELSE Goto([pc |-> "find", path |-> path, index |-> 0, clust |-> clst,
                 sect |-> IF clst # 0 THEN clust2sect(clst) ELSE geo.dirbase])

\* An empty path is the root directory, which is no file.
pf_open(p) ==
  /\ Begin /\ asked' = p
  /\ flag' = IF FatFs THEN 0 ELSE flag
  /\ CASE ~ FatFs -> Return("FR_NOT_ENABLED")
       [] FatFs /\ p = <<>> -> Return("FR_NO_FILE")
       [] FatFs /\ p # <<>> -> dir_rewind(p, 0)
  /\ UNCHANGED <<FatFs, geo, fptr, fsize, org_clust, curr_clust, dsect>>

\* Entry i, with a new sector after DirEnt entries, and then a new cluster
\* after csize sectors.
NextEntry(i, limit, csize) ==
  LET dj == [call EXCEPT !.index = i, !.sect = IF i % DirEnt = 0 THEN @ + 1 ELSE @]
  IN  CASE limit \/ call.sect = 0 -> Return("FR_NO_FILE")
        [] i % DirEnt = 0 /\ call.clust = 0 /\ i >= geo.n_rootdir -> Return("FR_NO_FILE")
        [] i % DirEnt = 0 /\ call.clust # 0 /\ (i \div DirEnt) % csize = 0 ->
             Goto([call EXCEPT !.pc = "dirfat"])
        [] OTHER -> Goto(dj)

\* Mutant: the index may wrap.
dir_next_wrap == NextEntry((call.index + 1) % IndexLimit, FALSE, geo.csize)

dir_next == NextEntry((call.index + 1) % IndexLimit, call.index + 1 = IndexLimit, geo.csize)

\* The sought name's entry: the file, or the directory to go on in.
Found(dir) ==
  CASE (Len(call.path) > 1) # dir.dir -> Return("FR_NO_FILE") /\ UNCHANGED fileVars
    [] Len(call.path) > 1 /\ dir.dir ->
         dir_rewind(Tail(call.path), get_clust(dir)) /\ UNCHANGED fileVars
    [] Len(call.path) = 1 /\ ~ dir.dir ->
         /\ org_clust' = get_clust(dir) /\ fsize' = dir.size /\ fptr' = 0 /\ flag' = 1
         /\ Return("FR_OK")
         /\ UNCHANGED <<curr_clust, dsect>>

\* Mutant: labels and parts of long names count as entries.
Matches_label(dir) == dir.name = Head(call.path)

\* A volume label or part of a long name is no match.
Matches(dir) == dir.name = Head(call.path) /\ ~ dir.vol

\* A round of dir_find.
dir_find ==
  /\ At({"find"})
  /\ LET dir == disk.sect[buf][call.index % DirEnt]
     IN  CASE dir.name = End -> Return("FR_NO_FILE") /\ UNCHANGED fileVars
           [] Matches(dir) -> Found(dir)
           [] OTHER -> dir_next /\ UNCHANGED fileVars
  /\ UNCHANGED <<FatFs, geo, asked>>

\* The rest of dir_next when the cluster changes.
dir_next_cluster ==
  /\ At({"dirfat"})
  /\ LET clst == get_fat(call.clust)
     IN  CASE clst <= 1 -> Return("FR_DISK_ERR")
           [] clst >= geo.n_fatent -> Return("FR_NO_FILE")
           [] OTHER -> Goto([call EXCEPT !.pc = "find", !.index = (@ + 1) % IndexLimit,
                                         !.clust = clst, !.sect = clust2sect(clst)])
  /\ UNCHANGED <<FatFs, geo, fileVars, asked>>

-----------------------------------------------------------------------------
(* pf_read                                                                 *)

\* What pf_read and pf_lseek return when there is no open file.
NotOpen == IF FatFs THEN "FR_NOT_OPENED" ELSE "FR_NOT_ENABLED"
Opened == FatFs /\ flag = 1

pf_read(n) ==
  /\ Begin
  /\ IF Opened THEN Goto([pc |-> "ask", btr |-> n]) ELSE Return(NotOpen)
  /\ UNCHANGED <<FatFs, geo, fileVars, asked>>

\* Not beyond the end of the file.
read_remain ==
  /\ At({"ask"})
  /\ Goto([pc |-> "read", btr |-> Min({call.btr, fsize - fptr}), out |-> <<>>])
  /\ UNCHANGED <<FatFs, geo, fileVars, asked>>

\* Sector offset in the cluster.
SectorOf(p) == (p \div SecSize) % geo.csize
cs == SectorOf(fptr)

\* The sector to read from, once the cluster is known.
ReadCluster(clst) ==
  /\ curr_clust' = IF clst <= 1 THEN curr_clust ELSE clst
  /\ IF clst <= 1 \/ clust2sect(clst) = 0 THEN Abort /\ UNCHANGED dsect
     ELSE dsect' = clust2sect(clst) + cs /\ Goto([call EXCEPT !.pc = "copy"]) /\ UNCHANGED flag
  /\ UNCHANGED <<fptr, fsize, org_clust>>

\* The loop of pf_read, up to its disk_readp: nothing is left to read, or the
\* sector is the current one, or one of the current cluster or the first ...
read_sector ==
  /\ At({"read"})
  /\ CASE call.btr = 0 -> Return("FR_OK") /\ UNCHANGED fileVars
       [] call.btr > 0 /\ fptr % SecSize # 0 ->
            Goto([call EXCEPT !.pc = "copy"]) /\ UNCHANGED fileVars
       [] call.btr > 0 /\ fptr % SecSize = 0 /\ cs = 0 /\ fptr # 0 ->
            Goto([call EXCEPT !.pc = "readfat"]) /\ UNCHANGED fileVars
       [] OTHER -> ReadCluster(IF cs = 0 THEN org_clust ELSE curr_clust)
  /\ UNCHANGED <<FatFs, geo, asked>>

\* ... or in the cluster after the current.
read_cluster ==
  /\ At({"readfat"})
  /\ ReadCluster(get_fat(curr_clust))
  /\ UNCHANGED <<FatFs, geo, asked>>

\* The copy goes up to the end of the sector: disk_readp refuses more.
read_copy ==
  /\ At({"copy"})
  /\ LET at   == fptr % SecSize
         rcnt == Min({SecSize - at, call.btr})
         data == [k \in 1 .. rcnt |-> disk.sect[buf][at + k - 1]]
     IN  /\ Goto([pc |-> "read", btr |-> call.btr - rcnt, out |-> call.out \o data])
         /\ fptr' = fptr + rcnt
  /\ UNCHANGED <<FatFs, geo, flag, fsize, org_clust, curr_clust, dsect, asked>>

-----------------------------------------------------------------------------
(* pf_lseek                                                                *)

bcs == geo.csize * SecSize

\* Mutant: a seek to the end of a cluster goes on into the next.
SeekMore_eq(left) == left >= bcs

\* The loop that follows the chain goes on.
SeekMore(left) == left > bcs

\* Where pf_lseek goes with a cluster, a base and an offset left: it follows
\* the chain, or sets the position and the sector.
SeekFrom(clst, base, left, from) ==
  /\ curr_clust' = clst
  /\ fptr' = IF SeekMore(left) THEN base ELSE base + left
  /\ CASE SeekMore(left) ->
            /\ Goto([pc |-> "seekfat", arg |-> call.arg, ofs |-> left, ifptr |-> from])
            /\ UNCHANGED <<flag, dsect>>
       [] ~ SeekMore(left) /\ clust2sect(clst) = 0 -> Abort /\ UNCHANGED dsect
       [] OTHER -> /\ dsect' = clust2sect(clst) + SectorOf(fptr')
                   /\ Return("FR_OK") /\ UNCHANGED flag

\* The first byte of the current cluster: a position at a cluster's end
\* still counts as in it.
SeekBase == ((fptr - 1) \div bcs) * bcs

\* Mutant: a seek past the end of the file.
SeekTo_past(o) == o

\* The position is clipped at the size of the file.
SeekTo(o) == Min({o, fsize})

pf_lseek(o) ==
  /\ Begin
  /\ IF Opened THEN Goto([pc |-> "seek", arg |-> o]) ELSE Return(NotOpen)
  /\ UNCHANGED <<FatFs, geo, fileVars, asked>>

\* Forward from the current cluster, or else from the first.
seek_start ==
  /\ At({"seek"})
  /\ LET to == SeekTo(call.arg)
     IN  CASE to = 0 ->
                fptr' = 0 /\ Return("FR_OK") /\ UNCHANGED <<flag, curr_clust, dsect>>
           [] to > 0 /\ fptr > 0 /\ (to - 1) \div bcs >= (fptr - 1) \div bcs ->
                SeekFrom(curr_clust, SeekBase, to - SeekBase, fptr)
           [] OTHER -> SeekFrom(org_clust, 0, to, fptr)
  /\ UNCHANGED <<FatFs, geo, fsize, org_clust, asked>>

\* A round of the loop.
seek_cluster ==
  /\ At({"seekfat"})
  /\ LET clst == get_fat(curr_clust)
     IN  IF BadCluster(clst) THEN Abort /\ UNCHANGED <<fptr, curr_clust, dsect>>
         ELSE SeekFrom(clst, fptr + bcs, call.ofs - bcs, call.ifptr)
  /\ UNCHANGED <<FatFs, geo, fsize, org_clust, asked>>

-----------------------------------------------------------------------------
\* bmain's setDrive, before its first call.
bmain_setDrive ==
  /\ drive = NoDrive /\ call = Idle
  /\ setDrive(Drive)
  /\ UNCHANGED <<vol, call, res, FatFs, geo, fileVars, asked>>

Calls == \/ bmain_setDrive \/ pf_mount
         \/ \E p \in Paths : pf_open(p)
         \/ \E n \in 0 .. MaxOffset : pf_read(n) \/ pf_lseek(n)

Steps == \/ mount_check \/ dir_find \/ dir_next_cluster
         \/ read_remain \/ read_sector \/ read_cluster \/ read_copy
         \/ seek_start \/ seek_cluster

Next == Calls \/ Steps \/ Fetch

\* The CPU goes on with a call, and a sector that is tried again and again is
\* read at last.
Fairness == WF_vars(Steps) /\ WF_vars(Fetch) /\ SF_vars(Fetch /\ int13_ok)

Spec == Init /\ [][Next]_vars /\ Fairness

-----------------------------------------------------------------------------
Reading == Opened /\ pc \in {"read", "readfat", "copy"}

Abstract == INSTANCE File WITH
  file <- IF Opened THEN disk.files[asked] ELSE NoFile,
  pos  <- IF ~ Opened THEN 0 ELSE IF pc = "seekfat" THEN call.ifptr ELSE fptr,
  req  <- CASE pc = "ask" -> [op |-> "read", n |-> call.btr]
            [] pc \in {"seek", "seekfat"} -> [op |-> "seek", n |-> call.arg]
            [] OTHER -> NoRequest,
  want <- IF Reading THEN call.btr ELSE 0,
  out  <- IF Reading THEN call.out ELSE <<>>,
  err  <- call = Idle /\ res = "FR_DISK_ERR"

\* The reader implements module File over a chain of clusters: across seeks
\* back and forth, cluster and sector boundaries, the one-sector cache that
\* FAT, directory and data share and any number of failing BIOS calls, a seek
\* goes where the caller asks, a read delivers the right bytes, all of them,
\* and only a broken chain fails.
Implements == Abstract!Spec

\* pf_open succeeds exactly for the files there are: no match in a label, a
\* deleted entry or past the directory's end, and no entry missed where the
\* directory goes on in another sector or cluster.
OpensWhatIsThere ==
  call = Idle /\ FatFs /\ res \in {"FR_OK", "FR_NO_FILE"} =>
    /\ Opened => asked \in DOMAIN disk.files /\ fsize = disk.files[asked].size
    /\ res = "FR_NO_FILE" => asked \notin DOMAIN disk.files

\* What the reader asks the BIOS for is the sector it means to look at: the
\* boot record, a directory's, the FAT's, or file data.
AsksRightSector ==
  dpc # "idle" =>
    LET kind == CASE pc \in {"check", "part"} -> "boot" [] pc = "find" -> "dir"
                  [] pc \in {"dirfat", "readfat", "seekfat"} -> "fat" [] pc = "copy" -> "data"
    IN  lba \in Sectors /\ disk.kind[lba] = kind

\* Every call returns, also on a disk that fails now and then and on chains
\* and directories that bite their own tail.
Returns == call # Idle ~> call = Idle
=============================================================================
