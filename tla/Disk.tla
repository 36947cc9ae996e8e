-------------------------------- MODULE Disk --------------------------------
(***************************************************************************)
(* The disk as the file system sees it: disk_readp with its one-sector     *)
(* cache (pff3a/source/diskio.c), readSector (crt0.S) and the BIOS's       *)
(* extended read, an external part that may fail any number of times.      *)
(*                                                                         *)
(* The disk is only read, so a buffer is described by the number of the    *)
(* sector whose bytes it holds.                                            *)
(***************************************************************************)
EXTENDS Integers

CONSTANTS Junk,       \* a buffer with no sector's bytes; also 0xFFFFFFFF
          Drive,      \* the BIOS's number of the boot drive
          NoDrive     \* 0xFFFF

VARIABLES drive,            \* set by setDrive
          current_sector,   \* the sector disk_readp believes buf to hold
          buf,              \* the sector buf holds
          dpc, lba,         \* readSector: where it is, and the packet's LBA
          diskdata          \* the sector the BIOS's transfer buffer holds

diskVars == <<drive, current_sector, buf, dpc, lba, diskdata>>

DiskTypeOK(Sectors) ==
  /\ drive \in {Drive, NoDrive}
  /\ {current_sector, buf, diskdata, lba} \subseteq Sectors \cup {Junk}
  /\ dpc \in {"idle", "int13", "copy"}

DiskInit ==
  /\ drive = NoDrive
  /\ current_sector = Junk /\ buf = Junk /\ diskdata = Junk
  /\ dpc = "idle" /\ lba = Junk

setDrive(d) ==
  /\ drive' = d
  /\ UNCHANGED <<current_sector, buf, dpc, lba, diskdata>>

\* STA_NOINIT
disk_initialize == drive = NoDrive

\* disk_readp copies from buf: the sector it wants is the current one.
Cached(sector) == dpc = "idle" /\ current_sector = sector

\* It is not: readSector writes the packet, swaps stacks and leaves
\* protected mode.
disk_readp(sector) ==
  /\ dpc = "idle" /\ current_sector # sector
  /\ dpc' = "int13" /\ lba' = sector
  /\ UNCHANGED <<drive, current_sector, buf, diskdata>>

\* int 13h, AH = 42h.  With the carry set there is no telling what is in the
\* transfer buffer, and readSector tries again, however often.
int13_error ==
  /\ dpc = "int13"
  /\ diskdata' = Junk
  /\ UNCHANGED <<drive, current_sector, buf, dpc, lba>>

int13_ok ==
  /\ dpc = "int13"
  /\ diskdata' = lba /\ dpc' = "copy"
  /\ UNCHANGED <<drive, current_sector, buf, lba>>

\* Back in protected mode: the copy to buf, and current_sector.
readSector ==
  /\ dpc = "copy"
  /\ buf' = diskdata /\ current_sector' = lba /\ dpc' = "idle"
  /\ lba' = Junk /\ diskdata' = Junk
  /\ UNCHANGED drive
=============================================================================
