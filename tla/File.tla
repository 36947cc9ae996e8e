-------------------------------- MODULE File --------------------------------
(***************************************************************************)
(* What the file reader of stage 2 promises its caller, elf_load_file: a   *)
(* position in the open file that goes where a seek asks, up to the end of *)
(* the file, and reads that deliver the bytes from there on, all that were *)
(* asked for up to the end.  A file whose cluster chain is shorter than    *)
(* its size may fail where the bytes end; a failure closes it.             *)
(***************************************************************************)
EXTENDS Naturals, Sequences, FiniteSetsExt

CONSTANTS NoFile,     \* no file is open
          NoRequest,  \* no request is waiting
          MaxOffset   \* bound: offsets and lengths the caller asks for

VARIABLES file,       \* the open file: [size, bytes], or NoFile
          pos,        \* the file pointer
          req,        \* the caller's request: [op, n], before it takes effect
          want,       \* bytes the read under way has still to deliver
          out,        \* bytes it has delivered
          err         \* the last call failed with a disk error

vars == <<file, pos, req, want, out, err>>

None(e) ==
  file' = NoFile /\ pos' = 0 /\ req' = NoRequest /\ want' = 0 /\ out' = <<>> /\ err' = e

Init ==
  file = NoFile /\ pos = 0 /\ req = NoRequest /\ want = 0 /\ out = <<>> /\ err = FALSE

\* pf_mount and pf_open close what is open ...
Close == want = 0 /\ req = NoRequest /\ None(FALSE)

\* ... and pf_open then opens a file at its beginning.
Open ==
  /\ file = NoFile
  /\ file' # NoFile
  /\ err' = FALSE
  /\ UNCHANGED <<pos, req, want, out>>

\* ... or fails on a broken directory.
OpenFail == file = NoFile /\ None(TRUE)

\* The caller asks for an offset, or for a number of bytes.
Request ==
  /\ file # NoFile /\ req = NoRequest /\ want = 0
  /\ req' \in [op : {"seek", "read"}, n : 0 .. MaxOffset]
  /\ UNCHANGED <<file, pos, want, out, err>>

Asked(op) == req # NoRequest /\ req.op = op

\* Where a seek goes.
Target == Min({req.n, file.size})

Seek ==
  /\ Asked("seek")
  /\ pos' = Target /\ req' = NoRequest
  /\ UNCHANGED <<file, want, out, err>>

Read ==
  /\ Asked("read")
  /\ want' = Min({req.n, file.size - pos}) /\ out' = <<>> /\ req' = NoRequest
  /\ UNCHANGED <<file, pos, err>>

\* The read returns when it has delivered everything.
ReadDone ==
  file # NoFile /\ want = 0 /\ out' = <<>> /\ UNCHANGED <<file, pos, req, want, err>>

\* Some of the bytes, the next ones.
Deliver ==
  \E k \in 1 .. want :
    /\ pos + k <= Len(file.bytes)
    /\ out' = out \o SubSeq(file.bytes, pos + 1, pos + k)
    /\ pos' = pos + k /\ want' = want - k
    /\ UNCHANGED <<file, req, err>>

\* Only a file with bytes missing fails: a read where they are, a seek beyond.
Fail ==
  /\ \/ want > 0 /\ pos = Len(file.bytes)
     \/ Asked("seek") /\ Target > Len(file.bytes)
  /\ None(TRUE)

Next == Close \/ Open \/ OpenFail \/ Request \/ Seek \/ Read \/ ReadDone \/ Deliver \/ Fail

Spec == Init /\ [][Next]_vars
=============================================================================
