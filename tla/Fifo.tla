-------------------------------- MODULE Fifo --------------------------------
(***************************************************************************)
(* What a ring buffer promises its two clients: a bounded first-in         *)
(* first-out stream.  Byte number k of the stream is the number k, so a    *)
(* lost, duplicated or reordered byte shows as a wrong number.             *)
(***************************************************************************)
EXTENDS Integers, Sequences

CONSTANT Bound   \* the most bytes that are written and not yet released

VARIABLES written,   \* number of bytes the producer has made visible
          read,      \* number of bytes whose slots are released
          out        \* the bytes the consumer has seen, in order

vars == <<written, read, out>>

Init == written = 0 /\ read = 0 /\ out = <<>>

\* The producer makes n more bytes visible.
Put == \E n \in 1 .. Bound :
         /\ written + n - read <= Bound
         /\ written' = written + n
         /\ UNCHANGED <<read, out>>

\* The consumer sees the next byte of the stream, and that byte only.
Take == /\ Len(out) < written
        /\ out' = Append(out, Len(out) + 1)
        /\ UNCHANGED <<written, read>>

\* The consumer gives back the slots of n bytes it has seen.
Release == \E n \in 1 .. Bound :
             /\ read + n <= Len(out)
             /\ read' = read + n
             /\ UNCHANGED <<written, out>>

Next == Put \/ Take \/ Release

Spec == Init /\ [][Next]_vars
=============================================================================
