-------------------------------- MODULE MCIrq --------------------------------
(***************************************************************************)
(* Addresses for the handlers, split into halves of four bits.             *)
(***************************************************************************)
EXTENDS Irq

MCAddr ==
  [h \in Handlers |-> CASE h = com1 -> 35 [] h = spurious7 -> 51 [] h = spurious15 -> 67
                        [] OTHER -> 128 + h[2]]
=============================================================================
