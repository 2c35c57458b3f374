---------------------------- MODULE SerialStream ----------------------------
(***************************************************************************)
(* What AsyncSerial promises about output: bytes leave on the line in the  *)
(* order in which they were handed to write(), none twice, none skipped.   *)
(***************************************************************************)
EXTENDS Naturals, Sequences

CONSTANT Byte

VARIABLES written,   \* every byte handed to write(), in order
          wire       \* every byte that left on the line, in order

Init == written = << >> /\ wire = << >>

Write == /\ \E b \in Byte : written' = Append(written, b)
         /\ UNCHANGED wire

Emit == /\ Len(wire) < Len(written)
        /\ wire' = Append(wire, written[Len(wire) + 1])
        /\ UNCHANGED written

Spec == Init /\ [][Write \/ Emit]_<<written, wire>>
=============================================================================
