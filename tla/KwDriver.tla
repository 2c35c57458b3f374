------------------------------ MODULE KwDriver ------------------------------
(***************************************************************************)
(* The Modbus I/O driver of the PLC runtime: kw/src/driver.c polls four    *)
(* expansion modules, slaves 2 to 5, and CONSEN_IO.cpp hands the result to *)
(* the runtime: BeginReadAll reads every input and copies it to the I/O    *)
(* image, EndWriteAll copies the outputs and writes them, turn by turn.    *)
(*                                                                         *)
(* The buffers of eight bits or eight registers are numbered, in the order *)
(* of the modules: 1 to 4 in input_buf, 5 to 8 in adc_buf, and 9 to 12 for *)
(* what the writes of output_buf report.                                   *)
(***************************************************************************)
EXTENDS ModbusMaster

VARIABLE shm      \* SHM_Buff_SYS: the slave whose inputs each part holds

Bits(slave, part)      == [slave |-> slave, fc |-> 2, nb |-> 8, dest |-> part]
Registers(slave, part) == [slave |-> slave, fc |-> 4, nb |-> 8, dest |-> 4 + part]
Coils(slave, part)     == [slave |-> slave, fc |-> 15, nb |-> 8, dest |-> 8 + part]

input_update_misplaced ==                                          \* mutant
  << Bits(2, 1), Registers(2, 1),
     Registers(3, 3), Bits(3, 3),
     Bits(4, 3), Registers(4, 2),
     Bits(5, 4), Registers(5, 4) >>

bsp_input_update ==
  << Bits(2, 1), Registers(2, 1),
     Registers(3, 2), Bits(3, 3),
     Bits(4, 3), Registers(4, 3),
     Bits(5, 4), Registers(5, 4) >>

bsp_output_update ==
  << Coils(2, 1), Coils(3, 2), Coils(4, 3), Coils(5, 4) >>

KwSchedule == bsp_input_update \o bsp_output_update

(* The part of the image that belongs to module m, slave m + 1, and what   *)
(* it is copied from.                                                      *)
Modules == 1 .. 4

Image(buffers) ==
  [m \in Modules |-> [bits |-> IF m \in DOMAIN buffers THEN buffers[m] ELSE 0,
                      regs |-> buffers[4 + m]]]

(* The memory is static and starts as zeros.                               *)
KwInit == Init /\ shm = [m \in Modules |-> [bits |-> 0, regs |-> 0]]

(* BeginReadAll copies the buffers when the last input has been read.      *)
LastInput == Len(bsp_input_update)

CopyInputs ==
  shm' = IF step = LastInput /\ step' # step THEN Image(dest') ELSE shm

KwNext == Next /\ CopyInputs

kwvars == <<vars, shm>>

KwSpec == KwInit /\ [][KwNext]_kwvars

KwFairSpec ==
  /\ KwSpec
  /\ WF_kwvars(Master /\ CopyInputs) /\ WF_kwvars(Arrive /\ CopyInputs)

-----------------------------------------------------------------------------
(* What the PLC is shown of a module is its own slave's, whatever is lost  *)
(* or refused on the line, as long as no reply, and no part of a damaged   *)
(* one, is left to a later request: its registers, and its inputs but for  *)
(* the one request that has the wrong destination and puts those of slave  *)
(* 3 in module 3.                                                          *)
OwnPlaces ==
  orderly => \A m \in Modules :
    /\ shm[m].regs \in {0, m + 1}
    /\ shm[m].bits \in {0, m + 1} \/ (m = 3 /\ shm[m].bits = 3)

(* The inputs of every module are its own slave's. *)
OwnInputs == \A m \in Modules : shm[m].bits \in {0, m + 1}

=============================================================================
