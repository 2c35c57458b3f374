------------------------------- MODULE SpiCycle -------------------------------
(***************************************************************************)
(* The I/O cycle of system/src/main.cpp: compute, writeAll, wait for the   *)
(* board, spi_transfer, readAll, for ever, on the channels that init laid  *)
(* out.  It shares the memory image with the PLC runtime, exchanges whole  *)
(* frames with the I/O board, and may be killed and started again while    *)
(* the shared memory survives.                                             *)
(*                                                                         *)
(* There are N digital input and N digital output modules; the bytes of a  *)
(* module are one bit, complemented by the test logic of main().  The      *)
(* board and the PLC are outside this repository and are modelled from     *)
(* what the code exchanges with them.                                      *)
(***************************************************************************)
EXTENDS Integers

CONSTANTS
  N,        \* modules of each kind
  Budget    \* disturbances the environment may still cause

(* The loop of main() covers 24 bytes, three for each module.               *)
ASSUME CycleAssumption == N \in 1 .. 8 /\ Budget \in Nat

Mods   == 1 .. N
Bit    == {0, 1}
Status == {"OK", "FAULT"}      \* MODULE_STATUS_OK, or any other byte
Not(b) == 1 - b

VARIABLES
  pc,         \* where main() is
  k,          \* index of the loop it is in
  input_di, output_do,   \* the shared memory
  spi_buf,    \* the DO bytes of the transmit frame
  rx,         \* spi_buf_rx: status bytes, DI bytes, and does the CRC match
  board,      \* inputs, outputs and module states of the board
  data_ready, \* the GPIO line the board raises
  budget,
  plc,        \* ghost: outputs the PLC has stored since they were computed
  image,      \* ghost: for each input, the board's value at the exchange that
              \* it was read from, and whether that CRC matched
  calm        \* ghost: undisturbed exchanges since the last disturbance, to 3

vars == <<pc, k, input_di, output_do, spi_buf, rx, board, data_ready, budget,
          plc, image, calm>>

Frame == [di_status : [Mods -> Status], do_status : [Mods -> Status],
          data : [Mods -> Bit], sent : [Mods -> Bit], crc_ok : BOOLEAN]

BoardState == [in : [Mods -> Bit], out : [Mods -> Bit],
               di_status : [Mods -> Status], do_status : [Mods -> Status]]

all(v) == [m \in Mods |-> v]

Init ==
  /\ pc = "boot" /\ k = 1
  /\ input_di = all(0) /\ output_do = all(0)
  /\ spi_buf = all(0)
  /\ rx = [di_status |-> all("FAULT"), do_status |-> all("FAULT"),
           data |-> all(0), sent |-> all(0), crc_ok |-> FALSE]
  /\ \E s \in Status : board = [in |-> all(0), out |-> all(0),
                                di_status |-> all("OK"), do_status |-> all(s)]
  /\ data_ready = FALSE
  /\ budget = Budget
  /\ plc = {}
  /\ image = all([sent |-> 0, crc_ok |-> TRUE])
  /\ calm = 0

memory == <<input_di, output_do, plc, image>>
world  == <<board, data_ready, budget, calm>>

(* What the environment does only Budget times.                            *)
Disturb ==
  /\ budget > 0
  /\ budget' = budget - 1
  /\ calm' = 0

(* The process starts: a new manager clears spi_buf and leaves spi_buf_rx  *)
(* with whatever bytes its memory held.  Whether the handshake succeeded   *)
(* is ignored.                                                             *)
Boot ==
  /\ pc = "boot"
  /\ spi_buf' = all(0)
  /\ \E s, t \in [Mods -> Status], d \in [Mods -> Bit] :
       rx' = [di_status |-> s, do_status |-> t, data |-> d,
              sent |-> rx.sent, crc_ok |-> FALSE]
  /\ pc' = "write1" /\ k' = 1
  /\ UNCHANGED <<memory, world>>

Writing == pc \in {"write1", "write"}

CopyOutByInput(m) ==                                             \* mutant
  IF rx.di_status[m] = "OK" THEN output_do[m] ELSE spi_buf[m]

CopyOut(m) == IF rx.do_status[m] = "OK" THEN output_do[m] ELSE spi_buf[m]

LoopPast(after) ==                                               \* mutant
  IF k <= N THEN k' = k + 1 /\ UNCHANGED pc ELSE k' = 1 /\ pc' = after

Loop(after) ==
  IF k < N THEN k' = k + 1 /\ UNCHANGED pc ELSE k' = 1 /\ pc' = after

(* writeAll, one channel a step: only a module that the last frame called  *)
(* healthy gets its output copied into the transmit frame.                 *)
Write ==
  /\ Writing
  /\ spi_buf' = [spi_buf EXCEPT ![k] = CopyOut(k)]
  /\ Loop(IF pc = "write1" THEN "wait1" ELSE "wait")
  /\ UNCHANGED <<rx, memory, world>>

BoardReadyLow == ~data_ready                                     \* mutant

BoardReady == data_ready

(* The loop on data_ready.read().  When the value file cannot be read,     *)
(* Gpio::read tests a local it has not initialised, which may hold a '1'.  *)
Wait ==
  /\ pc \in {"wait1", "wait"}
  /\ \/ BoardReady /\ UNCHANGED <<budget, calm>>
     \/ Disturb
  /\ pc' = IF pc = "wait1" THEN "xfer1" ELSE "xfer"
  /\ UNCHANGED <<k, spi_buf, rx, memory, board, data_ready>>

(* What one exchange leaves in the receive buffer and on the board: a      *)
(* damaged direction delivers arbitrary bytes to the host, which notices   *)
(* by the CRC and uses them all the same; the board drops such a frame.    *)
Receive(damaged) ==
  IF damaged
  THEN \E s, t \in [Mods -> Status], d \in [Mods -> Bit] :
         rx' = [di_status |-> s, do_status |-> t, data |-> d,
                sent |-> board.in, crc_ok |-> FALSE]
  ELSE rx' = [di_status |-> board.di_status, do_status |-> board.do_status,
              data |-> board.in, sent |-> board.in, crc_ok |-> TRUE]

Latched == [m \in Mods |-> IF board.do_status[m] = "OK" THEN spi_buf[m]
                           ELSE board.out[m]]

(* spi_transfer, full duplex; its result, the CRC, is ignored, and so is a *)
(* failing ioctl, which leaves the last frame in spi_buf_rx.  A board that *)
(* is not ready neither takes a frame nor has one to give.                 *)
Transfer ==
  /\ pc \in {"xfer1", "xfer"}
  /\ \/ \E rxDamaged, txDamaged \in BOOLEAN :
          /\ IF data_ready
             THEN IF rxDamaged \/ txDamaged
                  THEN Disturb
                  ELSE /\ calm' = IF calm < 3 THEN calm + 1 ELSE 3
                       /\ UNCHANGED budget
             ELSE /\ rxDamaged /\ txDamaged
                  /\ calm' = 0
                  /\ UNCHANGED budget
          /\ Receive(rxDamaged)
          /\ board' = IF txDamaged THEN board ELSE [board EXCEPT !.out = Latched]
          /\ data_ready' = FALSE
     \/ Disturb /\ UNCHANGED <<rx, board, data_ready>>
  /\ pc' = IF pc = "xfer1" THEN "compute" ELSE "read"
  /\ k' = 1
  /\ UNCHANGED <<spi_buf, memory>>

InputBitOfFirst(m) == rx.data[1]                                  \* mutant

InputBit(m) == rx.data[m]

ReadableByOutput(m) == rx.do_status[m] = "OK"                     \* mutant

Readable(m) == rx.di_status[m] = "OK"

(* readAll, one channel a step: a module that is not healthy keeps the     *)
(* value it had.                                                           *)
Read ==
  /\ pc = "read"
  /\ IF Readable(k)
     THEN /\ input_di' = [input_di EXCEPT ![k] = InputBit(k)]
          /\ image' = [image EXCEPT ![k] = [sent |-> rx.sent[k],
                                            crc_ok |-> rx.crc_ok]]
     ELSE UNCHANGED <<input_di, image>>
  /\ Loop("compute")
  /\ UNCHANGED <<output_do, plc, spi_buf, rx, world>>

(* The loop of main() that drives each output with the complement of the   *)
(* input of the same index.                                                *)
Compute ==
  /\ pc = "compute"
  /\ output_do' = [output_do EXCEPT ![k] = Not(input_di[k])]
  /\ plc' = plc \ {k}
  /\ Loop("write")
  /\ UNCHANGED <<input_di, image, spi_buf, rx, world>>

Main == Boot \/ Write \/ Wait \/ Transfer \/ Read \/ Compute

(* The process is killed; the shared memory stays.                         *)
Kill ==
  /\ pc # "boot"
  /\ Disturb
  /\ pc' = "boot" /\ k' = 1
  /\ UNCHANGED <<spi_buf, rx, memory, board, data_ready>>

(* The board has a frame to exchange. *)
Ready ==
  /\ ~data_ready
  /\ data_ready' = TRUE
  /\ UNCHANGED <<pc, k, spi_buf, rx, memory, board, budget, calm>>

(* An input of the board changes, or a module fails or recovers.  Recovery *)
(* is free: the disturbances run out, the repairs do not.                  *)
InputChange(m) ==
  /\ Disturb
  /\ board' = [board EXCEPT !.in[m] = Not(@)]
  /\ UNCHANGED <<pc, k, spi_buf, rx, memory, data_ready>>

Fail(m) ==
  /\ Disturb
  /\ \/ board.di_status[m] = "OK" /\ board' = [board EXCEPT !.di_status[m] = "FAULT"]
     \/ board.do_status[m] = "OK" /\ board' = [board EXCEPT !.do_status[m] = "FAULT"]
  /\ UNCHANGED <<pc, k, spi_buf, rx, memory, data_ready>>

Recover(m) ==
  /\ \/ board.di_status[m] # "OK" /\ board' = [board EXCEPT !.di_status[m] = "OK"]
     \/ board.do_status[m] # "OK" /\ board' = [board EXCEPT !.do_status[m] = "OK"]
  /\ calm' = 0
  /\ UNCHANGED <<pc, k, spi_buf, rx, memory, data_ready, budget>>

(* The PLC program stores an output. *)
PlcWrite(m) ==
  /\ Disturb
  /\ output_do' = [output_do EXCEPT ![m] = Not(@)]
  /\ plc' = plc \cup {m}
  /\ UNCHANGED <<pc, k, input_di, image, spi_buf, rx, board, data_ready>>

Next ==
  \/ Main \/ Kill \/ Ready
  \/ \E m \in Mods : InputChange(m) \/ Fail(m) \/ Recover(m) \/ PlcWrite(m)

(* main() is a loop that only waits for the board; the board keeps asking  *)
(* for frames, and a failed module is eventually repaired.                 *)
Fairness ==
  /\ WF_vars(Main)
  /\ WF_vars(Ready)
  /\ \A m \in Mods : WF_vars(Recover(m))

Spec == Init /\ [][Next]_vars

FairSpec == Spec /\ Fairness

-----------------------------------------------------------------------------
TypeOK ==
  /\ pc \in {"boot", "write1", "wait1", "xfer1", "compute", "write", "wait",
             "xfer", "read"}
  /\ k \in Mods
  /\ input_di \in [Mods -> Bit] /\ output_do \in [Mods -> Bit]
  /\ spi_buf \in [Mods -> Bit]
  /\ rx \in Frame
  /\ board \in BoardState
  /\ data_ready \in BOOLEAN
  /\ budget \in 0 .. Budget
  /\ plc \subseteq Mods
  /\ image \in [Mods -> [sent : Bit, crc_ok : BOOLEAN]]
  /\ calm \in 0 .. 3

(* The input image never shows a bit the board did not send, unless the    *)
(* exchange it came from failed the checksum that spi_transfer computes    *)
(* and main() ignores; a failed module holds its last good value, across   *)
(* kills too.                                                              *)
ImageGenuine ==
  \A m \in Mods : image[m].crc_ok => input_di[m] = image[m].sent

(* When the frame goes out, the byte of every output that the last frame   *)
(* called healthy is the complement of the input image now in the shared   *)
(* memory, unless the PLC stored that output in the meantime: the cycle    *)
(* never sends an output computed from an input it has since replaced.     *)
FrameFollowsInput ==
  pc \in {"wait", "xfer"} =>
    \A m \in Mods \ plc :
      rx.do_status[m] = "OK" => spi_buf[m] = Not(input_di[m])

(* Three undisturbed exchanges in a row are enough, whatever came before:  *)
(* from then on the shared memory shows every healthy input of the board,  *)
(* and every healthy output is the complement of what it shows, be that    *)
(* the input or the last value of an input module that failed.  (Two are   *)
(* not: the frame that answers the first exchange of a process is computed *)
(* from before anything was read.)                                         *)
SettlesInThree ==
  calm = 3 => \A m \in Mods :
    /\ board.di_status[m] = "OK" => input_di[m] = board.in[m]
    /\ board.do_status[m] = "OK" => board.out[m] = Not(input_di[m])

(* Once the disturbances are over, every output of the board is driven     *)
(* with the complement of its input for good: neither a kill nor a failed  *)
(* module nor a damaged frame leaves a stale bit anywhere on the way.      *)
Converges == <>[](\A m \in Mods : board.out[m] = Not(board.in[m]))

=============================================================================
