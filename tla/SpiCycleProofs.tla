--------------------------- MODULE SpiCycleProofs ---------------------------
(* The I/O cycle for any number of modules and of disturbances.            *)
EXTENDS SpiCycle, TLAPS

(* A frame whose checksum matched carries what the board sent.             *)
FrameGenuine == rx.crc_ok => rx.data = rx.sent

(* How far the complement has got on its way from the input image to the   *)
(* frame: into the outputs below k while computing, into all of them and   *)
(* into the frame below k while writing, into the whole frame after that.  *)
ComputedUpTo ==
  /\ pc = "compute" => \A m \in Mods \ plc :
                          m < k => output_do[m] = Not(input_di[m])
  /\ pc = "write" => \A m \in Mods \ plc :
                        /\ output_do[m] = Not(input_di[m])
                        /\ (m < k /\ rx.do_status[m] = "OK")
                             => spi_buf[m] = Not(input_di[m])

IInv ==
  /\ TypeOK
  /\ FrameGenuine
  /\ ImageGenuine
  /\ ComputedUpTo
  /\ FrameFollowsInput

LEMMA NotBit == \A b \in Bit : Not(b) \in Bit
  BY DEF Bit, Not

LEMMA InitIInv == Init => IInv
  <1> SUFFICES ASSUME Init PROVE IInv
    OBVIOUS
  <1>1. 1 \in Mods /\ Budget \in Nat
    BY CycleAssumption DEF Mods
  <1>2. TypeOK
    <2>1. all(0) \in [Mods -> Bit] /\ all("FAULT") \in [Mods -> Status]
          /\ \A s \in Status : all(s) \in [Mods -> Status]
      BY DEF all, Bit, Status
    <2>2. rx \in Frame
      BY <2>1 DEF Init, Frame
    <2>3. board \in BoardState
      <3>1. PICK s \in Status :
              board = [in |-> all(0), out |-> all(0),
                       di_status |-> all("OK"), do_status |-> all(s)]
        BY DEF Init
      <3>2. all("OK") \in [Mods -> Status]
        BY DEF all, Status
      <3> QED
        BY <2>1, <3>1, <3>2 DEF BoardState
    <2>4. image \in [Mods -> [sent : Bit, crc_ok : BOOLEAN]]
      BY DEF Init, all, Bit
    <2>5. /\ pc = "boot" /\ k = 1 /\ budget = Budget /\ plc = {} /\ calm = 0
          /\ input_di = all(0) /\ output_do = all(0) /\ spi_buf = all(0)
          /\ data_ready = FALSE
      BY DEF Init
    <2>6. budget \in 0 .. Budget /\ calm \in 0 .. 3 /\ k \in Mods /\ plc \subseteq Mods
      BY <1>1, <2>5
    <2>7. input_di \in [Mods -> Bit] /\ output_do \in [Mods -> Bit]
          /\ spi_buf \in [Mods -> Bit]
      BY <2>1, <2>5
    <2> QED
      BY <2>2, <2>3, <2>4, <2>5, <2>6, <2>7, Zenon DEF TypeOK
  <1> QED
    BY <1>2 DEF Init, IInv, FrameGenuine, ImageGenuine, ComputedUpTo,
                FrameFollowsInput, all

(* The index of a loop stays among the modules.                            *)
LEMMA LoopType ==
  ASSUME TypeOK, NEW after, Loop(after)
  PROVE  /\ k' \in Mods
         /\ \/ pc' = pc /\ k' = k + 1 /\ k < N
            \/ pc' = after /\ k' = 1 /\ k = N
  BY CycleAssumption DEF Loop, TypeOK, Mods

(* A disturbance is one fewer to come, and ends the calm.                  *)
LEMMA DisturbType ==
  ASSUME TypeOK, Disturb
  PROVE  budget' \in 0 .. Budget /\ calm' \in 0 .. 3 /\ calm' = 0
  BY CycleAssumption DEF Disturb, TypeOK

LEMMA NextTypeOK == TypeOK /\ [Next]_vars => TypeOK'
  <1> SUFFICES ASSUME TypeOK, [Next]_vars PROVE TypeOK'
    OBVIOUS
  <1> USE DEF TypeOK
  <1>0. 1 \in Mods
    BY CycleAssumption DEF Mods
  <1>1. CASE Boot
    <2>1. rx' \in Frame
      <3>1. PICK s \in [Mods -> Status], t \in [Mods -> Status],
                 d \in [Mods -> Bit] :
              rx' = [di_status |-> s, do_status |-> t, data |-> d,
                     sent |-> rx.sent, crc_ok |-> FALSE]
        BY <1>1 DEF Boot
      <3>2. rx.sent \in [Mods -> Bit]
        BY DEF Frame
      <3> QED
        BY <3>1, <3>2 DEF Frame
    <2>2. spi_buf' \in [Mods -> Bit]
      BY <1>1 DEF Boot, all, Bit
    <2> QED
      BY <1>0, <1>1, <2>1, <2>2 DEF Boot, memory, world
  <1>2. CASE Write
    <2>1. spi_buf' \in [Mods -> Bit]
      BY <1>2 DEF Write, CopyOut
    <2>2. k' \in Mods /\ pc' \in {"write1", "write", "wait1", "wait"}
      BY <1>2, LoopType DEF Write, Writing
    <2> QED
      BY <1>2, <2>1, <2>2 DEF Write, memory, world
  <1>3. CASE Wait
    <2>1. budget' \in 0 .. Budget /\ calm' \in 0 .. 3
      BY <1>3, DisturbType DEF Wait
    <2>2. pc' \in {"xfer1", "xfer"}
      BY <1>3 DEF Wait
    <2> QED
      BY <1>3, <2>1, <2>2 DEF Wait, memory
  <1>4. CASE Transfer
    <2>1. rx' \in Frame
      <3>1. CASE rx' = rx
        BY <3>1
      <3>2. CASE Receive(TRUE)
        <4>1. PICK s \in [Mods -> Status], t \in [Mods -> Status],
                   d \in [Mods -> Bit] :
                rx' = [di_status |-> s, do_status |-> t, data |-> d,
                       sent |-> board.in, crc_ok |-> FALSE]
          BY <3>2 DEF Receive
        <4>2. board.in \in [Mods -> Bit]
          BY DEF BoardState
        <4> QED
          BY <4>1, <4>2 DEF Frame
      <3>3. CASE Receive(FALSE)
        <4>1. rx' = [di_status |-> board.di_status,
                     do_status |-> board.do_status,
                     data |-> board.in, sent |-> board.in, crc_ok |-> TRUE]
          BY <3>3 DEF Receive
        <4>2. /\ board.in \in [Mods -> Bit]
              /\ board.di_status \in [Mods -> Status]
              /\ board.do_status \in [Mods -> Status]
          BY DEF BoardState
        <4> QED
          BY <4>1, <4>2 DEF Frame
      <3> QED
        BY <1>4, <3>1, <3>2, <3>3 DEF Transfer
    <2>2. Latched \in [Mods -> Bit]
      BY DEF Latched, BoardState
    <2>3. board' \in BoardState
      BY <1>4, <2>2 DEF Transfer, BoardState
    <2>4. budget' \in 0 .. Budget /\ calm' \in 0 .. 3
      <3>1. \/ Disturb
            \/ budget' = budget /\ calm' \in {0, 3}
            \/ budget' = budget /\ calm < 3 /\ calm' = calm + 1
        BY <1>4 DEF Transfer
      <3> QED
        BY <3>1, DisturbType
    <2>5. data_ready' \in BOOLEAN
      BY <1>4 DEF Transfer
    <2> QED
      BY <1>0, <1>4, <2>1, <2>3, <2>4, <2>5 DEF Transfer, memory
  <1>5. CASE Read
    <2>1. input_di' \in [Mods -> Bit] /\ image' \in [Mods -> [sent : Bit, crc_ok : BOOLEAN]]
      BY <1>5 DEF Read, InputBit, Frame
    <2>2. k' \in Mods /\ pc' \in {"read", "compute"}
      BY <1>5, LoopType DEF Read
    <2> QED
      BY <1>5, <2>1, <2>2 DEF Read, world
  <1>6. CASE Compute
    <2>1. output_do' \in [Mods -> Bit]
      BY <1>6, NotBit DEF Compute
    <2>2. k' \in Mods /\ pc' \in {"write", "compute"}
      BY <1>6, LoopType DEF Compute
    <2> QED
      BY <1>6, <2>1, <2>2 DEF Compute, world
  <1>7. CASE Kill
    BY <1>0, <1>7, DisturbType DEF Kill, memory
  <1>8. CASE Ready
    BY <1>8 DEF Ready, memory
  <1>9. ASSUME NEW m \in Mods, InputChange(m) PROVE TypeOK'
    <2>1. board' \in BoardState
      BY <1>9, NotBit DEF InputChange, BoardState
    <2> QED
      BY <1>9, <2>1, DisturbType DEF InputChange, memory
  <1>10. ASSUME NEW m \in Mods, Fail(m) PROVE TypeOK'
    <2>1. board' \in BoardState
      <3>1. /\ board.di_status \in [Mods -> Status]
            /\ board.do_status \in [Mods -> Status] /\ "FAULT" \in Status
        BY DEF BoardState, Status
      <3>2. CASE board' = [board EXCEPT !.di_status[m] = "FAULT"]
        <4>1. [board.di_status EXCEPT ![m] = "FAULT"] \in [Mods -> Status]
          BY <3>1
        <4> QED
          BY <3>2, <4>1 DEF BoardState
      <3>3. CASE board' = [board EXCEPT !.do_status[m] = "FAULT"]
        <4>1. [board.do_status EXCEPT ![m] = "FAULT"] \in [Mods -> Status]
          BY <3>1
        <4> QED
          BY <3>3, <4>1 DEF BoardState
      <3> QED
        BY <1>10, <3>2, <3>3 DEF Fail
    <2> QED
      BY <1>10, <2>1, DisturbType DEF Fail, memory
  <1>11. ASSUME NEW m \in Mods, Recover(m) PROVE TypeOK'
    <2>1. board' \in BoardState
      <3>1. /\ board.di_status \in [Mods -> Status]
            /\ board.do_status \in [Mods -> Status] /\ "OK" \in Status
        BY DEF BoardState, Status
      <3>2. CASE board' = [board EXCEPT !.di_status[m] = "OK"]
        <4>1. [board.di_status EXCEPT ![m] = "OK"] \in [Mods -> Status]
          BY <3>1
        <4> QED
          BY <3>2, <4>1 DEF BoardState
      <3>3. CASE board' = [board EXCEPT !.do_status[m] = "OK"]
        <4>1. [board.do_status EXCEPT ![m] = "OK"] \in [Mods -> Status]
          BY <3>1
        <4> QED
          BY <3>3, <4>1 DEF BoardState
      <3> QED
        BY <1>11, <3>2, <3>3 DEF Recover
    <2> QED
      BY <1>11, <2>1 DEF Recover, memory
  <1>12. ASSUME NEW m \in Mods, PlcWrite(m) PROVE TypeOK'
    <2>1. output_do' \in [Mods -> Bit]
      BY <1>12, NotBit DEF PlcWrite
    <2> QED
      BY <1>12, <2>1, DisturbType DEF PlcWrite
  <1>13. CASE UNCHANGED vars
    BY <1>13 DEF vars
  <1> QED
    BY <1>1, <1>2, <1>3, <1>4, <1>5, <1>6, <1>7, <1>8, <1>9, <1>10, <1>11,
       <1>12, <1>13 DEF Next, Main

(* The I/O cycle keeps every variable in its type.                         *)
THEOREM TypeCorrect == Spec => []TypeOK
  <1>1. Init => TypeOK
    BY InitIInv DEF IInv
  <1> QED
    BY <1>1, NextTypeOK, PTL DEF Spec

-----------------------------------------------------------------------------
LEMMA NextIInv == IInv /\ [Next]_vars => IInv'
  <1> SUFFICES ASSUME IInv, [Next]_vars PROVE IInv'
    OBVIOUS
  <1>0. TypeOK /\ TypeOK'
    BY NextTypeOK DEF IInv
  <1> USE DEF IInv
  <1>1. CASE Boot
    <2>1. FrameGenuine'
      BY <1>1 DEF Boot, FrameGenuine
    <2> QED
      BY <1>0, <1>1, <2>1
         DEF Boot, memory, ImageGenuine, ComputedUpTo, FrameFollowsInput
  <1>2. CASE Write
    <2>1. FrameGenuine' /\ ImageGenuine'
      BY <1>2 DEF Write, memory, FrameGenuine, ImageGenuine
    <2>2. CASE pc = "write1"
      <3>1. pc' \in {"write1", "wait1"}
        BY <1>0, <1>2, <2>2, LoopType DEF Write
      <3> QED
        BY <1>0, <2>1, <3>1 DEF ComputedUpTo, FrameFollowsInput
    <2>3. CASE pc = "write"
      <3>1. ASSUME NEW m \in Mods \ plc, m < k \/ m = k, rx.do_status[m] = "OK"
            PROVE  spi_buf'[m] = Not(input_di[m])
        <4>1. output_do[m] = Not(input_di[m])
          BY <2>3 DEF ComputedUpTo
        <4>2. m < k => spi_buf[m] = Not(input_di[m])
          BY <2>3, <3>1 DEF ComputedUpTo
        <4>3. spi_buf' = [spi_buf EXCEPT ![k] = CopyOut(k)]
          BY <1>2 DEF Write
        <4>4. k \in Mods /\ spi_buf \in [Mods -> Bit]
          BY <1>0 DEF TypeOK
        <4>5. m = k => spi_buf'[m] = output_do[m]
          BY <3>1, <4>3, <4>4 DEF CopyOut
        <4>6. m # k => spi_buf'[m] = spi_buf[m]
          BY <4>3, <4>4
        <4> QED
          BY <3>1, <4>1, <4>2, <4>5, <4>6
      <3>2. UNCHANGED <<rx, input_di, output_do, plc>>
        BY <1>2 DEF Write, memory
      <3>3. \/ pc' = "write" /\ k' = k + 1
            \/ pc' = "wait" /\ k = N
        BY <1>0, <1>2, <2>3, LoopType DEF Write
      <3>4. k \in Nat /\ N \in Nat /\ \A m \in Mods : m \in Nat /\ m <= N
        BY <1>0, CycleAssumption DEF TypeOK, Mods
      <3>5. CASE pc' = "write" /\ k' = k + 1
        BY <1>0, <2>1, <2>3, <3>1, <3>2, <3>4, <3>5
           DEF ComputedUpTo, FrameFollowsInput
      <3>6. CASE pc' = "wait" /\ k = N
        BY <1>0, <2>1, <3>1, <3>2, <3>4, <3>6
           DEF ComputedUpTo, FrameFollowsInput
      <3> QED
        BY <3>3, <3>5, <3>6
    <2> QED
      BY <1>2, <2>2, <2>3 DEF Write, Writing
  <1>3. CASE Wait
    BY <1>0, <1>3
       DEF Wait, memory, FrameGenuine, ImageGenuine, ComputedUpTo,
           FrameFollowsInput
  <1>4. CASE Transfer
    <2>1. FrameGenuine'
      <3>1. CASE rx' = rx
        BY <3>1 DEF FrameGenuine
      <3>2. CASE Receive(TRUE)
        BY <3>2 DEF Receive, FrameGenuine
      <3>3. CASE Receive(FALSE)
        BY <3>3 DEF Receive, FrameGenuine
      <3> QED
        BY <1>4, <3>1, <3>2, <3>3 DEF Transfer
    <2>2. pc' \in {"compute", "read"} /\ k' = 1
      BY <1>4 DEF Transfer
    <2>3. \A m \in Mods : ~(m < 1)
      BY DEF Mods
    <2> QED
      BY <1>0, <1>4, <2>1, <2>2, <2>3
         DEF Transfer, memory, ImageGenuine, ComputedUpTo, FrameFollowsInput
  <1>5. CASE Read
    <2>1. FrameGenuine'
      BY <1>5 DEF Read, FrameGenuine
    <2>2. \/ pc' = "read"
          \/ pc' = "compute" /\ k' = 1
      BY <1>0, <1>5, LoopType DEF Read
    <2>3. \A m \in Mods : ~(m < 1)
      BY DEF Mods
    <2>4. ComputedUpTo' /\ FrameFollowsInput'
      BY <2>2, <2>3 DEF ComputedUpTo, FrameFollowsInput
    <2>5. ImageGenuine'
      BY <1>0, <1>5 DEF Read, InputBit, TypeOK, FrameGenuine, ImageGenuine
    <2> QED
      BY <1>0, <2>1, <2>4, <2>5
  <1>6. CASE Compute
    <2>1. FrameGenuine' /\ ImageGenuine'
      BY <1>6 DEF Compute, FrameGenuine, ImageGenuine
    <2>2. ASSUME NEW m \in Mods \ plc', m < k \/ m = k
          PROVE  output_do'[m] = Not(input_di[m])
      BY <1>0, <1>6, <2>2 DEF Compute, TypeOK, ComputedUpTo
    <2>3. k \in Nat /\ N \in Nat /\ \A m \in Mods : m \in Nat /\ 1 <= m /\ m <= N
      BY <1>0, CycleAssumption DEF TypeOK, Mods
    <2>4. \/ pc' = "compute" /\ k' = k + 1
          \/ pc' = "write" /\ k' = 1 /\ k = N
      BY <1>0, <1>6, LoopType DEF Compute
    <2>5. input_di' = input_di
      BY <1>6 DEF Compute
    <2>6. ComputedUpTo' /\ FrameFollowsInput'
      BY <2>2, <2>3, <2>4, <2>5 DEF ComputedUpTo, FrameFollowsInput
    <2> QED
      BY <1>0, <2>1, <2>6
  <1>7. CASE Kill
    BY <1>0, <1>7
       DEF Kill, memory, FrameGenuine, ImageGenuine, ComputedUpTo,
           FrameFollowsInput
  <1>8. CASE Ready
    BY <1>0, <1>8
       DEF Ready, memory, FrameGenuine, ImageGenuine, ComputedUpTo,
           FrameFollowsInput
  <1>9. ASSUME NEW m \in Mods, InputChange(m) \/ Fail(m) \/ Recover(m)
        PROVE  IInv'
    BY <1>0, <1>9
       DEF InputChange, Fail, Recover, memory, FrameGenuine, ImageGenuine,
           ComputedUpTo, FrameFollowsInput
  <1>10. ASSUME NEW m \in Mods, PlcWrite(m) PROVE IInv'
    <2>1. FrameGenuine' /\ ImageGenuine'
      BY <1>10 DEF PlcWrite, FrameGenuine, ImageGenuine
    <2>2. \A u \in Mods \ plc' : u \in Mods \ plc /\ output_do'[u] = output_do[u]
      BY <1>0, <1>10 DEF PlcWrite, TypeOK
    <2>3. ComputedUpTo' /\ FrameFollowsInput'
      BY <1>10, <2>2 DEF PlcWrite, ComputedUpTo, FrameFollowsInput
    <2> QED
      BY <1>0, <2>1, <2>3
  <1>11. CASE UNCHANGED vars
    BY <1>0, <1>11
       DEF vars, FrameGenuine, ImageGenuine, ComputedUpTo, FrameFollowsInput
  <1> QED
    BY <1>1, <1>2, <1>3, <1>4, <1>5, <1>6, <1>7, <1>8, <1>9, <1>10, <1>11
       DEF Next, Main

(* Every input in the shared memory is one the board sent, or came from an *)
(* exchange whose checksum failed.                                         *)
THEOREM ImagesGenuine == Spec => []ImageGenuine
  BY InitIInv, NextIInv, PTL DEF Spec, IInv

(* Every frame sent from the loop carries the complement of the present    *)
(* input image, on each healthy output that the PLC has left alone.        *)
THEOREM FramesFollowInputs == Spec => []FrameFollowsInput
  BY InitIInv, NextIInv, PTL DEF Spec, IInv

-----------------------------------------------------------------------------
(* What undisturbed exchanges leave behind.  After one, the receive buffer *)
(* is what the board is.  After two, the read that follows brings the      *)
(* inputs up to date, one channel at a time, the loop of main() then the   *)
(* outputs, and writeAll the frame.  After three, all of it and the board  *)
(* agree, and a further round changes nothing.                             *)
InputFollows(m)  == board.di_status[m] = "OK" => input_di[m] = board.in[m]
OutputFollows(m) == output_do[m] = Not(input_di[m])
FrameFollows(m)  == board.do_status[m] = "OK" => spi_buf[m] = Not(input_di[m])
BoardFollows(m)  == board.do_status[m] = "OK" => board.out[m] = Not(input_di[m])

FrameFresh ==
  calm > 0 => /\ pc \in {"compute", "write", "wait", "xfer", "read"}
              /\ rx.di_status = board.di_status
              /\ rx.do_status = board.do_status
              /\ rx.data = board.in

Second ==
  calm = 2 => \A m \in Mods :
    /\ pc = "read" => (m < k => InputFollows(m))
    /\ pc # "read" => InputFollows(m)
    /\ pc = "compute" => (m < k => OutputFollows(m))
    /\ pc \in {"write", "wait", "xfer"} => OutputFollows(m)
    /\ pc = "write" => (m < k => FrameFollows(m))
    /\ pc \in {"wait", "xfer"} => FrameFollows(m)

Third ==
  calm = 3 => \A m \in Mods :
    InputFollows(m) /\ OutputFollows(m) /\ FrameFollows(m) /\ BoardFollows(m)

Settling == TypeOK /\ FrameFresh /\ Second /\ Third

LEMMA InitSettling == Init => Settling
  <1> SUFFICES ASSUME Init PROVE Settling
    OBVIOUS
  <1>1. TypeOK /\ calm = 0
    BY InitIInv DEF IInv, Init
  <1> QED
    BY <1>1 DEF Settling, FrameFresh, Second, Third

(* Whatever ends the calm leaves nothing to show.                          *)
LEMMA CalmOver == TypeOK' /\ calm' = 0 => Settling'
  BY DEF Settling, FrameFresh, Second, Third

LEMMA StillSettling ==
  ASSUME Settling, TypeOK',
         UNCHANGED <<pc, k, input_di, output_do, spi_buf, rx, board, calm>>
  PROVE  Settling'
  BY DEF Settling, FrameFresh, Second, Third, InputFollows, OutputFollows,
         FrameFollows, BoardFollows

LEMMA WriteSettles ==
  ASSUME Settling, TypeOK', Write
  PROVE  Settling'
  <1>0. /\ TypeOK /\ FrameFresh /\ Second /\ Third
        /\ calm \in 0 .. 3 /\ calm' = calm
        /\ UNCHANGED <<rx, board, input_di, output_do>>
        /\ spi_buf' = [spi_buf EXCEPT ![k] = CopyOut(k)]
    BY DEF Settling, TypeOK, Write, memory, world
  <1>1. CASE calm = 0
    BY <1>0, <1>1, CalmOver
  <1>2. CASE calm > 0
    <2>1. pc = "write"
      BY <1>0, <1>2 DEF Write, Writing, FrameFresh
    <2>2. \/ pc' = "write" /\ k' = k + 1
          \/ pc' = "wait" /\ k = N
      BY <1>0, <2>1, LoopType DEF Write
    <2>3. k \in Nat /\ N \in Nat /\ \A m \in Mods : m \in Nat /\ m <= N
      BY <1>0, CycleAssumption DEF TypeOK, Mods
    <2>4. FrameFresh'
      BY <1>0, <1>2, <2>2 DEF FrameFresh
    <2>5. ASSUME NEW m \in Mods, OutputFollows(m), FrameFollows(m) \/ m = k
          PROVE  FrameFollows(m)'
      <3>1. k \in Mods /\ spi_buf \in [Mods -> Bit]
        BY <1>0 DEF TypeOK
      <3>2. rx.do_status = board.do_status
        BY <1>0, <1>2 DEF FrameFresh
      <3>3. m # k => spi_buf'[m] = spi_buf[m]
        BY <1>0, <3>1
      <3>4. m = k /\ board.do_status[m] = "OK" => spi_buf'[m] = output_do[m]
        BY <1>0, <3>1, <3>2 DEF CopyOut
      <3> QED
        BY <1>0, <2>5, <3>3, <3>4 DEF FrameFollows, OutputFollows
    <2>6. \A m \in Mods : /\ InputFollows(m)' = InputFollows(m)
                          /\ OutputFollows(m)' = OutputFollows(m)
                          /\ BoardFollows(m)' = BoardFollows(m)
      BY <1>0 DEF InputFollows, OutputFollows, BoardFollows
    <2>7. Second'
      <3> SUFFICES ASSUME calm = 2, NEW m \in Mods
                   PROVE  /\ InputFollows(m)'
                          /\ OutputFollows(m)'
                          /\ (m < k \/ m = k) => FrameFollows(m)'
        BY <1>0, <2>2, <2>3 DEF Second
      <3>1. InputFollows(m) /\ OutputFollows(m) /\ (m < k => FrameFollows(m))
        BY <1>0, <2>1 DEF Second
      <3> QED
        BY <2>5, <2>6, <3>1
    <2>8. Third'
      BY <1>0, <2>5, <2>6 DEF Third
    <2> QED
      BY <2>4, <2>7, <2>8 DEF Settling
  <1> QED
    BY <1>0, <1>1, <1>2

LEMMA WaitSettles ==
  ASSUME Settling, TypeOK', Wait
  PROVE  Settling'
  <1>1. CASE Disturb
    BY <1>1, CalmOver DEF Disturb
  <1>2. CASE BoardReady /\ UNCHANGED <<budget, calm>>
    <2>1. UNCHANGED <<k, spi_buf, rx, input_di, output_do, board, calm>>
      BY <1>2 DEF Wait, memory
    <2>2. calm > 0 => pc = "wait" /\ pc' = "xfer"
      BY DEF Wait, Settling, FrameFresh
    <2>3. calm \in 0 .. 3
      BY DEF Settling, TypeOK
    <2>4. \A m \in Mods : /\ InputFollows(m)' = InputFollows(m)
                          /\ OutputFollows(m)' = OutputFollows(m)
                          /\ FrameFollows(m)' = FrameFollows(m)
                          /\ BoardFollows(m)' = BoardFollows(m)
      BY <2>1 DEF InputFollows, OutputFollows, FrameFollows, BoardFollows
    <2> QED
      BY <2>1, <2>2, <2>3, <2>4 DEF Settling, FrameFresh, Second, Third
  <1> QED
    BY <1>1, <1>2 DEF Wait

LEMMA TransferSettles ==
  ASSUME Settling, TypeOK', Transfer
  PROVE  Settling'
  <1>0. TypeOK /\ FrameFresh /\ Second /\ Third /\ calm \in 0 .. 3
    BY DEF Settling, TypeOK
  <1>1. CASE calm' = 0
    BY <1>1, CalmOver
  <1>2. CASE calm' # 0
    <2>1. /\ calm' = IF calm < 3 THEN calm + 1 ELSE 3
          /\ Receive(FALSE)
          /\ board' = [board EXCEPT !.out = Latched]
      BY <1>2 DEF Transfer, Disturb
    <2>2. /\ UNCHANGED <<input_di, output_do, spi_buf>> /\ k' = 1
          /\ pc' = IF pc = "xfer1" THEN "compute" ELSE "read"
      BY DEF Transfer, memory
    <2>3. /\ board'.in = board.in /\ board'.di_status = board.di_status
          /\ board'.do_status = board.do_status
          /\ \A m \in Mods : board'.out[m] = Latched[m]
      BY <1>0, <2>1 DEF TypeOK, BoardState
    <2>4. FrameFresh'
      <3>1. /\ rx'.di_status = board.di_status
            /\ rx'.do_status = board.do_status /\ rx'.data = board.in
        BY <2>1 DEF Receive
      <3> QED
        BY <2>2, <2>3, <3>1 DEF FrameFresh
    <2>5. calm > 0 => pc = "xfer"
      BY <1>0 DEF FrameFresh, Transfer
    <2>6. Second'
      <3>1. calm' = 2 => pc' = "read"
        BY <1>0, <2>1, <2>2, <2>5
      <3>2. \A m \in Mods : ~(m < 1)
        BY DEF Mods
      <3> QED
        BY <2>2, <3>1, <3>2 DEF Second
    <2>7. ASSUME NEW m \in Mods, calm' = 3
          PROVE  /\ InputFollows(m)' /\ OutputFollows(m)'
                 /\ FrameFollows(m)' /\ BoardFollows(m)'
      <3>1. calm \in {2, 3}
        BY <1>0, <2>1, <2>7
      <3>2. InputFollows(m) /\ OutputFollows(m) /\ FrameFollows(m)
        BY <1>0, <2>5, <3>1 DEF Second, Third
      <3>3. InputFollows(m)' /\ OutputFollows(m)' /\ FrameFollows(m)'
        BY <2>2, <2>3, <3>2 DEF InputFollows, OutputFollows, FrameFollows
      <3>4. board.do_status[m] = "OK" => board'.out[m] = spi_buf[m]
        BY <2>3 DEF Latched
      <3> QED
        BY <2>2, <2>3, <3>2, <3>3, <3>4 DEF FrameFollows, BoardFollows
    <2>8. Third'
      BY <2>7 DEF Third
    <2> QED
      BY <2>4, <2>6, <2>8 DEF Settling
  <1> QED
    BY <1>1, <1>2

LEMMA ReadSettles ==
  ASSUME Settling, TypeOK', Read
  PROVE  Settling'
  <1>0. /\ TypeOK /\ FrameFresh /\ Second /\ Third
        /\ calm \in 0 .. 3 /\ calm' = calm
        /\ UNCHANGED <<rx, board, output_do, spi_buf>>
        /\ k \in Mods /\ input_di \in [Mods -> Bit]
    BY DEF Settling, TypeOK, Read, world
  <1>1. CASE calm = 0
    BY <1>0, <1>1, CalmOver
  <1>2. CASE calm > 0
    <2>1. /\ rx.di_status = board.di_status /\ rx.data = board.in
      BY <1>0, <1>2 DEF FrameFresh
    <2>2. \/ pc' = "read" /\ k' = k + 1
          \/ pc' = "compute" /\ k' = 1 /\ k = N
      BY <1>0, LoopType DEF Read
    <2>3. k \in Nat /\ N \in Nat /\ \A m \in Mods : m \in Nat /\ 1 <= m /\ m <= N
      BY <1>0, CycleAssumption DEF Mods
    <2>4. FrameFresh'
      BY <1>0, <1>2, <2>2 DEF FrameFresh
    <2>5. ASSUME NEW m \in Mods, InputFollows(m) \/ m = k
          PROVE  InputFollows(m)'
      <3>1. m # k => input_di'[m] = input_di[m]
        BY <1>0 DEF Read
      <3>2. m = k /\ board.di_status[m] = "OK" => input_di'[m] = board.in[m]
        BY <1>0, <2>1 DEF Read, Readable, InputBit
      <3> QED
        BY <1>0, <2>5, <3>1, <3>2 DEF InputFollows
    <2>6. Second'
      <3> SUFFICES ASSUME calm = 2, NEW m \in Mods
                   PROVE  (m < k \/ m = k) => InputFollows(m)'
        BY <1>0, <2>2, <2>3 DEF Second
      <3>1. m < k => InputFollows(m)
        BY <1>0 DEF Second, Read
      <3> QED
        BY <2>5, <3>1
    <2>7. Third'
      <3> SUFFICES ASSUME calm = 3
                   PROVE  Third'
        BY <1>0 DEF Third
      <3>1. input_di' = input_di
        <4>1. board.di_status[k] = "OK" => input_di[k] = board.in[k]
          BY <1>0 DEF Third, InputFollows
        <4>2. Readable(k) => input_di[k] = InputBit(k)
          BY <2>1, <4>1 DEF Readable, InputBit
        <4> QED
          BY <1>0, <4>2 DEF Read
      <3> QED
        BY <1>0, <3>1 DEF Third, InputFollows, OutputFollows, FrameFollows,
                          BoardFollows
    <2> QED
      BY <2>4, <2>6, <2>7 DEF Settling
  <1> QED
    BY <1>0, <1>1, <1>2

LEMMA ComputeSettles ==
  ASSUME Settling, TypeOK', Compute
  PROVE  Settling'
  <1>0. /\ TypeOK /\ FrameFresh /\ Second /\ Third
        /\ calm \in 0 .. 3 /\ calm' = calm
        /\ UNCHANGED <<rx, board, input_di, spi_buf>>
        /\ k \in Mods /\ output_do \in [Mods -> Bit]
        /\ output_do' = [output_do EXCEPT ![k] = Not(input_di[k])]
    BY DEF Settling, TypeOK, Compute, world
  <1>1. CASE calm = 0
    BY <1>0, <1>1, CalmOver
  <1>2. CASE calm > 0
    <2>1. \/ pc' = "compute" /\ k' = k + 1
          \/ pc' = "write" /\ k' = 1 /\ k = N
      BY <1>0, LoopType DEF Compute
    <2>2. k \in Nat /\ N \in Nat /\ \A m \in Mods : m \in Nat /\ 1 <= m /\ m <= N
      BY <1>0, CycleAssumption DEF Mods
    <2>3. FrameFresh'
      BY <1>0, <1>2, <2>1 DEF FrameFresh
    <2>4. ASSUME NEW m \in Mods, OutputFollows(m) \/ m = k
          PROVE  OutputFollows(m)'
      BY <1>0, <2>4 DEF OutputFollows
    <2>5. \A m \in Mods : /\ InputFollows(m)' = InputFollows(m)
                          /\ FrameFollows(m)' = FrameFollows(m)
                          /\ BoardFollows(m)' = BoardFollows(m)
      BY <1>0 DEF InputFollows, FrameFollows, BoardFollows
    <2>6. Second'
      <3> SUFFICES ASSUME calm = 2, NEW m \in Mods
                   PROVE  /\ InputFollows(m)'
                          /\ (m < k \/ m = k) => OutputFollows(m)'
        BY <1>0, <2>1, <2>2 DEF Second
      <3>1. InputFollows(m) /\ (m < k => OutputFollows(m))
        BY <1>0 DEF Second, Compute
      <3> QED
        BY <2>4, <2>5, <3>1
    <2>7. Third'
      BY <1>0, <2>4, <2>5 DEF Third
    <2> QED
      BY <2>3, <2>6, <2>7 DEF Settling
  <1> QED
    BY <1>0, <1>1, <1>2

LEMMA NextSettling == Settling /\ [Next]_vars => Settling'
  <1> SUFFICES ASSUME Settling, [Next]_vars PROVE Settling'
    OBVIOUS
  <1>0. TypeOK /\ TypeOK'
    BY NextTypeOK DEF Settling
  <1>1. CASE Boot
    <2>1. calm = 0
      BY <1>0, <1>1 DEF Boot, Settling, FrameFresh, TypeOK
    <2> QED
      BY <1>0, <1>1, <2>1, CalmOver DEF Boot, world
  <1>2. CASE Write
    BY <1>0, <1>2, WriteSettles
  <1>3. CASE Wait
    BY <1>0, <1>3, WaitSettles
  <1>4. CASE Transfer
    BY <1>0, <1>4, TransferSettles
  <1>5. CASE Read
    BY <1>0, <1>5, ReadSettles
  <1>6. CASE Compute
    BY <1>0, <1>6, ComputeSettles
  <1>7. CASE Ready
    BY <1>0, <1>7, StillSettling DEF Ready, memory
  <1>8. CASE Kill \/ \E m \in Mods : \/ InputChange(m) \/ Fail(m)
                                    \/ Recover(m) \/ PlcWrite(m)
    <2>1. calm' = 0
      BY <1>8 DEF Kill, InputChange, Fail, Recover, PlcWrite, Disturb
    <2> QED
      BY <1>0, <2>1, CalmOver
  <1>9. CASE UNCHANGED vars
    BY <1>0, <1>9, StillSettling DEF vars
  <1> QED
    BY <1>1, <1>2, <1>3, <1>4, <1>5, <1>6, <1>7, <1>8, <1>9 DEF Next, Main

(* After any history of kills, failures, damaged frames and PLC stores,    *)
(* three undisturbed exchanges bring memory and board into agreement, and  *)
(* they stay so until the next disturbance.                                *)
THEOREM CycleSettles == Spec => []SettlesInThree
  <1>1. Settling => SettlesInThree
    BY DEF Settling, Third, SettlesInThree, InputFollows, BoardFollows
  <1> QED
    BY <1>1, InitSettling, NextSettling, PTL DEF Spec

=============================================================================
