-------------------------- MODULE ChannelInitProofs --------------------------
(* The layout of the SPI frame is right for every table that main() may    *)
(* fill in, whatever the number of slots.                                  *)
EXTENDS ChannelInit, TLAPS

(* What the scan has laid out so far: every channel belongs to a slot      *)
(* already scanned and ends below the counters, and no counter grows by    *)
(* more than one module per slot that may hold one.                        *)
ScannedPart ==
  \A k \in 1 .. Len(vec) :
    /\ vec[k].slot < i - 1
    /\ vec[k].slot < ModuleMax
    /\ Header <= vec[k].off
    /\ End(vec[k]) <= Header + spi_counter
    /\ vec[k].shm + Width[vec[k].type] <= counter[vec[k].type]

ShmOrdered ==
  \A j, k \in 1 .. Len(vec) :
    (j < k /\ vec[j].type = vec[k].type)
      => vec[j].shm + Width[vec[j].type] <= vec[k].shm

CounterBound ==
  /\ spi_counter <= 32 * (i - 1)
  /\ spi_counter <= 32 * ModuleMax
  /\ \A t \in Types : /\ counter[t] <= Width[t] * (i - 1)
                      /\ counter[t] <= Width[t] * ModuleMax

LenSet == pc = "ready" => spi_transfer_len = Header + spi_counter + CrcLen

IInv ==
  /\ TypeOK
  /\ ScannedPart
  /\ FrameDisjoint
  /\ ShmOrdered
  /\ CounterBound
  /\ LenSet

(* A module takes at least one byte and at most 32. *)
LEMMA WidthRange ==
  \A t \in Types : Width[t] \in Nat /\ 1 <= Width[t] /\ Width[t] <= 32
  BY DEF Width, Types

(* Every variable of ChannelInit keeps its type, for every table length    *)
(* and every number of slots.                                              *)
LEMMA InitTypeOK == Init => TypeOK
  <1> SUFFICES ASSUME Init PROVE TypeOK
    OBVIOUS
  <1> QED
    BY LenAssumption DEF Init, TypeOK, Unused, Types, Channel

LEMMA NextTypeOK == TypeOK /\ [Next]_vars => TypeOK'
  <1> SUFFICES ASSUME TypeOK, [Next]_vars PROVE TypeOK'
    OBVIOUS
  <1> USE LenAssumption DEF TypeOK
  <1>1. ASSUME NEW c \in Configs, Boot(c) PROVE TypeOK'
    BY <1>1 DEF Boot, StartScan, Unused, Types
  <1>2. ASSUME NEW c \in Configs, Reconfig(c) PROVE TypeOK'
    BY <1>2 DEF Reconfig, StartScan, Types
  <1>3. ASSUME NEW t \in Types, ScanModule(t) PROVE TypeOK'
    <2> DEFINE ch == NewChannel(t)
    <2>1. i - 1 \in Slots /\ i + 1 \in 1 .. IoConfigLen
      BY <1>3 DEF ScanModule, Scanning, Slots
    <2>2. ch \in Channel
      BY <2>1 DEF NewChannel, Channel, Header
    <2>3. vec' \in Seq(Channel)
      BY <1>3, <2>2 DEF ScanModule
    <2>4. Width[t] \in Nat
      BY WidthRange
    <2>5. counter' \in [Types -> Nat] /\ spi_counter' \in Nat
      BY <1>3, <2>4 DEF ScanModule, CountModule
    <2>6. module_conf' \in [0 .. ModuleMax - 1 -> Types \cup {"UNUSED"}]
      BY <1>3 DEF ScanModule, Report
    <2> QED
      BY <1>3, <2>1, <2>3, <2>5, <2>6 DEF ScanModule, Advance
  <1>4. CASE ScanAbsent
    BY <1>4 DEF ScanAbsent, Scanning, Advance
  <1>5. CASE ScanOther
    <2>1. module_conf' \in [0 .. ModuleMax - 1 -> Types \cup {"UNUSED"}]
      BY <1>5 DEF ScanOther, Report
    <2>2. i + 1 \in 1 .. IoConfigLen
      BY <1>5 DEF ScanOther, Scanning
    <2> QED
      BY <1>5, <2>1, <2>2 DEF ScanOther, Advance
  <1>6. CASE FinishScan
    BY <1>6 DEF FinishScan, FrameLen, Header, CrcLen
  <1>7. CASE Exit
    BY <1>7 DEF Exit, Unused, Types
  <1>8. CASE UNCHANGED vars
    BY <1>8 DEF vars
  <1> QED
    BY <1>1, <1>2, <1>3, <1>4, <1>5, <1>6, <1>7, <1>8 DEF Next

(* The variables of ChannelInit always have their types.                   *)
THEOREM TypeCorrect == Spec => []TypeOK
  BY InitTypeOK, NextTypeOK, PTL DEF Spec

-----------------------------------------------------------------------------
LEMMA InitIInv == Init => IInv
  <1> SUFFICES ASSUME Init PROVE IInv
    OBVIOUS
  <1>1. TypeOK
    BY InitTypeOK
  <1>2. ModuleMax \in Nat
    BY LenAssumption DEF Header
  <1> QED
    BY <1>1, <1>2, WidthRange
       DEF Init, IInv, ScannedPart, FrameDisjoint, ShmOrdered, CounterBound,
           LenSet

(* Whoever empties the layout, for a new scan or on the way out.           *)
LaidOutNothing ==
  /\ vec = << >>
  /\ counter = [t \in Types |-> 0]
  /\ spi_counter = 0
  /\ i = 1
  /\ pc # "ready"

LEMMA EmptyIInv ==
  ASSUME TypeOK', LaidOutNothing'
  PROVE  IInv'
  <1>1. ModuleMax \in Nat
    BY LenAssumption DEF Header
  <1> QED
    BY <1>1, WidthRange
       DEF LaidOutNothing, IInv, ScannedPart, FrameDisjoint, ShmOrdered,
           CounterBound, LenSet

(* A module is appended after, and above, all that is laid out.            *)
LEMMA ModuleIInv ==
  ASSUME IInv, TypeOK', NEW t \in Types, ScanModule(t)
  PROVE  IInv'
  <1> DEFINE ch == NewChannel(t)
             n  == Len(vec)
  <1>a. /\ vec \in Seq(Channel) /\ counter \in [Types -> Nat]
        /\ spi_counter \in Nat /\ i \in 1 .. IoConfigLen
        /\ io_config \in Configs
        /\ ScannedPart /\ FrameDisjoint /\ ShmOrdered /\ CounterBound
    BY DEF IInv, TypeOK
  <1>1. i - 1 \in Slots /\ i - 1 < ModuleMax
    <2>1. i - 1 \in Slots
      BY <1>a, LenAssumption DEF ScanModule, Scanning, Slots
    <2>2. io_config[i - 1] = t /\ io_config \in Configs
      BY <1>a DEF ScanModule
    <2> QED
      BY <2>1, <2>2, ConfigAssumption
  <1>2. /\ Width[t] \in Nat /\ 1 <= Width[t] /\ Width[t] <= 32
        /\ ModuleMax \in Nat /\ i \in Nat /\ i' = i + 1
    <2>1. Width[t] \in Nat /\ 1 <= Width[t] /\ Width[t] <= 32
      BY WidthRange
    <2>2. ModuleMax \in Nat /\ i \in Nat
      BY <1>a, LenAssumption DEF Header
    <2>3. i' = i + 1
      BY DEF ScanModule, Advance
    <2> QED
      BY <2>1, <2>2, <2>3
  <1>3. ch \in Channel
    BY <1>a, <1>1 DEF NewChannel, Channel, Header
  <1>4. /\ Len(vec') = n + 1 /\ n \in Nat
        /\ vec'[n + 1] = ch
        /\ \A k \in 1 .. n : vec'[k] = vec[k] /\ vec[k] \in Channel
    BY <1>a, <1>3 DEF ScanModule
  <1>5. /\ spi_counter' = spi_counter + Width[t]
        /\ counter' \in [Types -> Nat]
        /\ counter'[t] = counter[t] + Width[t]
        /\ \A u \in Types : u # t => counter'[u] = counter[u]
    BY <1>a, <1>2 DEF ScanModule, CountModule
  <1>6. ASSUME NEW k \in 1 .. n
        PROVE  /\ vec[k].slot \in Nat /\ vec[k].off \in Nat
               /\ vec[k].shm \in Nat /\ vec[k].type \in Types
               /\ Width[vec[k].type] \in Nat
    <2>1. vec[k] \in Channel
      BY <1>4
    <2>2. /\ vec[k].slot \in Slots /\ vec[k].off \in Nat
          /\ vec[k].shm \in Nat /\ vec[k].type \in Types
      BY <2>1 DEF Channel
    <2>3. vec[k].slot \in Nat
      BY <2>2, LenAssumption DEF Slots
    <2> QED
      BY <2>2, <2>3, WidthRange
  <1>7. ScannedPart'
    <2> SUFFICES ASSUME NEW k \in 1 .. n + 1
                 PROVE  /\ vec'[k].slot < i' - 1
                        /\ vec'[k].slot < ModuleMax
                        /\ Header <= vec'[k].off
                        /\ vec'[k].off + Width[vec'[k].type] <= Header + spi_counter'
                        /\ vec'[k].shm + Width[vec'[k].type] <= counter'[vec'[k].type]
      BY <1>4 DEF ScannedPart, End
    <2>1. CASE k = n + 1
      <3>1. /\ vec'[k].slot = i - 1 /\ vec'[k].type = t
            /\ vec'[k].off = Header + spi_counter /\ vec'[k].shm = counter[t]
        BY <1>4, <2>1 DEF NewChannel
      <3>2. counter[t] \in Nat /\ spi_counter \in Nat
        BY <1>a
      <3> QED
        BY <1>1, <1>2, <1>5, <3>1, <3>2, SMTT(30) DEF Header
    <2>2. CASE k \in 1 .. n
      <3>1. vec'[k] = vec[k]
        BY <1>4, <2>2
      <3>2. /\ vec[k].slot < i - 1 /\ vec[k].slot < ModuleMax
            /\ Header <= vec[k].off
            /\ vec[k].off + Width[vec[k].type] <= Header + spi_counter
            /\ vec[k].shm + Width[vec[k].type] <= counter[vec[k].type]
        BY <1>a, <2>2 DEF ScannedPart, End
      <3>3. counter[vec[k].type] <= counter'[vec[k].type]
        <4>1. vec[k].type \in Types
          BY <1>6, <2>2
        <4>2. \A u \in Types : counter[u] \in Nat
          BY <1>a
        <4>3. ASSUME NEW u \in Types PROVE counter[u] <= counter'[u]
          <5>1. CASE u = t
            BY <1>2, <1>5, <4>2, <5>1
          <5>2. CASE u # t
            BY <1>5, <4>2, <5>2
          <5> QED
            BY <5>1, <5>2
        <4> QED
          BY <4>1, <4>3
      <3>4. counter'[vec[k].type] \in Nat /\ counter[vec[k].type] \in Nat
        BY <1>a, <1>5, <1>6, <2>2
      <3>5. /\ vec[k].slot \in Nat /\ vec[k].off \in Nat
            /\ vec[k].shm \in Nat /\ Width[vec[k].type] \in Nat
        BY <1>6, <2>2
      <3>6. spi_counter \in Nat
        BY <1>a
      <3>7. vec[k].slot < i' - 1
        BY <1>2, <3>2, <3>5
      <3>8. vec[k].off + Width[vec[k].type] <= Header + spi_counter'
        <4>1. spi_counter' \in Nat /\ spi_counter <= spi_counter'
          BY <1>2, <1>5, <3>6
        <4>2. vec[k].off + Width[vec[k].type] \in Nat
          BY <3>5
        <4> QED
          BY <3>2, <3>6, <4>1, <4>2 DEF Header
      <3>9. vec[k].shm + Width[vec[k].type] <= counter'[vec[k].type]
        BY <3>2, <3>3, <3>4, <3>5
      <3> QED
        BY <3>1, <3>2, <3>7, <3>8, <3>9
    <2> QED
      BY <1>4, <2>1, <2>2
  <1>8. ASSUME NEW j \in 1 .. n + 1, NEW k \in 1 .. n + 1, j < k
        PROVE  /\ vec'[j].slot < vec'[k].slot
               /\ vec'[j].off + Width[vec'[j].type] <= vec'[k].off
               /\ vec'[j].type = vec'[k].type
                    => vec'[j].shm + Width[vec'[j].type] <= vec'[k].shm
    <2>1. j \in 1 .. n /\ vec'[j] = vec[j]
      BY <1>4, <1>8
    <2>2. CASE k = n + 1
      <3>1. /\ vec[j].slot < i - 1
            /\ vec[j].off + Width[vec[j].type] <= Header + spi_counter
            /\ vec[j].shm + Width[vec[j].type] <= counter[vec[j].type]
        BY <1>a, <2>1 DEF ScannedPart, End
      <3> QED
        BY <1>4, <2>1, <2>2, <3>1 DEF NewChannel
    <2>3. CASE k \in 1 .. n
      <3>1. vec'[k] = vec[k] /\ Len(vec) = n
        BY <1>4, <2>3
      <3>2. /\ vec[j].slot < vec[k].slot
            /\ vec[j].off + Width[vec[j].type] <= vec[k].off
            /\ vec[j].type = vec[k].type
                 => vec[j].shm + Width[vec[j].type] <= vec[k].shm
        BY <1>a, <1>8, <2>1, <2>3, <3>1 DEF FrameDisjoint, ShmOrdered, End
      <3> QED
        BY <2>1, <3>1, <3>2
    <2> QED
      BY <1>4, <2>2, <2>3
  <1>9. CounterBound'
    <2>1. spi_counter' <= 32 * (i' - 1) /\ spi_counter' <= 32 * ModuleMax
      BY <1>a, <1>1, <1>2, <1>5 DEF CounterBound
    <2>2. ASSUME NEW u \in Types
          PROVE  /\ counter'[u] <= Width[u] * (i' - 1)
                 /\ counter'[u] <= Width[u] * ModuleMax
      <3>1. counter[u] \in Nat /\ counter[u] <= Width[u] * (i - 1)
            /\ counter[u] <= Width[u] * ModuleMax
        BY <1>a DEF CounterBound
      <3>2. /\ u = t => counter'[u] = counter[u] + Width[u]
            /\ u # t => counter'[u] = counter[u]
        BY <1>5
      <3>3. Width[u] \in {3, 16, 32}
        BY DEF Width, Types
      <3>4. CASE Width[u] = 3
        BY <1>1, <1>2, <3>1, <3>2, <3>4
      <3>5. CASE Width[u] = 16
        BY <1>1, <1>2, <3>1, <3>2, <3>5
      <3>6. CASE Width[u] = 32
        BY <1>1, <1>2, <3>1, <3>2, <3>6
      <3> QED
        BY <3>3, <3>4, <3>5, <3>6
    <2> QED
      BY <2>1, <2>2 DEF CounterBound
  <1>10. pc' = "scan"
    BY DEF ScanModule, Scanning, Advance
  <1> QED
    BY <1>4, <1>7, <1>8, <1>9, <1>10
       DEF IInv, FrameDisjoint, ShmOrdered, LenSet, End

LEMMA NextIInv == IInv /\ [Next]_vars => IInv'
  <1> SUFFICES ASSUME IInv, [Next]_vars PROVE IInv'
    OBVIOUS
  <1>1. TypeOK'
    BY NextTypeOK DEF IInv
  <1>2. ASSUME NEW c \in Configs, Boot(c) \/ Reconfig(c) PROVE IInv'
    <2>1. LaidOutNothing'
      BY <1>2 DEF Boot, Reconfig, StartScan, LaidOutNothing
    <2> QED
      BY <1>1, <2>1, EmptyIInv
  <1>3. ASSUME NEW t \in Types, ScanModule(t) PROVE IInv'
    BY <1>1, <1>3, ModuleIInv
  <1>4. CASE ScanAbsent \/ ScanOther
    <2>1. /\ i' = i + 1 /\ pc' = "scan" /\ i \in Nat /\ ModuleMax \in Nat
          /\ UNCHANGED <<vec, counter, spi_counter>>
      BY <1>4, LenAssumption
         DEF ScanAbsent, ScanOther, Scanning, Advance, IInv, TypeOK, Header
    <2>2. ScannedPart'
      <3> SUFFICES ASSUME NEW k \in 1 .. Len(vec)
                   PROVE  vec[k].slot < i
        BY <2>1 DEF IInv, ScannedPart, End
      <3>1. vec[k] \in Channel
        BY DEF IInv, TypeOK
      <3>2. vec[k].slot \in Int /\ vec[k].slot < i - 1
        BY <3>1 DEF IInv, ScannedPart, Channel, Slots
      <3> QED
        BY <2>1, <3>2
    <2>3. FrameDisjoint' /\ ShmOrdered' /\ LenSet'
      BY <2>1 DEF IInv, FrameDisjoint, ShmOrdered, LenSet, End
    <2>4. ASSUME NEW u \in Types
          PROVE  counter[u] <= Width[u] * i
      <3>1. counter[u] \in Nat /\ counter[u] <= Width[u] * (i - 1)
        BY DEF IInv, TypeOK, CounterBound
      <3>2. Width[u] = 3 \/ Width[u] = 16 \/ Width[u] = 32
        BY DEF Width, Types
      <3> QED
        BY <2>1, <3>1, <3>2
    <2>5. CounterBound'
      BY <2>1, <2>4 DEF IInv, TypeOK, CounterBound
    <2> QED
      BY <1>1, <2>2, <2>3, <2>5 DEF IInv
  <1>5. CASE FinishScan
    BY <1>1, <1>5
       DEF FinishScan, FrameLen, IInv, ScannedPart, FrameDisjoint, ShmOrdered,
           CounterBound, LenSet, End
  <1>6. CASE Exit
    <2>1. LaidOutNothing'
      BY <1>6 DEF Exit, LaidOutNothing
    <2> QED
      BY <1>1, <2>1, EmptyIInv
  <1>7. CASE UNCHANGED vars
    BY <1>1, <1>7
       DEF vars, IInv, ScannedPart, FrameDisjoint, ShmOrdered,
           CounterBound, LenSet, End
  <1> QED
    BY <1>2, <1>3, <1>4, <1>5, <1>6, <1>7 DEF Next

LEMMA InvariantHolds == Spec => []IInv
  BY InitIInv, NextIInv, PTL DEF Spec

-----------------------------------------------------------------------------
(* init never gives two modules the same bytes of the SPI frame, and keeps *)
(* them in the order of their slots, for any table main() may fill.        *)
THEOREM ChannelsDisjoint == Spec => []FrameDisjoint
  BY InvariantHolds, PTL DEF IInv

(* The shared-memory ranges of the channels are disjoint and stay in the   *)
(* area of their type: 32 analogue output modules just fill output_ao.     *)
THEOREM AreasDisjoint == Spec => []AreaDisjoint
  <1>1. IInv => AreaDisjoint
    <2> SUFFICES ASSUME IInv, NEW k \in 1 .. Len(vec)
                 PROVE  vec[k].shm + Width[vec[k].type] <= AreaLen[vec[k].type]
      BY DEF IInv, AreaDisjoint, ShmOrdered
    <2> DEFINE t == vec[k].type
    <2>1. vec[k] \in Channel
      BY DEF IInv, TypeOK
    <2>2. t \in Types /\ vec[k].shm \in Nat
      BY <2>1 DEF Channel
    <2>3. /\ vec[k].shm + Width[t] <= counter[t]
          /\ counter[t] <= Width[t] * ModuleMax /\ counter[t] \in Nat
      BY <2>2 DEF IInv, TypeOK, ScannedPart, CounterBound
    <2>4. ModuleMax \in Nat /\ ModuleMax <= 32
      BY LenAssumption DEF Header
    <2>5. \/ Width[t] = 3 /\ AreaLen[t] = 512
          \/ Width[t] = 32 /\ AreaLen[t] = 2048
          \/ Width[t] = 16 /\ AreaLen[t] = 512
      BY <2>2 DEF Width, AreaLen, Types
    <2> HIDE DEF t
    <2>6. CASE Width[t] = 3 /\ AreaLen[t] = 512
      BY <2>3, <2>4, <2>6, <2>2 DEF t
    <2>7. CASE Width[t] = 32 /\ AreaLen[t] = 2048
      BY <2>3, <2>4, <2>7, <2>2 DEF t
    <2>8. CASE Width[t] = 16 /\ AreaLen[t] = 512
      BY <2>3, <2>4, <2>8, <2>2 DEF t
    <2> QED
      BY <2>5, <2>6, <2>7, <2>8 DEF t
  <1> QED
    BY <1>1, InvariantHolds, PTL

(* Every channel of a finished layout lies between the status bytes and    *)
(* the checksum, and the frame fits the buffers the code never checks.     *)
THEOREM FrameFits == Spec => []InsideFrame
  <1>1. IInv => InsideFrame
    <2> SUFFICES ASSUME IInv, pc = "ready" PROVE InsideFrame
      BY DEF InsideFrame
    <2>1. /\ spi_counter \in Nat /\ spi_counter <= 32 * ModuleMax
          /\ ModuleMax \in Nat /\ ModuleMax <= 32
          /\ spi_transfer_len = 32 + spi_counter + 4
      BY LenAssumption DEF IInv, TypeOK, CounterBound, LenSet, Header, CrcLen
    <2>2. spi_transfer_len <= SpiBufLen
      BY <2>1 DEF SpiBufLen
    <2>3. ASSUME NEW k \in 1 .. Len(vec)
          PROVE  /\ vec[k].slot < Header /\ Header <= vec[k].off
                 /\ End(vec[k]) <= spi_transfer_len - CrcLen
      <3>1. vec[k] \in Channel
        BY DEF IInv, TypeOK
      <3>2. /\ vec[k].slot \in Int /\ vec[k].off \in Nat
            /\ Width[vec[k].type] \in Nat
        BY <3>1, WidthRange, LenAssumption DEF Channel, Slots
      <3> QED
        BY <2>1, <3>2 DEF IInv, ScannedPart, End, Header, CrcLen
    <2> QED
      BY <2>2, <2>3 DEF InsideFrame
  <1> QED
    BY <1>1, InvariantHolds, PTL

-----------------------------------------------------------------------------
(* The channels are packed: each begins where its predecessor ends, and    *)
(* the counter of the scan stands at the end of the last one.              *)
Packed ==
  /\ vec = << >> => spi_counter = 0
  /\ vec # << >> => /\ vec[1].off = Header
                    /\ End(vec[Len(vec)]) = Header + spi_counter
  /\ \A k \in 1 .. Len(vec) : k > 1 => vec[k].off = End(vec[k - 1])

(* What CONF: will say of the slot of a channel.                           *)
Reported ==
  \A k \in 1 .. Len(vec) : module_conf[vec[k].slot] = vec[k].type

LEMMA ModulePacked ==
  ASSUME IInv, Packed, Reported, NEW t \in Types, ScanModule(t)
  PROVE  Packed' /\ Reported'
  <1> DEFINE ch == NewChannel(t)
             n  == Len(vec)
  <1>1. /\ vec \in Seq(Channel) /\ spi_counter \in Nat /\ i \in Nat
        /\ counter \in [Types -> Nat]
        /\ module_conf \in [0 .. ModuleMax - 1 -> Types \cup {"UNUSED"}]
    BY LenAssumption DEF IInv, TypeOK
  <1>2. i - 1 \in Slots /\ i - 1 \in 0 .. ModuleMax - 1
    <2>1. i - 1 \in Slots
      BY LenAssumption DEF IInv, TypeOK, ScanModule, Scanning, Slots
    <2>2. io_config[i - 1] = t /\ io_config \in Configs
      BY DEF ScanModule, IInv, TypeOK
    <2>3. i - 1 < ModuleMax
      BY <2>1, <2>2, ConfigAssumption
    <2> QED
      BY <2>1, <2>3, LenAssumption DEF Slots, Header
  <1>3. Width[t] \in Nat
    BY WidthRange
  <1>4. /\ ch.off = Header + spi_counter /\ ch.type = t /\ ch.slot = i - 1
        /\ ch \in Channel
    BY <1>1, <1>2 DEF NewChannel, Channel, Header
  <1> HIDE DEF ch
  <1>5. /\ n \in Nat /\ vec' = Append(vec, ch)
        /\ Len(vec') = n + 1 /\ vec'[n + 1] = ch
        /\ \A k \in 1 .. n : vec'[k] = vec[k]
    BY <1>1, <1>4 DEF ScanModule, ch
  <1>6. spi_counter' = spi_counter + Width[t]
    BY DEF ScanModule
  <1>7. Packed'
    <2>1. vec' # << >>
      BY <1>5
    <2>2. vec'[1].off = Header
      <3>1. CASE vec = << >>
        BY <1>4, <1>5, <3>1 DEF Packed, Header
      <3>2. CASE vec # << >>
        <4>1. 1 \in 1 .. n
          BY <1>1, <1>5, <3>2
        <4> QED
          BY <1>5, <3>2, <4>1 DEF Packed
      <3> QED
        BY <3>1, <3>2
    <2>3. End(vec'[n + 1]) = Header + spi_counter'
      BY <1>1, <1>3, <1>4, <1>5, <1>6 DEF End, Header
    <2>4. ASSUME NEW k \in 1 .. n + 1, k > 1
          PROVE  vec'[k].off = End(vec'[k - 1])
      <3>1. CASE k = n + 1
        <4>1. n \in 1 .. n /\ vec # << >> /\ k - 1 = n
          BY <1>1, <1>5, <2>4, <3>1
        <4>2. End(vec[n]) = Header + spi_counter
          BY <4>1 DEF Packed
        <4>3. vec'[k] = ch /\ vec'[k - 1] = vec[n]
          BY <1>5, <3>1, <4>1
        <4> QED
          BY <1>4, <4>2, <4>3
      <3>2. CASE k \in 1 .. n
        <4>1. k - 1 \in 1 .. n
          BY <1>5, <2>4, <3>2
        <4>2. vec'[k] = vec[k] /\ vec'[k - 1] = vec[k - 1]
          BY <1>5, <3>2, <4>1
        <4> QED
          BY <2>4, <3>2, <4>2 DEF Packed
      <3> QED
        BY <1>5, <2>4, <3>1, <3>2
    <2> QED
      BY <1>5, <2>1, <2>2, <2>3, <2>4 DEF Packed
  <1>8. Reported'
    <2> SUFFICES ASSUME NEW k \in 1 .. n + 1
                 PROVE  module_conf'[vec'[k].slot] = vec'[k].type
      BY <1>5 DEF Reported
    <2>1. /\ module_conf'[i - 1] = t
          /\ \A s \in 0 .. ModuleMax - 1 :
               s # i - 1 => module_conf'[s] = module_conf[s]
      BY <1>1, <1>2 DEF ScanModule, Report
    <2>2. CASE k = n + 1
      BY <1>4, <1>5, <2>1, <2>2
    <2>3. CASE k \in 1 .. n
      <3>1. vec[k] \in Channel
        BY <1>1, <2>3
      <3>2. /\ vec[k].slot \in Nat /\ vec[k].slot < i - 1
            /\ vec[k].slot < ModuleMax
        BY <3>1, <2>3, LenAssumption DEF Channel, Slots, IInv, ScannedPart
      <3>3. vec[k].slot \in 0 .. ModuleMax - 1 /\ vec[k].slot # i - 1
        BY <1>1, <3>2, LenAssumption DEF Header
      <3> QED
        BY <1>5, <2>1, <2>3, <3>3 DEF Reported
    <2> QED
      BY <1>5, <2>2, <2>3
  <1> QED
    BY <1>7, <1>8

LEMMA NextPacked == IInv /\ Packed /\ Reported /\ [Next]_vars => Packed' /\ Reported'
  <1> SUFFICES ASSUME IInv, Packed, Reported, [Next]_vars
               PROVE  Packed' /\ Reported'
    OBVIOUS
  <1>1. CASE vec' = << >> /\ spi_counter' = 0
    BY <1>1 DEF Packed, Reported
  <1>2. CASE UNCHANGED <<vec, spi_counter, module_conf>>
    BY <1>2 DEF Packed, Reported, End
  <1>3. ASSUME NEW t \in Types, ScanModule(t) PROVE Packed' /\ Reported'
    BY <1>3, ModulePacked
  <1>4. CASE ScanOther
    <2>1. UNCHANGED <<vec, spi_counter>>
      BY <1>4 DEF ScanOther
    <2>2. Packed'
      BY <2>1 DEF Packed, End
    <2>3. ASSUME NEW k \in 1 .. Len(vec)
          PROVE  module_conf'[vec[k].slot] = module_conf[vec[k].slot]
      <3>1. vec[k] \in Channel
        BY DEF IInv, TypeOK
      <3>2. /\ vec[k].slot \in Nat /\ vec[k].slot < i - 1
            /\ vec[k].slot < ModuleMax /\ i \in Nat
        BY <3>1, LenAssumption, SMTT(30) DEF Channel, Slots, IInv, ScannedPart, TypeOK
      <3>3. vec[k].slot \in 0 .. ModuleMax - 1 /\ vec[k].slot # i - 1
        BY <3>2, LenAssumption DEF Header
      <3>4. module_conf' = [module_conf EXCEPT ![i - 1] = "UNUSED"]
        BY <1>4 DEF ScanOther, Report
      <3>5. module_conf \in [0 .. ModuleMax - 1 -> Types \cup {"UNUSED"}]
        BY DEF IInv, TypeOK
      <3> QED
        BY <3>3, <3>4, <3>5
    <2>4. Reported'
      BY <2>1, <2>3 DEF Reported
    <2> QED
      BY <2>2, <2>4
  <1>5. CASE FinishScan \/ ScanAbsent \/ UNCHANGED vars
    BY <1>2, <1>5 DEF FinishScan, ScanAbsent, vars
  <1>6. ASSUME NEW c \in Configs, Boot(c) \/ Reconfig(c) PROVE Packed' /\ Reported'
    BY <1>1, <1>6 DEF Boot, Reconfig, StartScan
  <1>7. CASE Exit
    BY <1>1, <1>7 DEF Exit
  <1> QED
    BY <1>3, <1>4, <1>5, <1>6, <1>7 DEF Next

(* The slots that module_conf reports are those of the channels, the       *)
(* channels are in the order of their slots and packed: so the host's      *)
(* offsets are the ones the board cuts at.                                 *)
LEMMA Agreement == IInv /\ Packed /\ Reported => BoardAgrees
  <1> SUFFICES ASSUME IInv, Packed, Reported, pc = "ready", StaleSlots = {}
               PROVE  BoardAgrees
    BY DEF BoardAgrees
  <1> DEFINE n == Len(vec)
             M == ModuleSlots(module_conf)
  <1>1. /\ n \in Nat /\ vec \in Seq(Channel) /\ spi_counter \in Nat
        /\ module_conf \in [0 .. ModuleMax - 1 -> Types \cup {"UNUSED"}]
        /\ ModuleMax \in Nat
    BY LenAssumption DEF IInv, TypeOK, Header
  <1>2. ASSUME NEW k \in 1 .. n
        PROVE  /\ vec[k] \in Channel
               /\ vec[k].slot \in M /\ vec[k].type = module_conf[vec[k].slot]
               /\ vec[k].slot \in Nat /\ vec[k].off \in Nat
               /\ Width[vec[k].type] \in Nat
    <2>1. vec[k] \in Channel
      BY <1>1
    <2>2. vec[k].slot \in Nat /\ vec[k].slot < ModuleMax
      BY <2>1, LenAssumption DEF Channel, Slots, IInv, ScannedPart
    <2>3. vec[k].type = module_conf[vec[k].slot] /\ vec[k].type \in Types
      BY <2>1 DEF Channel, Reported
    <2>4. vec[k].slot \in M
      BY <1>1, <2>2, <2>3 DEF ModuleSlots
    <2>5. Width[vec[k].type] \in Nat
      BY <2>3, WidthRange
    <2> QED
      BY <2>1, <2>2, <2>3, <2>4, <2>5 DEF Channel
  <1>3. ASSUME NEW j \in 1 .. n, NEW k \in 1 .. n
        PROVE  /\ vec[j].slot < vec[k].slot <=> j < k
               /\ vec[j].slot = vec[k].slot <=> j = k
               /\ vec[j].slot <= vec[k].slot <=> j <= k
    <2>1. vec[j].slot \in Nat /\ vec[k].slot \in Nat
      BY <1>2
    <2>2. j < k => vec[j].slot < vec[k].slot
      BY DEF IInv, FrameDisjoint
    <2>3. k < j => vec[k].slot < vec[j].slot
      BY DEF IInv, FrameDisjoint
    <2> QED
      BY <2>1, <2>2, <2>3
  <1>4. \A s \in M : \E k \in 1 .. n : vec[k].slot = s
    BY DEF StaleSlots, ModuleSlots
  <1>5. ASSUME NEW k \in 1 .. n
        PROVE  HostOffset[vec[k].slot] = vec[k].off
    <2> DEFINE s == vec[k].slot
               h == CHOOSE j \in 1 .. n : vec[j].slot = s
    <2>1. h \in 1 .. n /\ vec[h].slot = s
      OBVIOUS
    <2> HIDE DEF h
    <2>2. h = k
      BY <1>3, <2>1
    <2>3. HostOffset[s] = vec[h].off
      BY <1>2 DEF HostOffset, h
    <2> QED
      BY <2>2, <2>3
  <1> HIDE DEF M
  <1>6. ASSUME NEW u \in M
        PROVE  \/ HostOffset[u] = Header /\ \A s \in M : u <= s
               \/ \E s \in M :
                    /\ s < u
                    /\ \A v \in M : v <= s \/ u <= v
                    /\ HostOffset[u] = HostOffset[s] + Width[module_conf[s]]
    <2>1. PICK k \in 1 .. n : vec[k].slot = u
      BY <1>4
    <2>2. \A v \in M : \E j \in 1 .. n : vec[j].slot = v
      BY <1>4
    <2>3. CASE k = 1
      <3>1. vec # << >>
        BY <1>1, <2>1
      <3>2. HostOffset[u] = Header
        BY <1>5, <2>1, <2>3, <3>1 DEF Packed
      <3>3. ASSUME NEW v \in M PROVE u <= v
        <4>1. PICK j \in 1 .. n : vec[j].slot = v
          BY <2>2
        <4> QED
          BY <1>3, <2>1, <2>3, <4>1
      <3> QED
        BY <3>2, <3>3
    <2>4. CASE k > 1
      <3>1. k - 1 \in 1 .. n /\ k - 1 < k
        BY <1>1, <2>4
      <3> DEFINE s == vec[k - 1].slot
      <3>2. s \in M /\ s < u
        BY <1>2, <1>3, <2>1, <3>1
      <3>3. ASSUME NEW v \in M PROVE v <= s \/ u <= v
        <4>1. PICK j \in 1 .. n : vec[j].slot = v
          BY <2>2
        <4>2. j <= k - 1 \/ k <= j
          BY <2>1, <3>1
        <4>3. j <= k - 1 => v <= s
          BY <1>3, <3>1, <4>1
        <4>4. k <= j => u <= v
          BY <1>3, <2>1, <4>1
        <4> QED
          BY <4>2, <4>3, <4>4
      <3>4. HostOffset[u] = HostOffset[s] + Width[module_conf[s]]
        <4>1. HostOffset[u] = vec[k].off
          BY <1>5, <2>1
        <4>2. HostOffset[s] = vec[k - 1].off
          BY <1>5, <3>1
        <4>3. module_conf[s] = vec[k - 1].type
          BY <1>2, <3>1
        <4>4. vec[k].off = End(vec[k - 1])
          BY <2>1, <2>4 DEF Packed
        <4> QED
          BY <4>1, <4>2, <4>3, <4>4 DEF End
      <3> QED
        BY <3>2, <3>3, <3>4
    <2> QED
      BY <2>1, <2>3, <2>4
  <1>7. \/ M = {} /\ spi_transfer_len = Header + CrcLen
        \/ \E s \in M :
             /\ \A v \in M : v <= s
             /\ spi_transfer_len = HostOffset[s] + Width[module_conf[s]] + CrcLen
    <2>1. spi_transfer_len = Header + spi_counter + CrcLen
      BY DEF IInv, LenSet
    <2>2. CASE vec = << >>
      <3>1. n = 0 /\ spi_counter = 0
        BY <2>2 DEF Packed
      <3>2. M = {}
        BY <1>4, <3>1
      <3> QED
        BY <2>1, <3>1, <3>2 DEF Header, CrcLen
    <2>3. CASE vec # << >>
      <3>1. n \in 1 .. n /\ End(vec[n]) = Header + spi_counter
        BY <1>1, <2>3 DEF Packed
      <3> DEFINE s == vec[n].slot
      <3>2. s \in M
        BY <1>2, <3>1
      <3>3. ASSUME NEW v \in M PROVE v <= s
        <4>1. PICK j \in 1 .. n : vec[j].slot = v
          BY <1>4
        <4>2. j <= n
          BY <4>1
        <4> QED
          BY <1>3, <3>1, <4>1, <4>2
      <3>4. HostOffset[s] + Width[module_conf[s]] = Header + spi_counter
        BY <1>2, <1>5, <3>1 DEF End
      <3>5. spi_transfer_len = HostOffset[s] + Width[module_conf[s]] + CrcLen
        BY <2>1, <3>4
      <3> QED
        BY <3>2, <3>3, <3>5
    <2> QED
      BY <2>2, <2>3
  <1>8. CutByBoard(module_conf, HostOffset, spi_transfer_len)
    BY <1>6, <1>7 DEF CutByBoard, M
  <1> QED
    BY <1>8 DEF BoardAgrees, Reported

LEMMA PackedHolds == Spec => [](IInv /\ Packed /\ Reported)
  <1>1. Init => Packed /\ Reported
    BY DEF Init, Packed, Reported
  <1> QED
    BY <1>1, InitIInv, NextIInv, NextPacked, PTL DEF Spec

(* The board, which knows module_conf only, cuts the frame where the host  *)
(* has laid its channels out, for every table main() may fill, unless a    *)
(* reconfig has left a slot reported that has lost its module.             *)
THEOREM HostAndBoardAgree == Spec => []BoardAgrees
  BY PackedHolds, Agreement, PTL

=============================================================================
