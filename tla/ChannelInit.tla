----------------------------- MODULE ChannelInit -----------------------------
(***************************************************************************)
(* The layout that ModbusChannelManager::init computes for the SPI frame   *)
(* (system/src/ModbusChannelManager.cpp).  The scan over the io_config     *)
(* table of the shared memory is a step per table entry, so that what it   *)
(* has laid out so far can be stated, and proved, after every entry.       *)
(*                                                                         *)
(* A data channel is a record: the module slot it stands for, its type,    *)
(* the offset of its bytes in the SPI buffer (off) and the offset of its   *)
(* bytes in the shared-memory area of its type (shm).                      *)
(***************************************************************************)
EXTENDS Integers, Sequences, FiniteSetsExt

CONSTANTS
  IoConfigLen,   \* SHARE_MEMORY_IO_CONFIG_LEN, 1024 in the code
  ModuleMax,     \* MODULE_MAX_NUM, 32 in the code
  Configs        \* the contents io_config may be given

Types == {"DI", "AI", "DO", "AO"}

(* "NONE" is MODULE_NOT_PRESENT, "DONE" is MODULE_TYPE_DONE and "OTHER" any *)
(* of the codes that the switch leaves to its default branch.              *)
Entry == Types \cup {"NONE", "DONE", "OTHER"}

(* Bytes a module takes in the frame; the shared-memory counters advance   *)
(* by as many bytes (16 words of input_ai, 8 words of output_ao).          *)
Width == [DI |-> 3, AI |-> 32, DO |-> 3, AO |-> 16]

Header    == 32     \* one status byte per module slot
CrcLen    == 4
SpiBufLen == 2048

(* Bytes of the shared-memory area of each type. *)
AreaLen == [DI |-> 512, AI |-> 2048, DO |-> 512, AO |-> 512]

Slots == 0 .. IoConfigLen - 2

ASSUME LenAssumption ==
  /\ IoConfigLen \in Nat \ {0, 1}
  /\ ModuleMax \in 1 .. Header

(* main() configures slots below MODULE_MAX_NUM only.                      *)
ASSUME ConfigAssumption ==
  /\ Configs \subseteq [Slots -> Entry]
  /\ \A c \in Configs, s \in Slots : c[s] \in Types \cup {"OTHER"} => s < ModuleMax

VARIABLES
  pc,            \* "off", "scan" or "ready"
  io_config,
  module_conf,   \* the codes that CONF: reports to the I/O board
  vec,           \* the data channels, in the order they were pushed
  counter,       \* di_counter, ai_counter, do_counter, ao_counter, in bytes
  spi_counter,
  i,
  spi_transfer_len

vars == <<pc, io_config, module_conf, vec, counter, spi_counter, i,
          spi_transfer_len>>

UnusedButLast == [s \in 0 .. ModuleMax - 2 |-> "UNUSED"]      \* mutant

Unused == [s \in 0 .. ModuleMax - 1 |-> "UNUSED"]

Channel == [slot : Slots, type : Types, off : Nat, shm : Nat]

Init ==
  /\ pc = "off"
  /\ io_config \in Configs
  /\ module_conf = Unused
  /\ vec = << >>
  /\ counter = [t \in Types |-> 0]
  /\ spi_counter = 0
  /\ i = 1
  /\ spi_transfer_len = 0

(* The start of init(): its counters are locals, and start at zero.        *)
StartScan(c) ==
  /\ io_config' = c
  /\ vec' = << >>
  /\ counter' = [t \in Types |-> 0]
  /\ spi_counter' = 0
  /\ i' = 1
  /\ pc' = "scan"
  /\ UNCHANGED spi_transfer_len

(* A process starts: the constructor clears module_conf, main() fills      *)
(* io_config and calls init().                                             *)
Boot(c) ==
  /\ pc = "off"
  /\ module_conf' = Unused
  /\ StartScan(c)

(* reconfig() empties vec and calls init() again; module_conf is kept.     *)
Reconfig(c) ==
  /\ pc = "ready"
  /\ UNCHANGED module_conf
  /\ StartScan(c)

Scanning == pc = "scan" /\ i < IoConfigLen

Advance == i' = i + 1 /\ UNCHANGED <<pc, io_config, spi_transfer_len>>

ScanAbsent ==
  /\ Scanning
  /\ io_config[i - 1] = "NONE"
  /\ Advance
  /\ UNCHANGED <<module_conf, vec, counter, spi_counter>>

NewChannelAtCounter(t) ==                                     \* mutant
  [slot |-> i - 1, type |-> t, off |-> Header + counter[t], shm |-> counter[t]]

NewChannel(t) ==
  [slot |-> i - 1, type |-> t, off |-> Header + spi_counter, shm |-> counter[t]]

CountNothing(t) == UNCHANGED counter                          \* mutant

CountModule(t) == counter' = [counter EXCEPT ![t] = @ + Width[t]]

ReportNext(code) == module_conf' = [module_conf EXCEPT ![i] = code] \* mutant

Report(code) == module_conf' = [module_conf EXCEPT ![i - 1] = code]

ScanModule(t) ==
  /\ Scanning
  /\ io_config[i - 1] = t
  /\ vec' = Append(vec, NewChannel(t))
  /\ Report(t)
  /\ CountModule(t)
  /\ spi_counter' = spi_counter + Width[t]
  /\ Advance

ScanOther ==
  /\ Scanning
  /\ io_config[i - 1] = "OTHER"
  /\ Report("UNUSED")
  /\ Advance
  /\ UNCHANGED <<vec, counter, spi_counter>>

FrameLenNoCrc == Header + spi_counter                         \* mutant

FrameLen == Header + spi_counter + CrcLen

FinishScan ==
  /\ pc = "scan"
  /\ i < IoConfigLen => io_config[i - 1] = "DONE"
  /\ spi_transfer_len' = FrameLen
  /\ pc' = "ready"
  /\ UNCHANGED <<io_config, module_conf, vec, counter, spi_counter, i>>

(* The process ends; nothing of the manager survives it. *)
Exit ==
  /\ pc = "ready"
  /\ pc' = "off"
  /\ module_conf' = Unused
  /\ vec' = << >>
  /\ counter' = [t \in Types |-> 0]
  /\ spi_counter' = 0
  /\ i' = 1
  /\ spi_transfer_len' = 0
  /\ UNCHANGED io_config

Next ==
  \/ \E c \in Configs : Boot(c) \/ Reconfig(c)
  \/ \E t \in Types : ScanModule(t)
  \/ ScanAbsent
  \/ ScanOther
  \/ FinishScan
  \/ Exit

Spec == Init /\ [][Next]_vars

-----------------------------------------------------------------------------
TypeOK ==
  /\ pc \in {"off", "scan", "ready"}
  /\ io_config \in Configs
  /\ module_conf \in [0 .. ModuleMax - 1 -> Types \cup {"UNUSED"}]
  /\ vec \in Seq(Channel)
  /\ counter \in [Types -> Nat]
  /\ spi_counter \in Nat
  /\ i \in 1 .. IoConfigLen
  /\ spi_transfer_len \in Nat

End(ch) == ch.off + Width[ch.type]

(* No two channels share a byte of the frame, and the frame keeps the      *)
(* order of the module slots: what one module sends is never read as       *)
(* another's (the offsets spi_buf_base + spi_counter of init).             *)
FrameDisjoint ==
  \A j, k \in 1 .. Len(vec) :
    j < k => vec[j].slot < vec[k].slot /\ End(vec[j]) <= vec[k].off

(* Two channels of one type never share a byte of the shared memory, and   *)
(* none reaches past the area of its type.                                 *)
AreaDisjoint ==
  \A j, k \in 1 .. Len(vec) :
    /\ vec[j].shm + Width[vec[j].type] <= AreaLen[vec[j].type]
    /\ (j < k /\ vec[j].type = vec[k].type)
          => vec[j].shm + Width[vec[j].type] <= vec[k].shm

(* Once init has returned, every channel lies between the status bytes and *)
(* the checksum of the frame, its status byte is in the header, and the    *)
(* frame fits the SPI buffers.                                             *)
InsideFrame ==
  pc = "ready" =>
    /\ spi_transfer_len <= SpiBufLen
    /\ \A k \in 1 .. Len(vec) :
         /\ vec[k].slot < Header
         /\ Header <= vec[k].off
         /\ End(vec[k]) <= spi_transfer_len - CrcLen

(* A slot that module_conf still reports although the table no longer has  *)
(* a module there: init skips an absent slot without resetting it.         *)
StaleSlots ==
  {s \in 0 .. ModuleMax - 1 :
     module_conf[s] \in Types /\ ~\E k \in 1 .. Len(vec) : vec[k].slot = s}

ModuleSlots(conf) == {s \in 0 .. ModuleMax - 1 : conf[s] \in Types}

(* How the I/O board, which knows only the codes of CONF:, cuts a frame of *)
(* len bytes: the bytes of the first module follow the header, those of    *)
(* every other module follow its predecessor's, and the checksum the last. *)
CutByBoard(conf, off, len) ==
  LET M == ModuleSlots(conf) IN
    /\ \A u \in M :
         \/ off[u] = Header /\ \A s \in M : u <= s
         \/ \E s \in M :
              /\ s < u
              /\ \A v \in M : v <= s \/ u <= v
              /\ off[u] = off[s] + Width[conf[s]]
    /\ \/ M = {} /\ len = Header + CrcLen
       \/ \E s \in M :
            /\ \A v \in M : v <= s
            /\ len = off[s] + Width[conf[s]] + CrcLen

(* Where the host has put the module of each slot. *)
HostOffset ==
  [s \in ModuleSlots(module_conf) |->
     vec[CHOOSE k \in 1 .. Len(vec) : vec[k].slot = s].off]

(* The host and the board agree on the frame: unless module_conf reports a *)
(* module that is gone, each channel is where the board puts the module of *)
(* its slot, and the frame has the length the board expects.  vec and      *)
(* module_conf are filled side by side, and reconfig resets only one.      *)
BoardAgrees ==
  (pc = "ready" /\ StaleSlots = {}) =>
    /\ \A k \in 1 .. Len(vec) : module_conf[vec[k].slot] = vec[k].type
    /\ CutByBoard(module_conf, HostOffset, spi_transfer_len)

=============================================================================
