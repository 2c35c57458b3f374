------------------------------- MODULE Consen -------------------------------
(***************************************************************************)
(* The polling threads of system/src/Consen.cpp.  Each serial line has a   *)
(* thread that performs the Modbus transactions of its task list over and  *)
(* over.  The threads share, without a lock, the modbus_bool and           *)
(* modbus_word areas of the shared memory, which lie one behind the other, *)
(* and the static buf of poll(), through which input bits are packed.      *)
(*                                                                         *)
(* A reply is matched with the request that waits for it by its function   *)
(* and quantity alone, and nothing is flushed: error recovery is off.  One *)
(* that comes too late, or whose end a read has missed, is read before the *)
(* reply to a later request of the line.                                   *)
(*                                                                         *)
(* A bit is told apart by where it came from: the task it was asked for,   *)
(* its place in the reply, and the round.                                  *)
(***************************************************************************)
EXTENDS Naturals, Sequences

CONSTANTS
  Line,
  ModbusByteLen,   \* SHARE_MEMORY_MODBUS_BYTE_LEN, 256 in the code
  ModbusWordLen,   \* SHARE_MEMORY_MODBUS_WORD_LEN, 2048 in the code
  Layouts,         \* the task lists the configuration file may hold
  MaxOwed          \* bound: replies owed, for each line

Cmd == {"bits", "registers", "write"}

(* A task of no data, which parseTask does not refuse, is left out.        *)
TaskCfg == [cmd : Cmd, num : 1 .. 255, offset : Nat]

(* Tasks stay inside the areas; nothing keeps them apart.                  *)
Inside(task) ==
  IF task.cmd = "bits" THEN task.offset + task.num <= 8 * ModbusByteLen
  ELSE task.cmd = "registers" => task.offset + task.num <= ModbusWordLen

ASSUME SizeAssumption == ModbusByteLen \in Nat /\ ModbusWordLen \in Nat \ {0}
ASSUME OwedAssumption == MaxOwed \in [Line -> Nat]
ASSUME LayoutAssumption ==
  /\ Layouts \subseteq [Line -> Seq(TaskCfg)]
  /\ \A y \in Layouts, l \in Line : \A k \in 1 .. Len(y[l]) : Inside(y[l][k])

Bytes == 0 .. ModbusByteLen + 2 * ModbusWordLen - 1
Bit   == 0 .. 7
Place == 0 .. 255      \* of buf

VARIABLES
  layout,     \* _task_vec_1 and _task_vec_2
  pc, at,     \* where each thread is in poll(), and in which task
  pos,        \* the bit or register it has got to
  byte,       \* the byte assemble_io_status is filling
  owed,       \* replies of a line that come before that to the next request
  from,       \* the reply that the task under way has accepted
  buf,
  memory,     \* modbus_bool, with modbus_word behind it
  round,      \* history: the parity of the successful reads of a task
  latest,     \* history: what a task has put into the memory last
  doubt       \* history: that was not all read for it, see Read and Fill

bus == <<owed, from>>
vars == <<layout, pc, at, pos, byte, bus, buf, memory, round, latest, doubt>>
local  == <<pos, byte>>
ghosts == <<round, latest, doubt>>

Nobody == << >>

Task(l)  == layout[l][at[l]]
Tasks(l) == 1 .. Len(layout[l])

(* A reply: the task it was asked for and the round, or Bad, which no      *)
(* request takes: an exception, or bytes with a wrong CRC.                 *)
Reply == Nat \X (0 .. 1)
Bad   == <<0, 0>>

(* Bit or register p of the reply, and the byte of memory it is stored in, *)
(* or its first byte.                                                      *)
Value(l, p)   == <<l, from[l][1], p, from[l][2]>>
ByteOf(t, p)  == (t.offset + p) \div 8
FirstOf(t, p) == ModbusByteLen + 2 * (t.offset + p)

Init ==
  /\ layout \in Layouts
  /\ pc = [l \in Line |-> IF layout[l] = << >> THEN "none" ELSE "poll"]
  /\ at = [l \in Line |-> 1]
  /\ pos = [l \in Line |-> 0]
  /\ byte = [l \in Line |-> [b \in Bit |-> Nobody]]
  /\ owed = [l \in Line |-> << >>]
  /\ from = [l \in Line |-> Bad]
  /\ buf = [p \in Place |-> Nobody]
  /\ memory = [a \in Bytes |-> [b \in Bit |-> Nobody]]
  /\ round = [l \in Line |-> [k \in Tasks(l) |-> 0]]
  /\ latest = [l \in Line |-> [k \in Tasks(l) |->
                 [p \in 0 .. layout[l][k].num - 1 |-> Nobody]]]
  /\ doubt = [l \in Line |-> [k \in Tasks(l) |-> TRUE]]

Goto(l, place) == pc' = [pc EXCEPT ![l] = place]

NextTaskPast(l) ==                                                \* mutant
  /\ Goto(l, "poll")
  /\ at' = [at EXCEPT ![l] = IF @ <= Len(layout[l]) THEN @ + 1 ELSE 1]

(* The loop over _task_vec goes on, and poll() is called again.            *)
NextTask(l) ==
  /\ Goto(l, "poll")
  /\ at' = [at EXCEPT ![l] = IF @ < Len(layout[l]) THEN @ + 1 ELSE 1]

-----------------------------------------------------------------------------
(* What there is to read once a request was sent: what is owed, and behind *)
(* it the answer, unless it is lost.                                       *)
Answer(l) == <<at[l], 1 - round[l][at[l]]>>

Incoming(l) == {owed[l]} \cup {Append(owed[l], a) : a \in {Answer(l), Bad}}

(* What check_confirmation compares, besides the function: bytes of bits,  *)
(* or what was read or written.                                            *)
Quantity(t) == IF t.cmd = "bits" THEN (t.num + 7) \div 8 ELSE t.num

Fits(l, reply) ==
  /\ reply # Bad
  /\ LET t == layout[l][reply[1]] IN
       t.cmd = Task(l).cmd /\ Quantity(t) = Quantity(Task(l))

(* The first reply of q is taken for the answer.                           *)
Accept(l, q) ==
  q # << >> /\ Fits(l, Head(q)) /\ owed' = [owed EXCEPT ![l] = Tail(q)]

(* What a read leaves that ends within the first reply of q.               *)
Cut(q) == [i \in 1 .. Len(q) |-> IF i = 1 THEN Bad ELSE q[i]]

(* The transaction fails: nothing was sent, the answer is lost or late,    *)
(* what came is not accepted, or a read fails or ends elsewhere than a     *)
(* reply does.  The next request has before it what was not read.          *)
GiveUp(l) ==
  \E q \in Incoming(l) : \E n \in 1 .. Len(q) + 1 :
    LET rest == SubSeq(q, n, Len(q)) IN
    /\ Len(rest) <= MaxOwed[l]
    /\ owed' \in {[owed EXCEPT ![l] = r] : r \in {rest, Cut(rest)}}

(* A transaction that succeeds; it takes its time, and the reply is stored *)
(* afterwards.                                                             *)
Read(l, cmd, place) ==
  /\ pc[l] = "poll" /\ Task(l).cmd = cmd
  /\ \E q \in Incoming(l) :
       Accept(l, q) /\ from' = [from EXCEPT ![l] = Head(q)]
  /\ Goto(l, place)
  /\ pos' = [pos EXCEPT ![l] = 0]
  /\ round' = [round EXCEPT ![l][at[l]] = 1 - @]
  /\ doubt' = [doubt EXCEPT ![l][at[l]] = owed[l] # << >>]
  /\ UNCHANGED <<layout, at, byte, buf, memory, latest>>

ReadBits(l)      == Read(l, "bits", "fill")
ReadRegisters(l) == Read(l, "registers", "store")

(* modbus_read_input_bits fails: what buf holds is packed all the same.    *)
ReadBitsFails(l) ==
  /\ pc[l] = "poll" /\ Task(l).cmd = "bits"
  /\ GiveUp(l)
  /\ Goto(l, "load")
  /\ pos' = [pos EXCEPT ![l] = 0]
  /\ doubt' = [doubt EXCEPT ![l][at[l]] = TRUE]
  /\ UNCHANGED <<layout, at, byte, from, buf, memory, round, latest>>

(* A failing read of registers stores nothing, and neither does a write,   *)
(* which sends the bytes of modbus_bool or the words of modbus_word.       *)
NothingRead(l) ==
  /\ pc[l] = "poll" /\ Task(l).cmd # "bits"
  /\ \/ GiveUp(l)
     \/ Task(l).cmd = "write" /\ \E q \in Incoming(l) : Accept(l, q)
  /\ NextTask(l)
  /\ UNCHANGED <<layout, local, from, buf, memory, ghosts>>

Packing == {"fill", "load", "put", "full", "last"}

StoredFromOne(l) ==                                               \* mutant
  buf' = [buf EXCEPT ![pos[l] + 1] = Value(l, pos[l])]

Stored(l) == buf' = [buf EXCEPT ![pos[l]] = Value(l, pos[l])]

(* read_io_status stores a bit of the reply, under the feet of a thread    *)
(* that is using buf too.                                                  *)
Fill(l) ==
  /\ pc[l] = "fill"
  /\ Stored(l)
  /\ IF pos[l] + 1 < Task(l).num
     THEN pos' = [pos EXCEPT ![l] = @ + 1] /\ UNCHANGED pc
     ELSE pos' = [pos EXCEPT ![l] = 0] /\ Goto(l, "load")
  /\ doubt' = [m \in Line |-> [k \in Tasks(m) |->
                 doubt[m][k] \/ (m # l /\ k = at[m] /\ pc[m] \in Packing)]]
  /\ UNCHANGED <<layout, bus, at, byte, memory, round, latest>>

Blank(l) == [b \in Bit |-> Nobody]                                \* mutant

Current(l) == memory[ByteOf(Task(l), pos[l])]

(* assemble_io_status takes the byte the next bit belongs to, when all     *)
(* bits are in place too.                                                  *)
Load(l) ==
  /\ pc[l] = "load"
  /\ byte' = [byte EXCEPT ![l] = Current(l)]
  /\ Goto(l, IF pos[l] < Task(l).num THEN "put" ELSE "last")
  /\ UNCHANGED <<layout, bus, at, pos, buf, memory, ghosts>>

Shift(t, p) == (t.offset + p) % 8

Put(l) ==
  LET t == Task(l)  p == pos[l] IN
  /\ pc[l] = "put"
  /\ byte' = [byte EXCEPT ![l][Shift(t, p)] = buf[p]]
  /\ latest' = [latest EXCEPT ![l][at[l]][p] = buf[p]]
  /\ pos' = [pos EXCEPT ![l] = p + 1]
  /\ Goto(l, IF Shift(t, p) = 7 THEN "full"
             ELSE IF p + 1 < t.num THEN "put" ELSE "last")
  /\ UNCHANGED <<layout, bus, at, buf, memory, round, doubt>>

(* The byte is full: it goes back, and the next one is loaded.             *)
StoreFull(l) ==
  /\ pc[l] = "full"
  /\ memory' = [memory EXCEPT ![ByteOf(Task(l), pos[l] - 1)] = byte[l]]
  /\ Goto(l, "load")
  /\ UNCHANGED <<layout, bus, at, local, buf, ghosts>>

StoreLast(l) ==
  /\ pc[l] = "last"
  /\ memory' = [memory EXCEPT ![ByteOf(Task(l), pos[l])] = byte[l]]
  /\ NextTask(l)
  /\ UNCHANGED <<layout, bus, local, buf, ghosts>>

(* read_registers stores a register of the reply, two bytes at once.       *)
StoreRegister(l) ==
  LET t == Task(l)  p == pos[l]  v == Value(l, p) IN
  /\ pc[l] = "store"
  /\ memory' = [memory EXCEPT ![FirstOf(t, p)] = [b \in Bit |-> v],
                              ![FirstOf(t, p) + 1] = [b \in Bit |-> v]]
  /\ latest' = [latest EXCEPT ![l][at[l]][p] = v]
  /\ IF p + 1 < t.num
     THEN pos' = [pos EXCEPT ![l] = p + 1] /\ UNCHANGED <<pc, at>>
     ELSE NextTask(l) /\ UNCHANGED pos
  /\ UNCHANGED <<layout, bus, byte, buf, round, doubt>>

Thread(l) ==
  \/ ReadBits(l) \/ ReadBitsFails(l) \/ ReadRegisters(l) \/ NothingRead(l)
  \/ Fill(l) \/ Load(l) \/ Put(l) \/ StoreFull(l) \/ StoreLast(l)
  \/ StoreRegister(l)

Next == \E l \in Line : Thread(l)

Spec == Init /\ [][Next]_vars

-----------------------------------------------------------------------------
ControlOK ==
  /\ pc \in [Line -> {"none", "poll", "fill", "load", "put", "full", "last",
                      "store"}]
  /\ at \in [Line -> Nat]
  /\ \A l \in Line : pc[l] # "none" => at[l] \in Tasks(l)
  /\ pos \in [Line -> 0 .. 255]

DataOK ==
  /\ DOMAIN byte = Line /\ \A l \in Line : DOMAIN byte[l] = Bit
  /\ DOMAIN buf = Place
  /\ DOMAIN memory = Bytes /\ \A a \in Bytes : DOMAIN memory[a] = Bit

BusOK ==
  /\ owed \in [Line -> Seq(Reply)] /\ from \in [Line -> Reply]

GhostsOK ==
  /\ DOMAIN round = Line /\ DOMAIN doubt = Line /\ DOMAIN latest = Line
  /\ \A l \in Line :
       /\ round[l] \in [Tasks(l) -> 0 .. 1]
       /\ doubt[l] \in [Tasks(l) -> BOOLEAN]
       /\ DOMAIN latest[l] = Tasks(l)
       /\ \A k \in Tasks(l) :
            DOMAIN latest[l][k] = 0 .. layout[l][k].num - 1

TypeOK == layout \in Layouts /\ ControlOK /\ BusOK /\ DataOK /\ GhostsOK

Finished(l, k) == at[l] = k => pc[l] = "poll"

(* What a task puts into the memory was read from its own slave, in its    *)
(* own round and in the right order, although the lines share buf and a    *)
(* reply is known by its shape alone, unless the read failed, the other    *)
(* thread filled buf at the same time, or a reply to an earlier request of *)
(* the line was still owed.                                                *)
OwnInputs ==
  \A l \in Line : \A k \in Tasks(l) :
    Finished(l, k) /\ ~doubt[l][k] =>
      \A p \in DOMAIN latest[l][k] : latest[l][k][p] = <<l, k, p, round[l][k]>>

Cells(t) ==
  IF t.cmd = "bits"
  THEN {<<ByteOf(t, p), Shift(t, p)>> : p \in 0 .. t.num - 1}
  ELSE IF t.cmd = "registers"
  THEN (FirstOf(t, 0) .. FirstOf(t, t.num) - 1) \X Bit
  ELSE {}

(* The bytes a task stores into.  If its last bit fills a byte, the byte   *)
(* behind is among them, and at the end of modbus_bool that byte is the    *)
(* first of modbus_word.                                                   *)
Touched(t) ==
  IF t.cmd = "bits" THEN ByteOf(t, 0) .. ByteOf(t, t.num)
  ELSE {c[1] : c \in Cells(t)}

(* Nobody else stores into the bits of the task: on its own line, where    *)
(* tasks follow one another, nor into their bytes on another.              *)
Apart(l, k) ==
  \A m \in Line : \A j \in Tasks(m) :
    LET t == layout[l][k]  u == layout[m][j] IN
    IF m = l THEN j = k \/ Cells(t) \cap Cells(u) = {}
    ELSE {c[1] : c \in Cells(t)} \cap Touched(u) = {}

Shows(t, p, v) ==
  IF t.cmd = "bits" THEN memory[ByteOf(t, p)][Shift(t, p)] = v
  ELSE t.cmd = "registers" =>
         \A b \in Bit : memory[FirstOf(t, p)][b] = v
                         /\ memory[FirstOf(t, p) + 1][b] = v

(* A task's place in the memory keeps what the task put there last: the    *)
(* bytes that assemble_io_status reads and writes back never undo what     *)
(* another task stored, as long as nobody on another line touches the      *)
(* bytes of the place.                                                     *)
PlaceKept ==
  \A l \in Line : \A k \in Tasks(l) :
    Finished(l, k) /\ Apart(l, k) =>
      \A p \in DOMAIN latest[l][k] : Shows(layout[l][k], p, latest[l][k][p])

=============================================================================
