---------------------------- MODULE ConsenProofs ----------------------------
(***************************************************************************)
(* The polling threads, for any number of lines, any task lists that stay  *)
(* inside the areas, and areas of any size.                                *)
(***************************************************************************)
EXTENDS Consen, TLAPS

Storing == {"load", "put", "full", "last"}

(* Where a thread has got to fits what it is doing.                        *)
PlacedAt(l) ==
  /\ pc[l] \in Packing => Task(l).cmd = "bits"
  /\ pc[l] = "store" => Task(l).cmd = "registers"
  /\ pc[l] \in {"fill", "put", "store"} => pos[l] < Task(l).num
  /\ pc[l] \in Storing => pos[l] <= Task(l).num
  /\ pc[l] = "full" => pos[l] > 0
  /\ pc[l] = "last" => pos[l] = Task(l).num

Placed == \A l \in Line : PlacedAt(l)

LEMMA TaskTyped ==
  ASSUME layout \in Layouts, NEW l \in Line, NEW k \in Tasks(l)
  PROVE  layout[l][k] \in TaskCfg /\ Inside(layout[l][k])
  <1>1. layout \in [Line -> Seq(TaskCfg)]
    BY LayoutAssumption
  <1>2. layout[l] \in Seq(TaskCfg)
    BY <1>1
  <1>3. layout[l][k] \in TaskCfg
    BY <1>2 DEF Tasks
  <1>4. Inside(layout[l][k])
    BY LayoutAssumption DEF Tasks
  <1> QED  BY <1>3, <1>4

(* What TypeOK says of a thread that is in a task.                         *)
LEMMA InTask ==
  ASSUME TypeOK, NEW l \in Line, pc[l] # "none"
  PROVE  /\ at[l] \in Tasks(l) /\ at[l] \in Nat
         /\ Task(l) = layout[l][at[l]] /\ Inside(Task(l))
         /\ Task(l).num \in 1 .. 255 /\ Task(l).offset \in Nat
         /\ Task(l).num \in Nat /\ pos[l] \in Nat
         /\ Task(l).cmd \in Cmd
         /\ pos[l] \in 0 .. 255
         /\ Len(layout[l]) \in Nat
  <1>1. at[l] \in Tasks(l) /\ at[l] \in Nat /\ pos[l] \in 0 .. 255
    BY DEF TypeOK, ControlOK
  <1>2. Task(l) = layout[l][at[l]]
    BY DEF Task
  <1>3. Task(l) \in TaskCfg /\ Inside(Task(l))
    BY <1>1, <1>2, TaskTyped DEF TypeOK
  <1>4. Task(l).num \in 1 .. 255 /\ Task(l).offset \in Nat /\ Task(l).cmd \in Cmd
    BY <1>3 DEF TaskCfg
  <1>5. layout[l] \in Seq(TaskCfg)
    BY LayoutAssumption DEF TypeOK
  <1>6. Len(layout[l]) \in Nat
    BY <1>5
  <1>7. \A n \in 0 .. 255 : n \in Nat
    OBVIOUS
  <1>8. Task(l).num \in Nat
    BY <1>4
  <1>9. pos[l] \in Nat
    BY <1>1, <1>7
  <1> QED  BY <1>1, <1>2, <1>3, <1>4, <1>6, <1>8, <1>9

LEMMA InitTyped == Init => TypeOK /\ Placed
  <1> SUFFICES ASSUME Init PROVE TypeOK /\ Placed
    OBVIOUS
  <1>1. layout \in [Line -> Seq(TaskCfg)]
    BY LayoutAssumption DEF Init
  <1>2. \A l \in Line : layout[l] # << >> => 1 \in Tasks(l)
    <2> SUFFICES ASSUME NEW l \in Line, layout[l] # << >>
                 PROVE  1 \in Tasks(l)
      OBVIOUS
    <2>1. layout[l] \in Seq(TaskCfg)
      BY <1>1
    <2> QED  BY <2>1 DEF Tasks
  <1>3. Placed
    BY DEF Init, Placed, PlacedAt, Packing, Storing
  <1>4. ControlOK
    BY <1>2 DEF Init, ControlOK
  <1>5. DataOK
    BY DEF Init, DataOK
  <1>6. GhostsOK
    BY DEF Init, GhostsOK
  <1>7. BusOK
    BY DEF Init, BusOK, Reply, Bad
  <1> QED  BY <1>3, <1>4, <1>5, <1>6, <1>7 DEF Init, TypeOK

(* A step moves one thread, and within a task or on to the next one.       *)
Moves(l) ==
  /\ UNCHANGED layout
  /\ pc' \in [Line -> {"none", "poll", "fill", "load", "put", "full", "last",
                       "store"}]
  /\ at' \in [Line -> Nat] /\ at'[l] \in Tasks(l)
  /\ pos' \in [Line -> 0 .. 255]
  /\ \A m \in Line \ {l} : pc'[m] = pc[m] /\ at'[m] = at[m] /\ pos'[m] = pos[m]

LEMMA MovesPlaced ==
  ASSUME TypeOK, Placed, NEW l \in Line, Moves(l), PlacedAt(l)'
  PROVE  ControlOK' /\ Placed'
  <1>1. \A m \in Line : Tasks(m)' = Tasks(m)
    BY DEF Moves, Tasks
  <1>2. ASSUME NEW m \in Line, m # l PROVE PlacedAt(m)'
    <2>1. Task(m)' = Task(m) /\ pc'[m] = pc[m] /\ pos'[m] = pos[m]
      BY <1>2 DEF Moves, Task
    <2> QED  BY <2>1 DEF Placed, PlacedAt
  <1>3. Placed'
    BY <1>2 DEF Placed
  <1>4. ControlOK'
    BY <1>1 DEF TypeOK, ControlOK, Moves
  <1> QED  BY <1>3, <1>4

LEMMA NextTaskMoves ==
  ASSUME TypeOK, NEW l \in Line, pc[l] # "none", NextTask(l),
         UNCHANGED <<layout, pos>>
  PROVE  Moves(l) /\ PlacedAt(l)' /\ pc'[l] = "poll"
  <1>1. at[l] \in Tasks(l) /\ at[l] \in Nat /\ Len(layout[l]) \in Nat
    BY InTask
  <1>2. IF at[l] < Len(layout[l]) THEN at[l] + 1 \in Tasks(l)
        ELSE 1 \in Tasks(l)
    BY <1>1 DEF Tasks
  <1>3. /\ at' \in [Line -> Nat] /\ at'[l] \in Tasks(l)
        /\ \A m \in Line \ {l} : at'[m] = at[m]
    BY <1>1, <1>2 DEF NextTask, TypeOK, ControlOK
  <1>4. pc'[l] = "poll" /\ PlacedAt(l)'
    BY DEF NextTask, Goto, TypeOK, ControlOK, PlacedAt, Packing, Storing
  <1>5. Moves(l)
    BY <1>3 DEF NextTask, Goto, TypeOK, ControlOK, Moves
  <1> QED  BY <1>4, <1>5

(* The control of every step. *)
LEMMA StepMoves ==
  ASSUME TypeOK, Placed, NEW l \in Line, Thread(l)
  PROVE  pc[l] # "none" /\ Moves(l) /\ PlacedAt(l)'
  <1>0. pc[l] # "none"
    BY DEF Thread, ReadBits, ReadBitsFails, ReadRegisters, NothingRead, Read,
           Fill, Load, Put, StoreFull, StoreLast, StoreRegister
  <1> SUFFICES Moves(l) /\ PlacedAt(l)'
    BY <1>0
  <1> DEFINE n == Task(l).num
             q == pos[l]
  <1>1. n \in 1 .. 255 /\ pos[l] \in 0 .. 255 /\ at[l] \in Tasks(l)
    BY <1>0, InTask
  <1>2. PlacedAt(l) /\ ControlOK
    BY DEF Placed, TypeOK
  <1> HIDE DEF n
  <1>n. /\ n \in Nat /\ n <= 255 /\ q \in Nat
        /\ q < n => q + 1 \in 0 .. 255 /\ q + 1 <= n /\ q + 1 > 0
        /\ q < n => (q + 1 < n \/ q + 1 = n)
        /\ q <= n /\ ~(q < n) => q = n
    <2>1. n \in Nat /\ n <= 255 /\ q \in Nat
      BY <1>1
    <2> HIDE DEF q
    <2> QED  BY <2>1
  <1>3. ASSUME NEW place \in {"poll", "fill", "load", "put", "full", "last", "store"},
               NEW r \in 0 .. 255, UNCHANGED <<layout, at>>,
               pc' = [pc EXCEPT ![l] = place], pos' = [pos EXCEPT ![l] = r],
               place \in Packing => Task(l).cmd = "bits",
               place = "store" => Task(l).cmd = "registers",
               place \in {"fill", "put", "store"} => r < n,
               place \in Storing => r <= n,
               place = "full" => r > 0,
               place = "last" => r = n
        PROVE  Moves(l) /\ PlacedAt(l)'
    <2>1. pc'[l] = place /\ pos'[l] = r /\ Task(l)' = Task(l)
      BY <1>2, <1>3 DEF ControlOK, Task
    <2>2. PlacedAt(l)'
      BY <1>3, <2>1 DEF PlacedAt, n
    <2>3. Moves(l)
      BY <1>1, <1>2, <1>3 DEF Moves, ControlOK
    <2> QED  BY <2>2, <2>3
  <1>4. pos = [pos EXCEPT ![l] = pos[l]] /\ pc = [pc EXCEPT ![l] = pc[l]]
    BY <1>2 DEF ControlOK
  <1>z. 0 \in 0 .. 255 /\ 0 < n /\ 0 <= n
    BY <1>1
  <1>5. CASE ReadBits(l)
    BY <1>3, <1>5, <1>z DEF ReadBits, Read, Goto, Packing, Storing
  <1>6. CASE ReadRegisters(l)
    BY <1>3, <1>6, <1>z DEF ReadRegisters, Read, Goto, Packing, Storing
  <1>7. CASE ReadBitsFails(l)
    BY <1>3, <1>7, <1>z DEF ReadBitsFails, Goto, Packing, Storing
  <1>8. CASE NothingRead(l)
    BY <1>0, <1>8, NextTaskMoves DEF NothingRead, local
  <1>9. CASE Fill(l)
    <2>1. Task(l).cmd = "bits" /\ pos[l] < n
      BY <1>2, <1>9 DEF PlacedAt, Fill, Packing, n
    <2>2. CASE pos[l] + 1 < n
      <3>1. /\ pos' = [pos EXCEPT ![l] = pos[l] + 1] /\ UNCHANGED <<layout, at>>
            /\ pc' = [pc EXCEPT ![l] = "fill"] /\ pos[l] + 1 \in 0 .. 255
        BY <1>1, <1>4, <1>9, <2>2 DEF Fill, n
      <3> QED  BY <1>3, <2>1, <2>2, <3>1 DEF Packing, Storing
    <2>3. CASE ~(pos[l] + 1 < n)
      <3>1. /\ pos' = [pos EXCEPT ![l] = 0] /\ UNCHANGED <<layout, at>>
            /\ pc' = [pc EXCEPT ![l] = "load"]
        BY <1>9, <2>3 DEF Fill, n, Goto
      <3> QED  BY <1>3, <1>z, <2>1, <3>1 DEF Packing, Storing
    <2> QED  BY <2>2, <2>3
  <1>10. CASE Load(l)
    <2>1. Task(l).cmd = "bits" /\ pos[l] <= n
      BY <1>2, <1>10 DEF PlacedAt, Load, Packing, Storing, n
    <2>2. /\ pos' = [pos EXCEPT ![l] = pos[l]] /\ UNCHANGED <<layout, at>>
          /\ pos[l] \in 0 .. 255
      BY <1>1, <1>4, <1>10 DEF Load
    <2>3. CASE pos[l] < n
      <3>1. pc' = [pc EXCEPT ![l] = "put"]
        BY <1>10, <2>3 DEF Load, n, Goto
      <3> QED  BY <1>3, <2>1, <2>2, <2>3, <3>1 DEF Packing, Storing
    <2>4. CASE ~(pos[l] < n)
      <3>1. pc' = [pc EXCEPT ![l] = "last"]
        BY <1>10, <2>4 DEF Load, n, Goto
      <3>2. pos[l] = n
        BY <1>n, <2>1, <2>4
      <3> QED  BY <1>3, <2>1, <2>2, <3>1, <3>2 DEF Packing, Storing
    <2> QED  BY <2>3, <2>4
  <1>11. CASE Put(l)
    <2>1. Task(l).cmd = "bits" /\ pos[l] < n
      BY <1>2, <1>11 DEF PlacedAt, Put, Packing, Storing, n
    <2>2. /\ pos' = [pos EXCEPT ![l] = pos[l] + 1] /\ UNCHANGED <<layout, at>>
          /\ pos[l] + 1 \in 0 .. 255 /\ pos[l] + 1 <= n /\ pos[l] + 1 > 0
      BY <1>n, <1>11, <2>1 DEF Put
    <2>3. CASE pc' = [pc EXCEPT ![l] = "full"]
      BY <1>3, <2>1, <2>2, <2>3 DEF Packing, Storing
    <2>4. CASE pc' = [pc EXCEPT ![l] = "put"] /\ pos[l] + 1 < n
      BY <1>3, <2>1, <2>2, <2>4 DEF Packing, Storing
    <2>5. CASE pc' = [pc EXCEPT ![l] = "last"] /\ pos[l] + 1 = n
      BY <1>3, <2>1, <2>2, <2>5 DEF Packing, Storing
    <2>6. pos[l] + 1 < n \/ pos[l] + 1 = n
      BY <1>n, <2>1
    <2> QED
      BY <1>11, <2>3, <2>4, <2>5, <2>6 DEF Put, n, Goto
  <1>12. CASE StoreFull(l)
    <2>1. Task(l).cmd = "bits" /\ pos[l] <= n
      BY <1>2, <1>12 DEF PlacedAt, StoreFull, Packing, Storing, n
    <2>2. /\ pos' = [pos EXCEPT ![l] = pos[l]] /\ UNCHANGED <<layout, at>>
          /\ pc' = [pc EXCEPT ![l] = "load"]
      BY <1>4, <1>12 DEF StoreFull, Goto, local
    <2>3. pos[l] \in 0 .. 255
      BY <1>1
    <2> QED  BY <1>3, <2>1, <2>2, <2>3 DEF Packing, Storing
  <1>13. CASE StoreLast(l)
    BY <1>0, <1>13, NextTaskMoves DEF StoreLast, local
  <1>14. CASE StoreRegister(l)
    <2>1. Task(l).cmd = "registers" /\ pos[l] < n
      BY <1>2, <1>14 DEF PlacedAt, StoreRegister, Packing, Storing, n
    <2>2. CASE pos[l] + 1 < n
      <3>1. /\ pos' = [pos EXCEPT ![l] = pos[l] + 1] /\ UNCHANGED <<layout, at>>
            /\ pc' = [pc EXCEPT ![l] = "store"] /\ pos[l] + 1 \in 0 .. 255
        BY <1>1, <1>4, <1>14, <2>2 DEF StoreRegister, n
      <3> QED  BY <1>3, <2>1, <2>2, <3>1 DEF Packing, Storing
    <2>3. CASE ~(pos[l] + 1 < n)
      BY <1>0, <1>14, <2>3, NextTaskMoves DEF StoreRegister, n
    <2> QED  BY <2>2, <2>3
  <1> QED
    BY <1>5, <1>6, <1>7, <1>8, <1>9, <1>10, <1>11, <1>12, <1>13, <1>14
    DEF Thread

(* Ghosts that only change within their domains.                           *)
LEMMA GhostsTyped ==
  ASSUME TypeOK, UNCHANGED layout,
         DOMAIN round' = Line, DOMAIN doubt' = Line, DOMAIN latest' = Line,
         \A m \in Line :
           /\ round'[m] \in [Tasks(m) -> 0 .. 1]
           /\ doubt'[m] \in [Tasks(m) -> BOOLEAN]
           /\ DOMAIN latest'[m] = Tasks(m)
           /\ \A k \in Tasks(m) : DOMAIN latest'[m][k] = DOMAIN latest[m][k]
  PROVE  GhostsOK'
  <1>1. \A m \in Line : Tasks(m)' = Tasks(m)
    BY DEF Tasks
  <1> QED  BY <1>1 DEF GhostsOK, TypeOK

(* What a transaction does to the replies of its line.                     *)
LEMMA IncomingTyped ==
  ASSUME TypeOK, NEW l \in Line, pc[l] # "none", NEW q \in Incoming(l)
  PROVE  q \in Seq(Reply)
  <1>1. at[l] \in Tasks(l) /\ at[l] \in Nat /\ owed[l] \in Seq(Reply)
    BY InTask DEF TypeOK, BusOK
  <1>2. round[l][at[l]] \in 0 .. 1
    BY <1>1 DEF TypeOK, GhostsOK
  <1>3. Answer(l) \in Reply /\ Bad \in Reply
    BY <1>1, <1>2 DEF Answer, Bad, Reply
  <1>4. \A a \in Reply : Append(owed[l], a) \in Seq(Reply)
    BY <1>1
  <1>5. \/ q = owed[l] \/ q = Append(owed[l], Answer(l))
        \/ q = Append(owed[l], Bad)
    BY DEF Incoming
  <1> QED  BY <1>1, <1>3, <1>4, <1>5

LEMMA TransactionTyped ==
  ASSUME TypeOK, NEW l \in Line, pc[l] # "none"
  PROVE  /\ \A q \in Incoming(l) : Accept(l, q) =>
              /\ Head(q) \in Reply /\ owed' \in [Line -> Seq(Reply)]
         /\ GiveUp(l) => owed' \in [Line -> Seq(Reply)]
  <1>1. owed \in [Line -> Seq(Reply)]
    BY DEF TypeOK, BusOK
  <1>2. ASSUME NEW q \in Incoming(l), Accept(l, q)
        PROVE  Head(q) \in Reply /\ owed' \in [Line -> Seq(Reply)]
    <2>1. q \in Seq(Reply) /\ q # << >>
      BY <1>2, IncomingTyped DEF Accept
    <2>2. Head(q) \in Reply /\ Tail(q) \in Seq(Reply)
      BY <2>1
    <2> QED  BY <1>1, <1>2, <2>2 DEF Accept
  <1>3. ASSUME GiveUp(l) PROVE owed' \in [Line -> Seq(Reply)]
    <2>0. PICK q \in Incoming(l) : \E n \in 1 .. Len(q) + 1 :
            LET rest == SubSeq(q, n, Len(q)) IN
            owed' \in {[owed EXCEPT ![l] = r] : r \in {rest, Cut(rest)}}
      BY <1>3 DEF GiveUp
    <2>1. PICK n \in 1 .. Len(q) + 1 :
            LET rest == SubSeq(q, n, Len(q)) IN
            owed' \in {[owed EXCEPT ![l] = r] : r \in {rest, Cut(rest)}}
      BY <2>0
    <2> DEFINE rest == SubSeq(q, n, Len(q))
    <2>2. rest \in Seq(Reply)
      <3>1. q \in Seq(Reply)
        BY IncomingTyped
      <3> QED  BY <3>1
    <2>3. owed' \in {[owed EXCEPT ![l] = r] : r \in {rest, Cut(rest)}}
      BY <2>1
    <2> HIDE DEF rest
    <2>4. Cut(rest) \in Seq(Reply)
      BY <2>2 DEF Cut, Bad, Reply
    <2> QED  BY <1>1, <2>2, <2>3, <2>4
  <1> QED  BY <1>2, <1>3

LEMMA StepTyped ==
  ASSUME TypeOK, Placed, NEW l \in Line, Thread(l)
  PROVE  TypeOK' /\ Placed'
  <1>1. /\ pc[l] # "none" /\ UNCHANGED layout /\ layout' \in Layouts
        /\ at[l] \in Tasks(l) /\ ControlOK' /\ Placed'
    <2>1. pc[l] # "none" /\ Moves(l) /\ PlacedAt(l)'
      BY StepMoves
    <2>2. at[l] \in Tasks(l) /\ layout \in Layouts
      BY <2>1, InTask DEF TypeOK
    <2>3. ControlOK' /\ Placed'
      BY <2>1, MovesPlaced
    <2> QED  BY <2>1, <2>2, <2>3 DEF Moves
  <1>b. BusOK'
    <2>1. BusOK
      BY DEF TypeOK
    <2>2. ASSUME UNCHANGED bus PROVE BusOK'
      BY <2>1, <2>2 DEF BusOK, bus
    <2>3. CASE ReadBits(l) \/ ReadRegisters(l)
      <3>1. PICK q \in Incoming(l) :
              Accept(l, q) /\ from' = [from EXCEPT ![l] = Head(q)]
        BY <2>3 DEF ReadBits, ReadRegisters, Read
      <3>2. Head(q) \in Reply /\ owed' \in [Line -> Seq(Reply)]
        BY <1>1, <3>1, TransactionTyped
      <3> QED  BY <2>1, <3>1, <3>2 DEF BusOK
    <2>4. CASE ReadBitsFails(l) \/ NothingRead(l)
      <3>1. UNCHANGED from
        BY <2>4 DEF ReadBitsFails, NothingRead
      <3>2. GiveUp(l) \/ \E q \in Incoming(l) : Accept(l, q)
        BY <2>4 DEF ReadBitsFails, NothingRead
      <3>3. owed' \in [Line -> Seq(Reply)]
        BY <1>1, <3>2, TransactionTyped
      <3> QED  BY <2>1, <3>1, <3>3 DEF BusOK
    <2> QED
      BY <2>2, <2>3, <2>4
      DEF Thread, Fill, Load, Put, StoreFull, StoreLast, StoreRegister
  <1> SUFFICES DataOK' /\ GhostsOK'
    BY <1>1, <1>b DEF TypeOK
  <1>2. DataOK /\ GhostsOK
    BY DEF TypeOK
  <1>3. ASSUME UNCHANGED ghosts PROVE GhostsOK'
    BY <1>1, <1>2, <1>3, GhostsTyped DEF GhostsOK, ghosts
  <1>4. ASSUME UNCHANGED <<byte, buf, memory>> PROVE DataOK'
    BY <1>2, <1>4 DEF DataOK
  <1>5. ASSUME UNCHANGED <<round, latest>>, NEW b \in BOOLEAN,
               doubt' = [doubt EXCEPT ![l][at[l]] = b]
        PROVE  GhostsOK'
    BY <1>1, <1>2, <1>5, GhostsTyped DEF GhostsOK
  <1>6. ASSUME NEW cmd, NEW place, Read(l, cmd, place)
        PROVE  DataOK' /\ GhostsOK'
    <2>1. round[l][at[l]] \in 0 .. 1 /\ 1 - round[l][at[l]] \in 0 .. 1
      BY <1>1, <1>2 DEF GhostsOK
    <2>2. DataOK'
      BY <1>4, <1>6 DEF Read
    <2>3. /\ DOMAIN round' = Line /\ DOMAIN doubt' = Line /\ UNCHANGED latest
          /\ \A m \in Line : /\ round'[m] \in [Tasks(m) -> 0 .. 1]
                             /\ doubt'[m] \in [Tasks(m) -> BOOLEAN]
      BY <1>1, <1>2, <1>6, <2>1 DEF Read, GhostsOK
    <2>4. GhostsOK'
      BY <1>1, <1>2, <2>3, GhostsTyped DEF GhostsOK
    <2> QED  BY <2>2, <2>4
  <1>7. CASE ReadBits(l) \/ ReadRegisters(l)
    BY <1>6, <1>7 DEF ReadBits, ReadRegisters
  <1>8. CASE ReadBitsFails(l)
    BY <1>4, <1>5, <1>8 DEF ReadBitsFails
  <1>9. CASE NothingRead(l)
    BY <1>3, <1>4, <1>9 DEF NothingRead, local
  <1>10. CASE Fill(l)
    <2>1. DataOK'
      BY <1>2, <1>10 DEF Fill, Stored, DataOK
    <2>2. DOMAIN doubt' = Line /\ UNCHANGED <<round, latest>>
      BY <1>10 DEF Fill
    <2>3. \A m \in Line : doubt'[m] \in [Tasks(m) -> BOOLEAN]
      BY <1>2, <1>10 DEF Fill, GhostsOK
    <2>4. GhostsOK'
      BY <1>1, <1>2, <2>2, <2>3, GhostsTyped DEF GhostsOK
    <2> QED  BY <2>1, <2>4
  <1>11. CASE Load(l)
    <2>1. /\ Task(l).offset + pos[l] <= 8 * ModbusByteLen
          /\ Task(l).offset \in Nat /\ pos[l] \in Nat
      <3>1. PlacedAt(l)
        BY DEF Placed
      <3>2. Task(l).cmd = "bits" /\ pos[l] <= Task(l).num
        BY <1>11, <3>1 DEF Load, PlacedAt, Packing, Storing
      <3>3. /\ Inside(Task(l)) /\ Task(l).num \in Nat /\ Task(l).offset \in Nat
            /\ pos[l] \in Nat
        BY <1>1, InTask
      <3> QED  BY <3>2, <3>3, SizeAssumption DEF Inside
    <2>2. ModbusByteLen \in Nat /\ ModbusWordLen \in Nat /\ ModbusWordLen > 0
      BY SizeAssumption
    <2>3. ByteOf(Task(l), pos[l]) \in Bytes
      BY <2>1, <2>2 DEF ByteOf, Bytes
    <2>4. DOMAIN Current(l) = Bit
      BY <1>2, <2>3 DEF DataOK, Current
    <2>5. DataOK'
      BY <1>2, <1>11, <2>4 DEF DataOK, Load
    <2> QED  BY <1>3, <1>11, <2>5 DEF Load
  <1>12. CASE Put(l)
    <2>1. DataOK'
      BY <1>2, <1>12 DEF DataOK, Put
    <2>2. UNCHANGED <<round, doubt>> /\ DOMAIN latest' = Line
      BY <1>2, <1>12 DEF GhostsOK, Put
    <2>3. \A m \in Line :
            /\ DOMAIN latest'[m] = Tasks(m)
            /\ \A k \in Tasks(m) : DOMAIN latest'[m][k] = DOMAIN latest[m][k]
      BY <1>2, <1>12 DEF GhostsOK, Put
    <2>4. GhostsOK'
      BY <1>1, <1>2, <2>2, <2>3, GhostsTyped DEF GhostsOK
    <2> QED  BY <2>1, <2>4
  <1>13. CASE StoreFull(l)
    <2>1. DataOK'
      BY <1>2, <1>13 DEF DataOK, StoreFull, local
    <2> QED  BY <1>3, <1>13, <2>1 DEF StoreFull
  <1>14. CASE StoreLast(l)
    <2>1. DataOK'
      BY <1>2, <1>14 DEF DataOK, StoreLast, local
    <2> QED  BY <1>3, <1>14, <2>1 DEF StoreLast
  <1>15. CASE StoreRegister(l)
    <2>1. DataOK'
      BY <1>2, <1>15 DEF DataOK, StoreRegister
    <2>2. UNCHANGED <<round, doubt>> /\ DOMAIN latest' = Line
      BY <1>2, <1>15 DEF GhostsOK, StoreRegister
    <2>3. \A m \in Line :
            /\ DOMAIN latest'[m] = Tasks(m)
            /\ \A k \in Tasks(m) : DOMAIN latest'[m][k] = DOMAIN latest[m][k]
      BY <1>2, <1>15 DEF GhostsOK, StoreRegister
    <2>4. GhostsOK'
      BY <1>1, <1>2, <2>2, <2>3, GhostsTyped DEF GhostsOK
    <2> QED  BY <2>1, <2>4
  <1> QED
    BY <1>7, <1>8, <1>9, <1>10, <1>11, <1>12, <1>13, <1>14, <1>15 DEF Thread

LEMMA StutterTyped == TypeOK /\ Placed /\ UNCHANGED vars => TypeOK' /\ Placed'
  <1> SUFFICES ASSUME TypeOK, Placed, UNCHANGED vars PROVE TypeOK' /\ Placed'
    OBVIOUS
  <1>1. \A l \in Line : Tasks(l)' = Tasks(l) /\ Task(l)' = Task(l)
    BY DEF Tasks, Task, vars
  <1>2. ControlOK'
    BY <1>1 DEF TypeOK, ControlOK, vars
  <1>3. DataOK'
    BY DEF TypeOK, DataOK, vars
  <1>4. GhostsOK'
    BY <1>1 DEF TypeOK, GhostsOK, vars
  <1>5. Placed'
    BY <1>1 DEF Placed, PlacedAt, vars
  <1>6. BusOK'
    BY DEF TypeOK, BusOK, vars, bus
  <1> QED  BY <1>2, <1>3, <1>4, <1>5, <1>6 DEF TypeOK, vars

(***************************************************************************)
(* Every variable of the polling threads keeps its type.                   *)
(***************************************************************************)
THEOREM TypeCorrect == Spec => []TypeOK
  <1>1. TypeOK /\ Placed /\ [Next]_vars => TypeOK' /\ Placed'
    BY StepTyped, StutterTyped DEF Next
  <1> QED  BY <1>1, InitTyped, PTL DEF Spec

(* As long as there is no doubt about a task, what buf and the memory hold *)
(* of it is its own as far as the task has got.                            *)
Own(l, k, p) == <<l, k, p, round[l][k]>>

OwnLatest(l, k, n) == \A p \in DOMAIN latest[l][k] : p < n => latest[l][k][p] = Own(l, k, p)

OwnBuf(l, k, n) == \A p \in Place : p < n => buf[p] = Own(l, k, p)

InProgress(l, k) ==
  /\ pc[l] \in {"fill", "store"} => from[l] = <<k, round[l][k]>>
  /\ pc[l] = "fill" => OwnBuf(l, k, pos[l])
  /\ pc[l] \in Storing => OwnBuf(l, k, Task(l).num)
  /\ pc[l] \in Storing \cup {"store"} => OwnLatest(l, k, pos[l])

SureOf(l, k) ==
  ~doubt[l][k] =>
    /\ Finished(l, k) => OwnLatest(l, k, layout[l][k].num)
    /\ at[l] = k => InProgress(l, k)

Sure == \A l \in Line : \A k \in Tasks(l) : SureOf(l, k)

(* The tasks that a step does not work on. *)
LEMMA OthersSure ==
  ASSUME TypeOK, Placed, Sure, NEW l \in Line, Thread(l),
         NEW m \in Line, NEW k \in Tasks(m), ~(m = l /\ k = at[l])
  PROVE  SureOf(m, k)'
  <1>1. pc[l] # "none" /\ Moves(l) /\ at[l] \in Tasks(l)
    BY StepMoves, InTask
  <1>2. SureOf(m, k) /\ GhostsOK /\ DataOK /\ ControlOK
    BY DEF Sure, TypeOK
  <1>f. m # l => from'[m] = from[m]
    <2>1. UNCHANGED from \/ \E v : from' = [from EXCEPT ![l] = v]
      BY DEF Thread, ReadBits, ReadBitsFails, ReadRegisters, NothingRead,
             Read, Fill, Load, Put, StoreFull, StoreLast, StoreRegister, bus
    <2> QED  BY <2>1 DEF TypeOK, BusOK
  <1>3. /\ latest'[m][k] = latest[m][k] /\ round'[m][k] = round[m][k]
        /\ doubt[m][k] => doubt'[m][k]
        /\ m # l /\ pc[m] \in Packing /\ at[m] = k /\ ~doubt'[m][k]
             => UNCHANGED buf
    <2>1. CASE Fill(l)
      BY <1>2, <2>1 DEF Fill, GhostsOK
    <2>2. CASE Put(l)
      BY <1>1, <1>2, <2>2 DEF Put, GhostsOK
    <2>3. CASE StoreRegister(l)
      BY <1>1, <1>2, <2>3 DEF StoreRegister, GhostsOK
    <2>4. CASE ReadBits(l) \/ ReadRegisters(l)
      BY <1>1, <1>2, <2>4 DEF ReadBits, ReadRegisters, Read, GhostsOK
    <2>5. CASE ReadBitsFails(l)
      BY <1>1, <1>2, <2>5 DEF ReadBitsFails, GhostsOK
    <2>6. CASE NothingRead(l) \/ Load(l) \/ StoreFull(l) \/ StoreLast(l)
      BY <2>6 DEF NothingRead, Load, StoreFull, StoreLast, ghosts
    <2> QED  BY <2>1, <2>2, <2>3, <2>4, <2>5, <2>6 DEF Thread
  <1>4. UNCHANGED layout
    BY <1>1 DEF Moves
  <1> SUFFICES ASSUME ~doubt'[m][k] PROVE SureOf(m, k)'
    BY DEF SureOf
  <1>6. ASSUME NEW n, OwnLatest(m, k, n)
        PROVE  \A p \in DOMAIN latest'[m][k] :
                 p < n => latest'[m][k][p] = <<m, k, p, round'[m][k]>>
    BY <1>3, <1>6 DEF OwnLatest, Own
  <1>7. CASE m = l
    <2>1. Finished(m, k)
      BY <1>7 DEF Finished
    <2>2. OwnLatest(m, k, layout[m][k].num)
      BY <1>2, <1>3, <2>1 DEF SureOf
    <2>3. OwnLatest(m, k, layout[m][k].num)'
      BY <1>4, <1>6, <2>2 DEF OwnLatest, Own
    <2>4. at'[m] = k => pc'[m] = "poll"
      <3>1. UNCHANGED at \/ NextTask(l)
        BY DEF Thread, ReadBits, ReadBitsFails, ReadRegisters, NothingRead,
               Read, Fill, Load, Put, StoreFull, StoreLast, StoreRegister
      <3> QED  BY <1>2, <1>7, <3>1 DEF NextTask, Goto, ControlOK
    <2>5. at'[m] = k => InProgress(m, k)'
      BY <2>4 DEF InProgress, Storing
    <2> QED  BY <2>3, <2>5 DEF SureOf
  <1>8. CASE m # l
    <2>1. /\ pc'[m] = pc[m] /\ at'[m] = at[m] /\ pos'[m] = pos[m]
          /\ Task(m)' = Task(m)
      BY <1>1, <1>8 DEF Moves, Task
    <2>2. Finished(m, k)' => OwnLatest(m, k, layout[m][k].num)'
      BY <1>2, <1>3, <1>4, <1>6, <2>1 DEF SureOf, Finished, OwnLatest, Own
    <2>3. ASSUME at'[m] = k PROVE InProgress(m, k)'
      <3>1. InProgress(m, k)
        BY <1>2, <1>3, <2>1, <2>3 DEF SureOf
      <3>2. ASSUME NEW n, OwnBuf(m, k, n), pc[m] \in Packing
            PROVE  \A p \in Place : p < n => buf'[p] = <<m, k, p, round'[m][k]>>
        BY <1>3, <1>8, <2>1, <2>3, <3>2 DEF OwnBuf, Own
      <3>3. pc'[m] = "fill" => OwnBuf(m, k, pos[m])'
        BY <2>1, <3>1, <3>2 DEF InProgress, OwnBuf, Own, Packing
      <3>4. pc'[m] \in Storing => OwnBuf(m, k, Task(m).num)'
        BY <2>1, <3>1, <3>2 DEF InProgress, OwnBuf, Own, Packing, Storing
      <3>5. pc'[m] \in Storing \cup {"store"} => OwnLatest(m, k, pos[m])'
        BY <1>6, <2>1, <3>1 DEF InProgress, OwnLatest, Own
      <3>6. pc'[m] \in {"fill", "store"} => from'[m] = <<k, round'[m][k]>>
        BY <1>3, <1>8, <1>f, <2>1, <3>1 DEF InProgress
      <3> QED  BY <3>3, <3>4, <3>5, <3>6 DEF InProgress
    <2> QED  BY <2>2, <2>3 DEF SureOf
  <1> QED  BY <1>7, <1>8

(* The task that a step works on.                                          *)
LEMMA OneSure ==
  ASSUME TypeOK, Placed, Sure, NEW l \in Line, Thread(l), TypeOK', Placed',
         NEW k \in Tasks(l), at[l] = k
  PROVE  SureOf(l, k)'
  <1>1. pc[l] # "none" /\ Moves(l) /\ Task(l) = layout[l][k]
    BY StepMoves, InTask
  <1>2. /\ SureOf(l, k) /\ GhostsOK /\ DataOK /\ ControlOK /\ PlacedAt(l)
        /\ GhostsOK' /\ ControlOK' /\ PlacedAt(l)' /\ UNCHANGED layout
    BY <1>1 DEF Sure, TypeOK, Placed, Moves
  <1>a. Task(l).num \in 1 .. 255 /\ pos[l] \in 0 .. 255
    BY <1>1, InTask
  <1>3. /\ DOMAIN latest[l][k] = 0 .. Task(l).num - 1
        /\ Task(l).num \in Nat /\ pos[l] \in Nat
    <2>1. DOMAIN latest[l][k] = 0 .. Task(l).num - 1
      BY <1>1, <1>2 DEF GhostsOK
    <2>2. Task(l).num \in Nat /\ pos[l] \in Nat
      BY <1>a
    <2> QED  BY <2>1, <2>2
  <1>4. \A p \in DOMAIN latest[l][k] : p \in Place /\ p \in Nat
    <2> TAKE p \in DOMAIN latest[l][k]
    <2>1. p \in 0 .. Task(l).num - 1
      BY <1>3
    <2>2. Task(l).num \in 1 .. 255
      BY <1>a
    <2>3. p \in 0 .. 255 /\ p \in Nat
      BY <2>1, <2>2
    <2> QED  BY <2>3 DEF Place
  <1> SUFFICES ASSUME ~doubt'[l][k]
               PROVE  /\ Finished(l, k)' => OwnLatest(l, k, layout[l][k].num)'
                      /\ at'[l] = k => InProgress(l, k)'
    BY DEF SureOf
  <1>5. ASSUME UNCHANGED <<doubt, round, buf>> PROVE
          /\ ~doubt[l][k]
          /\ Finished(l, k) => OwnLatest(l, k, layout[l][k].num)
          /\ InProgress(l, k)
          /\ \A n : OwnBuf(l, k, n) => OwnBuf(l, k, n)'
    BY <1>2, <1>5 DEF SureOf, OwnBuf, Own
  <1>6. ASSUME UNCHANGED <<latest, round>>
        PROVE  \A n : OwnLatest(l, k, n) => OwnLatest(l, k, n)'
    BY <1>6 DEF OwnLatest, Own
  <1>7. CASE ReadBits(l) \/ ReadRegisters(l)
    <2>1. /\ pc'[l] \in {"fill", "store"} /\ at'[l] = k /\ pos'[l] = 0
          /\ Task(l)' = Task(l)
      BY <1>2, <1>7 DEF ReadBits, ReadRegisters, Read, Goto, ControlOK, Task
    <2>2. ~Finished(l, k)'
      BY <2>1 DEF Finished
    <2>3. DOMAIN latest'[l][k] = 0 .. Task(l).num - 1
      BY <1>3, <1>7 DEF ReadBits, ReadRegisters, Read
    <2>4. OwnBuf(l, k, pos[l])' /\ OwnLatest(l, k, pos[l])'
      BY <2>1, <2>3, <1>3 DEF OwnBuf, OwnLatest, Place
    <2>5. from'[l] = <<k, round'[l][k]>>
      <3>1. PICK q \in Incoming(l) :
              Accept(l, q) /\ from' = [from EXCEPT ![l] = Head(q)]
        BY <1>7 DEF ReadBits, ReadRegisters, Read
      <3>2. owed[l] = << >>
        BY <1>2, <1>7 DEF ReadBits, ReadRegisters, Read, GhostsOK
      <3>3. q = <<Answer(l)>> \/ q = <<Bad>>
        BY <3>1, <3>2 DEF Incoming, Accept
      <3>4. Head(q) = Answer(l)
        BY <3>1, <3>3 DEF Accept, Fits
      <3>5. round'[l][k] = 1 - round[l][k]
        BY <1>2, <1>7 DEF ReadBits, ReadRegisters, Read, GhostsOK
      <3> QED  BY <3>1, <3>4, <3>5 DEF Answer, TypeOK, BusOK
    <2> QED  BY <2>1, <2>2, <2>4, <2>5 DEF InProgress, Storing
  <1>8. CASE ReadBitsFails(l)
    BY <1>1, <1>2, <1>8 DEF ReadBitsFails, GhostsOK
  <1>9. CASE NothingRead(l)
    <2>1. UNCHANGED <<doubt, round, buf, latest>> /\ pc'[l] = "poll" /\ pc[l] = "poll"
      BY <1>2, <1>9 DEF NothingRead, NextTask, Goto, ControlOK, ghosts
    <2>2. OwnLatest(l, k, layout[l][k].num)
      BY <1>5, <2>1 DEF Finished
    <2>3. OwnLatest(l, k, layout[l][k].num)'
      BY <1>2, <2>1, <2>2 DEF OwnLatest, Own
    <2> QED  BY <2>1, <2>3 DEF InProgress, Storing
  <1>10. CASE Fill(l)
    <2>2. ~doubt[l][k]
      <3>1. doubt'[l][k] = (doubt[l][k] \/ FALSE)
        BY <1>1, <1>10 DEF Fill
      <3> QED  BY <3>1
    <2>0. /\ from[l] = <<k, round[l][k]>>
          /\ from'[l] = <<k, round'[l][k]>>
      BY <1>2, <1>10, <2>2 DEF Fill, SureOf, InProgress, bus
    <2>1. /\ UNCHANGED <<latest, round, at>> /\ pc[l] = "fill"
          /\ buf' = [buf EXCEPT ![pos[l]] = Own(l, k, pos[l])]
          /\ pos[l] < Task(l).num /\ pos[l] \in Place /\ DOMAIN buf = Place
      <3>1. pos[l] < Task(l).num /\ pos[l] \in Place
        BY <1>2, <1>a, <1>10 DEF Fill, PlacedAt, Place
      <3> QED
        BY <1>2, <1>10, <2>0, <3>1 DEF Fill, Stored, Value, Own, DataOK
    <2>3. OwnBuf(l, k, pos[l])
      BY <1>2, <2>1, <2>2 DEF SureOf, InProgress
    <2>4. ASSUME NEW p \in Place, p < pos[l] + 1
          PROVE  buf'[p] = <<l, k, p, round'[l][k]>>
      <3>1. CASE p = pos[l]
        BY <2>1, <3>1 DEF Own
      <3>2. CASE p # pos[l]
        <4>1. p < pos[l]
          BY <1>3, <2>4, <3>2 DEF Place
        <4> QED  BY <2>1, <2>3, <3>2, <4>1 DEF OwnBuf, Own
      <3> QED  BY <3>1, <3>2
    <2>5. Task(l)' = Task(l)
      BY <1>2, <2>1 DEF Task
    <2>6. CASE pos[l] + 1 < Task(l).num
      <3>1. pos'[l] = pos[l] + 1 /\ pc'[l] = "fill"
        BY <1>2, <1>10, <2>1, <2>6 DEF Fill, ControlOK
      <3>2. OwnBuf(l, k, pos[l])'
        BY <2>4, <3>1 DEF OwnBuf, Own
      <3> QED  BY <2>0, <2>1, <3>1, <3>2 DEF InProgress, Storing, Finished
    <2>7. CASE ~(pos[l] + 1 < Task(l).num)
      <3>1. pos'[l] = 0 /\ pc'[l] = "load"
        BY <1>2, <1>10, <2>7 DEF Fill, ControlOK, Goto
      <3>2. pos[l] + 1 = Task(l).num
        BY <1>3, <2>1, <2>7
      <3>3. OwnBuf(l, k, Task(l).num)'
        BY <2>4, <2>5, <3>2 DEF OwnBuf, Own
      <3>4. DOMAIN latest'[l][k] = 0 .. Task(l).num - 1
        BY <1>3, <2>1
      <3>5. OwnLatest(l, k, pos[l])'
        BY <1>3, <3>1, <3>4 DEF OwnLatest
      <3> QED  BY <2>1, <3>1, <3>3, <3>5 DEF InProgress, Storing, Finished
    <2> QED  BY <2>6, <2>7
  <1>11. CASE Load(l) \/ StoreFull(l)
    <2>1. /\ UNCHANGED <<doubt, round, buf, latest, at, pos>>
          /\ pc[l] \in Storing /\ pc'[l] \in Storing
      BY <1>2, <1>11 DEF Load, StoreFull, Goto, ghosts, local, ControlOK, Storing
    <2>2. Task(l)' = Task(l)
      BY <1>2, <2>1 DEF Task
    <2>3. OwnBuf(l, k, Task(l).num) /\ OwnLatest(l, k, pos[l])
      BY <1>5, <2>1 DEF InProgress
    <2>4. OwnBuf(l, k, Task(l).num)' /\ OwnLatest(l, k, pos[l])'
      BY <2>1, <2>2, <2>3 DEF OwnBuf, OwnLatest, Own
    <2>5. ~Finished(l, k)' /\ pc'[l] # "fill"
      BY <2>1 DEF Finished, Storing
    <2> QED  BY <2>1, <2>4, <2>5 DEF InProgress, Storing
  <1>12. CASE Put(l)
    <2>1. /\ UNCHANGED <<doubt, round, buf, at>>
          /\ pos'[l] = pos[l] + 1 /\ pos[l] < Task(l).num
          /\ pc[l] \in Storing /\ pc'[l] \in Storing
          /\ latest' = [latest EXCEPT ![l][k][pos[l]] = buf[pos[l]]]
      BY <1>2, <1>12 DEF Put, Goto, ControlOK, Storing, PlacedAt
    <2>2. Task(l)' = Task(l)
      BY <1>2, <2>1 DEF Task
    <2>3. OwnBuf(l, k, Task(l).num) /\ OwnLatest(l, k, pos[l])
      BY <1>5, <2>1 DEF InProgress
    <2>4. OwnBuf(l, k, Task(l).num)'
      BY <2>1, <2>2, <2>3 DEF OwnBuf, Own
    <2>5. OwnLatest(l, k, pos[l])'
      <3> SUFFICES ASSUME NEW p \in DOMAIN latest'[l][k], p < pos[l] + 1
                   PROVE  latest'[l][k][p] = <<l, k, p, round'[l][k]>>
        BY <2>1 DEF OwnLatest, Own
      <3>1. p \in DOMAIN latest[l][k] /\ p \in Place /\ p \in Nat
        BY <1>1, <1>2, <1>3, <1>4, <2>1 DEF GhostsOK, Place
      <3>2. CASE p = pos[l]
        BY <1>1, <1>2, <2>1, <2>3, <3>1, <3>2 DEF GhostsOK, OwnBuf, Own
      <3>3. CASE p # pos[l]
        <4>1. p < pos[l]
          BY <1>3, <3>1, <3>3
        <4> QED
          BY <1>1, <1>2, <2>1, <2>3, <3>1, <3>3, <4>1
          DEF GhostsOK, OwnLatest, Own
      <3> QED  BY <3>2, <3>3
    <2>6. ~Finished(l, k)' /\ pc'[l] # "fill"
      BY <2>1 DEF Finished, Storing
    <2> QED  BY <2>1, <2>4, <2>5, <2>6 DEF InProgress, Storing
  <1>13. CASE StoreLast(l)
    <2>1. /\ UNCHANGED <<doubt, round, buf, latest>>
          /\ pc[l] = "last" /\ pc'[l] = "poll" /\ pos[l] = Task(l).num
      BY <1>2, <1>13 DEF StoreLast, NextTask, Goto, ghosts, ControlOK, PlacedAt
    <2>2. OwnLatest(l, k, Task(l).num)
      BY <1>5, <2>1 DEF InProgress, Storing
    <2>3. OwnLatest(l, k, layout[l][k].num)'
      BY <1>1, <1>2, <2>1, <2>2 DEF OwnLatest, Own
    <2> QED  BY <2>1, <2>3 DEF InProgress, Storing
  <1>14. CASE StoreRegister(l)
    <2>0. /\ UNCHANGED <<doubt, round, buf, from>>
          /\ pos[l] < Task(l).num /\ pc[l] = "store"
      BY <1>2, <1>14 DEF StoreRegister, PlacedAt, bus
    <2>a. from[l] = <<k, round[l][k]>> /\ from'[l] = <<k, round'[l][k]>>
      BY <1>5, <2>0 DEF InProgress
    <2>b. Value(l, pos[l]) = Own(l, k, pos[l])
      BY <2>a DEF Value, Own
    <2>1. /\ UNCHANGED <<doubt, round, buf>>
          /\ pos[l] < Task(l).num /\ pc[l] = "store"
          /\ latest' = [latest EXCEPT ![l][k][pos[l]] = Own(l, k, pos[l])]
      BY <1>14, <2>0, <2>b DEF StoreRegister
    <2>2. OwnLatest(l, k, pos[l])
      BY <1>5, <2>1 DEF InProgress
    <2>3. ASSUME NEW p \in DOMAIN latest'[l][k], p < pos[l] + 1
          PROVE  latest'[l][k][p] = <<l, k, p, round'[l][k]>>
      <3>1. p \in DOMAIN latest[l][k] /\ p \in Nat
        BY <1>1, <1>2, <1>3, <1>4, <2>1, <2>3 DEF GhostsOK, Place
      <3>2. CASE p = pos[l]
        BY <1>1, <1>2, <2>1, <3>1, <3>2 DEF GhostsOK, Own
      <3>3. CASE p # pos[l]
        <4>1. p < pos[l]
          BY <1>3, <2>3, <3>1, <3>3
        <4> QED
          BY <1>1, <1>2, <2>1, <2>2, <3>1, <3>3, <4>1
          DEF GhostsOK, OwnLatest, Own
      <3> QED  BY <3>2, <3>3
    <2>4. CASE pos[l] + 1 < Task(l).num
      <3>1. pos'[l] = pos[l] + 1 /\ pc'[l] = "store" /\ at'[l] = at[l]
        BY <1>2, <1>14, <2>1, <2>4 DEF StoreRegister, ControlOK
      <3>2. OwnLatest(l, k, pos[l])'
        BY <2>3, <3>1 DEF OwnLatest, Own
      <3> QED  BY <2>a, <3>1, <3>2 DEF InProgress, Storing, Finished
    <2>5. CASE ~(pos[l] + 1 < Task(l).num)
      <3>1. pc'[l] = "poll" /\ pos[l] + 1 = Task(l).num
        BY <1>2, <1>3, <1>14, <2>1, <2>5
        DEF StoreRegister, NextTask, Goto, ControlOK
      <3>2. OwnLatest(l, k, layout[l][k].num)'
        BY <1>1, <1>2, <2>3, <3>1 DEF OwnLatest, Own
      <3> QED  BY <3>1, <3>2 DEF InProgress, Storing
    <2> QED  BY <2>4, <2>5
  <1> QED
    BY <1>7, <1>8, <1>9, <1>10, <1>11, <1>12, <1>13, <1>14 DEF Thread

LEMMA StutterSure == Sure /\ UNCHANGED vars => Sure'
  <1> SUFFICES ASSUME Sure, UNCHANGED vars PROVE Sure'
    OBVIOUS
  <1>1. \A l \in Line : Tasks(l)' = Tasks(l) /\ Task(l)' = Task(l)
    BY DEF Tasks, Task, vars
  <1>2. ASSUME NEW l \in Line, NEW k \in Tasks(l), SureOf(l, k)
        PROVE  SureOf(l, k)'
    BY <1>1, <1>2 DEF SureOf, Finished, InProgress, OwnLatest, OwnBuf, Own,
        vars, bus
  <1> QED  BY <1>1, <1>2 DEF Sure

LEMMA SureIsOwn == TypeOK /\ Sure => OwnInputs
  <1> SUFFICES ASSUME TypeOK, Sure, NEW l \in Line, NEW k \in Tasks(l),
                      Finished(l, k), ~doubt[l][k],
                      NEW p \in DOMAIN latest[l][k]
               PROVE  latest[l][k][p] = <<l, k, p, round[l][k]>>
    BY DEF OwnInputs
  <1> DEFINE n == layout[l][k].num
  <1>1. DOMAIN latest[l][k] = 0 .. n - 1
    BY DEF TypeOK, GhostsOK
  <1>2. n \in 1 .. 255
    <2>1. layout[l][k] \in TaskCfg
      BY TaskTyped DEF TypeOK
    <2> QED  BY <2>1 DEF TaskCfg
  <1>3. OwnLatest(l, k, n)
    BY DEF Sure, SureOf
  <1> HIDE DEF n
  <1>a. p \in 0 .. n - 1
    BY <1>1
  <1>4. p < n
    BY <1>a, <1>2
  <1> QED  BY <1>3, <1>4 DEF OwnLatest, Own

(***************************************************************************)
(* What a task puts into the memory was read from its own slave, in its    *)
(* own round and in order, unless the read failed, the other thread filled *)
(* buf meanwhile, or a reply to an earlier request was owed on the line.   *)
(***************************************************************************)
THEOREM InputsAreOwn == Spec => []OwnInputs
  <1> DEFINE IInv == TypeOK /\ Placed /\ Sure
  <1>1. Init => IInv
    <2>1. Init => Sure
      BY DEF Init, Sure, SureOf
    <2> QED  BY <2>1, InitTyped
  <1>2. IInv /\ [Next]_vars => IInv'
    <2>1. ASSUME IInv, NEW l \in Line, Thread(l) PROVE IInv'
      <3>1. TypeOK' /\ Placed'
        BY <2>1, StepTyped
      <3>2. \A m \in Line : Tasks(m)' = Tasks(m)
        BY <2>1, StepMoves DEF Moves, Tasks
      <3>3. ASSUME NEW m \in Line, NEW k \in Tasks(m) PROVE SureOf(m, k)'
        BY <2>1, <3>1, OthersSure, OneSure
      <3> QED  BY <3>1, <3>2, <3>3 DEF Sure
    <2> QED  BY <2>1, StutterTyped, StutterSure DEF Next
  <1>3. IInv => OwnInputs
    BY SureIsOwn
  <1> QED  BY <1>1, <1>2, <1>3, PTL DEF Spec

-----------------------------------------------------------------------------
(* Where bit or register p of a task is.                                   *)
InPlace(t, p, a, b) ==
  IF t.cmd = "bits" THEN a = ByteOf(t, p) /\ b = Shift(t, p)
  ELSE t.cmd = "registers" /\ (a = FirstOf(t, p) \/ a = FirstOf(t, p) + 1)

(* The arithmetic of bits and bytes.                                       *)
LEMMA BitArithmetic ==
  ASSUME NEW t \in TaskCfg, NEW p \in Nat, NEW q \in Nat
  PROVE  /\ ByteOf(t, p) \in Nat /\ Shift(t, p) \in Bit
         /\ Shift(t, p) # 7 => ByteOf(t, p + 1) = ByteOf(t, p)
         /\ p # q => ByteOf(t, p) # ByteOf(t, q) \/ Shift(t, p) # Shift(t, q)
         /\ p <= q => ByteOf(t, p) <= ByteOf(t, q)
         /\ FirstOf(t, p) \in Nat
         /\ p # q => /\ FirstOf(t, p) # FirstOf(t, q)
                     /\ FirstOf(t, p) # FirstOf(t, q) + 1
                     /\ FirstOf(t, p) + 1 # FirstOf(t, q)
         /\ p < q => FirstOf(t, p) + 1 <= FirstOf(t, q) - 1
         /\ p <= q => FirstOf(t, p) <= FirstOf(t, q)
  <1> DEFINE o == t.offset
  <1>1. o \in Nat
    BY DEF TaskCfg
  <1>2. ModbusByteLen \in Nat
    BY SizeAssumption
  <1>3. /\ ByteOf(t, p) = (o + p) \div 8 /\ ByteOf(t, q) = (o + q) \div 8
        /\ ByteOf(t, p + 1) = (o + (p + 1)) \div 8
        /\ Shift(t, p) = (o + p) % 8 /\ Shift(t, q) = (o + q) % 8
        /\ FirstOf(t, p) = ModbusByteLen + 2 * (o + p)
        /\ FirstOf(t, q) = ModbusByteLen + 2 * (o + q)
    BY DEF ByteOf, Shift, FirstOf
  <1> HIDE DEF o
  <1>4. /\ (o + p) \div 8 \in Nat /\ (o + p) % 8 \in 0 .. 7
        /\ (o + p) % 8 # 7 => (o + (p + 1)) \div 8 = (o + p) \div 8
        /\ p # q => (o + p) \div 8 # (o + q) \div 8 \/ (o + p) % 8 # (o + q) % 8
        /\ p <= q => (o + p) \div 8 <= (o + q) \div 8
    BY <1>1
  <1>5. /\ FirstOf(t, p) \in Nat
        /\ p # q => /\ FirstOf(t, p) # FirstOf(t, q)
                    /\ FirstOf(t, p) # FirstOf(t, q) + 1
                    /\ FirstOf(t, p) + 1 # FirstOf(t, q)
        /\ p < q => FirstOf(t, p) + 1 <= FirstOf(t, q) - 1
        /\ p <= q => FirstOf(t, p) <= FirstOf(t, q)
    BY <1>1, <1>2, <1>3
  <1> QED  BY <1>3, <1>4, <1>5 DEF Bit

LEMMA PlaceInBytes ==
  ASSUME NEW t \in TaskCfg, Inside(t), NEW p \in 0 .. t.num - 1
  PROVE  /\ t.cmd = "bits" => ByteOf(t, p) \in Bytes /\ Shift(t, p) \in Bit
         /\ t.cmd = "registers" => FirstOf(t, p) \in Bytes /\ FirstOf(t, p) + 1 \in Bytes
  <1> DEFINE o == t.offset
             n == t.num
  <1>1. o \in Nat /\ n \in 1 .. 255 /\ p \in 0 .. n - 1
    BY DEF TaskCfg
  <1>2. ModbusByteLen \in Nat /\ ModbusWordLen \in Nat /\ ModbusWordLen > 0
    BY SizeAssumption
  <1>3. /\ ByteOf(t, p) = (o + p) \div 8 /\ Shift(t, p) = (o + p) % 8
        /\ FirstOf(t, p) = ModbusByteLen + 2 * (o + p)
    BY DEF ByteOf, Shift, FirstOf
  <1>4. /\ t.cmd = "bits" => o + n <= 8 * ModbusByteLen
        /\ t.cmd = "registers" => o + n <= ModbusWordLen
    BY DEF Inside
  <1> HIDE DEF o, n
  <1>5. ASSUME t.cmd = "bits"
        PROVE  (o + p) \div 8 \in Bytes /\ (o + p) % 8 \in Bit
    <2>1. o + p < 8 * ModbusByteLen /\ o + p \in Nat
      BY <1>1, <1>2, <1>4, <1>5
    <2>2. (o + p) \div 8 \in 0 .. ModbusByteLen - 1 /\ (o + p) % 8 \in 0 .. 7
      BY <1>2, <2>1
    <2> QED  BY <1>2, <2>2 DEF Bytes, Bit
  <1>6. ASSUME t.cmd = "registers"
        PROVE  FirstOf(t, p) \in Bytes /\ FirstOf(t, p) + 1 \in Bytes
    <2>1. o + p < ModbusWordLen /\ o + p \in Nat
      BY <1>1, <1>2, <1>4, <1>6
    <2> QED  BY <1>2, <1>3, <2>1 DEF Bytes
  <1> QED  BY <1>3, <1>5, <1>6

(* A place is among the cells of its task, and among the bytes it touches. *)
LEMMA PlaceInCells ==
  ASSUME NEW t \in TaskCfg, NEW p \in 0 .. t.num - 1, NEW a, NEW b \in Bit,
         InPlace(t, p, a, b)
  PROVE  <<a, b>> \in Cells(t) /\ a \in {c[1] : c \in Cells(t)}
  <1>1. t.num \in 1 .. 255
    BY DEF TaskCfg
  <1>2. p \in Nat
    OBVIOUS
  <1>3. <<a, b>> \in Cells(t)
    <2>1. CASE t.cmd = "bits"
      BY <2>1 DEF InPlace, Cells
    <2>2. CASE t.cmd = "registers"
      <3> DEFINE n == t.num
      <3>1. n \in Nat /\ p < n /\ 0 <= p
        BY <1>1
      <3> HIDE DEF n
      <3>2. /\ FirstOf(t, 0) <= FirstOf(t, p) /\ FirstOf(t, p) + 1 <= FirstOf(t, n) - 1
            /\ FirstOf(t, 0) \in Nat /\ FirstOf(t, p) \in Nat /\ FirstOf(t, n) \in Nat
        BY <1>2, <3>1, BitArithmetic
      <3>3. a \in FirstOf(t, 0) .. FirstOf(t, n) - 1
        BY <2>2, <3>2 DEF InPlace
      <3> QED  BY <2>2, <3>3 DEF Cells, n
    <2> QED  BY <2>1, <2>2 DEF InPlace
  <1>4. <<a, b>>[1] = a
    OBVIOUS
  <1> QED  BY <1>3, <1>4

LEMMA StoresTouch ==
  ASSUME NEW t \in TaskCfg, NEW p \in Nat
  PROVE  /\ t.cmd = "bits" /\ p <= t.num => ByteOf(t, p) \in Touched(t)
         /\ t.cmd = "registers" /\ p < t.num =>
              FirstOf(t, p) \in Touched(t) /\ FirstOf(t, p) + 1 \in Touched(t)
  <1>1. t.num \in Nat
    BY DEF TaskCfg
  <1>2. ASSUME t.cmd = "bits", p <= t.num PROVE ByteOf(t, p) \in Touched(t)
    <2>1. /\ ByteOf(t, 0) <= ByteOf(t, p) /\ ByteOf(t, p) <= ByteOf(t, t.num)
          /\ ByteOf(t, 0) \in Nat /\ ByteOf(t, p) \in Nat /\ ByteOf(t, t.num) \in Nat
      BY <1>1, <1>2, BitArithmetic
    <2> QED  BY <1>2, <2>1 DEF Touched
  <1>3. ASSUME t.cmd = "registers", p < t.num
        PROVE  FirstOf(t, p) \in Touched(t) /\ FirstOf(t, p) + 1 \in Touched(t)
    <2>1. p \in 0 .. t.num - 1 /\ 0 \in Bit
      BY <1>1, <1>3 DEF Bit
    <2>2. InPlace(t, p, FirstOf(t, p), 0) /\ InPlace(t, p, FirstOf(t, p) + 1, 0)
      BY <1>3 DEF InPlace
    <2>3. /\ FirstOf(t, p) \in {c[1] : c \in Cells(t)}
          /\ FirstOf(t, p) + 1 \in {c[1] : c \in Cells(t)}
      BY <2>1, <2>2, PlaceInCells
    <2> QED  BY <1>3, <2>3 DEF Touched
  <1> QED  BY <1>2, <1>3

(* A byte that a thread is filling shows the places in it instead of the   *)
(* memory, which for the task the thread is in may be out of date.         *)
Filling(l) == ByteOf(Task(l), IF pc[l] = "full" THEN pos[l] - 1 ELSE pos[l])

Holding(l, a) == pc[l] \in {"put", "full", "last"} /\ a = Filling(l)

KeptAt(l, k, p, a, b) ==
  /\ Holding(l, a) => byte[l][b] = latest[l][k][p]
  /\ ~(Holding(l, a) /\ at[l] = k) => memory[a][b] = latest[l][k][p]

KeptOf(l, k) ==
  Apart(l, k) =>
    \A p \in 0 .. layout[l][k].num - 1, a \in Bytes, b \in Bit :
      InPlace(layout[l][k], p, a, b) => KeptAt(l, k, p, a, b)

Kept == \A l \in Line : \A k \in Tasks(l) : KeptOf(l, k)

(* A step of another line does not touch the bytes of the place.           *)
LEMMA OtherLineKept ==
  ASSUME TypeOK, Placed, NEW l \in Line, NEW m \in Line, m # l, Thread(m),
         NEW k \in Tasks(l), Apart(l, k),
         NEW p \in 0 .. layout[l][k].num - 1, NEW a \in Bytes, NEW b \in Bit,
         InPlace(layout[l][k], p, a, b), KeptAt(l, k, p, a, b)
  PROVE  KeptAt(l, k, p, a, b)'
  <1> DEFINE u == layout[m][at[m]]
  <1>1. /\ pc[m] # "none" /\ Moves(m) /\ PlacedAt(m)
        /\ at[m] \in Tasks(m) /\ Task(m) = u /\ pos[m] \in Nat
    BY StepMoves, InTask DEF Placed
  <1>2. layout[l][k] \in TaskCfg /\ u \in TaskCfg
    BY <1>1, TaskTyped DEF TypeOK
  <1>3. a \notin Touched(u)
    <2>1. a \in {c[1] : c \in Cells(layout[l][k])}
      BY <1>2, PlaceInCells
    <2> QED  BY <1>1, <2>1 DEF Apart
  <1>4. DataOK /\ GhostsOK
    BY DEF TypeOK
  <1>5. UNCHANGED <<byte[l], latest[l], pc[l], at[l], pos[l], layout>>
    <2>1. byte'[l] = byte[l] /\ latest'[l] = latest[l]
      BY <1>4 DEF Thread, ReadBits, ReadBitsFails, ReadRegisters, NothingRead,
         Read, Fill, Load, Put, StoreFull, StoreLast, StoreRegister, DataOK,
         GhostsOK, local, ghosts
    <2> QED  BY <1>1, <2>1 DEF Moves
  <1>6. memory'[a] = memory[a]
    <2>1. CASE StoreFull(m)
      <3>1. u.cmd = "bits" /\ pos[m] - 1 <= u.num /\ pos[m] - 1 \in Nat
        <4>1. u.cmd = "bits" /\ pos[m] <= u.num /\ pos[m] > 0
          BY <1>1, <2>1 DEF StoreFull, PlacedAt, Packing, Storing
        <4>2. u.num \in Nat
          BY <1>2 DEF TaskCfg
        <4>3. pos[m] \in Nat
          BY <1>1
        <4>4. \A i, n \in Nat : i <= n /\ i > 0 => i - 1 <= n /\ i - 1 \in Nat
          OBVIOUS
        <4> QED  BY <4>1, <4>2, <4>3, <4>4, Zenon
      <3>2. ByteOf(u, pos[m] - 1) \in Touched(u)
        BY <1>2, <3>1, StoresTouch
      <3> QED  BY <1>1, <1>3, <1>4, <2>1, <3>2 DEF StoreFull, DataOK
    <2>2. CASE StoreLast(m)
      <3>1. u.cmd = "bits" /\ pos[m] <= u.num
        BY <1>1, <2>2 DEF StoreLast, PlacedAt, Packing, Storing
      <3>2. ByteOf(u, pos[m]) \in Touched(u)
        BY <1>1, <1>2, <3>1, StoresTouch
      <3> QED  BY <1>1, <1>3, <1>4, <2>2, <3>2 DEF StoreLast, DataOK
    <2>3. CASE StoreRegister(m)
      <3>1. u.cmd = "registers" /\ pos[m] < u.num
        BY <1>1, <2>3 DEF StoreRegister, PlacedAt
      <3>2. FirstOf(u, pos[m]) \in Touched(u) /\ FirstOf(u, pos[m]) + 1 \in Touched(u)
        BY <1>1, <1>2, <3>1, StoresTouch
      <3> QED  BY <1>1, <1>3, <1>4, <2>3, <3>2 DEF StoreRegister, DataOK
    <2> QED
      BY <2>1, <2>2, <2>3 DEF Thread, ReadBits, ReadBitsFails, ReadRegisters,
         NothingRead, Read, Fill, Load, Put, local
  <1>7. Holding(l, a)' = Holding(l, a)
    BY <1>5 DEF Holding, Filling, Task
  <1> QED  BY <1>5, <1>6, <1>7 DEF KeptAt

(* A step of its own line keeps the place of a task.                       *)
LEMMA OwnLineKept ==
  ASSUME TypeOK, Placed, NEW l \in Line, Thread(l),
         NEW k \in Tasks(l), Apart(l, k),
         NEW p \in 0 .. layout[l][k].num - 1, NEW a \in Bytes, NEW b \in Bit,
         InPlace(layout[l][k], p, a, b), KeptAt(l, k, p, a, b)
  PROVE  KeptAt(l, k, p, a, b)'
  <1> DEFINE u == layout[l][at[l]]
             q == pos[l]
  <1>1. /\ pc[l] # "none" /\ Moves(l) /\ PlacedAt(l)
        /\ at[l] \in Tasks(l) /\ Task(l) = u /\ q \in Nat
        /\ UNCHANGED layout
    BY StepMoves, InTask DEF Placed, Moves
  <1>2. layout[l][k] \in TaskCfg /\ u \in TaskCfg /\ p \in Nat
    BY <1>1, TaskTyped DEF TypeOK
  <1>3. DataOK /\ GhostsOK /\ ControlOK
    BY DEF TypeOK
  <1>4. at[l] # k => <<a, b>> \notin Cells(u)
    <2>1. <<a, b>> \in Cells(layout[l][k])
      BY <1>2, PlaceInCells
    <2> QED  BY <1>1, <2>1 DEF Apart
  <1>5. ASSUME pc[l] \notin {"put", "full", "last"},
               pc'[l] \notin {"put", "full", "last"}, UNCHANGED <<memory, latest>>
        PROVE  KeptAt(l, k, p, a, b)'
    BY <1>5 DEF KeptAt, Holding
  <1>6. CASE ReadBits(l) \/ ReadRegisters(l) \/ ReadBitsFails(l)
    BY <1>3, <1>5, <1>6
    DEF ReadBits, ReadRegisters, ReadBitsFails, Read, Goto, ControlOK
  <1>7. CASE NothingRead(l)
    BY <1>3, <1>5, <1>7 DEF NothingRead, NextTask, Goto, ControlOK, ghosts
  <1>8. CASE Fill(l)
    BY <1>3, <1>5, <1>8 DEF Fill, Goto, ControlOK
  <1>9. CASE Load(l)
    <2>1. /\ pc[l] = "load" /\ pc'[l] # "full" /\ UNCHANGED <<memory, latest, at, pos>>
          /\ byte'[l] = memory[ByteOf(u, q)]
      BY <1>1, <1>3, <1>9 DEF Load, Goto, ControlOK, DataOK, Current, ghosts
    <2>2. memory[a][b] = latest[l][k][p]
      BY <2>1 DEF KeptAt, Holding
    <2>3. Task(l)' = u
      BY <1>1, <2>1 DEF Task
    <2>4. Holding(l, a)' => a = ByteOf(u, q)
      BY <2>1, <2>3 DEF Holding, Filling
    <2> QED  BY <2>1, <2>2, <2>4 DEF KeptAt
  <1>10. CASE Put(l)
    <2>1. /\ pc[l] = "put" /\ UNCHANGED <<memory, at>>
          /\ pos'[l] = q + 1
          /\ byte' = [byte EXCEPT ![l][Shift(u, q)] = buf[q]]
          /\ latest' = [latest EXCEPT ![l][at[l]][q] = buf[q]]
          /\ Shift(u, q) = 7 => pc'[l] = "full"
          /\ Shift(u, q) # 7 => pc'[l] \in {"put", "last"}
      BY <1>1, <1>3, <1>10 DEF Put, Goto, ControlOK
    <2>2. u.cmd = "bits" /\ q < u.num
      BY <1>1, <2>1 DEF PlacedAt, Packing
    <2>3. Task(l)' = u
      BY <1>1, <2>1 DEF Task
    <2>4. Filling(l) = ByteOf(u, q)
      BY <1>1, <2>1 DEF Filling
    <2>5. Filling(l)' = ByteOf(u, q)
      <3>1. CASE Shift(u, q) = 7
        <4>1. pos'[l] - 1 = q
          BY <1>1, <2>1
        <4>2. pc'[l] = "full"
          BY <2>1, <3>1
        <4>3. Filling(l)' = ByteOf(u, pos'[l] - 1)
          BY <2>3, <4>2 DEF Filling
        <4> QED  BY <4>1, <4>3
      <3>2. CASE Shift(u, q) # 7
        <4>1. Filling(l)' = ByteOf(u, q + 1)
          BY <2>1, <2>3, <3>2 DEF Filling
        <4> QED  BY <1>1, <1>2, <3>2, <4>1, BitArithmetic
      <3> QED  BY <3>1, <3>2
    <2>6. /\ Holding(l, a) <=> a = ByteOf(u, q)
          /\ Holding(l, a)' <=> a = ByteOf(u, q)
      BY <2>1, <2>4, <2>5 DEF Holding
    <2>7. byte'[l][b] = IF b = Shift(u, q) THEN buf[q] ELSE byte[l][b]
      BY <1>3, <2>1 DEF DataOK
    <2>8. CASE at[l] = k /\ p = q
      <3>1. latest'[l][k][p] = buf[q]
        BY <1>1, <1>3, <2>1, <2>8 DEF GhostsOK
      <3>2. a = ByteOf(u, q) /\ b = Shift(u, q)
        BY <2>2, <2>8 DEF InPlace
      <3> QED  BY <2>1, <2>6, <2>7, <2>8, <3>1, <3>2 DEF KeptAt
    <2>9. CASE ~(at[l] = k /\ p = q)
      <3>1. latest'[l][k][p] = latest[l][k][p]
        BY <1>1, <1>3, <2>1, <2>9 DEF GhostsOK
      <3>2. ~(a = ByteOf(u, q) /\ b = Shift(u, q))
        <4>1. CASE at[l] = k
          <5>1. a = ByteOf(u, p) /\ b = Shift(u, p) /\ p # q
            BY <2>2, <2>9, <4>1 DEF InPlace
          <5> QED  BY <1>1, <1>2, <5>1, BitArithmetic
        <4>2. CASE at[l] # k
          <5>1. q \in 0 .. u.num - 1
            <6>1. u.num \in Nat
              BY <1>2 DEF TaskCfg
            <6> HIDE DEF u, q
            <6> QED  BY <1>1, <2>2, <6>1
          <5>2. <<ByteOf(u, q), Shift(u, q)>> \in Cells(u)
            BY <2>2, <5>1 DEF Cells
          <5> QED  BY <1>4, <4>2, <5>2
        <4> QED  BY <4>1, <4>2
      <3>3. a = ByteOf(u, q) => byte'[l][b] = byte[l][b]
        BY <2>7, <3>2
      <3> QED  BY <2>1, <2>6, <3>1, <3>3 DEF KeptAt
    <2> QED  BY <2>8, <2>9
  <1>11. CASE StoreFull(l) \/ StoreLast(l)
    <2>1. /\ pc[l] \in {"full", "last"} /\ pc'[l] \notin {"put", "full", "last"}
          /\ memory' = [memory EXCEPT ![Filling(l)] = byte[l]]
          /\ UNCHANGED latest
      BY <1>1, <1>3, <1>11
      DEF StoreFull, StoreLast, NextTask, Goto, ControlOK, Filling, ghosts
    <2>2. memory'[a] = IF Holding(l, a) THEN byte[l] ELSE memory[a]
      BY <1>3, <2>1 DEF DataOK, Holding
    <2> QED  BY <2>1, <2>2 DEF KeptAt, Holding
  <1>12. CASE StoreRegister(l)
    <2>1. /\ pc[l] = "store" /\ pc'[l] \notin {"put", "full", "last"}
          /\ latest' = [latest EXCEPT ![l][at[l]][q] = Value(l, q)]
          /\ memory' = [memory EXCEPT ![FirstOf(u, q)] = [c \in Bit |-> Value(l, q)],
                                      ![FirstOf(u, q) + 1] = [c \in Bit |-> Value(l, q)]]
      BY <1>1, <1>3, <1>12 DEF StoreRegister, NextTask, Goto, ControlOK
    <2>2. u.cmd = "registers" /\ q < u.num
      BY <1>1, <2>1 DEF PlacedAt
    <2>3. memory[a][b] = latest[l][k][p]
      BY <2>1 DEF KeptAt, Holding
    <2>4. memory'[a][b] = IF a = FirstOf(u, q) \/ a = FirstOf(u, q) + 1
                          THEN Value(l, q) ELSE memory[a][b]
      BY <1>3, <2>1 DEF DataOK
    <2>5. CASE at[l] = k /\ p = q
      <3>1. latest'[l][k][p] = Value(l, q)
        BY <1>1, <1>3, <2>1, <2>5 DEF GhostsOK
      <3>2. a = FirstOf(u, q) \/ a = FirstOf(u, q) + 1
        BY <2>2, <2>5 DEF InPlace
      <3> QED  BY <2>1, <2>4, <3>1, <3>2 DEF KeptAt, Holding
    <2>6. CASE ~(at[l] = k /\ p = q)
      <3>1. latest'[l][k][p] = latest[l][k][p]
        BY <1>1, <1>3, <2>1, <2>6 DEF GhostsOK
      <3>2. a # FirstOf(u, q) /\ a # FirstOf(u, q) + 1
        <4>1. CASE at[l] = k
          <5>1. (a = FirstOf(u, p) \/ a = FirstOf(u, p) + 1) /\ p # q
            BY <2>2, <2>6, <4>1 DEF InPlace
          <5>2. /\ FirstOf(u, p) # FirstOf(u, q)
                /\ FirstOf(u, p) # FirstOf(u, q) + 1
                /\ FirstOf(u, p) + 1 # FirstOf(u, q)
                /\ FirstOf(u, p) \in Nat /\ FirstOf(u, q) \in Nat
            BY <1>1, <1>2, <5>1, BitArithmetic
          <5> QED  BY <5>1, <5>2
        <4>2. CASE at[l] # k
          <5>1. q \in 0 .. u.num - 1
            <6>1. u.num \in Nat
              BY <1>2 DEF TaskCfg
            <6> HIDE DEF u, q
            <6> QED  BY <1>1, <2>2, <6>1
          <5>2. ASSUME a = FirstOf(u, q) \/ a = FirstOf(u, q) + 1
                PROVE  <<a, b>> \in Cells(u)
            <6>1. InPlace(u, q, a, b)
              BY <2>2, <5>2 DEF InPlace
            <6> QED  BY <1>2, <5>1, <6>1, PlaceInCells
          <5> QED  BY <1>4, <4>2, <5>2
        <4> QED  BY <4>1, <4>2
      <3> QED  BY <2>1, <2>3, <2>4, <3>1, <3>2 DEF KeptAt, Holding
    <2> QED  BY <2>5, <2>6
  <1> QED
    BY <1>6, <1>7, <1>8, <1>9, <1>10, <1>11, <1>12 DEF Thread

LEMMA StepKept ==
  ASSUME TypeOK, Placed, Kept, NEW m \in Line, Thread(m)
  PROVE  Kept'
  <1>1. UNCHANGED layout
    BY StepMoves DEF Moves
  <1>2. \A l \in Line : Tasks(l)' = Tasks(l)
    BY <1>1 DEF Tasks
  <1>3. ASSUME NEW l \in Line, NEW k \in Tasks(l), Apart(l, k),
               NEW p \in 0 .. layout[l][k].num - 1, NEW a \in Bytes,
               NEW b \in Bit, InPlace(layout[l][k], p, a, b)
        PROVE  KeptAt(l, k, p, a, b)'
    <2>1. KeptAt(l, k, p, a, b)
      BY <1>3 DEF Kept, KeptOf
    <2>2. CASE m = l
      BY <1>3, <2>1, <2>2, OwnLineKept
    <2>3. CASE m # l
      BY <1>3, <2>1, <2>3, OtherLineKept
    <2> QED  BY <2>2, <2>3
  <1>4. \A l \in Line : \A k \in Tasks(l) : Apart(l, k)' = Apart(l, k)
    BY <1>1, <1>2 DEF Apart
  <1>5. ASSUME NEW l \in Line, NEW k \in Tasks(l) PROVE KeptOf(l, k)'
    <2>1. CASE Apart(l, k)
      BY <1>1, <1>3, <2>1 DEF KeptOf
    <2>2. CASE ~Apart(l, k)
      BY <1>4, <2>2 DEF KeptOf
    <2> QED  BY <2>1, <2>2
  <1> QED  BY <1>2, <1>5 DEF Kept

LEMMA StutterKept == Kept /\ UNCHANGED vars => Kept'
  <1> SUFFICES ASSUME Kept, UNCHANGED vars PROVE Kept'
    OBVIOUS
  <1>1. /\ UNCHANGED <<layout, pc, at, pos, byte, memory, latest>>
        /\ \A l \in Line : Tasks(l)' = Tasks(l) /\ Task(l)' = Task(l)
    BY DEF Tasks, Task, vars
  <1>2. \A l \in Line : \A k \in Tasks(l) : Apart(l, k)' = Apart(l, k)
    BY <1>1 DEF Apart
  <1>3. ASSUME NEW l \in Line, NEW k, NEW p, NEW a, NEW b, KeptAt(l, k, p, a, b)
        PROVE  KeptAt(l, k, p, a, b)'
    BY <1>1, <1>3 DEF KeptAt, Holding, Filling
  <1>4. ASSUME NEW l \in Line, NEW k \in Tasks(l) PROVE KeptOf(l, k)'
    BY <1>1, <1>2, <1>3 DEF Kept, KeptOf
  <1> QED  BY <1>1, <1>4 DEF Kept

LEMMA KeptShows == TypeOK /\ Kept => PlaceKept
  <1> SUFFICES ASSUME TypeOK, Kept, NEW l \in Line, NEW k \in Tasks(l),
                      Finished(l, k), Apart(l, k),
                      NEW p \in DOMAIN latest[l][k]
               PROVE  Shows(layout[l][k], p, latest[l][k][p])
    BY DEF PlaceKept
  <1> DEFINE t == layout[l][k]
  <1>1. t \in TaskCfg /\ Inside(t)
    BY TaskTyped DEF TypeOK
  <1>2. p \in 0 .. t.num - 1
    BY DEF TypeOK, GhostsOK
  <1>3. ASSUME NEW a \in Bytes, NEW b \in Bit, InPlace(t, p, a, b)
        PROVE  memory[a][b] = latest[l][k][p]
    <2>1. KeptAt(l, k, p, a, b)
      BY <1>2, <1>3 DEF Kept, KeptOf
    <2>2. ~(Holding(l, a) /\ at[l] = k)
      BY DEF Finished, Holding
    <2> QED  BY <2>1, <2>2 DEF KeptAt
  <1>4. CASE t.cmd = "bits"
    <2>1. ByteOf(t, p) \in Bytes /\ Shift(t, p) \in Bit
      BY <1>1, <1>2, <1>4, PlaceInBytes
    <2>2. InPlace(t, p, ByteOf(t, p), Shift(t, p))
      BY <1>4 DEF InPlace
    <2> QED  BY <1>3, <1>4, <2>1, <2>2 DEF Shows
  <1>5. CASE t.cmd # "bits" /\ t.cmd = "registers"
    <2>1. FirstOf(t, p) \in Bytes /\ FirstOf(t, p) + 1 \in Bytes
      BY <1>1, <1>2, <1>5, PlaceInBytes
    <2>2. \A b : InPlace(t, p, FirstOf(t, p), b) /\ InPlace(t, p, FirstOf(t, p) + 1, b)
      BY <1>5 DEF InPlace
    <2> QED  BY <1>3, <1>5, <2>1, <2>2 DEF Shows
  <1>6. CASE t.cmd # "bits" /\ t.cmd # "registers"
    BY <1>6 DEF Shows
  <1> QED  BY <1>4, <1>5, <1>6

(***************************************************************************)
(* A task's place in the memory keeps what the task put there last, as     *)
(* long as nobody on another line touches its bytes: no byte that          *)
(* assemble_io_status writes back undoes what another task stored.         *)
(***************************************************************************)
THEOREM PlacesAreKept == Spec => []PlaceKept
  <1> DEFINE IInv == TypeOK /\ Placed /\ Kept
  <1>1. Init => IInv
    <2> SUFFICES ASSUME Init PROVE IInv
      OBVIOUS
    <2>1. TypeOK /\ Placed
      BY InitTyped
    <2>2. ASSUME NEW l \in Line, NEW k \in Tasks(l),
                 NEW p \in 0 .. layout[l][k].num - 1, NEW a \in Bytes, NEW b \in Bit
          PROVE  KeptAt(l, k, p, a, b)
      <3>1. /\ latest[l][k][p] = Nobody /\ memory[a][b] = Nobody
            /\ byte[l][b] = Nobody
        BY DEF Init
      <3> QED  BY <3>1 DEF KeptAt
    <2>3. Kept
      BY <2>2 DEF Kept, KeptOf
    <2> QED  BY <2>1, <2>3
  <1>2. IInv /\ [Next]_vars => IInv'
    BY StepTyped, StutterTyped, StepKept, StutterKept DEF Next
  <1>3. IInv => PlaceKept
    BY KeptShows
  <1> QED  BY <1>1, <1>2, <1>3, PTL DEF Spec

=============================================================================
