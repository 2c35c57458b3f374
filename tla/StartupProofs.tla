---------------------------- MODULE StartupProofs ----------------------------
(* A handshake that returns true has started the board with the layout of  *)
(* this process, and a handshake that meets no fault returns true.         *)
EXTENDS Startup, ChannelInitProofs, SequenceTheorems

(* The process has one place at a time. *)
Places ==
  /\ hs \in Commands => pc = "ready"
  /\ result # "none" => hs = "cycle" /\ pc = "ready"

(* The board has our configuration, or none since it lost its power. *)
Ours == boardConf \in {module_conf, NoConf}

StartedOurs == Ours /\ (boardConf # NoConf => running)

Last(name) ==
  \A k \in 1 .. Len(toBoard) : toBoard[k].name = name => k = Len(toBoard)

CarriesOurs ==
  \A k \in 1 .. Len(toBoard) :
    toBoard[k].name = "CONF" => toBoard[k].conf = module_conf

(* What may be on the line while each answer is awaited, when no CONF or   *)
(* START was left on it.  Nothing follows a CONF or a START until it is    *)
(* answered, so an answer to it means that the board has taken all.        *)
AwaitStop == hs = "STOP" => ~OnLine("CONF") /\ ~OnLine("START")

AwaitConf ==
  hs = "CONF" =>
    /\ ~OnLine("START")
    /\ Last("CONF")
    /\ CarriesOurs
    /\ Answered("CONF") => toBoard = << >> /\ Ours

AwaitStart ==
  hs = "START" =>
    /\ Ours
    /\ ~Pending("CONF")
    /\ Last("START")
    /\ Answered("START") => toBoard = << >> /\ StartedOurs

Accepted == result = "true" => toBoard = << >> /\ StartedOurs

HandInv ==
  /\ Places
  /\ ~stale => AwaitStop /\ AwaitConf /\ AwaitStart /\ Accepted

(* A handshake without a fault so far: its one command, or its one answer, *)
(* is all there is.                                                        *)
OneExchange ==
  (clean /\ hs \in Commands) =>
    \/ /\ Len(toBoard) = 1 /\ toBoard[1].name = hs
       /\ toHost = << >> /\ received = << >>
    \/ /\ toBoard = << >>
       /\ \/ received = << >> /\ toHost = <<hs, "OK">>
          \/ received = <<hs>> /\ toHost = <<"OK">>
          \/ received = <<hs, "OK">> /\ toHost = << >>

-----------------------------------------------------------------------------
(* What the process and the board do to the layout is what ChannelInit     *)
(* allows, so its invariants hold here as well.                            *)
LEMMA Projection == [StartupNext]_startupVars => [Next]_vars
  <1> SUFFICES ASSUME [StartupNext]_startupVars PROVE [Next]_vars
    OBVIOUS
  <1>1. CASE Layout
    BY <1>1 DEF Layout, Next
  <1>2. CASE Relayout
    BY <1>2 DEF Relayout, Next
  <1>3. CASE Kill
    BY <1>3 DEF Kill, Next
  <1>4. CASE BeginHandshake
    BY <1>4 DEF BeginHandshake
  <1>5. ASSUME NEW name \in Commands, ReadAnswer(name) PROVE [Next]_vars
    BY <1>5 DEF ReadAnswer
  <1>6. CASE Board
    BY <1>6 DEF Board, Obey, Reject, Receive, LosePiece, BoardReset, Outside
  <1>7. CASE UNCHANGED startupVars
    BY <1>7 DEF startupVars
  <1> QED
    BY <1>1, <1>2, <1>3, <1>4, <1>5, <1>6, <1>7
       DEF StartupNext, Refused, Stopped, Configured, Started, Commands

(* The start-up only adds the board and the line: what the process does to *)
(* its layout, under kills at any moment of a handshake and whatever the   *)
(* board answers, is the scan of ChannelInit, for which its theorems hold. *)
THEOREM StartupImplementsScan == StartupSpec => Spec
  <1>1. StartupInit => Init
    BY DEF StartupInit
  <1> QED
    BY <1>1, Projection, PTL DEF StartupSpec, Spec

LEMMA LayoutInvariants ==
  StartupSpec => [](IInv /\ Packed /\ Reported /\ BoardAgrees)
  <1>1. StartupInit => IInv /\ Packed /\ Reported
    BY InitIInv DEF StartupInit, Init, Packed, Reported
  <1>2. IInv /\ Packed /\ Reported /\ [StartupNext]_startupVars
          => IInv' /\ Packed' /\ Reported'
    BY Projection, NextIInv, NextPacked
  <1> QED
    BY <1>1, <1>2, Agreement, PTL DEF StartupSpec

-----------------------------------------------------------------------------
(* The variables of Startup always have their types.                       *)
LEMMA CommandType ==
  ASSUME StartupTypeOK, NEW name \in Commands, NEW conf \in Codes \cup {NoConf},
         WriteCommand(name, conf)
  PROVE  toBoard' \in Seq(Command)
  <1>1. [name |-> name, conf |-> conf] \in Command
    BY DEF Command
  <1> QED
    BY <1>1 DEF StartupTypeOK, WriteCommand

LEMMA BoardType ==
  ASSUME StartupTypeOK, Board
  PROVE  /\ toBoard' \in Seq(Command) /\ toHost' \in Seq(Pieces)
         /\ received' \in Seq(Pieces) /\ boardConf' \in Codes \cup {NoConf}
         /\ running' \in BOOLEAN /\ clean' \in BOOLEAN
         /\ UNCHANGED <<vars, hs, result, stale>>
  <1> USE DEF StartupTypeOK
  <1>1. CASE Obey
    <2>1. Head(toBoard) \in Command
      BY <1>1 DEF Obey
    <2>2. /\ Head(toBoard).name \in Commands
          /\ Head(toBoard).conf \in Codes \cup {NoConf}
      BY <2>1 DEF Command
    <2>3. <<Head(toBoard).name, "OK">> \in Seq(Pieces)
      BY <2>2 DEF Pieces
    <2>4. toHost' \in Seq(Pieces)
      BY <1>1, <2>3 DEF Obey
    <2>5. toBoard' \in Seq(Command)
      BY <1>1 DEF Obey
    <2> QED
      BY <1>1, <2>2, <2>4, <2>5 DEF Obey, Outside
  <1>2. CASE Reject
    <2>1. Append(toHost, "ERROR") \in Seq(Pieces)
      BY DEF Pieces
    <2>2. toHost' \in Seq(Pieces)
      BY <1>2, <2>1 DEF Reject
    <2>3. toBoard' \in Seq(Command)
      BY <1>2 DEF Reject
    <2>4. clean' \in BOOLEAN
      BY <1>2 DEF Reject
    <2> QED
      BY <1>2, <2>2, <2>3, <2>4 DEF Reject, Outside, board
  <1>3. CASE Receive
    <2>1. Head(toHost) \in Pieces
      BY <1>3 DEF Receive
    <2> QED
      BY <1>3, <2>1 DEF Receive, Outside, board
  <1>4. CASE LosePiece
    <2>1. toHost' \in Seq(Pieces)
      BY <1>4 DEF LosePiece
    <2>2. clean' \in BOOLEAN
      BY <1>4 DEF LosePiece
    <2> QED
      BY <1>4, <2>1, <2>2 DEF LosePiece, Outside, board
  <1>5. CASE BoardReset
    BY <1>5 DEF BoardReset, Outside, wire
  <1> QED
    BY <1>1, <1>2, <1>3, <1>4, <1>5 DEF Board

LEMMA NextStartupTypeOK ==
  StartupTypeOK /\ [StartupNext]_startupVars => StartupTypeOK'
  <1> SUFFICES ASSUME StartupTypeOK, [StartupNext]_startupVars
               PROVE  StartupTypeOK'
    OBVIOUS
  <1>1. TypeOK'
    BY Projection, NextTypeOK DEF StartupTypeOK
  <1>2. CASE Layout
    BY <1>1, <1>2 DEF Layout, StartupTypeOK, wire, board
  <1>3. CASE BeginHandshake
    <2>1. toBoard' \in Seq(Command)
      BY <1>3, CommandType DEF BeginHandshake, Commands
    <2> QED
      BY <1>1, <1>3, <2>1 DEF BeginHandshake, StartupTypeOK, board, Commands
  <1>4. ASSUME NEW name \in Commands, Refused(name) PROVE StartupTypeOK'
    BY <1>1, <1>4
       DEF Refused, ReadAnswer, HandshakeReturns, TakeText, StartupTypeOK, board
  <1>5. CASE Stopped
    <2>1. module_conf \in Codes
      BY DEF StartupTypeOK, TypeOK, Codes
    <2>2. toBoard' \in Seq(Command)
      BY <1>5, <2>1, CommandType DEF Stopped, Commands
    <2> QED
      BY <1>1, <1>5, <2>2
         DEF Stopped, ReadAnswer, TakeText, StartupTypeOK, board, Commands
  <1>6. CASE Configured
    <2>1. toBoard' \in Seq(Command)
      BY <1>6, CommandType DEF Configured, Commands
    <2> QED
      BY <1>1, <1>6, <2>1
         DEF Configured, ReadAnswer, TakeText, StartupTypeOK, board, Commands
  <1>7. CASE Started
    BY <1>1, <1>7
       DEF Started, ReadAnswer, HandshakeReturns, TakeText, StartupTypeOK, board
  <1>8. CASE Relayout
    BY <1>1, <1>8 DEF Relayout, StartupTypeOK, wire, board
  <1>9. CASE Kill
    <2>1. toBoard' \in Seq(Command) /\ received' \in Seq(Pieces)
      <3>1. << >> \in Seq(Command) /\ << >> \in Seq(Pieces)
        OBVIOUS
      <3>2. toBoard' = toBoard \/ toBoard' = << >>
        BY <1>9 DEF Kill
      <3>3. received' = received \/ received' = << >>
        BY <1>9 DEF Kill
      <3> QED
        BY <3>1, <3>2, <3>3 DEF StartupTypeOK
    <2>2. stale' \in BOOLEAN /\ clean' \in BOOLEAN
      BY <1>9 DEF Kill
    <2>3. /\ hs' \in Commands \cup {"idle", "cycle"}
          /\ result' \in {"none", "true", "false"}
      BY <1>9 DEF Kill
    <2>4. /\ toHost' \in Seq(Pieces) /\ boardConf' \in Codes \cup {NoConf}
          /\ running' \in BOOLEAN
      BY <1>9 DEF Kill, StartupTypeOK, board
    <2> QED
      BY <1>1, <2>1, <2>2, <2>3, <2>4 DEF StartupTypeOK
  <1>10. CASE Board
    BY <1>1, <1>10, BoardType DEF StartupTypeOK
  <1>11. CASE UNCHANGED startupVars
    BY <1>1, <1>11 DEF startupVars, StartupTypeOK, wire, board
  <1> QED
    BY <1>2, <1>3, <1>4, <1>5, <1>6, <1>7, <1>8, <1>9, <1>10, <1>11
       DEF StartupNext

(* The variables of Startup always have their types.                       *)
THEOREM StartupTypeCorrect == StartupSpec => []StartupTypeOK
  <1>1. StartupInit => StartupTypeOK
    <2> SUFFICES ASSUME StartupInit PROVE StartupTypeOK
      OBVIOUS
    <2>1. /\ toBoard \in Seq(Command) /\ toHost \in Seq(Pieces)
          /\ received \in Seq(Pieces)
      BY DEF StartupInit
    <2>2. running \in BOOLEAN /\ stale \in BOOLEAN /\ clean \in BOOLEAN
      BY DEF StartupInit
    <2>3. TypeOK
      BY InitTypeOK DEF StartupInit
    <2> QED
      BY <2>1, <2>2, <2>3 DEF StartupInit, StartupTypeOK
  <1> QED
    BY <1>1, NextStartupTypeOK, PTL DEF StartupSpec

-----------------------------------------------------------------------------
(* What writing, taking and receiving do to the line. *)
LEMMA AfterWrite ==
  ASSUME StartupTypeOK, NEW name, NEW conf, WriteCommand(name, conf)
  PROVE  /\ Len(toBoard') = Len(toBoard) + 1
         /\ toBoard'[Len(toBoard) + 1] = [name |-> name, conf |-> conf]
         /\ \A k \in 1 .. Len(toBoard) : toBoard'[k] = toBoard[k]
         /\ Len(toBoard) \in Nat
  BY DEF StartupTypeOK, WriteCommand

LEMMA AfterTake ==
  ASSUME StartupTypeOK, toBoard # << >>, toBoard' = Tail(toBoard)
  PROVE  /\ Len(toBoard') = Len(toBoard) - 1
         /\ Len(toBoard) \in Nat \ {0}
         /\ Head(toBoard) = toBoard[1]
         /\ \A k \in 1 .. Len(toBoard') : toBoard'[k] = toBoard[k + 1]
  BY DEF StartupTypeOK

LEMMA PendingAfterTake ==
  ASSUME StartupTypeOK, toBoard # << >>, toBoard' = Tail(toBoard), NEW name
  PROVE  /\ Pending(name)' => Pending(name)
         /\ Last(name) => Last(name)'
         /\ (CarriesOurs /\ UNCHANGED module_conf) => CarriesOurs'
         /\ (Last(name) /\ Head(toBoard).name = name) => toBoard' = << >>
  <1>1. /\ Len(toBoard') = Len(toBoard) - 1 /\ Len(toBoard) \in Nat \ {0}
        /\ Head(toBoard) = toBoard[1]
        /\ \A k \in 1 .. Len(toBoard') : toBoard'[k] = toBoard[k + 1]
    BY AfterTake
  <1>2. \A k \in 1 .. Len(toBoard') : k + 1 \in 1 .. Len(toBoard)
    BY <1>1
  <1>3. Pending(name)' => Pending(name)
    BY <1>1, <1>2 DEF Pending
  <1>4. Last(name) => Last(name)'
    <2>1. ASSUME Last(name), NEW k \in 1 .. Len(toBoard'), toBoard'[k].name = name
          PROVE  k = Len(toBoard')
      <3>1. k + 1 \in 1 .. Len(toBoard) /\ toBoard[k + 1].name = name
        BY <1>1, <1>2, <2>1
      <3>2. k + 1 = Len(toBoard)
        BY <2>1, <3>1 DEF Last
      <3>3. Len(toBoard') = Len(toBoard) - 1 /\ Len(toBoard) \in Nat /\ k \in Int
        BY <1>1
      <3> QED
        BY <3>2, <3>3
    <2> QED
      BY <2>1 DEF Last
  <1>5. (CarriesOurs /\ UNCHANGED module_conf) => CarriesOurs'
    BY <1>1, <1>2 DEF CarriesOurs
  <1>6. (Last(name) /\ Head(toBoard).name = name) => toBoard' = << >>
    <2> SUFFICES ASSUME Last(name), Head(toBoard).name = name
                 PROVE  toBoard' = << >>
      OBVIOUS
    <2>1. 1 \in 1 .. Len(toBoard) /\ toBoard[1].name = name
      BY <1>1
    <2>2. Len(toBoard) = 1
      BY <2>1 DEF Last
    <2> QED
      BY <1>1, <2>2 DEF StartupTypeOK
  <1> QED
    BY <1>3, <1>4, <1>5, <1>6

(* Only obeying a command puts its name on the way to the process. *)
LEMMA AnsweredByObeying ==
  ASSUME StartupTypeOK, Board, NEW name \in Commands, Answered(name)'
  PROVE  Answered(name) \/ (Obey /\ Head(toBoard).name = name)
  <1>1. CASE Obey
    <2> SUFFICES ASSUME ~Answered(name) PROVE Head(toBoard).name = name
      BY <1>1
    <2> DEFINE more == <<Head(toBoard).name, "OK">>
    <2>1. /\ toHost' = toHost \o more /\ received' = received
          /\ toHost \in Seq(Pieces)
      BY <1>1 DEF Obey, StartupTypeOK
    <2>2. PICK k \in 1 .. Len(toHost') : toHost'[k] = name
      BY <2>1 DEF Answered
    <2>3. ~(k \in 1 .. Len(toHost))
      BY <2>1, <2>2 DEF Answered
    <2>4. /\ Len(toHost') = Len(toHost) + 2
          /\ toHost'[Len(toHost) + 1] = Head(toBoard).name
          /\ toHost'[Len(toHost) + 2] = "OK"
      BY <2>1
    <2>5. k = Len(toHost) + 1 \/ k = Len(toHost) + 2
      BY <2>1, <2>2, <2>3, <2>4
    <2>6. name # "OK"
      BY DEF Commands
    <2> QED
      BY <2>2, <2>4, <2>5, <2>6
  <1>2. CASE Reject
    <2>1. /\ received' = received /\ toHost \in Seq(Pieces)
          /\ toHost' = toHost \/ toHost' = Append(toHost, "ERROR")
      BY <1>2 DEF Reject, StartupTypeOK
    <2>2. name # "ERROR"
      BY DEF Commands
    <2> QED
      BY <2>1, <2>2 DEF Answered
  <1>3. CASE Receive
    <2>1. /\ toHost \in Seq(Pieces) /\ received \in Seq(Pieces)
          /\ toHost # << >> /\ toHost' = Tail(toHost)
          /\ received' = Append(received, Head(toHost))
      BY <1>3 DEF Receive, StartupTypeOK
    <2>2. /\ \A k \in 1 .. Len(toHost') :
               k + 1 \in 1 .. Len(toHost) /\ toHost'[k] = toHost[k + 1]
          /\ Head(toHost) = toHost[1] /\ 1 \in 1 .. Len(toHost)
      BY <2>1
    <2>3. CASE \E k \in 1 .. Len(received') : received'[k] = name
      <3>1. PICK k \in 1 .. Len(received') : received'[k] = name
        BY <2>3
      <3>2. \/ k \in 1 .. Len(received) /\ received[k] = name
            \/ Head(toHost) = name
        BY <2>1, <3>1
      <3> QED
        BY <2>2, <3>2 DEF Answered
    <2>4. CASE \E k \in 1 .. Len(toHost') : toHost'[k] = name
      <3>1. PICK k \in 1 .. Len(toHost') : toHost'[k] = name
        BY <2>4
      <3>2. k + 1 \in 1 .. Len(toHost) /\ toHost[k + 1] = name
        BY <2>2, <3>1
      <3> QED
        BY <3>2 DEF Answered
    <2> QED
      BY <2>3, <2>4 DEF Answered
  <1>4. CASE LosePiece
    <2>1. /\ toHost \in Seq(Pieces) /\ received' = received
          /\ toHost # << >> /\ toHost' = Tail(toHost)
      BY <1>4 DEF LosePiece, StartupTypeOK
    <2>2. \A k \in 1 .. Len(toHost') :
            k + 1 \in 1 .. Len(toHost) /\ toHost'[k] = toHost[k + 1]
      BY <2>1
    <2>3. CASE \E k \in 1 .. Len(received') : received'[k] = name
      BY <2>1, <2>3 DEF Answered
    <2>4. CASE \E k \in 1 .. Len(toHost') : toHost'[k] = name
      <3>1. PICK k \in 1 .. Len(toHost') : toHost'[k] = name
        BY <2>4
      <3>2. k + 1 \in 1 .. Len(toHost) /\ toHost[k + 1] = name
        BY <2>2, <3>1
      <3> QED
        BY <3>2 DEF Answered
    <2> QED
      BY <2>3, <2>4 DEF Answered
  <1>5. CASE BoardReset
    BY <1>5 DEF BoardReset, wire, Answered
  <1> QED
    BY <1>1, <1>2, <1>3, <1>4, <1>5 DEF Board

-----------------------------------------------------------------------------
LEMMA NextPlaces == StartupTypeOK /\ Places /\ [StartupNext]_startupVars => Places'
  <1> SUFFICES ASSUME StartupTypeOK, Places, [StartupNext]_startupVars
               PROVE  Places'
    OBVIOUS
  <1> USE DEF Places, Commands
  <1>1. CASE Layout
    BY <1>1 DEF Layout, Boot, StartScan, ScanModule, ScanAbsent, ScanOther,
                FinishScan, Scanning, Advance
  <1>2. CASE BeginHandshake
    BY <1>2 DEF BeginHandshake, vars
  <1>3. ASSUME NEW name \in Commands, Refused(name) PROVE Places'
    BY <1>3 DEF Refused, ReadAnswer, HandshakeReturns, vars
  <1>4. CASE Stopped \/ Configured \/ Started
    BY <1>4 DEF Stopped, Configured, Started, ReadAnswer, HandshakeReturns, vars
  <1>5. CASE Relayout \/ Kill
    BY <1>5 DEF Relayout, Kill
  <1>6. CASE Board
    BY <1>6, BoardType DEF vars
  <1>7. CASE UNCHANGED startupVars
    BY <1>7 DEF startupVars, vars
  <1> QED
    BY <1>1, <1>2, <1>3, <1>4, <1>5, <1>6, <1>7 DEF StartupNext

(* The board's side keeps what is known of the line while an answer is     *)
(* awaited.                                                                *)
LEMMA BoardHandInv ==
  ASSUME StartupTypeOK, HandInv, Board, ~stale
  PROVE  AwaitStop' /\ AwaitConf' /\ AwaitStart' /\ Accepted'
  <1>1. /\ UNCHANGED <<hs, result, stale, module_conf>>
        /\ AwaitStop /\ AwaitConf /\ AwaitStart /\ Accepted
    BY BoardType DEF HandInv, vars
  <1>2. \/ Obey /\ toBoard # << >> /\ toBoard' = Tail(toBoard)
        \/ ~Obey /\ toBoard # << >> /\ toBoard' = Tail(toBoard)
                 /\ UNCHANGED <<boardConf, running>>
        \/ ~Obey /\ UNCHANGED <<toBoard, boardConf, running>>
        \/ ~Obey /\ UNCHANGED toBoard /\ boardConf' = NoConf
    BY DEF Board, Obey, Reject, Receive, LosePiece, BoardReset, wire, board
  <1>3. ASSUME NEW name \in Commands
        PROVE  /\ Pending(name)' => Pending(name)
               /\ Last(name) => Last(name)'
               /\ CarriesOurs => CarriesOurs'
               /\ toBoard = << >> => toBoard' = << >>
               /\ (Obey /\ Last(name) /\ Head(toBoard).name = name)
                    => toBoard' = << >>
    <2>1. CASE UNCHANGED toBoard
      <3>1. ~Obey
        BY <2>1, AfterTake DEF Obey
      <3> QED
        BY <1>1, <2>1, <3>1 DEF Pending, Last, CarriesOurs
    <2>2. CASE toBoard # << >> /\ toBoard' = Tail(toBoard)
      BY <1>1, <2>2, PendingAfterTake
    <2> QED
      BY <1>2, <2>1, <2>2
  <1>4. ASSUME NEW name \in Commands, Answered(name)'
        PROVE  Answered(name) \/ (Obey /\ Head(toBoard).name = name)
    BY <1>4, AnsweredByObeying
  <1>5. Obey => /\ Pending(Head(toBoard).name)
                /\ Head(toBoard) = toBoard[1] /\ 1 \in 1 .. Len(toBoard)
    BY AfterTake DEF Obey, Pending
  <1>6. /\ {"STOP", "CONF", "START"} \subseteq Commands
        /\ Head(toBoard).name = "CONF" => Head(toBoard).name # "START"
    BY DEF Commands
  <1>7. AwaitStop'
    BY <1>1, <1>3, <1>4, <1>5, <1>6 DEF AwaitStop, OnLine
  <1>8. ASSUME hs = "CONF" PROVE AwaitConf'
    <2>1. /\ ~Pending("START") /\ ~Answered("START") /\ Last("CONF") /\ CarriesOurs
          /\ Answered("CONF") => toBoard = << >> /\ Ours
      BY <1>1, <1>8 DEF AwaitConf, OnLine
    <2>2. ~OnLine("START")' /\ Last("CONF")' /\ CarriesOurs'
      BY <1>3, <1>4, <1>5, <1>6, <2>1 DEF OnLine
    <2>3. ASSUME Answered("CONF")' PROVE toBoard' = << >> /\ Ours'
      <3>1. CASE Obey /\ Head(toBoard).name = "CONF"
        <4>1. toBoard' = << >>
          BY <1>3, <1>6, <2>1, <3>1
        <4>2. boardConf' = module_conf'
          <5>1. boardConf' = Head(toBoard).conf
            BY <3>1 DEF Obey
          <5>2. Head(toBoard).conf = module_conf
            BY <1>5, <2>1, <3>1 DEF CarriesOurs
          <5> QED
            BY <1>1, <5>1, <5>2
        <4> QED
          BY <4>1, <4>2 DEF Ours
      <3>2. CASE Answered("CONF")
        <4>1. toBoard = << >> /\ Ours
          BY <2>1, <3>2
        <4>2. toBoard' = toBoard /\ (UNCHANGED boardConf \/ boardConf' = NoConf)
          BY <1>2, <1>3, <1>6, <4>1
        <4> QED
          BY <1>1, <4>1, <4>2 DEF Ours
      <3> QED
        BY <1>4, <1>6, <2>3, <3>1, <3>2
    <2> QED
      BY <1>1, <2>2, <2>3 DEF AwaitConf
  <1>9. ASSUME hs = "START" PROVE AwaitStart'
    <2>1. /\ Ours /\ ~Pending("CONF") /\ Last("START")
          /\ Answered("START") => toBoard = << >> /\ StartedOurs
      BY <1>1, <1>9 DEF AwaitStart
    <2>2. ~Pending("CONF")' /\ Last("START")'
      BY <1>3, <1>6, <2>1
    <2>3. Ours'
      <3>1. CASE Obey
        <4>1. boardConf' = boardConf
          BY <1>5, <2>1, <3>1 DEF Obey
        <4> QED
          BY <1>1, <2>1, <4>1 DEF Ours
      <3>2. CASE UNCHANGED boardConf \/ boardConf' = NoConf
        BY <1>1, <2>1, <3>2 DEF Ours
      <3> QED
        BY <1>2, <3>1, <3>2
    <2>4. ASSUME Answered("START")' PROVE toBoard' = << >> /\ StartedOurs'
      <3>1. CASE Obey /\ Head(toBoard).name = "START"
        <4>1. toBoard' = << >>
          BY <1>3, <1>6, <2>1, <3>1
        <4>2. running' = TRUE
          BY <3>1 DEF Obey
        <4> QED
          BY <2>3, <4>1, <4>2 DEF StartedOurs
      <3>2. CASE Answered("START")
        <4>1. toBoard = << >> /\ StartedOurs
          BY <2>1, <3>2
        <4>2. \/ toBoard' = toBoard /\ UNCHANGED <<boardConf, running>>
              \/ toBoard' = toBoard /\ boardConf' = NoConf
          BY <1>2, <1>3, <1>6, <4>1
        <4> QED
          BY <2>3, <4>1, <4>2 DEF StartedOurs
      <3> QED
        BY <1>4, <1>6, <2>4, <3>1, <3>2
    <2> QED
      BY <1>1, <2>2, <2>3, <2>4 DEF AwaitStart
  <1>10. ASSUME result = "true" PROVE Accepted'
    <2>1. toBoard = << >> /\ StartedOurs
      BY <1>1, <1>10 DEF Accepted
    <2>2. \/ toBoard' = toBoard /\ UNCHANGED <<boardConf, running>>
          \/ toBoard' = toBoard /\ boardConf' = NoConf
      BY <1>2, <1>3, <1>6, <2>1
    <2> QED
      BY <1>1, <2>1, <2>2 DEF Accepted, StartedOurs, Ours
  <1> QED
    BY <1>1, <1>7, <1>8, <1>9, <1>10 DEF AwaitConf, AwaitStart, Accepted

(* The process writes a command only when the line has nothing of it.      *)
LEMMA WriteHandInv ==
  ASSUME StartupTypeOK, NEW name \in Commands, NEW conf,
         WriteCommand(name, conf), NEW other \in Commands
  PROVE  /\ Pending(other)' => Pending(other) \/ other = name
         /\ ~Pending(name) => Last(name)'
         /\ (~Pending("CONF") /\ name # "CONF") => CarriesOurs'
         /\ (~Pending("CONF") /\ conf = module_conf') => CarriesOurs'
  <1>1. /\ Len(toBoard') = Len(toBoard) + 1 /\ Len(toBoard) \in Nat
        /\ toBoard'[Len(toBoard) + 1] = [name |-> name, conf |-> conf]
        /\ \A k \in 1 .. Len(toBoard) : toBoard'[k] = toBoard[k]
    BY AfterWrite
  <1>2. ASSUME NEW k \in 1 .. Len(toBoard')
        PROVE  \/ k \in 1 .. Len(toBoard) /\ toBoard'[k] = toBoard[k]
               \/ /\ k = Len(toBoard')
                  /\ toBoard'[k].name = name /\ toBoard'[k].conf = conf
    BY <1>1
  <1>3. Pending(other)' => Pending(other) \/ other = name
    BY <1>2 DEF Pending
  <1>4. ~Pending(name) => Last(name)'
    BY <1>2 DEF Pending, Last
  <1>5. (~Pending("CONF") /\ name # "CONF") => CarriesOurs'
    BY <1>2 DEF Pending, CarriesOurs
  <1>6. (~Pending("CONF") /\ conf = module_conf') => CarriesOurs'
    BY <1>2 DEF Pending, CarriesOurs
  <1> QED
    BY <1>3, <1>4, <1>5, <1>6

(* A text that has the form of an answer holds an answer. *)
LEMMA TextAnswers ==
  ASSUME NEW name \in Commands, Answers(received, name)
  PROVE  Answered(name)
  <1>1. received = <<name, "OK">>
    BY DEF Answers
  <1>2. 1 \in 1 .. Len(received) /\ received[1] = name
    BY <1>1
  <1> QED
    BY <1>2 DEF Answered

(* Nothing is left of what has been read. *)
LEMMA AfterRead ==
  ASSUME TakeText, UNCHANGED toHost, NEW name, Answered(name)'
  PROVE  Answered(name)
  <1>1. received' = << >>
    BY DEF TakeText
  <1>2. ~\E k \in 1 .. Len(received') : received'[k] = name
    BY <1>1
  <1> QED
    BY <1>2 DEF Answered

LEMMA NextHandInv ==
  StartupTypeOK /\ HandInv /\ [StartupNext]_startupVars => HandInv'
  <1> SUFFICES ASSUME StartupTypeOK, HandInv, [StartupNext]_startupVars
               PROVE  HandInv'
    OBVIOUS
  <1> DEFINE Waits == AwaitStop' /\ AwaitConf' /\ AwaitStart' /\ Accepted'
  <1>1. Places'
    BY NextPlaces DEF HandInv
  <1>2. {"STOP", "CONF", "START"} \subseteq Commands
    BY DEF Commands
  <1>3. CASE hs' \in {"idle", "cycle"} /\ result' # "true"
    BY <1>1, <1>3 DEF HandInv, AwaitStop, AwaitConf, AwaitStart, Accepted
  <1>4. CASE Layout
    <2>1. CASE pc = "ready"
      BY <1>4, <2>1 DEF Layout, Boot, ScanModule, ScanAbsent, ScanOther,
                        FinishScan, Scanning
    <2>2. CASE pc # "ready"
      <3>1. ~(hs \in Commands) /\ result = "none" /\ hs \in {"idle", "cycle"}
        BY <2>2 DEF HandInv, Places, StartupTypeOK
      <3> QED
        BY <1>3, <1>4, <3>1 DEF Layout
    <2> QED
      BY <2>1, <2>2
  <1>5. CASE BeginHandshake
    <2>1. /\ WriteCommand("STOP", NoConf) /\ hs' = "STOP" /\ UNCHANGED <<toHost, received>>
          /\ stale' = (OnLine("CONF") \/ OnLine("START"))
          /\ result' = result
      BY <1>5 DEF BeginHandshake
    <2>2. ASSUME ~stale' PROVE ~OnLine("CONF")' /\ ~OnLine("START")'
      <3>1. /\ ~Pending("CONF") /\ ~Answered("CONF")
            /\ ~Pending("START") /\ ~Answered("START")
        BY <2>1, <2>2 DEF OnLine
      <3>2. ~Pending("CONF")' /\ ~Pending("START")'
        BY <1>2, <2>1, <3>1, WriteHandInv
      <3>3. ~Answered("CONF")' /\ ~Answered("START")'
        BY <2>1, <3>1 DEF Answered
      <3> QED
        BY <3>2, <3>3 DEF OnLine
    <2>3. result' # "true"
      BY <1>1, <2>1 DEF Places
    <2> QED
      BY <1>1, <2>1, <2>2, <2>3
         DEF HandInv, AwaitStop, AwaitConf, AwaitStart, Accepted
  <1>6. ASSUME NEW name \in Commands, Refused(name) PROVE HandInv'
    BY <1>3, <1>6 DEF Refused, HandshakeReturns
  <1>7. CASE Stopped
    <2>1. /\ hs = "STOP" /\ hs' = "CONF" /\ TakeText /\ UNCHANGED toHost
          /\ WriteCommand("CONF", module_conf) /\ module_conf' = module_conf
          /\ stale' = stale
      BY <1>7 DEF Stopped, ReadAnswer, vars
    <2>2. ASSUME ~stale
          PROVE  /\ ~OnLine("START")' /\ Last("CONF")' /\ CarriesOurs'
                 /\ ~Answered("CONF")'
      <3>1. /\ ~Pending("CONF") /\ ~Answered("CONF")
            /\ ~Pending("START") /\ ~Answered("START")
        BY <2>1, <2>2 DEF HandInv, AwaitStop, OnLine
      <3>2. ~Pending("START")' /\ Last("CONF")' /\ CarriesOurs'
        BY <1>2, <2>1, <3>1, WriteHandInv
      <3>3. ~Answered("CONF")' /\ ~Answered("START")'
        BY <2>1, <3>1, AfterRead
      <3> QED
        BY <3>2, <3>3 DEF OnLine
    <2>3. result' # "true"
      BY <1>1, <2>1 DEF Places
    <2> QED
      BY <1>1, <2>1, <2>2, <2>3
         DEF HandInv, AwaitStop, AwaitConf, AwaitStart, Accepted
  <1>8. CASE Configured
    <2>1. /\ hs = "CONF" /\ hs' = "START" /\ TakeText /\ UNCHANGED toHost
          /\ WriteCommand("START", NoConf) /\ module_conf' = module_conf
          /\ stale' = stale /\ UNCHANGED boardConf
          /\ Answers(received, "CONF")
      BY <1>8 DEF Configured, ReadAnswer, vars, board
    <2>2. ASSUME ~stale
          PROVE  /\ Ours' /\ ~Pending("CONF")' /\ Last("START")'
                 /\ ~Answered("START")'
      <3>1. Answered("CONF")
        BY <1>2, <2>1, TextAnswers
      <3>2. toBoard = << >> /\ Ours /\ ~Answered("START") /\ ~Pending("START")
        BY <2>1, <2>2, <3>1 DEF HandInv, AwaitConf, OnLine
      <3>3. ~Pending("CONF")
        BY <3>2 DEF Pending
      <3>4. ~Pending("CONF")' /\ Last("START")'
        BY <1>2, <2>1, <3>2, <3>3, WriteHandInv
      <3>5. ~Answered("START")'
        BY <2>1, <3>2, AfterRead
      <3> QED
        BY <2>1, <3>2, <3>4, <3>5 DEF Ours
    <2>3. result' # "true"
      BY <1>1, <2>1 DEF Places
    <2> QED
      BY <1>1, <2>1, <2>2, <2>3
         DEF HandInv, AwaitStop, AwaitConf, AwaitStart, Accepted
  <1>9. CASE Started
    <2>1. /\ hs = "START" /\ hs' = "cycle" /\ UNCHANGED toBoard
          /\ module_conf' = module_conf /\ stale' = stale
          /\ UNCHANGED <<boardConf, running>> /\ Answers(received, "START")
      BY <1>9 DEF Started, ReadAnswer, HandshakeReturns, vars, board
    <2>2. ASSUME ~stale PROVE toBoard' = << >> /\ StartedOurs'
      <3>1. Answered("START")
        BY <1>2, <2>1, TextAnswers
      <3>2. toBoard = << >> /\ StartedOurs
        BY <2>1, <2>2, <3>1 DEF HandInv, AwaitStart
      <3> QED
        BY <2>1, <3>2 DEF StartedOurs, Ours
    <2> QED
      BY <1>1, <2>1, <2>2 DEF HandInv, AwaitStop, AwaitConf, AwaitStart, Accepted
  <1>10. CASE Relayout
    <2>1. hs' = "cycle" /\ result' = "none"
      BY <1>10 DEF Relayout
    <2> QED
      BY <1>3, <2>1
  <1>11. CASE Kill
    BY <1>3, <1>11 DEF Kill
  <1>12. CASE Board
    BY <1>1, <1>12, BoardType, BoardHandInv DEF HandInv
  <1>13. CASE UNCHANGED startupVars
    BY <1>1, <1>13
       DEF startupVars, vars, wire, board, HandInv, AwaitStop, AwaitConf,
           AwaitStart, Accepted, StartedOurs, Ours, Last, CarriesOurs, OnLine,
           Pending, Answered
  <1> QED
    BY <1>4, <1>5, <1>6, <1>7, <1>8, <1>9, <1>10, <1>11, <1>12, <1>13
       DEF StartupNext

LEMMA InitHandInv == StartupInit => HandInv
  <1> SUFFICES ASSUME StartupInit PROVE HandInv
    OBVIOUS
  <1> QED
    BY DEF StartupInit, HandInv, Places, Commands, AwaitStop, AwaitConf,
           AwaitStart, Accepted

LEMMA HandshakeInvariant == StartupSpec => [](StartupTypeOK /\ HandInv)
  <1>1. StartupInit => HandInv
    BY InitHandInv
  <1> QED
    BY <1>1, StartupTypeCorrect, NextHandInv, PTL DEF StartupSpec

(* When handshake has returned true the board runs with the configuration  *)
(* of this process, or has lost its power since, however late, lost, cut   *)
(* or refused the answers were and whatever earlier processes left on the  *)
(* line, short of a CONF or a START; and it cuts every frame where this    *)
(* process has laid its channels out.                                      *)
THEOREM TrueIsStarted == StartupSpec => []TrueMeansStarted
  <1>1. HandInv /\ BoardAgrees => TrueMeansStarted
    BY DEF HandInv, Places, Accepted, StartedOurs, Ours, BoardAgrees,
           TrueMeansStarted
  <1> QED
    BY <1>1, HandshakeInvariant, LayoutInvariants, PTL

-----------------------------------------------------------------------------
(* A handshake that meets no fault. *)
CleanInv == OneExchange /\ CleanSucceeds

LEMMA CleanRead ==
  ASSUME StartupTypeOK, OneExchange, NEW name \in Commands, ReadAnswer(name), clean'
  PROVE  /\ Answers(received, name) /\ clean
         /\ toBoard = << >> /\ toHost = << >> /\ received' = << >>
         /\ UNCHANGED toHost
  <1>1. /\ hs = name /\ clean /\ ~TooEarly /\ received' = << >>
        /\ toHost' = toHost
    BY DEF ReadAnswer, TakeText
  <1>2. toBoard = << >> /\ toHost = << >>
    BY <1>1 DEF TooEarly
  <1>3. Len(toBoard) # 1 /\ toHost # <<name, "OK">> /\ toHost # <<"OK">>
    BY <1>2
  <1>4. received = <<name, "OK">>
    BY <1>1, <1>3 DEF OneExchange
  <1> QED
    BY <1>1, <1>2, <1>4 DEF Answers

LEMMA CleanWrite ==
  ASSUME toBoard = << >>, NEW name, NEW conf, WriteCommand(name, conf)
  PROVE  Len(toBoard') = 1 /\ toBoard'[1].name = name
  <1>1. toBoard' = <<[name |-> name, conf |-> conf]>>
    BY DEF WriteCommand
  <1> QED
    BY <1>1

LEMMA AppendToOne ==
  ASSUME NEW S, NEW s \in Seq(S), NEW e \in S, Len(s) = 1
  PROVE  /\ Append(s, e) \in Seq(S) /\ Len(Append(s, e)) = 2
         /\ Append(s, e)[1] = s[1] /\ Append(s, e)[2] = e
  <1>1. Append(s, e) \in Seq(S)
    OBVIOUS
  <1>2. Len(Append(s, e)) = 2
    <2>1. Len(Append(s, e)) = Len(s) + 1
      OBVIOUS
    <2> QED
      BY <2>1
  <1>3. Append(s, e)[1] = s[1]
    OBVIOUS
  <1>4. Append(s, e)[2] = e
    BY AppendProperties
  <1> QED
    BY <1>1, <1>2, <1>3, <1>4

LEMMA TwoPieces ==
  ASSUME NEW a, NEW b
  PROVE  Append(<<a>>, b) = <<a, b>>
  <1> DEFINE S == {a, b}
             one == <<a>>
             two == <<a, b>>
  <1>1. one \in Seq(S) /\ Len(one) = 1 /\ one[1] = a /\ b \in S
    OBVIOUS
  <1>2. two \in Seq(S) /\ Len(two) = 2 /\ two[1] = a /\ two[2] = b
    OBVIOUS
  <1> HIDE DEF S, one, two
  <1>3. /\ Append(one, b) \in Seq(S) /\ Len(Append(one, b)) = Len(two)
        /\ Append(one, b)[1] = two[1] /\ Append(one, b)[2] = two[2]
    BY <1>1, <1>2, AppendToOne
  <1>4. \A k \in 1 .. Len(two) : Append(one, b)[k] = two[k]
    BY <1>2, <1>3
  <1>5. Append(one, b) = two
    BY <1>2, <1>3, <1>4, SeqEqual
  <1> QED
    BY <1>5 DEF one, two

LEMMA CleanBoard ==
  ASSUME StartupTypeOK, OneExchange, Board
  PROVE  OneExchange'
  <1> SUFFICES ASSUME clean', hs \in Commands
               PROVE  \/ /\ Len(toBoard') = 1 /\ toBoard'[1].name = hs
                         /\ toHost' = << >> /\ received' = << >>
                      \/ /\ toBoard' = << >>
                         /\ \/ received' = << >> /\ toHost' = <<hs, "OK">>
                            \/ received' = <<hs>> /\ toHost' = <<"OK">>
                            \/ received' = <<hs, "OK">> /\ toHost' = << >>
    BY BoardType DEF OneExchange
  <1>1. CASE Obey
    <2>1. /\ clean /\ toBoard # << >> /\ toBoard' = Tail(toBoard)
          /\ toHost' = toHost \o <<Head(toBoard).name, "OK">>
          /\ received' = received
      BY <1>1 DEF Obey
    <2>2. /\ Len(toBoard) = 1 /\ toBoard[1].name = hs
          /\ toHost = << >> /\ received = << >>
      BY <2>1 DEF OneExchange
    <2>3. toBoard' = << >> /\ Head(toBoard).name = hs
      <3>1. Len(toBoard') = Len(toBoard) - 1 /\ Head(toBoard) = toBoard[1]
        BY <2>1, AfterTake
      <3>2. toBoard' \in Seq(Command) /\ Len(toBoard') = 0
        BY <2>1, <2>2, <3>1 DEF StartupTypeOK
      <3> QED
        BY <2>2, <3>1, <3>2
    <2>4. toHost' = <<hs, "OK">>
      BY <2>1, <2>2, <2>3
    <2> QED
      BY <2>1, <2>2, <2>3, <2>4
  <1>2. CASE Receive
    <2>1. /\ clean /\ toHost # << >> /\ toHost' = Tail(toHost)
          /\ received' = Append(received, Head(toHost)) /\ toBoard' = toBoard
      BY <1>2 DEF Receive
    <2>2. CASE received = << >> /\ toHost = <<hs, "OK">>
      <3>1. toBoard = << >>
        BY <2>1, <2>2 DEF OneExchange
      <3>2. toHost' = <<"OK">> /\ received' = <<hs>>
        BY <2>1, <2>2
      <3> QED
        BY <2>1, <3>1, <3>2
    <2>3. CASE received = <<hs>> /\ toHost = <<"OK">>
      <3>1. toBoard = << >>
        BY <2>1, <2>3 DEF OneExchange
      <3>2. Head(toHost) = "OK"
        BY <2>3
      <3>3. received' = Append(<<hs>>, "OK")
        BY <2>1, <2>3, <3>2
      <3>4. received' = <<hs, "OK">>
        BY <3>3, TwoPieces
      <3>5. Tail(<<"OK">>) = << >>
        OBVIOUS
      <3>6. toHost' = << >>
        BY <2>1, <2>3, <3>5
      <3> QED
        BY <2>1, <3>1, <3>4, <3>6
    <2> QED
      BY <2>1, <2>2, <2>3 DEF OneExchange
  <1>3. CASE Reject \/ LosePiece \/ BoardReset
    BY <1>3 DEF Reject, LosePiece, BoardReset
  <1> QED
    BY <1>1, <1>2, <1>3 DEF Board

LEMMA NextCleanInv ==
  StartupTypeOK /\ Places /\ CleanInv /\ [StartupNext]_startupVars => CleanInv'
  <1> SUFFICES ASSUME StartupTypeOK, Places, CleanInv, [StartupNext]_startupVars
               PROVE  CleanInv'
    OBVIOUS
  <1> USE DEF CleanInv
  <1>1. {"STOP", "CONF", "START"} \subseteq Commands
        /\ "idle" \notin Commands /\ "cycle" \notin Commands
    BY DEF Commands
  <1>2. CASE Layout
    BY <1>2 DEF Layout, OneExchange, CleanSucceeds, wire
  <1>3. CASE BeginHandshake
    <2>1. /\ hs' = "STOP" /\ result' = result /\ result = "none"
          /\ WriteCommand("STOP", NoConf)
          /\ UNCHANGED <<toHost, received>>
          /\ clean' => toBoard = << >> /\ toHost = << >> /\ received = << >>
      BY <1>3 DEF BeginHandshake, Places
    <2>2. OneExchange'
      BY <2>1, CleanWrite DEF OneExchange
    <2> QED
      BY <2>1, <2>2 DEF CleanSucceeds
  <1>4. ASSUME NEW name \in Commands, Refused(name) PROVE CleanInv'
    <2>1. ~clean'
      BY <1>4, CleanRead DEF Refused
    <2> QED
      BY <2>1 DEF OneExchange, CleanSucceeds
  <1>5. CASE Stopped \/ Configured
    <2>1. PICK name \in Commands, next \in Commands,
               conf \in {module_conf, NoConf} :
            /\ ReadAnswer(name) /\ WriteCommand(next, conf)
            /\ hs' = next /\ UNCHANGED result /\ hs = name
      BY <1>1, <1>5 DEF Stopped, Configured, ReadAnswer
    <2>2. result' # "false"
      BY <2>1, <1>1 DEF Places
    <2>3. ASSUME clean' PROVE /\ Len(toBoard') = 1 /\ toBoard'[1].name = hs'
                              /\ toHost' = << >> /\ received' = << >>
      BY <2>1, <2>3, CleanRead, CleanWrite
    <2>4. OneExchange'
      BY <2>3 DEF OneExchange
    <2> QED
      BY <2>2, <2>4 DEF CleanSucceeds
  <1>6. CASE Started
    BY <1>1, <1>6 DEF Started, HandshakeReturns, OneExchange, CleanSucceeds
  <1>7. CASE Relayout
    BY <1>1, <1>7 DEF Relayout, OneExchange, CleanSucceeds, Places
  <1>8. CASE Kill
    BY <1>1, <1>8 DEF Kill, OneExchange, CleanSucceeds
  <1>9. CASE Board
    <2>1. CleanSucceeds'
      <3>1. result' = result /\ (clean' => clean)
        BY <1>9 DEF Board, Obey, Reject, Receive, LosePiece, BoardReset, Outside
      <3> QED
        BY <3>1 DEF CleanSucceeds
    <2> QED
      BY <1>9, <2>1, CleanBoard
  <1>10. CASE UNCHANGED startupVars
    BY <1>10 DEF startupVars, wire, OneExchange, CleanSucceeds
  <1> QED
    BY <1>2, <1>3, <1>4, <1>5, <1>6, <1>7, <1>8, <1>9, <1>10 DEF StartupNext

(* A handshake that begins on a quiet line and meets no fault is never     *)
(* refused: none of its three reads leaves anything for the next one.      *)
THEOREM CleanHandshakeSucceeds == StartupSpec => []CleanSucceeds
  <1>1. StartupInit => CleanInv
    BY DEF StartupInit, CleanInv, OneExchange, CleanSucceeds
  <1>2. HandInv => Places
    BY DEF HandInv
  <1>3. CleanInv => CleanSucceeds
    BY DEF CleanInv
  <1> QED
    BY <1>1, <1>2, <1>3, HandshakeInvariant, NextCleanInv, PTL DEF StartupSpec

=============================================================================
