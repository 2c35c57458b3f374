------------------------------- MODULE Startup -------------------------------
(***************************************************************************)
(* How the RTU system process starts: main() fills io_config, lays the     *)
(* frame out (ChannelInit), and hands the layout to the I/O board over the *)
(* serial line with ModbusChannelManager::handshake: STOP, CONF and START, *)
(* each followed by a fixed sleep and one readString of whatever has been  *)
(* received by then.  main() enters the cycle whatever handshake returns.  *)
(* The process may be killed and started again at any moment, while its    *)
(* commands are still queued and the answers to them still on their way.   *)
(*                                                                         *)
(* An answer travels as a head, which names the command, and the text      *)
(* "OK", so that a read may return the first half of one.                  *)
(***************************************************************************)
EXTENDS ChannelInit

CONSTANT MaxOnLine   \* bound: a handshake starts with at most this on the line

VARIABLES
  hs,         \* "idle", the command whose answer is awaited, or "cycle"
  result,     \* what handshake returned for the layout in force, or "none"
  toBoard,    \* commands written and not yet taken by the board, in order
  toHost,     \* pieces of answers on their way to the process
  received,   \* pieces received that no readString has returned yet
  boardConf,  \* the configuration that the board accepted last
  running,    \* whether the board exchanges frames
  stale,      \* history: when handshake began, a CONF or a START, or the answer
              \* to one, of an earlier handshake was still on the line
  clean       \* history: this handshake has met no fault

wire == <<toBoard, toHost, received>>
board == <<boardConf, running>>
startupVars == <<vars, hs, result, wire, board, stale, clean>>

Commands == {"STOP", "CONF", "START"}
Pieces == Commands \cup {"OK", "ERROR"}
NoConf == << >>
Codes == [0 .. ModuleMax - 1 -> Types \cup {"UNUSED"}]

Command == [name : Commands, conf : Codes \cup {NoConf}]

StartupInit ==
  /\ Init
  /\ hs = "idle"
  /\ result = "none"
  /\ toBoard = << >>
  /\ toHost = << >>
  /\ received = << >>
  /\ boardConf = NoConf
  /\ running = FALSE
  /\ stale = FALSE
  /\ clean = FALSE

Pending(name) == \E k \in 1 .. Len(toBoard) : toBoard[k].name = name

Answered(name) ==
  \/ \E k \in 1 .. Len(toHost) : toHost[k] = name
  \/ \E k \in 1 .. Len(received) : received[k] = name

OnLine(name) == Pending(name) \/ Answered(name)

(* The three writes of send_cmd_conf() are one command.  A process that is *)
(* killed between them leaves a part of it: the board takes that, and what *)
(* the next command adds to it, for no command, as it may any (Reject).    *)
WriteCommand(name, conf) ==
  toBoard' = Append(toBoard, [name |-> name, conf |-> conf])

(* main() up to the return of init().                                      *)
Layout ==
  /\ \/ \E c \in Configs : Boot(c)
     \/ \E t \in Types : ScanModule(t)
     \/ ScanAbsent
     \/ ScanOther
     \/ FinishScan
  /\ UNCHANGED <<hs, result, wire, board, stale, clean>>

(* handshake begins: nothing is read before STOP is written.               *)
BeginHandshake ==
  /\ pc = "ready"
  /\ hs = "idle"
  /\ Len(toBoard) + Len(toHost) + Len(received) <= MaxOnLine
  /\ WriteCommand("STOP", NoConf)
  /\ hs' = "STOP"
  /\ stale' = (OnLine("CONF") \/ OnLine("START"))
  /\ clean' = (toBoard = << >> /\ toHost = << >> /\ received = << >>)
  /\ UNCHANGED <<vars, result, toHost, received, board>>

AnyAnswer(text, name) == text # << >>                         \* mutant

(* The comparison with "STOP_OK\r\n" and its like.                         *)
Answers(text, name) == text = <<name, "OK">>

LeaveText == UNCHANGED received                               \* mutant

(* readString returns all that has been received.                          *)
TakeText == received' = << >>

(* A wait ends before the command has been taken, or before its answer has *)
(* come in: the answer will be late.                                       *)
TooEarly == toBoard # << >> \/ toHost # << >>

(* The sleep after a command is over.                                      *)
ReadAnswer(name) ==
  /\ hs = name
  /\ TakeText
  /\ clean' = (clean /\ ~TooEarly)
  /\ UNCHANGED <<vars, toHost, board, stale>>

HandshakeReturns(value) ==
  /\ result' = value
  /\ hs' = "cycle"
  /\ UNCHANGED toBoard

Refused(name) ==
  /\ ReadAnswer(name)
  /\ ~Answers(received, name)
  /\ HandshakeReturns("false")

Stopped ==
  /\ ReadAnswer("STOP")
  /\ Answers(received, "STOP")
  /\ WriteCommand("CONF", module_conf)                        \* send_cmd_conf
  /\ hs' = "CONF"
  /\ UNCHANGED result

Configured ==
  /\ ReadAnswer("CONF")
  /\ Answers(received, "CONF")
  /\ WriteCommand("START", NoConf)
  /\ hs' = "START"
  /\ UNCHANGED result

Started ==
  /\ ReadAnswer("START")
  /\ Answers(received, "START")
  /\ HandshakeReturns("true")

(* reconfig(): the new layout is not handed to the board.                  *)
Relayout ==
  /\ hs = "cycle"
  /\ \E c \in Configs : Reconfig(c)
  /\ result' = "none"
  /\ UNCHANGED <<hs, wire, board, stale, clean>>

(* The process is killed.  What it wrote may still go out or not, and what *)
(* the terminal holds may still be there for the next process or not.      *)
Kill ==
  /\ Exit
  /\ hs' = "idle"
  /\ result' = "none"
  /\ toBoard' \in {toBoard, << >>}
  /\ received' \in {received, << >>}
  /\ stale' = FALSE
  /\ clean' = FALSE
  /\ UNCHANGED <<toHost, board>>

(* The board and the line; none of it matters to a process that is in      *)
(* init(), so these steps are taken before it or after it.                 *)
Outside == pc # "scan" /\ UNCHANGED <<vars, hs, result, stale>>

(* The board does what the next command asks and says so.                  *)
Obey ==
  /\ Outside
  /\ toBoard # << >>
  /\ LET cmd == Head(toBoard) IN
       /\ cmd.name = "START" => boardConf # NoConf
       /\ boardConf' = IF cmd.name = "CONF" THEN cmd.conf ELSE boardConf
       /\ running' = (cmd.name = "START" \/ (cmd.name = "CONF" /\ running))
       /\ toHost' = toHost \o <<cmd.name, "OK">>
  /\ toBoard' = Tail(toBoard)
  /\ UNCHANGED <<received, clean>>

(* A bad checksum, a board that cannot, or a command the line has garbled: *)
(* the board answers something else, or nothing.                           *)
Reject ==
  /\ Outside
  /\ toBoard # << >>
  /\ toHost' \in {toHost, Append(toHost, "ERROR")}
  /\ toBoard' = Tail(toBoard)
  /\ clean' = FALSE
  /\ UNCHANGED <<received, board>>

Receive ==
  /\ Outside
  /\ toHost # << >>
  /\ received' = Append(received, Head(toHost))
  /\ toHost' = Tail(toHost)
  /\ UNCHANGED <<toBoard, board, clean>>

LosePiece ==
  /\ Outside
  /\ toHost # << >>
  /\ toHost' = Tail(toHost)
  /\ clean' = FALSE
  /\ UNCHANGED <<toBoard, received, board>>

BoardReset ==
  /\ Outside
  /\ boardConf # NoConf
  /\ boardConf' = NoConf
  /\ running' = FALSE
  /\ clean' = FALSE
  /\ UNCHANGED wire

Board == Obey \/ Reject \/ Receive \/ LosePiece \/ BoardReset

StartupNext ==
  \/ Layout
  \/ BeginHandshake
  \/ \E name \in Commands : Refused(name)
  \/ Stopped
  \/ Configured
  \/ Started
  \/ Relayout
  \/ Kill
  \/ Board

StartupSpec == StartupInit /\ [][StartupNext]_startupVars

-----------------------------------------------------------------------------
StartupTypeOK ==
  /\ TypeOK
  /\ hs \in Commands \cup {"idle", "cycle"}
  /\ result \in {"none", "true", "false"}
  /\ toBoard \in Seq(Command)
  /\ toHost \in Seq(Pieces)
  /\ received \in Seq(Pieces)
  /\ boardConf \in Codes \cup {NoConf}
  /\ running \in BOOLEAN
  /\ stale \in BOOLEAN
  /\ clean \in BOOLEAN

(* When handshake has returned true, the board has accepted the            *)
(* configuration of this very process and has been started with it, unless *)
(* it lost its power since: no answer to an earlier process, and no half   *)
(* of an answer, is taken for the one that is awaited, as long as no CONF  *)
(* or START of an earlier handshake was still on the line when this began. *)
(* So the two cut the frame the same way, although vec comes from          *)
(* io_config and the board knows only the text of CONF:.                   *)
TrueMeansStarted ==
  (result = "true" /\ ~stale /\ boardConf # NoConf) =>
     /\ boardConf = module_conf
     /\ running
     /\ StaleSlots = {} => CutByBoard(boardConf, HostOffset, spi_transfer_len)

(* A handshake that finds the line quiet and meets no fault is not refused:*)
(* what one readString leaves behind never spoils the next comparison.     *)
CleanSucceeds == result = "false" => ~clean

=============================================================================
