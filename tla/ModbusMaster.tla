---------------------------- MODULE ModbusMaster ----------------------------
(***************************************************************************)
(* The master side of library/modbus (modbus.c, modbus-rtu.c) on a shared  *)
(* RS-485 line, as its callers use it: one thread sends the requests of a  *)
(* cyclic schedule, one at a time, and ignores what they return.           *)
(*                                                                         *)
(* A reply carries no transaction number.  It is matched with the request  *)
(* that is waiting by function code and quantity alone, so a reply that    *)
(* comes after its timeout may be taken for the answer to a later request, *)
(* of another slave.  The ghost "fresh" of a frame tells whether it        *)
(* answers the last request sent.                                          *)
(*                                                                         *)
(* How many bytes a read takes is computed from the bytes themselves,      *)
(* before their CRC is checked.  Of a damaged reply it may therefore take  *)
(* too few or too many.  A frame with a wrong CRC stands for a damaged     *)
(* reply and for what such a read leaves of a reply alike: bytes that end  *)
(* where the reply ended and that no read takes for a reply.               *)
(***************************************************************************)
EXTENDS Naturals, Sequences

CONSTANTS
  Schedule,   \* the requests, [slave, fc, nb, dest], sent round and round
  Recoveries, \* what the callers may choose as error_recovery
  Faults,     \* what may go wrong
  Budget      \* how often

FaultKind == {"lose",        \* a request or its reply is lost
              "corrupt",     \* a reply arrives with a wrong CRC
              "misframe",    \* ... and a read does not end where it ends
              "exception",   \* the slave answers with an exception
              "late",        \* a reply takes longer than response_timeout
              "overdue",     \* ... and longer than the sleep of a recovery
              "write",       \* write() of the device fails
              "read"}        \* read() of the device fails

Request == [slave : Nat, fc : Nat, nb : Nat, dest : Nat]

ASSUME ScheduleAssumption == Schedule \in Seq(Request) /\ Schedule # << >>
ASSUME FaultAssumption ==
  Recoveries \subseteq SUBSET {"LINK", "PROTOCOL"}
    /\ Faults \subseteq FaultKind /\ Budget \in Nat

VARIABLES
  error_recovery, \* how much the library repairs, set before the first request
  step,      \* the request of the schedule that is next or under way
  phase,     \* "idle", "wait" for a reply, or "sleep" before a flush
  resend,    \* the request is sent again after the flush
  line,      \* replies on their way, oldest first
  rx,        \* replies in the receive buffer of the device
  answer,    \* the reply the last transaction accepted, << >> or a singleton
  dest,      \* the caller's buffers: the slave whose data they hold, or 0
  budget,
  orderly    \* ghost: no reply, and no part of one, was left to come or in
             \* the buffer when the request it answers was given up

vars == <<error_recovery, step, phase, resend, line, rx, answer, dest, budget,
          orderly>>

Steps == 1 .. Len(Schedule)
Dests == {Schedule[i].dest : i \in Steps}
req   == Schedule[step]

Frame == [slave : Nat, fc : Nat, nb : Nat, kind : {"data", "exception"},
          crc_ok : BOOLEAN, fresh : BOOLEAN]

Init ==
  /\ error_recovery \in Recoveries
  /\ step = 1 /\ phase = "idle" /\ resend = FALSE
  /\ line = << >> /\ rx = << >> /\ answer = << >>
  /\ dest = [d \in Dests |-> 0]
  /\ budget = Budget /\ orderly = TRUE

(* Nothing goes wrong, or f does.  A reply that is late is outwaited by    *)
(* the sleep of link recovery alone; one that is overdue, or whose read    *)
(* fails, comes when nobody expects it any more, and so do the bytes that  *)
(* a read of a damaged reply leaves behind.                                *)
Fine == UNCHANGED <<budget, orderly>>

Unexpected(f) ==
  \/ f \in {"misframe", "overdue", "read"}
  \/ f = "late" /\ "LINK" \notin error_recovery

Suffer(f) ==
  /\ f \in Faults /\ budget > 0
  /\ budget' = budget - 1
  /\ orderly' = (orderly /\ ~Unexpected(f))

NextStepPast == step + 1                                           \* mutant

NextStep == IF step = Len(Schedule) THEN 1 ELSE step + 1

(* The frames of earlier requests are stale from now on. *)
Age(q) == [i \in 1 .. Len(q) |-> [q[i] EXCEPT !.fresh = FALSE]]

(* What a read leaves that ends within the first frame of q.               *)
Cut(q) == [i \in 1 .. Len(q) |-> [q[i] EXCEPT !.crc_ok = @ /\ i # 1]]

Damaged(q) == q # << >> /\ ~Head(q).crc_ok

Reply(kind, crc_ok) ==
  [slave |-> req.slave, fc |-> req.fc, nb |-> req.nb, kind |-> kind,
   crc_ok |-> crc_ok, fresh |-> TRUE]

(* send_msg: the slave will answer, unless something is lost. *)
Send ==
  /\ phase = "idle"
  /\ phase' = "wait"
  /\ answer' = << >>
  /\ rx' = Age(rx)
  /\ \/ line' = Append(Age(line), Reply("data", TRUE)) /\ Fine
     \/ Suffer("lose") /\ line' = Age(line)
     \/ Suffer("corrupt") /\ line' = Append(Age(line), Reply("data", FALSE))
     \/ Suffer("exception")
          /\ line' = Append(Age(line), Reply("exception", TRUE))
  /\ UNCHANGED <<error_recovery, step, resend, dest>>

(* The transaction returns an error, in link recovery after a close and a  *)
(* connect that empty the receive buffer.                                  *)
Fail ==
  /\ step' = NextStep /\ phase' = "idle"
  /\ answer' = << >>
  /\ UNCHANGED <<resend, dest>>

(* The write fails: link recovery retries it until it succeeds, after a    *)
(* sleep and a flush or after a new connection.                            *)
SendFails ==
  /\ phase = "idle" /\ Suffer("write")
  /\ IF "LINK" \in error_recovery
     THEN \/ phase' = "sleep" /\ resend' = TRUE
               /\ UNCHANGED <<step, rx, answer, dest>>
          \/ rx' = << >> /\ UNCHANGED <<step, phase, resend, answer, dest>>
     ELSE Fail /\ UNCHANGED rx
  /\ UNCHANGED <<error_recovery, line>>

Arrive ==
  /\ line # << >>
  /\ rx' = Append(rx, Head(line)) /\ line' = Tail(line)
  /\ UNCHANGED <<error_recovery, step, phase, resend, answer, dest>> /\ Fine

(* The number of values check_confirmation compares: bytes of bits, or     *)
(* registers, or coils and registers written; of other functions, nothing. *)
Quantity(fc, nb) ==
  IF fc \in {1, 2} THEN (nb + 7) \div 8
  ELSE IF fc \in {3, 4, 15, 16, 23} THEN nb
  ELSE 1

Matches(f) ==
  /\ f.kind = "data"
  /\ f.fc = req.fc
  /\ Quantity(f.fc, f.nb) = Quantity(req.fc, req.nb)

(* _sleep_and_flush, and then an error.                                    *)
SleepAndFail ==
  /\ phase' = "sleep"
  /\ answer' = << >>
  /\ UNCHANGED <<step, resend, dest>>

AcceptAdvancing(f) ==                                              \* mutant
  /\ step' = NextStep /\ phase' = "idle"
  /\ answer' = <<f>>
  /\ dest' = [dest EXCEPT ![Schedule[NextStep].dest] = f.slave]
  /\ UNCHANGED resend

Accept(f) ==
  /\ step' = NextStep /\ phase' = "idle"
  /\ answer' = <<f>>
  /\ dest' = [dest EXCEPT ![req.dest] = f.slave]
  /\ UNCHANGED resend

(* receive_msg and check_confirmation of the oldest frame received, when   *)
(* the read ends where the frame does.                                     *)
Receive ==
  /\ phase = "wait" /\ rx # << >>
  /\ LET f == Head(rx) IN
       \/ /\ ~f.crc_ok
          /\ Fail
          /\ rx' = IF "PROTOCOL" \in error_recovery THEN << >> ELSE Tail(rx)
       \/ /\ f.crc_ok /\ Matches(f)
          /\ Accept(f)
          /\ rx' = Tail(rx)
       \/ /\ f.crc_ok /\ f.kind = "exception" /\ f.fc = req.fc
          /\ Fail
          /\ rx' = Tail(rx)
       \/ /\ f.crc_ok /\ ~Matches(f) /\ ~(f.kind = "exception" /\ f.fc = req.fc)
          /\ IF "PROTOCOL" \in error_recovery THEN SleepAndFail ELSE Fail
          /\ rx' = Tail(rx)
  /\ UNCHANGED <<error_recovery, line>> /\ Fine

(* The length of a damaged reply is wrong, or too long for any reply: the  *)
(* read ends short of it or within a later one, and there is no flush, or  *)
(* one that what is still to come escapes.                                 *)
Misframe ==
  /\ phase = "wait" /\ Damaged(rx) /\ Suffer("misframe")
  /\ Fail
  /\ \E n \in 1 .. Len(rx) + 1 :
       LET rest == SubSeq(rx, n, Len(rx)) IN rx' \in {rest, Cut(rest)}
  /\ UNCHANGED <<error_recovery, line>>

NoRecovery == Fail                                                 \* mutant

OnTimeout == IF "LINK" \in error_recovery THEN SleepAndFail ELSE Fail

(* response_timeout or byte_timeout passes: no reply is coming, it is late *)
(* or pauses, or what was read of a damaged reply asks for more bytes.     *)
Timeout ==
  /\ phase = "wait" /\ (rx = << >> \/ Damaged(rx))
  /\ rx' = << >>
  /\ \/ line = << >> /\ Fine /\ UNCHANGED line
     \/ line # << >> /\ Suffer("late") /\ line' \in {line, Cut(line)}
  /\ OnTimeout
  /\ UNCHANGED error_recovery

(* read() fails, before the first byte of a reply or after some.  Link     *)
(* recovery connects anew if the device is gone.                           *)
ReadFails ==
  /\ phase = "wait" /\ Suffer("read")
  /\ Fail
  /\ \/ rx' \in {rx, Cut(rx)}
     \/ "LINK" \in error_recovery /\ rx' = << >>
  /\ UNCHANGED <<error_recovery, line>>

FlushNothing == rx                                                 \* mutant

Flushed == << >>

(* The sleep is over.  What was late has arrived meanwhile, unless it is   *)
(* overdue.                                                                *)
Flush ==
  /\ phase = "sleep"
  /\ \/ line = << >> /\ Fine
     \/ line # << >> /\ Suffer("overdue")
  /\ rx' = Flushed
  /\ phase' = "idle" /\ resend' = FALSE
  /\ step' = IF resend THEN step ELSE NextStep
  /\ UNCHANGED <<error_recovery, line, answer, dest>>

Master == Send \/ Receive \/ Timeout \/ Flush

Next == Master \/ SendFails \/ Misframe \/ ReadFails \/ Arrive

(* The polling thread never stops, and replies on their way arrive.        *)
Fairness == WF_vars(Master) /\ WF_vars(Arrive)

Spec == Init /\ [][Next]_vars

FairSpec == Spec /\ Fairness

-----------------------------------------------------------------------------
TypeOK ==
  /\ error_recovery \subseteq {"LINK", "PROTOCOL"} /\ orderly \in BOOLEAN
  /\ step \in Steps /\ phase \in {"idle", "wait", "sleep"}
  /\ resend \in BOOLEAN
  /\ line \in Seq(Frame) /\ rx \in Seq(Frame)
  /\ answer \in Seq(Frame) /\ Len(answer) <= 1
  /\ dest \in [Dests -> Nat]
  /\ budget \in 0 .. Budget

(* What a transaction accepts is the answer to its own request, although   *)
(* nothing in the frame says so, as long as no reply has been late without *)
(* link recovery or overdue with it, no read has failed, and none of a     *)
(* damaged reply has ended short of its end or beyond it.                  *)
AnswerIsOwn == orderly /\ answer # << >> => answer[1].fresh

(* The slaves that the replies a request accepts may come from: those of   *)
(* the requests with its function and quantity.                            *)
Alike ==
  [i \in Steps |-> {Schedule[j].slave : j \in
     {j \in Steps : /\ Schedule[j].fc = Schedule[i].fc
                    /\ Quantity(Schedule[j].fc, Schedule[j].nb)
                         = Quantity(Schedule[i].fc, Schedule[i].nb)}}]

(* Whatever fails, and whether it is resent after a recovery or given up,  *)
(* each request has its turn once a round and touches no buffer but its    *)
(* own; what it stores is its own slave's until a reply, or a part of one, *)
(* is left to a later request, and an alike request's even then.           *)
Turns == INSTANCE Polling WITH trusted <- orderly

ImplementsPolling == Turns!Spec

(* With both kinds of recovery, replies that are out of step with the      *)
(* requests fall into step again once nothing more goes wrong: a request   *)
(* is not sent for ever with a reply to an earlier one still to come.      *)
InStep == phase = "idle" => line = << >> /\ rx = << >>

Realigns == error_recovery = {"LINK", "PROTOCOL"} => <>[]InStep

=============================================================================
