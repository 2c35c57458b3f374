---------------------------- MODULE AsyncSerial ----------------------------
(***************************************************************************)
(* The asynchronous serial port of library/serial-port/3_async:            *)
(* AsyncSerial.cpp with the read buffering of BufferedAsyncSerial.cpp.     *)
(*                                                                         *)
(* A control thread opens and closes the port, client threads write and    *)
(* read, and the background thread runs the handlers of the io_service one *)
(* after the other.  The io_service and the device are Boost.Asio and the  *)
(* operating system: an operation that is started ends in a completion     *)
(* handler, with an error if it is cancelled, if the device fails or if    *)
(* the port is closed when it starts.                                      *)
(*                                                                         *)
(* A byte is known by its rank in its own direction; wbuf is what is still *)
(* to be sent of writeBuffer, and busy says that writeBuffer is not null.  *)
(***************************************************************************)
EXTENDS Naturals, Sequences

CONSTANTS
  MaxWrites,    \* bytes clients may write
  MaxArrivals,  \* bytes that may arrive
  MaxOpens,     \* times the port may be opened
  MaxFaults     \* times the device may fail

ASSUME BoundsAreNat ==
  /\ MaxWrites \in Nat /\ MaxArrivals \in Nat
  /\ MaxOpens \in Nat /\ MaxFaults \in Nat

VARIABLES
  ctl,          \* where the control thread is
  reopen,       \* close() was called by open()
  isopen, error,          \* the flags open and error
  port,         \* the device is open
  thread,       \* "none", "running" or "done"
  handlers,     \* the handlers queued in the io_service
  wop, rop,     \* an async_write, an async_read_some is under way
  busy, wbuf, writeQueue,
  toPost,       \* writers between the end of the lock and io.post
  callback,     \* the read callback is set
  readBuffer, readQueue,
  opens, faults,
  written, wire, arrived, taken   \* ghosts: the two streams at either end

control == <<ctl, reopen, isopen, opens, callback>>
output  == <<busy, wbuf, writeQueue, toPost, written, wire>>
input   == <<readBuffer, readQueue, arrived, taken>>
vars == <<control, error, port, thread, handlers, wop, rop, faults, output,
          input>>

Handler == {"doRead", "doWrite", "doClose",
            "readEnd", "readError", "writeEnd", "writeError"}

Init ==
  /\ ctl = "idle" /\ reopen = FALSE /\ isopen = FALSE /\ error = FALSE
  /\ port = FALSE /\ thread = "none" /\ handlers = << >>
  /\ wop = FALSE /\ rop = FALSE
  /\ busy = FALSE /\ wbuf = << >> /\ writeQueue = << >> /\ toPost = 0
  /\ callback \in BOOLEAN       \* which constructor was used
  /\ readBuffer = << >> /\ readQueue = << >>
  /\ opens = 0 /\ faults = 0
  /\ written = << >> /\ wire = << >> /\ arrived = << >> /\ taken = << >>

Post(h) == handlers' = Append(handlers, h)

-----------------------------------------------------------------------------
(* The control thread. *)

CloseFlags ==
  /\ isopen' = FALSE
  /\ Post("doClose")
  /\ ctl' = "join"
  /\ UNCHANGED <<error, port, faults>>

(* open() after its isOpen() test.  It throws, and leaves error set, when  *)
(* the device cannot be opened, or is still open from an earlier open();   *)
(* and when an option cannot be set, which leaves the device open.         *)
OpenPort ==
  /\ error' = TRUE
  /\ \/ ~port /\ port' = TRUE /\ Post("doRead") /\ ctl' = "start"
        /\ UNCHANGED faults
     \/ port /\ ctl' = "idle" /\ UNCHANGED <<port, handlers, faults>>
     \/ /\ ~port /\ faults < MaxFaults
        /\ faults' = faults + 1
        /\ port' \in BOOLEAN
        /\ ctl' = "idle" /\ UNCHANGED handlers
  /\ UNCHANGED isopen

(* open(): a port that is open is closed first; then the device is opened  *)
(* and a first doRead is posted before there is a thread to run it.        *)
Open ==
  /\ ctl = "idle" /\ opens < MaxOpens
  /\ opens' = opens + 1
  /\ IF isopen THEN CloseFlags /\ reopen' = TRUE
               ELSE OpenPort /\ UNCHANGED reopen
  /\ UNCHANGED <<callback, thread, wop, rop, output, input>>

StartThread ==
  /\ ctl = "start"
  /\ thread' = "running"
  /\ ctl' = "clear"
  /\ UNCHANGED <<reopen, isopen, opens, callback, error, port, handlers, wop,
                 rop, faults, output, input>>

ClearError ==
  /\ ctl = "clear"
  /\ error' = FALSE
  /\ ctl' = "mark"
  /\ UNCHANGED <<reopen, isopen, opens, callback, port, thread, handlers, wop,
                 rop, faults, output, input>>

(* The last assignment of open(); the constructor of BufferedAsyncSerial   *)
(* that opens the port sets the read callback only after it.               *)
MarkOpen ==
  /\ ctl = "mark"
  /\ isopen' = TRUE
  /\ ctl' = IF callback THEN "idle" ELSE "callback"
  /\ UNCHANGED <<reopen, opens, callback, error, port, thread, handlers, wop,
                 rop, faults, output, input>>

SetReadCallback ==
  /\ ctl = "callback"
  /\ callback' = TRUE
  /\ ctl' = "idle"
  /\ UNCHANGED <<reopen, isopen, opens, error, port, thread, handlers, wop,
                 rop, faults, output, input>>

Close ==
  /\ ctl = "idle" /\ isopen
  /\ CloseFlags
  /\ UNCHANGED <<reopen, opens, callback, thread, wop, rop, output, input>>

(* close() goes on when the thread has ended; it throws if an error was    *)
(* recorded, which also ends an open() that called it.                     *)
Joined ==
  /\ ctl = "join" /\ thread = "done"
  /\ reopen' = FALSE
  /\ IF reopen /\ ~error THEN OpenPort
     ELSE ctl' = "idle" /\ UNCHANGED <<isopen, error, port, handlers, faults>>
  /\ UNCHANGED <<opens, callback, thread, wop, rop, output, input>>

-----------------------------------------------------------------------------
(* The clients. *)

(* write(): the bytes are queued under the lock, doWrite is posted after.  *)
Write ==
  /\ Len(written) < MaxWrites
  /\ writeQueue' = Append(writeQueue, Len(written) + 1)
  /\ written' = Append(written, Len(written) + 1)
  /\ toPost' = toPost + 1
  /\ UNCHANGED <<busy, wbuf, wire, control, error, port, thread, handlers,
                 wop, rop, faults, input>>

PostAnyTime == toPost \in Nat                                     \* mutant

Locked == toPost > 0

PostWrite ==
  /\ Locked
  /\ toPost' = toPost - 1
  /\ Post("doWrite")
  /\ UNCHANGED <<busy, wbuf, writeQueue, written, wire, control, error, port,
                 thread, wop, rop, faults, input>>

(* read, readString and readStringUntil take a prefix of the read queue.   *)
Read ==
  /\ \E n \in 1 .. Len(readQueue) :
       /\ taken' = taken \o SubSeq(readQueue, 1, n)
       /\ readQueue' = SubSeq(readQueue, n + 1, Len(readQueue))
  /\ UNCHANGED <<readBuffer, arrived, control, error, port, thread, handlers,
                 wop, rop, faults, output>>

-----------------------------------------------------------------------------
(* The background thread: one handler at a time. *)

(* The rest of the queue, followed by the completions a handler causes.    *)
Then(completions) == handlers' = Tail(handlers) \o completions

Running(h) == thread = "running" /\ handlers # << >> /\ Head(handlers) = h

StartRead ==
  IF port THEN rop' = TRUE /\ Then(<< >>)
          ELSE UNCHANGED rop /\ Then(<<"readError">>)

DoRead ==
  /\ Running("doRead")
  /\ StartRead
  /\ UNCHANGED <<control, error, port, thread, wop, faults, output, input>>

(* doClose: port.cancel and port.close abort what is under way; cancelling *)
(* on a closed port is itself an error.                                    *)
Aborted == (IF rop THEN <<"readError">> ELSE << >>)
             \o (IF wop THEN <<"writeError">> ELSE << >>)

CloseOnly(failed) ==                                             \* mutant
  /\ port' = FALSE
  /\ Then(<< >>)
  /\ error' = (error \/ failed \/ ~port)
  /\ UNCHANGED <<rop, wop>>

ClosePort(failed) ==
  /\ port' = FALSE
  /\ rop' = FALSE /\ wop' = FALSE
  /\ Then(Aborted)
  /\ error' = (error \/ failed \/ ~port)

DoClose ==
  /\ Running("doClose")
  /\ ClosePort(FALSE)
  /\ UNCHANGED <<control, thread, faults, output, input>>

QueuedInFront == readBuffer \o readQueue                         \* mutant

Queued == readQueue \o readBuffer

ReadEnd ==
  /\ Running("readEnd")
  /\ readQueue' = IF callback THEN Queued ELSE readQueue
  /\ readBuffer' = << >>
  /\ StartRead
  /\ UNCHANGED <<arrived, taken, control, error, port, thread, wop, faults,
                 output>>

(* An error while the port is not marked open is taken for the effect of   *)
(* close() and ignored.                                                    *)
ReadError ==
  /\ Running("readError")
  /\ IF isopen THEN ClosePort(TRUE)
     ELSE Then(<< >>) /\ UNCHANGED <<port, rop, wop, error>>
  /\ UNCHANGED <<control, thread, faults, output, input>>

TakeKeepingQueue ==                                              \* mutant
  /\ busy' = TRUE
  /\ wbuf' = writeQueue
  /\ UNCHANGED writeQueue
  /\ IF port THEN wop' = TRUE /\ Then(<< >>)
             ELSE UNCHANGED wop /\ Then(<<"writeError">>)

(* The whole write queue becomes the new write buffer and is sent.         *)
TakeQueue ==
  /\ busy' = TRUE
  /\ wbuf' = writeQueue
  /\ writeQueue' = << >>
  /\ IF port THEN wop' = TRUE /\ Then(<< >>)
             ELSE UNCHANGED wop /\ Then(<<"writeError">>)

MayStartAlways == TRUE                                           \* mutant

MayStart == ~busy

DoWrite ==
  /\ Running("doWrite")
  /\ IF MayStart THEN TakeQueue
     ELSE Then(<< >>) /\ UNCHANGED <<busy, wbuf, writeQueue, wop>>
  /\ UNCHANGED <<toPost, written, wire, control, error, port, thread, rop,
                 faults, input>>

QueueForgotten == TRUE                                           \* mutant

QueueEmpty == writeQueue = << >>

(* What was queued while the buffer was being sent is sent next. *)
WriteEnd ==
  /\ Running("writeEnd")
  /\ IF QueueEmpty
     THEN busy' = FALSE /\ Then(<< >>) /\ UNCHANGED <<wbuf, writeQueue, wop>>
     ELSE TakeQueue
  /\ UNCHANGED <<toPost, written, wire, control, error, port, thread, rop,
                 faults, input>>

(* writeBuffer is not reset here. *)
WriteError ==
  /\ Running("writeError")
  /\ ClosePort(TRUE)
  /\ UNCHANGED <<control, thread, faults, output, input>>

(* io_service::run returns when it has nothing left to wait for. *)
RunReturns ==
  /\ thread = "running" /\ handlers = << >> /\ ~rop /\ ~wop
  /\ thread' = "done"
  /\ UNCHANGED <<control, error, port, handlers, wop, rop, faults, output,
                 input>>

-----------------------------------------------------------------------------
(* The device. *)

EmitByte ==
  /\ wop /\ wbuf # << >>
  /\ wire' = Append(wire, Head(wbuf))
  /\ wbuf' = Tail(wbuf)
  /\ UNCHANGED <<busy, writeQueue, toPost, written, control, error, port,
                 thread, handlers, wop, rop, faults, input>>

(* async_write completes when its buffer is sent, an empty one at once.    *)
WriteComplete ==
  /\ wop /\ wbuf = << >>
  /\ wop' = FALSE
  /\ Post("writeEnd")
  /\ UNCHANGED <<control, error, port, thread, rop, faults, output, input>>

Arrive ==
  /\ rop /\ Len(arrived) < MaxArrivals
  /\ arrived' = Append(arrived, Len(arrived) + 1)
  /\ readBuffer' = <<Len(arrived) + 1>>
  /\ rop' = FALSE
  /\ Post("readEnd")
  /\ UNCHANGED <<readQueue, taken, control, error, port, thread, wop, faults,
                 output>>

DeviceFault ==
  /\ faults < MaxFaults
  /\ faults' = faults + 1
  /\ \/ rop /\ rop' = FALSE /\ Post("readError") /\ UNCHANGED wop
     \/ wop /\ wop' = FALSE /\ Post("writeError") /\ UNCHANGED rop
  /\ UNCHANGED <<control, error, port, thread, output, input>>

Control == Open \/ StartThread \/ ClearError \/ MarkOpen \/ SetReadCallback
             \/ Close \/ Joined
Background == DoRead \/ DoClose \/ ReadEnd \/ ReadError \/ DoWrite \/ WriteEnd
                \/ WriteError \/ RunReturns
Device == EmitByte \/ WriteComplete

Next == Control \/ Write \/ PostWrite \/ Read \/ Background \/ Device
          \/ Arrive \/ DeviceFault

(* Threads that can run do run, and the line drains. *)
Fairness ==
  /\ WF_vars(StartThread \/ ClearError \/ MarkOpen \/ SetReadCallback \/ Joined)
  /\ WF_vars(PostWrite)
  /\ WF_vars(Background)
  /\ WF_vars(Device)

Spec == Init /\ [][Next]_vars

FairSpec == Spec /\ Fairness

-----------------------------------------------------------------------------
FlagsOK ==
  /\ ctl \in {"idle", "start", "clear", "mark", "callback", "join"}
  /\ thread \in {"none", "running", "done"}
  /\ reopen \in BOOLEAN /\ isopen \in BOOLEAN /\ error \in BOOLEAN
  /\ port \in BOOLEAN /\ wop \in BOOLEAN /\ rop \in BOOLEAN
  /\ busy \in BOOLEAN /\ callback \in BOOLEAN
  /\ toPost \in Nat /\ opens \in Nat /\ faults \in Nat

OutputOK ==
  /\ wbuf \in Seq(Nat) /\ writeQueue \in Seq(Nat)
  /\ written \in Seq(Nat) /\ wire \in Seq(Nat)

InputOK ==
  /\ readBuffer \in Seq(Nat) /\ readQueue \in Seq(Nat)
  /\ arrived \in Seq(Nat) /\ taken \in Seq(Nat)

TypeOK == FlagsOK /\ OutputOK /\ InputOK /\ handlers \in Seq(Handler)

(* At most one write is under way or waiting for its completion handler,  *)
(* so that writeBuffer is never replaced while the device reads from it.   *)
IsCompletion(h) == h \in {"writeEnd", "writeError"}

OneWrite ==
  /\ wop => busy
  /\ \A j \in 1 .. Len(handlers) : IsCompletion(handlers[j]) => busy /\ ~wop
  /\ \A i, j \in 1 .. Len(handlers) :
       IsCompletion(handlers[i]) /\ IsCompletion(handlers[j]) => i = j

(* On the way in nothing is lost, doubled or overtaken once a byte has     *)
(* been queued: what clients took, the read queue and readBuffer are the   *)
(* end of what arrived.  (Bytes that arrive before the constructor that    *)
(* opens the port has set the callback are dropped.)                       *)
InputFifo ==
  \E n \in 0 .. Len(arrived) :
    arrived = SubSeq(arrived, 1, n) \o taken \o readQueue \o readBuffer

(* A port that is open and healthy, with nothing left to run or to wait    *)
(* for but the next byte, has sent all it was given.                       *)
Idle == handlers = << >> /\ ~wop /\ toPost = 0

OpenMeansFlushed ==
  (ctl = "idle" /\ isopen /\ ~error /\ Idle) => writeQueue = << >> /\ wbuf = << >>

(* errorStatus() says whether an error was found.                          *)
FaultReported ==
  (ctl = "idle" /\ isopen /\ faults > 0 /\ handlers = << >>) => error

(* close() returns: whatever is queued or under way, the thread ends.      *)
CloseReturns == ctl = "join" ~> ctl # "join"

(* What close() waits for is on its way: the thread has ended, or doClose  *)
(* is still to run in it, or has run and left nothing under way that only  *)
(* the device could end.                                                   *)
CloseServed ==
  ctl = "join" =>
    \/ thread = "done"
    \/ /\ thread = "running"
       /\ \/ \E j \in 1 .. Len(handlers) : handlers[j] = "doClose"
          \/ ~port /\ ~rop /\ ~wop

(* A write buffer that nobody sends any more: no write is under way, and   *)
(* no completion is queued that would reset it.                            *)
Stalled ==
  busy /\ ~wop /\ \A j \in 1 .. Len(handlers) : ~IsCompletion(handlers[j])

(* No order of write(), doWrite and writeEnd loses a wake-up: while bytes  *)
(* are queued, a write is under way, or its completion or a doWrite, which *)
(* will find no write buffer, is queued or about to be posted.  The one    *)
(* exception is the stall that a failed write leaves behind.  A handler    *)
(* that is queued when the background thread has ended waits for the next. *)
Sends(h) == IsCompletion(h) \/ h = "doWrite"

NoLostWakeup ==
  writeQueue # << >> /\ ~Stalled =>
    wop \/ toPost > 0 \/ \E j \in 1 .. Len(handlers) : Sends(handlers[j])

(* An error of the port is recorded in the very step that stalls it, and a *)
(* stall is for good: no handler, no close() and no open() makes this      *)
(* object send a byte again.                                               *)
StallIsFinal ==
  [][/\ Stalled => Stalled' /\ UNCHANGED wire
     /\ Stalled' => Stalled \/ error']_vars

(* While the port stays open and healthy, all that is written is sent,     *)
(* unless a write ended in an error and left its buffer behind, or open()  *)
(* ignored an error and the background thread, without work, has ended.    *)
Stuck == thread = "done" \/ Stalled

WritesReachLine ==
  \A n \in 1 .. MaxWrites :
    (isopen /\ Len(written) >= n) ~>
      (Len(wire) >= n \/ ~isopen \/ error \/ Stuck)

Stream == INSTANCE SerialStream WITH Byte <- 1 .. MaxWrites

(* AsyncSerial implements the byte stream of SerialStream. *)
ImplementsStream == Stream!Spec

=============================================================================
