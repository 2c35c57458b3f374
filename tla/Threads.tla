------------------------------ MODULE Threads ------------------------------
(***************************************************************************)
(* The threads, events and mutexes that kw/src/threadimpl.cpp makes of     *)
(* POSIX for the PLC runtime.  A thread is created dormant, in a wait on a *)
(* semaphore of its own that Start posts.  Suspend and Resume are signals: *)
(* the handler of SIGUSR1 sleeps in sigsuspend until SIGUSR2 is delivered. *)
(* Both handlers are installed without SA_RESTART, so a sem_wait they      *)
(* interrupt fails; the mutex is a plain one, which signals do not affect. *)
(*                                                                         *)
(* The runtime, which is not in the repository, calls these operations in  *)
(* any order, but none on a thread that was aborted or has ended.  Its     *)
(* threads wait for one event and enter one mutex.                         *)
(***************************************************************************)
EXTENDS Naturals, FiniteSets

CONSTANTS
  Thread,
  NoThread,
  MaxCalls    \* bound: calls of Start, Suspend, Resume and Set, and
              \* the creation of an event that is set

ASSUME CallsAssumption == MaxCalls \in Nat \ {0}
ASSUME NoThreadAssumption == NoThread \notin Thread

VARIABLES
  pc,         \* where each thread is in TaskWrapper and in its m_proc
  handler,    \* "user", "suspending" before sigsuspend, or "asleep" in it
  pend,       \* signals sent and not delivered; a signal is not counted
  cut,        \* a handler has interrupted the sem_wait the thread is in
  cancelled,  \* Abort was called
  sem,        \* m_threadSem
  event,      \* m_EventSemID
  mutex,      \* the thread that holds m_tMutexID, or NoThread
  calls,
  last,       \* history: the latest of Suspend and Resume called for each
  piled,      \* history: two Suspends without a Resume between them, or a
              \* Resume that found the SIGUSR2 of the one before pending
  missed,     \* history: SIGUSR2 found the thread awake
  hit,        \* history: a signal interrupted the wait of TaskWrapper
  starts,     \* history: calls of Start
  sets,       \* history: Set, and the creation of an event that is set
  waits       \* history: WaitOne that returned true

signals == <<handler, pend, cut>>
history == <<last, piled, missed, hit>>
counts  == <<starts, sets, waits>>
vars == <<pc, signals, cancelled, sem, event, mutex, calls, history,
          counts>>

Places == {"none", "spawned", "dormant", "run", "wait", "enter", "gone"}

Init ==
  /\ pc = [t \in Thread |-> "none"]
  /\ handler = [t \in Thread |-> "user"]
  /\ pend = [t \in Thread |-> {}]
  /\ cut = [t \in Thread |-> FALSE]
  /\ cancelled = [t \in Thread |-> FALSE]
  /\ sem = [t \in Thread |-> 0]
  /\ event \in 0 .. 1 /\ mutex = NoThread /\ calls = event
  /\ last = [t \in Thread |-> "none"]
  /\ piled = [t \in Thread |-> FALSE]
  /\ missed = [t \in Thread |-> FALSE]
  /\ hit = [t \in Thread |-> FALSE]
  /\ starts = [t \in Thread |-> 0] /\ sets = event /\ waits = 0

-----------------------------------------------------------------------------
(* The callers. *)

Create(t) ==
  /\ pc[t] = "none"
  /\ pc' = [pc EXCEPT ![t] = "spawned"]
  /\ UNCHANGED <<signals, cancelled, sem, event, mutex, calls, history,
                 counts>>

Callable(t) == pc[t] \notin {"none", "gone"} /\ ~cancelled[t]

Call == calls < MaxCalls /\ calls' = calls + 1

Start(t) ==
  /\ Call /\ Callable(t)
  /\ sem' = [sem EXCEPT ![t] = @ + 1]
  /\ starts' = [starts EXCEPT ![t] = @ + 1]
  /\ UNCHANGED <<pc, signals, cancelled, event, mutex, history, sets,
                 waits>>

SuspendAnyway(t, signal) ==                                       \* mutant
  pend' = [pend EXCEPT ![t] = @ \cup {"USR1"}]

(* pthread_kill *)
Kill(t, signal) == pend' = [pend EXCEPT ![t] = @ \cup {signal}]

Suspend(t) ==
  /\ Call /\ Callable(t)
  /\ Kill(t, "USR1")
  /\ last' = [last EXCEPT ![t] = "suspend"]
  /\ piled' = [piled EXCEPT ![t] = @ \/ last[t] = "suspend"]
  /\ UNCHANGED <<pc, handler, cut, cancelled, sem, event, mutex, missed,
                 hit, counts>>

Resume(t) ==
  /\ Call /\ Callable(t)
  /\ Kill(t, "USR2")
  /\ last' = [last EXCEPT ![t] = "resume"]
  /\ piled' = [piled EXCEPT ![t] = @ \/ "USR2" \in pend[t]]
  /\ UNCHANGED <<pc, handler, cut, cancelled, sem, event, mutex, missed,
                 hit, counts>>

(* The cancellation is asynchronous; the mutexes of the thread are not     *)
(* released.                                                               *)
Abort(t) ==
  /\ Callable(t)
  /\ cancelled' = [cancelled EXCEPT ![t] = TRUE]
  /\ UNCHANGED <<pc, signals, sem, event, mutex, calls, history, counts>>

(* CEventImpl::Set *)
Set ==
  /\ Call
  /\ event' = event + 1
  /\ sets' = sets + 1
  /\ UNCHANGED <<pc, signals, cancelled, sem, mutex, history, starts,
                 waits>>


(* The comment of CEventImpl::Reset says that it resets the event; the     *)
(* call returns true and does nothing.                                     *)
LeftSet == UNCHANGED event

Reset ==
  /\ LeftSet
  /\ UNCHANGED <<pc, signals, cancelled, sem, mutex, calls, history, counts>>

-----------------------------------------------------------------------------
(* Signals. *)

InSemWait(t) == pc[t] \in {"dormant", "wait"}

(* A handler starts while the thread is in a sem_wait.  One that has been  *)
(* posted already may still succeed.                                       *)
Interrupt(t) ==
  LET posted == IF pc[t] = "dormant" THEN sem[t] > 0 ELSE event > 0 IN
  /\ \/ InSemWait(t) /\ cut' = [cut EXCEPT ![t] = TRUE]
     \/ (InSemWait(t) => posted) /\ UNCHANGED cut
  /\ hit' = [hit EXCEPT ![t] = @ \/ (pc[t] = "dormant" /\ cut'[t])]

Deliverable(t, signal) ==
  pc[t] \notin {"none", "gone"} /\ signal \in pend[t]

Taken(t, signal) == pend' = [pend EXCEPT ![t] = @ \ {signal}]

(* suspend_signal_handler begins; it blocks SIGUSR1 alone.                 *)
DeliverSuspend(t) ==
  /\ Deliverable(t, "USR1") /\ handler[t] = "user"
  /\ Taken(t, "USR1")
  /\ handler' = [handler EXCEPT ![t] = "suspending"]
  /\ Interrupt(t)
  /\ UNCHANGED <<pc, cancelled, sem, event, mutex, calls, last, piled,
                 missed, counts>>

(* resume_signal_handler, in a thread that does not sleep.                 *)
DeliverResume(t) ==
  /\ Deliverable(t, "USR2") /\ handler[t] # "asleep"
  /\ Taken(t, "USR2")
  /\ missed' = [missed EXCEPT ![t] = TRUE]
  /\ IF handler[t] = "user" THEN Interrupt(t) ELSE UNCHANGED <<cut, hit>>
  /\ UNCHANGED <<pc, handler, cancelled, sem, event, mutex, calls, last,
                 piled, counts>>

SigSuspend(t) ==
  /\ handler[t] = "suspending" /\ pc[t] # "gone"
  /\ handler' = [handler EXCEPT ![t] = "asleep"]
  /\ UNCHANGED <<pc, pend, cut, cancelled, sem, event, mutex, calls,
                 history, counts>>

StillMasked(t) == FALSE                                           \* mutant

(* What ends sigsuspend: every other signal is blocked.                    *)
WakeUp(t) == "USR2" \in pend[t]

(* Both handlers return. *)
Wake(t) ==
  /\ handler[t] = "asleep" /\ pc[t] # "gone" /\ WakeUp(t)
  /\ Taken(t, "USR2")
  /\ handler' = [handler EXCEPT ![t] = "user"]
  /\ UNCHANGED <<pc, cut, cancelled, sem, event, mutex, calls, history,
                 counts>>

-----------------------------------------------------------------------------
(* The thread itself. *)

At(t, place) == pc[t] = place /\ handler[t] = "user"

Goto(t, place) == pc' = [pc EXCEPT ![t] = place]

(* TaskWrapper reaches its sem_wait. *)
BeginDormant(t) ==
  /\ At(t, "spawned")
  /\ Goto(t, "dormant")
  /\ UNCHANGED <<signals, cancelled, sem, event, mutex, calls, history,
                 counts>>

PostedOrNot(count) == TRUE                                        \* mutant

Posted(count) == count > 0

BeginProc(t) ==
  /\ At(t, "dormant") /\ ~cut[t] /\ Posted(sem[t])
  /\ sem' = [sem EXCEPT ![t] = @ - 1]
  /\ Goto(t, "run")
  /\ UNCHANGED <<signals, cancelled, event, mutex, calls, history,
                 counts>>

(* sem_wait fails with EINTR, which TaskWrapper does not look at.          *)
BeginProcUnstarted(t) ==
  /\ At(t, "dormant") /\ cut[t]
  /\ cut' = [cut EXCEPT ![t] = FALSE]
  /\ Goto(t, "run")
  /\ UNCHANGED <<handler, pend, cancelled, sem, event, mutex, calls,
                 history, counts>>

WaitOne(t) ==
  /\ At(t, "run")
  /\ Goto(t, "wait")
  /\ UNCHANGED <<signals, cancelled, sem, event, mutex, calls, history,
                 counts>>

WaitTrue(t) ==
  /\ At(t, "wait") /\ ~cut[t] /\ event > 0
  /\ event' = event - 1
  /\ waits' = waits + 1
  /\ Goto(t, "run")
  /\ UNCHANGED <<signals, cancelled, sem, mutex, calls, history, starts,
                 sets>>

WaitFalse(t) ==
  /\ At(t, "wait") /\ cut[t]
  /\ cut' = [cut EXCEPT ![t] = FALSE]
  /\ Goto(t, "run")
  /\ UNCHANGED <<handler, pend, cancelled, sem, event, mutex, calls,
                 history, counts>>

(* The mutex is not recursive; that the runtime enters it twice is left    *)
(* out.                                                                    *)
Enter(t) ==
  /\ At(t, "run") /\ mutex # t
  /\ Goto(t, "enter")
  /\ UNCHANGED <<signals, cancelled, sem, event, mutex, calls, history,
                 counts>>

Lock(t) ==
  /\ At(t, "enter") /\ mutex = NoThread
  /\ mutex' = t
  /\ Goto(t, "run")
  /\ UNCHANGED <<signals, cancelled, sem, event, calls, history, counts>>

KeepLocked == UNCHANGED mutex                                     \* mutant

Unlock == mutex' = NoThread

Leave(t) ==
  /\ At(t, "run") /\ mutex = t
  /\ Unlock
  /\ UNCHANGED <<pc, signals, cancelled, sem, event, calls, history, counts>>

(* m_proc returns, or Abort of the thread itself.                          *)
Exit(t) ==
  /\ At(t, "run")
  /\ Goto(t, "gone")
  /\ UNCHANGED <<signals, cancelled, sem, event, mutex, calls, history,
                 counts>>

(* An asynchronous cancellation ends the thread wherever it is, asleep in  *)
(* sigsuspend too: its signal is never blocked.                            *)
Die(t) ==
  /\ cancelled[t] /\ pc[t] # "gone"
  /\ Goto(t, "gone")
  /\ UNCHANGED <<signals, cancelled, sem, event, mutex, calls, history,
                 counts>>

Caller(t) == Create(t) \/ Start(t) \/ Suspend(t) \/ Resume(t) \/ Abort(t)

Signal(t) == DeliverSuspend(t) \/ DeliverResume(t) \/ SigSuspend(t) \/ Wake(t)

Own(t) == BeginDormant(t) \/ BeginProc(t) \/ BeginProcUnstarted(t)
            \/ WaitOne(t) \/ WaitTrue(t) \/ WaitFalse(t)
            \/ Enter(t) \/ Lock(t) \/ Leave(t) \/ Exit(t) \/ Die(t)

Next == Set \/ Reset \/ \E t \in Thread : Caller(t) \/ Signal(t) \/ Own(t)

(* Signals are delivered, a started thread begins, a WaitOne that can      *)
(* return does, and a thread that has entered leaves.  A waiting thread is *)
(* not promised the next turn: neither sem_wait nor the mutex is fair.     *)
Fairness ==
  \A t \in Thread : /\ WF_vars(Signal(t))
                    /\ WF_vars(BeginDormant(t))
                    /\ WF_vars(BeginProc(t) \/ BeginProcUnstarted(t))
                    /\ WF_vars(WaitTrue(t) \/ WaitFalse(t))
                    /\ WF_vars(Lock(t)) /\ WF_vars(Leave(t))

Spec == Init /\ [][Next]_vars

FairSpec == Spec /\ Fairness

-----------------------------------------------------------------------------
TypeOK ==
  /\ pc \in [Thread -> Places]
  /\ handler \in [Thread -> {"user", "suspending", "asleep"}]
  /\ pend \in [Thread -> SUBSET {"USR1", "USR2"}]
  /\ cut \in [Thread -> BOOLEAN] /\ cancelled \in [Thread -> BOOLEAN]
  /\ sem \in [Thread -> Nat] /\ event \in Nat
  /\ mutex \in Thread \cup {NoThread}
  /\ calls \in 0 .. MaxCalls
  /\ last \in [Thread -> {"none", "suspend", "resume"}]
  /\ piled \in [Thread -> BOOLEAN] /\ missed \in [Thread -> BOOLEAN]
  /\ hit \in [Thread -> BOOLEAN]
  /\ starts \in [Thread -> Nat] /\ sets \in Nat /\ waits \in Nat

(* A thread runs m_proc only after Start, or when a signal, be it a Resume *)
(* of a thread that was never suspended, has ended its dormant wait.       *)
Began(t) == pc[t] \in {"run", "wait", "enter"}

RunNeedsStart == \A t \in Thread : Began(t) => starts[t] > 0 \/ hit[t]

(* A thread whose Suspends were all answered by a Resume sleeps on only if *)
(* one of the SIGUSR2 found it awake: the handler had not begun, or had    *)
(* not reached sigsuspend.                                                 *)
SleepsUnanswered ==
  \A t \in Thread :
    handler[t] = "asleep" /\ "USR2" \notin pend[t] /\ last[t] # "suspend"
      => piled[t] \/ missed[t]

(* Each Set has ended one WaitOne with true or is still there to end one;  *)
(* no interruption takes it away and no Reset does.                        *)
SetsAreKept == waits + event = sets

(* While a thread waits, no Set is lost and none waits with it: each ends  *)
(* a WaitOne with true, this one or another, unless a signal or Abort ends *)
(* the wait before.  A Reset in between makes no difference, against what  *)
(* its comment says.                                                       *)
Undisturbed(t) == pc[t] = "wait" /\ handler[t] = "user" /\ ~cancelled[t]


(* A thread that is resumed for good runs for good, unless a SIGUSR2 was   *)
(* wasted on it while it was awake or Suspends were piled up on it.        *)
ResumeWakes ==
  \A t \in Thread :
    <>[](last[t] = "resume" /\ ~piled[t] /\ ~missed[t] /\ ~cancelled[t])
      => <>[](handler[t] = "user")

(* A thread waits in Enter for ever only while others keep entering, or    *)
(* behind a holder that sleeps, waits or is gone: neither Suspend nor      *)
(* Abort waits until its thread has left.                                  *)
HeldForGood ==
  mutex # NoThread
    /\ (handler[mutex] = "asleep" \/ pc[mutex] \in {"wait", "gone"})

EnterReturns ==
  \A t \in Thread :
    <>[](pc[t] = "enter" /\ handler[t] = "user" /\ ~cancelled[t])
      => []<>(mutex = NoThread) \/ <>[]HeldForGood

=============================================================================
