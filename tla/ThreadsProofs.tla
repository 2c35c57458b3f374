--------------------------- MODULE ThreadsProofs ---------------------------
(***************************************************************************)
(* The safety properties of Threads, for any threads and any number of     *)
(* calls.  Each follows from an invariant of its own:                      *)
(*                                                                         *)
(*   - Startable: a post of m_threadSem is a Start, and the dormant wait   *)
(*     of a thread is only interrupted by a signal that "hit" records;     *)
(*   - Answered: until Suspends pile up or a SIGUSR2 is missed, a thread   *)
(*     owes at most one sleep more than it has SIGUSR2 pending, and none   *)
(*     more once the latest call was a Resume.                             *)
(***************************************************************************)
EXTENDS Threads, TLAPS

USE DEF Places

(***************************************************************************)
(* Every variable of the threads keeps its type.                           *)
(***************************************************************************)
LEMMA InitTyped == Init => TypeOK
  BY CallsAssumption DEF Init, TypeOK

LEMMA CallerKeepsTypes ==
  ASSUME TypeOK, NEW t \in Thread, Caller(t)
  PROVE  TypeOK'
  <1>1. CASE Create(t)
    BY <1>1 DEF Create, TypeOK, signals, history, counts
  <1>2. CASE Start(t)
    BY <1>2, CallsAssumption
    DEF Start, Call, TypeOK, signals, history, counts
  <1>3. CASE Suspend(t)
    BY <1>3, CallsAssumption DEF Suspend, Kill, Call, TypeOK, counts
  <1>4. CASE Resume(t)
    BY <1>4, CallsAssumption DEF Resume, Kill, Call, TypeOK, counts
  <1>5. CASE Abort(t)
    BY <1>5 DEF Abort, TypeOK, signals, history, counts
  <1> QED  BY <1>1, <1>2, <1>3, <1>4, <1>5 DEF Caller

LEMMA SignalKeepsTypes ==
  ASSUME TypeOK, NEW t \in Thread, Signal(t)
  PROVE  TypeOK'
  <1>1. CASE DeliverSuspend(t)
    BY <1>1 DEF DeliverSuspend, Interrupt, InSemWait, Taken, TypeOK, counts
  <1>2. CASE DeliverResume(t)
    BY <1>2 DEF DeliverResume, Interrupt, InSemWait, Taken, TypeOK, counts
  <1>3. CASE SigSuspend(t)
    BY <1>3 DEF SigSuspend, TypeOK, history, counts
  <1>4. CASE Wake(t)
    BY <1>4 DEF Wake, Taken, TypeOK, history, counts
  <1> QED  BY <1>1, <1>2, <1>3, <1>4 DEF Signal

LEMMA OwnKeepsTypes ==
  ASSUME TypeOK, NEW t \in Thread, Own(t)
  PROVE  TypeOK'
  <1> USE DEF Goto, TypeOK, signals, history, counts
  <1>1. CASE BeginDormant(t)        BY <1>1 DEF BeginDormant
  <1>2. CASE BeginProc(t)
    <2>1. sem[t] \in Nat /\ sem[t] > 0
      BY <1>2 DEF BeginProc, Posted
    <2>2. sem' \in [Thread -> Nat]  BY <1>2, <2>1 DEF BeginProc
    <2> QED                         BY <1>2, <2>2 DEF BeginProc
  <1>3. CASE BeginProcUnstarted(t)  BY <1>3 DEF BeginProcUnstarted
  <1>4. CASE WaitOne(t)             BY <1>4 DEF WaitOne
  <1>5. CASE WaitTrue(t)            BY <1>5 DEF WaitTrue
  <1>6. CASE WaitFalse(t)           BY <1>6 DEF WaitFalse
  <1>7. CASE Enter(t)               BY <1>7 DEF Enter
  <1>8. CASE Lock(t)                BY <1>8 DEF Lock
  <1>9. CASE Leave(t)               BY <1>9 DEF Leave, Unlock
  <1>10. CASE Exit(t)               BY <1>10 DEF Exit
  <1>11. CASE Die(t)                BY <1>11 DEF Die
  <1> QED
    BY <1>1, <1>2, <1>3, <1>4, <1>5, <1>6, <1>7, <1>8, <1>9, <1>10, <1>11
    DEF Own

LEMMA StepKeepsTypes == TypeOK /\ [Next]_vars => TypeOK'
  <1> SUFFICES ASSUME TypeOK, [Next]_vars PROVE TypeOK'  OBVIOUS
  <1>1. CASE Set \/ Reset
    BY <1>1, CallsAssumption
    DEF Set, Reset, LeftSet, Call, TypeOK, signals, history, counts
  <1>2. CASE \E t \in Thread : Caller(t) \/ Signal(t) \/ Own(t)
    BY <1>2, CallerKeepsTypes, SignalKeepsTypes, OwnKeepsTypes
  <1>3. CASE UNCHANGED vars
    BY <1>3 DEF vars, signals, history, counts, TypeOK
  <1> QED  BY <1>1, <1>2, <1>3 DEF Next

THEOREM TypeCorrect == Spec => []TypeOK
  BY InitTyped, StepKeepsTypes, PTL DEF Spec

(***************************************************************************)
(* A thread runs m_proc only after Start, or when a signal has ended its   *)
(* dormant wait.                                                           *)
(***************************************************************************)
Startable ==
  \A t \in Thread :
    /\ sem[t] > 0 => starts[t] > 0
    /\ pc[t] = "dormant" /\ cut[t] => hit[t]
    /\ pc[t] \in {"none", "spawned"} => ~cut[t]
    /\ Began(t) => (starts[t] > 0 \/ hit[t])

LEMMA StepKeepsStartable ==
  TypeOK /\ Startable /\ [Next]_vars => Startable'
  <1> SUFFICES ASSUME TypeOK, Startable, [Next]_vars PROVE Startable'
    OBVIOUS
  <1> USE DEF Startable, Began
  <1>1. CASE Set \/ Reset
    BY <1>1 DEF Set, Reset, signals, history, counts
  <1>2. ASSUME NEW u \in Thread, Caller(u) PROVE Startable'
    <2>1. CASE Create(u)
      BY <2>1 DEF Create, TypeOK, signals, history, counts
    <2>2. CASE Start(u)
      BY <2>2 DEF Start, TypeOK, signals, history
    <2>3. CASE Suspend(u)  BY <2>3 DEF Suspend, counts
    <2>4. CASE Resume(u)   BY <2>4 DEF Resume, counts
    <2>5. CASE Abort(u)    BY <2>5 DEF Abort, signals, history, counts
    <2> QED  BY <1>2, <2>1, <2>2, <2>3, <2>4, <2>5 DEF Caller
  <1>3. ASSUME NEW u \in Thread, Signal(u) PROVE Startable'
    <2>1. CASE DeliverSuspend(u)
      BY <2>1 DEF DeliverSuspend, Interrupt, InSemWait, TypeOK, counts
    <2>2. CASE DeliverResume(u)
      BY <2>2 DEF DeliverResume, Interrupt, InSemWait, TypeOK, counts
    <2>3. CASE SigSuspend(u)  BY <2>3 DEF SigSuspend, history, counts
    <2>4. CASE Wake(u)        BY <2>4 DEF Wake, history, counts
    <2> QED  BY <1>3, <2>1, <2>2, <2>3, <2>4 DEF Signal
  <1>4. ASSUME NEW u \in Thread, Own(u) PROVE Startable'
    <2> USE DEF At, Goto, TypeOK, signals, history, counts
    <2>1. CASE BeginDormant(u)        BY <2>1 DEF BeginDormant
    <2>2. CASE BeginProc(u)           BY <2>2 DEF BeginProc, Posted
    <2>3. CASE BeginProcUnstarted(u)  BY <2>3 DEF BeginProcUnstarted
    <2>4. CASE WaitOne(u)             BY <2>4 DEF WaitOne
    <2>5. CASE WaitTrue(u)            BY <2>5 DEF WaitTrue
    <2>6. CASE WaitFalse(u)           BY <2>6 DEF WaitFalse
    <2>7. CASE Enter(u)               BY <2>7 DEF Enter
    <2>8. CASE Lock(u)                BY <2>8 DEF Lock
    <2>9. CASE Leave(u)               BY <2>9 DEF Leave
    <2>10. CASE Exit(u)               BY <2>10 DEF Exit
    <2>11. CASE Die(u)                BY <2>11 DEF Die
    <2> QED
      BY <1>4, <2>1, <2>2, <2>3, <2>4, <2>5, <2>6, <2>7, <2>8, <2>9, <2>10,
         <2>11
      DEF Own
  <1>5. CASE UNCHANGED vars
    BY <1>5 DEF vars, signals, history, counts
  <1> QED  BY <1>1, <1>2, <1>3, <1>4, <1>5 DEF Next

THEOREM RunsOnlyStarted == Spec => []RunNeedsStart
  <1>1. Init => Startable
    BY DEF Init, Startable, Began
  <1>2. Startable => RunNeedsStart
    BY DEF Startable, RunNeedsStart
  <1> QED
    BY <1>1, <1>2, InitTyped, StepKeepsTypes, StepKeepsStartable, PTL DEF Spec

(***************************************************************************)
(* A thread whose Suspends were all answered by a Resume sleeps on only if *)
(* a SIGUSR2 found it awake or calls were piled up on it.                  *)
(***************************************************************************)
Owes(t) == "USR1" \in pend[t] \/ handler[t] # "user"

OwesTwice(t) == "USR1" \in pend[t] /\ handler[t] # "user"

Answered ==
  \A t \in Thread :
    ~piled[t] /\ ~missed[t] =>
      /\ OwesTwice(t) => (last[t] = "suspend" /\ "USR2" \in pend[t])
      /\ Owes(t) => (last[t] = "suspend" \/ "USR2" \in pend[t])

LEMMA StepKeepsAnswered ==
  TypeOK /\ Answered /\ [Next]_vars => Answered'
  <1> SUFFICES ASSUME TypeOK, Answered, [Next]_vars PROVE Answered'
    OBVIOUS
  <1> USE DEF Answered, Owes, OwesTwice
  <1>1. ASSUME UNCHANGED <<pend, handler, piled, missed, last>>
        PROVE  Answered'
    BY <1>1
  <1>2. ASSUME NEW u \in Thread, Caller(u) PROVE Answered'
    <2>1. CASE Suspend(u)
      BY <2>1 DEF Suspend, Kill, TypeOK
    <2>2. CASE Resume(u)
      BY <2>2 DEF Resume, Kill, TypeOK
    <2>3. CASE Create(u) \/ Start(u) \/ Abort(u)
      BY <1>1, <2>3 DEF Create, Start, Abort, signals, history
    <2> QED  BY <1>2, <2>1, <2>2, <2>3 DEF Caller
  <1>3. ASSUME NEW u \in Thread, Signal(u) PROVE Answered'
    <2>1. CASE DeliverSuspend(u)
      BY <2>1 DEF DeliverSuspend, Deliverable, Taken, TypeOK
    <2>2. CASE DeliverResume(u)
      BY <2>2 DEF DeliverResume, Taken, TypeOK
    <2>3. CASE SigSuspend(u)
      BY <2>3 DEF SigSuspend, history, TypeOK
    <2>4. CASE Wake(u)
      BY <2>4 DEF Wake, WakeUp, Taken, history, TypeOK
    <2> QED  BY <1>3, <2>1, <2>2, <2>3, <2>4 DEF Signal
  <1>4. ASSUME NEW u \in Thread, Own(u) PROVE Answered'
    BY <1>1, <1>4
    DEF Own, BeginDormant, BeginProc, BeginProcUnstarted, WaitOne, WaitTrue,
        WaitFalse, Enter, Lock, Leave, Exit, Die, signals, history
  <1>5. CASE Set \/ Reset
    BY <1>1, <1>5 DEF Set, Reset, signals, history
  <1>6. CASE UNCHANGED vars
    BY <1>1, <1>6 DEF vars, signals, history
  <1> QED  BY <1>2, <1>3, <1>4, <1>5, <1>6 DEF Next

THEOREM SleepersAreUnanswered == Spec => []SleepsUnanswered
  <1>1. Init => Answered
    BY DEF Init, Answered, Owes, OwesTwice
  <1>2. Answered => SleepsUnanswered
    BY DEF Answered, Owes, SleepsUnanswered
  <1> QED
    BY <1>1, <1>2, InitTyped, StepKeepsTypes, StepKeepsAnswered, PTL DEF Spec

(***************************************************************************)
(* Whatever interrupts and resets do, each Set, and the creation of an     *)
(* event that is set, has ended one WaitOne with true or is still there to *)
(* end one.                                                                *)
(***************************************************************************)
LEMMA StepKeepsSets == TypeOK /\ SetsAreKept /\ [Next]_vars => SetsAreKept'
  <1> SUFFICES ASSUME TypeOK, SetsAreKept, [Next]_vars PROVE SetsAreKept'
    OBVIOUS
  <1> USE DEF SetsAreKept
  <1>1. ASSUME UNCHANGED <<event, sets, waits>> PROVE SetsAreKept'
    BY <1>1
  <1>2. CASE Set \/ Reset
    BY <1>1, <1>2 DEF Set, Reset, LeftSet, TypeOK, counts
  <1>3. ASSUME NEW u \in Thread, Caller(u) PROVE SetsAreKept'
    BY <1>1, <1>3 DEF Caller, Create, Start, Suspend, Resume, Abort, counts
  <1>4. ASSUME NEW u \in Thread, Signal(u) PROVE SetsAreKept'
    BY <1>1, <1>4
    DEF Signal, DeliverSuspend, DeliverResume, SigSuspend, Wake, counts
  <1>5. ASSUME NEW u \in Thread, WaitTrue(u) PROVE SetsAreKept'
    BY <1>5 DEF WaitTrue, TypeOK
  <1>6. ASSUME NEW u \in Thread, Own(u), ~WaitTrue(u) PROVE SetsAreKept'
    BY <1>1, <1>6
    DEF Own, BeginDormant, BeginProc, BeginProcUnstarted, WaitOne, WaitFalse,
        Enter, Lock, Leave, Exit, Die, counts
  <1>7. CASE UNCHANGED vars
    BY <1>1, <1>7 DEF vars, counts
  <1> QED  BY <1>2, <1>3, <1>4, <1>5, <1>6, <1>7 DEF Next

THEOREM NoSetIsLost == Spec => []SetsAreKept
  <1>1. Init => SetsAreKept
    BY DEF Init, SetsAreKept
  <1> QED
    BY <1>1, InitTyped, StepKeepsTypes, StepKeepsSets, PTL DEF Spec

=============================================================================
