-------------------------- MODULE AsyncSerialProofs --------------------------
(* AsyncSerial keeps its output a stream, for any number of writes,        *)
(* arrivals, faults and reopenings.                                        *)
EXTENDS AsyncSerial, SequenceTheorems, TLAPS

(* Nothing of writeBuffer is left when there is no buffer, or when the     *)
(* handler that replaces it is queued.                                     *)
BufferSpent ==
  /\ ~busy => wbuf = << >>
  /\ \A j \in 1 .. Len(handlers) : handlers[j] = "writeEnd" => wbuf = << >>

(* Nothing is lost, doubled or overtaken on its way out: what clients      *)
(* wrote is what left on the line, then the rest of the write buffer, then *)
(* the write queue; this holds across errors, aborts and reopening.        *)
OutputFifo == written = wire \o wbuf \o writeQueue

IInv == TypeOK /\ OneWrite /\ BufferSpent /\ OutputFifo

(* OneWrite and BufferSpent, of a handler queue h, the flags w and b and   *)
(* the rest r of the buffer.                                               *)
Sound(h, w, b, r) ==
  /\ w => b
  /\ \A j \in 1 .. Len(h) : IsCompletion(h[j]) => b /\ ~w
  /\ \A i, j \in 1 .. Len(h) : IsCompletion(h[i]) /\ IsCompletion(h[j]) => i = j
  /\ ~b => r = << >>
  /\ \A j \in 1 .. Len(h) : h[j] = "writeEnd" => r = << >>

Quiet == {"doRead", "doWrite", "doClose", "readEnd", "readError"}

NoCompletion(h) == \A j \in 1 .. Len(h) : ~IsCompletion(h[j])

LEMMA SoundIsInv ==
  Sound(handlers, wop, busy, wbuf) <=> OneWrite /\ BufferSpent
  BY DEF Sound, OneWrite, BufferSpent

-----------------------------------------------------------------------------
(* Handlers come and go without a second completion ever being queued.     *)

LEMMA AppendQuiet ==
  ASSUME NEW h \in Seq(Handler), NEW w \in BOOLEAN, NEW b \in BOOLEAN,
         NEW r \in Seq(Nat), NEW x \in Handler, ~IsCompletion(x),
         Sound(h, w, b, r)
  PROVE  Append(h, x) \in Seq(Handler) /\ Sound(Append(h, x), w, b, r)
  BY AppendProperties DEF Sound, IsCompletion

LEMMA AppendCompletion ==
  ASSUME NEW h \in Seq(Handler), NEW r \in Seq(Nat), NEW x \in Handler,
         IsCompletion(x), NoCompletion(h), x = "writeEnd" => r = << >>
  PROVE  Append(h, x) \in Seq(Handler) /\ Sound(Append(h, x), FALSE, TRUE, r)
  BY AppendProperties DEF Sound, IsCompletion, NoCompletion

LEMMA TailSound ==
  ASSUME NEW h \in Seq(Handler), NEW w \in BOOLEAN, NEW b \in BOOLEAN,
         NEW r \in Seq(Nat), h # << >>, Sound(h, w, b, r)
  PROVE  Tail(h) \in Seq(Handler) /\ Sound(Tail(h), w, b, r)
  BY HeadTailProperties DEF Sound, IsCompletion

LEMMA TailAfterCompletion ==
  ASSUME NEW h \in Seq(Handler), NEW w \in BOOLEAN, NEW b \in BOOLEAN,
         NEW r \in Seq(Nat), h # << >>, IsCompletion(Head(h)),
         Sound(h, w, b, r)
  PROVE  ~w /\ b /\ Tail(h) \in Seq(Handler) /\ NoCompletion(Tail(h))
  BY HeadTailProperties DEF Sound, IsCompletion, NoCompletion

LEMMA NoneSound ==
  ASSUME NEW h \in Seq(Handler), NEW w \in BOOLEAN, NEW b \in BOOLEAN,
         NEW r \in Seq(Nat), NoCompletion(h), w => b, ~b => r = << >>
  PROVE  Sound(h, w, b, r)
  BY DEF Sound, NoCompletion, IsCompletion

LEMMA WriteUnderWay ==
  ASSUME NEW h \in Seq(Handler), NEW b \in BOOLEAN, NEW r \in Seq(Nat),
         NEW w \in BOOLEAN, Sound(h, w, b, r), w \/ ~b
  PROVE  NoCompletion(h)
  BY DEF Sound, NoCompletion, IsCompletion

-----------------------------------------------------------------------------
(* Facts about sequences of bytes. *)

(* The oldest byte of the second sequence may move to the first.           *)
LEMMA MoveHead ==
  ASSUME NEW a \in Seq(Nat), NEW b \in Seq(Nat), NEW c \in Seq(Nat), b # << >>
  PROVE  /\ Append(a, Head(b)) \in Seq(Nat) /\ Tail(b) \in Seq(Nat)
         /\ Append(a, Head(b)) \o Tail(b) \o c = a \o b \o c
         /\ (a \o b \o c)[Len(a) + 1] = Head(b)
         /\ Len(a) < Len(a \o b \o c)
  <1>1. Head(b) \in Nat /\ Tail(b) \in Seq(Nat) /\ Head(b) = b[1]
    BY HeadTailProperties
  <1>2. Append(a, Head(b)) \in Seq(Nat)
    BY <1>1, AppendProperties
  <1>3. Append(a, Head(b)) \o Tail(b) = a \o b
    <2> DEFINE s == Append(a, Head(b)) \o Tail(b)
               t == a \o b
    <2>1. /\ s \in Seq(Nat) /\ t \in Seq(Nat)
          /\ Len(s) = Len(a) + Len(b) /\ Len(t) = Len(a) + Len(b)
      BY <1>1, <1>2, ConcatProperties, HeadTailProperties, AppendProperties
    <2>2. ASSUME NEW i \in 1 .. Len(a) + Len(b) PROVE s[i] = t[i]
      BY <1>1, <1>2, ConcatProperties, HeadTailProperties, AppendProperties
    <2> QED
      BY <2>1, <2>2, SeqEqual
  <1>4. a \o b \in Seq(Nat) /\ Len(a \o b) = Len(a) + Len(b) /\ Len(b) >= 1
        /\ (a \o b)[Len(a) + 1] = b[1]
    BY ConcatProperties, EmptySeq
  <1>5. (a \o b \o c)[Len(a) + 1] = b[1] /\ Len(a) < Len(a \o b \o c)
    BY <1>4, ConcatProperties
  <1> QED
    BY <1>1, <1>2, <1>3, <1>5

LEMMA AppendLast ==
  ASSUME NEW a \in Seq(Nat), NEW b \in Seq(Nat), NEW c \in Seq(Nat), NEW x \in Nat
  PROVE  a \o b \o Append(c, x) = Append(a \o b \o c, x)
  <1> DEFINE p == a \o b
  <1>1. p \in Seq(Nat)
    BY ConcatProperties
  <1> HIDE DEF p
  <1>2. p \o Append(c, x) = Append(p \o c, x)
    <2> DEFINE s == p \o Append(c, x)
               t == Append(p \o c, x)
    <2>1. /\ s \in Seq(Nat) /\ t \in Seq(Nat)
          /\ Len(s) = Len(p) + Len(c) + 1 /\ Len(t) = Len(p) + Len(c) + 1
      BY <1>1, ConcatProperties, AppendProperties
    <2>2. ASSUME NEW i \in 1 .. Len(s) PROVE s[i] = t[i]
      <3>1. CASE i \in 1 .. Len(p)
        <4>1. s[i] = p[i] /\ (p \o c)[i] = p[i]
          BY <1>1, <3>1, ConcatProperties, AppendProperties
        <4>2. i \in 1 .. Len(p \o c) /\ p \o c \in Seq(Nat)
          BY <1>1, <3>1, ConcatProperties
        <4>3. t[i] = (p \o c)[i]
          BY <4>2, AppendProperties
        <4> QED
          BY <4>1, <4>3
      <3>2. CASE i \in Len(p) + 1 .. Len(p) + Len(c)
        <4>1. i - Len(p) \in 1 .. Len(c)
          BY <1>1, <3>2
        <4>2. s[i] = c[i - Len(p)] /\ (p \o c)[i] = c[i - Len(p)]
          BY <1>1, <3>2, <4>1, ConcatProperties, AppendProperties
        <4>3. i \in 1 .. Len(p \o c) /\ p \o c \in Seq(Nat)
          BY <1>1, <3>2, ConcatProperties
        <4>4. t[i] = (p \o c)[i]
          BY <4>3, AppendProperties
        <4> QED
          BY <4>2, <4>4
      <3>3. CASE i = Len(p) + Len(c) + 1
        <4>1. s[i] = x
          BY <1>1, <3>3, ConcatProperties, AppendProperties
        <4>2. t[i] = x
          BY <1>1, <3>3, ConcatProperties, AppendProperties
        <4> QED
          BY <4>1, <4>2
      <3>4. Len(p) \in Nat /\ Len(c) \in Nat /\ Len(s) = Len(p) + Len(c) + 1
        BY <1>1, <2>1
      <3> QED
        BY <3>1, <3>2, <3>3, <3>4
    <2> HIDE DEF s, t
    <2>3. s = t
      BY <2>1, <2>2, SeqEqual
    <2> QED
      BY <2>3 DEF s, t
  <1> QED
    BY <1>2 DEF p

LEMMA EmptyMiddle ==
  ASSUME NEW a \in Seq(Nat), NEW c \in Seq(Nat)
  PROVE  a \o << >> \o c = a \o c \o << >>
  OBVIOUS

-----------------------------------------------------------------------------
(* The handler queue of a step that keeps the other variables of the       *)
(* invariant.                                                              *)
Still == UNCHANGED <<wop, busy, wbuf, writeQueue, written, wire>>

LEMMA StillIInv ==
  ASSUME IInv, TypeOK', Still,
         \/ handlers' = handlers
         \/ \E x \in Quiet : handlers' = Append(handlers, x)
         \/ handlers # << >> /\ handlers' = Tail(handlers) \o << >>
         \/ handlers # << >> /\ handlers' = Tail(handlers) \o <<"readError">>
  PROVE  IInv'
  <1>1. /\ handlers \in Seq(Handler) /\ wop \in BOOLEAN /\ busy \in BOOLEAN
        /\ wbuf \in Seq(Nat) /\ Sound(handlers, wop, busy, wbuf)
    BY SoundIsInv DEF IInv, TypeOK, FlagsOK, OutputOK
  <1>2. \A x \in Quiet : x \in Handler /\ ~IsCompletion(x)
    BY DEF Quiet, Handler, IsCompletion
  <1>3. Sound(handlers', wop, busy, wbuf)
    <2>1. CASE handlers' = handlers
      BY <1>1, <2>1
    <2>2. ASSUME NEW x \in Quiet, handlers' = Append(handlers, x)
          PROVE  Sound(handlers', wop, busy, wbuf)
      BY <1>1, <1>2, <2>2, AppendQuiet
    <2>3. CASE handlers # << >> /\ handlers' = Tail(handlers) \o << >>
      BY <1>1, <2>3, TailSound, ConcatEmptySeq
    <2>4. CASE handlers # << >> /\ handlers' = Tail(handlers) \o <<"readError">>
      <3>1. Tail(handlers) \in Seq(Handler) /\ Sound(Tail(handlers), wop, busy, wbuf)
        BY <1>1, <2>4, TailSound
      <3>2. "readError" \in Quiet
        BY DEF Quiet
      <3>3. handlers' = Append(Tail(handlers), "readError")
        BY <1>2, <2>4, <3>1, <3>2, AppendIsConcat
      <3> QED
        BY <1>1, <1>2, <3>1, <3>2, <3>3, AppendQuiet
    <2> QED
      BY <2>1, <2>2, <2>3, <2>4
  <1>4. Sound(handlers', wop', busy', wbuf')
    BY <1>3 DEF Still
  <1>5. OneWrite' /\ BufferSpent'
    BY <1>4 DEF Sound, OneWrite, BufferSpent
  <1>6. OutputFifo'
    BY DEF Still, IInv, OutputFifo
  <1> QED
    BY <1>5, <1>6 DEF IInv

(* doClose, called from any handler h, aborts a write with a completion.   *)
LEMMA CloseIInv ==
  ASSUME IInv, TypeOK', NEW failed \in BOOLEAN, handlers # << >>,
         ClosePort(failed),
         UNCHANGED <<busy, wbuf, writeQueue, written, wire>>
  PROVE  IInv'
  <1>1. /\ handlers \in Seq(Handler) /\ wop \in BOOLEAN /\ busy \in BOOLEAN
        /\ wbuf \in Seq(Nat) /\ Sound(handlers, wop, busy, wbuf)
    BY SoundIsInv DEF IInv, TypeOK, FlagsOK, OutputOK
  <1>2. Tail(handlers) \in Seq(Handler) /\ Sound(Tail(handlers), wop, busy, wbuf)
    BY <1>1, TailSound
  <1>3. "readError" \in Handler /\ "writeError" \in Handler
        /\ ~IsCompletion("readError") /\ IsCompletion("writeError")
    BY DEF Handler, IsCompletion
  <1> DEFINE mid == IF rop THEN Append(Tail(handlers), "readError")
                    ELSE Tail(handlers)
  <1>4. mid \in Seq(Handler) /\ Sound(mid, wop, busy, wbuf)
    BY <1>1, <1>2, <1>3, AppendQuiet
  <1>5. handlers' = IF wop THEN Append(mid, "writeError") ELSE mid
    <2>1. handlers' = Tail(handlers) \o Aborted
      BY DEF ClosePort, Then
    <2>2. CASE rop /\ wop
      BY <1>2, <2>1, <2>2, <1>3 DEF Aborted
    <2>3. CASE rop /\ ~wop
      BY <1>2, <2>1, <2>3, <1>3 DEF Aborted
    <2>4. CASE ~rop /\ wop
      BY <1>2, <2>1, <2>4, <1>3 DEF Aborted
    <2>5. CASE ~rop /\ ~wop
      BY <1>2, <2>1, <2>5, <1>3 DEF Aborted
    <2> QED
      BY <2>2, <2>3, <2>4, <2>5
  <1>6. Sound(handlers', FALSE, busy, wbuf)
    <2>1. CASE wop
      <3>1. NoCompletion(mid) /\ busy = TRUE
        BY <1>1, <1>4, <2>1, WriteUnderWay DEF Sound
      <3>2. Sound(Append(mid, "writeError"), FALSE, TRUE, wbuf)
        BY <1>1, <1>3, <1>4, <3>1, AppendCompletion
      <3> QED
        BY <1>5, <2>1, <3>1, <3>2
    <2>2. CASE ~wop
      BY <1>1, <1>4, <1>5, <2>2
    <2> QED
      BY <2>1, <2>2
  <1>7. Sound(handlers', wop', busy', wbuf')
    BY <1>6 DEF ClosePort
  <1>8. OneWrite' /\ BufferSpent'
    BY <1>7 DEF Sound, OneWrite, BufferSpent
  <1>9. OutputFifo'
    BY DEF IInv, OutputFifo
  <1> QED
    BY <1>8, <1>9 DEF IInv

(* A write that is under way ends with its completion x.                   *)
LEMMA CompletionIInv ==
  ASSUME IInv, TypeOK', NEW x \in Handler, IsCompletion(x),
         x = "writeEnd" => wbuf = << >>,
         wop, wop' = FALSE, handlers' = Append(handlers, x),
         UNCHANGED <<busy, wbuf, writeQueue, written, wire>>
  PROVE  IInv'
  <1>1. /\ handlers \in Seq(Handler) /\ wop \in BOOLEAN /\ busy \in BOOLEAN
        /\ wbuf \in Seq(Nat) /\ Sound(handlers, wop, busy, wbuf)
    BY SoundIsInv DEF IInv, TypeOK, FlagsOK, OutputOK
  <1>2. NoCompletion(handlers) /\ busy = TRUE
    BY <1>1, WriteUnderWay DEF Sound
  <1>3. Sound(handlers', FALSE, TRUE, wbuf)
    BY <1>1, <1>2, AppendCompletion
  <1>4. OneWrite' /\ BufferSpent'
    BY <1>2, <1>3 DEF Sound, OneWrite, BufferSpent
  <1>5. OutputFifo'
    BY DEF IInv, OutputFifo
  <1> QED
    BY <1>4, <1>5 DEF IInv

(* The queue moves to a buffer that is spent. *)
LEMMA TakeIInv ==
  ASSUME IInv, TypeOK', handlers # << >>, NoCompletion(Tail(handlers)),
         ~wop, wbuf = << >>, TakeQueue, UNCHANGED <<written, wire>>
  PROVE  IInv'
  <1>1. /\ handlers \in Seq(Handler) /\ Tail(handlers) \in Seq(Handler)
        /\ writeQueue \in Seq(Nat) /\ wire \in Seq(Nat)
    BY HeadTailProperties DEF IInv, TypeOK, FlagsOK, OutputOK
  <1>2. wbuf' = writeQueue /\ writeQueue' = << >> /\ busy' = TRUE
    BY DEF TakeQueue
  <1>3. Sound(handlers', wop', TRUE, writeQueue)
    <2>1. CASE port
      <3>1. handlers' = Tail(handlers) /\ wop' = TRUE
        BY <1>1, <2>1, ConcatEmptySeq DEF TakeQueue, Then
      <3> QED
        BY <1>1, <3>1, NoneSound
    <2>2. CASE ~port
      <3>1. "writeError" \in Handler /\ IsCompletion("writeError")
        BY DEF Handler, IsCompletion
      <3>2. handlers' = Append(Tail(handlers), "writeError") /\ wop' = FALSE
        BY <1>1, <2>2, <3>1, AppendIsConcat DEF TakeQueue, Then, IInv, TypeOK, FlagsOK
      <3> QED
        BY <1>1, <3>1, <3>2, AppendCompletion
    <2> QED
      BY <2>1, <2>2
  <1>4. OneWrite' /\ BufferSpent'
    BY <1>2, <1>3 DEF Sound, OneWrite, BufferSpent
  <1>5. OutputFifo'
    BY <1>1, <1>2, EmptyMiddle DEF IInv, OutputFifo
  <1> QED
    BY <1>4, <1>5 DEF IInv

-----------------------------------------------------------------------------
LEMMA InitIInv == Init => IInv
  <1> SUFFICES ASSUME Init PROVE IInv
    OBVIOUS
  <1>1. TypeOK
    BY EmptySeq DEF Init, TypeOK, FlagsOK, OutputOK, InputOK
  <1>2. OneWrite /\ BufferSpent
    BY DEF Init, OneWrite, BufferSpent
  <1>3. OutputFifo
    BY DEF Init, OutputFifo
  <1> QED
    BY <1>1, <1>2, <1>3 DEF IInv

(* A handler that returns, or that causes completions.                     *)
LEMMA ThenType ==
  ASSUME handlers \in Seq(Handler), handlers # << >>
  PROVE  /\ Tail(handlers) \o << >> \in Seq(Handler)
         /\ Tail(handlers) \o <<"readError">> \in Seq(Handler)
         /\ Tail(handlers) \o <<"writeError">> \in Seq(Handler)
         /\ Tail(handlers) \o (<<"readError">> \o <<"writeError">>) \in Seq(Handler)
  <1>1. Tail(handlers) \in Seq(Handler)
    BY HeadTailProperties
  <1>2. /\ << >> \in Seq(Handler) /\ <<"readError">> \in Seq(Handler)
        /\ <<"writeError">> \in Seq(Handler)
        /\ <<"readError">> \o <<"writeError">> \in Seq(Handler)
    BY DEF Handler
  <1> QED
    BY <1>1, <1>2, ConcatProperties

LEMMA PostType ==
  ASSUME handlers \in Seq(Handler), NEW h \in Handler, Post(h)
  PROVE  handlers' \in Seq(Handler)
  BY AppendProperties DEF Post

LEMMA CloseType ==
  ASSUME TypeOK, handlers # << >>, NEW failed \in BOOLEAN, ClosePort(failed)
  PROVE  /\ handlers' \in Seq(Handler) /\ port' \in BOOLEAN
         /\ rop' \in BOOLEAN /\ wop' \in BOOLEAN /\ error' \in BOOLEAN
  <1>1. handlers' \in Seq(Handler)
    <2>1. handlers' = Tail(handlers) \o Aborted
      BY DEF ClosePort, Then
    <2>2. Aborted \in {<< >>, <<"readError">>, <<"writeError">>,
                       <<"readError">> \o <<"writeError">>}
      <3>1. CASE rop /\ wop
        BY <3>1 DEF Aborted
      <3>2. CASE rop /\ ~wop
        BY <3>2 DEF Aborted
      <3>3. CASE ~rop /\ wop
        BY <3>3 DEF Aborted
      <3>4. CASE ~rop /\ ~wop
        BY <3>4 DEF Aborted
      <3> QED
        BY <3>1, <3>2, <3>3, <3>4
    <2> QED
      BY <2>1, <2>2, ThenType DEF TypeOK
  <1>2. port' \in BOOLEAN /\ rop' \in BOOLEAN /\ wop' \in BOOLEAN
        /\ error' \in BOOLEAN
    BY DEF ClosePort, TypeOK, FlagsOK
  <1> QED
    BY <1>1, <1>2

LEMMA StartReadType ==
  ASSUME TypeOK, handlers # << >>, StartRead
  PROVE  handlers' \in Seq(Handler) /\ rop' \in BOOLEAN
  BY ThenType DEF StartRead, Then, TypeOK, FlagsOK

LEMMA TakeType ==
  ASSUME TypeOK, handlers # << >>, TakeQueue
  PROVE  /\ handlers' \in Seq(Handler) /\ wop' \in BOOLEAN /\ busy' \in BOOLEAN
         /\ wbuf' \in Seq(Nat) /\ writeQueue' \in Seq(Nat)
  BY ThenType, EmptySeq DEF TakeQueue, Then, TypeOK, FlagsOK, OutputOK

LEMMA OpenType ==
  ASSUME TypeOK, OpenPort
  PROVE  /\ handlers' \in Seq(Handler) /\ error' \in BOOLEAN
         /\ port' \in BOOLEAN /\ isopen' \in BOOLEAN /\ faults' \in Nat
         /\ ctl' \in {"idle", "start", "clear", "mark", "callback", "join"}
  <1>1. handlers' \in Seq(Handler)
    <2>1. "doRead" \in Handler
      BY DEF Handler
    <2> QED
      BY <2>1, PostType DEF OpenPort, TypeOK
  <1>2. error' \in BOOLEAN /\ isopen' \in BOOLEAN
    BY DEF OpenPort, TypeOK, FlagsOK
  <1>4. port' \in BOOLEAN
    BY DEF OpenPort, TypeOK, FlagsOK
  <1>5. faults' \in Nat
    BY DEF OpenPort, TypeOK, FlagsOK
  <1>3. ctl' \in {"idle", "start", "clear", "mark", "callback", "join"}
    BY DEF OpenPort
  <1> QED
    BY <1>1, <1>2, <1>3, <1>4, <1>5

LEMMA NextTypeOK == TypeOK /\ [Next]_vars => TypeOK'
  <1> SUFFICES ASSUME TypeOK, [Next]_vars PROVE TypeOK'
    OBVIOUS
  <1> USE DEF TypeOK, FlagsOK, control, output, input
  <1>0. /\ "doRead" \in Handler /\ "doWrite" \in Handler /\ "doClose" \in Handler
        /\ "readEnd" \in Handler /\ "readError" \in Handler
        /\ "writeEnd" \in Handler /\ "writeError" \in Handler
    BY DEF Handler
  <1>1. CASE Open
    <2>0. /\ opens' = opens + 1 /\ reopen' \in BOOLEAN /\ callback' = callback
          /\ thread' = thread /\ wop' = wop /\ rop' = rop /\ busy' = busy
          /\ toPost' = toPost
      BY <1>1 DEF Open
    <2>9. OutputOK' /\ InputOK'
      BY <1>1 DEF Open, OutputOK, InputOK
    <2>1. CASE CloseFlags
      <3>1. handlers' \in Seq(Handler)
        BY <1>0, <2>1, PostType DEF CloseFlags
      <3>2. ctl' = "join" /\ isopen' = FALSE /\ error' = error /\ port' = port
            /\ faults' = faults
        BY <2>1 DEF CloseFlags
      <3>3. opens' \in Nat
        BY <2>0
      <3>4. /\ reopen' \in BOOLEAN /\ isopen' \in BOOLEAN
            /\ error' \in BOOLEAN /\ port' \in BOOLEAN
            /\ wop' \in BOOLEAN /\ rop' \in BOOLEAN /\ busy' \in BOOLEAN
            /\ callback' \in BOOLEAN
        BY <2>0, <3>2, Zenon
      <3> QED
        BY <2>0, <2>9, <3>1, <3>2, <3>3, <3>4
    <2>2. CASE OpenPort
      BY <2>0, <2>2, <2>9, OpenType
    <2> QED
      BY <1>1, <2>1, <2>2 DEF Open
  <1>2. CASE StartThread
    BY <1>2 DEF StartThread, OutputOK, InputOK
  <1>3. CASE ClearError
    BY <1>3 DEF ClearError, OutputOK, InputOK
  <1>4. CASE MarkOpen
    BY <1>4 DEF MarkOpen, OutputOK, InputOK
  <1>5. CASE SetReadCallback
    BY <1>5 DEF SetReadCallback, OutputOK, InputOK
  <1>6. CASE Close
    <2>1. handlers' \in Seq(Handler)
      BY <1>0, <1>6, PostType DEF Close, CloseFlags
    <2> QED
      BY <1>6, <2>1 DEF Close, CloseFlags, OutputOK, InputOK
  <1>7. CASE Joined
    <2>0. /\ opens' = opens /\ reopen' = FALSE /\ callback' = callback
          /\ thread' = thread /\ wop' = wop /\ rop' = rop /\ busy' = busy
          /\ toPost' = toPost
      BY <1>7 DEF Joined
    <2>9. OutputOK' /\ InputOK'
      BY <1>7 DEF Joined, OutputOK, InputOK
    <2>1. CASE OpenPort
      BY <2>0, <2>1, <2>9, OpenType
    <2>2. CASE ~OpenPort
      <3>1. /\ ctl' = "idle" /\ isopen' = isopen /\ error' = error
            /\ port' = port /\ handlers' = handlers /\ faults' = faults
        BY <1>7, <2>2 DEF Joined
      <3> QED
        BY <2>0, <2>9, <3>1
    <2> QED
      BY <2>1, <2>2
  <1>8. CASE Write
    <2>1. Len(written) + 1 \in Nat
      BY LenProperties DEF OutputOK
    <2>2. OutputOK'
      BY <1>8, <2>1, AppendProperties DEF Write, OutputOK
    <2> QED
      BY <1>8, <2>2 DEF Write, InputOK
  <1>9. CASE PostWrite
    <2>1. handlers' \in Seq(Handler)
      BY <1>0, <1>9, PostType DEF PostWrite
    <2> QED
      BY <1>9, <2>1 DEF PostWrite, Locked, OutputOK, InputOK
  <1>10. CASE Read
    <2>1. PICK n \in 1 .. Len(readQueue) :
            /\ taken' = taken \o SubSeq(readQueue, 1, n)
            /\ readQueue' = SubSeq(readQueue, n + 1, Len(readQueue))
      BY <1>10 DEF Read
    <2>2. /\ SubSeq(readQueue, 1, n) \in Seq(Nat)
          /\ SubSeq(readQueue, n + 1, Len(readQueue)) \in Seq(Nat)
      BY SubSeqProperties DEF InputOK
    <2>3. taken' \in Seq(Nat) /\ readQueue' \in Seq(Nat)
      BY <2>1, <2>2, ConcatProperties DEF InputOK
    <2>4. InputOK'
      BY <1>10, <2>3 DEF Read, InputOK
    <2> QED
      BY <1>10, <2>4 DEF Read, OutputOK
  <1>11. CASE DoRead
    <2>1. handlers' \in Seq(Handler) /\ rop' \in BOOLEAN
      BY <1>11, StartReadType DEF DoRead, Running
    <2> QED
      BY <1>11, <2>1 DEF DoRead, OutputOK, InputOK
  <1>12. CASE DoClose
    <2>1. /\ handlers' \in Seq(Handler) /\ port' \in BOOLEAN
          /\ rop' \in BOOLEAN /\ wop' \in BOOLEAN /\ error' \in BOOLEAN
      BY <1>12, CloseType DEF DoClose, Running
    <2> QED
      BY <1>12, <2>1 DEF DoClose, OutputOK, InputOK
  <1>13. CASE ReadEnd
    <2>1. handlers' \in Seq(Handler) /\ rop' \in BOOLEAN
      BY <1>13, StartReadType DEF ReadEnd, Running
    <2>2. InputOK'
      BY <1>13, ConcatProperties, EmptySeq DEF ReadEnd, Queued, InputOK
    <2> QED
      BY <1>13, <2>1, <2>2 DEF ReadEnd, OutputOK
  <1>14. CASE ReadError
    <2>1. CASE isopen
      <3>1. /\ handlers' \in Seq(Handler) /\ port' \in BOOLEAN
            /\ rop' \in BOOLEAN /\ wop' \in BOOLEAN /\ error' \in BOOLEAN
        BY <1>14, <2>1, CloseType DEF ReadError, Running
      <3> QED
        BY <1>14, <3>1 DEF ReadError, OutputOK, InputOK
    <2>2. CASE ~isopen
      <3>1. handlers' \in Seq(Handler)
        BY <1>14, <2>2, ThenType DEF ReadError, Running, Then
      <3> QED
        BY <1>14, <2>2, <3>1 DEF ReadError, OutputOK, InputOK
    <2> QED
      BY <2>1, <2>2
  <1>15. CASE DoWrite
    <2>1. CASE MayStart
      <3>1. /\ handlers' \in Seq(Handler) /\ wop' \in BOOLEAN /\ busy' \in BOOLEAN
            /\ wbuf' \in Seq(Nat) /\ writeQueue' \in Seq(Nat)
        BY <1>15, <2>1, TakeType DEF DoWrite, Running
      <3> QED
        BY <1>15, <3>1 DEF DoWrite, OutputOK, InputOK
    <2>2. CASE ~MayStart
      <3>1. handlers' \in Seq(Handler)
        BY <1>15, <2>2, ThenType DEF DoWrite, Running, Then
      <3> QED
        BY <1>15, <2>2, <3>1 DEF DoWrite, OutputOK, InputOK
    <2> QED
      BY <2>1, <2>2
  <1>16. CASE WriteEnd
    <2>1. CASE QueueEmpty
      <3>1. handlers' \in Seq(Handler)
        BY <1>16, <2>1, ThenType DEF WriteEnd, Running, Then
      <3> QED
        BY <1>16, <2>1, <3>1, ZenonT(30) DEF WriteEnd, OutputOK, InputOK
    <2>2. CASE ~QueueEmpty
      <3>1. /\ handlers' \in Seq(Handler) /\ wop' \in BOOLEAN /\ busy' \in BOOLEAN
            /\ wbuf' \in Seq(Nat) /\ writeQueue' \in Seq(Nat)
        BY <1>16, <2>2, TakeType DEF WriteEnd, Running
      <3> QED
        BY <1>16, <3>1 DEF WriteEnd, OutputOK, InputOK
    <2> QED
      BY <2>1, <2>2
  <1>17. CASE WriteError
    <2>1. /\ handlers' \in Seq(Handler) /\ port' \in BOOLEAN
          /\ rop' \in BOOLEAN /\ wop' \in BOOLEAN /\ error' \in BOOLEAN
      BY <1>17, CloseType DEF WriteError, Running
    <2> QED
      BY <1>17, <2>1 DEF WriteError, OutputOK, InputOK
  <1>18. CASE RunReturns
    BY <1>18 DEF RunReturns, OutputOK, InputOK
  <1>19. CASE EmitByte
    <2>1. wbuf' \in Seq(Nat) /\ wire' \in Seq(Nat)
      BY <1>19, HeadTailProperties, AppendProperties DEF EmitByte, OutputOK
    <2> QED
      BY <1>19, <2>1 DEF EmitByte, OutputOK, InputOK
  <1>20. CASE WriteComplete
    <2>1. handlers' \in Seq(Handler)
      BY <1>0, <1>20, PostType DEF WriteComplete
    <2> QED
      BY <1>20, <2>1, ZenonT(30) DEF WriteComplete, OutputOK, InputOK
  <1>21. CASE Arrive
    <2>1. handlers' \in Seq(Handler)
      BY <1>0, <1>21, PostType DEF Arrive
    <2>2. Len(arrived) + 1 \in Nat /\ <<Len(arrived) + 1>> \in Seq(Nat)
      BY LenProperties DEF InputOK
    <2>3. InputOK'
      BY <1>21, <2>2, AppendProperties DEF Arrive, InputOK
    <2> QED
      BY <1>21, <2>1, <2>3, ZenonT(30) DEF Arrive, OutputOK
  <1>22. CASE DeviceFault
    <2>1. handlers' \in Seq(Handler)
      BY <1>0, <1>22, PostType DEF DeviceFault
    <2>2. rop' \in BOOLEAN /\ wop' \in BOOLEAN /\ faults' \in Nat
      <3>1. (rop' = FALSE /\ wop' = wop) \/ (wop' = FALSE /\ rop' = rop)
        BY <1>22 DEF DeviceFault
      <3>2. faults' \in Nat
        BY <1>22 DEF DeviceFault
      <3> QED
        BY <3>1, <3>2
    <2>3. UNCHANGED <<control, error, port, thread, output, input>>
      BY <1>22 DEF DeviceFault
    <2>4. OutputOK' /\ InputOK'
      BY <2>3 DEF OutputOK, InputOK
    <2> QED
      BY <2>1, <2>2, <2>3, <2>4
  <1>23. CASE UNCHANGED vars
    BY <1>23 DEF vars, OutputOK, InputOK
  <1> QED
    BY <1>1, <1>2, <1>3, <1>4, <1>5, <1>6, <1>7, <1>8, <1>9, <1>10, <1>11,
       <1>12, <1>13, <1>14, <1>15, <1>16, <1>17, <1>18, <1>19, <1>20, <1>21,
       <1>22, <1>23 DEF Next, Control, Background, Device

-----------------------------------------------------------------------------
LEMMA NextIInv == IInv /\ [Next]_vars => IInv'
  <1> SUFFICES ASSUME IInv, [Next]_vars PROVE IInv'
    OBVIOUS
  <1>0. TypeOK /\ TypeOK'
    BY NextTypeOK DEF IInv
  <1>a. /\ handlers \in Seq(Handler) /\ wop \in BOOLEAN /\ busy \in BOOLEAN
        /\ wbuf \in Seq(Nat) /\ writeQueue \in Seq(Nat)
        /\ written \in Seq(Nat) /\ wire \in Seq(Nat)
        /\ Sound(handlers, wop, busy, wbuf)
    BY <1>0, SoundIsInv DEF IInv, TypeOK, FlagsOK, OutputOK
  <1>b. "doRead" \in Quiet /\ "doWrite" \in Quiet /\ "doClose" \in Quiet
        /\ "readEnd" \in Quiet /\ "readError" \in Quiet
    BY DEF Quiet
  <1> USE DEF output
  <1>1. CASE Open
    <2>1. Still
      BY <1>1 DEF Open, Still
    <2>2. handlers' = handlers \/ \E x \in Quiet : handlers' = Append(handlers, x)
      BY <1>1, <1>b DEF Open, CloseFlags, OpenPort, Post
    <2> QED
      BY <1>0, <2>1, <2>2, StillIInv
  <1>2. CASE StartThread
    BY <1>0, <1>2, StillIInv DEF StartThread, Still
  <1>3. CASE ClearError
    BY <1>0, <1>3, StillIInv DEF ClearError, Still
  <1>4. CASE MarkOpen
    BY <1>0, <1>4, StillIInv DEF MarkOpen, Still
  <1>5. CASE SetReadCallback
    BY <1>0, <1>5, StillIInv DEF SetReadCallback, Still
  <1>6. CASE Close
    BY <1>0, <1>6, <1>b, StillIInv DEF Close, CloseFlags, Post, Still
  <1>7. CASE Joined
    <2>1. Still
      BY <1>7 DEF Joined, Still
    <2>2. handlers' = handlers \/ \E x \in Quiet : handlers' = Append(handlers, x)
      BY <1>7, <1>b DEF Joined, OpenPort, Post
    <2> QED
      BY <1>0, <2>1, <2>2, StillIInv
  <1>8. CASE Write
    <2>1. UNCHANGED <<handlers, wop, busy, wbuf, wire>>
      BY <1>8 DEF Write
    <2>2. OneWrite' /\ BufferSpent'
      BY <2>1 DEF IInv, OneWrite, BufferSpent
    <2>3. Len(written) + 1 \in Nat
      BY <1>a, LenProperties
    <2>4. OutputFifo'
      <3>1. wire \o wbuf \o Append(writeQueue, Len(written) + 1)
              = Append(written, Len(written) + 1)
        BY <1>a, <2>3, AppendLast, SMTT(30) DEF IInv, OutputFifo
      <3> QED
        BY <1>8, <2>1, <3>1 DEF Write, OutputFifo
    <2> QED
      BY <1>0, <2>2, <2>4 DEF IInv
  <1>9. CASE PostWrite
    BY <1>0, <1>9, <1>b, StillIInv DEF PostWrite, Post, Still
  <1>10. CASE Read
    BY <1>0, <1>10, StillIInv DEF Read, Still
  <1>11. CASE DoRead
    BY <1>0, <1>11, StillIInv DEF DoRead, Running, StartRead, Then, Still
  <1>12. CASE DoClose
    <2>1. /\ handlers # << >> /\ ClosePort(FALSE)
          /\ UNCHANGED <<busy, wbuf, writeQueue, written, wire>>
      BY <1>12 DEF DoClose, Running
    <2> QED
      BY <1>0, <2>1, CloseIInv
  <1>13. CASE ReadEnd
    BY <1>0, <1>13, StillIInv DEF ReadEnd, Running, StartRead, Then, Still
  <1>14. CASE ReadError
    <2>1. CASE isopen
      <3>1. /\ handlers # << >> /\ ClosePort(TRUE)
            /\ UNCHANGED <<busy, wbuf, writeQueue, written, wire>>
        BY <1>14, <2>1 DEF ReadError, Running
      <3> QED
        BY <1>0, <3>1, CloseIInv
    <2>2. CASE ~isopen
      BY <1>0, <1>14, <2>2, StillIInv DEF ReadError, Running, Then, Still
    <2> QED
      BY <2>1, <2>2
  <1>15. CASE DoWrite
    <2>1. CASE MayStart
      <3>1. handlers # << >> /\ TakeQueue /\ UNCHANGED <<written, wire>>
        BY <1>15, <2>1 DEF DoWrite, Running
      <3>2. ~wop /\ wbuf = << >>
        BY <1>a, <2>1 DEF MayStart, Sound
      <3>3. Tail(handlers) \in Seq(Handler)
            /\ Sound(Tail(handlers), wop, busy, wbuf)
        BY <1>a, <3>1, TailSound
      <3>4. NoCompletion(Tail(handlers))
        BY <1>a, <2>1, <3>3, WriteUnderWay DEF MayStart
      <3> QED
        BY <1>0, <3>1, <3>2, <3>4, TakeIInv
    <2>2. CASE ~MayStart
      BY <1>0, <1>15, <2>2, StillIInv DEF DoWrite, Running, Then, Still
    <2> QED
      BY <2>1, <2>2
  <1>16. CASE WriteEnd
    <2>1. handlers # << >> /\ Head(handlers) = "writeEnd"
          /\ UNCHANGED <<written, wire>>
      BY <1>16 DEF WriteEnd, Running
    <2>2. ~wop /\ busy /\ Tail(handlers) \in Seq(Handler)
          /\ NoCompletion(Tail(handlers))
      <3>1. IsCompletion(Head(handlers))
        BY <2>1 DEF IsCompletion
      <3> QED
        BY <1>a, <2>1, <3>1, TailAfterCompletion
    <2>3. wbuf = << >>
      <3>1. handlers[1] = "writeEnd" /\ 1 \in 1 .. Len(handlers)
        BY <1>a, <2>1, HeadTailProperties, EmptySeq
      <3> QED
        BY <1>a, <3>1 DEF Sound
    <2>4. CASE QueueEmpty
      <3>1. /\ handlers' = Tail(handlers) /\ wop' = FALSE /\ busy' = FALSE
            /\ wbuf' = << >> /\ UNCHANGED writeQueue
        BY <1>16, <2>2, <2>3, <2>4, ConcatEmptySeq DEF WriteEnd, Then
      <3>2. Sound(Tail(handlers), FALSE, FALSE, << >>)
        BY <2>2, NoneSound, EmptySeq
      <3>3. OneWrite' /\ BufferSpent'
        BY <3>1, <3>2 DEF Sound, OneWrite, BufferSpent
      <3>4. OutputFifo'
        BY <2>1, <2>3, <3>1 DEF IInv, OutputFifo
      <3> QED
        BY <1>0, <3>3, <3>4 DEF IInv
    <2>5. CASE ~QueueEmpty
      <3>1. TakeQueue
        BY <1>16, <2>5 DEF WriteEnd
      <3> QED
        BY <1>0, <2>1, <2>2, <2>3, <3>1, TakeIInv
    <2> QED
      BY <2>4, <2>5
  <1>17. CASE WriteError
    <2>1. /\ handlers # << >> /\ ClosePort(TRUE)
          /\ UNCHANGED <<busy, wbuf, writeQueue, written, wire>>
      BY <1>17 DEF WriteError, Running
    <2> QED
      BY <1>0, <2>1, CloseIInv
  <1>18. CASE RunReturns
    BY <1>0, <1>18, StillIInv DEF RunReturns, Still
  <1>19. CASE EmitByte
    <2>1. /\ wop /\ wbuf # << >> /\ wire' = Append(wire, Head(wbuf))
          /\ wbuf' = Tail(wbuf)
          /\ UNCHANGED <<handlers, wop, busy, writeQueue, written>>
      BY <1>19 DEF EmitByte
    <2>2. NoCompletion(handlers) /\ busy
      BY <1>a, <2>1, WriteUnderWay DEF Sound
    <2>3. Tail(wbuf) \in Seq(Nat)
      BY <1>a, <2>1, MoveHead
    <2>4. Sound(handlers, wop, busy, Tail(wbuf))
      BY <1>a, <2>2, <2>3, NoneSound
    <2>5. OneWrite' /\ BufferSpent'
      BY <2>1, <2>4 DEF Sound, OneWrite, BufferSpent
    <2>6. OutputFifo'
      BY <1>a, <2>1, MoveHead DEF IInv, OutputFifo
    <2> QED
      BY <1>0, <2>5, <2>6 DEF IInv
  <1>20. CASE WriteComplete
    <2>1. /\ wop /\ wbuf = << >> /\ wop' = FALSE
          /\ handlers' = Append(handlers, "writeEnd")
          /\ UNCHANGED <<busy, wbuf, writeQueue, written, wire>>
      BY <1>20 DEF WriteComplete, Post
    <2>2. "writeEnd" \in Handler /\ IsCompletion("writeEnd")
      BY DEF Handler, IsCompletion
    <2> QED
      BY <1>0, <2>1, <2>2, CompletionIInv
  <1>21. CASE Arrive
    BY <1>0, <1>21, <1>b, StillIInv DEF Arrive, Post, Still
  <1>22. CASE DeviceFault
    <2>1. UNCHANGED <<busy, wbuf, writeQueue, written, wire>>
      BY <1>22 DEF DeviceFault
    <2>2. CASE handlers' = Append(handlers, "readError") /\ UNCHANGED wop
      BY <1>0, <1>b, <2>1, <2>2, StillIInv DEF Still
    <2>3. CASE wop /\ wop' = FALSE /\ handlers' = Append(handlers, "writeError")
      <3>1. "writeError" \in Handler /\ IsCompletion("writeError")
            /\ "writeError" # "writeEnd"
        BY DEF Handler, IsCompletion
      <3> QED
        BY <1>0, <2>1, <2>3, <3>1, CompletionIInv
    <2> QED
      BY <1>22, <2>2, <2>3 DEF DeviceFault, Post
  <1>23. CASE UNCHANGED vars
    BY <1>0, <1>23, StillIInv DEF vars, Still
  <1> QED
    BY <1>1, <1>2, <1>3, <1>4, <1>5, <1>6, <1>7, <1>8, <1>9, <1>10, <1>11,
       <1>12, <1>13, <1>14, <1>15, <1>16, <1>17, <1>18, <1>19, <1>20, <1>21,
       <1>22, <1>23 DEF Next, Control, Background, Device

LEMMA AlwaysIInv == Spec => []IInv
  BY InitIInv, NextIInv, PTL DEF Spec

(* Every variable keeps its type. *)
THEOREM TypeCorrect == Spec => []TypeOK
  <1>1. IInv => TypeOK
    BY DEF IInv
  <1> QED
    BY AlwaysIInv, <1>1, PTL

(* The bytes on the line, the rest of the write buffer and the write queue *)
(* are what clients wrote, in the order they wrote it.                     *)
THEOREM OutputIsFifo == Spec => []OutputFifo
  <1>1. IInv => OutputFifo
    BY DEF IInv
  <1> QED
    BY AlwaysIInv, <1>1, PTL

(* A write is started only when no write is under way and no completion    *)
(* handler of an earlier one is queued.                                    *)
THEOREM OneWriteAtATime == Spec => []OneWrite
  <1>1. IInv => OneWrite
    BY DEF IInv
  <1> QED
    BY AlwaysIInv, <1>1, PTL

-----------------------------------------------------------------------------
(* A handler that is queued stays so until it runs.                        *)
Holds(h, y) == \E j \in 1 .. Len(h) : h[j] = y

LEMMA HoldsStays ==
  ASSUME NEW h \in Seq(Handler), NEW y, Holds(h, y)
  PROVE  /\ \A x \in Handler : Holds(Append(h, x), y)
         /\ \A c \in Seq(Handler) :
              h # << >> /\ Head(h) # y => Holds(Tail(h) \o c, y)
  <1>1. PICK j \in 1 .. Len(h) : h[j] = y
    BY DEF Holds
  <1>2. ASSUME NEW x \in Handler PROVE Holds(Append(h, x), y)
    <2>1. Append(h, x)[j] = y /\ j \in 1 .. Len(Append(h, x))
      BY <1>1, AppendProperties
    <2> QED
      BY <2>1 DEF Holds
  <1>3. ASSUME NEW c \in Seq(Handler), h # << >>, Head(h) # y
        PROVE  Holds(Tail(h) \o c, y)
    <2>1. /\ Tail(h) \in Seq(Handler) /\ Len(Tail(h)) = Len(h) - 1
          /\ h[1] # y
      BY <1>3, HeadTailProperties
    <2>2. j - 1 \in 1 .. Len(Tail(h)) /\ Tail(h)[j - 1] = y
      BY <1>1, <1>3, <2>1, HeadTailProperties
    <2>3. /\ j - 1 \in 1 .. Len(Tail(h) \o c)
          /\ (Tail(h) \o c)[j - 1] = y
      BY <2>1, <2>2, ConcatProperties
    <2> QED
      BY <2>3 DEF Holds
  <1> QED
    BY <1>2, <1>3

LEMMA HoldsAppended ==
  ASSUME NEW h \in Seq(Handler), NEW x \in Handler
  PROVE  Holds(Append(h, x), x)
  <1>1. /\ Len(Append(h, x)) \in 1 .. Len(Append(h, x))
        /\ Append(h, x)[Len(Append(h, x))] = x
    BY AppendProperties, LenProperties
  <1> QED
    BY <1>1 DEF Holds

(* What is queued waits behind a write buffer, or has a doWrite.  A buffer *)
(* that is not stalled has a write under way or a completion to come.      *)
Posted(h) == Holds(h, "doWrite")

Awaited == writeQueue # << >> => busy \/ toPost > 0 \/ Posted(handlers)

LEMMA NextWakeup == IInv /\ Awaited /\ [Next]_vars => Awaited'
  <1> SUFFICES ASSUME IInv, Awaited, [Next]_vars, writeQueue' # << >>
               PROVE  busy' \/ toPost' > 0 \/ Posted(handlers')
    BY DEF Awaited
  <1>0. /\ handlers \in Seq(Handler) /\ toPost \in Nat
        /\ (writeQueue # << >> => busy \/ toPost > 0 \/ Posted(handlers))
    BY DEF IInv, TypeOK, FlagsOK, Awaited
  <1>a. /\ "doRead" \in Handler /\ "doWrite" \in Handler
        /\ "doClose" \in Handler /\ "readEnd" \in Handler
        /\ "readError" \in Handler /\ "writeEnd" \in Handler
        /\ "writeError" \in Handler
    BY DEF Handler
  <1>b. \A c \in Handler : Append(handlers, c) \in Seq(Handler)
    BY <1>0, AppendProperties
  <1>c. /\ << >> \in Seq(Handler) /\ <<"readError">> \in Seq(Handler)
        /\ Aborted \in Seq(Handler)
    BY <1>a DEF Aborted
  (* Steps that leave the queue and its senders as they are. *)
  <1>d. ASSUME UNCHANGED <<busy, writeQueue, toPost>>,
               \/ handlers' = handlers
               \/ \E x \in Handler : handlers' = Append(handlers, x)
               \/ /\ handlers # << >> /\ Head(handlers) # "doWrite"
                  /\ \E c \in Seq(Handler) : handlers' = Tail(handlers) \o c
        PROVE  busy' \/ toPost' > 0 \/ Posted(handlers')
    <2>1. Posted(handlers) => Posted(handlers')
      BY <1>0, <1>d, HoldsStays DEF Posted
    <2> QED
      BY <1>0, <1>d, <2>1
  <1>1. CASE Control
    <2>1. UNCHANGED <<busy, writeQueue, toPost>>
      BY <1>1 DEF Control, Open, StartThread, ClearError, MarkOpen,
                  SetReadCallback, Close, Joined, output
    <2>2. handlers' = handlers \/ \E x \in Handler : handlers' = Append(handlers, x)
      BY <1>1, <1>a DEF Control, Open, StartThread, ClearError, MarkOpen,
                  SetReadCallback, Close, Joined, CloseFlags, OpenPort, Post
    <2> QED
      BY <1>d, <2>1, <2>2
  <1>2. CASE Write
    BY <1>0, <1>2 DEF Write
  <1>3. CASE PostWrite
    <2>1. /\ handlers' = Append(handlers, "doWrite")
          /\ handlers' \in Seq(Handler)
      BY <1>3, <1>a, <1>b DEF PostWrite, Post
    <2> QED
      BY <1>0, <1>a, <2>1, HoldsAppended DEF Posted
  <1>4. CASE Read
    BY <1>4, <1>d DEF Read, output
  <1>5. CASE DoWrite
    <2>1. CASE MayStart
      BY <1>5, <2>1 DEF DoWrite, TakeQueue
    <2>2. CASE ~MayStart
      BY <1>5, <2>2 DEF DoWrite, MayStart
    <2> QED
      BY <2>1, <2>2
  <1>6. CASE WriteEnd
    <2>1. CASE QueueEmpty
      BY <1>6, <2>1 DEF WriteEnd, QueueEmpty
    <2>2. CASE ~QueueEmpty
      BY <1>6, <2>2 DEF WriteEnd, TakeQueue
    <2> QED
      BY <2>1, <2>2
  <1>7. CASE DoRead \/ DoClose \/ ReadEnd \/ ReadError \/ WriteError
    <2>1. UNCHANGED <<busy, writeQueue, toPost>>
      BY <1>7 DEF DoRead, DoClose, ReadEnd, ReadError, WriteError, output
    <2>2. handlers # << >> /\ Head(handlers) # "doWrite"
      BY <1>7 DEF DoRead, DoClose, ReadEnd, ReadError, WriteError, Running
    <2>3. \E c \in Seq(Handler) : handlers' = Tail(handlers) \o c
      BY <1>7, <1>c DEF DoRead, DoClose, ReadEnd, ReadError, WriteError,
                        StartRead, ClosePort, Then
    <2> QED
      BY <1>d, <2>1, <2>2, <2>3
  <1>8. CASE RunReturns
    BY <1>8, <1>d DEF RunReturns, output
  <1>9. CASE Device \/ Arrive \/ DeviceFault
    <2>1. UNCHANGED <<busy, writeQueue, toPost>>
      BY <1>9 DEF Device, EmitByte, WriteComplete, Arrive, DeviceFault, output
    <2>2. handlers' = handlers \/ \E x \in Handler : handlers' = Append(handlers, x)
      BY <1>9, <1>a DEF Device, EmitByte, WriteComplete, Arrive, DeviceFault, Post
    <2> QED
      BY <1>d, <2>1, <2>2
  <1>10. CASE UNCHANGED vars
    BY <1>10, <1>d DEF vars, output
  <1> QED
    BY <1>1, <1>2, <1>3, <1>4, <1>5, <1>6, <1>7, <1>8, <1>9, <1>10
       DEF Next, Background

LEMMA AwaitedIsServed == Awaited => NoLostWakeup
  <1> SUFFICES ASSUME Awaited, writeQueue # << >>, ~Stalled
               PROVE  \/ wop \/ toPost > 0
                      \/ \E j \in 1 .. Len(handlers) : Sends(handlers[j])
    BY DEF NoLostWakeup
  <1>1. CASE busy
    BY <1>1 DEF Stalled, Sends
  <1>2. CASE toPost > 0
    BY <1>2
  <1>3. CASE Posted(handlers)
    BY <1>3 DEF Posted, Holds, Sends
  <1> QED
    BY <1>1, <1>2, <1>3 DEF Awaited

(* No order of write(), of the doWrite it posts and of the completion of   *)
(* the write under way leaves bytes queued with nobody to send them, but   *)
(* for the stall after a write that failed.                                *)
THEOREM WakeupsAreKept == Spec => []NoLostWakeup
  <1>1. Init => Awaited
    BY DEF Init, Awaited
  <1>2. IInv /\ Awaited /\ [Next]_vars => Awaited'
    BY NextWakeup
  <1>3. Awaited => NoLostWakeup
    BY AwaitedIsServed
  <1> QED
    BY <1>1, <1>2, <1>3, AlwaysIInv, PTL DEF Spec

-----------------------------------------------------------------------------
(* close() is served.                                                      *)
AtRest == ~port /\ ~rop /\ ~wop

Started ==
  isopen \/ ctl \in {"clear", "mark", "callback", "join"} => thread # "none"

ServedInv == Started /\ CloseServed

(* A handler other than doClose leaves doClose queued, and starts nothing  *)
(* on a port that doClose has closed.                                      *)
LEMMA ServedStays ==
  ASSUME TypeOK, ServedInv, UNCHANGED <<ctl, isopen, thread>>,
         Holds(handlers, "doClose") => Holds(handlers', "doClose"),
         AtRest => AtRest'
  PROVE  ServedInv'
  BY DEF ServedInv, Started, CloseServed, Holds, AtRest

LEMMA NextServed == TypeOK /\ ServedInv /\ [Next]_vars => ServedInv'
  <1> SUFFICES ASSUME TypeOK, ServedInv, [Next]_vars PROVE ServedInv'
    OBVIOUS
  <1>0. /\ handlers \in Seq(Handler) /\ thread \in {"none", "running", "done"}
        /\ isopen \in BOOLEAN
    BY DEF TypeOK, FlagsOK
  <1>a. /\ "doRead" \in Handler /\ "doWrite" \in Handler
        /\ "doClose" \in Handler /\ "readEnd" \in Handler
        /\ "readError" \in Handler /\ "writeEnd" \in Handler
        /\ "writeError" \in Handler
    BY DEF Handler
  <1>b. /\ << >> \in Seq(Handler) /\ <<"readError">> \in Seq(Handler)
        /\ <<"writeError">> \in Seq(Handler) /\ Aborted \in Seq(Handler)
    BY <1>a DEF Aborted
  <1>c. ASSUME \/ handlers' = handlers
               \/ \E x \in Handler : handlers' = Append(handlers, x)
               \/ /\ handlers # << >> /\ Head(handlers) # "doClose"
                  /\ \E c \in Seq(Handler) : handlers' = Tail(handlers) \o c
        PROVE  Holds(handlers, "doClose") => Holds(handlers', "doClose")
    BY <1>0, <1>c, HoldsStays
  <1>1. ASSUME CloseFlags, isopen, thread' = thread PROVE ServedInv'
    <2>1. /\ ctl' = "join" /\ isopen' = FALSE
          /\ handlers' = Append(handlers, "doClose")
      BY <1>1 DEF CloseFlags, Post
    <2>2. Holds(handlers', "doClose")
      BY <1>0, <1>a, <2>1, HoldsAppended
    <2>3. thread' \in {"running", "done"}
      BY <1>0, <1>1 DEF ServedInv, Started
    <2> QED
      BY <2>1, <2>2, <2>3 DEF ServedInv, Started, CloseServed, Holds
  <1>2. ASSUME OpenPort, thread' = thread PROVE ServedInv'
    BY <1>2 DEF OpenPort, ServedInv, Started, CloseServed
  <1>3. CASE Control
    <2>1. CASE Open
      BY <1>1, <1>2, <2>1 DEF Open
    <2>2. CASE Close
      BY <1>1, <2>2 DEF Close
    <2>3. CASE Joined
      BY <1>2, <2>3 DEF Joined, ServedInv, Started, CloseServed
    <2>4. CASE StartThread \/ ClearError \/ MarkOpen \/ SetReadCallback
      BY <2>4 DEF StartThread, ClearError, MarkOpen, SetReadCallback,
                  ServedInv, Started, CloseServed
    <2> QED
      BY <1>3, <2>1, <2>2, <2>3, <2>4 DEF Control
  <1>4. CASE DoClose \/ ReadError \/ WriteError
    <2>1. UNCHANGED <<ctl, isopen, thread>>
      BY <1>4 DEF DoClose, ReadError, WriteError, control
    <2>2. \/ AtRest'
          \/ /\ handlers # << >> /\ Head(handlers) # "doClose"
             /\ handlers' = Tail(handlers) \o << >>
             /\ UNCHANGED <<port, rop, wop>>
      BY <1>4 DEF DoClose, ReadError, WriteError, ClosePort, AtRest, Running, Then
    <2>3. CASE AtRest'
      BY <2>1, <2>3 DEF AtRest, ServedInv, Started, CloseServed
    <2>4. CASE ~AtRest'
      <3>1. Holds(handlers, "doClose") => Holds(handlers', "doClose")
        BY <1>b, <1>c, <2>2, <2>4
      <3> QED
        BY <2>1, <2>2, <2>4, <3>1, ServedStays DEF AtRest
    <2> QED
      BY <2>3, <2>4
  <1>5. CASE DoRead \/ ReadEnd \/ DoWrite \/ WriteEnd
    <2>1. UNCHANGED <<ctl, isopen, thread>>
      BY <1>5 DEF DoRead, ReadEnd, DoWrite, WriteEnd, control
    <2>2. handlers # << >> /\ Head(handlers) # "doClose"
      BY <1>5 DEF DoRead, ReadEnd, DoWrite, WriteEnd, Running
    <2>3. \E c \in Seq(Handler) : handlers' = Tail(handlers) \o c
      BY <1>5, <1>b DEF DoRead, ReadEnd, DoWrite, WriteEnd, StartRead,
                        TakeQueue, Then
    <2>4. AtRest => AtRest'
      BY <1>5 DEF DoRead, ReadEnd, DoWrite, WriteEnd, StartRead, TakeQueue,
                  AtRest
    <2> QED
      BY <1>c, <2>1, <2>2, <2>3, <2>4, ServedStays
  <1>6. CASE RunReturns
    BY <1>6 DEF RunReturns, control, ServedInv, Started, CloseServed
  <1>7. CASE Write \/ PostWrite \/ Read \/ Device \/ Arrive \/ DeviceFault
               \/ UNCHANGED vars
    <2>1. UNCHANGED <<ctl, isopen, thread>>
      BY <1>7 DEF Write, PostWrite, Read, Device, EmitByte, WriteComplete,
                  Arrive, DeviceFault, vars, control
    <2>2. handlers' = handlers \/ \E x \in Handler : handlers' = Append(handlers, x)
      BY <1>7, <1>a DEF Write, PostWrite, Read, Device, EmitByte,
                        WriteComplete, Arrive, DeviceFault, Post, vars
    <2>3. AtRest => AtRest'
      BY <1>7 DEF Write, PostWrite, Read, Device, EmitByte, WriteComplete,
                  Arrive, DeviceFault, vars, AtRest
    <2> QED
      BY <1>c, <2>1, <2>2, <2>3, ServedStays
  <1> QED
    BY <1>3, <1>4, <1>5, <1>6, <1>7 DEF Next, Background

(* Whatever is queued or under way when close() is called, and whatever    *)
(* fails meanwhile, the thread it waits for has ended, has doClose still   *)
(* to run, or has nothing left that only the device could end.             *)
THEOREM CloseIsServed == Spec => []CloseServed
  <1>1. Init => ServedInv
    BY DEF Init, ServedInv, Started, CloseServed
  <1>2. ServedInv => CloseServed
    BY DEF ServedInv
  <1>3. IInv => TypeOK
    BY DEF IInv
  <1> QED
    BY <1>1, <1>2, <1>3, NextServed, AlwaysIInv, PTL DEF Spec

-----------------------------------------------------------------------------
(* A stall is final.                                                       *)
LEMMA QuietStays ==
  ASSUME NEW h \in Seq(Handler), NoCompletion(h)
  PROVE  /\ \A x \in Handler : ~IsCompletion(x) => NoCompletion(Append(h, x))
         /\ h # << >> => /\ Tail(h) \in Seq(Handler) /\ NoCompletion(Tail(h))
                         /\ NoCompletion(Tail(h) \o << >>)
                         /\ NoCompletion(Tail(h) \o <<"readError">>)
                         /\ ~IsCompletion(Head(h))
  <1>1. ASSUME NEW g \in Seq(Handler), NoCompletion(g), NEW x \in Handler,
               ~IsCompletion(x)
        PROVE  NoCompletion(Append(g, x))
    BY <1>1, AppendProperties DEF NoCompletion
  <1>2. ASSUME h # << >>
        PROVE  /\ Tail(h) \in Seq(Handler) /\ NoCompletion(Tail(h))
               /\ ~IsCompletion(Head(h))
    BY <1>2, HeadTailProperties DEF NoCompletion
  <1>3. "readError" \in Handler /\ ~IsCompletion("readError")
    BY DEF Handler, IsCompletion
  <1>4. ASSUME h # << >>
        PROVE  /\ Tail(h) \o << >> = Tail(h)
               /\ Tail(h) \o <<"readError">> = Append(Tail(h), "readError")
    BY <1>2, <1>3, <1>4, ConcatEmptySeq, AppendIsConcat
  <1> QED
    BY <1>1, <1>2, <1>3, <1>4

LEMMA StalledStays ==
  ASSUME TypeOK, Stalled, [Next]_vars
  PROVE  Stalled' /\ UNCHANGED wire
  <1>0. /\ handlers \in Seq(Handler) /\ busy = TRUE /\ wop = FALSE
        /\ NoCompletion(handlers)
    BY DEF TypeOK, FlagsOK, Stalled, NoCompletion
  <1>a. SUFFICES UNCHANGED <<busy, wop, wire>> /\ NoCompletion(handlers')
    BY <1>0 DEF Stalled, NoCompletion
  <1>b. /\ "doRead" \in Handler /\ "doWrite" \in Handler
        /\ "doClose" \in Handler /\ "readEnd" \in Handler
        /\ "readError" \in Handler
        /\ ~IsCompletion("doRead") /\ ~IsCompletion("doWrite")
        /\ ~IsCompletion("doClose") /\ ~IsCompletion("readEnd")
        /\ ~IsCompletion("readError")
    BY DEF Handler, IsCompletion
  <1>1. CASE Control
    <2>1. UNCHANGED <<busy, wop, wire>>
      BY <1>1 DEF Control, Open, StartThread, ClearError, MarkOpen,
                  SetReadCallback, Close, Joined, output
    <2>2. \/ handlers' = handlers
          \/ \E x \in {"doRead", "doClose"} : handlers' = Append(handlers, x)
      BY <1>1 DEF Control, Open, StartThread, ClearError, MarkOpen,
                  SetReadCallback, Close, Joined, CloseFlags, OpenPort, Post
    <2> QED
      BY <1>0, <1>b, <2>1, <2>2, QuietStays
  <1>2. CASE WriteEnd \/ WriteError
    <2>1. handlers # << >> /\ IsCompletion(Head(handlers))
      BY <1>2 DEF WriteEnd, WriteError, Running, IsCompletion
    <2> QED
      BY <1>0, <2>1, QuietStays
  <1>3. CASE DoRead \/ DoClose \/ ReadEnd \/ ReadError \/ DoWrite
    <2>1. UNCHANGED <<busy, wop, wire>>
      BY <1>0, <1>3 DEF DoRead, DoClose, ReadEnd, ReadError, DoWrite,
                        ClosePort, MayStart, output
    <2>2. /\ handlers # << >>
          /\ \/ handlers' = Tail(handlers) \o << >>
             \/ handlers' = Tail(handlers) \o <<"readError">>
      <3>1. Aborted \in {<< >>, <<"readError">>}
        BY <1>0, ConcatEmptySeq DEF Aborted
      <3> QED
        BY <1>0, <1>3, <3>1 DEF DoRead, DoClose, ReadEnd, ReadError, DoWrite,
             StartRead, ClosePort, MayStart, Running, Then
    <2> QED
      BY <1>0, <2>1, <2>2, QuietStays
  <1>4. CASE Write \/ Read \/ RunReturns \/ EmitByte \/ UNCHANGED vars
    BY <1>0, <1>4 DEF Write, Read, RunReturns, EmitByte, vars, output
  <1>5. CASE PostWrite \/ WriteComplete \/ Arrive \/ DeviceFault
    <2>1. UNCHANGED <<busy, wop, wire>>
      BY <1>0, <1>5 DEF PostWrite, WriteComplete, Arrive, DeviceFault, output
    <2>2. \E x \in {"doWrite", "readEnd", "readError"} :
            handlers' = Append(handlers, x)
      BY <1>0, <1>5 DEF PostWrite, WriteComplete, Arrive, DeviceFault, Post
    <2> QED
      BY <1>0, <1>b, <2>1, <2>2, QuietStays
  <1> QED
    BY <1>1, <1>2, <1>3, <1>4, <1>5 DEF Next, Background, Device

(* A completion stays queued until it runs.                                *)
LEMMA CompletionStays ==
  ASSUME NEW h \in Seq(Handler), ~NoCompletion(h)
  PROVE  /\ \A x \in Handler : ~NoCompletion(Append(h, x))
         /\ \A c \in Seq(Handler) :
              h # << >> /\ ~IsCompletion(Head(h)) => ~NoCompletion(Tail(h) \o c)
  <1>1. PICK y \in {"writeEnd", "writeError"} : Holds(h, y)
    BY DEF NoCompletion, IsCompletion, Holds
  <1>2. \A g : Holds(g, y) => ~NoCompletion(g)
    BY DEF NoCompletion, IsCompletion, Holds
  <1> QED
    BY <1>1, <1>2, HoldsStays DEF IsCompletion

LEMMA StallingIsReported ==
  ASSUME TypeOK, [Next]_vars, Stalled', ~Stalled
  PROVE  error'
  <1>0. /\ handlers \in Seq(Handler)
        /\ busy \in BOOLEAN /\ wop \in BOOLEAN /\ port \in BOOLEAN
    BY DEF TypeOK, FlagsOK
  <1>a. busy' /\ ~wop' /\ NoCompletion(handlers')
    BY DEF Stalled, NoCompletion
  <1>b. /\ "doRead" \in Handler /\ "doWrite" \in Handler
        /\ "doClose" \in Handler /\ "readEnd" \in Handler
        /\ "readError" \in Handler /\ "writeEnd" \in Handler
        /\ "writeError" \in Handler
        /\ IsCompletion("writeEnd") /\ IsCompletion("writeError")
    BY DEF Handler, IsCompletion
  <1>c. /\ << >> \in Seq(Handler) /\ <<"readError">> \in Seq(Handler)
        /\ <<"writeError">> \in Seq(Handler) /\ Aborted \in Seq(Handler)
    BY <1>b DEF Aborted
  <1>d. ~NoCompletion(handlers) \/ wop \/ ~busy
    BY <1>0 DEF Stalled, NoCompletion
  (* A step that leaves a write under way, and no completion less, does    *)
  (* not stall the port.                                                   *)
  <1>e. ASSUME \/ handlers' = handlers
               \/ \E x \in Handler : handlers' = Append(handlers, x)
               \/ /\ handlers # << >> /\ ~IsCompletion(Head(handlers))
                  /\ \E c \in Seq(Handler) : handlers' = Tail(handlers) \o c,
               UNCHANGED <<busy, wop>>
        PROVE  FALSE
    <2>1. ~NoCompletion(handlers) => ~NoCompletion(handlers')
      BY <1>0, <1>e, CompletionStays
    <2> QED
      BY <1>a, <1>d, <1>e, <2>1
  (* Nor does one that queues a completion.                                *)
  <1>f. ASSUME NEW q \in Seq(Handler), NEW x \in {"writeEnd", "writeError"},
               handlers' = Append(q, x)
        PROVE  FALSE
    <2>1. Holds(Append(q, x), x)
      BY <1>b, HoldsAppended
    <2> QED
      BY <1>a, <1>b, <1>f, <2>1 DEF NoCompletion, Holds
  <1>g. handlers # << >> => Tail(handlers) \in Seq(Handler)
    BY <1>0, HeadTailProperties
  <1>1. CASE Control
    <2>1. UNCHANGED <<busy, wop>>
      BY <1>1 DEF Control, Open, StartThread, ClearError, MarkOpen,
                  SetReadCallback, Close, Joined, output
    <2>2. handlers' = handlers \/ \E x \in Handler : handlers' = Append(handlers, x)
      BY <1>1, <1>b DEF Control, Open, StartThread, ClearError, MarkOpen,
                  SetReadCallback, Close, Joined, CloseFlags, OpenPort, Post
    <2> QED
      BY <1>e, <2>1, <2>2
  <1>2. CASE WriteError
    BY <1>2 DEF WriteError, ClosePort
  <1>3. ASSUME handlers # << >>, TakeQueue PROVE FALSE
    <2>1. wop' \/ handlers' = Tail(handlers) \o <<"writeError">>
      BY <1>3 DEF TakeQueue, Then
    <2>2. Tail(handlers) \o <<"writeError">> = Append(Tail(handlers), "writeError")
      BY <1>b, <1>g, <1>3, AppendIsConcat
    <2> QED
      BY <1>a, <1>f, <1>g, <1>3, <2>1, <2>2
  <1>4. CASE WriteEnd
    BY <1>3, <1>4, <1>a DEF WriteEnd, Running
  <1>5. CASE DoRead \/ ReadEnd \/ DoWrite
    <2>1. handlers # << >> /\ ~IsCompletion(Head(handlers))
      BY <1>5 DEF DoRead, ReadEnd, DoWrite, Running, IsCompletion
    <2>2. CASE TakeQueue
      BY <1>3, <2>1, <2>2
    <2>3. CASE ~TakeQueue
      <3>1. UNCHANGED <<busy, wop>>
        BY <1>5, <2>3 DEF DoRead, ReadEnd, DoWrite, output
      <3>2. \E c \in Seq(Handler) : handlers' = Tail(handlers) \o c
        BY <1>5, <1>c, <2>3 DEF DoRead, ReadEnd, DoWrite, StartRead, Then
      <3> QED
        BY <1>e, <2>1, <3>1, <3>2
    <2> QED
      BY <2>2, <2>3
  <1>6. CASE DoClose \/ ReadError
    <2>1. /\ handlers # << >> /\ ~IsCompletion(Head(handlers)) /\ busy' = busy
      BY <1>6 DEF DoClose, ReadError, Running, IsCompletion, output
    <2>2. \/ handlers' = Tail(handlers) \o << >> /\ wop' = wop
          \/ handlers' = Tail(handlers) \o Aborted /\ wop' = FALSE
      BY <1>6 DEF DoClose, ReadError, ClosePort, Then
    <2>3. CASE wop' = wop
      BY <1>c, <1>e, <2>1, <2>2, <2>3
    <2>4. CASE wop' # wop
      <3>1. wop /\ handlers' = Tail(handlers) \o Aborted
        BY <1>0, <2>2, <2>4
      <3>2. Tail(handlers) \in Seq(Handler)
        BY <1>g, <2>1
      <3>3. handlers' = Append(IF rop THEN Append(Tail(handlers), "readError")
                               ELSE Tail(handlers), "writeError")
        <4>1. CASE rop
          BY <1>b, <3>1, <3>2, <4>1 DEF Aborted
        <4>2. CASE ~rop
          BY <1>b, <3>1, <3>2, <4>2 DEF Aborted
        <4> QED
          BY <4>1, <4>2
      <3>4. Append(Tail(handlers), "readError") \in Seq(Handler)
        BY <1>b, <1>g, <2>1, AppendProperties
      <3> QED
        BY <1>f, <1>g, <2>1, <3>3, <3>4
    <2> QED
      BY <2>3, <2>4
  <1>7. CASE WriteComplete \/ (DeviceFault /\ wop' # wop)
    <2>1. \E x \in {"writeEnd", "writeError"} : handlers' = Append(handlers, x)
      BY <1>7 DEF WriteComplete, DeviceFault, Post
    <2> QED
      BY <1>0, <1>f, <2>1
  <1>8. CASE \/ Write \/ PostWrite \/ Read \/ RunReturns \/ EmitByte \/ Arrive
             \/ (DeviceFault /\ wop' = wop) \/ UNCHANGED vars
    <2>1. UNCHANGED <<busy, wop>>
      BY <1>8 DEF Write, PostWrite, Read, RunReturns, EmitByte, Arrive,
                  DeviceFault, vars, output
    <2>2. handlers' = handlers \/ \E x \in Handler : handlers' = Append(handlers, x)
      BY <1>8, <1>b DEF Write, PostWrite, Read, RunReturns, EmitByte, Arrive,
                  DeviceFault, vars, Post
    <2> QED
      BY <1>e, <2>1, <2>2
  <1> QED
    BY <1>1, <1>2, <1>4, <1>5, <1>6, <1>7, <1>8 DEF Next, Background, Device

(* The step in which a port stops sending for good records an error, and   *)
(* no later step, of whatever kind, makes it send again.                   *)
THEOREM StallsAreFinal == Spec => StallIsFinal
  <1>1. TypeOK /\ [Next]_vars
          => [/\ Stalled => Stalled' /\ UNCHANGED wire
              /\ Stalled' => Stalled \/ error']_vars
    BY StalledStays, StallingIsReported
  <1>2. IInv => TypeOK
    BY DEF IInv
  <1> QED
    BY <1>1, <1>2, AlwaysIInv, PTL DEF Spec, StallIsFinal

-----------------------------------------------------------------------------
(* On the way in.  One of three things stands for the read that is going   *)
(* on: a queued doRead, an async_read_some under way, or its queued        *)
(* completion, and only the last leaves something in readBuffer.           *)
IsRead(x) == x \in {"doRead", "readEnd"}

NoRead(h) == \A j \in 1 .. Len(h) : ~IsRead(h[j])

(* Of a handler queue h, the flag r and the buffer b. *)
OneRead(h, r, b) ==
  /\ r => NoRead(h)
  /\ \A i, j \in 1 .. Len(h) : IsRead(h[i]) /\ IsRead(h[j]) => i = j
  /\ b # << >> => \E j \in 1 .. Len(h) : h[j] = "readEnd"

(* When no thread runs handlers or is about to, no read is going on; the   *)
(* control thread opens the device only then.                              *)
Resting == thread # "running" /\ ctl # "start"

Phases ==
  /\ ctl = "start" => thread # "running"
  /\ ctl \in {"idle", "callback"} /\ thread = "running" => isopen

ReadInv ==
  /\ OneRead(handlers, rop, readBuffer)
  /\ Resting => ~rop /\ NoRead(handlers)
  /\ Phases

LEMMA AppendOther ==
  ASSUME NEW h \in Seq(Handler), NEW r \in BOOLEAN, NEW b, NEW x \in Handler,
         ~IsRead(x)
  PROVE  /\ OneRead(h, r, b) => OneRead(Append(h, x), r, b)
         /\ NoRead(h) => NoRead(Append(h, x))
  <1>1. /\ Len(Append(h, x)) = Len(h) + 1 /\ Len(h) \in Nat
        /\ \A i \in 1 .. Len(h) : Append(h, x)[i] = h[i]
        /\ Append(h, x)[Len(h) + 1] = x
    BY AppendProperties, LenProperties
  <1>2. NoRead(h) => NoRead(Append(h, x))
    BY <1>1 DEF NoRead
  <1>3. ASSUME OneRead(h, r, b) PROVE OneRead(Append(h, x), r, b)
    <2>1. r => NoRead(Append(h, x))
      BY <1>2, <1>3 DEF OneRead
    <2>2. ASSUME NEW i \in 1 .. Len(Append(h, x)),
                 NEW j \in 1 .. Len(Append(h, x)),
                 IsRead(Append(h, x)[i]), IsRead(Append(h, x)[j])
          PROVE  i = j
      <3>1. i \in 1 .. Len(h) /\ j \in 1 .. Len(h)
        BY <1>1, <2>2
      <3> QED
        BY <1>1, <1>3, <2>2, <3>1 DEF OneRead
    <2>3. b # << >> => \E j \in 1 .. Len(Append(h, x)) : Append(h, x)[j] = "readEnd"
      BY <1>1, <1>3 DEF OneRead
    <2> QED
      BY <2>1, <2>2, <2>3 DEF OneRead
  <1> QED
    BY <1>2, <1>3

LEMMA AppendRead ==
  ASSUME NEW h \in Seq(Handler), NEW b, NEW x \in Handler, NoRead(h),
         IsRead(x), b # << >> => x = "readEnd"
  PROVE  OneRead(Append(h, x), FALSE, b)
  <1>1. /\ Len(Append(h, x)) = Len(h) + 1 /\ Len(h) \in Nat
        /\ \A i \in 1 .. Len(h) : Append(h, x)[i] = h[i]
        /\ Append(h, x)[Len(h) + 1] = x
    BY AppendProperties, LenProperties
  <1>2. \A i \in 1 .. Len(Append(h, x)) : IsRead(Append(h, x)[i]) => i = Len(h) + 1
    BY <1>1 DEF NoRead
  <1>3. b # << >> => \E j \in 1 .. Len(Append(h, x)) : Append(h, x)[j] = "readEnd"
    BY <1>1
  <1> QED
    BY <1>2, <1>3 DEF OneRead

LEMMA NoReadOneRead ==
  ASSUME NEW h, NEW r \in BOOLEAN, NoRead(h)
  PROVE  OneRead(h, r, << >>)
  BY DEF OneRead, NoRead

LEMMA TailRead ==
  ASSUME NEW h \in Seq(Handler), NEW r \in BOOLEAN, NEW b, h # << >>,
         OneRead(h, r, b)
  PROVE  /\ Tail(h) \in Seq(Handler)
         /\ NoRead(h) => NoRead(Tail(h))
         /\ Head(h) # "readEnd" => OneRead(Tail(h), r, b)
         /\ IsRead(Head(h)) => ~r /\ NoRead(Tail(h))
         /\ Head(h) = "doRead" => b = << >>
  <1>1. /\ Len(Tail(h)) = Len(h) - 1 /\ Len(h) \in Nat \ {0}
        /\ \A i \in 1 .. Len(Tail(h)) : Tail(h)[i] = h[i + 1]
        /\ Head(h) = h[1] /\ Tail(h) \in Seq(Handler)
    BY HeadTailProperties, EmptySeq
  <1>2. NoRead(h) => NoRead(Tail(h))
    BY <1>1 DEF NoRead
  <1>3. ASSUME IsRead(Head(h)) PROVE ~r /\ NoRead(Tail(h))
    <2>1. ~r
      BY <1>1, <1>3 DEF OneRead, NoRead
    <2>2. ASSUME NEW j \in 1 .. Len(Tail(h)), IsRead(Tail(h)[j]) PROVE FALSE
      <3>1. IsRead(h[j + 1]) /\ j + 1 \in 1 .. Len(h) /\ 1 \in 1 .. Len(h)
            /\ IsRead(h[1]) /\ j + 1 # 1
        BY <1>1, <1>3, <2>2
      <3> QED
        BY <3>1 DEF OneRead
    <2> QED
      BY <2>1, <2>2 DEF NoRead
  <1>4. ASSUME Head(h) # "readEnd" PROVE OneRead(Tail(h), r, b)
    <2>1. r => NoRead(Tail(h))
      BY <1>2 DEF OneRead
    <2>2. ASSUME NEW i \in 1 .. Len(Tail(h)), NEW j \in 1 .. Len(Tail(h)),
                 IsRead(Tail(h)[i]), IsRead(Tail(h)[j])
          PROVE  i = j
      <3>1. /\ i + 1 \in 1 .. Len(h) /\ j + 1 \in 1 .. Len(h)
            /\ IsRead(h[i + 1]) /\ IsRead(h[j + 1])
        BY <1>1, <2>2
      <3>2. i + 1 = j + 1
        BY <3>1 DEF OneRead
      <3> QED
        BY <3>2
    <2>3. ASSUME b # << >>
          PROVE  \E j \in 1 .. Len(Tail(h)) : Tail(h)[j] = "readEnd"
      <3>1. PICK j \in 1 .. Len(h) : h[j] = "readEnd"
        BY <2>3 DEF OneRead
      <3>2. j - 1 \in 1 .. Len(Tail(h)) /\ Tail(h)[j - 1] = "readEnd"
        BY <1>1, <1>4, <3>1
      <3> QED
        BY <3>2
    <2> QED
      BY <2>1, <2>2, <2>3 DEF OneRead
  <1>5. ASSUME Head(h) = "doRead", b # << >> PROVE FALSE
    <2>1. PICK j \in 1 .. Len(h) : h[j] = "readEnd"
      BY <1>5 DEF OneRead
    <2>2. IsRead(h[j]) /\ IsRead(h[1]) /\ 1 \in 1 .. Len(h) /\ j # 1
      BY <1>1, <1>5, <2>1 DEF IsRead
    <2> QED
      BY <2>1, <2>2 DEF OneRead
  <1> QED
    BY <1>1, <1>2, <1>3, <1>4, <1>5

LEMMA NextPhases == TypeOK /\ Phases /\ [Next]_vars => Phases'
  <1> SUFFICES ASSUME TypeOK, Phases, [Next]_vars PROVE Phases'
    OBVIOUS
  <1> USE DEF Phases
  <1>1. CASE Open
    BY <1>1 DEF Open, CloseFlags, OpenPort
  <1>2. CASE StartThread
    BY <1>2 DEF StartThread
  <1>3. CASE ClearError
    BY <1>3 DEF ClearError
  <1>4. CASE MarkOpen
    BY <1>4 DEF MarkOpen
  <1>5. CASE SetReadCallback
    BY <1>5 DEF SetReadCallback
  <1>6. CASE Close
    BY <1>6 DEF Close, CloseFlags
  <1>7. CASE Joined
    BY <1>7 DEF Joined, OpenPort
  <1>8. CASE RunReturns
    BY <1>8 DEF RunReturns, control
  <1>9. CASE UNCHANGED <<ctl, thread, isopen>>
    BY <1>9
  <1>10. CASE Write \/ PostWrite \/ Read \/ Device \/ Arrive \/ DeviceFault
    BY <1>9, <1>10 DEF Write, PostWrite, Read, Device, EmitByte,
                       WriteComplete, Arrive, DeviceFault, control
  <1>11. CASE DoRead \/ DoClose \/ ReadEnd \/ ReadError \/ DoWrite \/ WriteEnd
                \/ WriteError
    BY <1>9, <1>11 DEF DoRead, DoClose, ReadEnd, ReadError, DoWrite, WriteEnd,
                       WriteError, control
  <1>12. CASE UNCHANGED vars
    BY <1>9, <1>12 DEF vars, control
  <1> QED
    BY <1>1, <1>2, <1>3, <1>4, <1>5, <1>6, <1>7, <1>8, <1>10, <1>11, <1>12
       DEF Next, Control, Background

(* doClose in a running thread turns a read under way into its error.      *)
LEMMA CloseRead ==
  ASSUME TypeOK, handlers # << >>, Head(handlers) # "readEnd",
         NEW failed \in BOOLEAN, ClosePort(failed), readBuffer' = readBuffer,
         OneRead(handlers, rop, readBuffer)
  PROVE  OneRead(handlers', rop', readBuffer')
  <1> DEFINE t == Tail(handlers)
  <1>1. handlers \in Seq(Handler) /\ rop \in BOOLEAN
    BY DEF TypeOK, FlagsOK
  <1>2. t \in Seq(Handler) /\ OneRead(t, FALSE, readBuffer)
    <2>1. t \in Seq(Handler) /\ OneRead(t, rop, readBuffer)
      BY <1>1, TailRead
    <2> QED
      BY <2>1 DEF OneRead
  <1>3. /\ "readError" \in Handler /\ "writeError" \in Handler
        /\ ~IsRead("readError") /\ ~IsRead("writeError")
    BY DEF Handler, IsRead
  <1> DEFINE mid == IF rop THEN Append(t, "readError") ELSE t
             all == IF wop THEN Append(mid, "writeError") ELSE mid
  <1>4. mid \in Seq(Handler) /\ OneRead(mid, FALSE, readBuffer)
    BY <1>2, <1>3, AppendOther, AppendProperties
  <1>5. OneRead(all, FALSE, readBuffer)
    <2> HIDE DEF mid
    <2> QED
      BY <1>3, <1>4, AppendOther
  <1>6. handlers' = all /\ rop' = FALSE
    <2>1. handlers' = t \o Aborted /\ rop' = FALSE
      BY DEF ClosePort, Then
    <2>2. CASE rop /\ wop
      BY <1>2, <2>1, <2>2, <1>3 DEF Aborted
    <2>3. CASE rop /\ ~wop
      BY <1>2, <2>1, <2>3, <1>3 DEF Aborted
    <2>4. CASE ~rop /\ wop
      BY <1>2, <2>1, <2>4, <1>3 DEF Aborted
    <2>5. CASE ~rop /\ ~wop
      BY <1>2, <2>1, <2>5, <1>3 DEF Aborted
    <2> QED
      BY <2>1, <2>2, <2>3, <2>4, <2>5
  <1> HIDE DEF all
  <1> QED
    BY <1>5, <1>6

(* A read is started by the handler that ends the one before.              *)
LEMMA StartReadOne ==
  ASSUME TypeOK, handlers # << >>, IsRead(Head(handlers)), StartRead,
         OneRead(handlers, rop, readBuffer), readBuffer' = << >>
  PROVE  OneRead(handlers', rop', readBuffer')
  <1> DEFINE t == Tail(handlers)
  <1>1. handlers \in Seq(Handler) /\ rop \in BOOLEAN
    BY DEF TypeOK, FlagsOK
  <1>2. t \in Seq(Handler) /\ NoRead(t) /\ ~rop
    BY <1>1, TailRead
  <1>3. "readError" \in Handler /\ ~IsRead("readError")
    BY DEF Handler, IsRead
  <1>4. CASE port
    <2>1. rop' = TRUE /\ handlers' = t
      BY <1>2, <1>4, ConcatEmptySeq DEF StartRead, Then
    <2> HIDE DEF t
    <2> QED
      BY <1>2, <2>1, NoReadOneRead
  <1>5. CASE ~port
    <2>1. rop' = FALSE /\ handlers' = Append(t, "readError")
      BY <1>2, <1>3, <1>5, AppendIsConcat DEF StartRead, Then
    <2>2. NoRead(Append(t, "readError"))
      BY <1>2, <1>3, AppendOther
    <2> HIDE DEF t
    <2> QED
      BY <2>1, <2>2, NoReadOneRead
  <1> QED
    BY <1>4, <1>5

LEMMA NextReadInv == TypeOK /\ ReadInv /\ [Next]_vars => ReadInv'
  <1> SUFFICES ASSUME TypeOK, ReadInv, [Next]_vars
               PROVE  /\ OneRead(handlers', rop', readBuffer')
                      /\ Resting' => ~rop' /\ NoRead(handlers')
    BY NextPhases DEF ReadInv, OneRead, NoRead
  <1>0. /\ handlers \in Seq(Handler) /\ rop \in BOOLEAN
        /\ OneRead(handlers, rop, readBuffer)
        /\ Resting => ~rop /\ NoRead(handlers)
        /\ Phases
    BY DEF ReadInv, TypeOK, FlagsOK
  <1>a. /\ "doRead" \in Handler /\ "doWrite" \in Handler
        /\ "doClose" \in Handler /\ "readEnd" \in Handler
        /\ "readError" \in Handler /\ "writeEnd" \in Handler
        /\ "writeError" \in Handler
    BY DEF Handler
  <1>b. /\ IsRead("doRead") /\ IsRead("readEnd") /\ ~IsRead("doWrite")
        /\ ~IsRead("doClose") /\ ~IsRead("readError") /\ ~IsRead("writeEnd")
        /\ ~IsRead("writeError")
    BY DEF IsRead
  <1> DEFINE Goal == /\ OneRead(handlers', rop', readBuffer')
                     /\ Resting' => ~rop' /\ NoRead(handlers')
  (* Steps that leave the read alone. *)
  <1>c. ASSUME rop' = rop, readBuffer' = readBuffer, Resting' => Resting,
               \/ handlers' = handlers
               \/ \E x \in Handler :
                    ~IsRead(x) /\ handlers' = Append(handlers, x)
        PROVE  Goal
    <2>1. CASE handlers' = handlers
      BY <1>0, <1>c, <2>1
    <2>2. ASSUME NEW x \in Handler, ~IsRead(x), handlers' = Append(handlers, x)
          PROVE  Goal
      BY <1>0, <1>c, <2>2, AppendOther
    <2> QED
      BY <1>c, <2>1, <2>2
  (* The control thread opens the device of a port at rest. *)
  <1>d. ASSUME OpenPort, Resting, rop' = rop, readBuffer' = readBuffer,
               thread' = thread
        PROVE  Goal
    <2>1. CASE ctl' = "start" /\ handlers' = Append(handlers, "doRead")
      <3>1. OneRead(handlers, rop, readBuffer) /\ NoRead(handlers) /\ ~rop
        BY <1>0, <1>d
      <3>2. readBuffer = << >>
        BY <3>1, <1>b DEF OneRead, NoRead
      <3>3. OneRead(Append(handlers, "doRead"), FALSE, readBuffer)
        BY <1>0, <1>a, <1>b, <3>1, <3>2, AppendRead
      <3>4. rop' = FALSE
        BY <1>0, <1>d, <3>1
      <3> QED
        BY <1>d, <2>1, <3>3, <3>4 DEF Resting
    <2>2. CASE handlers' = handlers
      BY <1>c, <1>d, <2>2
    <2> QED
      BY <1>d, <2>1, <2>2 DEF OpenPort, Post
  (* In a thread that runs handlers, nothing is at rest. *)
  <1>e. ASSUME thread = "running", UNCHANGED <<ctl, thread>>
        PROVE  ~Resting'
    BY <1>e DEF Resting
  <1>1. CASE Open
    <2>1. rop' = rop /\ readBuffer' = readBuffer /\ thread' = thread
      BY <1>1 DEF Open, input
    <2>2. CASE isopen
      <3>1. ctl' = "join" /\ handlers' = Append(handlers, "doClose")
        BY <1>1, <2>2 DEF Open, CloseFlags, Post
      <3>2. ctl = "idle"
        BY <1>1 DEF Open
      <3>3. Resting' => Resting
        BY <2>1, <3>2 DEF Resting
      <3> QED
        BY <1>a, <1>b, <1>c, <2>1, <3>1, <3>3
    <2>3. CASE ~isopen
      <3>1. OpenPort /\ ctl = "idle"
        BY <1>1, <2>3 DEF Open
      <3>2. Resting
        BY <1>0, <2>3, <3>1 DEF Phases, Resting
      <3> QED
        BY <1>d, <2>1, <3>1, <3>2
    <2> QED
      BY <2>2, <2>3
  <1>2. CASE StartThread
    <2>1. ~Resting' /\ UNCHANGED <<handlers, rop, readBuffer>>
      BY <1>2 DEF StartThread, Resting, input
    <2> QED
      BY <1>c, <2>1
  <1>3. CASE ClearError \/ MarkOpen \/ SetReadCallback
    <2>1. /\ ctl # "start" /\ thread' = thread
          /\ UNCHANGED <<handlers, rop, readBuffer>>
      BY <1>3 DEF ClearError, MarkOpen, SetReadCallback, input
    <2>2. Resting' => Resting
      BY <2>1 DEF Resting
    <2> QED
      BY <1>c, <2>1, <2>2
  <1>4. CASE Close
    <2>1. /\ ctl = "idle" /\ thread' = thread
          /\ handlers' = Append(handlers, "doClose")
          /\ rop' = rop /\ readBuffer' = readBuffer
      BY <1>4 DEF Close, CloseFlags, Post, input
    <2>2. Resting' => Resting
      BY <2>1 DEF Resting
    <2> QED
      BY <1>a, <1>b, <1>c, <2>1, <2>2
  <1>5. CASE Joined
    <2>1. /\ ctl = "join" /\ thread = "done" /\ thread' = thread
          /\ rop' = rop /\ readBuffer' = readBuffer
      BY <1>5 DEF Joined, input
    <2>2. Resting
      BY <2>1 DEF Resting
    <2>3. CASE OpenPort
      BY <1>d, <2>1, <2>2, <2>3
    <2>4. CASE handlers' = handlers
      BY <1>c, <2>1, <2>2, <2>4
    <2> QED
      BY <1>5, <2>3, <2>4 DEF Joined
  <1>6. CASE Write \/ Read \/ EmitByte
    <2>1. /\ UNCHANGED <<ctl, thread, handlers, rop, readBuffer>>
      BY <1>6 DEF Write, Read, EmitByte, control, input
    <2> QED
      BY <1>c, <2>1 DEF Resting
  <1>7. CASE PostWrite \/ WriteComplete
    <2>1. /\ UNCHANGED <<ctl, thread, rop, readBuffer>>
          /\ \E x \in {"doWrite", "writeEnd"} : handlers' = Append(handlers, x)
      BY <1>7 DEF PostWrite, WriteComplete, Post, control, input
    <2> QED
      BY <1>a, <1>b, <1>c, <2>1 DEF Resting
  <1>8. CASE DoRead
    <2>1. /\ thread = "running" /\ UNCHANGED <<ctl, thread, readBuffer>>
          /\ handlers # << >> /\ Head(handlers) = "doRead" /\ StartRead
      BY <1>8 DEF DoRead, Running, control, input
    <2>2. readBuffer = << >>
      BY <1>0, <2>1, TailRead
    <2> QED
      BY <1>0, <1>b, <1>e, <2>1, <2>2, StartReadOne
  <1>9. CASE ReadEnd
    <2>1. /\ thread = "running" /\ UNCHANGED <<ctl, thread>>
          /\ handlers # << >> /\ Head(handlers) = "readEnd" /\ StartRead
          /\ readBuffer' = << >>
      BY <1>9 DEF ReadEnd, Running, control
    <2> QED
      BY <1>0, <1>b, <1>e, <2>1, StartReadOne
  <1>10. ASSUME thread = "running", UNCHANGED <<ctl, thread, readBuffer>>,
                handlers # << >>, Head(handlers) # "readEnd",
                NEW failed \in BOOLEAN, ClosePort(failed)
         PROVE  Goal
    BY <1>0, <1>e, <1>10, CloseRead
  <1>11. ASSUME thread = "running", UNCHANGED <<ctl, thread, readBuffer, rop>>,
                handlers # << >>, ~IsRead(Head(handlers)),
                \/ handlers' = Tail(handlers) \o << >>
                \/ handlers' = Tail(handlers) \o <<"writeError">>
         PROVE  Goal
    <2>1. /\ Tail(handlers) \in Seq(Handler)
          /\ OneRead(Tail(handlers), rop, readBuffer)
      BY <1>0, <1>b, <1>11, TailRead
    <2>2. CASE handlers' = Tail(handlers) \o << >>
      <3>1. handlers' = Tail(handlers)
        BY <2>1, <2>2, ConcatEmptySeq
      <3> QED
        BY <1>e, <1>11, <2>1, <3>1
    <2>3. CASE handlers' = Tail(handlers) \o <<"writeError">>
      <3>1. handlers' = Append(Tail(handlers), "writeError")
        BY <1>a, <2>1, <2>3, AppendIsConcat
      <3>2. OneRead(handlers', rop, readBuffer)
        BY <1>0, <1>a, <1>b, <2>1, <3>1, AppendOther
      <3> QED
        BY <1>e, <1>11, <3>2
    <2> QED
      BY <1>11, <2>2, <2>3
  <1>12. CASE DoClose
    BY <1>10, <1>12 DEF DoClose, Running, control, input
  <1>13. CASE WriteError
    BY <1>10, <1>13 DEF WriteError, Running, control, input
  <1>14. CASE ReadError
    <2>1. CASE isopen
      BY <1>10, <1>14, <2>1 DEF ReadError, Running, control, input
    <2>2. CASE ~isopen
      BY <1>b, <1>11, <1>14, <2>2 DEF ReadError, Running, Then, control, input
    <2> QED
      BY <2>1, <2>2
  <1>15. CASE DoWrite
    BY <1>b, <1>11, <1>15 DEF DoWrite, TakeQueue, Running, Then, control, input
  <1>16. CASE WriteEnd
    BY <1>b, <1>11, <1>16 DEF WriteEnd, TakeQueue, Running, Then, control, input
  <1>17. CASE RunReturns
    <2>1. /\ UNCHANGED <<handlers, rop, readBuffer>>
          /\ handlers = << >> /\ ~rop
      BY <1>17 DEF RunReturns, input
    <2>2. NoRead(handlers)
      BY <2>1 DEF NoRead
    <2> QED
      BY <1>0, <2>1, <2>2
  <1>18. CASE Arrive
    <2>1. /\ rop /\ rop' = FALSE /\ handlers' = Append(handlers, "readEnd")
          /\ UNCHANGED <<ctl, thread>>
      BY <1>18 DEF Arrive, Post, control
    <2>2. NoRead(handlers) /\ ~Resting'
      BY <1>0, <2>1 DEF OneRead, Resting
    <2>3. OneRead(Append(handlers, "readEnd"), FALSE, readBuffer')
      BY <1>0, <1>a, <1>b, <2>2, AppendRead
    <2> QED
      BY <2>1, <2>2, <2>3
  <1>19. CASE DeviceFault
    <2>1. UNCHANGED <<ctl, thread, readBuffer>>
      BY <1>19 DEF DeviceFault, control, input
    <2>2. CASE rop /\ rop' = FALSE /\ handlers' = Append(handlers, "readError")
      <3>1. OneRead(handlers, FALSE, readBuffer) /\ ~Resting'
        BY <1>0, <2>1, <2>2 DEF OneRead, Resting
      <3> QED
        BY <1>0, <1>a, <1>b, <2>1, <2>2, <3>1, AppendOther
    <2>3. CASE rop' = rop /\ handlers' = Append(handlers, "writeError")
      BY <1>a, <1>b, <1>c, <2>1, <2>3 DEF Resting
    <2> QED
      BY <1>19, <2>2, <2>3 DEF DeviceFault, Post
  <1>20. CASE UNCHANGED vars
    BY <1>c, <1>20 DEF vars, control, input, Resting
  <1> QED
    BY <1>1, <1>2, <1>3, <1>4, <1>5, <1>6, <1>7, <1>8, <1>9, <1>12, <1>13,
       <1>14, <1>15, <1>16, <1>17, <1>18, <1>19, <1>20
       DEF Next, Control, Background, Device

(* The bytes dropped before there is a callback are the first that arrive. *)
NothingQueued == ~callback => taken = << >> /\ readQueue = << >>

LEMMA Associate ==
  ASSUME NEW s \in Seq(Nat), NEW t \in Seq(Nat), NEW u \in Seq(Nat)
  PROVE  (s \o t) \o u = s \o (t \o u)
  BY ConcatAssociative, SMTT(30)

(* The buffer moves to the end of the queue. *)
LEMMA QueueBuffer ==
  ASSUME NEW s \in Seq(Nat), NEW t \in Seq(Nat), NEW u \in Seq(Nat)
  PROVE  s \o t \o u = s \o (t \o u) \o << >>
  <1>1. s \o (t \o u) \in Seq(Nat)
    BY ConcatProperties
  <1>2. s \o (t \o u) \o << >> = s \o (t \o u)
    BY <1>1, ConcatEmptySeq
  <1> QED
    BY <1>2, Associate

LEMMA TakeFront ==
  ASSUME NEW s \in Seq(Nat), NEW t \in Seq(Nat), NEW u \in Seq(Nat),
         NEW v \in Seq(Nat)
  PROVE  s \o t \o (u \o v) = s \o (t \o u) \o v
  <1> DEFINE d == s \o t
  <1>1. d \in Seq(Nat)
    BY ConcatProperties
  <1>2. d \o u = s \o (t \o u)
    BY Associate
  <1> HIDE DEF d
  <1>3. \A x \in Seq(Nat) : x \o u \o v = x \o (u \o v)
    BY Associate, SMTT(60)
  <1>4. d \o u \o v = d \o (u \o v)
    BY <1>1, <1>3
  <1> QED
    BY <1>2, <1>4 DEF d

(* The front of the queue moves to the client. *)
LEMMA ReadFront ==
  ASSUME NEW s \in Seq(Nat), NEW t \in Seq(Nat), NEW q \in Seq(Nat),
         NEW k \in 1 .. Len(q)
  PROVE  s \o t \o q = s \o (t \o SubSeq(q, 1, k)) \o SubSeq(q, k + 1, Len(q))
  <1>1. Len(q) \in Nat /\ \A i \in 1 .. Len(q) : q[i] \in Nat
    BY LenProperties, ElementOfSeq
  <1> DEFINE f == SubSeq(q, 1, k)
             g == SubSeq(q, k + 1, Len(q))
  <1>2. f \in Seq(Nat) /\ g \in Seq(Nat)
    BY <1>1, SubSeqProperties
  <1>3. f \o g = q
    BY <1>1, ConcatAdjacentSubSeq, SubSeqFull
  <1> HIDE DEF f, g
  <1>4. \A x, y \in Seq(Nat) : s \o t \o (x \o y) = s \o (t \o x) \o y
    BY TakeFront
  <1>5. s \o t \o (f \o g) = s \o (t \o f) \o g
    BY <1>2, <1>4
  <1>6. s \o t \o q = s \o (t \o f) \o g
    BY <1>3, <1>5
  <1> QED
    BY <1>6 DEF f, g

LEMMA NextInput ==
  TypeOK /\ ReadInv /\ NothingQueued /\ InputFifo /\ [Next]_vars
    => NothingQueued' /\ InputFifo'
  <1> SUFFICES ASSUME TypeOK, ReadInv, NothingQueued, InputFifo, [Next]_vars
               PROVE  NothingQueued' /\ InputFifo'
    OBVIOUS
  <1>0. /\ readBuffer \in Seq(Nat) /\ readQueue \in Seq(Nat)
        /\ arrived \in Seq(Nat) /\ taken \in Seq(Nat)
        /\ Len(arrived) \in Nat
    BY LenProperties DEF TypeOK, InputOK
  <1>c. callback \in BOOLEAN
    BY DEF TypeOK, FlagsOK
  <1>d. /\ readBuffer \in Seq(Nat) /\ readQueue \in Seq(Nat)
        /\ taken \in Seq(Nat)
    BY <1>0
  <1>a. PICK n \in 0 .. Len(arrived) :
          arrived = SubSeq(arrived, 1, n) \o taken \o readQueue \o readBuffer
    BY DEF InputFifo
  <1>b. PICK p \in Seq(Nat) : p = SubSeq(arrived, 1, n)
    <2>1. \A i \in 1 .. n : arrived[i] \in Nat
      BY <1>0, ElementOfSeq
    <2>2. SubSeq(arrived, 1, n) \in Seq(Nat)
      BY <2>1, SubSeqProperties
    <2> QED
      BY <2>2
  <1>1. ASSUME UNCHANGED input, callback => callback'
        PROVE  NothingQueued' /\ InputFifo'
    <2>1. NothingQueued'
      BY <1>c, <1>1 DEF NothingQueued, input
    <2>2. InputFifo'
      BY <1>1 DEF InputFifo, input
    <2> QED
      BY <2>1, <2>2
  <1>2. CASE Read
    <2>1. PICK k \in 1 .. Len(readQueue) :
            /\ taken' = taken \o SubSeq(readQueue, 1, k)
            /\ readQueue' = SubSeq(readQueue, k + 1, Len(readQueue))
      BY <1>2 DEF Read
    <2>2. UNCHANGED <<arrived, readBuffer, callback>>
      BY <1>2 DEF Read, control
    <2>3. callback
      BY <1>0, <1>c, <2>1, EmptySeq DEF NothingQueued
    <2>4. p \o taken \o readQueue
            = p \o (taken \o SubSeq(readQueue, 1, k))
                \o SubSeq(readQueue, k + 1, Len(readQueue))
      <3>1. taken \in Seq(Nat) /\ readQueue \in Seq(Nat)
        BY <1>d
      <3> QED
        BY <3>1, ReadFront, ZenonT(30)
    <2>5. arrived' = SubSeq(arrived', 1, n) \o taken' \o readQueue' \o readBuffer'
      BY <1>a, <1>b, <2>1, <2>2, <2>4
    <2> QED
      BY <2>2, <2>3, <2>5 DEF NothingQueued, InputFifo
  <1>3. CASE ReadEnd
    <2>1. /\ readQueue' = IF callback THEN readQueue \o readBuffer ELSE readQueue
          /\ readBuffer' = << >>
          /\ UNCHANGED <<arrived, taken, callback>>
      BY <1>3 DEF ReadEnd, Queued, control
    <2>2. CASE callback
      <3>1. p \o taken \o readQueue \o readBuffer
              = p \o taken \o (readQueue \o readBuffer) \o << >>
        <4>1. p \o taken \in Seq(Nat)
          BY <1>d, ConcatProperties
        <4>2. \A x \in Seq(Nat) :
                x \o readQueue \o readBuffer
                  = x \o (readQueue \o readBuffer) \o << >>
          BY <1>d, QueueBuffer
        <4> QED
          BY <4>1, <4>2
      <3>2. arrived' = SubSeq(arrived', 1, n) \o taken' \o readQueue' \o readBuffer'
        BY <1>a, <1>b, <2>1, <2>2, <3>1
      <3> QED
        BY <2>1, <2>2, <3>2 DEF NothingQueued, InputFifo
    <2>3. CASE ~callback
      <3>1. taken' = << >> /\ readQueue' = << >> /\ readBuffer' = << >>
        BY <2>1, <2>3 DEF NothingQueued
      <3>2. SubSeq(arrived, 1, Len(arrived)) = arrived
        BY <1>0, SubSeqFull
      <3>3. arrived' = SubSeq(arrived', 1, Len(arrived))
                         \o taken' \o readQueue' \o readBuffer'
        BY <1>0, <2>1, <3>1, <3>2, ConcatEmptySeq
      <3>4. Len(arrived) \in 0 .. Len(arrived')
        BY <1>0, <2>1
      <3> QED
        BY <3>1, <3>3, <3>4 DEF NothingQueued, InputFifo
    <2> QED
      BY <2>2, <2>3
  <1>4. CASE Arrive
    <2> DEFINE x == Len(arrived) + 1
    <2>1. /\ rop /\ arrived' = Append(arrived, x) /\ readBuffer' = <<x>>
          /\ UNCHANGED <<readQueue, taken, callback>>
      BY <1>4 DEF Arrive, control
    <2>2. readBuffer = << >>
      BY <2>1 DEF ReadInv, OneRead, NoRead, IsRead
    <2>3. x \in Nat
      BY <1>0
    <2> HIDE DEF x
    <2>4. p \o taken \o readQueue \in Seq(Nat)
      BY <1>0, <1>b, ConcatProperties
    <2>5. arrived = p \o taken \o readQueue
      BY <1>a, <1>b, <2>2, <2>4, ConcatEmptySeq
    <2>6. arrived' = p \o taken \o readQueue \o <<x>>
      BY <1>0, <2>1, <2>3, <2>5, AppendIsConcat
    <2>7. SubSeq(arrived', 1, n) = p
      <3>1. arrived' = arrived \o <<x>> /\ <<x>> \in Seq(Nat)
        BY <1>0, <2>1, <2>3, AppendIsConcat
      <3>2. CASE n = 0
        BY <1>b, <3>2, SubSeqEmpty
      <3>3. CASE n \in 1 .. Len(arrived)
        BY <1>0, <1>b, <3>1, <3>3, SubSeqOfConcat1
      <3> QED
        BY <1>0, <3>2, <3>3
    <2>8. Len(arrived') = Len(arrived) + 1
      BY <1>0, <2>1, <2>3, AppendProperties
    <2>9. n \in 0 .. Len(arrived')
      BY <1>0, <2>8
    <2>10. arrived' = SubSeq(arrived', 1, n) \o taken' \o readQueue' \o readBuffer'
      BY <2>1, <2>6, <2>7
    <2> QED
      BY <1>0, <2>1, <2>9, <2>10 DEF NothingQueued, InputFifo
  <1>5. CASE Control
    <2>1. UNCHANGED input
      BY <1>5 DEF Control, Open, StartThread, ClearError, MarkOpen,
                  SetReadCallback, Close, Joined
    <2>2. callback => callback'
      BY <1>5 DEF Control, Open, StartThread, ClearError, MarkOpen,
                  SetReadCallback, Close, Joined
    <2> QED
      BY <1>1, <2>1, <2>2
  <1>6. CASE Write \/ PostWrite \/ Device \/ DeviceFault
    BY <1>1, <1>6 DEF Write, PostWrite, Device, EmitByte, WriteComplete,
                      DeviceFault, control
  <1>7. CASE DoRead \/ DoClose \/ ReadError \/ DoWrite \/ WriteEnd
               \/ WriteError \/ RunReturns
    BY <1>1, <1>7 DEF DoRead, DoClose, ReadError, DoWrite, WriteEnd,
                      WriteError, RunReturns, control, input
  <1>8. CASE UNCHANGED vars
    BY <1>1, <1>8 DEF vars, control
  <1> QED
    BY <1>2, <1>3, <1>4, <1>5, <1>6, <1>7, <1>8 DEF Next, Background

(* What clients took, the read queue and readBuffer are the end of what    *)
(* arrived: no byte is overwritten in readBuffer before it is queued, and  *)
(* none is lost, doubled or overtaken once it is, through closing,         *)
(* reopening and faults.                                                   *)
THEOREM InputIsFifo == Spec => []InputFifo
  <1> DEFINE I == ReadInv /\ NothingQueued /\ InputFifo
  <1>1. Init => I
    <2> SUFFICES ASSUME Init PROVE I
      OBVIOUS
    <2>1. /\ handlers = << >> /\ ~rop /\ ctl = "idle" /\ thread = "none"
          /\ readBuffer = << >> /\ readQueue = << >> /\ arrived = << >>
          /\ taken = << >>
      BY DEF Init
    <2>2. ReadInv
      BY <2>1 DEF ReadInv, OneRead, NoRead, Phases
    <2>3. NothingQueued
      BY <2>1 DEF NothingQueued
    <2>4. InputFifo
      <3>1. SubSeq(arrived, 1, 0) = << >>
        BY SubSeqEmpty
      <3>2. arrived = SubSeq(arrived, 1, 0) \o taken \o readQueue \o readBuffer
        BY <2>1, <3>1, ConcatEmptySeq, EmptySeq
      <3>3. 0 \in 0 .. Len(arrived)
        BY <2>1, EmptySeq
      <3> QED
        BY <3>2, <3>3 DEF InputFifo
    <2> QED
      BY <2>2, <2>3, <2>4
  <1>2. IInv /\ I /\ [Next]_vars => I'
    BY NextReadInv, NextInput DEF IInv
  <1>3. I => InputFifo
    OBVIOUS
  <1> QED
    BY <1>1, <1>2, <1>3, AlwaysIInv, PTL DEF Spec

-----------------------------------------------------------------------------
(* A byte that is emitted is the next one of those written: the head of    *)
(* the write buffer.                                                       *)
LEMMA EmitsNext ==
  ASSUME IInv, EmitByte
  PROVE  Stream!Emit
  <1>1. /\ wbuf \in Seq(Nat) /\ writeQueue \in Seq(Nat) /\ wire \in Seq(Nat)
        /\ written = wire \o wbuf \o writeQueue
    BY DEF IInv, TypeOK, OutputOK, OutputFifo
  <1>2. /\ wbuf # << >> /\ wire' = Append(wire, Head(wbuf))
        /\ written' = written
    BY DEF EmitByte, output
  <1>3. written[Len(wire) + 1] = Head(wbuf) /\ Len(wire) < Len(written)
    BY <1>1, <1>2, MoveHead
  <1> QED
    BY <1>2, <1>3 DEF Stream!Emit

LEMMA StepsImplement ==
  IInv /\ [Next]_vars => [Stream!Write \/ Stream!Emit]_<<written, wire>>
  <1> SUFFICES ASSUME IInv, [Next]_vars
               PROVE  Stream!Write \/ Stream!Emit \/ UNCHANGED <<written, wire>>
    OBVIOUS
  <1>1. CASE Write
    <2>1. /\ Len(written) \in Nat /\ Len(written) < MaxWrites
          /\ written' = Append(written, Len(written) + 1) /\ wire' = wire
      BY <1>1, LenProperties DEF Write, IInv, TypeOK, OutputOK
    <2>2. Len(written) + 1 \in 1 .. MaxWrites
      BY <2>1, BoundsAreNat
    <2> QED
      BY <2>1, <2>2 DEF Stream!Write
  <1>2. CASE EmitByte
    BY <1>2, EmitsNext
  <1>3. CASE Control
    BY <1>3 DEF Control, Open, StartThread, ClearError, MarkOpen,
                SetReadCallback, Close, Joined, output
  <1>4. CASE PostWrite \/ Read
    BY <1>4 DEF PostWrite, Read, output
  <1>5. CASE Background
    BY <1>5 DEF Background, DoRead, DoClose, ReadEnd, ReadError, DoWrite,
                WriteEnd, WriteError, RunReturns, output
  <1>6. CASE WriteComplete \/ Arrive \/ DeviceFault
    BY <1>6 DEF WriteComplete, Arrive, DeviceFault, output
  <1>7. CASE UNCHANGED vars
    BY <1>7 DEF vars, output
  <1> QED
    BY <1>1, <1>2, <1>3, <1>4, <1>5, <1>6, <1>7 DEF Next, Device

(* The serial port implements the abstract stream: at any step, what has   *)
(* left on the line grows by nothing but the next byte written, whatever   *)
(* the faults, the handlers' order and the reopenings.                     *)
THEOREM Implements == Spec => ImplementsStream
  <1>1. Init => Stream!Init
    BY DEF Init, Stream!Init
  <1>2. IInv /\ [Next]_vars => [Stream!Write \/ Stream!Emit]_<<written, wire>>
    BY StepsImplement
  <1> QED
    BY <1>1, <1>2, AlwaysIInv, PTL DEF Spec, ImplementsStream, Stream!Spec

=============================================================================
