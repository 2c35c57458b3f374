------------------------- MODULE ModbusMasterProofs -------------------------
(* Replies and requests stay in step while the line is orderly, for any    *)
(* schedule, any recovery and any number of failed transactions; and the   *)
(* registers the PLC sees are then those of their own modules.             *)
EXTENDS KwDriver, SequenceTheorems, TLAPS

LEMMA StepTypes ==
  ASSUME TypeOK
  PROVE  /\ req \in Request /\ NextStep \in Steps
         /\ req.dest \in Dests
  BY ScheduleAssumption, LenProperties, EmptySeq DEF TypeOK, req, NextStep, Steps, Dests

LEMMA ReplyType ==
  ASSUME TypeOK, NEW kind \in {"data", "exception"}, NEW ok \in BOOLEAN
  PROVE  Reply(kind, ok) \in Frame /\ Reply(kind, ok).fresh = TRUE
  <1>1. req \in Request
    BY StepTypes
  <1>2. req.slave \in Nat /\ req.fc \in Nat /\ req.nb \in Nat
    BY <1>1 DEF Request
  <1> QED
    BY <1>2 DEF Reply, Frame

LEMMA AgeType ==
  ASSUME NEW q \in Seq(Frame)
  PROVE  Age(q) \in Seq(Frame) /\ (q = << >> => Age(q) = << >>)
  <1>1. ASSUME NEW f \in Frame PROVE [f EXCEPT !.fresh = FALSE] \in Frame
    BY DEF Frame
  <1>2. \A i \in 1 .. Len(q) : [q[i] EXCEPT !.fresh = FALSE] \in Frame
    BY <1>1, ElementOfSeq
  <1>3. Len(q) \in Nat /\ (q = << >> => Len(q) = 0)
    BY LenProperties, EmptySeq
  <1>4. Age(q) \in Seq(Frame)
    BY <1>2, <1>3, IsASeq DEF Age
  <1>5. Len(Age(q)) = Len(q)
    BY <1>3 DEF Age
  <1> QED
    BY <1>3, <1>4, <1>5, EmptySeq

LEMMA CutType ==
  ASSUME NEW q \in Seq(Frame)
  PROVE  Cut(q) \in Seq(Frame) /\ Len(Cut(q)) = Len(q)
  <1>1. Len(q) \in Nat
    BY LenProperties
  <1>2. ASSUME NEW f \in Frame, NEW b \in BOOLEAN
        PROVE  [f EXCEPT !.crc_ok = b] \in Frame
    BY DEF Frame
  <1>3. \A i \in 1 .. Len(q) : [q[i] EXCEPT !.crc_ok = @ /\ i # 1] \in Frame
    <2> SUFFICES ASSUME NEW i \in 1 .. Len(q)
                 PROVE  [q[i] EXCEPT !.crc_ok = @ /\ i # 1] \in Frame
      OBVIOUS
    <2>1. q[i] \in Frame
      BY ElementOfSeq
    <2>2. (q[i].crc_ok /\ i # 1) \in BOOLEAN
      OBVIOUS
    <2>3. [q[i] EXCEPT !.crc_ok = q[i].crc_ok /\ i # 1] \in Frame
      BY <1>2, <2>1, <2>2
    <2> QED
      BY <2>3
  <1>4. Cut(q) \in Seq(Frame)
    BY <1>1, <1>3, IsASeq DEF Cut
  <1>5. Len(Cut(q)) = Len(q)
    BY <1>1 DEF Cut
  <1> QED
    BY <1>4, <1>5

(* What a read that ends anywhere leaves of what was received. *)
LEMMA RestType ==
  ASSUME NEW q \in Seq(Frame), NEW n \in 1 .. Len(q) + 1
  PROVE  SubSeq(q, n, Len(q)) \in Seq(Frame)
  BY SubSeqProperties, LenProperties

(* What a transaction leaves behind. *)
LEMMA FailTypeOK ==
  ASSUME TypeOK, Fail \/ SleepAndFail, line' \in Seq(Frame),
         rx' \in Seq(Frame), budget' \in 0 .. Budget,
         error_recovery' = error_recovery, orderly' \in BOOLEAN
  PROVE  TypeOK'
  <1>1. step' \in Steps /\ dest' \in [Dests -> Nat]
    BY StepTypes DEF TypeOK, Fail, SleepAndFail
  <1>2. phase' \in {"idle", "wait", "sleep"} /\ resend' \in BOOLEAN
    BY DEF TypeOK, Fail, SleepAndFail
  <1>3. answer' = << >>
    BY DEF Fail, SleepAndFail
  <1>4. << >> \in Seq(Frame) /\ Len(<< >>) = 0
    BY EmptySeq
  <1> QED
    BY <1>1, <1>2, <1>3, <1>4 DEF TypeOK

LEMMA AcceptType ==
  ASSUME TypeOK, NEW f \in Frame, Accept(f)
  PROVE  /\ step' \in Steps /\ phase' = "idle"
         /\ resend' \in BOOLEAN /\ answer' \in Seq(Frame) /\ Len(answer') <= 1
         /\ dest' \in [Dests -> Nat]
  <1>1. f.slave \in Nat
    BY DEF Frame
  <1>2. <<f>> \in Seq(Frame) /\ Len(<<f>>) = 1
    OBVIOUS
  <1> QED
    BY <1>1, <1>2, StepTypes DEF TypeOK, Accept

LEMMA InitTypeOK == Init => TypeOK
  <1> SUFFICES ASSUME Init PROVE TypeOK
    OBVIOUS
  <1>1. 1 \in Steps
    BY ScheduleAssumption, LenProperties, EmptySeq DEF Steps
  <1>0. error_recovery \subseteq {"LINK", "PROTOCOL"} /\ orderly \in BOOLEAN
    BY FaultAssumption DEF Init
  <1>2. << >> \in Seq(Frame) /\ Len(<< >>) = 0
    BY EmptySeq
  <1>3. budget \in 0 .. Budget
    BY FaultAssumption DEF Init
  <1>4. [d \in Dests |-> 0] \in [Dests -> Nat]
    OBVIOUS
  <1>5. /\ step \in Steps /\ phase \in {"idle", "wait", "sleep"}
        /\ resend \in BOOLEAN
    BY <1>1 DEF Init
  <1>6. /\ line \in Seq(Frame) /\ rx \in Seq(Frame) /\ answer \in Seq(Frame)
        /\ Len(answer) <= 1
    BY <1>2 DEF Init
  <1>7. dest \in [Dests -> Nat]
    BY <1>4 DEF Init
  <1> QED
    BY <1>0, <1>3, <1>5, <1>6, <1>7 DEF TypeOK

LEMMA NextTypeOK == TypeOK /\ [Next]_vars => TypeOK'
  <1> SUFFICES ASSUME TypeOK, [Next]_vars PROVE TypeOK'
    OBVIOUS
  <1>a. line \in Seq(Frame) /\ rx \in Seq(Frame) /\ << >> \in Seq(Frame)
    BY EmptySeq DEF TypeOK
  <1>b. Fine => budget' \in 0 .. Budget /\ orderly' \in BOOLEAN
    BY DEF TypeOK, Fine
  <1>c. ASSUME NEW f, Suffer(f)
        PROVE  budget' \in 0 .. Budget /\ orderly' \in BOOLEAN
    <2>1. budget' \in 0 .. Budget
      BY <1>c, FaultAssumption DEF TypeOK, Suffer
    <2>2. orderly' \in BOOLEAN
      BY <1>c DEF Suffer
    <2> QED
      BY <2>1, <2>2
  <1>e. error_recovery' = error_recovery
    BY DEF Next, Master, Send, Receive, Timeout, Flush, SendFails, ReadFails,
           Arrive, Misframe, vars
  <1>d. rx # << >> => Head(rx) \in Frame /\ Tail(rx) \in Seq(Frame)
    BY <1>a, HeadTailProperties
  <1>1. CASE Send
    <2>1. Age(line) \in Seq(Frame) /\ Age(rx) \in Seq(Frame)
      BY <1>a, AgeType
    <2>2. \A kind \in {"data", "exception"}, ok \in BOOLEAN :
            Append(Age(line), Reply(kind, ok)) \in Seq(Frame)
      BY <2>1, ReplyType, AppendProperties
    <2>3. line' \in Seq(Frame)
      BY <1>1, <2>1, <2>2 DEF Send
    <2>4. budget' \in 0 .. Budget /\ orderly' \in BOOLEAN
      BY <1>1, <1>b, <1>c DEF Send
    <2> QED
      BY <1>1, <1>a, <1>e, <2>1, <2>3, <2>4 DEF Send, TypeOK
  <1>2. CASE SendFails
    <2>1. budget' \in 0 .. Budget /\ orderly' \in BOOLEAN
      BY <1>2, <1>b, <1>c DEF SendFails
    <2>2. CASE "LINK" \in error_recovery
      <3>1. UNCHANGED <<step, answer, dest, line>>
        BY <1>2, <2>2 DEF SendFails
      <3>2. phase' \in {"idle", "wait", "sleep"} /\ resend' \in BOOLEAN
        BY <1>2, <2>2 DEF SendFails, TypeOK
      <3>3. rx' \in Seq(Frame)
        BY <1>2, <1>a, <2>2 DEF SendFails
      <3> QED
        BY <1>e, <2>1, <3>1, <3>2, <3>3 DEF TypeOK
    <2>3. CASE "LINK" \notin error_recovery
      <3>1. Fail /\ UNCHANGED <<line, rx>>
        BY <1>2, <2>3 DEF SendFails
      <3> QED
        BY <1>a, <1>e, <2>1, <3>1, FailTypeOK
    <2> QED
      BY <2>2, <2>3
  <1>3. CASE Arrive
    <2>1. Head(line) \in Frame /\ Tail(line) \in Seq(Frame)
      BY <1>3, <1>a, HeadTailProperties DEF Arrive
    <2>2. Append(rx, Head(line)) \in Seq(Frame)
      BY <1>a, <2>1, AppendProperties
    <2> QED
      BY <1>3, <2>1, <2>2 DEF Arrive, Fine, TypeOK
  <1>4. CASE Receive
    <2>1. /\ rx # << >> /\ UNCHANGED <<line, budget, orderly>>
          /\ rx' \in Seq(Frame)
      BY <1>4, <1>a, <1>d DEF Receive, Fine
    <2>2. CASE Fail \/ SleepAndFail
      <3>1. /\ line' \in Seq(Frame) /\ budget' \in 0 .. Budget
            /\ orderly' \in BOOLEAN
        BY <1>a, <2>1 DEF TypeOK
      <3> QED
        BY <1>e, <2>1, <2>2, <3>1, FailTypeOK
    <2>3. CASE Accept(Head(rx))
      <3>1. /\ line' \in Seq(Frame) /\ budget' \in 0 .. Budget
            /\ orderly' \in BOOLEAN
        BY <1>a, <2>1 DEF TypeOK
      <3> QED
        BY <1>d, <1>e, <2>1, <2>3, <3>1, AcceptType DEF TypeOK
    <2> QED
      BY <1>4, <2>2, <2>3 DEF Receive
  <1>5. CASE Timeout
    <2>1. budget' \in 0 .. Budget /\ orderly' \in BOOLEAN
      BY <1>5, <1>b, <1>c DEF Timeout
    <2>2. line' \in Seq(Frame) /\ rx' \in Seq(Frame)
      BY <1>5, <1>a, CutType DEF Timeout
    <2> QED
      BY <1>5, <1>e, <2>1, <2>2, FailTypeOK DEF Timeout, OnTimeout
  <1>6. CASE ReadFails
    <2>1. budget' \in 0 .. Budget /\ orderly' \in BOOLEAN
      BY <1>6, <1>b, <1>c DEF ReadFails
    <2>2. rx' \in Seq(Frame) /\ line' = line
      BY <1>6, <1>a, CutType DEF ReadFails
    <2> QED
      BY <1>6, <1>a, <1>e, <2>1, <2>2, FailTypeOK DEF ReadFails
  <1>9. CASE Misframe
    <2>1. budget' \in 0 .. Budget /\ orderly' \in BOOLEAN
      BY <1>9, <1>c DEF Misframe
    <2>2. rx' \in Seq(Frame) /\ line' = line
      <3>1. PICK n \in 1 .. Len(rx) + 1 :
              rx' \in {SubSeq(rx, n, Len(rx)), Cut(SubSeq(rx, n, Len(rx)))}
        BY <1>9 DEF Misframe
      <3>2. SubSeq(rx, n, Len(rx)) \in Seq(Frame)
        BY <1>a, RestType
      <3> QED
        BY <1>9, <3>1, <3>2, CutType DEF Misframe
    <2> QED
      BY <1>9, <1>a, <1>e, <2>1, <2>2, FailTypeOK DEF Misframe
  <1>7. CASE Flush
    <2>1. budget' \in 0 .. Budget /\ orderly' \in BOOLEAN
      BY <1>7, <1>b, <1>c DEF Flush
    <2> QED
      BY <1>7, <1>a, <1>e, <2>1, StepTypes DEF Flush, Flushed, TypeOK
  <1>8. CASE UNCHANGED vars
    BY <1>8 DEF vars, TypeOK
  <1> QED
    BY <1>1, <1>2, <1>3, <1>4, <1>5, <1>6, <1>7, <1>8, <1>9 DEF Next, Master

(* Every variable keeps its type. *)
THEOREM TypeCorrect == Spec => []TypeOK
  BY InitTypeOK, NextTypeOK, PTL DEF Spec

-----------------------------------------------------------------------------
(* While the line is orderly, at most one reply is on its way or received: *)
(* the answer of the slave that is asked while a transaction waits, and    *)
(* none between transactions.                                              *)
Own(q) == \A i \in 1 .. Len(q) : q[i].fresh /\ q[i].slave = req.slave

Aligned ==
  /\ line = << >> \/ rx = << >>
  /\ Len(line) <= 1 /\ Len(rx) <= 1
  /\ phase = "idle" => line = << >> /\ rx = << >>
  /\ phase = "wait" => Own(line) /\ Own(rx)
  /\ answer # << >> => answer[1].fresh

IInv == TypeOK /\ (orderly => Aligned)

LEMMA NextAligned ==
  ASSUME TypeOK, Aligned, Next, orderly'
  PROVE  /\ Aligned'
         /\ \/ UNCHANGED dest
            \/ dest' = [dest EXCEPT ![req.dest] = req.slave]
  <1>a. /\ line \in Seq(Frame) /\ rx \in Seq(Frame)
        /\ phase \in {"idle", "wait", "sleep"}
    BY DEF TypeOK
  <1>b. ~Suffer("overdue") /\ ~Suffer("read") /\ ~Suffer("misframe")
        /\ (Suffer("late") => "LINK" \in error_recovery)
    BY DEF Suffer, Unexpected
  <1>c. Len(<< >>) = 0 /\ Own(<< >>) /\ Own(<< >>)'
    BY DEF Own
  <1>1. CASE Send
    <2>1. line = << >> /\ rx = << >> /\ Age(line) = << >> /\ rx' = << >>
      BY <1>1, <1>a, AgeType DEF Send, Aligned
    <2>2. /\ phase' = "wait" /\ answer' = << >> /\ req' = req /\ dest' = dest
      BY <1>1 DEF Send, req
    <2>3. \A kind \in {"data", "exception"}, ok \in BOOLEAN :
            Reply(kind, ok).slave = req.slave
      BY DEF Reply
    <2>4. line' = << >> \/ \E f \in Frame :
             f.fresh /\ f.slave = req.slave /\ line' = Append(<< >>, f)
      BY <1>1, <2>1, <2>3, ReplyType DEF Send
    <2>5. Len(line') <= 1 /\ Own(line)'
      <3>1. CASE line' = << >>
        BY <3>1 DEF Own
      <3>2. CASE line' # << >>
        <4>1. PICK f \in Frame :
                f.fresh /\ f.slave = req.slave /\ line' = Append(<< >>, f)
          BY <2>4, <3>2
        <4>2. Len(line') = 1 /\ line'[1] = f
          BY <4>1
        <4>3. Own(line)' <=> \A i \in 1 .. Len(line') :
                               line'[i].fresh /\ line'[i].slave = req'.slave
          BY DEF Own
        <4> QED
          BY <2>2, <4>1, <4>2, <4>3
      <3> QED
        BY <3>1, <3>2
    <2> QED
      BY <1>a, <1>c, <2>1, <2>2, <2>5 DEF Aligned
  <1>2. CASE SendFails
    <2>1. line = << >> /\ rx = << >> /\ phase = "idle"
      BY <1>2 DEF SendFails, Aligned
    <2>2. /\ line' = << >> /\ rx' = << >> /\ phase' \in {"idle", "sleep"}
          /\ answer' = answer \/ answer' = << >>
          /\ dest' = dest
      <3>1. CASE "LINK" \in error_recovery
        BY <1>2, <2>1, <3>1 DEF SendFails
      <3>2. CASE "LINK" \notin error_recovery
        BY <1>2, <2>1, <3>2 DEF SendFails, Fail
      <3> QED
        BY <3>1, <3>2
    <2> QED
      BY <1>c, <2>2 DEF Aligned
  <1>3. CASE Arrive
    <2>1. /\ line # << >> /\ rx = << >> /\ Len(line) = 1
          /\ rx' = Append(rx, Head(line)) /\ line' = Tail(line)
          /\ UNCHANGED <<phase, answer, dest, step>>
      <3>1. /\ line # << >>
            /\ rx' = Append(rx, Head(line)) /\ line' = Tail(line)
            /\ UNCHANGED <<phase, answer, dest, step>>
        BY <1>3 DEF Arrive
      <3>2. rx = << >> /\ Len(line) <= 1
        BY <3>1 DEF Aligned
      <3>3. Len(line) \in Nat /\ Len(line) # 0
        BY <1>a, <3>1, EmptySeq, LenProperties
      <3>4. Len(line) = 1
        <4>1. \A n \in Nat : n # 0 /\ n <= 1 => n = 1
          OBVIOUS
        <4> QED
          BY <3>2, <3>3, <4>1, Zenon
      <3> QED
        BY <3>1, <3>2, <3>4
    <2>2. Head(line) = line[1] /\ Head(line) \in Frame
          /\ Tail(line) \in Seq(Frame) /\ Len(Tail(line)) = 0
      BY <1>a, <2>1, HeadTailProperties
    <2>3. Tail(line) = << >>
      BY <2>2, EmptySeq
    <2>4. Len(rx') = 1 /\ rx'[1] = line[1]
      BY <2>1, <2>2
    <2>5. phase # "idle"
      BY <2>1 DEF Aligned
    <2>6. Own(line) => Own(rx)'
      BY <2>1, <2>4 DEF Own, req
    <2> QED
      BY <1>a, <1>c, <2>1, <2>3, <2>4, <2>5, <2>6 DEF Aligned
  <1>4. CASE Receive
    <2>1. /\ phase = "wait" /\ rx # << >> /\ line = << >> /\ Len(rx) = 1
          /\ line' = line
      <3>1. phase = "wait" /\ rx # << >> /\ line' = line
        BY <1>4 DEF Receive
      <3>2. line = << >> /\ Len(rx) <= 1
        BY <3>1 DEF Aligned
      <3>3. Len(rx) \in Nat /\ Len(rx) # 0
        BY <1>a, <3>1, EmptySeq, LenProperties
      <3>4. Len(rx) = 1
        <4>1. \A n \in Nat : n # 0 /\ n <= 1 => n = 1
          OBVIOUS
        <4> QED
          BY <3>2, <3>3, <4>1, Zenon
      <3> QED
        BY <3>1, <3>2, <3>4
    <2>2. Tail(rx) = << >>
      <3>1. Tail(rx) \in Seq(Frame) /\ Len(Tail(rx)) = 0
        BY <1>a, <2>1, HeadTailProperties
      <3> QED
        BY <3>1, EmptySeq
    <2>3. rx' = << >>
      BY <1>4, <2>2 DEF Receive
    <2>4. Head(rx).fresh /\ Head(rx).slave = req.slave
      BY <1>a, <2>1, HeadTailProperties DEF Aligned, Own
    <2>5. /\ phase' \in {"idle", "sleep"}
          /\ \/ answer' = << >> /\ dest' = dest
             \/ /\ answer' = <<Head(rx)>>
                /\ dest' = [dest EXCEPT ![req.dest] = Head(rx).slave]
      BY <1>4 DEF Receive, Fail, SleepAndFail, Accept
    <2>6. answer' # << >> => answer'[1].fresh
      BY <2>4, <2>5
    <2> QED
      BY <1>a, <1>c, <2>1, <2>3, <2>4, <2>5, <2>6 DEF Aligned
  <1>5. CASE Timeout
    <2>1. rx' = << >> /\ answer' = << >> /\ dest' = dest
          /\ phase' \in {"idle", "sleep"}
      BY <1>5 DEF Timeout, OnTimeout, Fail, SleepAndFail
    <2>2. CASE line' = << >>
      BY <1>c, <2>1, <2>2 DEF Aligned
    <2>3. CASE line' # << >>
      <3>1. line # << >> /\ line' \in {line, Cut(line)} /\ Suffer("late")
        BY <1>5, <2>3 DEF Timeout
      <3>2. "LINK" \in error_recovery
        BY <1>b, <3>1
      <3>3. phase' = "sleep"
        BY <1>5, <3>2 DEF Timeout, OnTimeout, SleepAndFail
      <3>4. Len(line') <= 1
        BY <1>a, <3>1, CutType DEF Aligned
      <3> QED
        BY <1>c, <2>1, <3>3, <3>4 DEF Aligned
    <2> QED
      BY <2>2, <2>3
  <1>6. CASE ReadFails \/ Misframe
    BY <1>6, <1>b DEF ReadFails, Misframe
  <1>7. CASE Flush
    <2>1. line = << >> /\ line' = line /\ rx' = << >> /\ phase' = "idle"
          /\ answer' = answer /\ dest' = dest
      BY <1>7, <1>b DEF Flush, Flushed
    <2> QED
      BY <1>c, <2>1 DEF Aligned
  <1> QED
    BY <1>1, <1>2, <1>3, <1>4, <1>5, <1>6, <1>7 DEF Next, Master

(* Order on the line, once lost, does not return. *)
LEMMA OrderlyBefore == TypeOK /\ Next /\ orderly' => orderly
  BY DEF TypeOK, Next, Master, Send, SendFails, Arrive, Receive, Timeout,
         ReadFails, Misframe, Flush, Suffer, Fine

LEMMA NextIInv == IInv /\ [Next]_vars => IInv'
  <1> SUFFICES ASSUME IInv, [Next]_vars, orderly' PROVE Aligned'
    BY NextTypeOK DEF IInv
  <1>1. CASE Next
    BY <1>1, NextAligned, OrderlyBefore DEF IInv
  <1>2. CASE UNCHANGED vars
    BY <1>2 DEF vars, IInv, Aligned, Own, req
  <1> QED
    BY <1>1, <1>2

LEMMA InitIInv == Init => IInv
  BY InitTypeOK, EmptySeq DEF Init, IInv, Aligned, Own

(* On an orderly line a transaction never accepts the answer to another    *)
(* request, although the frame does not name the request it answers: it is *)
(* the alignment of replies and requests that the recovery's sleep and     *)
(* flush maintain, and not check_confirmation, that ensures it.            *)
THEOREM AnswersAreOwn == Spec => []AnswerIsOwn
  <1>1. IInv => AnswerIsOwn
    BY DEF IInv, Aligned, AnswerIsOwn
  <1> QED
    BY InitIInv, NextIInv, <1>1, PTL DEF Spec

-----------------------------------------------------------------------------
(* Whatever goes wrong, every frame on the line or in the receive buffer   *)
(* is the reply of some slave to some request of the schedule.             *)
Answers(f, j) == /\ f.slave = Schedule[j].slave
                 /\ f.fc = Schedule[j].fc /\ f.nb = Schedule[j].nb

Answered(q) == \A i \in 1 .. Len(q) : \E j \in Steps : Answers(q[i], j)

Provenance == Answered(line) /\ Answered(rx)

LEMMA AnsweredAge ==
  ASSUME NEW q \in Seq(Frame), Answered(q) PROVE Answered(Age(q))
  <1> SUFFICES ASSUME NEW i \in 1 .. Len(Age(q))
               PROVE  \E j \in Steps : Answers(Age(q)[i], j)
    BY DEF Answered
  <1>1. Len(q) \in Nat /\ Len(Age(q)) = Len(q)
    BY LenProperties DEF Age
  <1>2. i \in 1 .. Len(q) /\ Age(q)[i] = [q[i] EXCEPT !.fresh = FALSE]
    BY <1>1 DEF Age
  <1>3. q[i] \in Frame
    BY <1>1, <1>2, ElementOfSeq
  <1>4. /\ Age(q)[i].slave = q[i].slave
        /\ Age(q)[i].fc = q[i].fc /\ Age(q)[i].nb = q[i].nb
    BY <1>2, <1>3 DEF Frame
  <1>5. PICK j \in Steps : Answers(q[i], j)
    BY <1>2 DEF Answered
  <1> QED
    BY <1>4, <1>5 DEF Answers

LEMMA AnsweredCut ==
  ASSUME NEW q \in Seq(Frame), Answered(q) PROVE Answered(Cut(q))
  <1> SUFFICES ASSUME NEW i \in 1 .. Len(Cut(q))
               PROVE  \E j \in Steps : Answers(Cut(q)[i], j)
    BY DEF Answered
  <1>1. Len(q) \in Nat /\ Len(Cut(q)) = Len(q)
    BY LenProperties, CutType
  <1>2. /\ i \in 1 .. Len(q)
        /\ Cut(q)[i] = [q[i] EXCEPT !.crc_ok = @ /\ i # 1]
    BY <1>1 DEF Cut
  <1>3. q[i] \in Frame
    BY <1>1, <1>2, ElementOfSeq
  <1>4. /\ Cut(q)[i].slave = q[i].slave
        /\ Cut(q)[i].fc = q[i].fc /\ Cut(q)[i].nb = q[i].nb
    BY <1>2, <1>3 DEF Frame
  <1>5. PICK j \in Steps : Answers(q[i], j)
    BY <1>2 DEF Answered
  <1> QED
    BY <1>4, <1>5 DEF Answers

LEMMA AnsweredRest ==
  ASSUME NEW q \in Seq(Frame), Answered(q), NEW n \in 1 .. Len(q) + 1
  PROVE  Answered(SubSeq(q, n, Len(q)))
  <1> DEFINE rest == SubSeq(q, n, Len(q))
  <1> SUFFICES ASSUME NEW i \in 1 .. Len(rest)
               PROVE  \E j \in Steps : Answers(rest[i], j)
    BY DEF Answered
  <1>1. Len(q) \in Nat /\ n \in Nat
    BY LenProperties
  <1>2. Len(rest) = Len(q) - n + 1 /\ rest[i] = q[n + i - 1]
    BY <1>1, SubSeqProperties
  <1>3. n + i - 1 \in 1 .. Len(q)
    BY <1>1, <1>2
  <1>4. PICK j \in Steps : Answers(q[n + i - 1], j)
    BY <1>3 DEF Answered
  <1> QED
    BY <1>2, <1>4

LEMMA AnsweredAppend ==
  ASSUME NEW q \in Seq(Frame), Answered(q), NEW f \in Frame,
         NEW j \in Steps, Answers(f, j)
  PROVE  Answered(Append(q, f))
  <1> SUFFICES ASSUME NEW i \in 1 .. Len(Append(q, f))
               PROVE  \E s \in Steps : Answers(Append(q, f)[i], s)
    BY DEF Answered
  <1>1. Len(q) \in Nat /\ Len(Append(q, f)) = Len(q) + 1
    BY AppendProperties, LenProperties
  <1>2. CASE i \in 1 .. Len(q)
    <2>1. Append(q, f)[i] = q[i]
      BY <1>2, AppendProperties
    <2> QED
      BY <1>2, <2>1 DEF Answered
  <1>3. CASE i = Len(q) + 1
    <2>1. Append(q, f)[i] = f
      BY <1>3, AppendProperties
    <2> QED
      BY <2>1
  <1> QED
    BY <1>1, <1>2, <1>3

LEMMA AnsweredTail ==
  ASSUME NEW q \in Seq(Frame), q # << >>, Answered(q)
  PROVE  /\ Answered(Tail(q))
         /\ Head(q) \in Frame /\ \E j \in Steps : Answers(Head(q), j)
  <1>1. /\ Len(q) \in Nat /\ Len(q) > 0 /\ Len(Tail(q)) = Len(q) - 1
        /\ Head(q) = q[1] /\ Head(q) \in Frame
        /\ \A i \in 1 .. Len(Tail(q)) : Tail(q)[i] = q[i + 1]
    BY HeadTailProperties, LenProperties, EmptySeq
  <1>2. \E j \in Steps : Answers(Head(q), j)
    BY <1>1 DEF Answered
  <1>3. Answered(Tail(q))
    <2> SUFFICES ASSUME NEW i \in 1 .. Len(Tail(q))
                 PROVE  \E j \in Steps : Answers(Tail(q)[i], j)
      BY DEF Answered
    <2>1. i + 1 \in 1 .. Len(q) /\ Tail(q)[i] = q[i + 1]
      BY <1>1
    <2>2. \E j \in Steps : Answers(q[i + 1], j)
      BY <2>1 DEF Answered
    <2> QED
      BY <2>1, <2>2
  <1> QED
    BY <1>1, <1>2, <1>3

LEMMA NextProvenance ==
  ASSUME TypeOK, Provenance, [Next]_vars PROVE Provenance'
  <1>a. line \in Seq(Frame) /\ rx \in Seq(Frame)
    BY DEF TypeOK
  <1>b. Answered(<< >>)
    BY EmptySeq DEF Answered
  <1>c. Provenance' <=> Answered(line') /\ Answered(rx')
    BY DEF Provenance, Answered, Answers, Steps
  <1>d. Answered(line) /\ Answered(rx)
    BY DEF Provenance
  <1>1. CASE Send
    <2>1. /\ Age(line) \in Seq(Frame) /\ Age(rx) \in Seq(Frame)
          /\ Answered(Age(line)) /\ Answered(Age(rx))
      BY <1>a, <1>d, AgeType, AnsweredAge
    <2>2. ASSUME NEW kind \in {"data", "exception"}, NEW ok \in BOOLEAN
          PROVE  Answered(Append(Age(line), Reply(kind, ok)))
      <3>1. step \in Steps /\ Answers(Reply(kind, ok), step)
        BY DEF TypeOK, Reply, Answers, req
      <3>2. Reply(kind, ok) \in Frame
        BY ReplyType
      <3> QED
        BY <2>1, <3>1, <3>2, AnsweredAppend
    <2>3. Answered(line')
      BY <1>1, <2>1, <2>2 DEF Send
    <2> QED
      BY <1>1, <1>c, <2>1, <2>3 DEF Send
  <1>2. CASE Arrive
    <2>1. PICK j \in Steps : Answers(Head(line), j)
      BY <1>2, <1>a, <1>d, AnsweredTail DEF Arrive
    <2>2. Answered(Tail(line)) /\ Head(line) \in Frame
      BY <1>2, <1>a, <1>d, AnsweredTail DEF Arrive
    <2>3. Answered(Append(rx, Head(line)))
      BY <1>a, <1>d, <2>1, <2>2, AnsweredAppend
    <2> QED
      BY <1>2, <1>c, <2>2, <2>3 DEF Arrive
  <1>3. CASE Receive
    <2>1. line' = line /\ rx' \in {<< >>, Tail(rx)} /\ rx # << >>
      BY <1>3 DEF Receive
    <2> QED
      BY <1>a, <1>b, <1>c, <1>d, <2>1, AnsweredTail
  <1>4. CASE SendFails \/ Flush \/ UNCHANGED vars
    <2>1. line' = line /\ rx' \in {<< >>, rx}
      BY <1>4 DEF SendFails, Flush, Flushed, vars
    <2> QED
      BY <1>b, <1>c, <1>d, <2>1
  <1>5. CASE Timeout
    <2>1. line' \in {line, Cut(line)} /\ rx' = << >>
      BY <1>5 DEF Timeout
    <2> QED
      BY <1>a, <1>b, <1>c, <1>d, <2>1, AnsweredCut
  <1>6. CASE ReadFails
    <2>1. line' = line /\ rx' \in {<< >>, rx, Cut(rx)}
      BY <1>6 DEF ReadFails
    <2> QED
      BY <1>a, <1>b, <1>c, <1>d, <2>1, AnsweredCut
  <1>7. CASE Misframe
    <2>1. PICK n \in 1 .. Len(rx) + 1 :
            rx' \in {SubSeq(rx, n, Len(rx)), Cut(SubSeq(rx, n, Len(rx)))}
      BY <1>7 DEF Misframe
    <2>2. /\ SubSeq(rx, n, Len(rx)) \in Seq(Frame)
          /\ Answered(SubSeq(rx, n, Len(rx)))
      BY <1>a, <1>d, RestType, AnsweredRest
    <2>3. Answered(rx') /\ line' = line
      BY <1>7, <2>1, <2>2, AnsweredCut DEF Misframe
    <2> QED
      BY <1>c, <1>d, <2>3
  <1> QED
    BY <1>1, <1>2, <1>3, <1>4, <1>5, <1>6, <1>7 DEF Next, Master

(* What a turn stores when a reply is accepted: its own slave's data while *)
(* the replies are aligned, and otherwise an alike request's.              *)
LEMMA AcceptedSource ==
  ASSUME IInv, Provenance, phase = "wait", rx # << >>, Matches(Head(rx))
  PROVE  \/ Head(rx).slave = Schedule[step].slave
         \/ ~orderly /\ Head(rx).slave \in Alike[step]
  <1>1. TypeOK /\ rx \in Seq(Frame) /\ step \in Steps
    BY DEF IInv, TypeOK
  <1>2. CASE orderly
    <2>1. Own(rx)
      BY <1>2 DEF IInv, Aligned
    <2>2. Len(rx) \in Nat /\ Len(rx) > 0 /\ Head(rx) = rx[1]
      BY <1>1, HeadTailProperties, LenProperties, EmptySeq
    <2> QED
      BY <2>1, <2>2 DEF Own, req
  <1>3. CASE ~orderly
    <2>1. PICK j \in Steps : Answers(Head(rx), j)
      BY <1>1, AnsweredTail DEF Provenance
    <2>2. /\ Schedule[j].fc = Schedule[step].fc
          /\ Quantity(Schedule[j].fc, Schedule[j].nb)
               = Quantity(Schedule[step].fc, Schedule[step].nb)
      BY <2>1 DEF Matches, Answers, req
    <2>3. Schedule[j].slave \in Alike[step]
      BY <1>1, <2>2 DEF Alike
    <2> QED
      BY <1>3, <2>1, <2>3 DEF Answers
  <1> QED
    BY <1>2, <1>3

LEMMA StepTurns ==
  ASSUME IInv, Provenance, [Next]_vars
  PROVE  [Turns!Next]_<<step, dest, orderly>>
  <1>a. orderly \in BOOLEAN
    BY DEF IInv, TypeOK
  <1>b. Fine => orderly' \in {orderly, FALSE}
    BY DEF Fine
  <1>c. \A f : Suffer(f) => orderly' \in {orderly, FALSE}
    BY <1>a DEF Suffer
  <1>d. Fail => Turns!Turn
    BY DEF Fail, NextStep, Turns!Turn
  <1>e. UNCHANGED <<step, dest>> => Turns!Pause
    BY DEF Turns!Pause
  <1>1. CASE Send
    <2>1. UNCHANGED <<step, dest>> /\ orderly' \in {orderly, FALSE}
      BY <1>1, <1>b, <1>c DEF Send
    <2> QED
      BY <1>e, <2>1 DEF Turns!Next
  <1>2. CASE SendFails
    <2>1. Fail \/ UNCHANGED <<step, dest>>
      BY <1>2 DEF SendFails
    <2>2. orderly' \in {orderly, FALSE}
      BY <1>2, <1>c DEF SendFails
    <2> QED
      BY <1>d, <1>e, <2>1, <2>2 DEF Turns!Next
  <1>3. CASE Arrive
    <2>1. UNCHANGED <<step, dest>> /\ orderly' \in {orderly, FALSE}
      BY <1>3, <1>b DEF Arrive
    <2> QED
      BY <1>e, <2>1 DEF Turns!Next
  <1>4. CASE Receive
    <2>1. phase = "wait" /\ rx # << >> /\ orderly' \in {orderly, FALSE}
      BY <1>4, <1>b DEF Receive
    <2>2. CASE Matches(Head(rx)) /\ Accept(Head(rx))
      <3>1. /\ step' = NextStep
            /\ dest' = [dest EXCEPT ![Schedule[step].dest] = Head(rx).slave]
        BY <2>2 DEF Accept, req
      <3>2. \/ Turns!Stored(Schedule[step].slave)
            \/ ~orderly /\ Head(rx).slave \in Alike[step]
                 /\ Turns!Stored(Head(rx).slave)
        BY <2>1, <2>2, <3>1, AcceptedSource DEF Turns!Stored
      <3>3. Turns!Turn
        BY <3>1, <3>2 DEF Turns!Turn, NextStep
      <3> QED
        BY <2>1, <3>3 DEF Turns!Next
    <2>3. CASE Fail \/ SleepAndFail
      <3>1. Turns!Turn \/ Turns!Pause
        BY <1>d, <1>e, <2>3 DEF SleepAndFail
      <3> QED
        BY <2>1, <3>1 DEF Turns!Next
    <2> QED
      BY <1>4, <2>2, <2>3 DEF Receive
  <1>5. CASE Timeout
    <2>1. Fail \/ UNCHANGED <<step, dest>>
      BY <1>5 DEF Timeout, OnTimeout, SleepAndFail
    <2>2. orderly' \in {orderly, FALSE}
      BY <1>5, <1>b, <1>c DEF Timeout
    <2> QED
      BY <1>d, <1>e, <2>1, <2>2 DEF Turns!Next
  <1>6. CASE ReadFails \/ Misframe
    <2>1. Fail /\ orderly' \in {orderly, FALSE}
      BY <1>6, <1>c DEF ReadFails, Misframe
    <2> QED
      BY <1>d, <2>1 DEF Turns!Next
  <1>7. CASE Flush
    <2>1. dest' = dest /\ step' = IF resend THEN step ELSE NextStep
      BY <1>7 DEF Flush
    <2>2. orderly' \in {orderly, FALSE}
      BY <1>7, <1>b, <1>c DEF Flush
    <2>3. Turns!Turn \/ Turns!Pause
      BY <2>1 DEF Turns!Turn, Turns!Pause, NextStep
    <2> QED
      BY <2>2, <2>3 DEF Turns!Next
  <1>8. CASE UNCHANGED vars
    BY <1>8 DEF vars
  <1> QED
    BY <1>1, <1>2, <1>3, <1>4, <1>5, <1>6, <1>7, <1>8 DEF Next, Master

(* For every schedule, every recovery and every sequence of faults: each   *)
(* request has its turn once a round and fills no buffer but its own, from *)
(* its own slave while the line is orderly and from an alike request's     *)
(* slave afterwards.                                                       *)
THEOREM MasterImplementsPolling == Spec => ImplementsPolling
  <1>1. Init => IInv /\ Provenance
    BY InitIInv, EmptySeq DEF Init, Provenance, Answered
  <1>2. IInv /\ Provenance /\ [Next]_vars => (IInv /\ Provenance)'
    BY NextIInv, NextProvenance DEF IInv
  <1>3. Init => Turns!Init
    BY DEF Init, Turns!Init, Dests, Steps
  <1>4. IInv /\ Provenance /\ [Next]_vars
          => [Turns!Next]_<<step, dest, orderly>>
    BY StepTurns
  <1> QED
    BY <1>1, <1>2, <1>3, <1>4, PTL DEF Spec, ImplementsPolling, Turns!Spec

-----------------------------------------------------------------------------
(* What is true of the master is true of the driver that polls with it.    *)
LEMMA DriverProjection == KwSpec => Spec
  <1>1. KwInit => Init
    BY DEF KwInit
  <1>2. [KwNext]_kwvars => [Next]_vars
    BY DEF KwNext, kwvars
  <1> QED
    BY <1>1, <1>2, PTL DEF KwSpec, Spec

(* The driver takes its requests in turn, and believes no reply but its    *)
(* own while the line is orderly.                                          *)
THEOREM DriverPolls == KwSpec => ImplementsPolling /\ []AnswerIsOwn
  BY DriverProjection, MasterImplementsPolling, AnswersAreOwn, PTL

(* The buffers of driver.c: which slave each of them is read from.         *)
Readers == [d \in {1, 3, 4, 5, 6, 7, 8} |->
              CASE d = 1 -> {2} [] d = 3 -> {3, 4} [] d = 4 -> {5}
                [] d = 5 -> {2} [] d = 6 -> {3} [] d = 7 -> {4} [] d = 8 -> {5}]

LEMMA ReadersOf ==
  /\ DOMAIN Readers = {1, 3, 4, 5, 6, 7, 8}
  /\ Readers[1] = {2} /\ Readers[3] = {3, 4} /\ Readers[4] = {5}
  /\ Readers[5] = {2} /\ Readers[6] = {3} /\ Readers[7] = {4}
  /\ Readers[8] = {5}
  BY DEF Readers

LEMMA InputRequests ==
  ASSUME Schedule = KwSchedule, TypeOK
  PROVE  /\ DOMAIN Readers \subseteq Dests /\ 2 \notin Dests
         /\ req.dest \in DOMAIN Readers => req.slave \in Readers[req.dest]
  <1>1. Len(KwSchedule) = 12 /\ Steps = 1 .. 12
    BY DEF KwSchedule, bsp_input_update, bsp_output_update, Steps
  <1>2. /\ KwSchedule[1].dest = 1 /\ KwSchedule[2].dest = 5
        /\ KwSchedule[3].dest = 6 /\ KwSchedule[4].dest = 3
        /\ KwSchedule[5].dest = 3 /\ KwSchedule[6].dest = 7
        /\ KwSchedule[7].dest = 4 /\ KwSchedule[8].dest = 8
    BY DEF KwSchedule, bsp_input_update, bsp_output_update, Bits, Registers
  <1>3. /\ KwSchedule[9].dest = 9 /\ KwSchedule[10].dest = 10
        /\ KwSchedule[11].dest = 11 /\ KwSchedule[12].dest = 12
    BY DEF KwSchedule, bsp_input_update, bsp_output_update, Coils
  <1>4. /\ KwSchedule[1].slave = 2 /\ KwSchedule[2].slave = 2
        /\ KwSchedule[3].slave = 3 /\ KwSchedule[4].slave = 3
        /\ KwSchedule[5].slave = 4 /\ KwSchedule[6].slave = 4
        /\ KwSchedule[7].slave = 5 /\ KwSchedule[8].slave = 5
    BY DEF KwSchedule, bsp_input_update, bsp_output_update, Bits, Registers
  <1>5. step \in 1 .. 12
    BY <1>1 DEF TypeOK
  <1>6. DOMAIN Readers \subseteq Dests
    <2>1. {1, 2, 3, 4, 6, 7, 8} \subseteq Steps
      BY <1>1
    <2>2. /\ 1 \in Dests /\ 3 \in Dests /\ 4 \in Dests /\ 5 \in Dests
          /\ 6 \in Dests /\ 7 \in Dests /\ 8 \in Dests
      BY <1>2, <2>1 DEF Dests
    <2> QED
      BY <2>2, ReadersOf
  <1>7. ASSUME 2 \in Dests PROVE FALSE
    <2>1. PICK i \in 1 .. 12 : KwSchedule[i].dest = 2
      BY <1>1, <1>7 DEF Dests
    <2> QED
      BY <1>2, <1>3, <2>1
  <1>8. ASSUME req.dest \in DOMAIN Readers
         PROVE  req.slave \in Readers[req.dest]
    <2>1. step \in 1 .. 8
      BY <1>3, <1>5, <1>8, ReadersOf DEF req
    <2> QED
      BY <1>2, <1>4, <2>1, ReadersOf DEF req
  <1> QED
    BY <1>6, <1>7, <1>8

OwnBuffers == \A d \in DOMAIN Readers : dest[d] \in {0} \cup Readers[d]

KwIInv == IInv /\ (orderly => OwnBuffers) /\ OwnPlaces

(* The image of buffers that are their own shows each module its own slave.*)
LEMMA ImagePlaces ==
  ASSUME NEW b, 2 \notin DOMAIN b, {1, 3, 4} \subseteq DOMAIN b,
         \A d \in DOMAIN Readers : b[d] \in {0} \cup Readers[d],
         NEW m \in Modules
  PROVE  /\ Image(b)[m].regs \in {0, m + 1}
         /\ Image(b)[m].bits \in {0, m + 1} \/ (m = 3 /\ Image(b)[m].bits = 3)
  <1>1. /\ Image(b)[m].regs = b[4 + m]
        /\ Image(b)[m].bits = IF m \in DOMAIN b THEN b[m] ELSE 0
    BY DEF Image
  <1>2. m \in {1, 2, 3, 4}
    BY DEF Modules
  <1>3. /\ b[1] \in {0, 2} /\ b[3] \in {0, 3, 4} /\ b[4] \in {0, 5}
        /\ b[5] \in {0, 2} /\ b[6] \in {0, 3} /\ b[7] \in {0, 4}
        /\ b[8] \in {0, 5}
    BY ReadersOf
  <1>4. CASE m = 1
    BY <1>1, <1>3, <1>4
  <1>5. CASE m = 2
    BY <1>1, <1>3, <1>5
  <1>6. CASE m = 3
    BY <1>1, <1>3, <1>6
  <1>7. CASE m = 4
    BY <1>1, <1>3, <1>7
  <1> QED
    BY <1>2, <1>4, <1>5, <1>6, <1>7

LEMMA NextKwIInv ==
  ASSUME Schedule = KwSchedule, KwIInv, [KwNext]_kwvars
  PROVE  KwIInv'
  <1>1. CASE UNCHANGED kwvars
    <2>1. UNCHANGED vars /\ UNCHANGED shm
      BY <1>1 DEF kwvars
    <2>2. IInv' /\ orderly' = orderly /\ dest' = dest
      BY <2>1, NextIInv DEF KwIInv, vars
    <2> QED
      BY <2>1, <2>2 DEF KwIInv, OwnBuffers, OwnPlaces
  <1>2. CASE KwNext
    <2>1. Next /\ CopyInputs
      BY <1>2 DEF KwNext
    <2>2. IInv' /\ TypeOK /\ TypeOK'
      BY <2>1, NextIInv DEF KwIInv, IInv
    <2>3. CASE ~orderly'
      BY <2>2, <2>3 DEF KwIInv, OwnPlaces
    <2>4. CASE orderly'
      <3>1. orderly /\ Aligned /\ OwnBuffers
        BY <2>1, <2>2, <2>4, OrderlyBefore DEF KwIInv, IInv
      <3>2. \/ UNCHANGED dest
            \/ dest' = [dest EXCEPT ![req.dest] = req.slave]
        BY <2>1, <2>2, <2>4, <3>1, NextAligned
      <3>3. OwnBuffers'
        BY <2>2, <3>1, <3>2, InputRequests DEF OwnBuffers, TypeOK
      <3>4. \A m \in Modules :
              /\ Image(dest')[m].regs \in {0, m + 1}
              /\ Image(dest')[m].bits \in {0, m + 1}
                   \/ (m = 3 /\ Image(dest')[m].bits = 3)
        <4>1. /\ 2 \notin DOMAIN dest' /\ {1, 3, 4} \subseteq DOMAIN dest'
          <5>1. DOMAIN dest' = Dests
            BY <2>2 DEF TypeOK, Dests, Steps
          <5> QED
            BY <2>2, <5>1, InputRequests, ReadersOf
        <4>2. \A d \in DOMAIN Readers : dest'[d] \in {0} \cup Readers[d]
          BY <3>3 DEF OwnBuffers, Readers
        <4> QED
          BY <4>1, <4>2, ImagePlaces
      <3>5. OwnPlaces'
        <4>1. shm' = shm \/ shm' = Image(dest')
          BY <2>1 DEF CopyInputs
        <4> QED
          BY <3>1, <3>4, <4>1 DEF KwIInv, OwnPlaces
      <3> QED
        BY <2>2, <3>3, <3>5 DEF KwIInv
    <2> QED
      BY <2>3, <2>4
  <1> QED
    BY <1>1, <1>2

(* Whatever fails, what the PLC is shown of a module comes from that       *)
(* module while the line is orderly, for the twelve requests of driver.c,  *)
(* with the one exception.                                                 *)
THEOREM PlacesAreOwn == ASSUME Schedule = KwSchedule PROVE KwSpec => []OwnPlaces
  <1>1. KwInit => KwIInv
    <2> SUFFICES ASSUME KwInit PROVE KwIInv
      OBVIOUS
    <2>1. IInv
      BY InitIInv DEF KwInit
    <2>2. dest = [d \in Dests |-> 0] /\ TypeOK
      BY <2>1 DEF KwInit, Init, IInv
    <2>3. OwnBuffers
      BY <2>2, InputRequests DEF OwnBuffers
    <2>4. OwnPlaces
      BY DEF KwInit, OwnPlaces
    <2> QED
      BY <2>1, <2>3, <2>4 DEF KwIInv
  <1>2. KwIInv /\ [KwNext]_kwvars => KwIInv'
    BY NextKwIInv
  <1>3. KwIInv => OwnPlaces
    BY DEF KwIInv
  <1> QED
    BY <1>1, <1>2, <1>3, PTL DEF KwSpec

=============================================================================
