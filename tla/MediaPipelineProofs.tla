------------------------ MODULE MediaPipelineProofs -------------------------
(* What holds of the pipeline for every buffer and every number of packets. *)
EXTENDS MediaPipeline, SequenceTheorems, TLAPS

\* TypeOK is not inductive: a loop has a packet in its hands exactly where its
\* code has one, and both loops start together.
IInv ==
  /\ TypeOK
  /\ sink = "created" => stream = "created"
  /\ sink = "push" <=> pushing # <<>>
  /\ stream = "write" <=> writing # <<>>

AtMostOne == {<<>>} \cup {<<p>> : p \in Packets}

\* At most one packet is a sequence of packets.
LEMMA OneIsSeq == AtMostOne \subseteq Seq(Packets)
<1>1. \A p \in Packets : <<p>> \in Seq(Packets)
  OBVIOUS
<1>2. QED
  BY <1>1, EmptySeq DEF AtMostOne

\* Initially.
LEMMA InitInv == Init => IInv
<1> SUFFICES ASSUME Init PROVE IInv
  OBVIOUS
<1>1. buffer \in Seq(Packets) /\ Len(buffer) = 0 /\ accepted \in Seq(Packets)
  BY EmptySeq DEF Init
<1>2. pushing = <<>> /\ writing = <<>> /\ sink # "push" /\ stream # "write"
  BY DEF Init
<1>3. read \in 0..MaxPackets /\ Len(buffer) <= BufferSize
  BY <1>1, PipelineAssumption DEF Init
<1>4. QED
  BY <1>1, <1>2, <1>3 DEF Init, IInv, TypeOK, SinkSteps, StreamSteps

\* Each step keeps it; only Push and Pop touch the buffer.
LEMMA NextInv == IInv /\ [Next]_vars => IInv'
<1> SUFFICES ASSUME IInv, [Next]_vars PROVE IInv'
  OBVIOUS
<1> USE PipelineAssumption DEF IInv, TypeOK, sinkVars, streamVars, SinkSteps, StreamSteps
<1>1. CASE Application
  BY <1>1 DEF Application, SetTrack, Start, Cancel
<1>2. CASE SinkChecks \/ WakeWithoutTrack \/ ReadFails \/ PushTimesOut
  BY <1>2 DEF SinkChecks, WakeWithoutTrack, ReadFails, PushTimesOut
<1>3. CASE ReadPacket
  <2>1. read + 1 \in Packets /\ read' \in 0..MaxPackets
    BY <1>3 DEF ReadPacket, Packets
  <2>2. pushing' # <<>>
    BY <1>3 DEF ReadPacket
  <2>3. QED
    BY <1>3, <2>1, <2>2 DEF ReadPacket
<1>4. CASE Push
  <2>0. PICK p \in Packets : pushing = <<p>>
    BY <1>4 DEF Push
  <2>1. pushing \in Seq(Packets) /\ Len(pushing) = 1
    BY <2>0
  <2>2. buffer' \in Seq(Packets) /\ Len(buffer') = Len(buffer) + 1
    BY <1>4, <2>1, ConcatProperties DEF Push
  <2>3. Len(buffer') <= BufferSize
    BY <1>4, <2>2, LenProperties DEF Push, HasRoom
  <2>4. QED
    BY <1>4, <2>2, <2>3 DEF Push
<1>5. CASE Pop
  <2>1. /\ Head(buffer) \in Packets
        /\ Tail(buffer) \in Seq(Packets) /\ Len(Tail(buffer)) = Len(buffer) - 1
    BY <1>5, HeadTailProperties DEF Pop
  <2>2. Len(buffer) \in Nat
    BY LenProperties
  <2>3. writing' # <<>>
    BY <1>5 DEF Pop, PopsFirst
  <2>4. QED
    BY <1>5, <2>1, <2>2, <2>3 DEF Pop, PopsFirst
<1>6. CASE WriteAccepted
  <2>1. accepted' \in Seq(Packets)
    BY <1>6, ConcatProperties, OneIsSeq DEF WriteAccepted, AtMostOne
  <2>2. QED
    BY <1>6, <2>1 DEF WriteAccepted
<1>7. CASE StreamChecks \/ PopTimesOut \/ WriteRefused \/ StreamCloses \/ HostClosed
  BY <1>7 DEF StreamChecks, StreamGoesOn, PopTimesOut, WriteRefused, StreamCloses,
     HostClosed
<1>8. CASE UNCHANGED vars
  BY <1>8 DEF vars
<1>9. QED
  BY <1>1, <1>2, <1>3, <1>4, <1>5, <1>6, <1>7, <1>8 DEF Next, SinkStep, StreamStep

LEMMA Invariance == Spec => []IInv
BY InitInv, NextInv, PTL DEF Spec

\* Every variable keeps its type and the buffer its size, for any size.
THEOREM TypeCorrect == Spec => []TypeOK
<1>1. IInv => TypeOK
  BY DEF IInv
<1>2. QED
  BY Invariance, <1>1, PTL
-----------------------------------------------------------------------------
(* The queue. *)

\* What is left of a sequence that loses its last element.
LEMMA WithoutLast ==
  ASSUME NEW S, NEW s \in Seq(S), NEW p \in S
  PROVE  LET t == s \o <<p>>
         IN  /\ Len(t) \in 1..Len(t)
             /\ SubSeq(t, 1, Len(t) - 1) \o SubSeq(t, Len(t) + 1, Len(t)) = s
<1> DEFINE t == s \o <<p>>
<1> HIDE DEF t
<1>1. <<p>> \in Seq(S) /\ Len(<<p>>) = 1
  OBVIOUS
<1>2. /\ t \in Seq(S) /\ Len(t) = Len(s) + 1 /\ Len(s) \in Nat
      /\ \A i \in 1..Len(s) : t[i] = s[i]
  BY <1>1, ConcatProperties, LenProperties DEF t
<1>3. SubSeq(t, Len(t) + 1, Len(t)) = <<>>
  BY <1>2, SubSeqEmpty
<1>4. /\ SubSeq(t, 1, Len(s)) \in Seq(S) /\ Len(SubSeq(t, 1, Len(s))) = Len(s)
      /\ \A i \in 1..Len(s) : SubSeq(t, 1, Len(s))[i] = t[i]
  <2>1. \A i \in 1..Len(s) : t[i] \in S
    BY <1>2, ElementOfSeq
  <2>2. QED
    BY <1>2, <2>1, SubSeqProperties
<1>5. SubSeq(t, 1, Len(s)) = s
  BY <1>2, <1>4, SeqEqual
<1>6. SubSeq(t, 1, Len(t) - 1) = s
  BY <1>2, <1>5
<1>7. QED
  BY <1>2, <1>3, <1>6, ConcatEmptySeq DEF t

\* What is left of a sequence that loses its first element.
LEMMA WithoutFirst ==
  ASSUME NEW S, NEW s \in Seq(S), NEW p \in S
  PROVE  LET t == <<p>> \o s
         IN  /\ t # <<>> /\ Head(t) = p /\ Tail(t) = s
             /\ 1 \in 1..Len(t)
             /\ SubSeq(t, 1, 0) \o SubSeq(t, 2, Len(t)) = s
<1> DEFINE t == <<p>> \o s
<1> HIDE DEF t
<1>1. <<p>> \in Seq(S) /\ Len(<<p>>) = 1 /\ <<p>>[1] = p
  OBVIOUS
<1>2. /\ t \in Seq(S) /\ Len(t) = Len(s) + 1 /\ Len(s) \in Nat
      /\ \A i \in 1..Len(s) + 1 : t[i] = IF i <= 1 THEN p ELSE s[i - 1]
  BY <1>1, ConcatProperties, LenProperties DEF t
<1>3. t # <<>>
  BY <1>2, EmptySeq
<1>4. Head(t) = p
  BY <1>2, <1>3
<1>5. /\ Tail(t) \in Seq(S) /\ Len(Tail(t)) = Len(s)
      /\ \A i \in 1..Len(s) : Tail(t)[i] = s[i]
  BY <1>2, <1>3, HeadTailProperties
<1>6. Tail(t) = s
  BY <1>5, SeqEqual
<1>7. SubSeq(t, 2, Len(t)) = s
  BY <1>2, <1>3, <1>6, TailIsSubSeq
<1>8. SubSeq(t, 1, 0) = <<>>
  BY SubSeqEmpty
<1>9. QED
  BY <1>2, <1>3, <1>4, <1>6, <1>7, <1>8, ConcatEmptySeq DEF t

\* Every step of the pipeline is one of the queue or leaves it alone: a packet
\* enters when it is read, moves along unnoticed, and leaves at the front for
\* the host, or is lost at the back when the buffer stays full and at the front
\* when the host refuses it.
THEOREM ImplementsFifo == Spec => FifoSpec
<1>1. Init => Fifo!Init
  <2> SUFFICES ASSUME Init PROVE Fifo!Init
    OBVIOUS
  <2>1. OnTheWay = <<>>
    BY EmptySeq, ConcatEmptySeq DEF Init, OnTheWay
  <2>2. QED
    BY <2>1 DEF Init, Fifo!Init
<1>2. IInv /\ [Next]_vars => [Fifo!Next]_(Fifo!vars)
  <2> SUFFICES ASSUME IInv, [Next]_vars PROVE [Fifo!Next]_(Fifo!vars)
    OBVIOUS
  <2> USE DEF sinkVars, streamVars
  <2>1. /\ pushing \in Seq(Packets) /\ writing \in Seq(Packets)
        /\ buffer \in Seq(Packets) /\ accepted \in Seq(Packets)
    BY OneIsSeq DEF IInv, TypeOK, AtMostOne
  <2>2. ASSUME UNCHANGED <<read, pushing, buffer, writing, accepted>>
        PROVE  [Fifo!Next]_(Fifo!vars)
    BY <2>2 DEF Fifo!vars, OnTheWay
  <2>3. CASE ReadPacket
    <3>1. read + 1 \in Packets /\ pushing = <<>>
      BY <2>3, PipelineAssumption DEF ReadPacket, IInv, TypeOK, Packets
    <3>2. writing \o buffer \in Seq(Packets)
      BY <2>1, ConcatProperties
    <3>3. OnTheWay = writing \o buffer
      BY <3>1, <3>2, ConcatEmptySeq, <2>1, ConcatAssociative DEF OnTheWay
    <3>4. OnTheWay' = (writing \o buffer) \o <<read + 1>>
      BY <2>3, <2>1, <3>1, ConcatAssociative DEF ReadPacket, OnTheWay
    <3>5. OnTheWay' = Append(OnTheWay, read + 1)
      BY <3>1, <3>2, <3>3, <3>4, AppendIsConcat
    <3>6. Fifo!Enter
      BY <2>3, <3>5 DEF ReadPacket, Fifo!Enter
    <3>7. QED
      BY <3>6 DEF Fifo!Next
  <2>4. CASE Push
    <3>1. OnTheWay' = writing \o ((buffer \o pushing) \o <<>>)
      BY <2>4, <2>1, ConcatProperties, ConcatAssociative DEF Push, OnTheWay
    <3>2. OnTheWay' = writing \o (buffer \o pushing)
      BY <2>1, <3>1, ConcatProperties, ConcatEmptySeq
    <3>3. OnTheWay' = OnTheWay
      BY <2>1, <3>2, ConcatAssociative, SMTT(20) DEF OnTheWay
    <3>4. QED
      BY <2>4, <3>3 DEF Push, Fifo!vars
  <2>5. CASE PushTimesOut
    <3>1. PICK p \in Packets : pushing = <<p>>
      BY <2>5 DEF PushTimesOut, IInv, TypeOK
    <3>2. writing \o buffer \in Seq(Packets)
      BY <2>1, ConcatProperties
    <3>3. OnTheWay = (writing \o buffer) \o <<p>>
      BY <2>1, <3>1, ConcatAssociative DEF OnTheWay
    <3>4. OnTheWay' = writing \o buffer
      BY <2>5, <2>1, <3>2, ConcatEmptySeq, ConcatAssociative DEF PushTimesOut, OnTheWay
    <3>5. Fifo!Lose
      <4>1. /\ Len(OnTheWay) \in 1..Len(OnTheWay)
            /\ SubSeq(OnTheWay, 1, Len(OnTheWay) - 1)
                 \o SubSeq(OnTheWay, Len(OnTheWay) + 1, Len(OnTheWay)) = OnTheWay'
        BY <3>2, <3>3, <3>4, WithoutLast
      <4>2. QED
        BY <2>5, <4>1 DEF PushTimesOut, Fifo!Lose
    <3>6. QED
      BY <3>5 DEF Fifo!Next
  <2>6. CASE Pop
    <3>1. writing = <<>> /\ buffer = <<Head(buffer)>> \o Tail(buffer)
      BY <2>6, <2>1 DEF Pop, IInv
    <3>2. /\ OnTheWay' = <<Head(buffer)>> \o (Tail(buffer) \o pushing)
          /\ Head(buffer) \in Packets /\ Tail(buffer) \in Seq(Packets)
      BY <2>6, <2>1, HeadTailProperties, ConcatAssociative DEF Pop, PopsFirst, OnTheWay
    <3>3. OnTheWay = buffer \o pushing
      BY <2>1, <3>1, ConcatProperties, ConcatEmptySeq, ConcatAssociative DEF OnTheWay
    <3>4. <<Head(buffer)>> \in Seq(Packets)
      BY <3>2
    <3>5. (<<Head(buffer)>> \o Tail(buffer)) \o pushing = <<Head(buffer)>> \o (Tail(buffer) \o pushing)
      BY <2>1, <3>2, <3>4, ConcatAssociative
    <3>6. OnTheWay' = OnTheWay
      BY <3>1, <3>2, <3>3, <3>5
    <3>7. QED
      BY <2>6, <3>6 DEF Pop, Fifo!vars
  <2>7. CASE WriteAccepted \/ WriteRefused
    <3>1. PICK p \in Packets : writing = <<p>>
      BY <2>7 DEF WriteAccepted, WriteRefused, IInv, TypeOK
    <3>2. buffer \o pushing \in Seq(Packets)
      BY <2>1, ConcatProperties
    <3>3. OnTheWay = <<p>> \o (buffer \o pushing)
      BY <2>1, <3>1, ConcatAssociative DEF OnTheWay
    <3>4. OnTheWay' = buffer \o pushing
      BY <2>7, <2>1, <3>2, ConcatEmptySeq, ConcatAssociative
      DEF WriteAccepted, WriteRefused, OnTheWay
    <3>5. CASE WriteAccepted
      <4>1. accepted' = Append(accepted, p)
        BY <3>5, <2>1, <3>1, AppendIsConcat DEF WriteAccepted
      <4>2. Fifo!Deliver
        <5>1. OnTheWay # <<>> /\ Head(OnTheWay) = p /\ Tail(OnTheWay) = OnTheWay'
          BY <3>2, <3>3, <3>4, WithoutFirst
        <5>2. QED
          BY <3>5, <4>1, <5>1 DEF WriteAccepted, Fifo!Deliver
      <4>3. QED
        BY <4>2 DEF Fifo!Next
    <3>6. CASE WriteRefused
      <4>1. Fifo!Lose
        <5>1. /\ 1 \in 1..Len(OnTheWay)
              /\ SubSeq(OnTheWay, 1, 0) \o SubSeq(OnTheWay, 2, Len(OnTheWay)) = OnTheWay'
          BY <3>2, <3>3, <3>4, WithoutFirst
        <5>2. \E i \in 1..Len(OnTheWay) :
                OnTheWay' = SubSeq(OnTheWay, 1, i - 1) \o SubSeq(OnTheWay, i + 1, Len(OnTheWay))
          <6>1. 1 - 1 = 0 /\ 1 + 1 = 2
            OBVIOUS
          <6>2. QED
            BY <5>1, <6>1
        <5>3. QED
          BY <3>6, <5>2 DEF WriteRefused, Fifo!Lose
      <4>2. QED
        BY <4>1 DEF Fifo!Next
    <3>7. QED
      BY <2>7, <3>5, <3>6
  <2>8. QED
    BY <2>2, <2>3, <2>4, <2>5, <2>6, <2>7
    DEF Next, Application, SetTrack, Start, Cancel, SinkStep, SinkChecks, WakeWithoutTrack,
        ReadFails, StreamStep, StreamChecks, PopTimesOut, StreamCloses, HostClosed, vars
<1>3. QED
  BY <1>1, <1>2, Invariance, PTL DEF Spec, FifoSpec, Fifo!Spec
=============================================================================
